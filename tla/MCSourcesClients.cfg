SPECIFICATION Spec
CONSTANTS
  a = a
  b = b
  Others <- MCOthers
  Full = 2
  MinBusyPercent <- MCAboveHalf
  Readings <- MCReadings
  Hosts <- MCArcShared
  Work <- MCWork
  MaxGap = 2
SYMMETRY Symmetric
INVARIANT ProcessesAreSeen
