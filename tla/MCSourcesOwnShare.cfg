SPECIFICATION Spec
CONSTANTS
  a = a
  b = b
  Others <- MCOthers
  Full = 2
  MinBusyPercent <- MCMinBusyPercent
  Readings <- MCFullyBusy
  Hosts <- MCRadeonHip
  Work <- MCWork
  MaxGap = 2
SYMMETRY Symmetric
INVARIANT MeasuresEverybody
