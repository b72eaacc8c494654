SPECIFICATION Spec
CONSTANTS
  a = a
  b = b
  Others <- MCOthers
  Full = 2
  MinBusyPercent <- MCMinBusyPercent
  Readings <- MCReadings
  Hosts <- MCHosts
  Work <- MCWork
  MaxGap = 2
SYMMETRY Symmetric
INVARIANTS
  BusyMeansOthers
  NoUserOverlooked
  MeasuresTheOthers
  KnowsUnlessItFails
