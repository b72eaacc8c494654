SPECIFICATION FairSpec
CONSTANTS
  PerCore = 2
  Interval = 2
  Cores = 2
  CpuLoads = {1, 3}
  CpuCounts = {0, 1}
  Count = 2
  Masses <- MCMasses
  WalkInterval = 2
  Window = 2
  ProcInterval = 2
  KiInverse = 4
  Scale = 24
  OtherLoads = {0, 2}
  Shortfalls = {0, 1}
  Gaps = {1, 2}
  MaxAge = 3
  MaxDisturbances = 2
INVARIANTS PeriodKeepsAverage
PROPERTIES SamplesMatchTheLoad SettlesOnTarget
