SPECIFICATION FairSpec
CONSTANTS
  CoreCounts = {1, 2}
  DefaultCpuLoad = 200
  MaxLoadPerCore = 100
  MaxGpuLoad = 100
  Numbers <- MCNumbers
  IndexLists <- MCIndexLists
  MaxDevices = 2
  Platforms <- MCPlatforms
  SpirvAvailable = TRUE
  WordBytes = 2
  WindowMaxBytes = 12
  BytesPerAccess = 4
  Capacity = 4
  GridThreads = 2
  SmallThreads = 1
  BlockBytes = 32
  MaxAlloc <- MCMaxAlloc
  Loops = {1, 3}
  Traffics <- MCTraffics
  MostWindows = 5
INVARIANTS
  DriverUsedWell OwnsUpToQueue AcceptedIsPossible SelectsRightHardware
PROPERTIES ImplementsContract SweepsWholeBlock
CHECK_DEADLOCK FALSE
