\* One device and two sources that see anything; polls 1 or 2 apart in a
\* window of 3, and two blind polls before a warning.
SPECIFICATION FairSpec
CONSTANTS
  Devices = {g1}
  NumSources = 2
  Levels = {0, 40, 100}
  Gaps = {1, 2}
  ResumeMS = 3
  WarnPolls = 2
INVARIANTS
  LeavesLargestRecentShare MergeLosesNothing WarnsAtMostOnce
PROPERTIES ComesBack
CHECK_DEADLOCK FALSE
