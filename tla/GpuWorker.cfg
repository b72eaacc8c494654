\* Loads and shares for which each case of the budget occurs: no load, a load
\* with nothing, some and all of it left beside the others, and a share above
\* 100% to be clamped.
SPECIFICATION FairSpec
CONSTANTS
  Period = 100
  MaxPercent = 100
  Loads = {0, 80}
  Percents = {0, 50, 120}
  MaxFailures = 2
  MemoryBytes = 1
INVARIANTS
  LeavesOthersTheirShare NoBlockBesideOthers GivenUpAfterFailuresInARow
PROPERTIES StopsWhenAsked GivesBlockBack AloneSettles
CHECK_DEADLOCK FALSE
