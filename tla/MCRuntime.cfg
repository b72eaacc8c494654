\* Periods of 3, and a clock that runs over two more boundaries.
SPECIFICATION FairSpec
CONSTANTS
  Creators <- MCCreators
  OneShot = {"memory"}
  Handlers <- MCHandlers
  QuitSignals = {"INT", "TERM"}
  MaxRounds = 3
  Interval = 3
  MaxTime = 7
INVARIANTS
  NoQuitLost QuitsWithinTwoRounds NoThreadSurvives
PROPERTIES SchedulesOncePerCell QuitEnds
