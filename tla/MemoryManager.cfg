\* A small block that is filled inline and a large one of three chunks;
\* half-second ticks that may be late, and an interval of two seconds.
SPECIFICATION FairSpec
CONSTANTS
  Sizes = {1, 3}
  Threshold = 2
  IntervalSeconds = 2
  UnitsPerSecond = 2
  Gaps = {1, 3}
INVARIANTS SoleOwner OwnsItsBlock CommittedWhenDone TickNeverWaitsForFill
PROPERTIES KeepsChanging
