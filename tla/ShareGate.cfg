\* A sighting counts for 3 units and the clock runs for three windows, with
\* three shares: a sighting can cover several earlier ones, expire with a
\* smaller, later one behind it, and the deque can drain.
SPECIFICATION GateSpec
CONSTANTS
  ResumeMS = 3
  MaxTime = 9
  Shares = {0, 40, 100}

PROPERTIES ImplementsHysteresis
CHECK_DEADLOCK FALSE
