SPECIFICATION HostFairSpec
CONSTANTS
  Callers = {c1, c2}
  MaxAttempts = 4
  MaxStops = 2
INVARIANTS
  NoProcessIsLost
  TimersSound
PROPERTIES
  StartsSettle
CHECK_DEADLOCK FALSE
