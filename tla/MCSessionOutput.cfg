SPECIFICATION MCSpec
CONSTANTS
  c1 = c1
  k1 = k1
  Socks = {k1, k2}
  Calls = {c1, c2}
  HighWater = 2
  LowWater = 0
  MaxItems = 2
  MaxChunks = 2
  None = None
INVARIANTS
  FlowSound
PROPERTIES
  AttachIsExact
  OutputSettles
CHECK_DEADLOCK FALSE
