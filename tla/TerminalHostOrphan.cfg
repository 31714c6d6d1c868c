SPECIFICATION Spec
CONSTANTS
  Ids = {i1}
  Reqs = {r1, r2}
  Socks = {k1}
  MaxSpawns = 2
  None = None

INVARIANT LiveSessionsAreListed
CHECK_DEADLOCK FALSE
