SPECIFICATION FairSpec
CONSTANTS
  Ids = {i1}
  Reqs = {r1, r2}
  Socks = {k1, k2}
  MaxSpawns = 1
  None = None
INVARIANTS
  SessionsLookedAfter
PROPERTIES
  AttachmentsRespected
  HostSettles
CHECK_DEADLOCK FALSE
