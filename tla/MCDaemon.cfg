SPECIFICATION MCSpec
CONSTANTS
  Callers = {c1, c2}
  MaxDaemons = 3
  MaxEnds = 2
  Causes = {"signal", "request", "crash"}
  Left = TRUE
  first = first
  Clients = {first, b}
  MaxSockets = 4
  MaxFails = 1
  Connects = {k1, k2}
  Probes = {p1}
  MaxConnections = 3
  MaxDisconnects = 1
INVARIANTS
  TypeOK
  OneSpawner
  NoOrphan
  PairsSound
  ConnectionSound
PROPERTIES
  DaemonsSettle
  ConnectingEnds
CHECK_DEADLOCK FALSE
