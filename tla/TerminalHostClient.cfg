SPECIFICATION ClientSpec
CONSTANTS
  Connects = {}
  Probes = {p1}
  MaxConnections = 2
  MaxDisconnects = 0
INVARIANTS
  AuthenticatedIsConnected
CHECK_DEADLOCK FALSE
