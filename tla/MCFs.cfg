SPECIFICATION MCSpec
CONSTANTS
  Streams = {s1, s2}
  MaxWatchers = 2
  MaxBatches = 3
  MaxReads = 2
  Paths <- MCPaths
  MaxReports = 3
  MaxFlights = 2
  MaxBuilds = 2
INVARIANTS
  ReadsInOrder
  WatcherShared
  ViewIsExact
  IndexIsExact
PROPERTIES
  ReadersEnd
  IndexRecovers
CHECK_DEADLOCK FALSE
