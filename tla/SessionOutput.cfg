SPECIFICATION FairSpec
CONSTANTS
  Socks = {k1}
  Calls = {c1}
  HighWater = 2
  LowWater = 0
  MaxItems = 1
  MaxChunks = 1
  None = None
PROPERTIES
  OutputResumes
CHECK_DEADLOCK FALSE
