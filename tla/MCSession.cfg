SPECIFICATION MCSpec
CONSTANTS
  esc = esc
  body = body
  bel = bel
  text = text
  Chars <- MCChars
  Marker <- MCMarker
  Shells = {"gated", "plain"}
  MaxWrites = 2
  MaxReplies = 1
  MaxShellOutput = 5
  MaxFrame = 3
  HeaderBytes = 1
  Payloads = {0, 3}
  MaxQueueBytes = 8
  HighWaterMark = 4
  MaxFrames = 5
  Sizes = {1, 2}
  HighWater = 2
  LowWater = 1
  HardLimit = 2
  MaxBatch = 2
  MaxBytes = 3
  MaxOutput = 2
  MaxKills = 1
INVARIANTS
  GateExact
  QueueSound
  InputSound
  OutputThenExit
PROPERTIES
  GateOpens
  InputDrains
  ProcessEnds
CHECK_DEADLOCK FALSE
