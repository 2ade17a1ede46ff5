SPECIFICATION ServicesSpec
CONSTANTS
  CancelInHooks = TRUE
  Remotes = {"r1", "r2"}
  Advanced = {"r1"}
  NoId = "none"
  scan_max_bad_response_count = 2
  MaxStarts = 3
  MaxRestarts = 1
  MaxLosses = 2
  HalfModulus = 32
  Ratios = {1, 2, 8}
  PacketFrames = 4
  ResyncThreshold = 6
  Tolerance = 1
  EarlyBias = 1
  SilentAfterFlush = 1
  trend_interval = 2
  MaxJolts = 1
  MaxLate = 20
  Jolts <- MCJolts
  buffer_max_size = 4
  StandardPacket = 3
  HeadSize = 1
  BodySize = 2
  MaxBytes = 7
CHECK_DEADLOCK FALSE
INVARIANTS
  ActivityMatchesPlay
  SyncIsExact
  RingKeepsTheStream
PROPERTIES
  NoticedStateEnds
  RemoteIsCurrent
  
  ReceivedIsRead
