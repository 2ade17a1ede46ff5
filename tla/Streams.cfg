INIT StreamsInit
NEXT StreamsNext
CONSTANTS
  Nobody = Nobody
  Conns = {c1, c2, c3}
  AllowInterruption = TRUE
  DbusInterface = FALSE
  Orderly = TRUE
  MaxPolls = 2
  buflen = 4
  BodySizes = {0, 2, 5}
  ReplySizes = {1, 9}
  pktfree = 5
  Pipelining = FALSE
  SplitsCRLF = FALSE
  MaxRequestsSent = 3
  Pins = {1, 2}
  ServerPin = 1
  Salts = {9, 12, 20}
  Exponents = {3, 7, 10}
  Devices = {"d1", "d2"}
  SignKeys = {"k1", "k2"}
  MaxAsked = 4
  ENCRYPTED_LEN_MAX = 2
  MessageSizes = {1, 3, 4}
  InSize = 6
  Counts = {1, 4}
  SingleBytes = FALSE
  MaxPlain = 7
  ChunkMax = 2
  BufSize = 16
  TlvTypes = {1, 2, 3}
  TlvSizes = {1, 2, 3, 4, 5}
  MaxValues = 3
  Connections = {"c1", "c2", "c3"}
  Categories = {"ptp_stream", "remote_control_stream"}
  Classic = TRUE
  Overlap = TRUE
  Recategorise = FALSE
  LockTimesOut = TRUE
  udp_port_base = 1
  udp_port_range = 5
  MaxSessions = 2
  Unit = 40
  Offset = 1000
  PingGap = 3
  MaxReturn = 2
  MaxDelay = 2
  History = 2
  HistoryShift = 1
  AgeNum = 101
  AgeDen = 100
  Settling = 0
  SampleMinimum = 1
  TsMod = 32
  FirstFrame = 30
  SourceLatency = 4
  FixedLatencyOffset = 2
  MinimumLatency = 0
  MaximumLatency = 5
  UserSuppliedLatency = 0
  AirPlayVersion = 360
  MaxFrames = 6
  BackendOffset = 2
  MaxNow = 8
  MaxPings = 3
  MaxStreams = 2
  Clocks = {"a", "b"}
  NoClock = "none"
  ClockOffset <- MCClockOffset
  Lines = {7, 9}
  Settle = 1
  MaxTicks = 3
  Receivers = {audio, control}
  Backoff = 3
  SendTimeout = 1
  MaxTime = 9
  BlockFrames = 3
  PacketFrames = 2
  PlayerFull = 1
  MaxLead = 7
  TooSoonTime = 2
  AudioLine = 1
  BadBlocks = FALSE
  NumBlocks = 4
  MaxAudioTime = 4
  MaxRequests = 3
SYMMETRY ConnSymmetry
CHECK_DEADLOCK FALSE
INVARIANTS
  LockDiscipline PlayingConnIsAlive
  RequestsAreServed  
  OnePlayer2 NothingLeftBehind
  
   PlaysByTheAnchor
  AudioAsAsked
PROPERTIES
  NextSessionUndisturbed AcceptedMeansPlayer ImplementsPlayLock
  RequestsBackOff
