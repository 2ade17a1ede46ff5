INIT OutputsInit
NEXT OutputsNext
CONSTANTS
  DacBuffer = 3
  Packet = 2
  Silence = 1
  SilenceThreshold = 1
  MaxErrors = 0
  Trials = 2
  SetupCanFail = FALSE
  MaxSent = 4
  MaxPlayed = 3
  MaxBreaks = 3
  MaxStarts = 2
  Volumes <- MCVolumes
  Configs <- MCConfigs
  MixerCanFail = TRUE
  MaxRequests = 2
  MaxOpens = 2
  AudioSize = 4
  UncorkAt = 2
  PaPackets = {1, 2}
  PaRequests = {1, 3}
  MaxGiven = 7
  MaxPaFlushes = 1
  Items = {"minm", "asdt", "astm", "prgr"}
  Texts = {"x"}
  Pictures = {"p1", "p2"}
  HubVolumes <- MCHubVolumes
  WritesCanFail = FALSE
  PacketItems = 2
  MaxMessages = 3
  NoText = NoText
  Speakers = {"us", "s1", "s2"}
  Us = "us"
  Overalls = {35, 80, 100}
  Relatives = {0, 40, 100}
  Wanted = {0, 1, 30, 50, 101}
  MaxSpeakers = 3
  MaxTouches = 1
CHECK_DEADLOCK FALSE
INVARIANTS
  DeviceAsBelieved 
  HubIsCurrent VolumeAsAsked
PROPERTIES
  StatsCountWhatIsPlayed PulseIsHeardInOrder
