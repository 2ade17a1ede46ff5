SPECIFICATION FairSpec
CONSTANTS
  Receivers = {audio}
  SeqMod = 16
  BufferFrames = 2
  TsMod = 128
  NumPackets = 4
  FirstSeq = 1
  PacketLength = 2
  BadPackets = TRUE
  Latency = 4
  LeadTime = 2
  BufferDesired = 2
  CrazyInterval = 20
  MinimumWait = 2
  RepeatInterval = 2
  LastCheck = 0
  MaxAhead = 5
  MaxLate = 10
  StartTime = 10
  MaxTime = 22
  MaxArrivals = 4
  MaxFlushes = 0
  MaxToggles = 1
PROPERTIES BufferDrains ReleasesTheRightPacket
