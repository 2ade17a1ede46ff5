SPECIFICATION Spec
CONSTANTS
  Receivers = {audio, control}
  SeqMod = 32
  BufferFrames = 8
  TsMod = 128
  NumPackets = 5
  FirstSeq = 30
  PacketLength = 2
  BadPackets = FALSE
  Latency = 4
  LeadTime = 2
  BufferDesired = 2
  CrazyInterval = 20
  MinimumWait = 2
  RepeatInterval = 2
  LastCheck = 0
  MaxAhead = 4
  MaxLate = 5
  StartTime = 10
  MaxTime = 22
  MaxArrivals = 4
  MaxFlushes = 0
  MaxToggles = 0
SYMMETRY ReceiverSymmetry
INVARIANT HintSkipsNothingMissing
 
