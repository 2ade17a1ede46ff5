SPECIFICATION Spec
CONSTANTS
  Receivers = {audio}
  SeqMod = 16
  BufferFrames = 4
  TsMod = 128
  NumPackets = 5
  FirstSeq = 12
  PacketLength = 2
  BadPackets = FALSE
  Latency = 4
  LeadTime = 2
  BufferDesired = 2
  CrazyInterval = 20
  MinimumWait = 2
  RepeatInterval = 2
  LastCheck = 0
  MaxAhead = 2
  MaxLate = 5
  StartTime = 10
  MaxTime = 22
  MaxArrivals = 3
  MaxFlushes = 1
  MaxToggles = 0
INVARIANT SlotHoldsItsPacket
PROPERTIES PlayerIsUndisturbed FlushCompleteUnlessWrapped
