SPECIFICATION FairSpec
CONSTANTS
  kRtpQueueSize = 3
  b1 = b1
  b2 = b2
  b3 = b3
  b4 = b4
  Buffers <- MCBuffers
  PacketSizes <- MCPacketSizes
  NULL = NULL
INVARIANTS
  TypeOK
  RingConsistent
  NextSizeFresh
  BytesConsistent
  PacketsOwnedOnce
PROPERTIES
  ClearTerminates
  ImplementsFifo
