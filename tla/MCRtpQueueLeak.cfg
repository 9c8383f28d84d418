SPECIFICATION Spec
CONSTANTS
  kRtpQueueSize = 3
  b1 = b1
  b2 = b2
  b3 = b3
  b4 = b4
  Buffers <- MCBuffers
  PacketSizes <- MCPacketSizes
  NULL = NULL
INVARIANT NoPacketOutlivesController
