----------------------------- MODULE MCRtpQueue -----------------------------
(* A ring of three slots, two packet sizes, and one heap block more than    *)
(* the ring can hold, for TLC.                                              *)
EXTENDS RtpQueue, TLC

CONSTANTS b1, b2, b3, b4

MCBuffers == {b1, b2, b3, b4}
MCPacketSizes == {1, 3}
=============================================================================
