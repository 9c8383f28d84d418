--------------------------- MODULE MCLossReaction ---------------------------
(* Round trip times below and above the back off interval, for TLC. *)
EXTENDS LossReaction
=============================================================================
