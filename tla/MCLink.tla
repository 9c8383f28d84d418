------------------------------- MODULE MCLink -------------------------------
(* Sixteen sequence numbers, a report of two and feedback for every packet, *)
(* for TLC.                                                                 *)
EXTENDS Link
=============================================================================
