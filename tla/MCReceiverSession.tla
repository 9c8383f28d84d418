-------------------------- MODULE MCReceiverSession --------------------------
(* Two polls: one of the session, one that an earlier session left running. *)
EXTENDS ReceiverSession

CONSTANTS p1, p2
=============================================================================
