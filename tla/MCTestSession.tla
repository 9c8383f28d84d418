---------------------------- MODULE MCTestSession ---------------------------
(* Two polls: one of the session, one that an earlier session left running. *)
EXTENDS TestSession

CONSTANTS p1, p2
=============================================================================
