---------------------------- MODULE MCScreamApp ----------------------------
(* Two sessions, the second while a poll of the first may still be running. *)
EXTENDS ScreamApp

CONSTANTS j1, j2
=============================================================================
