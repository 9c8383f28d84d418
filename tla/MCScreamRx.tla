----------------------------- MODULE MCScreamRx -----------------------------
(* Eight sequence numbers and a history of four, for TLC. *)
EXTENDS ScreamRx
=============================================================================
