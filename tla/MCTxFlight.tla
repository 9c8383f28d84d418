----------------------------- MODULE MCTxFlight -----------------------------
(* 64 sequence numbers and a table of 32 slots, the other numbers           *)
(* of the code scaled down with them, for TLC.                              *)
EXTENDS TxFlight
=============================================================================
