---------------------------- MODULE MCSendWindow ----------------------------
(* Full packets larger than the smallest window, a queue of four packets    *)
(* and a clock with several ticks to each interval, for TLC.                *)
EXTENDS SendWindow
=============================================================================
