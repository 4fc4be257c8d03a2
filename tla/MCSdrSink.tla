----------------------------- MODULE MCSdrSink -----------------------------
(***************************************************************************)
(* Instances of SdrSink for TLC: a FIFO buffer smaller than the input, so  *)
(* that work is refused samples, and a worker block smaller than the FIFO  *)
(* buffer, so that one read leaves samples behind.                         *)
(***************************************************************************)
EXTENDS SdrSink
=============================================================================
