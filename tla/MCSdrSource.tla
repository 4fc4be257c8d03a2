---------------------------- MODULE MCSdrSource ----------------------------
(***************************************************************************)
(* Instances of SdrSource for TLC: a FIFO buffer as large as one block of  *)
(* words, so that it overflows when work falls behind, and two blocks, one *)
(* after the other, so that the static state is inherited.                 *)
(***************************************************************************)
EXTENDS SdrSource
=============================================================================
