-------------------------- MODULE MCFirAccelerator --------------------------
(***************************************************************************)
(* Instances of FirAccelerator for TLC: chunks of two samples, so that a   *)
(* call of work has several and the last one is short, and a filter of     *)
(* three taps, so that a window reaches over a chunk.                      *)
(***************************************************************************)
EXTENDS FirAccelerator
=============================================================================
