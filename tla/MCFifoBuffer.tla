---------------------------- MODULE MCFifoBuffer ----------------------------
(***************************************************************************)
(* Instances of FifoBuffer for TLC.  Buffers of one, two and three slots   *)
(* wrap after one, two or three items, so that every position of head and  *)
(* tail meets every other; two words tell an order from its reverse.       *)
(***************************************************************************)
EXTENDS FifoBuffer

\* Slots in bytes: 1, 2 and 3 gr_storage words, and a size the division
\* by DivConstant rounds down.
MCByteSizes == {4, 8, 14}
=============================================================================
