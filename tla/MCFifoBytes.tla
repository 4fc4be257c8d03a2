---------------------------- MODULE MCFifoBytes ----------------------------
(***************************************************************************)
(* Instances of FifoBytes for TLC.                                         *)
(***************************************************************************)
EXTENDS FifoBytes, Bitwise, TLC

\* One, four and eight slots for bytes, one to four for samples.
MCSizes == [uint8 |-> {1, 4, 8}, complex |-> {8, 16, 32}]

\* The indices' mask: what Wrap takes for a remainder is the code's &.
ASSUME MaskIsRemainder ==
  \A k \in 0 .. 5 : \A i \in 0 .. 2 ^ k : i & (2 ^ k - 1) = i % 2 ^ k

\* Items are only copied and compared.
MCSymmetry == Permutations(Item)
=============================================================================
