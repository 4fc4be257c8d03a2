---------------------------- MODULE BoundedFifo ----------------------------
(***************************************************************************)
(* What lib/fifo_buffer.cc promises to the blocks that use it: a bounded   *)
(* first-in first-out queue whose calls are atomic.  A write stores the    *)
(* longest prefix of the batch that fits and returns its length; a read    *)
(* removes the oldest items, at most as many as were asked for, and        *)
(* returns them; changing the size throws the contents away.               *)
(*                                                                         *)
(* FifoBuffer.tla is the code and is shown to implement this module; the   *)
(* sink and source blocks are modelled on top of it.                       *)
(***************************************************************************)
EXTENDS Integers, Sequences

CONSTANTS
  Threads,   \* the callers: the scheduler's thread and the worker thread
  Batches,   \* what a write may be asked to store (sequences of items)
  Counts,    \* how many items a read may ask for
  Caps       \* the capacities a change of size may set

VARIABLES
  q,         \* the items stored and not yet read, oldest first
  cap,       \* how many items fit
  ret        \* what the last call of each thread returned

fifoVars == <<q, cap, ret>>

Smaller(a, b) == IF a < b THEN a ELSE b

\* Wrong variant: a read that takes a queue of one item to be empty.
FoundButLast(n) == IF q = << >> THEN 0 ELSE Smaller(n, Len(q) - 1)

\* How many items of a batch a write stores, and how many a read finds.
Stored(b) == Smaller(Len(b), cap - Len(q))
Found(n)  == Smaller(n, Len(q))

WroteResult(k)   == [op |-> "write", count |-> k, data |-> << >>]
ReadResult(data) == [op |-> "read", count |-> Len(data), data |-> data]
NoResult         == [op |-> "none", count |-> 0, data |-> << >>]

-----------------------------------------------------------------------------

Init ==
  /\ q = << >>
  /\ cap \in Caps
  /\ ret = [t \in Threads |-> NoResult]

Write(t, b) ==
  /\ q'   = q \o SubSeq(b, 1, Stored(b))
  /\ ret' = [ret EXCEPT ![t] = WroteResult(Stored(b))]
  /\ UNCHANGED cap

Read(t, n) ==
  /\ ret' = [ret EXCEPT ![t] = ReadResult(SubSeq(q, 1, Found(n)))]
  /\ q'   = SubSeq(q, Found(n) + 1, Len(q))
  /\ UNCHANGED cap

ChangeSize(c) ==
  /\ q'   = << >>
  /\ cap' = c
  /\ UNCHANGED ret

Next ==
  \/ \E t \in Threads, b \in Batches : Write(t, b)
  \/ \E t \in Threads, n \in Counts : Read(t, n)
  \/ \E c \in Caps : ChangeSize(c)

Spec == Init /\ [][Next]_fifoVars
=============================================================================
