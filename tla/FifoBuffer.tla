----------------------------- MODULE FifoBuffer -----------------------------
(***************************************************************************)
(* The circular buffer of lib/fifo_buffer.cc as the source and the sink    *)
(* use it: buffer type CONST_BUFFER_GR_STORAGE, fifo_write_storage and     *)
(* fifo_read_storage called by the scheduler's thread and the worker       *)
(* thread, fifo_changeSize called by the block's constructor while nobody  *)
(* else uses the buffer.                                                   *)
(*                                                                         *)
(* Each loop iteration of a call is a step of its own, so that it is the   *)
(* mutex (fp_mutex) that keeps two calls apart, and not the model.         *)
(***************************************************************************)
EXTENDS Integers, Sequences

CONSTANTS
  Item,      \* the gr_storage words that are stored
  Junk,      \* what a word of freshly allocated memory holds
  Writers,   \* threads that call fifo_write_storage
  Readers,   \* threads that call fifo_read_storage
  ByteSizes, \* the values fifo_changeSize is called with, in bytes
  MaxBatch,  \* bound: items in one call
  Nobody     \* the owner of the free mutex

\* m_div_constant for CONST_BUFFER_GR_STORAGE: the bytes of a gr_storage.
DivConstant == 4

Threads == Writers \cup Readers

\* A buffer has at least one slot; the sizes the block editor offers all do.
ASSUME BufferAssumption ==
  /\ Junk \notin Item
  /\ Nobody \notin Threads
  /\ Writers \cap Readers = {}
  /\ ByteSizes # {}
  /\ \A b \in ByteSizes : b \in Nat /\ b >= DivConstant
  /\ MaxBatch \in Nat

VARIABLES
  slots,     \* m_fifoBufferStorage, a function on 0 .. size-1
  head,      \* m_fifo.fifoHead: the next slot to write
  tail,      \* m_fifo.fifoTail: the next slot to read
  size,      \* m_fifo.fifoSize
  lock,      \* fp_mutex: its owner, or Nobody
  pc,        \* per thread: "idle", or the loop it is in
  want,      \* per thread: nStorage, the items the call was asked for
  data,      \* per thread: the caller's array, to store from or read into
  j,         \* per thread: the loop counter
  ret        \* per thread: what its last call returned

fifo == <<slots, head, tail, size>>
vars == <<slots, head, tail, size, lock, pc, want, data, j, ret>>

SlotCount(bytes) == bytes \div DivConstant
Slots == 0 .. size - 1
Batches == UNION {[1 .. n -> Item] : n \in 0 .. MaxBatch}

\* The end of the scope of gr::thread::scoped_lock.
Release(t) == lock' = Nobody

-----------------------------------------------------------------------------
(* Wrong variants, one mistake each, that the properties tell from the     *)
(* code.                                                                   *)

FullNoWrap == head + 1 = tail
EmptyLate == head + 1 = tail
\* A call that waits, with the mutex, instead of returning 0.
ReturnOrWait(t, result) ==
  /\ IF result.count = 0
     THEN UNCHANGED <<lock, pc, want, data, j, ret>>
     ELSE /\ Release(t)
          /\ pc'   = [pc EXCEPT ![t] = "idle"]
          /\ want' = [want EXCEPT ![t] = 0]
          /\ data' = [data EXCEPT ![t] = << >>]
          /\ j'    = [j EXCEPT ![t] = 0]
          /\ ret'  = [ret EXCEPT ![t] = result]
  /\ UNCHANGED fifo

-----------------------------------------------------------------------------
(* The index arithmetic.                                                   *)

Empty == head = tail
Full == head + 1 = tail \/ (head + 1 = size /\ tail = 0)
Wrap(i) == IF i = size THEN 0 ELSE i

\* gr::thread::scoped_lock at the entry of a call.
Acquire(t) == lock = Nobody /\ lock' = t

\* The tail of fifo_changeSize: new gr_storage[n], whose constructor leaves
\* the words as they are in memory, and fifo_init.
Fresh(n) ==
  /\ size'  = n
  /\ slots' = [i \in 0 .. n - 1 |-> Junk]
  /\ head'  = 0
  /\ tail'  = 0

-----------------------------------------------------------------------------

Init ==
  /\ \E b \in ByteSizes :
       /\ size = SlotCount(b)
       /\ slots = [i \in 0 .. SlotCount(b) - 1 |-> Junk]
  /\ head = 0
  /\ tail = 0
  /\ lock = Nobody
  /\ pc   = [t \in Threads |-> "idle"]
  /\ want = [t \in Threads |-> 0]
  /\ data = [t \in Threads |-> << >>]
  /\ j    = [t \in Threads |-> 0]
  /\ ret  = [t \in Threads |-> [op |-> "none", count |-> 0, data |-> << >>]]

\* A thread enters a call: it takes the mutex and starts the loop.
Enter(t, loop, n, d) ==
  /\ pc[t] = "idle"
  /\ Acquire(t)
  /\ pc'   = [pc EXCEPT ![t] = loop]
  /\ want' = [want EXCEPT ![t] = n]
  /\ data' = [data EXCEPT ![t] = d]
  /\ j'    = [j EXCEPT ![t] = 0]
  /\ UNCHANGED <<fifo, ret>>

\* A thread returns from a call; what it was called with is forgotten.
Return(t, result) ==
  /\ Release(t)
  /\ pc'   = [pc EXCEPT ![t] = "idle"]
  /\ want' = [want EXCEPT ![t] = 0]
  /\ data' = [data EXCEPT ![t] = << >>]
  /\ j'    = [j EXCEPT ![t] = 0]
  /\ ret'  = [ret EXCEPT ![t] = result]
  /\ UNCHANGED fifo

CallWrite(t, batch) == Enter(t, "write", Len(batch), batch)
CallRead(t, n) == Enter(t, "read", n, << >>)

\* One iteration of the loop of fifo_write_storage that stores an item.
WriteItem(t) ==
  /\ pc[t] = "write"
  /\ j[t] < want[t]
  /\ ~ Full
  /\ slots' = [slots EXCEPT ![head] = data[t][j[t] + 1]]
  /\ head'  = Wrap(head + 1)
  /\ j'     = [j EXCEPT ![t] = @ + 1]
  /\ UNCHANGED <<tail, size, lock, pc, want, data, ret>>

\* The loop ends: every item is stored, or the buffer is full.
WriteDone(t) == j[t] = want[t] \/ Full

WriteReturn(t) ==
  /\ pc[t] = "write"
  /\ WriteDone(t)
  /\ Return(t, [op |-> "write", count |-> j[t], data |-> << >>])

\* One iteration of the loop of fifo_read_storage that copies an item out.
ReadItem(t) ==
  /\ pc[t] = "read"
  /\ j[t] < want[t]
  /\ ~ Empty
  /\ data' = [data EXCEPT ![t] = Append(@, slots[tail])]
  /\ tail' = Wrap(tail + 1)
  /\ j'    = [j EXCEPT ![t] = @ + 1]
  /\ UNCHANGED <<slots, head, size, lock, pc, want, ret>>

\* The loop ends: everything asked for was read, or the buffer is empty.
ReadDone(t) == j[t] = want[t] \/ Empty

ReadReturn(t) ==
  /\ pc[t] = "read"
  /\ ReadDone(t)
  /\ Return(t, [op |-> "read", count |-> j[t], data |-> data[t]])

\* fifo_changeSize does not take the mutex: the constructors call it before
\* the worker thread exists and before the block runs.  The power of two it
\* computes (isPowerOfTwo) is not used: the size asked for is what is set.
ChangeSize(bytes) ==
  /\ \A t \in Threads : pc[t] = "idle"
  /\ Fresh(SlotCount(bytes))
  /\ UNCHANGED <<lock, pc, want, data, j, ret>>

Next ==
  \/ \E t \in Writers, batch \in Batches : CallWrite(t, batch)
  \/ \E t \in Writers : WriteItem(t) \/ WriteReturn(t)
  \/ \E t \in Readers, n \in 0 .. MaxBatch : CallRead(t, n)
  \/ \E t \in Readers : ReadItem(t) \/ ReadReturn(t)
  \/ \E b \in ByteSizes : ChangeSize(b)

Spec == Init /\ [][Next]_vars

\* A thread inside a call goes on with it.
CallStep(t) == WriteItem(t) \/ WriteReturn(t) \/ ReadItem(t) \/ ReadReturn(t)
FairSpec == Spec /\ \A t \in Threads : WF_vars(CallStep(t))

-----------------------------------------------------------------------------
(* What the buffer holds, as the queue it stands for.                      *)

Count == IF head >= tail THEN head - tail ELSE head - tail + size
SlotOf(i) == IF tail + i < size THEN tail + i ELSE tail + i - size
Contents == [i \in 1 .. Count |-> slots[SlotOf(i - 1)]]

\* A call takes effect when it returns: a batch being stored is not there
\* yet, the items being read are still there.
Queue ==
  IF lock = Nobody THEN Contents
  ELSE IF pc[lock] = "write" THEN SubSeq(Contents, 1, Count - j[lock])
  ELSE data[lock] \o Contents

Abstract == INSTANCE BoundedFifo WITH
  Counts <- 0 .. MaxBatch,
  Caps   <- {SlotCount(b) - 1 : b \in ByteSizes},
  q      <- Queue,
  cap    <- size - 1

-----------------------------------------------------------------------------
(* Every variable keeps its type; the two indices stay inside the buffer.  *)
TypeOK ==
  /\ size \in {SlotCount(b) : b \in ByteSizes}
  /\ slots \in [Slots -> Item \cup {Junk}]
  /\ head \in Slots
  /\ tail \in Slots
  /\ lock \in Threads \cup {Nobody}
  /\ pc   \in [Threads -> {"idle", "write", "read"}]
  /\ want \in [Threads -> 0 .. MaxBatch]
  /\ data \in [Threads -> Seq(Item \cup {Junk})]
  /\ j    \in [Threads -> 0 .. MaxBatch]
  /\ ret  \in [Threads -> [op : {"none", "write", "read"},
                           count : 0 .. MaxBatch, data : Seq(Item \cup {Junk})]]

(* fifo_write_storage and fifo_read_storage exclude one another: a thread  *)
(* is inside a call exactly when it owns fp_mutex.                         *)
MutualExclusion == \A t \in Threads : pc[t] # "idle" <=> lock = t

(* Memory that was never written is never handed to a caller of            *)
(* fifo_read_storage, however the indices wrapped: everything between the  *)
(* tail and the head was stored by a write since the buffer was made.      *)
NoJunkRead ==
  /\ \A i \in 0 .. Count - 1 : slots[SlotOf(i)] \in Item
  /\ \A t \in Threads :
       \A i \in 1 .. Len(ret[t].data) : ret[t].data[i] \in Item

(* The loops of fifo_write_storage and fifo_read_storage together behave   *)
(* as the atomic calls on a bounded queue: no word lost, duplicated or     *)
(* reordered, no batch torn by the other thread, and the counts returned   *)
(* are the counts moved.                                                   *)
ImplementsQueue == Abstract!Spec

(* A call that has taken the mutex returns.                                *)
CallsReturn == \A t \in Threads : pc[t] # "idle" ~> pc[t] = "idle"
=============================================================================
