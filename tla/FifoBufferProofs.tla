-------------------------- MODULE FifoBufferProofs --------------------------
(***************************************************************************)
(* The invariants of FifoBuffer for every set of words, threads and sizes, *)
(* and that its circular buffer implements the bounded queue.              *)
(*                                                                         *)
(* NoJunkRead is not inductive: a step only keeps it when the slots        *)
(* between tail and head hold stored words, the batch a writer is storing  *)
(* is made of words, and what a reader has copied so far is.  IInv adds    *)
(* these.                                                                  *)
(*                                                                         *)
(* In the refinement a write takes effect when it returns.  So that the    *)
(* words it has put into the slots until then are the ones it hands over,  *)
(* Storing remembers that the last j words of the contents are the first j *)
(* of its batch.  A read needs nothing of the kind: the words it has       *)
(* copied and the contents together are the queue, all the time.           *)
(***************************************************************************)
EXTENDS FifoBuffer, SequenceTheorems, TLAPS

\* A slot whose word was stored and not yet read.
Occupied(s) == IF tail <= head THEN tail <= s /\ s < head
                               ELSE tail <= s \/ s < head

OccupiedStored == \A s \in Slots : Occupied(s) => slots[s] \in Item

CallShape ==
  \A t \in Threads :
    /\ data[t] \in Seq(Item)
    /\ j[t] <= want[t]
    /\ pc[t] = "idle"  => data[t] = << >>
    /\ pc[t] = "write" => Len(data[t]) = want[t]
    /\ pc[t] = "read"  => Len(data[t]) = j[t]

ReturnedStored ==
  \A t \in Threads : ret[t].data \in Seq(Item)

IInv ==
  /\ TypeOK
  /\ MutualExclusion
  /\ CallShape
  /\ OccupiedStored
  /\ ReturnedStored

-----------------------------------------------------------------------------
(* A size in bytes gives a buffer of at least one slot.                    *)
LEMMA SlotCountPositive ==
  \A b \in ByteSizes : SlotCount(b) \in Nat /\ SlotCount(b) >= 1
  BY BufferAssumption, SMT DEF SlotCount, DivConstant

(* A batch is a sequence of words no longer than MaxBatch.                 *)
LEMMA BatchIsSeq ==
  \A batch \in Batches : batch \in Seq(Item) /\ Len(batch) \in 0 .. MaxBatch
<1> SUFFICES ASSUME NEW batch \in Batches
             PROVE  batch \in Seq(Item) /\ Len(batch) \in 0 .. MaxBatch
  OBVIOUS
<1>1. PICK n \in 0 .. MaxBatch : batch \in [1 .. n -> Item]
  BY DEF Batches
<1>2. n \in Nat
  BY <1>1, BufferAssumption
<1>3. batch \in Seq(Item) /\ Len(batch) = n
  BY <1>1, <1>2
<1> QED
  BY <1>1, <1>3

(* A slot index that is one past the last wraps to the first, and any      *)
(* other stays.                                                            *)
LEMMA WrapInSlots ==
  ASSUME NEW i \in Slots, size \in Nat
  PROVE  Wrap(i + 1) \in Slots
  BY DEF Wrap, Slots

-----------------------------------------------------------------------------
(* The invariant holds of a new buffer.                                    *)
LEMMA InitIInv == Init => IInv
<1> SUFFICES ASSUME Init PROVE IInv
  OBVIOUS
<1> USE DEF Init
<1>1. PICK b \in ByteSizes : /\ size = SlotCount(b)
                             /\ slots = [i \in 0 .. SlotCount(b) - 1 |-> Junk]
  OBVIOUS
<1>2. size \in Nat /\ size >= 1
  BY <1>1, SlotCountPositive
<1>3. TypeOK
  BY <1>1, <1>2, BufferAssumption DEF TypeOK, Slots
<1>4. MutualExclusion
  BY BufferAssumption DEF MutualExclusion
<1>5. CallShape
  BY DEF CallShape
<1>6. OccupiedStored
  BY <1>2 DEF OccupiedStored, Occupied, Slots
<1>7. ReturnedStored
  <2>1. << >> \in Seq(Item)
    OBVIOUS
  <2>2. \A t \in Threads : ret[t].data = << >>
    OBVIOUS
  <2> QED
    BY <2>1, <2>2, Zenon DEF ReturnedStored
<1> QED
  BY <1>3, <1>4, <1>5, <1>6, <1>7 DEF IInv

(* Taking the mutex at the entry of a call keeps the invariant, whichever  *)
(* loop the call runs.                                                     *)
LEMMA EnterIInv ==
  ASSUME IInv, NEW t \in Threads, NEW loop \in {"write", "read"},
         NEW n \in 0 .. MaxBatch, NEW d \in Seq(Item),
         loop = "write" => Len(d) = n, loop = "read" => d = << >>,
         Enter(t, loop, n, d)
  PROVE  IInv'
<1> USE DEF IInv, Enter, fifo
<1>0. d \in Seq(Item \cup {Junk})
  OBVIOUS
<1>1. TypeOK'
  BY <1>0, BufferAssumption DEF TypeOK, Slots, Acquire
<1>2. MutualExclusion'
  BY BufferAssumption DEF MutualExclusion, TypeOK, Acquire
<1>3. CallShape'
  BY BufferAssumption DEF CallShape, TypeOK
<1>4. OccupiedStored'
  BY DEF OccupiedStored, Occupied, Slots
<1>5. ReturnedStored'
  BY DEF ReturnedStored
<1> QED
  BY <1>1, <1>2, <1>3, <1>4, <1>5

(* Giving the mutex back at the return of a call keeps the invariant.      *)
LEMMA ReturnIInv ==
  ASSUME IInv, NEW t \in Threads, pc[t] # "idle",
         NEW o \in {"write", "read"}, NEW k \in 0 .. MaxBatch,
         NEW d \in Seq(Item),
         Return(t, [op |-> o, count |-> k, data |-> d])
  PROVE  IInv'
<1> USE DEF IInv, Return, fifo
<1>0. /\ d \in Seq(Item \cup {Junk})
      /\ << >> \in Seq(Item \cup {Junk})
      /\ << >> \in Seq(Item)
      /\ 0 \in 0 .. MaxBatch
  BY BufferAssumption
<1>1. TypeOK'
  BY <1>0, BufferAssumption DEF TypeOK, Slots, Release
<1>2. MutualExclusion'
  BY BufferAssumption DEF MutualExclusion, TypeOK, Release
<1>3. CallShape'
  BY <1>0, BufferAssumption DEF CallShape, TypeOK
<1>4. OccupiedStored'
  BY DEF OccupiedStored, Occupied, Slots
<1>5. ReturnedStored'
  BY DEF ReturnedStored, TypeOK
<1> QED
  BY <1>1, <1>2, <1>3, <1>4, <1>5

(* Storing a word keeps the invariant: the slot at the head becomes        *)
(* occupied and holds a word of the batch.                                 *)
LEMMA WriteItemIInv ==
  ASSUME IInv, NEW t \in Threads, WriteItem(t)
  PROVE  IInv'
<1> USE DEF IInv, WriteItem
<1>0. /\ size \in Nat /\ size >= 1 /\ head \in Slots /\ tail \in Slots
      /\ j[t] \in Nat /\ j[t] < want[t] /\ want[t] \in 0 .. MaxBatch
  BY SlotCountPositive, BufferAssumption DEF TypeOK
<1>1. data[t][j[t] + 1] \in Item
  <2>1. data[t] \in Seq(Item) /\ Len(data[t]) = want[t]
    BY DEF CallShape
  <2>2. j[t] + 1 \in 1 .. Len(data[t])
    BY <1>0, <2>1, BufferAssumption
  <2> QED
    BY <2>1, <2>2
<1>2. head' \in Slots
  BY <1>0, WrapInSlots
<1>3. TypeOK'
  <2>1. slots' \in [Slots -> Item \cup {Junk}]
    BY <1>0, <1>1 DEF TypeOK
  <2>2. j' \in [Threads -> 0 .. MaxBatch]
    <3>1. j[t] + 1 \in 0 .. MaxBatch
      BY <1>0, BufferAssumption
    <3> QED
      BY <3>1 DEF TypeOK
  <2> QED
    BY <1>0, <1>2, <2>1, <2>2 DEF TypeOK, Slots
<1>4. MutualExclusion'
  BY DEF MutualExclusion
<1>5. CallShape'
  BY <1>0, BufferAssumption DEF CallShape, TypeOK
<1>6. OccupiedStored'
  <2> SUFFICES ASSUME NEW s \in Slots, Occupied(s)'
               PROVE  slots'[s] \in Item
    BY DEF OccupiedStored, Slots
  <2>1. CASE s = head
    BY <2>1, <1>0, <1>1 DEF TypeOK
  <2>2. CASE s # head
    <3>1. Occupied(s)
      BY <2>2, <1>0 DEF Occupied, Wrap, Slots, Full
    <3> QED
      BY <2>2, <3>1 DEF OccupiedStored, TypeOK
  <2> QED
    BY <2>1, <2>2
<1>7. ReturnedStored'
  BY DEF ReturnedStored
<1> QED
  BY <1>3, <1>4, <1>5, <1>6, <1>7

(* Copying a word out keeps the invariant: the slot at the tail is         *)
(* occupied, so what the caller gets was stored.                           *)
LEMMA ReadItemIInv ==
  ASSUME IInv, NEW t \in Threads, ReadItem(t)
  PROVE  IInv'
<1> USE DEF IInv, ReadItem
<1>0. /\ size \in Nat /\ size >= 1 /\ head \in Slots /\ tail \in Slots
      /\ j[t] \in Nat /\ j[t] < want[t] /\ want[t] \in 0 .. MaxBatch
  BY SlotCountPositive, BufferAssumption DEF TypeOK
<1>1. slots[tail] \in Item
  BY <1>0 DEF OccupiedStored, Occupied, Slots, Empty
<1>2. tail' \in Slots
  BY <1>0, WrapInSlots
<1>3. /\ data[t] \in Seq(Item)
      /\ data'[t] = Append(data[t], slots[tail])
      /\ data'[t] \in Seq(Item)
      /\ data'[t] \in Seq(Item \cup {Junk})
      /\ Len(data'[t]) = Len(data[t]) + 1
  BY <1>1 DEF CallShape, TypeOK
<1>4. TypeOK'
  <2>1. j' \in [Threads -> 0 .. MaxBatch]
    <3>1. j[t] + 1 \in 0 .. MaxBatch
      BY <1>0, BufferAssumption
    <3> QED
      BY <3>1 DEF TypeOK
  <2>2. data' \in [Threads -> Seq(Item \cup {Junk})]
    BY <1>3 DEF TypeOK
  <2> QED
    BY <1>0, <1>2, <2>1, <2>2 DEF TypeOK, Slots
<1>5. MutualExclusion'
  BY DEF MutualExclusion
<1>6. CallShape'
  <2> SUFFICES ASSUME NEW u \in Threads
               PROVE  /\ data'[u] \in Seq(Item)
                      /\ j'[u] <= want'[u]
                      /\ pc'[u] = "idle"  => data'[u] = << >>
                      /\ pc'[u] = "write" => Len(data'[u]) = want'[u]
                      /\ pc'[u] = "read"  => Len(data'[u]) = j'[u]
    BY DEF CallShape
  <2>1. CASE u = t
    <3>1. /\ j'[t] = j[t] + 1 /\ want'[t] = want[t]
          /\ pc'[t] = "read" /\ Len(data[t]) = j[t]
      BY DEF CallShape, TypeOK
    <3> QED
      BY <2>1, <3>1, <1>0, <1>3, BufferAssumption
  <2>2. CASE u # t
    BY <2>2 DEF CallShape, TypeOK
  <2> QED
    BY <2>1, <2>2
<1>7. OccupiedStored'
  <2> SUFFICES ASSUME NEW s \in Slots, Occupied(s)'
               PROVE  slots[s] \in Item
    BY DEF OccupiedStored, Slots
  <2>1. Occupied(s)
    BY <1>0 DEF Occupied, Wrap, Slots, Empty
  <2> QED
    BY <2>1 DEF OccupiedStored
<1>8. ReturnedStored'
  BY DEF ReturnedStored
<1> QED
  BY <1>4, <1>5, <1>6, <1>7, <1>8

(* A new allocation keeps the invariant: nothing is occupied in it.        *)
LEMMA ChangeSizeIInv ==
  ASSUME IInv, NEW b \in ByteSizes, ChangeSize(b)
  PROVE  IInv'
<1> USE DEF IInv, ChangeSize, Fresh
<1>0. SlotCount(b) \in Nat /\ SlotCount(b) >= 1
  BY SlotCountPositive
<1>1. TypeOK'
  BY <1>0 DEF TypeOK, Slots
<1>2. MutualExclusion'
  BY DEF MutualExclusion
<1>3. CallShape'
  BY DEF CallShape
<1>4. OccupiedStored'
  BY <1>0 DEF OccupiedStored, Occupied, Slots
<1>5. ReturnedStored'
  BY DEF ReturnedStored
<1> QED
  BY <1>1, <1>2, <1>3, <1>4, <1>5

(* Every step keeps the invariant.                                         *)
LEMMA NextIInv == IInv /\ [Next]_vars => IInv'
<1> SUFFICES ASSUME IInv, [Next]_vars PROVE IInv'
  OBVIOUS
<1>1. ASSUME NEW t \in Writers, NEW batch \in Batches, CallWrite(t, batch)
      PROVE  IInv'
  BY <1>1, BatchIsSeq, EnterIInv DEF CallWrite, Threads
<1>2. ASSUME NEW t \in Writers, WriteItem(t) PROVE IInv'
  BY <1>2, WriteItemIInv DEF Threads
<1>3. ASSUME NEW t \in Writers, WriteReturn(t) PROVE IInv'
  <2>1. << >> \in Seq(Item) /\ j[t] \in 0 .. MaxBatch
    BY DEF IInv, TypeOK, Threads
  <2> QED
    BY <1>3, <2>1, ReturnIInv DEF WriteReturn, Threads
<1>4. ASSUME NEW t \in Readers, NEW n \in 0 .. MaxBatch, CallRead(t, n)
      PROVE  IInv'
  <2>1. << >> \in Seq(Item)
    OBVIOUS
  <2> QED
    BY <1>4, <2>1, EnterIInv DEF CallRead, Threads
<1>5. ASSUME NEW t \in Readers, ReadItem(t) PROVE IInv'
  BY <1>5, ReadItemIInv DEF Threads
<1>6. ASSUME NEW t \in Readers, ReadReturn(t) PROVE IInv'
  <2>1. data[t] \in Seq(Item) /\ j[t] \in 0 .. MaxBatch
    BY DEF IInv, TypeOK, CallShape, Threads
  <2> QED
    BY <1>6, <2>1, ReturnIInv DEF ReadReturn, Threads
<1>7. ASSUME NEW b \in ByteSizes, ChangeSize(b) PROVE IInv'
  BY <1>7, ChangeSizeIInv
<1>8. CASE UNCHANGED vars
  BY <1>8 DEF IInv, TypeOK, MutualExclusion, CallShape, OccupiedStored,
              Occupied, ReturnedStored, Slots, vars
<1> QED
  BY <1>1, <1>2, <1>3, <1>4, <1>5, <1>6, <1>7, <1>8 DEF Next

-----------------------------------------------------------------------------
(* What holds of the queue's window follows from what holds of the slots.  *)
LEMMA IInvNoJunk == IInv => NoJunkRead
<1> SUFFICES ASSUME IInv PROVE NoJunkRead
  OBVIOUS
<1> USE DEF IInv
<1>0. size \in Nat /\ size >= 1 /\ head \in Slots /\ tail \in Slots
  BY SlotCountPositive DEF TypeOK
<1>1. ASSUME NEW i \in 0 .. Count - 1 PROVE slots[SlotOf(i)] \in Item
  <2>1. SlotOf(i) \in Slots /\ Occupied(SlotOf(i))
    BY <1>0 DEF SlotOf, Count, Occupied, Slots
  <2> QED
    BY <2>1 DEF OccupiedStored
<1>2. ASSUME NEW t \in Threads, NEW i \in 1 .. Len(ret[t].data)
      PROVE  ret[t].data[i] \in Item
  BY DEF ReturnedStored
<1> QED
  BY <1>1, <1>2 DEF NoJunkRead

(* Every reachable state satisfies the invariant.                          *)
THEOREM Invariance == Spec => []IInv
  BY InitIInv, NextIInv, PTL DEF Spec

(* The indices of the buffer stay inside it, whatever its size and however *)
(* the calls of any number of threads interleave.                          *)
THEOREM TypeCorrect == Spec => []TypeOK
<1>1. IInv => TypeOK
  BY DEF IInv
<1> QED
  BY <1>1, Invariance, PTL

(* fp_mutex keeps the calls of fifo_write_storage and fifo_read_storage    *)
(* apart.                                                                  *)
THEOREM Exclusion == Spec => []MutualExclusion
<1>1. IInv => MutualExclusion
  BY DEF IInv
<1> QED
  BY <1>1, Invariance, PTL

(* fifo_read_storage never hands out a word that fifo_write_storage did    *)
(* not store.                                                              *)
THEOREM ReadsOnlyStored == Spec => []NoJunkRead
  BY IInvNoJunk, Invariance, PTL

-----------------------------------------------------------------------------
(* The refinement.                                                         *)

\* A writer in its loop has put the beginning of its batch at the end of the
\* contents.
Storing ==
  \A t \in Threads : pc[t] = "write" =>
    /\ data[t] \in Batches
    /\ j[t] <= Count
    /\ \A i \in 1 .. j[t] : Contents[(Count - j[t]) + i] = data[t][i]

RInv == IInv /\ Storing

-----------------------------------------------------------------------------
(* Sequences.                                                              *)

(* The beginning of a sequence.                                            *)
LEMMA Beginning ==
  ASSUME NEW S, NEW c \in Seq(S), NEW k \in Nat, k <= Len(c)
  PROVE  /\ SubSeq(c, 1, k) \in Seq(S) /\ Len(SubSeq(c, 1, k)) = k
         /\ \A i \in 1 .. k : SubSeq(c, 1, k)[i] = c[i]
<1>1. Len(c) \in Nat /\ \A i \in 1 .. k : c[i] \in S
  OBVIOUS
<1> QED
  BY <1>1

(* A beginning and the rest that follows it make the whole.                *)
LEMMA Rejoin ==
  ASSUME NEW S, NEW c \in Seq(S), NEW b \in Seq(S),
         NEW m \in Nat, NEW k \in Nat, k <= Len(b), m + k = Len(c),
         \A i \in 1 .. k : c[m + i] = b[i]
  PROVE  SubSeq(c, 1, m) \o SubSeq(b, 1, k) = c
<1> DEFINE x == SubSeq(c, 1, m)
           y == SubSeq(b, 1, k)
<1>1. Len(c) \in Nat /\ Len(b) \in Nat /\ m <= Len(c)
  OBVIOUS
<1>2. x \in Seq(S) /\ Len(x) = m /\ \A i \in 1 .. m : x[i] = c[i]
  BY <1>1, Beginning
<1>3. y \in Seq(S) /\ Len(y) = k /\ \A i \in 1 .. k : y[i] = b[i]
  BY <1>1, Beginning
<1> HIDE DEF x, y
<1>4. /\ x \o y \in Seq(S) /\ Len(x \o y) = Len(x) + Len(y)
      /\ \A i \in 1 .. Len(x) + Len(y) :
           (x \o y)[i] = IF i <= Len(x) THEN x[i] ELSE y[i - Len(x)]
  <2>1. x \in Seq(S) /\ y \in Seq(S)
    BY <1>2, <1>3
  <2> QED
    BY <2>1, ConcatProperties
<1>5. ASSUME NEW i \in 1 .. Len(c) PROVE (x \o y)[i] = c[i]
  <2>1. CASE i <= m
    BY <1>1, <1>2, <1>3, <1>4, <2>1
  <2>2. CASE ~ i <= m
    <3>1. i - m \in 1 .. k /\ m + (i - m) = i
      <4>1. \A p \in Nat : ~ p <= m /\ p <= m + k => p - m \in 1 .. k /\ m + (p - m) = p
        OBVIOUS
      <4>2. i \in Nat /\ i <= m + k
        BY <1>1
      <4> QED
        BY <2>2, <4>1, <4>2, Zenon
    <3>2. (x \o y)[i] = y[i - m]
      BY <1>1, <1>2, <1>3, <1>4, <2>2
    <3> QED
      BY <1>3, <3>1, <3>2
  <2> QED
    BY <2>1, <2>2
<1>6. x \o y = c
  BY <1>1, <1>2, <1>3, <1>4, <1>5, SeqEqual
<1> QED
  BY <1>6 DEF x, y

(* A beginning is not changed by what is added at the end.                 *)
LEMMA PrefixKept ==
  ASSUME NEW S, NEW c \in Seq(S), NEW e \in Seq(S),
         Len(e) = Len(c) + 1, \A i \in 1 .. Len(c) : e[i] = c[i],
         NEW k \in Nat, k <= Len(c)
  PROVE  SubSeq(e, 1, k) = SubSeq(c, 1, k)
<1>1. Len(c) \in Nat /\ Len(e) \in Nat /\ k <= Len(e)
  OBVIOUS
<1>2. /\ SubSeq(c, 1, k) \in Seq(S) /\ Len(SubSeq(c, 1, k)) = k
      /\ \A i \in 1 .. k : SubSeq(c, 1, k)[i] = c[i]
  BY Beginning
<1>3. /\ SubSeq(e, 1, k) \in Seq(S) /\ Len(SubSeq(e, 1, k)) = k
      /\ \A i \in 1 .. k : SubSeq(e, 1, k)[i] = e[i]
  BY <1>1, Beginning
<1>4. \A i \in 1 .. k : SubSeq(e, 1, k)[i] = SubSeq(c, 1, k)[i]
  BY <1>1, <1>2, <1>3
<1> QED
  BY <1>2, <1>3, <1>4, SeqEqual

(* The first element of one sequence moved to the end of another.          *)
LEMMA MoveOne ==
  ASSUME NEW S, NEW d \in Seq(S), NEW c \in Seq(S), NEW e \in Seq(S),
         Len(c) = Len(e) + 1, \A i \in 1 .. Len(e) : e[i] = c[i + 1]
  PROVE  Append(d, c[1]) \o e = d \o c
<1> DEFINE a == Append(d, c[1])
<1>1. Len(c) \in Nat /\ Len(d) \in Nat /\ Len(e) \in Nat /\ c[1] \in S
  OBVIOUS
<1>2. /\ a \in Seq(S) /\ Len(a) = Len(d) + 1 /\ a[Len(d) + 1] = c[1]
      /\ \A i \in 1 .. Len(d) : a[i] = d[i]
  BY <1>1
<1> HIDE DEF a
<1>3. /\ a \o e \in Seq(S) /\ Len(a \o e) = Len(a) + Len(e)
      /\ \A i \in 1 .. Len(a) + Len(e) :
           (a \o e)[i] = IF i <= Len(a) THEN a[i] ELSE e[i - Len(a)]
  BY <1>2, ConcatProperties
<1>4. /\ d \o c \in Seq(S) /\ Len(d \o c) = Len(d) + Len(c)
      /\ \A i \in 1 .. Len(d) + Len(c) :
           (d \o c)[i] = IF i <= Len(d) THEN d[i] ELSE c[i - Len(d)]
  BY ConcatProperties
<1>5. Len(a) + Len(e) = Len(d) + Len(c)
  BY <1>1, <1>2
<1>6. ASSUME NEW i \in 1 .. Len(d) + Len(c) PROVE (a \o e)[i] = (d \o c)[i]
  <2>1. CASE i <= Len(d)
    BY <1>1, <1>2, <1>3, <1>4, <1>5, <2>1
  <2>2. CASE i = Len(d) + 1
    <3>1. i <= Len(a) /\ ~ i <= Len(d) /\ i - Len(d) = 1
      BY <1>1, <1>2, <2>2
    <3> QED
      BY <1>2, <1>3, <1>4, <1>5, <2>2, <3>1
  <2>3. CASE i > Len(d) + 1
    <3>1. /\ ~ i <= Len(a) /\ ~ i <= Len(d)
          /\ i - Len(a) \in 1 .. Len(e) /\ (i - Len(a)) + 1 = i - Len(d)
      BY <1>1, <1>2, <2>3
    <3> QED
      BY <1>3, <1>4, <1>5, <3>1
  <2>4. i <= Len(d) \/ i = Len(d) + 1 \/ i > Len(d) + 1
    BY <1>1
  <2> QED
    BY <2>1, <2>2, <2>3, <2>4
<1>7. a \o e = d \o c
  BY <1>3, <1>4, <1>5, <1>6, SeqEqual
<1> QED
  BY <1>7 DEF a

\* d and then c are found in w.
SplitsInto(w, d, c) ==
  /\ Len(w) = Len(d) + Len(c)
  /\ SubSeq(w, 1, Len(d)) = d
  /\ SubSeq(w, Len(d) + 1, Len(w)) = c

(* Two sequences are found again in their concatenation.                   *)
LEMMA SplitConcat ==
  ASSUME NEW S, NEW d \in Seq(S), NEW c \in Seq(S), NEW w, w = d \o c
  PROVE  SplitsInto(w, d, c)
<1>1. Len(c) \in Nat /\ Len(d) \in Nat
  OBVIOUS
<1>2. /\ w \in Seq(S) /\ Len(w) = Len(d) + Len(c)
      /\ \A i \in 1 .. Len(d) + Len(c) : w[i] = IF i <= Len(d) THEN d[i] ELSE c[i - Len(d)]
  <2>1. /\ d \o c \in Seq(S) /\ Len(d \o c) = Len(d) + Len(c)
        /\ \A i \in 1 .. Len(d) + Len(c) :
             (d \o c)[i] = IF i <= Len(d) THEN d[i] ELSE c[i - Len(d)]
    BY ConcatProperties
  <2> QED
    BY <2>1
<1>3. SubSeq(w, 1, Len(d)) = d
  <2>1. \A i \in 1 .. Len(d) : w[i] \in S /\ w[i] = d[i]
    BY <1>1, <1>2
  <2>2. /\ SubSeq(w, 1, Len(d)) \in Seq(S) /\ Len(SubSeq(w, 1, Len(d))) = Len(d)
        /\ \A i \in 1 .. Len(d) : SubSeq(w, 1, Len(d))[i] = w[i]
    BY <1>1, <1>2, <2>1
  <2> QED
    BY <2>1, <2>2, SeqEqual
<1>4. SubSeq(w, Len(d) + 1, Len(w)) = c
  <2> DEFINE v == SubSeq(w, Len(d) + 1, Len(w))
  <2>1. \A i \in Len(d) + 1 .. Len(w) : w[i] \in S
    BY <1>1, <1>2
  <2>2. /\ v \in Seq(S)
        /\ Len(v) = IF Len(d) + 1 <= Len(w) THEN Len(w) - (Len(d) + 1) + 1 ELSE 0
        /\ \A i \in 1 .. Len(w) - (Len(d) + 1) + 1 : v[i] = w[(Len(d) + 1) + i - 1]
    BY <1>1, <1>2, <2>1, SubSeqProperties
  <2> HIDE DEF v
  <2>3. Len(v) = Len(c)
    BY <1>1, <1>2, <2>2
  <2>4. ASSUME NEW i \in 1 .. Len(c) PROVE v[i] = c[i]
    <3>1. /\ i \in 1 .. Len(w) - (Len(d) + 1) + 1
          /\ (Len(d) + 1) + i - 1 = Len(d) + i
          /\ Len(d) + i \in 1 .. Len(d) + Len(c)
          /\ ~ Len(d) + i <= Len(d) /\ (Len(d) + i) - Len(d) = i
      BY <1>1, <1>2
    <3> QED
      BY <1>2, <2>2, <3>1
  <2>5. v = c
    BY <2>2, <2>3, <2>4, SeqEqual
  <2> QED
    BY <2>5 DEF v
<1> QED
  BY <1>2, <1>3, <1>4 DEF SplitsInto

-----------------------------------------------------------------------------
(* The contents of the buffer.                                             *)

(* The contents are a sequence of words, the oldest at the tail; they fill *)
(* all slots but one when the buffer is full, and none when it is empty.   *)
LEMMA ContentsSeq ==
  ASSUME IInv
  PROVE  /\ Count \in Nat /\ Count <= size - 1
         /\ Contents \in Seq(Item) /\ Len(Contents) = Count
         /\ \A i \in 1 .. Count : Contents[i] = slots[SlotOf(i - 1)]
         /\ Full <=> Count = size - 1
         /\ Empty <=> Count = 0
<1>1. size \in Nat /\ size >= 1 /\ head \in Slots /\ tail \in Slots
  BY SlotCountPositive DEF IInv, TypeOK
<1>2. Count \in Nat /\ Count <= size - 1
  BY <1>1 DEF Count, Slots
<1>3. NoJunkRead
  BY IInvNoJunk
<1>4. \A i \in 1 .. Count : slots[SlotOf(i - 1)] \in Item
  <2> SUFFICES ASSUME NEW i \in 1 .. Count PROVE slots[SlotOf(i - 1)] \in Item
    OBVIOUS
  <2>1. i - 1 \in 0 .. Count - 1
    BY <1>2
  <2> QED
    BY <1>3, <2>1, Zenon DEF NoJunkRead
<1>5. /\ Contents \in Seq(Item) /\ Len(Contents) = Count
      /\ \A i \in 1 .. Count : Contents[i] = slots[SlotOf(i - 1)]
  <2>1. Contents \in [1 .. Count -> Item]
    BY <1>4 DEF Contents
  <2> QED
    BY <1>2, <2>1 DEF Contents
<1>6. Full <=> Count = size - 1
  BY <1>1 DEF Full, Count, Slots
<1>7. Empty <=> Count = 0
  BY <1>1 DEF Empty, Count, Slots
<1> QED
  BY <1>2, <1>5, <1>6, <1>7

ContentsShape ==
  Count \in Nat /\ Contents \in Seq(Item) /\ Len(Contents) = Count

(* So they are after a step.                                               *)
LEMMA ContentsNext == IInv' => ContentsShape'
<1>1. IInv => ContentsShape
  BY ContentsSeq DEF ContentsShape
<1> QED
  BY <1>1, PTL

(* A word stored is the newest of the contents.                            *)
LEMMA ItemStored ==
  ASSUME IInv, IInv', NEW t \in Threads, WriteItem(t)
  PROVE  /\ Count' = Count + 1
         /\ \A i \in 1 .. Count : Contents'[i] = Contents[i]
         /\ Contents'[Count + 1] = data[t][j[t] + 1]
<1>1. /\ size \in Nat /\ size >= 1 /\ head \in Slots /\ tail \in Slots
      /\ slots \in [Slots -> Item \cup {Junk}]
  BY SlotCountPositive DEF IInv, TypeOK
<1>2. /\ ~ Full /\ head' = Wrap(head + 1) /\ tail' = tail /\ size' = size
      /\ slots' = [slots EXCEPT ![head] = data[t][j[t] + 1]]
  BY DEF WriteItem
<1>3. Count' = Count + 1 /\ Count \in Nat /\ SlotOf(Count) = head
  BY <1>1, <1>2 DEF Full, Count, Wrap, SlotOf, Slots
<1>4. \A i \in 1 .. Count : SlotOf(i - 1) # head /\ SlotOf(i - 1) \in Slots
  BY <1>1 DEF Count, SlotOf, Slots
<1>5. \A i \in 1 .. Count : Contents[i] = slots[SlotOf(i - 1)]
  BY ContentsSeq
<1>6. \A i \in 1 .. Count + 1 : Contents'[i] = slots'[SlotOf(i - 1)]
  <2>1. \A i \in 1 .. Count' : Contents'[i] = slots'[SlotOf(i - 1)']
    BY DEF Contents
  <2>2. \A i \in Int : SlotOf(i - 1)' = SlotOf(i - 1)
    BY <1>2 DEF SlotOf
  <2> QED
    BY <1>3, <2>1, <2>2
<1>7. ASSUME NEW i \in 1 .. Count PROVE Contents'[i] = Contents[i]
  <2>1. i \in 1 .. Count + 1
    BY <1>3
  <2>2. slots'[SlotOf(i - 1)] = slots[SlotOf(i - 1)]
    BY <1>1, <1>2, <1>4
  <2> QED
    BY <1>5, <1>6, <2>1, <2>2
<1>8. Contents'[Count + 1] = data[t][j[t] + 1]
  <2>1. Count + 1 \in 1 .. Count + 1 /\ (Count + 1) - 1 = Count
    BY <1>3
  <2>2. slots'[head] = data[t][j[t] + 1]
    BY <1>1, <1>2
  <2> QED
    BY <1>3, <1>6, <2>1, <2>2
<1> QED
  BY <1>3, <1>7, <1>8

(* A word copied out is the oldest of the contents.                        *)
LEMMA ItemRead ==
  ASSUME IInv, IInv', NEW t \in Threads, ReadItem(t)
  PROVE  /\ Count >= 1 /\ Count' = Count - 1
         /\ \A i \in 1 .. Count' : Contents'[i] = Contents[i + 1]
         /\ Contents[1] = slots[tail]
<1>1. size \in Nat /\ size >= 1 /\ head \in Slots /\ tail \in Slots
  BY SlotCountPositive DEF IInv, TypeOK
<1>2. /\ ~ Empty /\ tail' = Wrap(tail + 1)
      /\ head' = head /\ size' = size /\ slots' = slots
  BY DEF ReadItem
<1>3. Count >= 1 /\ Count' = Count - 1 /\ Count \in Nat /\ SlotOf(0) = tail
  BY <1>1, <1>2 DEF Empty, Count, Wrap, SlotOf, Slots
<1>4. \A i \in 1 .. Count' : SlotOf(i - 1)' = SlotOf(i)
  BY <1>1, <1>2 DEF Empty, Count, SlotOf, Wrap, Slots
<1>5. \A i \in 1 .. Count : Contents[i] = slots[SlotOf(i - 1)]
  BY ContentsSeq
<1>6. \A i \in 1 .. Count' : Contents'[i] = slots'[SlotOf(i - 1)']
  BY DEF Contents
<1>7. ASSUME NEW i \in 1 .. Count' PROVE Contents'[i] = Contents[i + 1]
  <2>1. i + 1 \in 1 .. Count /\ (i + 1) - 1 = i
    BY <1>3
  <2> QED
    BY <1>2, <1>4, <1>5, <1>6, <2>1
<1>8. Contents[1] = slots[tail]
  <2>1. 1 \in 1 .. Count /\ 1 - 1 = 0
    BY <1>3
  <2> QED
    BY <1>3, <1>5, <2>1
<1> QED
  BY <1>3, <1>7, <1>8

-----------------------------------------------------------------------------
(* What a write has stored so far.                                         *)

(* Only the thread that owns the mutex is in a call.                       *)
LEMMA OneCaller ==
  ASSUME MutualExclusion, NEW t \in Threads, pc[t] # "idle",
         NEW u \in Threads, pc[u] # "idle"
  PROVE  u = t
  BY DEF MutualExclusion

(* The contents depend on the buffer alone.                                *)
LEMMA SameContents ==
  UNCHANGED fifo => Contents' = Contents /\ Count' = Count
<1> SUFFICES ASSUME UNCHANGED fifo PROVE Contents' = Contents /\ Count' = Count
  OBVIOUS
<1>1. slots' = slots /\ head' = head /\ tail' = tail /\ size' = size
  BY DEF fifo
<1> QED
  BY <1>1 DEF Contents, Count, SlotOf

(* A step that leaves the buffer and the calls under way alone keeps it.   *)
LEMMA EnterStoring ==
  ASSUME RInv, IInv', NEW t \in Threads, NEW loop \in {"write", "read"},
         NEW n \in 0 .. MaxBatch, NEW d,
         loop = "write" => d \in Batches, Enter(t, loop, n, d)
  PROVE  Storing'
<1>1. /\ UNCHANGED fifo /\ pc' = [pc EXCEPT ![t] = loop]
      /\ data' = [data EXCEPT ![t] = d] /\ j' = [j EXCEPT ![t] = 0]
      /\ lock' = t
  BY DEF Enter, Acquire
<1>2. /\ pc \in [Threads -> {"idle", "write", "read"}] /\ DOMAIN data = Threads
      /\ DOMAIN j = Threads /\ MutualExclusion'
  BY DEF RInv, IInv, TypeOK
<1>3. Contents' = Contents /\ Count' = Count /\ Count \in Nat
  BY <1>1, SameContents, ContentsSeq DEF RInv
<1> SUFFICES ASSUME NEW u \in Threads, pc'[u] = "write"
             PROVE  /\ data'[u] \in Batches
                    /\ j'[u] <= Count'
                    /\ \A i \in 1 .. j'[u] :
                         Contents'[(Count' - j'[u]) + i] = data'[u][i]
  BY DEF Storing
<1>4. u = t
  BY <1>1, <1>2 DEF MutualExclusion
<1>5. loop = "write" /\ data'[u] = d /\ j'[u] = 0
  BY <1>1, <1>2, <1>4
<1> QED
  BY <1>3, <1>5

(* A step after which nobody is in a call keeps it.                        *)
LEMMA IdleStoring ==
  ASSUME \A t \in Threads : pc'[t] = "idle"
  PROVE  Storing'
  BY DEF Storing

(* After a return nobody is in a call.                                     *)
LEMMA ReturnIdle ==
  ASSUME IInv, NEW t \in Threads, pc[t] # "idle", NEW r, Return(t, r)
  PROVE  \A u \in Threads : pc'[u] = "idle"
  BY OneCaller DEF IInv, TypeOK, MutualExclusion, Return

(* An item stored is the next one of the batch.                            *)
LEMMA WriteItemStoring ==
  ASSUME RInv, IInv', NEW t \in Threads, WriteItem(t)
  PROVE  Storing'
<1>1. /\ pc[t] = "write" /\ pc' = pc /\ data' = data
      /\ j' = [j EXCEPT ![t] = @ + 1]
  BY DEF WriteItem
<1>2. /\ data[t] \in Batches /\ j[t] <= Count
      /\ \A i \in 1 .. j[t] : Contents[(Count - j[t]) + i] = data[t][i]
  BY <1>1 DEF RInv, Storing
<1>3. /\ Count' = Count + 1 /\ Count \in Nat
      /\ \A i \in 1 .. Count : Contents'[i] = Contents[i]
      /\ Contents'[Count + 1] = data[t][j[t] + 1]
  BY ItemStored, ContentsSeq DEF RInv
<1>4. j[t] \in Nat /\ j'[t] = j[t] + 1
  BY <1>1, BufferAssumption DEF RInv, IInv, TypeOK
<1>5. ASSUME NEW i \in 1 .. j[t] + 1
      PROVE  Contents'[((Count + 1) - (j[t] + 1)) + i] = data[t][i]
  <2>1. CASE i = j[t] + 1
    <3>1. ((Count + 1) - (j[t] + 1)) + i = Count + 1
      BY <1>3, <1>4, <2>1
    <3> QED
      BY <1>3, <2>1, <3>1
  <2>2. CASE i # j[t] + 1
    <3>1. /\ ((Count + 1) - (j[t] + 1)) + i = (Count - j[t]) + i
          /\ (Count - j[t]) + i \in 1 .. Count /\ i \in 1 .. j[t]
      BY <1>2, <1>3, <1>4, <2>2
    <3> QED
      BY <1>2, <1>3, <3>1
  <2> QED
    BY <2>1, <2>2
<1> SUFFICES ASSUME NEW u \in Threads, pc'[u] = "write"
             PROVE  /\ data'[u] \in Batches
                    /\ j'[u] <= Count'
                    /\ \A i \in 1 .. j'[u] :
                         Contents'[(Count' - j'[u]) + i] = data'[u][i]
  BY DEF Storing
<1>6. u = t
  BY <1>1, OneCaller DEF RInv, IInv
<1>7. j[t] + 1 <= Count + 1
  BY <1>2, <1>3, <1>4
<1> QED
  BY <1>1, <1>2, <1>3, <1>4, <1>5, <1>6, <1>7, Zenon

(* Every step keeps it.                                                    *)
LEMMA NextRInv == RInv /\ [Next]_vars => RInv'
<1> SUFFICES ASSUME RInv, [Next]_vars PROVE RInv'
  OBVIOUS
<1>0. IInv'
  BY NextIInv DEF RInv
<1>1. ASSUME NEW t \in Writers, NEW batch \in Batches, CallWrite(t, batch)
      PROVE  Storing'
  <2>1. Len(batch) \in 0 .. MaxBatch /\ t \in Threads
    BY BatchIsSeq DEF Threads
  <2> QED
    BY <1>0, <1>1, <2>1, EnterStoring DEF CallWrite
<1>2. ASSUME NEW t \in Writers, WriteItem(t) PROVE Storing'
  BY <1>0, <1>2, WriteItemStoring DEF Threads
<1>3. ASSUME NEW t \in Writers, WriteReturn(t) PROVE Storing'
  <2>1. t \in Threads /\ pc[t] # "idle" /\ IInv
    BY <1>3 DEF WriteReturn, Threads, RInv
  <2>2. Return(t, [op |-> "write", count |-> j[t], data |-> << >>])
    BY <1>3 DEF WriteReturn
  <2> QED
    BY <2>1, <2>2, ReturnIdle, IdleStoring
<1>4. ASSUME NEW t \in Readers, NEW n \in 0 .. MaxBatch, CallRead(t, n)
      PROVE  Storing'
  BY <1>0, <1>4, EnterStoring DEF CallRead, Threads
<1>5. ASSUME NEW t \in Readers, ReadItem(t) PROVE Storing'
  <2>1. /\ t \in Threads /\ pc[t] = "read" /\ pc' = pc /\ IInv
    BY <1>5 DEF ReadItem, Threads, RInv
  <2>2. \A u \in Threads : pc'[u] # "write"
    BY <2>1, OneCaller DEF IInv
  <2> QED
    BY <2>2 DEF Storing
<1>6. ASSUME NEW t \in Readers, ReadReturn(t) PROVE Storing'
  <2>1. t \in Threads /\ pc[t] # "idle" /\ IInv
    BY <1>6 DEF ReadReturn, Threads, RInv
  <2>2. Return(t, [op |-> "read", count |-> j[t], data |-> data[t]])
    BY <1>6 DEF ReadReturn
  <2> QED
    BY <2>1, <2>2, ReturnIdle, IdleStoring
<1>7. ASSUME NEW b \in ByteSizes, ChangeSize(b) PROVE Storing'
  BY <1>7, IdleStoring DEF ChangeSize
<1>8. ASSUME UNCHANGED vars PROVE Storing'
  <2>1. UNCHANGED fifo /\ pc' = pc /\ data' = data /\ j' = j
    BY <1>8 DEF vars, fifo
  <2> QED
    BY <2>1, SameContents DEF RInv, Storing
<1>9. Storing'
  BY <1>1, <1>2, <1>3, <1>4, <1>5, <1>6, <1>7, <1>8 DEF Next
<1> QED
  BY <1>0, <1>9 DEF RInv

(* Nobody is in a call when the buffer is made.                            *)
LEMMA InitRInv == Init => RInv
  BY InitIInv DEF Init, RInv, Storing

-----------------------------------------------------------------------------
(* The steps of the buffer and the calls on the queue.                     *)

(* A new buffer is an empty queue.                                         *)
LEMMA InitQueue == Init => Abstract!Init
<1> SUFFICES ASSUME Init PROVE Abstract!Init
  OBVIOUS
<1>1. Count = 0 /\ lock = Nobody
  BY DEF Init, Count
<1>2. Contents = << >>
  BY <1>1 DEF Contents
<1>3. Queue = << >>
  BY <1>1, <1>2 DEF Queue
<1>4. size - 1 \in {SlotCount(b) - 1 : b \in ByteSizes}
  BY DEF Init
<1>5. ret = [t \in Threads |-> Abstract!NoResult]
  BY DEF Init, Abstract!NoResult
<1> QED
  BY <1>3, <1>4, <1>5 DEF Abstract!Init

(* Entering a call changes nothing the queue knows of.                     *)
LEMMA EnterQueue ==
  ASSUME RInv, IInv', NEW t \in Threads, NEW loop \in {"write", "read"},
         NEW n, NEW d, loop = "read" => d = << >>, Enter(t, loop, n, d)
  PROVE  UNCHANGED Abstract!fifoVars
<1>1. /\ UNCHANGED fifo /\ pc' = [pc EXCEPT ![t] = loop]
      /\ data' = [data EXCEPT ![t] = d] /\ j' = [j EXCEPT ![t] = 0]
      /\ lock = Nobody /\ lock' = t /\ ret' = ret
  BY DEF Enter, Acquire
<1>2. /\ Contents' = Contents /\ Count' = Count /\ Count \in Nat
      /\ Contents \in Seq(Item) /\ Len(Contents) = Count
  BY <1>1, SameContents, ContentsSeq DEF RInv
<1>3. pc'[t] = loop /\ data'[t] = d /\ j'[t] = 0 /\ t # Nobody
  BY <1>1, BufferAssumption DEF RInv, IInv, TypeOK
<1>4. Queue = Contents
  BY <1>1 DEF Queue
<1>5. CASE loop = "write"
  <2>1. Queue' = SubSeq(Contents, 1, Count - 0)
    BY <1>1, <1>2, <1>3, <1>5 DEF Queue
  <2>2. Count - 0 = Len(Contents)
    BY <1>2
  <2>3. Queue' = Queue
    BY <1>2, <1>4, <2>1, <2>2, SubSeqFull
  <2> QED
    BY <1>1, <2>3 DEF Abstract!fifoVars, fifo
<1>6. CASE loop = "read"
  <2>1. Queue' = << >> \o Contents
    BY <1>1, <1>2, <1>3, <1>6 DEF Queue
  <2>2. Queue' = Queue
    BY <1>2, <1>4, <2>1, ConcatEmptySeq
  <2> QED
    BY <1>1, <2>2 DEF Abstract!fifoVars, fifo
<1> QED
  BY <1>5, <1>6

(* A word put into the buffer is not in the queue before the call returns. *)
LEMMA WriteItemQueue ==
  ASSUME RInv, IInv', NEW t \in Threads, WriteItem(t)
  PROVE  UNCHANGED Abstract!fifoVars
<1>1. /\ pc[t] = "write" /\ pc' = pc /\ lock' = lock /\ size' = size /\ ret' = ret
      /\ lock = t /\ t # Nobody /\ j[t] \in Nat /\ j'[t] = j[t] + 1
  BY BufferAssumption
     DEF WriteItem, RInv, IInv, TypeOK, MutualExclusion
<1>2. /\ Count \in Nat /\ Contents \in Seq(Item) /\ Len(Contents) = Count
      /\ Contents' \in Seq(Item) /\ Len(Contents') = Count'
  BY ContentsSeq, ContentsNext DEF RInv, ContentsShape
<1>3. Count' = Count + 1 /\ \A i \in 1 .. Count : Contents'[i] = Contents[i]
  BY ItemStored DEF RInv
<1>4. j[t] <= Count
  BY <1>1 DEF RInv, Storing
<1>5. /\ Count - j[t] \in Nat /\ Count - j[t] <= Count
      /\ (Count + 1) - (j[t] + 1) = Count - j[t]
  BY <1>1, <1>2, <1>4
<1>6. SubSeq(Contents', 1, Count - j[t]) = SubSeq(Contents, 1, Count - j[t])
  BY <1>2, <1>3, <1>5, PrefixKept
<1>7. Queue = SubSeq(Contents, 1, Count - j[t])
  BY <1>1 DEF Queue
<1>8. Queue' = SubSeq(Contents', 1, (Count + 1) - (j[t] + 1))
  BY <1>1, <1>3 DEF Queue
<1>9. Queue' = Queue
  BY <1>5, <1>6, <1>7, <1>8
<1> QED
  BY <1>1, <1>9 DEF Abstract!fifoVars

(* A word copied out stays in the queue until the call returns.            *)
LEMMA ReadItemQueue ==
  ASSUME RInv, IInv', NEW t \in Threads, ReadItem(t)
  PROVE  UNCHANGED Abstract!fifoVars
<1>1. /\ pc[t] = "read" /\ pc' = pc /\ lock' = lock /\ size' = size /\ ret' = ret
      /\ lock = t /\ t # Nobody
      /\ data'[t] = Append(data[t], slots[tail]) /\ data[t] \in Seq(Item)
  BY BufferAssumption
     DEF ReadItem, RInv, IInv, TypeOK, MutualExclusion, CallShape
<1>2. /\ Count \in Nat /\ Contents \in Seq(Item) /\ Len(Contents) = Count
      /\ Contents' \in Seq(Item) /\ Len(Contents') = Count'
  BY ContentsSeq, ContentsNext DEF RInv, ContentsShape
<1>3. /\ Count >= 1 /\ Count' = Count - 1 /\ Contents[1] = slots[tail]
      /\ \A i \in 1 .. Count' : Contents'[i] = Contents[i + 1]
  BY ItemRead DEF RInv
<1>4. /\ Len(Contents) = Len(Contents') + 1
      /\ \A i \in 1 .. Len(Contents') : Contents'[i] = Contents[i + 1]
  BY <1>2, <1>3
<1>5. Append(data[t], Contents[1]) \o Contents' = data[t] \o Contents
  BY <1>1, <1>2, <1>4, MoveOne, Zenon
<1>6. Queue = data[t] \o Contents
  BY <1>1 DEF Queue
<1>7. Queue' = Append(data[t], slots[tail]) \o Contents'
  BY <1>1 DEF Queue
<1>8. Queue' = Queue
  BY <1>3, <1>5, <1>6, <1>7
<1> QED
  BY <1>1, <1>8 DEF Abstract!fifoVars

(* The return of a write is the write of the queue: all of the batch, or   *)
(* as much of it as fits.                                                  *)
LEMMA WriteReturnQueue ==
  ASSUME RInv, IInv', NEW t \in Threads, WriteReturn(t)
  PROVE  data[t] \in Batches /\ Abstract!Write(t, data[t])
<1>1. /\ pc[t] = "write" /\ WriteDone(t) /\ UNCHANGED fifo /\ lock' = Nobody
      /\ ret' = [ret EXCEPT ![t] = [op |-> "write", count |-> j[t], data |-> << >>]]
  BY DEF WriteReturn, Return, Release
<1>2. /\ lock = t /\ t # Nobody
      /\ j[t] \in Nat /\ want[t] \in Nat /\ j[t] <= want[t]
      /\ data[t] \in Seq(Item) /\ Len(data[t]) = want[t]
  BY <1>1, BufferAssumption
     DEF RInv, IInv, TypeOK, MutualExclusion, CallShape
<1>3. /\ data[t] \in Batches /\ j[t] <= Count
      /\ \A i \in 1 .. j[t] : Contents[(Count - j[t]) + i] = data[t][i]
  BY <1>1 DEF RInv, Storing
<1>4. /\ Count \in Nat /\ Count <= size - 1 /\ (Full <=> Count = size - 1)
      /\ Contents \in Seq(Item) /\ Len(Contents) = Count /\ size \in Nat
  BY ContentsSeq, SlotCountPositive DEF RInv, IInv, TypeOK
<1> DEFINE m == Count - j[t]
<1>5. m \in Nat /\ m <= Count /\ m + j[t] = Count
  BY <1>2, <1>3, <1>4
<1>6. Queue = SubSeq(Contents, 1, m)
  BY <1>1, <1>2 DEF Queue
<1>7. Len(Queue) = m
  BY <1>4, <1>5, <1>6, Beginning
<1>8. Abstract!Stored(data[t]) = j[t]
  <2>1. j[t] = want[t] \/ Count = size - 1
    BY <1>1, <1>4 DEF WriteDone
  <2>2. Abstract!Stored(data[t]) =
          IF want[t] < (size - 1) - m THEN want[t] ELSE (size - 1) - m
    BY <1>2, <1>7 DEF Abstract!Stored, Abstract!Smaller
  <2> HIDE DEF m
  <2> QED
    BY <1>2, <1>4, <1>5, <2>1, <2>2
<1>9. Queue' = Contents
  BY <1>1, SameContents DEF Queue
<1>10. Contents = Queue \o SubSeq(data[t], 1, j[t])
  <2> HIDE DEF m
  <2>1. SubSeq(Contents, 1, m) \o SubSeq(data[t], 1, j[t]) = Contents
    <3>1. \A i \in 1 .. j[t] : Contents[m + i] = data[t][i]
      BY <1>3 DEF m
    <3>2. m + j[t] = Len(Contents) /\ j[t] <= Len(data[t])
      BY <1>2, <1>4, <1>5
    <3> QED
      BY <1>2, <1>4, <1>5, <3>1, <3>2, Rejoin, Zenon
  <2> QED
    BY <1>6, <2>1
<1> QED
  BY <1>1, <1>3, <1>8, <1>9, <1>10 DEF Abstract!Write, Abstract!WroteResult, fifo

(* The return of a read is the read of the queue: as many words as were    *)
(* asked for, or all there are.                                            *)
LEMMA ReadReturnQueue ==
  ASSUME RInv, IInv', NEW t \in Threads, ReadReturn(t)
  PROVE  Abstract!Read(t, want[t])
<1>1. /\ pc[t] = "read" /\ ReadDone(t) /\ UNCHANGED fifo /\ lock' = Nobody
      /\ ret' = [ret EXCEPT ![t] = [op |-> "read", count |-> j[t], data |-> data[t]]]
  BY DEF ReadReturn, Return, Release
<1>2. /\ lock = t /\ t # Nobody
      /\ j[t] \in Nat /\ want[t] \in Nat /\ j[t] <= want[t]
      /\ data[t] \in Seq(Item) /\ Len(data[t]) = j[t]
  BY <1>1, BufferAssumption
     DEF RInv, IInv, TypeOK, MutualExclusion, CallShape
<1>3. /\ Count \in Nat /\ (Empty <=> Count = 0)
      /\ Contents \in Seq(Item) /\ Len(Contents) = Count
  BY ContentsSeq DEF RInv
<1>4. Queue = data[t] \o Contents
  BY <1>1, <1>2 DEF Queue
<1>5. /\ Len(Queue) = Len(data[t]) + Len(Contents)
      /\ SubSeq(Queue, 1, Len(data[t])) = data[t]
      /\ SubSeq(Queue, Len(data[t]) + 1, Len(Queue)) = Contents
  <2>1. data[t] \in Seq(Item) /\ Contents \in Seq(Item)
    BY <1>2, <1>3
  <2>2. SplitsInto(Queue, data[t], Contents)
    BY <1>4, <2>1, SplitConcat, Zenon
  <2> QED
    BY <2>2 DEF SplitsInto
<1>6. Abstract!Found(want[t]) = j[t]
  <2>1. j[t] = want[t] \/ Count = 0
    BY <1>1, <1>3 DEF ReadDone
  <2>2. Abstract!Found(want[t]) =
          IF want[t] < j[t] + Count THEN want[t] ELSE j[t] + Count
    BY <1>2, <1>3, <1>5 DEF Abstract!Found, Abstract!Smaller
  <2> QED
    BY <1>2, <1>3, <2>1, <2>2
<1>7. Queue' = Contents
  BY <1>1, SameContents DEF Queue
<1>8. /\ SubSeq(Queue, 1, j[t]) = data[t]
      /\ SubSeq(Queue, j[t] + 1, Len(Queue)) = Contents
  BY <1>2, <1>5
<1>9. Abstract!ReadResult(data[t]) = [op |-> "read", count |-> j[t], data |-> data[t]]
  BY <1>2 DEF Abstract!ReadResult
<1> QED
  BY <1>1, <1>6, <1>7, <1>8, <1>9 DEF Abstract!Read, fifo

(* A change of size throws the queue away.                                 *)
LEMMA ChangeSizeQueue ==
  ASSUME RInv, NEW b \in ByteSizes, ChangeSize(b)
  PROVE  Abstract!ChangeSize(SlotCount(b) - 1)
<1>1. /\ \A t \in Threads : pc[t] = "idle"
      /\ size' = SlotCount(b) /\ head' = 0 /\ tail' = 0
      /\ lock' = lock /\ ret' = ret
  BY DEF ChangeSize, Fresh
<1>2. lock = Nobody
  BY <1>1 DEF RInv, IInv, TypeOK, MutualExclusion
<1>3. Count' = 0
  BY <1>1 DEF Count
<1>4. Contents' = << >>
  BY <1>3 DEF Contents
<1>5. Queue' = << >>
  BY <1>1, <1>2, <1>4 DEF Queue
<1> QED
  BY <1>1, <1>5 DEF Abstract!ChangeSize

(* Every step of the buffer is a step of the queue, or none.               *)
LEMMA NextQueue ==
  ASSUME RInv, IInv', [Next]_vars
  PROVE  [Abstract!Next]_(Abstract!fifoVars)
<1>1. ASSUME NEW t \in Writers, NEW batch \in Batches, CallWrite(t, batch)
      PROVE  UNCHANGED Abstract!fifoVars
  BY <1>1, EnterQueue DEF CallWrite, Threads
<1>2. ASSUME NEW t \in Writers, WriteItem(t)
      PROVE  UNCHANGED Abstract!fifoVars
  BY <1>2, WriteItemQueue DEF Threads
<1>3. ASSUME NEW t \in Writers, WriteReturn(t) PROVE Abstract!Next
  <2>1. t \in Threads
    BY DEF Threads
  <2>2. data[t] \in Batches /\ Abstract!Write(t, data[t])
    BY <1>3, <2>1, WriteReturnQueue
  <2> QED
    BY <2>1, <2>2, Zenon DEF Abstract!Next
<1>4. ASSUME NEW t \in Readers, NEW n \in 0 .. MaxBatch, CallRead(t, n)
      PROVE  UNCHANGED Abstract!fifoVars
  BY <1>4, EnterQueue DEF CallRead, Threads
<1>5. ASSUME NEW t \in Readers, ReadItem(t)
      PROVE  UNCHANGED Abstract!fifoVars
  BY <1>5, ReadItemQueue DEF Threads
<1>6. ASSUME NEW t \in Readers, ReadReturn(t) PROVE Abstract!Next
  <2>1. t \in Threads /\ want[t] \in 0 .. MaxBatch
    BY DEF Threads, RInv, IInv, TypeOK
  <2>2. Abstract!Read(t, want[t])
    BY <1>6, <2>1, ReadReturnQueue
  <2> QED
    BY <2>1, <2>2, Zenon DEF Abstract!Next
<1>7. ASSUME NEW b \in ByteSizes, ChangeSize(b) PROVE Abstract!Next
  <2>1. SlotCount(b) - 1 \in {SlotCount(x) - 1 : x \in ByteSizes}
    OBVIOUS
  <2>2. Abstract!ChangeSize(SlotCount(b) - 1)
    BY <1>7, ChangeSizeQueue
  <2> QED
    BY <2>1, <2>2, Zenon DEF Abstract!Next
<1>8. ASSUME UNCHANGED vars PROVE UNCHANGED Abstract!fifoVars
  <2>1. /\ UNCHANGED fifo /\ lock' = lock /\ pc' = pc /\ data' = data
        /\ j' = j /\ ret' = ret /\ size' = size
    BY <1>8 DEF vars, fifo
  <2>2. Queue' = Queue
    BY <2>1, SameContents DEF Queue
  <2> QED
    BY <2>1, <2>2 DEF Abstract!fifoVars
<1> QED
  BY <1>1, <1>2, <1>3, <1>4, <1>5, <1>6, <1>7, <1>8 DEF Next

-----------------------------------------------------------------------------
(* Every reachable state satisfies the invariant.                          *)
THEOREM StoringInvariance == Spec => []RInv
  BY InitRInv, NextRInv, PTL DEF Spec

(* The loops of fifo_write_storage and fifo_read_storage, whatever the     *)
(* size of the buffer and however the calls of any number of threads       *)
(* interleave, are the atomic calls of a bounded queue.                    *)
THEOREM Implements == Spec => ImplementsQueue
<1>1. RInv /\ RInv' /\ [Next]_vars => [Abstract!Next]_(Abstract!fifoVars)
  BY NextQueue DEF RInv
<1> QED
  BY <1>1, InitQueue, StoringInvariance, PTL
     DEF Spec, ImplementsQueue, Abstract!Spec
=============================================================================
