----------------------------- MODULE FifoBytes -----------------------------
(***************************************************************************)
(* The other two kinds of buffer that lib/fifo_buffer.cc offers: bytes and *)
(* gr_complex samples.  Their indices wrap by a mask instead of a          *)
(* comparison, and fifo_read_2 and fifo_read_3 put the bytes of an         *)
(* incomplete item back.  No block of the repository uses them.            *)
(*                                                                         *)
(* A call holds fp_mutex from its first statement to its last, so a call   *)
(* is one step; FifoBuffer shows what the mutex is worth.  The loops are   *)
(* functions of the number of turns.                                       *)
(***************************************************************************)
EXTENDS Integers, Sequences

CONSTANTS
  Item,       \* the bytes, or samples, stored
  Junk,       \* what fresh memory holds, and memory outside the buffer
  Types,      \* the buffer types in use
  ByteSizes,  \* per type, the sizes asked for, in bytes
  Readers,    \* the functions bytes are read with
  MaxWrite,   \* bound: items in one write
  MaxRead,    \* bound: items asked of one read
  UintBound   \* bound: 2^w for a uint of w bits, 2^32 in the code

\* m_div_constant: the bytes of an item.
DivConstant(t) == IF t = "complex" THEN 8 ELSE 1
SlotCount(t, bytes) == bytes \div DivConstant(t)

ASSUME BytesAssumption ==
  /\ Junk \notin Item
  /\ Types \subseteq {"uint8", "complex"}
  /\ Readers \subseteq {"fifo_read", "fifo_read_2", "fifo_read_3"}
  /\ MaxWrite \in Nat /\ MaxRead \in Nat /\ UintBound \in Nat
  /\ \A t \in Types : \A b \in ByteSizes[t] :
       /\ \E k \in 0 .. 31 : SlotCount(t, b) = 2 ^ k
       /\ SlotCount(t, b) \in 1 .. UintBound - 4

VARIABLES
  type,   \* m_buffer_type
  slots,  \* m_fifoBuffer or m_fifoBufferComplex
  head, tail, mask, size,
  queue,  \* history: the items written and not yet returned by a read
  astray, \* history: fifo_read_3 has put bytes back past the start of slots
  last    \* what the last call was asked and gave, and whether what it gave
          \* was what queue began with

fifo == <<slots, head, tail>>
vars == <<type, slots, head, tail, mask, size, queue, astray, last>>

-----------------------------------------------------------------------------
(* Wrong variants, one mistake each, that the properties tell from the     *)
(* code.                                                                   *)

FullNoWrap(f) == f.head + 1 = tail
PutBackNothing(t) == t
RestOdd(got, n, w) == 0

-----------------------------------------------------------------------------
(* The loops, after k turns.  A loop that has returned stays as it is: a   *)
(* full buffer stays full, and an empty one empty.                         *)

Uint(i) == i % UintBound

\* i & fifoMask, for a mask that is all ones, as BytesAssumption has it.
Wrap(i) == i % (mask + 1)

Full(f) == f.head + 1 = tail \/ (f.head + 1 = size /\ tail = 0)

\* A turn of fifo_write and fifo_write_complex, with the item x: the head and
\* the slots, and how many items are in.
WriteTurn(f, x) ==
  IF Full(f) THEN f
  ELSE [head  |-> Wrap(f.head + 1),
        slots |-> [f.slots EXCEPT ![f.head] = x],
        count |-> f.count + 1]

WriteTurns(batch) ==
  LET turns[k \in 0 .. Len(batch)] ==
        IF k = 0 THEN [head |-> head, slots |-> slots, count |-> 0]
        ELSE WriteTurn(turns[k - 1], batch[k])
  IN  turns

\* A turn of the loop all four read functions share: the tail, and the items
\* out.
ReadTurn(f) ==
  IF head = f.tail THEN f
  ELSE [tail |-> Wrap(f.tail + 1), data |-> Append(f.data, slots[f.tail])]

ReadTurns(n) ==
  LET turns[k \in 0 .. n] ==
        IF k = 0 THEN [tail |-> tail, data |-> << >>] ELSE ReadTurn(turns[k - 1])
  IN  turns

\* What is put back: the bytes of an item of w that the buffer ran out in.
Rest(got, n, w) == IF got < n THEN got % w ELSE 0

\* fifo_read_2: the tail one item back.
PutBackOne(t) == IF t = 0 THEN mask ELSE t - 1

\* fifo_read_3: the tail rem items back.  fifoTail is unsigned and so is the
\* difference, which is <= 0 only when it is 0.
PutBackRest(t, rem) == IF Uint(t - rem) <= 0 THEN Uint(mask + t - rem) ELSE Uint(t - rem)

-----------------------------------------------------------------------------

\* fifo_init, with the memory that new has given.
Fresh(n) ==
  /\ slots' = [i \in 0 .. n - 1 |-> Junk]
  /\ head' = 0 /\ tail' = 0
  /\ mask' = n - 1 /\ size' = n

Init ==
  /\ type \in Types
  /\ \E b \in ByteSizes[type] :
       LET n == SlotCount(type, b) IN
       /\ slots = [i \in 0 .. n - 1 |-> Junk]
       /\ mask = n - 1 /\ size = n
  /\ head = 0 /\ tail = 0
  /\ queue = <<>> /\ astray = FALSE
  /\ last = [op |-> "none", asked |-> 0, count |-> 0, oldest |-> TRUE]

\* The power of two that isPowerOfTwo gives is not used.
ChangeSize(bytes) ==
  /\ Fresh(SlotCount(type, bytes))
  /\ queue' = <<>> /\ astray' = FALSE
  /\ last' = [op |-> "none", asked |-> 0, count |-> 0, oldest |-> TRUE]
  /\ UNCHANGED type

Write(op, batch) ==
  LET f == WriteTurns(batch)[Len(batch)] IN
  /\ slots' = f.slots /\ head' = f.head
  /\ queue' = queue \o SubSeq(batch, 1, f.count)
  /\ last' = [op |-> op, asked |-> Len(batch), count |-> f.count, oldest |-> TRUE]
  /\ UNCHANGED <<type, tail, mask, size, astray>>

\* A read that returns the first count items it has copied, and leaves the
\* tail at t.
Read(op, n, data, count, t) ==
  /\ tail' = t
  /\ last' = [op |-> op, asked |-> n, count |-> count,
              oldest |-> /\ count <= Len(queue)
                         /\ SubSeq(data, 1, count) = SubSeq(queue, 1, count)]
  /\ queue' = SubSeq(queue, count + 1, Len(queue))
  /\ UNCHANGED <<type, slots, head, mask, size>>

Batches == UNION {[1 .. n -> Item] : n \in 0 .. MaxWrite}

fifo_write == type = "uint8" /\ \E b \in Batches : Write("fifo_write", b)

fifo_write_complex ==
  type = "complex" /\ \E b \in Batches : Write("fifo_write_complex", b)

fifo_read ==
  /\ type = "uint8" /\ "fifo_read" \in Readers
  /\ \E n \in 0 .. MaxRead :
       LET f == ReadTurns(n)[n] IN Read("fifo_read", n, f.data, Len(f.data), f.tail)
  /\ UNCHANGED astray

fifo_read_complex ==
  /\ type = "complex"
  /\ \E n \in 0 .. MaxRead :
       LET f == ReadTurns(n)[n] IN Read("fifo_read_complex", n, f.data, Len(f.data), f.tail)
  /\ UNCHANGED astray

fifo_read_2 ==
  /\ type = "uint8" /\ "fifo_read_2" \in Readers
  /\ \E n \in 0 .. MaxRead :
       LET f == ReadTurns(n)[n]
           rest == Rest(Len(f.data), n, 2)
       IN  Read("fifo_read_2", n, f.data, Len(f.data) - rest,
                IF rest = 0 THEN f.tail ELSE PutBackOne(f.tail))
  /\ UNCHANGED astray

fifo_read_3 ==
  /\ type = "uint8" /\ "fifo_read_3" \in Readers
  /\ \E n \in 0 .. MaxRead :
       LET f == ReadTurns(n)[n]
           rest == Rest(Len(f.data), n, 4)
       IN  /\ Read("fifo_read_3", n, f.data, Len(f.data) - rest,
                   IF rest = 0 THEN f.tail ELSE PutBackRest(f.tail, rest))
           /\ astray' = (rest # 0 /\ f.tail <= rest)

\* Bound: what reads and writes do once the tail is astray is not followed.
Next ==
  \/ /\ ~ astray
     /\ \/ fifo_write \/ fifo_read \/ fifo_read_2 \/ fifo_read_3
        \/ fifo_write_complex \/ fifo_read_complex
  \/ \E b \in ByteSizes[type] : ChangeSize(b)

Spec == Init /\ [][Next]_vars

-----------------------------------------------------------------------------
(* Properties.                                                             *)

Count == IF head >= tail THEN head - tail ELSE head - tail + size
Contents == [i \in 1 .. Count |-> slots[(tail + i - 1) % size]]

TypeOK ==
  /\ type \in Types /\ astray \in BOOLEAN
  /\ DOMAIN slots = 0 .. size - 1
  /\ head \in 0 .. size - 1
  /\ tail \in 0 .. UintBound - 1
  /\ last.count \in 0 .. last.asked

(* What lies between tail and head is what has been written and not yet    *)
(* been returned, in order, whatever was put back and wherever the indices *)
(* have wrapped: the mask of fifo_write and fifo_read is right for sizes   *)
(* that are powers of two and fifo_read_2 gives its odd byte back.  The    *)
(* one exception is exactly this: fifo_read_3 runs out of bytes with the   *)
(* tail less than its rest, or just its rest, behind the start of slots.   *)
ContentsAreQueue ==
  /\ TypeOK
  /\ ~ astray <=> tail \in 0 .. size - 1 /\ Contents = queue

(* Every read returns the oldest items, each once.                         *)
ReadsOldest == last.oldest

(* No call stops too early.  A write is cut short only by a buffer that    *)
(* holds all it can, one item less than it has slots; a read by one that   *)
(* is empty, or, where fifo_read_2 and fifo_read_3 are asked for whole     *)
(* items of w = 2 or 4 bytes and return whole items, holds less than one.  *)
CutShortOnlyAtLimit ==
  LET w == CASE last.op = "fifo_read_2" -> 2 [] last.op = "fifo_read_3" -> 4
             [] OTHER -> 1
      IsWrite == last.op \in {"fifo_write", "fifo_write_complex"}
  IN  ~ astray =>
        /\ IsWrite /\ last.count < last.asked => Len(queue) = size - 1
        /\ ~ IsWrite /\ last.asked % w = 0 =>
              /\ last.count % w = 0
              /\ last.count < last.asked => Len(queue) < w
=============================================================================
