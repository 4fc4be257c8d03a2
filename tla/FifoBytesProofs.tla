-------------------------- MODULE FifoBytesProofs --------------------------
(***************************************************************************)
(* Proofs about FifoBytes: the masked rings of bytes and samples hold what *)
(* was written and not yet read, for every size, batch and length of a     *)
(* read.                                                                   *)
(*                                                                         *)
(* A call runs its loop in one step, so the argument has two inductions:   *)
(* over the turns of a loop (ReadDone, WriteDone), and over the calls      *)
(* (IInv).                                                                 *)
(***************************************************************************)
EXTENDS FifoBytes, SequenceTheorems, WellFoundedInduction, TLAPS

-----------------------------------------------------------------------------
(* Induction.  The library states it for a predicate; these are for a set. *)

(* The natural numbers are well founded.                                   *)
LEMMA LessWellFounded ==
  IsWellFoundedOn({p \in Nat \X Nat : p[1] < p[2]}, Nat)
<1>1. OpToRel(<, Nat) = {p \in Nat \X Nat : p[1] < p[2]}
  BY DEF OpToRel
<1> QED
  BY <1>1, NatLessThanWellFounded

(* A set of natural numbers that is not empty has a least element.         *)
LEMMA Least ==
  ASSUME NEW T, T \subseteq Nat, T # {}
  PROVE  \E x \in T : \A y \in T : x <= y
<1> DEFINE R == {p \in Nat \X Nat : p[1] < p[2]}
<1>1. IsWellFoundedOn(R, Nat)
  BY LessWellFounded
<1>2. PICK x \in T : \A y \in T : ~ (<<y, x>> \in R)
  <2> HIDE DEF R
  <2> QED
    BY <1>1, WFMin, Zenon
<1>3. ASSUME NEW y \in T PROVE x <= y
  <2>1. x \in Nat /\ y \in Nat /\ <<y, x>> \in Nat \X Nat
    OBVIOUS
  <2>2. <<y, x>> \notin R
    BY <1>2
  <2>3. ~ (<<y, x>>[1] < <<y, x>>[2])
    BY <2>1, <2>2
  <2> QED
    BY <2>1, <2>3
<1> QED
  BY <1>3

(* A set that holds 0 and with every number the next holds all up to n.    *)
LEMMA Induction ==
  ASSUME NEW S, NEW n \in Nat, 0 \in S,
         \A k \in 0 .. n - 1 : k \in S => k + 1 \in S
  PROVE  \A k \in 0 .. n : k \in S
<1> SUFFICES ASSUME NEW k \in 0 .. n, k \notin S PROVE FALSE
  OBVIOUS
<1> DEFINE T == {i \in 0 .. n : i \notin S}
<1>1. PICK x \in T : \A y \in T : x <= y
  <2>1. T \subseteq Nat /\ k \in T
    OBVIOUS
  <2> HIDE DEF T
  <2> QED
    BY <2>1, Least
<1>2. x # 0 /\ x \in 0 .. n
  OBVIOUS
<1>3. x - 1 \in 0 .. n - 1 /\ x - 1 \in 0 .. n /\ (x - 1) + 1 = x
  BY <1>2
<1>4. x - 1 \in S
  BY <1>1, <1>3
<1> QED
  BY <1>3, <1>4

-----------------------------------------------------------------------------
(* Remainders.                                                             *)

(* An index that leaves the ring by less than its size comes back once.    *)
LEMMA Remainder ==
  ASSUME NEW m \in Nat \ {0}, NEW a \in Nat, a < 2 * m
  PROVE  a % m = IF a < m THEN a ELSE a - m
OBVIOUS

(* An unsigned difference below 0.                                         *)
LEMMA Underflow ==
  ASSUME NEW m \in Nat \ {0}, NEW a \in Int, 0 - m <= a, a < 0
  PROVE  a % m = a + m
OBVIOUS

-----------------------------------------------------------------------------
(* The ring.                                                               *)

Cell == Item \cup {Junk}

\* The slot j after t, and how far h is after t.
Pos(t, j)  == IF t + j < size THEN t + j ELSE t + j - size
Dist(h, t) == IF h >= t THEN h - t ELSE h - t + size

\* Between t and h, the slots s hold q.
Holds(h, t, s, q) ==
  /\ q \in Seq(Item) /\ Len(q) = Dist(h, t)
  /\ \A j \in 1 .. Len(q) : s[Pos(t, j - 1)] = q[j]

Sized ==
  /\ size \in Nat \ {0} /\ size + 4 <= UintBound /\ mask = size - 1
  /\ UintBound \in Nat

Shape ==
  /\ Sized
  /\ slots \in [0 .. size - 1 -> Cell]
  /\ head \in 0 .. size - 1 /\ tail \in 0 .. size - 1
  /\ Holds(head, tail, slots, queue)

(* One slot further, by the mask.                                          *)
LEMMA WrapOne ==
  ASSUME Sized, NEW t \in 0 .. size - 1
  PROVE  Wrap(t + 1) = Pos(t, 1) /\ Pos(t, 1) \in 0 .. size - 1
<1> DEFINE a == t + 1
<1>1. a \in Nat /\ a < 2 * size /\ size \in Nat \ {0} /\ mask + 1 = size
  <2>1. size \in Nat \ {0} /\ mask + 1 = size
    BY DEF Sized
  <2>2. t + 1 \in Nat /\ t + 1 < 2 * size
    BY <2>1
  <2> QED
    BY <2>1, <2>2
<1>2. Pos(t, 1) = IF a < size THEN a ELSE a - size
  BY <1>1 DEF Pos
<1>3. Pos(t, 1) \in 0 .. size - 1
  BY <1>1 DEF Pos
<1> HIDE DEF a
<1>4. a % size = IF a < size THEN a ELSE a - size
  BY <1>1, Remainder
<1>5. Wrap(a) = a % size
  BY <1>1 DEF Wrap
<1>6. Wrap(a) = Pos(t, 1)
  BY <1>2, <1>4, <1>5
<1> QED
  BY <1>3, <1>6 DEF a

(* A write into the slot at h.                                             *)
LEMMA PutOne ==
  ASSUME Sized, NEW h \in 0 .. size - 1, NEW t \in 0 .. size - 1,
         NEW s \in [0 .. size - 1 -> Cell], NEW q, NEW x \in Item,
         Holds(h, t, s, q),
         ~ (h + 1 = t \/ (h + 1 = size /\ t = 0))
  PROVE  /\ [s EXCEPT ![h] = x] \in [0 .. size - 1 -> Cell]
         /\ Holds(Pos(h, 1), t, [s EXCEPT ![h] = x], Append(q, x))
<1> DEFINE s1 == [s EXCEPT ![h] = x]
           q1 == Append(q, x)
<1>1. /\ size \in Nat /\ q \in Seq(Item) /\ Len(q) = Dist(h, t) /\ Len(q) \in Nat
      /\ \A j \in 1 .. Len(q) : s[Pos(t, j - 1)] = q[j]
  BY LenProperties DEF Holds, Sized
<1>2. /\ q1 \in Seq(Item) /\ Len(q1) = Len(q) + 1
      /\ \A j \in 1 .. Len(q) : q1[j] = q[j]
      /\ q1[Len(q) + 1] = x
  BY <1>1, AppendProperties
<1>3. Len(q) + 1 = Dist(Pos(h, 1), t)
  BY <1>1 DEF Dist, Pos
<1>4. s1 \in [0 .. size - 1 -> Cell] /\ s1[h] = x
      /\ \A i \in 0 .. size - 1 : i # h => s1[i] = s[i]
  BY DEF Cell
<1>5. Pos(t, Len(q)) = h
  BY <1>1 DEF Dist, Pos
<1>6. ASSUME NEW j \in 1 .. Len(q)
      PROVE  Pos(t, j - 1) \in 0 .. size - 1 /\ Pos(t, j - 1) # h
  BY <1>1 DEF Dist, Pos
<1>7. ASSUME NEW j \in 1 .. Len(q) + 1 PROVE s1[Pos(t, j - 1)] = q1[j]
  <2>1. CASE j = Len(q) + 1
    <3>1. j - 1 = Len(q)
      BY <1>1, <2>1
    <3> QED
      BY <1>2, <1>4, <1>5, <2>1, <3>1
  <2>2. CASE j # Len(q) + 1
    <3>1. j \in 1 .. Len(q)
      BY <1>1, <2>2
    <3> HIDE DEF s1, q1
    <3> QED
      BY <1>1, <1>2, <1>4, <1>6, <3>1
  <2> QED
    BY <2>1, <2>2
<1> HIDE DEF s1, q1
<1>8. Holds(Pos(h, 1), t, s1, q1)
  BY <1>2, <1>3, <1>7 DEF Holds
<1> QED
  BY <1>4, <1>8 DEF s1, q1

(* The k oldest items left out.                                            *)
LEMMA DropSome ==
  ASSUME Sized, NEW h \in 0 .. size - 1, NEW t \in 0 .. size - 1,
         NEW s, NEW q, Holds(h, t, s, q), NEW k \in 0 .. Len(q)
  PROVE  /\ Pos(t, k) \in 0 .. size - 1
         /\ Holds(h, Pos(t, k), s, SubSeq(q, k + 1, Len(q)))
         /\ Len(SubSeq(q, k + 1, Len(q))) = Len(q) - k
<1> DEFINE r == SubSeq(q, k + 1, Len(q))
<1>1. /\ size \in Nat /\ q \in Seq(Item) /\ Len(q) = Dist(h, t) /\ Len(q) \in Nat
      /\ k \in Nat
      /\ \A j \in 1 .. Len(q) : s[Pos(t, j - 1)] = q[j]
  BY LenProperties DEF Holds, Sized
<1>2. Pos(t, k) \in 0 .. size - 1 /\ Len(q) - k = Dist(h, Pos(t, k))
  BY <1>1 DEF Dist, Pos
<1>3. \A i \in k + 1 .. Len(q) : q[i] \in Item
  BY <1>1, ElementOfSeq
<1>4. /\ r \in Seq(Item)
      /\ Len(r) = IF k + 1 <= Len(q) THEN Len(q) - (k + 1) + 1 ELSE 0
      /\ \A j \in 1 .. Len(q) - (k + 1) + 1 : r[j] = q[(k + 1) + j - 1]
  BY <1>1, <1>3, SubSeqProperties
<1> HIDE DEF r
<1>5. Len(r) = Len(q) - k
  BY <1>1, <1>4
<1>6. ASSUME NEW j \in 1 .. Len(r) PROVE s[Pos(Pos(t, k), j - 1)] = r[j]
  <2>1. /\ j + k \in 1 .. Len(q) /\ (k + 1) + j - 1 = j + k
        /\ j \in 1 .. Len(q) - (k + 1) + 1
    BY <1>1, <1>5
  <2>2. Pos(Pos(t, k), j - 1) = Pos(t, (j + k) - 1)
    BY <1>1, <2>1 DEF Pos, Dist
  <2> QED
    BY <1>1, <1>4, <2>1, <2>2
<1>7. Holds(h, Pos(t, k), s, r)
  BY <1>2, <1>4, <1>5, <1>6 DEF Holds
<1> QED
  BY <1>2, <1>5, <1>7 DEF r

-----------------------------------------------------------------------------
(* The loops.                                                              *)

(* The turns of a read: the first, and each from the one before.           *)
LEMMA ReadTurnsAre ==
  ASSUME NEW max \in Nat
  PROVE  /\ ReadTurns(max)[0] = [tail |-> tail, data |-> << >>]
         /\ \A k \in 1 .. max : ReadTurns(max)[k] = ReadTurn(ReadTurns(max)[k - 1])
<1> DEFINE First == [tail |-> tail, data |-> << >>]
           Are(g, m) == g = [k \in 0 .. m |->
                               IF k = 0 THEN First ELSE ReadTurn(g[k - 1])]
           S == {m \in Nat : \E g : Are(g, m)}
           n == max
<1>1. ReadTurns(max) = CHOOSE g : Are(g, n)
  BY DEF ReadTurns
<1> HIDE DEF First
<1>2. 0 \in S
  <2>1. Are([k \in 0 .. 0 |-> First], 0)
    OBVIOUS
  <2> QED
    BY <2>1
<1>3. n \in Nat
  OBVIOUS
<1> HIDE DEF n
<1>4. ASSUME NEW m \in 0 .. n - 1, m \in S PROVE m + 1 \in S
  <2>1. PICK g : Are(g, m)
    BY <1>4
  <2> DEFINE h == [k \in 0 .. m + 1 |-> IF k = m + 1 THEN ReadTurn(g[m]) ELSE g[k]]
  <2>2. ASSUME NEW k \in 0 .. m + 1
        PROVE  h[k] = IF k = 0 THEN First ELSE ReadTurn(h[k - 1])
    <3>1. CASE k = m + 1
      BY <3>1
    <3>2. CASE k # m + 1
      <4>1. k \in 0 .. m /\ h[k] = g[k]
        BY <3>2
      <4>2. k # 0 => k - 1 \in 0 .. m + 1 /\ k - 1 # m + 1 /\ h[k - 1] = g[k - 1]
        BY <4>1
      <4>3. g[k] = IF k = 0 THEN First ELSE ReadTurn(g[k - 1])
        BY <2>1, <4>1
      <4> QED
        BY <4>1, <4>2, <4>3
    <3> QED
      BY <3>1, <3>2
  <2>3. Are(h, m + 1)
    <3> HIDE DEF h
    <3>1. h = [k \in 0 .. m + 1 |-> h[k]]
      BY DEF h
    <3> QED
      BY <2>2, <3>1
  <2>4. m + 1 \in Nat
    OBVIOUS
  <2> HIDE DEF Are, h
  <2> QED
    BY <2>3, <2>4
<1>5. n \in S
  <2>1. n \in 0 .. n
    BY <1>3
  <2> HIDE DEF S
  <2> QED
    BY <1>2, <1>3, <1>4, <2>1, Induction
<1>6. Are(ReadTurns(max), n)
  BY <1>1, <1>5
<1> QED
  BY <1>3, <1>6 DEF First, n

(* The turns of a write.                                                   *)
LEMMA WriteTurnsAre ==
  ASSUME NEW batch \in Seq(Item)
  PROVE  /\ WriteTurns(batch)[0] = [head |-> head, slots |-> slots, count |-> 0]
         /\ \A k \in 1 .. Len(batch) : WriteTurns(batch)[k] = WriteTurn(WriteTurns(batch)[k - 1], batch[k])
<1> DEFINE First == [head |-> head, slots |-> slots, count |-> 0]
           Are(g, m) == g = [k \in 0 .. m |->
                               IF k = 0 THEN First ELSE WriteTurn(g[k - 1], batch[k])]
           S == {m \in Nat : \E g : Are(g, m)}
           n == Len(batch)
<1>1. WriteTurns(batch) = CHOOSE g : Are(g, n)
  BY DEF WriteTurns
<1> HIDE DEF First
<1>2. 0 \in S
  <2>1. Are([k \in 0 .. 0 |-> First], 0)
    OBVIOUS
  <2> QED
    BY <2>1
<1>3. n \in Nat
  BY LenProperties
<1> HIDE DEF n
<1>4. ASSUME NEW m \in 0 .. n - 1, m \in S PROVE m + 1 \in S
  <2>1. PICK g : Are(g, m)
    BY <1>4
  <2> DEFINE h == [k \in 0 .. m + 1 |-> IF k = m + 1 THEN WriteTurn(g[m], batch[m + 1]) ELSE g[k]]
  <2>2. ASSUME NEW k \in 0 .. m + 1
        PROVE  h[k] = IF k = 0 THEN First ELSE WriteTurn(h[k - 1], batch[k])
    <3>1. CASE k = m + 1
      BY <3>1
    <3>2. CASE k # m + 1
      <4>1. k \in 0 .. m /\ h[k] = g[k]
        BY <3>2
      <4>2. k # 0 => k - 1 \in 0 .. m + 1 /\ k - 1 # m + 1 /\ h[k - 1] = g[k - 1]
        BY <4>1
      <4>3. g[k] = IF k = 0 THEN First ELSE WriteTurn(g[k - 1], batch[k])
        BY <2>1, <4>1
      <4> QED
        BY <4>1, <4>2, <4>3
    <3> QED
      BY <3>1, <3>2
  <2>3. Are(h, m + 1)
    <3> HIDE DEF h
    <3>1. h = [k \in 0 .. m + 1 |-> h[k]]
      BY DEF h
    <3> QED
      BY <2>2, <3>1
  <2>4. m + 1 \in Nat
    OBVIOUS
  <2> HIDE DEF Are, h
  <2> QED
    BY <2>3, <2>4
<1>5. n \in S
  <2>1. n \in 0 .. n
    BY <1>3
  <2> HIDE DEF S
  <2> QED
    BY <1>2, <1>3, <1>4, <2>1, Induction
<1>6. Are(WriteTurns(batch), n)
  BY <1>1, <1>5
<1> QED
  BY <1>3, <1>6 DEF First, n


(* The first k items and the next are the first k + 1.                     *)
LEMMA OneMore ==
  ASSUME NEW q \in Seq(Item), NEW k \in 0 .. Len(q) - 1
  PROVE  /\ SubSeq(q, 1, k) \in Seq(Item) /\ Len(SubSeq(q, 1, k)) = k
         /\ q[k + 1] \in Item
         /\ Append(SubSeq(q, 1, k), q[k + 1]) = SubSeq(q, 1, k + 1)
<1>1. Len(q) \in Nat /\ k \in Nat /\ k + 1 \in 1 .. Len(q) /\ (k + 1) - 1 = k
  BY LenProperties
<1>2. q[k + 1] \in Item
  BY <1>1, ElementOfSeq
<1>3. \A i \in 1 .. k : q[i] \in Item
  BY <1>1, ElementOfSeq
<1>4. /\ SubSeq(q, 1, k) \in Seq(Item)
      /\ Len(SubSeq(q, 1, k)) = IF 1 <= k THEN k - 1 + 1 ELSE 0
  BY <1>1, <1>3, SubSeqProperties
<1>5. Len(SubSeq(q, 1, k)) = k
  BY <1>1, <1>4
<1>6. SubSeq(q, 1, k + 1) = SubSeq(q, 1, (k + 1) - 1) \o << q[k + 1] >>
  BY <1>1, SubSeqRecursiveSecond
<1>7. Append(SubSeq(q, 1, k), q[k + 1]) = SubSeq(q, 1, k) \o << q[k + 1] >>
  BY <1>2, <1>4, AppendIsConcat
<1> QED
  BY <1>1, <1>2, <1>4, <1>5, <1>6, <1>7

\* What a read has done after k turns.
ReadSoFar(f, k) ==
  /\ Len(f.data) \in 0 .. k /\ Len(f.data) <= Len(queue)
  /\ f.data = SubSeq(queue, 1, Len(f.data))
  /\ f.tail = Pos(tail, Len(f.data))
  /\ Len(f.data) < k => Len(f.data) = Len(queue)

(* A turn of a read takes the next of the items, unless none is left.      *)
LEMMA ReadTurnTakes ==
  ASSUME Shape, NEW k \in Nat, NEW f, ReadSoFar(f, k)
  PROVE  ReadSoFar(ReadTurn(f), k + 1)
<1> DEFINE got == Len(f.data)
<1>1. /\ Sized /\ head \in 0 .. size - 1 /\ tail \in 0 .. size - 1
      /\ Holds(head, tail, slots, queue) /\ size \in Nat
  BY DEF Shape, Sized
<1>2. queue \in Seq(Item) /\ Len(queue) \in Nat
  BY <1>1, LenProperties DEF Holds
<1>3. /\ got \in 0 .. k /\ got <= Len(queue) /\ f.data = SubSeq(queue, 1, got)
      /\ f.tail = Pos(tail, got) /\ (got < k => got = Len(queue))
  BY DEF ReadSoFar
<1> HIDE DEF got
<1>4. got \in 0 .. Len(queue) /\ got \in Nat
  BY <1>2, <1>3
<1>5. /\ Pos(tail, got) \in 0 .. size - 1
      /\ Len(queue) - got = Dist(head, Pos(tail, got))
  <2> DEFINE r == SubSeq(queue, got + 1, Len(queue))
  <2>1. /\ Pos(tail, got) \in 0 .. size - 1 /\ Len(r) = Len(queue) - got
        /\ Holds(head, Pos(tail, got), slots, r)
    BY <1>1, <1>4, DropSome
  <2> HIDE DEF r
  <2>2. Len(r) = Dist(head, Pos(tail, got))
    BY <2>1 DEF Holds
  <2> QED
    BY <2>1, <2>2
<1>6. CASE head = f.tail
  <2>1. got = Len(queue)
    BY <1>1, <1>2, <1>3, <1>4, <1>5, <1>6 DEF Dist
  <2>2. ReadTurn(f) = f
    BY <1>6 DEF ReadTurn
  <2>3. got \in 0 .. k + 1
    BY <1>3
  <2> QED
    BY <1>3, <2>1, <2>2, <2>3 DEF ReadSoFar, got
<1>7. CASE head # f.tail
  <2>1. got < Len(queue)
    BY <1>1, <1>2, <1>3, <1>4, <1>5, <1>7 DEF Dist
  <2>2. got \in 0 .. Len(queue) - 1 /\ got + 1 \in 1 .. Len(queue) /\ (got + 1) - 1 = got
    BY <1>2, <1>4, <2>1
  <2>3. slots[Pos(tail, got)] = queue[got + 1]
    BY <1>1, <2>2 DEF Holds
  <2>4. Wrap(f.tail + 1) = Pos(tail, got + 1)
    <3>1. Wrap(f.tail + 1) = Pos(Pos(tail, got), 1)
      BY <1>1, <1>3, <1>5, WrapOne
    <3>2. Len(queue) < size
      BY <1>1, <1>2 DEF Holds, Dist
    <3>3. Pos(Pos(tail, got), 1) = Pos(tail, got + 1)
      BY <1>1, <1>4, <2>1, <3>2, <1>2 DEF Pos
    <3> QED
      BY <3>1, <3>3
  <2> DEFINE g == [tail |-> Wrap(f.tail + 1), data |-> Append(f.data, slots[f.tail])]
  <2>5. g.tail = Pos(tail, got + 1) /\ g.data = SubSeq(queue, 1, got + 1)
    BY <1>2, <1>3, <2>2, <2>3, <2>4, OneMore
  <2>6. Len(SubSeq(queue, 1, got + 1)) = got + 1
    <3>1. f.data \in Seq(Item) /\ Len(f.data) = got /\ queue[got + 1] \in Item
      BY <1>2, <1>3, <2>2, OneMore
    <3>2. Len(Append(f.data, queue[got + 1])) = got + 1
      BY <3>1, AppendProperties
    <3> QED
      BY <1>2, <1>3, <2>2, <3>2, OneMore
  <2>7. got + 1 \in 0 .. k + 1 /\ (got + 1 < k + 1 => got + 1 = Len(queue))
    BY <1>2, <1>3, <1>4, <2>1
  <2>8. ReadTurn(f) = g
    BY <1>7 DEF ReadTurn
  <2>9. got + 1 <= Len(queue)
    BY <2>2
  <2> HIDE DEF g
  <2> QED
    BY <2>5, <2>6, <2>7, <2>8, <2>9 DEF ReadSoFar
<1> QED
  BY <1>6, <1>7

(* A read of up to n items.                                                *)
LEMMA ReadDone ==
  ASSUME Shape, NEW n \in Nat
  PROVE  ReadSoFar(ReadTurns(n)[n], n)
<1> DEFINE S == {k \in 0 .. n : ReadSoFar(ReadTurns(n)[k], k)}
<1>1. /\ size \in Nat /\ queue \in Seq(Item) /\ Len(queue) \in Nat
      /\ tail \in 0 .. size - 1
  BY LenProperties DEF Shape, Sized, Holds
<1>2. 0 \in S
  <2>1. ReadTurns(n)[0] = [tail |-> tail, data |-> << >>]
    BY ReadTurnsAre
  <2>2. SubSeq(queue, 1, 0) = << >> /\ Len(<< >>) = 0
    BY SubSeqEmpty, EmptySeq
  <2>3. Pos(tail, 0) = tail
    BY <1>1 DEF Pos
  <2>4. 0 \in 0 .. 0 /\ 0 <= Len(queue) /\ 0 \in 0 .. n /\ ~ (0 < 0)
    BY <1>1
  <2>5. ReadSoFar([tail |-> tail, data |-> << >>], 0)
    BY <2>2, <2>3, <2>4 DEF ReadSoFar
  <2> QED
    BY <2>1, <2>4, <2>5
<1>3. ASSUME NEW k \in 0 .. n - 1, k \in S PROVE k + 1 \in S
  <2>1. k + 1 \in 1 .. n /\ k + 1 \in 0 .. n /\ (k + 1) - 1 = k /\ k \in Nat
    OBVIOUS
  <2>2. ReadSoFar(ReadTurns(n)[k], k)
    BY <1>3
  <2>3. ReadTurns(n)[k + 1] = ReadTurn(ReadTurns(n)[(k + 1) - 1])
    BY <2>1, ReadTurnsAre
  <2>4. ReadSoFar(ReadTurn(ReadTurns(n)[k]), k + 1)
    BY <2>1, <2>2, ReadTurnTakes
  <2> QED
    BY <2>1, <2>3, <2>4
<1>4. n \in 0 .. n
  OBVIOUS
<1>5. n \in S
  <2> HIDE DEF S
  <2> QED
    BY <1>2, <1>3, <1>4, Induction
<1> QED
  BY <1>5

\* What a write has done after k turns.
WriteSoFar(batch, f, k) ==
  /\ f.count \in 0 .. k
  /\ f.head \in 0 .. size - 1 /\ f.slots \in [0 .. size - 1 -> Cell]
  /\ Holds(f.head, tail, f.slots, queue \o SubSeq(batch, 1, f.count))
  /\ f.count < k => Full(f)

(* A turn of a write puts the next item in, unless the buffer is full.     *)
LEMMA WriteTurnPuts ==
  ASSUME Shape, NEW batch \in Seq(Item), NEW k \in 0 .. Len(batch) - 1,
         NEW f, WriteSoFar(batch, f, k)
  PROVE  WriteSoFar(batch, WriteTurn(f, batch[k + 1]), k + 1)
<1>1. /\ Sized /\ tail \in 0 .. size - 1 /\ queue \in Seq(Item)
      /\ Len(batch) \in Nat /\ k \in Nat
  BY LenProperties DEF Shape, Holds
<1>2. CASE Full(f)
  <2>1. WriteTurn(f, batch[k + 1]) = f /\ f.count \in 0 .. k + 1
    BY <1>2 DEF WriteTurn, WriteSoFar
  <2> QED
    BY <1>2, <2>1 DEF WriteSoFar
<1>3. CASE ~ Full(f)
  <2> DEFINE x == batch[k + 1]
             q == queue \o SubSeq(batch, 1, k)
             g == [head  |-> Wrap(f.head + 1),
                   slots |-> [f.slots EXCEPT ![f.head] = x],
                   count |-> f.count + 1]
  <2>1. /\ f.count = k /\ f.head \in 0 .. size - 1
        /\ f.slots \in [0 .. size - 1 -> Cell]
        /\ Holds(f.head, tail, f.slots, q)
    BY <1>1, <1>3 DEF WriteSoFar
  <2>2. /\ SubSeq(batch, 1, k) \in Seq(Item) /\ x \in Item
        /\ Append(SubSeq(batch, 1, k), x) = SubSeq(batch, 1, k + 1)
    BY OneMore
  <2>3. Append(q, x) = queue \o SubSeq(batch, 1, k + 1)
    <3> DEFINE b == SubSeq(batch, 1, k)
    <3>1. b \in Seq(Item) /\ << x >> \in Seq(Item) /\ b \o << x >> = Append(b, x)
      BY <2>2, AppendIsConcat
    <3>2. queue \o b \in Seq(Item)
      BY <1>1, <3>1, ConcatProperties
    <3> HIDE DEF b, x
    <3>3. Append(queue \o b, x) = (queue \o b) \o << x >>
      BY <2>2, <3>2, AppendIsConcat
    <3>4. (queue \o b) \o << x >> = queue \o (b \o << x >>)
      BY <1>1, <3>1, ConcatAssociative
    <3> QED
      BY <2>2, <3>1, <3>3, <3>4 DEF b
  <2>4. ~ (f.head + 1 = tail \/ (f.head + 1 = size /\ tail = 0))
    BY <1>3 DEF Full
  <2>5. Wrap(f.head + 1) = Pos(f.head, 1) /\ Pos(f.head, 1) \in 0 .. size - 1
    BY <1>1, <2>1, WrapOne
  <2> HIDE DEF x, q
  <2>6. /\ [f.slots EXCEPT ![f.head] = x] \in [0 .. size - 1 -> Cell]
        /\ Holds(Pos(f.head, 1), tail, [f.slots EXCEPT ![f.head] = x], Append(q, x))
    BY <1>1, <2>1, <2>2, <2>4, PutOne
  <2>7. /\ g.count = k + 1 /\ g.head \in 0 .. size - 1
        /\ g.slots \in [0 .. size - 1 -> Cell]
        /\ Holds(g.head, tail, g.slots, queue \o SubSeq(batch, 1, g.count))
    BY <2>1, <2>3, <2>5, <2>6
  <2>8. k + 1 \in 0 .. k + 1 /\ ~ (k + 1 < k + 1)
    BY <1>1
  <2>9. WriteTurn(f, batch[k + 1]) = g
    BY <1>3 DEF WriteTurn, x
  <2> HIDE DEF g
  <2> QED
    BY <2>7, <2>8, <2>9 DEF WriteSoFar
<1> QED
  BY <1>2, <1>3

(* A write of a batch.                                                     *)
LEMMA WriteDone ==
  ASSUME Shape, NEW batch \in Seq(Item)
  PROVE  WriteSoFar(batch, WriteTurns(batch)[Len(batch)], Len(batch))
<1> DEFINE n == Len(batch)
           S == {k \in 0 .. n : WriteSoFar(batch, WriteTurns(batch)[k], k)}
<1>1. n \in Nat /\ n \in 0 .. n /\ 0 \in 0 .. n
  BY LenProperties
<1>2. 0 \in S
  <2>1. WriteTurns(batch)[0] = [head |-> head, slots |-> slots, count |-> 0]
    BY WriteTurnsAre
  <2>2. /\ head \in 0 .. size - 1 /\ slots \in [0 .. size - 1 -> Cell]
        /\ Holds(head, tail, slots, queue) /\ queue \in Seq(Item)
    BY DEF Shape, Holds
  <2>3. SubSeq(batch, 1, 0) = << >>
    BY SubSeqEmpty
  <2>4. queue \o SubSeq(batch, 1, 0) = queue
    BY <2>2, <2>3, ConcatEmptySeq
  <2>5. 0 \in 0 .. 0 /\ ~ (0 < 0)
    OBVIOUS
  <2>6. WriteSoFar(batch, [head |-> head, slots |-> slots, count |-> 0], 0)
    BY <2>2, <2>4, <2>5 DEF WriteSoFar
  <2> QED
    BY <1>1, <2>1, <2>6
<1>3. ASSUME NEW k \in 0 .. n - 1, k \in S PROVE k + 1 \in S
  <2>1. k + 1 \in 1 .. n /\ k + 1 \in 0 .. n /\ (k + 1) - 1 = k
    BY <1>1
  <2>2. WriteSoFar(batch, WriteTurns(batch)[k], k)
    BY <1>3
  <2>3. WriteTurns(batch)[k + 1] = WriteTurn(WriteTurns(batch)[(k + 1) - 1], batch[k + 1])
    BY <2>1, WriteTurnsAre
  <2>4. WriteSoFar(batch, WriteTurn(WriteTurns(batch)[k], batch[k + 1]), k + 1)
    BY <2>2, WriteTurnPuts
  <2> QED
    BY <2>1, <2>3, <2>4
<1>4. n \in S
  <2> HIDE DEF S, n
  <2> QED
    BY <1>1, <1>2, <1>3, Induction
<1> QED
  BY <1>4

-----------------------------------------------------------------------------
(* Putting bytes back.                                                     *)

(* A read that returns all it has taken but the last rest items, and puts  *)
(* the tail where they begin.                                              *)
LEMMA ReadKeepsShape ==
  ASSUME Shape, NEW n \in Nat, NEW op, NEW rest \in Nat,
         rest <= Len(ReadTurns(n)[n].data), NEW t,
         t = Pos(tail, Len(ReadTurns(n)[n].data) - rest),
         Read(op, n, ReadTurns(n)[n].data, Len(ReadTurns(n)[n].data) - rest, t)
  PROVE  /\ Shape' /\ UNCHANGED type
         /\ last'.op = op /\ last'.asked = n /\ last'.oldest = TRUE
         /\ last'.count = Len(ReadTurns(n)[n].data) - rest
         /\ last'.count \in 0 .. n
         /\ Len(queue') = Len(queue) - last'.count
<1> DEFINE f == ReadTurns(n)[n]
           got == Len(f.data)
           k == got - rest
<1>1. /\ Sized /\ head \in 0 .. size - 1 /\ tail \in 0 .. size - 1
      /\ slots \in [0 .. size - 1 -> Cell]
      /\ Holds(head, tail, slots, queue) /\ queue \in Seq(Item)
      /\ Len(queue) \in Nat
  BY LenProperties DEF Shape, Holds
<1>2. ReadSoFar(f, n)
  BY ReadDone
<1>3. got \in 0 .. n /\ got <= Len(queue) /\ f.data = SubSeq(queue, 1, got)
  BY <1>2 DEF ReadSoFar
<1>4. /\ tail' = t /\ t = Pos(tail, k)
      /\ last' = [op |-> op, asked |-> n, count |-> k,
                  oldest |-> /\ k <= Len(queue)
                             /\ SubSeq(f.data, 1, k) = SubSeq(queue, 1, k)]
      /\ queue' = SubSeq(queue, k + 1, Len(queue))
      /\ UNCHANGED <<type, slots, head, mask, size>>
  BY DEF Read
<1>5. rest <= got
  OBVIOUS
<1> HIDE DEF f, got
<1>6. k \in 0 .. Len(queue) /\ k \in 0 .. n /\ k \in 0 .. got
  BY <1>1, <1>3, <1>5
<1> HIDE DEF k
<1>7. SubSeq(SubSeq(queue, 1, got), 1, k) = SubSeq(queue, 1, k)
  <2>1. CASE k = 0
    <3>1. \A s : SubSeq(s, 1, 0) = << >>
      BY SubSeqEmpty
    <3> QED
      BY <2>1, <3>1
  <2>2. CASE k # 0
    <3>1. /\ 1 \in 1 .. Len(queue) /\ got \in 1 .. Len(queue)
          /\ 1 \in 1 .. got - 1 + 1 /\ k \in 1 .. got - 1 + 1
          /\ 1 + 1 - 1 = 1 /\ 1 + k - 1 = k
      BY <1>1, <1>3, <1>6, <2>2
    <3>2. SubSeq(SubSeq(queue, 1, got), 1, k) = SubSeq(queue, 1 + 1 - 1, 1 + k - 1)
      BY <1>1, <3>1, SubSeqOfSubSeq
    <3> QED
      BY <3>1, <3>2
  <2> QED
    BY <2>1, <2>2
<1>8. last'.oldest = TRUE
  <2>1. k <= Len(queue) /\ SubSeq(f.data, 1, k) = SubSeq(queue, 1, k)
    BY <1>1, <1>3, <1>6, <1>7
  <2>2. last'.oldest = (k <= Len(queue) /\ SubSeq(f.data, 1, k) = SubSeq(queue, 1, k))
    BY <1>4
  <2> QED
    BY <2>1, <2>2, Zenon
<1>9. /\ Pos(tail, k) \in 0 .. size - 1
      /\ Holds(head, Pos(tail, k), slots, queue')
      /\ Len(queue') = Len(queue) - k
  BY <1>1, <1>4, <1>6, DropSome
<1>10. Shape'
  <2>1. Sized'
    BY <1>1, <1>4 DEF Sized
  <2>2. Holds(head, tail, slots, queue)'
    <3>1. tail' = Pos(tail, k) /\ head' = head /\ slots' = slots /\ size' = size
      BY <1>4
    <3> DEFINE p == Pos(tail, k)
    <3>2. Holds(head, p, slots, queue')
      BY <1>9
    <3> HIDE DEF p
    <3>3. tail' = p
      BY <3>1 DEF p
    <3> QED
      BY <3>1, <3>2, <3>3 DEF Holds, Pos, Dist
  <2> QED
    BY <1>1, <1>4, <1>9, <2>1, <2>2 DEF Shape
<1>11. last'.op = op /\ last'.asked = n /\ last'.count = k
  BY <1>4
<1> QED
  BY <1>4, <1>6, <1>8, <1>9, <1>10, <1>11 DEF k, got, f

(* A byte put back.                                                        *)
LEMMA PutBackOneByte ==
  ASSUME Sized, NEW t \in 0 .. size - 1, NEW got \in 1 .. size - 1
  PROVE  PutBackOne(Pos(t, got)) = Pos(t, got - 1)
<1>1. size \in Nat \ {0} /\ mask = size - 1
  BY DEF Sized
<1> QED
  BY <1>1 DEF PutBackOne, Pos

(* An incomplete word put back by fifo_read_3, whose tail lies further     *)
(* from the start of slots than the word's bytes.                          *)
LEMMA PutBackWord ==
  ASSUME Sized, NEW t \in 0 .. size - 1, NEW got \in 0 .. size - 1,
         NEW rest \in 1 .. 3, rest <= got, rest < Pos(t, got)
  PROVE  PutBackRest(Pos(t, got), rest) = Pos(t, got - rest)
<1> DEFINE d == Pos(t, got) - rest
<1>1. size \in Nat \ {0} /\ size + 4 <= UintBound /\ UintBound \in Nat
  BY DEF Sized
<1>2. d \in 1 .. size - 1 /\ Pos(t, got - rest) = d
  BY <1>1 DEF Pos
<1> HIDE DEF d
<1>3. d \in Nat /\ UintBound \in Nat \ {0} /\ d < UintBound /\ d < 2 * UintBound
  BY <1>1, <1>2
<1>4. d % UintBound = IF d < UintBound THEN d ELSE d - UintBound
  BY <1>3, Remainder
<1>5. Uint(d) = d /\ ~ (Uint(d) <= 0)
  BY <1>2, <1>3, <1>4 DEF Uint
<1> QED
  BY <1>2, <1>5 DEF PutBackRest, d

(* One whose tail does not: it ends up outside the slots, or where what    *)
(* lies between it and the head, which it had reached, is not the word.    *)
LEMMA PutBackAstray ==
  ASSUME Sized, NEW t \in 0 .. size - 1, NEW rest \in 1 .. 3, t <= rest
  PROVE  /\ PutBackRest(t, rest) \in 0 .. UintBound - 1
         /\ \/ PutBackRest(t, rest) \notin 0 .. size - 1
            \/ Dist(t, PutBackRest(t, rest)) # rest
<1> DEFINE d == t - rest
           m == mask + t - rest
<1>1. /\ size \in Nat \ {0} /\ size + 4 <= UintBound /\ UintBound \in Nat \ {0}
      /\ mask = size - 1
  BY DEF Sized
<1>2. CASE t = rest
  <2>1. d = 0 /\ m = size - 1
    BY <1>1, <1>2
  <2> HIDE DEF d, m
  <2>2. Uint(d) = 0
    BY <1>1, <2>1 DEF Uint
  <2>3. m \in Nat /\ m < 2 * UintBound /\ m < UintBound
    BY <1>1, <2>1
  <2>4. m % UintBound = m
    BY <1>1, <2>3, Remainder
  <2>5. PutBackRest(t, rest) = size - 1
    <3>1. Uint(m) = size - 1
      BY <2>1, <2>4 DEF Uint
    <3>2. Uint(d) <= 0
      BY <2>2
    <3> QED
      BY <3>1, <3>2 DEF PutBackRest, d, m
  <2>6. Dist(t, size - 1) # rest
    BY <1>1, <1>2 DEF Dist
  <2>7. size - 1 \in 0 .. UintBound - 1
    BY <1>1
  <2> QED
    BY <2>5, <2>6, <2>7
<1>3. CASE t # rest
  <2>1. d \in -3 .. -1 /\ 0 - UintBound <= d /\ d < 0
    BY <1>1, <1>3
  <2> HIDE DEF d
  <2>2. d % UintBound = d + UintBound
    BY <1>1, <2>1, Underflow
  <2>3. Uint(d) = d + UintBound /\ ~ (Uint(d) <= 0)
    BY <1>1, <2>1, <2>2 DEF Uint
  <2>4. PutBackRest(t, rest) = d + UintBound
    BY <2>3 DEF PutBackRest, d
  <2>5. d + UintBound \in 0 .. UintBound - 1 /\ d + UintBound \notin 0 .. size - 1
    BY <1>1, <2>1
  <2> QED
    BY <2>4, <2>5
<1> QED
  BY <1>2, <1>3

-----------------------------------------------------------------------------
(* The inductive invariant.                                                *)

\* ContentsAreQueue counts and compares; this says where each item is, and
\* that size leaves room for the difference of fifo_read_3 to go round.
IInv ==
  /\ type \in Types /\ astray \in BOOLEAN
  /\ Sized
  /\ slots \in [0 .. size - 1 -> Cell] /\ queue \in Seq(Item)
  /\ head \in 0 .. size - 1 /\ tail \in 0 .. UintBound - 1
  /\ ~ astray => Shape
  /\ astray => tail \notin 0 .. size - 1 \/ Dist(head, tail) # Len(queue)
  /\ last.count \in 0 .. last.asked /\ last.oldest = TRUE
  /\ CutShortOnlyAtLimit

\* The empty buffer of fifo_init.
IsFresh ==
  /\ type \in Types /\ astray = FALSE
  /\ \E n \in 1 .. UintBound - 4 :
       slots = [i \in 0 .. n - 1 |-> Junk] /\ mask = n - 1 /\ size = n
  /\ head = 0 /\ tail = 0 /\ queue = << >>
  /\ last = [op |-> "none", asked |-> 0, count |-> 0, oldest |-> TRUE]

(* It satisfies the invariant.                                             *)
LEMMA FreshInv == IsFresh => IInv
<1> SUFFICES ASSUME IsFresh PROVE IInv
  OBVIOUS
<1> USE DEF IsFresh
<1>1. Sized
  BY BytesAssumption DEF Sized
<1>2. slots \in [0 .. size - 1 -> Cell]
  BY DEF Cell
<1>3. queue \in Seq(Item) /\ Len(queue) = 0
  BY EmptySeq
<1>4. head \in 0 .. size - 1 /\ tail \in 0 .. size - 1 /\ tail \in 0 .. UintBound - 1
  BY <1>1 DEF Sized
<1>5. Holds(head, tail, slots, queue)
  BY <1>3, <1>1 DEF Holds, Dist, Sized
<1>6. last.count \in 0 .. last.asked /\ last.oldest = TRUE
  OBVIOUS
<1>7. CutShortOnlyAtLimit
  BY <1>3 DEF CutShortOnlyAtLimit
<1>8. Shape
  BY <1>1, <1>2, <1>4, <1>5 DEF Shape
<1>9. type \in Types /\ astray \in BOOLEAN /\ ~ astray
  OBVIOUS
<1> QED
  BY <1>1, <1>2, <1>3, <1>4, <1>6, <1>7, <1>8, <1>9 DEF IInv

(* A size of a type that is in use.                                        *)
LEMMA SizeFits ==
  ASSUME NEW t \in Types, NEW b \in ByteSizes[t]
  PROVE  SlotCount(t, b) \in 1 .. UintBound - 4
BY BytesAssumption

(* The initial states.                                                     *)
LEMMA InitInv == Init => IInv
<1> SUFFICES ASSUME Init PROVE IsFresh
  BY FreshInv
<1>1. PICK b \in ByteSizes[type] :
        /\ slots = [i \in 0 .. SlotCount(type, b) - 1 |-> Junk]
        /\ mask = SlotCount(type, b) - 1 /\ size = SlotCount(type, b)
  BY DEF Init
<1>2. SlotCount(type, b) \in 1 .. UintBound - 4
  BY SizeFits DEF Init
<1> QED
  BY <1>1, <1>2 DEF Init, IsFresh

(* ChangeSize: the buffer is as new.                                       *)
LEMMA ChangeSizeInv ==
  ASSUME type \in Types, NEW b \in ByteSizes[type], ChangeSize(b)
  PROVE  IInv'
<1>1. SlotCount(type, b) \in 1 .. UintBound - 4
  BY SizeFits
<1>2. IsFresh'
  BY <1>1 DEF IsFresh, ChangeSize, Fresh
<1>3. IsFresh' => IInv'
  BY FreshInv, PTL
<1> QED
  BY <1>2, <1>3

(* A write: what fits of the batch is at the end of the queue.             *)
LEMMA WriteInv ==
  ASSUME IInv, ~ astray, NEW batch \in Seq(Item),
         NEW op \in {"fifo_write", "fifo_write_complex"}, Write(op, batch)
  PROVE  IInv'
<1> DEFINE f == WriteTurns(batch)[Len(batch)]
           q == queue \o SubSeq(batch, 1, f.count)
           n == Len(batch)
<1>1. /\ Shape /\ Sized /\ size \in Nat \ {0} /\ tail \in 0 .. size - 1
      /\ tail \in 0 .. UintBound - 1 /\ type \in Types /\ queue \in Seq(Item)
  BY DEF IInv, Shape, Sized
<1>2. WriteSoFar(batch, f, n)
  BY <1>1, WriteDone
<1>3. /\ slots' = f.slots /\ head' = f.head /\ queue' = q
      /\ last' = [op |-> op, asked |-> n, count |-> f.count, oldest |-> TRUE]
      /\ UNCHANGED <<type, tail, mask, size, astray>>
  BY DEF Write
<1>4. n \in Nat
  BY LenProperties
<1> HIDE DEF f, n, q
<1>5. /\ f.count \in 0 .. n /\ (f.count < n => Full(f))
      /\ f.head \in 0 .. size - 1 /\ f.slots \in [0 .. size - 1 -> Cell]
      /\ Holds(f.head, tail, f.slots, q)
  BY <1>2 DEF WriteSoFar, q
<1>6. q \in Seq(Item) /\ Len(q) = Dist(f.head, tail)
  BY <1>5 DEF Holds
<1>7. Sized' /\ Cell' = Cell
  BY <1>1, <1>3 DEF Sized, Cell
<1>8. Shape'
  <2>1. Holds(head, tail, slots, queue)'
    BY <1>3, <1>5 DEF Holds, Pos, Dist
  <2> QED
    BY <1>1, <1>3, <1>5, <1>7, <2>1 DEF Shape
<1>9. last'.count \in 0 .. last'.asked /\ last'.oldest = TRUE
  BY <1>3, <1>5
<1>10. CutShortOnlyAtLimit'
  <2>1. f.count < n => Len(q) = size - 1
    BY <1>1, <1>5, <1>6 DEF Full, Dist
  <2>2. /\ last'.op \in {"fifo_write", "fifo_write_complex"}
        /\ last'.count < last'.asked => Len(queue') = size' - 1
    BY <1>3, <2>1
  <2> QED
    BY <2>2 DEF CutShortOnlyAtLimit
<1> QED
  BY <1>1, <1>3, <1>5, <1>6, <1>7, <1>8, <1>9, <1>10 DEF IInv

(* What is put back is less than an item and leaves whole items, and is    *)
(* nothing when the read got all it asked for.                             *)
LEMMA RestOfItem ==
  ASSUME NEW n \in Nat, NEW got \in 0 .. n, NEW w \in {1, 2, 4}
  PROVE  /\ Rest(got, n, w) \in 0 .. w - 1 /\ Rest(got, n, w) <= got
         /\ got = n => Rest(got, n, w) = 0
         /\ n % w = 0 => (got - Rest(got, n, w)) % w = 0
<1>1. CASE w = 1
  BY <1>1 DEF Rest
<1>2. CASE w = 2
  BY <1>2 DEF Rest
<1>3. CASE w = 4
  BY <1>3 DEF Rest
<1> QED
  BY <1>1, <1>2, <1>3

(* A read that has put back what it had to: the rest of an item of w bytes *)
(* if the buffer ran out in it, and nothing otherwise.                     *)
LEMMA ReadInv ==
  ASSUME IInv, ~ astray, astray' = FALSE, NEW n \in Nat, NEW w \in {1, 2, 4},
         NEW op \in {"fifo_read", "fifo_read_complex", "fifo_read_2", "fifo_read_3"},
         w = CASE op = "fifo_read_2" -> 2 [] op = "fifo_read_3" -> 4 [] OTHER -> 1,
         NEW rest \in Nat, rest = Rest(Len(ReadTurns(n)[n].data), n, w),
         NEW t, t = Pos(tail, Len(ReadTurns(n)[n].data) - rest),
         Read(op, n, ReadTurns(n)[n].data, Len(ReadTurns(n)[n].data) - rest, t)
  PROVE  IInv'
<1> DEFINE got == Len(ReadTurns(n)[n].data)
<1>1. /\ Shape /\ type \in Types /\ astray \in BOOLEAN
      /\ queue \in Seq(Item) /\ Len(queue) \in Nat
  BY LenProperties DEF IInv
<1>2. /\ got \in 0 .. n /\ got <= Len(queue) /\ (got < n => got = Len(queue))
  BY <1>1, ReadDone DEF ReadSoFar
<1>3. /\ rest \in 0 .. w - 1 /\ rest <= got /\ (got = n => rest = 0)
      /\ n % w = 0 => (got - rest) % w = 0
  BY <1>2, RestOfItem
<1>4. /\ Shape' /\ UNCHANGED type
      /\ last'.op = op /\ last'.asked = n /\ last'.oldest = TRUE
      /\ last'.count = got - rest /\ last'.count \in 0 .. n
      /\ Len(queue') = Len(queue) - last'.count
  <2>1. rest <= Len(ReadTurns(n)[n].data)
    BY <1>3
  <2>2. Shape
    BY <1>1
  <2> QED
    BY <2>1, <2>2, ReadKeepsShape
<1> HIDE DEF got
<1>5. CutShortOnlyAtLimit'
  <2>1. n % w = 0 => (got - rest) % w = 0
    BY <1>3
  <2>2. got - rest < n => Len(queue') < w
    BY <1>1, <1>2, <1>3, <1>4
  <2> DEFINE v == CASE last'.op = "fifo_read_2" -> 2 [] last'.op = "fifo_read_3" -> 4
                    [] OTHER -> 1
  <2>3. v = w /\ last'.op \notin {"fifo_write", "fifo_write_complex"}
    BY <1>4
  <2>4. last'.asked % w = 0 =>
          last'.count % w = 0 /\ (last'.count < last'.asked => Len(queue') < w)
    BY <1>4, <2>1, <2>2
  <2> HIDE DEF v
  <2>5. last'.asked % v = 0 =>
          last'.count % v = 0 /\ (last'.count < last'.asked => Len(queue') < v)
    BY <2>3, <2>4
  <2> QED
    BY <2>3, <2>5 DEF CutShortOnlyAtLimit, v
<1>6. /\ Sized' /\ slots' \in [0 .. size' - 1 -> Cell'] /\ queue' \in Seq(Item)
      /\ head' \in 0 .. size' - 1 /\ tail' \in 0 .. UintBound - 1
  BY <1>4 DEF Shape, Sized, Holds
<1>7. last'.count \in 0 .. last'.asked
  BY <1>4
<1> QED
  BY <1>1, <1>4, <1>5, <1>6, <1>7 DEF IInv

(* fifo_read and fifo_read_complex put nothing back.                       *)
LEMMA PlainReadInv ==
  ASSUME IInv, ~ astray, UNCHANGED astray, NEW n \in Nat,
         NEW op \in {"fifo_read", "fifo_read_complex"},
         Read(op, n, ReadTurns(n)[n].data, Len(ReadTurns(n)[n].data), ReadTurns(n)[n].tail)
  PROVE  IInv'
<1> DEFINE f == ReadTurns(n)[n]
           got == Len(f.data)
           rest == Rest(got, n, 1)
<1>1. Shape /\ astray' = FALSE
  BY DEF IInv
<1>2. got \in 0 .. n /\ f.tail = Pos(tail, got)
  BY <1>1, ReadDone DEF ReadSoFar
<1>3. rest = 0 /\ got - rest = got
  <2>1. rest \in 0 .. 1 - 1 /\ got \in Nat
    BY <1>2, RestOfItem
  <2> HIDE DEF rest, got
  <2> QED
    BY <2>1
<1>4. Read(op, n, f.data, got - rest, f.tail) /\ f.tail = Pos(tail, got - rest)
  BY <1>2, <1>3
<1>5. 1 = CASE op = "fifo_read_2" -> 2 [] op = "fifo_read_3" -> 4 [] OTHER -> 1
  OBVIOUS
<1>6. rest \in Nat
  BY <1>3
<1> QED
  BY <1>1, <1>4, <1>5, <1>6, ReadInv

(* fifo_read_2 puts an odd byte back.                                      *)
LEMMA Read2Inv ==
  ASSUME IInv, ~ astray, fifo_read_2
  PROVE  IInv'
<1>1. PICK n \in 0 .. MaxRead :
        LET f == ReadTurns(n)[n]
            rest == Rest(Len(f.data), n, 2)
        IN  Read("fifo_read_2", n, f.data, Len(f.data) - rest,
                 IF rest = 0 THEN f.tail ELSE PutBackOne(f.tail))
  BY DEF fifo_read_2
<1> DEFINE f == ReadTurns(n)[n]
           got == Len(f.data)
           rest == Rest(got, n, 2)
           t == IF rest = 0 THEN f.tail ELSE PutBackOne(f.tail)
<1>2. Shape /\ n \in Nat /\ astray' = FALSE
  BY BytesAssumption DEF IInv, fifo_read_2
<1>3. /\ got \in 0 .. n /\ got <= Len(queue) /\ f.tail = Pos(tail, got)
  BY <1>2, ReadDone DEF ReadSoFar
<1>4. /\ Sized /\ tail \in 0 .. size - 1 /\ Len(queue) \in 0 .. size - 1
      /\ size \in Nat
  <2>1. Sized /\ head \in 0 .. size - 1 /\ tail \in 0 .. size - 1 /\ size \in Nat
    BY <1>2 DEF Shape, Sized
  <2>2. Len(queue) = Dist(head, tail)
    BY <1>2 DEF Shape, Holds
  <2> QED
    BY <2>1, <2>2 DEF Dist
<1>5. rest \in Nat /\ rest <= got /\ rest \in 0 .. 1
  BY <1>2, <1>3, RestOfItem
<1>6. t = Pos(tail, got - rest)
  <2> HIDE DEF got, rest
  <2>1. CASE rest = 0
    BY <1>3, <2>1
  <2>2. CASE rest # 0
    <3>1. rest = 1 /\ got \in 1 .. size - 1
      BY <1>3, <1>4, <1>5, <2>2
    <3> QED
      BY <1>3, <1>4, <2>2, <3>1, PutBackOneByte
  <2> QED
    BY <2>1, <2>2
<1>7. Read("fifo_read_2", n, f.data, got - rest, t)
  BY <1>1
<1>8. 2 = CASE "fifo_read_2" = "fifo_read_2" -> 2 [] "fifo_read_2" = "fifo_read_3" -> 4
            [] OTHER -> 1
  OBVIOUS
<1> HIDE DEF t
<1> QED
  BY <1>2, <1>5, <1>6, <1>7, <1>8, ReadInv

(* fifo_read_3 puts an incomplete word back, or is astray.                 *)
LEMMA Read3Inv ==
  ASSUME IInv, ~ astray, fifo_read_3
  PROVE  IInv'
<1>1. PICK n \in 0 .. MaxRead :
        LET f == ReadTurns(n)[n]
            rest == Rest(Len(f.data), n, 4)
        IN  /\ Read("fifo_read_3", n, f.data, Len(f.data) - rest,
                    IF rest = 0 THEN f.tail ELSE PutBackRest(f.tail, rest))
            /\ astray' = (rest # 0 /\ f.tail <= rest)
  BY DEF fifo_read_3
<1> DEFINE f == ReadTurns(n)[n]
           got == Len(f.data)
           rest == Rest(got, n, 4)
           t == IF rest = 0 THEN f.tail ELSE PutBackRest(f.tail, rest)
<1>2. /\ Shape /\ n \in Nat /\ type \in Types
  BY BytesAssumption DEF IInv
<1>3. /\ got \in 0 .. n /\ got <= Len(queue) /\ f.tail = Pos(tail, got)
      /\ got < n => got = Len(queue)
      /\ f.data = SubSeq(queue, 1, got)
  BY <1>2, ReadDone DEF ReadSoFar
<1>4. /\ Sized /\ tail \in 0 .. size - 1 /\ Len(queue) \in 0 .. size - 1
      /\ head \in 0 .. size - 1 /\ size \in Nat
      /\ slots \in [0 .. size - 1 -> Cell] /\ queue \in Seq(Item)
      /\ Holds(head, tail, slots, queue) /\ Len(queue) = Dist(head, tail)
  <2>1. Sized /\ head \in 0 .. size - 1 /\ tail \in 0 .. size - 1 /\ size \in Nat
        /\ slots \in [0 .. size - 1 -> Cell]
    BY <1>2 DEF Shape, Sized
  <2>2. Len(queue) = Dist(head, tail) /\ queue \in Seq(Item)
        /\ Holds(head, tail, slots, queue)
    BY <1>2 DEF Shape, Holds
  <2> QED
    BY <2>1, <2>2 DEF Dist
<1>5. rest \in Nat /\ rest <= got /\ rest \in 0 .. 3 /\ (got = n => rest = 0)
  BY <1>2, <1>3, RestOfItem
<1>6. /\ Read("fifo_read_3", n, f.data, got - rest, t)
      /\ astray' = (rest # 0 /\ f.tail <= rest)
  BY <1>1
<1>7. CASE ~ (rest # 0 /\ f.tail <= rest)
  <2>1. astray' = FALSE
    BY <1>6, <1>7
  <2>2. t = Pos(tail, got - rest)
    <3> HIDE DEF got, rest
    <3>1. CASE rest = 0
      BY <1>3, <3>1
    <3>2. CASE rest # 0
      <4>1. Pos(tail, got) \in Int
        BY <1>3, <1>4 DEF Pos
      <4>2. /\ rest \in 1 .. 3 /\ got \in 0 .. size - 1 /\ rest < Pos(tail, got)
        BY <1>3, <1>4, <1>5, <1>7, <3>2, <4>1
      <4> QED
        BY <1>3, <1>4, <1>5, <3>2, <4>2, PutBackWord
    <3> QED
      BY <3>1, <3>2
  <2>3. 4 = CASE "fifo_read_3" = "fifo_read_2" -> 2 [] "fifo_read_3" = "fifo_read_3" -> 4
              [] OTHER -> 1
    OBVIOUS
  <2> HIDE DEF t
  <2> QED
    BY <1>2, <1>5, <1>6, <2>1, <2>2, <2>3, ReadInv
<1>8. CASE rest # 0 /\ f.tail <= rest
  <2> HIDE DEF got, rest
  <2>1. /\ got = Len(queue) /\ rest \in 1 .. 3 /\ got \in Nat
    BY <1>3, <1>4, <1>5, <1>8
  <2>2. f.tail = head
    BY <1>3, <1>4, <2>1 DEF Pos, Dist
  <2>3. /\ t \in 0 .. UintBound - 1
        /\ t \notin 0 .. size - 1 \/ Dist(head, t) # rest
    BY <1>4, <1>8, <2>1, <2>2, PutBackAstray
  <2>4. /\ tail' = t /\ astray' = TRUE
        /\ last'.op = "fifo_read_3" /\ last'.asked = n /\ last'.count = got - rest
        /\ UNCHANGED <<type, slots, head, mask, size>>
    BY <1>6, <1>8 DEF Read
  <2>5. /\ got - rest \in 0 .. Len(queue) /\ got - rest \in 0 .. n
    BY <1>3, <1>4, <1>5, <2>1
  <2>6. /\ queue' \in Seq(Item) /\ Len(queue') = rest
    <3> DEFINE c == got - rest
    <3>1. queue' = SubSeq(queue, c + 1, Len(queue))
      BY <1>6 DEF Read
    <3> HIDE DEF c
    <3>2. /\ Holds(head, Pos(tail, c), slots, SubSeq(queue, c + 1, Len(queue)))
          /\ Len(SubSeq(queue, c + 1, Len(queue))) = Len(queue) - c
      BY <1>4, <2>5, DropSome DEF c
    <3>3. Len(queue) - c = rest
      BY <2>1, <1>5 DEF c
    <3> QED
      BY <3>1, <3>2, <3>3 DEF Holds
  <2>7. last'.oldest = TRUE
    <3> DEFINE c == got - rest
    <3>1. last'.oldest = (c <= Len(queue) /\ SubSeq(f.data, 1, c) = SubSeq(queue, 1, c))
      BY <1>6 DEF Read
    <3>2. f.data = queue
      BY <1>3, <1>4, <2>1, SubSeqFull
    <3>3. c <= Len(queue)
      BY <1>4, <2>5
    <3> QED
      BY <3>1, <3>2, <3>3
  <2> HIDE DEF t, f
  <2>8. Sized' /\ Cell' = Cell /\ CutShortOnlyAtLimit'
    BY <1>4, <2>4 DEF Sized, Cell, CutShortOnlyAtLimit
  <2>9. tail' \notin 0 .. size' - 1 \/ Dist(head, tail)' # Len(queue')
    BY <1>4, <2>3, <2>4, <2>6 DEF Dist
  <2>10. slots' \in [0 .. size' - 1 -> Cell'] /\ head' \in 0 .. size' - 1
         /\ tail' \in 0 .. UintBound - 1
    BY <1>4, <2>3, <2>4, <2>8
  <2>11. last'.count \in 0 .. last'.asked
    BY <2>4, <2>5
  <2> QED
    BY <1>2, <2>4, <2>6, <2>7, <2>8, <2>9, <2>10, <2>11 DEF IInv
<1> QED
  BY <1>7, <1>8

(* Every step keeps the invariant.                                         *)
LEMMA NextInv == IInv /\ [Next]_vars => IInv'
<1> SUFFICES ASSUME IInv, [Next]_vars PROVE IInv'
  OBVIOUS
<1> DEFINE Call == \/ fifo_write \/ fifo_read \/ fifo_read_2 \/ fifo_read_3
                   \/ fifo_write_complex \/ fifo_read_complex
<1>1. ASSUME NEW batch \in Batches PROVE batch \in Seq(Item)
  <2>1. PICK n \in 0 .. MaxWrite : batch \in [1 .. n -> Item]
    BY DEF Batches
  <2>2. n \in Nat
    BY BytesAssumption
  <2> QED
    BY <2>1, <2>2, SeqDef
<1>2. CASE ~ astray /\ fifo_write
  <2>1. PICK batch \in Batches : Write("fifo_write", batch)
    BY <1>2 DEF fifo_write
  <2> QED
    BY <1>1, <1>2, <2>1, WriteInv
<1>3. CASE ~ astray /\ fifo_write_complex
  <2>1. PICK batch \in Batches : Write("fifo_write_complex", batch)
    BY <1>3 DEF fifo_write_complex
  <2> QED
    BY <1>1, <1>3, <2>1, WriteInv
<1>4. CASE ~ astray /\ fifo_read
  <2>1. PICK n \in 0 .. MaxRead :
          Read("fifo_read", n, ReadTurns(n)[n].data, Len(ReadTurns(n)[n].data),
               ReadTurns(n)[n].tail)
    BY <1>4 DEF fifo_read
  <2>2. n \in Nat /\ UNCHANGED astray
    BY <1>4, BytesAssumption DEF fifo_read
  <2> QED
    BY <1>4, <2>1, <2>2, PlainReadInv
<1>5. CASE ~ astray /\ fifo_read_complex
  <2>1. PICK n \in 0 .. MaxRead :
          Read("fifo_read_complex", n, ReadTurns(n)[n].data,
               Len(ReadTurns(n)[n].data), ReadTurns(n)[n].tail)
    BY <1>5 DEF fifo_read_complex
  <2>2. n \in Nat /\ UNCHANGED astray
    BY <1>5, BytesAssumption DEF fifo_read_complex
  <2> QED
    BY <1>5, <2>1, <2>2, PlainReadInv
<1>6. CASE ~ astray /\ fifo_read_2
  BY <1>6, Read2Inv
<1>7. CASE ~ astray /\ fifo_read_3
  BY <1>7, Read3Inv
<1>8. CASE \E b \in ByteSizes[type] : ChangeSize(b)
  BY <1>8, ChangeSizeInv DEF IInv
<1>9. CASE UNCHANGED vars
  BY <1>9 DEF vars, IInv, Shape, Sized, Holds, Pos, Dist, Cell, CutShortOnlyAtLimit
<1> QED
  BY <1>2, <1>3, <1>4, <1>5, <1>6, <1>7, <1>8, <1>9 DEF Next

(* The invariant holds in every reachable state.                           *)
LEMMA InvHolds == Spec => []IInv
BY InitInv, NextInv, PTL DEF Spec

-----------------------------------------------------------------------------
(* What the invariant gives.                                               *)

(* Sequences with the indices 1 .. a and 1 .. b have one length.           *)
LEMMA SameLength ==
  ASSUME NEW a \in Nat, NEW b \in Nat, 1 .. a = 1 .. b
  PROVE  a = b
<1>1. ~ (a < b)
  <2> SUFFICES ASSUME a < b PROVE FALSE
    OBVIOUS
  <2>1. b \in 1 .. b /\ b \notin 1 .. a
    OBVIOUS
  <2> QED
    BY <2>1
<1>2. ~ (b < a)
  <2> SUFFICES ASSUME b < a PROVE FALSE
    OBVIOUS
  <2>1. a \in 1 .. a /\ a \notin 1 .. b
    OBVIOUS
  <2> QED
    BY <2>1
<1> QED
  BY <1>1, <1>2

(* What Contents reads off the ring is the queue just when the invariant   *)
(* says so.                                                                *)
LEMMA InvContents == IInv => ContentsAreQueue
<1> SUFFICES ASSUME IInv PROVE ContentsAreQueue
  OBVIOUS
<1>1. /\ Sized /\ size \in Nat \ {0} /\ head \in 0 .. size - 1
      /\ queue \in Seq(Item) /\ Len(queue) \in Nat /\ astray \in BOOLEAN
  BY LenProperties DEF IInv, Sized
<1>2. TypeOK
  BY DEF IInv, TypeOK
<1>3. Count = Dist(head, tail)
  BY DEF Count, Dist
<1>4. ASSUME ~ astray PROVE tail \in 0 .. size - 1 /\ Contents = queue
  <2>1. /\ tail \in 0 .. size - 1 /\ Holds(head, tail, slots, queue)
    BY <1>4 DEF IInv, Shape
  <2>2. /\ Len(queue) = Count /\ Len(queue) < size
        /\ \A j \in 1 .. Len(queue) : slots[Pos(tail, j - 1)] = queue[j]
    BY <1>1, <1>3, <2>1 DEF Holds, Dist
  <2>3. ASSUME NEW j \in 1 .. Len(queue)
        PROVE  slots[(tail + j - 1) % size] = queue[j]
    <3> DEFINE a == tail + j - 1
    <3>1. a \in Nat /\ a < 2 * size
      BY <1>1, <2>1, <2>2
    <3>2. Pos(tail, j - 1) = IF a < size THEN a ELSE a - size
      BY <1>1, <2>1 DEF Pos
    <3> HIDE DEF a
    <3>3. a % size = IF a < size THEN a ELSE a - size
      BY <1>1, <3>1, Remainder
    <3>4. slots[a % size] = queue[j]
      BY <2>2, <3>2, <3>3
    <3> QED
      BY <3>4 DEF a
  <2>4. queue = [j \in 1 .. Len(queue) |-> queue[j]]
    BY <1>1, LenProperties
  <2>5. Contents = [j \in 1 .. Len(queue) |-> slots[(tail + j - 1) % size]]
    BY <2>2 DEF Contents
  <2> QED
    BY <2>1, <2>3, <2>4, <2>5
<1>5. ASSUME astray, tail \in 0 .. size - 1, Contents = queue PROVE FALSE
  <2>1. Dist(head, tail) # Len(queue)
    BY <1>5 DEF IInv
  <2>2. Count \in Nat
    BY <1>1, <1>3, <1>5 DEF Dist
  <2>3. 1 .. Count = 1 .. Len(queue)
    <3>1. DOMAIN Contents = 1 .. Count
      BY DEF Contents
    <3> QED
      BY <1>1, <1>5, <3>1, LenProperties
  <2> QED
    BY <1>1, <1>3, <2>1, <2>2, <2>3, SameLength
<1> QED
  BY <1>1, <1>2, <1>4, <1>5 DEF ContentsAreQueue

(* What lies between tail and head is what was written and not yet         *)
(* returned, in buffers of every size and for calls of every length, until *)
(* a fifo_read_3 runs out of bytes with its tail near the start of slots;  *)
(* and then it is not.                                                     *)
THEOREM ContentsTheorem == Spec => []ContentsAreQueue
BY InvHolds, InvContents, PTL

(* Every read returns the oldest items, each once: fifo_read, fifo_read_2, *)
(* fifo_read_3 and fifo_read_complex.                                      *)
THEOREM OldestTheorem == Spec => []ReadsOldest
<1>1. IInv => ReadsOldest
  BY DEF IInv, ReadsOldest
<1> QED
  BY <1>1, InvHolds, PTL

(* A write is cut short only by a full buffer and a read only by one that  *)
(* holds less than an item.                                                *)
THEOREM CutShortTheorem == Spec => []CutShortOnlyAtLimit
<1>1. IInv => CutShortOnlyAtLimit
  BY DEF IInv
<1> QED
  BY <1>1, InvHolds, PTL
=============================================================================
