-------------------------- MODULE SdrSourceProofs --------------------------
(***************************************************************************)
(* Proofs about SdrSource: for every capacity, block size and number of    *)
(* dummy reads and descriptors, the worker thread reads only from the      *)
(* device its block opened and never outlives its block; the device is     *)
(* closed and no file of another part of the program; and every word the   *)
(* parser made is handed out, on its way or dropped, in order.             *)
(*                                                                         *)
(* None of these is inductive.  That the thread ended before a descriptor  *)
(* is closed has to be remembered from the join to the close, and that a   *)
(* thread past its start has a device rests on the exit flag the           *)
(* constructor sets when it could not open one: IInv.  The stream is       *)
(* followed by SInv: what was handed out and what the FIFO buffer holds    *)
(* are the words up to the last one offered that were not dropped, and the *)
(* block being stored holds the words after them.  TypeOK is inductive.    *)
(***************************************************************************)
EXTENDS SdrSource, SequenceTheorems, TLAPS

\* The types the control state needs.
ControlType ==
  /\ fd \in Descriptors \cup {NoFd}
  /\ exit \in BOOLEAN
  /\ owner \in [Descriptors -> {"nobody", "source", "other"}]
  /\ phase \in {"none", "ready", "running", "stop join", "stop close",
                "destroy join", "destroy close"}
  /\ worker \in {"start", "dummy", "read", "store", "check", "done"}

\* The thread has ended wherever a descriptor is closed and where there is no
\* block.
JoinedFirst ==
  phase \in {"none", "stop close", "destroy close"} => Ended

\* A thread that has not ended has its block's device, or will see the flag.
HasDevice ==
  /\ worker \in {"dummy", "read", "store", "check"} => fd # NoFd
  /\ worker = "start" /\ fd = NoFd => exit
  /\ ~ Ended /\ fd # NoFd => owner[fd] = "source"

IInv == ControlType /\ JoinedFirst /\ HasDevice

-----------------------------------------------------------------------------

(* Before the first block, nothing runs.                                   *)
LEMMA InitIInv == Init => IInv
BY DEF Init, IInv, ControlType, JoinedFirst, HasDevice, Ended

(* A constructor that opened no device starts a thread that will see the   *)
(* exit flag.                                                              *)
LEMMA ConstructIInv ==
  ASSUME IInv, NEW d \in Descriptors \cup {NoFd}, Construct(d)
  PROVE  IInv'
<1>1. CASE d = NoFd
  BY <1>1 DEF Construct, IInv, ControlType, JoinedFirst, HasDevice, Ended
<1>2. CASE d # NoFd
  <2>1. d \in Descriptors
    BY <1>2
  <2>2. owner' = [owner EXCEPT ![d] = "source"] /\ fd' = d /\ exit' = FALSE
        /\ worker' = "start" /\ phase' = "ready"
    BY <1>2 DEF Construct
  <2>3. QED
    BY <1>2, <2>1, <2>2
       DEF IInv, ControlType, JoinedFirst, HasDevice, Ended
<1>3. QED
  BY <1>1, <1>2

(* The scheduler's calls leave the device and the thread alone.            *)
LEMMA SchedulerIInv ==
  ASSUME IInv, Start \/ (\E n \in Int : Work(n))
  PROVE  IInv'
<1>1. /\ UNCHANGED <<fd, exit, owner, worker>> /\ phase' = "running"
  BY DEF Start, Work
<1>2. QED
  BY <1>1 DEF IInv, ControlType, JoinedFirst, HasDevice, Ended

(* stop and the destructor: a descriptor is closed only behind a join.     *)
LEMMA EndIInv ==
  ASSUME IInv, Stop \/ Destroy
  PROVE  IInv'
<1> USE DEF IInv, ControlType, JoinedFirst, HasDevice, Ended
<1>1. CASE AskToExit("running", "stop join") \/ AskToExit("ready", "destroy join")
  BY <1>1 DEF AskToExit
<1>2. CASE Join("stop join", "stop close") \/ Join("destroy join", "destroy close")
  BY <1>2 DEF Join
<1>3. CASE Close("stop close", "ready") \/ Close("destroy close", "none")
  <2>1. Ended /\ UNCHANGED <<exit, worker>> /\ fd' = NoFd /\ phase' \in {"ready", "none"}
    BY <1>3 DEF Close
  <2>2. owner' \in [Descriptors -> {"nobody", "source", "other"}]
    BY <1>3 DEF Close
  <2>3. QED
    BY <2>1, <2>2
<1>4. QED
  BY <1>1, <1>2, <1>3 DEF Stop, Destroy

(* The worker thread: only the exit flag keeps it from its loop.           *)
LEMMA WorkerIInv ==
  ASSUME IInv, Worker
  PROVE  IInv'
<1> USE DEF IInv, ControlType, JoinedFirst, HasDevice, Ended
<1>1. UNCHANGED <<fd, exit, owner, phase>>
  BY DEF Worker, WorkerStart, DummyRead, DummyReadsDone, WorkerRead,
         ReadFails, WorkerStore, WorkerCheck
<1>2. CASE WorkerStart
  BY <1>1, <1>2 DEF WorkerStart
<1>3. CASE DummyRead \/ DummyReadsDone
  BY <1>1, <1>3 DEF DummyRead, DummyReadsDone
<1>4. ASSUME NEW k \in 0 .. BlockWords, WorkerRead(k) PROVE IInv'
  BY <1>1, <1>4 DEF WorkerRead
<1>5. CASE ReadFails
  BY <1>1, <1>5 DEF ReadFails
<1>6. CASE WorkerStore
  BY <1>1, <1>6 DEF WorkerStore
<1>7. CASE WorkerCheck
  BY <1>1, <1>7 DEF WorkerCheck
<1>8. QED
  BY <1>2, <1>3, <1>4, <1>5, <1>6, <1>7 DEF Worker

(* Another part of the program gets only a descriptor nobody has.          *)
LEMMA OtherOpenIInv ==
  ASSUME IInv, NEW d \in Descriptors, OtherOpen(d)
  PROVE  IInv'
BY DEF OtherOpen, IInv, ControlType, JoinedFirst, HasDevice, Ended

(* Every step keeps the invariant.                                         *)
LEMMA NextIInv == IInv /\ [Next]_vars => IInv'
<1> SUFFICES ASSUME IInv, [Next]_vars PROVE IInv'
  OBVIOUS
<1>1. CASE \E d \in Descriptors \cup {NoFd} : Construct(d)
  BY <1>1, ConstructIInv
<1>2. CASE Start
  BY <1>2, SchedulerIInv
<1>3. CASE WorkSome
  <2>1. PICK k \in 1 .. MaxOutput : Work(k * OutputMultiple)
    BY <1>3 DEF WorkSome
  <2>2. k * OutputMultiple \in Int
    BY SourceAssumption
  <2>3. QED
    BY <2>1, <2>2, SchedulerIInv
<1>4. CASE Stop \/ Destroy
  BY <1>4, EndIInv
<1>5. CASE Worker
  BY <1>5, WorkerIInv
<1>6. CASE \E d \in Descriptors : OtherOpen(d)
  BY <1>6, OtherOpenIInv
<1>7. CASE Finished \/ UNCHANGED vars
  BY <1>7 DEF Finished, vars, IInv, ControlType, JoinedFirst, HasDevice, Ended
<1>8. QED
  BY <1>1, <1>2, <1>3, <1>4, <1>5, <1>6, <1>7 DEF Next

(* The invariant holds in every state.                                     *)
THEOREM Invariance == Spec => []IInv
BY InitIInv, NextIInv, PTL DEF Spec

(* For every instance, the worker thread reads from the descriptor its     *)
(* block opened, never from one closed under it.                           *)
THEOREM OwnDevice == Spec => []ReadsOwnDevice
<1>1. IInv => ReadsOwnDevice
  BY DEF IInv, HasDevice, ReadsOwnDevice, Ended
<1>2. QED
  BY <1>1, Invariance, PTL

(* For every instance, the thread has ended when its block is destroyed.   *)
THEOREM EndsFirst == Spec => []ThreadEndsFirst
<1>1. IInv => ThreadEndsFirst
  BY DEF IInv, JoinedFirst, ThreadEndsFirst
<1>2. QED
  BY <1>1, Invariance, PTL

-----------------------------------------------------------------------------
(* The descriptor is forgotten when it is closed: a block that has one has *)
(* it open.                                                                *)
OwnsFd == fd # NoFd => owner[fd] = "source"

LEMMA NextOwnsFd == IInv /\ OwnsFd /\ [Next]_vars => OwnsFd'
<1> SUFFICES ASSUME IInv, OwnsFd, [Next]_vars PROVE OwnsFd'
  OBVIOUS
<1> USE DEF OwnsFd
<1>0. ControlType
  BY DEF IInv
<1>1. ASSUME NEW d \in Descriptors \cup {NoFd}, Construct(d) PROVE OwnsFd'
  <2>1. fd' = d /\ (d # NoFd => owner' = [owner EXCEPT ![d] = "source"])
    BY <1>1 DEF Construct
  <2> QED
    BY <1>0, <2>1 DEF ControlType
<1>2. ASSUME Close("stop close", "ready") \/ Close("destroy close", "none")
      PROVE  OwnsFd'
  BY <1>2 DEF Close
<1>3. ASSUME NEW d \in Descriptors, OtherOpen(d) PROVE OwnsFd'
  <2>1. /\ owner[d] = "nobody" /\ fd' = fd
        /\ owner' = [owner EXCEPT ![d] = "other"]
    BY <1>3 DEF OtherOpen
  <2> QED
    BY <1>0, <2>1 DEF ControlType
<1>4. ASSUME UNCHANGED <<fd, owner>> PROVE OwnsFd'
  BY <1>4
<1>5. WorkSome \/ Start \/ Worker \/ Finished \/ UNCHANGED vars => UNCHANGED <<fd, owner>>
  BY DEF WorkSome, Work, Start, Worker, WorkerStart, DummyRead,
         DummyReadsDone, WorkerRead, ReadFails, WorkerStore, WorkerCheck,
         Finished, vars
<1>6. Stop \/ Destroy =>
        \/ UNCHANGED <<fd, owner>>
        \/ Close("stop close", "ready") \/ Close("destroy close", "none")
  BY DEF Stop, Destroy, AskToExit, Join
<1> QED
  BY <1>1, <1>2, <1>3, <1>4, <1>5, <1>6 DEF Next

(* For every instance, stop and the destructor close the descriptor the    *)
(* block opened and none that another part of the program opened since.    *)
THEOREM ClosesOnlyOwn == Spec => ClosesOwnDevice
<1> DEFINE Step == \A d \in Descriptors : owner[d] = "other" => owner'[d] = "other"
<1>1. Init => OwnsFd
  BY DEF Init, OwnsFd
<1>2. IInv /\ OwnsFd /\ [Next]_vars => [Step]_vars
  <2> SUFFICES ASSUME IInv, OwnsFd, [Next]_vars PROVE Step
    OBVIOUS
  <2>0. ControlType /\ OwnsFd
    BY DEF IInv
  <2>1. ASSUME NEW c \in Descriptors \cup {NoFd}, Construct(c) PROVE Step
    <3>1. \/ owner' = owner
          \/ c \in Descriptors /\ owner[c] = "nobody"
             /\ owner' = [owner EXCEPT ![c] = "source"]
      BY <2>1 DEF Construct
    <3> QED
      BY <2>0, <3>1 DEF ControlType
  <2>2. ASSUME Close("stop close", "ready") \/ Close("destroy close", "none")
        PROVE  Step
    <3>1. \/ owner' = owner
          \/ fd # NoFd /\ owner' = [owner EXCEPT ![fd] = "nobody"]
      BY <2>2 DEF Close
    <3> QED
      BY <2>0, <3>1 DEF ControlType, OwnsFd
  <2>3. ASSUME NEW c \in Descriptors, OtherOpen(c) PROVE Step
    <3>1. owner[c] = "nobody" /\ owner' = [owner EXCEPT ![c] = "other"]
      BY <2>3 DEF OtherOpen
    <3> QED
      BY <2>0, <3>1 DEF ControlType
  <2>4. ASSUME owner' = owner PROVE Step
    BY <2>4
  <2>5. WorkSome \/ Start \/ Worker \/ Finished \/ UNCHANGED vars => owner' = owner
    BY DEF WorkSome, Work, Start, Worker, WorkerStart, DummyRead,
           DummyReadsDone, WorkerRead, ReadFails, WorkerStore, WorkerCheck,
           Finished, vars
  <2>6. Stop \/ Destroy =>
          \/ owner' = owner
          \/ Close("stop close", "ready") \/ Close("destroy close", "none")
    BY DEF Stop, Destroy, AskToExit, Join
  <2> HIDE DEF Step
  <2> QED
    BY <2>1, <2>2, <2>3, <2>4, <2>5, <2>6 DEF Next
<1> QED
  BY <1>1, <1>2, NextOwnsFd, InitIInv, NextIInv, PTL DEF Spec, ClosesOwnDevice

-----------------------------------------------------------------------------
(* The stream.                                                             *)

Rising(s) == \A a, b \in 1 .. Len(s) : a < b => s[a] < s[b]

\* The words in the FIFO buffer follow those handed out.
Main == out \o q

\* The newest word the FIFO buffer was offered.
Offered == produced - Len(Pending)

StreamType ==
  /\ q \in Seq(Int) /\ out \in Seq(Int) /\ block \in Seq(Int)
  /\ produced \in Int
  /\ cap \in Nat /\ Len(q) <= cap
  /\ DOMAIN ret = {"scheduler", "worker"}

\* The words of the block are the newest.
BlockNewest ==
  worker = "store" =>
    \A i \in 1 .. Len(block) : block[i] = (produced - Len(block)) + i

\* The words offered since the device was opened are in the stream or dropped.
Accounted ==
  opened[1] =>
    /\ opened[2] \in Int /\ opened[2] <= Offered
    /\ Rising(Main)
    /\ Elements(Main) \cap dropped = {}
    /\ Elements(Main) \cup dropped = opened[2] + 1 .. Offered

SInv == StreamType /\ BlockNewest /\ Accounted

\* w is s and t after it.
Joins(w, s, t) ==
  /\ w \in Seq(Int) /\ Len(w) = Len(s) + Len(t)
  /\ \A i \in 1 .. Len(s) : w[i] = s[i]
  /\ \A i \in 1 .. Len(t) : w[Len(s) + i] = t[i]

LEMMA JoinsConcat ==
  ASSUME NEW s \in Seq(Int), NEW t \in Seq(Int)
  PROVE  Joins(s \o t, s, t)
<1>1. Len(s) \in Nat /\ Len(t) \in Nat
  OBVIOUS
<1>2. /\ s \o t \in Seq(Int) /\ Len(s \o t) = Len(s) + Len(t)
      /\ \A i \in 1 .. Len(s) + Len(t) :
           (s \o t)[i] = IF i <= Len(s) THEN s[i] ELSE t[i - Len(s)]
  BY ConcatProperties
<1>3. ASSUME NEW i \in 1 .. Len(s) PROVE (s \o t)[i] = s[i]
  BY <1>1, <1>2
<1>4. ASSUME NEW i \in 1 .. Len(t) PROVE (s \o t)[Len(s) + i] = t[i]
  <2>1. /\ Len(s) + i \in 1 .. Len(s) + Len(t) /\ ~ Len(s) + i <= Len(s)
        /\ (Len(s) + i) - Len(s) = i
    BY <1>1
  <2> QED
    BY <1>2, <2>1
<1> QED
  BY <1>2, <1>3, <1>4 DEF Joins

\* What comes third can be joined to the first two.
Regrouped(a, b, c) == (a \o b) \o c = a \o (b \o c)

LEMMA Regroup ==
  \A a, b, c \in Seq(Int) : Regrouped(a, b, c)
  BY ConcatAssociative DEF Regrouped

(* What is joined has the elements of both, ...                            *)
LEMMA JoinElements ==
  ASSUME NEW s \in Seq(Int), NEW t \in Seq(Int), NEW w, Joins(w, s, t)
  PROVE  Elements(w) = Elements(s) \cup Elements(t)
<1>1. Len(s) \in Nat /\ Len(t) \in Nat /\ Len(w) = Len(s) + Len(t)
  BY DEF Joins
<1>2. ASSUME NEW x \in Elements(w) PROVE x \in Elements(s) \cup Elements(t)
  <2>1. PICK i \in 1 .. Len(w) : x = w[i]
    BY DEF Elements
  <2>2. CASE i <= Len(s)
    <3>1. i \in 1 .. Len(s)
      BY <1>1, <2>2
    <3> QED
      BY <2>1, <3>1 DEF Joins, Elements
  <2>3. CASE ~ i <= Len(s)
    <3>1. i - Len(s) \in 1 .. Len(t) /\ Len(s) + (i - Len(s)) = i
      BY <1>1, <2>3
    <3>2. x = t[i - Len(s)]
      BY <2>1, <3>1 DEF Joins
    <3> QED
      BY <3>1, <3>2 DEF Elements
  <2> QED
    BY <2>2, <2>3
<1>3. ASSUME NEW x \in Elements(s) PROVE x \in Elements(w)
  <2>1. PICK i \in 1 .. Len(s) : x = s[i]
    BY DEF Elements
  <2>2. i \in 1 .. Len(w) /\ w[i] = s[i]
    BY <1>1 DEF Joins
  <2> QED
    BY <2>1, <2>2 DEF Elements
<1>4. ASSUME NEW x \in Elements(t) PROVE x \in Elements(w)
  <2>1. PICK i \in 1 .. Len(t) : x = t[i]
    BY DEF Elements
  <2>2. Len(s) + i \in 1 .. Len(w) /\ w[Len(s) + i] = t[i]
    BY <1>1 DEF Joins
  <2> QED
    BY <2>1, <2>2 DEF Elements
<1> QED
  BY <1>2, <1>3, <1>4

(* ... and rises when what follows is above what came before.              *)
LEMMA JoinRising ==
  ASSUME NEW s \in Seq(Int), NEW t \in Seq(Int), NEW w, Joins(w, s, t),
         Rising(s), Rising(t), NEW top \in Int,
         \A x \in Elements(s) : x <= top, \A x \in Elements(t) : top < x
  PROVE  Rising(w)
<1>1. Len(s) \in Nat /\ Len(t) \in Nat /\ Len(w) = Len(s) + Len(t)
  BY DEF Joins
<1> SUFFICES ASSUME NEW a \in 1 .. Len(w), NEW b \in 1 .. Len(w), a < b
             PROVE  w[a] < w[b]
  BY DEF Rising
<1>2. CASE b <= Len(s)
  <2>1. a \in 1 .. Len(s) /\ b \in 1 .. Len(s)
    BY <1>1, <1>2
  <2> QED
    BY <2>1 DEF Joins, Rising
<1>3. CASE a <= Len(s) /\ ~ b <= Len(s)
  <2>1. /\ a \in 1 .. Len(s)
        /\ b - Len(s) \in 1 .. Len(t) /\ Len(s) + (b - Len(s)) = b
    BY <1>1, <1>3
  <2>2. w[a] = s[a] /\ w[b] = t[b - Len(s)]
    BY <2>1 DEF Joins
  <2>3. s[a] \in Int /\ t[b - Len(s)] \in Int
    BY <2>1
  <2>4. s[a] <= top /\ top < t[b - Len(s)]
    BY <2>1 DEF Elements
  <2> QED
    BY <2>2, <2>3, <2>4
<1>4. CASE ~ a <= Len(s)
  <2>1. /\ a - Len(s) \in 1 .. Len(t) /\ Len(s) + (a - Len(s)) = a
        /\ b - Len(s) \in 1 .. Len(t) /\ Len(s) + (b - Len(s)) = b
        /\ a - Len(s) < b - Len(s)
    BY <1>1, <1>4
  <2>2. w[a] = t[a - Len(s)] /\ w[b] = t[b - Len(s)]
    BY <2>1 DEF Joins
  <2> QED
    BY <2>1, <2>2 DEF Rising
<1> QED
  BY <1>1, <1>2, <1>3, <1>4

(* Consecutive numbers rise, and are an interval.                          *)
LEMMA Numbered ==
  ASSUME NEW s \in Seq(Int), NEW base \in Int,
         \A i \in 1 .. Len(s) : s[i] = base + i
  PROVE  Rising(s) /\ Elements(s) = base + 1 .. base + Len(s)
<1>1. Len(s) \in Nat
  OBVIOUS
<1>2. Rising(s)
  BY <1>1 DEF Rising
<1>3. ASSUME NEW x \in Elements(s) PROVE x \in base + 1 .. base + Len(s)
  BY <1>1 DEF Elements
<1>4. ASSUME NEW x \in base + 1 .. base + Len(s) PROVE x \in Elements(s)
  <2>1. x - base \in 1 .. Len(s) /\ base + (x - base) = x
    BY <1>1
  <2>2. s[x - base] = x
    BY <2>1
  <2> QED
    BY <2>1, <2>2 DEF Elements
<1> QED
  BY <1>2, <1>3, <1>4

\* The beginning of a sequence.
LEMMA Beginning ==
  ASSUME NEW s \in Seq(Int), NEW k \in Nat, k <= Len(s)
  PROVE  /\ SubSeq(s, 1, k) \in Seq(Int) /\ Len(SubSeq(s, 1, k)) = k
         /\ \A i \in 1 .. k : SubSeq(s, 1, k)[i] = s[i]
<1>1. Len(s) \in Nat /\ \A i \in 1 .. k : s[i] \in Int
  OBVIOUS
<1> QED
  BY <1>1

\* A sequence cut in two.
LEMMA CutInTwo ==
  ASSUME NEW s \in Seq(Int), NEW k \in Nat, k <= Len(s)
  PROVE  /\ SubSeq(s, 1, k) \in Seq(Int) /\ SubSeq(s, k + 1, Len(s)) \in Seq(Int)
         /\ SubSeq(s, 1, k) \o SubSeq(s, k + 1, Len(s)) = s
         /\ Len(SubSeq(s, k + 1, Len(s))) <= Len(s)
<1>1. Len(s) \in Nat /\ \A i \in 1 .. Len(s) : s[i] \in Int
  OBVIOUS
<1>2. SubSeq(s, 1, k) \in Seq(Int)
  BY Beginning
<1>3. /\ SubSeq(s, k + 1, Len(s)) \in Seq(Int)
      /\ Len(SubSeq(s, k + 1, Len(s))) <= Len(s)
  <2>1. \A i \in k + 1 .. Len(s) : s[i] \in Int
    BY <1>1
  <2> QED
    BY <1>1, <2>1, SubSeqProperties
<1>4. SubSeq(s, 1, k) \o SubSeq(s, k + 1, Len(s)) = SubSeq(s, 1, Len(s))
  <2>1. /\ 1 \in 1 .. Len(s) + 1 /\ k \in 1 - 1 .. Len(s) /\ Len(s) \in k .. Len(s)
    BY <1>1
  <2> QED
    BY <2>1, ConcatAdjacentSubSeq
<1>5. SubSeq(s, 1, Len(s)) = s
  BY SubSeqFull
<1> QED
  BY <1>2, <1>3, <1>4, <1>5

(* A step that only changes where the threads are keeps the stream.        *)
LEMMA SameStream ==
  ASSUME SInv, UNCHANGED <<fifo, produced, out, dropped, opened>>,
         Pending = << >>, Pending' = << >>, worker' # "store",
         block' = block \/ block' = << >>
  PROVE  SInv'
<1>1. /\ q' = q /\ cap' = cap /\ ret' = ret /\ out' = out /\ opened' = opened
      /\ produced' = produced /\ dropped' = dropped
  BY DEF fifo
<1>2. StreamType'
  <2>1. block' \in Seq(Int)
    <3>1. << >> \in Seq(Int) /\ block \in Seq(Int)
      BY DEF SInv, StreamType
    <3> QED
      BY <3>1, Zenon
  <2> QED
    BY <1>1, <2>1 DEF SInv, StreamType
<1>3. BlockNewest'
  BY DEF BlockNewest
<1>4. Main' = Main /\ Offered' = Offered
  BY <1>1 DEF Main, Offered
<1>5. Accounted'
  BY <1>1, <1>4 DEF SInv, Accounted
<1> QED
  BY <1>2, <1>3, <1>5 DEF SInv

(* And so does one that leaves the worker and the stream alone.            *)
LEMMA OtherStream ==
  ASSUME SInv, UNCHANGED <<fifo, worker, block, history>>
  PROVE  SInv'
<1>1. /\ q' = q /\ cap' = cap /\ ret' = ret /\ out' = out /\ opened' = opened
      /\ produced' = produced /\ dropped' = dropped
      /\ worker' = worker /\ block' = block
  BY DEF fifo, history
<1>2. StreamType'
  BY <1>1 DEF SInv, StreamType
<1>3. BlockNewest'
  BY <1>1 DEF SInv, BlockNewest
<1>4. Main' = Main /\ Offered' = Offered
  BY <1>1 DEF Main, Offered, Pending
<1>5. Accounted'
  BY <1>1, <1>4 DEF SInv, Accounted
<1> QED
  BY <1>2, <1>3, <1>5 DEF SInv

(* A block that opens its device starts with an empty stream.              *)
LEMMA ConstructStream ==
  ASSUME SInv, NEW d \in Descriptors \cup {NoFd}, Construct(d)
  PROVE  SInv'
<1>1. /\ worker' = "start" /\ block' = << >> /\ out' = << >> /\ dropped' = {}
      /\ opened' = <<d # NoFd, produced>> /\ produced' = produced
  BY DEF Construct
<1>2. /\ d = NoFd => UNCHANGED fifo
      /\ d # NoFd => q' = << >> /\ cap' = Capacity /\ ret' = ret
  BY DEF Construct, Fifo!ChangeSize
<1>3. StreamType'
  <2>1. << >> \in Seq(Int) /\ Len(<< >>) = 0 /\ Capacity \in Nat /\ 0 <= Capacity
    BY SourceAssumption
  <2>2. q' \in Seq(Int) /\ cap' \in Nat /\ Len(q') <= cap' /\ ret' = ret
    <3>1. CASE d = NoFd
      BY <1>2, <3>1 DEF SInv, StreamType, fifo
    <3>2. CASE d # NoFd
      BY <1>2, <2>1, <3>2
    <3> QED
      BY <3>1, <3>2
  <2> QED
    BY <1>1, <2>1, <2>2 DEF SInv, StreamType
<1>4. BlockNewest'
  BY <1>1 DEF BlockNewest
<1>5. Accounted'
  <2> SUFFICES ASSUME d # NoFd PROVE Accounted'
    BY <1>1 DEF Accounted
  <2>1. Main' = << >>
    BY <1>1, <1>2 DEF Main
  <2>2. Offered' = produced /\ produced \in Int
    BY <1>1 DEF SInv, StreamType, Offered, Pending
  <2>3. Rising(<< >>) /\ Elements(<< >>) = {}
    BY DEF Rising, Elements
  <2>4. produced + 1 .. produced = {}
    BY <2>2
  <2> QED
    <3>1. opened'[2] = produced /\ dropped' = {}
      BY <1>1
    <3>2. /\ Rising(Main') /\ Elements(Main') = {}
      BY <2>1, <2>3
    <3>3. (opened'[2] + 1) .. Offered' = {}
      BY <2>2, <2>4, <3>1
    <3>4. opened'[2] \in Int /\ opened'[2] <= Offered'
      BY <2>2, <3>1
    <3>5. Elements(Main') \cap dropped' = {} /\ Elements(Main') \cup dropped' = {}
      BY <3>1, <3>2
    <3> QED
      BY <3>2, <3>3, <3>4, <3>5 DEF Accounted, Rising, Elements
<1> QED
  BY <1>3, <1>4, <1>5 DEF SInv

(* What work takes out of the FIFO buffer it hands on in its place.        *)
LEMMA WorkStream ==
  ASSUME SInv, NEW n \in Nat, Work(n)
  PROVE  SInv'
<1> DEFINE k == Fifo!Found(n)
<1>1. q \in Seq(Int) /\ out \in Seq(Int) /\ DOMAIN ret = {"scheduler", "worker"}
  BY DEF SInv, StreamType
<1>2. k \in Nat /\ k <= Len(q)
  BY <1>1 DEF Fifo!Found, Fifo!Smaller
<1> DEFINE x == SubSeq(q, 1, k)
           y == SubSeq(q, k + 1, Len(q))
<1>3. /\ out' = out \o x /\ q' = y /\ cap' = cap
      /\ DOMAIN ret' = {"scheduler", "worker"}
      /\ UNCHANGED <<worker, block, produced, dropped, opened>>
  BY <1>1 DEF Work, Fifo!Read, Fifo!ReadResult
<1> HIDE DEF k
<1>4. x \in Seq(Int) /\ y \in Seq(Int) /\ x \o y = q /\ Len(y) <= Len(q)
  BY <1>1, <1>2, CutInTwo
<1> HIDE DEF x, y
<1>5. StreamType'
  <2>1. out \o x \in Seq(Int)
    BY <1>1, <1>4
  <2>2. Len(y) \in Nat /\ Len(q) \in Nat
    BY <1>1, <1>4
  <2> QED
    BY <1>3, <1>4, <2>1, <2>2 DEF SInv, StreamType
<1>6. Main' = Main
  <2>1. Regrouped(out, x, y)
    BY <1>1, <1>4, Regroup, Zenon
  <2> QED
    BY <1>3, <1>4, <2>1 DEF Main, Regrouped
<1>7. Offered' = Offered
  BY <1>3 DEF Offered, Pending
<1>8. BlockNewest' /\ Accounted'
  BY <1>3, <1>6, <1>7 DEF SInv, BlockNewest, Accounted
<1> QED
  BY <1>5, <1>8 DEF SInv

(* The parser's words are numbered on.                                     *)
LEMMA ReadStream ==
  ASSUME SInv, NEW k \in Nat, WorkerRead(k)
  PROVE  SInv'
<1>1. /\ worker = "read" /\ worker' = "store" /\ produced' = produced + k
      /\ block' = Words(produced + 1, produced + k)
      /\ q' = q /\ cap' = cap /\ ret' = ret
      /\ UNCHANGED <<out, dropped, opened>>
  BY DEF WorkerRead, fifo
<1>2. produced \in Int
  BY DEF SInv, StreamType
<1>3. /\ block' \in Seq(Int) /\ Len(block') = k
      /\ \A i \in 1 .. k : block'[i] = produced + i
  <2>1. (produced + k) - (produced + 1) + 1 = k
    BY <1>2
  <2>2. block' = [i \in 1 .. k |-> (produced + 1) + i - 1]
    BY <1>1, <2>1 DEF Words
  <2>3. block' \in [1 .. k -> Int]
    BY <1>2, <2>2
  <2>4. block' \in Seq(Int) /\ Len(block') = k
    BY <2>3
  <2> QED
    BY <1>2, <2>2, <2>4
<1>4. StreamType'
  BY <1>1, <1>2, <1>3 DEF SInv, StreamType
<1>5. BlockNewest'
  <2>1. (produced + k) - k = produced
    BY <1>2
  <2> QED
    BY <1>1, <1>3, <2>1 DEF BlockNewest
<1>6. Main' = Main
  BY <1>1 DEF Main
<1>7. Offered' = Offered
  <2>1. Offered = produced
    BY <1>1, <1>2 DEF Offered, Pending
  <2>2. Offered' = (produced + k) - k
    BY <1>1, <1>3 DEF Offered, Pending
  <2> QED
    BY <1>2, <2>1, <2>2
<1>8. Accounted'
  BY <1>1, <1>6, <1>7 DEF SInv, Accounted
<1> QED
  BY <1>4, <1>5, <1>8 DEF SInv

(* What fits of a block follows in the stream, and the rest is dropped.    *)
LEMMA StoreStream ==
  ASSUME SInv, WorkerStore
  PROVE  SInv'
<1> DEFINE L == Len(block)
           k == Fifo!Stored(block)
           x == SubSeq(block, 1, k)
<1>1. /\ worker = "store" /\ worker' = "check"
      /\ UNCHANGED <<block, produced, out, opened>>
      /\ q' = q \o x /\ cap' = cap /\ ret' = [ret EXCEPT !["worker"] = Fifo!WroteResult(k)]
      /\ dropped' = dropped \cup {block[i] : i \in ret'["worker"].count + 1 .. L}
  BY DEF WorkerStore, Fifo!Write
<1>2. /\ q \in Seq(Int) /\ out \in Seq(Int) /\ block \in Seq(Int)
      /\ produced \in Int /\ cap \in Nat /\ Len(q) <= cap
      /\ DOMAIN ret = {"scheduler", "worker"}
  BY DEF SInv, StreamType
<1>3. L \in Nat /\ Len(q) \in Nat
  BY <1>2
<1>4. k \in Nat /\ k <= L /\ k <= cap - Len(q)
  BY <1>2, <1>3 DEF Fifo!Stored, Fifo!Smaller
<1>5. /\ DOMAIN ret' = {"scheduler", "worker"}
      /\ dropped' = dropped \cup {block[i] : i \in k + 1 .. L}
  BY <1>1, <1>2 DEF Fifo!WroteResult
<1> HIDE DEF k
<1>6. x \in Seq(Int) /\ Len(x) = k /\ \A i \in 1 .. k : x[i] = block[i]
  BY <1>2, <1>4, Beginning
<1> HIDE DEF x
<1>7. Joins(q \o x, q, x)
  BY <1>2, <1>6, JoinsConcat
<1>8. StreamType'
  <2>1. q \o x \in Seq(Int) /\ Len(q \o x) = Len(q) + k
    BY <1>6, <1>7 DEF Joins
  <2>2. Len(q) + k <= cap
    BY <1>2, <1>3, <1>4
  <2> QED
    BY <1>1, <1>2, <1>5, <2>1, <2>2 DEF StreamType
<1>9. BlockNewest'
  BY <1>1 DEF BlockNewest
<1>10. /\ Main' = Main \o x /\ Main \in Seq(Int)
       /\ Offered = produced - L /\ Offered' = produced
  <2>1. Regrouped(out, q, x)
    BY <1>2, <1>6, Regroup, Zenon
  <2>2. out \o q \in Seq(Int)
    BY <1>2
  <2>3. Offered = produced - L
    BY <1>1 DEF Offered, Pending
  <2>4. Offered' = produced
    BY <1>1, <1>2 DEF Offered, Pending
  <2> QED
    BY <1>1, <2>1, <2>2, <2>3, <2>4 DEF Main, Regrouped
<1>11. ASSUME opened[1] PROVE Accounted'
  <2>1. /\ opened[2] \in Int /\ opened[2] <= Offered /\ Rising(Main)
        /\ Elements(Main) \cap dropped = {}
        /\ Elements(Main) \cup dropped = opened[2] + 1 .. Offered
    BY <1>11 DEF SInv, Accounted
  <2>2. \A i \in 1 .. L : block[i] = Offered + i
    BY <1>1, <1>10 DEF SInv, BlockNewest
  <2>3. Offered \in Int /\ Offered + L = produced
    BY <1>2, <1>3, <1>10
  <2>4. \A i \in 1 .. Len(x) : x[i] = Offered + i
    BY <1>4, <1>6, <2>2
  <2>5. Rising(x) /\ Elements(x) = Offered + 1 .. Offered + k
    BY <1>6, <2>3, <2>4, Numbered
  <2>6. {block[i] : i \in k + 1 .. L} = Offered + k + 1 .. produced
    <3>1. \A i \in k + 1 .. L : block[i] = Offered + i
      BY <1>3, <1>4, <2>2
    <3>2. ASSUME NEW y \in Offered + k + 1 .. produced
          PROVE  y - Offered \in k + 1 .. L /\ Offered + (y - Offered) = y
      BY <1>3, <1>4, <2>3
    <3>3. ASSUME NEW i \in k + 1 .. L
          PROVE  Offered + i \in Offered + k + 1 .. produced
      BY <1>3, <1>4, <2>3
    <3> QED
      BY <3>1, <3>2, <3>3
  <2>7. Joins(Main', Main, x)
    BY <1>6, <1>10, JoinsConcat
  <2>8. Elements(Main') = Elements(Main) \cup Elements(x)
    BY <1>6, <1>10, <2>7, JoinElements
  <2>9. Rising(Main')
    <3>1. \A y \in Elements(Main) : y <= Offered
      BY <2>1, <2>3
    <3>2. \A y \in Elements(x) : Offered < y
      BY <1>4, <2>3, <2>5
    <3> QED
      BY <1>6, <1>10, <2>1, <2>3, <2>5, <2>7, <3>1, <3>2, JoinRising
  <2>10. (Elements(Main) \cup Elements(x)) \cap dropped' = {}
    <3>1. \A y \in dropped : y <= Offered
      BY <2>1, <2>3
    <3>2. \A y \in Elements(Main) : y <= Offered
      BY <2>1, <2>3
    <3>3. Elements(x) \cap dropped = {}
      BY <1>4, <2>3, <2>5, <3>1
    <3>4. (Offered + 1 .. Offered + k) \cap (Offered + k + 1 .. produced) = {}
      BY <1>4, <2>3
    <3>5. Elements(Main) \cap (Offered + k + 1 .. produced) = {}
      BY <1>4, <2>3, <3>2
    <3> QED
      BY <1>5, <2>1, <2>5, <2>6, <3>3, <3>4, <3>5
  <2>11. (Elements(Main) \cup Elements(x)) \cup dropped' = opened[2] + 1 .. produced
    <3>1. (Offered + 1 .. Offered + k) \cup (Offered + k + 1 .. produced) = Offered + 1 .. produced
      BY <1>3, <1>4, <2>3
    <3>2. (opened[2] + 1 .. Offered) \cup (Offered + 1 .. produced) = opened[2] + 1 .. produced
      BY <1>3, <2>1, <2>3
    <3> QED
      BY <1>5, <2>1, <2>5, <2>6, <3>1, <3>2
  <2>12. opened[2] <= produced
    BY <1>3, <2>1, <2>3
  <2>13. opened' = opened
    BY <1>1
  <2> QED
    BY <1>10, <2>1, <2>8, <2>9, <2>10, <2>11, <2>12, <2>13 DEF Accounted
<1>12. Accounted'
  <2>1. opened' = opened
    BY <1>1
  <2> QED
    BY <1>11, <2>1 DEF Accounted
<1> QED
  BY <1>8, <1>9, <1>12 DEF SInv

(* Every step keeps the stream.                                            *)
LEMMA NextSInv == SInv /\ [Next]_vars => SInv'
<1> SUFFICES ASSUME SInv, [Next]_vars PROVE SInv'
  OBVIOUS
<1>1. ASSUME NEW d \in Descriptors \cup {NoFd}, Construct(d) PROVE SInv'
  BY <1>1, ConstructStream
<1>2. ASSUME WorkSome PROVE SInv'
  <2>1. PICK k \in 1 .. MaxOutput : Work(k * OutputMultiple)
    BY <1>2 DEF WorkSome
  <2>2. k * OutputMultiple \in Nat
    BY SourceAssumption
  <2> QED
    BY <2>1, <2>2, WorkStream
<1>3. ASSUME Start \/ Stop \/ Destroy \/ Finished \/ UNCHANGED vars PROVE SInv'
  <2>1. UNCHANGED <<fifo, worker, block, history>>
    BY <1>3 DEF Start, Stop, Destroy, AskToExit, Join, Close, Finished, vars
  <2> QED
    BY <2>1, OtherStream
<1>4. ASSUME NEW d \in Descriptors, OtherOpen(d) PROVE SInv'
  <2>1. UNCHANGED <<fifo, worker, block, history>>
    BY <1>4 DEF OtherOpen
  <2> QED
    BY <2>1, OtherStream
<1>5. ASSUME WorkerStart \/ DummyRead \/ DummyReadsDone \/ ReadFails \/ WorkerCheck
      PROVE  SInv'
  <2>1. /\ worker # "store" /\ worker' # "store"
        /\ UNCHANGED <<fifo, produced, out, dropped, opened>>
        /\ block' = block \/ block' = << >>
    BY <1>5 DEF WorkerStart, DummyRead, DummyReadsDone, ReadFails, WorkerCheck,
                history
  <2>2. Pending = << >> /\ Pending' = << >>
    BY <2>1 DEF Pending
  <2> QED
    BY <2>1, <2>2, SameStream
<1>6. ASSUME NEW k \in 0 .. BlockWords, WorkerRead(k) PROVE SInv'
  <2>1. k \in Nat
    BY SourceAssumption
  <2> QED
    BY <1>6, <2>1, ReadStream
<1>7. ASSUME WorkerStore PROVE SInv'
  BY <1>7, StoreStream
<1> QED
  BY <1>1, <1>2, <1>3, <1>4, <1>5, <1>6, <1>7 DEF Next, Worker

(* Nothing is in the stream before the first block.                        *)
LEMMA InitSInv == Init => SInv
<1> SUFFICES ASSUME Init PROVE SInv
  OBVIOUS
<1>1. /\ q = << >> /\ out = << >> /\ block = << >> /\ produced = 0
      /\ cap = Capacity /\ worker = "done" /\ opened[1] = FALSE
      /\ DOMAIN ret = {"scheduler", "worker"}
  BY DEF Init
<1>2. << >> \in Seq(Int) /\ Len(<< >>) = 0 /\ 0 <= Capacity
  BY SourceAssumption
<1>3. StreamType
  BY <1>1, <1>2, SourceAssumption DEF StreamType
<1> QED
  BY <1>1, <1>3 DEF SInv, BlockNewest, Accounted

(* The invariant of the stream holds in every state.                       *)
THEOREM StreamInvariance == Spec => []SInv
  BY InitSInv, NextSInv, PTL DEF Spec

(* For every instance, whatever the scheduler's and the worker's calls     *)
(* interleave to, the words come out in the order of the device, none      *)
(* twice and none unaccounted for.                                         *)
THEOREM ConservesStream == Spec => []StreamConserved
<1>1. SInv => StreamConserved
  <2> SUFFICES ASSUME SInv, opened[1]
               PROVE  /\ \A i \in 1 .. Len(Stream) - 1 : Stream[i] < Stream[i + 1]
                      /\ Elements(Stream) \cap dropped = {}
                      /\ Elements(Stream) \cup dropped = opened[2] + 1 .. produced
    BY DEF StreamConserved
  <2>1. /\ q \in Seq(Int) /\ out \in Seq(Int) /\ block \in Seq(Int)
        /\ produced \in Int
    BY DEF SInv, StreamType
  <2>2. /\ opened[2] \in Int /\ opened[2] <= Offered /\ Rising(Main)
        /\ Elements(Main) \cap dropped = {}
        /\ Elements(Main) \cup dropped = opened[2] + 1 .. Offered
    BY DEF SInv, Accounted
  <2>3. /\ Pending \in Seq(Int) /\ Main \in Seq(Int) /\ Stream = Main \o Pending
    <3>1. out \o q \in Seq(Int) /\ << >> \in Seq(Int)
      BY <2>1
    <3> QED
      BY <2>1, <3>1, Zenon DEF Pending, Main, Stream
  <2>4. Len(Pending) \in Nat
    BY <2>3
  <2>5. Offered \in Int /\ Offered + Len(Pending) = produced
    BY <2>1, <2>4 DEF Offered
  <2>6. \A i \in 1 .. Len(Pending) : Pending[i] = Offered + i
    <3>1. CASE worker = "store"
      BY <2>5, <3>1 DEF SInv, BlockNewest, Pending, Offered
    <3>2. CASE worker # "store"
      BY <3>2 DEF Pending
    <3> QED
      BY <3>1, <3>2
  <2>7. Rising(Pending) /\ Elements(Pending) = Offered + 1 .. produced
    BY <2>3, <2>5, <2>6, Numbered
  <2>8. Joins(Stream, Main, Pending)
    BY <2>3, JoinsConcat
  <2>9. Elements(Stream) = Elements(Main) \cup Elements(Pending)
    BY <2>3, <2>8, JoinElements
  <2>10. Rising(Stream)
    <3>1. \A y \in Elements(Main) : y <= Offered
      BY <2>2, <2>5
    <3>2. \A y \in Elements(Pending) : Offered < y
      BY <2>5, <2>7
    <3> QED
      BY <2>2, <2>3, <2>5, <2>7, <2>8, <3>1, <3>2, JoinRising
  <2>11. ASSUME NEW i \in 1 .. Len(Stream) - 1 PROVE Stream[i] < Stream[i + 1]
    <3>1. Len(Stream) \in Nat
      BY <2>8 DEF Joins
    <3>2. i \in 1 .. Len(Stream) /\ i + 1 \in 1 .. Len(Stream) /\ i < i + 1
      BY <3>1
    <3> QED
      BY <2>10, <3>2 DEF Rising
  <2>12. Elements(Pending) \cap dropped = {}
    <3>1. \A y \in dropped : y <= Offered
      BY <2>2, <2>5
    <3> QED
      BY <2>5, <2>7, <3>1
  <2>13. (opened[2] + 1 .. Offered) \cup (Offered + 1 .. produced) = opened[2] + 1 .. produced
    BY <2>2, <2>4, <2>5
  <2> QED
    BY <2>2, <2>7, <2>9, <2>11, <2>12, <2>13
<1> QED
  BY <1>1, StreamInvariance, PTL

\* A thread past its start belongs to a block that opened its device.
OpenedFirst ==
  /\ worker \in {"dummy", "read", "store", "check"} => opened[1]
  /\ worker = "start" /\ ~ opened[1] => exit

LEMMA NextOpenedFirst == OpenedFirst /\ [Next]_vars => OpenedFirst'
<1> SUFFICES ASSUME OpenedFirst, [Next]_vars PROVE OpenedFirst'
  OBVIOUS
<1> USE DEF OpenedFirst
<1>1. ASSUME NEW d \in Descriptors \cup {NoFd}, Construct(d) PROVE OpenedFirst'
  <2>1. /\ worker' = "start" /\ opened' = <<d # NoFd, produced>>
        /\ exit' = (d = NoFd)
    BY <1>1 DEF Construct
  <2> QED
    BY <2>1
<1>2. ASSUME WorkSome \/ Start \/ Stop \/ Destroy \/ Finished \/ UNCHANGED vars
      PROVE  OpenedFirst'
  <2>1. worker' = worker /\ opened' = opened /\ (exit' = exit \/ exit' = TRUE)
    BY <1>2 DEF WorkSome, Work, Start, Stop, Destroy, AskToExit, Join, Close,
                Finished, vars, history
  <2> QED
    BY <2>1
<1>3. ASSUME NEW d \in Descriptors, OtherOpen(d) PROVE OpenedFirst'
  BY <1>3 DEF OtherOpen, history
<1>4. ASSUME Worker PROVE OpenedFirst'
  <2>1. opened' = opened /\ exit' = exit
    BY <1>4 DEF Worker, WorkerStart, DummyRead, DummyReadsDone, WorkerRead,
                ReadFails, WorkerStore, WorkerCheck, history
  <2>2. \/ worker = "start" /\ worker' = IF exit THEN "done" ELSE "dummy"
        \/ worker \in {"dummy", "read", "store", "check"}
           /\ worker' \in {"dummy", "read", "store", "check", "done"}
    BY <1>4 DEF Worker, WorkerStart, DummyRead, DummyReadsDone, WorkerRead,
                ReadFails, WorkerStore, WorkerCheck
  <2> QED
    BY <2>1, <2>2
<1> QED
  BY <1>1, <1>2, <1>3, <1>4 DEF Next

(* What a store drops is newer than all that the FIFO buffer holds then.   *)
LEMMA StoreDropsNewest ==
  ASSUME SInv, OpenedFirst, WorkerStore, dropped' # dropped
  PROVE  /\ Len(q') = cap
         /\ \A d \in dropped' \ dropped, i \in 1 .. Len(q') : q'[i] < d
<1> DEFINE L == Len(block)
           k == Fifo!Stored(block)
           x == SubSeq(block, 1, k)
<1>1. /\ worker = "store" /\ q' = q \o x
      /\ ret' = [ret EXCEPT !["worker"] = Fifo!WroteResult(k)]
      /\ dropped' = dropped \cup {block[i] : i \in ret'["worker"].count + 1 .. L}
  BY DEF WorkerStore, Fifo!Write
<1>2. /\ q \in Seq(Int) /\ out \in Seq(Int) /\ block \in Seq(Int)
      /\ produced \in Int /\ cap \in Nat /\ Len(q) <= cap
      /\ DOMAIN ret = {"scheduler", "worker"}
  BY DEF SInv, StreamType
<1>3. L \in Nat /\ Len(q) \in Nat
  BY <1>2
<1>4. k \in Nat /\ k <= L /\ (k = L \/ k = cap - Len(q))
  BY <1>2, <1>3 DEF Fifo!Stored, Fifo!Smaller
<1>5. dropped' = dropped \cup {block[i] : i \in k + 1 .. L}
  BY <1>1, <1>2 DEF Fifo!WroteResult
<1> HIDE DEF k
<1>6. k = cap - Len(q)
  <2>1. k = L => k + 1 .. L = {}
    BY <1>3
  <2> QED
    BY <1>4, <1>5, <2>1
<1>7. x \in Seq(Int) /\ Len(x) = k /\ \A i \in 1 .. k : x[i] = block[i]
  BY <1>2, <1>4, Beginning
<1> HIDE DEF x
<1>8. Joins(q', q, x)
  BY <1>1, <1>2, <1>7, JoinsConcat
<1>9. Len(q') = cap
  BY <1>2, <1>3, <1>6, <1>7, <1>8 DEF Joins
<1>10. Offered \in Int /\ \A i \in 1 .. L : block[i] = Offered + i
  BY <1>1, <1>2, <1>3 DEF SInv, BlockNewest, Offered, Pending
<1>11. \A y \in Elements(q) : y <= Offered
  <2>1. /\ opened[2] \in Int
        /\ Elements(Main) \cup dropped = opened[2] + 1 .. Offered
    BY <1>1 DEF SInv, Accounted, OpenedFirst
  <2>2. Joins(Main, out, q)
    BY <1>2, JoinsConcat DEF Main
  <2>3. Elements(Main) = Elements(out) \cup Elements(q)
    BY <1>2, <2>2, JoinElements
  <2> QED
    BY <1>10, <2>1, <2>3
<1>12. Elements(q') = Elements(q) \cup Elements(x)
  BY <1>2, <1>7, <1>8, JoinElements
<1>13. \A y \in Elements(x) : y <= Offered + k
  BY <1>4, <1>3, <1>7, <1>10 DEF Elements
<1>14. \A y \in Elements(q') : y <= Offered + k
  <2>1. \A y \in Elements(q) : y \in Int
    BY <1>2 DEF Elements
  <2> QED
    BY <1>4, <1>10, <1>11, <1>12, <1>13, <2>1
<1>15. \A d \in dropped' \ dropped : d \in Int /\ Offered + k < d
  <2> SUFFICES ASSUME NEW d \in dropped', d \notin dropped
               PROVE  d \in Int /\ Offered + k < d
    OBVIOUS
  <2>1. PICK i \in k + 1 .. L : d = block[i]
    BY <1>5
  <2>2. i \in 1 .. L /\ k < i
    BY <1>3, <1>4
  <2> QED
    BY <1>4, <1>10, <2>1, <2>2
<1>16. \A i \in 1 .. Len(q') : q'[i] \in Elements(q') /\ q'[i] \in Int
  BY <1>8 DEF Elements, Joins
<1>17. ASSUME NEW d \in dropped' \ dropped, NEW i \in 1 .. Len(q')
       PROVE  q'[i] < d
  BY <1>4, <1>10, <1>14, <1>15, <1>16
<1> QED
  BY <1>9, <1>17

(* For every instance, words are dropped only when the FIFO buffer is      *)
(* full, and the newest ones.                                              *)
THEOREM DropsOnlyNewest == Spec => DropsNewest
<1> DEFINE Step ==
      dropped' # dropped /\ worker = "store" =>
        /\ Len(q') = cap
        /\ \A d \in dropped' \ dropped, i \in 1 .. Len(q') : q'[i] < d
<1>1. Init => OpenedFirst
  BY DEF Init, OpenedFirst
<1>2. IInv /\ SInv /\ OpenedFirst /\ [Next]_vars => [Step]_vars
  <2> SUFFICES ASSUME IInv, SInv, OpenedFirst, [Next]_vars,
                      dropped' # dropped, worker = "store"
               PROVE  /\ Len(q') = cap
                      /\ \A d \in dropped' \ dropped, i \in 1 .. Len(q') : q'[i] < d
    OBVIOUS
  <2>1. \A d \in Descriptors \cup {NoFd} : ~ Construct(d)
    BY DEF IInv, JoinedFirst, Construct, Ended
  <2>2. ~ (WorkSome \/ Start \/ Stop \/ Destroy \/ Finished \/ UNCHANGED vars)
    BY DEF WorkSome, Work, Start, Stop, Destroy, AskToExit, Join, Close,
           Finished, vars, history
  <2>3. \A d \in Descriptors : ~ OtherOpen(d)
    BY DEF OtherOpen, history
  <2>4. Worker => WorkerStore
    BY DEF Worker, WorkerStart, DummyRead, DummyReadsDone, WorkerRead,
           ReadFails, WorkerCheck
  <2>5. WorkerStore
    BY <2>1, <2>2, <2>3, <2>4 DEF Next
  <2> QED
    BY <2>5, StoreDropsNewest
<1> QED
  BY <1>1, <1>2, NextOpenedFirst, InitIInv, NextIInv, InitSInv, NextSInv, PTL
     DEF Spec, DropsNewest

-----------------------------------------------------------------------------
(* Types.                                                                  *)

WordNo == 1 .. MaxWords

(* A sequence cut in two.                                                  *)
LEMMA Cut ==
  ASSUME NEW S, NEW s \in Seq(S), NEW k \in Nat, k <= Len(s)
  PROVE  /\ SubSeq(s, 1, k) \in Seq(S) /\ Len(SubSeq(s, 1, k)) = k
         /\ SubSeq(s, k + 1, Len(s)) \in Seq(S)
         /\ Len(SubSeq(s, k + 1, Len(s))) = Len(s) - k
<1>1. /\ Len(s) \in Nat /\ \A i \in 1 .. k : s[i] \in S
      /\ \A i \in k + 1 .. Len(s) : s[i] \in S
  BY LenProperties, ElementOfSeq
<1>2. SubSeq(s, 1, k) \in Seq(S) /\ Len(SubSeq(s, 1, k)) = k
  BY <1>1
<1>3. /\ SubSeq(s, k + 1, Len(s)) \in Seq(S)
      /\ Len(SubSeq(s, k + 1, Len(s))) =
           IF k + 1 <= Len(s) THEN Len(s) - (k + 1) + 1 ELSE 0
  BY <1>1, SubSeqProperties
<1>4. Len(SubSeq(s, k + 1, Len(s))) = Len(s) - k
  BY <1>1, <1>3
<1> QED
  BY <1>2, <1>3, <1>4

(* Every variable has its type before the first block.                     *)
LEMMA InitType == Init => TypeOK
<1> SUFFICES ASSUME Init PROVE TypeOK
  OBVIOUS
<1>1. << >> \in Seq(1 .. MaxWords) /\ Len(<< >>) = 0
  OBVIOUS
<1>2. /\ q \in Seq(1 .. MaxWords) /\ Len(q) <= cap /\ cap = Capacity
      /\ block \in Seq(1 .. MaxWords) /\ Len(block) <= BlockWords
      /\ out \in Seq(1 .. MaxWords)
  BY <1>1, SourceAssumption DEF Init
<1>3. /\ dummies \in 0 .. DummyReads /\ produced \in 0 .. MaxWords
      /\ blocks \in 0 .. MaxBlocks /\ starts \in 0 .. MaxStarts
      /\ dropped \subseteq 1 .. MaxWords /\ opened \in BOOLEAN \X (0 .. MaxWords)
  <2>1. /\ 0 \in 0 .. DummyReads /\ 0 \in 0 .. MaxWords
        /\ 0 \in 0 .. MaxBlocks /\ 0 \in 0 .. MaxStarts
    BY SourceAssumption
  <2>2. opened = <<FALSE, 0>> /\ dropped = {}
    BY DEF Init
  <2>3. <<FALSE, 0>> \in BOOLEAN \X (0 .. MaxWords)
    BY <2>1
  <2> QED
    BY <2>1, <2>2, <2>3 DEF Init
<1>4. /\ owner \in [Descriptors -> {"nobody", "source", "other"}]
      /\ DOMAIN ret = {"scheduler", "worker"}
  BY DEF Init
<1> QED
  BY <1>2, <1>3, <1>4 DEF Init, TypeOK

(* A new block starts with nothing read, handed out or dropped.            *)
LEMMA ConstructType ==
  ASSUME TypeOK, NEW d \in Descriptors \cup {NoFd}, Construct(d)
  PROVE  TypeOK'
<1>1. << >> \in Seq(1 .. MaxWords) /\ Len(<< >>) = 0
  OBVIOUS
<1>2. /\ block' \in Seq(1 .. MaxWords) /\ Len(block') <= BlockWords
      /\ out' \in Seq(1 .. MaxWords) /\ dropped' \subseteq 1 .. MaxWords
      /\ opened' \in BOOLEAN \X (0 .. MaxWords) /\ exit' \in BOOLEAN
      /\ dummies' \in 0 .. DummyReads /\ produced' \in 0 .. MaxWords
      /\ blocks' \in 0 .. MaxBlocks /\ starts' \in 0 .. MaxStarts
  <2>1. /\ block' = << >> /\ out' = << >> /\ dropped' = {}
        /\ opened' = <<d # NoFd, produced>> /\ exit' = (d = NoFd)
        /\ dummies' = 0 /\ produced' = produced /\ starts' = 0
        /\ blocks < MaxBlocks /\ blocks' = blocks + 1
    BY DEF Construct
  <2>2. produced \in 0 .. MaxWords /\ blocks \in 0 .. MaxBlocks
    BY DEF TypeOK
  <2>3. blocks' \in 0 .. MaxBlocks /\ 0 \in 0 .. MaxStarts /\ 0 \in 0 .. DummyReads
    BY <2>1, <2>2, SourceAssumption
  <2>4. (d # NoFd) \in BOOLEAN /\ (d = NoFd) \in BOOLEAN
    OBVIOUS
  <2>5. opened' \in BOOLEAN \X (0 .. MaxWords)
    BY <2>1, <2>2, <2>4
  <2>6. Len(block') <= BlockWords
    BY <1>1, <2>1, SourceAssumption
  <2> QED
    BY <1>1, <2>1, <2>2, <2>3, <2>4, <2>5, <2>6
<1>3. /\ q' \in Seq(1 .. MaxWords) /\ Len(q') <= cap' /\ cap' = Capacity
      /\ DOMAIN ret' = {"scheduler", "worker"}
  <2>1. CASE d = NoFd
    BY <2>1 DEF Construct, TypeOK, fifo
  <2>2. CASE d # NoFd
    <3>1. q' = << >> /\ cap' = Capacity /\ ret' = ret
      BY <2>2 DEF Construct, Fifo!ChangeSize
    <3>2. DOMAIN ret = {"scheduler", "worker"}
      BY DEF TypeOK
    <3> QED
      BY <1>1, <3>1, <3>2, SourceAssumption
  <2> QED
    BY <2>1, <2>2
<1>4. owner' \in [Descriptors -> {"nobody", "source", "other"}]
  BY DEF Construct, TypeOK
<1>5. fd' = d /\ phase' = "ready" /\ worker' = "start"
  BY DEF Construct
<1> QED
  BY <1>2, <1>3, <1>4, <1>5 DEF TypeOK

(* work hands out words of the FIFO buffer.                                *)
LEMMA WorkType ==
  ASSUME TypeOK, NEW n \in Nat, Work(n)
  PROVE  TypeOK'
<1> DEFINE k == Fifo!Found(n)
           x == SubSeq(q, 1, k)
           y == SubSeq(q, k + 1, Len(q))
<1>1. /\ ret' = [ret EXCEPT !["scheduler"] =
                   [op |-> "read", count |-> Len(x), data |-> x]]
      /\ q' = y /\ cap' = cap /\ out' = out \o ret'["scheduler"].data
      /\ UNCHANGED <<fd, exit, owner, phase, worker, dummies, block, produced,
                     dropped, opened, bounds>>
  BY DEF Work, Fifo!Read, Fifo!ReadResult
<1>2. /\ q \in Seq(WordNo) /\ Len(q) \in Nat /\ out \in Seq(WordNo)
      /\ Len(q) <= cap /\ cap \in Nat
  BY SourceAssumption, LenProperties DEF TypeOK, WordNo
<1>3. k \in Nat /\ k <= Len(q)
  BY <1>2 DEF Fifo!Found, Fifo!Smaller
<1> HIDE DEF k
<1>4. x \in Seq(WordNo) /\ y \in Seq(WordNo) /\ Len(y) = Len(q) - k
  BY <1>2, <1>3, Cut
<1> HIDE DEF x, y
<1>5. ret'["scheduler"].data = x /\ DOMAIN ret' = {"scheduler", "worker"}
  BY <1>1 DEF TypeOK
<1>6. out' \in Seq(WordNo)
  BY <1>1, <1>2, <1>4, <1>5, ConcatProperties
<1>7. q' \in Seq(WordNo) /\ Len(q') <= cap
  BY <1>1, <1>2, <1>3, <1>4
<1> QED
  BY <1>1, <1>5, <1>6, <1>7 DEF TypeOK, WordNo, bounds

(* The parser's words are numbered on.                                     *)
LEMMA ReadType ==
  ASSUME TypeOK, NEW k \in 0 .. BlockWords, WorkerRead(k)
  PROVE  TypeOK'
<1>1. /\ produced \in Nat /\ k \in Nat /\ produced + k <= MaxWords
      /\ k <= BlockWords /\ MaxWords \in Nat
  <2>1. produced \in 0 .. MaxWords
    BY DEF TypeOK
  <2>2. produced + k <= MaxWords
    BY DEF WorkerRead
  <2> QED
    BY <2>1, <2>2, SourceAssumption
<1>2. (produced + k) - (produced + 1) + 1 = k
  BY <1>1
<1>3. block' = [i \in 1 .. k |-> produced + 1 + i - 1]
  BY <1>2 DEF WorkerRead, Words
<1>4. \A i \in 1 .. k : produced + 1 + i - 1 \in 1 .. MaxWords
  BY <1>1
<1>5. block' \in [1 .. k -> 1 .. MaxWords]
  BY <1>3, <1>4
<1>6. block' \in Seq(1 .. MaxWords) /\ Len(block') = k
  BY <1>1, <1>5
<1>7. produced' \in 0 .. MaxWords
  BY <1>1 DEF WorkerRead
<1> QED
  BY <1>1, <1>6, <1>7 DEF TypeOK, WorkerRead, fifo, bounds

(* The worker stores the words that fit; the others are dropped.           *)
LEMMA StoreType ==
  ASSUME TypeOK, WorkerStore
  PROVE  TypeOK'
<1> DEFINE k == Fifo!Stored(block)
           x == SubSeq(block, 1, k)
<1>1. /\ q' = q \o x /\ cap' = cap
      /\ ret' = [ret EXCEPT !["worker"] =
                   [op |-> "write", count |-> k, data |-> << >>]]
      /\ dropped' = dropped \cup
           {block[i] : i \in ret'["worker"].count + 1 .. Len(block)}
      /\ worker' = "check"
      /\ UNCHANGED <<fd, exit, owner, phase, dummies, block, produced, out,
                     opened, bounds>>
  BY DEF WorkerStore, Fifo!Write, Fifo!WroteResult
<1>2. /\ q \in Seq(WordNo) /\ Len(q) \in Nat /\ Len(q) <= cap /\ cap \in Nat
      /\ block \in Seq(WordNo) /\ Len(block) \in Nat
      /\ \A i \in 1 .. Len(block) : block[i] \in WordNo
  BY SourceAssumption, LenProperties, ElementOfSeq DEF TypeOK, WordNo
<1>3. k \in Nat /\ k <= Len(block) /\ Len(q) + k <= cap
  BY <1>2 DEF Fifo!Stored, Fifo!Smaller
<1> HIDE DEF k
<1>4. x \in Seq(WordNo) /\ Len(x) = k
  BY <1>2, <1>3, Cut
<1> HIDE DEF x
<1>5. q' \in Seq(WordNo) /\ Len(q') <= cap
  BY <1>1, <1>2, <1>3, <1>4, ConcatProperties
<1>6. ret'["worker"].count = k /\ DOMAIN ret' = {"scheduler", "worker"}
  BY <1>1 DEF TypeOK
<1>7. \A i \in k + 1 .. Len(block) : block[i] \in WordNo
  BY <1>2, <1>3
<1>8. dropped' \subseteq WordNo
  <2>1. dropped \subseteq WordNo
    BY DEF TypeOK, WordNo
  <2>2. dropped' = dropped \cup {block[i] : i \in k + 1 .. Len(block)}
    BY <1>1, <1>6
  <2> QED
    BY <1>7, <2>1, <2>2
<1> QED
  BY <1>1, <1>5, <1>6, <1>8 DEF TypeOK, WordNo, bounds

(* Every step keeps the types.                                             *)
LEMMA NextType == TypeOK /\ [Next]_vars => TypeOK'
<1> SUFFICES ASSUME TypeOK, [Next]_vars PROVE TypeOK'
  OBVIOUS
<1>1. CASE \E d \in Descriptors \cup {NoFd} : Construct(d)
  BY <1>1, ConstructType
<1>2. CASE Start
  <2>1. starts' \in 0 .. MaxStarts
    BY <1>2, SourceAssumption DEF Start, TypeOK
  <2> QED
    BY <1>2, <2>1 DEF Start, TypeOK, fifo, history
<1>3. CASE WorkSome
  <2>1. PICK k \in 1 .. MaxOutput : Work(k * OutputMultiple)
    BY <1>3 DEF WorkSome
  <2>2. k * OutputMultiple \in Nat
    BY SourceAssumption
  <2> QED
    BY <2>1, <2>2, WorkType
<1>4. CASE Stop \/ Destroy
  <2>1. /\ phase' \in {"stop join", "stop close", "ready", "destroy join",
                       "destroy close", "none"}
        /\ exit' \in {exit, TRUE} /\ fd' \in {fd, NoFd}
        /\ owner' \in {owner, [owner EXCEPT ![fd] = "nobody"]}
        /\ UNCHANGED <<fifo, worker, dummies, block, history, bounds>>
    BY <1>4 DEF Stop, Destroy, AskToExit, Join, Close
  <2>2. owner' \in [Descriptors -> {"nobody", "source", "other"}]
    BY <2>1 DEF TypeOK
  <2> QED
    BY <2>1, <2>2 DEF TypeOK, fifo, history, bounds
<1>5. CASE WorkerStart \/ DummyReadsDone \/ ReadFails
  BY <1>5 DEF WorkerStart, DummyReadsDone, ReadFails, TypeOK, fifo, history, bounds
<1>6. CASE DummyRead
  <2>1. dummies' \in 0 .. DummyReads
    <3>1. dummies \in 0 .. DummyReads
      BY DEF TypeOK
    <3>2. dummies < DummyReads /\ dummies' = dummies + 1
      BY <1>6 DEF DummyRead
    <3> QED
      BY <3>1, <3>2, SourceAssumption
  <2> QED
    BY <1>6, <2>1 DEF DummyRead, TypeOK, fifo, history, bounds
<1>7. CASE \E k \in 0 .. BlockWords : WorkerRead(k)
  BY <1>7, ReadType
<1>8. CASE WorkerStore
  BY <1>8, StoreType
<1>9. CASE WorkerCheck
  <2>1. << >> \in Seq(1 .. MaxWords) /\ Len(<< >>) = 0
    OBVIOUS
  <2>2. block' \in Seq(1 .. MaxWords) /\ Len(block') <= BlockWords
    BY <1>9, <2>1, SourceAssumption DEF WorkerCheck
  <2> QED
    BY <1>9, <2>2 DEF WorkerCheck, TypeOK, fifo, history, bounds
<1>10. CASE \E d \in Descriptors : OtherOpen(d)
  <2>1. owner' \in [Descriptors -> {"nobody", "source", "other"}]
    BY <1>10 DEF OtherOpen, TypeOK
  <2> QED
    BY <1>10, <2>1 DEF OtherOpen, TypeOK, fifo, history, bounds
<1>11. CASE Finished \/ UNCHANGED vars
  BY <1>11 DEF Finished, vars, TypeOK, fifo, history, bounds
<1> QED
  BY <1>1, <1>2, <1>3, <1>4, <1>5, <1>6, <1>7, <1>8, <1>9, <1>10, <1>11
     DEF Next, Worker

(* Every variable keeps its type, for every capacity, block size and       *)
(* bound; in particular the FIFO buffer never holds more than it can.      *)
THEOREM TypeCorrect == Spec => []TypeOK
BY InitType, NextType, PTL DEF Spec
=============================================================================
