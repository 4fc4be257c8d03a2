--------------------------- MODULE SdrSinkProofs ---------------------------
(***************************************************************************)
(* Proofs about SdrSink: for every capacity, block size, input and number  *)
(* of descriptors, the worker thread writes only to the device its block   *)
(* opened and never outlives its block, and the samples reach the device   *)
(* once each and in order.  The stream has an invariant of its own, SInv:  *)
(* the three places a sample can be in each hold a piece of the input, and *)
(* each piece begins where the one before it ends.                         *)
(*                                                                         *)
(* Neither of the first two is inductive.  That the thread ended before a  *)
(* descriptor is closed has to be remembered from the join to the close;   *)
(* and that a thread past its start has a device rests on the exit flag    *)
(* the constructor sets when it could not open one.  TypeOK needs that a   *)
(* call of work is not given more samples than there are: TInv.            *)
(***************************************************************************)
EXTENDS SdrSink, SequenceTheorems, TLAPS

\* The types the control state needs.
ControlType ==
  /\ fd \in Descriptors \cup {NoFd}
  /\ exit \in BOOLEAN
  /\ owner \in [Descriptors -> {"nobody", "sink", "other"}]
  /\ phase \in {"none", "ready", "running", "working", "stop join",
                "stop close", "destroy join", "destroy close"}
  /\ worker \in {"start", "read", "write", "check", "done", "failed"}

\* The thread has ended wherever a descriptor is closed and where there is no
\* block.
JoinedFirst ==
  phase \in {"none", "stop close", "destroy close"} => Ended

\* A thread that has not ended has its block's device, or will see the flag.
HasDevice ==
  /\ worker \in {"read", "write", "check"} => fd # NoFd
  /\ worker = "start" /\ fd = NoFd => exit
  /\ ~ Ended /\ fd # NoFd => owner[fd] = "sink"

IInv == ControlType /\ JoinedFirst /\ HasDevice

-----------------------------------------------------------------------------

(* Before the first block, nothing runs.                                   *)
LEMMA InitIInv == Init => IInv
BY DEF Init, IInv, ControlType, JoinedFirst, HasDevice, Ended

(* A constructor that opened no device starts a thread that will see the   *)
(* exit flag.                                                              *)
LEMMA ConstructIInv ==
  ASSUME IInv, NEW d \in Descriptors \cup {NoFd}, Construct(d)
  PROVE  IInv'
<1>1. CASE d = NoFd
  BY <1>1 DEF Construct, IInv, ControlType, JoinedFirst, HasDevice, Ended
<1>2. CASE d # NoFd
  <2>1. d \in Descriptors
    BY <1>2
  <2>2. owner' = [owner EXCEPT ![d] = "sink"] /\ fd' = d /\ exit' = FALSE
        /\ worker' = "start" /\ phase' = "ready"
    BY <1>2 DEF Construct
  <2>3. QED
    BY <1>2, <2>1, <2>2
       DEF IInv, ControlType, JoinedFirst, HasDevice, Ended
<1>3. QED
  BY <1>1, <1>2

(* The scheduler's calls leave the device and the thread alone.            *)
LEMMA SchedulerIInv ==
  ASSUME IInv, Start \/ (\E n \in Int : Work(n)) \/ Consume
  PROVE  IInv'
<1>1. /\ UNCHANGED <<fd, exit, owner, worker>>
      /\ phase' \in {"running", "working"}
  BY DEF Start, Work, Consume
<1>2. QED
  BY <1>1 DEF IInv, ControlType, JoinedFirst, HasDevice, Ended

(* stop and the destructor: a descriptor is closed only behind a join.     *)
LEMMA EndIInv ==
  ASSUME IInv, Stop \/ Destroy
  PROVE  IInv'
<1> USE DEF IInv, ControlType, JoinedFirst, HasDevice, Ended
<1>1. CASE AskToExit("running", "stop join") \/ AskToExit("ready", "destroy join")
  BY <1>1 DEF AskToExit
<1>2. CASE Join("stop join", "stop close") \/ Join("destroy join", "destroy close")
  BY <1>2 DEF Join
<1>3. CASE Close("stop close", "ready") \/ Close("destroy close", "none")
  <2>1. Ended /\ UNCHANGED <<fd, exit, worker>> /\ phase' \in {"ready", "none"}
    BY <1>3 DEF Close
  <2>2. owner' \in [Descriptors -> {"nobody", "sink", "other"}]
    BY <1>3 DEF Close
  <2>3. QED
    BY <2>1, <2>2
<1>4. QED
  BY <1>1, <1>2, <1>3 DEF Stop, Destroy

(* The worker thread: only the exit flag keeps it from its loop.           *)
LEMMA WorkerIInv ==
  ASSUME IInv, Worker
  PROVE  IInv'
<1> USE DEF IInv, ControlType, JoinedFirst, HasDevice, Ended
<1>1. UNCHANGED <<fd, exit, owner, phase>>
  BY DEF Worker, WorkerStart, WorkerRead, WorkerWrite, WorkerWriteFails,
         WorkerCheck
<1>2. CASE WorkerStart
  BY <1>1, <1>2 DEF WorkerStart
<1>3. CASE WorkerRead
  BY <1>1, <1>3 DEF WorkerRead
<1>4. CASE WorkerWrite
  BY <1>1, <1>4 DEF WorkerWrite
<1>5. CASE WorkerWriteFails
  BY <1>1, <1>5 DEF WorkerWriteFails
<1>6. CASE WorkerCheck
  BY <1>1, <1>6 DEF WorkerCheck
<1>7. QED
  BY <1>2, <1>3, <1>4, <1>5, <1>6 DEF Worker

(* Another part of the program gets only a descriptor nobody has.          *)
LEMMA OtherOpenIInv ==
  ASSUME IInv, NEW d \in Descriptors, OtherOpen(d)
  PROVE  IInv'
BY DEF OtherOpen, IInv, ControlType, JoinedFirst, HasDevice, Ended

(* Every step keeps the invariant.                                         *)
LEMMA NextIInv == IInv /\ [Next]_vars => IInv'
<1> SUFFICES ASSUME IInv, [Next]_vars PROVE IInv'
  OBVIOUS
<1>1. CASE \E d \in Descriptors \cup {NoFd} : Construct(d)
  BY <1>1, ConstructIInv
<1>2. CASE Start \/ Consume
  BY <1>2, SchedulerIInv
<1>3. CASE \E k \in 1 .. MaxItems : Work(k * OutputMultiple)
  <2>1. PICK k \in 1 .. MaxItems : Work(k * OutputMultiple)
    BY <1>3
  <2>2. k * OutputMultiple \in Int
    BY SinkAssumption
  <2>3. QED
    BY <2>1, <2>2, SchedulerIInv
<1>4. CASE Stop \/ Destroy
  BY <1>4, EndIInv
<1>5. CASE Worker
  BY <1>5, WorkerIInv
<1>6. CASE \E d \in Descriptors : OtherOpen(d)
  BY <1>6, OtherOpenIInv
<1>7. CASE Finished \/ UNCHANGED vars
  BY <1>7 DEF Finished, vars, IInv, ControlType, JoinedFirst, HasDevice, Ended
<1>8. QED
  BY <1>1, <1>2, <1>3, <1>4, <1>5, <1>6, <1>7 DEF Next

(* The invariant holds in every state.                                     *)
THEOREM Invariance == Spec => []IInv
BY InitIInv, NextIInv, PTL DEF Spec

(* For every instance, the worker thread writes to the descriptor its      *)
(* block opened, never to one closed under it.                             *)
THEOREM OwnDevice == Spec => []WritesOwnDevice
<1>1. IInv => WritesOwnDevice
  BY DEF IInv, HasDevice, WritesOwnDevice, Ended
<1>2. QED
  BY <1>1, Invariance, PTL

(* For every instance, the thread has ended when its block is destroyed.   *)
THEOREM EndsFirst == Spec => []ThreadEndsFirst
<1>1. IInv => ThreadEndsFirst
  BY DEF IInv, JoinedFirst, ThreadEndsFirst
<1>2. QED
  BY <1>1, Invariance, PTL

-----------------------------------------------------------------------------
(* The stream.                                                             *)

\* The i-th byte of the input: of which sample it is, and which of its four.
ByteAt(i) == <<(i - 1) \div 4 + 1, (i - 1) % 4>>

\* s is the bytes of the input after the first b.
Run(s, b) ==
  /\ s \in Seq(Int \X Int)
  /\ \A i \in 1 .. Len(s) : s[i] = ByteAt(b + i)

\* w is the samples after the first b.
From(w, b) ==
  /\ w \in Seq(Int)
  /\ \A i \in 1 .. Len(w) : w[i] = b + i

FlowType ==
  /\ q \in Seq(Int) /\ cap \in Nat /\ Len(q) <= cap
  /\ consumed \in Int
  /\ DOMAIN ret = {"scheduler", "worker"}
  /\ ret["scheduler"].count \in Int
  /\ worker = "write" =>
       /\ ret["worker"].data \in Seq(Int)
       /\ ret["worker"].count = Len(ret["worker"].data)
       /\ Len(ret["worker"].data) \in 1 .. BlockItems

\* What the device took, what the worker holds and what is in the FIFO buffer
\* follow one another, up to the last sample accepted.
Flow ==
  fd # NoFd =>
    /\ Run(dev, 0)
    /\ From(q, Accepted - Len(q))
    /\ worker = "write" => From(Taken, (Accepted - Len(q)) - Len(Taken))
    /\ worker # "failed" => Len(dev) = 4 * ((Accepted - Len(q)) - Len(Taken))
    /\ worker = "failed" =>
         (Accepted - Len(q)) - Len(dev) \div 4 \in 1 .. BlockItems

SInv == FlowType /\ Flow

(* Two runs that begin alike and are equally long are the same.            *)
LEMMA RunEqual ==
  ASSUME NEW b, NEW s, Run(s, b), NEW t, Run(t, b), Len(s) = Len(t)
  PROVE  s = t
  BY SeqEqual DEF Run

(* The bytes that follow a run of the input continue it.                   *)
LEMMA RunConcat ==
  ASSUME NEW b \in Int, NEW s, Run(s, b), NEW t, Run(t, b + Len(s))
  PROVE  Run(s \o t, b) /\ Len(s \o t) = Len(s) + Len(t)
<1>1. /\ s \in Seq(Int \X Int) /\ t \in Seq(Int \X Int)
      /\ \A i \in 1 .. Len(s) : s[i] = ByteAt(b + i)
      /\ \A i \in 1 .. Len(t) : t[i] = ByteAt((b + Len(s)) + i)
  BY DEF Run
<1>2. Len(s) \in Nat /\ Len(t) \in Nat
  BY <1>1
<1>3. /\ s \o t \in Seq(Int \X Int) /\ Len(s \o t) = Len(s) + Len(t)
      /\ \A i \in 1 .. Len(s) + Len(t) :
           (s \o t)[i] = IF i <= Len(s) THEN s[i] ELSE t[i - Len(s)]
  BY <1>1, ConcatProperties
<1>4. ASSUME NEW i \in 1 .. Len(s) + Len(t) PROVE (s \o t)[i] = ByteAt(b + i)
  <2>1. CASE i <= Len(s)
    <3>1. i \in 1 .. Len(s)
      BY <1>2, <2>1
    <3> QED
      BY <1>1, <1>3, <2>1, <3>1
  <2>2. CASE ~ i <= Len(s)
    <3>1. i - Len(s) \in 1 .. Len(t) /\ (b + Len(s)) + (i - Len(s)) = b + i
      BY <1>2, <2>2
    <3> QED
      BY <1>1, <1>3, <2>2, <3>1
  <2> QED
    BY <2>1, <2>2
<1> QED
  BY <1>3, <1>4 DEF Run

(* The first bytes of a run are one.                                       *)
LEMMA RunPrefix ==
  ASSUME NEW b \in Int, NEW s, Run(s, b), NEW k \in Nat, k <= Len(s)
  PROVE  Run(SubSeq(s, 1, k), b) /\ Len(SubSeq(s, 1, k)) = k
<1>1. /\ s \in Seq(Int \X Int) /\ \A i \in 1 .. Len(s) : s[i] = ByteAt(b + i)
  BY DEF Run
<1>2. Len(s) \in Nat /\ \A i \in 1 .. k : i \in 1 .. Len(s) /\ s[i] \in Int \X Int
  BY <1>1
<1>3. /\ SubSeq(s, 1, k) \in Seq(Int \X Int) /\ Len(SubSeq(s, 1, k)) = k
      /\ \A i \in 1 .. k : SubSeq(s, 1, k)[i] = s[i]
  BY <1>2
<1> QED
  BY <1>1, <1>2, <1>3 DEF Run

(* So are samples in a row.                                                *)
LEMMA FromEqual ==
  ASSUME NEW b, NEW s, From(s, b), NEW t, From(t, b), Len(s) = Len(t)
  PROVE  s = t
  BY SeqEqual DEF From

(* The state machine makes of samples in a row bytes in a row.             *)
LEMMA BytesRun ==
  ASSUME NEW b \in Int, NEW w, From(w, b)
  PROVE  Run(Bytes(w), 4 * b) /\ Len(Bytes(w)) = 4 * Len(w)
<1>1. w \in Seq(Int) /\ Len(w) \in Nat /\ \A i \in 1 .. Len(w) : w[i] = b + i
  BY DEF From
<1> DEFINE n == 4 * Len(w)
<1>2. n \in Nat
  BY <1>1
<1>3. ASSUME NEW i \in 1 .. n
      PROVE  /\ <<w[(i - 1) \div 4 + 1], (i - 1) % 4>> = ByteAt((4 * b) + i)
             /\ ByteAt((4 * b) + i) \in Int \X Int
  <2>1. (i - 1) \div 4 + 1 \in 1 .. Len(w)
    BY <1>1
  <2>2. w[(i - 1) \div 4 + 1] = b + ((i - 1) \div 4 + 1)
    BY <1>1, <2>1
  <2>3. /\ (((4 * b) + i) - 1) \div 4 + 1 = b + ((i - 1) \div 4 + 1)
        /\ (((4 * b) + i) - 1) % 4 = (i - 1) % 4
        /\ (i - 1) % 4 \in Int /\ (i - 1) \div 4 \in Int
    BY <1>1
  <2> QED
    BY <2>2, <2>3 DEF ByteAt
<1>4. Bytes(w) = [i \in 1 .. n |-> <<w[(i - 1) \div 4 + 1], (i - 1) % 4>>]
  BY DEF Bytes
<1> HIDE DEF n
<1>5. /\ Bytes(w) \in [1 .. n -> Int \X Int]
      /\ \A i \in 1 .. n : Bytes(w)[i] = ByteAt((4 * b) + i)
  BY <1>3, <1>4
<1>6. Bytes(w) \in Seq(Int \X Int) /\ Len(Bytes(w)) = n
  BY <1>2, <1>5
<1>7. Run(Bytes(w), 4 * b)
  BY <1>5, <1>6 DEF Run
<1> QED
  BY <1>6, <1>7 DEF n

(* A part of samples in a row.                                             *)
LEMMA FromPrefix ==
  ASSUME NEW b \in Int, NEW w, From(w, b), NEW k \in Nat, k <= Len(w)
  PROVE  From(SubSeq(w, 1, k), b) /\ Len(SubSeq(w, 1, k)) = k
<1>1. w \in Seq(Int) /\ \A i \in 1 .. Len(w) : w[i] = b + i
  BY DEF From
<1>2. Len(w) \in Nat /\ \A i \in 1 .. k : i \in 1 .. Len(w) /\ w[i] \in Int
  BY <1>1
<1>3. /\ SubSeq(w, 1, k) \in Seq(Int) /\ Len(SubSeq(w, 1, k)) = k
      /\ \A i \in 1 .. k : SubSeq(w, 1, k)[i] = w[i]
  BY <1>2
<1> QED
  BY <1>1, <1>2, <1>3 DEF From

(* The rest of samples in a row.                                           *)
LEMMA FromRest ==
  ASSUME NEW b \in Int, NEW w, From(w, b), NEW k \in Nat, k <= Len(w)
  PROVE  /\ From(SubSeq(w, k + 1, Len(w)), b + k)
         /\ Len(SubSeq(w, k + 1, Len(w))) = Len(w) - k
<1> DEFINE v == SubSeq(w, k + 1, Len(w))
<1>1. w \in Seq(Int) /\ \A i \in 1 .. Len(w) : w[i] = b + i
  BY DEF From
<1>2. Len(w) \in Nat /\ \A i \in k + 1 .. Len(w) : w[i] \in Int
  BY <1>1
<1>3. /\ v \in Seq(Int)
      /\ Len(v) = IF k + 1 <= Len(w) THEN Len(w) - (k + 1) + 1 ELSE 0
      /\ \A i \in 1 .. Len(w) - (k + 1) + 1 : v[i] = w[(k + 1) + i - 1]
  BY <1>2, SubSeqProperties
<1> HIDE DEF v
<1>4. Len(v) = Len(w) - k
  BY <1>2, <1>3
<1>5. ASSUME NEW i \in 1 .. Len(v) PROVE v[i] = (b + k) + i
  <2>1. /\ i \in 1 .. Len(w) - (k + 1) + 1
        /\ (k + 1) + i - 1 = k + i /\ k + i \in 1 .. Len(w)
        /\ b + (k + i) = (b + k) + i
    BY <1>2, <1>4
  <2> QED
    BY <1>1, <1>3, <2>1
<1>6. From(v, b + k)
  BY <1>3, <1>5 DEF From
<1> QED
  BY <1>4, <1>6 DEF v

(* Samples that follow on samples in a row.                                *)
LEMMA FromConcat ==
  ASSUME NEW b \in Int, NEW w, From(w, b), NEW v, From(v, b + Len(w))
  PROVE  From(w \o v, b) /\ Len(w \o v) = Len(w) + Len(v)
<1>1. /\ w \in Seq(Int) /\ v \in Seq(Int)
      /\ \A i \in 1 .. Len(w) : w[i] = b + i
      /\ \A i \in 1 .. Len(v) : v[i] = (b + Len(w)) + i
  BY DEF From
<1>2. Len(w) \in Nat /\ Len(v) \in Nat
  BY <1>1
<1>3. /\ w \o v \in Seq(Int) /\ Len(w \o v) = Len(w) + Len(v)
      /\ \A i \in 1 .. Len(w) + Len(v) :
           (w \o v)[i] = IF i <= Len(w) THEN w[i] ELSE v[i - Len(w)]
  BY <1>1, ConcatProperties
<1>4. ASSUME NEW i \in 1 .. Len(w) + Len(v) PROVE (w \o v)[i] = b + i
  <2>1. CASE i <= Len(w)
    <3>1. i \in 1 .. Len(w)
      BY <1>2, <2>1
    <3> QED
      BY <1>1, <1>3, <2>1, <3>1
  <2>2. CASE ~ i <= Len(w)
    <3>1. i - Len(w) \in 1 .. Len(v) /\ (b + Len(w)) + (i - Len(w)) = b + i
      BY <1>2, <2>2
    <3> QED
      BY <1>1, <1>3, <2>2, <3>1
  <2> QED
    BY <2>1, <2>2
<1> QED
  BY <1>3, <1>4 DEF From

(* The samples work is given.                                              *)
LEMMA SamplesFrom ==
  ASSUME NEW b \in Int, NEW n \in Nat
  PROVE  From(Samples(b + 1, b + n), b) /\ Len(Samples(b + 1, b + n)) = n
<1>1. (b + n) - (b + 1) + 1 = n
  OBVIOUS
<1>2. Samples(b + 1, b + n) = [i \in 1 .. n |-> (b + 1) + i - 1]
  BY <1>1 DEF Samples
<1>3. Samples(b + 1, b + n) \in [1 .. n -> Int]
  BY <1>2
<1>4. Samples(b + 1, b + n) \in Seq(Int) /\ Len(Samples(b + 1, b + n)) = n
  BY <1>3
<1>5. \A i \in 1 .. n : Samples(b + 1, b + n)[i] = b + i
  BY <1>2
<1> QED
  BY <1>4, <1>5 DEF From

(* The input from its beginning.                                           *)
LEMMA SamplesFirst ==
  ASSUME NEW n \in Nat
  PROVE  From(Samples(1, n), 0) /\ Len(Samples(1, n)) = n
<1>1. Samples(1, n) = [i \in 1 .. n |-> i]
  BY DEF Samples
<1>2. Samples(1, n) \in Seq(Int) /\ Len(Samples(1, n)) = n
  BY <1>1
<1>3. \A i \in 1 .. n : Samples(1, n)[i] = 0 + i
  BY <1>1
<1> QED
  BY <1>2, <1>3 DEF From

-----------------------------------------------------------------------------
(* The steps.                                                              *)

(* A step that leaves the data alone keeps the stream, if the worker       *)
(* neither takes up nor gives up a block by it.                            *)
LEMMA SameFlow ==
  ASSUME SInv, UNCHANGED <<fifo, fd, dev>>, Accepted' = Accepted, consumed' \in Int,
         \/ worker' = worker
         \/ /\ worker \notin {"write", "failed"} /\ worker' \notin {"write", "failed"}
  PROVE  SInv'
<1>1. q' = q /\ cap' = cap /\ ret' = ret /\ fd' = fd /\ dev' = dev
  BY DEF fifo
<1>2. FlowType'
  BY <1>1 DEF SInv, FlowType
<1>3. Taken' = Taken
  BY <1>1 DEF Taken
<1>4. Flow'
  BY <1>1, <1>3 DEF SInv, Flow
<1> QED
  BY <1>2, <1>4 DEF SInv

(* A block that opens its device starts with an empty stream.              *)
LEMMA ConstructFlow ==
  ASSUME SInv, NEW d \in Descriptors \cup {NoFd}, Construct(d)
  PROVE  SInv'
<1>1. /\ consumed' = 0 /\ phase' = "ready" /\ worker' = "start" /\ fd' = d
      /\ ret' = ret
      /\ d = NoFd => UNCHANGED <<fifo, dev>>
      /\ d # NoFd => q' = << >> /\ cap' = Capacity /\ dev' = << >>
  BY DEF Construct, Fifo!ChangeSize, fifo
<1>2. << >> \in Seq(Int) /\ Len(<< >>) = 0 /\ Capacity \in Nat /\ 0 <= Capacity
  BY SinkAssumption
<1>3. FlowType'
  <2>1. q' \in Seq(Int) /\ cap' \in Nat /\ Len(q') <= cap'
    <3>1. CASE d = NoFd
      BY <1>1, <3>1 DEF SInv, FlowType, fifo
    <3>2. CASE d # NoFd
      BY <1>1, <1>2, <3>2
    <3> QED
      BY <3>1, <3>2
  <2> QED
    BY <1>1, <2>1 DEF SInv, FlowType
<1>4. Flow'
  <2> SUFFICES ASSUME d # NoFd PROVE Flow'
    BY <1>1 DEF Flow
  <2>1. /\ q' = << >> /\ dev' = << >> /\ worker' = "start"
        /\ Accepted' = 0 /\ Taken' = << >>
    BY <1>1 DEF Accepted, Taken
  <2>2. /\ << >> \in Seq(Int) /\ << >> \in Seq(Int \X Int) /\ Len(<< >>) = 0
    OBVIOUS
  <2>3. Run(<< >>, 0) /\ From(<< >>, 0)
    BY <2>2 DEF Run, From
  <2>4. 0 - 0 = 0 /\ 4 * ((0 - 0) - 0) = 0
    OBVIOUS
  <2>5. /\ Run(dev', 0) /\ From(q', Accepted' - Len(q'))
        /\ Len(dev') = 4 * ((Accepted' - Len(q')) - Len(Taken'))
    BY <2>1, <2>2, <2>3, <2>4
  <2> QED
    BY <2>1, <2>5 DEF Flow, Run, From
<1> QED
  BY <1>3, <1>4 DEF SInv

(* What work puts into the FIFO buffer is counted as accepted.             *)
LEMMA WorkFlow ==
  ASSUME SInv, NEW n \in Nat, Work(n)
  PROVE  SInv'
<1> DEFINE w == Samples(consumed + 1, consumed + n)
           k == Fifo!Stored(w)
           x == SubSeq(w, 1, k)
<1>1. /\ phase = "running" /\ phase' = "working"
      /\ q' = q \o x /\ cap' = cap
      /\ ret' = [ret EXCEPT !["scheduler"] = Fifo!WroteResult(k)]
      /\ UNCHANGED <<fd, dev, worker, consumed>>
  BY DEF Work, Fifo!Write
<1>2. /\ q \in Seq(Int) /\ cap \in Nat /\ Len(q) <= cap /\ consumed \in Int
      /\ DOMAIN ret = {"scheduler", "worker"}
  BY DEF SInv, FlowType
<1>3. From(w, consumed) /\ Len(w) = n
  <2>1. consumed \in Int /\ n \in Nat
    BY <1>2
  <2> QED
    BY <2>1, SamplesFrom
<1> HIDE DEF w
<1>4. k \in Nat /\ k <= Len(w) /\ Len(q) + k <= cap
  BY <1>2, <1>3 DEF Fifo!Stored, Fifo!Smaller
<1>5. /\ ret'["scheduler"].count = k /\ ret'["worker"] = ret["worker"]
      /\ DOMAIN ret' = {"scheduler", "worker"}
  BY <1>1, <1>2 DEF Fifo!WroteResult
<1> HIDE DEF k
<1>6. From(x, consumed) /\ Len(x) = k /\ x \in Seq(Int)
  BY <1>2, <1>3, <1>4, FromPrefix DEF From
<1> HIDE DEF x
<1>7. Len(q') = Len(q) + k /\ q' \in Seq(Int)
  BY <1>1, <1>2, <1>6, ConcatProperties
<1>8. FlowType'
  BY <1>1, <1>2, <1>4, <1>5, <1>7 DEF SInv, FlowType
<1>9. Taken' = Taken /\ Accepted = consumed /\ Accepted' = consumed + k
  <2>1. Taken' = Taken
    BY <1>1, <1>5 DEF Taken
  <2>2. Accepted = consumed
    BY <1>1, <1>2 DEF Accepted
  <2>3. Accepted' = consumed + k
    BY <1>1, <1>5 DEF Accepted
  <2> QED
    BY <2>1, <2>2, <2>3
<1>10. ASSUME fd # NoFd PROVE From(q', consumed - Len(q))
  <2>1. From(q, consumed - Len(q)) /\ consumed - Len(q) \in Int
        /\ (consumed - Len(q)) + Len(q) = consumed
    BY <1>2, <1>9, <1>10 DEF SInv, Flow
  <2> QED
    BY <1>1, <1>6, <2>1, FromConcat
<1>11. Accepted' - Len(q') = Accepted - Len(q)
  BY <1>2, <1>4, <1>7, <1>9
<1>12. Flow'
  BY <1>1, <1>9, <1>10, <1>11 DEF SInv, Flow
<1> QED
  BY <1>8, <1>12 DEF SInv

(* What the worker takes out of the FIFO buffer it holds.                  *)
LEMMA ReadFlow ==
  ASSUME SInv, WorkerRead
  PROVE  SInv'
<1> DEFINE k == Fifo!Found(BlockItems)
           x == SubSeq(q, 1, k)
           y == SubSeq(q, k + 1, Len(q))
<1>1. /\ worker = "read"
      /\ worker' = IF ret'["worker"].count > 0 THEN "write" ELSE "check"
      /\ ret' = [ret EXCEPT !["worker"] = Fifo!ReadResult(x)]
      /\ q' = y /\ cap' = cap
      /\ UNCHANGED <<fd, dev, phase, consumed>>
  BY DEF WorkerRead, Fifo!Read
<1>2. /\ q \in Seq(Int) /\ cap \in Nat /\ Len(q) <= cap /\ consumed \in Int
      /\ DOMAIN ret = {"scheduler", "worker"} /\ ret["scheduler"].count \in Int
      /\ Len(q) \in Nat
  BY DEF SInv, FlowType
<1>3. k \in Nat /\ k <= Len(q) /\ k <= BlockItems
  BY <1>2, SinkAssumption DEF Fifo!Found, Fifo!Smaller
<1> HIDE DEF k
<1>4. /\ x \in Seq(Int) /\ Len(x) = k /\ y \in Seq(Int) /\ Len(y) = Len(q) - k
  <2>1. (\A i \in 1 .. k : q[i] \in Int) /\ (\A i \in k + 1 .. Len(q) : q[i] \in Int)
    BY <1>2, <1>3
  <2>2. x \in Seq(Int) /\ Len(x) = k
    BY <1>2, <1>3, <2>1
  <2>3. /\ y \in Seq(Int)
        /\ Len(y) = IF k + 1 <= Len(q) THEN Len(q) - (k + 1) + 1 ELSE 0
    BY <1>2, <1>3, <2>1, SubSeqProperties
  <2>4. Len(y) = Len(q) - k
    BY <1>2, <1>3, <2>3
  <2> QED
    BY <2>2, <2>3, <2>4
<1>5. /\ ret'["worker"].count = k /\ ret'["worker"].data = x
      /\ ret'["scheduler"] = ret["scheduler"]
      /\ DOMAIN ret' = {"scheduler", "worker"}
  BY <1>1, <1>2, <1>4 DEF Fifo!ReadResult
<1>6. worker' = (IF k > 0 THEN "write" ELSE "check") /\ Accepted' = Accepted
  BY <1>1, <1>5 DEF Accepted
<1>7. Taken = << >> /\ Taken' = (IF k > 0 THEN x ELSE << >>)
  BY <1>1, <1>5, <1>6 DEF Taken
<1>8. FlowType'
  <2>1. Len(y) <= cap
    BY <1>2, <1>3, <1>4
  <2>2. k > 0 => Len(x) \in 1 .. BlockItems
    BY <1>3, <1>4, SinkAssumption
  <2> HIDE DEF x, y
  <2> QED
    BY <1>1, <1>2, <1>4, <1>5, <1>6, <2>1, <2>2 DEF FlowType
<1>9. Accepted \in Int
  BY <1>2 DEF Accepted
<1>10. ASSUME fd # NoFd
       PROVE  /\ Run(dev, 0)
              /\ From(y, Accepted - Len(y))
              /\ From(x, (Accepted - Len(y)) - k)
              /\ Len(dev) = 4 * ((Accepted - Len(y)) - k)
  <2>1. /\ Run(dev, 0) /\ From(q, Accepted - Len(q))
        /\ Len(dev) = 4 * ((Accepted - Len(q)) - Len(Taken))
    BY <1>1, <1>10 DEF SInv, Flow
  <2>2. /\ Accepted - Len(q) \in Int
        /\ (Accepted - Len(y)) - k = Accepted - Len(q)
        /\ (Accepted - Len(q)) + k = Accepted - Len(y)
    <3> DEFINE a == Accepted
               l == Len(q)
               m == Len(y)
    <3>1. a \in Int /\ l \in Int /\ k \in Int /\ m = l - k
      BY <1>2, <1>3, <1>4, <1>9
    <3> HIDE DEF a, l, m
    <3>2. a - l \in Int /\ (a - m) - k = a - l /\ (a - l) + k = a - m
      BY <3>1
    <3> QED
      BY <3>2 DEF a, l, m
  <2>3. Len(Taken) = 0 /\ (Accepted - Len(q)) - 0 = Accepted - Len(q)
    BY <1>7, <2>2
  <2>4. From(y, (Accepted - Len(q)) + k)
    BY <1>3, <2>1, <2>2, FromRest
  <2>5. From(x, Accepted - Len(q))
    BY <1>3, <2>1, <2>2, FromPrefix
  <2> HIDE DEF x, y
  <2> QED
    BY <2>1, <2>2, <2>3, <2>4, <2>5
<1>11. Flow'
  <2> HIDE DEF x, y
  <2>1. CASE k > 0
    <3>1. Taken' = x /\ Len(Taken') = k /\ worker' = "write"
      BY <1>4, <1>6, <1>7, <2>1
    <3> QED
      BY <1>1, <1>6, <1>10, <3>1 DEF Flow
  <2>2. CASE ~ k > 0
    <3>1. Taken' = << >> /\ Len(Taken') = 0 /\ worker' = "check" /\ k = 0
      BY <1>3, <1>6, <1>7, <2>2
    <3> QED
      BY <1>1, <1>6, <1>10, <3>1 DEF Flow
  <2> QED
    BY <2>1, <2>2
<1> QED
  BY <1>8, <1>11 DEF SInv

(* What a worker whose write succeeds gives the device is what follows.    *)
LEMMA WriteFlow ==
  ASSUME SInv, WorkerWrite
  PROVE  SInv'
<1> DEFINE t == ret["worker"].data
           b == (Accepted - Len(q)) - Len(Taken)
<1>1. /\ worker = "write" /\ worker' = "check" /\ dev' = dev \o Bytes(t)
      /\ q' = q /\ cap' = cap /\ ret' = ret
      /\ UNCHANGED <<fd, phase, consumed>>
  BY DEF WorkerWrite, fifo
<1>2. FlowType'
  BY <1>1 DEF SInv, FlowType
<1>3. Taken = t /\ Taken' = << >> /\ Accepted' = Accepted /\ Len(Taken') = 0
  BY <1>1 DEF Taken, Accepted
<1>4. Accepted \in Int /\ Len(q) \in Int /\ Len(t) \in Int
  BY <1>1 DEF SInv, FlowType, Accepted
<1>5. ASSUME fd # NoFd
      PROVE  /\ Run(dev', 0) /\ From(q', Accepted' - Len(q'))
             /\ Len(dev') = 4 * ((Accepted' - Len(q')) - Len(Taken'))
  <2>1. /\ Run(dev, 0) /\ From(q, Accepted - Len(q)) /\ From(t, b)
        /\ Len(dev) = 4 * b
    BY <1>1, <1>3, <1>5 DEF SInv, Flow
  <2>2. b \in Int
    BY <1>3, <1>4
  <2>3. b + Len(t) = Accepted - Len(q)
    BY <1>3, <1>4
  <2> HIDE DEF t, b
  <2>4. Run(Bytes(t), 4 * b) /\ Len(Bytes(t)) = 4 * Len(t)
    BY <2>1, <2>2, BytesRun
  <2>5. Run(Bytes(t), 0 + Len(dev))
    BY <2>1, <2>2, <2>4
  <2>6. Run(dev', 0) /\ Len(dev') = Len(dev) + Len(Bytes(t))
    BY <1>1, <2>1, <2>5, RunConcat
  <2>7. 4 * b + 4 * Len(t) = 4 * ((Accepted - Len(q)) - 0)
    BY <1>4, <2>2, <2>3
  <2> QED
    BY <1>1, <1>3, <2>1, <2>4, <2>6, <2>7
<1>6. Flow'
  BY <1>1, <1>5 DEF Flow
<1> QED
  BY <1>2, <1>6 DEF SInv

(* A write that fails or is short leaves off in the block it was given.    *)
LEMMA WriteFailsFlow ==
  ASSUME SInv, WorkerWriteFails
  PROVE  SInv'
<1> DEFINE t == ret["worker"].data
           b == (Accepted - Len(q)) - Len(Taken)
<1>1. /\ worker = "write" /\ worker' = "failed"
      /\ q' = q /\ cap' = cap /\ ret' = ret
      /\ UNCHANGED <<fd, phase, consumed>>
  BY DEF WorkerWriteFails, fifo
<1>2. PICK k \in 0 .. 4 * Len(t) - 1 : dev' = dev \o SubSeq(Bytes(t), 1, k)
  BY <1>1 DEF WorkerWriteFails, SInv, FlowType
<1>3. FlowType'
  BY <1>1 DEF SInv, FlowType
<1>4. Taken = t /\ Accepted' = Accepted
  BY <1>1 DEF Taken, Accepted
<1>5. /\ Accepted \in Int /\ Len(q) \in Int /\ Len(t) \in 1 .. BlockItems
  BY <1>1 DEF SInv, FlowType, Accepted
<1>6. k \in Nat /\ k <= 4 * Len(t) - 1 /\ Len(t) \in Nat /\ k <= 4 * Len(t)
  BY <1>2, <1>5, SinkAssumption
<1>7. ASSUME fd # NoFd
      PROVE  /\ Run(dev', 0) /\ From(q', Accepted' - Len(q'))
             /\ (Accepted' - Len(q')) - Len(dev') \div 4 \in 1 .. BlockItems
  <2>1. /\ Run(dev, 0) /\ From(q, Accepted - Len(q)) /\ From(t, b)
        /\ Len(dev) = 4 * b
    BY <1>1, <1>4, <1>7 DEF SInv, Flow
  <2>2. b \in Int
    BY <1>4, <1>5, <1>6
  <2>3. b + Len(t) = Accepted - Len(q)
    BY <1>4, <1>5, <1>6
  <2> HIDE DEF t, b
  <2>4. Run(Bytes(t), 4 * b) /\ Len(Bytes(t)) = 4 * Len(t) /\ 4 * b \in Int
    BY <2>1, <2>2, BytesRun
  <2>5. Run(SubSeq(Bytes(t), 1, k), 4 * b) /\ Len(SubSeq(Bytes(t), 1, k)) = k
    BY <1>6, <2>4, RunPrefix
  <2>6. Run(SubSeq(Bytes(t), 1, k), 0 + Len(dev))
    BY <2>1, <2>2, <2>5
  <2>7. Run(dev', 0) /\ Len(dev') = Len(dev) + k
    <3> DEFINE u == SubSeq(Bytes(t), 1, k)
    <3>1. Run(u, 0 + Len(dev)) /\ Len(u) = k /\ dev' = dev \o u
      BY <1>2, <2>5, <2>6 DEF t
    <3> HIDE DEF u
    <3>2. Run(dev \o u, 0) /\ Len(dev \o u) = Len(dev) + Len(u)
      BY <2>1, <3>1, RunConcat
    <3> QED
      BY <3>1, <3>2
  <2>8. (4 * b + k) \div 4 = b + k \div 4
    BY <1>6, <2>2
  <2>9. k \div 4 \in 0 .. Len(t) - 1
    BY <1>6
  <2>10. (b + Len(t)) - (b + k \div 4) \in 1 .. BlockItems
    <3> DEFINE d == k \div 4
    <3> HIDE DEF d
    <3>1. d \in 0 .. Len(t) - 1
      BY <2>9 DEF d
    <3>2. (b + Len(t)) - (b + d) \in 1 .. BlockItems
      BY <1>5, <2>2, <3>1, SinkAssumption
    <3> QED
      BY <3>2 DEF d
  <2> QED
    BY <1>1, <1>4, <2>1, <2>3, <2>7, <2>8, <2>10
<1>8. Flow'
  BY <1>1, <1>7 DEF Flow
<1> QED
  BY <1>3, <1>8 DEF SInv

(* Before the first block there is no device.                              *)
LEMMA InitSInv == Init => SInv
<1> SUFFICES ASSUME Init PROVE SInv
  OBVIOUS
<1>1. /\ q = << >> /\ cap = Capacity /\ fd = NoFd /\ consumed = 0
      /\ worker = "done"
      /\ ret = [t \in {"scheduler", "worker"} |-> Fifo!NoResult]
  BY DEF Init
<1>2. << >> \in Seq(Int) /\ Len(<< >>) = 0 /\ Capacity \in Nat /\ 0 <= Capacity
  BY SinkAssumption
<1>3. DOMAIN ret = {"scheduler", "worker"} /\ ret["scheduler"].count = 0
  BY <1>1 DEF Fifo!NoResult
<1> QED
  BY <1>1, <1>2, <1>3 DEF SInv, FlowType, Flow

(* Every step keeps the stream.                                            *)
LEMMA NextSInv == SInv /\ [Next]_vars => SInv'
<1> SUFFICES ASSUME SInv, [Next]_vars PROVE SInv'
  OBVIOUS
<1>0. consumed \in Int /\ ret["scheduler"].count \in Int
  BY DEF SInv, FlowType
<1>1. CASE \E d \in Descriptors \cup {NoFd} : Construct(d)
  BY <1>1, ConstructFlow
<1>2. CASE \E k \in 1 .. MaxItems : Work(k * OutputMultiple)
  <2>1. PICK k \in 1 .. MaxItems : Work(k * OutputMultiple)
    BY <1>2
  <2>2. k * OutputMultiple \in Nat
    BY SinkAssumption
  <2> QED
    BY <2>1, <2>2, WorkFlow
<1>3. CASE Consume
  <2>1. /\ UNCHANGED <<fifo, fd, dev>> /\ worker' = worker
        /\ phase = "working" /\ phase' = "running"
        /\ consumed' = consumed + ret["scheduler"].count
    BY <1>3 DEF Consume
  <2>2. consumed' \in Int /\ consumed' + 0 = consumed'
    BY <1>0, <2>1
  <2>3. Accepted' = Accepted
    BY <2>1, <2>2 DEF Accepted
  <2> QED
    BY <2>1, <2>2, <2>3, SameFlow
<1>4. CASE Start \/ Stop \/ Destroy
  <2>1. /\ UNCHANGED <<fifo, fd, dev, worker, consumed>>
        /\ phase # "working" /\ phase' # "working"
    BY <1>4 DEF Start, Stop, Destroy, AskToExit, Join, Close
  <2>2. Accepted' = Accepted
    BY <2>1 DEF Accepted
  <2> QED
    BY <1>0, <2>1, <2>2, SameFlow
<1>5. CASE Worker
  <2>1. CASE WorkerStart \/ WorkerCheck
    <3>1. /\ UNCHANGED <<fifo, fd, dev, phase, consumed>>
          /\ worker \in {"start", "check"} /\ worker' \in {"done", "read"}
      BY <2>1 DEF WorkerStart, WorkerCheck
    <3>2. Accepted' = Accepted
      BY <3>1 DEF Accepted, fifo
    <3> QED
      BY <1>0, <3>1, <3>2, SameFlow
  <2> QED
    BY <1>5, <2>1, ReadFlow, WriteFlow, WriteFailsFlow DEF Worker
<1>6. CASE (\E d \in Descriptors : OtherOpen(d)) \/ Finished \/ UNCHANGED vars
  <2>1. UNCHANGED <<fifo, fd, dev, worker, consumed, phase>>
    BY <1>6 DEF OtherOpen, Finished, vars
  <2>2. Accepted' = Accepted
    BY <2>1 DEF Accepted, fifo
  <2> QED
    BY <1>0, <2>1, <2>2, SameFlow
<1> QED
  BY <1>1, <1>2, <1>3, <1>4, <1>5, <1>6 DEF Next

(* The stream is whole in every state.                                     *)
THEOREM StreamInvariance == Spec => []SInv
BY InitSInv, NextSInv, PTL DEF Spec

(* The stream, put together from its parts, is the input.                  *)
LEMMA StreamWhole ==
  ASSUME SInv, fd # NoFd
  PROVE  StreamConserved
<1>1. /\ Run(dev, 0) /\ From(q, Accepted - Len(q)) /\ consumed \in Int
      /\ ret["scheduler"].count \in Int /\ Len(q) \in Nat /\ q \in Seq(Int)
  BY DEF SInv, FlowType, Flow
<1>2. Accepted \in Int /\ Len(dev) \in Nat
  BY <1>1 DEF Accepted, Run
<1>3. CASE worker = "failed"
  <2>1. (Accepted - Len(q)) - Len(dev) \div 4 \in 1 .. BlockItems
    BY <1>3 DEF SInv, Flow
  <2>2. Len(dev) <= 4 * Accepted /\ Accepted \in Nat
    BY <1>1, <1>2, <2>1
  <2>3. From(Samples(1, Accepted), 0) /\ Len(Samples(1, Accepted)) = Accepted
    BY <2>2, SamplesFirst
  <2>4. /\ Run(Bytes(Samples(1, Accepted)), 0)
        /\ Len(Bytes(Samples(1, Accepted))) = 4 * Accepted
    BY <2>3, BytesRun
  <2>5. /\ Run(SubSeq(Bytes(Samples(1, Accepted)), 1, Len(dev)), 0)
        /\ Len(SubSeq(Bytes(Samples(1, Accepted)), 1, Len(dev))) = Len(dev)
    BY <1>2, <2>2, <2>4, RunPrefix
  <2>6. dev = SubSeq(Bytes(Samples(1, Accepted)), 1, Len(dev))
    BY <1>1, <2>5, RunEqual
  <2>7. q = Samples(Accepted - Len(q) + 1, Accepted)
    <3> DEFINE b == Accepted - Len(q)
    <3>1. b \in Int /\ b + Len(q) = Accepted
      BY <1>1, <1>2
    <3>2. From(q, b)
      BY <1>1
    <3> HIDE DEF b
    <3>3. /\ From(Samples(b + 1, b + Len(q)), b)
          /\ Len(Samples(b + 1, b + Len(q))) = Len(q)
      BY <1>1, <3>1, SamplesFrom
    <3>4. q = Samples(b + 1, b + Len(q))
      BY <3>2, <3>3, FromEqual
    <3> QED
      BY <3>1, <3>4 DEF b
  <2> QED
    BY <1>3, <2>1, <2>6, <2>7 DEF StreamConserved
<1>4. CASE worker # "failed"
  <2> DEFINE b == (Accepted - Len(q)) - Len(Taken)
  <2>1. Len(dev) = 4 * b
    BY <1>4 DEF SInv, Flow
  <2>2. Len(Taken) \in Nat /\ From(Taken, b) /\ b \in Int
    <3>1. CASE worker = "write"
      <4>1. From(Taken, b)
        BY <3>1 DEF SInv, Flow
      <4>2. Len(Taken) \in Nat
        BY <4>1 DEF From
      <4> QED
        BY <1>1, <1>2, <4>1, <4>2
    <3>2. CASE worker # "write"
      <4>1. Taken = << >> /\ Len(<< >>) = 0 /\ << >> \in Seq(Int)
        BY <3>2 DEF Taken
      <4> HIDE DEF b
      <4>2. From(Taken, b)
        BY <4>1 DEF From
      <4>3. b \in Int
        BY <1>1, <1>2, <4>1 DEF b
      <4> QED
        BY <4>1, <4>2, <4>3
    <3> QED
      BY <3>1, <3>2
  <2>3. b + Len(Taken) = Accepted - Len(q)
    BY <1>1, <1>2, <2>2
  <2>4. (b + Len(Taken)) + Len(q) = Accepted
    BY <1>1, <1>2, <2>3
  <2> HIDE DEF b
  <2>5. Run(Bytes(Taken), 4 * b) /\ Len(Bytes(Taken)) = 4 * Len(Taken)
    BY <2>2, BytesRun
  <2>6. /\ Run(dev \o Bytes(Taken), 0)
        /\ Len(dev \o Bytes(Taken)) = Len(dev) + Len(Bytes(Taken))
    <3>1. Run(Bytes(Taken), 0 + Len(dev))
      BY <2>1, <2>2, <2>5
    <3> QED
      BY <1>1, <3>1, RunConcat
  <2>7. /\ Run(Bytes(q), 4 * (Accepted - Len(q))) /\ Len(Bytes(q)) = 4 * Len(q)
    BY <1>1, <1>2, BytesRun
  <2>8. /\ Run((dev \o Bytes(Taken)) \o Bytes(q), 0)
        /\ Len((dev \o Bytes(Taken)) \o Bytes(q))
             = Len(dev \o Bytes(Taken)) + Len(Bytes(q))
    <3>1. 0 + Len(dev \o Bytes(Taken)) = 4 * (Accepted - Len(q))
      BY <2>1, <2>2, <2>3, <2>5, <2>6
    <3> DEFINE s == dev \o Bytes(Taken)
               t == Bytes(q)
    <3>2. Run(s, 0) /\ Run(t, 0 + Len(s))
      BY <2>6, <2>7, <3>1
    <3> HIDE DEF s, t
    <3>3. Run(s \o t, 0) /\ Len(s \o t) = Len(s) + Len(t)
      BY <3>2, RunConcat
    <3> QED
      BY <3>3 DEF s, t
  <2>9. Len((dev \o Bytes(Taken)) \o Bytes(q)) = 4 * Accepted
    <3>1. \A x, y, z, a \in Int :
            (x + y) + z = a => (4 * x + 4 * y) + 4 * z = 4 * a
      OBVIOUS
    <3>2. /\ b \in Int /\ Len(Taken) \in Int /\ Len(q) \in Int
          /\ Accepted \in Int
      BY <1>1, <1>2, <2>2
    <3>3. (4 * b + 4 * Len(Taken)) + 4 * Len(q) = 4 * Accepted
      BY <2>4, <3>1, <3>2
    <3> QED
      BY <2>1, <2>5, <2>6, <2>7, <2>8, <3>3
  <2>10. Accepted \in Nat
    <3>1. Len((dev \o Bytes(Taken)) \o Bytes(q)) \in Nat
      BY <2>8 DEF Run
    <3> QED
      BY <1>2, <2>9, <3>1
  <2>11. /\ From(Samples(1, Accepted), 0) /\ Len(Samples(1, Accepted)) = Accepted
    BY <2>10, SamplesFirst
  <2>12. /\ Run(Bytes(Samples(1, Accepted)), 0)
         /\ Len(Bytes(Samples(1, Accepted))) = 4 * Accepted
    BY <2>11, BytesRun
  <2>13. (dev \o Bytes(Taken)) \o Bytes(q) = Bytes(Samples(1, Accepted))
    BY <2>8, <2>9, <2>12, RunEqual
  <2> QED
    BY <1>4, <2>13 DEF StreamConserved
<1> QED
  BY <1>3, <1>4

(* For every capacity, block size and input: what the device took, what    *)
(* the worker thread holds and what the FIFO buffer stores are the input   *)
(* the runtime counts as consumed, each sample once and in order.          *)
THEOREM ConservesStream == Spec => []StreamConserved
<1>1. SInv => StreamConserved
  BY StreamWhole DEF StreamConserved
<1> QED
  BY <1>1, StreamInvariance, PTL

-----------------------------------------------------------------------------
(* Types.                                                                  *)

Item == 1 .. MaxItems
Place == Item \X (0 .. 3)

\* A call of work is not given more samples than there are, and what the
\* worker writes is what it read.
TInv ==
  /\ TypeOK
  /\ phase = "working" => consumed + ret["scheduler"].count <= MaxItems
  /\ worker = "write" => ret["worker"].count = Len(ret["worker"].data)

(* A sequence cut in two.                                                  *)
LEMMA Cut ==
  ASSUME NEW S, NEW s \in Seq(S), NEW k \in Nat, k <= Len(s)
  PROVE  /\ SubSeq(s, 1, k) \in Seq(S) /\ Len(SubSeq(s, 1, k)) = k
         /\ SubSeq(s, k + 1, Len(s)) \in Seq(S)
         /\ Len(SubSeq(s, k + 1, Len(s))) = Len(s) - k
<1>1. /\ Len(s) \in Nat /\ \A i \in 1 .. k : s[i] \in S
      /\ \A i \in k + 1 .. Len(s) : s[i] \in S
  BY LenProperties, ElementOfSeq
<1>2. SubSeq(s, 1, k) \in Seq(S) /\ Len(SubSeq(s, 1, k)) = k
  BY <1>1
<1>3. /\ SubSeq(s, k + 1, Len(s)) \in Seq(S)
      /\ Len(SubSeq(s, k + 1, Len(s))) =
           IF k + 1 <= Len(s) THEN Len(s) - (k + 1) + 1 ELSE 0
  BY <1>1, SubSeqProperties
<1>4. Len(SubSeq(s, k + 1, Len(s))) = Len(s) - k
  BY <1>1, <1>3
<1> QED
  BY <1>2, <1>3, <1>4

(* The bytes of samples.                                                   *)
LEMMA BytesType ==
  ASSUME NEW w \in Seq(Item)
  PROVE  Bytes(w) \in Seq(Place) /\ Len(Bytes(w)) = 4 * Len(w)
<1>1. Len(w) \in Nat /\ \A i \in 1 .. Len(w) : w[i] \in Item
  BY LenProperties, ElementOfSeq
<1> DEFINE m == 4 * Len(w)
<1>2. m \in Nat
  BY <1>1
<1>3. ASSUME NEW i \in 1 .. m PROVE <<w[(i - 1) \div 4 + 1], (i - 1) % 4>> \in Place
  <2>1. (i - 1) \div 4 + 1 \in 1 .. Len(w) /\ (i - 1) % 4 \in 0 .. 3
    BY <1>1
  <2> QED
    BY <1>1, <2>1 DEF Place
<1>4. Bytes(w) = [i \in 1 .. m |-> <<w[(i - 1) \div 4 + 1], (i - 1) % 4>>]
  BY DEF Bytes
<1> HIDE DEF m
<1>5. Bytes(w) \in [1 .. m -> Place]
  BY <1>3, <1>4
<1>6. Bytes(w) \in Seq(Place) /\ Len(Bytes(w)) = m
  BY <1>2, <1>5
<1> QED
  BY <1>6 DEF m

(* A result written by one thread leaves the other's.                      *)
LEMMA ResultType ==
  ASSUME TInv, NEW t \in {"scheduler", "worker"},
         NEW o \in {"none", "write", "read"}, NEW c \in Nat, NEW d \in Seq(Item),
         ret' = [ret EXCEPT ![t] = [op |-> o, count |-> c, data |-> d]]
  PROVE  /\ ret' \in [{"scheduler", "worker"} ->
                [op : {"none", "write", "read"}, count : Nat, data : Seq(Item)]]
         /\ ret'[t].count = c /\ ret'[t].data = d
         /\ \A u \in {"scheduler", "worker"} : u # t => ret'[u] = ret[u]
BY DEF TInv, TypeOK, Item

(* Every variable has its type before the first block.                     *)
LEMMA InitTInv == Init => TInv
<1> SUFFICES ASSUME Init PROVE TInv
  OBVIOUS
<1>1. /\ << >> \in Seq(1 .. MaxItems) /\ << >> \in Seq((1 .. MaxItems) \X (0 .. 3))
      /\ Len(<< >>) = 0 /\ 0 <= Capacity
  BY SinkAssumption
<1>2. ret \in [{"scheduler", "worker"} ->
                [op : {"none", "write", "read"}, count : Nat,
                 data : Seq(1 .. MaxItems)]]
  BY <1>1 DEF Init, Fifo!NoResult
<1>3. owner \in [Descriptors -> {"nobody", "sink", "other"}]
  BY DEF Init
<1>4. q \in Seq(1 .. MaxItems) /\ Len(q) <= cap /\ cap = Capacity
  BY <1>1 DEF Init
<1>5. dev \in Seq((1 .. MaxItems) \X (0 .. 3))
  BY <1>1 DEF Init
<1>6. consumed \in 0 .. MaxItems /\ blocks \in 0 .. MaxBlocks /\ starts \in 0 .. MaxStarts
  BY SinkAssumption DEF Init
<1>7. TypeOK
  BY <1>2, <1>3, <1>4, <1>5, <1>6 DEF Init, TypeOK
<1> QED
  BY <1>7 DEF Init, TInv

(* work gives the FIFO buffer samples of the input.                        *)
LEMMA WorkTInv ==
  ASSUME TInv, NEW n \in Nat, Work(n)
  PROVE  TInv'
<1> DEFINE w == Samples(consumed + 1, consumed + n)
           k == Fifo!Stored(w)
           x == SubSeq(w, 1, k)
<1>1. /\ phase = "running" /\ phase' = "working" /\ consumed + n <= MaxItems
      /\ q' = q \o x /\ cap' = cap
      /\ ret' = [ret EXCEPT !["scheduler"] =
                   [op |-> "write", count |-> k, data |-> << >>]]
      /\ UNCHANGED <<fd, exit, owner, dev, worker, consumed, blocks, starts>>
  BY DEF Work, Fifo!Write, Fifo!WroteResult
<1>2. /\ q \in Seq(Item) /\ cap \in Nat /\ Len(q) <= cap
      /\ consumed \in 0 .. MaxItems /\ MaxItems \in Nat
  BY SinkAssumption DEF TInv, TypeOK, Item
<1>3. From(w, consumed) /\ Len(w) = n
  <2>1. consumed \in Int /\ n \in Nat
    BY <1>2
  <2> QED
    BY <2>1, SamplesFrom
<1>4. w \in Seq(Item)
  <2> HIDE DEF w
  <2>1. \A i \in 1 .. n : w[i] \in Item
    BY <1>1, <1>2, <1>3 DEF From, Item
  <2>2. w \in [1 .. n -> Item]
    BY <1>3, <2>1 DEF From
  <2> QED
    BY <2>2
<1> HIDE DEF w
<1>5. k \in Nat /\ k <= n /\ Len(q) + k <= cap
  BY <1>2, <1>3 DEF Fifo!Stored, Fifo!Smaller
<1> HIDE DEF k
<1>6. x \in Seq(Item) /\ Len(x) = k
  BY <1>3, <1>4, <1>5, Cut
<1> HIDE DEF x
<1>7. q' \in Seq(Item) /\ Len(q') <= cap
  BY <1>1, <1>2, <1>5, <1>6, ConcatProperties
<1>8. << >> \in Seq(Item)
  OBVIOUS
<1>9. /\ ret' \in [{"scheduler", "worker"} ->
                [op : {"none", "write", "read"}, count : Nat, data : Seq(Item)]]
      /\ ret'["scheduler"].count = k /\ ret'["worker"] = ret["worker"]
  BY <1>1, <1>5, <1>8, ResultType
<1>10. TypeOK'
  BY <1>1, <1>7, <1>9 DEF TInv, TypeOK, Item
<1>11. consumed' + ret'["scheduler"].count <= MaxItems
  BY <1>1, <1>2, <1>5, <1>9
<1> QED
  BY <1>1, <1>9, <1>10, <1>11 DEF TInv

(* The worker takes samples, and gives their bytes to the device.          *)
LEMMA WorkerTInv ==
  ASSUME TInv, Worker
  PROVE  TInv'
<1>1. /\ q \in Seq(Item) /\ cap \in Nat /\ Len(q) <= cap /\ dev \in Seq(Place)
      /\ ret["worker"].data \in Seq(Item) /\ ret["worker"].count \in Nat
      /\ Len(ret["worker"].data) \in Nat
  BY SinkAssumption, LenProperties DEF TInv, TypeOK, Item, Place
<1>2. CASE WorkerStart \/ WorkerCheck
  BY <1>2 DEF WorkerStart, WorkerCheck, TInv, TypeOK, fifo
<1>3. CASE WorkerRead
  <2> DEFINE k == Fifo!Found(BlockItems)
             x == SubSeq(q, 1, k)
             y == SubSeq(q, k + 1, Len(q))
  <2>1. /\ worker' \in {"write", "check"}
        /\ ret' = [ret EXCEPT !["worker"] =
                     [op |-> "read", count |-> Len(x), data |-> x]]
        /\ q' = y /\ cap' = cap
        /\ UNCHANGED <<fd, exit, owner, dev, phase, consumed, blocks, starts>>
    BY <1>3 DEF WorkerRead, Fifo!Read, Fifo!ReadResult
  <2>2. k \in Nat /\ k <= Len(q) /\ Len(q) \in Nat
    BY <1>1, SinkAssumption, LenProperties DEF Fifo!Found, Fifo!Smaller
  <2> HIDE DEF k
  <2>3. x \in Seq(Item) /\ Len(x) = k /\ y \in Seq(Item) /\ Len(y) = Len(q) - k
    BY <1>1, <2>2, Cut
  <2> HIDE DEF x, y
  <2>4. Len(y) <= cap
    BY <1>1, <2>2, <2>3
  <2>5. /\ ret' \in [{"scheduler", "worker"} ->
                  [op : {"none", "write", "read"}, count : Nat, data : Seq(Item)]]
        /\ ret'["worker"].count = Len(x) /\ ret'["worker"].data = x
        /\ ret'["scheduler"] = ret["scheduler"]
    BY <2>1, <2>2, <2>3, ResultType
  <2>6. TypeOK'
    BY <2>1, <2>3, <2>4, <2>5 DEF TInv, TypeOK, Item
  <2> QED
    BY <2>1, <2>5, <2>6 DEF TInv
<1>4. CASE WorkerWrite
  <2>1. dev' \in Seq(Place)
    BY <1>1, <1>4, BytesType, ConcatProperties DEF WorkerWrite
  <2> QED
    BY <1>4, <2>1 DEF WorkerWrite, TInv, TypeOK, Item, Place, fifo
<1>5. CASE WorkerWriteFails
  <2>1. PICK k \in 0 .. 4 * ret["worker"].count - 1 :
          dev' = dev \o SubSeq(Bytes(ret["worker"].data), 1, k)
    BY <1>5 DEF WorkerWriteFails
  <2>2. k \in Nat /\ k <= 4 * Len(ret["worker"].data)
    BY <1>1, <1>5, <2>1 DEF WorkerWriteFails, TInv
  <2>3. SubSeq(Bytes(ret["worker"].data), 1, k) \in Seq(Place)
    BY <1>1, <2>2, BytesType, Cut
  <2>4. dev' \in Seq(Place)
    BY <1>1, <2>1, <2>3, ConcatProperties
  <2> QED
    BY <1>5, <2>4 DEF WorkerWriteFails, TInv, TypeOK, Item, Place, fifo
<1> QED
  BY <1>2, <1>3, <1>4, <1>5 DEF Worker

(* Every step keeps the types.                                             *)
LEMMA NextTInv == TInv /\ [Next]_vars => TInv'
<1> SUFFICES ASSUME TInv, [Next]_vars PROVE TInv'
  OBVIOUS
<1>1. CASE \E d \in Descriptors \cup {NoFd} : Construct(d)
  <2>1. PICK d \in Descriptors \cup {NoFd} : Construct(d)
    BY <1>1
  <2>2. /\ << >> \in Seq(1 .. MaxItems) /\ Len(<< >>) = 0 /\ 0 <= Capacity
        /\ << >> \in Seq((1 .. MaxItems) \X (0 .. 3))
    BY SinkAssumption
  <2>3. /\ phase' = "ready" /\ worker' = "start" /\ ret' = ret
        /\ blocks' \in 0 .. MaxBlocks /\ starts' \in 0 .. MaxStarts
        /\ consumed' \in 0 .. MaxItems /\ fd' = d
    BY <2>1, SinkAssumption DEF Construct, TInv, TypeOK, fifo, Fifo!ChangeSize
  <2>4. CASE d = NoFd
    BY <2>1, <2>3, <2>4 DEF Construct, TInv, TypeOK, fifo
  <2>5. CASE d # NoFd
    <3>1. /\ q' = << >> /\ cap' = Capacity /\ dev' = << >> /\ exit' = FALSE
          /\ owner' = [owner EXCEPT ![d] = "sink"]
      BY <2>1, <2>5 DEF Construct, Fifo!ChangeSize
    <3>2. owner' \in [Descriptors -> {"nobody", "sink", "other"}]
      BY <3>1 DEF TInv, TypeOK
    <3> QED
      BY <2>2, <2>3, <3>1, <3>2 DEF TInv, TypeOK
  <2> QED
    BY <2>4, <2>5
<1>2. CASE Start
  <2>1. starts' \in 0 .. MaxStarts
    BY <1>2, SinkAssumption DEF Start, TInv, TypeOK
  <2> QED
    BY <1>2, <2>1 DEF Start, TInv, TypeOK, fifo
<1>3. CASE \E k \in 1 .. MaxItems : Work(k * OutputMultiple)
  <2>1. PICK k \in 1 .. MaxItems : Work(k * OutputMultiple)
    BY <1>3
  <2>2. k * OutputMultiple \in Nat
    BY SinkAssumption
  <2> QED
    BY <2>1, <2>2, WorkTInv
<1>4. CASE Consume
  <2>1. consumed' \in 0 .. MaxItems
    BY <1>4, SinkAssumption DEF Consume, TInv, TypeOK
  <2> QED
    BY <1>4, <2>1 DEF Consume, TInv, TypeOK, fifo
<1>5. CASE Stop \/ Destroy
  <2>1. /\ phase' \in {"stop join", "stop close", "ready", "destroy join",
                       "destroy close", "none"}
        /\ exit' \in {exit, TRUE}
        /\ owner' \in {owner, [owner EXCEPT ![fd] = "nobody"]}
        /\ UNCHANGED <<fifo, fd, dev, worker, consumed, blocks, starts>>
    BY <1>5 DEF Stop, Destroy, AskToExit, Join, Close
  <2>2. owner' \in [Descriptors -> {"nobody", "sink", "other"}]
    BY <2>1 DEF TInv, TypeOK
  <2> QED
    BY <2>1, <2>2 DEF TInv, TypeOK, fifo
<1>6. CASE Worker
  BY <1>6, WorkerTInv
<1>7. CASE \E d \in Descriptors : OtherOpen(d)
  <2>1. owner' \in [Descriptors -> {"nobody", "sink", "other"}]
    BY <1>7 DEF OtherOpen, TInv, TypeOK
  <2> QED
    BY <1>7, <2>1 DEF OtherOpen, TInv, TypeOK, fifo
<1>8. CASE Finished \/ UNCHANGED vars
  BY <1>8 DEF Finished, vars, TInv, TypeOK, fifo
<1> QED
  BY <1>1, <1>2, <1>3, <1>4, <1>5, <1>6, <1>7, <1>8 DEF Next

(* Every variable keeps its type, for every capacity, block size and       *)
(* bound; in particular the FIFO buffer never holds more than it can.      *)
THEOREM TypeCorrect == Spec => []TypeOK
<1>1. TInv => TypeOK
  BY DEF TInv
<1> QED
  BY <1>1, InitTInv, NextTInv, PTL DEF Spec
=============================================================================
