------------------------ MODULE FirAcceleratorProofs ------------------------
(***************************************************************************)
(* Proofs about FirAccelerator.                                            *)
(*                                                                         *)
(* For every filter and every bound, however often a block is started, it  *)
(* writes and reads its own devices up to its first stop and never again   *)
(* (OwnDevices).  What makes this inductive is whose the two descriptors   *)
(* are in every phase: the block's devices before the first start and      *)
(* until the first stop, nobody's or another file's from then on.          *)
(*                                                                         *)
(* For every filter, FlowInv relates the output of a call to the samples   *)
(* behind the chunk, at the block's rate, and both to what the runtime     *)
(* took as consumed.  From it follow the types (TypeCorrect) and by how    *)
(* much the accounts are out (ConsumesAtRate).                             *)
(*                                                                         *)
(* For the plain filter, without decimation and interpolation, the samples *)
(* taken as consumed are those the output is made from (PlainAccounts),    *)
(* and the output is the filter's (PlainFilters).  FilterInv says what the *)
(* filter holds, which answers nobody has read yet and what is in the      *)
(* output buffer, as long as nothing was refused, and what a block that    *)
(* was started again makes.                                                *)
(***************************************************************************)
EXTENDS FirAccelerator, SequenceTheorems, TLAPS

Phases == {"none", "resetWrite", "resetRead", "ready", "running",
           "write", "read", "return"}

ControlType ==
  /\ fd_0 \in Descriptors \cup {NoFd} /\ fd_1 \in Descriptors \cup {NoFd}
  /\ status \in BOOLEAN
  /\ owner \in [Descriptors -> {"rd", "wr", "other", "nobody"}]
  /\ phase \in Phases
  /\ starts \in Nat

\* Both devices are open, each under the block's descriptor for it.
Open ==
  /\ fd_0 \in Descriptors /\ owner[fd_0] = "rd"
  /\ fd_1 \in Descriptors /\ owner[fd_1] = "wr"

\* Neither device is: the block has closed them, whoever has the numbers now.
Closed ==
  /\ fd_0 \in Descriptors /\ owner[fd_0] \notin {"rd", "wr"}
  /\ fd_1 \in Descriptors /\ owner[fd_1] \notin {"rd", "wr"}

\* A block that is there has been stopped at least once.
WasStopped == starts > 1 \/ (starts = 1 /\ phase = "ready")

\* The devices are used only if both could be opened, and they are open until
\* the block is stopped.
OpenInUse ==
  /\ phase \in {"resetWrite", "resetRead"} => status /\ starts = 0
  /\ phase \in {"write", "read", "return"} => status
  /\ phase \in {"running", "write", "read", "return"} => starts >= 1
  /\ status /\ phase # "none" /\ WasStopped => Closed
  /\ status /\ phase # "none" /\ ~ WasStopped => Open

DeviceInv == ControlType /\ OpenInUse

-----------------------------------------------------------------------------

(* Before the first block no descriptor is used.                           *)
LEMMA InitDevice == Init => DeviceInv
<1> SUFFICES ASSUME Init PROVE DeviceInv
  OBVIOUS
<1>1. ControlType
  BY DEF Init, ControlType, Phases
<1>2. OpenInUse
  BY DEF Init, OpenInUse
<1> QED
  BY <1>1, <1>2 DEF DeviceInv

(* A constructor opens two different descriptors or says that it did not.  *)
LEMMA ConstructDevice ==
  ASSUME DeviceInv, NEW rd \in Descriptors \cup {NoFd},
         NEW wr \in Descriptors \cup {NoFd}, Construct(rd, wr)
  PROVE  DeviceInv'
<1> USE DEF DeviceInv, ControlType, OpenInUse, Construct, MsgdmaInit, Phases
<1>1. ControlType'
  BY FirAssumption
<1>2. CASE status'
  <2>1. rd \in Descriptors /\ wr \in Descriptors /\ wr # rd
        /\ fd_0' = rd /\ fd_1' = wr
    BY <1>2
  <2>2. owner'[rd] = "rd" /\ owner'[wr] = "wr"
    BY <2>1
  <2>3. ~ WasStopped'
    <3>1. starts' = 0
      BY ONLY Construct(rd, wr) DEF Construct
    <3> QED
      BY ONLY <3>1 DEF WasStopped
  <2>4. Open'
    BY <2>1, <2>2 DEF Open
  <2> QED
    BY <1>1, <1>2, <2>3, <2>4
<1>3. CASE ~ status'
  BY <1>1, <1>3
<1> QED
  BY <1>2, <1>3

(* resetFIRFilter and work leave the descriptors alone.                    *)
LEMMA CallDevice ==
  ASSUME DeviceInv,
         \/ ResetWrite \/ ResetWriteFails \/ ResetRead \/ ResetReadFails
         \/ \E count \in 1 .. MaxItems * Interpolation : Work(count)
         \/ InCall
  PROVE  DeviceInv'
<1> USE DEF DeviceInv, ControlType, OpenInUse, Open, Closed, WasStopped, Phases,
            fds, bounds
<1>1. UNCHANGED <<fd_0, fd_1, status, owner, starts>>
  BY DEF ResetWrite, ResetWriteFails, ResetRead, ResetReadFails, Work,
     InCall, WriteChunk, WriteFails, ReadChunk, ReadFails, EndWork
<1>2. CASE ResetWrite \/ ResetWriteFails \/ ResetRead \/ ResetReadFails
  <2>1. /\ phase \in {"resetWrite", "resetRead"} /\ phase' \in {"resetRead", "ready"}
        /\ starts = 0 /\ status
    BY <1>2 DEF ResetWrite, ResetWriteFails, ResetRead, ResetReadFails
  <2>2. /\ starts \in Nat /\ starts' \in Nat /\ starts' = 0
        /\ phase' # "none" /\ status'
    BY <1>1, <2>1
  <2>3. ~ WasStopped /\ ~ WasStopped'
    BY ONLY <2>1, <2>2 DEF WasStopped
  <2>4. Open /\ Open'
    BY <1>1, <2>1, <2>3
  <2> QED
    BY <1>1, <2>1, <2>2, <2>3, <2>4
<1>3. CASE \E count \in 1 .. MaxItems * Interpolation : Work(count)
  BY <1>1, <1>3 DEF Work, call
<1>4. CASE InCall
  BY <1>1, <1>4
     DEF InCall, WriteChunk, WriteFails, ReadChunk, ReadFails, EndWork, Return
<1> QED
  BY <1>2, <1>3, <1>4

(* The first start finds the devices open, a later one finds them closed.  *)
LEMMA StartDevice ==
  ASSUME DeviceInv, Start
  PROVE  DeviceInv'
<1>1. /\ UNCHANGED <<fd_0, fd_1, status, owner>>
      /\ phase = "ready" /\ phase' = "running" /\ starts' = starts + 1
      /\ starts \in Nat
  BY DEF Start, fds, DeviceInv, ControlType
<1>2. WasStopped' <=> WasStopped
  BY <1>1 DEF WasStopped
<1>3. (Open' <=> Open) /\ (Closed' <=> Closed)
  BY <1>1 DEF Open, Closed
<1> QED
  BY <1>1, <1>2, <1>3 DEF DeviceInv, ControlType, OpenInUse, Phases

(* stop and the destructor close them.                                     *)
LEMMA EndDevice ==
  ASSUME DeviceInv, Stop \/ Destroy
  PROVE  DeviceInv'
<1>1. UNCHANGED <<fd_0, fd_1, status, starts>>
  BY DEF Stop, Destroy, bounds
<1>2. owner' \in [Descriptors -> {"rd", "wr", "other", "nobody"}]
  BY DEF Stop, Destroy, Close, DeviceInv, ControlType
<1>3. \/ phase' = "none"
      \/ phase = "running" /\ phase' = "ready" /\ starts >= 1
  BY DEF Stop, Destroy, DeviceInv, OpenInUse
<1>4. ControlType'
  BY <1>1, <1>2, <1>3 DEF DeviceInv, ControlType, Phases
<1>5. ASSUME status', phase' = "ready" PROVE WasStopped' /\ Closed'
  <2>1. fd_0 \in Descriptors /\ fd_1 \in Descriptors
    BY <1>1, <1>3, <1>5 DEF DeviceInv, OpenInUse, Open, Closed
  <2>2. owner'[fd_0] = "nobody" /\ owner'[fd_1] = "nobody"
    BY <2>1 DEF Stop, Destroy, Close
  <2>3. starts' = 1 \/ starts' > 1
    BY <1>1, <1>3, <1>5 DEF DeviceInv, ControlType
  <2> QED
    BY <1>1, <1>5, <2>1, <2>2, <2>3 DEF WasStopped, Closed
<1>6. OpenInUse'
  BY <1>3, <1>5 DEF OpenInUse
<1> QED
  BY <1>4, <1>6 DEF DeviceInv

(* Nobody is given a descriptor that is open, and nobody else ever opens   *)
(* the devices.                                                            *)
LEMMA OtherDevice ==
  ASSUME DeviceInv, NEW d \in Descriptors, OtherOpen(d)
  PROVE  DeviceInv'
<1>1. UNCHANGED <<fd_0, fd_1, status, phase, starts>>
  BY DEF OtherOpen, bounds
<1>2. \A e \in Descriptors :
        owner'[e] = owner[e] \/ (owner[e] = "nobody" /\ owner'[e] = "other")
  BY DEF OtherOpen, DeviceInv, ControlType
<1>3. owner' \in [Descriptors -> {"rd", "wr", "other", "nobody"}]
  BY DEF OtherOpen, DeviceInv, ControlType
<1>4. (Open => Open') /\ (Closed => Closed')
  BY <1>1, <1>2 DEF Open, Closed
<1>5. WasStopped' <=> WasStopped
  BY <1>1 DEF WasStopped
<1> QED
  BY <1>1, <1>3, <1>4, <1>5 DEF DeviceInv, ControlType, OpenInUse

(* Every step keeps the invariant.                                         *)
LEMMA NextDevice == DeviceInv /\ [Next]_vars => DeviceInv'
<1> SUFFICES ASSUME DeviceInv, [Next]_vars PROVE DeviceInv'
  OBVIOUS
<1>1. CASE \E rd, wr \in Descriptors \cup {NoFd} : Construct(rd, wr)
  BY <1>1, ConstructDevice
<1>2. CASE \/ ResetWrite \/ ResetWriteFails \/ ResetRead \/ ResetReadFails
           \/ \E count \in 1 .. MaxItems * Interpolation : Work(count)
           \/ InCall
  BY <1>2, CallDevice
<1>3. CASE Start
  BY <1>3, StartDevice
<1>4. CASE Stop \/ Destroy
  BY <1>4, EndDevice
<1>5. CASE \E d \in Descriptors : OtherOpen(d)
  BY <1>5, OtherDevice
<1>6. CASE Finished \/ UNCHANGED vars
  <2>1. UNCHANGED <<fd_0, fd_1, status, owner, phase, starts>>
    BY <1>6 DEF Finished, vars, fds, bounds
  <2> QED
    BY <2>1 DEF DeviceInv, ControlType, OpenInUse, Open, Closed, WasStopped
<1> QED
  BY <1>1, <1>2, <1>3, <1>4, <1>5, <1>6 DEF Next

(* In a call of work and in resetFIRFilter, the descriptors lead to the    *)
(* devices exactly until the first stop.                                   *)
LEMMA DeviceInCall ==
  ASSUME DeviceInv,
         phase \in {"resetWrite", "resetRead", "write", "read", "return"}
  PROVE  (starts <= 1 => Open) /\ (starts > 1 => Closed)
<1>1. starts \in Nat /\ phase # "none" /\ phase # "ready" /\ status
  BY DEF DeviceInv, ControlType, OpenInUse
<1>2. WasStopped <=> starts > 1
  BY <1>1 DEF WasStopped
<1>3. (WasStopped => Closed) /\ (~ WasStopped => Open)
  BY <1>1 DEF DeviceInv, OpenInUse
<1> QED
  BY <1>1, <1>2, <1>3

(* For every filter and every number of starts, a block writes and reads   *)
(* the devices it opened until it is stopped for the first time, and never *)
(* after that.                                                             *)
THEOREM OwnDevices == Spec => []OwnDevicesUntilStopped
<1>1. DeviceInv => OwnDevicesUntilStopped
  <2> SUFFICES ASSUME DeviceInv PROVE OwnDevicesUntilStopped
    OBVIOUS
  <2>1. ASSUME phase \in {"resetWrite", "resetRead", "write", "read"}
        PROVE  /\ fd_0 # NoFd /\ owner[fd_0] = "rd" <=> starts <= 1
               /\ fd_1 # NoFd /\ owner[fd_1] = "wr" <=> starts <= 1
    <3>1. starts \in Nat /\ (starts <= 1 => Open) /\ (starts > 1 => Closed)
      BY <2>1, DeviceInCall DEF DeviceInv, ControlType
    <3>2. CASE starts <= 1
      BY <3>1, <3>2, FirAssumption DEF Open
    <3>3. CASE starts > 1
      BY <3>1, <3>3, FirAssumption DEF Closed
    <3> QED
      BY <3>1, <3>2, <3>3
  <2> QED
    BY <2>1 DEF OwnDevicesUntilStopped
<1> QED
  BY InitDevice, NextDevice, <1>1, PTL DEF Spec

-----------------------------------------------------------------------------
(* Numbers and sequences.                                                  *)

(* Multiplication keeps the order.                                         *)
LEMMA MonoMult ==
  ASSUME NEW x \in Int, NEW y \in Int, NEW d \in Nat, x <= y
  PROVE  x * d <= y * d
OBVIOUS

(* A quotient is at most q if the number is less than q + 1 divisors.      *)
LEMMA QuotientBound ==
  ASSUME NEW a \in Nat, NEW d \in Nat \ {0}, NEW q \in Nat, a < (q + 1) * d
  PROVE  a \div d \in 0 .. q
<1> DEFINE b == a \div d
<1>1. b \in Nat /\ b * d <= a
  OBVIOUS
<1> HIDE DEF b
<1>2. ASSUME b >= q + 1 PROVE FALSE
  <2>1. (q + 1) * d <= b * d
    BY <1>1, <1>2, MonoMult
  <2>2. (q + 1) * d \in Nat /\ b * d \in Nat
    BY <1>1
  <2> QED
    BY <1>1, <2>1, <2>2
<1> QED
  BY <1>1, <1>2 DEF b

(* A multiple divides without a remainder.                                 *)
LEMMA QuotientExact ==
  ASSUME NEW q \in Nat, NEW d \in Nat \ {0}
  PROVE  (q * d) \div d = q
<1>1. q * d \in Nat /\ q * d < (q + 1) * d
  BY SMT
<1>2. (q * d) \div d \in 0 .. q
  BY <1>1, QuotientBound
<1>3. q * d < ((q * d) \div d + 1) * d
  BY <1>1
<1> DEFINE b == (q * d) \div d
<1> HIDE DEF b
<1>4. b \in 0 .. q /\ q * d < (b + 1) * d
  BY <1>2, <1>3 DEF b
<1>5. ASSUME b + 1 <= q PROVE FALSE
  BY <1>1, <1>4, <1>5, MonoMult
<1> QED
  BY <1>4, <1>5 DEF b

(* What divides without a remainder is a multiple.                         *)
LEMMA Multiple ==
  ASSUME NEW a \in Nat, NEW d \in Nat \ {0}, a % d = 0
  PROVE  a \div d \in Nat /\ a = (a \div d) * d
<1>1. a = d * (a \div d)
  OBVIOUS
<1>2. a \div d \in Nat
  OBVIOUS
<1> DEFINE q == a \div d
<1> HIDE DEF q
<1>3. q \in Nat /\ a = d * q
  BY <1>1, <1>2 DEF q
<1>4. a = q * d
  BY <1>3
<1> QED
  BY <1>3, <1>4 DEF q

(* What is left of a sequence when its first k elements are dropped.       *)
LEMMA DropSeq ==
  ASSUME NEW S, NEW s \in Seq(S), NEW k \in 0 .. Len(s)
  PROVE  Drop(s, k) \in Seq(S) /\ Len(Drop(s, k)) = Len(s) - k
<1>1. Len(s) \in Nat /\ \A q \in k + 1 .. Len(s) : s[q] \in S
  BY LenProperties, ElementOfSeq
<1>2. /\ SubSeq(s, k + 1, Len(s)) \in Seq(S)
      /\ Len(SubSeq(s, k + 1, Len(s))) =
           IF k + 1 <= Len(s) THEN Len(s) - (k + 1) + 1 ELSE 0
  BY <1>1, SubSeqProperties
<1> QED
  BY <1>1, <1>2 DEF Drop

(* The first k elements of a sequence.                                     *)
LEMMA FirstSeq ==
  ASSUME NEW S, NEW s \in Seq(S), NEW k \in 0 .. Len(s)
  PROVE  /\ SubSeq(s, 1, k) \in Seq(S) /\ Len(SubSeq(s, 1, k)) = k
         /\ \A q \in 1 .. k : SubSeq(s, 1, k)[q] = s[q]
<1>1. Len(s) \in Nat /\ \A q \in 1 .. k : s[q] \in S
  BY LenProperties, ElementOfSeq
<1>2. /\ SubSeq(s, 1, k) \in Seq(S)
      /\ Len(SubSeq(s, 1, k)) = IF 1 <= k THEN (k - 1) + 1 ELSE 0
      /\ \A q \in 1 .. (k - 1) + 1 : SubSeq(s, 1, k)[q] = s[1 + q - 1]
  BY <1>1, SubSeqProperties
<1> QED
  BY <1>1, <1>2

-----------------------------------------------------------------------------
(* What is written, read and given to the runtime, in every filter.        *)

Sample == Foreign .. MaxItems
Windows == [1 .. Taps -> Sample]

FlowType ==
  /\ phase \in Phases
  /\ n \in Nat /\ i \in Nat /\ consumed \in Nat /\ failures \in Nat
  /\ memory \in [1 .. Taps - 1 -> Sample] /\ group \in 0 .. Decimation - 1
  /\ resp \in Seq(Windows) /\ iq \in Seq(Windows) /\ out \in Seq(Windows)

\* In a call, iq holds the output samples of the input samples behind the
\* chunk, at the rate of the block, and the chunk is not empty.
CallFlow ==
  /\ phase \in {"write", "read", "return"} =>
       /\ Inputs \in Nat /\ Inputs * Interpolation = n * Decimation
       /\ Len(iq) * Decimation = i * Interpolation
       /\ i <= Inputs /\ consumed + Inputs <= MaxItems
  /\ phase \in {"write", "read"} => i < Inputs
  /\ phase = "return" => i = Inputs

\* What is consumed for Interpolation output samples: work consumes as many
\* samples as it returns, the base class what its rate says.
Rate == Interpolation + (IF SyncBase THEN Decimation ELSE 0)

(* The runtime takes as consumed, for every output sample of the block,    *)
(* one input sample, and under a base class with a rate what belongs to it *)
(* once more; also when a call of work ends early.                         *)
AccountsAtRate == consumed * Interpolation = Len(out) * Rate

FlowInv == FlowType /\ CallFlow /\ AccountsAtRate

(* Whatever it is fed with, the filter keeps its last samples and answers  *)
(* with windows.                                                           *)
LEMMA FeedFlow ==
  ASSUME memory \in [1 .. Taps - 1 -> Sample], group \in 0 .. Decimation - 1,
         resp \in Seq(Windows), NEW w \in Seq(Sample), Feed(w)
  PROVE  /\ memory' \in [1 .. Taps - 1 -> Sample]
         /\ group' \in 0 .. Decimation - 1
         /\ resp' \in Seq(Windows)
<1> DEFINE all == memory \o w
           count == (group + Len(w)) \div Decimation
           End(g) == Taps - 1 + g * Decimation - group
           Answer(j) == LET e == End((j - 1) \div Interpolation + 1)
                        IN  SubSeq(all, e - Taps + 1, e)
           answers == [j \in 1 .. count * Interpolation |-> Answer(j)]
<1>1. /\ Taps \in Nat /\ Taps >= 1
      /\ Decimation \in Nat \ {0} /\ Interpolation \in Nat \ {0}
      /\ Len(w) \in Nat /\ group \in Nat /\ group < Decimation
      /\ memory \in Seq(Sample) /\ Len(memory) = Taps - 1
  BY FirAssumption
<1>2. all \in Seq(Sample) /\ Len(all) = (Taps - 1) + Len(w)
  BY <1>1, ConcatProperties
<1>3. /\ memory' = Drop(all, Len(w))
      /\ group' = (group + Len(w)) % Decimation
      /\ resp' = resp \o answers
  BY DEF Feed
<1>4. count \in Nat /\ count * Decimation <= group + Len(w)
  <2> DEFINE m == group + Len(w)
  <2>1. m \in Nat
    BY <1>1
  <2> HIDE DEF m
  <2>2. m \div Decimation \in Nat /\ (m \div Decimation) * Decimation <= m
    BY <1>1, <2>1
  <2> QED
    BY <2>2 DEF m
<1> HIDE DEF all, count
<1>5. ASSUME NEW g \in 1 .. count
      PROVE  SubSeq(all, End(g) - Taps + 1, End(g)) \in Windows
  <2>1. Decimation <= g * Decimation /\ g * Decimation <= count * Decimation
    <3>1. 1 * Decimation <= g * Decimation /\ g * Decimation <= count * Decimation
      BY <1>1, <1>4, MonoMult
    <3> QED
      BY <1>1, <3>1
  <2> DEFINE e == End(g)
  <2>2. g * Decimation \in Nat
    BY <1>1
  <2>3. /\ e \in Int /\ e - Taps + 1 \in Int
        /\ e - Taps + 1 >= 1 /\ e <= Len(all)
        /\ e - (e - Taps + 1) + 1 = Taps /\ e - Taps + 1 <= e
    <3> DEFINE gd == g * Decimation
    <3>1. e = (Taps - 1) + (gd - group)
      OBVIOUS
    <3>2. count * Decimation \in Int
      BY <1>1, <1>4
    <3>3. gd \in Nat /\ gd >= Decimation /\ gd <= count * Decimation
      BY <2>1, <2>2
    <3> HIDE DEF gd, e
    <3>4. gd <= group + Len(w)
      BY <1>1, <1>4, <3>2, <3>3
    <3> HIDE DEF gd, e
    <3> QED
      BY <1>1, <1>2, <3>1, <3>3, <3>4
  <2> HIDE DEF e
  <2>4. \A q \in e - Taps + 1 .. e : all[q] \in Sample
    <3>1. Len(all) \in Nat /\ \A q \in 1 .. Len(all) : all[q] \in Sample
      BY <1>2, LenProperties, ElementOfSeq
    <3> QED
      BY <2>3, <3>1
  <2>5. /\ SubSeq(all, e - Taps + 1, e) \in Seq(Sample)
        /\ Len(SubSeq(all, e - Taps + 1, e)) =
             IF e - Taps + 1 <= e THEN e - (e - Taps + 1) + 1 ELSE 0
    BY <2>3, <2>4, SubSeqProperties
  <2>6. Len(SubSeq(all, e - Taps + 1, e)) = Taps
    BY <2>3, <2>5
  <2>7. SubSeq(all, e - Taps + 1, e) \in [1 .. Taps -> Sample]
    BY <2>5, <2>6, LenProperties
  <2> QED
    BY <2>7 DEF Windows, e
<1>6. ASSUME NEW j \in 1 .. count * Interpolation
      PROVE  (j - 1) \div Interpolation + 1 \in 1 .. count
  <2>1. count * Interpolation \in Nat
    BY <1>1, <1>4
  <2>2. j \in Nat /\ j >= 1 /\ j <= count * Interpolation
    BY <2>1
  <2>3. count # 0
    BY <1>1, <2>2
  <2>4. j - 1 \in Nat /\ count - 1 \in Nat /\ j - 1 < ((count - 1) + 1) * Interpolation
    <3>1. (count - 1) + 1 = count
      BY <1>4
    <3> QED
      BY <1>4, <2>1, <2>2, <2>3, <3>1
  <2>5. (j - 1) \div Interpolation \in 0 .. count - 1
    BY <1>1, <2>4, QuotientBound
  <2> QED
    BY <1>4, <2>5
<1>7. \A j \in 1 .. count * Interpolation : Answer(j) \in Windows
  BY <1>5, <1>6
<1> HIDE DEF Answer, End
<1>8. answers \in Seq(Windows)
  <2>1. count * Interpolation \in Nat
    BY <1>1, <1>4
  <2> DEFINE m == count * Interpolation
  <2>2. m \in Nat /\ answers = [j \in 1 .. m |-> Answer(j)]
    BY <2>1
  <2> HIDE DEF m
  <2>3. answers \in [1 .. m -> Windows]
    BY <1>7, <2>2 DEF m
  <2> QED
    BY <2>2, <2>3, SeqDef
<1> HIDE DEF answers
<1>9. resp' \in Seq(Windows)
  BY <1>3, <1>8, ConcatProperties
<1>10. memory' \in [1 .. Taps - 1 -> Sample]
  <2>1. Len(w) \in 0 .. Len(all)
    BY <1>1, <1>2
  <2>2. memory' \in Seq(Sample) /\ Len(memory') = Len(all) - Len(w)
    BY <1>2, <1>3, <2>1, DropSeq
  <2>3. Len(memory') = Taps - 1
    BY <1>1, <1>2, <2>2
  <2> QED
    BY <2>2, <2>3, LenProperties
<1>11. group' \in 0 .. Decimation - 1
  BY <1>1, <1>3
<1> QED
  BY <1>9, <1>10, <1>11

(* The same holds of a filter that takes only part of what is written.     *)
LEMMA FeedSomeFlow ==
  ASSUME memory \in [1 .. Taps - 1 -> Sample], group \in 0 .. Decimation - 1,
         resp \in Seq(Windows), NEW w \in Seq(Sample), FeedSome(w)
  PROVE  /\ memory' \in [1 .. Taps - 1 -> Sample]
         /\ group' \in 0 .. Decimation - 1
         /\ resp' \in Seq(Windows)
<1>1. PICK k \in 0 .. Len(w) - 1 : Feed(SubSeq(w, 1, k))
  BY DEF FeedSome
<1>2. SubSeq(w, 1, k) \in Seq(Sample)
  <2>1. Len(w) \in Nat
    BY LenProperties
  <2> QED
    BY <2>1, FirstSeq
<1> QED
  BY <1>1, <1>2, FeedFlow

(* A read takes the oldest answers and leaves the filter alone.            *)
LEMMA TakeFlow ==
  ASSUME resp \in Seq(Windows), NEW count \in Nat, Take(count) \/ TakeSome(count)
  PROVE  resp' \in Seq(Windows) /\ memory' = memory /\ group' = group
<1>1. Len(resp) \in Nat
  BY LenProperties
<1>2. PICK k \in 0 .. Len(resp) : resp' = Drop(resp, k)
  BY <1>1 DEF Take, TakeSome
<1>3. Drop(resp, k) \in Seq(Windows)
  BY <1>1, DropSeq
<1> QED
  BY <1>2, <1>3 DEF Take, TakeSome

(* Zeros, a chunk, and the first samples of either can be fed.             *)
LEMMA ZerosAreSamples ==
  Zeros \in Seq(Sample) /\ Len(Zeros) = ResetItems
BY FirAssumption DEF Zeros, Sample, Old, Foreign

(* Another file's bytes can be read, of whatever length.                   *)
LEMMA OthersAreWindows ==
  ASSUME NEW count \in Nat
  PROVE  /\ [j \in 1 .. count |-> OtherBytes] \in Seq(Windows)
         /\ Len([j \in 1 .. count |-> OtherBytes]) = count
<1>1. OtherBytes \in Windows
  BY FirAssumption DEF OtherBytes, Windows, Sample, Foreign
<1> QED
  BY <1>1

(* A chunk is not empty and not longer than what is left of the call or    *)
(* the array; its answer has the length the block's rate asks for.         *)
LEMMA ChunkFlow ==
  ASSUME FlowInv, phase \in {"write", "read"}
  PROVE  /\ ChunkSize \in 1 .. Inputs - i /\ ChunkSize <= ArrayItems
         /\ AnswerSize \in Nat
         /\ AnswerSize * Decimation = ChunkSize * Interpolation
         /\ Chunk \in Seq(Sample)
<1>1. /\ n \in Nat /\ i \in Nat /\ consumed \in Nat /\ Inputs \in Nat
      /\ i < Inputs /\ consumed + Inputs <= MaxItems /\ MaxItems \in Nat
      /\ Inputs * Interpolation = n * Decimation
      /\ Len(iq) * Decimation = i * Interpolation
  BY FirAssumption DEF FlowInv, FlowType, CallFlow
<1>2. /\ Decimation \in Nat \ {0} /\ Interpolation \in Nat \ {0}
      /\ Decimation = 1 \/ Interpolation = 1
      /\ ArrayItems \in Nat \ {0} /\ ArrayItems % Decimation = 0
  BY FirAssumption
<1>3. ChunkSize \in 1 .. Inputs - i /\ ChunkSize <= ArrayItems
  BY <1>1, <1>2 DEF ChunkSize
<1>4. AnswerSize \in Nat /\ AnswerSize * Decimation = ChunkSize * Interpolation
  <2> DEFINE c == ChunkSize
  <2>1. c \in Nat
    BY <1>1, <1>3
  <2>2. CASE Decimation = 1
    <3>1. c * Interpolation \in Nat
      BY <1>2, <2>1
    <3>2. AnswerSize = c * Interpolation
      BY <2>2, <3>1 DEF AnswerSize
    <3> QED
      BY <2>2, <3>1, <3>2
  <2>3. CASE Interpolation = 1
    <3>1. PICK q \in Nat : c = q * Decimation
      <4>1. CASE ChunkSize = ArrayItems
        <5>1. /\ ArrayItems \div Decimation \in Nat
              /\ ArrayItems = (ArrayItems \div Decimation) * Decimation
          BY <1>2, Multiple
        <5> QED
          BY <4>1, <5>1
      <4>2. CASE ChunkSize = Inputs - i
        <5>1. iq \in Seq(Windows) /\ Len(iq) \in Nat
          BY LenProperties DEF FlowInv, FlowType
        <5>2. Inputs = n * Decimation /\ i = Len(iq) * Decimation
          BY <1>1, <1>2, <2>3, <5>1
        <5> DEFINE q == n - Len(iq)
        <5>3. q \in Int /\ c = q * Decimation
          BY <1>1, <1>2, <4>2, <5>1, <5>2
        <5> HIDE DEF q
        <5>4. q >= 0
          <6>1. c >= 1 /\ 0 * Decimation = 0
            BY <1>1, <1>2, <1>3
          <6>2. q <= 0 => q * Decimation <= 0 * Decimation
            BY <1>2, <5>3, MonoMult
          <6> QED
            BY <5>3, <6>1, <6>2
        <5> QED
          BY <5>3, <5>4
      <4> QED
        BY <4>1, <4>2 DEF ChunkSize
    <3>2. c * 1 = c
      BY <2>1
    <3>3. AnswerSize = c \div Decimation
      BY <2>3, <3>2 DEF AnswerSize
    <3>4. c \div Decimation = q
      BY <1>2, <3>1, QuotientExact
    <3> QED
      BY <2>3, <3>1, <3>2, <3>3, <3>4
  <2> QED
    BY <1>2, <2>2, <2>3
<1>5. Chunk \in Seq(Sample)
  <2>1. ChunkSize \in Nat
    BY <1>1, <1>3
  <2>2. \A q \in 1 .. ChunkSize : consumed + i + q \in Sample
    BY <1>1, <1>3 DEF Sample, Old, Foreign
  <2> QED
    BY <2>1, <2>2 DEF Chunk
<1> QED
  BY <1>3, <1>4, <1>5

(* Before the first block there is no output.                              *)
LEMMA InitFlow == Init => FlowInv
<1> SUFFICES ASSUME Init PROVE FlowInv
  OBVIOUS
<1>1. memory \in [1 .. Taps - 1 -> Sample]
  BY FirAssumption DEF Init, Stale, Sample, Old, Foreign
<1>2. << >> \in Seq(Windows) /\ Len(<< >>) = 0
  OBVIOUS
<1>3. FlowType /\ CallFlow
  BY <1>1, <1>2, FirAssumption DEF Init, FlowType, CallFlow, Phases
<1>4. AccountsAtRate
  BY <1>2, FirAssumption DEF Init, AccountsAtRate, Rate
<1> QED
  BY <1>3, <1>4 DEF FlowInv

(* A new block starts with no output, whatever the filter holds.           *)
LEMMA ConstructFlow ==
  ASSUME FlowInv, NEW rd \in Descriptors \cup {NoFd},
         NEW wr \in Descriptors \cup {NoFd}, Construct(rd, wr)
  PROVE  FlowInv'
<1>1. memory' \in [1 .. Taps - 1 -> Sample]
  <2>1. memory' = Stale
    BY DEF Construct
  <2> QED
    BY <2>1, FirAssumption DEF Stale, Sample, Old, Foreign
<1>2. << >> \in Seq(Windows) /\ Len(<< >>) = 0
  OBVIOUS
<1>3. /\ phase' \in {"resetWrite", "ready"}
      /\ n' = 0 /\ i' = 0 /\ iq' = << >> /\ consumed' = 0 /\ out' = << >>
      /\ failures' = 0 /\ group' \in {0, group} /\ resp' \in {<< >>, resp}
  BY DEF Construct
<1>4. FlowType'
  <2>1. group' \in 0 .. Decimation - 1
    <3>1. Decimation \in Nat \ {0} /\ group \in 0 .. Decimation - 1
      BY FirAssumption DEF FlowInv, FlowType
    <3>2. group' = 0 \/ group' = group
      BY <1>3
    <3> QED
      BY <3>1, <3>2
  <2>2. resp' \in Seq(Windows)
    BY <1>2, <1>3, Zenon DEF FlowInv, FlowType
  <2>3. phase' \in Phases
    BY <1>3 DEF Phases
  <2>4. iq' \in Seq(Windows) /\ out' \in Seq(Windows)
    BY <1>2, <1>3, Zenon
  <2> QED
    BY <1>1, <1>3, <2>1, <2>2, <2>3, <2>4 DEF FlowType
<1>5. CallFlow'
  BY <1>3 DEF CallFlow
<1>6. AccountsAtRate'
  <2>1. Interpolation \in Nat /\ Rate \in Nat
    BY FirAssumption DEF Rate
  <2>2. consumed' = 0 /\ Len(out') = 0
    BY <1>2, <1>3
  <2>3. 0 * Interpolation = 0 /\ 0 * Rate = 0
    BY <2>1
  <2> QED
    BY <2>2, <2>3 DEF AccountsAtRate, Rate
<1> QED
  BY <1>4, <1>5, <1>6 DEF FlowInv

(* resetFIRFilter makes no output.                                         *)
LEMMA ResetFlow ==
  ASSUME FlowInv,
         ResetWrite \/ ResetWriteFails \/ ResetRead \/ ResetReadFails
  PROVE  FlowInv'
<1>1. /\ memory' \in [1 .. Taps - 1 -> Sample] /\ group' \in 0 .. Decimation - 1
      /\ resp' \in Seq(Windows)
  <2>1. CASE ResetWrite
    BY <2>1, ZerosAreSamples, FeedFlow DEF ResetWrite, FlowInv, FlowType
  <2>2. CASE ResetWriteFails
    BY <2>2, ZerosAreSamples, FeedSomeFlow DEF ResetWriteFails, FlowInv, FlowType
  <2>3. CASE ResetRead \/ ResetReadFails
    BY <2>3, FirAssumption, TakeFlow
       DEF ResetRead, ResetReadFails, FlowInv, FlowType
  <2> QED
    BY <2>1, <2>2, <2>3
<1>2. /\ phase' = "resetRead" \/ phase' = "ready"
      /\ UNCHANGED <<n, i, iq, consumed, out>>
  BY DEF ResetWrite, ResetWriteFails, ResetRead, ResetReadFails, call, stream
<1>3. failures' \in Nat /\ phase' \in Phases
  <2>1. failures' = failures \/ failures' = failures + 1
    BY DEF ResetWrite, ResetWriteFails, ResetRead, ResetReadFails, stream
  <2>2. failures' \in Nat
    BY <2>1 DEF FlowInv, FlowType
  <2> QED
    BY <1>2, <2>2, Zenon DEF Phases
<1>4. FlowType'
  BY <1>1, <1>2, <1>3, Zenon DEF FlowInv, FlowType
<1>5. CallFlow' /\ AccountsAtRate'
  BY <1>2 DEF FlowInv, CallFlow, AccountsAtRate, Rate
<1> QED
  BY <1>4, <1>5 DEF FlowInv

(* A call of work starts with no output and the input it has room for.     *)
LEMMA WorkFlow ==
  ASSUME FlowInv, NEW count \in 1 .. MaxItems * Interpolation, Work(count)
  PROVE  FlowInv'
<1>1. CASE status
  <2> DEFINE inputs == (count * Decimation) \div Interpolation
  <2>1. /\ Decimation \in Nat \ {0} /\ Interpolation \in Nat \ {0}
        /\ Decimation = 1 \/ Interpolation = 1
        /\ count \in Nat /\ count >= 1
    BY FirAssumption
  <2>2. << >> \in Seq(Windows) /\ Len(<< >>) = 0
    OBVIOUS
  <2>3. /\ phase' = "write" /\ n' = count /\ i' = 0 /\ iq' = << >>
        /\ count % Interpolation = 0
        /\ consumed + inputs <= MaxItems
        /\ UNCHANGED <<memory, group, resp, consumed, out, failures>>
    BY <1>1 DEF Work, filter, stream
  <2>4. FlowType'
    BY <2>1, <2>2, <2>3 DEF FlowInv, FlowType, Phases
  <2>5. inputs \in Nat /\ inputs >= 1 /\ inputs * Interpolation = count * Decimation
    <3>1. CASE Interpolation = 1
      <4>1. count * Decimation \in Nat /\ count * Decimation >= 1
        <5>1. 1 * Decimation <= count * Decimation
          BY <2>1, MonoMult
        <5>2. count * Decimation \in Nat
          BY <2>1
        <5> QED
          BY <2>1, <5>1, <5>2
      <4> QED
        BY <3>1, <4>1
    <3>2. CASE Decimation = 1
      <4> DEFINE q == count \div Interpolation
      <4>1. q \in Nat /\ count = q * Interpolation
        BY <2>1, <2>3, Multiple
      <4>2. inputs = q
        BY <2>1, <3>2
      <4> HIDE DEF q, inputs
      <4>3. count = q * Interpolation
        BY <4>1
      <4>4. q # 0
        BY <2>1, <4>3
      <4>5. q >= 1
        BY <4>1, <4>4
      <4> QED
        BY <2>1, <3>2, <4>1, <4>2, <4>3, <4>5
    <3> QED
      BY <2>1, <3>1, <3>2
  <2>6. Inputs' = inputs
    BY <2>3 DEF Inputs
  <2> HIDE DEF inputs
  <2>7. CallFlow'
    <3>1. Len(iq') * Decimation = i' * Interpolation
      BY <2>1, <2>2, <2>3
    <3> QED
      BY <2>1, <2>3, <2>5, <2>6, <3>1 DEF CallFlow
  <2>8. AccountsAtRate'
    BY <2>3 DEF FlowInv, AccountsAtRate, Rate
  <2> QED
    BY <2>4, <2>7, <2>8 DEF FlowInv
<1>2. CASE ~ status
  <2>1. /\ phase = "running"
        /\ UNCHANGED <<phase, n, i, iq, consumed, out, failures, memory, group, resp>>
    BY <1>2 DEF Work, call, filter, stream
  <2>2. FlowType' /\ CallFlow' /\ AccountsAtRate'
    BY <2>1 DEF FlowInv, FlowType, CallFlow, AccountsAtRate, Rate
  <2> QED
    BY <2>2 DEF FlowInv
<1> QED
  BY <1>1, <1>2

(* A return of work between two chunks gives the runtime the output made   *)
(* so far, and consumes at the block's rate.                               *)
LEMMA ReturnFlow ==
  ASSUME FlowInv, phase \in {"write", "read", "return"}, Return(Len(iq), Len(iq))
  PROVE  /\ phase' = "running" /\ consumed' \in Nat /\ out' \in Seq(Windows)
         /\ AccountsAtRate'
<1>1. /\ iq \in Seq(Windows) /\ Len(iq) \in Nat
      /\ out \in Seq(Windows) /\ Len(out) \in Nat
      /\ i \in Nat /\ consumed \in Nat
      /\ Len(iq) * Decimation = i * Interpolation
      /\ consumed * Interpolation = Len(out) * Rate
  BY LenProperties DEF FlowInv, FlowType, CallFlow, AccountsAtRate
<1>2. Decimation \in Nat \ {0} /\ Interpolation \in Nat \ {0} /\ SyncBase \in BOOLEAN
  BY FirAssumption
<1>3. (Len(iq) * Decimation) \div Interpolation = i
  BY <1>1, <1>2, QuotientExact
<1>4. /\ phase' = "running"
      /\ consumed' = consumed + Len(iq) + (IF SyncBase THEN i ELSE 0)
      /\ out' = out \o SubSeq(iq, 1, Len(iq))
  BY <1>3 DEF Return
<1>5. SubSeq(iq, 1, Len(iq)) = iq
  BY <1>1, SubSeqFull
<1>6. out' \in Seq(Windows) /\ Len(out') = Len(out) + Len(iq)
  BY <1>1, <1>4, <1>5, ConcatProperties
<1>7. consumed' \in Nat
  BY <1>1, <1>4
<1>8. consumed' * Interpolation = Len(out') * Rate
  <2> DEFINE made == Len(iq)
             more == IF SyncBase THEN i ELSE 0
  <2>1. Rate \in Nat
    BY <1>2 DEF Rate
  <2>2. made * Rate = made * Interpolation + more * Interpolation
    <3>1. CASE SyncBase
      BY <1>1, <1>2, <3>1 DEF Rate
    <3>2. CASE ~ SyncBase
      BY <1>1, <1>2, <3>2 DEF Rate
    <3> QED
      BY <3>1, <3>2
  <2>3. /\ made \in Nat /\ more \in Nat
        /\ consumed' = consumed + made + more /\ Len(out') = Len(out) + made
    BY <1>1, <1>4, <1>6
  <2> HIDE DEF made, more
  <2>4. (consumed + made + more) * Interpolation
          = consumed * Interpolation + (made * Interpolation + more * Interpolation)
    BY <1>1, <1>2, <2>3
  <2>5. (Len(out) + made) * Rate = Len(out) * Rate + made * Rate
    BY <1>1, <2>1, <2>3
  <2> QED
    BY <1>1, <2>2, <2>3, <2>4, <2>5
<1>9. AccountsAtRate'
  BY <1>8 DEF AccountsAtRate, Rate
<1> QED
  BY <1>4, <1>6, <1>7, <1>9

(* Each step of work keeps output and input in step.                       *)
LEMMA InCallFlow ==
  ASSUME FlowInv, InCall
  PROVE  FlowInv'
<1>0. /\ n \in Nat /\ i \in Nat /\ consumed \in Nat /\ failures \in Nat
      /\ memory \in [1 .. Taps - 1 -> Sample] /\ group \in 0 .. Decimation - 1
      /\ iq \in Seq(Windows) /\ resp \in Seq(Windows) /\ out \in Seq(Windows)
      /\ Len(iq) \in Nat
  BY LenProperties DEF FlowInv, FlowType
<1>1. CASE WriteChunk
  <2>1. Chunk \in Seq(Sample) /\ (Feed(Chunk) \/ UNCHANGED filter)
    BY <1>1, ChunkFlow DEF WriteChunk
  <2>2. /\ memory' \in [1 .. Taps - 1 -> Sample] /\ group' \in 0 .. Decimation - 1
        /\ resp' \in Seq(Windows)
    <3>1. CASE Feed(Chunk)
      BY <1>0, <2>1, <3>1, FeedFlow
    <3>2. CASE UNCHANGED filter
      BY <1>0, <3>2 DEF filter
    <3> QED
      BY <2>1, <3>1, <3>2
  <2>3. /\ phase = "write" /\ phase' = "read"
        /\ UNCHANGED <<n, i, iq, consumed, out, failures>>
    BY <1>1 DEF WriteChunk, call, stream
  <2>4. FlowType'
    BY <1>0, <2>2, <2>3 DEF FlowType, Phases
  <2>5. Inputs' = Inputs
    BY <2>3 DEF Inputs
  <2>6. CallFlow' /\ AccountsAtRate'
    BY <2>3, <2>5 DEF FlowInv, CallFlow, AccountsAtRate, Rate
  <2> QED
    BY <2>4, <2>6 DEF FlowInv
<1>2. CASE WriteFails \/ ReadFails
  <2>1. /\ memory' \in [1 .. Taps - 1 -> Sample] /\ group' \in 0 .. Decimation - 1
        /\ resp' \in Seq(Windows)
    <3>1. CASE WriteFails /\ FeedSome(Chunk)
      <4>1. Chunk \in Seq(Sample)
        BY <3>1, ChunkFlow DEF WriteFails
      <4> QED
        BY <1>0, <3>1, <4>1, FeedSomeFlow
    <3>2. CASE ReadFails /\ TakeSome(AnswerSize)
      <4>1. AnswerSize \in Nat
        BY <3>2, ChunkFlow DEF ReadFails
      <4> QED
        BY <1>0, <3>2, <4>1, TakeFlow
    <3>3. CASE UNCHANGED filter
      BY <1>0, <3>3 DEF filter
    <3> QED
      BY <1>2, <3>1, <3>2, <3>3 DEF WriteFails, ReadFails
  <2>2. /\ phase \in {"write", "read", "return"} /\ Return(Len(iq), Len(iq))
        /\ UNCHANGED <<n, i, iq>>
        /\ failures' = failures \/ failures' = failures + 1
    BY <1>2 DEF WriteFails, ReadFails, call
  <2>3. /\ phase' = "running" /\ consumed' \in Nat /\ out' \in Seq(Windows)
        /\ AccountsAtRate'
    BY <2>2, ReturnFlow
  <2>4. failures' \in Nat /\ phase' \in Phases
    BY <1>0, <2>2, <2>3 DEF Phases
  <2>5. FlowType'
    BY <1>0, <2>1, <2>2, <2>3, <2>4, Zenon DEF FlowType
  <2>6. CallFlow'
    BY <2>3 DEF CallFlow
  <2> QED
    BY <2>3, <2>5, <2>6 DEF FlowInv
<1>3. CASE ReadChunk
  <2>1. /\ phase = "read"
        /\ i' = i + ChunkSize
        /\ phase' = IF i' = Inputs THEN "return" ELSE "write"
        /\ UNCHANGED <<n, consumed, out, failures>>
    BY <1>3 DEF ReadChunk, stream
  <2>2. /\ ChunkSize \in 1 .. Inputs - i /\ AnswerSize \in Nat
        /\ AnswerSize * Decimation = ChunkSize * Interpolation
    BY <2>1, ChunkFlow
  <2>3. /\ Inputs \in Nat /\ i < Inputs /\ Inputs * Interpolation = n * Decimation
        /\ Len(iq) * Decimation = i * Interpolation
        /\ consumed + Inputs <= MaxItems
    BY <2>1 DEF FlowInv, CallFlow
  <2>4. /\ resp' \in Seq(Windows) /\ memory' = memory /\ group' = group
        /\ \E answer \in Seq(Windows) :
              Len(answer) = AnswerSize /\ iq' = iq \o answer
    <3>1. CASE Take(AnswerSize) /\ iq' = iq \o SubSeq(resp, 1, AnswerSize)
      <4>1. AnswerSize \in 0 .. Len(resp)
        BY <1>0, <2>2, <3>1, LenProperties DEF Take
      <4>2. /\ SubSeq(resp, 1, AnswerSize) \in Seq(Windows)
            /\ Len(SubSeq(resp, 1, AnswerSize)) = AnswerSize
        BY <1>0, <4>1, FirstSeq
      <4>3. resp' \in Seq(Windows) /\ memory' = memory /\ group' = group
        BY <1>0, <2>2, <3>1, TakeFlow
      <4> QED
        BY <3>1, <4>2, <4>3
    <3>2. CASE UNCHANGED filter /\ iq' = iq \o [j \in 1 .. AnswerSize |-> OtherBytes]
      <4>1. [j \in 1 .. AnswerSize |-> OtherBytes] \in Seq(Windows)
            /\ Len([j \in 1 .. AnswerSize |-> OtherBytes]) = AnswerSize
        BY <2>2, OthersAreWindows
      <4> QED
        BY <1>0, <3>2, <4>1 DEF filter
    <3> QED
      BY <1>3, <3>1, <3>2 DEF ReadChunk
  <2>5. iq' \in Seq(Windows) /\ Len(iq') = Len(iq) + AnswerSize
    BY <1>0, <2>4, ConcatProperties
  <2>6. i' \in Nat /\ i' <= Inputs
    BY <1>0, <2>1, <2>2, <2>3
  <2>7. Len(iq') * Decimation = i' * Interpolation
    <3>1. /\ Decimation \in Nat \ {0} /\ Interpolation \in Nat \ {0}
          /\ ChunkSize \in Nat
      BY <1>0, <2>2, <2>3, FirAssumption
    <3>2. (Len(iq) + AnswerSize) * Decimation
            = Len(iq) * Decimation + AnswerSize * Decimation
      BY <1>0, <2>2, <3>1
    <3>3. (i + ChunkSize) * Interpolation
            = i * Interpolation + ChunkSize * Interpolation
      BY <1>0, <3>1
    <3> QED
      BY <2>1, <2>2, <2>3, <2>5, <3>2, <3>3
  <2>8. FlowType'
    <3>1. phase' \in Phases
      BY <2>1 DEF Phases
    <3> QED
      BY <1>0, <2>1, <2>4, <2>5, <2>6, <3>1, Zenon DEF FlowType
  <2>9. CallFlow'
    <3>1. Inputs' = Inputs
      BY <2>1 DEF Inputs
    <3>2. i' < Inputs \/ phase' = "return"
      BY <2>1, <2>3, <2>6
    <3> QED
      BY <2>1, <2>3, <2>6, <2>7, <3>1, <3>2 DEF CallFlow
  <2>10. AccountsAtRate'
    BY <2>1 DEF FlowInv, AccountsAtRate, Rate
  <2> QED
    BY <2>8, <2>9, <2>10 DEF FlowInv
<1>4. CASE EndWork
  <2>1. /\ phase = "return" /\ Return(n, n)
        /\ UNCHANGED <<n, i, iq, memory, group, resp, failures>>
    BY <1>4 DEF EndWork, filter, call
  <2>2. Len(iq) = n
    <3>1. /\ Decimation \in Nat \ {0}
          /\ Len(iq) * Decimation = n * Decimation
      BY <2>1, FirAssumption DEF FlowInv, CallFlow
    <3>2. (Len(iq) * Decimation) \div Decimation = Len(iq)
      BY <1>0, <3>1, QuotientExact
    <3>3. (n * Decimation) \div Decimation = n
      BY <1>0, <3>1, QuotientExact
    <3> QED
      BY <3>1, <3>2, <3>3
  <2>3. /\ phase' = "running" /\ consumed' \in Nat /\ out' \in Seq(Windows)
        /\ AccountsAtRate'
    BY <2>1, <2>2, ReturnFlow
  <2>4. FlowType'
    BY <1>0, <2>1, <2>3 DEF FlowType, Phases
  <2>5. CallFlow'
    BY <2>3 DEF CallFlow
  <2> QED
    BY <2>3, <2>4, <2>5 DEF FlowInv
<1> QED
  BY <1>1, <1>2, <1>3, <1>4 DEF InCall

(* Every step of every filter keeps the invariant.                         *)
LEMMA NextFlow == FlowInv /\ [Next]_vars => FlowInv'
<1> SUFFICES ASSUME FlowInv, [Next]_vars PROVE FlowInv'
  OBVIOUS
<1>1. CASE \E rd, wr \in Descriptors \cup {NoFd} : Construct(rd, wr)
  BY <1>1, ConstructFlow
<1>2. CASE ResetWrite \/ ResetWriteFails \/ ResetRead \/ ResetReadFails
  BY <1>2, ResetFlow
<1>3. CASE \E count \in 1 .. MaxItems * Interpolation : Work(count)
  BY <1>3, WorkFlow
<1>4. CASE InCall
  BY <1>4, InCallFlow
<1>5. CASE Start \/ Stop \/ Destroy
  <2>1. /\ phase' \in {"running", "ready", "none"}
        /\ UNCHANGED <<n, i, iq, consumed, out, failures, memory, group, resp>>
    BY <1>5 DEF Start, Stop, Destroy, filter, call, stream
  <2>2. FlowType' /\ CallFlow' /\ AccountsAtRate'
    BY <2>1 DEF FlowInv, FlowType, CallFlow, AccountsAtRate, Rate, Phases
  <2> QED
    BY <2>2 DEF FlowInv
<1>6. CASE (\E d \in Descriptors : OtherOpen(d)) \/ Finished \/ UNCHANGED vars
  <2>1. UNCHANGED <<phase, n, i, iq, consumed, out, failures, memory, group, resp>>
    BY <1>6 DEF OtherOpen, Finished, vars, filter, call, stream
  <2>2. Inputs' = Inputs
    BY <2>1 DEF Inputs
  <2>3. FlowType' /\ CallFlow' /\ AccountsAtRate'
    BY <2>1, <2>2 DEF FlowInv, FlowType, CallFlow, AccountsAtRate, Rate
  <2> QED
    BY <2>3 DEF FlowInv
<1> QED
  BY <1>1, <1>2, <1>3, <1>4, <1>5, <1>6 DEF Next

(* Of every filter, and however its calls end, the runtime takes as        *)
(* consumed one input sample for every output sample, and what the base    *)
(* class's rate says once more: the accounts of fir_decim and fir_interp   *)
(* are out by exactly that.                                                *)
THEOREM ConsumesAtRate == Spec => []AccountsAtRate
<1>1. FlowInv => AccountsAtRate
  BY DEF FlowInv
<1> QED
  BY InitFlow, NextFlow, <1>1, PTL DEF Spec

-----------------------------------------------------------------------------
(* Types.                                                                  *)

DeviceType ==
  /\ fd_0 \in Descriptors \cup {NoFd} /\ fd_1 \in Descriptors \cup {NoFd}
  /\ status \in BOOLEAN
  /\ owner \in [Descriptors -> {"rd", "wr", "other", "nobody"}]

Bounded ==
  /\ failures \in 0 .. MaxFailures
  /\ n \in 0 .. MaxItems * Interpolation /\ i \in 0 .. MaxItems
  /\ blocks \in 0 .. MaxBlocks /\ starts \in 0 .. MaxStarts

(* Every step leaves the devices' variables their types.                   *)
LEMMA NextDeviceType == DeviceType /\ [Next]_vars => DeviceType'
<1> SUFFICES ASSUME DeviceType, [Next]_vars PROVE DeviceType'
  OBVIOUS
<1>1. CASE \E rd, wr \in Descriptors \cup {NoFd} : Construct(rd, wr)
  <2>1. PICK rd \in Descriptors \cup {NoFd}, wr \in Descriptors \cup {NoFd} :
          MsgdmaInit(rd, wr)
    BY <1>1 DEF Construct
  <2>2. fd_0' \in Descriptors \cup {NoFd} /\ fd_1' \in Descriptors \cup {NoFd}
    BY <2>1 DEF MsgdmaInit, DeviceType
  <2>3. status' \in BOOLEAN
    BY <2>1 DEF MsgdmaInit
  <2>4. owner' \in [Descriptors -> {"rd", "wr", "other", "nobody"}]
    <3>1. \A d \in Descriptors : owner[d] \in {"rd", "wr", "other", "nobody"}
      BY DEF DeviceType
    <3>2. owner' = [d \in Descriptors |-> CASE d = rd -> "rd" [] d = wr -> "wr"
                                            [] OTHER -> owner[d]]
      BY <2>1 DEF MsgdmaInit
    <3> QED
      BY <3>1, <3>2
  <2> QED
    BY <2>2, <2>3, <2>4 DEF DeviceType
<1>2. CASE Stop \/ Destroy
  <2>1. owner' \in [Descriptors -> {"rd", "wr", "other", "nobody"}]
    BY <1>2 DEF Stop, Destroy, Close, DeviceType
  <2> QED
    BY <1>2, <2>1 DEF Stop, Destroy, DeviceType
<1>3. CASE \E d \in Descriptors : OtherOpen(d)
  <2>1. owner' \in [Descriptors -> {"rd", "wr", "other", "nobody"}]
    BY <1>3 DEF OtherOpen, DeviceType
  <2> QED
    BY <1>3, <2>1 DEF OtherOpen, DeviceType
<1>4. CASE \/ ResetWrite \/ ResetWriteFails \/ ResetRead \/ ResetReadFails
           \/ Start \/ InCall \/ Finished \/ UNCHANGED vars
           \/ \E count \in 1 .. MaxItems * Interpolation : Work(count)
  <2>1. UNCHANGED fds
    BY <1>4 DEF ResetWrite, ResetWriteFails, ResetRead, ResetReadFails, Start,
       InCall, WriteChunk, WriteFails, ReadChunk, ReadFails, EndWork, Finished,
       vars, Work
  <2> QED
    BY <2>1 DEF fds, DeviceType
<1> QED
  BY <1>1, <1>2, <1>3, <1>4 DEF Next

(* Every step of a filter keeps the counters within their bounds: a  *)
(* chunk is never longer than what is left of the call.                    *)
LEMMA NextBounded == FlowInv /\ Bounded /\ [Next]_vars => Bounded'
<1> SUFFICES ASSUME FlowInv, Bounded, [Next]_vars PROVE Bounded'
  OBVIOUS
<1>0. /\ failures \in 0 .. MaxFailures
      /\ n \in 0 .. MaxItems * Interpolation /\ i \in 0 .. MaxItems
      /\ blocks \in 0 .. MaxBlocks /\ starts \in 0 .. MaxStarts
      /\ MaxFailures \in Nat /\ MaxItems \in Nat /\ MaxBlocks \in Nat
      /\ MaxStarts \in Nat /\ MaxItems * Interpolation \in Nat
  <2>1. MaxItems * Interpolation \in Nat
    BY FirAssumption
  <2> QED
    BY <2>1, FirAssumption DEF Bounded
<1>1. CASE \E rd, wr \in Descriptors \cup {NoFd} : Construct(rd, wr)
  <2>1. /\ failures' = 0 /\ n' = 0 /\ i' = 0 /\ starts' = 0
        /\ blocks < MaxBlocks /\ blocks' = blocks + 1
    BY <1>1 DEF Construct
  <2> QED
    BY <1>0, <2>1 DEF Bounded
<1>2. CASE ResetWriteFails \/ ResetReadFails \/ WriteFails \/ ReadFails
  <2>1. /\ \/ failures < MaxFailures /\ failures' = failures + 1
           \/ failures' = failures
        /\ UNCHANGED <<n, i, blocks, starts>>
    BY <1>2 DEF ResetWriteFails, ResetReadFails, WriteFails, ReadFails, call, bounds
  <2> QED
    BY <1>0, <2>1 DEF Bounded
<1>3. CASE Start
  <2>1. /\ starts < MaxStarts /\ starts' = starts + 1
        /\ UNCHANGED <<failures, n, i, blocks>>
    BY <1>3 DEF Start, stream, call
  <2> QED
    BY <1>0, <2>1 DEF Bounded
<1>4. CASE \E count \in 1 .. MaxItems * Interpolation : Work(count)
  <2>1. PICK count \in 1 .. MaxItems * Interpolation : Work(count)
    BY <1>4
  <2>2. /\ n' = n \/ n' = count
        /\ i' = i \/ i' = 0
        /\ UNCHANGED <<failures, blocks, starts>>
    BY <2>1 DEF Work, stream, call, bounds
  <2> QED
    BY <1>0, <2>1, <2>2 DEF Bounded
<1>5. CASE ReadChunk
  <2>1. ChunkSize \in 1 .. Inputs - i /\ i' = i + ChunkSize
    BY <1>5, ChunkFlow DEF ReadChunk
  <2>2. Inputs \in Nat /\ consumed \in Nat /\ consumed + Inputs <= MaxItems
    BY <1>5 DEF ReadChunk, FlowInv, FlowType, CallFlow
  <2>3. i' \in 0 .. MaxItems
    BY <1>0, <2>1, <2>2
  <2>4. UNCHANGED <<failures, n, blocks, starts>>
    BY <1>5 DEF ReadChunk, stream, bounds
  <2> QED
    BY <1>0, <2>3, <2>4 DEF Bounded
<1>6. CASE \/ ResetWrite \/ ResetRead \/ WriteChunk \/ EndWork \/ Stop \/ Destroy
           \/ Finished \/ UNCHANGED vars \/ \E d \in Descriptors : OtherOpen(d)
  <2>1. UNCHANGED <<failures, n, i, blocks, starts>>
    BY <1>6 DEF ResetWrite, ResetRead, WriteChunk, EndWork, Stop, Destroy,
       Finished, vars, OtherOpen, stream, call, bounds
  <2> QED
    BY <2>1 DEF Bounded
<1> QED
  BY <1>1, <1>2, <1>3, <1>4, <1>5, <1>6 DEF Next, InCall

(* In every filter, every variable keeps its type: what the filter and the *)
(* block hold are windows of input samples, and a call of work never gets  *)
(* behind its input.                                                       *)
THEOREM TypeCorrect == Spec => []TypeOK
<1> DEFINE Inv == FlowInv /\ DeviceType /\ Bounded
<1>1. Init => Inv
  <2> SUFFICES ASSUME Init PROVE Inv
    OBVIOUS
  <2>1. DeviceType
    BY DEF Init, DeviceType
  <2>2. Bounded
    <3>1. MaxItems * Interpolation \in Nat
      BY FirAssumption
    <3> QED
      BY <3>1, FirAssumption DEF Init, Bounded
  <2> QED
    BY <2>1, <2>2, InitFlow
<1>2. Inv /\ [Next]_vars => Inv'
  BY NextFlow, NextDeviceType, NextBounded
<1>3. Inv => TypeOK
  <2> SUFFICES ASSUME Inv PROVE TypeOK
    OBVIOUS
  <2>1. /\ memory \in [1 .. Taps - 1 -> Foreign .. MaxItems]
        /\ \A s \in {resp, iq, out} : s \in Seq([1 .. Taps -> Foreign .. MaxItems])
        /\ group \in 0 .. Decimation - 1
    BY DEF FlowInv, FlowType, Sample, Windows
  <2>2. /\ phase \in {"none", "resetWrite", "resetRead", "ready", "running",
                      "write", "read", "return"}
        /\ consumed \in Nat
    BY DEF FlowInv, FlowType, Phases
  <2> QED
    BY <2>1, <2>2 DEF DeviceType, Bounded, TypeOK
<1> HIDE DEF Inv
<1> QED
  BY <1>1, <1>2, <1>3, PTL DEF Spec

-----------------------------------------------------------------------------
(* The plain filter: one answer for every sample.                          *)

Plain == Decimation = 1 /\ Interpolation = 1 /\ ~ SyncBase

(* In the plain filter a chunk's answer is as long as the chunk.           *)
LEMMA PlainSizes ==
  ASSUME Plain, n \in Nat, i \in Nat, i < n
  PROVE  /\ Inputs = n
         /\ ChunkSize \in 1 .. n - i
         /\ AnswerSize = ChunkSize
<1>1. Inputs = n
  BY DEF Inputs, Plain
<1>2. ChunkSize \in 1 .. n - i
  BY <1>1, FirAssumption DEF ChunkSize
<1>3. AnswerSize = ChunkSize
  BY <1>2 DEF AnswerSize, Plain
<1> QED
  BY <1>1, <1>2, <1>3

(* Fed with samples w, the plain filter answers each with the window that  *)
(* ends in it, and keeps the last ones.                                    *)
LEMMA PlainFeed ==
  ASSUME Plain, memory \in [1 .. Taps - 1 -> Sample], group = 0,
         resp \in Seq(Windows), NEW w \in Seq(Sample), Feed(w)
  PROVE  /\ memory' \in [1 .. Taps - 1 -> Sample]
         /\ \A j \in 1 .. Taps - 1 : memory'[j] = (memory \o w)[Len(w) + j]
         /\ group' = 0
         /\ resp' \in Seq(Windows)
         /\ Len(resp') = Len(resp) + Len(w)
         /\ \A j \in 1 .. Len(resp) : resp'[j] = resp[j]
         /\ \A j \in 1 .. Len(w) : resp'[Len(resp) + j] =
              [q \in 1 .. Taps |-> (memory \o w)[(j - 1) + q]]
<1> DEFINE all == memory \o w
           answers == [j \in 1 .. Len(w) |-> SubSeq(all, j, Taps + (j - 1))]
<1>1. /\ Taps \in Nat /\ Taps >= 1
      /\ Len(w) \in Nat
      /\ memory \in Seq(Sample) /\ Len(memory) = Taps - 1
  BY FirAssumption
<1>2. all \in Seq(Sample) /\ Len(all) = (Taps - 1) + Len(w)
  BY <1>1, ConcatProperties
<1>3. /\ memory' = SubSeq(all, Len(w) + 1, Len(all))
      /\ group' = 0
      /\ resp' = resp \o answers
  <2>1. (group + Len(w)) \div Decimation = Len(w) /\ (group + Len(w)) % Decimation = 0
    BY <1>1 DEF Plain
  <2>2. \A j \in 1 .. Len(w) :
          LET e == Taps - 1 + ((j - 1) \div Interpolation + 1) * Decimation - group
          IN  e - Taps + 1 = j /\ e = Taps + (j - 1)
    BY <1>1 DEF Plain
  <2> QED
    BY <1>1, <2>1, <2>2 DEF Feed, Drop, Plain
<1>4. \A q \in 1 .. Len(all) : all[q] \in Sample
  BY <1>2, ElementOfSeq
<1>5. /\ memory' \in Seq(Sample) /\ Len(memory') = Taps - 1
      /\ \A j \in 1 .. Taps - 1 : memory'[j] = all[Len(w) + j]
  <2> HIDE DEF all
  <2>1. \A q \in (Len(w) + 1) .. Len(all) : all[q] \in Sample
    BY <1>1, <1>2, <1>4
  <2>2. Len(all) - (Len(w) + 1) + 1 = Taps - 1 /\ Len(all) \in Int /\ Len(w) + 1 \in Int
    BY <1>1, <1>2
  <2>3. /\ SubSeq(all, Len(w) + 1, Len(all)) \in Seq(Sample)
        /\ Len(SubSeq(all, Len(w) + 1, Len(all))) =
             IF Len(w) + 1 <= Len(all) THEN Len(all) - (Len(w) + 1) + 1 ELSE 0
        /\ \A j \in 1 .. Len(all) - (Len(w) + 1) + 1 :
             SubSeq(all, Len(w) + 1, Len(all))[j] = all[(Len(w) + 1) + j - 1]
    BY <2>1, <2>2, SubSeqProperties
  <2> QED
    BY <1>1, <1>2, <1>3, <2>2, <2>3
<1>6. \A j \in 1 .. Len(w) :
        /\ answers[j] \in Windows
        /\ answers[j] = [q \in 1 .. Taps |-> all[(j - 1) + q]]
  <2> HIDE DEF all
  <2> SUFFICES ASSUME NEW j \in 1 .. Len(w)
               PROVE  /\ SubSeq(all, j, Taps + (j - 1)) \in Windows
                      /\ SubSeq(all, j, Taps + (j - 1)) =
                           [q \in 1 .. Taps |-> all[(j - 1) + q]]
    OBVIOUS
  <2>1. \A q \in j .. Taps + (j - 1) : all[q] \in Sample
    BY <1>1, <1>2, <1>4
  <2>2. /\ SubSeq(all, j, Taps + (j - 1)) \in Seq(Sample)
        /\ Len(SubSeq(all, j, Taps + (j - 1))) = Taps
        /\ \A q \in 1 .. Taps : SubSeq(all, j, Taps + (j - 1))[q] = all[(j - 1) + q]
    BY <1>1, <2>1, SubSeqProperties
  <2>3. SubSeq(all, j, Taps + (j - 1)) \in [1 .. Taps -> Sample]
    BY <2>2, LenProperties
  <2> QED
    BY <2>2, <2>3 DEF Windows
<1>7. answers \in Seq(Windows) /\ Len(answers) = Len(w)
  BY <1>1, <1>6
<1> HIDE DEF answers, all
<1>8. /\ resp' \in Seq(Windows)
      /\ Len(resp') = Len(resp) + Len(w)
      /\ \A j \in 1 .. Len(resp) + Len(w) :
           resp'[j] = IF j <= Len(resp) THEN resp[j] ELSE answers[j - Len(resp)]
  <2>1. /\ resp \o answers \in Seq(Windows)
        /\ Len(resp \o answers) = Len(resp) + Len(answers)
        /\ \A j \in 1 .. Len(resp) + Len(answers) : (resp \o answers)[j] =
             IF j <= Len(resp) THEN resp[j] ELSE answers[j - Len(resp)]
    BY <1>7, ConcatProperties, Zenon
  <2>2. Len(answers) = Len(w) /\ resp' = resp \o answers
    BY <1>3, <1>7
  <2> QED
    BY <2>1, <2>2, Zenon
<1>9. /\ Len(resp) \in Nat
      /\ \A j \in 1 .. Len(resp) : resp'[j] = resp[j]
      /\ \A j \in 1 .. Len(w) : resp'[Len(resp) + j] = answers[j]
  <2>1. Len(resp) \in Nat
    BY LenProperties
  <2> QED
    BY <1>1, <1>8, <2>1
<1>10. memory' \in [1 .. Taps - 1 -> Sample]
  BY <1>5, LenProperties
<1> QED
  BY <1>3, <1>5, <1>6, <1>8, <1>9, <1>10 DEF all

-----------------------------------------------------------------------------
(* In the plain filter samples and output go in step.                      *)

DataType ==
  /\ phase \in Phases
  /\ n \in Nat /\ i \in Nat /\ consumed \in Nat /\ failures \in Nat
  /\ memory \in [1 .. Taps - 1 -> Sample] /\ group = 0
  /\ resp \in Seq(Windows) /\ iq \in Seq(Windows) /\ out \in Seq(Windows)

\* In a call, iq holds an output sample for every input sample behind the
\* chunk, and the chunk is not empty.
CallInRange ==
  /\ phase \in {"write", "read", "return"} =>
       Len(iq) = i /\ i <= n /\ consumed + n <= MaxItems
  /\ phase \in {"write", "read"} => i < n
  /\ phase = "return" => i = n

DataInv == DataType /\ CallInRange /\ consumed = Len(out)

(* That is what FlowInv says of a plain filter.                            *)
LEMMA PlainFlow == Plain /\ FlowInv => DataInv
<1> SUFFICES ASSUME Plain, FlowInv PROVE DataInv
  OBVIOUS
<1>1. /\ Decimation = 1 /\ Interpolation = 1 /\ Rate = 1
      /\ n \in Nat /\ i \in Nat /\ consumed \in Nat
      /\ Len(iq) \in Nat /\ Len(out) \in Nat
  BY LenProperties DEF FlowInv, FlowType, Plain, Rate
<1>2. DataType
  BY <1>1 DEF FlowInv, FlowType, DataType
<1>3. Inputs = n
  BY <1>1 DEF Inputs
<1>4. CallInRange
  BY <1>1, <1>3 DEF FlowInv, CallFlow, CallInRange
<1>5. consumed = Len(out)
  BY <1>1 DEF FlowInv, AccountsAtRate
<1> QED
  BY <1>2, <1>4, <1>5 DEF DataInv

(* A chunk holds the next samples of the call, one answer for each.        *)
LEMMA ChunkIsSamples ==
  ASSUME Plain, DataInv, phase \in {"write", "read"}
  PROVE  /\ ChunkSize \in 1 .. n - i /\ AnswerSize = ChunkSize /\ Inputs = n
         /\ Chunk \in Seq(Sample) /\ Len(Chunk) = ChunkSize
         /\ \A q \in 1 .. ChunkSize : Chunk[q] = (consumed + i) + q
<1>1. /\ n \in Nat /\ i \in Nat /\ i < n /\ consumed \in Nat
      /\ consumed + n <= MaxItems /\ MaxItems \in Nat
  BY FirAssumption DEF DataInv, DataType, CallInRange
<1>2. ChunkSize \in 1 .. n - i /\ AnswerSize = ChunkSize /\ Inputs = n
  BY <1>1, PlainSizes
<1>3. \A q \in 1 .. ChunkSize :
        Chunk[q] = (consumed + i) + q /\ Chunk[q] \in Sample
  BY <1>1, <1>2 DEF Chunk, Sample, Old, Foreign
<1>4. Chunk \in Seq(Sample) /\ Len(Chunk) = ChunkSize
  BY <1>2, <1>3 DEF Chunk
<1> QED
  BY <1>2, <1>3, <1>4

(* A return of work gives the runtime the output made so far, and consumes *)
(* as much.                                                                *)
LEMMA PlainReturn ==
  ASSUME Plain, DataInv, Return(Len(iq), Len(iq))
  PROVE  /\ phase' = "running" /\ consumed' \in Nat
         /\ out' \in Seq(Windows) /\ consumed' = Len(out')
         /\ Len(out') = Len(out) + Len(iq)
         /\ \A k \in 1 .. Len(out) : out'[k] = out[k]
         /\ \A k \in 1 .. Len(iq) : out'[Len(out) + k] = iq[k]
<1>1. /\ iq \in Seq(Windows) /\ Len(iq) \in Nat
      /\ out \in Seq(Windows) /\ Len(out) \in Nat /\ consumed = Len(out)
  BY LenProperties DEF DataInv, DataType
<1>2. SubSeq(iq, 1, Len(iq)) = iq
  BY <1>1, SubSeqFull
<1>3. out' = out \o iq /\ consumed' = consumed + Len(iq) /\ phase' = "running"
  BY <1>1, <1>2 DEF Return, Plain
<1>4. /\ out \o iq \in Seq(Windows) /\ Len(out \o iq) = Len(out) + Len(iq)
      /\ \A k \in 1 .. Len(out) + Len(iq) :
           (out \o iq)[k] = IF k <= Len(out) THEN out[k] ELSE iq[k - Len(out)]
  BY <1>1, ConcatProperties, Zenon
<1> QED
  BY <1>1, <1>3, <1>4

(* For every filter without decimation and interpolation, chunk size and   *)
(* run of refusals, what the runtime takes as consumed between two calls   *)
(* of work is what the output is made from.                                *)
THEOREM PlainAccounts == Plain => (Spec => []AccountsMatch)
<1> SUFFICES ASSUME Plain PROVE Spec => []AccountsMatch
  OBVIOUS
<1>1. FlowInv => AccountsMatch
  <2> SUFFICES ASSUME FlowInv PROVE consumed * Interpolation = Len(out) * Decimation
    BY DEF AccountsMatch
  <2>1. consumed = Len(out) /\ consumed \in Nat
    BY PlainFlow DEF DataInv, DataType
  <2> QED
    BY <2>1 DEF Plain
<1> QED
  BY InitFlow, NextFlow, <1>1, PTL DEF Spec

-----------------------------------------------------------------------------
(* As long as nothing is refused, the plain filter's memory is the samples *)
(* behind the chunk, and an answer is the window its sample asks for.      *)

\* Before the first sample there are zeros.
Val(x) == IF x < 1 THEN 0 ELSE x
Made(k) == [q \in 1 .. Taps |-> Val((k - Taps) + q)]

\* The number of samples of the block that the filter took.
Behind ==
  CASE phase \in {"write", "return"} -> consumed + i
    [] phase = "read"               -> (consumed + i) + ChunkSize
    [] OTHER                        -> consumed

FilterHolds ==
  status /\ phase \notin {"none", "resetWrite"} =>
    \A j \in 1 .. Taps - 1 : memory[j] = Val((Behind - (Taps - 1)) + j)

AnswersHeld ==
  /\ phase = "resetRead" => Len(resp) = ResetItems
  /\ status /\ phase \notin {"none", "resetRead", "read"} => resp = << >>
  /\ phase = "read" =>
       /\ Len(resp) = ChunkSize
       /\ \A j \in 1 .. ChunkSize : resp[j] = Made((consumed + i) + j)

OutputMade ==
  /\ \A k \in 1 .. Len(out) : out[k] = Made(k)
  /\ phase \in {"write", "read", "return"} =>
       \A k \in 1 .. Len(iq) : iq[k] = Made(consumed + k)

\* A block that was started again adds nothing but what another file holds.
OthersFollow ==
  /\ \A k \in 1 .. Len(out) :
       out[k] = Made(k) \/ \A l \in k .. Len(out) : out[l] = OtherBytes
  /\ phase \in {"write", "read", "return"} =>
       \A k \in 1 .. Len(iq) : iq[k] = OtherBytes

\* A block is reset before its first sample, and works only with its devices.
Started ==
  /\ phase \in {"resetWrite", "resetRead"} => status /\ consumed = 0
  /\ phase \in {"write", "read", "return"} => status

\* What the filter and the output hold, while the devices are the block's.
Filtering == FilterHolds /\ AnswersHeld /\ OutputMade

FilterInv ==
  /\ Started
  /\ failures = 0 /\ starts <= 1 => Filtering
  /\ failures = 0 /\ starts > 1 => OthersFollow

(* In the plain filter, the k-th window ends in the k-th sample.           *)
LEMMA PlainWindow ==
  ASSUME Plain, NEW k \in Nat, k >= 1
  PROVE  Window(k) = Made(k)
<1>1. ((k - 1) \div Interpolation + 1) * Decimation = k
  BY DEF Plain
<1>2. Taps \in Nat
  BY FirAssumption
<1> QED
  BY <1>1, <1>2 DEF Window, Made, Val

(* Before the first block nothing is claimed of the filter.                *)
LEMMA InitFilter == Plain /\ Init => FilterInv
<1> SUFFICES ASSUME Plain, Init PROVE FilterInv
  OBVIOUS
<1>1. Started /\ FilterHolds /\ AnswersHeld
  BY DEF Init, Started, FilterHolds, AnswersHeld
<1>2. OutputMade
  BY DEF Init, OutputMade
<1>3. ~ (starts > 1)
  BY DEF Init
<1> QED
  BY <1>1, <1>2, <1>3 DEF FilterInv, Filtering

(* A new block has been given no answers.                                  *)
LEMMA ConstructFilter ==
  ASSUME Plain, DataInv, FilterInv, NEW rd \in Descriptors \cup {NoFd},
         NEW wr \in Descriptors \cup {NoFd}, Construct(rd, wr)
  PROVE  FilterInv'
<1>1. /\ phase' = IF status' THEN "resetWrite" ELSE "ready"
      /\ status' => resp' = << >>
      /\ out' = << >> /\ consumed' = 0
  BY DEF Construct
<1>2. Started' /\ FilterHolds' /\ AnswersHeld'
  BY <1>1 DEF Started, FilterHolds, AnswersHeld
<1>3. OutputMade'
  <2>1. Len(out') = 0 /\ phase' \notin {"write", "read", "return"}
    BY <1>1
  <2> QED
    BY <2>1 DEF OutputMade
<1>4. ~ (starts' > 1)
  BY DEF Construct
<1> QED
  BY <1>2, <1>3, <1>4 DEF FilterInv, Filtering

(* The zeros of resetFIRFilter replace what the filter held.               *)
LEMMA ResetFilter ==
  ASSUME Plain, DataInv, DeviceInv, FilterInv,
         ResetWrite \/ ResetWriteFails \/ ResetRead \/ ResetReadFails
  PROVE  FilterInv'
<1>1. /\ phase \in {"resetWrite", "resetRead"}
      /\ phase' = "resetRead" \/ phase' = "ready"
      /\ UNCHANGED <<consumed, out, status>>
  BY DEF ResetWrite, ResetWriteFails, ResetRead, ResetReadFails, stream, fds
<1>0. starts \in Nat /\ starts <= 1 /\ starts' = starts
  BY <1>1 DEF DeviceInv, OpenInUse, ControlType, bounds, ResetWrite,
     ResetWriteFails, ResetRead, ResetReadFails
<1>2. Started' /\ ~ (starts' > 1)
  BY <1>0, <1>1 DEF FilterInv, Started
<1>3. CASE ResetWriteFails \/ ResetReadFails
  <2>1. failures' = failures + 1
    BY <1>3 DEF ResetWriteFails, ResetReadFails
  <2>2. failures' # 0
    BY <2>1 DEF DataInv, DataType
  <2> QED
    BY <1>2, <2>2 DEF FilterInv
<1>4. CASE ResetWrite
  <2> SUFFICES ASSUME failures = 0, Filtering
               PROVE  FilterHolds' /\ AnswersHeld' /\ OutputMade'
    BY <1>0, <1>2, <1>4 DEF FilterInv, Filtering, ResetWrite, stream
  <2>1. /\ phase = "resetWrite" /\ phase' = "resetRead" /\ Feed(Zeros)
        /\ status /\ consumed = 0 /\ consumed' = 0 /\ out' = out
    BY <1>1, <1>4 DEF ResetWrite, FilterInv, Started
  <2>2. resp = << >>
    BY <2>1 DEF Filtering, AnswersHeld
  <2>3. /\ Zeros \in Seq(Sample) /\ Len(Zeros) = ResetItems
        /\ \A q \in 1 .. ResetItems : Zeros[q] = 0
    BY ZerosAreSamples DEF Zeros
  <2>4. /\ memory \in Seq(Sample) /\ Len(memory) = Taps - 1
        /\ memory \in [1 .. Taps - 1 -> Sample] /\ group = 0 /\ resp \in Seq(Windows)
    BY FirAssumption DEF DataInv, DataType
  <2>5. /\ \A j \in 1 .. Taps - 1 : memory'[j] = (memory \o Zeros)[Len(Zeros) + j]
        /\ Len(resp') = Len(resp) + Len(Zeros)
    BY <2>1, <2>3, <2>4, PlainFeed
  <2>6. \A q \in 1 .. Len(memory) + Len(Zeros) : (memory \o Zeros)[q] =
          IF q <= Len(memory) THEN memory[q] ELSE Zeros[q - Len(memory)]
    BY <2>3, <2>4, ConcatProperties, Zenon
  <2>7. \A j \in 1 .. Taps - 1 : memory'[j] = 0
    <3> SUFFICES ASSUME NEW j \in 1 .. Taps - 1 PROVE memory'[j] = 0
      OBVIOUS
    <3>1. /\ Taps \in Nat /\ ResetItems \in Nat /\ Taps - 1 <= ResetItems
      BY FirAssumption
    <3>2. (memory \o Zeros)[ResetItems + j] = Zeros[(ResetItems + j) - (Taps - 1)]
      BY <2>3, <2>4, <2>6, <3>1
    <3>3. (ResetItems + j) - (Taps - 1) \in 1 .. ResetItems
      BY <3>1
    <3> QED
      BY <2>3, <2>5, <3>2, <3>3
  <2>8. FilterHolds'
    <3>1. Behind' = 0
      BY <2>1 DEF Behind
    <3>2. \A j \in 1 .. Taps - 1 : Val((0 - (Taps - 1)) + j) = 0
      BY FirAssumption DEF Val
    <3> QED
      BY <2>7, <3>1, <3>2 DEF FilterHolds
  <2>9. AnswersHeld'
    <3>1. Len(resp') = ResetItems
      BY <2>2, <2>3, <2>5, FirAssumption
    <3> QED
      BY <2>1, <3>1 DEF AnswersHeld
  <2>10. OutputMade'
    BY <2>1 DEF Filtering, OutputMade
  <2> QED
    BY <2>8, <2>9, <2>10
<1>5. CASE ResetRead
  <2> SUFFICES ASSUME failures = 0, Filtering
               PROVE  FilterHolds' /\ AnswersHeld' /\ OutputMade'
    BY <1>0, <1>2, <1>5 DEF FilterInv, Filtering, ResetRead, stream
  <2>1. /\ phase = "resetRead" /\ phase' = "ready" /\ resp' = Drop(resp, ResetItems)
        /\ memory' = memory /\ status /\ status' = status
        /\ consumed' = consumed /\ out' = out
    BY <1>1, <1>5 DEF ResetRead, Take, FilterInv, Started
  <2>2. FilterHolds'
    <3>1. Behind = consumed /\ Behind' = consumed
      BY <2>1 DEF Behind
    <3> QED
      BY <2>1, <3>1 DEF Filtering, FilterHolds
  <2>3. AnswersHeld'
    <3>1. resp \in Seq(Windows) /\ Len(resp) = ResetItems /\ ResetItems \in Nat
      BY <2>1, FirAssumption DEF Filtering, AnswersHeld, DataInv, DataType
    <3>2. resp' = SubSeq(resp, ResetItems + 1, ResetItems)
      BY <2>1, <3>1 DEF Drop
    <3>3. SubSeq(resp, ResetItems + 1, ResetItems) = << >>
      BY <3>1, SubSeqEmpty
    <3>4. resp' = << >>
      BY <3>2, <3>3
    <3> QED
      BY <2>1, <3>4 DEF AnswersHeld
  <2>4. OutputMade'
    BY <2>1 DEF Filtering, OutputMade
  <2> QED
    BY <2>2, <2>3, <2>4
<1> QED
  BY <1>3, <1>4, <1>5

(* A call of work starts where the filter is.                              *)
LEMMA WorkFilter ==
  ASSUME Plain, DataInv, FilterInv,
         NEW count \in 1 .. MaxItems * Interpolation, Work(count)
  PROVE  FilterInv'
<1>0. starts' = starts
  BY DEF Work, bounds
<1>1. CASE status
  <2>1. /\ phase = "running" /\ phase' = "write" /\ i' = 0 /\ iq' = << >> /\ status'
        /\ UNCHANGED <<memory, resp, consumed, out, failures, status>>
    BY <1>1 DEF Work, filter, stream, fds
  <2>2. Behind = consumed /\ Behind' = consumed
    BY <2>1 DEF Behind, DataInv, DataType
  <2>3. Started'
    BY <2>1 DEF Started
  <2>4. FilterHolds => FilterHolds'
    BY <1>1, <2>1, <2>2 DEF FilterHolds
  <2>5. AnswersHeld => AnswersHeld'
    BY <1>1, <2>1 DEF AnswersHeld
  <2>6. OutputMade => OutputMade'
    BY <2>1 DEF OutputMade
  <2>7. OthersFollow => OthersFollow'
    BY <2>1 DEF OthersFollow, Made, Val
  <2> QED
    BY <1>0, <2>1, <2>3, <2>4, <2>5, <2>6, <2>7 DEF FilterInv, Filtering
<1>2. CASE ~ status
  <2>1. UNCHANGED <<phase, memory, resp, consumed, out, failures, status, n, i, iq>>
    BY <1>2 DEF Work, filter, stream, fds, call
  <2>2. phase = "running"
    BY DEF Work
  <2>3. (FilterHolds => FilterHolds') /\ (AnswersHeld => AnswersHeld')
    BY <1>2, <2>1, <2>2 DEF FilterHolds, AnswersHeld
  <2>4. (OutputMade => OutputMade') /\ (OthersFollow => OthersFollow')
    BY <2>1, <2>2 DEF OutputMade, OthersFollow
  <2> QED
    BY <1>0, <2>1, <2>2, <2>3, <2>4 DEF FilterInv, Filtering, Started
<1> QED
  BY <1>1, <1>2

(* A return of work appends the windows of the samples it consumes.        *)
LEMMA ReturnFilter ==
  ASSUME Plain, DataInv, OutputMade,
         phase \in {"write", "read", "return"}, Return(Len(iq), Len(iq))
  PROVE  OutputMade'
<1>1. /\ phase' = "running" /\ consumed = Len(out) /\ Len(out) \in Nat
      /\ Len(iq) \in Nat /\ Len(out') = Len(out) + Len(iq)
      /\ \A k \in 1 .. Len(out) : out'[k] = out[k]
      /\ \A k \in 1 .. Len(iq) : out'[Len(out) + k] = iq[k]
  <2>1. Len(out) \in Nat /\ Len(iq) \in Nat
    BY LenProperties DEF DataInv, DataType
  <2> QED
    BY <2>1, PlainReturn DEF DataInv
<1>2. /\ \A k \in 1 .. Len(out) : out[k] = Made(k)
      /\ \A k \in 1 .. Len(iq) : iq[k] = Made(Len(out) + k)
  BY <1>1 DEF OutputMade
<1>3. ASSUME NEW k \in 1 .. Len(out') PROVE out'[k] = Made(k)
  <2>1. CASE k <= Len(out)
    BY <1>1, <1>2, <2>1
  <2>2. CASE k > Len(out)
    <3>1. k - Len(out) \in 1 .. Len(iq) /\ Len(out) + (k - Len(out)) = k
      BY <1>1, <2>2
    <3> QED
      BY <1>1, <1>2, <3>1
  <2> QED
    BY <1>1, <2>1, <2>2
<1> QED
  BY <1>1, <1>3 DEF OutputMade

(* What another file held, once there, is followed by nothing else.        *)
LEMMA ReturnOthers ==
  ASSUME Plain, DataInv, OthersFollow,
         phase \in {"write", "read", "return"}, Return(Len(iq), Len(iq))
  PROVE  OthersFollow'
<1>1. /\ phase' = "running" /\ Len(out) \in Nat
      /\ Len(iq) \in Nat /\ Len(out') = Len(out) + Len(iq)
      /\ \A k \in 1 .. Len(out) : out'[k] = out[k]
      /\ \A k \in 1 .. Len(iq) : out'[Len(out) + k] = iq[k]
  <2>1. Len(out) \in Nat /\ Len(iq) \in Nat
    BY LenProperties DEF DataInv, DataType
  <2> QED
    BY <2>1, PlainReturn DEF DataInv
<1>2. ASSUME NEW l \in 1 .. Len(out'), l > Len(out) PROVE out'[l] = OtherBytes
  <2>1. l - Len(out) \in 1 .. Len(iq) /\ Len(out) + (l - Len(out)) = l
    BY <1>1, <1>2
  <2> QED
    BY <1>1, <2>1 DEF OthersFollow
<1>3. ASSUME NEW k \in 1 .. Len(out')
      PROVE  out'[k] = Made(k) \/ \A l \in k .. Len(out') : out'[l] = OtherBytes
  <2>1. CASE k <= Len(out)
    <3>1. k \in 1 .. Len(out)
      BY <1>1, <2>1
    <3>2. CASE out[k] = Made(k)
      BY <1>1, <3>1, <3>2
    <3>3. CASE \A l \in k .. Len(out) : out[l] = OtherBytes
      <4>1. ASSUME NEW l \in k .. Len(out') PROVE out'[l] = OtherBytes
        <5>1. l \in 1 .. Len(out') /\ (l <= Len(out) \/ l > Len(out))
          BY <1>1, <3>1
        <5>2. CASE l <= Len(out)
          <6>1. l \in k .. Len(out) /\ l \in 1 .. Len(out)
            BY <1>1, <3>1, <5>2
          <6> QED
            BY <1>1, <3>3, <6>1
        <5> QED
          BY <1>2, <5>1, <5>2
      <4> QED
        BY <4>1
    <3> QED
      BY <3>1, <3>2, <3>3 DEF OthersFollow
  <2>2. CASE k > Len(out)
    <3>1. \A l \in k .. Len(out') : l \in 1 .. Len(out') /\ l > Len(out)
      BY <1>1, <2>2
    <3> QED
      BY <1>2, <3>1
  <2> QED
    BY <1>1, <2>1, <2>2
<1> QED
  BY <1>1, <1>3 DEF OthersFollow, Made, Val

(* The filter answers a chunk with the windows of its samples.             *)
LEMMA WriteChunkFilter ==
  ASSUME Plain, DataInv, Open, Started, Filtering, WriteChunk
  PROVE  FilterHolds' /\ AnswersHeld' /\ OutputMade'
<1>1. /\ phase = "write" /\ phase' = "read" /\ Feed(Chunk) /\ status
      /\ UNCHANGED <<status, n, i, iq, consumed, out>>
  BY DEF WriteChunk, fds, call, stream, Open, Started
<1>2. /\ ChunkSize \in Nat
      /\ Chunk \in Seq(Sample) /\ Len(Chunk) = ChunkSize
      /\ \A q \in 1 .. ChunkSize : Chunk[q] = (consumed + i) + q
      /\ n \in Nat /\ i \in Nat /\ consumed \in Nat
  BY <1>1, ChunkIsSamples DEF DataInv, DataType
<1>3. /\ Taps \in Nat /\ Taps >= 1
      /\ memory \in Seq(Sample) /\ Len(memory) = Taps - 1
      /\ memory \in [1 .. Taps - 1 -> Sample] /\ group = 0 /\ resp \in Seq(Windows)
  BY FirAssumption DEF DataInv, DataType
<1>4. /\ resp = << >> /\ Len(resp) = 0
      /\ \A j \in 1 .. Taps - 1 :
           memory[j] = Val(((consumed + i) - (Taps - 1)) + j)
  BY <1>1 DEF Filtering, FilterHolds, AnswersHeld, Behind
<1> DEFINE all == memory \o Chunk
<1>5. /\ \A j \in 1 .. Taps - 1 : memory'[j] = all[ChunkSize + j]
      /\ Len(resp') = ChunkSize
      /\ \A j \in 1 .. ChunkSize :
           resp'[j] = [q \in 1 .. Taps |-> all[(j - 1) + q]]
  <2>1. /\ \A j \in 1 .. Taps - 1 : memory'[j] = (memory \o Chunk)[Len(Chunk) + j]
        /\ Len(resp') = Len(resp) + Len(Chunk)
        /\ \A j \in 1 .. Len(Chunk) : resp'[Len(resp) + j] =
             [q \in 1 .. Taps |-> (memory \o Chunk)[(j - 1) + q]]
    BY <1>1, <1>2, <1>3, PlainFeed
  <2> HIDE DEF all
  <2>2. \A j \in 1 .. ChunkSize : Len(resp) + j = j
    BY <1>2, <1>4
  <2>3. Len(resp') = ChunkSize
    BY <1>2, <1>4, <2>1
  <2>4. ASSUME NEW j \in 1 .. ChunkSize
        PROVE  resp'[j] = [q \in 1 .. Taps |-> all[(j - 1) + q]]
    BY <1>2, <2>1, <2>2, Zenon DEF all
  <2> QED
    BY <1>2, <2>1, <2>3, <2>4, Zenon DEF all
<1>6. \A q \in 1 .. (Taps - 1) + ChunkSize :
        all[q] = Val(((consumed + i) - (Taps - 1)) + q)
  <2>1. \A q \in 1 .. Len(memory) + Len(Chunk) : all[q] =
          IF q <= Len(memory) THEN memory[q] ELSE Chunk[q - Len(memory)]
    BY <1>2, <1>3, ConcatProperties, Zenon
  <2> HIDE DEF all
  <2> SUFFICES ASSUME NEW q \in 1 .. (Taps - 1) + ChunkSize
               PROVE  all[q] = Val(((consumed + i) - (Taps - 1)) + q)
    OBVIOUS
  <2>2. all[q] = IF q <= Taps - 1 THEN memory[q] ELSE Chunk[q - (Taps - 1)]
    BY <1>2, <1>3, <2>1
  <2>3. CASE q <= Taps - 1
    BY <1>2, <1>3, <1>4, <2>2, <2>3
  <2>4. CASE q > Taps - 1
    <3>1. q - (Taps - 1) \in 1 .. ChunkSize
      BY <1>2, <1>3, <2>4
    <3>2. all[q] = (consumed + i) + (q - (Taps - 1))
      BY <1>2, <1>3, <2>2, <2>4, <3>1
    <3>3. ((consumed + i) - (Taps - 1)) + q = (consumed + i) + (q - (Taps - 1))
      BY <1>2, <1>3
    <3>4. (consumed + i) + (q - (Taps - 1)) >= 1
      BY <1>2, <1>3, <3>1
    <3>5. Val((consumed + i) + (q - (Taps - 1))) = (consumed + i) + (q - (Taps - 1))
      BY <1>2, <1>3, <3>1, <3>4 DEF Val
    <3> QED
      BY <3>2, <3>3, <3>5
  <2> QED
    BY <1>2, <1>3, <2>3, <2>4
<1> HIDE DEF all
<1>7. ChunkSize' = ChunkSize
  BY <1>1 DEF ChunkSize, Inputs
<1>8. FilterHolds'
  <2>1. Behind' = (consumed + i) + ChunkSize
    BY <1>1, <1>7 DEF Behind
  <2>2. ASSUME NEW j \in 1 .. Taps - 1
        PROVE  memory'[j] = Val((((consumed + i) + ChunkSize) - (Taps - 1)) + j)
    <3>1. ChunkSize + j \in 1 .. (Taps - 1) + ChunkSize
      BY <1>2, <1>3
    <3>2. ((consumed + i) - (Taps - 1)) + (ChunkSize + j)
            = (((consumed + i) + ChunkSize) - (Taps - 1)) + j
      BY <1>2, <1>3
    <3>3. all[ChunkSize + j] = Val(((consumed + i) - (Taps - 1)) + (ChunkSize + j))
      BY <1>6, <3>1
    <3> QED
      BY <1>5, <3>2, <3>3
  <2> QED
    BY <2>1, <2>2 DEF FilterHolds
<1>9. AnswersHeld'
  <2>1. ASSUME NEW j \in 1 .. ChunkSize PROVE resp'[j] = Made((consumed + i) + j)
    <3>1. ASSUME NEW q \in 1 .. Taps
          PROVE  all[(j - 1) + q] = Val((((consumed + i) + j) - Taps) + q)
      <4>1. (j - 1) + q \in 1 .. (Taps - 1) + ChunkSize
        BY <1>2, <1>3
      <4>2. ((consumed + i) - (Taps - 1)) + ((j - 1) + q)
              = (((consumed + i) + j) - Taps) + q
        BY <1>2, <1>3
      <4>3. all[(j - 1) + q] = Val(((consumed + i) - (Taps - 1)) + ((j - 1) + q))
        BY <1>6, <4>1
      <4> QED
        BY <4>2, <4>3
    <3> QED
      BY <1>5, <3>1 DEF Made
  <2>2. ASSUME NEW j \in 1 .. ChunkSize' PROVE resp'[j] = Made((consumed' + i') + j)
    BY <1>1, <1>7, <2>1
  <2> QED
    BY <1>1, <1>5, <1>7, <2>2 DEF AnswersHeld, Made
<1>10. OutputMade'
  BY <1>1 DEF Filtering, OutputMade
<1> QED
  BY <1>8, <1>9, <1>10

(* Reading the answer moves it to the output of the call.                  *)
LEMMA ReadChunkFilter ==
  ASSUME Plain, DataInv, Open, Started, Filtering, ReadChunk
  PROVE  FilterHolds' /\ AnswersHeld' /\ OutputMade'
<1>1. /\ ChunkSize \in Nat /\ AnswerSize = ChunkSize /\ Inputs = n
      /\ n \in Nat /\ i \in Nat /\ consumed \in Nat
  BY ChunkIsSamples DEF ReadChunk, DataInv, DataType
<1>2. /\ phase = "read" /\ phase' \in {"return", "write"} /\ status
      /\ resp' = Drop(resp, ChunkSize) /\ memory' = memory
      /\ iq' = iq \o SubSeq(resp, 1, ChunkSize) /\ i' = i + ChunkSize
      /\ UNCHANGED <<status, n, consumed, out>>
  BY <1>1 DEF ReadChunk, Take, fds, stream, Open, Started
<1>3. /\ resp \in Seq(Windows) /\ Len(resp) = ChunkSize
      /\ \A j \in 1 .. ChunkSize : resp[j] = Made((consumed + i) + j)
  BY <1>2 DEF Filtering, AnswersHeld, DataInv, DataType
<1>4. FilterHolds'
  <2>1. Behind = (consumed + i) + ChunkSize /\ Behind' = (consumed + i) + ChunkSize
    BY <1>1, <1>2 DEF Behind
  <2> QED
    BY <1>2, <2>1 DEF Filtering, FilterHolds
<1>5. AnswersHeld'
  <2>1. resp' = SubSeq(resp, ChunkSize + 1, ChunkSize)
    BY <1>2, <1>3 DEF Drop
  <2>2. SubSeq(resp, ChunkSize + 1, ChunkSize) = << >>
    BY <1>1, SubSeqEmpty
  <2>3. resp' = << >>
    BY <2>1, <2>2
  <2> QED
    BY <1>2, <2>3 DEF AnswersHeld
<1>6. OutputMade'
  <2>1. /\ iq \in Seq(Windows) /\ Len(iq) = i
        /\ \A k \in 1 .. i : iq[k] = Made(consumed + k)
    BY <1>2 DEF Filtering, OutputMade, DataInv, DataType, CallInRange
  <2>2. SubSeq(resp, 1, ChunkSize) = resp
    BY <1>3, SubSeqFull
  <2>3. iq' = iq \o resp
    BY <1>2, <2>2
  <2>4. /\ Len(iq \o resp) = Len(iq) + Len(resp)
        /\ \A k \in 1 .. Len(iq) + Len(resp) :
             (iq \o resp)[k] = IF k <= Len(iq) THEN iq[k] ELSE resp[k - Len(iq)]
    BY <1>3, <2>1, ConcatProperties, Zenon
  <2>5. ASSUME NEW k \in 1 .. Len(iq') PROVE iq'[k] = Made(consumed + k)
    <3>1. k \in 1 .. i + ChunkSize
      BY <1>1, <1>3, <2>1, <2>3, <2>4
    <3>2. iq'[k] = IF k <= i THEN iq[k] ELSE resp[k - i]
      BY <1>3, <2>1, <2>3, <2>4, <3>1
    <3>3. CASE k <= i
      BY <1>1, <2>1, <3>1, <3>2, <3>3
    <3>4. CASE k > i
      <4>1. k - i \in 1 .. ChunkSize /\ (consumed + i) + (k - i) = consumed + k
        BY <1>1, <3>1, <3>4
      <4>2. resp[k - i] = Made((consumed + i) + (k - i))
        BY <1>3, <4>1
      <4> QED
        BY <1>1, <3>1, <3>2, <3>4, <4>1, <4>2
    <3> QED
      BY <1>1, <3>1, <3>3, <3>4
  <2> QED
    BY <1>2, <2>5 DEF Filtering, OutputMade
<1> QED
  BY <1>4, <1>5, <1>6

(* While the devices are the block's, each step of work keeps what is      *)
(* known; a refusal ends the claim.                                        *)
LEMMA OpenCallFilter ==
  ASSUME Plain, DataInv, Open, Started, Filtering, failures = 0, InCall
  PROVE  failures' = 0 => Filtering'
<1>1. CASE WriteFails \/ ReadFails
  BY <1>1 DEF WriteFails, ReadFails, Open
<1>2. CASE WriteChunk
  BY <1>2, WriteChunkFilter DEF Filtering
<1>3. CASE ReadChunk
  BY <1>3, ReadChunkFilter DEF Filtering
<1>4. CASE EndWork
  <2>1. Return(Len(iq), Len(iq)) /\ Len(iq) = n /\ i = n /\ phase = "return"
    BY <1>4 DEF EndWork, DataInv, CallInRange
  <2>2. OutputMade'
    BY <2>1, ReturnFilter DEF Filtering
  <2>3. consumed' = consumed + i /\ phase' = "running"
    BY <2>1 DEF Return, Plain, DataInv, DataType
  <2>4. UNCHANGED <<status, memory, resp>>
    BY <1>4 DEF EndWork, fds, filter
  <2>5. Behind = consumed + i /\ Behind' = consumed + i
    BY <2>1, <2>3 DEF Behind
  <2>6. FilterHolds'
    BY <2>1, <2>3, <2>4, <2>5 DEF Filtering, FilterHolds
  <2>7. AnswersHeld'
    BY <2>1, <2>3, <2>4 DEF Filtering, AnswersHeld
  <2> QED
    BY <2>2, <2>6, <2>7 DEF Filtering
<1> QED
  BY <1>1, <1>2, <1>3, <1>4 DEF InCall

(* Once they are closed, a call adds what another file holds, or nothing.  *)
LEMMA ClosedCallFilter ==
  ASSUME Plain, DataInv, Closed, OthersFollow, InCall
  PROVE  OthersFollow'
<1>1. CASE WriteFails \/ ReadFails
  BY <1>1, ReturnOthers DEF WriteFails, ReadFails
<1>2. CASE WriteChunk
  <2>1. phase = "write" /\ UNCHANGED <<iq, out>>
    BY <1>2 DEF WriteChunk, call, stream
  <2> QED
    BY <2>1 DEF OthersFollow, Made, Val
<1>3. CASE ReadChunk
  <2> DEFINE answer == [j \in 1 .. AnswerSize |-> OtherBytes]
  <2>1. /\ phase = "read" /\ iq' = iq \o answer /\ out' = out
        /\ AnswerSize \in Nat
    BY <1>3, ChunkIsSamples DEF ReadChunk, Closed, stream, DataInv, DataType
  <2>2. /\ iq \in Seq(Windows) /\ Len(iq) \in Nat
        /\ \A k \in 1 .. Len(iq) : iq[k] = OtherBytes
    BY <2>1, LenProperties DEF OthersFollow, DataInv, DataType
  <2>3. answer \in Seq(Windows) /\ Len(answer) = AnswerSize
    BY <2>1, OthersAreWindows
  <2>4. \A k \in 1 .. AnswerSize : answer[k] = OtherBytes
    OBVIOUS
  <2> HIDE DEF answer
  <2>5. /\ Len(iq') = Len(iq) + AnswerSize
        /\ \A k \in 1 .. Len(iq) + AnswerSize :
             iq'[k] = IF k <= Len(iq) THEN iq[k] ELSE answer[k - Len(iq)]
    BY <2>1, <2>2, <2>3, ConcatProperties
  <2>6. ASSUME NEW k \in 1 .. Len(iq') PROVE iq'[k] = OtherBytes
    <3>1. k \in 1 .. Len(iq) \/ k - Len(iq) \in 1 .. AnswerSize
      BY <2>1, <2>2, <2>5
    <3> QED
      BY <2>1, <2>2, <2>4, <2>5, <3>1
  <2> QED
    BY <2>1, <2>6 DEF OthersFollow, Made, Val
<1>4. CASE EndWork
  <2>1. Return(Len(iq), Len(iq)) /\ phase = "return"
    BY <1>4 DEF EndWork, DataInv, CallInRange
  <2> QED
    BY <2>1, ReturnOthers
<1> QED
  BY <1>1, <1>2, <1>3, <1>4 DEF InCall

(* Each step of work keeps the invariant.                                  *)
LEMMA InCallFilter ==
  ASSUME Plain, DataInv, DeviceInv, FilterInv, InCall
  PROVE  FilterInv'
<1>1. /\ phase \in {"write", "read", "return"}
      /\ status' = status /\ starts' = starts /\ starts \in Nat
      /\ phase' \in {"running", "write", "read", "return"}
  BY DEF InCall, WriteChunk, WriteFails, ReadChunk, ReadFails, EndWork, Return,
     fds, bounds, DeviceInv, ControlType
<1>2. Started'
  BY <1>1 DEF FilterInv, Started
<1>3. failures \in Nat /\ (failures' = 0 => failures = 0)
  <2>1. failures' = failures \/ failures' = failures + 1
    BY DEF InCall, WriteChunk, WriteFails, ReadChunk, ReadFails, EndWork, stream
  <2>2. failures \in Nat
    BY DEF DataInv, DataType
  <2> QED
    BY <2>1, <2>2
<1>4. (starts <= 1 => Open) /\ (starts > 1 => Closed)
  BY <1>1, DeviceInCall
<1>5. ASSUME failures' = 0, starts <= 1 PROVE Filtering'
  BY <1>3, <1>4, <1>5, OpenCallFilter DEF FilterInv
<1>6. ASSUME failures' = 0, starts > 1 PROVE OthersFollow'
  BY <1>3, <1>4, <1>6, ClosedCallFilter DEF FilterInv
<1> QED
  BY <1>1, <1>2, <1>5, <1>6 DEF FilterInv

(* A second start ends what is known of the filter, but not of the output. *)
LEMMA StartFilter ==
  ASSUME DeviceInv, FilterInv, Start
  PROVE  FilterInv'
<1>1. /\ phase = "ready" /\ phase' = "running" /\ starts' = starts + 1
      /\ starts \in Nat
      /\ UNCHANGED <<status, i, iq, consumed, out, failures, memory, resp>>
  BY DEF Start, filter, call, stream, fds, DeviceInv, ControlType
<1>2. Behind = consumed /\ Behind' = consumed
  BY <1>1 DEF Behind
<1>3. Started'
  BY <1>1 DEF Started
<1>4. (FilterHolds => FilterHolds') /\ (AnswersHeld => AnswersHeld')
  BY <1>1, <1>2 DEF FilterHolds, AnswersHeld
<1>5. (OutputMade => OutputMade') /\ (OutputMade => OthersFollow')
  BY <1>1 DEF OutputMade, OthersFollow, Made, Val
<1>6. OthersFollow => OthersFollow'
  BY <1>1 DEF OthersFollow, Made, Val
<1> QED
  BY <1>1, <1>3, <1>4, <1>5, <1>6 DEF FilterInv, Filtering

(* Every step of a plain filter keeps the invariant.                       *)
LEMMA NextFilter ==
  Plain /\ DataInv /\ DeviceInv /\ FilterInv /\ [Next]_vars => FilterInv'
<1> SUFFICES ASSUME Plain, DataInv, DeviceInv, FilterInv, [Next]_vars
             PROVE  FilterInv'
  OBVIOUS
<1>1. CASE \E rd, wr \in Descriptors \cup {NoFd} : Construct(rd, wr)
  BY <1>1, ConstructFilter
<1>2. CASE ResetWrite \/ ResetWriteFails \/ ResetRead \/ ResetReadFails
  BY <1>2, ResetFilter
<1>3. CASE \E count \in 1 .. MaxItems * Interpolation : Work(count)
  BY <1>3, WorkFilter
<1>4. CASE InCall
  BY <1>4, InCallFilter
<1>5. CASE Start
  BY <1>5, StartFilter
<1>6. CASE Stop \/ Destroy
  <2>1. /\ phase \in {"ready", "running"} /\ phase' \in {"ready", "none"}
        /\ UNCHANGED <<status, i, iq, consumed, out, failures, memory, resp, starts>>
    BY <1>6 DEF Stop, Destroy, filter, call, stream, fds, bounds
  <2>2. Behind = consumed /\ Behind' = consumed
    BY <2>1 DEF Behind
  <2>3. Started'
    BY <2>1 DEF Started
  <2>4. (FilterHolds => FilterHolds') /\ (AnswersHeld => AnswersHeld')
    BY <2>1, <2>2 DEF FilterHolds, AnswersHeld
  <2>5. (OutputMade => OutputMade') /\ (OthersFollow => OthersFollow')
    BY <2>1 DEF OutputMade, OthersFollow, Made, Val
  <2> QED
    BY <2>1, <2>3, <2>4, <2>5 DEF FilterInv, Filtering
<1>7. CASE (\E d \in Descriptors : OtherOpen(d)) \/ Finished \/ UNCHANGED vars
  <2>1. UNCHANGED <<phase, status, n, i, iq, consumed, out, failures, memory, resp,
                    starts>>
    BY <1>7 DEF OtherOpen, Finished, vars, filter, call, stream, fds, bounds
  <2>2. ChunkSize' = ChunkSize /\ Behind' = Behind
    BY <2>1 DEF ChunkSize, Inputs, Behind
  <2> QED
    BY <2>1, <2>2 DEF FilterInv, Filtering, Started, FilterHolds, AnswersHeld,
       OutputMade, OthersFollow
<1> QED
  BY <1>1, <1>2, <1>3, <1>4, <1>5, <1>6, <1>7 DEF Next

(* For every filter without decimation and interpolation, number of taps   *)
(* and chunk size, and however often a block is started: as long as the    *)
(* devices refuse nothing, the k-th output sample is made from the inputs  *)
(* up to the k-th and from zeros before them, or, of a block that was      *)
(* started again, it and all that follow are what another file held.       *)
THEOREM PlainFilters == Plain => (Spec => []OutputFiltered)
<1> SUFFICES ASSUME Plain PROVE Spec => []OutputFiltered
  OBVIOUS
<1> DEFINE Inv == FlowInv /\ DeviceInv /\ FilterInv
<1>1. Init => Inv
  BY InitFlow, InitDevice, InitFilter
<1>2. Inv /\ [Next]_vars => Inv'
  BY NextFlow, PlainFlow, NextDevice, NextFilter
<1>3. Inv => OutputFiltered
  <2> SUFFICES ASSUME DataInv, DeviceInv, FilterInv, failures = 0,
                      NEW k \in 1 .. Len(out)
               PROVE  \/ out[k] = Window(k)
                      \/ starts > 1 /\ \A l \in k .. Len(out) : out[l] = OtherBytes
    BY PlainFlow DEF OutputFiltered
  <2>1. k \in Nat /\ k >= 1
    BY LenProperties DEF DataInv, DataType
  <2>2. starts <= 1 \/ starts > 1
    BY DEF DeviceInv, ControlType
  <2>3. starts <= 1 => out[k] = Made(k)
    BY DEF FilterInv, Filtering, OutputMade
  <2>4. starts > 1 =>
          out[k] = Made(k) \/ \A l \in k .. Len(out) : out[l] = OtherBytes
    BY DEF FilterInv, OthersFollow
  <2> QED
    BY <2>1, <2>2, <2>3, <2>4, PlainWindow
<1> HIDE DEF Inv
<1> QED
  BY <1>1, <1>2, <1>3, PTL DEF Spec
=============================================================================
