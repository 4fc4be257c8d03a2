------------------------------ MODULE SdrSink ------------------------------
(***************************************************************************)
(* The sink block, lib/altera_socfpga_sdr_sink_complex_impl.cc: GNU        *)
(* Radio's scheduler thread puts the samples it is given into the FIFO     *)
(* buffer (work) and starts and stops the block; a worker thread of the    *)
(* block takes them out and writes them to the DMA device; the application *)
(* constructs and destroys the block.  The FIFO buffer, the descriptor and *)
(* the exit flag are static: they outlive the block.                       *)
(*                                                                         *)
(* A sample is its number in the input, 1, 2, ...; the word work makes of  *)
(* it stands for it; a byte is a word and its place in it.  The rate       *)
(* limiting in work only takes time and is left out.                       *)
(***************************************************************************)
EXTENDS Integers, Sequences

CONSTANTS
  Capacity,        \* the words the FIFO buffer holds
  BlockItems,      \* CONST_WRITE_STORAGE_BUFFER_SIZE
  OutputMultiple,  \* CONST_OUTPUT_MULTIPLE: work gets a multiple of it
  Descriptors,     \* the file descriptors of the process
  NoFd,            \* -1
  MaxItems,        \* bound: the samples a block is given
  MaxBlocks,       \* bound: how often a block is constructed
  MaxStarts        \* bound: how often a block is started

ASSUME SinkAssumption ==
  /\ Capacity \in Nat
  /\ BlockItems \in Nat \ {0}
  /\ OutputMultiple \in Nat \ {0}
  /\ NoFd \notin Descriptors
  /\ MaxItems \in Nat /\ MaxBlocks \in Nat /\ MaxStarts \in Nat

VARIABLES
  q, cap, ret,  \* m_fifo: see BoundedFifo; ret is what its calls returned
  fd,           \* fd_1
  exit,         \* m_exit_requested
  owner,        \* who has each descriptor open: "sink", "other" or "nobody"
  dev,          \* the bytes the device took since it was opened
  phase,        \* where the scheduler, or the application, is in the block
  worker,       \* where the worker thread is
  consumed,     \* how many samples the runtime took as consumed
  blocks,       \* bound: how often a block was constructed
  starts        \* bound: how often this block was started

fifo == <<q, cap, ret>>
vars == <<fifo, fd, exit, owner, dev, phase, worker, consumed, blocks, starts>>

\* The samples a .. b of the input.
Samples(a, b) == [i \in 1 .. b - a + 1 |-> a + i - 1]

Fifo == INSTANCE BoundedFifo WITH
  Threads <- {"scheduler", "worker"},
  Batches <- {Samples(1, n) : n \in 0 .. MaxItems},
  Counts  <- {BlockItems},
  Caps    <- {Capacity}

\* The TX state machine: the four bytes of each word, in order.  It takes
\* four bytes of every word, so each block starts in CONST_WRITE_WORD_0.
Bytes(words) ==
  [i \in 1 .. 4 * Len(words) |-> <<words[(i - 1) \div 4 + 1], (i - 1) % 4>>]

Ended == worker \in {"done", "failed"}

-----------------------------------------------------------------------------
(* Wrong variants, one mistake each, that the properties tell from the     *)
(* code.                                                                   *)

\* msgdmaDeInit that does not wait for the worker thread.
JoinDetached(from, to) ==
  /\ phase = from
  /\ phase' = to
  /\ UNCHANGED <<fifo, fd, exit, owner, dev, worker, consumed, blocks, starts>>

\* msgdmaDeInit that does not ask the worker thread to end.
AskNobody(from, to) ==
  /\ phase = from
  /\ phase' = to
  /\ UNCHANGED <<fifo, fd, exit, owner, dev, worker, consumed, blocks, starts>>

\* msgdmaDeInit that closes the descriptor to wake the worker thread.
AskAndClose(from, to) ==
  /\ phase = from
  /\ phase' = to
  /\ exit' = TRUE
  /\ owner' = IF fd = NoFd THEN owner ELSE [owner EXCEPT ![fd] = "nobody"]
  /\ UNCHANGED <<fifo, fd, dev, worker, consumed, blocks, starts>>

\* A worker that only takes full blocks.
ReadFullBlocks ==
  /\ worker = "read"
  /\ IF Len(q) < BlockItems
     THEN UNCHANGED fifo /\ worker' = "check"
     ELSE Fifo!Read("worker", BlockItems) /\ worker' = "write"
  /\ UNCHANGED <<fd, exit, owner, dev, phase, consumed, blocks, starts>>

\* A worker that goes on after a short write.
ShortWriteIgnored ==
  /\ worker = "write"
  /\ worker' = "check"
  /\ \E k \in 0 .. 4 * ret["worker"].count - 1 :
       dev' = dev \o SubSeq(Bytes(ret["worker"].data), 1, k)
  /\ UNCHANGED <<fifo, fd, exit, owner, phase, consumed, blocks, starts>>

-----------------------------------------------------------------------------

Init ==
  /\ q = << >>
  /\ cap = Capacity
  /\ ret = [t \in {"scheduler", "worker"} |-> Fifo!NoResult]
  /\ fd = NoFd
  /\ exit = FALSE
  /\ owner = [d \in Descriptors |-> "nobody"]
  /\ dev = << >>
  /\ phase = "none"
  /\ worker = "done"
  /\ consumed = 0
  /\ blocks = 0
  /\ starts = 0

\* The constructor opens and resets the device (msgdmaInit), makes the FIFO
\* buffer anew if that succeeded, and starts the worker thread either way.
Construct(d) ==
  /\ phase = "none"
  /\ blocks < MaxBlocks
  /\ blocks' = blocks + 1
  /\ starts' = 0
  /\ consumed' = 0
  /\ phase' = "ready"
  /\ worker' = "start"
  /\ fd' = d
  /\ IF d = NoFd
     THEN /\ exit' = TRUE
          /\ UNCHANGED <<fifo, owner, dev>>
     ELSE /\ owner[d] = "nobody"
          /\ owner' = [owner EXCEPT ![d] = "sink"]
          /\ dev' = << >>
          /\ exit' = FALSE
          /\ Fifo!ChangeSize(Capacity)

Start ==
  /\ phase = "ready"
  /\ starts < MaxStarts
  /\ starts' = starts + 1
  /\ phase' = "running"
  /\ UNCHANGED <<fifo, fd, exit, owner, dev, worker, consumed, blocks>>

\* work, up to the call of fifo_write_storage: it is given the samples after
\* those already consumed.
Work(n) ==
  /\ phase = "running"
  /\ consumed + n <= MaxItems
  /\ Fifo!Write("scheduler", Samples(consumed + 1, consumed + n))
  /\ phase' = "working"
  /\ UNCHANGED <<fd, exit, owner, dev, worker, consumed, blocks, starts>>

\* The rest of work, after it has slept: consume_each(items_consumed).
Consume ==
  /\ phase = "working"
  /\ phase' = "running"
  /\ consumed' = consumed + ret["scheduler"].count
  /\ UNCHANGED <<fifo, fd, exit, owner, dev, worker, blocks, starts>>

\* msgdmaDeInit, called from stop and from the destructor: set the exit flag
\* under fp_mutex, ...
AskToExit(from, to) ==
  /\ phase = from
  /\ phase' = to
  /\ exit' = TRUE
  /\ UNCHANGED <<fifo, fd, owner, dev, worker, consumed, blocks, starts>>

\* ... and join the worker thread, which returns at once when it was joined
\* before.
Join(from, to) ==
  /\ phase = from
  /\ Ended
  /\ phase' = to
  /\ UNCHANGED <<fifo, fd, exit, owner, dev, worker, consumed, blocks, starts>>

\* if(fd_1 != -1) close(fd_1), after which fd_1 keeps its value.
Close(from, to) ==
  /\ phase = from
  /\ phase' = to
  /\ owner' = IF fd = NoFd THEN owner ELSE [owner EXCEPT ![fd] = "nobody"]
  /\ UNCHANGED <<fifo, fd, exit, dev, worker, consumed, blocks, starts>>

Stop ==
  \/ AskToExit("running", "stop join")
  \/ Join("stop join", "stop close")
  \/ Close("stop close", "ready")

Destroy ==
  \/ AskToExit("ready", "destroy join")
  \/ Join("destroy join", "destroy close")
  \/ Close("destroy close", "none")

-----------------------------------------------------------------------------
(* The worker thread, altera_msgdma_sdr_sink_wait.                         *)

WorkerStart ==
  /\ worker = "start"
  /\ worker' = IF exit THEN "done" ELSE "read"
  /\ UNCHANGED <<fifo, fd, exit, owner, dev, phase, consumed, blocks, starts>>

WorkerRead ==
  /\ worker = "read"
  /\ Fifo!Read("worker", BlockItems)
  /\ worker' = IF ret'["worker"].count > 0 THEN "write" ELSE "check"
  /\ UNCHANGED <<fd, exit, owner, dev, phase, consumed, blocks, starts>>

WorkerWrite ==
  /\ worker = "write"
  /\ worker' = "check"
  /\ dev' = dev \o Bytes(ret["worker"].data)
  /\ UNCHANGED <<fifo, fd, exit, owner, phase, consumed, blocks, starts>>

\* write returns less than length, or -1: the thread ends.
WorkerWriteFails ==
  /\ worker = "write"
  /\ worker' = "failed"
  /\ \E k \in 0 .. 4 * ret["worker"].count - 1 :
       dev' = dev \o SubSeq(Bytes(ret["worker"].data), 1, k)
  /\ UNCHANGED <<fifo, fd, exit, owner, phase, consumed, blocks, starts>>

\* After sleeping if there was nothing to write: look at the exit flag under
\* fp_mutex.
WorkerCheck ==
  /\ worker = "check"
  /\ worker' = IF exit THEN "done" ELSE "read"
  /\ UNCHANGED <<fifo, fd, exit, owner, dev, phase, consumed, blocks, starts>>

Worker ==
  \/ WorkerStart
  \/ WorkerRead
  \/ WorkerWrite
  \/ WorkerWriteFails
  \/ WorkerCheck

\* Another part of the program opens a file and keeps it open.
OtherOpen(d) ==
  /\ owner[d] = "nobody"
  /\ owner' = [owner EXCEPT ![d] = "other"]
  /\ UNCHANGED <<fifo, fd, exit, dev, phase, worker, consumed, blocks, starts>>

\* The last block is gone and nothing more can happen.
Finished ==
  /\ phase = "none"
  /\ blocks = MaxBlocks
  /\ Ended
  /\ UNCHANGED vars

Next ==
  \/ \E d \in Descriptors \cup {NoFd} : Construct(d)
  \/ Start
  \/ \E k \in 1 .. MaxItems : Work(k * OutputMultiple)
  \/ Consume
  \/ Stop
  \/ Destroy
  \/ Worker
  \/ \E d \in Descriptors : OtherOpen(d)
  \/ Finished

Spec == Init /\ [][Next]_vars

\* The worker thread runs, the device answers, and a call into the block that
\* has begun goes on.  Nothing says that the runtime calls the block again.
FairSpec ==
  /\ Spec
  /\ WF_vars(Worker)
  /\ WF_vars(Consume)
  /\ WF_vars(Join("stop join", "stop close"))
  /\ WF_vars(Close("stop close", "ready"))
  /\ WF_vars(Join("destroy join", "destroy close"))
  /\ WF_vars(Close("destroy close", "none"))

-----------------------------------------------------------------------------

\* The samples work has put into the FIFO buffer.
Accepted ==
  consumed + (IF phase = "working" THEN ret["scheduler"].count ELSE 0)

\* The words the worker thread has taken out and not written yet.
Taken == IF worker = "write" THEN ret["worker"].data ELSE << >>

(* Every variable keeps its type.                                          *)
TypeOK ==
  /\ q \in Seq(1 .. MaxItems) /\ Len(q) <= cap
  /\ cap = Capacity
  /\ ret \in [{"scheduler", "worker"} ->
                [op : {"none", "write", "read"}, count : Nat,
                 data : Seq(1 .. MaxItems)]]
  /\ fd \in Descriptors \cup {NoFd}
  /\ exit \in BOOLEAN
  /\ owner \in [Descriptors -> {"nobody", "sink", "other"}]
  /\ dev \in Seq((1 .. MaxItems) \X (0 .. 3))
  /\ phase \in {"none", "ready", "running", "working", "stop join",
                "stop close", "destroy join", "destroy close"}
  /\ worker \in {"start", "read", "write", "check", "done", "failed"}
  /\ consumed \in 0 .. MaxItems
  /\ blocks \in 0 .. MaxBlocks
  /\ starts \in 0 .. MaxStarts

(* What the runtime counts as consumed is what is on its way: the bytes    *)
(* the device took, then the block the worker holds, then the FIFO buffer  *)
(* are the input, each sample once and in order, although the input is     *)
(* taken in pieces and the device is fed by another thread.  A write that  *)
(* fails loses the rest of its block and nothing after it.                 *)
StreamConserved ==
  phase # "none" /\ fd # NoFd =>
    IF worker = "failed"
    THEN /\ dev = SubSeq(Bytes(Samples(1, Accepted)), 1, Len(dev))
         /\ q = Samples(Accepted - Len(q) + 1, Accepted)
         /\ Accepted - Len(q) - Len(dev) \div 4 \in 1 .. BlockItems
    ELSE dev \o Bytes(Taken) \o Bytes(q) = Bytes(Samples(1, Accepted))

(* The worker thread writes to the descriptor its block opened, never to   *)
(* one that was closed under it or handed to another part of the program:  *)
(* stop and the destructor close it only once the thread has ended.        *)
WritesOwnDevice == worker = "write" => fd # NoFd /\ owner[fd] = "sink"

(* The worker thread is a member function: it never runs on when its block *)
(* is destroyed, or while another one is constructed.                      *)
ThreadEndsFirst == phase \in {"none", "destroy close"} => Ended

(* stop and the destructor return: the worker thread sees the exit flag    *)
(* wherever it is, also when it fails or never got to its loop.            *)
StopReturns ==
  /\ phase \in {"stop join", "stop close"} ~> phase = "ready"
  /\ phase \in {"destroy join", "destroy close"} ~> phase = "none"

(* Every sample accepted is written to the device, unless the worker       *)
(* thread ends first, being stopped or failing.                            *)
Delivered ==
  \A i \in 1 .. MaxItems :
    Accepted >= i /\ ~ Ended ~> Len(dev) >= 4 * i \/ Ended

(* "Close /dev/altera_msgdma_wr0 ..." (lines 161 and 176): the sink closes *)
(* the device it opened and no file of another part of the program.        *)
ClosesOwnDevice ==
  [][\A d \in Descriptors : owner[d] = "other" => owner'[d] = "other"]_vars
=============================================================================
