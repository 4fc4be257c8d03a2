----------------------------- MODULE SdrSource -----------------------------
(***************************************************************************)
(* The source block, lib/altera_socfpga_sdr_source_complex_impl.cc: a      *)
(* worker thread of the block reads blocks of bytes from the DMA device,   *)
(* makes words of them (SyncParser) and puts the words into the FIFO       *)
(* buffer; GNU Radio's scheduler thread takes them out (work) and starts   *)
(* and stops the block; the application constructs and destroys it.  The   *)
(* FIFO buffer, the descriptor and the exit flag are static: they outlive  *)
(* the block.                                                              *)
(*                                                                         *)
(* The words the parser makes are numbered 1, 2, ... in the order of the   *)
(* device, through the life of the process; a word stands for the sample   *)
(* work decodes from it.                                                   *)
(***************************************************************************)
EXTENDS Integers, Sequences

CONSTANTS
  Capacity,        \* the words the FIFO buffer holds
  BlockWords,      \* CONST_READ_STORAGE_BUFFER_SIZE: words in one block
  OutputMultiple,  \* CONST_OUTPUT_MULTIPLE: work is asked for a multiple
  MaxOutput,       \* bound: multiples work is asked for at once
  DummyReads,      \* CONST_DUMMY_READS
  Descriptors,     \* the file descriptors of the process
  NoFd,            \* -1
  MaxWords,        \* bound: the words the parser makes
  MaxBlocks,       \* bound: how often a block is constructed
  MaxStarts        \* bound: how often a block is started

ASSUME SourceAssumption ==
  /\ Capacity \in Nat
  /\ BlockWords \in Nat
  /\ OutputMultiple \in Nat \ {0}
  /\ MaxOutput \in Nat
  /\ DummyReads \in Nat
  /\ NoFd \notin Descriptors
  /\ MaxWords \in Nat /\ MaxBlocks \in Nat /\ MaxStarts \in Nat

VARIABLES
  q, cap, ret,  \* m_fifo: see BoundedFifo; ret is what its calls returned
  fd,           \* fd_0
  exit,         \* m_exit_requested
  owner,        \* who has each descriptor open: "source", "other", "nobody"
  phase,        \* where the scheduler, or the application, is in the block
  worker,       \* where the worker thread is
  dummies,      \* how many dummy reads are done
  block,        \* buffer_read_storage: the words of the block just read
  produced,     \* history: the words the parser made
  out,          \* history: the words work handed to the runtime
  dropped,      \* history: the words that did not fit into the FIFO buffer
  opened,       \* history: <<did this block open its device, produced then>>
  blocks,       \* bound: how often a block was constructed
  starts        \* bound: how often this block was started

fifo == <<q, cap, ret>>
history == <<produced, out, dropped, opened>>
bounds == <<blocks, starts>>
vars == <<fifo, fd, exit, owner, phase, worker, dummies, block, history, bounds>>

\* The words numbered a .. b.
Words(a, b) == [i \in 1 .. b - a + 1 |-> a + i - 1]

Fifo == INSTANCE BoundedFifo WITH
  Threads <- {"scheduler", "worker"},
  Batches <- {Words(1, n) : n \in 0 .. BlockWords},
  Counts  <- {n * OutputMultiple : n \in 1 .. MaxOutput},
  Caps    <- {Capacity}

Ended == worker = "done"
Elements(s) == {s[i] : i \in 1 .. Len(s)}

-----------------------------------------------------------------------------
(* Wrong variants, one mistake each, that the properties tell from the     *)
(* code.                                                                   *)

\* A close that keeps the descriptor, as the sink's does.
CloseKeepsFd(from, to) ==
  /\ phase = from
  /\ phase' = to
  /\ owner' = IF fd = NoFd THEN owner ELSE [owner EXCEPT ![fd] = "nobody"]
  /\ UNCHANGED <<fifo, fd, exit, worker, dummies, block, history, bounds>>

\* msgdmaDeInit that does not wait for the worker thread.
JoinDetached(from, to) ==
  /\ phase = from
  /\ phase' = to
  /\ UNCHANGED <<fifo, fd, exit, owner, worker, dummies, block, history, bounds>>

\* msgdmaDeInit that closes the descriptor to wake the worker thread.
AskAndClose(from, to) ==
  /\ phase = from
  /\ phase' = to
  /\ exit' = TRUE
  /\ owner' = IF fd = NoFd THEN owner ELSE [owner EXCEPT ![fd] = "nobody"]
  /\ UNCHANGED <<fifo, fd, worker, dummies, block, history, bounds>>

\* A worker that looks at the exit flag only after a block with words.
CheckAfterWords ==
  /\ worker = "check"
  /\ worker' = IF exit /\ block # << >> THEN "done" ELSE "read"
  /\ block' = << >>
  /\ UNCHANGED <<fifo, fd, exit, owner, phase, dummies, history, bounds>>

\* A FIFO buffer made anew only when it is not in use.
ConstructKeepsFifo(d) ==
  /\ phase = "none"
  /\ blocks < MaxBlocks
  /\ blocks' = blocks + 1
  /\ starts' = 0
  /\ phase' = "ready"
  /\ worker' = "start"
  /\ dummies' = 0
  /\ block' = << >>
  /\ out' = << >>
  /\ dropped' = {}
  /\ opened' = <<d # NoFd, produced>>
  /\ fd' = d
  /\ exit' = (d = NoFd)
  /\ owner' = IF d = NoFd THEN owner ELSE [owner EXCEPT ![d] = "source"]
  /\ d # NoFd => owner[d] = "nobody"
  /\ UNCHANGED <<fifo, produced>>

\* A worker that makes room by dropping the oldest words.
StoreOverwrites ==
  /\ worker = "store"
  /\ LET all  == q \o block
         over == IF Len(all) > cap THEN Len(all) - cap ELSE 0
     IN  /\ q' = SubSeq(all, over + 1, Len(all))
         /\ dropped' = dropped \cup {all[i] : i \in 1 .. over}
  /\ worker' = "check"
  /\ UNCHANGED <<cap, ret, fd, exit, owner, phase, dummies, block, produced,
                 out, opened, bounds>>

-----------------------------------------------------------------------------

Init ==
  /\ q = << >>
  /\ cap = Capacity
  /\ ret = [t \in {"scheduler", "worker"} |-> Fifo!NoResult]
  /\ fd = NoFd
  /\ exit = FALSE
  /\ owner = [d \in Descriptors |-> "nobody"]
  /\ phase = "none"
  /\ worker = "done"
  /\ dummies = 0
  /\ block = << >>
  /\ produced = 0
  /\ out = << >>
  /\ dropped = {}
  /\ opened = <<FALSE, 0>>
  /\ blocks = 0
  /\ starts = 0

\* The constructor opens and resets the device (msgdmaInit), makes the FIFO
\* buffer anew if that succeeded, and starts the worker thread either way.
Construct(d) ==
  /\ phase = "none"
  /\ blocks < MaxBlocks
  /\ blocks' = blocks + 1
  /\ starts' = 0
  /\ phase' = "ready"
  /\ worker' = "start"
  /\ dummies' = 0
  /\ block' = << >>
  /\ out' = << >>
  /\ dropped' = {}
  /\ opened' = <<d # NoFd, produced>>
  /\ fd' = d
  /\ exit' = (d = NoFd)
  /\ IF d = NoFd
     THEN UNCHANGED <<fifo, owner>>
     ELSE /\ owner[d] = "nobody"
          /\ owner' = [owner EXCEPT ![d] = "source"]
          /\ Fifo!ChangeSize(Capacity)
  /\ UNCHANGED produced

\* The block has no start of its own: this is the runtime's.
Start ==
  /\ phase = "ready"
  /\ starts < MaxStarts
  /\ starts' = starts + 1
  /\ phase' = "running"
  /\ UNCHANGED <<fifo, fd, exit, owner, worker, dummies, block, history, blocks>>

\* work: takes up to n words and returns how many it made samples of.
Work(n) ==
  /\ phase = "running"
  /\ Fifo!Read("scheduler", n)
  /\ out' = out \o ret'["scheduler"].data
  /\ UNCHANGED <<fd, exit, owner, phase, worker, dummies, block, produced,
                 dropped, opened, bounds>>

\* msgdmaDeInit, called from stop and from the destructor: set the exit flag
\* under fp_mutex, ...
AskToExit(from, to) ==
  /\ phase = from
  /\ phase' = to
  /\ exit' = TRUE
  /\ UNCHANGED <<fifo, fd, owner, worker, dummies, block, history, bounds>>

\* ... and join the worker thread, unless it was joined before.
Join(from, to) ==
  /\ phase = from
  /\ Ended
  /\ phase' = to
  /\ UNCHANGED <<fifo, fd, exit, owner, worker, dummies, block, history, bounds>>

\* if(fd_0 != -1) close(fd_0); fd_0 = -1;
Close(from, to) ==
  /\ phase = from
  /\ phase' = to
  /\ owner' = IF fd = NoFd THEN owner ELSE [owner EXCEPT ![fd] = "nobody"]
  /\ fd' = NoFd
  /\ UNCHANGED <<fifo, exit, worker, dummies, block, history, bounds>>

Stop ==
  \/ AskToExit("running", "stop join")
  \/ Join("stop join", "stop close")
  \/ Close("stop close", "ready")

Destroy ==
  \/ AskToExit("ready", "destroy join")
  \/ Join("destroy join", "destroy close")
  \/ Close("destroy close", "none")

-----------------------------------------------------------------------------
(* The worker thread, altera_msgdma_sdr_source_wait.                       *)

WorkerStart ==
  /\ worker = "start"
  /\ worker' = IF exit THEN "done" ELSE "dummy"
  /\ UNCHANGED <<fifo, fd, exit, owner, phase, dummies, block, history, bounds>>

\* A whole block is read and thrown away.
DummyRead ==
  /\ worker = "dummy"
  /\ dummies < DummyReads
  /\ dummies' = dummies + 1
  /\ UNCHANGED <<fifo, fd, exit, owner, phase, worker, block, history, bounds>>

DummyReadsDone ==
  /\ worker = "dummy"
  /\ dummies = DummyReads
  /\ worker' = "read"
  /\ UNCHANGED <<fifo, fd, exit, owner, phase, dummies, block, history, bounds>>

\* A whole block is read, and the parser makes k words of it: none when it
\* does not find the synchronization word.
WorkerRead(k) ==
  /\ worker = "read"
  /\ produced + k <= MaxWords
  /\ produced' = produced + k
  /\ block' = Words(produced + 1, produced + k)
  /\ worker' = "store"
  /\ UNCHANGED <<fifo, fd, exit, owner, phase, dummies, out, dropped, opened,
                 bounds>>

\* read returns less than a block, or -1: the thread ends.
ReadFails ==
  /\ worker = "read" \/ (worker = "dummy" /\ dummies < DummyReads)
  /\ worker' = "done"
  /\ UNCHANGED <<fifo, fd, exit, owner, phase, dummies, block, history, bounds>>

\* The words that do not fit are lost, with a warning.
WorkerStore ==
  /\ worker = "store"
  /\ Fifo!Write("worker", block)
  /\ dropped' = dropped \cup
       {block[i] : i \in ret'["worker"].count + 1 .. Len(block)}
  /\ worker' = "check"
  /\ UNCHANGED <<fd, exit, owner, phase, dummies, block, produced, out, opened,
                 bounds>>

\* After sleeping: look at the exit flag under fp_mutex.  gr_count is reset
\* before the next block is parsed.
WorkerCheck ==
  /\ worker = "check"
  /\ worker' = IF exit THEN "done" ELSE "read"
  /\ block' = << >>
  /\ UNCHANGED <<fifo, fd, exit, owner, phase, dummies, history, bounds>>

Worker ==
  \/ WorkerStart
  \/ DummyRead
  \/ DummyReadsDone
  \/ \E k \in 0 .. BlockWords : WorkerRead(k)
  \/ ReadFails
  \/ WorkerStore
  \/ WorkerCheck

\* Another part of the program opens a file and keeps it open.
OtherOpen(d) ==
  /\ owner[d] = "nobody"
  /\ owner' = [owner EXCEPT ![d] = "other"]
  /\ UNCHANGED <<fifo, fd, exit, phase, worker, dummies, block, history, bounds>>

\* The last block is gone and nothing more can happen.
Finished ==
  /\ phase = "none"
  /\ blocks = MaxBlocks
  /\ Ended
  /\ UNCHANGED vars

WorkSome == \E k \in 1 .. MaxOutput : Work(k * OutputMultiple)

Next ==
  \/ \E d \in Descriptors \cup {NoFd} : Construct(d)
  \/ Start
  \/ WorkSome
  \/ Stop
  \/ Destroy
  \/ Worker
  \/ \E d \in Descriptors : OtherOpen(d)
  \/ Finished

Spec == Init /\ [][Next]_vars

\* The worker thread runs and the device answers every read; a call into the
\* block that has begun goes on; the runtime calls work again and again while
\* the flowgraph runs.
FairSpec ==
  /\ Spec
  /\ WF_vars(Worker)
  /\ WF_vars(WorkSome)
  /\ WF_vars(Join("stop join", "stop close"))
  /\ WF_vars(Close("stop close", "ready"))
  /\ WF_vars(Join("destroy join", "destroy close"))
  /\ WF_vars(Close("destroy close", "none"))

-----------------------------------------------------------------------------

\* The words of the block not yet offered to the FIFO buffer.
Pending == IF worker = "store" THEN block ELSE << >>

\* The words on their way to the runtime, oldest first.
Stream == out \o q \o Pending

(* Every variable keeps its type.                                          *)
TypeOK ==
  /\ q \in Seq(1 .. MaxWords) /\ Len(q) <= cap
  /\ cap = Capacity
  /\ DOMAIN ret = {"scheduler", "worker"}
  /\ fd \in Descriptors \cup {NoFd}
  /\ exit \in BOOLEAN
  /\ owner \in [Descriptors -> {"nobody", "source", "other"}]
  /\ phase \in {"none", "ready", "running", "stop join", "stop close",
                "destroy join", "destroy close"}
  /\ worker \in {"start", "dummy", "read", "store", "check", "done"}
  /\ dummies \in 0 .. DummyReads
  /\ block \in Seq(1 .. MaxWords) /\ Len(block) <= BlockWords
  /\ produced \in 0 .. MaxWords
  /\ out \in Seq(1 .. MaxWords)
  /\ dropped \subseteq 1 .. MaxWords
  /\ opened \in BOOLEAN \X (0 .. MaxWords)
  /\ blocks \in 0 .. MaxBlocks
  /\ starts \in 0 .. MaxStarts

(* Samples come out in the order of the device, none twice, and of the     *)
(* words made since the block opened its device every one is handed out,   *)
(* on its way or dropped: nothing of an earlier block is among them.       *)
StreamConserved ==
  phase # "none" /\ opened[1] =>
    /\ \A i \in 1 .. Len(Stream) - 1 : Stream[i] < Stream[i + 1]
    /\ Elements(Stream) \cap dropped = {}
    /\ Elements(Stream) \cup dropped = opened[2] + 1 .. produced

(* The worker drops words only when the FIFO buffer is full, and then the  *)
(* newest ones.                                                            *)
DropsNewest ==
  [][dropped' # dropped /\ worker = "store" =>
       /\ Len(q') = cap
       /\ \A d \in dropped' \ dropped, i \in 1 .. Len(q') : q'[i] < d]_vars

(* The worker thread reads from the descriptor its block opened, never     *)
(* from one that was closed under it or handed to another part of the      *)
(* program.                                                                *)
ReadsOwnDevice ==
  worker \in {"dummy", "read"} => fd # NoFd /\ owner[fd] = "source"

(* The worker thread is a member function: it never runs on when its block *)
(* is destroyed, or while another one is constructed.                      *)
ThreadEndsFirst == phase \in {"none", "destroy close"} => Ended

(* stop and the destructor each close the device; whatever another part of *)
(* the program opened in between stays open.                               *)
ClosesOwnDevice ==
  [][\A d \in Descriptors : owner[d] = "other" => owner'[d] = "other"]_vars

(* stop and the destructor return as long as the device answers: the       *)
(* worker thread sees the exit flag wherever it is.                        *)
StopReturns ==
  /\ phase \in {"stop join", "stop close"} ~> phase = "ready"
  /\ phase \in {"destroy join", "destroy close"} ~> phase = "none"

(* A word that got into the FIFO buffer reaches the runtime unless the     *)
(* flowgraph is stopped.                                                   *)
Delivered ==
  \A w \in 1 .. MaxWords :
    w \in Elements(q) /\ phase = "running"
      ~> w \in Elements(out) \/ phase # "running"
=============================================================================
