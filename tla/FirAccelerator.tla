--------------------------- MODULE FirAccelerator ---------------------------
(***************************************************************************)
(* The three FIR accelerator blocks, lib/altera_socfpga_fir_accelerator_   *)
(* impl.cc, ..._fir_decim_... and ..._fir_interp_...: work writes the      *)
(* samples it is given to a filter behind one DMA device, in chunks of at  *)
(* most CONST_ARRAY_SIZE bytes, and reads the filter's answer to a chunk   *)
(* from another one.  Everything runs on the scheduler's thread.  The      *)
(* three differ in their constants: the plain filter has                   *)
(* Decimation = Interpolation = 1 and SyncBase = FALSE.                    *)
(*                                                                         *)
(* An input sample is its number in the block's input, 1, 2, ...; a zero   *)
(* that resetFIRFilter writes is 0; what the filter took before the block  *)
(* was constructed is Old.  An output sample is the window of input        *)
(* samples the filter made it from, oldest first, or OtherBytes, which a   *)
(* block read from a file that is not its device.                          *)
(***************************************************************************)
EXTENDS Integers, Sequences

CONSTANTS
  Decimation,     \* m_decimation
  Interpolation,  \* m_interpolation
  SyncBase,       \* is the base class sync_decimator or sync_interpolator
  ArrayItems,     \* samples in CONST_ARRAY_SIZE bytes
  ResetItems,     \* samples in CONST_ALTERA_RESET_ARRAY_SIZE bytes
  Taps,           \* the length of the filter in the FPGA
  Descriptors,    \* the file descriptors of the process
  NoFd,           \* -1
  MaxItems,       \* bound: the samples a block is given
  MaxFailures,    \* bound: how often the devices refuse something
  MaxBlocks,      \* bound: how often a block is constructed
  MaxStarts       \* bound: how often a block is started

\* README.md: the factors are 1, 2, 4, 8, ...; no block does both.
ASSUME FirAssumption ==
  /\ Decimation \in Nat \ {0} /\ Interpolation \in Nat \ {0}
  /\ Decimation = 1 \/ Interpolation = 1
  /\ SyncBase \in BOOLEAN
  /\ ArrayItems \in Nat \ {0} /\ ArrayItems % Decimation = 0
  /\ ResetItems \in Nat
  /\ Taps \in Nat \ {0} /\ Taps - 1 <= ResetItems
  /\ NoFd \notin Descriptors
  /\ MaxItems \in Nat /\ MaxFailures \in Nat
  /\ MaxBlocks \in Nat /\ MaxStarts \in Nat

VARIABLES
  fd_0, fd_1,  \* where answers are read, where samples are written
  status,      \* m_msgdmaStatus = CONST_ALTERA_MSGDMA_OK
  owner,       \* who has each descriptor open: "rd", "wr", "other", "nobody"
  memory,      \* the filter: the samples it took last
  group,      \* the filter: samples it took since its last answer
  resp,        \* the filter: answers nobody has read yet
  phase,       \* where the scheduler, or the application, is in the block
  n,           \* noutput_items of the call of work
  i,           \* how many samples of the call are behind the current chunk
  iq,          \* the output of the call, count_iq samples
  consumed,    \* how many samples the runtime took as consumed
  out,         \* history: the output samples the runtime took
  failures,    \* how often a device refused something of this block
  blocks,      \* bound: how often a block was constructed
  starts       \* bound: how often this block was started

fds == <<fd_0, fd_1, status, owner>>
filter == <<memory, group, resp>>
call == <<n, i, iq>>
stream == <<consumed, out, failures>>
bounds == <<blocks, starts>>
vars == <<fds, filter, phase, call, stream, bounds>>

Old == -1
Stale == [j \in 1 .. Taps - 1 |-> Old]
Zeros == [j \in 1 .. ResetItems |-> 0]
Foreign == -2
OtherBytes == [j \in 1 .. Taps |-> Foreign]
Drop(s, k) == SubSeq(s, k + 1, Len(s))

-----------------------------------------------------------------------------
(* Wrong variants, one mistake each, that the properties tell from the     *)
(* code.                                                                   *)

\* resetFIRFilter that does not read the answers to its zeros.
ResetUnread ==
  /\ phase = "resetRead"
  /\ phase' = "ready"
  /\ UNCHANGED <<fds, filter, call, stream, bounds>>

\* An early return that consumes the whole input of the call.
WriteFailsConsumesAll ==
  /\ phase = "write"
  /\ phase' = "running"
  /\ owner[fd_1] = "wr" => failures < MaxFailures
  /\ failures' = failures + (IF owner[fd_1] = "wr" THEN 1 ELSE 0)
  /\ consumed' = consumed + n
  /\ out' = out \o iq
  /\ UNCHANGED <<fds, filter, call, bounds>>

\* An early return for the first device only.
InitChecksOne(rd, wr) ==
  /\ fd_0' = rd
  /\ fd_1' = wr
  /\ status' = (rd # NoFd)
  /\ rd # NoFd => owner[rd] = "nobody"
  /\ wr # NoFd => owner[wr] = "nobody" /\ wr # rd
  /\ owner' = [d \in Descriptors |-> CASE d = rd -> "rd" [] d = wr -> "wr"
                                       [] OTHER -> owner[d]]

-----------------------------------------------------------------------------

\* input_items_decim, input_items_interp: the input samples of the call.
Inputs == (n * Decimation) \div Interpolation

\* count_in, in samples, when the chunk is flushed: it is full, or the call's
\* last sample is in it.
ChunkSize == IF Inputs - i < ArrayItems THEN Inputs - i ELSE ArrayItems
Chunk == [j \in 1 .. ChunkSize |-> consumed + i + j]

\* count_in_decim, count_in_interp: the answer to the chunk, in samples.
AnswerSize == (ChunkSize * Interpolation) \div Decimation

-----------------------------------------------------------------------------
(* The filter in the FPGA and its two DMA devices, outside the repository. *)

\* The filter takes the samples w: an answer for every Decimation samples,
\* repeated for every one of Interpolation output samples.
Feed(w) ==
  LET all   == memory \o w
      count == (group + Len(w)) \div Decimation
      End(g) == Taps - 1 + g * Decimation - group
  IN  /\ memory' = Drop(all, Len(w))
      /\ group' = (group + Len(w)) % Decimation
      /\ resp' = resp \o [j \in 1 .. count * Interpolation |->
                            LET e == End((j - 1) \div Interpolation + 1)
                            IN  SubSeq(all, e - Taps + 1, e)]

\* Of the samples w, less than all arrive.
FeedSome(w) == \E k \in 0 .. Len(w) - 1 : Feed(SubSeq(w, 1, k))

\* A read that is answered in full takes the oldest answers.
Take(count) ==
  /\ Len(resp) >= count
  /\ resp' = Drop(resp, count)
  /\ UNCHANGED <<memory, group>>

\* A read that is not: some of them, and less than it asked for.
TakeSome(count) ==
  /\ \E k \in 0 .. count - 1 : k <= Len(resp) /\ resp' = Drop(resp, k)
  /\ UNCHANGED <<memory, group>>

-----------------------------------------------------------------------------
Init ==
  /\ fd_0 = NoFd /\ fd_1 = NoFd
  /\ status = FALSE
  /\ owner = [d \in Descriptors |-> "nobody"]
  /\ memory = Stale /\ group = 0 /\ resp = << >>
  /\ phase = "none"
  /\ n = 0 /\ i = 0 /\ iq = << >>
  /\ consumed = 0 /\ out = << >> /\ failures = 0
  /\ blocks = 0 /\ starts = 0

\* msgdmaInit: open the device to read from, then the one to write to.
\* Static fd_1 stays what it was if the first one cannot be opened.
MsgdmaInit(rd, wr) ==
  /\ fd_0' = rd
  /\ fd_1' = IF rd = NoFd THEN fd_1 ELSE wr
  /\ status' = (rd # NoFd /\ wr # NoFd)
  /\ rd # NoFd => owner[rd] = "nobody"
  /\ wr # NoFd => owner[wr] = "nobody" /\ wr # rd
  /\ rd = NoFd => wr = NoFd
  /\ owner' = [d \in Descriptors |-> CASE d = rd -> "rd" [] d = wr -> "wr"
                                       [] OTHER -> owner[d]]

\* The constructor; IO_ALTERA_MSGDMA_STOP_RESET empties the DMA devices, the
\* filter keeps what it took.
Construct(rd, wr) ==
  /\ phase = "none"
  /\ blocks < MaxBlocks
  /\ MsgdmaInit(rd, wr)
  /\ phase' = IF status' THEN "resetWrite" ELSE "ready"
  /\ resp' = IF status' THEN << >> ELSE resp
  /\ group' = IF status' THEN 0 ELSE group
  /\ memory' = Stale
  /\ n' = 0 /\ i' = 0 /\ iq' = << >>
  /\ consumed' = 0 /\ out' = << >> /\ failures' = 0
  /\ blocks' = blocks + 1 /\ starts' = 0

\* resetFIRFilter.  When a step of it fails, it returns early and the
\* constructor takes no notice.
ResetWrite ==
  /\ phase = "resetWrite"
  /\ phase' = "resetRead"
  /\ Feed(Zeros)
  /\ UNCHANGED <<fds, call, stream, bounds>>

ResetWriteFails ==
  /\ failures < MaxFailures
  /\ phase = "resetWrite"
  /\ phase' = "ready"
  /\ FeedSome(Zeros)
  /\ failures' = failures + 1
  /\ UNCHANGED <<fds, call, consumed, out, bounds>>

ResetRead ==
  /\ phase = "resetRead"
  /\ phase' = "ready"
  /\ Take(ResetItems)
  /\ UNCHANGED <<fds, call, stream, bounds>>

ResetReadFails ==
  /\ failures < MaxFailures
  /\ phase = "resetRead"
  /\ phase' = "ready"
  /\ TakeSome(ResetItems)
  /\ failures' = failures + 1
  /\ UNCHANGED <<fds, call, consumed, out, bounds>>

\* The runtime starts the block; the base class's start does nothing.
Start ==
  /\ phase = "ready"
  /\ starts < MaxStarts
  /\ starts' = starts + 1
  /\ phase' = "running"
  /\ UNCHANGED <<fds, filter, call, stream, blocks>>

\* work is called for count output samples, and has the input for them.
\* Without the devices it consumes nothing and returns 0.
Work(count) ==
  /\ phase = "running"
  /\ count % Interpolation = 0
  /\ consumed + (count * Decimation) \div Interpolation <= MaxItems
  /\ IF status
     THEN phase' = "write" /\ n' = count /\ i' = 0 /\ iq' = << >>
     ELSE UNCHANGED <<phase, call>>
  /\ UNCHANGED <<fds, filter, stream, bounds>>

\* work calls consume_each(count) and returns made; the base class then
\* consumes once more what its rate says belongs to the output.
Return(count, made) ==
  /\ phase' = "running"
  /\ consumed' = consumed + count +
       IF SyncBase THEN (made * Decimation) \div Interpolation ELSE 0
  /\ out' = out \o SubSeq(iq, 1, made)

\* The bytes go where fd_1 leads: to the filter, or, once the block has closed
\* it and another file has its number, into that file.
WriteChunk ==
  /\ phase = "write"
  /\ phase' = "read"
  /\ \/ owner[fd_1] = "wr" /\ Feed(Chunk)
     \/ owner[fd_1] = "other" /\ UNCHANGED filter
  /\ UNCHANGED <<fds, call, stream, bounds>>

\* The device takes less than all, or fd_1 is closed or another file's.
WriteFails ==
  /\ phase = "write"
  /\ IF owner[fd_1] = "wr"
     THEN failures < MaxFailures /\ FeedSome(Chunk) /\ failures' = failures + 1
     ELSE UNCHANGED <<filter, failures>>
  /\ Return(Len(iq), Len(iq))
  /\ UNCHANGED <<fds, call, bounds>>

\* The answer, or what another file held, is decoded into the output buffer.
ReadChunk ==
  /\ phase = "read"
  /\ \/ owner[fd_0] = "rd" /\ Take(AnswerSize)
        /\ iq' = iq \o SubSeq(resp, 1, AnswerSize)
     \/ owner[fd_0] = "other" /\ UNCHANGED filter
        /\ iq' = iq \o [j \in 1 .. AnswerSize |-> OtherBytes]
  /\ i' = i + ChunkSize
  /\ phase' = IF i' = Inputs THEN "return" ELSE "write"
  /\ UNCHANGED <<fds, n, stream, bounds>>

ReadFails ==
  /\ phase = "read"
  /\ IF owner[fd_0] = "rd"
     THEN failures < MaxFailures /\ TakeSome(AnswerSize) /\ failures' = failures + 1
     ELSE UNCHANGED <<filter, failures>>
  /\ Return(Len(iq), Len(iq))
  /\ UNCHANGED <<fds, call, bounds>>

\* consume_each(noutput_items), return noutput_items.
EndWork ==
  /\ phase = "return"
  /\ Return(n, n)
  /\ UNCHANGED <<fds, filter, call, failures, bounds>>

\* stop, and the destructor, close both descriptors and forget neither.
Close ==
  owner' = [d \in Descriptors |-> IF d \in {fd_0, fd_1} THEN "nobody"
                                                         ELSE owner[d]]

Stop ==
  /\ phase = "running"
  /\ phase' = "ready"
  /\ Close
  /\ UNCHANGED <<fd_0, fd_1, status, filter, call, stream, bounds>>

Destroy ==
  /\ phase = "ready"
  /\ phase' = "none"
  /\ Close
  /\ UNCHANGED <<fd_0, fd_1, status, filter, call, stream, bounds>>

\* Another part of the program opens a file and keeps it open.
OtherOpen(d) ==
  /\ owner[d] = "nobody"
  /\ owner' = [owner EXCEPT ![d] = "other"]
  /\ UNCHANGED <<fd_0, fd_1, status, filter, phase, call, stream, bounds>>

\* The last block is gone.
Finished ==
  /\ phase = "none"
  /\ blocks = MaxBlocks
  /\ UNCHANGED vars

InCall == WriteChunk \/ WriteFails \/ ReadChunk \/ ReadFails \/ EndWork

Next ==
  \/ \E rd, wr \in Descriptors \cup {NoFd} : Construct(rd, wr)
  \/ ResetWrite
  \/ ResetWriteFails
  \/ ResetRead
  \/ ResetReadFails
  \/ Start
  \/ \E count \in 1 .. MaxItems * Interpolation : Work(count)
  \/ InCall
  \/ Stop
  \/ Destroy
  \/ \E d \in Descriptors : OtherOpen(d)
  \/ Finished

Spec == Init /\ [][Next]_vars

-----------------------------------------------------------------------------

\* The window of the k-th output sample of a filter that starts from zeros.
Window(k) ==
  LET newest == ((k - 1) \div Interpolation + 1) * Decimation
      At(j)  == newest - Taps + j
  IN  [j \in 1 .. Taps |-> IF At(j) < 1 THEN 0 ELSE At(j)]

(* Every variable keeps its type.                                          *)
TypeOK ==
  /\ fd_0 \in Descriptors \cup {NoFd} /\ fd_1 \in Descriptors \cup {NoFd}
  /\ status \in BOOLEAN /\ failures \in 0 .. MaxFailures
  /\ owner \in [Descriptors -> {"rd", "wr", "other", "nobody"}]
  /\ memory \in [1 .. Taps - 1 -> Foreign .. MaxItems]
  /\ group \in 0 .. Decimation - 1
  /\ \A s \in {resp, iq, out} : s \in Seq([1 .. Taps -> Foreign .. MaxItems])
  /\ phase \in {"none", "resetWrite", "resetRead", "ready", "running",
                "write", "read", "return"}
  /\ n \in 0 .. MaxItems * Interpolation
  /\ i \in 0 .. MaxItems
  /\ consumed \in Nat
  /\ blocks \in 0 .. MaxBlocks /\ starts \in 0 .. MaxStarts

(* As long as the devices refuse nothing, the block is the filter: its     *)
(* k-th output sample is made from the inputs up to the k-th, and before   *)
(* the first one from zeros, never from what an earlier block left in the  *)
(* filter.  No chunk is left out, sent twice or answered out of step.      *)
(* Only a block that was started again can deliver anything else, and then *)
(* it delivers what it reads from another file until its end.              *)
OutputFiltered ==
  failures = 0 =>
    \A k \in 1 .. Len(out) :
      \/ out[k] = Window(k)
      \/ starts > 1 /\ \A l \in k .. Len(out) : out[l] = OtherBytes

(* Between calls of work, the samples the runtime took as consumed are the *)
(* ones the output is made from, at the rate of the block, also when a     *)
(* call ends early because a device refused a chunk.                       *)
AccountsMatch ==
  phase = "running" => consumed * Interpolation = Len(out) * Decimation

(* A block writes and reads the devices it opened, as long as it has not   *)
(* been stopped: while the constructor resets the filter and in every call *)
(* of work after the first start.  From the first stop on it never does    *)
(* again: m_msgdmaStatus still says that the devices are there and work    *)
(* goes on with the closed numbers, but no other opening, of the block or  *)
(* of anybody, makes one of them its device once more.                     *)
OwnDevicesUntilStopped ==
  /\ phase \in {"resetWrite", "write"} =>
       (fd_1 # NoFd /\ owner[fd_1] = "wr" <=> starts <= 1)
  /\ phase \in {"resetRead", "read"} =>
       (fd_0 # NoFd /\ owner[fd_0] = "rd" <=> starts <= 1)

(* Where m_msgdmaStatus lets work on, its devices are open: it writes and  *)
(* reads only them, never a file another part of the program was given a   *)
(* closed descriptor for.  A block that is stopped and started again       *)
(* breaks this.                                                            *)
UsesOwnDevices ==
  /\ phase \in {"resetWrite", "write"} => fd_1 # NoFd /\ owner[fd_1] = "wr"
  /\ phase \in {"resetRead", "read"} => fd_0 # NoFd /\ owner[fd_0] = "rd"

(* buffer_read has CONST_ARRAY_SIZE bytes: the answer to a chunk fits.     *)
AnswerFits == phase = "read" => AnswerSize <= ArrayItems
=============================================================================
