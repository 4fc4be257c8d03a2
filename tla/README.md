# Verification of gr-AlteraSocSDR

gr-AlteraSocSDR is a GNU Radio 3.7 module for Intel/Altera SoC FPGAs.  Its
blocks move samples between a flowgraph and the FPGA through the character
devices of a DMA driver; a Python program in `docs/doxygen` makes the
docstrings of the module's bindings out of doxygen's XML.  This directory holds
TLA+ models of the blocks and of that program, TLC configurations that check
them on small instances, and TLAPS proofs of what holds for every instance.

File names below are relative to the repository; "sink" and "source" are
`lib/altera_socfpga_sdr_sink_complex_impl.cc` and
`lib/altera_socfpga_sdr_source_complex_impl.cc`.

## 1. Inventory

| Component | State | Operations | Hard because |
|---|---|---|---|
| FIFO buffer, `lib/fifo_buffer.cc` | an array, head, tail, size, mask, `fp_mutex` | write, read (three item types, whole words of 2 or 4 bytes), `fifo_changeSize` | two threads; index arithmetic at the wrap, by comparison or by mask; bytes put back behind the tail; array memory starts unset; change of size takes no lock |
| Word parser of the source, lines 288-332 | state, byte counter, half-built word, words of the block | one byte, end of block | everything but the words survives a block; the counter is decremented in four places and tested in one; the array has no bound of its own |
| Source block | static FIFO, descriptor and exit flag; thread handle | constructor, `work`, `stop`, destructor, worker thread | worker against scheduler against application; blocking reads; overflow; static state outlives the block |
| Sink block | the same | the same, and `start`, throttle | the same; short writes end the thread; stop and destructor both close |
| FIR accelerators (plain, decimating, interpolating) | two static descriptors, status; the filter's memory in the FPGA | constructor with `resetFIRFilter`, `work`, `stop`, destructor | write/read pairs that may fail in the middle of a call; rates; restart; residue of an earlier block |
| Sample encoding, in `work` of all blocks | word length, scale, format, swap | encode, decode | seven word lengths, two formats, limits, order of I and Q |
| XML reader, `docs/doxygen/doxyxml/generated/`, `text.py` | the objects of one document | `build`, `export`, `exportLiteral` and `hasContent_` of some eighty generated classes; `description` | one template repeated class by class, with exceptions; text kept in three places; quoting |
| Index of documents, `doxyxml/base.py`, `doxyindex.py` | one object per refid; members, caches, error flags | `from_refid`, `_parse` of each class, `members`, `in_category`, `get_member`, ... | files are read when first asked for, by whoever asks first; caches fill meanwhile; exceptions half-way |
| Docstring generator, `swig_doc.py` | blocks, make functions, output | three loops over blocks, functions and classes | the loops overlap; only one kind of exception is caught |
| GNU Radio runtime (external) | | calls `start`, `work`, `stop`; consumes input | the base class of the decimator consumes by itself |
| DMA driver and FPGA (external) | | open, ioctl, read, write | may refuse, may be short, may block |

How they interact: the source's worker thread reads bytes from its device,
parses words and *writes* the FIFO buffer; the scheduler's thread *reads* it in
`work`.  In the sink the roles are reversed.  `stop` and the destructor set the
exit flag under the block's own `fp_mutex` and join the worker thread, then
close the device.  The accelerators have no thread of their own.  The
documentation program runs at build time, in one thread: `swig_doc.py` calls an
index, which makes objects, which read XML files with the generated classes.

What makes each component correct:

* the FIFO buffer is a queue: nothing lost, repeated, reordered or invented,
  and its calls are atomic;
* the parser delivers whole words, cut where the synchronization word says;
* source and sink conserve the stream, use only their own open device, and end;
* an accelerator is the filter, and consumes what its output was made from;
* encoding and decoding are inverse up to saturation;
* a document is kept as it is written, in order, and can be written out again;
* a compound has one object, whoever finds it first, and an answer once given
  stays;
* every class, method and function has its docstring, once.

Not part of the program's logic and not modelled: build scripts, SWIG and
Python glue, block editor XML, `make()` declarations, and an empty CppUnit
suite.  `PROJECT.json` lists them all, and
the hazards of the code with their lines.

## 2. Modules

```
BoundedFifo  <--implements--  FifoBuffer  <-- FifoBufferProofs
     ^
     | INSTANCE
     +---- SdrSink   <-- SdrSinkProofs
     +---- SdrSource <-- SdrSourceProofs
               . words made per block of bytes: SyncParser  <-+
               . word <-> sample:               SampleCodec <-+- WordProofs
FirAccelerator <-- FirAcceleratorProofs
FifoBytes   <-- FifoBytesProofs
DoxyClasses <-- DoxyReader             (one document)
DoxyIndex   <-- SwigDoc <-- SwigDocProofs <-- SwigRunProofs
                                       (a directory of documents)
```

Every module `X` that is checked has a module `MCX` with the definitions its
configurations substitute for constants.  The parser and the codec share
`MCWords`, where a behaviour is one of either.  Right after its variables a module
has a section "Wrong variants": definitions with one plausible mistake each,
used to see that a property notices it.  `Spec` never refers to them.

**BoundedFifo** is what `fifo_buffer` promises: `Write` stores the longest
prefix that fits, `Read` removes the oldest items, `ChangeSize` empties.  Each
is one atomic step, and `ret` is what the caller's thread got back.

**FifoBuffer** is the code: `slots`, `head`, `tail`, `size` and the mutex
`lock`.  A call is `CallWrite`/`CallRead` (takes the mutex), then one
`WriteItem`/`ReadItem` for each loop iteration, then `WriteReturn`/`ReadReturn`
(the count returned, the mutex released).  Steps of different threads
interleave freely; only the mutex keeps them apart.  New memory is `Junk`.
`Queue` maps the state to `BoundedFifo`: a call takes effect when it returns.

**SyncParser** is the RX state machine.  While it searches, a byte is its
value; while it packs, a byte is its place in the frame, since its value is not
looked at.  `NextByte` is one iteration of the loop, `Flush` the end of a
block.  `window` and `pos` are history variables.

**SdrSource** and **SdrSink** are the two blocks, over `BoundedFifo`.  `phase`
is where the scheduler or the application is, `worker` where the worker thread
is.  `stop` and the destructor are three steps each, `AskToExit`, `Join`,
`Close`, since the worker runs between them.  `owner` says who has a descriptor
open: it lets a number that was closed be given to another part of the program
(`OtherOpen`).  Opens fail (`Construct(NoFd)`), writes and reads fail or are
short at any point.  `Construct` may happen again after `Destroy`: the FIFO
buffer, the descriptor and the exit flag are static and carry over.  Words are
numbered, so that order, loss and repetition show.

**FirAccelerator** is the three accelerators: they differ in `Decimation`,
`Interpolation` and `SyncBase` only.  A sample is its number, an output sample
is the window of inputs it was made from, so that it shows whether a chunk was
left out or an answer belongs to another chunk.  `Feed`, `Take` and their short
variants are the filter and its devices, modelled from how the code uses them.
`Return` includes what the base class consumes for the block.  `owner` says who
has a descriptor open: the block, to read (`"rd"`) or to write (`"wr"`), another
part of the program (`"other"`) or nobody.  A block that was stopped and started
again works on with the numbers `stop` has closed: a closed one fails, one that
was given away takes what the block writes and answers with what the other file
holds (`OtherBytes`).

**SampleCodec** is the arithmetic: `SinkWord`, `SourceSample`, `FirWord`,
`FirSample`.  A sample is the pair of its integer parts; the float product and
its cast to int come before the model, the division comes after it.  The formats
of the input and of the output are two parameters, as `m_itemsizeInput` and
`m_itemsizeOutput` are: the first decides whether a value is saturated, the
second whether the answer is narrowed to shorts and whether I and Q change
places.

**FifoBytes** is the byte and the complex buffer: indices that wrap by a mask,
the four read functions, and the bytes `fifo_read_2` and `fifo_read_3` put back
when the buffer ends in the middle of a word.  A call holds the mutex throughout
and is one step.  Its loops are functions of the number of turns made (`WriteTurns`,
`ReadTurns`), each turn made from the one before it.  `& m_index_mask` is the
remainder by the size, which is a power of two; `MCFifoBytes` evaluates that for
the sizes of the run (`MaskIsRemainder`).  The tail is a number modulo
`UintBound`, as an unsigned int is, and `astray` records that it has been moved
out of the array.

**DoxyClasses** is a table: for each generated class its attributes, its child
elements and the class each is built as.  **DoxyReader** is the template the
generator repeated for every class (`Build`, `Export`, `hasContent_`,
`exportLiteral`), read off the table, with `description_bit` and `description`
of `text.py`.  Its behaviours are those of one document: it is read or refused,
then described, exported and read again, or exported as Python source.

**DoxyIndex** is the object model of `doxyxml`.  A heap holds the objects, the
table of refids and how the last call ended; each method is an operator from a
heap to the heap after it, result or exception included, so that a call is a
step (one thread, no callbacks).  **SwigDoc** is `make_swig_interface_file`: a
step is one turn of one of its loops, and every look-up goes through the
operators of `DoxyIndex`.  On some directories a user of `doxyxml` makes calls
of its own first.

## 3. Runs

| Run | Bounds | Shows |
|---|---|---|
| `fifo_buffer` | 1, 2, 3 slots (also a size that rounds down), 1 writer, 1 reader, calls of up to 3 items, 2 values | `NoJunkRead`, `ImplementsQueue` (refinement of `BoundedFifo`), `CallsReturn` |
| `fifo_bytes` | 1, 4, 8 slots for bytes, 1, 2, 4 for samples; writes of up to 2, reads of up to 4, 2 values, `UintBound` 64 | `ContentsAreQueue`, `ReadsOldest`, `CutShortOnlyAtLimit` |
| `words` | the parser: blocks of 8 bytes, frames of 12, the four bytes of the synchronization word and one other | `StorageFits`, `FrameEndsOnWord`, `WordsWhole`, `LockedOnSync`, `MissesOnlyBrokenMatch`, `FrameEnds` |
| | the codec: every word length and an invalid one, values around the limits, scale constant 8192 | `RadioKeepsSample`, `FirKeepsSample` |
| `sdr_sink` | 3 words of FIFO, worker blocks of 2, 4 samples, 2 blocks in a row, 2 starts each, 2 descriptors | `StreamConserved`, `WritesOwnDevice`, `ThreadEndsFirst`, `StopReturns`, `Delivered` |
| `sdr_source` | 2 words of FIFO, blocks of 2 words, 4 words, 2 dummy reads, 2 blocks in a row, 1 descriptor | `StreamConserved`, `DropsNewest`, `ReadsOwnDevice`, `ThreadEndsFirst`, `ClosesOwnDevice`, `StopReturns`, `Delivered` |
| `fir_filter` | the plain filter with 3 taps, chunks of 2 samples, 4 samples, 2 failures, 2 blocks in a row, 2 starts each, 2 descriptors | `OutputFiltered`, `AccountsMatch`, `OwnDevicesUntilStopped` |
| `doxy_reader` | for every class: chains of elements three deep, every pair of children; paragraphs of three parts | `DescriptionInOrder`, `RoundTrip`, `LiteralRaisesOnMixed` |
| `swig_doc` | 1972 directories; on 8 of them up to 2 calls of a user | `ObjectsWellFormed`, `CachesCoherent`, `IndexHoldsPrefix`, `AbortsOnlyIfUnusable`, `AllAccountedFor`, `EntriesRight`, `AnswersStable`, `GeneratorEnds` |
| `sdr_sink_close` | one sink, started once, 1 sample, 2 descriptors | **fails**: the sink closes a descriptor twice |
| `fir_decim` | decimation 2 | **fails**: input is consumed twice over |
| `fir_interp` | interpolation 2 | **fails**: the answer does not fit its array |
| `fir_restart` | the plain filter, one block, 2 starts, nothing refused | **fails**: a block started again uses descriptors `stop` has closed |

Each module has one type invariant.  `TypeOK` is proved rather than run, for
every instance, in the modules of section 4.  In `FifoBytes` it is a conjunct of
`ContentsAreQueue`, in `SwigDoc` of `ObjectsWellFormed`, which are proved and run.

Why the bounds are enough.

* *FIFO buffer.*  The code compares and moves indices by one; three slots have
  every relation of head, tail and wrap, and calls of three items fill and empty
  every ring.  The byte buffers have one, four and eight slots: eight are two
  words of four bytes, so that `fifo_read_3` puts back one to three bytes at
  every place of the ring.  Items are only copied and compared, so the two
  values are interchangeable (symmetry).  Once the tail has left the array,
  which the code does not notice, nobody calls any more (`~ astray`).
* *Parser.*  12 is no multiple of 8, so a block ends at every multiple of four
  within a frame, and a synchronization word behind bytes of a broken match
  moves it to the other places as well.
* *Sink and source.*  The FIFO buffer is smaller than the input and at least one
  block, so that it is full, partly accepted, empty and emptied in pieces; two
  blocks in a row are what it takes to inherit static state, two descriptors
  what it takes to give one away.
* *Accelerators.*  A call of four samples has two chunks, and the window of three
  taps reaches over a chunk.  The second start of a block is the first that can
  find its devices closed, and every later one is like it; with two descriptors
  the block, another file and the block after it can have either number.
* *Codec.*  The values stand on both sides of each limit at which the code
  branches.
* *Documents.*  The methods of a class look at its own children and call the
  same methods of theirs; a chain of three has a class, what it is built in and
  what is built in it, and two children of every pair of kinds have every order
  and repetition that `set_f` and the lists tell apart.
* *Directories.*  Class `x` with or without a make function and a constructor,
  its header readable or broken, a second header that may define the same name
  or be the header too, and one more compound of every kind: every branch of
  `_parse` and of the three loops, and every pair of branches, is in one of them.
  Four more have a group with a struct, an interface and a class among its
  classes; the index names the group first, and its reading ends before the three
  or does not, so that the group or the index is the first to make them.

The numbers of blocks, starts, samples, failures and calls are bounds of the
models (`Max...` constants), not of the code; the constants that stand for a
`#define` (`BlockItems`, `BlockWords`, `DummyReads`, `ArrayItems`,
`SyncMaxCount`, ...) are named with it where they are declared.

Fairness.  `FifoBuffer`: a thread inside a call goes on; a mutex is only held
inside calls, which do not wait.  `SyncParser`: the device delivers bytes.
`SdrSink`, `SdrSource`: the worker thread runs and the device answers each call
(a blocking `read` without data would keep `stop` waiting for ever, and the code
has no way out of it); a step of `stop` or the destructor that can go on does;
the runtime calls the source's `work` while the flowgraph runs.  `SwigDoc`: the
generator, once it runs, goes on; it waits for nothing.  No fairness is assumed
of constructing, starting, stopping, of the sink's input, or of a user's calls.

Deadlock is checked in every run but `doxy_reader` and `swig_doc`, whose
programs end; `Finished` is the one place where a block's model may stop, when
the last block is gone.

## 4. Proofs

| Module | Theorems | For every |
|---|---|---|
| `FifoBufferProofs` | `TypeCorrect`, `Exclusion`, `ReadsOnlyStored`, `StoringInvariance`, `Implements` | size, number of threads, batch |
| `FifoBytesProofs` | `ContentsTheorem`, `OldestTheorem`, `CutShortTheorem` | size that is a power of two, batch, length of a read, width of an unsigned int |
| `WordProofs` (parser) | `TypeCorrect`, `NeverOverrun`, `CounterEndsOnWord`, `WordsAreWhole`, `PacksAfterSync`, `OverlooksOnlyBroken` | block and frame length that is a multiple of four; synchronization word of four different bytes |
| `SdrSinkProofs` | `TypeCorrect`, `OwnDevice`, `EndsFirst`, `ConservesStream` | capacity, block size, input, set of descriptors |
| `SdrSourceProofs` | `TypeCorrect`, `OwnDevice`, `EndsFirst`, `ClosesOnlyOwn`, `ConservesStream`, `DropsOnlyNewest` | the same, and number of dummy reads |
| `FirAcceleratorProofs` | `OwnDevices` | filter, chunk size, number of blocks and of starts of each |
| | `TypeCorrect`, `ConsumesAtRate` | filter: decimation, interpolation, base class, taps, chunk size |
| | `PlainAccounts`, `PlainFilters` | plain filter, number of taps, chunk size, number of blocks and of starts of each |
| `WordProofs` (codec) | `CodecTypeCorrect`, `RadioCorrect`, `FirCorrect` | integer sample, word length, scale constant |
| `SwigDocProofs` | `InvariantTheorem`, `ObjectsTheorem`, `CachesTheorem`, `PrefixTheorem`, `ReadOnceTheorem` | directory of XML files, sequence of calls |
| `SwigRunProofs` | `AbortsTheorem`, `AccountsTheorem` | directory of XML files, without other calls |

Each module proves an inductive invariant of `Spec` in three facts: the initial
states have it, every step keeps it (one lemma per action or group of actions),
and the theorem that it always holds; the properties follow from it.  The
proofs assume only the named ASSUME of the module they are about, which TLC
evaluates in that module's run.

*FIFO buffer.* `NoJunkRead` speaks of the items counted from the tail; an index
that wraps is awkward there.  `IInv` says instead that each *occupied* slot
(between tail and head, around the end) holds a stored item, and that a call in
progress owns the mutex and has a batch of the length it was asked for.
Exclusion follows, since the mutex has one owner.  For the refinement `Storing`
is added: the words a write has put into the slots so far are the first of its
batch, at the end of the contents.  Then `Queue` leaves them out until the
write returns, every iteration of a loop is a stutter of `BoundedFifo`, and a
return is its `Write` or `Read`.

*Byte and complex buffers.* Two inductions.  The inner one is over the turns of a
loop: after every number of turns, the items moved, the index and the size are
what the first turns of a loop that cannot fail would make them.  The outer one
is over the calls: `IInv` says which slot holds each item of the queue, that the
size of the buffer is the queue's length, and that an unsigned int has room for
a negative difference to come out positive.  The bytes that `fifo_read_2` and
`fifo_read_3` put back are the ones the call removed last, still in their slots;
`fifo_read_3` puts them back right unless its index would have to become
negative, and then the tail is astray: outside the array, or not as far from the
head as the contents are long.

*Parser.* `StorageFits` needs how many bytes of a word are held when a block
begins: `4 * gr_count + HeldBytes <= n + 3`.  `WordsWhole` needs that the held
bytes are the last ones before `pos`, and that `pos` is a multiple of four plus
the packing state; this also makes the counter end on a word.  The search has an
invariant of its own, `SearchInv`: which bytes of the word came last, and that
a beginning of the word that came last is known to the search unless a byte
that could be part of one came before it.

*Sink and source.* That the thread has ended must be carried from `Join` to
`Close`, and that a running thread has a device rests on the exit flag a failed
`msgdmaInit` sets, which makes the thread leave at its first test (`IInv`).  For
the stream (`SInv`) each place a word can be in holds a piece of the stream, and
each piece begins where the one before it ends: in the sink the bytes the device
took, the block in the worker's hands and the FIFO buffer; in the source what
was handed out, the FIFO buffer and the block being stored, less the words that
were dropped.

*Accelerators.* `DeviceInv` says whose the descriptors are in every phase: before
the first start and until the first stop the block's own, from then on nobody's
or another file's, since no opening makes a descriptor the block's again.
`FlowInv` holds of every filter: in a
call, the output made so far is to the samples behind the chunk as
`Interpolation` to `Decimation`, the answer to a chunk keeps it so (a chunk is a
multiple of the decimation, since the call and the array are), and between calls
`consumed * Interpolation = Len(out) * Rate`.  `Rate` is what the code consumes
for its output, one sample for one and what the base class adds: for the plain
filter that is what the output is made from, for the other two
`ConsumesAtRate` says by how much `AccountsMatch` fails.  `FilterInv` adds, for
the plain filter, what the filter remembers, the answers nobody has read and the
output buffer, as long as nothing was refused; of a block that was started again
it says that what it has put out since is another file's.

*Codec.* `m_QUANTIZATION_ONE` is one of seven powers of two, whatever length is
asked for; two bytes give back the unsigned short they were cut from; the sign
test gives back the signed value when it was in range, which saturation sees to.

*Documentation.* An operation of doxyxml is a function from heap to heap that
calls others, and reads files, makes objects and fills caches on its way.  So the
larger part of `SwigDocProofs` is one lemma per operation, from the creation of
an object to `make_block_entry`: a call that starts on a heap a program can reach
ends on one, whether it returns or raises, and `Grows` says what it may do to the
objects there were: nothing, once they have been read, but new cache entries
(`ReadOnceTheorem` says this of every step).  That is why no cache becomes stale (`CachesTheorem`): a list is cached only of an
object that has been read, whose members no later call changes, and the names and
the classes of these members do not change either.  A list and a dictionary are
exact when they are made: `MemberNamedExact` and `KeptHaving` say which member a
look-up by name finds and that it misses none, so that `Block.includes` finds the
friend of a class just if the class is a block (`IsBlock`), and the list of the
blocks is that of all of them.  Members are given in `_parse`
alone, which is followed node by node; for the index `Indexed` says what its
members are after every entry (those that `NamesUpTo` lists), and a turn that
raises leaves those of the entries before it (`PrefixTheorem`).  That needs that
nothing is in the heap before the index is read: otherwise an entry could be an
object with members already.  It also decides the class of an object
(`ObjectsTheorem`): the compounds reading the index got to were made by it,
before any group, and have the class of their kind; the others a group can only
make as a DoxyGroup or, of the kinds it has among its classes, as a DoxyClass
(`MayBe`), and then the index ended at them or before (`EntryHasNode`).
`SwigInv`, the inductive invariant, says so (`Fine`)
and that the lists, reports and entries of the generator are of the heap.

What the program does on a new DoxyIndex (`SwigRunProofs`) needs more: which object
a look-up finds, and whether it raises: `MemberNamedExact` says that it answers
with the one member that has the name, or raises for none and for several.  Which
members have it depends on where they come from: those of a class that has been
read are the first definitions of its file (`KeptHaving`); each member of the
index is of one entry of index.xml, and `Counted` compares the members of a name
with the headers that define it (`FromEntries`, `SameCount`).  So the search for
the blocks finds all of them or raises (`BlocksExact`); the turn of a block ends
well just when the block has one make function, at most one header and its
constructor (`BlockTurnExact`), and with an exception no loop catches otherwise;
the turn of a class ends at most with the parsing error that is caught
(`ClassTurnExact`).  `AbortInv` says what each loop has learnt by then: every block
is one that lacks nothing or has yet to be visited (`AbortsTheorem`).

The same lemmas say which names a turn makes entries for.  `EntryInv` adds them up:
in the loop over the blocks, the names of a block are in the file or the block has
yet to be visited; the functions the next loop leaves out are make functions whose
entry the first loop made; the classes the last loop leaves out have the name of a
block, and so are that block; and a class is done when its names are in the file or
it has been reported.  No loop enters a name that is not of a class or a header of
the directory, but that of a block: a block without a description is entered if its
header has one, which is why `AllAccountedFor` has room for it.  When nothing is
left to visit, `AllAccountedFor` is what `EntryInv` says (`AccountsTheorem`).

Assumed of a directory is what Doxygen guarantees: an index names a refid once,
a group refers to groups as groups, and among its classes to classes, structs,
unions, interfaces, protocols, categories and exceptions (`InnerKinds`), and no
definition in a file has the kind of a class, file, namespace or group
(`CorporaAssumption`); a class has one
compound, named with its scope, and its name has no `operator ` in it
(`NamesAssumption`).  Without the last, a class with the name of a block would be
left out by the third loop, and make no entry.

Only model-checked:

* Everything temporal beyond action properties (`CallsReturn`, `FrameEnds`,
  `StopReturns`, `Delivered`, `GeneratorEnds`): liveness under fairness is out of
  the prover's reach.
* What the decimating and the interpolating accelerator put out.
* The reader of one document (`RoundTrip`, `DescriptionInOrder`,
  `LiteralRaisesOnMixed`): documents are trees, the operators on them are
  recursive, for which the prover has no backend, and an induction over
  documents would need a theorem with an operator for a parameter.  A loop, here
  and in `FifoBytes`, is a recursive function of a number, and the least number
  for which a claim about it fails is what stands in for induction.
* Of the generator `EntriesRight` (no name has two entries, and a block and its make
  function have all their descriptions), which also depends on how the names of
  methods and functions differ from those of classes and from one another, and
  `AnswersStable`, which compares one call on two heaps.

## 5. Disagreements between the code and what is said of it

Four runs fail:

* `sdr_sink_close`: `stop` (sink, line 178) closes `fd_1` and keeps its value, the
  destructor (line 163) closes it again.  The source sets `fd_0 = -1` and passes
  the same property, for every instance.  The accelerators close as the sink does.
* `fir_decim`: `consume_each(noutput_items)` and then the base class's
  `noutput_items * decimation`; the interpolator does the same.
* `fir_interp`: `buffer_read` has `CONST_ARRAY_SIZE` bytes whatever the
  interpolation is.
* `fir_restart`: `stop` of an accelerator (lines 186-201) closes both descriptors
  and resets neither; `m_msgdmaStatus`, which `work` asks (line 249), is set by the
  constructor only, and no start opens a device.  A block that is started again
  writes to closed descriptors or into another file.  `fir_filter` states what
  holds: a block uses its own devices until its first stop, and never after it.

Others are stated as what the code does by properties that pass:

* `RadioKeepsSample`: the sink saturates at the scale constant (editor default
  8192), which a word of 10 to 13 bits does not hold, so a loud sample wraps.
* `FirKeepsSample`: the plain accelerator answers complex shorts with the
  imaginary part first (line 374), whatever the format of its input, so that an
  accelerator between a gr_complex and two shorts exchanges I and Q in one
  direction only; the other two blocks do not exchange them at all, and
  `FirSample` is the plain one.
* `RadioKeepsSample` again: for complex shorts the source ignores `Swap IQ`
  (line 448), which the sink honours, and two shorts outside the word length are
  not saturated.
* `ContentsAreQueue` of `FifoBytes`: `fifo_read_3` tests an unsigned difference
  with `<= 0` (line 223) and loses the buffer's contents when the bytes it puts
  back reach past the start of the array, and only then.
* `IndexHoldsPrefix`, `AbortsOnlyIfUnusable`: an index whose parse ended with an
  exception answers later calls with what it has; a header with broken XML ends
  the program although a class with broken XML is reported and passed over.
* `ObjectsWellFormed`: a struct, or another compound that is no class, is a
  DoxyClass when a group has it among its classes and reading the index ended at
  it or before; read from the index it is a DoxyOther.
* `CachesCoherent`: the docstring of `_get_dict_members` (base.py, lines 124-126)
  says that a name found twice is mapped to None; line 135 stores `Duplicate`, an
  exception class, which `get_member` relies on.
* `LiteralRaisesOnMixed`: `hasContent_` of a class with mixed content reads
  fields that nothing sets, so `exportLiteral` raises on every description.
* `RoundTrip`: a missing required attribute is written as `None`, and a CDATA
  section is quoted once too often.

Seen while modelling and not stated as properties: a source that could not open
its device keeps the words of an earlier source in the static FIFO buffer and
hands them out; a flowgraph that is stopped and started again has no worker
thread any more; a sink whose thread failed accepts
samples until the FIFO buffer is full and then none; `resetFIRFilter` of the
decimating and interpolating blocks reads as many bytes as it wrote, which is
not how many its filter answers; `m_MSB_MASK` of the source is computed and its
use commented out (line 401); the output format `Complex Short` of the three accelerators in the block editor has
the size `gr.sizeof_short*2`, which the `make` line multiplies by 2 once more, so
that the block is constructed with the size of a gr_complex and delivers one.

## 6. Not modelled

* Two sources or two sinks alive at once.  They share the static buffer,
  descriptor and exit flag although each has its own mutex: the second
  constructor replaces the buffer and the descriptor under the first thread, and
  every property of `SdrSource` and `SdrSink` fails.
* The throttle of the sink and all sleeping: they take time and change nothing.
* Byte and complex buffers whose size is no power of two: their mask then skips
  slots; nothing in the repository makes one.
* The destructor of the FIFO buffer and memory addresses.
* Float arithmetic; what the FPGA sends in bits above the word length.
* The driver, the FPGA and the runtime, except as the environment.
* In the documentation program: text that is not ASCII and its encoding, the
  layout of what is written, the queries of `compound.py` and `index.py`
  (`find`, `find_compounds_and_members`), which nothing calls, and the command
  line.
* Build files and `python/build_utils.py`: they run CMake and templates, and keep
  no state.

## 7. What is left

1. Two sources in one process over one FIFO buffer, descriptor and exit flag,
   each with its own mutex: what still holds of each.
2. The source composed with `SyncParser` and `FifoBuffer` in place of the choice
   of words and the abstract queue.
3. The sink's throttle counter against the samples consumed.
