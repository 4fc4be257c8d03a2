----------------------------- MODULE SyncParser -----------------------------
(***************************************************************************)
(* The RX state machine of the source block                                *)
(* (lib/altera_socfpga_sdr_source_complex_impl.cc, worker thread): it      *)
(* takes the byte stream of the DMA device block by block, looks for the   *)
(* synchronization word 5A 0F BE 66, packs the SyncMaxCount bytes after it *)
(* into gr_storage words of four bytes, and looks for the next one.  The   *)
(* state, the counter and the bytes of a half-built word survive the end   *)
(* of a block; the words of a block are written to the FIFO buffer at its  *)
(* end.                                                                    *)
(*                                                                         *)
(* While it searches, what matters of a byte is its value.  While it       *)
(* packs, its value is not looked at: a byte is its place in the frame,    *)
(* 1 .. SyncMaxCount, and 0 stands for the 0x00 the variables start with.  *)
(***************************************************************************)
EXTENDS Integers, Sequences

CONSTANTS
  Byte,          \* the values of a byte the search tells apart
  SyncWord,      \* the four bytes of the synchronization word
  BlockBytes,    \* CONST_READ_MSGDMA_BUFFER_SIZE
  SyncMaxCount   \* CONST_SYNC_MAX_COUNT: the bytes of a frame

\* CONST_READ_STORAGE_BUFFER_SIZE: the words buffer_read_storage has room for.
StorageWords == BlockBytes \div 4

ASSUME ParserAssumption ==
  /\ SyncWord \in [1 .. 4 -> Byte]
  /\ \A a, b \in 1 .. 4 : SyncWord[a] = SyncWord[b] => a = b
  /\ BlockBytes \in Nat \ {0} /\ BlockBytes = 4 * StorageWords
  /\ SyncMaxCount \in Nat \ {0} /\ SyncMaxCount = 4 * (SyncMaxCount \div 4)

VARIABLES
  rx_state,    \* 0 .. 3 search for byte 1 .. 4 of SyncWord, 4 .. 7 pack
  sync_count,  \* the bytes of the frame still to come
  held,        \* msb_0, lsb_0, msb_1: the word being built
  stored,      \* buffer_read_storage[0 .. gr_count-1]
  n,           \* how many bytes of the block are processed
  window,      \* history: the last bytes searched, at most five
  pos          \* history: the place in the frame of the last byte packed

vars == <<rx_state, sync_count, held, stored, n, window, pos>>

gr_count == Len(stored)
Searching == rx_state \in 0 .. 3
Packing == rx_state \in 4 .. 7

Slide(s, b) == Append(IF Len(s) = 5 THEN Tail(s) ELSE s, b)

-----------------------------------------------------------------------------
(* Wrong variants, one mistake each, that the properties tell from the     *)
(* code.                                                                   *)

\* A mismatch that keeps the bytes matched so far.
SearchKeepsState(b) ==
  /\ Searching
  /\ rx_state' = IF b = SyncWord[rx_state + 1] THEN rx_state + 1 ELSE rx_state
  /\ sync_count' = IF rx_state = 3 THEN SyncMaxCount ELSE sync_count
  /\ window' = Slide(window, b)
  /\ pos' = 0
  /\ UNCHANGED <<held, stored>>

\* A byte that is not counted.
HoldUncounted ==
  /\ rx_state \in 4 .. 6
  /\ pos' = pos + 1
  /\ held' = [held EXCEPT ![rx_state - 4] = pos + 1]
  /\ sync_count' = IF rx_state = 4 THEN sync_count ELSE sync_count - 1
  /\ rx_state' = rx_state + 1
  /\ UNCHANGED <<stored, window>>

\* A frame that follows the last without a synchronization word.
StoreReloads ==
  /\ rx_state = 7
  /\ pos' = IF sync_count = 1 THEN 0 ELSE pos + 1
  /\ stored' = Append(stored, <<held[0], held[1], held[2], pos + 1>>)
  /\ sync_count' = IF sync_count = 1 THEN SyncMaxCount ELSE sync_count - 1
  /\ rx_state' = 4
  /\ UNCHANGED <<window, held>>

\* A block end that forgets the word being built.
FlushDropsWord ==
  /\ n = BlockBytes
  /\ n' = 0
  /\ stored' = << >>
  /\ rx_state' = IF Packing THEN 4 ELSE rx_state
  /\ UNCHANGED <<sync_count, held, window, pos>>

\* A block end that forgets the synchronization bytes matched.
FlushDropsMatch ==
  /\ n = BlockBytes
  /\ n' = 0
  /\ stored' = << >>
  /\ rx_state' = IF Searching THEN 0 ELSE rx_state
  /\ UNCHANGED <<sync_count, held, window, pos>>

\* A block end that keeps the words already written.
FlushKeepsCount ==
  /\ n = BlockBytes
  /\ n' = 0
  /\ UNCHANGED <<rx_state, sync_count, held, stored, window, pos>>

-----------------------------------------------------------------------------

Init ==
  /\ rx_state = 0
  /\ sync_count = 0
  /\ held = [i \in 0 .. 2 |-> 0]
  /\ stored = << >>
  /\ n = 0
  /\ window = << >>
  /\ pos = 0

\* CONST_SEARCH_SYNC_WORD_0 .. 3: a byte that is not the one expected sends
\* the search back to the first, without being looked at again.
Search(b) ==
  /\ Searching
  /\ rx_state' = IF b = SyncWord[rx_state + 1] THEN rx_state + 1 ELSE 0
  /\ sync_count' = IF rx_state = 3 THEN SyncMaxCount ELSE sync_count
  /\ window' = Slide(window, b)
  /\ pos' = 0
  /\ UNCHANGED <<held, stored>>

\* CONST_SEARCH_READ_WORD_0 .. 2: msb_0, lsb_0, msb_1.
Hold ==
  /\ rx_state \in 4 .. 6
  /\ pos' = pos + 1
  /\ held' = [held EXCEPT ![rx_state - 4] = pos + 1]
  /\ sync_count' = sync_count - 1
  /\ rx_state' = rx_state + 1
  /\ UNCHANGED <<stored, window>>

\* CONST_SEARCH_READ_WORD_3: lsb_1 completes the word.
Store ==
  /\ rx_state = 7
  /\ pos' = pos + 1
  /\ stored' = Append(stored, <<held[0], held[1], held[2], pos + 1>>)
  /\ sync_count' = sync_count - 1
  /\ rx_state' = IF sync_count' = 0 THEN 0 ELSE 4
  /\ window' = IF sync_count' = 0 THEN << >> ELSE window
  /\ UNCHANGED held

\* One byte of the block.
NextByte(b) ==
  /\ n < BlockBytes
  /\ n' = n + 1
  /\ Search(b) \/ Hold \/ Store

\* The block ends: its words go to the FIFO buffer, the next block is read.
Flush ==
  /\ n = BlockBytes
  /\ n' = 0
  /\ stored' = << >>
  /\ UNCHANGED <<rx_state, sync_count, held, window, pos>>

Next == (\E b \in Byte : NextByte(b)) \/ Flush

Spec == Init /\ [][Next]_vars

-----------------------------------------------------------------------------

\* The k-th word of a frame.
FrameWord(k) == <<4 * k - 3, 4 * k - 2, 4 * k - 1, 4 * k>>
FrameWords == 1 .. SyncMaxCount \div 4

(* Every variable keeps its type.                                          *)
TypeOK ==
  /\ rx_state \in 0 .. 7
  /\ sync_count \in 0 .. SyncMaxCount
  /\ held \in [0 .. 2 -> 0 .. SyncMaxCount]
  /\ stored \in Seq((0 .. SyncMaxCount) \X (0 .. SyncMaxCount) \X
                    (0 .. SyncMaxCount) \X (0 .. SyncMaxCount))
  /\ n \in 0 .. BlockBytes
  /\ window \in Seq(Byte)
  /\ pos \in 0 .. SyncMaxCount

(* buffer_read_storage has no room to spare: a block that begins with up   *)
(* to three bytes held from the block before still never fills more words  *)
(* than it has.                                                            *)
StorageFits == gr_count <= StorageWords

(* sync_count is decremented in four places and compared with zero in one: *)
(* it reaches zero there and nowhere else, so that no frame runs on into   *)
(* the next.                                                               *)
FrameEndsOnWord ==
  Packing => /\ sync_count > 0
             /\ sync_count = SyncMaxCount - pos

(* Every word written to the FIFO buffer is four consecutive bytes of one  *)
(* frame, cut at a multiple of four from its synchronization word, also    *)
(* when the end of a block cut the word; and the words of a block follow   *)
(* one another, none missing and none twice.                               *)
WordsWhole ==
  /\ \A i \in 1 .. gr_count : \E k \in FrameWords : stored[i] = FrameWord(k)
  /\ \A i \in 1 .. gr_count - 1 :
       \/ stored[i + 1][1] = stored[i][4] + 1
       \/ stored[i][4] = SyncMaxCount /\ stored[i + 1][1] = 1

(* Packing only ever begins after the four bytes of the synchronization    *)
(* word, one after the other.                                              *)
LockedOnSync ==
  Packing => /\ Len(window) >= 4
             /\ \A i \in 1 .. 4 : window[Len(window) - 4 + i] = SyncWord[i]

(* A mismatched byte is not looked at again, so that a synchronization     *)
(* word may be overlooked: only where the byte before it could be part of  *)
(* one itself.                                                             *)
MissesOnlyBrokenMatch ==
  (/\ Searching
   /\ Len(window) >= 4
   /\ \A i \in 1 .. 4 : window[Len(window) - 4 + i] = SyncWord[i])
  => /\ Len(window) = 5
     /\ \E i \in 1 .. 3 : window[1] = SyncWord[i]

(* The parser always comes back to search for the next synchronization     *)
(* word.                                                                   *)
FrameEnds == Packing ~> Searching
=============================================================================
