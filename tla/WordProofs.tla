----------------------------- MODULE WordProofs -----------------------------
(***************************************************************************)
(* Proofs about the words of the sample stream: SyncParser, which finds    *)
(* them in the bytes of the receiver, and SampleCodec, which makes their   *)
(* bytes of a sample and a sample of their bytes.                          *)
(*                                                                         *)
(* The parser, for every block size and frame length that are multiples    *)
(* of four.  StorageFits speaks of a whole block and is not inductive:     *)
(* IInv counts the bytes of the words stored and of the word held against  *)
(* the bytes processed (Fits).  WordsWhole needs to know where in the      *)
(* frame the held bytes are (Held, Phase) and where the last word stored   *)
(* ended (Follows).  LockedOnSync and MissesOnlyBrokenMatch are about the  *)
(* search.  Its invariant, SearchInv, says which bytes of the              *)
(* synchronization word came last (Matched), and that a beginning of the   *)
(* word that came last is known to the search unless a byte that could be  *)
(* part of one came before it (Known).  TypeOK follows from the two.       *)
(*                                                                         *)
(* The codec, for every word length and every sample, not only the ones    *)
(* TLC tries: the source and the accelerator deliver what went in, as a    *)
(* word of that length holds it (CodecInv says what is in the word).       *)
(***************************************************************************)
EXTENDS SyncParser, SampleCodec, SequenceTheorems, TLAPS

-----------------------------------------------------------------------------
(* The parser.                                                             *)

\* How many bytes of the word being built are held.
HeldBytes == IF Packing THEN rx_state - 4 ELSE 0

\* The place of the last byte of the last whole word of the frame.
WordEnd == pos - (rx_state - 4)

Bounds ==
  /\ rx_state \in 0 .. 7
  /\ sync_count \in 0 .. SyncMaxCount
  /\ held \in [0 .. 2 -> 0 .. SyncMaxCount]
  /\ n \in 0 .. BlockBytes
  /\ pos \in 0 .. SyncMaxCount

Phase == Packing => \E k \in 0 .. SyncMaxCount : pos = 4 * k + (rx_state - 4)

Held == Packing => \A i \in 0 .. 2 : i < HeldBytes => held[i] = WordEnd + i + 1

Fits == 4 * gr_count + HeldBytes <= n + 3

Whole ==
  /\ stored \in Seq({FrameWord(k) : k \in FrameWords})
  /\ \A i \in 1 .. gr_count - 1 :
       \/ stored[i + 1][1] = stored[i][4] + 1
       \/ stored[i][4] = SyncMaxCount /\ stored[i + 1][1] = 1

Follows ==
  gr_count > 0 =>
    IF Packing THEN \/ stored[gr_count][4] = WordEnd
                    \/ stored[gr_count][4] = SyncMaxCount /\ WordEnd = 0
               ELSE stored[gr_count][4] = SyncMaxCount

IInv ==
  /\ Bounds
  /\ FrameEndsOnWord
  /\ Phase
  /\ Held
  /\ Fits
  /\ Whole
  /\ Follows

-----------------------------------------------------------------------------
(* The word completed at a multiple of four is a word of the frame.        *)
LEMMA WordOfFrame ==
  ASSUME NEW k \in 1 .. SyncMaxCount, 4 * k <= SyncMaxCount
  PROVE  k \in FrameWords
  BY ParserAssumption DEF FrameWords

(* The invariant holds initially.                                          *)
LEMMA InitIInv == Init => IInv
<1> SUFFICES ASSUME Init PROVE IInv
  OBVIOUS
<1>1. Bounds
  BY ParserAssumption DEF Init, Bounds
<1>2. ~ Packing
  BY DEF Init, Packing
<1>3. stored = << >> /\ gr_count = 0
  BY DEF Init, gr_count
<1>4. << >> \in Seq({FrameWord(k) : k \in FrameWords})
  OBVIOUS
<1>5. Whole
  BY <1>3, <1>4 DEF Whole
<1> QED
  BY <1>1, <1>2, <1>3, <1>5 DEF IInv, FrameEndsOnWord, Phase, Held, Fits,
     Follows, HeldBytes, Init

(* A byte of the search keeps the invariant; the byte that completes the   *)
(* synchronization word starts a frame with nothing held.                  *)
LEMMA SearchIInv ==
  ASSUME IInv, n < BlockBytes, n' = n + 1, NEW b \in Byte, Search(b)
  PROVE  IInv'
<1> USE DEF IInv, Search, Bounds
<1>1. Bounds'
  BY ParserAssumption DEF Searching
<1>2. Packing' => sync_count' = SyncMaxCount /\ pos' = 0 /\ rx_state' = 4
  BY DEF Packing, Searching
<1>3. ~ Packing
  BY DEF Packing, Searching
<1>4. HeldBytes = 0 /\ HeldBytes' = 0
  BY <1>2, <1>3 DEF HeldBytes
<1>5. gr_count' = gr_count /\ stored' = stored
  BY DEF gr_count
<1>6. FrameEndsOnWord'
  BY <1>2, ParserAssumption DEF FrameEndsOnWord
<1>7. Phase'
  BY <1>2, ParserAssumption DEF Phase
<1>8. Held'
  BY <1>4 DEF Held
<1>9. Fits'
  <2>1. gr_count \in Nat
    BY DEF Whole, gr_count
  <2> QED
    BY <1>4, <1>5, <2>1 DEF Fits
<1>10. Whole'
  BY <1>5 DEF Whole
<1>11. Follows'
  BY <1>2, <1>3, <1>5 DEF Follows, WordEnd
<1> QED
  BY <1>1, <1>6, <1>7, <1>8, <1>9, <1>10, <1>11

(* One of the first three bytes of a word keeps the invariant.             *)
LEMMA HoldIInv ==
  ASSUME IInv, n < BlockBytes, n' = n + 1, Hold
  PROVE  IInv'
<1> USE DEF IInv, Hold, Bounds
<1>1. /\ Packing /\ Packing'
      /\ sync_count > 0 /\ sync_count = SyncMaxCount - pos
  BY DEF Packing, FrameEndsOnWord
<1>2. PICK k \in 0 .. SyncMaxCount : pos = 4 * k + (rx_state - 4)
  BY <1>1 DEF Phase
<1>3. PICK m \in Nat : SyncMaxCount = 4 * m
  BY ParserAssumption
<1>4. pos' = 4 * k + (rx_state' - 4) /\ pos' < SyncMaxCount
  BY <1>1, <1>2, <1>3
<1>5. Bounds'
  BY <1>1, <1>4, ParserAssumption
<1>6. FrameEndsOnWord'
  BY <1>1, <1>4, ParserAssumption DEF FrameEndsOnWord
<1>7. Phase'
  BY <1>4 DEF Phase
<1>8. /\ HeldBytes = rx_state - 4 /\ HeldBytes' = HeldBytes + 1
      /\ WordEnd' = WordEnd
  BY <1>1, ParserAssumption DEF HeldBytes, WordEnd
<1>9. Held'
  <2> SUFFICES ASSUME NEW i \in 0 .. 2, i < HeldBytes'
               PROVE  held'[i] = WordEnd' + i + 1
    BY DEF Held
  <2>1. CASE i = rx_state - 4
    BY <2>1, <1>8, ParserAssumption DEF WordEnd
  <2>2. CASE i # rx_state - 4
    BY <2>2, <1>1, <1>8 DEF Held
  <2> QED
    BY <2>1, <2>2
<1>10. gr_count' = gr_count /\ gr_count \in Nat
  BY DEF Whole, gr_count
<1>11. Fits'
  BY <1>8, <1>10 DEF Fits
<1>12. Whole'
  BY <1>10 DEF Whole
<1>13. Follows'
  BY <1>1, <1>8, <1>10 DEF Follows
<1> QED
  BY <1>5, <1>6, <1>7, <1>9, <1>11, <1>12, <1>13

(* The byte that completes a word keeps the invariant: the word is the     *)
(* next one of the frame, and the counter is zero when it is the last.     *)
LEMMA StoreIInv ==
  ASSUME IInv, n < BlockBytes, n' = n + 1, Store
  PROVE  IInv'
<1> USE DEF IInv, Store, Bounds
<1>1. /\ Packing
      /\ sync_count > 0 /\ sync_count = SyncMaxCount - pos
  BY DEF Packing, FrameEndsOnWord
<1>2. PICK k \in 0 .. SyncMaxCount : pos = 4 * k + 3
  BY <1>1 DEF Phase
<1> DEFINE w == <<held[0], held[1], held[2], pos + 1>>
<1>3. WordEnd = 4 * k /\ HeldBytes = 3 /\ pos' = 4 * (k + 1)
  BY <1>1, <1>2 DEF WordEnd, HeldBytes
<1>4. w = FrameWord(k + 1)
  BY <1>1, <1>2, <1>3 DEF Held, FrameWord
<1>5. k + 1 \in FrameWords
  BY <1>1, <1>3, WordOfFrame, ParserAssumption
<1>6. /\ gr_count \in Nat /\ gr_count' = gr_count + 1
      /\ stored'[gr_count + 1] = w
      /\ \A i \in 1 .. gr_count : stored'[i] = stored[i]
      /\ stored' \in Seq({FrameWord(m) : m \in FrameWords})
  BY <1>4, <1>5 DEF Whole, gr_count
<1>7. Bounds'
  BY <1>1, ParserAssumption
<1>8. Packing' => /\ pos' < SyncMaxCount /\ rx_state' = 4
                  /\ sync_count' > 0 /\ sync_count' = SyncMaxCount - pos'
  BY <1>1, ParserAssumption DEF Packing
<1>9. FrameEndsOnWord'
  BY <1>8 DEF FrameEndsOnWord
<1>10. Phase'
  <2>1. k + 1 \in 0 .. SyncMaxCount
    BY <1>5, ParserAssumption DEF FrameWords
  <2>2. Packing' => pos' = 4 * (k + 1) + (rx_state' - 4)
    BY <1>3, <1>8
  <2> QED
    BY <2>1, <2>2 DEF Phase
<1>11. HeldBytes' = 0
  BY <1>8 DEF HeldBytes
<1>12. Held'
  BY <1>11 DEF Held
<1>13. Fits'
  BY <1>3, <1>6, <1>11 DEF Fits
<1>14. w[1] = 4 * k + 1 /\ w[4] = 4 * k + 4
  BY <1>4 DEF FrameWord
<1>15. /\ \A i \in 1 .. gr_count - 1 :
            \/ stored[i + 1][1] = stored[i][4] + 1
            \/ stored[i][4] = SyncMaxCount /\ stored[i + 1][1] = 1
       /\ gr_count > 0 => \/ stored[gr_count][4] = 4 * k
                          \/ stored[gr_count][4] = SyncMaxCount /\ k = 0
  BY <1>1, <1>3 DEF Whole, Follows
<1>16. stored'[gr_count'][4] = pos'
  BY <1>3, <1>6, <1>14
<1> HIDE DEF IInv, Store, Bounds, w
<1>17. Whole'
  <2> SUFFICES ASSUME NEW i \in 1 .. gr_count
               PROVE  \/ stored'[i + 1][1] = stored'[i][4] + 1
                      \/ stored'[i][4] = SyncMaxCount /\ stored'[i + 1][1] = 1
    BY <1>6 DEF Whole
  <2>1. CASE i < gr_count
    <3>1. stored'[i] = stored[i] /\ stored'[i + 1] = stored[i + 1]
      BY <2>1, <1>6
    <3>2. i \in 1 .. gr_count - 1
      BY <2>1, <1>6
    <3> QED
      BY <3>1, <3>2, <1>15
  <2>2. CASE i = gr_count
    <3>1. stored'[i] = stored[i] /\ stored'[i + 1] = w /\ gr_count > 0
      BY <2>2, <1>6
    <3> QED
      BY <2>2, <3>1, <1>14, <1>15
  <2> QED
    BY <2>1, <2>2, <1>6
<1>18. Follows'
  <2>1. CASE Packing'
    <3>1. WordEnd' = pos'
      <4>1. rx_state' = 4
        BY <2>1, <1>8
      <4>2. pos' = pos + 1 /\ pos \in Int
        BY DEF IInv, Bounds, Store
      <4> QED
        BY <4>1, <4>2 DEF WordEnd
    <3> QED
      BY <2>1, <3>1, <1>16 DEF Follows
  <2>2. CASE ~ Packing'
    <3>1. pos' = SyncMaxCount
      BY <2>2, <1>1, ParserAssumption DEF Packing, IInv, Bounds, Store
    <3> QED
      BY <2>2, <3>1, <1>16 DEF Follows
  <2> QED
    BY <2>1, <2>2
<1> QED
  BY <1>7, <1>9, <1>10, <1>12, <1>13, <1>17, <1>18 DEF IInv

(* The end of a block keeps the invariant: at most three bytes are held.   *)
LEMMA FlushIInv ==
  ASSUME IInv, Flush
  PROVE  IInv'
<1> USE DEF IInv, Flush, Bounds
<1>1. Bounds'
  BY ParserAssumption
<1>2. /\ stored' = << >> /\ gr_count' = 0
      /\ Packing' = Packing /\ HeldBytes' = HeldBytes /\ WordEnd' = WordEnd
  BY DEF gr_count, Packing, HeldBytes, WordEnd
<1>3. FrameEndsOnWord' /\ Phase' /\ Held'
  BY <1>2 DEF FrameEndsOnWord, Phase, Held
<1>4. Fits'
  BY <1>2 DEF Fits, HeldBytes, Packing
<1>5. << >> \in Seq({FrameWord(k) : k \in FrameWords})
  OBVIOUS
<1>6. Whole'
  BY <1>2, <1>5 DEF Whole
<1>7. Follows'
  BY <1>2 DEF Follows
<1> QED
  BY <1>1, <1>3, <1>4, <1>6, <1>7

(* Every step keeps the invariant.                                         *)
LEMMA NextIInv == IInv /\ [Next]_vars => IInv'
<1> SUFFICES ASSUME IInv, [Next]_vars PROVE IInv'
  OBVIOUS
<1>1. ASSUME NEW b \in Byte, NextByte(b) PROVE IInv'
  BY <1>1, SearchIInv, HoldIInv, StoreIInv DEF NextByte
<1>2. CASE Flush
  BY <1>2, FlushIInv
<1>3. CASE UNCHANGED vars
  BY <1>3 DEF IInv, Bounds, FrameEndsOnWord, Phase, Held, Fits, Whole,
              Follows, HeldBytes, WordEnd, Packing, gr_count, vars
<1> QED
  BY <1>1, <1>2, <1>3 DEF Next

(* Every reachable state satisfies the invariant.                          *)
THEOREM Invariance == Spec => []IInv
  BY InitIInv, NextIInv, PTL DEF Spec

-----------------------------------------------------------------------------
(* buffer_read_storage, which has room for exactly a quarter of the bytes  *)
(* of a block, is never overrun.                                           *)
THEOREM NeverOverrun == Spec => []StorageFits
<1>1. IInv => StorageFits
  <2> SUFFICES ASSUME IInv PROVE StorageFits
    OBVIOUS
  <2>1. gr_count \in Nat /\ HeldBytes \in 0 .. 3 /\ n \in 0 .. BlockBytes
    BY DEF IInv, Whole, Bounds, HeldBytes, Packing, gr_count
  <2>2. 4 * gr_count <= BlockBytes + 3
    BY <2>1, ParserAssumption DEF IInv, Fits
  <2> QED
    BY <2>1, <2>2, ParserAssumption DEF StorageFits, StorageWords
<1> QED
  BY <1>1, Invariance, PTL

(* The counter reaches zero on the last byte of a word and nowhere else.   *)
THEOREM CounterEndsOnWord == Spec => []FrameEndsOnWord
<1>1. IInv => FrameEndsOnWord
  BY DEF IInv
<1> QED
  BY <1>1, Invariance, PTL

(* No word is torn, misaligned, missing or stored twice, wherever the ends *)
(* of the blocks fall in the frames.                                       *)
THEOREM WordsAreWhole == Spec => []WordsWhole
<1>1. IInv => WordsWhole
  BY DEF IInv, Whole, WordsWhole, gr_count
<1> QED
  BY <1>1, Invariance, PTL

-----------------------------------------------------------------------------
(* The search.                                                             *)

\* The last j bytes searched are the first j of the synchronization word.
Came(j) ==
  /\ Len(window) >= j
  /\ \A r \in 1 .. j : window[(Len(window) - j) + r] = SyncWord[r]

\* The byte before them could be part of a synchronization word.
Broken(j) ==
  /\ Len(window) >= j + 1
  /\ \E q \in 1 .. 3 : window[Len(window) - j] = SyncWord[q]

WindowShape ==
  /\ rx_state \in 0 .. 7
  /\ window \in Seq(Byte) /\ Len(window) <= 5

Matched ==
  /\ \A r \in 1 .. 3 : rx_state = r => Came(r)
  /\ Packing => Came(4)

Known == Searching => \A j \in 1 .. 4 : Came(j) => rx_state = j \/ Broken(j)

SearchInv == WindowShape /\ Matched /\ Known

(* A byte after others.                                                    *)
LEMMA AppendByte ==
  ASSUME NEW t \in Seq(Byte), NEW b \in Byte
  PROVE  /\ Append(t, b) \in Seq(Byte)
         /\ Len(Append(t, b)) = Len(t) + 1
         /\ \A q \in 1 .. Len(t) : Append(t, b)[q] = t[q]
         /\ Append(t, b)[Len(t) + 1] = b
  OBVIOUS

(* What a byte does to the window.                                         *)
LEMMA SlideWindow ==
  ASSUME WindowShape, NEW b \in Byte, window' = Slide(window, b)
  PROVE  /\ window' \in Seq(Byte)
         /\ Len(window) \in 0 .. 5 /\ Len(window') \in 1 .. 5
         /\ Len(window') = IF Len(window) = 5 THEN 5 ELSE Len(window) + 1
         /\ window'[Len(window')] = b
         /\ \A d \in 1 .. Len(window') - 1 :
              window'[Len(window') - d] = window[Len(window) - (d - 1)]
<1>1. /\ window \in Seq(Byte) /\ Len(window) \in 0 .. 5
  <2>1. window \in Seq(Byte) /\ Len(window) <= 5
    BY DEF WindowShape
  <2>2. Len(window) \in Nat
    BY <2>1
  <2>3. \A m \in Nat : m <= 5 => m \in 0 .. 5
    OBVIOUS
  <2> QED
    BY <2>1, <2>2, <2>3, Zenon
<1>2. CASE Len(window) = 5
  <2>1. /\ Tail(window) \in Seq(Byte) /\ Len(Tail(window)) = 4
        /\ \A q \in 1 .. 4 : Tail(window)[q] = window[q + 1]
    BY <1>1, <1>2
  <2>2. window' = Append(Tail(window), b)
    BY <1>2 DEF Slide
  <2>3. /\ window' \in Seq(Byte) /\ Len(window') = 5 /\ window'[5] = b
        /\ \A q \in 1 .. 4 : window'[q] = window[q + 1]
    <3>1. /\ Append(Tail(window), b) \in Seq(Byte)
          /\ Len(Append(Tail(window), b)) = Len(Tail(window)) + 1
          /\ \A q \in 1 .. Len(Tail(window)) :
               Append(Tail(window), b)[q] = Tail(window)[q]
          /\ Append(Tail(window), b)[Len(Tail(window)) + 1] = b
      BY <2>1, AppendByte, Zenon
    <3>2. 4 + 1 = 5
      OBVIOUS
    <3> QED
      BY <2>1, <2>2, <3>1, <3>2, Zenon
  <2>4. ASSUME NEW d \in 1 .. 4
        PROVE  window'[5 - d] = window[5 - (d - 1)]
    <3>1. 5 - d \in 1 .. 4 /\ (5 - d) + 1 = 5 - (d - 1)
      OBVIOUS
    <3> QED
      BY <2>3, <3>1
  <2> QED
    BY <1>1, <1>2, <2>3, <2>4
<1>3. CASE Len(window) # 5
  <2>1. window' = Append(window, b)
    BY <1>3 DEF Slide
  <2>2. /\ window' \in Seq(Byte) /\ Len(window') = Len(window) + 1
        /\ window'[Len(window) + 1] = b
        /\ \A q \in 1 .. Len(window) : window'[q] = window[q]
    BY <1>1, <2>1
  <2>3. ASSUME NEW d \in 1 .. Len(window)
        PROVE  window'[(Len(window) + 1) - d] = window[Len(window) - (d - 1)]
    <3>1. /\ Len(window) - (d - 1) \in 1 .. Len(window)
          /\ (Len(window) + 1) - d = Len(window) - (d - 1)
      BY <1>1
    <3> QED
      BY <2>2, <3>1
  <2>4. /\ Len(window) + 1 \in 1 .. 5
        /\ (Len(window) + 1) - 1 = Len(window)
    <3>1. \A m \in 0 .. 5 : m # 5 => m + 1 \in 1 .. 5 /\ (m + 1) - 1 = m
      OBVIOUS
    <3> QED
      BY <1>1, <1>3, <3>1, Zenon
  <2> QED
    BY <1>1, <1>3, <2>2, <2>3, <2>4, Zenon
<1> QED
  BY <1>2, <1>3

(* A beginning of the synchronization word came when its last byte follows *)
(* a beginning that is shorter by one.                                     *)
LEMMA CameStep ==
  ASSUME WindowShape, NEW b \in Byte, window' = Slide(window, b), NEW j \in 1 .. 4
  PROVE  Came(j)' <=> b = SyncWord[j] /\ (j = 1 \/ Came(j - 1))
<1> DEFINE L == Len(window)
           M == Len(window')
<1>1. /\ L \in 0 .. 5 /\ M \in 1 .. 5
      /\ M = IF L = 5 THEN 5 ELSE L + 1
      /\ window'[M] = b
      /\ \A d \in 1 .. M - 1 : window'[M - d] = window[L - (d - 1)]
  BY SlideWindow
<1>2. ASSUME Came(j)' PROVE b = SyncWord[j] /\ (j = 1 \/ Came(j - 1))
  <2>1. M >= j /\ \A r \in 1 .. j : window'[(M - j) + r] = SyncWord[r]
    BY <1>2 DEF Came
  <2> HIDE DEF L, M
  <2>2. b = SyncWord[j]
    <3>1. (M - j) + j = M
      BY <1>1
    <3> QED
      BY <1>1, <2>1, <3>1
  <2>3. ASSUME j # 1 PROVE L >= j - 1
    BY <1>1, <2>1
  <2>4. ASSUME j # 1, NEW r \in 1 .. j - 1
        PROVE  window[(L - (j - 1)) + r] = SyncWord[r]
    <3>1. /\ j - r \in 1 .. M - 1 /\ M - (j - r) = (M - j) + r
          /\ L - ((j - r) - 1) = (L - (j - 1)) + r /\ r \in 1 .. j
      BY <1>1, <2>1
    <3> QED
      BY <1>1, <2>1, <3>1
  <2> QED
    BY <2>2, <2>3, <2>4 DEF Came, L
<1>3. ASSUME b = SyncWord[j], j = 1 \/ Came(j - 1) PROVE Came(j)'
  <2>1. j # 1 => /\ L >= j - 1
                 /\ \A r \in 1 .. j - 1 : window[(L - (j - 1)) + r] = SyncWord[r]
    BY <1>3 DEF Came
  <2> HIDE DEF L, M
  <2>2. M >= j
    BY <1>1, <2>1
  <2>3. ASSUME NEW r \in 1 .. j PROVE window'[(M - j) + r] = SyncWord[r]
    <3>1. CASE r = j
      <4>1. (M - j) + r = M
        BY <1>1, <3>1
      <4> QED
        BY <1>1, <1>3, <3>1, <4>1
    <3>2. CASE r # j
      <4>1. /\ j - r \in 1 .. M - 1 /\ M - (j - r) = (M - j) + r
            /\ L - ((j - r) - 1) = (L - (j - 1)) + r /\ r \in 1 .. j - 1 /\ j # 1
        BY <1>1, <2>2, <3>2
      <4> QED
        BY <1>1, <2>1, <4>1
    <3> QED
      BY <3>1, <3>2
  <2> QED
    BY <2>2, <2>3 DEF Came, M
<1> QED
  BY <1>2, <1>3

(* A byte of the search keeps the invariant.                               *)
LEMMA SearchSearchInv ==
  ASSUME SearchInv, NEW b \in Byte, Search(b)
  PROVE  SearchInv'
<1>1. /\ rx_state \in 0 .. 3 /\ WindowShape /\ window' = Slide(window, b)
      /\ rx_state' = IF b = SyncWord[rx_state + 1] THEN rx_state + 1 ELSE 0
  BY DEF SearchInv, Search, Searching
<1>2. WindowShape'
  BY <1>1, SlideWindow DEF WindowShape
<1>3. \A j \in 1 .. 4 : Came(j)' <=> b = SyncWord[j] /\ (j = 1 \/ Came(j - 1))
  BY <1>1, CameStep
<1>4. \A r \in 1 .. 3 : rx_state = r => Came(r)
  BY DEF SearchInv, Matched
<1>5. ASSUME NEW r \in 1 .. 4, rx_state' = r PROVE Came(r)'
  <2>1. b = SyncWord[r] /\ rx_state = r - 1
    BY <1>1, <1>5
  <2>2. r = 1 \/ Came(r - 1)
    <3>1. r # 1 => r - 1 \in 1 .. 3
      OBVIOUS
    <3> QED
      BY <1>4, <2>1, <3>1
  <2> QED
    BY <1>3, <2>1, <2>2
<1>6. Matched'
  <2>1. Packing' => rx_state' = 4
    BY <1>1 DEF Packing
  <2> QED
    BY <1>5, <2>1 DEF Matched
<1>7. ASSUME Searching', NEW j \in 1 .. 4, Came(j)'
      PROVE  rx_state' = j \/ Broken(j)'
  <2>1. b = SyncWord[j] /\ (j = 1 \/ Came(j - 1))
    BY <1>3, <1>7
  <2>2. /\ Len(window) \in 0 .. 5 /\ Len(window') \in 1 .. 5
        /\ Len(window') = IF Len(window) = 5 THEN 5 ELSE Len(window) + 1
        /\ \A d \in 1 .. Len(window') - 1 :
             window'[Len(window') - d] = window[Len(window) - (d - 1)]
    BY <1>1, SlideWindow
  <2>3. CASE j = 1 /\ rx_state = 0
    BY <1>1, <2>1, <2>3
  <2>4. CASE j = 1 /\ rx_state \in 1 .. 3
    <3>1. Came(rx_state)
      BY <1>4, <2>4
    <3>2. Len(window) >= rx_state /\ window[(Len(window) - rx_state) + rx_state] = SyncWord[rx_state]
      BY <2>4, <3>1 DEF Came
    <3>3. (Len(window) - rx_state) + rx_state = Len(window) /\ Len(window) - (1 - 1) = Len(window)
      BY <2>2, <2>4
    <3>4. Len(window') >= 2 /\ 1 \in 1 .. Len(window') - 1
      BY <2>2, <2>4, <3>2
    <3>5. window'[Len(window') - 1] = SyncWord[rx_state]
      BY <2>2, <3>2, <3>3, <3>4
    <3> QED
      BY <2>4, <3>4, <3>5 DEF Broken
  <2>5. CASE j # 1
    <3>1. j - 1 \in 1 .. 4 /\ Searching
      BY <1>1, <2>5 DEF Searching
    <3>2. rx_state = j - 1 \/ Broken(j - 1)
      BY <2>1, <2>5, <3>1 DEF SearchInv, Known
    <3>3. CASE rx_state = j - 1
      BY <1>1, <2>1, <3>3
    <3>4. CASE Broken(j - 1)
      <4>1. PICK q \in 1 .. 3 : Len(window) >= j /\ window[Len(window) - (j - 1)] = SyncWord[q]
        BY <3>4 DEF Broken
      <4>2. Len(window') >= j + 1 /\ j \in 1 .. Len(window') - 1
        BY <2>2, <4>1
      <4>3. window'[Len(window') - j] = SyncWord[q]
        BY <2>2, <4>1, <4>2
      <4> QED
        BY <4>2, <4>3 DEF Broken
    <3> QED
      BY <3>2, <3>3, <3>4
  <2> QED
    BY <1>1, <2>3, <2>4, <2>5
<1> QED
  BY <1>2, <1>6, <1>7 DEF SearchInv, Known

(* Nothing came before the first byte.                                     *)
LEMMA EmptyWindow ==
  ASSUME rx_state = 0, window = << >>
  PROVE  SearchInv
<1>1. WindowShape
  BY DEF WindowShape
<1>2. \A j \in 1 .. 4 : ~ Came(j)
  BY DEF Came
<1>3. ~ Packing
  BY DEF Packing
<1> QED
  BY <1>1, <1>2, <1>3 DEF SearchInv, Matched, Known

(* A step that packs, and one that leaves the search alone, keep it.       *)
LEMMA PackSearchInv ==
  ASSUME SearchInv, window' = window,
         rx_state' = rx_state \/ (Packing /\ rx_state' \in 4 .. 7)
  PROVE  SearchInv'
<1>1. WindowShape'
  BY DEF SearchInv, WindowShape, Packing
<1>2. \A j \in 1 .. 4 : (Came(j)' <=> Came(j)) /\ (Broken(j)' <=> Broken(j))
  BY DEF Came, Broken
<1>3. (Packing' <=> Packing) /\ (Searching' <=> Searching)
  BY DEF Packing, Searching
<1>4. Matched'
  BY <1>2, <1>3 DEF SearchInv, Matched, Packing
<1>5. Known'
  BY <1>2, <1>3 DEF SearchInv, Known, Packing, Searching
<1> QED
  BY <1>1, <1>4, <1>5 DEF SearchInv

(* Every reachable state satisfies the invariant of the search.            *)
THEOREM SearchInvariance == Spec => []SearchInv
<1>1. Init => SearchInv
  <2> SUFFICES ASSUME Init PROVE SearchInv
    OBVIOUS
  <2>1. rx_state = 0 /\ window = << >>
    BY DEF Init
  <2> QED
    BY <2>1, EmptyWindow
<1>2. SearchInv /\ [Next]_vars => SearchInv'
  <2> SUFFICES ASSUME SearchInv, [Next]_vars PROVE SearchInv'
    OBVIOUS
  <2>1. ASSUME NEW b \in Byte, Search(b) PROVE SearchInv'
    BY <2>1, SearchSearchInv
  <2>2. CASE Hold
    <3>1. window' = window /\ Packing /\ rx_state' \in 4 .. 7
      BY <2>2 DEF Hold, Packing
    <3> QED
      BY <3>1, PackSearchInv
  <2>3. CASE Store /\ sync_count' = 0
    <3>1. rx_state' = 0 /\ window' = << >>
      BY <2>3 DEF Store
    <3>2. WindowShape'
      BY <3>1 DEF WindowShape
    <3>3. \A j \in 1 .. 4 : ~ Came(j)'
      BY <3>1 DEF Came
    <3>4. ~ Packing'
      BY <3>1 DEF Packing
    <3> QED
      BY <3>1, <3>2, <3>3, <3>4 DEF SearchInv, Matched, Known
  <2>4. CASE Store /\ sync_count' # 0
    <3>1. window' = window /\ Packing /\ rx_state' \in 4 .. 7
      BY <2>4 DEF Store, Packing
    <3> QED
      BY <3>1, PackSearchInv
  <2>5. CASE Flush
    <3>1. window' = window /\ rx_state' = rx_state
      BY <2>5 DEF Flush
    <3> QED
      BY <3>1, PackSearchInv
  <2>6. CASE UNCHANGED vars
    <3>1. window' = window /\ rx_state' = rx_state
      BY <2>6 DEF vars
    <3> QED
      BY <3>1, PackSearchInv
  <2> QED
    BY <2>1, <2>2, <2>3, <2>4, <2>5, <2>6 DEF Next, NextByte
<1> QED
  BY <1>1, <1>2, PTL DEF Spec

(* Packing only begins after a whole synchronization word.                 *)
THEOREM PacksAfterSync == Spec => []LockedOnSync
<1>1. SearchInv => LockedOnSync
  <2> SUFFICES ASSUME SearchInv, Packing
               PROVE  /\ Len(window) >= 4
                      /\ \A i \in 1 .. 4 : window[Len(window) - 4 + i] = SyncWord[i]
    BY DEF LockedOnSync
  <2>1. Came(4)
    BY DEF SearchInv, Matched
  <2> QED
    BY <2>1 DEF Came
<1> QED
  BY <1>1, SearchInvariance, PTL

(* A synchronization word is only overlooked behind a byte that could be   *)
(* part of one.                                                            *)
THEOREM OverlooksOnlyBroken == Spec => []MissesOnlyBrokenMatch
<1>1. SearchInv => MissesOnlyBrokenMatch
  <2> SUFFICES ASSUME SearchInv, Searching, Len(window) >= 4,
                      \A i \in 1 .. 4 : window[Len(window) - 4 + i] = SyncWord[i]
               PROVE  /\ Len(window) = 5
                      /\ \E i \in 1 .. 3 : window[1] = SyncWord[i]
    BY DEF MissesOnlyBrokenMatch
  <2>1. Came(4)
    BY DEF Came
  <2>2. rx_state # 4
    BY DEF Searching
  <2>3. Broken(4)
    BY <2>1, <2>2 DEF SearchInv, Known
  <2>4. Len(window) \in Nat /\ Len(window) <= 5
    BY DEF SearchInv, WindowShape
  <2>5. Len(window) = 5 /\ Len(window) - 4 = 1
    <3>1. \A m \in Nat : m <= 5 /\ m >= 4 + 1 => m = 5 /\ m - 4 = 1
      OBVIOUS
    <3> QED
      BY <2>3, <2>4, <3>1, Zenon DEF Broken
  <2> QED
    BY <2>3, <2>5 DEF Broken
<1> QED
  BY <1>1, SearchInvariance, PTL

-----------------------------------------------------------------------------
(* Every variable keeps its type, for every block and frame length: the    *)
(* words stored have their four bytes within the frame.                    *)
THEOREM TypeCorrect == Spec => []TypeOK
<1> DEFINE Place == 0 .. SyncMaxCount
           Word == Place \X Place \X Place \X Place
<1>1. ASSUME NEW k \in FrameWords PROVE FrameWord(k) \in Word
  <2>1. /\ 4 * k - 3 \in Place /\ 4 * k - 2 \in Place
        /\ 4 * k - 1 \in Place /\ 4 * k \in Place
    BY ParserAssumption DEF FrameWords
  <2> HIDE DEF Place
  <2> QED
    BY <2>1 DEF FrameWord
<1>2. IInv /\ SearchInv => TypeOK
  <2> SUFFICES ASSUME IInv, SearchInv PROVE TypeOK
    OBVIOUS
  <2>1. stored \in Seq({FrameWord(k) : k \in FrameWords})
    BY DEF IInv, Whole
  <2>2. stored \in Seq(Word)
    <3> HIDE DEF Word
    <3>1. Len(stored) \in Nat /\ stored \in [1 .. Len(stored) -> Word]
      BY <1>1, <2>1, LenProperties, ElementOfSeq
    <3> QED
      BY <3>1
  <2> QED
    BY <2>2 DEF TypeOK, IInv, Bounds, SearchInv, WindowShape
<1> QED
  BY <1>2, Invariance, SearchInvariance, PTL

-----------------------------------------------------------------------------
(* The codec.                                                              *)

Quanta == {512, 1024, 2048, 4096, 8192, 16384, 32768}

(* Whatever word length a block is asked for, m_QUANTIZATION_ONE is one of *)
(* seven powers of two.                                                    *)
LEMMA QuantizationOfSeven ==
  ASSUME NEW w \in Nat
  PROVE  Quantization(w) \in Quanta
<1>1. CASE w < 10 \/ w > 16
  BY <1>1 DEF Quantization, Quanta
<1>2. CASE w \in 10 .. 16
  <2>1. w \in {10, 11, 12, 13, 14, 15, 16}
    BY <1>2
  <2>2. QED
    BY <2>1 DEF Quantization, Quanta
<1>3. QED
  BY <1>1, <1>2

(* The two bytes of an unsigned short are bytes and make it again.         *)
LEMMA BytesRoundTrip ==
  ASSUME NEW u \in Nat, u < 65536
  PROVE  /\ Bytes(u)[1] \in 0 .. 255 /\ Bytes(u)[2] \in 0 .. 255
         /\ Bytes(u) = <<Bytes(u)[1], Bytes(u)[2]>>
         /\ (256 * Bytes(u)[1]) + Bytes(u)[2] = u
<1> DEFINE high == u \div 256
<1>1. high \in Nat /\ high < 256
  <2>1. u \div 256 \in Nat
    OBVIOUS
  <2>2. u \div 256 < 256
    OBVIOUS
  <2>3. QED
    BY <2>1, <2>2
<1>2. high % 256 = high
  <2> HIDE DEF high
  <2>1. QED
    BY <1>1
<1>3. u % 256 \in 0 .. 255
  OBVIOUS
<1>4. (256 * (u \div 256)) + (u % 256) = u
  OBVIOUS
<1>5. QED
  BY <1>1, <1>2, <1>3, <1>4 DEF Bytes

(* The quotient by m_QUANTIZATION_ONE is the top bit of a word.           *)
LEMMA TopBit ==
  ASSUME NEW q \in Quanta, NEW u \in Nat
  PROVE  /\ u < q => u \div q = 0
         /\ q <= u /\ u < 2 * q => u \div q = 1
<1>1. CASE q = 512 BY <1>1
<1>2. CASE q = 1024 BY <1>2
<1>3. CASE q = 2048 BY <1>3
<1>4. CASE q = 4096 BY <1>4
<1>5. CASE q = 8192 BY <1>5
<1>6. CASE q = 16384 BY <1>6
<1>7. CASE q = 32768 BY <1>7
<1>8. QED BY <1>1, <1>2, <1>3, <1>4, <1>5, <1>6, <1>7 DEF Quanta

(* Two's complement of a value is an unsigned short that the decoder makes *)
(* the value again, or the one that has wrapped next to it.                *)
LEMMA SignRoundTrip ==
  ASSUME NEW q \in Quanta, NEW v \in - (2 * q) .. (2 * q) - 1
  PROVE  /\ TwosComplement(v, q) \in Nat /\ TwosComplement(v, q) < 65536
         /\ Signed(TwosComplement(v, q), q) = WordValue(v, q)
         /\ Short(WordValue(v, q)) = WordValue(v, q)
<1>1. v \in Int /\ q \in Nat \ {0} /\ q <= 32768
  BY DEF Quanta
<1> DEFINE u == IF v < 0 THEN v + 2 * q ELSE v
<1>2. u \in 0 .. (2 * q) - 1
  BY <1>1
<1>3. u \in Nat /\ u < 65536
  BY <1>1, <1>2
<1>4. TwosComplement(v, q) = u
  <2>1. TwosComplement(v, q) = u % 65536
    BY DEF TwosComplement
  <2> HIDE DEF u
  <2>2. u % 65536 = u
    BY <1>3
  <2>3. QED
    BY <2>1, <2>2
<1>5. u \div q = IF u < q THEN 0 ELSE 1
  <2>1. u < 2 * q
    BY <1>1, <1>2
  <2> HIDE DEF u
  <2>2. QED
    BY <1>1, <1>3, <2>1, TopBit
<1>6. (u \div q) % 2 = IF u < q THEN 0 ELSE 1
  <2> HIDE DEF u
  <2>1. QED
    BY <1>5
<1>7. Signed(u, q) = IF u < q THEN u ELSE u - 2 * q
  <2> HIDE DEF u
  <2>1. QED
    BY <1>6 DEF Signed
<1>8. Signed(u, q) = WordValue(v, q)
  BY <1>1, <1>7 DEF WordValue
<1>9. WordValue(v, q) \in Int /\ - q <= WordValue(v, q) /\ WordValue(v, q) < q
  BY <1>1 DEF WordValue
<1>10. Short(WordValue(v, q)) = WordValue(v, q)
  <2> DEFINE w == WordValue(v, q)
  <2>1. w \in Int /\ - 32768 <= w /\ w < 32768
    BY <1>1, <1>9
  <2> HIDE DEF w
  <2>2. (w + 32768) % 65536 = w + 32768
    BY <2>1
  <2>3. Short(w) = w
    BY <2>1, <2>2 DEF Short
  <2>4. QED
    BY <2>3 DEF w
<1>11. QED
  <2> HIDE DEF u
  <2>1. QED
    BY <1>3, <1>4, <1>8, <1>10

(* Every integer becomes two bytes of an unsigned short.                   *)
LEMMA WireBytes ==
  ASSUME NEW v \in Int, NEW q \in Int
  PROVE  Bytes(TwosComplement(v, q)) \in ByteRange \X ByteRange
<1> DEFINE x == IF v < 0 THEN v + 2 * q ELSE v
           u == x % 65536
<1>1. x \in Int
  OBVIOUS
<1>2. u \in Nat /\ u < 65536
  <2> HIDE DEF x
  <2>1. x % 65536 \in Nat
    BY <1>1
  <2>2. x % 65536 < 65536
    BY <1>1
  <2>3. QED
    BY <2>1, <2>2
<1>3. TwosComplement(v, q) = u
  BY DEF TwosComplement
<1> HIDE DEF u
<1>4. Bytes(u) \in ByteRange \X ByteRange
  BY <1>2, BytesRoundTrip DEF ByteRange
<1>5. QED
  BY <1>3, <1>4

(* What comes back from the two bytes of a value.                          *)
LEMMA ValueRoundTrip ==
  ASSUME NEW q \in Quanta, NEW v \in - (2 * q) .. (2 * q) - 1
  PROVE  LET b == Bytes(TwosComplement(v, q))
         IN  /\ Signed((256 * b[1]) + b[2], q) = WordValue(v, q)
             /\ Short(Signed((256 * b[1]) + b[2], q)) = WordValue(v, q)
<1> DEFINE u == TwosComplement(v, q)
<1>1. /\ u \in Nat /\ u < 65536 /\ Signed(u, q) = WordValue(v, q)
      /\ Short(WordValue(v, q)) = WordValue(v, q)
  BY SignRoundTrip
<1> HIDE DEF u
<1>2. (256 * Bytes(u)[1]) + Bytes(u)[2] = u
  BY <1>1, BytesRoundTrip
<1>3. QED
  BY <1>1, <1>2 DEF u

(* The code saturates to the nearest value within its limit.               *)
LEMMA SaturateNearest ==
  ASSUME NEW k \in Nat \ {0}, NEW v \in Int
  PROVE  Saturate(v, k) = Nearest(v, k)
BY DEF Saturate, Nearest

-----------------------------------------------------------------------------

\* What is known of the sample on its way.
CodecInv ==
  /\ CodecTypeOK
  /\ stage \in {"encoded", "decoded"} =>
       word = IF path = "radio" THEN SinkWord(conf, sample)
                                ELSE FirWord(conf, sample)
  /\ stage = "decoded" =>
       result = IF path = "radio" THEN SourceSample(conf, word)
                                  ELSE FirSample(conf, word)

(* The constructor's parameters give a quantization it knows.              *)
LEMMA ConfFacts ==
  ASSUME NEW c \in Configurations
  PROVE  /\ c.wordLength \in Nat /\ c.scale \in Nat \ {0}
         /\ Quantization(c.wordLength) \in Quanta
         /\ Quantization(c.wordLength) \in Nat \ {0}
<1>1. c.wordLength \in Nat /\ c.scale \in Nat \ {0}
  BY CodecAssumption DEF Configurations
<1>2. Quantization(c.wordLength) \in Quanta
  BY <1>1, QuantizationOfSeven
<1>3. QED
  BY <1>1, <1>2 DEF Quanta

(* Whatever the sample is, the words are bytes.                            *)
LEMMA WordsAreBytes ==
  ASSUME NEW c \in Configurations, NEW s \in Int \X Int
  PROVE  /\ SinkWord(c, s) \in (ByteRange \X ByteRange) \X (ByteRange \X ByteRange)
         /\ FirWord(c, s) \in (ByteRange \X ByteRange) \X (ByteRange \X ByteRange)
<1> DEFINE q == Quantization(c.wordLength)
           limit == IF c.scaled THEN c.scale ELSE q
           Sat(v, k) == IF c.floatIn THEN Saturate(v, k) ELSE v
           Wire(v, k) == Bytes(TwosComplement(Sat(v, k), q))
<1>1. q \in Int /\ limit \in Int
  BY ConfFacts
<1>2. ASSUME NEW v \in Int, NEW k \in Int
      PROVE  Wire(v, k) \in ByteRange \X ByteRange
  <2>1. Sat(v, k) \in Int
    BY DEF Saturate
  <2> HIDE DEF Sat, q
  <2>2. QED
    BY <2>1, <1>1, WireBytes
<1>3. s[1] \in Int /\ s[2] \in Int
  OBVIOUS
<1>4. /\ SinkWord(c, s) = IF c.swap THEN <<Wire(s[2], limit), Wire(s[1], limit)>>
                                    ELSE <<Wire(s[1], limit), Wire(s[2], limit)>>
      /\ FirWord(c, s) = <<Wire(s[1], q), Wire(s[2], q)>>
  BY DEF SinkWord, FirWord
<1> HIDE DEF q, limit, Wire
<1>5. QED
  BY <1>1, <1>2, <1>3, <1>4

(* Every two bytes stand for an integer.                                   *)
LEMMA SamplesAreInts ==
  ASSUME NEW c \in Configurations, NEW w \in (ByteRange \X ByteRange) \X (ByteRange \X ByteRange)
  PROVE  SourceSample(c, w) \in Int \X Int /\ FirSample(c, w) \in Int \X Int
<1> DEFINE q == Quantization(c.wordLength)
           Value(b) == Signed((256 * b[1]) + b[2], q)
<1>1. q \in Int
  BY ConfFacts
<1>2. ASSUME NEW b \in ByteRange \X ByteRange
      PROVE  Value(b) \in Int /\ Short(Value(b)) \in Int
  <2>1. (256 * b[1]) + b[2] \in Int
    <3>1. \A x \in ByteRange : x \in Int
      BY DEF ByteRange
    <3>2. b[1] \in Int /\ b[2] \in Int
      BY <3>1
    <3>3. QED
      BY <3>2
  <2>2. Value(b) \in Int
    BY <2>1, <1>1 DEF Signed
  <2> HIDE DEF Value
  <2>3. QED
    BY <2>2 DEF Short
<1>3. Pair(c, w) = <<Value(w[1]), Value(w[2])>>
  BY DEF Pair
<1>4. w[1] \in ByteRange \X ByteRange /\ w[2] \in ByteRange \X ByteRange
  OBVIOUS
<1> HIDE DEF Value
<1>5. QED
  BY <1>2, <1>3, <1>4 DEF SourceSample, FirSample, Shorts, Swapped

(* The blocks start with nothing on its way.                               *)
LEMMA InitCodecInv == CodecInit => CodecInv
BY DEF CodecInit, CodecInv, CodecTypeOK, NoWord, ByteRange

(* Every step keeps what is known of the sample on its way.                *)
LEMMA NextCodecInv == CodecInv /\ [CodecNext]_codecVars => CodecInv'
<1> SUFFICES ASSUME CodecInv, [CodecNext]_codecVars PROVE CodecInv'
  OBVIOUS
<1> USE DEF CodecInv
<1>1. ASSUME NEW s \in Parts \X Parts, Give(s) PROVE CodecInv'
  <2>1. s \in Int \X Int
    BY CodecAssumption
  <2>2. QED
    BY <1>1, <2>1 DEF Give, CodecTypeOK
<1>2. CASE Encode
  <2>1. word' \in (ByteRange \X ByteRange) \X (ByteRange \X ByteRange)
    BY <1>2, WordsAreBytes DEF Encode, CodecTypeOK
  <2>2. CodecTypeOK'
    BY <1>2, <2>1 DEF Encode, CodecTypeOK
  <2>3. QED
    BY <1>2, <2>2 DEF Encode
<1>3. CASE Decode
  <2>1. result' \in Int \X Int
    BY <1>3, SamplesAreInts DEF Decode, CodecTypeOK
  <2>2. CodecTypeOK'
    BY <1>3, <2>1 DEF Decode, CodecTypeOK
  <2>3. QED
    BY <1>3, <2>2 DEF Decode
<1>4. CASE NextSample
  BY <1>4 DEF NextSample, CodecTypeOK, NoWord, ByteRange
<1>5. CASE UNCHANGED codecVars
  BY <1>5 DEF codecVars, CodecTypeOK
<1>6. QED
  BY <1>1, <1>2, <1>3, <1>4, <1>5 DEF CodecNext

(* It is known always.                                                     *)
THEOREM CodecInvariance == CodecSpec => []CodecInv
BY InitCodecInv, NextCodecInv, PTL DEF CodecSpec

(* For all word lengths, scale constants and samples, the bytes are bytes. *)
THEOREM CodecTypeCorrect == CodecSpec => []CodecTypeOK
<1>1. CodecInv => CodecTypeOK
  BY DEF CodecInv
<1>2. QED
  BY <1>1, CodecInvariance, PTL

(* What the sink encodes, the source decodes.                              *)
LEMMA RadioDelivers == CodecInv => RadioKeepsSample
<1> SUFFICES ASSUME CodecInv, stage = "decoded", path = "radio"
             PROVE  IF conf.floatOut \/ ~ conf.swap
                    THEN Delivered(1, 1) /\ Delivered(2, 2)
                    ELSE Delivered(1, 2) /\ Delivered(2, 1)
  BY DEF RadioKeepsSample
<1> DEFINE q == Quantization(conf.wordLength)
           limit == IF conf.scaled THEN conf.scale ELSE q
           Sat(v) == IF conf.floatIn THEN Saturate(v, limit) ELSE v
           Wire(v) == Bytes(TwosComplement(Sat(v), q))
           Value(b) == Signed((256 * b[1]) + b[2], q)
<1>1. /\ conf \in Configurations /\ sample[1] \in Int /\ sample[2] \in Int
      /\ q \in Quanta /\ limit \in Nat \ {0} /\ q \in Nat \ {0}
      /\ conf.floatIn \in BOOLEAN /\ conf.floatOut \in BOOLEAN
      /\ conf.scaled \in BOOLEAN /\ conf.swap \in BOOLEAN
  BY ConfFacts DEF CodecInv, CodecTypeOK, Configurations
<1>2. ASSUME NEW v \in Int PROVE Sat(v) = Offered(v)
  <2>1. CASE conf.floatIn
    <3>1. Limit = limit
      BY DEF Limit
    <3> HIDE DEF q, limit
    <3>2. QED
      BY <1>1, <2>1, <3>1, SaturateNearest DEF Offered
  <2>2. CASE ~ conf.floatIn
    BY <2>2 DEF Offered
  <2>3. QED
    BY <2>1, <2>2
<1>3. ASSUME NEW v \in Int, Offered(v) \in - (2 * q) .. (2 * q) - 1
      PROVE  Short(Value(Wire(v))) = WordValue(Offered(v), q)
  <2> HIDE DEF Sat, q
  <2>1. QED
    BY <1>1, <1>2, <1>3, ValueRoundTrip
<1>4. word = IF conf.swap THEN <<Wire(sample[2]), Wire(sample[1])>>
                          ELSE <<Wire(sample[1]), Wire(sample[2])>>
  BY DEF CodecInv, SinkWord
<1>5. result = IF conf.floatOut /\ conf.swap
               THEN <<Short(Value(word[2])), Short(Value(word[1]))>>
               ELSE <<Short(Value(word[1])), Short(Value(word[2]))>>
  BY DEF CodecInv, SourceSample, Pair, Shorts, Swapped
<1> HIDE DEF Wire, Value
<1>6. QED
  BY <1>1, <1>3, <1>4, <1>5 DEF Delivered

(* For all word lengths, scale constants and samples, the source delivers  *)
(* what the sink was given, saturated and as the word holds it.            *)
THEOREM RadioCorrect == CodecSpec => []RadioKeepsSample
BY CodecInvariance, RadioDelivers, PTL

(* What the accelerator writes for its input, it reads back.               *)
LEMMA FirDelivers == CodecInv => FirKeepsSample
<1> SUFFICES ASSUME CodecInv, stage = "decoded", path = "fir"
             PROVE  IF conf.floatOut THEN Delivered(1, 1) /\ Delivered(2, 2)
                                     ELSE Delivered(1, 2) /\ Delivered(2, 1)
  BY DEF FirKeepsSample
<1> DEFINE q == Quantization(conf.wordLength)
           Sat(v) == IF conf.floatIn THEN Saturate(v, q) ELSE v
           Wire(v) == Bytes(TwosComplement(Sat(v), q))
           Value(b) == Signed((256 * b[1]) + b[2], q)
<1>1. /\ conf \in Configurations /\ sample[1] \in Int /\ sample[2] \in Int
      /\ q \in Quanta /\ q \in Nat \ {0}
      /\ conf.floatIn \in BOOLEAN /\ conf.floatOut \in BOOLEAN
  BY ConfFacts DEF CodecInv, CodecTypeOK, Configurations
<1>2. Limit = q
  BY DEF Limit
<1>3. ASSUME NEW v \in Int, Offered(v) \in - (2 * q) .. (2 * q) - 1
      PROVE  /\ Value(Wire(v)) = WordValue(Offered(v), q)
             /\ Short(Value(Wire(v))) = WordValue(Offered(v), q)
  <2> HIDE DEF q
  <2>1. Sat(v) = Offered(v)
    BY <1>1, <1>2, SaturateNearest DEF Offered
  <2> HIDE DEF Sat
  <2>2. QED
    BY <1>1, <1>3, <2>1, ValueRoundTrip
<1>4. word = <<Wire(sample[1]), Wire(sample[2])>>
  BY DEF CodecInv, FirWord
<1>5. result = IF conf.floatOut
               THEN <<Value(word[1]), Value(word[2])>>
               ELSE <<Short(Value(word[2])), Short(Value(word[1]))>>
  BY DEF CodecInv, FirSample, Pair, Shorts, Swapped
<1> HIDE DEF Wire, Value
<1>6. QED
  BY <1>1, <1>3, <1>4, <1>5 DEF Delivered

(* For all word lengths, scale constants and samples, and each of the four *)
(* pairs of formats, an accelerator answers both parts with their sign: in *)
(* their places for a gr_complex output, the other way round for two       *)
(* shorts, saturated for a gr_complex input and wrapped for two shorts.    *)
THEOREM FirCorrect == CodecSpec => []FirKeepsSample
BY CodecInvariance, FirDelivers, PTL
==============================================================================
