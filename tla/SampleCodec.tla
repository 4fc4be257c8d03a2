---------------------------- MODULE SampleCodec ----------------------------
(***************************************************************************)
(* How a sample becomes the four bytes of a word and a word a sample: work *)
(* of the sink and of the source block, which share a wire, and            *)
(* general_work of the FIR accelerator, which writes words to its filter   *)
(* and reads words from it.  A block is given a sample, encodes it, the    *)
(* word travels unchanged (an ideal radio, a filter of one tap of 1), and  *)
(* the word is decoded.                                                    *)
(*                                                                         *)
(* A sample is the pair of its integer parts.  For a gr_complex input they *)
(* are what float arithmetic and its cast to int made of the sample, scale *)
(* constant included; for a gr_complex output they are the integers before *)
(* they are divided by the scale constant again.                           *)
(***************************************************************************)
EXTENDS Integers, Sequences

CONSTANTS
  WordLengths,  \* the word lengths a block is asked for
  Scales,       \* the scale constants a block is asked for
  Parts         \* the integer parts of samples

ASSUME CodecAssumption ==
  /\ WordLengths \subseteq Nat
  /\ Scales \subseteq Nat \ {0}
  /\ Parts \subseteq Int

VARIABLES
  path,    \* "radio": sink to source, "fir": through the accelerator
  conf,    \* the blocks' parameters
  stage,   \* what happened last: "idle", "given", "encoded", "decoded"
  sample,  \* the sample given
  word,    \* the bytes <<<<msb_0, lsb_0>>, <<msb_1, lsb_1>>>>
  result   \* the sample decoded

codecVars == <<path, conf, stage, sample, word, result>>

\* wordLength: m_WordLength; floatIn, floatOut: is an item of the input, of
\* the output a gr_complex, or a complex<int16_t> (m_itemsize of the sink and
\* of the source, m_itemsizeInput and m_itemsizeOutput of an accelerator);
\* scaled, scale: m_ScaleFactor, m_ScaleConstant; swap: m_swap_iq of both
\* blocks.
Configurations ==
  [wordLength : WordLengths, floatIn : BOOLEAN, floatOut : BOOLEAN,
   scaled : BOOLEAN, scale : Scales, swap : BOOLEAN]

Int16 == -32768 .. 32767
ByteRange == 0 .. 255
NoWord == <<<<0, 0>>, <<0, 0>>>>

-----------------------------------------------------------------------------
(* Wrong variants, one mistake each, that the properties tell from the     *)
(* code.                                                                   *)

\* A conversion that adds 2^(m_WordLength - 1) to a negative value.
AddsOneQuantum(v, q) == (IF v < 0 THEN v + q ELSE v) % 65536

-----------------------------------------------------------------------------

\* m_QUANTIZATION_ONE = 1 << (m_WordLength - 1), of a length the constructor
\* takes or replaces by 16.
Quantization(wordLength) ==
  LET length == IF wordLength < 10 \/ wordLength > 16 THEN 16 ELSE wordLength
  IN  <<512, 1024, 2048, 4096, 8192, 16384, 32768>>[length - 9]

Saturate(v, limit) ==
  IF v > limit - 1 THEN limit - 1 ELSE IF v < - limit THEN - limit ELSE v

\* data_out: two's complement of m_WordLength bits in an unsigned short.
TwosComplement(v, q) == (IF v < 0 THEN v + 2 * q ELSE v) % 65536

Bytes(u) == <<(u \div 256) % 256, u % 256>>

\* i_out: an unsigned short back to an integer.
Signed(u, q) == IF (u \div q) % 2 = 1 THEN u - 2 * q ELSE u

\* The conversion of i_out to a short, that of both parts, and I/Q swapped.
Short(v) == ((v + 32768) % 65536) - 32768
Shorts(s) == <<Short(s[1]), Short(s[2])>>
Swapped(s) == <<s[2], s[1]>>

\* work of the sink.
SinkWord(c, s) ==
  LET q       == Quantization(c.wordLength)
      limit   == IF c.scaled THEN c.scale ELSE q
      Value(v) == IF c.floatIn THEN Saturate(v, limit) ELSE v
      Wire(v)  == Bytes(TwosComplement(Value(v), q))
  IN  IF c.swap THEN <<Wire(s[2]), Wire(s[1])>> ELSE <<Wire(s[1]), Wire(s[2])>>

\* An accelerator that saturates as the sink does.
FirSaturatesAtScale(c, s) == SinkWord([c EXCEPT !.swap = FALSE], s)

\* general_work of the accelerator, up to its write.
FirWord(c, s) ==
  LET q       == Quantization(c.wordLength)
      Value(v) == IF c.floatIn THEN Saturate(v, q) ELSE v
      Wire(v)  == Bytes(TwosComplement(Value(v), q))
  IN  <<Wire(s[1]), Wire(s[2])>>

Pair(c, w) ==
  LET q        == Quantization(c.wordLength)
      Value(b) == Signed((256 * b[1]) + b[2], q)
  IN  <<Value(w[1]), Value(w[2])>>

\* work of the source, which keeps i_out in shorts.
SourceSample(c, w) ==
  LET s == Shorts(Pair(c, w))
  IN  IF c.floatOut /\ c.swap THEN Swapped(s) ELSE s

\* general_work of the accelerator, after its read: two shorts are made by
\* complex<int16_t>(i_out_1, i_out_0), the format of the input has no say.
FirSample(c, w) ==
  IF c.floatOut THEN Pair(c, w) ELSE Swapped(Shorts(Pair(c, w)))

-----------------------------------------------------------------------------

CodecInit ==
  /\ path \in {"radio", "fir"}
  /\ conf \in Configurations
  /\ stage = "idle"
  /\ sample = <<0, 0>>
  /\ word = NoWord
  /\ result = <<0, 0>>

\* A gr_complex holds any value, a complex<int16_t> two shorts.
Give(s) ==
  /\ stage = "idle"
  /\ ~ conf.floatIn => s[1] \in Int16 /\ s[2] \in Int16
  /\ stage' = "given"
  /\ sample' = s
  /\ UNCHANGED <<path, conf, word, result>>

Encode ==
  /\ stage = "given"
  /\ stage' = "encoded"
  /\ word' = IF path = "radio" THEN SinkWord(conf, sample)
                               ELSE FirWord(conf, sample)
  /\ UNCHANGED <<path, conf, sample, result>>

Decode ==
  /\ stage = "encoded"
  /\ stage' = "decoded"
  /\ result' = IF path = "radio" THEN SourceSample(conf, word)
                                 ELSE FirSample(conf, word)
  /\ UNCHANGED <<path, conf, sample, word>>

\* The variables of the loop's body start afresh.
NextSample ==
  /\ stage = "decoded"
  /\ stage' = "idle"
  /\ sample' = <<0, 0>>
  /\ word' = NoWord
  /\ result' = <<0, 0>>
  /\ UNCHANGED <<path, conf>>

CodecNext ==
  \/ \E s \in Parts \X Parts : Give(s)
  \/ Encode
  \/ Decode
  \/ NextSample

CodecSpec == CodecInit /\ [][CodecNext]_codecVars

-----------------------------------------------------------------------------

\* The value of k or less bits next to v.
Nearest(v, k) == IF v < - k THEN - k ELSE IF v >= k THEN k - 1 ELSE v

\* What the saturation is made at.
Limit == IF path = "radio" /\ conf.scaled
         THEN conf.scale ELSE Quantization(conf.wordLength)

\* What is put into the word: a gr_complex is saturated, two shorts are not.
Offered(v) == IF conf.floatIn THEN Nearest(v, Limit) ELSE v

\* The signed value that two's complement of m_WordLength bits makes of v: v
\* itself in the range of the word, and one that has wrapped next to it.
WordValue(v, q) == IF v >= q THEN v - 2 * q ELSE IF v < - q THEN v + 2 * q ELSE v

\* Part k of the sample has become part l of the result.
Delivered(k, l) ==
  LET q == Quantization(conf.wordLength)
      v == Offered(sample[k])
  IN  v \in - (2 * q) .. (2 * q) - 1 => result[l] = WordValue(v, q)

(* Every variable keeps its type: the parts of a word are bytes.           *)
CodecTypeOK ==
  /\ path \in {"radio", "fir"}
  /\ conf \in Configurations
  /\ stage \in {"idle", "given", "encoded", "decoded"}
  /\ sample \in Int \X Int
  /\ word \in (ByteRange \X ByteRange) \X (ByteRange \X ByteRange)
  /\ result \in Int \X Int

(* What the sink is given is what the source delivers: each part in its    *)
(* place, with its sign, as the value next to it within the limit of the   *)
(* saturation, for every word length a block can be asked for.  Two things *)
(* the code does are part of this.  A value beyond the range of the word   *)
(* wraps: for two shorts, and for a gr_complex with a scale constant above *)
(* m_QUANTIZATION_ONE, which saturates too late.  And when I and Q are to  *)
(* be swapped, the sink swaps either format, while the source swaps a      *)
(* gr_complex back and two shorts not, whatever the sink was given.        *)
RadioKeepsSample ==
  stage = "decoded" /\ path = "radio" =>
    IF conf.floatOut \/ ~ conf.swap THEN Delivered(1, 1) /\ Delivered(2, 2)
                                    ELSE Delivered(1, 2) /\ Delivered(2, 1)

(* The accelerator reads for its answer what it wrote for its input, with  *)
(* the same sign.  The format of the input decides whether it is saturated *)
(* to the word (a gr_complex is, whatever the scale constant) or wraps     *)
(* (two shorts), the format of the output whether I and Q keep their       *)
(* places (a gr_complex) or change them (two shorts): so an accelerator    *)
(* with a gr_complex on one side and two shorts on the other swaps them    *)
(* in one direction and not in the other.                                  *)
FirKeepsSample ==
  stage = "decoded" /\ path = "fir" =>
    IF conf.floatOut THEN Delivered(1, 1) /\ Delivered(2, 2)
                     ELSE Delivered(1, 2) /\ Delivered(2, 1)
=============================================================================
