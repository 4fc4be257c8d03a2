------------------------------ MODULE MCWords -------------------------------
(***************************************************************************)
(* Instances for TLC of the two components that know what is in a word of  *)
(* the sample stream: SyncParser, which cuts words out of the bytes of the *)
(* receiver, and SampleCodec, which makes a sample of a word.  Neither     *)
(* looks at what the other does: a behaviour is one of the parser or one   *)
(* of the codec.                                                           *)
(*                                                                         *)
(* The parser sees the four bytes of the synchronization word and one byte *)
(* that is none of them.  The codec is given every word length the         *)
(* constructors take and one they replace, and the values around zero,     *)
(* around a byte and around the limits of each word length.                *)
(***************************************************************************)
EXTENDS SyncParser, SampleCodec

CONSTANTS s5A, s0F, sBE, s66, other

MCByte == {s5A, s0F, sBE, s66, other}
MCSyncWord == <<s5A, s0F, sBE, s66>>
MCParts == {-40000, -32768, -2049, -2048, -513, -512, -257, -1, 0, 1, 255,
            256, 511, 512, 2047, 2048, 32767, 40000}

VARIABLE part  \* whose behaviour it is

\* Of the codec's blocks, any will do where they have nothing to do.
WordsInit ==
  /\ part \in {"parser", "codec"}
  /\ Init
  /\ CodecInit
  /\ part = "parser" => path = "radio" /\ conf = CHOOSE c \in Configurations : TRUE

Parses == part = "parser" /\ Next /\ UNCHANGED <<part, codecVars>>
Codes == part = "codec" /\ CodecNext /\ UNCHANGED <<part, vars>>

WordsNext == Parses \/ Codes

\* The device delivers bytes.
WordsSpec ==
  /\ WordsInit
  /\ [][WordsNext]_<<part, vars, codecVars>>
  /\ WF_<<part, vars, codecVars>>(Parses)
=============================================================================
