--------------------------- MODULE MCFrameParser ---------------------------
(***************************************************************************)
(* An instance of FrameParser for TLC: three values of a byte, a sum for   *)
(* the CRC, and every line of MaxBytes bytes.                              *)
(***************************************************************************)
EXTENDS FrameParser, SequencesExt

SumOf(s) == FoldSeq(LAMBDA x, y : x + y, 0, s) % 3
=============================================================================
