----------------------------- MODULE MCEscaper -----------------------------
(* Instances of Escaper for TLC: every payload over the three control bytes *)
(* and one plain byte up to a length.                                       *)
EXTENDS Escaper, SequencesExt

CONSTANT PayloadMax   \* length of the longest payload

MCPayloads == SeqOf(Byte, PayloadMax)
=============================================================================
