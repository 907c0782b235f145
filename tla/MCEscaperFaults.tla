-------------------------- MODULE MCEscaperFaults --------------------------
(* Instances of EscaperFaults for TLC.                                      *)
EXTENDS EscaperFaults

CONSTANT PayloadMax   \* length of the longest payload

MCPayloads == SeqOf(Byte, PayloadMax)

\* With a decoder of one byte: a packet that fits, and two that do not, with a
\* START_BYTE from which a shorter or longer rest of them may be taken.
MCMixed ==
  {<<START_BYTE>>, <<START_BYTE, STOP_BYTE>>, <<ESCAPE_BYTE, START_BYTE, ESCAPE_BYTE>>}
=============================================================================
