---------------------------- MODULE FletcherSums ----------------------------
(***************************************************************************)
(* The sums behind the ISO checksum as the standard defines them (ECSS-E-  *)
(* 70-41A Annex A, to which IsoChecksum.h refers): two sums modulo 255,    *)
(* one of the bytes and one of the first sum.  Nothing of chunks or of     *)
(* when a sum is reduced is visible here.                                  *)
(***************************************************************************)
EXTENDS Naturals, Sequences

CONSTANT Blocks      \* the blocks of bytes that may be summed

VARIABLES block, it,  \* the block, and how many of its bytes were summed
          c0, c1      \* the sums

vars == <<block, it, c0, c1>>

Init == block \in Blocks /\ it = 0 /\ c0 = 0 /\ c1 = 0

Next ==
  /\ it < Len(block)
  /\ it' = it + 1
  /\ c0' = (c0 + block[it + 1]) % 255
  /\ c1' = (c1 + c0') % 255
  /\ UNCHANGED block

Spec == Init /\ [][Next]_vars

=============================================================================
