---------------------------- MODULE MCChecksums ----------------------------
(* Instances of Checksums for TLC: blocks around the ends of the chunks,    *)
(* unchanged and with one or two bytes changed.                             *)
EXTENDS Checksums, SequencesExt

\* The change of a byte by the bits of e.
Flip(b, e) == Value(SymDiff(Bits(b), Bits(e)))

Same(bytes) == [writer |-> bytes, reader |-> bytes]
Hit(bytes, i, e) == [writer |-> bytes, reader |-> [bytes EXCEPT ![i] = Flip(@, e)]]
HitTwo(bytes, i, e, f) ==
  [writer |-> bytes, reader |-> [bytes EXCEPT ![i] = Flip(@, e), ![i + 1] = Flip(@, f)]]

\* Two bytes in turn.
Alternating(n, a, b) == [i \in 1..n |-> IF i % 2 = 1 THEN a ELSE b]
Long == {Alternating(n, a, b) : n \in {19, 20, 21, 40, 41, 62}, a \in {0, 1, 254, 255}, b \in {0, 127, 255}}

MCTransfers ==
  {Same(<<b>>) : b \in ByteRange}                                        \* every row of the table
  \cup {Same(<<>>)} \cup {Same(bytes) : bytes \in Long}
  \cup {Hit(<<b>>, 1, e) : b \in {0, 165}, e \in 1..255}
  \cup {HitTwo(<<0, 90, 255>>, i, e, f) : i \in {1, 2}, e \in {1, 2, 16, 128, 129, 255}, f \in 1..255}
  \cup UNION {{Hit(bytes, i, e) : i \in {1, 10, Len(bytes) - 1, Len(bytes)}, e \in {1, 128, 255}} : bytes \in Long}
=============================================================================
