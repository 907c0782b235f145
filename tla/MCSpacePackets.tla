--------------------------- MODULE MCSpacePackets ---------------------------
(* Instances of SpacePackets for TLC, with the values at the edges of the   *)
(* bytes and fields, and with the checksums of the code.                    *)
EXTENDS SpacePackets, SequencesExt

\* The data is at most three bytes, or three that are followed by zeros which
\* the checksums leave out.  Its contents let the CRC meet changes within two
\* bytes and a multiple of its generator (1, 16, 33), and the ISO checksum a 0
\* turned into 255 and a change that leaves both sums alone (1, 0, 1 and
\* 0, 2, 0).
Plain == {<<>>, <<0>>, <<0, 0, 0>>}
Telltale == {<<255>>, <<255, 0, 0>>, <<1, 16, 33>>, <<1, 0, 1>>, <<0, 2, 0>>, <<0, 7, 130>>}
MCData == Plain \cup Telltale

MCDataHits == {hit \in MCData \X MCData : hit[1] # hit[2] /\ Len(hit[1]) = Len(hit[2])}

\* Within two neighbouring bytes; with strict CCSDS not only 0 and 255.
Changed(d, e) == {i \in 1..Len(d) : d[i] # e[i]}
Near(d, e) == \A i, j \in Changed(d, e) : j <= i + 1
MCBursts ==
  [k \in {"DEFAULT", "STRICT_CCSDS"} |->
     {hit \in MCDataHits :
        /\ Near(hit[1], hit[2])
        /\ k = "STRICT_CCSDS" => \E i \in Changed(hit[1], hit[2]) : {hit[1][i], hit[2][i]} # {0, 255}}]

-----------------------------------------------------------------------------
(* The checksums: the loops of Checksums over a whole block.                *)

Sums(bytes) ==
  FoldLeft(LAMBDA s, b : <<s[1] + b, s[2] + s[1] + b>>, <<255, 255>>, bytes)

\* The variables of Checksums for a block of one chunk that both ends have.
Code(bytes, word) == INSTANCE Checksums WITH
  Transfers <- {[e \in {"writer", "reader"} |-> bytes]}, block <- [e \in {"writer", "reader"} |-> bytes],
  it <- Len(bytes), crc <- [e \in {"writer", "reader"} |-> word],
  sum1 <- [e \in {"writer", "reader"} |-> LET x == Sums(bytes)[1] IN (x % 256) + (x \div 256)],
  sum2 <- [e \in {"writer", "reader"} |-> LET x == Sums(bytes)[2] IN (x % 256) + (x \div 256)]

MCCrc16(header, data) ==
  LET word == FoldLeft(LAMBDA w, b : Code(<<>>, {})!crc16(b, w), 0..15, header \o data)
      n    == Code(<<>>, {})!Value(word)
  IN  <<n \div 256, n % 256>>

MCIsoChecksum(header, data) ==
  LET c == Code(header \o data, {})!IsoChecksum_calculate("writer") IN <<c.c0, c.c1>>

-----------------------------------------------------------------------------
(* Requests: every destination and source with every size, and different    *)
(* contents with some.                                                      *)

RequestsOf(sizes) ==
  {r \in [type: PacketTypes, source: {0, 511, 65535}, destination: {0, 255, 256, 1300, 2047},
          data: MCData, size: sizes] :
     /\ Len(r.data) = IF r.size < 3 THEN r.size ELSE 3
     /\ r.data \in Plain \/ (r.size \in {1, 256} /\ r.destination \in {256, 1300})
     /\ r.source = 511 \/ (r.data \in Plain /\ r.destination = 1300)}

MCRequests ==
  RequestsOf({0, 1, 255, 256, 257, 512, 513, 767, 65533, 65534, 65535, 65536, 65537, 16777217})
MCSmall == RequestsOf({1, 256, 511, 513})
MCLengths == RequestsOf({1, 255, 256, 511, 512, 513, 65535, 65536})
MCCounts == {0, 256, 16383}
=============================================================================
