----------------------------- MODULE Checksums -----------------------------
(***************************************************************************)
(* The two checksums (Crc16.c, IsoChecksum.c), computed over a block of    *)
(* bytes by the node that writes it and again by the node that reads it,   *)
(* where some of the bytes may have changed.  Both functions go through    *)
(* the block byte by byte; a state holds what they have made of the first  *)
(* it bytes at either end, so a step is one iteration of the loop of each. *)
(*                                                                         *)
(* The words of the CRC are sets of bit positions, where ^ is the          *)
(* symmetric difference; the Fletcher sums are numbers.                    *)
(***************************************************************************)
EXTENDS Integers, Sequences, FiniteSetsExt

CONSTANT Transfers   \* the block as the writer has it and as it reaches the reader

Ends == {"writer", "reader"}
ByteRange == 0..255

ASSUME TransferAssumption ==
  \A t \in Transfers : t \in [Ends -> Seq(ByteRange)] /\ Len(t["writer"]) = Len(t["reader"])

VARIABLES
  block,        \* the block at either end
  it,           \* bytes taken so far
  crc,          \* what calculateCrc16 has made of them
  sum1, sum2    \* and fletcher16

vars == <<block, it, crc, sum1, sum2>>

-----------------------------------------------------------------------------
(* CRC16 *)

Bits(n) == {i \in 0..15 : (n \div 2^i) % 2 = 1}
Value(bits) == SumSet({2^i : i \in bits})

Crc16_InitialValue == 0..15

table == <<
  \h0000, \h1021, \h2042, \h3063, \h4084, \h50A5, \h60C6, \h70E7,
  \h8108, \h9129, \hA14A, \hB16B, \hC18C, \hD1AD, \hE1CE, \hF1EF,
  \h1231, \h0210, \h3273, \h2252, \h52B5, \h4294, \h72F7, \h62D6,
  \h9339, \h8318, \hB37B, \hA35A, \hD3BD, \hC39C, \hF3FF, \hE3DE,
  \h2462, \h3443, \h0420, \h1401, \h64E6, \h74C7, \h44A4, \h5485,
  \hA56A, \hB54B, \h8528, \h9509, \hE5EE, \hF5CF, \hC5AC, \hD58D,
  \h3653, \h2672, \h1611, \h0630, \h76D7, \h66F6, \h5695, \h46B4,
  \hB75B, \hA77A, \h9719, \h8738, \hF7DF, \hE7FE, \hD79D, \hC7BC,
  \h48C4, \h58E5, \h6886, \h78A7, \h0840, \h1861, \h2802, \h3823,
  \hC9CC, \hD9ED, \hE98E, \hF9AF, \h8948, \h9969, \hA90A, \hB92B,
  \h5AF5, \h4AD4, \h7AB7, \h6A96, \h1A71, \h0A50, \h3A33, \h2A12,
  \hDBFD, \hCBDC, \hFBBF, \hEB9E, \h9B79, \h8B58, \hBB3B, \hAB1A,
  \h6CA6, \h7C87, \h4CE4, \h5CC5, \h2C22, \h3C03, \h0C60, \h1C41,
  \hEDAE, \hFD8F, \hCDEC, \hDDCD, \hAD2A, \hBD0B, \h8D68, \h9D49,
  \h7E97, \h6EB6, \h5ED5, \h4EF4, \h3E13, \h2E32, \h1E51, \h0E70,
  \hFF9F, \hEFBE, \hDFDD, \hCFFC, \hBF1B, \hAF3A, \h9F59, \h8F78,
  \h9188, \h81A9, \hB1CA, \hA1EB, \hD10C, \hC12D, \hF14E, \hE16F,
  \h1080, \h00A1, \h30C2, \h20E3, \h5004, \h4025, \h7046, \h6067,
  \h83B9, \h9398, \hA3FB, \hB3DA, \hC33D, \hD31C, \hE37F, \hF35E,
  \h02B1, \h1290, \h22F3, \h32D2, \h4235, \h5214, \h6277, \h7256,
  \hB5EA, \hA5CB, \h95A8, \h8589, \hF56E, \hE54F, \hD52C, \hC50D,
  \h34E2, \h24C3, \h14A0, \h0481, \h7466, \h6447, \h5424, \h4405,
  \hA7DB, \hB7FA, \h8799, \h97B8, \hE75F, \hF77E, \hC71D, \hD73C,
  \h26D3, \h36F2, \h0691, \h16B0, \h6657, \h7676, \h4615, \h5634,
  \hD94C, \hC96D, \hF90E, \hE92F, \h99C8, \h89E9, \hB98A, \hA9AB,
  \h5844, \h4865, \h7806, \h6827, \h18C0, \h08E1, \h3882, \h28A3,
  \hCB7D, \hDB5C, \hEB3F, \hFB1E, \h8BF9, \h9BD8, \hABBB, \hBB9A,
  \h4A75, \h5A54, \h6A37, \h7A16, \h0AF1, \h1AD0, \h2AB3, \h3A92,
  \hFD2E, \hED0F, \hDD6C, \hCD4D, \hBDAA, \hAD8B, \h9DE8, \h8DC9,
  \h7C26, \h6C07, \h5C64, \h4C45, \h3CA2, \h2C83, \h1CE0, \h0CC1,
  \hEF1F, \hFF3E, \hCF5D, \hDF7C, \hAF9B, \hBFBA, \h8FD9, \h9FF8,
  \h6E17, \h7E36, \h4E55, \h5E74, \h2E93, \h3EB2, \h0ED1, \h1EF0 >>

\* The rows of the table as words, by the bits of the index.
Row == [index \in SUBSET (0..7) |-> Bits(table[Value(index) + 1])]

\* Mutants: the row looked up with the wrong half of the register; the other
\* half not carried over.
Crc16WrongHalf(data, word) ==
  SymDiff({i + 8 : i \in word \cap 0..7}, Row[SymDiff(word \cap 0..7, Bits(data))])

Crc16HalfLost(data, word) == Row[SymDiff({i - 8 : i \in word \cap 8..15}, Bits(data))]

crc16(data, word) ==
  SymDiff({i + 8 : i \in word \cap 0..7},
          Row[SymDiff({i - 8 : i \in word \cap 8..15}, Bits(data))])

-----------------------------------------------------------------------------
(* The ISO checksum *)

CHUNK_SIZE == 20

\* Mutant: what is above the low byte is lost.
ReduceLow(x) == x % 256

REDUCE(x) == (x % 256) + (x \div 256)

\* The two bytes of fletcher16.
f0(e) == REDUCE(sum1[e])
f1(e) == REDUCE(sum2[e])

\* Mutant: the second byte from the second sum, as the first one is.
IsoFromSecond(e) ==
  [c0 |-> 255 - ((f0(e) + f1(e)) % 255), c1 |-> 255 - (f1(e) % 255)]

IsoChecksum_calculate(e) ==
  LET c0 == 255 - ((f0(e) + f1(e)) % 255)
  IN  [c0 |-> c0, c1 |-> 255 - ((f0(e) + c0) % 255)]

-----------------------------------------------------------------------------
Init ==
  /\ block \in Transfers
  /\ it = 0
  /\ crc = [e \in Ends |-> Crc16_InitialValue]
  /\ sum1 = [e \in Ends |-> 255] /\ sum2 = [e \in Ends |-> 255]

Length == Len(block["writer"])

\* Mutant: the sums are folded only behind the block.
EndsBlock == it + 1 = Length

\* A chunk ends with every CHUNK_SIZE-th byte and with the block.
EndsChunk == (it + 1) % CHUNK_SIZE = 0 \/ it + 1 = Length

Fold(x) == IF EndsChunk THEN REDUCE(x) ELSE x

\* One iteration of the loop of calculateCrc16.
calculateCrc16(e) == crc16(block[e][it + 1], crc[e])

\* Mutant: the second sum is one of the bytes as well.
NextByteTwice ==
  /\ it < Length
  /\ it' = it + 1
  /\ crc' = [e \in Ends |-> calculateCrc16(e)]
  /\ sum1' = [e \in Ends |-> Fold(sum1[e] + block[e][it + 1])]
  /\ sum2' = [e \in Ends |-> Fold(sum2[e] + block[e][it + 1])]
  /\ UNCHANGED block

NextByte ==
  /\ it < Length
  /\ it' = it + 1
  /\ crc' = [e \in Ends |-> calculateCrc16(e)]
  /\ sum1' = [e \in Ends |-> Fold(sum1[e] + block[e][it + 1])]
  /\ sum2' = [e \in Ends |-> Fold(sum2[e] + (sum1[e] + block[e][it + 1]))]
  /\ UNCHANGED block

Spec == Init /\ [][NextByte]_vars

-----------------------------------------------------------------------------
(* Properties *)

Done == it = Length

\* One fold for each chunk and one at the end are enough: each sum fits the
\* byte of fletcher16 that it is put into with an | (IsoChecksum.c:24, 48),
\* and is never the 0 that would be another number than 255.
SumsFit ==
  Done => \A e \in Ends : f0(e) \in 1..255 /\ f1(e) \in 1..255

Standard == INSTANCE FletcherSums WITH
  Blocks <- Seq(ByteRange), block <- block["writer"],
  c0 <- sum1["writer"] % 255, c1 <- sum2["writer"] % 255

\* "Checksum is calculated according to as ECSS-E-70-41A Annex A"
\* (IsoChecksum.h:31): the sums are those of the standard whatever the length
\* of the block and wherever its chunks end.
SumsStandard == Standard!Spec

\* The two bytes make both sums zero when they are summed behind the block,
\* which is what a receiver of another make checks; and neither is the zero
\* that stands for no checksum.
IsoVerifies ==
  Done => \A e \in Ends :
    LET c == IsoChecksum_calculate(e)
    IN  /\ c.c0 \in 1..255 /\ c.c1 \in 1..255
        /\ (sum1[e] + c.c0 + c.c1) % 255 = 0
        /\ (sum2[e] + 2 * (sum1[e] + c.c0) + c.c1) % 255 = 0

\* One bit of a byte through the shift register of the standard: the
\* generator is x^16 + x^12 + x^5 + 1.
ShiftBit(register, bit) ==
  LET shifted == {i + 1 : i \in register \ {15}}
  IN  IF (15 \in register) # bit THEN SymDiff(shifted, {12, 5, 0}) ELSE shifted

Divide(data, register) ==
  LET after[n \in 0..8] ==
        IF n = 0 THEN register ELSE ShiftBit(after[n - 1], (8 - n) \in Bits(data))
  IN  after[8]

\* Two closed formulas, evaluated by TLC in full for every run, on which the
\* proofs rest: Bits and Value take bytes to their bits and back, and a row of
\* the table is its index divided by the generator.
ASSUME BitsAssumption ==
  /\ \A b \in ByteRange : Bits(b) \subseteq 0..7 /\ Value(Bits(b)) = b
  /\ \A bits \in SUBSET (0..7) : Value(bits) \in ByteRange /\ Bits(Value(bits)) = bits

ASSUME TableAssumption == \A b \in ByteRange : Row[Bits(b)] = Divide(b, {})

\* "Implemented as defined in ECSS-E-70-41C Annex B.1" (Crc16.h:34): a byte
\* looked up in the table is its eight bits, high one first, divided by the
\* generator.
CrcDivides == [][\A e \in Ends : crc'[e] = Divide(block[e][it + 1], crc[e])]_vars

Changed == {i \in 1..Length : block["writer"][i] # block["reader"][i]}

\* The changes keep within two bytes side by side.
Burst == \A i, j \in Changed : j <= i + 1

\* A burst is found by the CRC, also one that begins with the last byte of the
\* block and goes on in the CRC behind it.
CrcDetects ==
  Done /\ Burst /\ Changed # {} =>
    /\ crc["writer"] # crc["reader"]
    /\ Changed = {Length} => ~(SymDiff(crc["writer"], crc["reader"]) \subseteq 8..15)

\* A burst is found by the ISO checksum unless it only turns 0 into 255 or
\* back, which are the same modulo 255.
IsoDetects ==
  Done /\ Burst /\ (\E i \in Changed : {block["writer"][i], block["reader"][i]} # {0, 255}) =>
    IsoChecksum_calculate("writer") # IsoChecksum_calculate("reader")

=============================================================================
