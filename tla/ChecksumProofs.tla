--------------------------- MODULE ChecksumProofs ---------------------------
(***************************************************************************)
(* Proofs about the ISO checksum of Checksums, for blocks of any length    *)
(* and any bytes: its sums fit their bytes and are those of the standard,  *)
(* its two bytes verify, and a change of two bytes side by side is found.  *)
(***************************************************************************)
EXTENDS Checksums, TLAPS

-----------------------------------------------------------------------------
(* Arithmetic modulo 255 *)

\* Whole multiples of 255 do not matter.
LEMMA ModShift == ASSUME NEW a \in Int, NEW q \in Int PROVE (a + 255 * q) % 255 = a % 255
BY SMT

\* Nor does it matter whether the terms of a sum are reduced.
LEMMA ModSum == ASSUME NEW a \in Int, NEW b \in Int PROVE ((a % 255) + (b % 255)) % 255 = (a + b) % 255
BY SMT

\* A remainder may be taken of one summand alone.
LEMMA ModSumLeft == ASSUME NEW a \in Int, NEW b \in Int PROVE ((a % 255) + b) % 255 = (a + b) % 255
BY SMT

\* A term of a sum may be exchanged for an equal one.
LEMMA ModReplace ==
  ASSUME NEW a \in Int, NEW b \in Int, NEW w \in Int, a % 255 = b % 255
  PROVE  (a + w) % 255 = (b + w) % 255
BY ModSumLeft

\* A number is made of its low byte and the rest.
LEMMA LowByte ==
  ASSUME NEW x \in Nat
  PROVE  \E q, r \in Nat : q = x \div 256 /\ r = x % 256 /\ x = 256 * q + r /\ r <= 255
<1>1. x \div 256 \in Int /\ x % 256 \in Int
  BY SMT
<1>2. x = 256 * (x \div 256) + (x % 256)
  OBVIOUS
<1>3. x % 256 >= 0 /\ x % 256 <= 255
  BY SMT
<1>4. x \div 256 >= 0
  BY SMT
<1>5. x \div 256 \in Nat /\ x % 256 \in Nat
  BY <1>1, <1>3, <1>4, SMT
<1> QED BY <1>2, <1>3, <1>5

\* REDUCE keeps the value modulo 255, never makes zero of another number, and
\* brings a sum below its bound.
LEMMA Reduced ==
  ASSUME NEW x \in Nat, x >= 1
  PROVE  /\ REDUCE(x) \in Nat /\ REDUCE(x) >= 1
         /\ REDUCE(x) % 255 = x % 255
<1>1. PICK q, r \in Nat : q = x \div 256 /\ r = x % 256 /\ x = 256 * q + r /\ r <= 255
  BY LowByte
<1>2. REDUCE(x) = r + q
  BY <1>1 DEF REDUCE
<1>3. x = REDUCE(x) + 255 * q /\ REDUCE(x) \in Nat /\ REDUCE(x) >= 1
  BY <1>1, <1>2, SMT
<1>4. (REDUCE(x) + 255 * q) % 255 = REDUCE(x) % 255
  BY <1>3, ModShift
<1> QED BY <1>3, <1>4

\* The bounds of the sums where a chunk begins.
LEMMA ReducedBounds ==
  ASSUME NEW x \in Nat
  PROVE  /\ x <= 5376 => REDUCE(x) <= 276
         /\ x <= 59557 => REDUCE(x) <= 487
         /\ x <= 487 => REDUCE(x) <= 255
<1>1. PICK q, r \in Nat : q = x \div 256 /\ r = x % 256 /\ x = 256 * q + r /\ r <= 255
  BY LowByte
<1>2. REDUCE(x) = r + q
  BY <1>1 DEF REDUCE
<1> QED BY <1>1, <1>2, SMT

-----------------------------------------------------------------------------
(* The sums fit *)

\* Bytes taken since the sums were folded.
InChunk == IF Done THEN 0 ELSE it % CHUNK_SIZE

\* A sum of n bytes, or n partial sums, grows by no more than this; a state
\* with the sums folded starts from 276 and 487.
SumsBounded(e) ==
  /\ sum1[e] \in Nat /\ sum2[e] \in Nat /\ sum1[e] >= 1 /\ sum2[e] >= 1
  /\ sum1[e] <= 276 + 255 * InChunk
  /\ 2 * sum2[e] <= 974 + 552 * InChunk + 255 * (InChunk * (InChunk + 1))

Blocks ==
  /\ block \in [Ends -> Seq(ByteRange)]
  /\ Len(block["reader"]) = Len(block["writer"])
  /\ it \in 0..Length

SumInv ==
  /\ Blocks
  /\ sum1 \in [Ends -> Nat] /\ sum2 \in [Ends -> Nat]
  /\ \A e \in Ends : SumsBounded(e)

\* SumInv holds of sums of nothing.
LEMMA SumInit == Init => SumInv
<1> SUFFICES ASSUME Init PROVE SumInv
  OBVIOUS
<1>1. Blocks
  BY TransferAssumption DEF Init, Blocks, Length, Ends
<1>2. sum1 = [e \in Ends |-> 255] /\ sum2 = [e \in Ends |-> 255] /\ it = 0
  BY DEF Init
<1>3. InChunk = 0
  BY <1>2 DEF InChunk, CHUNK_SIZE
<1> QED BY <1>1, <1>2, <1>3 DEF SumInv, SumsBounded

\* The bytes that the next iteration takes.
LEMMA NextBytes ==
  ASSUME Blocks, it < Length, NEW e \in Ends
  PROVE  block[e][it + 1] \in ByteRange /\ it \in Nat /\ Length \in Nat
BY DEF Blocks, Length, Ends

\* An iteration keeps the sums bounded: it adds a byte, and folds where a chunk ends.
LEMMA SumNext == SumInv /\ [NextByte]_vars => SumInv'
<1> SUFFICES ASSUME SumInv, [NextByte]_vars PROVE SumInv'
  OBVIOUS
<1>1. CASE UNCHANGED vars
  BY <1>1 DEF SumInv, SumsBounded, Blocks, InChunk, Done, Length, vars
<1>2. CASE NextByte
  <2>1. /\ it < Length /\ it' = it + 1 /\ block' = block /\ Blocks
        /\ it \in Nat /\ Length \in Nat /\ Length' = Length
    BY <1>2, NextBytes DEF NextByte, SumInv, Ends, Length
  <2>2. Blocks'
    BY <2>1 DEF Blocks
  <2>3. PICK k \in 0..19 : k = it % CHUNK_SIZE /\ k = InChunk
    BY <2>1, SMT DEF InChunk, Done, CHUNK_SIZE
  <2>4. PICK l : l = InChunk'
    OBVIOUS
  <2>5. IF EndsChunk THEN l = 0 ELSE l = k + 1 /\ k < 19
    BY <2>1, <2>3, <2>4, SMT DEF InChunk, Done, CHUNK_SIZE, EndsChunk
  <2>6. ASSUME NEW e \in Ends
        PROVE  sum1'[e] \in Nat /\ sum2'[e] \in Nat /\ SumsBounded(e)'
    <3>1. PICK b \in Nat : b = block[e][it + 1] /\ b <= 255
      BY <2>1, NextBytes DEF ByteRange
    <3>2. PICK s1, s2 \in Nat :
            /\ s1 = sum1[e] /\ s2 = sum2[e] /\ s1 >= 1 /\ s2 >= 1
            /\ s1 <= 276 + 255 * k /\ 2 * s2 <= 974 + 552 * k + 255 * (k * (k + 1))
      BY <2>3 DEF SumInv, SumsBounded
    <3>3. PICK u, v \in Nat : u = s1 + b /\ v = s2 + (s1 + b)
      BY <3>1, <3>2
    <3>4. /\ u >= 1 /\ v >= 1 /\ u <= 276 + 255 * (k + 1)
          /\ 2 * v <= 974 + 552 * (k + 1) + 255 * ((k + 1) * (k + 2))
      <4>1. k \in Nat /\ (k + 1) * (k + 2) = k * (k + 1) + 2 * k + 2
        BY <2>3, SMT
      <4>2. PICK m, n \in Nat : m = k * (k + 1) /\ n = (k + 1) * (k + 2)
        BY <4>1, SMT
      <4>3. n = m + 2 * k + 2 /\ 2 * s2 <= 974 + 552 * k + 255 * m
        BY <4>1, <4>2, <3>2
      <4>4. 2 * v <= 974 + 552 * (k + 1) + 255 * n
        BY <4>1, <4>3, <3>1, <3>2, <3>3, SMT
      <4>5. /\ k \in Int /\ b \in Int /\ s1 \in Int /\ s2 \in Int /\ u = s1 + b /\ v = s2 + (s1 + b)
            /\ 0 <= b /\ b <= 255 /\ s1 >= 1 /\ s2 >= 1 /\ s1 <= 276 + 255 * k
        BY <4>1, <3>1, <3>2, <3>3
      <4>6. u >= 1 /\ v >= 1 /\ u <= 276 + 255 * (k + 1)
        BY ONLY <4>5, SMT
      <4> QED BY <4>2, <4>4, <4>6
    <3>5. sum1'[e] = Fold(u) /\ sum2'[e] = Fold(v)
      BY <1>2, <3>1, <3>2, <3>3 DEF NextByte
    <3>6. CASE EndsChunk
      <4>1. u <= 5376 /\ v <= 59557
        BY <3>4, <2>3, SMT
      <4>2. sum1'[e] = REDUCE(u) /\ sum2'[e] = REDUCE(v) /\ l = 0
        BY <3>5, <3>6, <2>5 DEF Fold
      <4>3. /\ REDUCE(u) \in Nat /\ REDUCE(v) \in Nat /\ REDUCE(u) >= 1 /\ REDUCE(v) >= 1
            /\ REDUCE(u) <= 276 /\ REDUCE(v) <= 487
        BY <4>1, <3>4, Reduced, ReducedBounds
      <4>4. InChunk' = 0
        BY <4>2, <2>4
      <4> QED BY <4>2, <4>3, <4>4 DEF SumsBounded
    <3>7. CASE ~EndsChunk
      <4>1. sum1'[e] = u /\ sum2'[e] = v /\ InChunk' = k + 1
        BY <3>5, <3>7, <2>4, <2>5 DEF Fold
      <4> QED BY <4>1, <3>4, <2>3 DEF SumsBounded
    <3> QED BY <3>6, <3>7
  <2>7. sum1' \in [Ends -> Nat] /\ sum2' \in [Ends -> Nat]
    BY <2>6, <1>2 DEF NextByte
  <2> QED BY <2>2, <2>6, <2>7 DEF SumInv
<1> QED BY <1>1, <1>2

\* SumInv is an invariant.
LEMMA SumInvariant == Spec => []SumInv
<1> QED BY SumInit, SumNext, PTL DEF Spec

\* Bounded sums fit their bytes behind the last fold.
LEMMA SumInvFits == SumInv => SumsFit
<1> SUFFICES ASSUME SumInv, Done, NEW e \in Ends
             PROVE  f0(e) \in 1..255 /\ f1(e) \in 1..255
  BY DEF SumsFit
<1>1. InChunk = 0
  BY DEF InChunk
<1>2. /\ sum1[e] \in Nat /\ sum2[e] \in Nat /\ sum1[e] >= 1 /\ sum2[e] >= 1
      /\ sum1[e] <= 487 /\ sum2[e] <= 487
  BY <1>1, SMT DEF SumInv, SumsBounded
<1>3. /\ REDUCE(sum1[e]) \in Nat /\ REDUCE(sum2[e]) \in Nat
      /\ REDUCE(sum1[e]) >= 1 /\ REDUCE(sum2[e]) >= 1
      /\ REDUCE(sum1[e]) <= 255 /\ REDUCE(sum2[e]) <= 255
  BY <1>2, Reduced, ReducedBounds
<1> QED BY <1>3 DEF f0, f1

\* However long the block, one fold for each chunk and one at the end make
\* either sum fit its byte, and neither is zero.
THEOREM SumsFitTheirBytes == Spec => []SumsFit
<1> QED BY SumInvariant, SumInvFits, PTL

-----------------------------------------------------------------------------
(* The sums are those of the standard *)

\* What an iteration makes of the sums, modulo 255.
LEMMA SumStep ==
  ASSUME SumInv, NextByte, NEW e \in Ends
  PROVE  /\ block[e][it + 1] \in ByteRange
         /\ sum1'[e] \in Nat /\ sum2'[e] \in Nat
         /\ sum1'[e] % 255 = ((sum1[e] % 255) + block[e][it + 1]) % 255
         /\ sum2'[e] % 255 = ((sum2[e] % 255) + (sum1'[e] % 255)) % 255
<1>1. PICK b \in Nat : b = block[e][it + 1] /\ b \in ByteRange
  BY NextBytes DEF SumInv, NextByte, ByteRange
<1>2. PICK s, t \in Nat : s = sum1[e] /\ t = sum2[e] /\ s >= 1 /\ t >= 1
  BY DEF SumInv, SumsBounded
<1>3. PICK u, v \in Nat : u = s + b /\ v = t + (s + b) /\ u >= 1 /\ v >= 1
  BY <1>1, <1>2
<1>4. sum1'[e] = Fold(u) /\ sum2'[e] = Fold(v)
  BY <1>1, <1>2, <1>3 DEF NextByte
<1>5. /\ Fold(u) \in Nat /\ Fold(v) \in Nat
      /\ Fold(u) % 255 = u % 255 /\ Fold(v) % 255 = v % 255
  BY <1>3, Reduced DEF Fold
<1>6. u % 255 = ((s % 255) + b) % 255
  BY <1>3, ModSumLeft
<1>7. v % 255 = ((t % 255) + (u % 255)) % 255
  BY <1>3, ModSum
<1> QED BY <1>1, <1>2, <1>4, <1>5, <1>6, <1>7

\* Checksums implements FletcherSums: whatever the length of the block and
\* wherever its chunks end, the sums are those of the standard, so that any
\* other implementation of it agrees with this one.
THEOREM SumsOfTheStandard == Spec => SumsStandard
<1>1. Init => Standard!Init
  <2> SUFFICES ASSUME Init PROVE Standard!Init
    OBVIOUS
  <2>1. block["writer"] \in Seq(ByteRange) /\ it = 0 /\ sum1["writer"] = 255 /\ sum2["writer"] = 255
    BY TransferAssumption DEF Init, Ends
  <2>2. 255 % 255 = 0
    BY SMT
  <2> QED BY <2>1, <2>2 DEF Standard!Init
<1>2. SumInv /\ [NextByte]_vars => [Standard!Next]_(Standard!vars)
  <2> SUFFICES ASSUME SumInv, [NextByte]_vars PROVE [Standard!Next]_(Standard!vars)
    OBVIOUS
  <2>1. CASE UNCHANGED vars
    BY <2>1 DEF vars, Standard!vars
  <2>2. CASE NextByte
    <3>1. "writer" \in Ends
      BY DEF Ends
    <3>2. it < Len(block["writer"]) /\ it' = it + 1 /\ block' = block
      BY <2>2 DEF NextByte, Length
    <3> QED BY <2>2, <3>1, <3>2, SumStep DEF Standard!Next
  <2> QED BY <2>1, <2>2
<1> QED BY <1>1, <1>2, SumInvariant, PTL DEF Spec, SumsStandard, Standard!Spec

-----------------------------------------------------------------------------
(* The two bytes verify *)

\* The first byte makes both sums zero with the two sums, the second with the
\* first.
LEMMA BytesOfTheChecksum ==
  ASSUME SumInv, NEW e \in Ends
  PROVE  LET c == IsoChecksum_calculate(e)
         IN  /\ c.c0 \in 1..255 /\ c.c1 \in 1..255
             /\ (sum1[e] + sum2[e] + c.c0) % 255 = 0
             /\ (sum1[e] + c.c0 + c.c1) % 255 = 0
<1> DEFINE c == IsoChecksum_calculate(e)
<1>1. PICK s, t \in Nat : s = sum1[e] /\ t = sum2[e] /\ s >= 1 /\ t >= 1
  BY DEF SumInv, SumsBounded
<1>2. PICK f, g \in Nat : f = f0(e) /\ g = f1(e) /\ f % 255 = s % 255 /\ g % 255 = t % 255
  BY <1>1, Reduced DEF f0, f1
<1>3. c.c0 = 255 - ((f + g) % 255) /\ c.c1 = 255 - ((f + c.c0) % 255)
  BY <1>2 DEF IsoChecksum_calculate
<1> HIDE DEF c
<1>4. ASSUME NEW n \in Nat
      PROVE  255 - (n % 255) \in 1..255 /\ (n + (255 - (n % 255))) % 255 = 0
  BY SMT
<1>5. c.c0 \in 1..255 /\ (f + g + c.c0) % 255 = 0
  BY <1>3, <1>4
<1>6. c.c1 \in 1..255 /\ (f + c.c0 + c.c1) % 255 = 0
  BY <1>3, <1>4, <1>5
<1>7. PICK x, y \in 1..255 : x = c.c0 /\ y = c.c1
  BY <1>5, <1>6, Zenon
<1>8. (s + t + x) % 255 = (f + g + x) % 255
  <2>1. (s + (t + x)) % 255 = (f + (t + x)) % 255
    BY <1>2, ModReplace
  <2>2. (t + (f + x)) % 255 = (g + (f + x)) % 255
    BY <1>2, ModReplace
  <2>3. /\ s + t + x = s + (t + x) /\ f + (t + x) = t + (f + x)
        /\ f + g + x = g + (f + x)
    OBVIOUS
  <2> QED BY <2>1, <2>2, <2>3
<1>9. (s + x + y) % 255 = (f + x + y) % 255
  <2>1. (s + (x + y)) % 255 = (f + (x + y)) % 255
    BY <1>2, ModReplace
  <2>2. s + x + y = s + (x + y) /\ f + x + y = f + (x + y)
    OBVIOUS
  <2> QED BY <2>1, <2>2
<1> QED BY <1>1, <1>5, <1>6, <1>7, <1>8, <1>9 DEF c

\* The bytes made from them cancel both sums.
LEMMA SumInvVerifies == SumInv => IsoVerifies
<1> SUFFICES ASSUME SumInv, Done, NEW e \in Ends
             PROVE  LET c == IsoChecksum_calculate(e)
                    IN  /\ c.c0 \in 1..255 /\ c.c1 \in 1..255
                        /\ (sum1[e] + c.c0 + c.c1) % 255 = 0
                        /\ (sum2[e] + 2 * (sum1[e] + c.c0) + c.c1) % 255 = 0
  BY DEF IsoVerifies
<1>1. PICK s, t \in Nat : s = sum1[e] /\ t = sum2[e]
  BY ZenonT(60) DEF SumInv, SumsBounded
<1>2. PICK x, y \in 1..255 : x = IsoChecksum_calculate(e).c0 /\ y = IsoChecksum_calculate(e).c1
  BY BytesOfTheChecksum, ZenonT(60)
<1>3. (s + t + x) % 255 = 0 /\ (s + x + y) % 255 = 0
  BY <1>1, <1>2, BytesOfTheChecksum
<1>4. (t + 2 * (s + x) + y) % 255 = 0
  BY <1>3, SMT
<1> QED BY <1>1, <1>2, <1>3, <1>4

\* A receiver that sums the block with the two checksum bytes behind it finds
\* both sums zero, and neither byte is the zero that means no checksum.
THEOREM ChecksumVerifies == Spec => []IsoVerifies
<1> QED BY SumInvariant, SumInvVerifies, PTL

-----------------------------------------------------------------------------
(* Bursts are found *)

Apart(x) == (x["writer"] - x["reader"]) % 255

\* The differences modulo 255 of the bytes at position i, and of the sums.
ByteDiff(i) == (block["writer"][i] - block["reader"][i]) % 255
D1 == Apart(sum1)
D2 == Apart(sum2)

\* No difference of the bytes taken leaves one in the sums.  With differences
\* at p and p + 1 alone, the first sum tells that at p until the next byte, and
\* if they cancel in it the second sum tells it from then on.
DiffInv ==
  /\ (\A i \in 1..it : ByteDiff(i) = 0) => D1 = 0 /\ D2 = 0
  /\ \A p \in 1..it :
       (\A i \in 1..it : i \notin {p, p + 1} => ByteDiff(i) = 0) =>
         /\ p = it => D1 = ByteDiff(p) /\ D2 = ByteDiff(p)
         /\ D1 = 0 => D2 = ByteDiff(p)

\* Differences of equal remainders have equal remainders.
LEMMA ModDiff ==
  ASSUME NEW a \in Int, NEW b \in Int, NEW c \in Int, NEW d \in Int,
         a % 255 = c % 255, b % 255 = d % 255
  PROVE  (a - b) % 255 = (c - d) % 255
<1>1. (a + (-b)) % 255 = (c + (-b)) % 255
  BY ModReplace
<1>2. (b + (c - b - d)) % 255 = (d + (c - b - d)) % 255
  BY ModReplace
<1>3. /\ a + (-b) = a - b /\ c + (-b) = c - b
      /\ b + (c - b - d) = c - d /\ d + (c - b - d) = c - b
  OBVIOUS
<1> QED BY <1>1, <1>2, <1>3

\* How the differences go on with a byte.
LEMMA DiffStep ==
  ASSUME SumInv, NextByte
  PROVE  /\ ByteDiff(it + 1) \in 0..254 /\ D1 \in 0..254 /\ D2 \in 0..254
         /\ D1' = (D1 + ByteDiff(it + 1)) % 255
         /\ D2' = (D2 + D1') % 255
<1>1. "writer" \in Ends /\ "reader" \in Ends
  BY DEF Ends
<1>2. PICK x, y \in Nat : x = block["writer"][it + 1] /\ y = block["reader"][it + 1]
  <2>1. block["writer"][it + 1] \in ByteRange /\ block["reader"][it + 1] \in ByteRange
    BY <1>1, SumStep
  <2>2. ByteRange \subseteq Nat
    BY DEF ByteRange
  <2> QED BY <2>1, <2>2
<1>3. PICK s, t, u, v \in Nat : s = sum1["writer"] /\ t = sum1["reader"] /\ u = sum2["writer"] /\ v = sum2["reader"]
  BY <1>1 DEF SumInv
<1>4. PICK s1, t1, u1, v1 \in Nat :
        s1 = sum1'["writer"] /\ t1 = sum1'["reader"] /\ u1 = sum2'["writer"] /\ v1 = sum2'["reader"]
  BY <1>1, SumStep
<1>5. /\ s1 % 255 = ((s % 255) + x) % 255 /\ t1 % 255 = ((t % 255) + y) % 255
      /\ u1 % 255 = ((u % 255) + (s1 % 255)) % 255 /\ v1 % 255 = ((v % 255) + (t1 % 255)) % 255
  BY <1>1, <1>2, <1>3, <1>4, SumStep
<1>6. /\ s1 % 255 = (s + x) % 255 /\ t1 % 255 = (t + y) % 255
      /\ u1 % 255 = (u + s1) % 255 /\ v1 % 255 = (v + t1) % 255
  BY <1>5, ModSum, ModSumLeft
<1>7. (s1 - t1) % 255 = ((s + x) - (t + y)) % 255 /\ (u1 - v1) % 255 = ((u + s1) - (v + t1)) % 255
  BY <1>6, ModDiff
<1>8. /\ (s + x) - (t + y) = (s - t) + (x - y)
      /\ (u + s1) - (v + t1) = (u - v) + (s1 - t1)
  OBVIOUS
<1>9. /\ (((s - t) % 255) + ((x - y) % 255)) % 255 = ((s - t) + (x - y)) % 255
      /\ (((u - v) % 255) + ((s1 - t1) % 255)) % 255 = ((u - v) + (s1 - t1)) % 255
  BY ModSum
<1>10. /\ D1 = (s - t) % 255 /\ D2 = (u - v) % 255 /\ ByteDiff(it + 1) = (x - y) % 255
       /\ D1' = (s1 - t1) % 255 /\ D2' = (u1 - v1) % 255
  BY <1>2, <1>3, <1>4 DEF D1, D2, Apart, ByteDiff
<1>11. \A n \in Int : n % 255 \in 0..254
  BY SMT
<1> QED BY <1>7, <1>8, <1>9, <1>10, <1>11

\* Two ends that took no byte differ in none.
LEMMA DiffInit == Init => DiffInv
<1> SUFFICES ASSUME Init PROVE DiffInv
  OBVIOUS
<1>1. it = 0 /\ sum1 = [e \in Ends |-> 255] /\ sum2 = [e \in Ends |-> 255]
  BY DEF Init
<1>2. D1 = 0 /\ D2 = 0
  BY <1>1, SMT DEF D1, D2, Apart, Ends
<1> QED BY <1>1, <1>2 DEF DiffInv

\* An iteration keeps what the sums tell of the bytes taken.
LEMMA DiffNext == SumInv /\ DiffInv /\ [NextByte]_vars => DiffInv'
<1> SUFFICES ASSUME SumInv, DiffInv, [NextByte]_vars PROVE DiffInv'
  OBVIOUS
<1>1. CASE UNCHANGED vars
  BY <1>1 DEF DiffInv, D1, D2, Apart, ByteDiff, vars
<1>2. CASE NextByte
  <2>1. /\ it \in Nat /\ it' = it + 1
        /\ \A i : ByteDiff(i)' = ByteDiff(i)
    BY <1>2, NextBytes DEF NextByte, ByteDiff, SumInv, Ends
  <2>2. PICK n, e : n = it /\ e = ByteDiff(n + 1)
    OBVIOUS
  <2>3. PICK a, b, c, d : a = D1 /\ b = D2 /\ c = D1' /\ d = D2'
    OBVIOUS
  <2>4. /\ n \in Nat /\ it' = n + 1
        /\ e \in 0..254 /\ a \in 0..254 /\ b \in 0..254
        /\ c = (a + e) % 255 /\ d = (b + c) % 255
    BY <1>2, <2>1, <2>2, <2>3, DiffStep
  <2>5. \A m \in 0..254 : m % 255 = m
    BY SMT
  <2>6. /\ a = 0 => c = e
        /\ e = 0 => c = a
        /\ b = 0 /\ c = e => d = e
        /\ c = 0 => d = b
    <3>1. a = 0 => a + e = e
      BY <2>4
    <3>2. e = 0 => a + e = a
      BY <2>4
    <3>3. b = 0 /\ c = e => b + c = e
      BY <2>4
    <3>4. c = 0 => b + c = b
      BY <2>4
    <3> QED BY <2>4, <2>5, <3>1, <3>2, <3>3, <3>4
  <2>7. /\ (\A i \in 1..n : ByteDiff(i) = 0) => a = 0 /\ b = 0
        /\ \A p \in 1..n :
             (\A i \in 1..n : i \notin {p, p + 1} => ByteDiff(i) = 0) =>
               /\ p = n => a = ByteDiff(p) /\ b = ByteDiff(p)
               /\ a = 0 => b = ByteDiff(p)
    BY <2>2, <2>3 DEF DiffInv
  <2>8. \A i \in 1..(n + 1) : i \in 1..n \/ i = n + 1
    BY <2>4
  <2>9. \A i \in 1..n : i \in 1..(n + 1)
    BY <2>4
  <2>10. (\A i \in 1..(n + 1) : ByteDiff(i) = 0) => c = 0 /\ d = 0
    BY <2>2, <2>4, <2>6, <2>7, <2>9
  <2>11. ASSUME NEW p \in 1..(n + 1),
                \A i \in 1..(n + 1) : i \notin {p, p + 1} => ByteDiff(i) = 0
         PROVE  /\ p = n + 1 => c = ByteDiff(p) /\ d = ByteDiff(p)
                /\ c = 0 => d = ByteDiff(p)
    <3>1. CASE p = n + 1
      <4>1. \A i \in 1..n : i \notin {p, p + 1}
        BY <3>1, <2>4
      <4>2. a = 0 /\ b = 0
        BY <4>1, <2>7, <2>9, <2>11
      <4> QED BY <4>2, <3>1, <2>2, <2>6
    <3>2. CASE p \in 1..n
      <4>1. \A i \in 1..n : i \notin {p, p + 1} => ByteDiff(i) = 0
        BY <2>9, <2>11
      <4>2. CASE p = n
        BY <4>1, <4>2, <3>2, <2>4, <2>6, <2>7
      <4>3. CASE p # n
        <5>1. n + 1 \notin {p, p + 1} /\ n + 1 \in 1..(n + 1) /\ p # n + 1
          BY <4>3, <3>2, <2>4
        <5>2. e = 0
          BY <5>1, <2>2, <2>11
        <5> QED BY <5>1, <5>2, <4>1, <3>2, <2>6, <2>7
      <4> QED BY <4>2, <4>3
    <3> QED BY <3>1, <3>2, <2>8
  <2> QED BY <2>1, <2>3, <2>4, <2>10, <2>11 DEF DiffInv
<1> QED BY <1>1, <1>2

\* Equal checksums come from equal sums.
LEMMA ChecksumTellsSums ==
  ASSUME SumInv, IsoChecksum_calculate("writer") = IsoChecksum_calculate("reader")
  PROVE  D1 = 0 /\ D2 = 0
<1>1. "writer" \in Ends /\ "reader" \in Ends
  BY DEF Ends
<1>2. PICK s, t, u, v \in Nat : s = sum1["writer"] /\ t = sum1["reader"] /\ u = sum2["writer"] /\ v = sum2["reader"]
  BY <1>1, ZenonT(60) DEF SumInv
<1>3. PICK x, y \in 1..255 : x = IsoChecksum_calculate("writer").c0 /\ y = IsoChecksum_calculate("writer").c1
  BY <1>1, BytesOfTheChecksum, ZenonT(60)
<1>4. /\ (s + u + x) % 255 = 0 /\ (s + x + y) % 255 = 0
      /\ (t + v + x) % 255 = 0 /\ (t + x + y) % 255 = 0
  BY <1>1, <1>2, <1>3, BytesOfTheChecksum
<1>5. ((s + x + y) - (t + x + y)) % 255 = 0 /\ ((s + u + x) - (t + v + x)) % 255 = 0
  <2>1. ((s + x + y) - (t + x + y)) % 255 = (0 - 0) % 255 /\ ((s + u + x) - (t + v + x)) % 255 = (0 - 0) % 255
    <3>1. 0 % 255 = 0
      BY SMT
    <3>2. x \in Int /\ y \in Int /\ 0 \in Int
      OBVIOUS
    <3>3. s + x + y \in Int /\ t + x + y \in Int /\ s + u + x \in Int /\ t + v + x \in Int
      BY <3>2
    <3> QED BY <1>4, <3>1, <3>2, <3>3, ModDiff
  <2>2. (0 - 0) % 255 = 0
    BY SMT
  <2> QED BY <2>1, <2>2
<1>6. (s + x + y) - (t + x + y) = s - t /\ (s + u + x) - (t + v + x) = (s - t) + (u - v)
  OBVIOUS
<1>7. (s - t) % 255 = 0
  BY <1>5, <1>6
<1>8. (u - v) % 255 = 0
  <2>1. (((s - t) % 255) + (u - v)) % 255 = ((s - t) + (u - v)) % 255
    BY ModSumLeft
  <2>2. 0 + (u - v) = u - v
    OBVIOUS
  <2> QED BY <2>1, <2>2, <1>5, <1>6, <1>7
<1> QED BY <1>2, <1>7, <1>8 DEF D1, D2, Apart

\* A burst that changes a byte modulo 255 changes the checksum.
LEMMA DiffInvDetects == SumInv /\ DiffInv => IsoDetects
<1> SUFFICES ASSUME SumInv, DiffInv, Done, Burst,
                    NEW q \in Changed, {block["writer"][q], block["reader"][q]} # {0, 255},
                    IsoChecksum_calculate("writer") = IsoChecksum_calculate("reader")
             PROVE  FALSE
  BY DEF IsoDetects
<1>1. D1 = 0 /\ D2 = 0
  BY ChecksumTellsSums
<1>2. it = Length /\ Length \in Nat /\ q \in 1..Length /\ Changed \subseteq 1..Length
  BY DEF Done, Changed, SumInv, Blocks
<1>3. \A i \in 1..Length : /\ block["writer"][i] \in 0..255 /\ block["reader"][i] \in 0..255
                           /\ block["writer"][i] \in Int /\ block["reader"][i] \in Int
  <2>1. /\ block["writer"] \in Seq(ByteRange) /\ block["reader"] \in Seq(ByteRange)
        /\ Len(block["writer"]) = Length /\ Len(block["reader"]) = Length
    BY DEF SumInv, Blocks, Length, Ends
  <2>2. \A i \in 1..Length : block["writer"][i] \in ByteRange /\ block["reader"][i] \in ByteRange
    BY <2>1
  <2>3. \A n \in ByteRange : n \in 0..255 /\ n \in Int
    BY DEF ByteRange
  <2> QED BY <2>2, <2>3
<1>4. \A i \in 1..Length : i \notin Changed => ByteDiff(i) = 0
  <2>1. ASSUME NEW i \in 1..Length, i \notin Changed PROVE ByteDiff(i) = 0
    <3>1. PICK x \in Int : x = block["writer"][i] /\ x = block["reader"][i]
      BY <2>1, <1>3 DEF Changed
    <3>2. x - x = 0 /\ 0 % 255 = 0
      BY SMT
    <3> QED BY <3>1, <3>2 DEF ByteDiff
  <2> QED BY <2>1
<1>5. ByteDiff(q) # 0
  <2>1. PICK x, y \in Int : x = block["writer"][q] /\ y = block["reader"][q]
    BY <1>2, <1>3
  <2>2. x \in 0..255 /\ y \in 0..255 /\ x # y
    BY <2>1, <1>2, <1>3, SMTT(30) DEF Changed
  <2>3. ~(x = 0 /\ y = 255) /\ ~(x = 255 /\ y = 0)
    BY <2>1
  <2>4. (x - y) % 255 # 0
    <3>1. PICK z \in Int : z = x - y
      OBVIOUS
    <3>2. z # 0 /\ z <= 254 /\ z >= -254
      BY <2>2, <2>3, <3>1
    <3> QED BY ONLY <3>1, <3>2, SMT
  <2> QED BY <2>1, <2>4 DEF ByteDiff
<1>6. \A i \in Changed : i <= q + 1 /\ q <= i + 1
  BY DEF Burst
<1>7. ASSUME NEW p \in 1..Length, \A i \in 1..Length : i \notin {p, p + 1} => ByteDiff(i) = 0
      PROVE  ByteDiff(p) = 0
  BY <1>1, <1>2, <1>7 DEF DiffInv
<1>8. \A i \in 1..Length : i \notin {q - 1, q, q + 1} => ByteDiff(i) = 0
  BY <1>2, <1>4, <1>6
<1>9. CASE q - 1 \in Changed
  <2>1. q - 1 \in 1..Length
    BY <1>2, <1>9
  <2>2. \A i \in Changed : i <= q
    BY <1>9, <1>2 DEF Burst
  <2>3. \A i \in 1..Length : i \notin {q - 1, (q - 1) + 1} => ByteDiff(i) = 0
    BY <1>2, <1>4, <1>6, <2>2
  <2>4. ByteDiff(q - 1) = 0
    BY <2>1, <2>3, <1>7
  <2>5. \A i \in 1..Length : i \notin {q, q + 1} => ByteDiff(i) = 0
    BY <1>8, <2>4
  <2> QED BY <2>5, <1>2, <1>5, <1>7
<1>10. CASE q - 1 \notin Changed
  <2>1. \A i \in 1..Length : i \notin {q, q + 1} => ByteDiff(i) = 0
    BY <1>4, <1>8, <1>10
  <2> QED BY <2>1, <1>2, <1>5, <1>7
<1> QED BY <1>9, <1>10

\* A change of one byte or of two side by side is found in a block of any
\* length, unless it only turns 0 into 255 or back.
THEOREM BurstsFound == Spec => []IsoDetects
<1>1. Init => DiffInv
  BY DiffInit
<1>2. SumInv /\ DiffInv /\ [NextByte]_vars => DiffInv'
  BY DiffNext
<1> QED BY <1>1, <1>2, SumInvariant, DiffInvDetects, PTL DEF Spec

=============================================================================
