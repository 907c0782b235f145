----------------------------- MODULE CrcProofs -----------------------------
(***************************************************************************)
(* Proofs about the CRC of Checksums, for blocks of any length and any     *)
(* bytes: the table-driven algorithm divides by the generator of the       *)
(* standard, and a change of two bytes side by side is always found.       *)
(***************************************************************************)
EXTENDS Checksums, WellFoundedInduction, TLAPS

-----------------------------------------------------------------------------
(* Induction                                                                 *)

\* A set of numbers that holds 0 and the successor of each holds them all.
LEMMA SetInduction ==
  ASSUME NEW S, 0 \in S, \A n \in Nat : n \in S => n + 1 \in S
  PROVE  Nat \subseteq S
<1> DEFINE T == Nat \ S
           R == OpToRel(<, Nat)
<1> SUFFICES ASSUME T # {} PROVE FALSE
  OBVIOUS
<1>1. IsWellFoundedOn(R, Nat)
  BY NatLessThanWellFounded
<1>2. \A x, y \in Nat : y < x => <<y, x>> \in R
  BY DEF OpToRel
<1> HIDE DEF R
<1>3. PICK x \in T : \A y \in T : ~(<<y, x>> \in R)
  <2>1. T \subseteq Nat
    OBVIOUS
  <2> HIDE DEF T
  <2> QED BY <1>1, <2>1, WFMin
<1>4. x - 1 \in Nat /\ x - 1 < x
  OBVIOUS
<1>5. x - 1 \in S
  BY <1>2, <1>3, <1>4
<1> QED BY <1>3, <1>4, <1>5

-----------------------------------------------------------------------------
(* One bit through the shift register                                        *)

Word == SUBSET (0..15)

\* Which bits the register holds after one bit more.
LEMMA ShiftBitMembers ==
  ASSUME NEW r \in Word, NEW bit \in BOOLEAN
  PROVE  /\ ShiftBit(r, bit) \in Word
         /\ \A k \in 0..15 :
              k \in ShiftBit(r, bit) <=>
                ((k - 1 \in r) # (k \in {12, 5, 0} /\ ((15 \in r) # bit)))
<1> DEFINE shifted == {i + 1 : i \in r \ {15}}
<1>1. shifted \subseteq 1..15 /\ \A k \in 0..15 : k \in shifted <=> k - 1 \in r
  BY DEF Word
<1>2. ShiftBit(r, bit) = IF (15 \in r) # bit THEN SymDiff(shifted, {12, 5, 0}) ELSE shifted
  BY Zenon DEF ShiftBit
<1> HIDE DEF shifted
<1>3. CASE (15 \in r) # bit
  BY <1>1, <1>2, <1>3 DEF Word, SymDiff
<1>4. CASE ~((15 \in r) # bit)
  BY <1>1, <1>2, <1>4 DEF Word
<1> QED BY <1>3, <1>4

\* Division is linear: what two registers and two bits add up to is divided
\* as they are.
LEMMA ShiftLinear ==
  ASSUME NEW r \in Word, NEW s \in Word, NEW p \in BOOLEAN, NEW q \in BOOLEAN,
         NEW pq \in BOOLEAN, pq <=> (p # q)
  PROVE  ShiftBit(SymDiff(r, s), pq) = SymDiff(ShiftBit(r, p), ShiftBit(s, q))
<1>1. SymDiff(r, s) \in Word /\ \A k : k \in SymDiff(r, s) <=> ((k \in r) # (k \in s))
  BY DEF Word, SymDiff
<1> DEFINE u == ShiftBit(SymDiff(r, s), pq)
           v == SymDiff(ShiftBit(r, p), ShiftBit(s, q))
<1>2. u \in Word /\ v \in Word
  BY <1>1, ShiftBitMembers DEF Word, SymDiff
<1>3. \A k \in 0..15 : k \in v <=> ((k \in ShiftBit(r, p)) # (k \in ShiftBit(s, q)))
  BY DEF SymDiff
<1>4. ASSUME NEW k \in 0..15 PROVE k \in u <=> k \in v
  <2>1. k \in u <=>
          ((k - 1 \in SymDiff(r, s)) # (k \in {12, 5, 0} /\ ((15 \in SymDiff(r, s)) # pq)))
    BY <1>1, ShiftBitMembers
  <2>2. k \in ShiftBit(r, p) <=> ((k - 1 \in r) # (k \in {12, 5, 0} /\ ((15 \in r) # p)))
    BY ShiftBitMembers
  <2>3. k \in ShiftBit(s, q) <=> ((k - 1 \in s) # (k \in {12, 5, 0} /\ ((15 \in s) # q)))
    BY ShiftBitMembers
  <2> HIDE DEF u, v
  <2> QED BY <1>1, <1>3, <2>1, <2>2, <2>3
<1> HIDE DEF u, v
<1>5. u = v
  BY <1>2, <1>4 DEF Word
<1> QED BY <1>5 DEF u, v

-----------------------------------------------------------------------------
(* A byte through the shift register                                         *)

\* after[n] is the register when the n high bits of data are through.
Course(after, data, register) ==
  /\ after[0] = register
  /\ \A n \in 0..7 : after[n + 1] = ShiftBit(after[n], (7 - n) \in Bits(data))

\* Divide follows such a course to its end.
LEMMA Division ==
  ASSUME NEW data, NEW register
  PROVE  \E after : Course(after, data, register) /\ Divide(data, register) = after[8]
<1> DEFINE S(r, i) == ShiftBit(r, i \in Bits(data))
<1> DEFINE s1 == S(register, 7)
           s2 == S(s1, 6)
           s3 == S(s2, 5)
           s4 == S(s3, 4)
           s5 == S(s4, 3)
           s6 == S(s5, 2)
           s7 == S(s6, 1)
           s8 == S(s7, 0)
           states == <<register, s1, s2, s3, s4, s5, s6, s7, s8>>
           Unfold(f) == [n \in 0..8 |-> IF n = 0 THEN register
                                        ELSE ShiftBit(f[n - 1], (8 - n) \in Bits(data))]
           g == [n \in 0..8 |-> states[n + 1]]
           after == CHOOSE f : f = Unfold(f)
<1>1. g = Unfold(g)
  <2> SUFFICES ASSUME NEW n \in 0..8
               PROVE  g[n] = IF n = 0 THEN register
                             ELSE ShiftBit(g[n - 1], (8 - n) \in Bits(data))
    OBVIOUS
  <2> n \in {0, 1, 2, 3, 4, 5, 6, 7, 8}
    OBVIOUS
  <2> QED OBVIOUS
<1> HIDE DEF g
<1>2. after = Unfold(after)
  BY <1>1
<1>3. Divide(data, register) = after[8]
  BY DEF Divide
<1> HIDE DEF after
<1>4. \A n \in 0..8 : after[n] = IF n = 0 THEN register
                                 ELSE ShiftBit(after[n - 1], (8 - n) \in Bits(data))
  BY <1>2
<1>5. after[0] = register
  BY <1>4
<1>6. ASSUME NEW n \in 0..7 PROVE after[n + 1] = ShiftBit(after[n], (7 - n) \in Bits(data))
  <2>1. n + 1 \in 0..8 /\ n + 1 # 0 /\ (n + 1) - 1 = n /\ 8 - (n + 1) = 7 - n
    OBVIOUS
  <2>2. after[n + 1] = ShiftBit(after[(n + 1) - 1], (8 - (n + 1)) \in Bits(data))
    BY <1>4, <2>1
  <2> QED BY <2>1, <2>2
<1> QED BY <1>3, <1>5, <1>6 DEF Course

\* One step of the course.
LEMMA CourseStep ==
  ASSUME NEW after, NEW data, NEW register, Course(after, data, register), NEW n \in 0..7
  PROVE  \E bit \in BOOLEAN :
           (bit <=> (7 - n) \in Bits(data)) /\ after[n + 1] = ShiftBit(after[n], bit)
<1>1. after[n + 1] = ShiftBit(after[n], (7 - n) \in Bits(data))
  BY DEF Course
<1>2. PICK bit \in BOOLEAN : bit <=> (7 - n) \in Bits(data)
  OBVIOUS
<1>3. after[n + 1] = ShiftBit(after[n], bit)
  BY <1>1, <1>2, Zenon
<1> QED BY <1>2, <1>3

\* The register stays a word.
LEMMA CourseWords ==
  ASSUME NEW after, NEW data, NEW register \in Word, Course(after, data, register)
  PROVE  \A n \in 0..8 : after[n] \in Word
<1> DEFINE S == {n \in Nat : n <= 8 => after[n] \in Word}
<1>1. 0 \in S
  BY DEF Course
<1>2. ASSUME NEW n \in Nat, n \in S PROVE n + 1 \in S
  <2> SUFFICES ASSUME n + 1 <= 8 PROVE after[n + 1] \in Word
    OBVIOUS
  <2>1. n \in 0..7 /\ after[n] \in Word
    BY <1>2
  <2>2. PICK bit \in BOOLEAN : after[n + 1] = ShiftBit(after[n], bit)
    BY <2>1, CourseStep
  <2> QED BY <2>1, <2>2, ShiftBitMembers
<1>3. Nat \subseteq S
  <2> HIDE DEF S
  <2> QED BY <1>1, <1>2, SetInduction
<1> QED BY <1>3

\* Division is linear for bytes as it is for bits.
LEMMA DivideLinear ==
  ASSUME NEW r \in Word, NEW s \in Word, NEW a, NEW b, NEW c,
         Bits(c) = SymDiff(Bits(a), Bits(b))
  PROVE  /\ Divide(c, SymDiff(r, s)) = SymDiff(Divide(a, r), Divide(b, s))
         /\ Divide(a, r) \in Word
<1>0. SymDiff(r, s) \in Word
  BY DEF Word, SymDiff
<1>1. PICK f : Course(f, a, r) /\ Divide(a, r) = f[8]
  BY Division
<1>2. PICK g : Course(g, b, s) /\ Divide(b, s) = g[8]
  BY Division
<1>3. PICK h : Course(h, c, SymDiff(r, s)) /\ Divide(c, SymDiff(r, s)) = h[8]
  BY Division
<1>4. \A n \in 0..8 : f[n] \in Word /\ g[n] \in Word
  BY <1>1, <1>2, CourseWords
<1> DEFINE S == {n \in Nat : n <= 8 => h[n] = SymDiff(f[n], g[n])}
<1>5. 0 \in S
  BY <1>1, <1>2, <1>3 DEF Course
<1>6. ASSUME NEW n \in Nat, n \in S PROVE n + 1 \in S
  <2> SUFFICES ASSUME n + 1 <= 8 PROVE h[n + 1] = SymDiff(f[n + 1], g[n + 1])
    OBVIOUS
  <2>1. n \in 0..7 /\ n \in 0..8 /\ h[n] = SymDiff(f[n], g[n])
    BY <1>6
  <2>2. PICK p \in BOOLEAN : (p <=> (7 - n) \in Bits(a)) /\ f[n + 1] = ShiftBit(f[n], p)
    BY <1>1, <2>1, CourseStep
  <2>3. PICK q \in BOOLEAN : (q <=> (7 - n) \in Bits(b)) /\ g[n + 1] = ShiftBit(g[n], q)
    BY <1>2, <2>1, CourseStep
  <2>4. PICK pq \in BOOLEAN : (pq <=> (7 - n) \in Bits(c)) /\ h[n + 1] = ShiftBit(h[n], pq)
    BY <1>3, <2>1, CourseStep
  <2>5. pq <=> (p # q)
    BY <2>2, <2>3, <2>4 DEF SymDiff
  <2>6. ShiftBit(SymDiff(f[n], g[n]), pq) = SymDiff(ShiftBit(f[n], p), ShiftBit(g[n], q))
    BY <1>4, <2>1, <2>5, ShiftLinear
  <2> QED BY <2>1, <2>2, <2>3, <2>4, <2>6
<1>7. Nat \subseteq S
  <2> HIDE DEF S
  <2> QED BY <1>5, <1>6, SetInduction
<1>8. h[8] = SymDiff(f[8], g[8])
  BY <1>7
<1> QED BY <1>1, <1>2, <1>3, <1>4, <1>8

Low(word) == word \cap 0..7
High(word) == {i - 8 : i \in word \cap 8..15}
Up(bits) == {i + 8 : i \in bits}

\* A byte equal to the high half of the register cancels it: the low half
\* moves up, and the generator is never taken away.
LEMMA DivideCarry ==
  ASSUME NEW r \in Word, NEW b, Bits(b) = High(r)
  PROVE  Divide(b, r) = Up(Low(r))
<1> DEFINE Carry(n) == {i + n : i \in r \cap 0..(15 - n)}
<1>1. PICK f : Course(f, b, r) /\ Divide(b, r) = f[8]
  BY Division
<1> DEFINE S == {n \in Nat : n <= 8 => f[n] = Carry(n)}
<1>2. 0 \in S
  <2>1. Carry(0) = r
    <3>1. r \subseteq 0..15 /\ 15 - 0 = 15
      BY DEF Word
    <3>2. \A i \in r : i + 0 = i
      BY <3>1
    <3> QED BY <3>1, <3>2
  <2> QED BY <1>1, <2>1 DEF Course
<1>3. ASSUME NEW n \in Nat, n \in S PROVE n + 1 \in S
  <2> SUFFICES ASSUME n + 1 <= 8 PROVE f[n + 1] = Carry(n + 1)
    OBVIOUS
  <2>1. n \in 0..7 /\ f[n] = Carry(n)
    BY <1>3
  <2>2. PICK bit \in BOOLEAN : (bit <=> (7 - n) \in Bits(b)) /\ f[n + 1] = ShiftBit(f[n], bit)
    BY <1>1, <2>1, CourseStep
  <2>3. (15 \in Carry(n)) <=> ((7 - n) \in Bits(b))
    <3>1. (15 \in Carry(n)) <=> (15 - n \in r)
      BY <2>1
    <3>2. ((7 - n) \in High(r)) <=> (15 - n \in r)
      <4>1. (7 - n) \in High(r) <=> \E i \in r \cap 8..15 : 7 - n = i - 8
        BY DEF High
      <4>2. 15 - n \in 8..15 /\ 7 - n = (15 - n) - 8
        BY <2>1
      <4>3. \A i \in 8..15 : 7 - n = i - 8 => i = 15 - n
        BY <2>1
      <4> QED BY <4>1, <4>2, <4>3
    <3> QED BY <3>1, <3>2
  <2>4. ShiftBit(Carry(n), bit) = {i + 1 : i \in Carry(n) \ {15}}
    <3> HIDE DEF Carry
    <3>1. ~((15 \in Carry(n)) # bit)
      BY <2>2, <2>3
    <3> QED BY <3>1, Zenon DEF ShiftBit
  <2>5. {i + 1 : i \in Carry(n) \ {15}} = Carry(n + 1)
    <3>1. ASSUME NEW k, k \in Carry(n + 1) PROVE k \in {i + 1 : i \in Carry(n) \ {15}}
      <4>1. PICK i \in r \cap 0..(15 - (n + 1)) : k = i + (n + 1)
        BY <3>1
      <4>2. i \in r \cap 0..(15 - n) /\ i + n # 15 /\ k = (i + n) + 1
        BY <2>1, <4>1
      <4>3. i + n \in Carry(n) \ {15}
        BY <4>2
      <4> QED BY <4>2, <4>3
    <3>2. ASSUME NEW k, k \in {i + 1 : i \in Carry(n) \ {15}} PROVE k \in Carry(n + 1)
      <4>1. PICK i \in r \cap 0..(15 - n) : i + n # 15 /\ k = (i + n) + 1
        BY <3>2
      <4>2. i \in r \cap 0..(15 - (n + 1)) /\ k = i + (n + 1)
        BY <2>1, <4>1
      <4> QED BY <4>2
    <3> HIDE DEF Carry
    <3> QED BY <3>1, <3>2
  <2> QED BY <2>1, <2>2, <2>4, <2>5
<1>4. Nat \subseteq S
  <2> HIDE DEF S
  <2> QED BY <1>2, <1>3, SetInduction
<1>5. f[8] = Carry(8)
  BY <1>4
<1>6. Carry(8) = Up(Low(r))
  BY DEF Up, Low
<1> QED BY <1>1, <1>5, <1>6

-----------------------------------------------------------------------------
(* The table                                                                 *)

\* Every set of bits is those of a byte, whose row is the byte divided.
LEMMA RowDivides ==
  ASSUME NEW x \in SUBSET (0..7)
  PROVE  \E b \in ByteRange : Bits(b) = x /\ Row[x] = Divide(b, {})
<1>1. Value(x) \in ByteRange /\ Bits(Value(x)) = x
  BY BitsAssumption
<1>2. Row[Bits(Value(x))] = Divide(Value(x), {})
  BY <1>1, TableAssumption
<1> QED BY <1>1, <1>2

\* Without bits nothing is left.
LEMMA RowOfNothing == Row[{}] = {}
<1>1. PICK b \in ByteRange : Bits(b) = {} /\ Row[{}] = Divide(b, {})
  BY RowDivides
<1>2. {} \in Word /\ High({}) = {} /\ Up(Low({})) = {}
  BY DEF Word, High, Low, Up
<1> QED BY <1>1, <1>2, DivideCarry

\* The generator has the lowest bit, so a row without bits in its low half was
\* never divided: it is the row of no bits.
LEMMA RowReachesLow ==
  ASSUME NEW x \in SUBSET (0..7), Row[x] \subseteq 8..15
  PROVE  x = {}
<1>1. PICK b \in ByteRange : Bits(b) = x /\ Row[x] = Divide(b, {})
  BY RowDivides
<1>2. PICK f : Course(f, b, {}) /\ Divide(b, {}) = f[8]
  BY Division
<1>3. \A n \in 0..8 : f[n] \in Word
  BY <1>2, CourseWords DEF Word
<1>4. ASSUME NEW n \in 0..7, f[n + 1] \cap 0..n = {}
      PROVE  ((15 \in f[n]) <=> (7 - n \in x)) /\ f[n] \cap 0..(n - 1) = {}
  <2>1. PICK bit \in BOOLEAN : (bit <=> (7 - n) \in Bits(b)) /\ f[n + 1] = ShiftBit(f[n], bit)
    BY <1>2, CourseStep
  <2>2. \A k \in 0..15 : k \in f[n + 1] <=>
          ((k - 1 \in f[n]) # (k \in {12, 5, 0} /\ ((15 \in f[n]) # bit)))
    BY <1>3, <2>1, ShiftBitMembers
  <2>3. 0 \notin f[n + 1] /\ ~(0 - 1 \in f[n])
    BY <1>3, <1>4 DEF Word
  <2>4. (15 \in f[n]) <=> bit
    BY <2>2, <2>3
  <2>5. ASSUME NEW k \in 0..(n - 1) PROVE k \notin f[n]
    <3>1. k + 1 \in 0..15 /\ (k + 1) - 1 = k /\ k + 1 \notin f[n + 1]
      BY <1>4
    <3> QED BY <2>2, <2>4, <3>1
  <2> QED BY <1>1, <2>1, <2>4, <2>5
<1>5. \A n \in 0..8 : f[n] \cap 0..(n - 1) = {}
  <2> DEFINE S == {n \in Nat : n <= 8 => f[8 - n] \cap 0..((8 - n) - 1) = {}}
  <2>1. 0 \in S
    BY <1>1, <1>2
  <2>2. ASSUME NEW n \in Nat, n \in S PROVE n + 1 \in S
    <3> SUFFICES ASSUME n + 1 <= 8 PROVE f[8 - (n + 1)] \cap 0..((8 - (n + 1)) - 1) = {}
      OBVIOUS
    <3>1. f[8 - n] \cap 0..((8 - n) - 1) = {}
      BY <2>2
    <3>2. PICK m \in 0..7 : m = 8 - (n + 1)
      OBVIOUS
    <3>3. 8 - n = m + 1 /\ (8 - n) - 1 = m
      BY <3>2
    <3>4. f[m + 1] \cap 0..m = {}
      BY <3>1, <3>3
    <3> QED BY <1>4, <3>2, <3>4
  <2>3. Nat \subseteq S
    <3> HIDE DEF S
    <3> QED BY <2>1, <2>2, SetInduction
  <2>4. ASSUME NEW n \in 0..8 PROVE f[n] \cap 0..(n - 1) = {}
    <3>1. 8 - n \in Nat /\ 8 - n <= 8 /\ 8 - (8 - n) = n
      OBVIOUS
    <3>2. 8 - n \in S
      <4> HIDE DEF S
      <4> QED BY <2>3, <3>1
    <3> QED BY <3>1, <3>2
  <2> QED BY <2>4
<1>6. \A n \in 0..7 : (15 \in f[n]) <=> (7 - n \in x)
  <2> TAKE n \in 0..7
  <2>1. n + 1 \in 0..8 /\ (n + 1) - 1 = n
    OBVIOUS
  <2>2. f[n + 1] \cap 0..n = {}
    BY <1>5, <2>1
  <2> QED BY <1>4, <2>2
<1>7. \A n \in 0..8 : f[n] = {}
  <2> DEFINE S == {n \in Nat : n <= 8 => f[n] = {}}
  <2>1. 0 \in S
    BY <1>2 DEF Course
  <2>2. ASSUME NEW n \in Nat, n \in S PROVE n + 1 \in S
    <3> SUFFICES ASSUME n + 1 <= 8 PROVE f[n + 1] = {}
      OBVIOUS
    <3>1. /\ n \in 0..7 /\ n + 1 \in 0..8
          /\ f[n] = {} /\ f[n] \in Word /\ f[n + 1] \in Word
      BY <1>3, <2>2
    <3>2. PICK bit \in BOOLEAN : (bit <=> (7 - n) \in Bits(b)) /\ f[n + 1] = ShiftBit(f[n], bit)
      BY <1>2, <3>1, CourseStep
    <3>3. ~bit
      BY <1>1, <1>6, <3>1, <3>2
    <3>4. \A k \in 0..15 : k \in f[n + 1] <=>
            ((k - 1 \in f[n]) # (k \in {12, 5, 0} /\ ((15 \in f[n]) # bit)))
      BY <3>1, <3>2, ShiftBitMembers
    <3>5. \A k \in 0..15 : k \notin f[n + 1]
      BY <3>1, <3>3, <3>4
    <3> QED BY <3>1, <3>5 DEF Word
  <2>3. Nat \subseteq S
    <3> HIDE DEF S
    <3> QED BY <2>1, <2>2, SetInduction
  <2> QED BY <2>3
<1>8. ASSUME NEW k \in 0..7 PROVE k \notin x
  <2>1. 7 - k \in 0..7 /\ 7 - (7 - k) = k
    OBVIOUS
  <2> QED BY <1>6, <1>7, <2>1
<1> QED BY <1>8

-----------------------------------------------------------------------------
(* calculateCrc16                                                            *)

\* The halves of a register are bits of bytes, and make it up.
LEMMA Halves ==
  ASSUME NEW r \in Word
  PROVE  /\ High(r) \in SUBSET (0..7) /\ Low(r) \in SUBSET (0..7) /\ Up(Low(r)) \subseteq 8..15
         /\ Up(Low(r)) = {} => Low(r) = {}
         /\ Low(r) = {} /\ High(r) = {} => r = {}
<1>1. High(r) \in SUBSET (0..7) /\ Low(r) \in SUBSET (0..7) /\ Up(Low(r)) \subseteq 8..15
  BY DEF High, Low, Up, Word
<1>2. Up(Low(r)) = {} => Low(r) = {}
  BY DEF Up
<1>3. ASSUME Low(r) = {}, High(r) = {}, NEW k \in r PROVE FALSE
  <2>1. k \in 0..7 \/ k \in 8..15
    BY DEF Word
  <2>2. CASE k \in 0..7
    BY <1>3, <2>2 DEF Low
  <2>3. CASE k \in 8..15
    BY <1>3, <2>3 DEF High
  <2> QED BY <2>1, <2>2, <2>3
<1> QED BY <1>1, <1>2, <1>3

\* calculateCrc16 moves the low half up and adds a row.
LEMMA Crc16Row ==
  ASSUME NEW b, NEW r
  PROVE  crc16(b, r) = SymDiff(Up(Low(r)), Row[SymDiff(High(r), Bits(b))])
BY DEF crc16, Up, Low, High

\* A byte looked up in the table is the byte divided, for every register.
LEMMA Crc16Divides ==
  ASSUME NEW b \in ByteRange, NEW r \in Word
  PROVE  crc16(b, r) = Divide(b, r) /\ crc16(b, r) \in Word
<1> DEFINE x == SymDiff(High(r), Bits(b))
<1>1. x \in SUBSET (0..7) /\ High(r) \in SUBSET (0..7)
  BY Halves, BitsAssumption DEF SymDiff
<1>2. PICK h \in ByteRange : Bits(h) = High(r)
  BY <1>1, RowDivides
<1>3. PICK c \in ByteRange : Bits(c) = x /\ Row[x] = Divide(c, {})
  BY <1>1, RowDivides
<1>4. Bits(b) = SymDiff(Bits(h), Bits(c)) /\ SymDiff(r, {}) = r /\ {} \in Word
  BY <1>2, <1>3 DEF SymDiff, Word
<1>5. /\ Divide(b, SymDiff(r, {})) = SymDiff(Divide(h, r), Divide(c, {}))
      /\ Divide(h, r) \in Word
  BY <1>4, DivideLinear
<1>6. Divide(c, {}) \in Word
  <2>1. PICK f : Course(f, c, {}) /\ Divide(c, {}) = f[8]
    BY Division
  <2> QED BY <1>4, <2>1, CourseWords
<1>7. Divide(h, r) = Up(Low(r))
  BY <1>2, DivideCarry
<1>8. crc16(b, r) = SymDiff(Up(Low(r)), Row[x])
  BY Crc16Row
<1>9. crc16(b, r) = Divide(b, r)
  BY <1>3, <1>4, <1>5, <1>7, <1>8
<1>10. SymDiff(Divide(h, r), Divide(c, {})) \in Word
  BY <1>5, <1>6 DEF SymDiff, Word
<1> QED BY <1>4, <1>5, <1>9, <1>10

-----------------------------------------------------------------------------
(* The difference between the two ends.  By linearity it goes through        *)
(* calculateCrc16 like a register of its own.                                *)

\* The byte whose bits are those in which two bytes differ.
Apart(a, b) == Value(SymDiff(Bits(a), Bits(b)))

\* It has bits if and only if they are different.
LEMMA ApartBits ==
  ASSUME NEW a \in ByteRange, NEW b \in ByteRange
  PROVE  /\ Apart(a, b) \in ByteRange
         /\ Bits(Apart(a, b)) = SymDiff(Bits(a), Bits(b))
         /\ a = b => Bits(Apart(a, b)) = {}
         /\ a # b => Bits(Apart(a, b)) # {}
<1>1. SymDiff(Bits(a), Bits(b)) \in SUBSET (0..7)
  BY BitsAssumption DEF SymDiff
<1>2. Apart(a, b) \in ByteRange /\ Bits(Apart(a, b)) = SymDiff(Bits(a), Bits(b))
  BY <1>1, BitsAssumption DEF Apart
<1>3. SymDiff(Bits(a), Bits(b)) = {} => Bits(a) = Bits(b)
  BY DEF SymDiff
<1>4. Bits(a) = Bits(b) => a = b
  BY BitsAssumption
<1>5. a = b => SymDiff(Bits(a), Bits(b)) = {}
  BY DEF SymDiff
<1> QED BY <1>2, <1>3, <1>4, <1>5

\* What two bytes and two registers differ by is taken on in the same way.
LEMMA Crc16Difference ==
  ASSUME NEW a \in ByteRange, NEW b \in ByteRange, NEW u \in Word, NEW v \in Word
  PROVE  SymDiff(crc16(a, u), crc16(b, v)) = crc16(Apart(a, b), SymDiff(u, v))
<1>1. SymDiff(u, v) \in Word
  BY DEF SymDiff, Word
<1>2. SymDiff(Divide(a, u), Divide(b, v)) = Divide(Apart(a, b), SymDiff(u, v))
  BY ApartBits, DivideLinear
<1> QED BY <1>1, <1>2, ApartBits, Crc16Divides

\* How a difference d goes on: equal bytes do not make it vanish, a changed
\* one after equal ones makes one with bits in the low half, and from those no
\* byte makes it vanish.
LEMMA DifferenceStays ==
  ASSUME NEW d \in Word, NEW c \in ByteRange
  PROVE  /\ Bits(c) = {} => (crc16(c, d) = {} <=> d = {})
         /\ d = {} /\ Bits(c) # {} => ~(crc16(c, d) \subseteq 8..15)
         /\ ~(d \subseteq 8..15) => crc16(c, d) # {}
<1> DEFINE x == SymDiff(High(d), Bits(c))
<1>1. x \in SUBSET (0..7) /\ Bits(c) \in SUBSET (0..7)
  BY Halves, BitsAssumption DEF SymDiff
<1>2. crc16(c, d) = SymDiff(Up(Low(d)), Row[x])
  BY Crc16Row
<1>3. ASSUME crc16(c, d) = {} PROVE Low(d) = {} /\ High(d) = Bits(c)
  <2>1. Row[x] = Up(Low(d))
    BY <1>2, <1>3 DEF SymDiff
  <2>2. Row[x] \subseteq 8..15
    BY <2>1, Halves
  <2>3. x = {}
    BY <1>1, <2>2, RowReachesLow
  <2>4. Up(Low(d)) = {}
    BY <2>1, <2>3, RowOfNothing
  <2>5. High(d) = Bits(c)
    BY <2>3 DEF SymDiff
  <2> QED BY <2>4, <2>5, Halves
<1>4. ASSUME d = {} PROVE crc16(c, d) = Row[Bits(c)]
  <2>1. x = Bits(c) /\ Up(Low(d)) = {}
    BY <1>4 DEF High, Low, Up, SymDiff
  <2> QED BY <1>2, <2>1 DEF SymDiff
<1>5. ASSUME Bits(c) = {} PROVE crc16(c, d) = {} <=> d = {}
  BY <1>3, <1>4, <1>5, Halves, RowOfNothing
<1>6. ASSUME d = {}, Bits(c) # {} PROVE ~(crc16(c, d) \subseteq 8..15)
  BY <1>1, <1>4, <1>6, RowReachesLow
<1>7. ASSUME ~(d \subseteq 8..15) PROVE crc16(c, d) # {}
  <2>1. Low(d) # {}
    BY <1>7 DEF Low, Word
  <2> QED BY <1>3, <2>1
<1> QED BY <1>5, <1>6, <1>7

-----------------------------------------------------------------------------
(* The registers while a block is read                                       *)

CrcTypeInv ==
  /\ block \in Transfers
  /\ it \in 0..Length
  /\ crc \in [Ends -> Word]

Difference == SymDiff(crc["writer"], crc["reader"])

\* The registers differ once a changed byte was read; and if that was the last
\* one read and the first changed, they differ in their low halves, which the
\* next byte cannot make up for.
DetectInv ==
  Burst =>
    /\ (\A i \in Changed : i > it) => Difference = {}
    /\ (\E i \in Changed : i <= it) => Difference # {}
    /\ it \in Changed /\ (\A i \in Changed : i >= it) => ~(Difference \subseteq 8..15)

\* Both ends have a block of bytes of the same length.
LEMMA BlockBytes ==
  ASSUME block \in Transfers
  PROVE  /\ Length \in Nat
         /\ \A e \in Ends, i \in 1..Length : block[e][i] \in ByteRange
         /\ \A i \in Changed : i \in Nat /\ i >= 1 /\ i <= Length
<1>1. block \in [Ends -> Seq(ByteRange)] /\ Len(block["writer"]) = Len(block["reader"])
  BY TransferAssumption
<1> QED BY <1>1 DEF Ends, Length, Changed

\* Both registers start alike.
LEMMA CrcInit == Init => CrcTypeInv /\ DetectInv
<1> SUFFICES ASSUME Init PROVE CrcTypeInv /\ DetectInv
  OBVIOUS
<1>1. Length \in Nat /\ \A i \in Changed : i \in Nat /\ i >= 1 /\ i <= Length
  BY BlockBytes DEF Init
<1>2. CrcTypeInv
  BY <1>1 DEF Init, CrcTypeInv, Word, Crc16_InitialValue
<1>3. Difference = {}
  BY DEF Init, Difference, Ends, SymDiff
<1>4. it \notin Changed /\ \A i \in Changed : i > it /\ ~(i <= it)
  BY <1>1 DEF Init
<1> QED BY <1>2, <1>3, <1>4 DEF DetectInv

\* One byte more at both ends.
LEMMA CrcNext == CrcTypeInv /\ DetectInv /\ [NextByte]_vars => CrcTypeInv' /\ DetectInv'
<1> SUFFICES ASSUME CrcTypeInv, DetectInv, [NextByte]_vars PROVE CrcTypeInv' /\ DetectInv'
  OBVIOUS
<1>1. CASE UNCHANGED vars
  BY <1>1 DEF vars, CrcTypeInv, DetectInv, Difference, Burst, Changed, Length
<1>2. CASE NextByte
  <2>1. /\ it \in Nat /\ it + 1 \in 1..Length /\ it' = it + 1 /\ block' = block
        /\ Length \in Nat /\ \A i \in Changed : i \in Nat
        /\ \A e \in Ends : block[e][it + 1] \in ByteRange /\ crc[e] \in Word
    BY <1>2, BlockBytes DEF NextByte, CrcTypeInv
  <2>2. crc' = [e \in Ends |-> crc16(block[e][it + 1], crc[e])]
    BY <1>2 DEF NextByte, calculateCrc16
  <2>3. CrcTypeInv'
    <3>1. \A e \in Ends : crc16(block[e][it + 1], crc[e]) \in Word
      BY <2>1, Crc16Divides
    <3> QED BY <2>1, <2>2, <3>1 DEF CrcTypeInv, Length
  <2>4. Changed' = Changed /\ (Burst' <=> Burst)
    BY <2>1 DEF Changed, Length, Burst
  <2>5. "writer" \in Ends /\ "reader" \in Ends /\ Difference \in Word
    <3>1. "writer" \in Ends /\ "reader" \in Ends
      BY DEF Ends
    <3> QED BY <2>1, <3>1 DEF Difference, SymDiff, Word
  <2> DEFINE c == Apart(block["writer"][it + 1], block["reader"][it + 1])
  <2>6. Difference' = crc16(c, Difference)
    BY <2>1, <2>2, <2>5, Crc16Difference DEF Difference
  <2>7. c \in ByteRange /\ ((Bits(c) # {}) <=> it + 1 \in Changed)
    BY <2>1, <2>5, ApartBits DEF Changed
  <2> HIDE DEF c
  <2>8. ASSUME Burst
        PROVE  /\ (\A i \in Changed : i > it + 1) => Difference' = {}
               /\ (\E i \in Changed : i <= it + 1) => Difference' # {}
               /\ it + 1 \in Changed /\ (\A i \in Changed : i >= it + 1) =>
                    ~(Difference' \subseteq 8..15)
    <3>1. /\ (\A i \in Changed : i > it) => Difference = {}
          /\ (\E i \in Changed : i <= it) => Difference # {}
          /\ it \in Changed /\ (\A i \in Changed : i >= it) => ~(Difference \subseteq 8..15)
      BY <2>8 DEF DetectInv
    <3>2. CASE it + 1 \notin Changed
      <4>1. Difference' = {} <=> Difference = {}
        BY <2>5, <2>6, <2>7, <3>2, DifferenceStays
      <4>2. (\A i \in Changed : i > it + 1) => \A i \in Changed : i > it
        BY <2>1
      <4>3. (\E i \in Changed : i <= it + 1) => \E i \in Changed : i <= it
        BY <2>1, <3>2
      <4> QED BY <3>1, <3>2, <4>1, <4>2, <4>3
    <3>3. CASE it + 1 \in Changed /\ \A i \in Changed : i > it
      <4>1. ~(Difference' \subseteq 8..15)
        BY <2>5, <2>6, <2>7, <3>1, <3>3, DifferenceStays
      <4> QED BY <2>1, <3>3, <4>1
    <3>4. CASE it + 1 \in Changed /\ \E i \in Changed : i <= it
      <4>1. \A i \in Changed : i >= it
        BY <2>1, <2>8, <3>4 DEF Burst
      <4>2. it \in Changed
        BY <2>1, <3>4, <4>1
      <4>3. Difference' # {}
        BY <2>5, <2>6, <2>7, <3>1, <4>1, <4>2, DifferenceStays
      <4> QED BY <2>1, <4>2, <4>3
    <3> QED BY <2>1, <3>2, <3>3, <3>4
  <2> QED BY <2>1, <2>3, <2>4, <2>8 DEF DetectInv
<1> QED BY <1>1, <1>2

\* Both hold while a block is read.
LEMMA CrcInvariant == Spec => [](CrcTypeInv /\ DetectInv)
BY CrcInit, CrcNext, PTL DEF Spec

\* Every byte of every block is divided by the generator of the standard.
THEOREM CrcOfTheStandard == Spec => CrcDivides
<1>1. CrcTypeInv /\ [NextByte]_vars
        => [\A e \in Ends : crc'[e] = Divide(block[e][it + 1], crc[e])]_vars
  <2> SUFFICES ASSUME CrcTypeInv, NextByte, NEW e \in Ends
               PROVE  crc'[e] = Divide(block[e][it + 1], crc[e])
    OBVIOUS
  <2>1. it + 1 \in 1..Length /\ block[e][it + 1] \in ByteRange /\ crc[e] \in Word
    BY BlockBytes DEF NextByte, CrcTypeInv
  <2>2. crc'[e] = crc16(block[e][it + 1], crc[e])
    BY DEF NextByte, calculateCrc16
  <2> QED BY <2>1, <2>2, Crc16Divides
<1> QED BY <1>1, CrcInvariant, PTL DEF Spec, CrcDivides

\* A change of one byte or of two side by side, also of the last byte and the
\* CRC behind it, is found in a block of any bytes and any length.
THEOREM CrcFindsBursts == Spec => []CrcDetects
<1>1. CrcTypeInv /\ DetectInv => CrcDetects
  <2> SUFFICES ASSUME CrcTypeInv, DetectInv, Done, Burst, Changed # {}
               PROVE  /\ crc["writer"] # crc["reader"]
                      /\ Changed = {Length} => ~(Difference \subseteq 8..15)
    BY DEF CrcDetects, Difference
  <2>1. /\ it = Length /\ Length \in Nat
        /\ \A i \in Changed : i \in Nat /\ i >= 1 /\ i <= Length
    BY BlockBytes DEF CrcTypeInv, Done
  <2>2. Difference # {}
    BY <2>1 DEF DetectInv
  <2>3. Changed = {Length} => ~(Difference \subseteq 8..15)
    BY <2>1 DEF DetectInv
  <2> QED BY <2>2, <2>3 DEF Difference, SymDiff
<1> QED BY <1>1, CrcInvariant, PTL
=============================================================================
