-------------------------- MODULE SpacePacketProofs --------------------------
(***************************************************************************)
(* Theorems about SpacePackets: what one end writes the other reads, for   *)
(* every size a header can hold, every destination, source and number.     *)
(* The leaves with arithmetic name SMT: the other prover cannot use them.  *)
(***************************************************************************)
EXTENDS SpacePackets, TLAPS

-----------------------------------------------------------------------------
(* Bytes of a number *)

\* The bytes of a number are bytes.
LEMMA ByteRange ==
  ASSUME NEW n \in Int
  PROVE  Lo(n) \in 0..255 /\ Hi(n) \in 0..255
BY SMT DEF Lo, Hi

\* Two bytes put together give back a number of 16 bits.
LEMMA TwoBytes ==
  ASSUME NEW n \in Int, 0 <= n, n <= 65535
  PROVE  Hi(n) * 256 + Lo(n) = n
BY SMT DEF Lo, Hi

\* Four bytes put together give back a number of 32 bits.
LEMMA FourBytes ==
  ASSUME NEW n \in Int, 0 <= n, n \div 65536 <= 65535
  PROVE  Hi(n \div 65536) * 16777216 + Lo(n \div 65536) * 65536 + Hi(n) * 256 + Lo(n) = n
BY SMT DEF Lo, Hi

-----------------------------------------------------------------------------
(* Lengths *)

\* readPacketDataLength reads what writePacketDataLength wrote, the 0 that is
\* written as -1 included, for every size of 32 bits.
LEMMA DefaultLength ==
  ASSUME NEW n \in Nat, Storable("DEFAULT", n), NEW header,
         header[5] = writePacketDataLength(n)[1], header[6] = writePacketDataLength(n)[2],
         header[7] = writePacketDataLength(n)[3], header[8] = writePacketDataLength(n)[4]
  PROVE  readPacketDataLength(header) = n
<1>0. n \div 65536 < 65536
  BY SMT DEF Storable
<1>1. CASE n = 0
  <2>1. header[5] = 255 /\ header[6] = 255 /\ header[7] = 255 /\ header[8] = 255
    BY <1>1, SMT DEF writePacketDataLength
  <2>2. IsEmpty(header)
    BY <2>1, SMT DEF IsEmpty
  <2> QED BY <1>1, <2>2, SMT DEF readPacketDataLength
<1>2. CASE n # 0
  <2>1. n - 1 \in Int /\ 0 <= n - 1 /\ (n - 1) \div 65536 <= 65535
    BY <1>0, <1>2, SMT
  <2>2. /\ header[5] = Hi((n - 1) \div 65536) /\ header[6] = Lo((n - 1) \div 65536)
        /\ header[7] = Hi(n - 1) /\ header[8] = Lo(n - 1)
    BY <1>2, SMT DEF writePacketDataLength
  <2>3. header[5] * 16777216 + header[6] * 65536 + header[7] * 256 + header[8] = n - 1
    BY <2>1, <2>2, FourBytes, SMT
  <2>4. ~IsEmpty(header)
    <3>1. SUFFICES ASSUME IsEmpty(header) PROVE FALSE
      OBVIOUS
    <3>2. header[5] = 255 /\ header[6] = 255 /\ header[7] = 255 /\ header[8] = 255
      BY <3>1, SMT DEF IsEmpty
    <3>3. n = 4294967296
      BY <2>3, <3>2, SMT
    <3> QED BY <1>0, <3>3, SMT
  <2> QED BY <2>3, <2>4, SMT DEF readPacketDataLength
<1> QED BY <1>1, <1>2

\* readCCSDSPacketDataLength reads what writeCCSDSPacketDataLength wrote.
LEMMA StrictLength ==
  ASSUME NEW n \in Nat, Storable("STRICT_CCSDS", n), NEW header,
         header[5] = writeCCSDSPacketDataLength(n + 2)[1],
         header[6] = writeCCSDSPacketDataLength(n + 2)[2]
  PROVE  readCCSDSPacketDataLength(header) = n + 2
<1>1. n + 2 <= 65536
  BY SMT DEF Storable
<1>2. n + 2 - 1 \in Int /\ 0 <= n + 2 - 1 /\ n + 2 - 1 <= 65535
  BY <1>1, SMT
<1>3. header[5] = Hi(n + 2 - 1) /\ header[6] = Lo(n + 2 - 1)
  BY SMT DEF writeCCSDSPacketDataLength
<1>4. header[5] * 256 + header[6] = n + 2 - 1
  BY <1>2, <1>3, TwoBytes, SMT
<1> QED BY <1>4, SMT DEF readCCSDSPacketDataLength

\* thinReadPacketDataLength does, except for multiples of 512.
LEMMA ThinLength ==
  ASSUME NEW n \in Nat, Storable("THIN", n), SizeAsserted("THIN", n), NEW header,
         header[3] = Hi(n - 1), header[4] = Lo(n - 1)
  PROVE  thinReadPacketDataLength(header) = n
<1>0. 1 <= n /\ n <= 65536 /\ n % 512 # 0
  BY SMT DEF Storable, SizeAsserted
<1>1. n - 1 \in Int /\ 0 <= n - 1 /\ n - 1 <= 65535
  BY <1>0, SMT
<1>2. Hi(n - 1) * 256 + Lo(n - 1) = n - 1
  BY <1>1, TwoBytes, SMT
<1>3. Hi(n - 1) \in 0..255 /\ Lo(n - 1) \in 0..255
  BY <1>1, ByteRange, SMT
<1>4. CASE Lo(n - 1) = 255
  <2>1. n = 256 * (Hi(n - 1) + 1)
    BY <1>2, <1>3, <1>4, SMT
  <2>2. 2 * (Hi(n - 1) \div 2) = Hi(n - 1)
    BY <1>0, <1>3, <2>1, SMT
  <2>3. 2 * (header[3] \div 2) = Hi(n - 1)
    BY <2>2, SMT
  <2>4. (2 * (header[3] \div 2) + 1) * 256 = n
    BY <1>3, <2>1, <2>3, SMT
  <2> QED BY <1>4, <2>4, SMT DEF thinReadPacketDataLength
<1>5. CASE Lo(n - 1) # 255
  BY <1>2, <1>5, SMT DEF thinReadPacketDataLength
<1> QED BY <1>4, <1>5

-----------------------------------------------------------------------------
(* First words *)

\* Type and destination of a default header.
LEMMA DefaultId ==
  ASSUME kind = "DEFAULT", NEW type \in PacketTypes, NEW d \in Apids, NEW header,
         header[1] = writePacketId(type, d)[1], header[2] = writePacketId(type, d)[2]
  PROVE  TypeRead(header) = TypeBit(type) /\ DestinationRead(header) = d
<1> DEFINE t == TypeBit(type)
           id == writePacketId(type, d)
           h  == Hi(d)
<1>1. t \in 0..1
  BY SMT DEF TypeBit
<1>2. id[1] = t * 8 + 16 + (h % 8) * 32 /\ id[2] = Lo(d)
  BY SMT DEF writePacketId
<1>3. h \in 0..7 /\ Lo(d) \in 0..255 /\ h * 256 + Lo(d) = d
  BY SMTT(30) DEF Hi, Lo, Apids, SPACE_PACKET_MAX_APID
<1> HIDE DEF t, id, h
<1>4. id[1] = t * 8 + 16 + h * 32
  BY <1>2, <1>3, SMT
<1>5. (id[1] \div 8) % 2 = t
  BY <1>1, <1>3, <1>4, SMT
<1>6. (id[1] \div 32) % 8 = h
  BY <1>1, <1>3, <1>4, SMT
<1>7. id[2] + 256 * ((id[1] \div 32) % 8) = d
  BY <1>2, <1>3, <1>6, SMT
<1>8. (header[1] \div 8) % 2 = t /\ header[2] + 256 * ((header[1] \div 32) % 8) = d
  BY <1>5, <1>7, SMT DEF id
<1>9. TypeRead(header) = (header[1] \div 8) % 2
  BY SMT DEF TypeRead
<1>10. DestinationRead(header) = header[2] + 256 * ((header[1] \div 32) % 8)
  BY SMT DEF DestinationRead
<1> QED BY <1>8, <1>9, <1>10, SMT DEF t

\* Type and destination of a strict CCSDS header.
LEMMA StrictId ==
  ASSUME kind = "STRICT_CCSDS", NEW type \in PacketTypes, NEW d \in Apids, NEW header,
         header[1] = writeCCSDSPacketId(type, d)[1], header[2] = writeCCSDSPacketId(type, d)[2]
  PROVE  TypeRead(header) = TypeBit(type) /\ DestinationRead(header) = d
<1> DEFINE t == TypeBit(type)
           id == writeCCSDSPacketId(type, d)
           h  == Hi(d)
<1>1. t \in 0..1
  BY SMT DEF TypeBit
<1>2. id[1] = t * 16 + 8 + (h % 8) /\ id[2] = Lo(d)
  BY SMT DEF writeCCSDSPacketId
<1>3. h \in 0..7 /\ Lo(d) \in 0..255 /\ h * 256 + Lo(d) = d
  BY SMTT(30) DEF Hi, Lo, Apids, SPACE_PACKET_MAX_APID
<1> HIDE DEF t, id, h
<1>4. id[1] = t * 16 + 8 + h
  BY <1>2, <1>3, SMT
<1>5. (id[1] \div 16) % 2 = t
  BY <1>1, <1>3, <1>4, SMT
<1>6. id[1] % 8 = h
  BY <1>1, <1>3, <1>4, SMT
<1>7. id[2] + 256 * (id[1] % 8) = d
  BY <1>2, <1>3, <1>6, SMTT(30)
<1>8. (header[1] \div 16) % 2 = t /\ header[2] + 256 * (header[1] % 8) = d
  BY <1>5, <1>7, SMT DEF id
<1>9. TypeRead(header) = (header[1] \div 16) % 2
  BY SMT DEF TypeRead
<1>10. DestinationRead(header) = header[2] + 256 * (header[1] % 8)
  BY SMT DEF DestinationRead
<1> QED BY <1>8, <1>9, <1>10, SMT DEF t

-----------------------------------------------------------------------------
(* Headers *)

\* A request has a destination, a source and a size of the widths the code
\* gives them.
LEMMA RequestRange ==
  ASSUME NEW r \in Requests
  PROVE  /\ r.type \in PacketTypes /\ r.size \in Nat
         /\ r.destination \in Apids /\ r.source \in Uint16 /\ r.data \in Data
BY PacketAssumption, Zenon

\* A number of a packet is one its field holds.
LEMMA CountRange == \A c \in Counts : c \in Int /\ c \in 0..SPACE_PACKET_MAX_PACKET_SEQUENCE_COUNT
<1>1. Counts \subseteq 0..SPACE_PACKET_MAX_PACKET_SEQUENCE_COUNT
  BY PacketAssumption, Zenon
<1>2. \A n \in 0..SPACE_PACKET_MAX_PACKET_SEQUENCE_COUNT : n \in Int
  BY SMTT(30)
<1> QED BY <1>1, <1>2, Zenon

\* The packetizers are three, and what they write is as long as it says.
LEMMA Sizing ==
  ASSUME NEW k \in Packetizers
  PROVE  /\ k \in {"DEFAULT", "STRICT_CCSDS", "THIN"}
         /\ k = "DEFAULT" => HeaderSize(k) = 8 /\ TrailerSize(k) = 4
         /\ k = "STRICT_CCSDS" => HeaderSize(k) = 6 /\ TrailerSize(k) = 2
         /\ k = "THIN" => HeaderSize(k) = 4 /\ TrailerSize(k) = 0
<1>1. k \in {"DEFAULT", "STRICT_CCSDS", "THIN"}
  BY PacketAssumption, Zenon
<1> QED BY <1>1, SMT DEF HeaderSize, TrailerSize

\* The type is a bit, and what of a number goes in beside other fields is as
\* small as they leave room for.
LEMMA PartRange ==
  ASSUME NEW type \in PacketTypes, NEW n \in Int
  PROVE  TypeBit(type) \in 0..1 /\ Hi(n) % 8 \in 0..7 /\ Hi(n) % 64 \in 0..63
<1>1. Hi(n) \in Int
  BY ByteRange, SMT
<1> QED BY <1>1, SMT DEF TypeBit

\* The words of a default header are made of bytes.
LEMMA IdBytes ==
  ASSUME NEW type \in PacketTypes, NEW d \in Int
  PROVE  writePacketId(type, d) \in (0..255) \X (0..255)
<1> DEFINE h == Hi(d) % 8
           t == TypeBit(type)
<1>1. writePacketId(type, d) = <<t * 8 + 16 + h * 32, Lo(d)>>
  BY Zenon DEF writePacketId
<1>2. t \in 0..1 /\ h \in 0..7 /\ Lo(d) \in 0..255
  BY PartRange, ByteRange, Zenon
<1> HIDE DEF h, t
<1> QED BY <1>1, <1>2, SMT

\* The number of a default header fits two bytes.
LEMMA SequenceBytes ==
  ASSUME NEW c \in Int
  PROVE  writePacketSequenceControl(c) \in (0..255) \X (0..255)
<1> DEFINE h == Hi(c) % 64
<1>1. writePacketSequenceControl(c) = <<3 + h * 4, Lo(c)>>
  BY Zenon DEF writePacketSequenceControl
<1>2. h \in 0..63 /\ Lo(c) \in 0..255
  BY PartRange, ByteRange, Zenon DEF PacketTypes
<1> HIDE DEF h
<1> QED BY <1>1, <1>2, SMT

\* The length of a default header fits four bytes.
LEMMA LengthBytes ==
  ASSUME NEW n \in Nat
  PROVE  writePacketDataLength(n) \in (0..255) \X (0..255) \X (0..255) \X (0..255)
<1>1. CASE n = 0
  BY <1>1, SMT DEF writePacketDataLength
<1>2. CASE n # 0
  <2>1. n - 1 \in Int /\ (n - 1) \div 65536 \in Int
    BY SMT
  <2>2. Hi((n - 1) \div 65536) \in 0..255 /\ Lo((n - 1) \div 65536) \in 0..255
    BY <2>1, ByteRange, SMT
  <2>3. Hi(n - 1) \in 0..255 /\ Lo(n - 1) \in 0..255
    BY <2>1, ByteRange, SMT
  <2> QED BY <1>2, <2>2, <2>3, SMT DEF writePacketDataLength
<1> QED BY <1>1, <1>2

\* So are those of a strict CCSDS header.
LEMMA StrictIdBytes ==
  ASSUME NEW type \in PacketTypes, NEW d \in Int
  PROVE  writeCCSDSPacketId(type, d) \in (0..255) \X (0..255)
<1> DEFINE h == Hi(d) % 8
           t == TypeBit(type)
<1>1. writeCCSDSPacketId(type, d) = <<t * 16 + 8 + h, Lo(d)>>
  BY Zenon DEF writeCCSDSPacketId
<1>2. t \in 0..1 /\ h \in 0..7 /\ Lo(d) \in 0..255
  BY PartRange, ByteRange, Zenon
<1> HIDE DEF h, t
<1> QED BY <1>1, <1>2, SMT

\* The number of a strict CCSDS header fits two bytes.
LEMMA StrictSequenceBytes ==
  ASSUME NEW c \in Int
  PROVE  writeCCSDSPacketSequenceControl(c) \in (0..255) \X (0..255)
<1> DEFINE h == Hi(c) % 64
<1>1. writeCCSDSPacketSequenceControl(c) = <<192 + h, Lo(c)>>
  BY Zenon DEF writeCCSDSPacketSequenceControl
<1>2. h \in 0..63 /\ Lo(c) \in 0..255
  BY PartRange, ByteRange, Zenon DEF PacketTypes
<1> HIDE DEF h
<1> QED BY <1>1, <1>2, SMT

\* The length of a strict CCSDS header fits two bytes.
LEMMA StrictLengthBytes ==
  ASSUME NEW n \in Int
  PROVE  writeCCSDSPacketDataLength(n) \in (0..255) \X (0..255)
<1>1. n - 1 \in Int
  BY SMT
<1>2. Hi(n - 1) \in 0..255 /\ Lo(n - 1) \in 0..255
  BY <1>1, ByteRange, SMTT(30)
<1> QED BY <1>2, SMT DEF writeCCSDSPacketDataLength

\* Two pairs, and a third or a quadruple behind them, are six or eight values.
LEMMA SixOrEight ==
  ASSUME NEW S, NEW u \in S \X S, NEW v \in S \X S
  PROVE  /\ \A w \in S \X S : <<u[1], u[2], v[1], v[2], w[1], w[2]>> \in [1..6 -> S]
         /\ \A w \in S \X S \X S \X S :
              <<u[1], u[2], v[1], v[2], w[1], w[2], w[3], w[4]>> \in [1..8 -> S]
<1>1. u[1] \in S /\ u[2] \in S /\ v[1] \in S /\ v[2] \in S
  OBVIOUS
<1>2. ASSUME NEW w \in S \X S
      PROVE  <<u[1], u[2], v[1], v[2], w[1], w[2]>> \in [1..6 -> S]
  BY <1>1
<1>3. ASSUME NEW w \in S \X S \X S \X S
      PROVE  <<u[1], u[2], v[1], v[2], w[1], w[2], w[3], w[4]>> \in [1..8 -> S]
  <2>1. w[1] \in S /\ w[2] \in S /\ w[3] \in S /\ w[4] \in S
    OBVIOUS
  <2> QED BY <1>1, <2>1
<1> QED BY <1>2, <1>3

\* A header is as many bytes as its kind has.
LEMMA HeaderBytes ==
  ASSUME NEW k \in Packetizers, NEW r \in Requests, NEW c \in Int
  PROVE  Header(k, r, c) \in Bytes(HeaderSize(k))
<1>1. /\ r.type \in PacketTypes /\ r.size \in Nat
      /\ r.destination \in Apids /\ r.source \in Uint16
  BY RequestRange, Zenon
<1>2. r.destination \in Int /\ r.size - 1 \in Int /\ r.size + 2 \in Int
  <2>1. \A d \in Apids : d \in Int
    BY SMT DEF Apids, SPACE_PACKET_MAX_APID
  <2>2. \A n \in Nat : n - 1 \in Int /\ n + 2 \in Int
    BY SMT
  <2> QED BY <1>1, <2>1, <2>2, Zenon
<1>3. CASE k = "DEFAULT"
  <2> DEFINE id       == writePacketId(r.type, r.destination)
             sequence == writePacketSequenceControl(c)
             long     == writePacketDataLength(r.size)
  <2>1. /\ id \in (0..255) \X (0..255) /\ sequence \in (0..255) \X (0..255)
        /\ long \in (0..255) \X (0..255) \X (0..255) \X (0..255)
    BY <1>1, <1>2, IdBytes, SequenceBytes, LengthBytes, ZenonT(60)
  <2>2. Header(k, r, c)
          = <<id[1], id[2], sequence[1], sequence[2], long[1], long[2], long[3], long[4]>>
    BY <1>3, SMT DEF Header
  <2>3. HeaderSize(k) = 8
    BY <1>3, Sizing, Zenon
  <2> HIDE DEF id, sequence, long
  <2>4. PICK S : S = 0..255
    OBVIOUS
  <2>5. id \in S \X S /\ sequence \in S \X S /\ long \in S \X S \X S \X S
    BY <2>1, <2>4, Zenon
  <2>6. Header(k, r, c) \in [1..8 -> S]
    BY <2>2, <2>5, SixOrEight
  <2> QED BY <2>3, <2>4, <2>6, Zenon DEF Bytes
<1>4. CASE k = "STRICT_CCSDS"
  <2> DEFINE id       == writeCCSDSPacketId(r.type, r.destination)
             sequence == writeCCSDSPacketSequenceControl(c)
             short    == writeCCSDSPacketDataLength(r.size + 2)
  <2>1. /\ id \in (0..255) \X (0..255) /\ sequence \in (0..255) \X (0..255)
        /\ short \in (0..255) \X (0..255)
    BY <1>1, <1>2, StrictIdBytes, StrictSequenceBytes, StrictLengthBytes, ZenonT(60)
  <2>2. Header(k, r, c) = <<id[1], id[2], sequence[1], sequence[2], short[1], short[2]>>
    BY <1>4, SMT DEF Header
  <2>3. HeaderSize(k) = 6
    BY <1>4, Sizing, Zenon
  <2> HIDE DEF id, sequence, short
  <2>4. PICK S : S = 0..255
    OBVIOUS
  <2>5. id \in S \X S /\ sequence \in S \X S /\ short \in S \X S
    BY <2>1, <2>4, Zenon
  <2>6. Header(k, r, c) \in [1..6 -> S]
    BY <2>2, <2>5, SixOrEight
  <2> QED BY <2>3, <2>4, <2>6, Zenon DEF Bytes
<1>5. CASE k = "THIN"
  <2> DEFINE d1 == Hi(r.destination)
             d2 == Lo(r.destination)
             s1 == Hi(r.size - 1)
             s2 == Lo(r.size - 1)
  <2>1. Header(k, r, c) = <<d1, d2, s1, s2>>
    BY <1>5, SMT DEF Header
  <2>2. d1 \in 0..255 /\ d2 \in 0..255 /\ s1 \in 0..255 /\ s2 \in 0..255
    BY <1>2, ByteRange, Zenon
  <2>3. HeaderSize(k) = 4
    BY <1>5, Sizing, Zenon
  <2> HIDE DEF d1, d2, s1, s2
  <2> QED BY <2>1, <2>2, <2>3, SMT DEF Bytes
<1> QED BY <1>3, <1>4, <1>5, Sizing, Zenon

-----------------------------------------------------------------------------
(* Packets *)

\* What depacketize is to return for a request.
Expected(r) ==
  [ok |-> TRUE, code |-> 0, destination |-> r.destination, dataSize |-> r.size,
   source |-> IF kind = "DEFAULT" THEN r.source ELSE 0]

\* The two bytes of a sender PID.
LEMMA SourceRead ==
  ASSUME NEW s \in Uint16
  PROVE  Lo(s) + 256 * Hi(s) = s
<1> DEFINE l == Lo(s)
           h == Hi(s)
<1>1. s \in Int /\ 0 <= s /\ s <= 65535
  <2>1. UINT16_MAX \in Int
    BY SMT DEF UINT16_MAX
  <2>2. s \in Int /\ 0 <= s /\ s <= UINT16_MAX
    BY <2>1, SMT DEF Uint16
  <2> QED BY <2>2, SMT DEF UINT16_MAX
<1>2. h * 256 + l = s
  BY <1>1, TwoBytes, SMT
<1>3. l \in 0..255 /\ h \in 0..255
  BY <1>1, ByteRange, SMT
<1> HIDE DEF l, h
<1>4. l + 256 * h = s
  BY <1>2, <1>3, SMT
<1> QED BY <1>4 DEF l, h

\* Comparing the high halves of the length first makes no difference.
LEMMA SaysSize ==
  ASSUME kind \in Packetizers, NEW h \in Bytes(HeaderSize(kind)), NEW n \in Nat
  PROVE  Says(h, n) <=> SizeRead(h) = n
<1>1. CASE kind = "DEFAULT" /\ ~IsEmpty(h)
  <2>1. h \in [1..8 -> 0..255]
    BY <1>1, Sizing, Zenon DEF Bytes
  <2>2. h[5] \in 0..255 /\ h[6] \in 0..255 /\ h[7] \in 0..255 /\ h[8] \in 0..255
    BY <2>1, SMT
  <2>3. /\ SizeRead(h) = 8 + (h[5] * 16777216 + h[6] * 65536 + h[7] * 256 + h[8] + 1) + 4
        /\ HeaderSize(kind) = 8 /\ TrailerSize(kind) = 4
    BY <1>1, SMT DEF SizeRead, readPacketDataLength, HeaderSize, TrailerSize
  <2>4. ASSUME SizeRead(h) = n
        PROVE  h[5] * 256 + h[6] = (n - HeaderSize(kind) - TrailerSize(kind) - 1) \div (UINT16_MAX + 1)
    <3> DEFINE w == h[5]
               x == h[6]
               y == h[7]
               z == h[8]
    <3>1. w \in 0..255 /\ x \in 0..255 /\ y \in 0..255 /\ z \in 0..255
      BY <2>2
    <3>2. n = 8 + (w * 16777216 + x * 65536 + y * 256 + z + 1) + 4
      BY <2>3, <2>4
    <3> HIDE DEF w, x, y, z
    <3>3. n - 8 - 4 - 1 = w * 16777216 + x * 65536 + y * 256 + z /\ n - 8 - 4 - 1 \in Int
      BY <3>1, <3>2, SMT
    <3>4. w * 256 + x = (n - 8 - 4 - 1) \div (UINT16_MAX + 1)
      <4>1. PICK m \in Int : m = n - 8 - 4 - 1
        BY <3>3, SMT
      <4>2. m = w * 16777216 + x * 65536 + y * 256 + z
        BY <3>3, <4>1, SMT
      <4>3. w * 256 + x = m \div 65536
        BY <3>1, <4>1, <4>2, SMTT(30)
      <4> QED BY <4>1, <4>3, SMT DEF UINT16_MAX
    <3> QED BY <2>3, <3>4, SMT DEF w, x
  <2> QED BY <2>4, Zenon DEF Says
<1>2. CASE ~(kind = "DEFAULT" /\ ~IsEmpty(h))
  BY <1>2, Zenon DEF Says
<1> QED BY <1>1, <1>2

\* A packet whose size, checksum and type are right is accepted as a whole.
LEMMA RightIsAccepted ==
  ASSUME kind \in Packetizers, NEW r \in Requests, NEW c \in Int,
         ~TooSmall(Packet(kind, r, c)),
         Packet(kind, r, c).size = SizeRead(Header(kind, r, c)),
         TypeRead(Header(kind, r, c)) = TypeBit(ExpectedType)
  PROVE  Depacketized(Packet(kind, r, c)) = Accepted(Packet(kind, r, c))
<1>1. /\ Packet(kind, r, c).header = Header(kind, r, c)
      /\ Packet(kind, r, c).checksum
           = Checksum(kind, Packet(kind, r, c).header, Packet(kind, r, c).data)
      /\ Packet(kind, r, c).size = HeaderSize(kind) + r.size + TrailerSize(kind)
  BY SMT DEF Packet
<1>2. Packet(kind, r, c).size \in Nat
  <2>1. r.size \in Nat
    BY RequestRange, Zenon
  <2>2. HeaderSize(kind) \in Nat /\ TrailerSize(kind) \in Nat
    BY Sizing, SMT
  <2> QED BY <1>1, <2>1, <2>2, SMT
<1>3. Says(Header(kind, r, c), Packet(kind, r, c).size)
  BY <1>2, HeaderBytes, SaysSize, Zenon
<1> QED BY <1>1, <1>3, Zenon DEF Depacketized

\* The default packet of a request is accepted as what was asked for.
LEMMA DefaultRoundTrip ==
  ASSUME kind \in Packetizers, kind = "DEFAULT", NEW r \in Requests, NEW c \in Int,
         Storable(kind, r.size), r.type = ExpectedType
  PROVE  Depacketized(Packet(kind, r, c)) = Expected(r)
<1> DEFINE p == Packet(kind, r, c)
           h == Header(kind, r, c)
<1>1. /\ r.type \in PacketTypes /\ r.size \in Nat
      /\ r.destination \in Apids /\ r.source \in Uint16
  BY RequestRange, Zenon
<1>2. /\ h[1] = writePacketId(r.type, r.destination)[1]
      /\ h[2] = writePacketId(r.type, r.destination)[2]
      /\ h[5] = writePacketDataLength(r.size)[1] /\ h[6] = writePacketDataLength(r.size)[2]
      /\ h[7] = writePacketDataLength(r.size)[3] /\ h[8] = writePacketDataLength(r.size)[4]
  BY SMT DEF Header
<1>3. p.header = h /\ p.size = 12 + r.size
  <2>1. p.header = h /\ p.size = HeaderSize(kind) + r.size + TrailerSize(kind)
    BY SMT DEF Packet
  <2>2. HeaderSize(kind) = 8 /\ TrailerSize(kind) = 4
    BY SMT DEF HeaderSize, TrailerSize
  <2>3. 8 + r.size + 4 = 12 + r.size
    BY <1>1, SMT
  <2> QED BY <2>1, <2>2, <2>3, Zenon
<1>4. p.pid[1] = Hi(r.source) /\ p.pid[2] = Lo(r.source)
  BY SMT DEF Packet
<1> HIDE DEF h
<1>5. readPacketDataLength(h) = r.size
  <2>1. Storable("DEFAULT", r.size)
    BY Zenon
  <2> QED BY <1>1, <1>2, <2>1, DefaultLength, Zenon
<1>6. SizeRead(h) = 12 + r.size /\ SizeRead(h) - HeaderSize(kind) - TrailerSize(kind) = r.size
  <2>1. SizeRead(h) = 8 + r.size + 4 /\ HeaderSize(kind) = 8 /\ TrailerSize(kind) = 4
    BY <1>5, SMT DEF SizeRead, HeaderSize, TrailerSize
  <2>2. 8 + r.size + 4 = 12 + r.size
    BY <1>1, SMT
  <2>3. SizeRead(h) - HeaderSize(kind) - TrailerSize(kind) = r.size
    BY <1>1, <2>1, SMT
  <2> QED BY <2>1, <2>2, <2>3, Zenon
<1>7. ~TooSmall(p)
  <2>1. TooSmall(p) <=> p.size < 12
    BY SMT DEF TooSmall, HeaderSize, TrailerSize
  <2>2. ~(12 + r.size < 12)
    BY <1>1, SMT
  <2> QED BY <1>3, <2>1, <2>2, Zenon
<1>8. TypeRead(h) = TypeBit(ExpectedType) /\ DestinationRead(h) = r.destination
  BY <1>1, <1>2, DefaultId, Zenon
<1>9. p.pid[2] + 256 * p.pid[1] = r.source
  BY <1>1, <1>4, SourceRead, ZenonT(60)
<1>10. Depacketized(p) = Accepted(p)
  BY <1>3, <1>6, <1>7, <1>8, RightIsAccepted, Zenon DEF h
<1> QED BY <1>3, <1>6, <1>8, <1>9, <1>10, Zenon DEF Accepted, Expected

\* So is the strict CCSDS packet, which carries no source.
LEMMA StrictRoundTrip ==
  ASSUME kind \in Packetizers, kind = "STRICT_CCSDS", NEW r \in Requests, NEW c \in Int,
         Storable(kind, r.size), SizeAsserted(kind, r.size), r.type = ExpectedType
  PROVE  Depacketized(Packet(kind, r, c)) = Expected(r)
<1> DEFINE p == Packet(kind, r, c)
           h == Header(kind, r, c)
<1>1. /\ r.type \in PacketTypes /\ r.size \in Nat
      /\ r.destination \in Apids /\ r.source \in Uint16
  BY RequestRange, Zenon
<1>2. /\ h[1] = writeCCSDSPacketId(r.type, r.destination)[1]
      /\ h[2] = writeCCSDSPacketId(r.type, r.destination)[2]
      /\ h[5] = writeCCSDSPacketDataLength(r.size + 2)[1]
      /\ h[6] = writeCCSDSPacketDataLength(r.size + 2)[2]
  BY SMT DEF Header
<1>3. p.header = h /\ p.size = 8 + r.size
  <2>1. p.header = h /\ p.size = HeaderSize(kind) + r.size + TrailerSize(kind)
    BY SMT DEF Packet
  <2>2. HeaderSize(kind) = 6 /\ TrailerSize(kind) = 2
    BY SMT DEF HeaderSize, TrailerSize
  <2>3. 6 + r.size + 2 = 8 + r.size
    BY <1>1, SMT
  <2> QED BY <2>1, <2>2, <2>3, Zenon
<1> HIDE DEF h
<1>4. readCCSDSPacketDataLength(h) = r.size + 2
  <2>1. Storable("STRICT_CCSDS", r.size)
    BY Zenon
  <2> QED BY <1>1, <1>2, <2>1, StrictLength, Zenon
<1>5. SizeRead(h) = 8 + r.size /\ SizeRead(h) - HeaderSize(kind) - TrailerSize(kind) = r.size
  <2>1. SizeRead(h) = 6 + (r.size + 2) /\ HeaderSize(kind) = 6 /\ TrailerSize(kind) = 2
    BY <1>4, SMT DEF SizeRead, HeaderSize, TrailerSize
  <2>2. 6 + (r.size + 2) = 8 + r.size
    BY <1>1, SMT
  <2>3. SizeRead(h) - HeaderSize(kind) - TrailerSize(kind) = r.size
    BY <1>1, <2>1, SMT
  <2> QED BY <2>1, <2>2, <2>3, Zenon
<1>6. ~TooSmall(p)
  <2>1. TooSmall(p) <=> p.size <= 8
    BY SMT DEF TooSmall, HeaderSize, TrailerSize
  <2>2. 1 <= r.size
    BY SMT DEF SizeAsserted
  <2>3. ~(8 + r.size <= 8)
    BY <1>1, <2>2, SMT
  <2> QED BY <1>3, <2>1, <2>3, Zenon
<1>7. TypeRead(h) = TypeBit(ExpectedType) /\ DestinationRead(h) = r.destination
  BY <1>1, <1>2, StrictId, Zenon
<1>8. Depacketized(p) = Accepted(p)
  BY <1>3, <1>5, <1>6, <1>7, RightIsAccepted, Zenon DEF h
<1> QED BY <1>3, <1>5, <1>7, <1>8, Zenon DEF Accepted, Expected

\* And the thin packet, which carries no type either.
LEMMA ThinRoundTrip ==
  ASSUME kind \in Packetizers, kind = "THIN", NEW r \in Requests, NEW c \in Int,
         Storable(kind, r.size), SizeAsserted(kind, r.size)
  PROVE  Depacketized(Packet(kind, r, c)) = Expected(r)
<1> DEFINE p == Packet(kind, r, c)
           h == Header(kind, r, c)
<1>1. r.size \in Nat /\ r.destination \in Apids
  BY RequestRange, Zenon
<1>2. /\ h[1] = Hi(r.destination) /\ h[2] = Lo(r.destination)
      /\ h[3] = Hi(r.size - 1) /\ h[4] = Lo(r.size - 1)
  BY SMT DEF Header
<1>3. p.header = h /\ p.size = 4 + r.size
  <2>1. p.header = h /\ p.size = HeaderSize(kind) + r.size + TrailerSize(kind)
    BY SMT DEF Packet
  <2>2. HeaderSize(kind) = 4 /\ TrailerSize(kind) = 0
    BY SMT DEF HeaderSize, TrailerSize
  <2>3. 4 + r.size + 0 = 4 + r.size
    BY <1>1, SMT
  <2> QED BY <2>1, <2>2, <2>3, Zenon
<1> HIDE DEF h
<1>4. thinReadPacketDataLength(h) = r.size
  <2>1. Storable("THIN", r.size) /\ SizeAsserted("THIN", r.size)
    BY Zenon
  <2> QED BY <1>1, <1>2, <2>1, ThinLength, Zenon
<1>5. SizeRead(h) = 4 + r.size /\ SizeRead(h) - HeaderSize(kind) - TrailerSize(kind) = r.size
  <2>1. SizeRead(h) = 4 + r.size /\ HeaderSize(kind) = 4 /\ TrailerSize(kind) = 0
    BY <1>4, SMT DEF SizeRead, HeaderSize, TrailerSize
  <2>2. SizeRead(h) - HeaderSize(kind) - TrailerSize(kind) = r.size
    BY <1>1, <2>1, SMT
  <2> QED BY <2>1, <2>2, Zenon
<1>6. ~TooSmall(p)
  <2>1. TooSmall(p) <=> p.size < 4
    BY SMT DEF TooSmall, HeaderSize, TrailerSize
  <2>2. ~(4 + r.size < 4)
    BY <1>1, SMT
  <2> QED BY <1>3, <2>1, <2>2, Zenon
<1>7. TypeRead(h) = TypeBit(ExpectedType)
  BY SMT DEF TypeRead
<1>8. DestinationRead(h) = r.destination
  <2>1. DestinationRead(h) = h[2] + 256 * h[1]
    BY SMT DEF DestinationRead
  <2>2. \A d \in Apids : d \in Uint16
    <3>1. UINT16_MAX \in Int /\ SPACE_PACKET_MAX_APID \in Int /\ SPACE_PACKET_MAX_APID <= UINT16_MAX
      BY SMT DEF UINT16_MAX, SPACE_PACKET_MAX_APID
    <3> QED BY <3>1, SMT DEF Apids, Uint16
  <2>3. Lo(r.destination) + 256 * Hi(r.destination) = r.destination
    BY <1>1, <2>2, SourceRead, Zenon
  <2> QED BY <1>2, <2>1, <2>3, SMT
<1>9. Depacketized(p) = Accepted(p)
  BY <1>3, <1>5, <1>6, <1>7, RightIsAccepted, Zenon DEF h
<1> QED BY <1>3, <1>5, <1>8, <1>9, Zenon DEF Accepted, Expected

-----------------------------------------------------------------------------
(* The theorem *)

\* A counter stays in the range of its field.
LEMMA BumpRange ==
  ASSUME NEW n \in 0..SPACE_PACKET_MAX_PACKET_SEQUENCE_COUNT
  PROVE  Table!Bump(n, SPACE_PACKET_MAX_PACKET_SEQUENCE_COUNT)
           \in 0..SPACE_PACKET_MAX_PACKET_SEQUENCE_COUNT
<1>1. SPACE_PACKET_MAX_PACKET_SEQUENCE_COUNT \in Nat
  BY SMT DEF SPACE_PACKET_MAX_PACKET_SEQUENCE_COUNT
<1>2. ASSUME NEW max \in Nat, NEW m \in 0..max PROVE Table!Bump(m, max) \in 0..max
  BY <1>2, SMT DEF Table!Bump
<1> QED BY <1>1, <1>2, Zenon

\* What is known of a packet on its way, and of the answer about one that
\* arrived unharmed.
PacketInv ==
  /\ kind \in Packetizers /\ packetSequenceCount \in 0..SPACE_PACKET_MAX_PACKET_SEQUENCE_COUNT
  /\ packet # NONE => sent \in Requests /\ SizeAsserted(kind, sent.size)
  /\ packet # NONE /\ fault = "none" => \E c \in Int : packet = Packet(kind, sent, c)
  /\ result # NONE => packet # NONE
  /\ result # NONE => result = Depacketized(packet)

\* PacketInv holds at the start.
LEMMA PacketInvInit == Init => PacketInv
BY PacketAssumption, Zenon DEF Init, PacketInv

\* Every step keeps it: a packet is written whole by one call, the line says
\* when it has touched it, and nothing happens behind depacketize.
LEMMA PacketInvNext == PacketInv /\ [Next]_vars => PacketInv'
<1> SUFFICES ASSUME PacketInv, [Next]_vars PROVE PacketInv'
  OBVIOUS
<1>1. ASSUME NEW r \in Requests, packetize(r) PROVE PacketInv'
  <2>1. packet = NONE /\ result = NONE
    BY <1>1, Zenon DEF packetize, PacketInv
  <2>2. /\ kind' = kind /\ sent' = r /\ packet' = Packet(kind, r, packetSequenceCount)
        /\ result' = result /\ SizeAsserted(kind, r.size)
    BY <1>1, Zenon DEF packetize
  <2>3. kind' \in Packetizers /\ sent' \in Requests /\ SizeAsserted(kind', sent'.size)
    BY <2>2, Zenon DEF PacketInv
  <2>4. packet' = Packet(kind', sent', packetSequenceCount)
    BY <2>2, Zenon
  <2>5. \E c \in Int : packet' = Packet(kind', sent', c)
    <3>1. packetSequenceCount \in Int
      <4>1. \A n \in 0..SPACE_PACKET_MAX_PACKET_SEQUENCE_COUNT : n \in Int
        BY SMTT(30) DEF SPACE_PACKET_MAX_PACKET_SEQUENCE_COUNT
      <4> QED BY <4>1, Zenon DEF PacketInv
    <3> QED BY <2>4, <3>1, Zenon
  <2>6. packetSequenceCount' \in 0..SPACE_PACKET_MAX_PACKET_SEQUENCE_COUNT
    BY <1>1, BumpRange, Zenon DEF packetize, PacketInv
  <2> QED BY <2>1, <2>2, <2>3, <2>5, <2>6, Zenon DEF PacketInv
<1>2. ASSUME Damage PROVE PacketInv'
  <2>1. /\ packet # NONE /\ result = NONE /\ kind' = kind /\ sent' = sent /\ result' = result
        /\ packetSequenceCount' = packetSequenceCount
    BY <1>2, Zenon DEF Damage
  <2>2. fault' # "none"
    <3>1. DamageHeader => fault' \in {"header", "unsure"}
      BY Zenon DEF DamageHeader, Damaged
    <3>2. DamageData => fault' \in {"data", "unsure"}
      BY Zenon DEF DamageData, Damaged
    <3>3. DamageTrailer => fault' \in {"pid", "checksum"}
      BY Zenon DEF DamageTrailer, Damaged
    <3>4. DamageSize => fault' = "size"
      BY Zenon DEF DamageSize, Damaged
    <3> QED BY <1>2, <3>1, <3>2, <3>3, <3>4, Zenon DEF Damage
  <2>3. sent' \in Requests /\ SizeAsserted(kind', sent'.size) /\ kind' \in Packetizers
    BY <2>1, Zenon DEF PacketInv
  <2> QED BY <2>1, <2>2, <2>3, Zenon DEF PacketInv
<1>3. ASSUME depacketize PROVE PacketInv'
  <2>1. /\ packet # NONE /\ result' = Depacketized(packet)
        /\ kind' = kind /\ sent' = sent /\ packet' = packet /\ fault' = fault
        /\ packetSequenceCount' = packetSequenceCount
    BY <1>3, Zenon DEF depacketize
  <2>2. Depacketized(packet)' = Depacketized(packet)
    BY <2>1, ZenonT(60) DEF Depacketized, TooSmall, Says, SizeRead, TypeRead, Accepted, DestinationRead
  <2> QED BY <2>1, <2>2, Zenon DEF PacketInv
<1>4. CASE UNCHANGED vars
  <2>1. /\ kind' = kind /\ sent' = sent /\ packet' = packet /\ fault' = fault
        /\ result' = result /\ packetSequenceCount' = packetSequenceCount
    BY <1>4, Zenon DEF vars
  <2>2. Depacketized(packet)' = Depacketized(packet)
    BY <2>1, ZenonT(60) DEF Depacketized, TooSmall, Says, SizeRead, TypeRead, Accepted, DestinationRead
  <2> QED BY <2>1, <2>2, Zenon DEF PacketInv
<1> QED BY <1>1, <1>2, <1>3, <1>4, Zenon DEF Next

\* What one end writes the other reads.
LEMMA PacketInvReceived == PacketInv => SentIsReceived
<1> SUFFICES ASSUME PacketInv, result # NONE, fault = "none", Storable(kind, sent.size),
                    kind # "THIN" => sent.type = ExpectedType
             PROVE  result = Expected(sent)
  BY Zenon DEF SentIsReceived, Expected
<1>1. /\ kind \in Packetizers /\ sent \in Requests /\ SizeAsserted(kind, sent.size)
      /\ result = Depacketized(packet)
  BY Zenon DEF PacketInv
<1>2. PICK c \in Int : packet = Packet(kind, sent, c)
  BY Zenon DEF PacketInv
<1>3. kind \in {"DEFAULT", "STRICT_CCSDS", "THIN"}
  BY <1>1, PacketAssumption, Zenon
<1>4. CASE kind = "DEFAULT"
  BY <1>1, <1>2, <1>4, DefaultRoundTrip, Zenon
<1>5. CASE kind = "STRICT_CCSDS"
  BY <1>1, <1>2, <1>5, StrictRoundTrip, Zenon
<1>6. CASE kind = "THIN"
  BY <1>1, <1>2, <1>6, ThinRoundTrip, Zenon
<1> QED BY <1>3, <1>4, <1>5, <1>6, Zenon

\* A packet that arrives unharmed, of a size its header can hold, is accepted
\* with the destination, size and source of its request, for every request.
THEOREM Received == Spec => []SentIsReceived
<1>1. Spec => []PacketInv
  BY PacketInvInit, PacketInvNext, PTL DEF Spec
<1> QED BY <1>1, PacketInvReceived, PTL

-----------------------------------------------------------------------------
(* Types *)

\* The checksum of a packet has two bytes.
LEMMA ChecksumBytes ==
  ASSUME NEW k \in Packetizers, NEW r \in Requests, NEW c \in Counts, SizeAsserted(k, r.size)
  PROVE  /\ k = "THIN" => Checksum(k, Header(k, r, c), r.data) = NONE
         /\ k # "THIN" => Checksum(k, Header(k, r, c), r.data) \in Bytes(2)
<1>1. k = "THIN" => Checksum(k, Header(k, r, c), r.data) = NONE
  BY SMT DEF Checksum
<1>2. ASSUME k # "THIN" PROVE Checksum(k, Header(k, r, c), r.data) \in Bytes(2)
  <2>1. (IF k = "DEFAULT" THEN writeCrc(Header(k, r, c), r.data)
         ELSE writeChecksum(Header(k, r, c), r.data)) \in Bytes(2)
    BY <1>2, ChecksumAssumption, Zenon
  <2>2. k \in {"DEFAULT", "STRICT_CCSDS"}
    BY <1>2, Sizing, Zenon
  <2> QED BY <2>1, <2>2, SMT DEF Checksum
<1> QED BY <1>1, <1>2

\* What packetize writes is a packet.
LEMMA PacketTyped ==
  ASSUME NEW k \in Packetizers, NEW r \in Requests, NEW c \in Counts, SizeAsserted(k, r.size)
  PROVE  Packet(k, r, c) \in Packets(k)
<1> DEFINE h == Header(k, r, c)
           p == Packet(k, r, c)
<1>1. h \in Bytes(HeaderSize(k)) /\ r.data \in Data
  BY CountRange, HeaderBytes, RequestRange, Zenon
<1>2. Checksum(k, h, r.data) \in (IF k = "THIN" THEN {NONE} ELSE Bytes(2))
  BY ChecksumBytes, Zenon
<1>3. HeaderSize(k) + r.size + TrailerSize(k) \in Nat
  <2>1. HeaderSize(k) \in Nat /\ TrailerSize(k) \in Nat
    BY Sizing, SMT
  <2>2. r.size \in Nat
    BY RequestRange, Zenon
  <2> QED BY <2>1, <2>2, SMT
<1>4. k = "DEFAULT" => <<Hi(r.source), Lo(r.source)>> \in Bytes(2)
  <2>1. Hi(r.source) \in 0..255 /\ Lo(r.source) \in 0..255
    <3>1. r.source \in Int
      <4>1. \A s \in Uint16 : s \in Int
        <5>1. UINT16_MAX \in Int
          BY SMT DEF UINT16_MAX
        <5> QED BY <5>1, SMT DEF Uint16
      <4> QED BY <4>1, RequestRange, Zenon
    <3> QED BY <3>1, ByteRange, ZenonT(60)
  <2> QED BY <2>1, SMTT(60) DEF Bytes
<1> HIDE DEF h
<1> DEFINE pid == IF k = "DEFAULT" THEN <<Hi(r.source), Lo(r.source)>> ELSE NONE
           n   == HeaderSize(k) + r.size + TrailerSize(k)
<1>5. p = [header |-> h, data |-> r.data, pid |-> pid, checksum |-> Checksum(k, h, r.data), size |-> n]
  BY Zenon DEF Packet, h
<1>6. pid \in (IF k = "DEFAULT" THEN Bytes(2) ELSE {NONE})
  BY <1>4, Zenon
<1> HIDE DEF p, pid, n
<1> QED BY <1>1, <1>2, <1>3, <1>5, <1>6, SMT DEF Packets, p, n

\* What a hit makes of a byte is a byte, and another one.
LEMMA HitByte ==
  ASSUME NEW b \in 0..255, NEW x \in Hits(b)
  PROVE  x \in 0..255 /\ x # b
<1>1. CASE x \in {255 - b}
  BY <1>1, SMT
<1>2. ASSUME NEW bit \in {1, 2, 4, 8, 16, 32, 64, 128},
             x = IF (b \div bit) % 2 = 0 THEN b + bit ELSE b - bit
      PROVE  x \in 0..255 /\ x # b
  <2>1. CASE bit = 1   BY <1>2, <2>1, SMT
  <2>2. CASE bit = 2   BY <1>2, <2>2, SMT
  <2>3. CASE bit = 4   BY <1>2, <2>3, SMT
  <2>4. CASE bit = 8   BY <1>2, <2>4, SMT
  <2>5. CASE bit = 16  BY <1>2, <2>5, SMT
  <2>6. CASE bit = 32  BY <1>2, <2>6, SMT
  <2>7. CASE bit = 64  BY <1>2, <2>7, SMT
  <2>8. CASE bit = 128 BY <1>2, <2>8, SMT
  <2> QED BY <2>1, <2>2, <2>3, <2>4, <2>5, <2>6, <2>7, <2>8
<1> QED BY <1>1, <1>2, Zenon DEF Hits

\* So does one in a row of bytes.
LEMMA HitIn ==
  ASSUME NEW n \in Nat, NEW h \in Bytes(n), NEW j \in 1..n, NEW b \in Hits(h[j])
  PROVE  [h EXCEPT ![j] = b] \in Bytes(n) /\ [h EXCEPT ![j] = b] # h
<1>1. h \in [1..n -> 0..255]
  BY Zenon DEF Bytes
<1>2. h[j] \in 0..255
  BY <1>1, Zenon
<1>3. b \in 0..255 /\ b # h[j]
  BY <1>2, HitByte, Zenon
<1>4. [h EXCEPT ![j] = b] \in [1..n -> 0..255]
  BY <1>1, <1>3, Zenon
<1>5. [h EXCEPT ![j] = b][j] = b
  BY <1>1, Zenon
<1> QED BY <1>3, <1>4, <1>5, Zenon DEF Bytes

\* What the line made of a header h, data d, checksum sum and size n: q, as the
\* fault f says.
Made(k, f, h, d, sum, n, q) ==
  /\ f \in {"none", "header", "data", "pid", "checksum", "size", "unsure"}
  /\ f = "header" => \E j \in 1..HeaderSize(k) : \E b \in Hits(h[j]) :
       Telling(k, h[j], b) /\ q.header = [h EXCEPT ![j] = b]
  /\ f = "unsure" => \/ q.header = h
                     \/ \E j \in 1..HeaderSize(k) : \E b \in Hits(h[j]) :
                          ~Telling(k, h[j], b) /\ q.header = [h EXCEPT ![j] = b]
  /\ f \notin {"header", "unsure"} => q.header = h
  /\ f = "data" => k # "THIN" /\ <<d, q.data>> \in Bursts[k]
  /\ f \notin {"data", "unsure"} => q.data = d
  /\ f = "checksum" => k # "THIN" /\ q.checksum # sum
  /\ f # "checksum" => q.checksum = sum
  /\ f = "size" => q.size # n
  /\ f # "size" => q.size = n

Differs(k, f, p, q) == Made(k, f, p.header, p.data, p.checksum, p.size, q)

\* What the line leaves of a packet is a packet, damaged as the fault says.
LEMMA DamagedPacket ==
  ASSUME TypeOK, packet # NONE, DamageHeader \/ DamageData \/ DamageTrailer \/ DamageSize
  PROVE  packet' \in Packets(kind) /\ fault = "none" /\ Differs(kind, fault', packet, packet')
<1>1. packet \in Packets(kind) /\ kind \in Packetizers
  BY Zenon DEF TypeOK
<1>2. /\ packet.header \in Bytes(HeaderSize(kind)) /\ packet.data \in Data /\ packet.size \in Nat
      /\ packet.pid \in (IF kind = "DEFAULT" THEN Bytes(2) ELSE {NONE})
      /\ packet.checksum \in (IF kind = "THIN" THEN {NONE} ELSE Bytes(2))
  BY <1>1, Zenon DEF Packets
<1>3. packet = [header |-> packet.header, data |-> packet.data, pid |-> packet.pid,
                checksum |-> packet.checksum, size |-> packet.size]
  BY <1>1, Zenon DEF Packets
<1>4. CASE DamageHeader
  <2>0. PICK j \in 1..HeaderSize(kind) :
          \E b \in Hits(packet.header[j]) :
            Damaged([packet EXCEPT !.header[j] = b],
                    IF Telling(kind, packet.header[j], b) THEN "header" ELSE "unsure")
    BY <1>4, Zenon DEF DamageHeader
  <2>1. PICK b \in Hits(packet.header[j]) :
          Damaged([packet EXCEPT !.header[j] = b],
                  IF Telling(kind, packet.header[j], b) THEN "header" ELSE "unsure")
    BY <2>0
  <2> DEFINE h == [packet.header EXCEPT ![j] = b]
  <2>3. HeaderSize(kind) \in Nat
    BY <1>1, Sizing, SMT
  <2>4. h \in Bytes(HeaderSize(kind))
    BY <1>2, <2>0, <2>1, <2>3, HitIn, Zenon
  <2>5. /\ packet' = [packet EXCEPT !.header = h] /\ fault = "none"
        /\ \/ fault' = "header" /\ Telling(kind, packet.header[j], b)
           \/ fault' = "unsure" /\ ~Telling(kind, packet.header[j], b)
    BY <2>1, Zenon DEF Damaged
  <2>8. PICK g : g = h
    OBVIOUS
  <2>6. packet' = [header |-> g, data |-> packet.data, pid |-> packet.pid,
                   checksum |-> packet.checksum, size |-> packet.size]
    BY <1>3, <2>5, <2>8, SMT
  <2>7. packet' \in Packets(kind)
    BY <1>2, <2>4, <2>6, <2>8, SMT DEF Packets
  <2>9. /\ packet'.header = [packet.header EXCEPT ![j] = b] /\ packet'.data = packet.data
        /\ packet'.checksum = packet.checksum /\ packet'.size = packet.size
    BY <2>6, <2>8, SMT
  <2> QED BY <2>0, <2>1, <2>5, <2>7, <2>9, Zenon DEF Differs, Made
<1>5. CASE DamageData
  <2>1. PICK d \in Data :
          /\ packet' = [packet EXCEPT !.data = d] /\ fault = "none"
          /\ \/ fault' = "data" /\ kind # "THIN" /\ <<packet.data, d>> \in Bursts[kind]
             \/ fault' = "unsure"
    BY <1>5, Zenon DEF DamageData, Damaged
  <2>2. packet' = [header |-> packet.header, data |-> d, pid |-> packet.pid,
                   checksum |-> packet.checksum, size |-> packet.size]
    BY <1>3, <2>1, SMT
  <2>3. packet' \in Packets(kind)
    BY <1>2, <2>2, SMT DEF Packets
  <2>4. /\ packet'.header = packet.header /\ packet'.data = d
        /\ packet'.checksum = packet.checksum /\ packet'.size = packet.size
    BY <2>2, SMT
  <2> QED BY <2>1, <2>3, <2>4, Zenon DEF Differs, Made
<1>6. CASE DamageTrailer
  <2>0. PICK j \in 1..2 :
          \/ kind = "DEFAULT" /\ \E b \in Hits(packet.pid[j]) : Damaged([packet EXCEPT !.pid[j] = b], "pid")
          \/ kind # "THIN" /\ \E b \in Hits(packet.checksum[j]) : Damaged([packet EXCEPT !.checksum[j] = b], "checksum")
    BY <1>6, Zenon DEF DamageTrailer
  <2>1. CASE kind = "DEFAULT" /\ \E b \in Hits(packet.pid[j]) : Damaged([packet EXCEPT !.pid[j] = b], "pid")
    <3>1. PICK b \in Hits(packet.pid[j]) :
            packet' = [packet EXCEPT !.pid[j] = b] /\ fault = "none" /\ fault' = "pid"
      BY <2>1, Zenon DEF Damaged
    <3>2. PICK pid : pid = [packet.pid EXCEPT ![j] = b]
      OBVIOUS
    <3>3. packet.pid \in Bytes(2)
      BY <1>2, <2>1, Zenon
    <3>4. pid \in Bytes(2)
      BY <2>0, <3>1, <3>2, <3>3, HitIn, SMT
    <3>5. packet' = [packet EXCEPT !.pid = pid]
      BY <3>1, <3>2, Zenon
    <3>6. packet' = [header |-> packet.header, data |-> packet.data, pid |-> pid,
                     checksum |-> packet.checksum, size |-> packet.size]
      BY <1>3, <3>5, SMT
    <3>7. packet' \in Packets(kind)
      BY <1>2, <2>1, <3>4, <3>6, SMT DEF Packets
    <3>8. /\ packet'.header = packet.header /\ packet'.data = packet.data
          /\ packet'.checksum = packet.checksum /\ packet'.size = packet.size
      BY <3>6, SMT
    <3> QED BY <3>1, <3>7, <3>8, Zenon DEF Differs, Made
  <2>2. CASE /\ kind # "THIN"
             /\ \E b \in Hits(packet.checksum[j]) : Damaged([packet EXCEPT !.checksum[j] = b], "checksum")
    <3>1. PICK b \in Hits(packet.checksum[j]) :
            packet' = [packet EXCEPT !.checksum[j] = b] /\ fault = "none" /\ fault' = "checksum"
      BY <2>2, Zenon DEF Damaged
    <3>2. PICK sum : sum = [packet.checksum EXCEPT ![j] = b]
      OBVIOUS
    <3>3. packet.checksum \in Bytes(2)
      BY <1>2, <2>2, Zenon
    <3>4. sum \in Bytes(2) /\ sum # packet.checksum
      <4>1. 2 \in Nat
        BY SMT
      <4> QED BY <2>0, <3>1, <3>2, <3>3, <4>1, HitIn, Zenon
    <3>5. packet' = [packet EXCEPT !.checksum = sum]
      BY <3>1, <3>2, Zenon
    <3>6. packet' = [header |-> packet.header, data |-> packet.data, pid |-> packet.pid,
                     checksum |-> sum, size |-> packet.size]
      BY <1>3, <3>5, SMT
    <3>7. packet' \in Packets(kind)
      BY <1>2, <2>2, <3>4, <3>6, SMT DEF Packets
    <3>8. /\ packet'.header = packet.header /\ packet'.data = packet.data
          /\ packet'.checksum # packet.checksum /\ packet'.size = packet.size
      BY <3>4, <3>6, SMT
    <3> QED BY <2>2, <3>1, <3>7, <3>8, Zenon DEF Differs, Made
  <2> QED BY <2>0, <2>1, <2>2
<1>7. CASE DamageSize
  <2>1. PICK n \in {0, HeaderSize(kind) - 1, HeaderSize(kind) + TrailerSize(kind) - 1,
                    packet.size - 1, packet.size + 1} :
          n # packet.size /\ n >= 0 /\ Damaged([packet EXCEPT !.size = n], "size")
    BY <1>7, Zenon DEF DamageSize
  <2>2. HeaderSize(kind) \in Int /\ TrailerSize(kind) \in Int
    BY <1>1, Sizing, SMT
  <2>3. n \in Nat
    BY <1>2, <2>1, <2>2, SMT
  <2>4. packet' = [packet EXCEPT !.size = n] /\ fault = "none" /\ fault' = "size"
    BY <2>1, Zenon DEF Damaged
  <2>5. packet' = [header |-> packet.header, data |-> packet.data, pid |-> packet.pid,
                   checksum |-> packet.checksum, size |-> n]
    BY <1>3, <2>4, SMT
  <2>6. packet' \in Packets(kind)
    BY <1>2, <2>3, <2>5, SMTT(30) DEF Packets
  <2>7. /\ packet'.header = packet.header /\ packet'.data = packet.data
        /\ packet'.checksum = packet.checksum /\ packet'.size # packet.size
    BY <2>1, <2>5, SMT
  <2> QED BY <2>4, <2>6, <2>7, Zenon DEF Differs, Made
<1> QED BY <1>4, <1>5, <1>6, <1>7

\* The types, and the number that the one packet gets.
TypeInv == TypeOK /\ (packet = NONE => packetSequenceCount \in Counts)

\* The types hold at the start.
LEMMA TypeInit == Init => TypeInv
BY PacketAssumption, Zenon DEF Init, TypeInv, TypeOK

\* Every step keeps them.
LEMMA TypeNext == TypeInv /\ [Next]_vars => TypeInv'
<1> SUFFICES ASSUME TypeInv, [Next]_vars PROVE TypeInv'
  OBVIOUS
<1>0. /\ kind \in Packetizers /\ packetSequenceCount \in 0..SPACE_PACKET_MAX_PACKET_SEQUENCE_COUNT
      /\ TypeOK
  BY Zenon DEF TypeInv, TypeOK
<1>1. ASSUME NEW r \in Requests, packetize(r) PROVE TypeInv'
  <2>1. /\ packet' = Packet(kind, r, packetSequenceCount) /\ sent' = r
        /\ kind' = kind /\ fault' = fault /\ packet = NONE /\ SizeAsserted(kind, r.size)
    BY <1>1, Zenon DEF packetize
  <2>2. packetSequenceCount \in Counts
    BY <2>1, Zenon DEF TypeInv
  <2>3. packet' \in Packets(kind) /\ packet' # NONE
    BY <1>0, <2>1, <2>2, PacketTyped, NoneAssumption, Zenon
  <2>4. packetSequenceCount' \in 0..SPACE_PACKET_MAX_PACKET_SEQUENCE_COUNT
    BY <1>0, <1>1, BumpRange, Zenon DEF packetize
  <2> QED BY <1>0, <2>1, <2>3, <2>4, Zenon DEF TypeInv, TypeOK
<1>2. ASSUME Damage PROVE TypeInv'
  <2>1. /\ packet # NONE /\ kind' = kind /\ packetSequenceCount' = packetSequenceCount
        /\ sent' = sent /\ result' = result
        /\ DamageHeader \/ DamageData \/ DamageTrailer \/ DamageSize
    BY <1>2, Zenon DEF Damage
  <2>2. packet' \in Packets(kind) /\ fault' \in {"none", "header", "data", "pid", "checksum", "size", "unsure"}
    BY <1>0, <2>1, DamagedPacket, Zenon DEF Differs, Made
  <2>3. packet' # NONE
    BY <1>0, <2>2, NoneAssumption, Zenon
  <2> QED BY <1>0, <2>1, <2>2, <2>3, Zenon DEF TypeInv, TypeOK
<1>3. ASSUME depacketize PROVE TypeInv'
  BY <1>3, Zenon DEF depacketize, TypeInv, TypeOK
<1>4. CASE UNCHANGED vars
  BY <1>4, Zenon DEF vars, TypeInv, TypeOK
<1> QED BY <1>1, <1>2, <1>3, <1>4, Zenon DEF Next

\* Every variable of SpacePackets keeps its type: what any packetizer writes, and
\* what the line makes of it, is a packet of bytes of the right number.
THEOREM PacketsTypeCorrect == Spec => []TypeOK
<1>1. TypeInv => TypeOK
  BY Zenon DEF TypeInv
<1> QED BY <1>1, TypeInit, TypeNext, PTL DEF Spec

-----------------------------------------------------------------------------
(* Damage *)

\* What is known of a packet that may have been damaged.
OriginInv ==
  /\ TypeInv
  /\ packet = NONE => fault = "none"
  /\ packet # NONE => SizeAsserted(kind, sent.size)
  /\ packet # NONE => \E c \in Counts :
       /\ kind = "STRICT_CCSDS" => c = CountWritten
       /\ Differs(kind, fault, Packet(kind, sent, c), packet)
  /\ result # NONE => packet # NONE /\ result = Depacketized(packet)

\* Nothing is on its way at the start.
LEMMA OriginInit == Init => OriginInv
BY TypeInit, Zenon DEF Init, OriginInv

\* The counter is one ahead of the number of the packet, modulo its field.
LEMMA CountedBack ==
  ASSUME kind = "STRICT_CCSDS", NEW c \in 0..SPACE_PACKET_MAX_PACKET_SEQUENCE_COUNT,
         packetSequenceCount = c, NEW r, packetize(r)
  PROVE  CountWritten' = c
<1>1. packetSequenceCount' = Table!Bump(c, SPACE_PACKET_MAX_PACKET_SEQUENCE_COUNT)
  BY SMT DEF packetize, Table!Counted, Table!SpacePacket
<1> QED BY <1>1, SMT DEF Table!Bump, CountWritten, SPACE_PACKET_MAX_PACKET_SEQUENCE_COUNT

\* Writing makes a packet that differs in nothing, the line makes it differ in
\* what it damages, and reading changes neither.
LEMMA OriginNext == OriginInv /\ [Next]_vars => OriginInv'
<1> SUFFICES ASSUME OriginInv, [Next]_vars PROVE OriginInv'
  OBVIOUS
<1>0. TypeInv /\ TypeInv' /\ TypeOK
  BY TypeNext, Zenon DEF OriginInv, TypeInv
<1>1. ASSUME NEW r \in Requests, packetize(r) PROVE OriginInv'
  <2>0. PICK c : c = packetSequenceCount
    OBVIOUS
  <2>1. /\ packet = NONE /\ result = NONE /\ fault = "none" /\ result' = result /\ fault' = fault
        /\ packet' = Packet(kind, r, c) /\ sent' = r /\ kind' = kind /\ SizeAsserted(kind, r.size)
    BY <1>0, <1>1, <2>0, Zenon DEF packetize, OriginInv, TypeOK
  <2>2. c \in 0..SPACE_PACKET_MAX_PACKET_SEQUENCE_COUNT /\ c \in Counts
    BY <1>0, <2>0, <2>1, Zenon DEF TypeOK, TypeInv
  <2>3. kind' = "STRICT_CCSDS" => c = CountWritten'
    BY <1>1, <2>0, <2>1, <2>2, CountedBack, Zenon
  <2>4. packet' = Packet(kind', sent', c) /\ fault' = "none"
    BY <2>1, Zenon
  <2>5. Differs(kind, fault, Packet(kind, sent, c), packet)'
    BY <2>4, Zenon DEF Differs, Made
  <2>6. \E n \in Counts :
          /\ kind' = "STRICT_CCSDS" => n = CountWritten'
          /\ Differs(kind, fault, Packet(kind, sent, n), packet)'
    BY <2>2, <2>3, <2>5, Zenon
  <2> QED BY <1>0, <2>1, <2>6, Zenon DEF OriginInv
<1>2. ASSUME Damage PROVE OriginInv'
  <2>1. /\ packet # NONE /\ result = NONE /\ kind' = kind /\ sent' = sent /\ result' = result
        /\ packetSequenceCount' = packetSequenceCount
        /\ DamageHeader \/ DamageData \/ DamageTrailer \/ DamageSize
    BY <1>2, Zenon DEF Damage
  <2>2. PICK c \in Counts :
          /\ kind = "STRICT_CCSDS" => c = CountWritten
          /\ Differs(kind, fault, Packet(kind, sent, c), packet)
    BY <2>1, Zenon DEF OriginInv
  <2>3. packet' \in Packets(kind) /\ fault = "none" /\ Differs(kind, fault', packet, packet')
    BY <1>0, <2>1, DamagedPacket, Zenon
  <2>4. PICK p : p = Packet(kind, sent, c)
    OBVIOUS
  <2>5. /\ packet.header = p.header /\ packet.data = p.data
        /\ packet.checksum = p.checksum /\ packet.size = p.size
    BY <2>2, <2>3, <2>4, Zenon DEF Differs, Made
  <2>6. p = Packet(kind', sent', c) /\ CountWritten' = CountWritten
    BY <2>1, <2>4, Zenon DEF CountWritten
  <2>7. Differs(kind, fault', p, packet')
    BY <2>3, <2>5, Zenon DEF Differs
  <2>8. Differs(kind, fault, Packet(kind, sent, c), packet)'
    BY <2>1, <2>6, <2>7, Zenon
  <2>9. \E n \in Counts :
          /\ kind' = "STRICT_CCSDS" => n = CountWritten'
          /\ Differs(kind, fault, Packet(kind, sent, n), packet)'
    BY <2>1, <2>2, <2>6, <2>8, Zenon
  <2>10. packet' # NONE /\ SizeAsserted(kind', sent'.size)
    <3>1. kind \in Packetizers
      BY <1>0, Zenon DEF TypeOK
    <3> QED BY <2>1, <2>3, <3>1, NoneAssumption, Zenon DEF OriginInv
  <2> QED BY <1>0, <2>1, <2>9, <2>10, Zenon DEF OriginInv
<1>3. ASSUME depacketize \/ UNCHANGED vars PROVE OriginInv'
  <2>1. /\ kind' = kind /\ sent' = sent /\ packet' = packet /\ fault' = fault
        /\ packetSequenceCount' = packetSequenceCount
        /\ result' # NONE => packet # NONE /\ result' = Depacketized(packet)
    BY <1>3, Zenon DEF depacketize, vars, OriginInv
  <2>2. Depacketized(packet)' = Depacketized(packet)
    <3>1. kind' = kind /\ packet' = packet
      BY <2>1
    <3> QED BY <3>1, ZenonT(60) DEF Depacketized, TooSmall, Says, SizeRead, TypeRead, Accepted, DestinationRead
  <2>3. CountWritten' = CountWritten
    BY <2>1, Zenon DEF CountWritten
  <2>4. packet' # NONE => \E c \in Counts :
          /\ kind' = "STRICT_CCSDS" => c = CountWritten'
          /\ Differs(kind, fault, Packet(kind, sent, c), packet)'
    BY <2>1, <2>3, Zenon DEF OriginInv
  <2>5. /\ packet' = NONE => fault' = "none"
        /\ packet' # NONE => SizeAsserted(kind', sent'.size)
    BY <2>1, Zenon DEF OriginInv
  <2> QED BY <1>0, <2>1, <2>2, <2>4, <2>5, Zenon DEF OriginInv
<1> QED BY <1>1, <1>2, <1>3, Zenon DEF Next

\* OriginInv is an invariant.
LEMMA OriginInvariant == Spec => []OriginInv
BY OriginInit, OriginNext, PTL DEF Spec

\* The size read in the header of a packet is the size it was written with.
LEMMA SizeReadBack ==
  ASSUME NEW r \in Requests, NEW c, kind \in Packetizers,
         SizeAsserted(kind, r.size), Storable(kind, r.size)
  PROVE  /\ SizeRead(Header(kind, r, c)) = HeaderSize(kind) + r.size + TrailerSize(kind)
         /\ r.size \in Nat
<1> DEFINE h == Header(kind, r, c)
<1>1. r.size \in Nat
  BY RequestRange, Zenon
<1>2. CASE kind = "DEFAULT"
  <2>1. /\ h[5] = writePacketDataLength(r.size)[1] /\ h[6] = writePacketDataLength(r.size)[2]
        /\ h[7] = writePacketDataLength(r.size)[3] /\ h[8] = writePacketDataLength(r.size)[4]
    BY <1>2, SMT DEF Header
  <2> HIDE DEF h
  <2>2. readPacketDataLength(h) = r.size
    BY <1>1, <1>2, <2>1, DefaultLength, Zenon
  <2> QED BY <1>1, <1>2, <2>2, SMT DEF SizeRead, h
<1>3. CASE kind = "STRICT_CCSDS"
  <2>1. /\ h[5] = writeCCSDSPacketDataLength(r.size + 2)[1]
        /\ h[6] = writeCCSDSPacketDataLength(r.size + 2)[2]
    BY <1>3, SMT DEF Header
  <2> HIDE DEF h
  <2>2. readCCSDSPacketDataLength(h) = r.size + 2
    BY <1>1, <1>3, <2>1, StrictLength, Zenon
  <2>3. SizeRead(h) = 6 + (r.size + 2) /\ HeaderSize(kind) = 6 /\ TrailerSize(kind) = 2
    BY <1>3, <2>2, SMT DEF SizeRead, HeaderSize, TrailerSize
  <2>4. 6 + (r.size + 2) = 6 + r.size + 2
    BY <1>1, SMT
  <2> QED BY <1>1, <2>3, <2>4, Zenon DEF h
<1>4. CASE kind = "THIN"
  <2>1. h[3] = Hi(r.size - 1) /\ h[4] = Lo(r.size - 1)
    BY <1>4, SMT DEF Header
  <2> HIDE DEF h
  <2>2. thinReadPacketDataLength(h) = r.size
    BY <1>1, <1>4, <2>1, ThinLength, Zenon
  <2>3. SizeRead(h) = 4 + r.size /\ HeaderSize(kind) = 4 /\ TrailerSize(kind) = 0
    BY <1>4, <2>2, SMT DEF SizeRead, HeaderSize, TrailerSize
  <2>4. 4 + r.size = 4 + r.size + 0
    BY <1>1, SMT
  <2> QED BY <1>1, <2>3, <2>4, Zenon DEF h
<1> QED BY <1>2, <1>3, <1>4, PacketAssumption, Zenon

\* A default packet that passes the assertions has a size its header can hold;
\* so has a strict CCSDS packet, but for the largest, whose size reads as the 7
\* bytes that are too few for a packet.
LEMMA AssertedSizes ==
  ASSUME NEW r \in Requests, NEW c, kind \in Packetizers \ {"THIN"}, SizeAsserted(kind, r.size)
  PROVE  \/ Storable(kind, r.size)
         \/ kind = "STRICT_CCSDS" /\ SizeRead(Header(kind, r, c)) = 7
<1>1. r.size \in Nat
  BY RequestRange, Zenon
<1>2. CASE kind = "DEFAULT"
  BY <1>1, <1>2, SMT DEF Storable, SizeAsserted
<1>3. CASE kind = "STRICT_CCSDS"
  <2>1. CASE r.size <= 65534
    BY <1>1, <1>3, <2>1, SMT DEF Storable
  <2>2. CASE r.size = 65535
    <3> DEFINE h == Header(kind, r, c)
    <3>1. writeCCSDSPacketDataLength(r.size + 2) = <<0, 0>>
      BY <2>2, SMT DEF writeCCSDSPacketDataLength, Hi, Lo
    <3>2. h[5] = 0 /\ h[6] = 0
      BY <1>3, <3>1, SMT DEF Header
    <3> HIDE DEF h
    <3>3. SizeRead(h) = 7
      BY <1>3, <3>2, SMT DEF SizeRead, readCCSDSPacketDataLength, HeaderSize
    <3> QED BY <1>3, <3>3 DEF h
  <2>3. r.size < 65536
    BY <1>3, SMT DEF SizeAsserted, CCSDS_SPACE_PACKET_MAX_PACKET_DATA_SIZE
  <2> QED BY <1>1, <2>1, <2>2, <2>3, SMT
<1> QED BY <1>2, <1>3, PacketAssumption, Zenon

\* What the checksum is sure to tell is told.
LEMMA ChecksumTells ==
  ASSUME OriginInv, packet # NONE, kind # "THIN",
         packet.checksum = Checksum(kind, packet.header, packet.data)
  PROVE  fault \in {"none", "pid", "size", "unsure"}
<1>1. PICK c \in Counts : Differs(kind, fault, Packet(kind, sent, c), packet)
  BY Zenon DEF OriginInv
<1> DEFINE h         == Header(kind, sent, c)
           d         == sent.data
           sum(x, y) == IF kind = "DEFAULT" THEN writeCrc(x, y) ELSE writeChecksum(x, y)
<1>2. /\ kind \in Packetizers \ {"THIN"} /\ sent \in Requests /\ SizeAsserted(kind, sent.size)
      /\ packet.data \in Data
  BY Zenon DEF OriginInv, TypeInv, TypeOK, Packets
<1>3. \A x, y : Checksum(kind, x, y) = sum(x, y)
  <2>1. kind \in {"DEFAULT", "STRICT_CCSDS"}
    BY <1>2, Sizing, Zenon
  <2> QED BY <2>1, SMT DEF Checksum
<1>4. /\ Packet(kind, sent, c).header = h /\ Packet(kind, sent, c).data = d
      /\ Packet(kind, sent, c).checksum = sum(h, d)
  <2>1. /\ Packet(kind, sent, c).header = h /\ Packet(kind, sent, c).data = d
        /\ Packet(kind, sent, c).checksum = Checksum(kind, h, d)
    BY SMT DEF Packet
  <2> QED BY <1>3, <2>1, Zenon
<1>5. /\ \A j \in 1..HeaderSize(kind) : \A b \in Hits(h[j]) :
           Telling(kind, h[j], b) => sum([h EXCEPT ![j] = b], d) # sum(h, d)
      /\ \A e \in Data : <<d, e>> \in Bursts[kind] => sum(h, e) # sum(h, d)
  BY <1>2, ChecksumAssumption, ZenonT(60)
<1>6. packet.checksum = sum(packet.header, packet.data)
  BY <1>3
<1> HIDE DEF h, d, sum
<1>7. ASSUME fault = "header" PROVE FALSE
  <2>1. packet.data = d /\ packet.checksum = sum(h, d)
    BY <1>1, <1>4, <1>7, SMT DEF Differs, Made
  <2>2. \E j \in 1..HeaderSize(kind) : \E b \in Hits(h[j]) :
          Telling(kind, h[j], b) /\ packet.header = [h EXCEPT ![j] = b]
    BY <1>1, <1>4, <1>7, Zenon DEF Differs, Made
  <2> QED BY <1>5, <1>6, <2>1, <2>2, Zenon
<1>8. ASSUME fault = "data" PROVE FALSE
  <2>1. /\ packet.header = h /\ packet.checksum = sum(h, d)
        /\ <<d, packet.data>> \in Bursts[kind]
    BY <1>1, <1>4, <1>8, SMT DEF Differs, Made
  <2> QED BY <1>2, <1>5, <1>6, <2>1, Zenon
<1>9. ASSUME fault = "checksum" PROVE FALSE
  <2>1. packet.header = h /\ packet.data = d /\ packet.checksum # sum(h, d)
    BY <1>1, <1>4, <1>9, SMT DEF Differs, Made
  <2> QED BY <1>6, <2>1, Zenon
<1> QED BY <1>1, <1>7, <1>8, <1>9, SMT DEF Differs, Made

\* What was damaged in a way the packetizer is to tell is refused.
LEMMA OriginInvDetects == OriginInv => DamageDetected
<1> SUFFICES ASSUME OriginInv, result # NONE, kind # "THIN", result.ok
             PROVE  fault \in {"none", "pid", "unsure"}
  BY Zenon DEF DamageDetected
<1>1. /\ packet # NONE /\ result = Depacketized(packet) /\ SizeAsserted(kind, sent.size)
      /\ sent \in Requests /\ kind \in Packetizers /\ packet.size \in Nat
  BY Zenon DEF OriginInv, TypeInv, TypeOK, Packets
<1>2. /\ ~TooSmall(packet) /\ SizeRead(packet.header) = packet.size
      /\ packet.checksum = Checksum(kind, packet.header, packet.data)
  <2>1. \A code : ~Failed(code).ok
    BY SMT DEF Failed
  <2> QED BY <1>1, <2>1, Zenon DEF Depacketized, Says
<1>3. fault \in {"none", "pid", "size", "unsure"}
  BY <1>1, <1>2, ChecksumTells, Zenon
<1>4. ASSUME fault = "size" PROVE FALSE
  <2>1. PICK c \in Counts : Differs(kind, fault, Packet(kind, sent, c), packet)
    BY <1>1, Zenon DEF OriginInv
  <2> DEFINE h == Header(kind, sent, c)
  <2>2. packet.header = h /\ packet.size # HeaderSize(kind) + sent.size + TrailerSize(kind)
    BY <1>4, <2>1, SMT DEF Differs, Made, Packet
  <2>3. ~Storable(kind, sent.size)
    BY <1>1, <1>2, <2>2, SizeReadBack, Zenon
  <2>4. kind = "STRICT_CCSDS" /\ SizeRead(h) = 7
    BY <1>1, <2>3, AssertedSizes, Zenon
  <2>5. packet.size = 7
    BY <1>2, <2>2, <2>4, Zenon
  <2>6. TooSmall(packet)
    BY <2>4, <2>5, SMT DEF TooSmall, HeaderSize, TrailerSize
  <2> QED BY <1>2, <2>6
<1> QED BY <1>3, <1>4, Zenon

\* A packetizer with a checksum delivers no packet that was cut or padded, of
\* which the checksum was changed, or a bit of the header or a burst of the data,
\* whatever the request; what the two bytes of the checksum do not tell for sure
\* is left out of it, and so is the sender PID.
THEOREM DamageFound == Spec => []DamageDetected
BY OriginInvariant, OriginInvDetects, PTL

-----------------------------------------------------------------------------
(* The layout of the strict header, and the table of the Broker's model *)

\* The words of a strict CCSDS header are those of the standard.
LEMMA StrictLayout ==
  ASSUME NEW type \in PacketTypes, NEW d \in Apids,
         NEW c \in 0..SPACE_PACKET_MAX_PACKET_SEQUENCE_COUNT, NEW n \in Nat, n + 2 <= 65536
  PROVE  /\ 256 * writeCCSDSPacketId(type, d)[1] + writeCCSDSPacketId(type, d)[2]
              = TypeBit(type) * 4096 + 2048 + d
         /\ 256 * writeCCSDSPacketSequenceControl(c)[1] + writeCCSDSPacketSequenceControl(c)[2]
              = 3 * 16384 + c
         /\ 256 * writeCCSDSPacketDataLength(n + 2)[1] + writeCCSDSPacketDataLength(n + 2)[2]
              = n + 2 - 1
<1>1. TypeBit(type) \in 0..1
  BY SMT DEF TypeBit
<1>2. 256 * writeCCSDSPacketId(type, d)[1] + writeCCSDSPacketId(type, d)[2]
        = TypeBit(type) * 4096 + 2048 + d
  <2> DEFINE t  == TypeBit(type)
             id == writeCCSDSPacketId(type, d)
             h  == Hi(d)
             l  == Lo(d)
  <2>1. h \in 0..7 /\ l \in 0..255 /\ h * 256 + l = d
    BY SMTT(30) DEF Hi, Lo, Apids, SPACE_PACKET_MAX_APID
  <2>2. id[1] = t * 16 + 8 + (h % 8) /\ id[2] = l
    BY SMT DEF writeCCSDSPacketId
  <2>3. t \in 0..1
    BY <1>1
  <2> HIDE DEF t, id, h, l
  <2>4. id[1] = t * 16 + 8 + h
    BY <2>1, <2>2, <2>3, SMT
  <2>5. 256 * id[1] + id[2] = t * 4096 + 2048 + d
    BY <2>1, <2>2, <2>3, <2>4, SMT
  <2> QED BY <2>5 DEF t, id
<1>3. 256 * writeCCSDSPacketSequenceControl(c)[1] + writeCCSDSPacketSequenceControl(c)[2]
        = 3 * 16384 + c
  <2> DEFINE sequence == writeCCSDSPacketSequenceControl(c)
             h        == Hi(c)
             l        == Lo(c)
  <2>1. h \in 0..63 /\ l \in 0..255 /\ h * 256 + l = c
    <3>1. c \in Int /\ 0 <= c /\ c <= 16383
      BY SMT DEF SPACE_PACKET_MAX_PACKET_SEQUENCE_COUNT
    <3>2. h * 256 + l = c
      BY <3>1, TwoBytes, SMT
    <3>3. h \in 0..255 /\ l \in 0..255
      BY <3>1, ByteRange, SMT
    <3> HIDE DEF h, l
    <3> QED BY <3>1, <3>2, <3>3, SMT
  <2>2. sequence[1] = 192 + (h % 64) /\ sequence[2] = l
    BY SMT DEF writeCCSDSPacketSequenceControl
  <2> HIDE DEF sequence, h, l
  <2>3. sequence[1] = 192 + h
    BY <2>1, <2>2, SMT
  <2>4. 256 * sequence[1] + sequence[2] = 3 * 16384 + c
    BY <2>1, <2>2, <2>3, SMT
  <2> QED BY <2>4 DEF sequence
<1>4. 256 * writeCCSDSPacketDataLength(n + 2)[1] + writeCCSDSPacketDataLength(n + 2)[2]
        = n + 2 - 1
  <2>1. n + 2 - 1 \in Int /\ 0 <= n + 2 - 1 /\ n + 2 - 1 <= 65535
    BY SMT
  <2>2. Hi(n + 2 - 1) * 256 + Lo(n + 2 - 1) = n + 2 - 1
    BY <2>1, TwoBytes, SMT
  <2>3. Hi(n + 2 - 1) \in Int /\ Lo(n + 2 - 1) \in Int
    BY <2>1, ByteRange, SMT
  <2> QED BY <2>2, <2>3, SMT DEF writeCCSDSPacketDataLength
<1> QED BY <1>2, <1>3, <1>4

\* So a strict CCSDS packet on its way has the header of the standard.
LEMMA OriginInvLayout == OriginInv => StrictIsCcsds
<1> SUFFICES ASSUME OriginInv, kind = "STRICT_CCSDS", packet # NONE, fault = "none",
                    Storable(kind, sent.size)
             PROVE  IsCcsds(packet.header, CountWritten, packet.size - HeaderSize(kind))
  BY Zenon DEF StrictIsCcsds
<1>1. PICK c \in Counts : c = CountWritten /\ Differs(kind, fault, Packet(kind, sent, c), packet)
  BY Zenon DEF OriginInv
<1>2. sent \in Requests /\ c \in 0..SPACE_PACKET_MAX_PACKET_SEQUENCE_COUNT
  BY CountRange, Zenon DEF OriginInv, TypeInv, TypeOK
<1>3. sent.type \in PacketTypes /\ sent.size \in Nat /\ sent.destination \in Apids
  BY <1>2, RequestRange, Zenon
<1>4. sent.size + 2 <= 65536
  BY SMT DEF Storable
<1>5. packet.header = Header(kind, sent, c) /\ packet.size = 6 + sent.size + 2 /\ HeaderSize(kind) = 6
  BY <1>1, SMT DEF Differs, Made, Packet, HeaderSize, TrailerSize
<1> DEFINE id       == writeCCSDSPacketId(sent.type, sent.destination)
           sequence == writeCCSDSPacketSequenceControl(c)
           short    == writeCCSDSPacketDataLength(sent.size + 2)
<1>6. packet.header = <<id[1], id[2], sequence[1], sequence[2], short[1], short[2]>>
  BY <1>5, SMT DEF Header
<1>7. /\ 256 * id[1] + id[2] = TypeBit(sent.type) * 4096 + 2048 + sent.destination
      /\ 256 * sequence[1] + sequence[2] = 3 * 16384 + c
      /\ 256 * short[1] + short[2] = sent.size + 2 - 1
  BY <1>2, <1>3, <1>4, StrictLayout, SMT
<1> HIDE DEF id, sequence, short
<1>8. packet.size - HeaderSize(kind) - 1 = sent.size + 2 - 1
  BY <1>3, <1>5, SMT
<1>9. /\ 256 * packet.header[1] + packet.header[2] = TypeBit(sent.type) * 4096 + 2048 + sent.destination
      /\ 256 * packet.header[3] + packet.header[4] = 3 * 16384 + CountWritten
      /\ 256 * packet.header[5] + packet.header[6] = packet.size - HeaderSize(kind) - 1
  BY <1>1, <1>6, <1>7, <1>8, SMT
<1> QED BY <1>9, SMT DEF IsCcsds

\* Every header of the strict CCSDS packetizer is laid out as in CCSDS 133.0-B-2,
\* for every destination, number and size its length field can hold.
THEOREM LayoutOfTheStandard == Spec => []StrictIsCcsds
BY OriginInvariant, OriginInvLayout, PTL

\* The size in a packet is right exactly if neither it nor the packet's own
\* size differs from what was written.
LEMMA SizeTells ==
  ASSUME OriginInv, packet # NONE, Storable(kind, sent.size)
  PROVE  Says(packet.header, packet.size)
           <=> packet.size = SizeSent /\ Says(packet.header, SizeSent)
<1>1. PICK c \in Counts : Differs(kind, fault, Packet(kind, sent, c), packet)
  BY Zenon DEF OriginInv
<1>2. sent \in Requests /\ kind \in Packetizers /\ SizeAsserted(kind, sent.size)
  BY Zenon DEF OriginInv, TypeInv, TypeOK
<1>3. SizeRead(Header(kind, sent, c)) = SizeSent
  BY <1>2, SizeReadBack, Zenon DEF SizeSent
<1>4. Packet(kind, sent, c).header = Header(kind, sent, c) /\ Packet(kind, sent, c).size = SizeSent
  BY SMT DEF Packet, SizeSent
<1>5. CASE fault = "size"
  <2>1. packet.header = Header(kind, sent, c) /\ packet.size # SizeSent
    BY <1>1, <1>4, <1>5, SMT DEF Differs, Made
  <2> QED BY <1>3, <2>1, Zenon DEF Says
<1>6. CASE fault # "size"
  <2>1. packet.size = SizeSent
    BY <1>1, <1>4, <1>6, Zenon DEF Differs, Made
  <2> QED BY <2>1, Zenon
<1> QED BY <1>5, <1>6

\* The first byte of a strict CCSDS header is neither 0 nor 255.
LEMMA StrictFirst ==
  ASSUME kind = "STRICT_CCSDS", NEW r \in Requests, NEW c
  PROVE  Header(kind, r, c)[1] \in 8..31
<1>1. r.type \in PacketTypes /\ r.destination \in Int
  <2>1. \A d \in Apids : d \in Int
    BY SMT DEF Apids, SPACE_PACKET_MAX_APID
  <2> QED BY <2>1, RequestRange, Zenon
<1> DEFINE h == Hi(r.destination) % 8
           t == TypeBit(r.type)
<1>2. t \in 0..1 /\ h \in 0..7
  BY <1>1, PartRange, Zenon
<1>3. writeCCSDSPacketId(r.type, r.destination)[1] = t * 16 + 8 + h
  BY SMT DEF writeCCSDSPacketId
<1>4. Header(kind, r, c)[1] = writeCCSDSPacketId(r.type, r.destination)[1]
  BY SMT DEF Header
<1> HIDE DEF h, t
<1> QED BY <1>2, <1>3, <1>4, SMT

\* A header byte that was hit in a way the checksum may not tell is not the
\* first one.
LEMMA FirstIsTelling ==
  ASSUME kind \in {"DEFAULT", "STRICT_CCSDS"}, NEW r \in Requests, NEW c \in Int, kind \in Packetizers,
         NEW j \in 1..HeaderSize(kind), NEW b, ~Telling(kind, Header(kind, r, c)[j], b)
  PROVE  j # 1 /\ Header(kind, r, c) \in [1..HeaderSize(kind) -> 0..255]
<1>1. Header(kind, r, c) \in [1..HeaderSize(kind) -> 0..255]
  BY HeaderBytes, Zenon DEF Bytes
<1>2. kind = "STRICT_CCSDS" /\ Header(kind, r, c)[j] \in {0, 255}
  <2>1. kind = "STRICT_CCSDS"
    BY Zenon DEF Telling
  <2>2. {Header(kind, r, c)[j], b} = {0, 255}
    BY <2>1, Zenon DEF Telling
  <2> QED BY <2>1, <2>2, Zenon
<1>3. Header(kind, r, c)[1] \in 8..31
  BY <1>2, StrictFirst, Zenon
<1>4. \A x \in 8..31 : x # 0 /\ x # 255
  BY SMT
<1> QED BY <1>1, <1>2, <1>3, <1>4, Zenon

\* The type read in a packet is the one that was asked for, unless a change of
\* the header is one the checksum tells.
LEMMA TypeTells ==
  ASSUME OriginInv, packet # NONE, kind # "THIN", fault # "header"
  PROVE  TypeRead(packet.header) = TypeBit(ExpectedType) <=> sent.type = ExpectedType
<1>1. PICK c \in Counts : Differs(kind, fault, Packet(kind, sent, c), packet)
  BY Zenon DEF OriginInv
<1>2. sent \in Requests /\ kind \in {"DEFAULT", "STRICT_CCSDS"} /\ kind \in Packetizers
  BY PacketAssumption, Zenon DEF OriginInv, TypeInv, TypeOK
<1>3. sent.type \in PacketTypes /\ sent.destination \in Apids
  BY <1>2, RequestRange, Zenon
<1> DEFINE h == Header(kind, sent, c)
<1>4. packet.header[1] = h[1]
  <2>1. Packet(kind, sent, c).header = h
    BY SMT DEF Packet
  <2>2. ASSUME NEW j \in 1..HeaderSize(kind), NEW b \in Hits(h[j]),
               ~Telling(kind, h[j], b), packet.header = [h EXCEPT ![j] = b]
        PROVE  packet.header[1] = h[1]
    <3>1. j # 1 /\ h \in [1..HeaderSize(kind) -> 0..255]
      BY <1>2, <2>2, CountRange, FirstIsTelling, Zenon
    <3>2. 1 \in 1..HeaderSize(kind)
      BY <1>2, SMT DEF HeaderSize
    <3> HIDE DEF h
    <3> QED BY <2>2, <3>1, <3>2, Zenon
  <2>3. \/ packet.header = h
        \/ \E j \in 1..HeaderSize(kind) : \E b \in Hits(h[j]) :
             ~Telling(kind, h[j], b) /\ packet.header = [h EXCEPT ![j] = b]
    <3> HIDE DEF h
    <3> QED BY <1>1, <2>1, Zenon DEF Differs, Made
  <2> QED BY <2>2, <2>3, Zenon
<1>5. TypeRead(h) = TypeBit(sent.type)
  <2>1. CASE kind = "DEFAULT"
    <3>1. /\ h[1] = writePacketId(sent.type, sent.destination)[1]
          /\ h[2] = writePacketId(sent.type, sent.destination)[2]
      BY <2>1, SMT DEF Header
    <3> HIDE DEF h
    <3> QED BY <1>3, <2>1, <3>1, DefaultId, Zenon
  <2>2. CASE kind = "STRICT_CCSDS"
    <3>1. /\ h[1] = writeCCSDSPacketId(sent.type, sent.destination)[1]
          /\ h[2] = writeCCSDSPacketId(sent.type, sent.destination)[2]
      BY <2>2, SMT DEF Header
    <3> HIDE DEF h
    <3> QED BY <1>3, <2>2, <3>1, StrictId, Zenon
  <2> QED BY <1>2, <2>1, <2>2
<1>6. TypeRead(packet.header) = TypeRead(h)
  <2> HIDE DEF h
  <2> QED BY <1>2, <1>4, SMT DEF TypeRead
<1>7. TypeBit(sent.type) = TypeBit(ExpectedType) <=> sent.type = ExpectedType
  <2>1. ExpectedType \in PacketTypes
    BY PacketAssumption
  <2> QED BY <1>3, <2>1, SMT DEF TypeBit, PacketTypes
<1> QED BY <1>5, <1>6, <1>7, Zenon

\* The packetizer that the table looks up is that of the bus.
LEMMA TableKind ==
  ASSUME kind \in Packetizers
  PROVE  /\ Observed.bus = kind
         /\ kind = "DEFAULT" => Table!Depacketize(Observed, ExpectedType) = Table!SpaceResult(Observed, ExpectedType)
         /\ kind = "STRICT_CCSDS" => Table!Depacketize(Observed, ExpectedType) = Table!StrictResult(Observed, ExpectedType)
         /\ kind = "THIN" => Table!Depacketize(Observed, ExpectedType) = Table!ThinResult(Observed)
<1>1. Observed.bus = kind
  BY SMT DEF Observed
<1>2. [k \in Packetizers |-> k][Observed.bus] = kind
  BY <1>1, Zenon
<1> QED BY <1>1, <1>2, SMT DEF Table!Depacketize, Table!SpacePacket

\* What depacketize answers is what the table says.
LEMMA OriginInvAgrees == OriginInv => TableAgrees
<1> SUFFICES ASSUME OriginInv, result # NONE, Storable(kind, sent.size)
             PROVE  [ok |-> result.ok, code |-> result.code] = Table!Depacketize(Observed, ExpectedType)
  BY Zenon DEF TableAgrees
<1>1. /\ packet # NONE /\ result = Depacketized(packet) /\ kind \in Packetizers
      /\ kind \in {"DEFAULT", "STRICT_CCSDS", "THIN"}
  BY PacketAssumption, Zenon DEF OriginInv, TypeInv, TypeOK
<1> DEFINE o        == Observed
           right    == Says(packet.header, packet.size)
           intact   == packet.checksum = Checksum(kind, packet.header, packet.data)
           expected == TypeRead(packet.header) = TypeBit(ExpectedType)
           short    == TooSmall(packet)
<1>2. /\ short => o.length = "short"
      /\ ~short /\ right => o.length = "right"
      /\ ~short /\ ~right => o.length = "wrong"
  <2>1. right <=> packet.size = SizeSent /\ Says(packet.header, SizeSent)
    BY <1>1, SizeTells, Zenon
  <2>2. o.length = IF short THEN "short"
                   ELSE IF packet.size = SizeSent /\ Says(packet.header, SizeSent)
                   THEN "right" ELSE "wrong"
    BY SMT DEF Observed
  <2> QED BY <2>1, <2>2, Zenon
<1>3. o.intact <=> intact
  BY Zenon DEF Observed
<1>4. kind # "THIN" /\ intact => (expected <=> o.type = ExpectedType)
  <2>1. o.type = sent.type
    BY SMT DEF Observed
  <2>2. kind # "THIN" /\ intact => fault # "header"
    BY <1>1, ChecksumTells, Zenon
  <2> QED BY <1>1, <2>1, <2>2, TypeTells, Zenon
<1>5. kind = "THIN" => intact /\ expected
  <2>1. ASSUME kind = "THIN" PROVE packet.checksum = NONE
    <3>1. packet \in Packets(kind)
      BY <1>1, Zenon DEF OriginInv, TypeInv, TypeOK
    <3>2. packet.checksum \in {NONE}
      BY <2>1, <3>1, SMT DEF Packets
    <3> QED BY <3>2
  <2>2. kind = "THIN" => Checksum(kind, packet.header, packet.data) = NONE
    BY SMT DEF Checksum
  <2>3. kind = "THIN" => expected
    BY SMT DEF TypeRead
  <2> QED BY <2>1, <2>2, <2>3, Zenon
<1>6. result = IF short THEN Failed(IF kind = "DEFAULT" THEN 4 ELSE 0)
               ELSE IF ~right THEN Failed(3)
               ELSE IF ~intact THEN Failed(1)
               ELSE IF ~expected THEN Failed(2)
               ELSE Accepted(packet)
  BY <1>1, Zenon DEF Depacketized
<1>7. /\ \A n : Failed(n).ok = FALSE /\ Failed(n).code = n
      /\ Accepted(packet).ok = TRUE /\ Accepted(packet).code = 0
  BY SMT DEF Failed, Accepted
<1> DEFINE answer == [ok |-> result.ok, code |-> result.code]
<1>8. /\ short => answer = [ok |-> FALSE, code |-> IF kind = "DEFAULT" THEN 4 ELSE 0]
      /\ ~short /\ ~right => answer = [ok |-> FALSE, code |-> 3]
      /\ ~short /\ right /\ ~intact => answer = [ok |-> FALSE, code |-> 1]
      /\ ~short /\ right /\ intact /\ ~expected => answer = [ok |-> FALSE, code |-> 2]
      /\ ~short /\ right /\ intact /\ expected => answer = [ok |-> TRUE, code |-> 0]
  <2> HIDE DEF short, right, intact, expected
  <2> QED BY <1>6, <1>7, Zenon
<1> HIDE DEF o, short, right, intact, expected, answer
<1>9. CASE kind = "DEFAULT"
  <2>1. Table!Depacketize(Observed, ExpectedType) = Table!SpaceResult(o, ExpectedType)
    BY <1>1, <1>9, TableKind, Zenon DEF o
  <2> QED BY <1>2, <1>3, <1>4, <1>8, <1>9, <2>1, SMT
          DEF Table!SpaceResult, Table!PacketTooSmall, Table!IncorrectPacketSize,
              Table!IncorrectCrc16, Table!IncorrectPacketType, answer
<1>10. CASE kind = "STRICT_CCSDS"
  <2>1. Table!Depacketize(Observed, ExpectedType) = Table!StrictResult(o, ExpectedType)
    BY <1>1, <1>10, TableKind, Zenon DEF o
  <2> QED BY <1>2, <1>3, <1>4, <1>8, <1>10, <2>1, SMT
          DEF Table!StrictResult, Table!SpaceResult, Table!IncorrectPacketSize,
              Table!IncorrectCrc16, Table!IncorrectPacketType, answer
<1>11. CASE kind = "THIN"
  <2>1. Table!Depacketize(Observed, ExpectedType) = Table!ThinResult(o)
    BY <1>1, <1>11, TableKind, Zenon DEF o
  <2> QED BY <1>2, <1>5, <1>8, <1>11, <2>1, SMT
          DEF Table!ThinResult, Table!IncorrectPacketSize, answer
<1> QED BY <1>1, <1>9, <1>10, <1>11

\* What the packetizers answer to the bytes of any packet, damaged or not, is
\* what the table says that the Broker's model is built on.
THEOREM TableRight == Spec => []TableAgrees
BY OriginInvariant, OriginInvAgrees, PTL

=============================================================================
