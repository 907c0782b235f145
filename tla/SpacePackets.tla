---------------------------- MODULE SpacePackets ----------------------------
(***************************************************************************)
(* The bytes of the packets that the library's own packetizers write and   *)
(* read: Packetizer.c (DEFAULT and CCSDS), CCSDSPacketizer.c               *)
(* (STRICT_CCSDS) and ThinPacketizer.c.  A packet is its header, the       *)
(* sender PID and the checksum, byte by byte, and the data, a value with a *)
(* size.  The checksum has two bytes, so that different packets may share  *)
(* one: all that is known of it is which changes it is sure to tell, and   *)
(* this is what Checksums shows of the two functions that compute it.      *)
(*                                                                         *)
(* One packet is written, perhaps damaged on its way, and read.            *)
(***************************************************************************)
EXTENDS Integers, Sequences

CONSTANTS
  Packetizers,   \* the packetizers looked at
  Requests,      \* what they are asked to send
  Data,          \* contents of the data
  DataHits,      \* pairs of contents of one size: what a line may make of which
  Bursts,        \* kind -> the pairs that the checksum is sure to tell apart
  writeCrc(_, _),       \* the two bytes for a header and the data behind it:
  writeChecksum(_, _),  \* CRC16 and ISO
  Counts,        \* values packetSequenceCount may have
  ExpectedType,  \* packet_type of the receiving node
  NONE

PacketTypes == {"Telemetry", "Telecommand"}

\* SpacePacket.h
SPACE_PACKET_MAX_APID == 2047
SPACE_PACKET_MAX_PACKET_SEQUENCE_COUNT == 16383
CCSDS_SPACE_PACKET_MAX_PACKET_DATA_SIZE == 65536

UINT16_MAX == 65535
Uint16 == 0..UINT16_MAX
Apids == 0..SPACE_PACKET_MAX_APID

ASSUME PacketAssumption ==
  /\ Packetizers \subseteq {"DEFAULT", "STRICT_CCSDS", "THIN"}
  /\ Requests \subseteq [type: PacketTypes, source: Uint16, destination: Apids, data: Data, size: Nat]
  /\ DataHits \subseteq Data \X Data
  /\ Counts \subseteq 0..SPACE_PACKET_MAX_PACKET_SEQUENCE_COUNT
  /\ ExpectedType \in PacketTypes
  /\ NONE \notin Nat

VARIABLES
  kind,                 \* the packetizer of the bus, at both ends
  packetSequenceCount,
  sent,                 \* the request, or NONE
  packet,               \* the packet on its way, or NONE
  fault,                \* ghost: what the line did to it
  result                \* what depacketize returned, or NONE

vars == <<kind, packetSequenceCount, sent, packet, fault, result>>

\* The packetizers as the Broker is modelled with.
Table == INSTANCE PacketizerTable WITH
  Buses <- Packetizers, Interfaces <- Apids, Pids <- Uint16,
  bus_to_packetizer_cfg <- [k \in Packetizers |-> k], Provided <- {}, INTERFACE_INVALID_ID <- NONE

-----------------------------------------------------------------------------
(* Writing.  Fields that share a byte take different bits of it, so the     *)
(* code's | is a sum; & and shifts are quotients and remainders.            *)

HeaderSize(k) == CASE k = "DEFAULT" -> 8 [] k = "STRICT_CCSDS" -> 6 [] k = "THIN" -> 4

\* The bytes behind the data: sender PID and checksum, checksum, nothing.
TrailerSize(k) == CASE k = "DEFAULT" -> 4 [] k = "STRICT_CCSDS" -> 2 [] k = "THIN" -> 0

Lo(n) == n % 256
Hi(n) == (n \div 256) % 256

\* Packetizer_PacketType
TypeBit(type) == IF type = "Telemetry" THEN 0 ELSE 1

writePacketId(type, destination) ==
  <<TypeBit(type) * 8 + 16 + (Hi(destination) % 8) * 32, Lo(destination)>>

writePacketSequenceControl(count) == <<3 + (Hi(count) % 64) * 4, Lo(count)>>

\* Mutant: only the low half of the length is written.
WriteLengthHalf(size) ==
  IF size = 0 THEN <<255, 255, 255, 255>> ELSE <<0, 0, Hi(size - 1), Lo(size - 1)>>

writePacketDataLength(size) ==
  IF size = 0 THEN <<255, 255, 255, 255>>
  ELSE <<Hi((size - 1) \div 65536), Lo((size - 1) \div 65536), Hi(size - 1), Lo(size - 1)>>

writeCCSDSPacketId(type, destination) ==
  <<TypeBit(type) * 16 + 8 + (Hi(destination) % 8), Lo(destination)>>

writeCCSDSPacketSequenceControl(count) == <<192 + (Hi(count) % 64), Lo(count)>>

\* Mutant: the length as it is, not less one.
WriteLengthPlain(size) == <<Hi(size), Lo(size)>>

writeCCSDSPacketDataLength(size) == <<Hi(size - 1), Lo(size - 1)>>

Header(k, r, count) ==
  LET id       == IF k = "DEFAULT" THEN writePacketId(r.type, r.destination)
                  ELSE writeCCSDSPacketId(r.type, r.destination)
      sequence == IF k = "DEFAULT" THEN writePacketSequenceControl(count)
                  ELSE writeCCSDSPacketSequenceControl(count)
      long     == writePacketDataLength(r.size)
      short    == writeCCSDSPacketDataLength(r.size + 2)
  IN  CASE k = "DEFAULT" ->
             <<id[1], id[2], sequence[1], sequence[2], long[1], long[2], long[3], long[4]>>
        [] k = "STRICT_CCSDS" ->
             <<id[1], id[2], sequence[1], sequence[2], short[1], short[2]>>
        [] k = "THIN" ->
             <<Hi(r.destination), Lo(r.destination), Hi(r.size - 1), Lo(r.size - 1)>>

\* Mutant: a checksum of the data alone.
DataChecksum(k, header, data) ==
  CASE k = "DEFAULT"      -> writeCrc(<<>>, data)
    [] k = "STRICT_CCSDS" -> writeChecksum(<<>>, data)
    [] k = "THIN"         -> NONE

\* Over header and data; a thin packet has none.
Checksum(k, header, data) ==
  CASE k = "DEFAULT"      -> writeCrc(header, data)
    [] k = "STRICT_CCSDS" -> writeChecksum(header, data)
    [] k = "THIN"         -> NONE

\* The assertions of the packetize functions on dataSize, below 2^32 - 1 for
\* DEFAULT and THIN.
SizeAsserted(k, n) ==
  /\ k \in {"STRICT_CCSDS", "THIN"} => n >= 1
  /\ IF k = "STRICT_CCSDS" THEN n < CCSDS_SPACE_PACKET_MAX_PACKET_DATA_SIZE
     ELSE n \div 65536 < 65535 \/ (n \div 65536 = 65535 /\ n % 65536 < 65535)

Packet(k, r, count) ==
  LET header == Header(k, r, count)
  IN  [header   |-> header,
       data     |-> r.data,
       pid      |-> IF k = "DEFAULT" THEN <<Hi(r.source), Lo(r.source)>> ELSE NONE,
       checksum |-> Checksum(k, header, r.data),
       size     |-> HeaderSize(k) + r.size + TrailerSize(k)]

Bytes(n) == [1..n -> 0..255]

\* The packets of a kind; what it does not carry, and no packet, is NONE.
Packets(k) ==
  [header: Bytes(HeaderSize(k)), data: Data, pid: IF k = "DEFAULT" THEN Bytes(2) ELSE {NONE},
   checksum: IF k = "THIN" THEN {NONE} ELSE Bytes(2), size: Nat]

ASSUME NoneAssumption == \A k \in Packetizers : NONE \notin Packets(k)

packetize(r) ==
  /\ packet = NONE
  /\ SizeAsserted(kind, r.size)
  /\ sent' = r
  /\ packet' = Packet(kind, r, packetSequenceCount)
  /\ packetSequenceCount' =
       IF kind \in Table!Counted THEN Table!Bump(packetSequenceCount, SPACE_PACKET_MAX_PACKET_SEQUENCE_COUNT)
       ELSE packetSequenceCount
  /\ UNCHANGED <<kind, fault, result>>

-----------------------------------------------------------------------------
(* The line: external.  At most one thing goes wrong with the packet.       *)

\* What may become of a byte: one of its bits flipped, or all of them.
Hits(b) ==
  {IF (b \div bit) % 2 = 0 THEN b + bit ELSE b - bit : bit \in {1, 2, 4, 8, 16, 32, 64, 128}}
    \cup {255 - b}

\* A changed byte is one the checksum is sure to tell; modulo 255, 0 and 255
\* are the same.
Telling(k, b, c) ==
  \/ k = "DEFAULT"
  \/ k = "STRICT_CCSDS" /\ {b, c} # {0, 255}

\* What this rests on of writeCrc and writeChecksum: CrcDetects and IsoDetects
\* of Checksums, for a byte of the header and for the data.
ASSUME ChecksumAssumption ==
  \A k \in Packetizers \ {"THIN"}, r \in Requests, count \in Counts : SizeAsserted(k, r.size) =>
    LET header    == Header(k, r, count)
        sum(h, d) == IF k = "DEFAULT" THEN writeCrc(h, d) ELSE writeChecksum(h, d)
        right     == sum(header, r.data)
    IN  /\ right \in Bytes(2)
        /\ \A j \in 1..HeaderSize(k) : \A b \in Hits(header[j]) :
             Telling(k, header[j], b) => sum([header EXCEPT ![j] = b], r.data) # right
        /\ \A d \in Data : <<r.data, d>> \in Bursts[k] => sum(header, d) # right

Damaged(p, f) == fault = "none" /\ fault' = f /\ packet' = p

DamageHeader ==
  \E j \in 1..HeaderSize(kind) : \E b \in Hits(packet.header[j]) :
    Damaged([packet EXCEPT !.header[j] = b],
            IF Telling(kind, packet.header[j], b) THEN "header" ELSE "unsure")

DamageData ==
  \E d \in Data : /\ <<packet.data, d>> \in DataHits
                  /\ Damaged([packet EXCEPT !.data = d],
                             IF kind # "THIN" /\ <<packet.data, d>> \in Bursts[kind] THEN "data" ELSE "unsure")

DamageTrailer ==
  \E j \in 1..2 :
    \/ /\ kind = "DEFAULT"
       /\ \E b \in Hits(packet.pid[j]) : Damaged([packet EXCEPT !.pid[j] = b], "pid")
    \/ /\ kind # "THIN"
       /\ \E b \in Hits(packet.checksum[j]) : Damaged([packet EXCEPT !.checksum[j] = b], "checksum")

\* Cut short or padded; the bytes that are left are right.
DamageSize ==
  \E n \in {0, HeaderSize(kind) - 1, HeaderSize(kind) + TrailerSize(kind) - 1, packet.size - 1, packet.size + 1} :
    n # packet.size /\ n >= 0 /\ Damaged([packet EXCEPT !.size = n], "size")

Damage ==
  /\ packet # NONE /\ result = NONE
  /\ DamageHeader \/ DamageData \/ DamageTrailer \/ DamageSize
  /\ UNCHANGED <<kind, packetSequenceCount, sent, result>>

-----------------------------------------------------------------------------
(* Reading *)

\* zeroPacketSize
IsEmpty(header) == \A j \in 5..8 : header[j] = 255

readPacketDataLength(header) ==
  IF IsEmpty(header) THEN 0
  ELSE header[5] * 16777216 + header[6] * 65536 + header[7] * 256 + header[8] + 1

readCCSDSPacketDataLength(header) == header[5] * 256 + header[6] + 1

\* (high << 8) | (low + 1): behind a low byte of 255 the second operand is
\* 256 and meets the lowest bit of the high byte.
thinReadPacketDataLength(header) ==
  IF header[4] = 255 THEN (2 * (header[3] \div 2) + 1) * 256
  ELSE header[3] * 256 + header[4] + 1

\* The size of the packet according to its header; strict CCSDS counts the
\* checksum as data.
SizeRead(header) ==
  CASE kind = "DEFAULT"      -> HeaderSize(kind) + readPacketDataLength(header) + TrailerSize(kind)
    [] kind = "STRICT_CCSDS" -> HeaderSize(kind) + readCCSDSPacketDataLength(header)
    [] kind = "THIN"         -> HeaderSize(kind) + thinReadPacketDataLength(header)

\* Is n the size of the packet according to its header?  The first conjunct,
\* which the second implies, compares the high halves of the length, and keeps
\* TLC from computing numbers of 2^31 and more.
Says(header, n) ==
  /\ kind = "DEFAULT" /\ ~IsEmpty(header) =>
       header[5] * 256 + header[6] = (n - HeaderSize(kind) - TrailerSize(kind) - 1) \div (UINT16_MAX + 1)
  /\ SizeRead(header) = n

\* One byte of data at least where the code compares with <=.
TooSmall(p) ==
  IF kind = "STRICT_CCSDS" THEN p.size <= HeaderSize(kind) + TrailerSize(kind)
  ELSE p.size < HeaderSize(kind) + TrailerSize(kind)

\* The type in the header, for the packetizers that look at it.
TypeRead(header) ==
  CASE kind = "DEFAULT"      -> (header[1] \div 8) % 2
    [] kind = "STRICT_CCSDS" -> (header[1] \div 16) % 2
    [] kind = "THIN"         -> TypeBit(ExpectedType)

DestinationRead(header) ==
  header[2] + 256 * CASE kind = "DEFAULT"      -> (header[1] \div 32) % 8
                      [] kind = "STRICT_CCSDS" -> header[1] % 8
                      [] kind = "THIN"         -> header[1]

Failed(code) == [ok |-> FALSE, code |-> code]

\* *source stays the 0 of the caller where the packet carries none.
Accepted(p) ==
  [ok |-> TRUE, code |-> 0,
   destination |-> DestinationRead(p.header),
   dataSize |-> SizeRead(p.header) - HeaderSize(kind) - TrailerSize(kind),
   source |-> IF kind = "DEFAULT" THEN p.pid[2] + 256 * p.pid[1] ELSE 0]

\* Mutant: the type looked at before the checksum.
DepacketizedTypeFirst(p) ==
  IF TooSmall(p) THEN Failed(IF kind = "DEFAULT" THEN 4 ELSE 0)
  ELSE IF ~Says(p.header, p.size) THEN Failed(3)
  ELSE IF TypeRead(p.header) # TypeBit(ExpectedType) THEN Failed(2)
  ELSE IF p.checksum # Checksum(kind, p.header, p.data) THEN Failed(1)
  ELSE Accepted(p)

\* The answer for a packet; TooSmall has a code with DEFAULT only.
Depacketized(p) ==
  IF TooSmall(p) THEN Failed(IF kind = "DEFAULT" THEN 4 ELSE 0)
  ELSE IF ~Says(p.header, p.size) THEN Failed(3)
  ELSE IF p.checksum # Checksum(kind, p.header, p.data) THEN Failed(1)
  ELSE IF TypeRead(p.header) # TypeBit(ExpectedType) THEN Failed(2)
  ELSE Accepted(p)

depacketize ==
  /\ packet # NONE /\ result = NONE
  /\ result' = Depacketized(packet)
  /\ UNCHANGED <<kind, packetSequenceCount, sent, packet, fault>>

Init ==
  /\ kind \in Packetizers
  /\ packetSequenceCount \in Counts
  /\ sent = NONE /\ packet = NONE /\ fault = "none" /\ result = NONE

Next == (\E r \in Requests : packetize(r)) \/ Damage \/ depacketize

Spec == Init /\ [][Next]_vars

-----------------------------------------------------------------------------
(* Properties *)

TypeOK ==
  /\ kind \in Packetizers
  /\ packetSequenceCount \in 0..SPACE_PACKET_MAX_PACKET_SEQUENCE_COUNT
  /\ fault \in {"none", "header", "data", "pid", "checksum", "size", "unsure"}
  /\ packet = NONE => sent = NONE /\ result = NONE
  /\ packet # NONE => sent \in Requests /\ packet \in Packets(kind)

\* The data sizes a header can hold.
Storable(k, n) ==
  CASE k = "DEFAULT"      -> n \div 65536 < 65536
    [] k = "STRICT_CCSDS" -> n + 2 <= 65536
    [] k = "THIN"         -> n <= 65536 /\ n % 512 # 0

\* What one end writes the other reads: a packet of a size its header can hold
\* that arrives unharmed is accepted, with the destination, data size and
\* source of the request, if its type is the one expected.
SentIsReceived ==
  result # NONE /\ fault = "none" /\ Storable(kind, sent.size)
    /\ (kind # "THIN" => sent.type = ExpectedType)
    => result = [ok |-> TRUE, code |-> 0, destination |-> sent.destination, dataSize |-> sent.size,
                 source |-> IF kind = "DEFAULT" THEN sent.source ELSE 0]

\* The packetizers with a checksum deliver no packet that was cut or padded, of
\* which the checksum was changed, or a byte of the header or a burst of the
\* data in a way the checksum is sure to tell.  The sender PID lies outside of
\* what is covered, and longer changes, or 0 turned into 255 with strict CCSDS,
\* may go unnoticed.
DamageDetected ==
  result # NONE /\ kind # "THIN" /\ result.ok => fault \in {"none", "pid", "unsure"}

SizeSent == HeaderSize(kind) + sent.size + TrailerSize(kind)

Observed ==
  [bus    |-> kind,
   length |-> IF TooSmall(packet) THEN "short"
              ELSE IF packet.size = SizeSent /\ Says(packet.header, SizeSent) THEN "right" ELSE "wrong",
   intact |-> packet.checksum = Checksum(kind, packet.header, packet.data),
   type   |-> sent.type]

\* What depacketize answers is what PacketizerTable says of a packet that is
\* too short, not of the size its header says, has a wrong checksum, or was
\* sent with another type than the one expected: the error named is the first
\* of these, and the Broker's model stands on it.
TableAgrees ==
  result # NONE /\ Storable(kind, sent.size) =>
    [ok |-> result.ok, code |-> result.code] = Table!Depacketize(Observed, ExpectedType)

\* "Implemented as defined in CCSDS 133.0-B-2" (CCSDSPacketizer.h:30): version
\* 0, type, secondary header flag and 11 bits of APID in the first word, flags
\* of an unsegmented packet and 14 bits of sequence count in the second, the
\* octets behind the header less one in the third, each high byte first.
IsCcsds(header, count, behind) ==
  LET word(j) == 256 * header[2 * j - 1] + header[2 * j]
  IN  /\ word(1) = TypeBit(sent.type) * 4096 + 2048 + sent.destination
      /\ word(2) = 3 * 16384 + count
      /\ word(3) = behind - 1

\* The number of the packet that was just written.
CountWritten ==
  IF packetSequenceCount = 0 THEN SPACE_PACKET_MAX_PACKET_SEQUENCE_COUNT ELSE packetSequenceCount - 1

StrictIsCcsds ==
  kind = "STRICT_CCSDS" /\ packet # NONE /\ fault = "none" /\ Storable(kind, sent.size) =>
    IsCcsds(packet.header, CountWritten, packet.size - HeaderSize(kind))

\* The same comment stands in Packetizer.h:30 for the default packetizer.
DefaultIsCcsds ==
  kind = "DEFAULT" /\ packet # NONE /\ fault = "none" =>
    IsCcsds(packet.header, CountWritten, packet.size - HeaderSize(kind))

\* Every data size that passes the assertions of packetize is read back.
AssertedIsReceived ==
  result # NONE /\ fault = "none" /\ sent.type = ExpectedType => result.ok

=============================================================================
