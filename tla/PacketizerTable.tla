-------------------------- MODULE PacketizerTable --------------------------
(***************************************************************************)
(* What the Broker sees of the packetizers: the function table it fills in *)
(* Broker_initialize_packetizers_functions and, for every kind, which      *)
(* fields a packet carries, what it checks on reception and in which order *)
(* and with which error codes.  The bytes of the fields are left out.      *)
(***************************************************************************)
EXTENDS Naturals

CONSTANTS
  Buses, Interfaces,      \* enum SystemBus, enum RemoteInterface, valid values
  Pids, Data,             \* sender PIDs and message payloads
  bus_to_packetizer_cfg,  \* bus -> kind of packetizer
  Provided,               \* buses whose device supplies packetize and depacketize
  INTERFACE_INVALID_ID,
  NONE                    \* a field that was never written

Kinds == {"DEFAULT", "CCSDS", "STRICT_CCSDS", "THIN", "DEVICE_PROVIDED", "PASSTHROUGH"}
PacketTypes == {"Telemetry", "Telecommand"}

ASSUME TableAssumption ==
  /\ bus_to_packetizer_cfg \in [Buses -> Kinds]
  /\ Provided \subseteq Buses
  /\ INTERFACE_INVALID_ID \notin Interfaces

\* The packetizers of the space packet family; DEFAULT and CCSDS share the
\* same three functions.
SpacePacket == {"DEFAULT", "CCSDS"}
Counted == SpacePacket \cup {"STRICT_CCSDS"}

\* The fields of a packet of the bus.  A device without a packetize function
\* yields an empty packet (DeviceProvidedPacketizer.c:47-49); what one with
\* such functions does is external, taken to be a bare header and the data.
Fields(b) ==
  CASE bus_to_packetizer_cfg[b] \in SpacePacket     -> {"dst", "seq", "data", "source", "crc"}
    [] bus_to_packetizer_cfg[b] = "STRICT_CCSDS"    -> {"dst", "seq", "data", "crc"}
    [] bus_to_packetizer_cfg[b] = "THIN"            -> {"dst", "data"}
    [] bus_to_packetizer_cfg[b] = "PASSTHROUGH"     -> {"data"}
    [] bus_to_packetizer_cfg[b] = "DEVICE_PROVIDED" -> IF b \in Provided THEN {"dst", "data"} ELSE {}

\* What the checksum covers: the header and the data, not the sender PID
\* behind them (Packetizer.c:212, CCSDSPacketizer.c:197).
Crc(dst, seq, data) == <<dst, seq, data>>

\* The packet for a request, numbered seq.
PacketFor(b, r, seq) ==
  LET all == [dst |-> r.dst, seq |-> seq, data |-> r.data, source |-> r.source,
              crc |-> Crc(r.dst, seq, r.data)]
  IN  [x \in Fields(b) |-> all[x]]

\* Mutants: the limit tested before the counter is raised; the first number
\* skipped after the wrap.
BumpLate(n, max) == IF n > max THEN 0 ELSE n + 1
BumpToOne(n, max) == IF n + 1 > max THEN 1 ELSE n + 1

\* A counter wraps to zero behind max (SPACE_PACKET_MAX_PACKET_SEQUENCE_COUNT).
Bump(n, max) == IF n + 1 > max THEN 0 ELSE n + 1

-----------------------------------------------------------------------------
(* Reception.  An input is what a driver hands over: its length against the *)
(* one in the header, whether the checksum is right, and the fields.        *)

Inputs == [bus: Buses, length: {"short", "wrong", "right"}, intact: BOOLEAN,
           type: PacketTypes, dst: Interfaces, source: Pids, data: Data]

\* Packetizer_ErrorCode; 0 is what Broker_receive_packet starts with.
IncorrectCrc16 == 1
IncorrectPacketType == 2
IncorrectPacketSize == 3
PacketTooSmall == 4

\* Mutant: the type is not looked at.
SpaceAnyType(i, packetType) ==
  CASE i.length = "short" -> [ok |-> FALSE, code |-> PacketTooSmall]
    [] i.length = "wrong" -> [ok |-> FALSE, code |-> IncorrectPacketSize]
    [] i.length = "right" -> [ok |-> i.intact, code |-> IF i.intact THEN 0 ELSE IncorrectCrc16]

\* Where *depacketize returns, with what in *error_code, when the node expects
\* packets of type packetType.  STRICT_CCSDS and THIN leave the code alone when
\* the packet is too small, as the missing device function does.
SpaceResult(i, packetType) ==
  CASE i.length = "short"        -> [ok |-> FALSE, code |-> PacketTooSmall]
    [] i.length = "wrong"        -> [ok |-> FALSE, code |-> IncorrectPacketSize]
    [] i.length = "right" /\ ~i.intact -> [ok |-> FALSE, code |-> IncorrectCrc16]
    [] i.length = "right" /\ i.intact /\ i.type # packetType
                                 -> [ok |-> FALSE, code |-> IncorrectPacketType]
    [] OTHER                     -> [ok |-> TRUE, code |-> 0]

StrictResult(i, packetType) ==
  IF i.length = "short" THEN [ok |-> FALSE, code |-> 0] ELSE SpaceResult(i, packetType)

ThinResult(i) ==
  CASE i.length = "short" -> [ok |-> FALSE, code |-> 0]
    [] i.length = "wrong" -> [ok |-> FALSE, code |-> IncorrectPacketSize]
    [] i.length = "right" -> [ok |-> TRUE, code |-> 0]

Depacketize(i, packetType) ==
  LET kind == bus_to_packetizer_cfg[i.bus]
  IN  CASE kind \in SpacePacket       -> SpaceResult(i, packetType)
        [] kind = "STRICT_CCSDS"      -> StrictResult(i, packetType)
        [] kind = "THIN"              -> ThinResult(i)
        [] kind = "PASSTHROUGH"       -> [ok |-> TRUE, code |-> 0]
        [] kind = "DEVICE_PROVIDED"   -> IF i.bus \in Provided THEN ThinResult(i)
                                         ELSE [ok |-> FALSE, code |-> 0]

\* Broker_packetizer_error_to_broker_error.
BrokerError(code) ==
  CASE code = IncorrectCrc16      -> "IncorrectCrc16"
    [] code = IncorrectPacketType -> "IncorrectPacketType"
    [] code = IncorrectPacketSize -> "IncorrectPacketSize"
    [] code = PacketTooSmall      -> "PacketTooSmall"
    [] OTHER                      -> "UnknownError"

\* The call of a deliver function: which one and with what arguments.  Only
\* space packets carry a source; *source stays 0 otherwise.  A passthrough
\* packet goes to the bus's unique port.
Delivery(i, unique) ==
  [to     |-> IF bus_to_packetizer_cfg[i.bus] = "PASSTHROUGH" THEN unique ELSE i.dst,
   source |-> IF bus_to_packetizer_cfg[i.bus] \in SpacePacket THEN i.source ELSE 0,
   data   |-> i.data]

=============================================================================
