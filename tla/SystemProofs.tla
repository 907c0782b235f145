---------------------------- MODULE SystemProofs ----------------------------
(***************************************************************************)
(* Proofs about System, for any number of nodes, buses, interfaces and     *)
(* devices and any tables that meet its assumptions: a node is stopped at  *)
(* its start exactly when it has to be, and a request is delivered to the  *)
(* interface it was made for.                                              *)
(***************************************************************************)
EXTENDS System, SequenceTheorems, TLAPS

Requests == [dst: Interfaces, source: Partitions, data: Data]
Packets == {PacketFor(b, r, 0) : b \in Buses, r \in Requests}
Messages == [of: Nat, type: PacketTypes, packet: Packets]
Calls == {Delivery(Input(b, m), unique) :
            b \in Buses, m \in Messages, unique \in Interfaces \cup {INTERFACE_INVALID_ID}}
Deliveries == [of: Nat, at: Partitions, call: Calls]
Errors == {BrokerError(code) : code \in 0..PacketTooSmall}
Refusals == [of: Nat, at: Partitions, error: Errors]

-----------------------------------------------------------------------------
(* The devices of a bus *)

\* The invalid identifiers are those of nothing that exists.
LEMMA Invalids ==
  /\ INTERFACE_INVALID_ID = 0 /\ BUS_INVALID_ID = 0
  /\ DEVICE_INVALID_ID = 0 /\ PARTITION_INVALID_ID = 0
BY DEF INTERFACE_INVALID_ID, BUS_INVALID_ID, DEVICE_INVALID_ID, PARTITION_INVALID_ID

\* The remote device is the other device of the bus, at another node.
LEMMA RemoteIsOther ==
  ASSUME NEW d \in Devices
  PROVE  LET e == get_remote_device_configuration(d)
         IN  e \in Devices /\ device_to_bus_map[e] = device_to_bus_map[d] /\ owner[e] # owner[d]
<1> DEFINE b == device_to_bus_map[d]
           others == {i \in 0..(SYSTEM_DEVICE_NUMBER - 1) : i # d /\ device_to_bus_map[i] = b}
<1>1. b \in Buses /\ d <= SYSTEM_DEVICE_NUMBER
  BY DeviceAssumption, SizeAssumption DEF Devices
<1>2. PICK f, g \in Devices :
        /\ {h \in Devices : device_to_bus_map[h] = b} = {f, g}
        /\ owner[f] # owner[g]
  BY <1>1, DeviceAssumption
<1>3. PICK e \in Devices : e # d /\ {f, g} = {d, e}
  BY <1>2
<1>4. owner[e] # owner[d] /\ device_to_bus_map[e] = b
  BY <1>2, <1>3
<1>5. others = {e}
  <2>1. \A i \in others : i \in Devices
    BY <1>1, DeviceAssumption, SizeAssumption, Invalids DEF Devices, Buses
  <2>2. others \subseteq {e}
    BY <2>1, <1>2, <1>3
  <2>3. e \in others
    BY <1>3, <1>4, SizeAssumption DEF Devices
  <2> QED BY <2>2, <2>3
<1>6. get_remote_device_configuration(d) = Min({e})
  <2>1. others # {} /\ ~(d > SYSTEM_DEVICE_NUMBER)
    BY <1>5, <1>1, SizeAssumption DEF Devices
  <2>2. get_remote_device_configuration(d) = Min(others)
    BY <2>1 DEF get_remote_device_configuration
  <2> QED BY <2>2, <1>5
<1>7. Min({e}) = e
  BY SizeAssumption DEF Min, Devices
<1> QED BY <1>4, <1>6, <1>7

\* No device provides functions of its own, and a bus has the packetizer of
\* its devices.
LEMMA KindOfBus ==
  ASSUME NEW b \in Buses
  PROVE  bus_to_packetizer_cfg[b] \in {"DEFAULT", "CCSDS", "STRICT_CCSDS", "THIN", "PASSTHROUGH"}
<1> DEFINE d == CHOOSE d \in Devices : device_to_bus_map[d] = b
<1>1. d \in Devices
  BY DeviceAssumption
<1>2. d <= SYSTEM_DEVICE_NUMBER /\ d \in 0..(SYSTEM_DEVICE_NUMBER - 1)
  BY <1>1, SizeAssumption DEF Devices
<1>3. get_device_packetizer_cfg(d) = packetizer_configurations[d]
  BY <1>2, SizeAssumption DEF get_device_packetizer_cfg
<1>4. packetizer_configurations[d] \in {"DEFAULT", "CCSDS", "STRICT_CCSDS", "THIN", "PASSTHROUGH"}
  BY <1>2, DeviceAssumption
<1>5. bus_to_packetizer_cfg[b] = get_device_packetizer_cfg(d)
  BY DEF bus_to_packetizer_cfg
<1> QED BY <1>3, <1>4, <1>5

\* A packet carries the data of its request, and its destination unless it is
\* one of a passthrough bus.  Of the checks at the other end its length and its
\* checksum pass, as the packetize function wrote them, so that the packet is
\* accepted or its type was not the expected one.
LEMMA PacketArrives ==
  ASSUME NEW b \in Buses, NEW r \in Requests, NEW unique, NEW m, NEW packetType,
         m.packet = PacketFor(b, r, 0)
  PROVE  LET input == Input(b, m)
             result == Depacketize(input, packetType)
         IN  /\ result.ok <=> (bus_to_packetizer_cfg[b] \in Counted => m.type = packetType)
             /\ ~result.ok => result.code = IncorrectPacketType
             /\ Delivery(input, unique).data = r.data
             /\ Delivery(input, unique).to =
                  IF bus_to_packetizer_cfg[b] = "PASSTHROUGH" THEN unique ELSE r.dst
<1> DEFINE packet == PacketFor(b, r, 0)
           input == Input(b, m)
           kind == bus_to_packetizer_cfg[b]
<1>1. kind \in {"DEFAULT", "CCSDS", "STRICT_CCSDS", "THIN", "PASSTHROUGH"}
  BY KindOfBus
<1>2. /\ "data" \in Fields(b) /\ (kind # "PASSTHROUGH" => "dst" \in Fields(b))
      /\ "crc" \in Fields(b) => "seq" \in Fields(b) /\ "dst" \in Fields(b)
  <2> HIDE DEF kind
  <2>1. kind = bus_to_packetizer_cfg[b]
    BY DEF kind
  <2> QED BY <1>1, <2>1 DEF Fields, SpacePacket
<1>3. /\ DOMAIN packet = Fields(b) /\ packet["data"] = r.data
      /\ kind # "PASSTHROUGH" => packet["dst"] = r.dst
      /\ "crc" \in Fields(b) => packet["crc"] = Crc(packet["dst"], packet["seq"], packet["data"])
  BY <1>2 DEF PacketFor
<1>4. m.packet = packet
  OBVIOUS
<1>5. /\ input.bus = b /\ input.length = "right" /\ input.intact = TRUE
      /\ input.type = m.type /\ input.data = r.data
      /\ kind # "PASSTHROUGH" => input.dst = r.dst
  <2> HIDE DEF packet, kind
  <2> QED BY <1>2, <1>3, <1>4 DEF Input
<1>6. LET result == Depacketize(input, packetType)
      IN  /\ result.ok <=> (kind \in Counted => m.type = packetType)
          /\ ~result.ok => result.code = IncorrectPacketType
  <2> HIDE DEF input
  <2>1. \A result \in {SpaceResult(input, packetType), StrictResult(input, packetType)} :
          /\ result.ok <=> m.type = packetType
          /\ ~result.ok => result.code = IncorrectPacketType
    BY <1>5 DEF SpaceResult, StrictResult
  <2>2. ThinResult(input).ok
    BY <1>5 DEF ThinResult
  <2>3. CASE kind \in SpacePacket
    BY <2>1, <2>3, <1>5 DEF Depacketize, SpacePacket, Counted
  <2>4. CASE kind = "STRICT_CCSDS"
    BY <2>1, <2>4, <1>5 DEF Depacketize, SpacePacket, Counted
  <2>5. CASE kind = "THIN" \/ kind = "PASSTHROUGH"
    BY <2>2, <2>5, <1>5 DEF Depacketize, SpacePacket, Counted
  <2> QED BY <2>3, <2>4, <2>5, <1>1 DEF SpacePacket
<1>7. /\ Delivery(input, unique).data = r.data
      /\ Delivery(input, unique).to = IF kind = "PASSTHROUGH" THEN unique ELSE r.dst
  <2> HIDE DEF input
  <2> QED BY <1>5 DEF Delivery
<1> QED BY <1>6, <1>7

-----------------------------------------------------------------------------
(* Types *)

\* The tables, the scan and the requests keep their types.
LEMMA TypeInit == Init => TypeOK
<1> SUFFICES ASSUME Init PROVE TypeOK
  OBVIOUS
<1>1. 1 \in 1..SYSTEM_BUSES_NUMBER /\ 0 \in 0..INTERFACE_MAX_ID
  BY SizeAssumption
<1>2. FirstOf(1) \in [bus: 1..SYSTEM_BUSES_NUMBER, index: 0..INTERFACE_MAX_ID,
                      found: Interfaces \cup {INTERFACE_INVALID_ID}]
  BY <1>1 DEF FirstOf
<1> QED BY <1>2 DEF Init, TypeOK

\* Every step of a node or a driver keeps the types.
LEMMA TypeNext == TypeOK /\ [Next]_vars => TypeOK'
<1> SUFFICES ASSUME TypeOK, [Next]_vars PROVE TypeOK'
  OBVIOUS
<1> DEFINE Found == Interfaces \cup {INTERFACE_INVALID_ID}
           Scans == [bus: 1..SYSTEM_BUSES_NUMBER, index: 0..INTERFACE_MAX_ID, found: Found]
<1>1. ASSUME NEW p \in Partitions, NEW found \in Found, scan[p].bus \in Buses, Return(p, found)
      PROVE  TypeOK'
  <2>1. scan[p].bus + 1 \in 1..SYSTEM_BUSES_NUMBER
    BY <1>1, SizeAssumption DEF Buses
  <2>2. FirstOf(scan[p].bus + 1) \in Scans
    BY <2>1, SizeAssumption DEF FirstOf
  <2>3. scan' \in [Partitions -> Scans]
    BY <2>2, <1>1 DEF TypeOK, Return
  <2>4. check_bus_has_any_destination_port(p, scan[p].bus) \in BOOLEAN
    BY DEF check_bus_has_any_destination_port
  <2>5. bus_has_any_destination_port' \in [Partitions -> [Buses -> BOOLEAN]]
    BY <2>4, <1>1, Zenon DEF TypeOK, Return
  <2>6. bus_to_unique_port_map' \in [Partitions -> [Buses -> Found]]
    BY <1>1, Zenon DEF TypeOK, Return
  <2> QED BY <2>3, <2>5, <2>6, <1>1 DEF TypeOK, Return, traffic
<1>2. ASSUME NEW p \in Partitions, FindStep(p) PROVE TypeOK'
  <2> DEFINE s == scan[p]
             match == s.index < INTERFACE_MAX_ID /\ IsDestination(p, s.index, s.bus)
  <2>1. s \in Scans /\ s.bus \in Buses
    BY <1>2 DEF TypeOK, FindStep
  <2>2. CASE s.index = INTERFACE_MAX_ID /\ Return(p, s.found)
    BY <2>1, <2>2, <1>1
  <2>3. CASE Return(p, INTERFACE_INVALID_ID)
    BY <2>1, <2>3, <1>1
  <2>4. CASE /\ s.index < INTERFACE_MAX_ID
             /\ scan' = [scan EXCEPT ![p].index = s.index + 1,
                                     ![p].found = IF match THEN s.index ELSE s.found]
             /\ UNCHANGED <<main, tables, traffic>>
    <3>1. s.index + 1 \in 0..INTERFACE_MAX_ID
      BY <2>1, <2>4, SizeAssumption
    <3>2. match => s.index \in Found
      BY <2>1, SizeAssumption, Invalids DEF Interfaces
    <3>3. scan' \in [Partitions -> Scans]
      BY <2>1, <2>4, <3>1, <3>2 DEF TypeOK
    <3> QED BY <2>4, <3>3 DEF TypeOK, tables, traffic
  <2> QED BY <1>2, <2>2, <2>3, <2>4 DEF FindStep
<1>3. ASSUME NEW p \in Partitions, Broker_initialize(p) PROVE TypeOK'
  BY <1>3 DEF TypeOK, Broker_initialize, tables, traffic
<1>4. ASSUME NEW p \in Partitions, NEW d \in Devices, NEW i \in Interfaces, NEW data \in Data,
             Broker_deliver_request(p, d, i, data)
      PROVE  TypeOK'
  <2>1. [dst |-> i, source |-> p, data |-> data] \in [dst: Interfaces, source: Partitions, data: Data]
    OBVIOUS
  <2>2. issued' \in Seq([dst: Interfaces, source: Partitions, data: Data])
    BY <2>1, <1>4 DEF TypeOK, Broker_deliver_request
  <2> QED BY <2>2, <1>4 DEF TypeOK, Broker_deliver_request, tables
<1>5. ASSUME NEW d \in Devices, Broker_receive_packet(d) PROVE TypeOK'
  BY <1>5 DEF TypeOK, Broker_receive_packet, tables
<1>6. CASE UNCHANGED vars
  BY <1>6 DEF TypeOK, vars, tables, traffic
<1> QED BY <1>2, <1>3, <1>4, <1>5, <1>6 DEF Next, Boot

\* Every variable of the system keeps its type, for any number of nodes,
\* buses, interfaces and devices: the loop of find_unique_destination never
\* runs past the table.
THEOREM SystemTypeCorrect == Spec => []TypeOK
<1> QED BY TypeInit, TypeNext, PTL DEF Spec

-----------------------------------------------------------------------------
(* The routing tables *)

\* What the two entries of bus b have to say of the ports of node p.
Right(p, b) ==
  /\ bus_to_unique_port_map[p][b] # INTERFACE_INVALID_ID =>
       PortsFrom(p, b) = {bus_to_unique_port_map[p][b]}
  /\ bus_to_unique_port_map[p][b] = INTERFACE_INVALID_ID =>
       PortsFrom(p, b) = {} \/ \E i, j \in PortsFrom(p, b) : i # j
  /\ bus_has_any_destination_port[p][b] <=> PortsFrom(p, b) # {}

\* The loop has found the only destination among the indexes it has passed,
\* or none.
Passed(p) ==
  LET s == scan[p]
  IN  /\ s.found # INTERFACE_INVALID_ID => s.found < s.index /\ IsDestination(p, s.found, s.bus)
      /\ \A i \in 0..(s.index - 1) : IsDestination(p, i, s.bus) => i = s.found

\* The entries of the buses dealt with are right, all of them once the Broker
\* was initialised.
RouteInv ==
  \A p \in Partitions :
    /\ \A b \in Buses : b < scan[p].bus => Right(p, b)
    /\ scan[p].bus \in Buses => Passed(p)
    /\ main[p] # "boot" => scan[p].bus \notin Buses

\* An index that the condition holds of is one of the ports.
LEMMA DestinationsArePorts ==
  ASSUME TypeOK, NEW p \in Partitions, NEW b \in Buses
  PROVE  \A i \in 0..(INTERFACE_MAX_ID - 1) : IsDestination(p, i, b) <=> i \in PortsFrom(p, b)
<1> SUFFICES ASSUME NEW i \in 0..(INTERFACE_MAX_ID - 1)
             PROVE  IsDestination(p, i, b) <=> i \in PortsFrom(p, b)
  OBVIOUS
<1>1. CASE i \in Interfaces
  BY <1>1 DEF IsDestination, PortsFrom
<1>2. CASE i = INTERFACE_INVALID_ID
  <2>1. port_to_partition_bus_map[i].bus = BUS_INVALID_ID
    BY <1>2, PortAssumption DEF TypeOK
  <2>2. b # BUS_INVALID_ID /\ i \notin Interfaces
    BY <1>2, Invalids, SizeAssumption DEF Buses, Interfaces
  <2> QED BY <2>1, <2>2 DEF IsDestination, PortsFrom
<1> QED BY <1>1, <1>2, Invalids, SizeAssumption DEF Interfaces

\* Before the first iteration no entry is claimed to be right.
LEMMA RouteInit == Init => RouteInv
<1> SUFFICES ASSUME Init, NEW p \in Partitions
             PROVE  /\ \A b \in Buses : b < scan[p].bus => Right(p, b)
                    /\ scan[p].bus \in Buses => Passed(p)
                    /\ main[p] # "boot" => scan[p].bus \notin Buses
  BY DEF RouteInv
<1>1. scan[p].bus = 1 /\ scan[p].index = 0 /\ scan[p].found = INTERFACE_INVALID_ID /\ main[p] = "boot"
  BY DEF Init, FirstOf
<1>2. \A b \in Buses : ~(b < scan[p].bus)
  BY <1>1, SizeAssumption DEF Buses
<1>3. Passed(p)
  BY <1>1 DEF Passed
<1> QED BY <1>1, <1>2, <1>3

\* What the loop returns, early or at its end, are right entries.
LEMMA ReturnRight ==
  ASSUME TypeOK, RouteInv, NEW p \in Partitions, scan[p].bus \in Buses, main[p] = "boot",
         NEW found \in Interfaces \cup {INTERFACE_INVALID_ID}, Return(p, found),
         \/ scan[p].index = INTERFACE_MAX_ID /\ found = scan[p].found
         \/ /\ scan[p].index < INTERFACE_MAX_ID /\ IsDestination(p, scan[p].index, scan[p].bus)
            /\ scan[p].found # INTERFACE_INVALID_ID /\ found = INTERFACE_INVALID_ID
  PROVE  RouteInv'
<1> DEFINE s == scan[p]
           Indexes == 0..(INTERFACE_MAX_ID - 1)
<1>0. PICK c \in Buses : c = scan[p].bus
  OBVIOUS
<1>1. /\ s.bus = c /\ s.index \in 0..INTERFACE_MAX_ID
      /\ s.found \in Interfaces \cup {INTERFACE_INVALID_ID} /\ Passed(p)
  BY <1>0 DEF TypeOK, RouteInv
<1>2. \A i \in Indexes : IsDestination(p, i, c) <=> i \in PortsFrom(p, c)
  BY DestinationsArePorts
<1>3. PortsFrom(p, c) \subseteq Indexes /\ INTERFACE_INVALID_ID \notin PortsFrom(p, c)
  BY SizeAssumption, Invalids DEF PortsFrom, Interfaces
<1>4. \A q, b : PortsFrom(q, b)' = PortsFrom(q, b)
  BY DEF Return, PortsFrom
<1>5. /\ bus_to_unique_port_map'[p][c] = found
      /\ bus_has_any_destination_port'[p][c] = check_bus_has_any_destination_port(p, c)
      /\ scan'[p] = FirstOf(c + 1) /\ main' = main
  BY <1>1 DEF TypeOK, Return
<1>6. Right(p, c)'
  <2>1. bus_has_any_destination_port'[p][c] <=> PortsFrom(p, c) # {}
    BY <1>2, <1>3, <1>5 DEF check_bus_has_any_destination_port
  <2> DEFINE Ports == PortsFrom(p, c)
  <2> SUFFICES /\ found # INTERFACE_INVALID_ID => Ports = {found}
               /\ found = INTERFACE_INVALID_ID => Ports = {} \/ \E i, j \in Ports : i # j
    BY <2>1, <1>4, <1>5 DEF Right
  <2>2. CASE s.index = INTERFACE_MAX_ID /\ found = s.found
    <3>1. \A i \in PortsFrom(p, c) : i = found
      BY <2>2, <1>1, <1>2, <1>3, SizeAssumption DEF Passed
    <3>2. found # INTERFACE_INVALID_ID => found \in PortsFrom(p, c)
      BY <2>2, <1>1, <1>2, SizeAssumption DEF Passed, Interfaces
    <3> QED BY <3>1, <3>2, <1>3
  <2>3. CASE /\ s.index < INTERFACE_MAX_ID /\ IsDestination(p, s.index, c)
             /\ s.found # INTERFACE_INVALID_ID /\ found = INTERFACE_INVALID_ID
    <3>1. s.index \in PortsFrom(p, c)
      BY <2>3, <1>1, <1>2, SizeAssumption
    <3>2. s.found \in PortsFrom(p, c) /\ s.found < s.index
      BY <2>3, <1>1, <1>2, SizeAssumption DEF Passed, Interfaces
    <3>3. s.found # s.index
      BY <3>2, <1>1, SizeAssumption, Invalids DEF Interfaces
    <3> QED BY <3>1, <3>2, <3>3, <2>3
  <2> QED BY <2>2, <2>3, <1>1
<1>7. ASSUME NEW q \in Partitions, NEW b \in Buses, q # p \/ b # c, Right(q, b)
      PROVE  Right(q, b)'
  <2>1. /\ bus_to_unique_port_map'[q][b] = bus_to_unique_port_map[q][b]
        /\ bus_has_any_destination_port'[q][b] = bus_has_any_destination_port[q][b]
    BY <1>7, <1>1 DEF TypeOK, Return
  <2> QED BY <2>1, <1>4, <1>7 DEF Right
<1>8. ASSUME NEW q \in Partitions, q # p
      PROVE  /\ \A b \in Buses : b < scan'[q].bus => Right(q, b)'
             /\ scan'[q].bus \in Buses => Passed(q)'
             /\ main'[q] # "boot" => scan'[q].bus \notin Buses
  <2>1. scan'[q] = scan[q] /\ main' = main /\ port_to_partition_bus_map' = port_to_partition_bus_map
    BY <1>8 DEF TypeOK, Return
  <2>2. Passed(q) => Passed(q)'
    BY <2>1 DEF Passed, IsDestination
  <2> QED BY <2>1, <2>2, <1>7, <1>8 DEF RouteInv
<1>9. /\ \A b \in Buses : b < scan'[p].bus => Right(p, b)'
      /\ scan'[p].bus \in Buses => Passed(p)'
      /\ main'[p] = "boot"
  <2>1. scan'[p].bus = c + 1 /\ scan'[p].index = 0 /\ scan'[p].found = INTERFACE_INVALID_ID
    BY <1>5 DEF FirstOf
  <2>2. \A b \in Buses : b < c + 1 => b = c \/ b < c
    BY <1>1, SizeAssumption DEF Buses
  <2>3. \A b \in Buses : b < c => b # c /\ Right(p, b)
    BY <1>1, SizeAssumption DEF RouteInv, Buses
  <2>4. Passed(p)'
    BY <2>1 DEF Passed
  <2>5. \A b \in Buses : b < c + 1 => Right(p, b)'
    BY <2>2, <2>3, <1>6, <1>7
  <2> QED BY <2>1, <2>4, <2>5, <1>5
<1> QED BY <1>8, <1>9 DEF RouteInv

\* The loop passes over an index only as its invariant says, and writes an entry only when it is right.
LEMMA RouteNext == TypeOK /\ RouteInv /\ [Next]_vars => RouteInv'
<1> SUFFICES ASSUME TypeOK, RouteInv, [Next]_vars PROVE RouteInv'
  OBVIOUS
<1>1. ASSUME NEW p \in Partitions, FindStep(p) PROVE RouteInv'
  <2> DEFINE s == scan[p]
             match == s.index < INTERFACE_MAX_ID /\ IsDestination(p, s.index, s.bus)
  <2>1. /\ s.bus \in Buses /\ main[p] = "boot" /\ s.index \in 0..INTERFACE_MAX_ID
        /\ s.found \in Interfaces \cup {INTERFACE_INVALID_ID} /\ Passed(p)
    BY <1>1 DEF TypeOK, FindStep, RouteInv
  <2>2. CASE s.index = INTERFACE_MAX_ID /\ Return(p, s.found)
    BY <2>1, <2>2, ReturnRight
  <2>3. CASE match /\ s.found # INTERFACE_INVALID_ID /\ Return(p, INTERFACE_INVALID_ID)
    BY <2>1, <2>3, ReturnRight
  <2>4. CASE /\ s.index < INTERFACE_MAX_ID
             /\ match => s.found = INTERFACE_INVALID_ID
             /\ scan' = [scan EXCEPT ![p].index = s.index + 1,
                                     ![p].found = IF match THEN s.index ELSE s.found]
             /\ UNCHANGED <<main, tables, traffic>>
    <3>1. /\ scan'[p].bus = s.bus /\ scan'[p].index = s.index + 1
          /\ scan'[p].found = IF match THEN s.index ELSE s.found
      BY <2>4 DEF TypeOK
    <3>2. \A q \in Partitions : (q # p => scan'[q] = scan[q]) /\ scan'[q].bus = scan[q].bus
      BY <2>4 DEF TypeOK
    <3>3. \A q, i, b : IsDestination(q, i, b)' = IsDestination(q, i, b)
      BY <2>4 DEF IsDestination, tables
    <3>4. \A q, b : Right(q, b)' = Right(q, b)
      BY <2>4 DEF Right, PortsFrom, tables
    <3>5. Passed(p)'
      <4>1. \A i \in 0..s.index : i \in 0..(s.index - 1) \/ i = s.index
        BY <2>1, SizeAssumption
      <4>2. CASE match
        <5>1. s.found = INTERFACE_INVALID_ID
          BY <2>4, <4>2
        <5>2. \A i \in 0..(s.index - 1) : ~IsDestination(p, i, s.bus)
          <6>1. IsDestination(p, INTERFACE_INVALID_ID, s.bus) => FALSE
            <7>1. INTERFACE_INVALID_ID \notin PortsFrom(p, s.bus) /\ INTERFACE_INVALID_ID \in 0..(INTERFACE_MAX_ID - 1)
              BY SizeAssumption, Invalids DEF PortsFrom, Interfaces
            <7> QED BY <7>1, <2>1, DestinationsArePorts
          <6> QED BY <6>1, <5>1, <2>1 DEF Passed
        <5> QED BY <4>1, <4>2, <5>2, <3>1, <3>3, <2>1, SizeAssumption DEF Passed
      <4>3. CASE ~match
        <5>1. \A i \in 0..s.index : IsDestination(p, i, s.bus) => i = s.found
          BY <4>1, <4>3, <2>1, <2>4 DEF Passed
        <5>2. s.found # INTERFACE_INVALID_ID => s.found < s.index + 1 /\ IsDestination(p, s.found, s.bus)
          BY <2>1, SizeAssumption DEF Passed, Interfaces
        <5> QED BY <5>1, <5>2, <4>3, <3>1, <3>3, <2>1, SizeAssumption DEF Passed
      <4> QED BY <4>2, <4>3
    <3>6. \A q \in Partitions : q # p => (Passed(q) => Passed(q)')
      BY <3>2, <3>3 DEF Passed
    <3> QED BY <3>2, <3>4, <3>5, <3>6, <2>4 DEF RouteInv
  <2> QED BY <1>1, <2>2, <2>3, <2>4 DEF FindStep
<1>2. ASSUME UNCHANGED <<scan, tables>>,
             \A q \in Partitions : main'[q] = main[q] \/ scan[q].bus \notin Buses
      PROVE  RouteInv'
  <2>1. \A q, b : Right(q, b)' = Right(q, b)
    BY <1>2 DEF Right, PortsFrom, tables
  <2>2. \A q : Passed(q)' = Passed(q)
    BY <1>2 DEF Passed, IsDestination, tables
  <2> QED BY <1>2, <2>1, <2>2 DEF RouteInv
<1>3. ASSUME NEW p \in Partitions, Broker_initialize(p) PROVE RouteInv'
  <2>1. \A q \in Partitions : main'[q] = main[q] \/ scan[q].bus \notin Buses
    BY <1>3 DEF TypeOK, Broker_initialize
  <2> QED BY <2>1, <1>2, <1>3 DEF Broker_initialize
<1>4. ASSUME NEW p \in Partitions, NEW d \in Devices, NEW i \in Interfaces, NEW data \in Data,
             Broker_deliver_request(p, d, i, data)
      PROVE  RouteInv'
  BY <1>2, <1>4 DEF Broker_deliver_request
<1>5. ASSUME NEW d \in Devices, Broker_receive_packet(d) PROVE RouteInv'
  BY <1>2, <1>5 DEF Broker_receive_packet
<1>6. CASE UNCHANGED vars
  BY <1>2, <1>6 DEF vars
<1> QED BY <1>1, <1>3, <1>4, <1>5, <1>6 DEF Next, Boot

\* A node's Broker was initialised with complete tables.
LEMMA TablesComplete ==
  ASSUME TypeOK, RouteInv, NEW p \in Partitions, scan[p].bus \notin Buses
  PROVE  \A b \in Buses : Right(p, b)
<1>1. scan[p].bus \in 1..SYSTEM_BUSES_NUMBER
  BY DEF TypeOK
<1>2. \A b \in Buses : b < scan[p].bus
  BY <1>1, SizeAssumption DEF Buses
<1> QED BY <1>2 DEF RouteInv

\* With complete tables the test of PassthroughPacketizer_init is the one for
\* two ports.
LEMMA AmbiguousMeans ==
  ASSUME NEW p \in Partitions, NEW b \in Buses, Right(p, b)
  PROVE  Ambiguous(p, b) <=>
           bus_to_packetizer_cfg[b] = "PASSTHROUGH" /\ \E i, j \in PortsFrom(p, b) : i # j
<1> HIDE DEF bus_to_packetizer_cfg
<1> QED BY DEF Right, Ambiguous

\* No node has initialised its Broker at the start.
LEMMA StopsInit == Init => StopsIfAmbiguous
BY DEF Init, StopsIfAmbiguous

\* Broker_initialize stops a node exactly if one of its buses is ambiguous; no other step changes who was stopped.
LEMMA StopsNext == TypeOK /\ RouteInv /\ StopsIfAmbiguous /\ [Next]_vars => StopsIfAmbiguous'
<1> SUFFICES ASSUME TypeOK, RouteInv, StopsIfAmbiguous, [Next]_vars PROVE StopsIfAmbiguous'
  OBVIOUS
<1> HIDE DEF bus_to_packetizer_cfg
<1>1. \A q, b : PortsFrom(q, b)' = PortsFrom(q, b)
  <2>1. port_to_partition_bus_map' = port_to_partition_bus_map
    BY DEF Next, Boot, FindStep, Return, Broker_initialize, Broker_deliver_request,
           Broker_receive_packet, vars, tables
  <2> QED BY <2>1 DEF PortsFrom
<1>2. CASE main' = main
  BY <1>1, <1>2 DEF StopsIfAmbiguous
<1>3. ASSUME NEW p \in Partitions, Broker_initialize(p) PROVE StopsIfAmbiguous'
  <2>1. \A b \in Buses : Right(p, b)
    BY <1>3, TablesComplete DEF Broker_initialize
  <2>2. main'[p] = IF \E b \in Buses : Joins(p, b) /\ Ambiguous(p, b) THEN "aborted" ELSE "running"
    BY <1>3 DEF Broker_initialize, TypeOK
  <2>3. \A q \in Partitions : q # p => main'[q] = main[q]
    BY <1>3 DEF Broker_initialize, TypeOK
  <2>4. main'[p] = "aborted" <=>
          \E b \in Buses : /\ Joins(p, b) /\ bus_to_packetizer_cfg[b] = "PASSTHROUGH"
                           /\ \E i, j \in PortsFrom(p, b) : i # j
    BY <2>1, <2>2, AmbiguousMeans
  <2> QED BY <2>3, <2>4, <1>1 DEF StopsIfAmbiguous
<1>4. main' = main \/ \E p \in Partitions : Broker_initialize(p)
  BY DEF Next, Boot, FindStep, Return, Broker_deliver_request, Broker_receive_packet, vars, traffic
<1> QED BY <1>2, <1>3, <1>4

RoutingInv == TypeOK /\ RouteInv /\ StopsIfAmbiguous

\* Types, tables and who is stopped, together.
LEMMA RoutingInvariant == Spec => []RoutingInv
<1>1. Init => RoutingInv
  BY TypeInit, RouteInit, StopsInit DEF RoutingInv
<1>2. RoutingInv /\ [Next]_vars => RoutingInv'
  BY TypeNext, RouteNext, StopsNext DEF RoutingInv
<1> QED BY <1>1, <1>2, PTL DEF Spec

\* A node is stopped at its start exactly if one of its passthrough buses
\* leaves open which interface a packet is for, whatever the generated tables:
\* the loop of find_unique_destination neither misses a second port nor takes
\* an unused bus for an ambiguous one.
THEOREM NodesStopIfAmbiguous == Spec => []StopsIfAmbiguous
<1>1. RoutingInv => StopsIfAmbiguous
  BY DEF RoutingInv
<1> QED BY <1>1, RoutingInvariant, PTL

-----------------------------------------------------------------------------
(* The traffic *)

\* A packet on its way to device d is that of a request made at the other end
\* of the device's bus.
Stems(m, d) ==
  /\ m.of \in 1..Len(issued)
  /\ port_to_partition_bus_map[issued[m.of].dst].bus = device_to_bus_map[d]
  /\ port_to_partition_bus_map[issued[m.of].dst].partition = issued[m.of].source
  /\ owner[d] # issued[m.of].source
  /\ m.packet = PacketFor(device_to_bus_map[d], issued[m.of], 0)
  /\ m.type = SendType[issued[m.of].source]

\* A packet is refused at the other end of its bus, if anywhere.
RefusedThere ==
  \A k \in 1..Len(refused) :
    Joins(refused[k].at, port_to_partition_bus_map[issued[refused[k].of].dst].bus)

TrafficInv ==
  /\ inbox \in [Devices -> Seq(Messages)]
  /\ \A d \in Devices : \A k \in 1..Len(inbox[d]) : Stems(inbox[d][k], d)
  /\ delivered \in Seq(Deliveries)
  /\ \A k \in 1..Len(delivered) : delivered[k].of \in 1..Len(issued)
  /\ refused \in Seq(Refusals)
  /\ \A k \in 1..Len(refused) : refused[k].of \in 1..Len(issued)
  /\ RightInterface
  /\ RefusedIfTypesDiffer
  /\ RefusedThere

\* Nothing is under way or delivered at the start.
LEMMA TrafficInit == Init => TrafficInv
<1> SUFFICES ASSUME Init PROVE TrafficInv
  OBVIOUS
<1>1. inbox \in [Devices -> Seq(Messages)] /\ \A d \in Devices : Len(inbox[d]) = 0
  BY DEF Init
<1>2. /\ Len(delivered) = 0 /\ delivered \in Seq(Deliveries)
      /\ Len(refused) = 0 /\ refused \in Seq(Refusals)
  BY DEF Init
<1> QED BY <1>1, <1>2 DEF TrafficInv, RightInterface, RefusedIfTypesDiffer, RefusedThere

\* Requests put a packet of their own on their bus, receptions take one to the interface it stems from.
LEMMA TrafficNext == RoutingInv /\ TrafficInv /\ [Next]_vars => TrafficInv'
<1> SUFFICES ASSUME RoutingInv, TrafficInv, [Next]_vars PROVE TrafficInv'
  OBVIOUS
<1>0. TypeOK /\ RouteInv /\ StopsIfAmbiguous
  BY DEF RoutingInv
<1> HIDE DEF bus_to_packetizer_cfg
<1>1. ASSUME UNCHANGED <<port_to_partition_bus_map, traffic>> PROVE TrafficInv'
  <2>1. UNCHANGED <<port_to_partition_bus_map, inbox, issued, delivered, refused>>
    BY <1>1 DEF traffic
  <2>2. \A d \in Devices : \A k \in 1..Len(inbox'[d]) : Stems(inbox[d][k], d)'
    <3>1. ASSUME NEW d \in Devices, NEW k \in 1..Len(inbox[d]) PROVE Stems(inbox[d][k], d)'
      <4>1. Stems(inbox[d][k], d)
        BY DEF TrafficInv
      <4> QED BY <4>1, <2>1 DEF Stems
    <3> QED BY <3>1, <2>1
  <2>3. RightInterface'
    BY <2>1 DEF TrafficInv, RightInterface, Joins
  <2>4. RefusedIfTypesDiffer'
    BY <2>1 DEF TrafficInv, RefusedIfTypesDiffer, TypesMatch
  <2>5. RefusedThere'
    BY <2>1 DEF TrafficInv, RefusedThere, Joins
  <2> QED BY <2>1, <2>2, <2>3, <2>4, <2>5 DEF TrafficInv
<1>2. ASSUME NEW p \in Partitions, NEW d \in Devices, NEW i \in Interfaces, NEW data \in Data,
             Broker_deliver_request(p, d, i, data)
      PROVE  TrafficInv'
  <2> DEFINE r == [dst |-> i, source |-> p, data |-> data]
  <2>1. PICK b : b = port_to_partition_bus_map[i].bus
    OBVIOUS
  <2>2. PICK e : e = get_remote_device_configuration(d)
    OBVIOUS
  <2>3. PICK n : n = Len(issued) + 1
    OBVIOUS
  <2> DEFINE m == [of |-> n, type |-> SendType[p], packet |-> PacketFor(b, r, 0)]
  <2>4. /\ e \in Devices /\ device_to_bus_map[e] = b /\ b \in Buses /\ owner[e] # p
        /\ port_to_partition_bus_map[i].partition = p /\ r \in Requests
    BY <1>2, <2>1, <2>2, RemoteIsOther, DeviceAssumption DEF Broker_deliver_request, Requests
  <2>5. /\ issued \in Seq(Requests) /\ issued' = Append(issued, r)
        /\ issued' \in Seq(Requests) /\ Len(issued') = n /\ n \in Nat
        /\ issued'[n] = r /\ \A k \in 1..Len(issued) : issued'[k] = issued[k]
        /\ Len(issued) \in Nat
    BY <1>0, <1>2, <2>3, <2>4 DEF TypeOK, Requests, Broker_deliver_request
  <2>6. m \in Messages
    BY <2>4, <2>5, CompiledAssumption DEF Messages, Packets
  <2>7. inbox' = [inbox EXCEPT ![e] = Append(@, m)]
    BY <1>2, <2>1, <2>2, <2>5 DEF Broker_deliver_request
  <2>8. UNCHANGED <<port_to_partition_bus_map, delivered, refused>>
    BY <1>2 DEF Broker_deliver_request, tables
  <2>9. inbox' \in [Devices -> Seq(Messages)]
    BY <2>4, <2>6, <2>7 DEF TrafficInv
  <2>10. ASSUME NEW f \in Devices, NEW k \in 1..Len(inbox'[f]), NEW y, y = inbox'[f][k]
         PROVE  Stems(y, f)'
    <3>1. CASE f = e /\ k = Len(inbox[e]) + 1
      <4>1. y = m
        BY <2>10, <3>1, <2>4, <2>6, <2>7 DEF TrafficInv
      <4>2. /\ m.of = n /\ m.packet = PacketFor(b, r, 0) /\ m.type = SendType[p]
            /\ r.dst = i /\ r.source = p
        OBVIOUS
      <4> HIDE DEF m, r
      <4>3. PacketFor(device_to_bus_map[e], issued'[n], 0) = PacketFor(b, r, 0)
        BY <2>4, <2>5
      <4> QED BY <4>1, <4>2, <4>3, <3>1, <2>1, <2>4, <2>5, <2>8 DEF Stems
    <3>2. CASE ~(f = e /\ k = Len(inbox[e]) + 1)
      <4>1. k \in 1..Len(inbox[f]) /\ y = inbox[f][k]
        BY <2>10, <3>2, <2>4, <2>6, <2>7 DEF TrafficInv
      <4>2. Stems(y, f)
        BY <4>1 DEF TrafficInv
      <4> HIDE DEF m, r
      <4>4. y.of \in 1..Len(issued') /\ issued'[y.of] = issued[y.of]
        BY <4>2, <2>3, <2>5 DEF Stems
      <4> QED BY <4>2, <4>4, <2>8 DEF Stems
    <3> QED BY <3>1, <3>2
  <2>11. \A k \in 1..Len(delivered) :
           delivered[k].of \in 1..Len(issued) /\ delivered[k].of \in 1..Len(issued')
             /\ issued'[delivered[k].of] = issued[delivered[k].of]
    BY <2>3, <2>5 DEF TrafficInv
  <2>12. RightInterface'
    BY <2>8, <2>11 DEF TrafficInv, RightInterface
  <2>15. \A k \in 1..Len(refused) :
           refused[k].of \in 1..Len(issued) /\ refused[k].of \in 1..Len(issued')
             /\ issued'[refused[k].of] = issued[refused[k].of]
    BY <2>3, <2>5 DEF TrafficInv
  <2>16. RefusedIfTypesDiffer'
    BY <2>8, <2>11, <2>15 DEF TrafficInv, RefusedIfTypesDiffer, TypesMatch
  <2>17. RefusedThere'
    <3>1. ASSUME NEW k \in 1..Len(refused)
          PROVE  Joins(refused[k].at, port_to_partition_bus_map[issued'[refused[k].of].dst].bus)
      BY <2>15 DEF TrafficInv, RefusedThere
    <3> QED BY <3>1, <2>8 DEF RefusedThere, Joins
  <2>13. (\A f \in Devices : \A k \in 1..Len(inbox[f]) : Stems(inbox[f][k], f))'
    BY ONLY <2>10 DEF Stems
  <2>14. delivered' \in Seq(Deliveries) /\ refused' \in Seq(Refusals)
    BY <2>8 DEF TrafficInv
  <2> QED BY <2>8, <2>9, <2>11, <2>12, <2>13, <2>14, <2>15, <2>16, <2>17 DEF TrafficInv
<1>3. ASSUME NEW d \in Devices, Broker_receive_packet(d) PROVE TrafficInv'
  <2>1. PICK p \in Partitions : p = owner[d]
    BY DeviceAssumption
  <2>2. PICK b \in Buses : b = device_to_bus_map[d]
    BY DeviceAssumption
  <2>3. PICK m \in Messages : m = Head(inbox[d])
    BY <1>3 DEF TrafficInv, Broker_receive_packet
  <2>4. inbox[d] # <<>> /\ Stems(m, d)
    BY <1>3, <2>3 DEF TrafficInv, Broker_receive_packet
  <2>5. PICK r \in Requests : r = issued[m.of]
    <3>1. issued \in Seq(Requests) /\ m.of \in 1..Len(issued)
      BY <1>0, <2>4 DEF TypeOK, Requests, Stems
    <3> QED BY <3>1
  <2>6. /\ port_to_partition_bus_map[r.dst].bus = b
        /\ port_to_partition_bus_map[r.dst].partition = r.source
        /\ p # r.source /\ m.packet = PacketFor(b, r, 0) /\ m.type = SendType[r.source]
    BY <2>1, <2>2, <2>4, <2>5 DEF Stems
  <2>7. PICK c : c = Delivery(Input(b, m), bus_to_unique_port_map[p][b])
    OBVIOUS
  <2>8. PICK result : result = Depacketize(Input(b, m), ExpectType[p])
    OBVIOUS
  <2>9. /\ c.data = r.data /\ c.to = IF bus_to_packetizer_cfg[b] = "PASSTHROUGH"
                                     THEN bus_to_unique_port_map[p][b] ELSE r.dst
        /\ result.ok <=> TypesMatch(b, r.source, p)
        /\ ~result.ok => result.code = IncorrectPacketType
    BY <2>6, <2>7, <2>8, PacketArrives DEF TypesMatch
  <2>10. bus_to_packetizer_cfg[b] = "PASSTHROUGH" => bus_to_unique_port_map[p][b] = r.dst
    <3>1. SUFFICES ASSUME bus_to_packetizer_cfg[b] = "PASSTHROUGH"
                   PROVE  bus_to_unique_port_map[p][b] = r.dst
      OBVIOUS
    <3>2. main[p] = "running" /\ scan[p].bus \notin Buses
      BY <1>0, <1>3, <2>1 DEF Broker_receive_packet, RouteInv
    <3>3. Right(p, b)
      BY <1>0, <3>2, TablesComplete
    <3>4. r.dst \in PortsFrom(p, b)
      BY <2>6 DEF PortsFrom, Requests
    <3>5. Joins(p, b)
      BY <2>1, <2>2 DEF Joins
    <3>6. ~ \E i, j \in PortsFrom(p, b) : i # j
      BY <1>0, <3>1, <3>2, <3>5 DEF StopsIfAmbiguous
    <3> QED BY <3>3, <3>4, <3>6 DEF Right
  <2> DEFINE call == [of |-> m.of, at |-> p, call |-> c]
             refusal == [of |-> m.of, at |-> p, error |-> BrokerError(result.code)]
  <2>11. /\ \/ result.ok /\ delivered' = Append(delivered, call) /\ refused' = refused
            \/ ~result.ok /\ refused' = Append(refused, refusal) /\ delivered' = delivered
         /\ inbox' = [inbox EXCEPT ![d] = Tail(@)]
         /\ UNCHANGED <<port_to_partition_bus_map, issued>>
    BY <1>3, <2>1, <2>2, <2>3, <2>7, <2>8 DEF Broker_receive_packet, tables
  <2>12. /\ call.of = m.of /\ call.at = p /\ call.call = c
         /\ refusal.of = m.of /\ refusal.at = p /\ refusal.error = BrokerError(result.code)
    OBVIOUS
  <2>13. call \in Deliveries
    <3>1. bus_to_unique_port_map[p][b] \in Interfaces \cup {INTERFACE_INVALID_ID}
      BY <1>0 DEF TypeOK
    <3>2. c \in Calls
      BY <3>1, <2>7 DEF Calls
    <3> QED BY <3>2 DEF Deliveries, Messages
  <2>14. ~result.ok => refusal \in Refusals /\ refusal.error = "IncorrectPacketType"
    <3>1. IncorrectPacketType \in 0..PacketTooSmall /\ BrokerError(IncorrectPacketType) = "IncorrectPacketType"
      BY DEF IncorrectPacketType, PacketTooSmall, BrokerError, IncorrectCrc16, IncorrectPacketSize
    <3>2. BrokerError(IncorrectPacketType) \in Errors
      BY <3>1 DEF Errors
    <3> QED BY <3>1, <3>2, <2>9 DEF Refusals, Messages
  <2> HIDE DEF call, refusal
  <2>15. inbox' \in [Devices -> Seq(Messages)]
    BY <2>4, <2>11 DEF TrafficInv
  <2>16. ASSUME NEW f \in Devices, NEW k \in 1..Len(inbox'[f]), NEW y, y = inbox'[f][k]
         PROVE  Stems(y, f)'
    <3>1. \E j \in 1..Len(inbox[f]) : y = inbox[f][j]
      <4>1. CASE f = d
        <5>1. inbox'[f] = Tail(inbox[d]) /\ inbox[d] \in Seq(Messages)
          BY <4>1, <2>11 DEF TrafficInv
        <5>2. k + 1 \in 1..Len(inbox[d]) /\ Tail(inbox[d])[k] = inbox[d][k + 1]
          BY <5>1, <2>4, <2>16
        <5> QED BY <4>1, <5>1, <5>2, <2>16
      <4>2. CASE f # d
        BY <4>2, <2>11, <2>16 DEF TrafficInv
      <4> QED BY <4>1, <4>2
    <3>2. Stems(y, f)
      BY <3>1 DEF TrafficInv
    <3> QED BY <3>2, <2>11 DEF Stems
  <2>17. (\A f \in Devices : \A k \in 1..Len(inbox[f]) : Stems(inbox[f][k], f))'
    BY ONLY <2>16 DEF Stems
  <2>18. Joins(p, b) /\ m.of \in 1..Len(issued)
    BY <2>1, <2>2, <2>4 DEF Joins, Stems
  <2>19. /\ delivered' \in Seq(Deliveries)
         /\ \A k \in 1..Len(delivered') :
              \/ k \in 1..Len(delivered) /\ delivered'[k] = delivered[k]
              \/ result.ok /\ delivered'[k] = call
    <3>1. delivered \in Seq(Deliveries)
      BY DEF TrafficInv
    <3>2. CASE result.ok
      BY <3>1, <3>2, <2>11, <2>13, AppendProperties
    <3>3. CASE ~result.ok
      BY <3>1, <3>3, <2>11
    <3> QED BY <3>2, <3>3
  <2>20. /\ refused' \in Seq(Refusals)
         /\ \A k \in 1..Len(refused') :
              \/ k \in 1..Len(refused) /\ refused'[k] = refused[k]
              \/ ~result.ok /\ refused'[k] = refusal
    <3>1. refused \in Seq(Refusals)
      BY DEF TrafficInv
    <3>2. CASE ~result.ok
      BY <3>1, <3>2, <2>11, <2>14, AppendProperties
    <3>3. CASE result.ok
      BY <3>1, <3>3, <2>11
    <3> QED BY <3>2, <3>3
  <2>21. /\ \A k \in 1..Len(delivered') : delivered'[k].of \in 1..Len(issued')
         /\ \A k \in 1..Len(refused') : refused'[k].of \in 1..Len(issued')
    BY <2>11, <2>12, <2>18, <2>19, <2>20 DEF TrafficInv
  <2>22. ASSUME NEW k \in 1..Len(delivered')
         PROVE  LET q == issued'[delivered'[k].of]
                IN  /\ delivered'[k].call.to = q.dst /\ delivered'[k].call.data = q.data
                    /\ delivered'[k].at # q.source
                    /\ Joins(delivered'[k].at, port_to_partition_bus_map'[q.dst].bus)
                    /\ TypesMatch(port_to_partition_bus_map'[q.dst].bus, q.source, delivered'[k].at)
    <3>1. CASE result.ok /\ delivered'[k] = call
      BY <3>1, <2>5, <2>6, <2>9, <2>10, <2>11, <2>12, <2>18
    <3>2. CASE k \in 1..Len(delivered) /\ delivered'[k] = delivered[k]
      BY <3>2, <2>11 DEF TrafficInv, RightInterface, RefusedIfTypesDiffer, RefusedThere
    <3> QED BY <3>1, <3>2, <2>19
  <2>23. ASSUME NEW k \in 1..Len(refused')
         PROVE  LET q == issued'[refused'[k].of]
                IN  /\ ~TypesMatch(port_to_partition_bus_map'[q.dst].bus, q.source, refused'[k].at)
                    /\ refused'[k].error = "IncorrectPacketType"
                    /\ Joins(refused'[k].at, port_to_partition_bus_map'[q.dst].bus)
    <3>1. CASE ~result.ok /\ refused'[k] = refusal
      BY <3>1, <2>5, <2>6, <2>9, <2>11, <2>12, <2>14, <2>18
    <3>2. CASE k \in 1..Len(refused) /\ refused'[k] = refused[k]
      BY <3>2, <2>11 DEF TrafficInv, RefusedIfTypesDiffer, RefusedThere
    <3> QED BY <3>1, <3>2, <2>20
  <2>24. RightInterface'
    BY <2>22 DEF RightInterface, Joins
  <2>25. RefusedIfTypesDiffer' /\ RefusedThere'
    BY <2>22, <2>23 DEF RefusedIfTypesDiffer, RefusedThere, TypesMatch, Joins
  <2> QED BY <2>15, <2>17, <2>19, <2>20, <2>21, <2>24, <2>25 DEF TrafficInv
<1> QED BY <1>1, <1>2, <1>3 DEF Next, Boot, FindStep, Return, Broker_initialize, tables, vars

\* TrafficInv is an invariant of the system.
LEMMA TrafficInvariant == Spec => []TrafficInv
<1>1. Init => TrafficInv
  BY TrafficInit
<1>2. RoutingInv /\ TrafficInv /\ [Next]_vars => TrafficInv'
  BY TrafficNext
<1> QED BY <1>1, <1>2, RoutingInvariant, PTL DEF Spec

\* Whatever the tables, the number of nodes and the order in which they start:
\* a request is delivered to the interface it was made for, at the node at the
\* other end of its bus, also over a bus whose packets do not carry the
\* interface.
THEOREM RequestsRouted == Spec => []RightInterface
<1>1. TrafficInv => RightInterface
  BY DEF TrafficInv
<1> QED BY <1>1, TrafficInvariant, PTL

\* Whatever a node has packetized passes every check of Broker_receive_packet
\* at the other end but the one of the type: a callback of on_error is told
\* IncorrectPacketType and nothing else, and told it exactly of the packets of
\* a node that was compiled to send another type than the receiver expects,
\* over a bus whose packets carry one.
THEOREM RefusedForType == Spec => []RefusedIfTypesDiffer
<1>1. TrafficInv => RefusedIfTypesDiffer
  BY DEF TrafficInv
<1> QED BY <1>1, TrafficInvariant, PTL

-----------------------------------------------------------------------------
(* Nothing is lost: what was sent is under way, was delivered or refused.  *)

UnderWay(n) == \E d \in Devices : \E k \in 1..Len(inbox[d]) : inbox[d][k].of = n
Came(n) == \E k \in 1..Len(delivered) : delivered[k].of = n
Refused(n) == \E k \in 1..Len(refused) : refused[k].of = n

KeptInv == \A n \in 1..Len(issued) : UnderWay(n) \/ Came(n) \/ Refused(n)

\* A step takes a packet from a bus only to deliver it or to report it.
LEMMA KeptNext ==
  ASSUME TypeOK, TrafficInv, TrafficInv', KeptInv, [Next]_vars
  PROVE  KeptInv'
<1>0. /\ inbox \in [Devices -> Seq(Messages)] /\ delivered \in Seq(Deliveries)
      /\ refused \in Seq(Refusals) /\ Len(issued) \in Nat
  BY DEF TrafficInv, TypeOK
<1>1. ASSUME UNCHANGED traffic PROVE KeptInv'
  BY <1>1 DEF KeptInv, UnderWay, Came, Refused, traffic
<1>2. ASSUME NEW p \in Partitions, NEW d \in Devices, NEW i \in Interfaces, NEW data \in Data,
             Broker_deliver_request(p, d, i, data)
      PROVE  KeptInv'
  <2>1. PICK e \in Devices : e = get_remote_device_configuration(d)
    BY <1>2, RemoteIsOther DEF Broker_deliver_request
  <2>2. PICK m : /\ inbox' = [inbox EXCEPT ![e] = Append(@, m)]
                 /\ m.of = Len(issued) + 1
    <3>1. /\ issued' = Append(issued, [dst |-> i, source |-> p, data |-> data])
          /\ issued \in Seq([dst: Interfaces, source: Partitions, data: Data])
      BY <1>2 DEF Broker_deliver_request, TypeOK
    <3>2. Len(issued') = Len(issued) + 1
      BY <3>1
    <3>3. PICK packet :
            inbox' = [inbox EXCEPT ![e] =
                        Append(@, [of |-> Len(issued'), type |-> SendType[p], packet |-> packet])]
      BY <1>2, <2>1 DEF Broker_deliver_request
    <3>4. [of |-> Len(issued'), type |-> SendType[p], packet |-> packet].of = Len(issued) + 1
      BY <3>2
    <3> QED BY <3>3, <3>4
  <2>3. delivered' = delivered /\ refused' = refused /\ Len(issued') = Len(issued) + 1
    BY <1>2 DEF Broker_deliver_request, TypeOK
  <2>4. /\ Len(inbox'[e]) = Len(inbox[e]) + 1 /\ Len(inbox[e]) \in Nat
        /\ inbox'[e][Len(inbox[e]) + 1] = m
        /\ \A k \in 1..Len(inbox[e]) : inbox'[e][k] = inbox[e][k]
    <3>1. inbox'[e] = Append(inbox[e], m) /\ inbox[e] \in Seq(Messages)
      BY <1>0, <2>2
    <3> QED BY <3>1
  <2>5. \A f \in Devices : f # e => inbox'[f] = inbox[f]
    BY <1>0, <2>2
  <2>6. ASSUME NEW n \in 1..Len(issued), UnderWay(n) PROVE UnderWay(n)'
    <3>1. PICK f \in Devices : \E k \in 1..Len(inbox[f]) : inbox[f][k].of = n
      BY <2>6 DEF UnderWay
    <3>2. PICK k \in 1..Len(inbox[f]) : inbox[f][k].of = n
      BY <3>1
    <3>3. k \in 1..Len(inbox'[f]) /\ inbox'[f][k] = inbox[f][k]
      BY <2>4, <2>5, <3>2
    <3> QED BY <3>2, <3>3 DEF UnderWay
  <2>7. ASSUME NEW n, n = Len(issued) + 1 PROVE UnderWay(n)'
    <3>1. Len(inbox[e]) + 1 \in 1..Len(inbox'[e])
      BY <2>4
    <3> QED BY <2>2, <2>4, <2>7, <3>1 DEF UnderWay
  <2>8. \A n \in 1..Len(issued) : (Came(n) => Came(n)') /\ (Refused(n) => Refused(n)')
    BY <2>3 DEF Came, Refused
  <2>9. ASSUME NEW n \in 1..Len(issued') PROVE n \in 1..Len(issued) \/ n = Len(issued) + 1
    BY <1>0, <2>3
  <2> QED BY <2>6, <2>7, <2>8, <2>9 DEF KeptInv
<1>3. ASSUME NEW d \in Devices, Broker_receive_packet(d) PROVE KeptInv'
  <2>1. inbox[d] # <<>> /\ inbox' = [inbox EXCEPT ![d] = Tail(@)] /\ issued' = issued
    BY <1>3 DEF Broker_receive_packet
  <2>0. PICK of : of = Head(inbox[d]).of
    OBVIOUS
  <2>2. \A n : n = of => Came(n)' \/ Refused(n)'
    <3>1. \/ \E call : delivered' = Append(delivered, call) /\ call.of = of
          \/ \E refusal : refused' = Append(refused, refusal) /\ refusal.of = of
      BY <1>3, <2>0 DEF Broker_receive_packet
    <3>2. ASSUME NEW call, delivered' = Append(delivered, call), call.of = of PROVE Came(of)'
      <4>1. Len(delivered') = Len(delivered) + 1 /\ Len(delivered) \in Nat
        BY <1>0, <3>2
      <4>2. delivered'[Len(delivered) + 1] = call
        BY <1>0, <3>2
      <4> QED BY <3>2, <4>1, <4>2 DEF Came
    <3>3. ASSUME NEW refusal, refused' = Append(refused, refusal), refusal.of = of PROVE Refused(of)'
      <4>1. Len(refused') = Len(refused) + 1 /\ Len(refused) \in Nat
        BY <1>0, <3>3
      <4>2. refused'[Len(refused) + 1] = refusal
        BY <1>0, <3>3
      <4> QED BY <3>3, <4>1, <4>2 DEF Refused
    <3> QED BY <3>1, <3>2, <3>3
  <2>3. /\ Len(delivered) \in Nat /\ Len(refused) \in Nat
        /\ Len(delivered) <= Len(delivered') /\ Len(refused) <= Len(refused')
        /\ Len(delivered') \in Nat /\ Len(refused') \in Nat
        /\ \A k \in 1..Len(delivered) : delivered'[k] = delivered[k]
        /\ \A k \in 1..Len(refused) : refused'[k] = refused[k]
    <3>1. \/ delivered' = delivered /\ \E refusal : refused' = Append(refused, refusal)
          \/ refused' = refused /\ \E call : delivered' = Append(delivered, call)
      BY <1>3 DEF Broker_receive_packet
    <3>2. CASE delivered' = delivered /\ \E refusal : refused' = Append(refused, refusal)
      BY <1>0, <3>2
    <3>3. CASE refused' = refused /\ \E call : delivered' = Append(delivered, call)
      BY <1>0, <3>3
    <3> QED BY <3>1, <3>2, <3>3
  <2>4. ASSUME NEW n \in 1..Len(issued), Came(n) \/ Refused(n) PROVE Came(n)' \/ Refused(n)'
    <3>1. CASE Came(n)
      BY <2>3, <3>1 DEF Came
    <3>2. CASE Refused(n)
      BY <2>3, <3>2 DEF Refused
    <3> QED BY <2>4, <3>1, <3>2
  <2>5. ASSUME NEW n \in 1..Len(issued), UnderWay(n) PROVE UnderWay(n)' \/ Came(n)' \/ Refused(n)'
    <3>1. PICK f \in Devices : \E k \in 1..Len(inbox[f]) : inbox[f][k].of = n
      BY <2>5 DEF UnderWay
    <3>2. PICK k \in 1..Len(inbox[f]) : inbox[f][k].of = n
      BY <3>1
    <3>3. CASE f # d
      BY <1>0, <2>1, <3>2, <3>3 DEF UnderWay
    <3>4. CASE f = d /\ k = 1
      <4>1. of = n
        BY <1>0, <2>0, <3>2, <3>4
      <4> QED BY <2>2, <4>1
    <3>5. CASE f = d /\ k # 1
      <4>1. inbox'[d] = Tail(inbox[d]) /\ inbox[d] \in Seq(Messages)
        BY <1>0, <2>1
      <4>2. k - 1 \in 1..Len(inbox'[d]) /\ inbox'[d][k - 1] = inbox[d][k]
        <5>1. k \in Nat /\ k >= 2 /\ k <= Len(inbox[d]) /\ Len(inbox[d]) \in Nat
          BY <3>5, <3>2, <4>1
        <5>2. /\ Len(Tail(inbox[d])) = Len(inbox[d]) - 1
              /\ \A j \in 1..(Len(inbox[d]) - 1) : Tail(inbox[d])[j] = inbox[d][j + 1]
          BY <2>1, <4>1
        <5>3. k - 1 \in 1..(Len(inbox[d]) - 1) /\ (k - 1) + 1 = k
          BY <5>1
        <5> QED BY <4>1, <5>2, <5>3
      <4> QED BY <3>2, <3>5, <4>2 DEF UnderWay
    <3> QED BY <3>3, <3>4, <3>5
  <2> QED BY <2>1, <2>4, <2>5 DEF KeptInv
<1> QED BY <1>1, <1>2, <1>3 DEF Next, Boot, FindStep, Return, Broker_initialize, vars

\* Every node has started and no running one has a packet to read.
AtRest ==
  /\ \A p \in Partitions : main[p] # "boot"
  /\ \A d \in Devices : main[owner[d]] = "running" => inbox[d] = <<>>

\* The nth request was delivered, or the node at the other end of its bus was
\* stopped or has refused a packet of a type it does not expect.
Settled(n) ==
  LET b == port_to_partition_bus_map[issued[n].dst].bus
  IN  \/ Came(n)
      \/ \E p \in Partitions : Joins(p, b) /\ main[p] = "aborted"
      \/ \E p \in Partitions : Joins(p, b) /\ Refused(n) /\ ~TypesMatch(b, issued[n].source, p)

\* A system at rest has delivered every request, but for those to a node that
\* was stopped or that was not compiled for the sender's type of packet: what
\* Arrives promises to come about.
THEOREM DeliveredAtRest == Spec => [](AtRest => \A n \in 1..Len(issued) : Settled(n))
<1>1. Init => KeptInv
  BY DEF Init, KeptInv
<1>2. TypeOK /\ TrafficInv /\ TrafficInv' /\ KeptInv /\ [Next]_vars => KeptInv'
  BY KeptNext
<1>3. TypeOK /\ TrafficInv /\ KeptInv => (AtRest => \A n \in 1..Len(issued) : Settled(n))
  <2> SUFFICES ASSUME TypeOK, TrafficInv, KeptInv, AtRest, NEW n \in 1..Len(issued), ~Came(n)
               PROVE  Settled(n)
    BY DEF Settled
  <2>1. CASE UnderWay(n)
    <3>1. PICK d \in Devices : \E k \in 1..Len(inbox[d]) : inbox[d][k].of = n
      BY <2>1 DEF UnderWay
    <3>2. PICK k \in 1..Len(inbox[d]) : inbox[d][k].of = n
      BY <3>1
    <3>3. owner[d] \in Partitions /\ inbox[d] # <<>>
      BY <3>2, DeviceAssumption DEF TrafficInv
    <3>4. main[owner[d]] = "aborted"
      BY <3>3 DEF AtRest, TypeOK
    <3>5. Joins(owner[d], port_to_partition_bus_map[issued[n].dst].bus)
      BY <3>2 DEF TrafficInv, Stems, Joins
    <3> QED BY <3>3, <3>4, <3>5 DEF Settled
  <2>2. CASE Refused(n)
    <3>1. PICK k \in 1..Len(refused) : refused[k].of = n
      BY <2>2 DEF Refused
    <3>2. refused[k].at \in Partitions
      <4>1. refused[k] \in Refusals
        BY <3>1 DEF TrafficInv
      <4> QED BY <4>1 DEF Refusals
    <3>3. /\ Joins(refused[k].at, port_to_partition_bus_map[issued[n].dst].bus)
          /\ ~TypesMatch(port_to_partition_bus_map[issued[n].dst].bus, issued[n].source, refused[k].at)
      BY <3>1 DEF TrafficInv, RefusedIfTypesDiffer, RefusedThere
    <3> QED BY <2>2, <3>2, <3>3 DEF Settled
  <2> QED BY <2>1, <2>2 DEF KeptInv
<1> QED BY <1>1, <1>2, <1>3, SystemTypeCorrect, TrafficInvariant, PTL DEF Spec

=============================================================================
