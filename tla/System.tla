------------------------------- MODULE System -------------------------------
(***************************************************************************)
(* A system of several nodes.  Each fills its routing tables with the loop *)
(* of RoutingHelper.c, initialises its Broker, and then sends requests     *)
(* over the devices it shares a bus with, found by DriverHelper.c.  A      *)
(* passthrough packet carries no destination, so that it arrives where it  *)
(* should only if the tables of the two nodes fit together.                *)
(*                                                                         *)
(* The tables of system_spec.c are generated, the same ones for every      *)
(* node.  The partition of a port is the one whose requests go through it: *)
(* that is how the helpers' comparison with PARTITION_NAME and             *)
(* PassthroughPacketizer_depacketize use it.  The Broker's calls are the   *)
(* atomic ones of AtomicBroker, and buses lose and change nothing: what a  *)
(* node refuses is what the sender wrote.  Which type a node gives its     *)
(* packets, and which it expects, is fixed when the node is compiled.      *)
(***************************************************************************)
EXTENDS Naturals, Sequences, FiniteSetsExt

CONSTANTS
  Partitions,                  \* the nodes
  SYSTEM_BUSES_NUMBER, INTERFACE_MAX_ID, SYSTEM_DEVICE_NUMBER,
  device_to_bus_map,           \* device -> bus
  packetizer_configurations,   \* device -> kind of packetizer
  owner,                       \* device -> the node it belongs to
  PortMaps,                    \* the port tables a system may be generated with
  SendType, ExpectType,        \* node -> packet_type: BROKER_SEND_*, BROKER_EXPECT_*
  Data,                        \* message payloads
  MaxRequests                  \* bound on the number of requests

\* Every enumeration starts with its invalid value.
INTERFACE_INVALID_ID == 0
BUS_INVALID_ID == 0
DEVICE_INVALID_ID == 0
PARTITION_INVALID_ID == 0

Interfaces == 1..(INTERFACE_MAX_ID - 1)
Buses == 1..(SYSTEM_BUSES_NUMBER - 1)
Devices == 1..(SYSTEM_DEVICE_NUMBER - 1)

ASSUME SizeAssumption ==
  /\ INTERFACE_MAX_ID \in Nat \ {0} /\ SYSTEM_BUSES_NUMBER \in Nat \ {0}
  /\ SYSTEM_DEVICE_NUMBER \in Nat \ {0} /\ MaxRequests \in Nat
  /\ PARTITION_INVALID_ID \notin Partitions

\* A bus joins the devices of two nodes, which are configured alike.
ASSUME DeviceAssumption ==
  /\ device_to_bus_map \in [0..(SYSTEM_DEVICE_NUMBER - 1) -> Buses \cup {BUS_INVALID_ID}]
  /\ packetizer_configurations \in
       [0..(SYSTEM_DEVICE_NUMBER - 1) -> {"DEFAULT", "CCSDS", "STRICT_CCSDS", "THIN", "PASSTHROUGH"}]
  /\ owner \in [Devices -> Partitions]
  /\ device_to_bus_map[DEVICE_INVALID_ID] = BUS_INVALID_ID
  /\ \A d \in Devices : device_to_bus_map[d] \in Buses
  /\ \A b \in Buses : \E d, e \in Devices :
       /\ {f \in Devices : device_to_bus_map[f] = b} = {d, e}
       /\ owner[d] # owner[e]
       /\ packetizer_configurations[d] = packetizer_configurations[e]

\* Does node p have a device on bus b?
Joins(p, b) == \E d \in Devices : owner[d] = p /\ device_to_bus_map[d] = b

\* A port is a node's way onto one of its buses.
ASSUME PortAssumption ==
  \A ports \in PortMaps :
    /\ ports \in [0..(INTERFACE_MAX_ID - 1) ->
                    [partition: Partitions \cup {PARTITION_INVALID_ID}, bus: Buses \cup {BUS_INVALID_ID}]]
    /\ ports[INTERFACE_INVALID_ID] = [partition |-> PARTITION_INVALID_ID, bus |-> BUS_INVALID_ID]
    /\ \A i \in Interfaces : ports[i].bus # BUS_INVALID_ID => Joins(ports[i].partition, ports[i].bus)

VARIABLES
  port_to_partition_bus_map,     \* interface -> partition and bus
  main,                          \* node -> before, during or after Broker_initialize
  scan,                          \* node -> find_unique_destination as it runs: bus, index, found_interface
  bus_to_unique_port_map,        \* node -> bus -> interface
  bus_has_any_destination_port,  \* node -> bus -> BOOLEAN
  inbox,                         \* device -> packets on their way to it, in order
  issued,                        \* requests made, in order
  delivered,                     \* calls of deliver functions, with the request each packet stems from
  refused                        \* packets not delivered, with the error a callback is told

tables == <<port_to_partition_bus_map, bus_to_unique_port_map, bus_has_any_destination_port>>
traffic == <<inbox, issued, delivered, refused>>
vars == <<main, scan, tables, traffic>>

-----------------------------------------------------------------------------
(* DriverHelper.c *)

\* The guard lets SYSTEM_DEVICE_NUMBER itself through; no device has this number.
get_device_packetizer_cfg(d) ==
  IF d > SYSTEM_DEVICE_NUMBER THEN "DEFAULT" ELSE packetizer_configurations[d]

\* Mutant: the last device of the table is left out.
RemoteButLast(d) ==
  LET others == {i \in 0..(SYSTEM_DEVICE_NUMBER - 2) :
                   i # d /\ device_to_bus_map[i] = device_to_bus_map[d]}
  IN  IF d > SYSTEM_DEVICE_NUMBER \/ others = {} THEN DEVICE_INVALID_ID ELSE Min(others)

\* The device whose configuration is returned, the first other one of the bus.
get_remote_device_configuration(d) ==
  LET others == {i \in 0..(SYSTEM_DEVICE_NUMBER - 1) :
                   i # d /\ device_to_bus_map[i] = device_to_bus_map[d]}
  IN  IF d > SYSTEM_DEVICE_NUMBER \/ others = {} THEN DEVICE_INVALID_ID ELSE Min(others)

-----------------------------------------------------------------------------
(* The packetizers: a bus has the one its devices are configured with. *)

bus_to_packetizer_cfg ==
  [b \in Buses |-> get_device_packetizer_cfg(CHOOSE d \in Devices : device_to_bus_map[d] = b)]

INSTANCE PacketizerTable WITH
  Pids <- Partitions, Provided <- {}, NONE <- "none"

ASSUME CompiledAssumption ==
  /\ SendType \in [Partitions -> PacketTypes]
  /\ ExpectType \in [Partitions -> PacketTypes]

-----------------------------------------------------------------------------
(* RoutingHelper.c *)

\* The condition both functions test of an index.
IsDestination(p, index, bus) ==
  /\ port_to_partition_bus_map[index].partition # p
  /\ port_to_partition_bus_map[index].bus = bus

check_bus_has_any_destination_port(p, bus) ==
  \E index \in 0..(INTERFACE_MAX_ID - 1) : IsDestination(p, index, bus)

\* Mutant: INTERFACE_MAX_ID for no interface.
FirstOfMax(bus) == [bus |-> bus, index |-> 0, found |-> INTERFACE_MAX_ID]

\* The local variables of find_unique_destination as it starts.
FirstOf(bus) == [bus |-> bus, index |-> 0, found |-> INTERFACE_INVALID_ID]

Init ==
  /\ port_to_partition_bus_map \in PortMaps
  /\ main = [p \in Partitions |-> "boot"]
  /\ scan = [p \in Partitions |-> FirstOf(1)]
  /\ bus_to_unique_port_map = [p \in Partitions |-> [b \in Buses |-> INTERFACE_INVALID_ID]]
  /\ bus_has_any_destination_port = [p \in Partitions |-> [b \in Buses |-> FALSE]]
  /\ inbox = [d \in Devices |-> <<>>]
  /\ issued = <<>> /\ delivered = <<>> /\ refused = <<>>

\* find_unique_destination returns: the generated code stores its result and
\* that of check_bus_has_any_destination_port, and goes on to the next bus.
Return(p, found) ==
  /\ bus_to_unique_port_map' = [bus_to_unique_port_map EXCEPT ![p][scan[p].bus] = found]
  /\ bus_has_any_destination_port' = [bus_has_any_destination_port EXCEPT
       ![p][scan[p].bus] = check_bus_has_any_destination_port(p, scan[p].bus)]
  /\ scan' = [scan EXCEPT ![p] = FirstOf(scan[p].bus + 1)]
  /\ UNCHANGED <<main, port_to_partition_bus_map, traffic>>

\* Mutant: the first port found is the result.
FindStepFirst(p) ==
  LET s == scan[p]
      match == s.index < INTERFACE_MAX_ID /\ IsDestination(p, s.index, s.bus)
  IN  /\ main[p] = "boot"
      /\ s.bus \in Buses
      /\ \/ s.index = INTERFACE_MAX_ID /\ Return(p, s.found)
         \/ match /\ Return(p, s.index)
         \/ /\ s.index < INTERFACE_MAX_ID /\ ~match
            /\ scan' = [scan EXCEPT ![p].index = s.index + 1]
            /\ UNCHANGED <<main, tables, traffic>>

\* One iteration of the loop of find_unique_destination, or its end.
FindStep(p) ==
  LET s == scan[p]
      match == s.index < INTERFACE_MAX_ID /\ IsDestination(p, s.index, s.bus)
  IN  /\ main[p] = "boot"
      /\ s.bus \in Buses
      /\ \/ s.index = INTERFACE_MAX_ID /\ Return(p, s.found)
         \/ match /\ s.found # INTERFACE_INVALID_ID /\ Return(p, INTERFACE_INVALID_ID)
         \/ /\ s.index < INTERFACE_MAX_ID
            /\ match => s.found = INTERFACE_INVALID_ID
            /\ scan' = [scan EXCEPT ![p].index = s.index + 1,
                                    ![p].found = IF match THEN s.index ELSE s.found]
            /\ UNCHANGED <<main, tables, traffic>>

-----------------------------------------------------------------------------
(* The Brokers *)

\* Mutant: any passthrough bus without a unique port stops the node.
AmbiguousOrUnused(p, b) ==
  bus_to_packetizer_cfg[b] = "PASSTHROUGH" /\ bus_to_unique_port_map[p][b] = INTERFACE_INVALID_ID

\* PassthroughPacketizer_init calls abort.
Ambiguous(p, b) ==
  /\ bus_to_packetizer_cfg[b] = "PASSTHROUGH"
  /\ bus_to_unique_port_map[p][b] = INTERFACE_INVALID_ID
  /\ bus_has_any_destination_port[p][b]

\* Broker_initialize with the buses the node has devices on.
Broker_initialize(p) ==
  /\ main[p] = "boot"
  /\ scan[p].bus \notin Buses
  /\ main' = [main EXCEPT ![p] =
       IF \E b \in Buses : Joins(p, b) /\ Ambiguous(p, b) THEN "aborted" ELSE "running"]
  /\ UNCHANGED <<scan, tables, traffic>>

\* A call of Broker_deliver_request; the driver of device d sends the packet
\* to the device at the other end.
Broker_deliver_request(p, d, i, data) ==
  LET b == port_to_partition_bus_map[i].bus
      r == [dst |-> i, source |-> p, data |-> data]
  IN  /\ main[p] = "running"
      /\ Len(issued) < MaxRequests
      /\ port_to_partition_bus_map[i].partition = p
      /\ owner[d] = p /\ device_to_bus_map[d] = b
      /\ issued' = Append(issued, r)
      /\ inbox' = [inbox EXCEPT ![get_remote_device_configuration(d)] =
                     Append(@, [of |-> Len(issued'), type |-> SendType[p], packet |-> PacketFor(b, r, 0)])]
      /\ UNCHANGED <<main, scan, tables, delivered, refused>>

\* What the driver of a device on bus b hands over when message m arrives, an
\* Inputs record: the header says the length of a packet of the bus, and the
\* checksum is looked at where there is one.
Input(b, m) ==
  LET packet == m.packet
  IN  [bus    |-> b,
       length |-> IF DOMAIN packet = Fields(b) THEN "right" ELSE "wrong",
       intact |-> "crc" \in DOMAIN packet => packet.crc = Crc(packet.dst, packet.seq, packet.data),
       type   |-> m.type,
       dst    |-> IF "dst" \in DOMAIN packet THEN packet.dst ELSE INTERFACE_INVALID_ID,
       source |-> IF "source" \in DOMAIN packet THEN packet.source ELSE PARTITION_INVALID_ID,
       data   |-> packet.data]

\* A call of Broker_receive_packet by the driver of device d.
Broker_receive_packet(d) ==
  LET p      == owner[d]
      b      == device_to_bus_map[d]
      m      == Head(inbox[d])
      input  == Input(b, m)
      result == Depacketize(input, ExpectType[p])
  IN  /\ inbox[d] # <<>>
      /\ main[p] = "running"
      /\ \/ /\ result.ok
            /\ delivered' = Append(delivered, [of |-> m.of, at |-> p,
                                               call |-> Delivery(input, bus_to_unique_port_map[p][b])])
            /\ UNCHANGED refused
         \/ /\ ~result.ok
            /\ refused' = Append(refused, [of |-> m.of, at |-> p, error |-> BrokerError(result.code)])
            /\ UNCHANGED delivered
      /\ inbox' = [inbox EXCEPT ![d] = Tail(@)]
      /\ UNCHANGED <<main, scan, tables, issued>>

-----------------------------------------------------------------------------
Boot(p) == FindStep(p) \/ Broker_initialize(p)

Next ==
  \/ \E p \in Partitions : Boot(p)
  \/ \E p \in Partitions, d \in Devices, i \in Interfaces, data \in Data :
       Broker_deliver_request(p, d, i, data)
  \/ \E d \in Devices : Broker_receive_packet(d)

Spec == Init /\ [][Next]_vars

\* Every node boots, and every driver goes on receiving; nobody has to make a
\* request.
Fairness ==
  /\ \A p \in Partitions : WF_vars(Boot(p))
  /\ \A d \in Devices : WF_vars(Broker_receive_packet(d))

FairSpec == Spec /\ Fairness

-----------------------------------------------------------------------------
(* Properties *)

TypeOK ==
  /\ port_to_partition_bus_map \in PortMaps
  /\ main \in [Partitions -> {"boot", "running", "aborted"}]
  /\ scan \in [Partitions -> [bus: 1..SYSTEM_BUSES_NUMBER, index: 0..INTERFACE_MAX_ID,
                              found: Interfaces \cup {INTERFACE_INVALID_ID}]]
  /\ bus_to_unique_port_map \in [Partitions -> [Buses -> Interfaces \cup {INTERFACE_INVALID_ID}]]
  /\ bus_has_any_destination_port \in [Partitions -> [Buses -> BOOLEAN]]
  /\ issued \in Seq([dst: Interfaces, source: Partitions, data: Data])

\* The ports that packets node p receives on bus b may be for.
PortsFrom(p, b) ==
  {i \in Interfaces : port_to_partition_bus_map[i].bus = b /\ port_to_partition_bus_map[i].partition # p}

\* A node is stopped at its start exactly if one of its passthrough buses
\* leaves open which interface a packet is for: the loop neither misses a
\* second port nor takes an unused bus for an ambiguous one.
StopsIfAmbiguous ==
  \A p \in Partitions : main[p] # "boot" =>
    (main[p] = "aborted" <=>
       \E b \in Buses : /\ Joins(p, b) /\ bus_to_packetizer_cfg[b] = "PASSTHROUGH"
                        /\ \E i, j \in PortsFrom(p, b) : i # j)

\* Whatever the tables, a request is delivered to the interface it was made
\* for, at the node at the other end of its bus, also over a bus whose packets
\* do not carry the interface.
RightInterface ==
  \A k \in 1..Len(delivered) :
    LET r == issued[delivered[k].of]
    IN  /\ delivered[k].call.to = r.dst /\ delivered[k].call.data = r.data
        /\ delivered[k].at # r.source
        /\ Joins(delivered[k].at, port_to_partition_bus_map[r.dst].bus)

\* Between two nodes a packet gets through exactly if its kind carries no type,
\* or the one node was compiled to expect what the other sends.
TypesMatch(b, p, q) == bus_to_packetizer_cfg[b] \in Counted => SendType[p] = ExpectType[q]

\* Of what a node has written, no check fails at the other end but the one of
\* the type, and that one exactly if the two were compiled for different types
\* and the packets of their bus carry one.
RefusedIfTypesDiffer ==
  /\ \A k \in 1..Len(refused) :
       LET r == issued[refused[k].of]
       IN  /\ ~TypesMatch(port_to_partition_bus_map[r.dst].bus, r.source, refused[k].at)
           /\ refused[k].error = "IncorrectPacketType"
  /\ \A k \in 1..Len(delivered) :
       LET r == issued[delivered[k].of]
       IN  TypesMatch(port_to_partition_bus_map[r.dst].bus, r.source, delivered[k].at)

\* Every request is delivered, or refused at the other end, unless the node it
\* is for was stopped.
Arrives ==
  \A n \in 1..MaxRequests :
    Len(issued) >= n ~> Len(issued) >= n /\
      \/ \E k \in 1..Len(delivered) : delivered[k].of = n
      \/ \E k \in 1..Len(refused) : refused[k].of = n
      \/ \E p \in Partitions : main[p] = "aborted" /\ Joins(p, port_to_partition_bus_map[issued[n].dst].bus)

=============================================================================
