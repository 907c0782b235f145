---------------------------- MODULE AtomicBroker ----------------------------
(***************************************************************************)
(* What the Broker promises its users, with each call taking effect at one *)
(* instant: a request becomes exactly one packet on the bus of its         *)
(* destination, numbered in the order of that bus; a packet received is    *)
(* either delivered or reported, or, as long as nobody has asked for       *)
(* reports, dropped.  Lock, buffer and threads are not visible here.       *)
(***************************************************************************)
EXTENDS PacketizerTable, Sequences

CONSTANTS port_to_bus_map,  \* interface -> bus
          MaxSeq,           \* SPACE_PACKET_MAX_PACKET_SEQUENCE_COUNT
          Received,         \* packets the drivers may hand over
          ExpectedType,     \* packet_type that receptions expect
          Callbacks         \* error callbacks that may be registered

VARIABLES
  unique,      \* bus_to_unique_port_map; fixed when the system is generated
  issued,      \* requests, in the order they were made
  transmitted, \* the requests that are on their bus, by index
  line,        \* the packets put on each bus
  next,        \* the number of the next packet of each bus
  arrived,     \* packets handed over by the drivers, in order
  outcomes,    \* what became of them, in the order they were dealt with
  registered   \* the callbacks registered so far

vars == <<unique, issued, transmitted, line, next, arrived, outcomes, registered>>

Requests == [dst: Interfaces, source: Pids, data: Data]

Init ==
  /\ unique \in [Buses -> Interfaces \cup {INTERFACE_INVALID_ID}]
  /\ issued = <<>> /\ transmitted = {}
  /\ line = [b \in Buses |-> <<>>]
  /\ next = [b \in Buses |-> 0]
  /\ arrived = <<>> /\ outcomes = <<>>
  /\ registered = {}

Request(r) ==
  /\ issued' = Append(issued, r)
  /\ UNCHANGED <<unique, transmitted, line, next, arrived, outcomes, registered>>

Transmit(n) ==
  LET r == issued[n]
      b == port_to_bus_map[r.dst]
  IN  /\ n \notin transmitted
      /\ transmitted' = transmitted \cup {n}
      /\ line' = [line EXCEPT ![b] = Append(@, PacketFor(b, r, next[b]))]
      /\ next' = [next EXCEPT ![b] = IF bus_to_packetizer_cfg[b] \in Counted THEN Bump(@, MaxSeq) ELSE @]
      /\ UNCHANGED <<unique, issued, arrived, outcomes, registered>>

Arrive(i) ==
  /\ arrived' = Append(arrived, i)
  /\ UNCHANGED <<unique, issued, transmitted, line, next, outcomes, registered>>

\* What may become of input i when the callbacks registered so far are cbs.
Outcomes(i, cbs) ==
  LET result == Depacketize(i, ExpectedType)
  IN  IF result.ok THEN {[how |-> "delivered", call |-> Delivery(i, unique[i.bus])]}
      ELSE IF cbs = {} THEN {[how |-> "dropped"]}
      ELSE {[how |-> "reported", by |-> cb, error |-> BrokerError(result.code)] : cb \in cbs}

Conclude(n) ==
  /\ \A k \in 1..Len(outcomes) : outcomes[k].of # n
  /\ \E o \in Outcomes(arrived[n], registered) :
       outcomes' = Append(outcomes, [of |-> n, outcome |-> o])
  /\ UNCHANGED <<unique, issued, transmitted, line, next, arrived, registered>>

Register(cb) ==
  /\ registered' = registered \cup {cb}
  /\ UNCHANGED <<unique, issued, transmitted, line, next, arrived, outcomes>>

Next ==
  \/ \E r \in Requests : Request(r)
  \/ \E n \in 1..Len(issued) : Transmit(n)
  \/ \E i \in Received : Arrive(i)
  \/ \E n \in 1..Len(arrived) : Conclude(n)
  \/ \E cb \in Callbacks : Register(cb)

Spec == Init /\ [][Next]_vars

=============================================================================
