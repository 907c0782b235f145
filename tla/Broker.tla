------------------------------- MODULE Broker -------------------------------
(***************************************************************************)
(* The Broker (src/Broker/Broker.c): tasks deliver requests to remote      *)
(* interfaces and drivers hand over packets they received, concurrently.   *)
(* Both entry points run under the one mutex the runtime provides; the     *)
(* error callback is registered without it.                                *)
(*                                                                         *)
(* A thread's program counter names the statement it is about to execute.  *)
(* What other threads can see of a call is split into steps: the copy into *)
(* the static buffer, each part the packetizer writes, its counter, the    *)
(* driver's send function, the check of the callback and its call.         *)
(***************************************************************************)
EXTENDS PacketizerTable, Sequences

CONSTANTS
  Tasks,            \* threads that call Broker_deliver_request
  Drivers,          \* threads that call Broker_receive_packet
  port_to_bus_map,  \* interface -> bus
  Routes,           \* the routing tables a system may be generated with
  Received,         \* the packets the drivers may hand over
  ExpectedType,     \* packet_type of Broker_receive_packet, fixed when it is compiled
  valid_buses,      \* the buses of this partition, the argument of Broker_initialize
  MaxSeq,           \* SPACE_PACKET_MAX_PACKET_SEQUENCE_COUNT
  Callbacks,        \* error callbacks that may be registered
  NULL,
  NoThread,         \* the mutex is free
  MaxRequests, MaxArrivals   \* bounds on the calls made

Threads == Tasks \cup Drivers

ASSUME BrokerAssumption ==
  /\ Tasks \cap Drivers = {} /\ NoThread \notin Threads
  /\ Tasks \subseteq Pids
  /\ port_to_bus_map \in [Interfaces -> Buses]
  /\ valid_buses \subseteq Buses
  /\ Routes \subseteq [unique: [Buses -> Interfaces \cup {INTERFACE_INVALID_ID}],
                      anyPort: [Buses -> BOOLEAN]]
  /\ Received \subseteq Inputs /\ ExpectedType \in PacketTypes
  /\ MaxSeq \in Nat
  /\ NULL \notin Callbacks

VARIABLES
  main,        \* before, during or after Broker_initialize
  unique,      \* bus_to_unique_port_map: the bus's only port, or INTERFACE_INVALID_ID
  anyPort,     \* bus_has_any_destination_port
  lock,        \* the thread that holds the mutex, or NoThread
  pc,          \* what each thread executes next
  call,        \* the thread's current call, an index into issued or arrived
  buffer,      \* packetizer_buffer
  count,       \* packetizers_data[bus].packetSequenceCount
  broker_error_callback,
  seen,        \* the callback a thread read when it compared it with NULL
  line,        \* packets given to the send function of each bus
  issued, arrived, \* requests and packets handed to the Broker, in order
  transmitted, \* ghost: the requests whose packet has been sent
  outcomes,    \* calls of deliver functions and callbacks, and drops
  registered   \* ghost: the callbacks registered so far

routing == <<unique, anyPort>>
sending == <<buffer, count, line, issued, transmitted>>
receiving == <<seen, arrived, outcomes>>
errors == <<broker_error_callback, registered>>
vars == <<main, routing, lock, pc, call, sending, receiving, errors>>

Fresh == [dst |-> NONE, seq |-> NONE, data |-> NONE, source |-> NONE, crc |-> NONE]

Init ==
  /\ main = "boot"
  /\ \E r \in Routes : unique = r.unique /\ anyPort = r.anyPort
  /\ lock = NoThread
  /\ pc = [t \in Threads |-> "idle"]
  /\ call = [t \in Threads |-> 0]
  /\ buffer = Fresh
  /\ count = [b \in Buses |-> 0]
  /\ broker_error_callback = NULL
  /\ seen = [t \in Drivers |-> NULL]
  /\ line = [b \in Buses |-> <<>>]
  /\ issued = <<>> /\ arrived = <<>>
  /\ transmitted = {} /\ outcomes = <<>>
  /\ registered = {}

-----------------------------------------------------------------------------
(* Initialisation, before the system's threads are started *)

\* Mutant: the test of the ports the wrong way round.
AmbiguousWithoutPorts(b) ==
  bus_to_packetizer_cfg[b] = "PASSTHROUGH" /\ unique[b] = INTERFACE_INVALID_ID /\ ~anyPort[b]

\* PassthroughPacketizer_init refuses a bus whose packets could go to several
\* ports.
Ambiguous(b) ==
  bus_to_packetizer_cfg[b] = "PASSTHROUGH" /\ unique[b] = INTERFACE_INVALID_ID /\ anyPort[b]

Broker_initialize ==
  /\ main = "boot"
  /\ main' = IF \E b \in valid_buses : Ambiguous(b) THEN "aborted" ELSE "running"
  /\ count' = [b \in Buses |-> IF b \in valid_buses /\ bus_to_packetizer_cfg[b] \in Counted THEN 0 ELSE count[b]]
  /\ UNCHANGED <<routing, lock, pc, call, buffer, line, issued, transmitted, receiving, errors>>

-----------------------------------------------------------------------------
(* Broker_deliver_request *)

Goto(t, from, to) == pc[t] = from /\ pc' = [pc EXCEPT ![t] = to]

\* The mutex: external, provided by the runtime.
Broker_acquire_lock(t) == lock = NoThread /\ lock' = t
Broker_release_lock == lock' = NoThread

Request(t) == issued[call[t]]
BusOf(t) == port_to_bus_map[Request(t).dst]

Broker_deliver_request(t, interface, data) ==
  /\ main = "running"
  /\ Len(issued) < MaxRequests
  /\ Goto(t, "idle", "acquire")
  /\ issued' = Append(issued, [dst |-> interface, source |-> t, data |-> data])
  /\ call' = [call EXCEPT ![t] = Len(issued) + 1]
  /\ UNCHANGED <<main, routing, lock, buffer, count, line, transmitted, receiving, errors>>

\* Mutant: the mutex is taken whether it is free or not.
AcquireNoWait(t) ==
  /\ Goto(t, "acquire", IF t \in Tasks THEN "copy" ELSE "depacketize")
  /\ lock' = t
  /\ UNCHANGED <<main, routing, call, sending, receiving, errors>>

Acquire(t) ==
  /\ Goto(t, "acquire", IF t \in Tasks THEN "copy" ELSE "depacketize")
  /\ Broker_acquire_lock(t)
  /\ UNCHANGED <<main, routing, call, sending, receiving, errors>>

\* memcpy(packetizer_buffer + header_size, data, length)
Copy(t) ==
  /\ Goto(t, "copy", "header")
  /\ buffer' = [buffer EXCEPT !.data = Request(t).data]
  /\ UNCHANGED <<main, routing, lock, call, count, line, issued, transmitted, receiving, errors>>

\* The packetize function of the bus, first part: the header with the number
\* the counter has now.
WriteHeader(t) ==
  /\ Goto(t, "header", "trailer")
  /\ buffer' = [buffer EXCEPT
       !.dst = IF "dst" \in Fields(BusOf(t)) THEN Request(t).dst ELSE @,
       !.seq = IF "seq" \in Fields(BusOf(t)) THEN count[BusOf(t)] ELSE @]
  /\ UNCHANGED <<main, routing, lock, call, count, line, issued, transmitted, receiving, errors>>

\* Second part: the sender PID, and the checksum over what the buffer holds.
WriteTrailer(t) ==
  /\ Goto(t, "trailer", "count")
  /\ buffer' = [buffer EXCEPT
       !.source = IF "source" \in Fields(BusOf(t)) THEN Request(t).source ELSE @,
       !.crc = IF "crc" \in Fields(BusOf(t)) THEN Crc(buffer.dst, buffer.seq, buffer.data) ELSE @]
  /\ UNCHANGED <<main, routing, lock, call, count, line, issued, transmitted, receiving, errors>>

\* Mutant: the mutex is let go before the packet is sent.
CountAndUnlock(t) ==
  /\ Goto(t, "count", "send")
  /\ count' = [count EXCEPT ![BusOf(t)] =
       IF bus_to_packetizer_cfg[BusOf(t)] \in Counted THEN Bump(@, MaxSeq) ELSE @]
  /\ Broker_release_lock
  /\ UNCHANGED <<main, routing, call, buffer, line, issued, transmitted, receiving, errors>>

\* Third part: the counter.
Count(t) ==
  /\ Goto(t, "count", "send")
  /\ count' = [count EXCEPT ![BusOf(t)] =
       IF bus_to_packetizer_cfg[BusOf(t)] \in Counted THEN Bump(@, MaxSeq) ELSE @]
  /\ UNCHANGED <<main, routing, lock, call, buffer, line, issued, transmitted, receiving, errors>>

\* send_function reads packet_size bytes of the buffer.
Send(t) ==
  /\ Goto(t, "send", "release")
  /\ line' = [line EXCEPT ![BusOf(t)] = Append(@, [x \in Fields(BusOf(t)) |-> buffer[x]])]
  /\ transmitted' = transmitted \cup {call[t]}
  /\ UNCHANGED <<main, routing, lock, call, buffer, count, issued, receiving, errors>>

Release(t) ==
  /\ Goto(t, "release", "idle")
  /\ Broker_release_lock
  /\ UNCHANGED <<main, routing, call, sending, receiving, errors>>

-----------------------------------------------------------------------------
(* Broker_receive_packet *)

Input(t) == arrived[call[t]]

Conclude(t, o) == outcomes' = Append(outcomes, [of |-> call[t], outcome |-> o])

Broker_receive_packet(t, i) ==
  /\ main = "running"
  /\ Len(arrived) < MaxArrivals
  /\ Goto(t, "idle", "acquire")
  /\ i.bus \in valid_buses
  /\ arrived' = Append(arrived, i)
  /\ call' = [call EXCEPT ![t] = Len(arrived) + 1]
  /\ UNCHANGED <<main, routing, lock, sending, seen, outcomes, errors>>

\* The depacketize function touches nothing but the arguments of the call.
DepacketizeStep(t) ==
  /\ pc[t] = "depacketize"
  /\ pc' = [pc EXCEPT ![t] = IF Depacketize(Input(t), ExpectedType).ok THEN "deliver" ELSE "check"]
  /\ UNCHANGED <<main, routing, lock, call, sending, receiving, errors>>

Deliver(t) ==
  /\ Goto(t, "deliver", "release")
  /\ Conclude(t, [how |-> "delivered", call |-> Delivery(Input(t), unique[Input(t).bus])])
  /\ UNCHANGED <<main, routing, lock, call, sending, seen, arrived, errors>>

\* Mutant: the callback is called without a look at it.
CheckCallbackNever(t) ==
  /\ Goto(t, "check", "report")
  /\ seen' = [seen EXCEPT ![t] = broker_error_callback]
  /\ UNCHANGED <<main, routing, lock, call, sending, arrived, outcomes, errors>>

\* Mutant: without a callback the function returns at once and keeps the mutex.
CheckCallbackKeepLock(t) ==
  /\ seen' = [seen EXCEPT ![t] = broker_error_callback]
  /\ \/ /\ broker_error_callback # NULL
        /\ Goto(t, "check", "report")
        /\ UNCHANGED outcomes
     \/ /\ broker_error_callback = NULL
        /\ Goto(t, "check", "idle")
        /\ Conclude(t, [how |-> "dropped"])
  /\ UNCHANGED <<main, routing, lock, call, sending, arrived, errors>>

\* if(broker_error_callback != NULL)
CheckCallback(t) ==
  /\ seen' = [seen EXCEPT ![t] = broker_error_callback]
  /\ \/ /\ broker_error_callback # NULL
        /\ Goto(t, "check", "report")
        /\ UNCHANGED outcomes
     \/ /\ broker_error_callback = NULL
        /\ Goto(t, "check", "release")
        /\ Conclude(t, [how |-> "dropped"])
  /\ UNCHANGED <<main, routing, lock, call, sending, arrived, errors>>

\* The callback is read again to be called, or kept from the check: the
\* variable is neither atomic nor protected, so a build may do either.
CallCallback(t) ==
  /\ Goto(t, "report", "release")
  /\ \E cb \in {seen[t], broker_error_callback} :
       Conclude(t, [how |-> "reported", by |-> cb,
                    error |-> BrokerError(Depacketize(Input(t), ExpectedType).code)])
  /\ UNCHANGED <<main, routing, lock, call, sending, seen, arrived, errors>>

\* No lock is taken; the calling thread is not modelled.  A callback may be
\* registered at any time and any number of times.
Broker_register_error_callback(cb) ==
  /\ broker_error_callback' = cb
  /\ registered' = registered \cup {cb}
  /\ UNCHANGED <<main, routing, lock, pc, call, sending, receiving>>

-----------------------------------------------------------------------------
SendStep(t) ==
  \/ Copy(t) \/ WriteHeader(t) \/ WriteTrailer(t) \/ Count(t) \/ Send(t)

ReceiveStep(t) ==
  \/ DepacketizeStep(t) \/ Deliver(t) \/ CheckCallback(t) \/ CallCallback(t)

Step(t) == Acquire(t) \/ Release(t) \/ (t \in Tasks /\ SendStep(t)) \/ (t \in Drivers /\ ReceiveStep(t))

Next ==
  \/ Broker_initialize
  \/ \E t \in Tasks, interface \in Interfaces, data \in Data :
       Broker_deliver_request(t, interface, data)
  \/ \E t \in Drivers, i \in Received : Broker_receive_packet(t, i)
  \/ \E t \in Threads : Step(t)
  \/ \E cb \in Callbacks : Broker_register_error_callback(cb)

Spec == Init /\ [][Next]_vars

\* A thread inside the Broker goes on.  Weak fairness of Acquire is enough as
\* the calls are bounded: the mutex need not be fair.
Fairness == \A t \in Threads : WF_vars(Step(t))
FairSpec == Spec /\ Fairness

-----------------------------------------------------------------------------
(* Properties *)

Locations == {"idle", "acquire", "copy", "header", "trailer", "count", "send",
              "depacketize", "deliver", "check", "report", "release"}
SendLocations == {"copy", "header", "trailer", "count", "send"}
ReceiveLocations == {"depacketize", "deliver", "check", "report"}

MaybeNone(S) == S \cup {NONE}

Buffers == [dst: MaybeNone(Interfaces), seq: MaybeNone(0..MaxSeq),
            data: MaybeNone(Data), source: MaybeNone(Pids),
            crc: MaybeNone(MaybeNone(Interfaces) \X MaybeNone(0..MaxSeq) \X MaybeNone(Data))]
Packets == {[x \in Fields(b) |-> r[x]] : r \in Buffers, b \in Buses}

BrokerErrors == {"IncorrectCrc16", "IncorrectPacketType", "IncorrectPacketSize",
                 "PacketTooSmall", "UnknownError"}
Outcomes ==
  [how: {"delivered"}, call: [to: Interfaces \cup {INTERFACE_INVALID_ID}, source: Pids \cup {0}, data: Data]]
    \cup [how: {"dropped"}]
    \cup [how: {"reported"}, by: Callbacks, error: BrokerErrors]

TypeOK ==
  /\ main \in {"boot", "running", "aborted"}
  /\ unique \in [Buses -> Interfaces \cup {INTERFACE_INVALID_ID}]
  /\ anyPort \in [Buses -> BOOLEAN]
  /\ lock \in Threads \cup {NoThread}
  /\ pc \in [Threads -> Locations]
  /\ call \in [Threads -> Nat]
  /\ buffer \in Buffers
  /\ count \in [Buses -> 0..MaxSeq]
  /\ broker_error_callback \in Callbacks \cup {NULL}
  /\ seen \in [Drivers -> Callbacks \cup {NULL}]
  /\ line \in [Buses -> Seq(Packets)]
  /\ issued \in Seq([dst: Interfaces, source: Pids, data: Data])
  /\ arrived \in Seq(Inputs)
  /\ transmitted \subseteq 1..Len(issued)
  /\ outcomes \in Seq([of: Nat, outcome: Outcomes])
  /\ registered \subseteq Callbacks

\* The number the next packet of bus b will carry: the counter is raised
\* before the packet that carries its old value is sent.
NextNumber(b) ==
  IF lock \in Tasks /\ pc[lock] = "send" /\ BusOf(lock) = b /\ bus_to_packetizer_cfg[b] \in Counted
  THEN buffer.seq ELSE count[b]

Atomic == INSTANCE AtomicBroker WITH next <- [b \in Buses |-> NextNumber(b)]

\* However the calls interleave, each takes effect at one instant: every
\* packet sent is that of one request, made once, with the number that is next
\* on its bus; every packet received is delivered, reported to a registered
\* callback with its own error, or dropped before there was any callback.
AtomicCalls == Atomic!Spec

\* On each bus the packets are numbered without a gap or a repetition, modulo
\* the size of the 14-bit field.
SequenceConsecutive ==
  \A b \in Buses : bus_to_packetizer_cfg[b] \in Counted =>
    /\ line[b] # <<>> => line[b][1].seq = 0
    /\ \A k \in 1..(Len(line[b]) - 1) :
         line[b][k + 1].seq = IF line[b][k].seq = MaxSeq THEN 0 ELSE line[b][k].seq + 1

\* No packet of a passthrough bus with destination ports is handed to the
\* deliver function of INTERFACE_INVALID_ID: a system where that could happen
\* never gets past Broker_initialize (PassthroughPacketizer.c:39-43).
PassthroughResolved ==
  \A k \in 1..Len(outcomes) :
    LET i == arrived[outcomes[k].of]
    IN  bus_to_packetizer_cfg[i.bus] = "PASSTHROUGH" /\ anyPort[i.bus] =>
          outcomes[k].outcome.call.to # INTERFACE_INVALID_ID

\* Every call returns, on every path through the functions, and lets go of
\* the mutex for the others.
EveryCallReturns == \A t \in Threads : pc[t] # "idle" ~> pc[t] = "idle"

\* "errorCode  Error code if depacketization failed" (CCSDSPacketizer.h:98,
\* ThinPacketizer.h:83): a failure of one of the library's own packetizers is
\* reported with the error it met.
ErrorIsNamed ==
  \A k \in 1..Len(outcomes) :
    LET i == arrived[outcomes[k].of]
    IN  bus_to_packetizer_cfg[i.bus] # "DEVICE_PROVIDED" /\ outcomes[k].outcome.how = "reported" =>
          outcomes[k].outcome.error # "UnknownError"

=============================================================================
