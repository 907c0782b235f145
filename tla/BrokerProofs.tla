---------------------------- MODULE BrokerProofs ----------------------------
(***************************************************************************)
(* Theorems about Broker: its types, its mutual exclusion, the numbers of  *)
(* its packets, and that its calls are atomic.                             *)
(***************************************************************************)
EXTENDS Broker, TLAPS

-----------------------------------------------------------------------------
(* Facts about the constants *)

\* Tasks and drivers are different threads, and none of them is NoThread.
LEMMA ThreadFacts ==
  /\ \A t \in Tasks : t \in Threads /\ t \notin Drivers /\ t # NoThread
  /\ \A t \in Drivers : t \in Threads /\ t \notin Tasks /\ t # NoThread
  /\ \A t \in Threads : t \in Tasks \/ t \in Drivers
BY BrokerAssumption DEF Threads

\* An interface's bus is a bus, and every bus has a kind of packetizer.
LEMMA BusFacts ==
  /\ \A i \in Interfaces : port_to_bus_map[i] \in Buses
  /\ \A b \in Buses : bus_to_packetizer_cfg[b] \in Kinds
BY BrokerAssumption, TableAssumption

\* Numbered packets are those of the packetizers that count; one with a
\* checksum has the fields the checksum covers.
LEMMA FieldFacts ==
  ASSUME NEW b \in Buses
  PROVE  /\ Fields(b) \subseteq {"dst", "seq", "data", "source", "crc"}
         /\ "seq" \in Fields(b) <=> bus_to_packetizer_cfg[b] \in Counted
         /\ "crc" \in Fields(b) => "dst" \in Fields(b) /\ "seq" \in Fields(b)
<1>1. bus_to_packetizer_cfg[b] \in {"DEFAULT", "CCSDS", "STRICT_CCSDS", "THIN", "DEVICE_PROVIDED", "PASSTHROUGH"}
  BY BusFacts DEF Kinds
<1>2. CASE bus_to_packetizer_cfg[b] \in {"DEFAULT", "CCSDS"}
  BY <1>2 DEF Fields, Counted, SpacePacket
<1>3. CASE bus_to_packetizer_cfg[b] = "STRICT_CCSDS"
  BY <1>3 DEF Fields, Counted, SpacePacket
<1>4. CASE bus_to_packetizer_cfg[b] = "THIN"
  BY <1>4 DEF Fields, Counted, SpacePacket
<1>5. CASE bus_to_packetizer_cfg[b] = "PASSTHROUGH"
  BY <1>5 DEF Fields, Counted, SpacePacket
<1>6. CASE bus_to_packetizer_cfg[b] = "DEVICE_PROVIDED"
  BY <1>6 DEF Fields, Counted, SpacePacket
<1> QED BY <1>1, <1>2, <1>3, <1>4, <1>5, <1>6

\* The counter stays in its range.
LEMMA BumpInRange == \A n \in 0..MaxSeq : Bump(n, MaxSeq) \in 0..MaxSeq
BY BrokerAssumption DEF Bump

\* A packetizer's answer is a Boolean with one of the codes the Broker knows.
LEMMA ErrorFacts == \A code : BrokerError(code) \in BrokerErrors
BY DEF BrokerError, BrokerErrors

\* What a call of a deliver function is made of.
LEMMA DeliveryFacts ==
  ASSUME NEW i \in Inputs, NEW u \in Interfaces \cup {INTERFACE_INVALID_ID}
  PROVE  Delivery(i, u) \in [to: Interfaces \cup {INTERFACE_INVALID_ID}, source: Pids \cup {0}, data: Data]
BY DEF Inputs, Delivery

\* A longer sequence of calls keeps the calls that were there.
LEMMA AppendKeeps ==
  ASSUME NEW S, NEW s \in Seq(S), NEW e \in S
  PROVE  /\ Append(s, e) \in Seq(S)
         /\ Len(Append(s, e)) = Len(s) + 1
         /\ \A k \in 1..Len(s) : Append(s, e)[k] = s[k]
         /\ Append(s, e)[Len(s) + 1] = e
OBVIOUS

\* The elements of a sequence are of its type.
LEMMA ElementIn == ASSUME NEW S, NEW s \in Seq(S), NEW k \in 1..Len(s) PROVE s[k] \in S
OBVIOUS

-----------------------------------------------------------------------------
(* Types and control *)

Inside(t) == pc[t] \notin {"idle", "acquire"}

\* A thread is inside the Broker exactly when it holds the mutex, and works on
\* a call that was made; nothing runs unless the Broker was initialised.
ControlInv ==
  /\ \A t \in Tasks : pc[t] \in {"idle", "acquire", "release"} \cup SendLocations
  /\ \A t \in Drivers : pc[t] \in {"idle", "acquire", "release"} \cup ReceiveLocations
  /\ \A t \in Threads : Inside(t) <=> lock = t
  /\ \A t \in Tasks : pc[t] # "idle" => call[t] \in 1..Len(issued)
  /\ \A t \in Drivers : pc[t] # "idle" => call[t] \in 1..Len(arrived)
  /\ main # "running" => \A t \in Threads : pc[t] = "idle"

\* What can be called as the error callback was registered.
CallbackInv ==
  /\ broker_error_callback = NULL => registered = {}
  /\ broker_error_callback # NULL => broker_error_callback \in registered
  /\ \A t \in Drivers : pc[t] = "report" => seen[t] \in registered

\* Types and control, before Broker_initialize.
LEMMA BaseInit == Init => TypeOK /\ ControlInv /\ CallbackInv
<1> SUFFICES ASSUME Init PROVE TypeOK /\ ControlInv /\ CallbackInv
  OBVIOUS
<1>1. TypeOK
  BY BrokerAssumption DEF Init, TypeOK, Fresh, Buffers, MaybeNone, Locations
<1>2. ControlInv
  BY ThreadFacts DEF Init, ControlInv, Inside
<1>3. CallbackInv
  BY ThreadFacts DEF Init, CallbackInv
<1> QED BY <1>1, <1>2, <1>3

\* Every step keeps the types.
LEMMA TypeStep ==
  TypeOK /\ ControlInv /\ CallbackInv /\ [Next]_vars => TypeOK'
<1> SUFFICES ASSUME TypeOK, ControlInv, CallbackInv, [Next]_vars PROVE TypeOK'
  OBVIOUS
<1> USE DEF routing, sending, receiving, errors
<1>1. CASE Broker_initialize
  BY <1>1, BrokerAssumption, SMTT(30) DEF Broker_initialize, TypeOK
<1>2. ASSUME NEW t \in Tasks, NEW interface \in Interfaces, NEW d \in Data,
             Broker_deliver_request(t, interface, d)
      PROVE  TypeOK'
  <2>1. issued' \in Seq([dst: Interfaces, source: Pids, data: Data]) /\ Len(issued') = Len(issued) + 1
    BY <1>2, BrokerAssumption DEF Broker_deliver_request, TypeOK
  <2> QED BY <1>2, <2>1, ThreadFacts DEF Broker_deliver_request, Goto, TypeOK, Locations
<1>3. ASSUME NEW t \in Drivers, NEW i \in Received, Broker_receive_packet(t, i)
      PROVE  TypeOK'
  <2>1. arrived' \in Seq(Inputs) /\ Len(arrived') = Len(arrived) + 1
    BY <1>3, BrokerAssumption DEF Broker_receive_packet, TypeOK
  <2> QED BY <1>3, <2>1, ThreadFacts DEF Broker_receive_packet, Goto, TypeOK, Locations
<1>4. ASSUME NEW t \in Threads, Acquire(t) PROVE TypeOK'
  BY <1>4 DEF Acquire, Goto, Broker_acquire_lock, TypeOK, Locations
<1>5. ASSUME NEW t \in Threads, Release(t) PROVE TypeOK'
  BY <1>5 DEF Release, Goto, Broker_release_lock, TypeOK, Locations
<1>6. ASSUME NEW t \in Tasks, SendStep(t) PROVE TypeOK'
  <2>1. t \in Threads /\ call[t] \in 1..Len(issued)
    BY <1>6, ThreadFacts DEF SendStep, Copy, WriteHeader, WriteTrailer, Count, Send, Goto, ControlInv
  <2>2. Request(t) \in [dst: Interfaces, source: Pids, data: Data] /\ BusOf(t) \in Buses
    <3>1. issued[call[t]] \in [dst: Interfaces, source: Pids, data: Data]
      <4>1. issued \in Seq([dst: Interfaces, source: Pids, data: Data])
        BY DEF TypeOK
      <4> QED BY <2>1, <4>1, ElementIn
    <3>2. issued[call[t]].dst \in Interfaces
      BY <3>1
    <3> QED BY <3>1, <3>2, BusFacts DEF Request, BusOf
  <2>3. CASE Copy(t)
    BY <2>1, <2>2, <2>3 DEF Copy, Goto, TypeOK, Locations, Buffers, MaybeNone
  <2>4. CASE WriteHeader(t)
    <3> DEFINE d == IF "dst" \in Fields(BusOf(t)) THEN Request(t).dst ELSE buffer.dst
               n == IF "seq" \in Fields(BusOf(t)) THEN count[BusOf(t)] ELSE buffer.seq
    <3>1. buffer' = [buffer EXCEPT !.dst = d, !.seq = n]
      BY <2>4 DEF WriteHeader
    <3>2. d \in MaybeNone(Interfaces) /\ n \in MaybeNone(0..MaxSeq)
      BY <2>2 DEF TypeOK, Buffers, MaybeNone
    <3> HIDE DEF d, n
    <3>3. buffer' \in Buffers
      BY <3>1, <3>2 DEF TypeOK, Buffers
    <3> QED BY <2>1, <2>4, <3>3 DEF WriteHeader, Goto, TypeOK, Locations
  <2>5. CASE WriteTrailer(t)
    <3> DEFINE p == IF "source" \in Fields(BusOf(t)) THEN Request(t).source ELSE buffer.source
               c == IF "crc" \in Fields(BusOf(t)) THEN Crc(buffer.dst, buffer.seq, buffer.data) ELSE buffer.crc
    <3>1. buffer' = [buffer EXCEPT !.source = p, !.crc = c]
      BY <2>5 DEF WriteTrailer
    <3>2. p \in MaybeNone(Pids)
      BY <2>2 DEF TypeOK, Buffers, MaybeNone
    <3>3. c \in MaybeNone(MaybeNone(Interfaces) \X MaybeNone(0..MaxSeq) \X MaybeNone(Data))
      <4>1. Crc(buffer.dst, buffer.seq, buffer.data)
              \in MaybeNone(Interfaces) \X MaybeNone(0..MaxSeq) \X MaybeNone(Data)
        BY DEF TypeOK, Buffers, Crc
      <4>2. buffer.crc \in MaybeNone(MaybeNone(Interfaces) \X MaybeNone(0..MaxSeq) \X MaybeNone(Data))
        BY DEF TypeOK, Buffers
      <4> QED BY <4>1, <4>2 DEF MaybeNone
    <3> HIDE DEF p, c
    <3>4. buffer' \in Buffers
      BY <3>1, <3>2, <3>3 DEF TypeOK, Buffers
    <3> QED BY <2>1, <2>5, <3>4 DEF WriteTrailer, Goto, TypeOK, Locations
  <2>6. CASE Count(t)
    BY <2>1, <2>2, <2>6, BumpInRange DEF Count, Goto, TypeOK, Locations
  <2>7. CASE Send(t)
    <3> DEFINE p == [x \in Fields(BusOf(t)) |-> buffer[x]]
    <3>1. p \in Packets
      BY <2>2 DEF Packets, TypeOK
    <3>2. line[BusOf(t)] \in Seq(Packets) /\ line' = [line EXCEPT ![BusOf(t)] = Append(@, p)]
      BY <2>2, <2>7 DEF Send, TypeOK
    <3>3. line' \in [Buses -> Seq(Packets)]
      BY <2>2, <3>1, <3>2 DEF TypeOK
    <3> QED BY <2>1, <2>7, <3>3 DEF Send, Goto, TypeOK, Locations
  <2> QED BY <1>6, <2>3, <2>4, <2>5, <2>6, <2>7 DEF SendStep
<1>7. ASSUME NEW t \in Drivers, ReceiveStep(t) PROVE TypeOK'
  <2>1. t \in Threads /\ call[t] \in 1..Len(arrived)
    BY <1>7, ThreadFacts DEF ReceiveStep, DepacketizeStep, Deliver, CheckCallback, CallCallback, Goto, ControlInv
  <2>2. Input(t) \in Inputs
    BY <2>1 DEF Input, TypeOK
  <2>3. ASSUME NEW o \in Outcomes, Conclude(t, o)
        PROVE  outcomes' \in Seq([of: Nat, outcome: Outcomes])
    BY <2>1, <2>3 DEF Conclude, TypeOK
  <2>4. CASE DepacketizeStep(t)
    BY <2>1, <2>4 DEF DepacketizeStep, TypeOK, Locations
  <2>5. CASE Deliver(t)
    <3>1. Delivery(Input(t), unique[Input(t).bus])
            \in [to: Interfaces \cup {INTERFACE_INVALID_ID}, source: Pids \cup {0}, data: Data]
      BY <2>2, DeliveryFacts DEF TypeOK, Inputs
    <3>2. [how |-> "delivered", call |-> Delivery(Input(t), unique[Input(t).bus])] \in Outcomes
      BY <3>1 DEF Outcomes
    <3>3. outcomes' \in Seq([of: Nat, outcome: Outcomes])
      BY <2>3, <2>5, <3>2 DEF Deliver
    <3> QED BY <2>1, <2>5, <3>3 DEF Deliver, Goto, TypeOK, Locations
  <2>6. CASE CheckCallback(t)
    <3>1. [how |-> "dropped"] \in Outcomes
      BY DEF Outcomes
    <3>2. outcomes' \in Seq([of: Nat, outcome: Outcomes])
      BY <2>3, <2>6, <3>1 DEF CheckCallback, TypeOK
    <3> QED BY <2>1, <2>6, <3>2 DEF CheckCallback, Goto, TypeOK, Locations
  <2>7. CASE CallCallback(t)
    <3>1. PICK cb \in {seen[t], broker_error_callback} :
            Conclude(t, [how |-> "reported", by |-> cb,
                         error |-> BrokerError(Depacketize(Input(t), ExpectedType).code)])
      BY <2>7 DEF CallCallback
    <3>2. cb \in Callbacks
      BY <2>7 DEF CallCallback, Goto, CallbackInv, TypeOK
    <3>3. [how |-> "reported", by |-> cb, error |-> BrokerError(Depacketize(Input(t), ExpectedType).code)] \in Outcomes
      BY <3>2, ErrorFacts DEF Outcomes
    <3>4. outcomes' \in Seq([of: Nat, outcome: Outcomes])
      BY <2>3, <3>1, <3>3
    <3> QED BY <2>1, <2>7, <3>4 DEF CallCallback, Goto, TypeOK, Locations
  <2> QED BY <1>7, <2>4, <2>5, <2>6, <2>7 DEF ReceiveStep
<1>8. ASSUME NEW cb \in Callbacks, Broker_register_error_callback(cb) PROVE TypeOK'
  BY <1>8 DEF Broker_register_error_callback, TypeOK
<1>9. CASE UNCHANGED vars
  BY <1>9 DEF vars, TypeOK
<1> QED BY <1>1, <1>2, <1>3, <1>4, <1>5, <1>6, <1>7, <1>8, <1>9 DEF Next, Step

\* Every step keeps the threads where they should be, and the mutex with the
\* one inside.
LEMMA ControlStep == TypeOK /\ ControlInv /\ [Next]_vars => ControlInv'
<1> SUFFICES ASSUME TypeOK, ControlInv, [Next]_vars PROVE ControlInv'
  OBVIOUS
<1> USE ThreadFacts DEF routing, sending, receiving, errors
<1>1. CASE Broker_initialize
  BY <1>1 DEF Broker_initialize, ControlInv, Inside
<1>2. ASSUME NEW t \in Tasks, NEW interface \in Interfaces, NEW d \in Data,
             Broker_deliver_request(t, interface, d)
      PROVE  ControlInv'
  <2>1. Len(issued') = Len(issued) + 1 /\ Len(issued) \in Nat
    BY <1>2, BrokerAssumption DEF Broker_deliver_request, TypeOK
  <2> QED BY <1>2, <2>1 DEF Broker_deliver_request, Goto, ControlInv, TypeOK, Inside
<1>3. ASSUME NEW t \in Drivers, NEW i \in Received, Broker_receive_packet(t, i)
      PROVE  ControlInv'
  <2>1. Len(arrived') = Len(arrived) + 1 /\ Len(arrived) \in Nat
    BY <1>3, BrokerAssumption DEF Broker_receive_packet, TypeOK
  <2> QED BY <1>3, <2>1 DEF Broker_receive_packet, Goto, ControlInv, TypeOK, Inside
<1>4. ASSUME NEW t \in Threads, Acquire(t) PROVE ControlInv'
  BY <1>4 DEF Acquire, Goto, Broker_acquire_lock, ControlInv, TypeOK, Inside, SendLocations, ReceiveLocations
<1>5. ASSUME NEW t \in Threads, Release(t) PROVE ControlInv'
  BY <1>5 DEF Release, Goto, Broker_release_lock, ControlInv, TypeOK, Inside, SendLocations, ReceiveLocations
<1>6. ASSUME NEW t \in Tasks, SendStep(t) PROVE ControlInv'
  <2>1. \E from \in SendLocations, to \in SendLocations \cup {"release"} : Goto(t, from, to)
    BY <1>6 DEF SendStep, Copy, WriteHeader, WriteTrailer, Count, Send, SendLocations
  <2>2. UNCHANGED <<main, lock, call, issued, arrived>>
    BY <1>6 DEF SendStep, Copy, WriteHeader, WriteTrailer, Count, Send
  <2> QED BY <2>1, <2>2 DEF Goto, ControlInv, TypeOK, Inside, SendLocations
<1>7. ASSUME NEW t \in Drivers, ReceiveStep(t) PROVE ControlInv'
  <2>1. \E from \in ReceiveLocations, to \in ReceiveLocations \cup {"release"} :
          pc[t] = from /\ pc' = [pc EXCEPT ![t] = to]
    BY <1>7 DEF ReceiveStep, DepacketizeStep, Deliver, CheckCallback, CallCallback, Goto, ReceiveLocations
  <2>2. UNCHANGED <<main, lock, call, issued, arrived>>
    BY <1>7 DEF ReceiveStep, DepacketizeStep, Deliver, CheckCallback, CallCallback
  <2> QED BY <2>1, <2>2 DEF ControlInv, TypeOK, Inside, ReceiveLocations
<1>8. ASSUME NEW cb \in Callbacks, Broker_register_error_callback(cb) PROVE ControlInv'
  BY <1>8 DEF Broker_register_error_callback, ControlInv, Inside
<1>9. CASE UNCHANGED vars
  BY <1>9 DEF vars, ControlInv, Inside
<1> QED BY <1>1, <1>2, <1>3, <1>4, <1>5, <1>6, <1>7, <1>8, <1>9 DEF Next, Step

\* Every step keeps the callback a registered one.
LEMMA CallbackStep == TypeOK /\ CallbackInv /\ [Next]_vars => CallbackInv'
<1> SUFFICES ASSUME TypeOK, CallbackInv, [Next]_vars PROVE CallbackInv'
  OBVIOUS
<1> USE ThreadFacts DEF routing, sending, receiving, errors
<1>1. CASE Broker_initialize
  BY <1>1 DEF Broker_initialize, CallbackInv
<1>2. ASSUME NEW t \in Threads, UNCHANGED <<seen, broker_error_callback, registered>>,
             \E to \in Locations \ {"report"} : pc' = [pc EXCEPT ![t] = to]
      PROVE  CallbackInv'
  BY <1>2 DEF CallbackInv, TypeOK
<1>3. ASSUME NEW t \in Drivers, CheckCallback(t) PROVE CallbackInv'
  BY <1>3 DEF CheckCallback, Goto, CallbackInv, TypeOK
<1>4. ASSUME NEW cb \in Callbacks, Broker_register_error_callback(cb) PROVE CallbackInv'
  BY <1>4, BrokerAssumption DEF Broker_register_error_callback, CallbackInv
<1>5. CASE UNCHANGED vars
  BY <1>5 DEF vars, CallbackInv
<1>6. ASSUME NEW t \in Tasks, NEW interface \in Interfaces, NEW d \in Data,
             Broker_deliver_request(t, interface, d)
      PROVE  CallbackInv'
  BY <1>2, <1>6 DEF Broker_deliver_request, Goto, Locations
<1>7. ASSUME NEW t \in Drivers, NEW i \in Received, Broker_receive_packet(t, i)
      PROVE  CallbackInv'
  BY <1>2, <1>7 DEF Broker_receive_packet, Goto, Locations
<1>8. ASSUME NEW t \in Threads, Step(t) PROVE CallbackInv'
  <2>1. CASE Acquire(t)
    BY <1>2, <2>1 DEF Acquire, Goto, Locations
  <2>2. CASE Release(t)
    BY <1>2, <2>2 DEF Release, Goto, Locations
  <2>3. CASE SendStep(t)
    BY <1>2, <2>3 DEF SendStep, Copy, WriteHeader, WriteTrailer, Count, Send, Goto, Locations
  <2>4. CASE DepacketizeStep(t) \/ Deliver(t) \/ CallCallback(t)
    BY <1>2, <2>4 DEF DepacketizeStep, Deliver, CallCallback, Goto, Locations
  <2> QED BY <1>3, <1>8, <2>1, <2>2, <2>3, <2>4 DEF Step, ReceiveStep
<1> QED BY <1>1, <1>4, <1>5, <1>6, <1>7, <1>8 DEF Next

BaseInv == TypeOK /\ ControlInv /\ CallbackInv

\* Types and control are invariants of the Broker.
LEMMA BaseHolds == Spec => []BaseInv
<1>1. Init => BaseInv
  BY BaseInit DEF BaseInv
<1>2. BaseInv /\ [Next]_vars => BaseInv'
  BY TypeStep, ControlStep, CallbackStep DEF BaseInv
<1> QED BY <1>1, <1>2, PTL DEF Spec

\* Every variable of the Broker keeps its type; the counters stay within the
\* 14 bits of the field they are written to.
THEOREM BrokerTypeCorrect == Spec => []TypeOK
<1>1. BaseInv => TypeOK
  BY DEF BaseInv
<1> QED BY <1>1, BaseHolds, PTL

\* Broker_acquire_lock and Broker_release_lock do their work on every path
\* through the Broker: no two threads are inside at once.
THEOREM MutualExclusion ==
  Spec => [](\A t, u \in Threads : Inside(t) /\ Inside(u) => t = u)
<1>1. BaseInv => \A t, u \in Threads : Inside(t) /\ Inside(u) => t = u
  BY DEF BaseInv, ControlInv
<1> QED BY <1>1, BaseHolds, PTL

\* The mutex is never left behind by a call that has returned: as long as it
\* is taken, a thread is inside the Broker that has yet to release it (what is
\* left of EveryCallReturns without fairness).
THEOREM MutexNotLeftBehind ==
  Spec => [](lock # NoThread => \E t \in Threads : lock = t /\ Inside(t))
<1>1. BaseInv => (lock # NoThread => \E t \in Threads : lock = t /\ Inside(t))
  BY DEF BaseInv, ControlInv, TypeOK
<1> QED BY <1>1, BaseHolds, PTL

-----------------------------------------------------------------------------
(* The buffer and the counters *)

\* Nothing has been counted before Broker_initialize, and the system does not
\* run with an ambiguous passthrough bus.
BootInv ==
  /\ main = "boot" => count = [b \in Buses |-> 0]
  /\ main = "running" => \A b \in valid_buses : ~Ambiguous(b)

\* What of the packet is in the buffer at each point of a request.
BufferInv ==
  \A t \in Tasks :
    /\ pc[t] \in {"header", "trailer", "count", "send"} => buffer.data = Request(t).data
    /\ pc[t] \in {"trailer", "count", "send"} /\ "dst" \in Fields(BusOf(t))
         => buffer.dst = Request(t).dst
    /\ pc[t] \in {"trailer", "count"} /\ "seq" \in Fields(BusOf(t))
         => buffer.seq = count[BusOf(t)]
    /\ pc[t] = "send" /\ "seq" \in Fields(BusOf(t))
         => buffer.seq \in 0..MaxSeq /\ count[BusOf(t)] = Bump(buffer.seq, MaxSeq)
    /\ pc[t] \in {"count", "send"} /\ "source" \in Fields(BusOf(t))
         => buffer.source = Request(t).source
    /\ pc[t] \in {"count", "send"} /\ "crc" \in Fields(BusOf(t))
         => buffer.crc = Crc(Request(t).dst, buffer.seq, Request(t).data)

\* A call in hand is the same call whatever others ask for.
LEMMA RequestKept ==
  ASSUME BaseInv, NEW t \in Tasks, NEW interface \in Interfaces, NEW d \in Data,
         Broker_deliver_request(t, interface, d), NEW u \in Tasks, pc[u] # "idle"
  PROVE  u # t /\ call'[u] = call[u] /\ pc'[u] = pc[u] /\ Request(u)' = Request(u) /\ BusOf(u)' = BusOf(u)
<1> USE ThreadFacts
<1>1. u # t /\ call'[u] = call[u] /\ pc'[u] = pc[u]
  BY DEF Broker_deliver_request, Goto, BaseInv, TypeOK
<1>2. call[u] \in 1..Len(issued)
  BY DEF BaseInv, ControlInv
<1>3. issued'[call[u]] = issued[call[u]]
  <2> DEFINE r == [dst |-> interface, source |-> t, data |-> d]
  <2>1. r \in [dst: Interfaces, source: Pids, data: Data]
    BY BrokerAssumption
  <2>2. issued \in Seq([dst: Interfaces, source: Pids, data: Data]) /\ issued' = Append(issued, r)
    BY DEF BaseInv, TypeOK, Broker_deliver_request
  <2> HIDE DEF r
  <2> QED BY <1>2, <2>1, <2>2, AppendKeeps
<1> QED BY <1>1, <1>3 DEF Request, BusOf

\* A task inside the Broker has a request for a bus.
LEMMA RequestTypes ==
  ASSUME BaseInv, NEW t \in Tasks, pc[t] # "idle"
  PROVE  /\ call[t] \in 1..Len(issued)
         /\ Request(t) \in [dst: Interfaces, source: Pids, data: Data]
         /\ BusOf(t) \in Buses
<1>1. call[t] \in 1..Len(issued)
  BY DEF BaseInv, ControlInv
<1>2. issued \in Seq([dst: Interfaces, source: Pids, data: Data])
  BY DEF BaseInv, TypeOK
<1>3. issued[call[t]] \in [dst: Interfaces, source: Pids, data: Data]
  BY <1>1, <1>2, ElementIn
<1>4. issued[call[t]].dst \in Interfaces
  BY <1>3
<1> QED BY <1>1, <1>3, <1>4, BusFacts DEF Request, BusOf

\* Broker_initialize is over, or nothing has been counted yet.
LEMMA BootStep == BaseInv /\ BootInv /\ [Next]_vars => BootInv'
<1> SUFFICES ASSUME BaseInv, BootInv, [Next]_vars PROVE BootInv'
  OBVIOUS
<1> USE DEF routing, sending, receiving, errors
<1>1. CASE Broker_initialize
  BY <1>1 DEF Broker_initialize, BootInv, Ambiguous
<1>2. ASSUME UNCHANGED <<main, unique, anyPort>>, main = "boot" => UNCHANGED count PROVE BootInv'
  BY <1>2 DEF BootInv, Ambiguous
<1>3. ASSUME NEW t \in Tasks, NEW interface \in Interfaces, NEW d \in Data,
             Broker_deliver_request(t, interface, d)
      PROVE  BootInv'
  BY <1>2, <1>3 DEF Broker_deliver_request
<1>4. ASSUME NEW t \in Drivers, NEW i \in Received, Broker_receive_packet(t, i) PROVE BootInv'
  BY <1>2, <1>4 DEF Broker_receive_packet
<1>5. ASSUME NEW t \in Threads, Step(t) PROVE BootInv'
  <2>1. main = "running"
    BY <1>5 DEF BaseInv, ControlInv, Step, Acquire, Release, SendStep, Copy, WriteHeader, WriteTrailer,
         Count, Send, ReceiveStep, DepacketizeStep, Deliver, CheckCallback, CallCallback, Goto
  <2>2. UNCHANGED <<main, unique, anyPort>>
    BY <1>5 DEF Step, Acquire, Release, SendStep, Copy, WriteHeader, WriteTrailer,
         Count, Send, ReceiveStep, DepacketizeStep, Deliver, CheckCallback, CallCallback
  <2> QED BY <1>2, <2>1, <2>2
<1>6. ASSUME NEW cb \in Callbacks, Broker_register_error_callback(cb) PROVE BootInv'
  BY <1>2, <1>6 DEF Broker_register_error_callback
<1>7. CASE UNCHANGED vars
  BY <1>2, <1>7 DEF vars
<1> QED BY <1>1, <1>3, <1>4, <1>5, <1>6, <1>7 DEF Next

\* What a request has written stays in the buffer until it is sent: the others
\* wait for the mutex.
LEMMA BufferStep == BaseInv /\ BufferInv /\ [Next]_vars => BufferInv'
<1> SUFFICES ASSUME BaseInv, BufferInv, [Next]_vars PROVE BufferInv'
  OBVIOUS
<1> USE ThreadFacts DEF routing, sending, receiving, errors
<1> DEFINE Written == {"header", "trailer", "count", "send"}
<1>1. ASSUME \A u \in Tasks : pc'[u] \in Written =>
               /\ pc[u] = pc'[u] /\ call'[u] = call[u] /\ Request(u)' = Request(u) /\ BusOf(u)' = BusOf(u)
               /\ UNCHANGED <<buffer, count>>
      PROVE  BufferInv'
  BY <1>1 DEF BufferInv
<1>2. CASE Broker_initialize
  BY <1>2 DEF Broker_initialize, BufferInv, BaseInv, ControlInv
<1>3. ASSUME NEW t \in Tasks, NEW interface \in Interfaces, NEW d \in Data,
             Broker_deliver_request(t, interface, d)
      PROVE  BufferInv'
  <2>1. UNCHANGED <<buffer, count>>
    BY <1>3 DEF Broker_deliver_request
  <2>2. ASSUME NEW u \in Tasks, pc'[u] \in Written PROVE pc[u] # "idle"
    BY <1>3, <2>2 DEF Broker_deliver_request, Goto, BaseInv, TypeOK
  <2> QED BY <1>1, <1>3, <2>1, <2>2, RequestKept
<1>4. ASSUME NEW t \in Threads, NEW to \in Locations \ Written, pc' = [pc EXCEPT ![t] = to],
             UNCHANGED <<issued, buffer, count>>, \A u \in Tasks : call'[u] = call[u]
      PROVE  BufferInv'
  BY <1>1, <1>4 DEF Request, BusOf, BaseInv, TypeOK
<1>5. ASSUME NEW t \in Drivers, NEW i \in Received, Broker_receive_packet(t, i) PROVE BufferInv'
  BY <1>4, <1>5 DEF Broker_receive_packet, Goto, Locations, BaseInv, TypeOK
<1>6. ASSUME NEW t \in Threads, Acquire(t) PROVE BufferInv'
  BY <1>4, <1>6 DEF Acquire, Goto, Locations
<1>7. ASSUME NEW t \in Threads, Release(t) PROVE BufferInv'
  BY <1>4, <1>7 DEF Release, Goto, Locations
<1>8. ASSUME NEW t \in Drivers, ReceiveStep(t) PROVE BufferInv'
  BY <1>4, <1>8 DEF ReceiveStep, DepacketizeStep, Deliver, CheckCallback, CallCallback, Goto, Locations
<1>9. ASSUME NEW t \in Tasks, SendStep(t) PROVE BufferInv'
  <2> DEFINE b == BusOf(t)
  <2>1. Inside(t) /\ pc[t] # "idle"
    BY <1>9 DEF SendStep, Copy, WriteHeader, WriteTrailer, Count, Send, Goto, Inside
  <2>2. UNCHANGED <<issued, call>>
    BY <1>9 DEF SendStep, Copy, WriteHeader, WriteTrailer, Count, Send
  <2>3. \A u \in Tasks : Request(u)' = Request(u) /\ BusOf(u)' = BusOf(u)
    BY <2>2 DEF Request, BusOf
  <2>4. \A u \in Tasks : u # t => pc'[u] \notin Written
    <3>1. \A u \in Tasks : u # t => ~Inside(u)
      BY <2>1 DEF BaseInv, ControlInv
    <3>2. \A u \in Tasks : u # t => pc'[u] = pc[u]
      BY <1>9 DEF SendStep, Copy, WriteHeader, WriteTrailer, Count, Send, Goto, BaseInv, TypeOK
    <3> QED BY <3>1, <3>2 DEF Inside
  <2>5. pc \in [Threads -> Locations] /\ buffer \in Buffers /\ count \in [Buses -> 0..MaxSeq]
    BY DEF BaseInv, TypeOK
  <2>6. Request(t) \in [dst: Interfaces, source: Pids, data: Data] /\ b \in Buses
    BY <2>1, RequestTypes
  <2>7. CASE Copy(t)
    BY <2>3, <2>4, <2>5, <2>7 DEF Copy, Goto, BufferInv, Buffers
  <2>8. CASE WriteHeader(t)
    BY <2>3, <2>4, <2>5, <2>8 DEF WriteHeader, Goto, BufferInv, Buffers
  <2>9. CASE WriteTrailer(t)
    BY <2>3, <2>4, <2>5, <2>6, <2>9, FieldFacts DEF WriteTrailer, Goto, BufferInv, Buffers
  <2>10. CASE Count(t)
    BY <2>3, <2>4, <2>5, <2>6, <2>10, FieldFacts DEF Count, Goto, BufferInv
  <2>11. CASE Send(t)
    BY <1>4, <2>11 DEF Send, Goto, Locations
  <2> QED BY <1>9, <2>7, <2>8, <2>9, <2>10, <2>11 DEF SendStep
<1>10. ASSUME NEW cb \in Callbacks, Broker_register_error_callback(cb) PROVE BufferInv'
  BY <1>1, <1>10 DEF Broker_register_error_callback, Request, BusOf
<1>11. CASE UNCHANGED vars
  BY <1>1, <1>11 DEF vars, Request, BusOf
<1> QED BY <1>2, <1>3, <1>5, <1>6, <1>7, <1>8, <1>9, <1>10, <1>11 DEF Next, Step

Sending == lock \in Tasks /\ pc[lock] = "send"

\* The number of the next packet of a bus changes with the packet sent, and
\* with nothing else.
NumberKept == UNCHANGED line /\ \A b \in Buses : NextNumber(b)' = NextNumber(b)
NumberUsed(t) ==
  \A b \in Buses : NextNumber(b)' = IF b = BusOf(t) /\ bus_to_packetizer_cfg[b] \in Counted
                                    THEN Bump(NextNumber(b), MaxSeq) ELSE NextNumber(b)

\* The packet given to the driver is that of the request in hand.
LEMMA PacketSent ==
  ASSUME BaseInv, BufferInv, NEW t \in Tasks, Send(t)
  PROVE  /\ BusOf(t) \in Buses
         /\ line' = [line EXCEPT ![BusOf(t)] = Append(@, PacketFor(BusOf(t), Request(t), NextNumber(BusOf(t))))]
         /\ bus_to_packetizer_cfg[BusOf(t)] \in Counted
              => /\ NextNumber(BusOf(t)) = buffer.seq
                 /\ buffer.seq \in 0..MaxSeq
                 /\ count[BusOf(t)] = Bump(buffer.seq, MaxSeq)
<1> DEFINE b == BusOf(t)
           r == Request(t)
<1>1. pc[t] = "send" /\ lock = t
  BY ThreadFacts DEF Send, Goto, BaseInv, ControlInv, Inside
<1>2. r \in [dst: Interfaces, source: Pids, data: Data] /\ b \in Buses
  BY <1>1, RequestTypes
<1>3. bus_to_packetizer_cfg[b] \in Counted
        => NextNumber(b) = buffer.seq /\ buffer.seq \in 0..MaxSeq /\ count[b] = Bump(buffer.seq, MaxSeq)
  BY <1>1, <1>2, FieldFacts DEF NextNumber, BufferInv
<1>4. Fields(b) \subseteq {"dst", "seq", "data", "source", "crc"}
  BY <1>2, FieldFacts
<1> DEFINE all == [dst |-> r.dst, seq |-> NextNumber(b), data |-> r.data, source |-> r.source,
                   crc |-> Crc(r.dst, NextNumber(b), r.data)]
<1>5. ASSUME NEW x \in Fields(b) PROVE buffer[x] = all[x]
  <2>1. "seq" \in Fields(b) => buffer.seq = NextNumber(b)
    BY <1>2, <1>3, FieldFacts
  <2>2. CASE x = "dst"
    BY <1>1, <2>2, <1>5 DEF BufferInv
  <2>3. CASE x = "seq"
    BY <2>1, <2>3, <1>5
  <2>4. CASE x = "data"
    BY <1>1, <2>4 DEF BufferInv
  <2>5. CASE x = "source"
    BY <1>1, <2>5, <1>5 DEF BufferInv
  <2>6. CASE x = "crc"
    <3>1. "seq" \in Fields(b)
      BY <1>2, <1>5, <2>6, FieldFacts
    <3>2. buffer.crc = Crc(r.dst, buffer.seq, r.data)
      BY <1>1, <1>5, <2>6 DEF BufferInv
    <3> QED BY <2>1, <2>6, <3>1, <3>2
  <2> QED BY <1>4, <2>2, <2>3, <2>4, <2>5, <2>6
<1>6. [x \in Fields(b) |-> buffer[x]] = PacketFor(b, r, NextNumber(b))
  BY <1>5, Zenon DEF PacketFor
<1>7. line' = [line EXCEPT ![b] = Append(@, [x \in Fields(b) |-> buffer[x]])]
  BY DEF Send
<1> QED BY <1>2, <1>3, <1>6, <1>7

\* Sending a packet uses up the number of its bus.
LEMMA SendUsesNumber ==
  ASSUME BaseInv, BufferInv, NEW t \in Tasks, Send(t)
  PROVE  NumberUsed(t)
<1>1. lock = t /\ pc[t] = "send" /\ pc'[t] # "send" /\ UNCHANGED <<lock, count>>
  BY ThreadFacts DEF Send, Goto, Inside, BaseInv, TypeOK, ControlInv
<1>2. bus_to_packetizer_cfg[BusOf(t)] \in Counted
        => NextNumber(BusOf(t)) = buffer.seq /\ count[BusOf(t)] = Bump(buffer.seq, MaxSeq)
  BY PacketSent
<1>3. \A b \in Buses : NextNumber(b)' = count[b]
  BY <1>1 DEF NextNumber
<1>4. \A b \in Buses : b # BusOf(t) \/ bus_to_packetizer_cfg[b] \notin Counted => NextNumber(b) = count[b]
  BY <1>1 DEF NextNumber
<1> QED BY <1>2, <1>3, <1>4 DEF NumberUsed

\* Each step keeps the numbers or is the sending of a packet.
LEMMA NumberStep ==
  ASSUME BaseInv, BootInv, BufferInv, [Next]_vars
  PROVE  NumberKept \/ \E t \in Tasks : Send(t) /\ NumberUsed(t)
<1> USE ThreadFacts DEF routing, sending, receiving, errors
<1>t. pc \in [Threads -> Locations]
  BY DEF BaseInv, TypeOK
<1>l. \A t \in Threads : Inside(t) <=> lock = t
  BY DEF BaseInv, ControlInv
<1>1. ASSUME ~Sending, ~Sending', UNCHANGED <<line, count>> PROVE NumberKept
  BY <1>1 DEF Sending, NumberKept, NextNumber
<1>2. ASSUME UNCHANGED <<line, count, buffer, lock>>,
             \A u \in Tasks : pc[u] = "send" => pc'[u] = "send" /\ BusOf(u)' = BusOf(u),
             \A u \in Tasks : pc'[u] = "send" => pc[u] = "send"
      PROVE  NumberKept
  BY <1>2 DEF NumberKept, NextNumber
<1>3. CASE Broker_initialize
  <2>1. \A t \in Threads : pc[t] = "idle"
    BY <1>3 DEF Broker_initialize, BaseInv, ControlInv
  <2>2. ~Sending /\ ~Sending'
    BY <1>3, <2>1 DEF Broker_initialize, Sending
  <2>3. UNCHANGED line /\ \A b \in Buses : count[b] = 0 /\ count'[b] = 0
    BY <1>3 DEF Broker_initialize, BootInv
  <2> QED BY <2>2, <2>3 DEF NumberKept, NextNumber, Sending
<1>4. ASSUME NEW t \in Tasks, NEW interface \in Interfaces, NEW d \in Data,
             Broker_deliver_request(t, interface, d)
      PROVE  NumberKept
  <2>1. UNCHANGED <<line, count, buffer, lock>>
    BY <1>4 DEF Broker_deliver_request
  <2>2. \A u \in Tasks : pc[u] = "send" => pc'[u] = "send" /\ BusOf(u)' = BusOf(u)
    BY <1>4, RequestKept
  <2>3. \A u \in Tasks : pc'[u] = "send" => pc[u] = "send"
    BY <1>4, <1>t DEF Broker_deliver_request, Goto
  <2> QED BY <1>2, <2>1, <2>2, <2>3
<1>5. ASSUME NEW t \in Drivers, NEW i \in Received, Broker_receive_packet(t, i) PROVE NumberKept
  <2>1. UNCHANGED <<line, count, buffer, lock, issued>> /\ \A u \in Tasks : pc'[u] = pc[u] /\ call'[u] = call[u]
    BY <1>5, <1>t DEF Broker_receive_packet, Goto, BaseInv, TypeOK
  <2> QED BY <1>2, <2>1 DEF BusOf, Request
<1>6. ASSUME NEW t \in Threads, Acquire(t) PROVE NumberKept
  <2>1. lock = NoThread /\ lock' = t /\ pc'[t] # "send"
    BY <1>6, <1>t DEF Acquire, Broker_acquire_lock, Goto
  <2> QED BY <1>1, <1>6, <2>1, BrokerAssumption DEF Acquire, Sending
<1>7. ASSUME NEW t \in Threads, Release(t) PROVE NumberKept
  <2>1. lock = t /\ pc[t] # "send" /\ lock' = NoThread
    BY <1>7, <1>l DEF Release, Goto, Inside, Broker_release_lock
  <2> QED BY <1>1, <1>7, <2>1, BrokerAssumption DEF Release, Sending
<1>8. ASSUME NEW t \in Drivers, ReceiveStep(t) PROVE NumberKept
  <2>1. lock = t /\ UNCHANGED <<lock, line, count>>
    BY <1>8, <1>l DEF ReceiveStep, DepacketizeStep, Deliver, CheckCallback, CallCallback, Goto, Inside
  <2> QED BY <1>1, <2>1 DEF Sending
<1>9. ASSUME NEW t \in Tasks, Copy(t) \/ WriteHeader(t) \/ WriteTrailer(t) PROVE NumberKept
  <2>1. lock = t /\ pc[t] # "send" /\ pc'[t] # "send" /\ UNCHANGED <<lock, line, count>>
    BY <1>9, <1>l, <1>t DEF Copy, WriteHeader, WriteTrailer, Goto, Inside
  <2> QED BY <1>1, <2>1 DEF Sending
<1>10. ASSUME NEW t \in Tasks, Count(t) PROVE NumberKept
  <2>1. lock = t /\ pc[t] = "count" /\ pc'[t] = "send" /\ UNCHANGED <<lock, line, buffer, issued, call>>
    BY <1>10, <1>l, <1>t DEF Count, Goto, Inside
  <2>2. BusOf(t) \in Buses /\ BusOf(t)' = BusOf(t)
    BY <2>1, RequestTypes DEF BusOf, Request
  <2>3. bus_to_packetizer_cfg[BusOf(t)] \in Counted => buffer.seq = count[BusOf(t)]
    BY <2>1, <2>2, FieldFacts DEF BufferInv
  <2>4. \A b \in Buses : b # BusOf(t) \/ bus_to_packetizer_cfg[b] \notin Counted => count'[b] = count[b]
    BY <1>10, <2>2 DEF Count, BaseInv, TypeOK
  <2> QED BY <2>1, <2>2, <2>3, <2>4 DEF NumberKept, NextNumber
<1>11. ASSUME NEW t \in Tasks, Send(t) PROVE NumberUsed(t)
  BY <1>11, SendUsesNumber
<1>12. ASSUME NEW cb \in Callbacks, Broker_register_error_callback(cb) PROVE NumberKept
  BY <1>2, <1>12 DEF Broker_register_error_callback, BusOf, Request
<1>13. CASE UNCHANGED vars
  BY <1>2, <1>13 DEF vars, BusOf, Request
<1> QED BY <1>3, <1>4, <1>5, <1>6, <1>7, <1>8, <1>9, <1>10, <1>11, <1>12, <1>13 DEF Next, Step, SendStep

\* The number of the next packet follows that of the last one on the bus.
NumberInv ==
  /\ SequenceConsecutive
  /\ \A b \in Buses : bus_to_packetizer_cfg[b] \in Counted =>
       /\ line[b] = <<>> => NextNumber(b) = 0
       /\ line[b] # <<>> => /\ line[b][Len(line[b])].seq \in 0..MaxSeq
                            /\ NextNumber(b) = Bump(line[b][Len(line[b])].seq, MaxSeq)

\* Every bus starts at zero.
LEMMA NumberInit == Init => NumberInv
BY BrokerAssumption DEF Init, NumberInv, SequenceConsecutive, NextNumber, Threads

\* A packet sent has the number that follows the last one of its bus.
LEMMA NumberInvStep ==
  BaseInv /\ BootInv /\ BufferInv /\ NumberInv /\ [Next]_vars => NumberInv'
<1> SUFFICES ASSUME BaseInv, BootInv, BufferInv, NumberInv, [Next]_vars PROVE NumberInv'
  OBVIOUS
<1>1. CASE NumberKept
  BY <1>1 DEF NumberKept, NumberInv, SequenceConsecutive
<1>2. ASSUME NEW t \in Tasks, Send(t), NumberUsed(t) PROVE NumberInv'
  <2>c. PICK c \in Buses : c = BusOf(t)
    BY <1>2, PacketSent
  <2> DEFINE p == PacketFor(c, Request(t), NextNumber(c))
  <2>1. c \in Buses /\ line' = [line EXCEPT ![c] = Append(@, p)]
    BY <1>2, <2>c, PacketSent
  <2>2. line \in [Buses -> Seq(Packets)]
    BY DEF BaseInv, TypeOK
  <2>3. line' \in [Buses -> Seq(Packets)]
    BY TypeStep DEF BaseInv, TypeOK
  <2>4. \A b \in Buses : b # c => line'[b] = line[b] /\ NextNumber(b)' = NextNumber(b)
    BY <1>2, <2>c, <2>1, <2>2 DEF NumberUsed
  <2>5. ASSUME bus_to_packetizer_cfg[c] \in Counted
        PROVE  /\ line'[c] # <<>> /\ line'[c][1].seq = 0
               /\ \A k \in 1..(Len(line'[c]) - 1) :
                    line'[c][k + 1].seq = IF line'[c][k].seq = MaxSeq THEN 0 ELSE line'[c][k].seq + 1
               /\ line'[c][Len(line'[c])].seq \in 0..MaxSeq
               /\ NextNumber(c)' = Bump(line'[c][Len(line'[c])].seq, MaxSeq)
    <3>1. NextNumber(c) \in 0..MaxSeq
      BY <1>2, <2>c, <2>5, PacketSent
    <3>2. p.seq = NextNumber(c)
      BY <2>1, <2>5, FieldFacts, Zenon DEF PacketFor
    <3> DEFINE old == line[c]
               n == Len(old)
    <3>3. old \in Seq(Packets) /\ n \in Nat
      BY <2>1, <2>2
    <3>4. line'[c] = Append(old, p)
      BY <2>1, <2>2
    <3>5. line'[c] \in Seq(Packets)
      BY <2>1, <2>3
    <3>6. Len(line'[c]) = n + 1 /\ line'[c][n + 1] = p /\ \A k \in 1..n : line'[c][k] = old[k]
      <4> HIDE DEF old, p
      <4>1. /\ Len(Append(old, p)) = Len(old) + 1 /\ Append(old, p)[Len(old) + 1] = p
            /\ \A k \in 1..Len(old) : Append(old, p)[k] = old[k]
        BY <3>3
      <4> QED BY <3>4, <4>1
    <3>7. NextNumber(c)' = Bump(p.seq, MaxSeq)
      BY <1>2, <2>c, <2>1, <2>5, <3>2 DEF NumberUsed
    <3>8. CASE old = <<>>
      <4>1. n = 0 /\ NextNumber(c) = 0
        BY <2>1, <2>5, <3>8 DEF NumberInv
      <4> HIDE DEF p, n
      <4> QED BY <3>1, <3>2, <3>5, <3>6, <3>7, <4>1
    <3>9. CASE old # <<>>
      <4>1. n > 0 /\ old[n].seq \in 0..MaxSeq /\ NextNumber(c) = Bump(old[n].seq, MaxSeq)
        BY <2>1, <2>5, <3>3, <3>9 DEF NumberInv
      <4>2. old[1].seq = 0
        BY <2>1, <2>5, <3>9 DEF NumberInv, SequenceConsecutive
      <4>3. \A k \in 1..(n - 1) : old[k + 1].seq = IF old[k].seq = MaxSeq THEN 0 ELSE old[k].seq + 1
        BY <2>1, <2>5 DEF NumberInv, SequenceConsecutive
      <4>4. p.seq = IF old[n].seq = MaxSeq THEN 0 ELSE old[n].seq + 1
        BY <3>2, <4>1, BrokerAssumption DEF Bump
      <4> HIDE DEF p, n, old
      <4>5. ASSUME NEW k \in 1..n
            PROVE  line'[c][k + 1].seq = IF line'[c][k].seq = MaxSeq THEN 0 ELSE line'[c][k].seq + 1
        <5>1. CASE k = n
          BY <3>3, <3>6, <4>1, <4>4, <5>1
        <5>2. CASE k < n
          <6>1. k \in 1..(n - 1) /\ k + 1 \in 1..n
            BY <3>3, <5>2
          <6>2. line'[c][k + 1] = old[k + 1] /\ line'[c][k] = old[k]
            BY <3>6, <6>1
          <6>3. old[k + 1].seq = IF old[k].seq = MaxSeq THEN 0 ELSE old[k].seq + 1
            BY <4>3, <6>1
          <6> QED BY <6>2, <6>3
        <5> QED BY <3>3, <5>1, <5>2
      <4> QED BY <3>1, <3>2, <3>3, <3>5, <3>6, <3>7, <4>1, <4>2, <4>5
    <3> QED BY <3>8, <3>9
  <2> HIDE DEF p
  <2>6. ASSUME NEW b \in Buses, bus_to_packetizer_cfg[b] \in Counted
        PROVE  /\ line'[b] # <<>> => line'[b][1].seq = 0
               /\ \A k \in 1..(Len(line'[b]) - 1) :
                    line'[b][k + 1].seq = IF line'[b][k].seq = MaxSeq THEN 0 ELSE line'[b][k].seq + 1
               /\ line'[b] = <<>> => NextNumber(b)' = 0
               /\ line'[b] # <<>> => /\ line'[b][Len(line'[b])].seq \in 0..MaxSeq
                                     /\ NextNumber(b)' = Bump(line'[b][Len(line'[b])].seq, MaxSeq)
    <3>1. CASE b = c
      BY <2>5, <2>6, <3>1
    <3>2. CASE b # c
      BY <2>4, <2>6, <3>2 DEF NumberInv, SequenceConsecutive
    <3> QED BY <3>1, <3>2
  <2> QED BY <2>6 DEF NumberInv, SequenceConsecutive
<1> QED BY <1>1, <1>2, NumberStep

SendInv == BaseInv /\ BootInv /\ BufferInv

\* What is known of the buffer and the counters is invariant.
LEMMA SendHolds == Spec => []SendInv
<1>1. Init => SendInv
  BY BaseInit, ThreadFacts DEF SendInv, BaseInv, Init, BootInv, BufferInv
<1>2. BaseInv /\ [Next]_vars => BaseInv'
  BY TypeStep, ControlStep, CallbackStep DEF BaseInv
<1>3. SendInv /\ [Next]_vars => SendInv'
  BY <1>2, BootStep, BufferStep DEF SendInv
<1> QED BY <1>1, <1>3, PTL DEF Spec

\* On each bus the packets are numbered one after the other, modulo the size
\* of the field, whichever tasks they come from.
THEOREM NumbersConsecutive == Spec => []SequenceConsecutive
<1>1. Init => NumberInv
  BY NumberInit
<1>2. SendInv /\ NumberInv /\ [Next]_vars => NumberInv'
  BY NumberInvStep DEF SendInv
<1>3. NumberInv => SequenceConsecutive
  BY DEF NumberInv
<1> QED BY <1>1, <1>2, <1>3, SendHolds, PTL DEF Spec

-----------------------------------------------------------------------------
(* The calls *)

\* A request in hand is nobody else's and has not been sent.
TransmitInv ==
  /\ \A t \in Tasks : pc[t] \in {"acquire"} \cup SendLocations => call[t] \notin transmitted
  /\ \A t, u \in Tasks : t # u /\ pc[t] # "idle" /\ pc[u] # "idle" => call[t] # call[u]

\* A packet in hand is nobody else's, nothing has become of it, and the
\* branch taken for it is the one its packetizer chose.
ConcludeInv ==
  /\ \A t \in Drivers : pc[t] \in {"acquire"} \cup ReceiveLocations =>
       \A k \in 1..Len(outcomes) : outcomes[k].of # call[t]
  /\ \A t, u \in Drivers : t # u /\ pc[t] # "idle" /\ pc[u] # "idle" => call[t] # call[u]
  /\ \A t \in Drivers : pc[t] = "deliver" => Depacketize(Input(t), ExpectedType).ok
  /\ \A t \in Drivers : pc[t] \in {"check", "report"} => ~Depacketize(Input(t), ExpectedType).ok
  /\ \A k \in 1..Len(outcomes) : outcomes[k].of \in 1..Len(arrived)

\* Every step keeps the requests in hand apart and unsent.
LEMMA TransmitStep == BaseInv /\ TransmitInv /\ [Next]_vars => TransmitInv'
<1> SUFFICES ASSUME BaseInv, TransmitInv, [Next]_vars PROVE TransmitInv'
  OBVIOUS
<1> USE ThreadFacts DEF routing, sending, receiving, errors
<1>t. pc \in [Threads -> Locations] /\ call \in [Threads -> Nat] /\ transmitted \subseteq 1..Len(issued)
  BY DEF BaseInv, TypeOK
<1>1. ASSUME \A u \in Tasks : pc'[u] # "idle" => pc[u] # "idle" /\ call'[u] = call[u],
             \A u \in Tasks : pc'[u] \in {"acquire"} \cup SendLocations => pc[u] \in {"acquire"} \cup SendLocations,
             UNCHANGED transmitted
      PROVE  TransmitInv'
  BY <1>1, Zenon DEF TransmitInv, SendLocations
<1>2. CASE Broker_initialize
  BY <1>1, <1>2 DEF Broker_initialize
<1>3. ASSUME NEW t \in Tasks, NEW interface \in Interfaces, NEW d \in Data,
             Broker_deliver_request(t, interface, d)
      PROVE  TransmitInv'
  <2>1. /\ \A u \in Tasks : u # t => pc'[u] = pc[u] /\ call'[u] = call[u]
        /\ pc'[t] = "acquire" /\ call'[t] = Len(issued) + 1 /\ transmitted' = transmitted
    BY <1>3, <1>t DEF Broker_deliver_request, Goto
  <2>2. Len(issued) \in Nat /\ \A u \in Tasks : pc[u] # "idle" => call[u] \in 1..Len(issued)
    BY DEF BaseInv, TypeOK, ControlInv
  <2>3. Len(issued) + 1 \notin transmitted
    BY <1>t, <2>2
  <2>4. \A u \in Tasks : pc[u] # "idle" => call[u] # Len(issued) + 1
    BY <2>2
  <2> QED BY <2>1, <2>3, <2>4 DEF TransmitInv, SendLocations
<1>4. ASSUME NEW t \in Drivers, NEW i \in Received, Broker_receive_packet(t, i) PROVE TransmitInv'
  BY <1>1, <1>4, <1>t DEF Broker_receive_packet, Goto
<1>5. ASSUME NEW t \in Threads, Acquire(t) PROVE TransmitInv'
  BY <1>1, <1>5, <1>t DEF Acquire, Goto
<1>6. ASSUME NEW t \in Threads, Release(t) PROVE TransmitInv'
  BY <1>1, <1>6, <1>t DEF Release, Goto, SendLocations
<1>7. ASSUME NEW t \in Drivers, ReceiveStep(t) PROVE TransmitInv'
  BY <1>1, <1>7, <1>t DEF ReceiveStep, DepacketizeStep, Deliver, CheckCallback, CallCallback, Goto
<1>8. ASSUME NEW t \in Tasks, Copy(t) \/ WriteHeader(t) \/ WriteTrailer(t) \/ Count(t) PROVE TransmitInv'
  BY <1>1, <1>8, <1>t DEF Copy, WriteHeader, WriteTrailer, Count, Goto, SendLocations
<1>9. ASSUME NEW t \in Tasks, Send(t) PROVE TransmitInv'
  <2>1. pc[t] = "send" /\ pc' = [pc EXCEPT ![t] = "release"] /\ call' = call /\ transmitted' = transmitted \cup {call[t]}
    BY <1>9 DEF Send, Goto
  <2> QED BY <1>t, <2>1 DEF TransmitInv, SendLocations
<1>10. ASSUME NEW cb \in Callbacks, Broker_register_error_callback(cb) PROVE TransmitInv'
  BY <1>1, <1>10 DEF Broker_register_error_callback
<1>11. CASE UNCHANGED vars
  BY <1>1, <1>11 DEF vars
<1> QED BY <1>2, <1>3, <1>4, <1>5, <1>6, <1>7, <1>8, <1>9, <1>10, <1>11 DEF Next, Step, SendStep

\* Something becomes of one packet more, and the rest is as before.
LEMMA OutcomeAdded ==
  ASSUME BaseInv, BaseInv', NEW t \in Drivers, NEW o, Conclude(t, o)
  PROVE  /\ Len(outcomes') = Len(outcomes) + 1 /\ Len(outcomes) \in Nat
         /\ \A k \in 1..Len(outcomes) : outcomes'[k] = outcomes[k]
         /\ outcomes'[Len(outcomes) + 1] = [of |-> call[t], outcome |-> o]
<1>1. outcomes \in Seq([of: Nat, outcome: Outcomes])
  BY DEF BaseInv, TypeOK
<1>2. outcomes' = Append(outcomes, [of |-> call[t], outcome |-> o])
  BY DEF Conclude
<1> DEFINE e == [of |-> call[t], outcome |-> o]
<1> HIDE DEF e
<1>3. /\ Len(Append(outcomes, e)) = Len(outcomes) + 1 /\ Len(outcomes) \in Nat
      /\ \A k \in 1..Len(outcomes) : Append(outcomes, e)[k] = outcomes[k]
      /\ Append(outcomes, e)[Len(outcomes) + 1] = e
  BY <1>1
<1> QED BY <1>2, <1>3 DEF e

\* A driver inside the Broker has a packet in hand.
LEMMA InputTypes ==
  ASSUME BaseInv, NEW t \in Drivers, pc[t] # "idle"
  PROVE  call[t] \in 1..Len(arrived) /\ Input(t) \in Inputs
<1>1. call[t] \in 1..Len(arrived)
  BY DEF BaseInv, ControlInv
<1>2. arrived \in Seq(Inputs)
  BY DEF BaseInv, TypeOK
<1> QED BY <1>1, <1>2, ElementIn DEF Input

\* The ways a packet's call ends.
Ends(t) == Deliver(t) \/ CallCallback(t) \/ (CheckCallback(t) /\ broker_error_callback = NULL)

\* Each end of a reception settles the packet in hand.
LEMMA EndsConclude ==
  ASSUME BaseInv, NEW t \in Drivers, Ends(t)
  PROVE  /\ pc[t] \in ReceiveLocations /\ pc' = [pc EXCEPT ![t] = "release"]
         /\ UNCHANGED <<call, arrived>>
         /\ \E o : Conclude(t, o)
<1> USE DEF routing, sending, receiving, errors
<1>1. CASE Deliver(t)
  BY <1>1 DEF Deliver, Goto, ReceiveLocations
<1>2. CASE CallCallback(t)
  BY <1>2 DEF CallCallback, Goto, ReceiveLocations
<1>3. CASE CheckCallback(t) /\ broker_error_callback = NULL
  BY <1>3 DEF CheckCallback, Goto, ReceiveLocations
<1> QED BY <1>1, <1>2, <1>3 DEF Ends

\* Every step keeps the packets in hand apart and unsettled.
LEMMA ConcludeStep == BaseInv /\ BaseInv' /\ ConcludeInv /\ [Next]_vars => ConcludeInv'
<1> SUFFICES ASSUME BaseInv, BaseInv', ConcludeInv, [Next]_vars PROVE ConcludeInv'
  OBVIOUS
<1> USE ThreadFacts DEF routing, sending, receiving, errors
<1>t. /\ pc \in [Threads -> Locations] /\ call \in [Threads -> Nat]
      /\ Len(arrived) \in Nat /\ Len(outcomes) \in Nat
  BY DEF BaseInv, TypeOK
<1>1. ASSUME \A u \in Drivers : pc'[u] = pc[u] \/ (pc[u] = "acquire" /\ pc'[u] = "depacketize")
                                  \/ (pc[u] = "check" /\ pc'[u] = "report") \/ pc'[u] = "idle",
             UNCHANGED <<call, arrived, outcomes>>
      PROVE  ConcludeInv'
  BY <1>1 DEF ConcludeInv, ReceiveLocations, Input
<1>2. CASE Broker_initialize
  BY <1>1, <1>2 DEF Broker_initialize
<1>3. ASSUME NEW t \in Tasks, NEW interface \in Interfaces, NEW d \in Data,
             Broker_deliver_request(t, interface, d)
      PROVE  ConcludeInv'
  <2>1. /\ \A u \in Drivers : pc'[u] = pc[u] /\ call'[u] = call[u]
        /\ UNCHANGED <<arrived, outcomes>>
    BY <1>3, <1>t DEF Broker_deliver_request, Goto
  <2> QED BY <2>1 DEF ConcludeInv, Input
<1>4. ASSUME NEW t \in Drivers, NEW i \in Received, Broker_receive_packet(t, i) PROVE ConcludeInv'
  <2>1. /\ \A u \in Drivers : u # t => pc'[u] = pc[u] /\ call'[u] = call[u]
        /\ pc'[t] = "acquire" /\ call'[t] = Len(arrived) + 1 /\ UNCHANGED outcomes
    BY <1>4, <1>t DEF Broker_receive_packet, Goto
  <2>2. \A u \in Drivers : pc[u] # "idle" => call[u] \in 1..Len(arrived)
    BY DEF BaseInv, ControlInv
  <2>3. Len(arrived') = Len(arrived) + 1 /\ \A k \in 1..Len(arrived) : arrived'[k] = arrived[k]
    <3>1. arrived \in Seq(Inputs) /\ i \in Inputs /\ arrived' = Append(arrived, i)
      BY <1>4, BrokerAssumption DEF Broker_receive_packet, BaseInv, TypeOK
    <3> QED BY <3>1, AppendKeeps
  <2>4. \A u \in Drivers : u # t /\ pc[u] # "idle" => Input(u)' = Input(u)
    BY <2>1, <2>2, <2>3 DEF Input
  <2>5. \A k \in 1..Len(outcomes) : outcomes[k].of # Len(arrived) + 1 /\ outcomes[k].of \in 1..Len(arrived')
    BY <1>t, <2>3 DEF ConcludeInv
  <2>6. \A u \in Drivers : u # t /\ pc[u] # "idle" => call[u] # Len(arrived) + 1
    BY <1>t, <2>2
  <2>7. \A u \in Drivers : pc'[u] \in {"acquire"} \cup ReceiveLocations =>
          \A k \in 1..Len(outcomes') : outcomes'[k].of # call'[u]
    BY <2>1, <2>5 DEF ConcludeInv
  <2>8. \A u, v \in Drivers : u # v /\ pc'[u] # "idle" /\ pc'[v] # "idle" => call'[u] # call'[v]
    BY <2>1, <2>6 DEF ConcludeInv
  <2>9. \A u \in Drivers : pc'[u] \in {"deliver", "check", "report"} =>
          u # t /\ pc'[u] = pc[u] /\ Input(u)' = Input(u)
    BY <2>1, <2>4
  <2>10. \A u \in Drivers : pc'[u] = "deliver" => Depacketize(Input(u)', ExpectedType).ok
    BY <2>9 DEF ConcludeInv
  <2>11. \A u \in Drivers : pc'[u] \in {"check", "report"} => ~Depacketize(Input(u)', ExpectedType).ok
    BY <2>9 DEF ConcludeInv
  <2> QED BY <2>1, <2>5, <2>7, <2>8, <2>10, <2>11 DEF ConcludeInv
<1>5. ASSUME NEW t \in Threads, Acquire(t) PROVE ConcludeInv'
  BY <1>1, <1>5, <1>t DEF Acquire, Goto
<1>6. ASSUME NEW t \in Threads, Release(t) PROVE ConcludeInv'
  BY <1>1, <1>6, <1>t DEF Release, Goto
<1>7. ASSUME NEW t \in Tasks, SendStep(t) PROVE ConcludeInv'
  BY <1>1, <1>7, <1>t DEF SendStep, Copy, WriteHeader, WriteTrailer, Count, Send, Goto
<1>8. ASSUME NEW t \in Drivers, DepacketizeStep(t) PROVE ConcludeInv'
  <2>1. /\ pc[t] = "depacketize" /\ UNCHANGED <<call, arrived, outcomes>>
        /\ pc' = [pc EXCEPT ![t] = IF Depacketize(Input(t), ExpectedType).ok THEN "deliver" ELSE "check"]
    BY <1>8 DEF DepacketizeStep
  <2>2. \A u \in Drivers : Input(u)' = Input(u)
    BY <2>1 DEF Input
  <2>3. \A u \in Drivers : u # t => pc'[u] = pc[u]
    BY <1>t, <2>1
  <2>4. CASE Depacketize(Input(t), ExpectedType).ok
    <3>1. pc'[t] = "deliver"
      BY <1>t, <2>1, <2>4
    <3> QED BY <2>1, <2>2, <2>3, <2>4, <3>1 DEF ConcludeInv, ReceiveLocations
  <2>5. CASE ~Depacketize(Input(t), ExpectedType).ok
    <3>1. pc'[t] = "check"
      BY <1>t, <2>1, <2>5
    <3> QED BY <2>1, <2>2, <2>3, <2>5, <3>1 DEF ConcludeInv, ReceiveLocations
  <2> QED BY <2>4, <2>5
<1>9. ASSUME NEW t \in Drivers, Ends(t) PROVE ConcludeInv'
  <2>1. pc[t] \in ReceiveLocations /\ pc' = [pc EXCEPT ![t] = "release"] /\ UNCHANGED <<call, arrived>>
    BY <1>9, EndsConclude
  <2>2. PICK o : Conclude(t, o)
    BY <1>9, EndsConclude
  <2>3. call[t] \in 1..Len(arrived)
    BY <2>1, InputTypes DEF ReceiveLocations
  <2>4. /\ Len(outcomes') = Len(outcomes) + 1
        /\ \A k \in 1..Len(outcomes) : outcomes'[k] = outcomes[k]
        /\ outcomes'[Len(outcomes) + 1].of = call[t]
    <3>1. /\ Len(outcomes') = Len(outcomes) + 1
          /\ \A k \in 1..Len(outcomes) : outcomes'[k] = outcomes[k]
          /\ outcomes'[Len(outcomes) + 1] = [of |-> call[t], outcome |-> o]
      BY <2>2, OutcomeAdded
    <3> QED BY <3>1
  <2>5. \A k \in 1..Len(outcomes') : k \in 1..Len(outcomes) \/ k = Len(outcomes) + 1
    BY <1>t, <2>4
  <2>6. \A u \in Drivers : Input(u)' = Input(u)
    BY <2>1 DEF Input
  <2>7. pc'[t] = "release" /\ \A u \in Drivers : u # t => pc'[u] = pc[u]
    BY <1>t, <2>1
  <2>8. pc[t] # "idle"
    BY <2>1 DEF ReceiveLocations
  <2>9. \A u \in Drivers : u # t /\ pc[u] # "idle" => call[u] # call[t]
    BY <2>8 DEF ConcludeInv
  <2>10. \A k \in 1..Len(outcomes') : outcomes'[k].of \in 1..Len(arrived')
    BY <2>1, <2>3, <2>4, <2>5 DEF ConcludeInv
  <2>11. ASSUME NEW u \in Drivers, pc'[u] \in {"acquire"} \cup ReceiveLocations
         PROVE  \A k \in 1..Len(outcomes') : outcomes'[k].of # call'[u]
    <3>1. u # t /\ pc[u] = pc'[u] /\ pc[u] # "idle"
      BY <2>7, <2>11 DEF ReceiveLocations
    <3> QED BY <2>1, <2>4, <2>5, <2>9, <2>11, <3>1 DEF ConcludeInv
  <2>12. \A u, v \in Drivers : u # v /\ pc'[u] # "idle" /\ pc'[v] # "idle" => call'[u] # call'[v]
    BY <2>1, <2>7, <2>8 DEF ConcludeInv
  <2>13. \A u \in Drivers : pc'[u] = "deliver" => Depacketize(Input(u)', ExpectedType).ok
    BY <2>6, <2>7 DEF ConcludeInv
  <2>14. \A u \in Drivers : pc'[u] \in {"check", "report"} => ~Depacketize(Input(u)', ExpectedType).ok
    BY <2>6, <2>7 DEF ConcludeInv
  <2> QED BY <2>10, <2>11, <2>12, <2>13, <2>14 DEF ConcludeInv
<1>10. ASSUME NEW t \in Drivers, CheckCallback(t), broker_error_callback # NULL PROVE ConcludeInv'
  BY <1>1, <1>10, <1>t DEF CheckCallback, Goto
<1>11. ASSUME NEW cb \in Callbacks, Broker_register_error_callback(cb) PROVE ConcludeInv'
  BY <1>1, <1>11 DEF Broker_register_error_callback
<1>12. CASE UNCHANGED vars
  BY <1>1, <1>12 DEF vars
<1>13. ASSUME NEW t \in Drivers, ReceiveStep(t) PROVE ConcludeInv'
  BY <1>8, <1>9, <1>10, <1>13 DEF ReceiveStep, Ends
<1> QED BY <1>2, <1>3, <1>4, <1>5, <1>6, <1>7, <1>11, <1>12, <1>13 DEF Next, Step

CallInv == SendInv /\ TransmitInv /\ ConcludeInv

\* The whole invariant holds of every behaviour of the Broker.
LEMMA CallHolds == Spec => []CallInv
<1>1. Init => TransmitInv /\ ConcludeInv
  BY ThreadFacts DEF Init, TransmitInv, ConcludeInv, SendLocations, ReceiveLocations
<1>2. BaseInv /\ [Next]_vars => BaseInv'
  BY TypeStep, ControlStep, CallbackStep DEF BaseInv
<1>3. SendInv /\ TransmitInv /\ ConcludeInv /\ [Next]_vars => TransmitInv' /\ ConcludeInv'
  BY <1>2, TransmitStep, ConcludeStep DEF SendInv
<1>4. CallInv <=> SendInv /\ TransmitInv /\ ConcludeInv
  BY DEF CallInv
<1> QED BY <1>1, <1>3, <1>4, SendHolds, PTL DEF Spec

-----------------------------------------------------------------------------
(* The refinement: every call takes effect at one instant. *)

\* The abstract specification has the same packetizers.
LEMMA SameTable ==
  /\ \A b, r, n : Atomic!PacketFor(b, r, n) = PacketFor(b, r, n)
  /\ \A n, m : Atomic!Bump(n, m) = Bump(n, m)
  /\ Atomic!Counted = Counted
  /\ \A i : Atomic!Depacketize(i, ExpectedType) = Depacketize(i, ExpectedType)
  /\ \A i, u : Atomic!Delivery(i, u) = Delivery(i, u)
  /\ \A c : Atomic!BrokerError(c) = BrokerError(c)
BY Zenon DEF Atomic!PacketFor, PacketFor, Atomic!Fields, Fields, Atomic!Crc, Crc, Atomic!SpacePacket, SpacePacket,
   Atomic!Bump, Bump, Atomic!Counted, Counted, Atomic!Depacketize, Depacketize,
   Atomic!SpaceResult, SpaceResult, Atomic!StrictResult, StrictResult, Atomic!ThinResult, ThinResult,
   Atomic!Delivery, Delivery, Atomic!BrokerError, BrokerError,
   Atomic!IncorrectCrc16, IncorrectCrc16, Atomic!IncorrectPacketType, IncorrectPacketType,
   Atomic!IncorrectPacketSize, IncorrectPacketSize, Atomic!PacketTooSmall, PacketTooSmall

\* Only a packet that is sent uses up a number.
LEMMA KeptUnlessSent ==
  ASSUME CallInv, [Next]_vars, UNCHANGED transmitted
  PROVE  UNCHANGED [b \in Buses |-> NextNumber(b)]
<1>1. ASSUME NEW t \in Tasks, Send(t) PROVE FALSE
  <2>1. call[t] \notin transmitted
    BY <1>1 DEF Send, Goto, CallInv, TransmitInv, SendLocations
  <2> QED BY <1>1, <2>1 DEF Send
<1>2. NumberKept
  BY <1>1, NumberStep DEF CallInv, SendInv
<1> QED BY <1>2 DEF NumberKept

\* The initial states are those of the abstract specification.
LEMMA AtomicInit == Init => Atomic!Init
<1> SUFFICES ASSUME Init PROVE Atomic!Init
  OBVIOUS
<1>1. unique \in [Buses -> Interfaces \cup {INTERFACE_INVALID_ID}]
  BY BrokerAssumption DEF Init
<1>2. [b \in Buses |-> NextNumber(b)] = [b \in Buses |-> 0]
  BY BrokerAssumption DEF Init, NextNumber, Threads
<1> QED BY <1>1, <1>2 DEF Init, Atomic!Init

\* Sending a packet is the request's transmission.
LEMMA SendTransmits ==
  ASSUME CallInv, [Next]_vars, NEW t \in Tasks, Send(t)
  PROVE  Atomic!Next
<1>1. pc[t] = "send" /\ transmitted' = transmitted \cup {call[t]}
      /\ UNCHANGED <<unique, issued, arrived, outcomes, registered>>
  BY DEF Send, Goto, routing, receiving, errors
<1>2. PICK n \in 1..Len(issued) : n = call[t]
  BY <1>1, RequestTypes DEF CallInv, SendInv
<1>3. n \notin transmitted
  BY <1>1, <1>2 DEF CallInv, TransmitInv, SendLocations
<1>4. PICK c \in Buses : c = BusOf(t)
  BY PacketSent DEF CallInv, SendInv
<1>5. c = port_to_bus_map[issued[n].dst]
  BY <1>2, <1>4 DEF BusOf, Request
<1>6. line' = [line EXCEPT ![c] = Append(@, PacketFor(c, issued[n], NextNumber(c)))]
  <2>1. line' = [line EXCEPT ![BusOf(t)] = Append(@, PacketFor(BusOf(t), Request(t), NextNumber(BusOf(t))))]
    BY PacketSent DEF CallInv, SendInv
  <2> QED BY <1>2, <1>4, <2>1 DEF Request
<1> DEFINE numbers == [b \in Buses |-> NextNumber(b)]
<1>7. numbers' = [numbers EXCEPT ![c] = IF bus_to_packetizer_cfg[c] \in Counted THEN Bump(@, MaxSeq) ELSE @]
  <2>1. \A b \in Buses : NextNumber(b)' = IF b = c /\ bus_to_packetizer_cfg[b] \in Counted
                                          THEN Bump(NextNumber(b), MaxSeq) ELSE NextNumber(b)
    BY <1>4, SendUsesNumber DEF CallInv, SendInv, NumberUsed
  <2> QED BY <2>1
<1>8. numbers[c] = NextNumber(c)
  OBVIOUS
<1> HIDE DEF numbers
<1>9. Atomic!Transmit(n)
  BY <1>1, <1>2, <1>3, <1>5, <1>6, <1>7, <1>8, SameTable, Zenon DEF Atomic!Transmit, numbers
<1> QED BY <1>9 DEF Atomic!Next

\* What becomes of a packet is what may become of it at that instant.
LEMMA EndConcludes ==
  ASSUME CallInv, [Next]_vars, NEW t \in Drivers, Ends(t)
  PROVE  Atomic!Next
<1> USE DEF routing, sending, receiving, errors
<1>b. BaseInv /\ ConcludeInv
  BY DEF CallInv, SendInv
<1>1. UNCHANGED <<unique, issued, transmitted, line, arrived, registered>>
  BY DEF Ends, Deliver, CallCallback, CheckCallback
<1>2. UNCHANGED [b \in Buses |-> NextNumber(b)]
  BY <1>1, KeptUnlessSent
<1>3. pc[t] \in ReceiveLocations
  BY <1>b, EndsConclude
<1>4. PICK n \in 1..Len(arrived) : n = call[t]
  BY <1>b, <1>3, InputTypes DEF ReceiveLocations
<1>5. \A k \in 1..Len(outcomes) : outcomes[k].of # n
  BY <1>b, <1>3, <1>4 DEF ConcludeInv
<1>6. Input(t) = arrived[n]
  BY <1>4 DEF Input
<1>7. \E o \in Atomic!Outcomes(arrived[n], registered) : outcomes' = Append(outcomes, [of |-> n, outcome |-> o])
  <2>1. CASE Deliver(t)
    <3>1. Depacketize(Input(t), ExpectedType).ok
      BY <1>b, <2>1 DEF Deliver, Goto, ConcludeInv
    <3> DEFINE o == [how |-> "delivered", call |-> Delivery(Input(t), unique[Input(t).bus])]
    <3>2. o \in Atomic!Outcomes(arrived[n], registered)
      <4>1. Atomic!Depacketize(arrived[n], ExpectedType).ok
        <5>1. Atomic!Depacketize(arrived[n], ExpectedType) = Depacketize(arrived[n], ExpectedType)
          BY SameTable, Zenon
        <5> QED BY <1>6, <3>1, <5>1, Zenon
      <4>2. Atomic!Outcomes(arrived[n], registered)
              = {[how |-> "delivered", call |-> Atomic!Delivery(arrived[n], unique[arrived[n].bus])]}
        BY <4>1, Zenon DEF Atomic!Outcomes
      <4>3. Atomic!Delivery(arrived[n], unique[arrived[n].bus]) = Delivery(Input(t), unique[Input(t).bus])
        BY <1>6, SameTable, Zenon
      <4> QED BY <4>2, <4>3, Zenon
    <3>3. outcomes' = Append(outcomes, [of |-> n, outcome |-> o])
      BY <1>4, <2>1 DEF Deliver, Conclude
    <3> QED BY <3>2, <3>3
  <2>2. CASE CallCallback(t)
    <3>1. ~Depacketize(Input(t), ExpectedType).ok /\ seen[t] \in registered
      BY <1>b, <2>2 DEF CallCallback, Goto, ConcludeInv, BaseInv, CallbackInv
    <3>2. PICK cb \in {seen[t], broker_error_callback} :
            Conclude(t, [how |-> "reported", by |-> cb, error |-> BrokerError(Depacketize(Input(t), ExpectedType).code)])
      BY <2>2 DEF CallCallback
    <3>3. cb \in registered
      BY <1>b, <3>1, <3>2 DEF BaseInv, CallbackInv
    <3> DEFINE o == [how |-> "reported", by |-> cb, error |-> BrokerError(Depacketize(Input(t), ExpectedType).code)]
    <3>4. o \in Atomic!Outcomes(arrived[n], registered)
      <4>1. Atomic!Outcomes(arrived[n], registered) =
              {[how |-> "reported", by |-> c, error |-> BrokerError(Depacketize(Input(t), ExpectedType).code)] : c \in registered}
        BY <1>6, <3>1, <3>3, SameTable, Zenon DEF Atomic!Outcomes
      <4> QED BY <3>3, <4>1
    <3>5. outcomes' = Append(outcomes, [of |-> n, outcome |-> o])
      BY <1>4, <3>2 DEF Conclude
    <3> QED BY <3>4, <3>5
  <2>3. CASE CheckCallback(t) /\ broker_error_callback = NULL
    <3>1. ~Depacketize(Input(t), ExpectedType).ok /\ registered = {}
      BY <1>b, <2>3 DEF CheckCallback, Goto, ConcludeInv, BaseInv, CallbackInv
    <3>2. [how |-> "dropped"] \in Atomic!Outcomes(arrived[n], registered)
      BY <1>6, <3>1, SameTable, Zenon DEF Atomic!Outcomes
    <3>3. outcomes' = Append(outcomes, [of |-> n, outcome |-> [how |-> "dropped"]])
      BY <1>4, <2>3 DEF CheckCallback, Conclude
    <3> QED BY <3>2, <3>3
  <2> QED BY <2>1, <2>2, <2>3 DEF Ends
<1>8. Atomic!Conclude(n)
  BY <1>1, <1>2, <1>5, <1>7, Zenon DEF Atomic!Conclude
<1> QED BY <1>8 DEF Atomic!Next

\* Every step of the Broker is one of the abstract specification or none.
LEMMA AtomicStep == CallInv /\ [Next]_vars => [Atomic!Next]_(Atomic!vars)
<1> SUFFICES ASSUME CallInv, [Next]_vars PROVE [Atomic!Next]_(Atomic!vars)
  OBVIOUS
<1> USE DEF routing, sending, receiving, errors
<1>1. ASSUME UNCHANGED <<unique, issued, transmitted, line, arrived, outcomes, registered>>
      PROVE  UNCHANGED Atomic!vars
  BY <1>1, KeptUnlessSent DEF Atomic!vars
<1>2. CASE Broker_initialize
  BY <1>1, <1>2 DEF Broker_initialize
<1>3. ASSUME NEW t \in Tasks, NEW interface \in Interfaces, NEW d \in Data,
             Broker_deliver_request(t, interface, d)
      PROVE  Atomic!Next
  <2> DEFINE r == [dst |-> interface, source |-> t, data |-> d]
  <2>1. r \in Atomic!Requests
    BY BrokerAssumption DEF Atomic!Requests
  <2>2. UNCHANGED <<unique, transmitted, line, arrived, outcomes, registered>> /\ issued' = Append(issued, r)
    BY <1>3 DEF Broker_deliver_request
  <2>3. UNCHANGED [b \in Buses |-> NextNumber(b)]
    BY <2>2, KeptUnlessSent
  <2> HIDE DEF r
  <2>4. Atomic!Request(r)
    BY <2>2, <2>3, Zenon DEF Atomic!Request
  <2> QED BY <2>1, <2>4 DEF Atomic!Next
<1>4. ASSUME NEW t \in Drivers, NEW i \in Received, Broker_receive_packet(t, i)
      PROVE  Atomic!Next
  <2>1. UNCHANGED <<unique, issued, transmitted, line, outcomes, registered>> /\ arrived' = Append(arrived, i)
    BY <1>4 DEF Broker_receive_packet
  <2>2. UNCHANGED [b \in Buses |-> NextNumber(b)]
    BY <2>1, KeptUnlessSent
  <2>3. Atomic!Arrive(i)
    BY <2>1, <2>2, Zenon DEF Atomic!Arrive
  <2> QED BY <2>3 DEF Atomic!Next
<1>5. ASSUME NEW t \in Threads, Acquire(t) \/ Release(t) PROVE UNCHANGED Atomic!vars
  BY <1>1, <1>5 DEF Acquire, Release
<1>6. ASSUME NEW t \in Tasks, Copy(t) \/ WriteHeader(t) \/ WriteTrailer(t) \/ Count(t)
      PROVE  UNCHANGED Atomic!vars
  BY <1>1, <1>6 DEF Copy, WriteHeader, WriteTrailer, Count
<1>7. ASSUME NEW t \in Tasks, Send(t) PROVE Atomic!Next
  BY <1>7, SendTransmits
<1>8. ASSUME NEW t \in Drivers, DepacketizeStep(t) \/ (CheckCallback(t) /\ broker_error_callback # NULL)
      PROVE  UNCHANGED Atomic!vars
  BY <1>1, <1>8 DEF DepacketizeStep, CheckCallback
<1>9. ASSUME NEW t \in Drivers, Ends(t) PROVE Atomic!Next
  BY <1>9, EndConcludes
<1>10. ASSUME NEW cb \in Callbacks, Broker_register_error_callback(cb) PROVE Atomic!Next
  <2>1. /\ UNCHANGED <<unique, issued, transmitted, line, arrived, outcomes>>
        /\ registered' = registered \cup {cb}
    BY <1>10 DEF Broker_register_error_callback
  <2>2. UNCHANGED [b \in Buses |-> NextNumber(b)]
    BY <2>1, KeptUnlessSent
  <2>3. Atomic!Register(cb)
    BY <2>1, <2>2, Zenon DEF Atomic!Register
  <2> QED BY <2>3 DEF Atomic!Next
<1>11. CASE UNCHANGED vars
  BY <1>1, <1>11 DEF vars
<1>12. ASSUME NEW t \in Drivers, ReceiveStep(t) PROVE [Atomic!Next]_(Atomic!vars)
  BY <1>8, <1>9, <1>12 DEF ReceiveStep, Ends
<1>13. ASSUME NEW t \in Tasks, SendStep(t) PROVE [Atomic!Next]_(Atomic!vars)
  BY <1>6, <1>7, <1>13 DEF SendStep
<1> QED BY <1>2, <1>3, <1>4, <1>5, <1>10, <1>11, <1>12, <1>13 DEF Next, Step

\* However the calls of tasks and drivers interleave, the Broker behaves as if
\* each took effect at one instant: a request becomes exactly one packet, its
\* own, with its bus's next number; a received packet is dealt with once.
THEOREM CallsAtomic == Spec => AtomicCalls
<1>1. Init => Atomic!Init
  BY AtomicInit
<1>2. CallInv /\ [Next]_vars => [Atomic!Next]_(Atomic!vars)
  BY AtomicStep
<1> QED BY <1>1, <1>2, CallHolds, PTL DEF Spec, AtomicCalls, Atomic!Spec

-----------------------------------------------------------------------------
(* Passthrough buses *)

\* Nothing arrives on another bus than those the Broker was initialised with,
\* and a passthrough packet is always delivered, to its bus's unique port.
PassthroughInv ==
  /\ outcomes # <<>> => main = "running"
  /\ \A k \in 1..Len(arrived) : arrived[k].bus \in valid_buses
  /\ \A k \in 1..Len(outcomes) :
       LET i == arrived[outcomes[k].of]
       IN  bus_to_packetizer_cfg[i.bus] = "PASSTHROUGH" =>
             outcomes[k].outcome = [how |-> "delivered", call |-> Delivery(i, unique[i.bus])]

\* Every step keeps passthrough packets on their way to their port.
LEMMA PassthroughStep == CallInv /\ CallInv' /\ PassthroughInv /\ [Next]_vars => PassthroughInv'
<1> SUFFICES ASSUME CallInv, CallInv', PassthroughInv, [Next]_vars PROVE PassthroughInv'
  OBVIOUS
<1> USE ThreadFacts DEF routing, sending, receiving, errors
<1>t. BaseInv /\ BaseInv' /\ ConcludeInv /\ Len(arrived) \in Nat /\ Len(outcomes) \in Nat
  <2>1. BaseInv /\ BaseInv' /\ ConcludeInv
    BY DEF CallInv, SendInv
  <2>2. arrived \in Seq(Inputs) /\ outcomes \in Seq([of: Nat, outcome: Outcomes])
    BY <2>1 DEF BaseInv, TypeOK
  <2> QED BY <2>1, <2>2
<1>1. ASSUME UNCHANGED <<unique, main, arrived, outcomes>> PROVE PassthroughInv'
  BY <1>1 DEF PassthroughInv
<1>2. CASE Broker_initialize
  BY <1>2 DEF Broker_initialize, PassthroughInv
<1>3. ASSUME NEW t \in Tasks, NEW interface \in Interfaces, NEW d \in Data,
             Broker_deliver_request(t, interface, d)
      PROVE  PassthroughInv'
  BY <1>1, <1>3 DEF Broker_deliver_request
<1>4. ASSUME NEW t \in Drivers, NEW i \in Received, Broker_receive_packet(t, i) PROVE PassthroughInv'
  <2>1. UNCHANGED <<unique, main, outcomes>> /\ arrived' = Append(arrived, i) /\ i.bus \in valid_buses
    BY <1>4 DEF Broker_receive_packet
  <2>2. arrived \in Seq(Inputs) /\ i \in Inputs
    BY <1>4, <1>t, BrokerAssumption DEF Broker_receive_packet, BaseInv, TypeOK
  <2>3. /\ Len(arrived') = Len(arrived) + 1 /\ arrived'[Len(arrived) + 1] = i
        /\ \A k \in 1..Len(arrived) : arrived'[k] = arrived[k]
    BY <2>1, <2>2, AppendKeeps
  <2>4. \A k \in 1..Len(arrived') : arrived'[k].bus \in valid_buses
    BY <1>t, <2>1, <2>3 DEF PassthroughInv
  <2>5. \A k \in 1..Len(outcomes) : outcomes[k].of \in 1..Len(arrived)
    BY <1>t DEF ConcludeInv
  <2> QED BY <2>1, <2>3, <2>4, <2>5 DEF PassthroughInv
<1>5. ASSUME NEW t \in Threads, Acquire(t) \/ Release(t) PROVE PassthroughInv'
  BY <1>1, <1>5 DEF Acquire, Release
<1>6. ASSUME NEW t \in Tasks, SendStep(t) PROVE PassthroughInv'
  BY <1>1, <1>6 DEF SendStep, Copy, WriteHeader, WriteTrailer, Count, Send
<1>7. ASSUME NEW t \in Drivers, DepacketizeStep(t) \/ (CheckCallback(t) /\ broker_error_callback # NULL)
      PROVE  PassthroughInv'
  BY <1>1, <1>7 DEF DepacketizeStep, CheckCallback
<1>8. ASSUME NEW t \in Drivers, Ends(t) PROVE PassthroughInv'
  <2>1. pc[t] \in ReceiveLocations /\ UNCHANGED <<unique, main, arrived>>
    BY <1>8, <1>t, EndsConclude DEF Ends, Deliver, CallCallback, CheckCallback
  <2>2. main = "running"
    BY <1>t, <2>1 DEF BaseInv, ControlInv, ReceiveLocations
  <2>3. PICK o : Conclude(t, o) /\ (Deliver(t) =>
          o = [how |-> "delivered", call |-> Delivery(Input(t), unique[Input(t).bus])])
    BY <1>8, <1>t, EndsConclude DEF Deliver
  <2>4. /\ Len(outcomes') = Len(outcomes) + 1
        /\ \A k \in 1..Len(outcomes) : outcomes'[k] = outcomes[k]
        /\ outcomes'[Len(outcomes) + 1] = [of |-> call[t], outcome |-> o]
    BY <1>t, <2>3, OutcomeAdded
  <2>5. \A k \in 1..Len(outcomes') : k \in 1..Len(outcomes) \/ k = Len(outcomes) + 1
    BY <1>t, <2>4
  <2>6. bus_to_packetizer_cfg[Input(t).bus] = "PASSTHROUGH" => Deliver(t)
    <3>1. bus_to_packetizer_cfg[Input(t).bus] = "PASSTHROUGH" => Depacketize(Input(t), ExpectedType).ok
      BY DEF Depacketize, SpacePacket
    <3>2. CallCallback(t) \/ CheckCallback(t) => ~Depacketize(Input(t), ExpectedType).ok
      BY <1>t DEF CallCallback, CheckCallback, Goto, ConcludeInv
    <3> QED BY <1>8, <3>1, <3>2 DEF Ends
  <2>7. \A k \in 1..Len(outcomes) : outcomes[k].of \in 1..Len(arrived)
    BY <1>t DEF ConcludeInv
  <2>8. ASSUME NEW k \in 1..Len(outcomes'), bus_to_packetizer_cfg[arrived'[outcomes'[k].of].bus] = "PASSTHROUGH"
        PROVE  outcomes'[k].outcome = [how  |-> "delivered",
                                       call |-> Delivery(arrived'[outcomes'[k].of], unique'[arrived'[outcomes'[k].of].bus])]
    <3>1. CASE k \in 1..Len(outcomes)
      BY <2>1, <2>4, <2>8, <3>1 DEF PassthroughInv
    <3>2. CASE k = Len(outcomes) + 1
      <4>1. outcomes'[k].of = call[t] /\ outcomes'[k].outcome = o
        BY <2>4, <3>2
      <4>2. arrived'[outcomes'[k].of] = Input(t)
        BY <2>1, <4>1 DEF Input
      <4> QED BY <2>1, <2>3, <2>6, <2>8, <4>1, <4>2
    <3> QED BY <2>5, <3>1, <3>2
  <2> QED BY <2>1, <2>2, <2>8 DEF PassthroughInv
<1>9. ASSUME NEW cb \in Callbacks, Broker_register_error_callback(cb) PROVE PassthroughInv'
  BY <1>1, <1>9 DEF Broker_register_error_callback
<1>10. CASE UNCHANGED vars
  BY <1>1, <1>10 DEF vars
<1>11. ASSUME NEW t \in Drivers, ReceiveStep(t) PROVE PassthroughInv'
  BY <1>7, <1>8, <1>11 DEF ReceiveStep, Ends
<1> QED BY <1>2, <1>3, <1>4, <1>5, <1>6, <1>9, <1>10, <1>11 DEF Next, Step

\* A passthrough packet is never handed to the deliver function of
\* INTERFACE_INVALID_ID on a bus that has ports: PassthroughPacketizer_init
\* stops such a system, whatever the routing tables.
THEOREM PassthroughHasPort == Spec => []PassthroughResolved
<1>1. Init => PassthroughInv
  BY DEF Init, PassthroughInv
<1>2. CallInv /\ PassthroughInv => PassthroughResolved
  <2> SUFFICES ASSUME CallInv, PassthroughInv, NEW k \in 1..Len(outcomes),
                      bus_to_packetizer_cfg[arrived[outcomes[k].of].bus] = "PASSTHROUGH",
                      anyPort[arrived[outcomes[k].of].bus]
               PROVE  outcomes[k].outcome.call.to # INTERFACE_INVALID_ID
    BY DEF PassthroughResolved
  <2> DEFINE i == arrived[outcomes[k].of]
  <2>1. outcomes[k].outcome.call.to = unique[i.bus]
    <3>1. outcomes[k].outcome = [how |-> "delivered", call |-> Delivery(i, unique[i.bus])]
      BY DEF PassthroughInv
    <3>2. Delivery(i, unique[i.bus]).to = unique[i.bus]
      BY DEF Delivery
    <3> QED BY <3>1, <3>2
  <2>2. outcomes[k].of \in 1..Len(arrived) /\ i.bus \in valid_buses
    BY DEF CallInv, ConcludeInv, PassthroughInv
  <2>3. main = "running"
    <3>1. outcomes # <<>>
      OBVIOUS
    <3> QED BY <3>1 DEF PassthroughInv
  <2> QED BY <2>1, <2>2, <2>3 DEF CallInv, SendInv, BootInv, Ambiguous
<1>3. CallInv /\ CallInv' /\ PassthroughInv /\ [Next]_vars => PassthroughInv'
  BY PassthroughStep
<1> QED BY <1>1, <1>2, <1>3, CallHolds, PTL DEF Spec

=============================================================================
