# TASTE Runtime Common: models, checks and proofs

TASTE Runtime Common is the C library that carries messages between the partitions of a
distributed TASTE system. Tasks hand requests for remote interfaces to the **Broker**, which turns
each into a packet with the **packetizer** of the bus and gives it to the driver; drivers that use a
plain byte stream frame the packets with the **Escaper**. On the other side the driver feeds bytes
to the Escaper's decoder, the packets that come out go to the Broker, and from there to the
interface they are addressed to.

This directory holds TLA+ models of that code, TLC configurations that check them on small
instances, and theorems that TLAPS proves for all values of the constants. Paths below are relative
to the repository; `Escaper.c` and the like are found under `src/`.

## Inventory

| Component | State | Operations | What makes it correct |
|---|---|---|---|
| Escaper (`Escaper/`) | parse state, index into the decoded buffer; three encoder flags; the caller's `*index` | `init`, `start_decoder`, `decode_packet`, `start_encoder`, `encode_packet` | each packet comes out once, unchanged, in order, however it is cut; no buffer overrun; recovery after line errors |
| Broker (`Broker/`) | static buffer, a packetizer state per bus, error callback | `initialize`, `deliver_request`, `receive_packet`, `register_error_callback` | concurrent calls do not mix; packets of a bus numbered without gaps; every packet received delivered or reported; the mutex released on every path |
| Packetizers (`Packetizer/`) | sequence counter (default, CCSDS, strict CCSDS) | `init`, `packetize`, `depacketize` of five implementations | what one writes the other reads; errors detected and named; the counter wraps with the field |
| Checksums (`Crc16.c`, `IsoChecksum.c`) | none | `calculateCrc16`, `IsoChecksum_calculate` | equal to the definitions of the standards; bursts of errors found |
| RoutingHelper | none (generated tables) | `find_unique_destination`, `check_bus_has_any_destination_port` | the unique port exactly when there is one, so that no node runs with a bus it cannot route |
| DriverHelper | none (generated tables) | three lookups | the device at the other end of the bus |
| RuntimeMocks | none | empty tables standing in for generated code | - |

How they interact: `Broker.c` calls the packetizers through a table of functions indexed by the
kind of packetizer configured for the bus, with its mutex held; the packetizers keep their counter
in a structure owned by the Broker. Drivers (outside this repository) call `Broker_receive_packet`
directly or as the `receivePacketFn` of `Escaper_decode_packet`; the Broker calls their send
function, which loops around `Escaper_encode_packet`. `Broker_acquire_lock`, `Broker_release_lock`,
the deliver functions and the tables are provided by the runtime or generated.

What is hard: the shared static buffer and counters under the mutex, and the error callback outside
it; the encoder that is called again and again and keeps half of its state in the caller; the
decoder on a line that loses bytes, with packets too long for it, or restarted within a frame;
limits (full buffers, wrapping counters, 16-bit lengths); routing tables of several nodes that have to
fit together although a passthrough packet says nothing of where it goes. `PROJECT.json` lists these hazards line by
line, with the properties that cover them.

## Modules

| Module | What it is |
|---|---|
| `PacketPipe` | abstract: a FIFO of packets, the promise of a framed link |
| `Escaper` | `Escaper.c`: encoder, wire and decoder, one loop iteration per step |
| `EscaperFaults` | `Escaper` with bytes damaged on the line, packets given up by the sender and a polling loop left and entered again |
| `EscaperProofs` | the theorems about `Escaper` |
| `EscaperFaultProofs` | the theorems about `EscaperFaults`; stands on `EscaperProofs` |
| `PacketizerTable` | what the Broker sees of each kind of packetizer: fields, checks and their order, error codes, counter |
| `SpacePackets` | the bytes of the headers, written and read by the default, strict CCSDS and thin packetizers |
| `SpacePacketProofs` | the theorems about `SpacePackets` |
| `AtomicBroker` | abstract: every call takes effect at one instant |
| `Broker` | `Broker.c`: threads, the mutex, the buffer, statement by statement where another thread could interfere |
| `BrokerProofs` | the theorems about `Broker` |
| `FletcherSums` | abstract: the two sums of ECSS-E-70-41A Annex A |
| `Checksums` | `Crc16.c` and `IsoChecksum.c`, byte by byte, at both ends of a line |
| `ChecksumProofs` | the theorems about the ISO checksum |
| `CrcProofs` | the theorems about the CRC |
| `System` | nodes that fill their routing tables (`RoutingHelper.c`), start their Brokers and send to each other's devices (`DriverHelper.c`); uses `PacketizerTable` |
| `SystemProofs` | the theorems about `System` |
| `MCEscaper`, `MCEscaperFaults`, `MCBroker`, `MCSpacePackets`, `MCChecksums`, `MCSystem` | instances for TLC |

### Escaper

`encoder` and `decoder` are the two halves of `struct Escaper`. A buffer together with its index
is the sequence of the bytes below the index; bytes above it are never read. `data` and `index` are
the arguments of `Escaper_encode_packet`; `sender` is where the sending driver is: `"idle"`,
`"calling"` (about to call), `"encoding"` (inside), `"returned"`. `wire` holds the bytes between the
two devices and `sent`, `decoder.delivered` record what the users see.

| Action | Code |
|---|---|
| `StartSending` | the driver takes a packet: `Escaper_start_encoder`, `*index = 0` |
| `EncodeCall` | entry of `Escaper_encode_packet` up to the loop |
| `EncodeByte` (with `Write`) | one iteration of the loop, with the return when the buffer is full |
| `EncodeEnd` | behind the loop |
| `TransmitUntilZero` | the driver writes the bytes to the line and calls again until it gets 0, as `Escaper.h:130` says (external) |
| `StartDecoder` | `Escaper_start_decoder` |
| `Receive` (with `DecodeByte`, `Store`) | one iteration of the loop of `Escaper_decode_packet` |

The decoder keeps nothing between iterations but the structure's fields, so one call for n bytes is
the same as n calls: every way of cutting the stream is covered. Bytes are model values: the code
compares them with the three control bytes and with nothing else.

`EscaperFaults` adds `DamageByte` (a byte of the wire lost, changed or inserted), `AbandonSending` (a
driver gives a packet up with its frame open), `StopPolling` and `RestartDecoder`, and the ghosts
`clean` and `fresh` that say from which packet on the damage, or the restart, can no longer be felt.
Its payloads may be longer than the decoder's buffer. `Leavings` says what may be delivered of a
packet: the packet itself if it fits, otherwise a part behind one of its START_BYTEs. `Accounted`
says that the packets from the clean one on, in their order and at most once each, make up all that was delivered
behind what the earlier ones left, and that none that fits is missing. `Resynchronised` claims that
once the line is quiet.

### Broker

Threads are `Tasks`, which call `Broker_deliver_request`, and `Drivers`, which call
`Broker_receive_packet`; `pc` names the statement a thread is about to execute.

| Action | Code (`Broker.c`) |
|---|---|
| `Broker_initialize` | 102-128, with `PassthroughPacketizer_init`'s `abort()` and the counters reset by the others |
| `Broker_deliver_request`, `Acquire` | entry of the call; the mutex is taken |
| `Copy` | `memcpy` of the data behind the header |
| `WriteHeader`, `WriteTrailer`, `Count` | the packetize function: header with the counter's value, PID and checksum over what is in the buffer, counter |
| `Send`, `Release` | the driver's send function reads the buffer; the mutex is released |
| `Broker_receive_packet`, `DepacketizeStep`, `Deliver` | the packet is checked and handed to the deliver function |
| `CheckCallback`, `CallCallback` | the callback compared with NULL, and called; it may be read a second time |
| `Broker_register_error_callback` | at any time, without the mutex |

The fields of a packet (`dst`, `seq`, `data`, `source`, `crc`) are kept apart so that a packet
mixed from two requests can be told from a sound one; the field `crc` records over what the checksum
was computed, not its value. A packet received is an input record that says what is wrong with it: its
length, its checksum, its type, which is compared with the one the node was compiled for (`ExpectedType`).
The callback is neither atomic nor protected, so whether a build reads it once
or twice is left open: `CallCallback` may use either value.

`issued`, `arrived`, `line`, `outcomes`, `transmitted` and `registered` record the calls made and
their effects; none of them is read by the code's steps except to look up the arguments of a call.

### SpacePackets

One packet is written by `packetize`, perhaps damaged once on its way, and read by `depacketize`;
`kind` says by which packetizer, the same at both ends. The header is a sequence of bytes, written
field by field by operators with the names of the code's functions; fields that share a byte take
different bits of it, so `|` is a sum and shifts are quotients. The one place where `|` is not a sum,
the thin length, is spelled out (`thinReadPacketDataLength`). The data is a value with a size.

The checksum has two bytes, as in the code, computed over the header and the data and not over the
sender PID behind them. So two packets may share one, and what is detected has a limit. The module
has the two functions that write it as constants, `writeCrc` and `writeChecksum`. `ChecksumAssumption`
says all that is needed of them: a byte of the header changed in a way that is `Telling`, or data changed
within a burst (`Bursts`), gives another checksum. That is what `CrcDetects` and `IsoDetects` say of
`Checksums`, and what `CrcProofs` and `ChecksumProofs` prove. `MCSpacePackets` takes them from
`Checksums`, so that TLC evaluates the assumption on the code's own checksums.

`Damage` is the line. In a byte of the header, PID or checksum any one bit is flipped, or all of them
(`Hits`); the data is replaced by other data, alike in size; or the packet is cut or padded. The ghost
`fault` says what happened, and `"unsure"` what the checksum is not bound to tell: 0 turned into 255, or
data changed in more than a burst. `DamageDetected` claims nothing of these, and it would be wrong to: the
instance has data that differ by a multiple of the CRC's generator, and without the exception TLC shows such
a packet accepted with its contents changed.

`TableAgrees` ties this module to `PacketizerTable`, on which the Broker's model stands: what
`depacketize` answers to the bytes is what the table says of a packet that is short, of a wrong size,
with a wrong checksum or of another type.

### Checksums

A state holds what the two functions have made of the first `it` bytes of a block, at the end that
writes it and at the end that reads it; `NextByte` is one iteration of both loops. The words of the
CRC are sets of bit positions, so that `^` is the symmetric difference; `table` is the one of
`Crc16.c`. `CrcDivides` compares each step with eight steps of the shift register of the standard.
`BitsAssumption` and `TableAssumption` are closed facts on which the proofs stand, about the conversion of a
byte and about the 256 entries of the table: no constant occurs in them, and TLC evaluates them in full.
The Fletcher sums are numbers, folded (`REDUCE`) with the last byte of a chunk of 20 or of the block;
32 bits are never exceeded, because `SumsBounded` of `ChecksumProofs` bounds them far below.
`SumsStandard` says that, taken modulo 255, they are at each byte those of `FletcherSums`.

A checksum of 16 bits cannot find every change: `CrcDetects` and `IsoDetects` are about bursts, changes
within two bytes side by side, which both must find (the ISO checksum cannot tell 0 from 255).

### System

| Action | Code |
|---|---|
| `FindStep` (with `IsDestination`, `Return`) | one iteration of the loop of `find_unique_destination`, or its end; the generated code then stores the result and that of `check_bus_has_any_destination_port` and takes the next bus |
| `Broker_initialize` | `Broker.c:102-128`: `PassthroughPacketizer_init` aborts if a bus is ambiguous |
| `Broker_deliver_request` | the call, and the driver that sends to the device that `get_remote_device_configuration` names |
| `Broker_receive_packet` | the call: what `depacketize` accepts goes to the interface a packet names or, for a passthrough packet, that of `bus_to_unique_port_map`; what it does not is `refused`, with the error for the callback |

Each node has its own routing tables; the tables of devices and ports are the same for all, and
`PortMaps` holds all that a system may be generated with. Nothing in the repository says in words what
the `partition` of an entry of `port_to_partition_bus_map` is. The code says it:
`find_unique_destination` looks for entries of other partitions, and
`PassthroughPacketizer_depacketize` delivers what it receives to the interface found, so the partition
of an entry is the one that sends through this port. The calls of a Broker are atomic here, as
`AtomicBroker` promises and `BrokerProofs` proves of `Broker`, and the buses lose and change nothing: what a
node is handed is what another has written, and `Input` compares its fields and its checksum with what
the receiver looks for.

A node is compiled for a type of packet it sends and one that it expects (`SendType`, `ExpectType`, the
macros at `Broker.c:143-149` and `204-210`). Nothing ties one node's to another's, so a packet may well be
refused. `RefusedIfTypesDiffer` says that this is the only reason, and when it is one.

## Runs

| Run | Checks | Bounds |
|---|---|---|
| `escaper` | `TypeOK`, `BuffersInBounds`, `ZeroMeansFinished`, refinement of `PacketPipe`, `LoopEnds`, `EventuallyDelivered` | payloads up to 2 bytes over 3 control bytes and a plain one, buffers of 3 and 2, 2 packets |
| `escaper_oversize_delivered` | violation of `OversizeNotDelivered` | payloads up to 3 bytes, 1 packet |
| `escaper_faults` | `FaultsTypeOK`, `BuffersInBounds`, `Resynchronised` | a payload that fits a decoder of 1 byte and two of 2 and 3 bytes that do not, 3 packets, 1 damaged byte or packet given up, 1 restart |
| `escaper_restart` | violation of `RestartIntact` | 2 packets, 1 restart, a sound line |
| `broker_send` | `TypeOK`, `SequenceConsecutive`, `PassthroughResolved`, refinement of `AtomicBroker` | 2 tasks, 1 driver, default and passthrough bus, 3 requests, 1 packet, counter modulo 2 |
| `broker_receive` | refinement of `AtomicBroker`, `EveryCallReturns` | 1 task, 2 drivers, strict CCSDS, thin and device-provided bus, 1 request, 2 packets of 5 sorts, 2 callbacks |
| `broker_error_named` | violation of `ErrorIsNamed` | 1 driver, 1 packet |
| `packets` | `TypeOK`, `SentIsReceived`, `DamageDetected`, `TableAgrees`, `StrictIsCcsds` | 14 sizes from 0 to 2^24 + 1, 5 destinations, 3 sources, 3 sequence counts, 9 contents of the data, 1 fault: any bit of any byte but those of the data |
| `packets_length` | violation of `AssertedIsReceived` | thin and strict CCSDS packets, 8 sizes |
| `packets_default_layout` | violation of `DefaultIsCcsds` | default packets, 4 sizes |
| `checksums` | `SumsFit`, refinement of `FletcherSums`, `IsoVerifies`, `CrcDivides`, `CrcDetects`, `IsoDetects` | every block of one byte; blocks of 19 to 62 bytes around the ends of chunks; one byte changed in every way, two in a sixth of the ways |
| `system` | `TypeOK`, `StopsIfAmbiguous`, `RightInterface`, `RefusedIfTypesDiffer`, `Arrives` | 3 nodes in a row, a passthrough bus and one of default packets whose nodes agree on the type in one direction only, all 125 tables of 3 ports, 2 requests |

Why the bounds suffice. A buffer of three bytes cuts a frame of up to six (START, two escaped bytes,
STOP) at every place: behind START, between ESCAPE and the escaped byte, before STOP with the buffer
exactly full, and with STOP in the last place. Two packets show what one leaves behind for the next.
In the faults run the packet before the damage, the one hit and the one behind are needed: three; its
two long payloads hold a START_BYTE with a rest that fits the decoder, and one with a rest that ends in
an escape. Three ports are needed for one to be passed over between two of the same bus, and three
nodes for a bus a node does not join. The 256 blocks of one byte make the CRC look up every row.
In the Broker, interference needs two threads; three requests on a counter of two values pass
through the wrap and beyond it. The numbers in the packets are those at the edges of a byte and of
a field, from both sides. Of the data, TLC has three bytes at most, and the zeros behind them in a longer
packet are left out of its checksum; `Checksums` is where long blocks are summed. TLC's integers end below
2^31, so `Says` compares the high halves of a default length before it computes the whole. What the bounds leave open for the safety
properties the proofs close: each safety or action property of a passing run is also stated by a
theorem, for all values of the constants.

The Escaper's runs do not check for deadlock: the system may stop when everything was sent. In the
Broker's model a callback may always be registered, so a thread stuck behind a mutex nobody releases
shows as a violation of `EveryCallReturns`. In the runs of `SpacePackets` and `Checksums` a
behaviour ends when its packet was read or its block summed, in `System` when every request was made
and delivered or refused.

Fairness. In `Escaper`, weak fairness of the sending driver's step, of entering the polling loop and
of reading: drivers are tasks that run their loop for ever. Nobody is obliged to send. In `Broker`,
weak fairness of each thread inside a call. It includes taking the mutex; as the number of calls is
bounded the mutex becomes free for good in the end, and nothing is assumed about who gets it first.
External functions (send, deliver, error callback) are taken to return. In `System`, weak fairness of
the start of each node and of each driver's reception: a node that was stopped receives no more, which
is why `Arrives` leaves out the requests to it. A request that was refused at the other end has arrived
in the sense of `Arrives`; whether it may be is the question of `RefusedIfTypesDiffer`.

Every property has a mutant, an operator next to the original that makes a plausible slip, and the
property fails for it: `PROJECT.json`, "mutants".

## What the checks found

* `Escaper_start_decoder` does not reset the index of the decoded buffer. When the polling loop is
  left within a frame and entered again, the next packet is delivered behind the bytes of the old
  one (`escaper_restart`). One packet later the decoder is in step again (`escaper_faults`).
* A packet too long for the decoder may be delivered in part: having given it up, the decoder takes
  an escaped START_BYTE in the rest of it for the start of a frame (`escaper_oversize_delivered`).
  The packets around it that fit are not affected (`escaper_faults`).
* Strict CCSDS and thin packetizers fail without an error code on a packet that is too small, which
  the Broker reports as `UnknownError` (`broker_error_named`).
* A thin packet whose data is a multiple of 512 bytes long is refused by the receiver
  (`packets_length`): `(high << 8) | (low + 1)` loses a carry at `ThinPacketizer.c:147`.
* A strict CCSDS packet of 65535 bytes of data passes the assertions, but its length with the
  checksum overflows the field (`packets_length` with `Packetizers = {"STRICT_CCSDS"}`).
* The header of the default packetizer is not that of CCSDS 133.0-B-2, as `Packetizer.h:30` says
  (`packets_default_layout`); that of the strict CCSDS packetizer is (`packets`).

`SentIsReceived`, `TableAgrees` and `StrictIsCcsds` are about the sizes a header can hold
(`Storable`), which leaves out the sizes of the first two of these.

## Proofs

`EscaperProofs` proves, for every set of payloads, every buffer size (two bytes at least for the
encoder) and any number of packets:

| Theorem | Statement |
|---|---|
| `TypeCorrect` | `Spec => []TypeOK` |
| `BuffersBounded` | `Spec => []BuffersInBounds` |
| `NoEarlyZero` | `Spec => []ZeroMeansFinished` |
| `SendingEnds` | `Spec => LoopEnds`: each step of the sending driver lowers `StepsLeft`, a natural number |
| `Implementation` | if all payloads fit the decoder, `Spec => PipeSafety`: Escaper implements `PacketPipe` |
| `NothingHeldBack` | if all payloads fit the decoder, `Spec => [](Quiet => delivered = sent)` |

They rest on `ByteAssumption`, `PayloadAssumption` and `SizeAssumption` of `Escaper`.

The invariant `CallInv` bounds the encoder's buffer with room for STOP_BYTE while it is inside a
call; that room is what makes the missing comparison before STOP_BYTE harmless. It also says what the
three flags tell of the packet in hand. `EncoderInv` adds that a decoder that was not started waits,
which holds only while the polling loop is not left. `StepsLeft` weighs each byte still to be written
more than the call that its presence in the buffer will cause. `SendingEnds` and `NothingHeldBack` are what
is left of `EventuallyDelivered` without fairness: a packet in hand gets out of the encoder in a bounded
number of steps, and once the line is read there is nowhere else for it to be.

For the refinement, `PipeSafety` alone is not inductive: one has to say what the bytes on the way
are going to become. A function that decodes them recursively would be the natural way, but nothing
could be proved of it for sequences of any length. `FrameInv` says it without recursion: there is a
*trace*, a function from positions of the stream (wire, then the encoder's buffer) to states of the
decoder, that starts in the present state, follows `DecodeByte` from each byte to the next, and ends
where the encoder's progress says: nothing of the packet, its first `index` bytes, the same with an
escape begun, or the packet delivered. Receiving a byte cuts off the first element of the trace;
encoding one adds an element at the end. When the decoder is handed a STOP_BYTE, the trace says that
the packet it delivers is the next one of `sent`.

`EscaperFaultProofs` proves, for every set of payloads, whether or not the decoder has room for them,
every pair of buffer sizes, and any number of packets, faults and restarts:

| Theorem | Statement |
|---|---|
| `FaultsTypeCorrect` | `FaultySpec => []FaultsTypeOK` |
| `FaultsBuffersBounded` | `FaultySpec => []BuffersInBounds`: no byte that arrives makes the decoder overrun |
| `Resynchronisation` | `FaultySpec => []Resynchronised` |

They rest on the assumptions of `Escaper` and on `FaultAssumption`. `ControlInv` is `CallInv`, which
was separated from `EncoderInv` because it survives the faults, with the bounds of the ghosts.
`FrameInv` does not carry over: where the decoder will be after the bytes under way is no longer one
state, since a packet that does not fit may be given up anywhere, and of what stands before the clean
packet nothing is known. `ResyncInv` therefore says of *every* trace (`Reaches`) that it ends in a
decoder that is `Sound`. From the frame *before* the clean packet on, the decoder is inside the frame
or has given it up (`InFrame`): that frame may have begun with its START_BYTE taken for escaped data,
so nothing is said of what is delivered of it, but its STOP_BYTE leaves the decoder waiting with an
empty buffer, as the next START_BYTE needs it. From the clean packet on the buffer holds the payload so far,
or the part behind one of its START_BYTEs; then, frame by frame, what was delivered is `Accounted` for
(`AccountedFirst`, `AccountedNext`, `AccountedKept`). A fault, a frame given up or a restart moves
`clean` beyond everything sent, where nothing is claimed (`ResyncDisturbed`). With an empty stream the
decoder reaches itself, and `Resynchronised` follows. `CallInv`, `LineInv` and `ResyncInv` were
checked with TLC on the instance of `escaper_faults` before they were proved.

`BrokerProofs` proves, for every set of threads, buses, interfaces and packets, every configuration
of packetizers, every generated routing table and any number of calls:

| Theorem | Statement |
|---|---|
| `BrokerTypeCorrect` | `Spec => []TypeOK` |
| `MutualExclusion` | no two threads are inside the Broker at once |
| `MutexNotLeftBehind` | while the mutex is taken, a thread inside the Broker holds it |
| `NumbersConsecutive` | `Spec => []SequenceConsecutive` |
| `CallsAtomic` | `Spec => AtomicCalls`: Broker implements `AtomicBroker` |
| `PassthroughHasPort` | `Spec => []PassthroughResolved` |

They rest on `TableAssumption` of `PacketizerTable` and `BrokerAssumption` of `Broker`.

The invariant is built in layers. `ControlInv` says that a thread is inside the Broker exactly when
it holds the mutex; everything else needs it, because only the thread inside changes the buffer and
the counters. `CallbackInv` says that whatever may be called as the error callback was registered.
`BufferInv` says, for each point of a request, which fields of its packet are already in the buffer,
and that after `Count` the counter is one ahead of the number in the header. From it follows what
`Send` puts on the line, and that the number of the next packet (`NextNumber`) changes with `Send`
alone (`NumberStep`), which is where the refinement mapping takes its `next` from. `TransmitInv` and
`ConcludeInv` say that the calls in hand are all different and not yet settled, so that each is
settled once. The refinement then maps `Send` to `Transmit`, the three ways a reception ends to
`Conclude`, the entries of the calls and the registration to their namesakes, and every other step
to a stutter.

`SpacePacketProofs` proves, for every destination of 11 bits, every source of 16, every data, every
sequence number and every size that the packetizers accept, up to 2^32 - 2 for the default one:

| Theorem | Statement |
|---|---|
| `Received` | `Spec => []SentIsReceived` |
| `PacketsTypeCorrect` | `Spec => []TypeOK`: whatever is written or damaged, each field stays a byte |
| `DamageFound` | `Spec => []DamageDetected`, for any two checksums that meet `ChecksumAssumption` |
| `LayoutOfTheStandard` | `Spec => []StrictIsCcsds` |
| `TableRight` | `Spec => []TableAgrees`: what `PacketizerTable` says of a packet is right |

They rest on `PacketAssumption`, `NoneAssumption` (NONE is not a packet) and `ChecksumAssumption`. The last is
not proved of `Checksums` here, where the functions are constants; it says for one header and one burst
what `CrcFindsBursts` and `BurstsFound` prove for blocks of any length, and TLC evaluates it on the instance.
`PacketInv` says that a packet on its way that was not touched is `Packet(kind, sent, c)` for some
number `c`. One lemma for each length says that its bytes put together again give the number
(`DefaultLength`, `StrictLength`, `ThinLength`, the last with the multiples of 512 left out), one for
each first word that type and destination can be taken out again (`DefaultId`, `StrictId`), and one
for each packetizer that its packet is accepted as what was asked for (`DefaultRoundTrip`,
`StrictRoundTrip`, `ThinRoundTrip`). `OriginInv` extends this to the packets that were touched:
`Differs` says in which fields a packet may differ from the one written after each fault, and that in
the damaged one it does. `ChecksumTells` takes from it, with `ChecksumAssumption`, that a packet hit in the
header, the data or the checksum, in a way it is sure to tell, does not fit its checksum; `SizeReadBack` and `AssertedSizes` settle the packets that were cut
or padded, among them the strict one of 65535 bytes whose length reads as 1.

`ChecksumProofs` proves, for blocks of any bytes and any length:

| Theorem | Statement |
|---|---|
| `SumsFitTheirBytes` | `Spec => []SumsFit` |
| `SumsOfTheStandard` | `Spec => SumsStandard`: `fletcher16` implements `FletcherSums` |
| `ChecksumVerifies` | `Spec => []IsoVerifies` |
| `BurstsFound` | `Spec => []IsoDetects` |

They rest on `TransferAssumption`. A sum that fits 255 now is too weak an invariant, because it is
folded once per chunk only: `SumInv` bounds both sums by the place in the chunk, and `SumsBounded`
shows that the last byte of a chunk leaves no more than one fold can take away. `DiffInv` says what
a difference between the bytes written and read leaves in the sums of the two ends: that at a byte stays
in the first sum until the next byte, and if the next cancels it there it stays in the second.

`CrcProofs` proves, for blocks of any bytes and any length:

| Theorem | Statement |
|---|---|
| `CrcOfTheStandard` | `Spec => CrcDivides`: a look-up in the table is eight steps of the shift register |
| `CrcFindsBursts` | `Spec => []CrcDetects` |

They rest on `TransferAssumption`, and on the facts `BitsAssumption` and `TableAssumption` that TLC has
evaluated: the second says that each of the 256 entries is its index divided by the generator, from an
empty register. What the register holds besides is for the proof: division is linear (`ShiftLinear`,
`DivideLinear`), and the low half of the register only moves up (`DivideCarry`), from which the
formula of `crc16` follows for all 2^16 registers and 256 bytes (`Crc16Divides`). By the same linearity
the difference of the two ends goes through `crc16` like a register of its own (`Crc16Difference`).
`RowReachesLow` says that no entry but the first leaves the low half of the register empty; so a
first changed byte leaves a difference there, which one more byte cannot cancel, and equal bytes never
do (`DifferenceStays`). `DetectInv` carries that along the block.

`SystemProofs` proves, for every number of nodes, buses, devices and ports, every table of them that
`PortMaps` allows, and any number of requests:

| Theorem | Statement |
|---|---|
| `SystemTypeCorrect` | `Spec => []TypeOK` |
| `NodesStopIfAmbiguous` | `Spec => []StopsIfAmbiguous` |
| `RequestsRouted` | `Spec => []RightInterface` |
| `RefusedForType` | `Spec => []RefusedIfTypesDiffer`: no check of the receiver fails but that of the type, and that one when it should |
| `DeliveredAtRest` | when no node has anything left to do, every request was delivered, but for those to a stopped node or to one that expects another type |

They rest on `SizeAssumption`, `DeviceAssumption`, `PortAssumption` and `CompiledAssumption`. `RouteInv` has the invariant of
the loop (`Passed`: the interface found is the only destination among the indexes passed) and that the
entries of the tables already filled are `Right`: the unique port where there is one, none where there
are none or several. `TrafficInv` says that
every packet on a bus `Stems` from a request of the other node of that bus; with `RouteInv` of the node
that receives it, the interface it is delivered to follows. `PacketArrives` follows a packet from `PacketFor`
through `Input` and `Depacketize`: its fields are those its bus expects and its checksum is over what arrives with it,
so that its type alone decides. `KeptInv` says
the opposite direction, that every request is on a bus, was delivered or was refused. `DeliveredAtRest` is
what is left of `Arrives` without fairness, as `MutexNotLeftBehind` is of
`EveryCallReturns`: nothing is lost on the way, and nobody waits for a thread that is gone.

Only model-checked: liveness (`EventuallyDelivered`, `EveryCallReturns`, `Arrives`), which depends on
fairness and ENABLED and is out of the prover's reach, and the violations, which are facts about one
behaviour. Recursive operators are out of its reach too, and the induction theorems of the library
take an operator, which the provers cannot instantiate. Where induction over data is needed it is
done over a set (`SetInduction` of `CrcProofs`, from the minimal element of a well-founded relation),
or replaced by an invariant of the steps, as with the traces of the Escaper. No module with theorems
uses a recursive operator.

## Plan

Done: the Escaper with its faults, the Broker over the table of packetizers, the bytes of the
packets, both checksums, routing and device tables of several nodes, and a theorem for each of their safety
properties, on a faulty line too. What is left:

1. Broker, packetizer and Escaper of two partitions in one model, byte by byte. Its parts are tied
   together pairwise: `TableAgrees` ties the bytes of a packet to the table the Broker uses,
   `AtomicBroker` is what `System` takes a Broker to be, and `PacketPipe` is what a line with the
   Escaper at both ends is.
2. That each node of `System` is an `AtomicBroker` (an instance of it per node, and a refinement mapping),
   so that `CallsAtomic` and `RequestsRouted` fit together without a word in between.

## Not modelled

The drivers, the operating system and the generated code are outside the repository; they appear as
constants and external actions, the functions a device may provide for its packets among them. The
mocks are empty tables that stand in for generated code in the tests; the models' constants take their
place. Which changes longer than a burst a checksum of 16 bits finds is left open. The nodes of `System` share
one table of ports; tables generated from different versions of a system are outside it. `assert`s on arguments, among them that a request fits the Broker's buffer,
are taken as preconditions that the generated callers meet. The recursive use of the mutex by a
deliver function or an error callback that calls the Broker again depends on the kind of mutex the
runtime provides.
