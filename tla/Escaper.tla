------------------------------ MODULE Escaper ------------------------------
(***************************************************************************)
(* The Escaper (src/Escaper/Escaper.c): byte stuffing for links that carry *)
(* a plain byte stream.  A packet travels as                               *)
(*                                                                         *)
(*     START_BYTE  payload, control bytes preceded by ESCAPE_BYTE  STOP_BYTE *)
(*                                                                         *)
(* The encoder fills a buffer of EncodedMax bytes per call and is called   *)
(* again until the frame is complete; the decoder is fed the bytes of the  *)
(* line as they arrive, in pieces that need not match the frames.          *)
(*                                                                         *)
(* The granularity is one iteration of the loop of either function.  The   *)
(* decoder keeps nothing between two iterations but the fields of Escaper, *)
(* so one call on n bytes and n calls on one byte are the same steps, and  *)
(* every way of cutting the stream into calls is covered.                  *)
(***************************************************************************)
EXTENDS Naturals, Sequences

CONSTANTS
  START_BYTE, STOP_BYTE, ESCAPE_BYTE,  \* the control bytes
  PlainBytes,   \* the bytes that are not control bytes
  Payloads,     \* packets the sending driver may be asked to send
  EncodedMax,   \* m_encoded_packet_max_size
  DecodedMax,   \* m_decoded_packet_max_size
  MaxPackets    \* bound on the number of packets sent

ControlBytes == {START_BYTE, STOP_BYTE, ESCAPE_BYTE}
Byte == ControlBytes \cup PlainBytes

ASSUME ByteAssumption ==
  /\ START_BYTE # STOP_BYTE /\ START_BYTE # ESCAPE_BYTE /\ STOP_BYTE # ESCAPE_BYTE
  /\ ControlBytes \cap PlainBytes = {}

ASSUME PayloadAssumption == Payloads \subseteq Seq(Byte)

\* One byte is not enough: the first call writes START_BYTE and then at least
\* one more byte before it compares the index with the size (Escaper.c:123-152).
ASSUME SizeAssumption ==
  /\ EncodedMax \in Nat /\ EncodedMax >= 2
  /\ DecodedMax \in Nat
  /\ MaxPackets \in Nat

VARIABLES
  encoder,   \* the encoding half of struct Escaper, and the bytes that the
             \* running call of Escaper_encode_packet has written so far
  decoder,   \* the decoding half of struct Escaper: parse state, the bytes
             \* below m_decoded_packet_buffer_index; and every packet handed
             \* to receivePacketFn
  data,      \* the payload being encoded
  index,     \* the caller's *index: payload bytes already encoded
  sender,    \* where the sending driver is in its loop
  polling,   \* has the receiving driver entered its polling loop?
  wire,      \* bytes in transit between the drivers
  sent       \* payloads accepted for sending, in order

vars == <<encoder, decoder, data, index, sender, polling, wire, sent>>

sendVars == <<encoder, data, index, sender>>
delivered == decoder.delivered

Parse == {"Wait", "Data_Byte", "Escape_Byte"}

-----------------------------------------------------------------------------
(* Escaper_init, on both sides of the line *)

Init ==
  /\ encoder = [started |-> FALSE, escape |-> FALSE, finished |-> FALSE, buffer |-> <<>>]
  /\ decoder = [state |-> "Wait", buffer |-> <<>>, delivered |-> <<>>]
  /\ data = <<>> /\ index = 0
  /\ sender = "idle"
  /\ polling = FALSE
  /\ wire = <<>>
  /\ sent = <<>>

-----------------------------------------------------------------------------
(* The sending driver and the encoder *)

\* Mutants of StartSending: *index, or m_encode_finished, is left from the last packet.
StartSendingStaleIndex(p) ==
  /\ sender = "idle" /\ Len(sent) < MaxPackets
  /\ encoder' = [encoder EXCEPT !.started = FALSE, !.escape = FALSE, !.finished = FALSE]
  /\ data' = p /\ sender' = "calling" /\ sent' = Append(sent, p)
  /\ UNCHANGED <<decoder, polling, wire, index>>

StartSendingStillFinished(p) ==
  /\ sender = "idle" /\ Len(sent) < MaxPackets
  /\ encoder' = [encoder EXCEPT !.started = FALSE, !.escape = FALSE]
  /\ data' = p /\ index' = 0 /\ sender' = "calling" /\ sent' = Append(sent, p)
  /\ UNCHANGED <<decoder, polling, wire>>

\* The driver takes a packet: Escaper_start_encoder, and *index = 0.
StartSending(p) ==
  /\ sender = "idle"
  /\ Len(sent) < MaxPackets
  /\ encoder' = [encoder EXCEPT !.started = FALSE, !.escape = FALSE, !.finished = FALSE]
  /\ data' = p
  /\ index' = 0
  /\ sender' = "calling"
  /\ sent' = Append(sent, p)
  /\ UNCHANGED <<decoder, polling, wire>>

\* Entry of Escaper_encode_packet: a new buffer, opened by START_BYTE in the
\* first call for a packet.
EncodeCall ==
  /\ sender = "calling"
  /\ encoder' = [encoder EXCEPT !.started = TRUE,
                                !.buffer = IF encoder.started THEN <<>> ELSE <<START_BYTE>>]
  /\ sender' = "encoding"
  /\ UNCHANGED <<decoder, data, index, polling, wire, sent>>

\* Mutant of Write: the buffer is taken for full one byte too late.
WriteOneMore(b, escape) ==
  LET buffer == Append(encoder.buffer, b)
  IN  /\ encoder' = [encoder EXCEPT !.buffer = buffer, !.escape = escape]
      /\ sender' = IF Len(buffer) > EncodedMax THEN "returned" ELSE "encoding"

\* One iteration of the loop writes one byte, and returns when the buffer is full.
Write(b, escape) ==
  LET buffer == Append(encoder.buffer, b)
  IN  /\ encoder' = [encoder EXCEPT !.buffer = buffer, !.escape = escape]
      /\ sender' = IF Len(buffer) = EncodedMax THEN "returned" ELSE "encoding"

\* Mutant of EncodeByte: STOP_BYTE is not escaped.
EncodeByteStopPlain ==
  /\ sender = "encoding"
  /\ index < Len(data)
  /\ LET b == data[index + 1]
     IN  \/ /\ ~encoder.escape /\ b \in {START_BYTE, ESCAPE_BYTE}
            /\ Write(ESCAPE_BYTE, TRUE)
            /\ UNCHANGED index
         \/ /\ encoder.escape \/ b \notin {START_BYTE, ESCAPE_BYTE}
            /\ Write(b, FALSE)
            /\ index' = index + 1
  /\ UNCHANGED <<decoder, data, polling, wire, sent>>

\* A control byte costs two iterations: the first writes ESCAPE_BYTE and
\* leaves *index where it is.
EncodeByte ==
  /\ sender = "encoding"
  /\ index < Len(data)
  /\ LET b == data[index + 1]
     IN  \/ /\ ~encoder.escape /\ b \in ControlBytes
            /\ Write(ESCAPE_BYTE, TRUE)
            /\ UNCHANGED index
         \/ /\ encoder.escape \/ b \notin ControlBytes
            /\ Write(b, FALSE)
            /\ index' = index + 1
  /\ UNCHANGED <<decoder, data, polling, wire, sent>>

\* Mutants of EncodeEnd: the frame is closed only by a call that has written
\* something already; it is closed, and closed again by the next call.
EncodeEndNotAlone ==
  /\ sender = "encoding"
  /\ index = Len(data)
  /\ encoder' = IF encoder.finished \/ encoder.buffer = <<>>
                THEN encoder
                ELSE [encoder EXCEPT !.finished = TRUE, !.buffer = Append(@, STOP_BYTE)]
  /\ sender' = "returned"
  /\ UNCHANGED <<decoder, data, index, polling, wire, sent>>

EncodeEndAgain ==
  /\ sender = "encoding"
  /\ index = Len(data)
  /\ encoder' = [encoder EXCEPT !.buffer = Append(@, STOP_BYTE)]
  /\ sender' = "returned"
  /\ UNCHANGED <<decoder, data, index, polling, wire, sent>>

\* Behind the loop: the frame is closed once, in the first call that gets here.
EncodeEnd ==
  /\ sender = "encoding"
  /\ index = Len(data)
  /\ encoder' = IF encoder.finished
                THEN encoder
                ELSE [encoder EXCEPT !.finished = TRUE, !.buffer = Append(@, STOP_BYTE)]
  /\ sender' = "returned"
  /\ UNCHANGED <<decoder, data, index, polling, wire, sent>>

\* The driver writes the buffer to the line.
Emit ==
  /\ sender = "returned"
  /\ wire' = wire \o encoder.buffer
  /\ encoder' = [encoder EXCEPT !.buffer = <<>>]
  /\ UNCHANGED <<decoder, data, index, polling, sent>>

\* Mutant: the loop that ends when "index == length" (Escaper.h:128).
TransmitUntilIndex ==
  /\ Emit
  /\ sender' = IF index = Len(data) THEN "idle" ELSE "calling"

\* The loop the header documents by "@returns Length of packet to be sent or 0
\* if finished" (Escaper.h:130): call until nothing is left to write.
TransmitUntilZero ==
  /\ Emit
  /\ sender' = IF encoder.buffer = <<>> THEN "idle" ELSE "calling"

SenderStep == EncodeCall \/ EncodeByte \/ EncodeEnd \/ TransmitUntilZero

-----------------------------------------------------------------------------
(* The receiving driver and the decoder *)

\* Escaper_start_decoder, called before the polling loop.
StartDecoder ==
  /\ ~polling
  /\ polling' = TRUE
  /\ decoder' = [decoder EXCEPT !.state = "Wait"]
  /\ UNCHANGED <<sendVars, wire, sent>>

\* Mutants of Store: the buffer is taken for full one byte too late; giving a
\* packet up leaves the index.
StoreOneMore(d, b) ==
  IF Len(d.buffer) > DecodedMax
  THEN [d EXCEPT !.state = "Wait", !.buffer = <<>>]
  ELSE [d EXCEPT !.state = "Data_Byte", !.buffer = Append(@, b)]

StoreKeepsIndex(d, b) ==
  IF Len(d.buffer) >= DecodedMax
  THEN [d EXCEPT !.state = "Wait"]
  ELSE [d EXCEPT !.state = "Data_Byte", !.buffer = Append(@, b)]

\* A payload byte is stored, or the packet is given up when the buffer is full.
Store(d, b) ==
  IF Len(d.buffer) >= DecodedMax
  THEN [d EXCEPT !.state = "Wait", !.buffer = <<>>]
  ELSE [d EXCEPT !.state = "Data_Byte", !.buffer = Append(@, b)]

\* One iteration of Escaper_decode_packet; delivered grows by one call of
\* receivePacketFn when a frame is closed.
DecodeByte(d, b) ==
  CASE d.state = "Wait" ->
         IF b = START_BYTE THEN [d EXCEPT !.state = "Data_Byte"] ELSE d
    [] d.state = "Data_Byte" /\ b = STOP_BYTE ->
         [state |-> "Wait", buffer |-> <<>>, delivered |-> Append(d.delivered, d.buffer)]
    [] d.state = "Data_Byte" /\ b = ESCAPE_BYTE -> [d EXCEPT !.state = "Escape_Byte"]
    [] d.state = "Data_Byte" /\ b = START_BYTE -> [d EXCEPT !.buffer = <<>>]
    [] OTHER -> Store(d, b)

Receive ==
  /\ polling
  /\ wire # <<>>
  /\ decoder' = DecodeByte(decoder, Head(wire))
  /\ wire' = Tail(wire)
  /\ UNCHANGED <<sendVars, polling, sent>>

-----------------------------------------------------------------------------
Next ==
  \/ \E p \in Payloads : StartSending(p)
  \/ SenderStep
  \/ StartDecoder
  \/ Receive

Spec == Init /\ [][Next]_vars

\* Both drivers keep running: a send that was begun is carried on, and the
\* polling loop is entered and keeps reading.  Nobody has to send anything.
Fairness == WF_vars(SenderStep) /\ WF_vars(StartDecoder) /\ WF_vars(Receive)

FairSpec == Spec /\ Fairness

-----------------------------------------------------------------------------
(* Properties *)

EncoderState == [started: BOOLEAN, escape: BOOLEAN, finished: BOOLEAN, buffer: Seq(Byte)]
DecoderState == [state: Parse, buffer: Seq(Byte), delivered: Seq(Seq(Byte))]

\* Every variable has its type, and *index never runs past the payload.
TypeOK ==
  /\ encoder \in EncoderState
  /\ decoder \in DecoderState
  /\ data \in Seq(Byte)
  /\ index \in 0..Len(data)
  /\ sender \in {"idle", "calling", "encoding", "returned"}
  /\ polling \in BOOLEAN
  /\ wire \in Seq(Byte)
  /\ sent \in Seq(Payloads)

\* Neither function writes behind its buffer, although the encoder compares
\* the index with the size only after a write, and not at all for STOP_BYTE
\* (Escaper.c:152, 158), and the decoder only before one (Escaper.c:77, 90).
BuffersInBounds ==
  /\ Len(encoder.buffer) <= EncodedMax
  /\ Len(decoder.buffer) <= DecodedMax

\* A driver that waits for the encoder to be called again is never given an
\* empty buffer before the frame is closed: the zero that ends its loop
\* (Escaper.h:130) does not come early.
ZeroMeansFinished ==
  sender = "returned" /\ encoder.buffer = <<>> => encoder.finished

Pipe == INSTANCE PacketPipe WITH delivered <- decoder.delivered

\* Over a line that loses nothing, the Escaper is a packet pipe: whatever the
\* payloads contain, however the encoder's calls cut the frames, each packet
\* comes out once, unchanged and in order.
PipeSafety == Pipe!Spec

\* A bound on the bytes still to be written for the packet in hand: each byte
\* of the payload may need an escape, unless that was written already.
BytesLeft ==
  2 * (Len(data) - index) - (IF encoder.escape THEN 1 ELSE 0)
    + (IF encoder.started THEN 0 ELSE 1) + (IF encoder.finished THEN 0 ELSE 1)

\* A bound on the steps the sending driver has left for this packet: a call
\* takes three steps and those that write its bytes, and is followed by
\* another one if it has written any.
StepsLeft ==
  4 * BytesLeft + (IF encoder.buffer = <<>> THEN 0 ELSE 3)
    + [idle |-> 0, returned |-> 1, encoding |-> 2, calling |-> 3][sender]

\* The loop that waits for a returned 0 (Escaper.h:130) ends, for any payload
\* and wherever the calls cut its frame: each step brings the encoder nearer to
\* it, and after StepsLeft steps at the latest the driver has got it.
LoopEnds ==
  [][SenderStep => StepsLeft \in Nat /\ StepsLeft' < StepsLeft]_vars

\* Under the fairness of the two drivers every packet sent is received.
EventuallyDelivered ==
  \A n \in 1..MaxPackets : Len(sent) >= n ~> Len(delivered) >= n

\* Nothing is under way: no packet in the encoder, no byte on the line.
Quiet == sender = "idle" /\ wire = <<>> /\ polling

Fits(p) == Len(p) <= DecodedMax

\* "the current packet cannot be delivered" (Escaper.c:79, 92): what is
\* delivered was sent.
OversizeNotDelivered ==
  \A k \in 1..Len(delivered) : \E n \in 1..Len(sent) : delivered[k] = sent[n]

=============================================================================
