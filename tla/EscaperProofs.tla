--------------------------- MODULE EscaperProofs ---------------------------
(***************************************************************************)
(* Proofs about module Escaper, for every alphabet, every set of payloads  *)
(* and every pair of buffer sizes that the assumptions allow.              *)
(***************************************************************************)
EXTENDS Escaper, SequenceTheorems, TLAPS

\* The variables of the sending side are spelled out in every proof.
USE DEF sendVars

-----------------------------------------------------------------------------
(* Type correctness *)

\* One byte in each state of the parser, the cases of DecodeByte spelled out.
LEMMA DecodeByteCases ==
  ASSUME NEW d, NEW b
  PROVE  /\ d.state = "Wait" /\ b = START_BYTE
              => DecodeByte(d, b) = [d EXCEPT !.state = "Data_Byte"]
         /\ d.state = "Wait" /\ b # START_BYTE => DecodeByte(d, b) = d
         /\ d.state = "Data_Byte" /\ b = STOP_BYTE
              => DecodeByte(d, b) = [state |-> "Wait", buffer |-> <<>>,
                                     delivered |-> Append(d.delivered, d.buffer)]
         /\ d.state = "Data_Byte" /\ b = ESCAPE_BYTE
              => DecodeByte(d, b) = [d EXCEPT !.state = "Escape_Byte"]
         /\ d.state = "Data_Byte" /\ b = START_BYTE
              => DecodeByte(d, b) = [d EXCEPT !.buffer = <<>>]
         /\ d.state = "Data_Byte" /\ b \notin ControlBytes => DecodeByte(d, b) = Store(d, b)
         /\ d.state = "Escape_Byte" => DecodeByte(d, b) = Store(d, b)
<1> USE ByteAssumption DEF ControlBytes
<1>1. CASE d.state = "Wait"
  BY <1>1 DEF DecodeByte
<1>2. CASE d.state = "Data_Byte"
  BY <1>2 DEF DecodeByte
<1>3. CASE d.state = "Escape_Byte"
  BY <1>3 DEF DecodeByte
<1> QED BY <1>1, <1>2, <1>3

\* Records built by the actions have the type of what they replace.
LEMMA EncoderTypes ==
  /\ \A st, es, fi \in BOOLEAN, s \in Seq(Byte) :
       [started |-> st, escape |-> es, finished |-> fi, buffer |-> s] \in EncoderState
  /\ \A e \in EncoderState :
       /\ e.started \in BOOLEAN /\ e.escape \in BOOLEAN /\ e.finished \in BOOLEAN
       /\ e.buffer \in Seq(Byte)
       /\ e = [started |-> e.started, escape |-> e.escape,
               finished |-> e.finished, buffer |-> e.buffer]
BY DEF EncoderState

\* A decoder state is made of its three fields.
LEMMA DecoderTypes ==
  /\ \A st \in Parse, s \in Seq(Byte), del \in Seq(Seq(Byte)) :
       [state |-> st, buffer |-> s, delivered |-> del] \in DecoderState
  /\ \A d \in DecoderState :
       d.state \in Parse /\ d.buffer \in Seq(Byte) /\ d.delivered \in Seq(Seq(Byte))
BY DEF DecoderState

\* A decoder state is equal to the record of its fields.
LEMMA DecoderRecord ==
  \A d \in DecoderState :
    d = [state |-> d.state, buffer |-> d.buffer, delivered |-> d.delivered]
BY DEF DecoderState

\* The empty sequence, as each of the sequences the variables hold.
LEMMA Empty ==
  <<>> \in Seq(Byte) /\ <<>> \in Seq(Seq(Byte)) /\ <<>> \in Seq(Payloads) /\ Len(<<>>) = 0
BY EmptySeq

\* The control bytes are bytes.
LEMMA Controls == START_BYTE \in Byte /\ STOP_BYTE \in Byte /\ ESCAPE_BYTE \in Byte
BY DEF Byte, ControlBytes

\* The decoder keeps its type whatever byte it is fed.
LEMMA DecodeByteType ==
  ASSUME NEW d \in DecoderState, NEW b \in Byte
  PROVE  DecodeByte(d, b) \in DecoderState
<1>1. /\ Append(d.buffer, b) \in Seq(Byte)
      /\ Append(d.delivered, d.buffer) \in Seq(Seq(Byte))
  BY DecoderTypes
<1>2. \A st \in {"Wait", "Data_Byte", "Escape_Byte"}, s \in Seq(Byte) :
        /\ [d EXCEPT !.state = st] \in DecoderState
        /\ [d EXCEPT !.buffer = s] \in DecoderState
        /\ [d EXCEPT !.state = st, !.buffer = s] \in DecoderState
  BY DEF DecoderState, Parse
<1>3. Store(d, b) \in DecoderState
  <2>1. CASE Len(d.buffer) >= DecodedMax
    BY <1>2, <2>1, Empty, Zenon DEF Store
  <2>2. CASE ~(Len(d.buffer) >= DecodedMax)
    BY <1>1, <1>2, <2>2, Zenon DEF Store
  <2> QED BY <2>1, <2>2
<1>4. CASE d.state = "Wait"
  <2>1. CASE b = START_BYTE
    <3>1. DecodeByte(d, b) = [d EXCEPT !.state = "Data_Byte"]
      BY <1>4, <2>1, DecodeByteCases
    <3> QED BY <1>2, <3>1, Empty, Zenon
  <2>2. CASE b # START_BYTE
    BY <1>4, <2>2, DecodeByteCases
  <2> QED BY <2>1, <2>2
<1>5. CASE d.state = "Data_Byte"
  <2>1. CASE b = STOP_BYTE
    <3>1. DecodeByte(d, b) = [state |-> "Wait", buffer |-> <<>>,
                              delivered |-> Append(d.delivered, d.buffer)]
      BY <1>5, <2>1, DecodeByteCases
    <3> QED BY <1>1, <3>1, DecoderTypes, Empty DEF Parse
  <2>2. CASE b = ESCAPE_BYTE
    <3>1. DecodeByte(d, b) = [d EXCEPT !.state = "Escape_Byte"]
      BY <1>5, <2>2, DecodeByteCases
    <3> QED BY <1>2, <3>1, Empty, Zenon
  <2>3. CASE b = START_BYTE
    <3>1. DecodeByte(d, b) = [d EXCEPT !.buffer = <<>>]
      BY <1>5, <2>3, DecodeByteCases
    <3> QED BY <1>2, <3>1, Empty, Zenon
  <2>4. CASE b \notin ControlBytes
    BY <1>3, <1>5, <2>4, DecodeByteCases
  <2> QED BY <2>1, <2>2, <2>3, <2>4 DEF ControlBytes
<1>6. CASE d.state = "Escape_Byte"
  BY <1>3, <1>6, DecodeByteCases
<1> QED BY <1>4, <1>5, <1>6, DecoderTypes DEF Parse

\* One iteration of the encoding loop, in the words of the fields it changes.
LEMMA WriteEffect ==
  ASSUME TypeOK, NEW b \in Byte, NEW escape \in BOOLEAN, Write(b, escape)
  PROVE  /\ encoder' \in EncoderState
         /\ encoder'.started = encoder.started
         /\ encoder'.finished = encoder.finished
         /\ encoder'.escape = escape
         /\ encoder'.buffer = Append(encoder.buffer, b)
         /\ sender' \in {"encoding", "returned"}
         /\ sender' = "encoding" => Len(encoder'.buffer) # EncodedMax
<1>1. encoder \in EncoderState /\ Append(encoder.buffer, b) \in Seq(Byte)
  BY EncoderTypes DEF TypeOK
<1>2. \A s \in Seq(Byte) :
        LET e == [encoder EXCEPT !.buffer = s, !.escape = escape]
        IN  /\ e \in EncoderState
            /\ e.started = encoder.started /\ e.finished = encoder.finished
            /\ e.escape = escape /\ e.buffer = s
  BY <1>1 DEF EncoderState
<1>3. /\ encoder' = [encoder EXCEPT !.buffer = Append(encoder.buffer, b), !.escape = escape]
      /\ sender' = IF Len(Append(encoder.buffer, b)) = EncodedMax
                    THEN "returned" ELSE "encoding"
  BY Zenon DEF Write
<1> QED BY <1>1, <1>2, <1>3

\* Every step keeps the types.
LEMMA TypeNext == ASSUME TypeOK, [Next]_vars PROVE TypeOK'
<1> USE DEF TypeOK
<1>1. ASSUME NEW p \in Payloads, StartSending(p) PROVE TypeOK'
  <2>1. encoder' \in EncoderState
    BY <1>1 DEF StartSending, EncoderState
  <2> QED BY <1>1, <2>1, PayloadAssumption DEF StartSending
<1>2. CASE EncodeCall
  <2>1. <<START_BYTE>> \in Seq(Byte)
    BY Controls
  <2>2. \A s \in Seq(Byte) : [encoder EXCEPT !.started = TRUE, !.buffer = s] \in EncoderState
    BY DEF EncoderState
  <2>3. encoder' \in EncoderState
    BY <1>2, <2>1, <2>2, Empty DEF EncodeCall
  <2> QED BY <1>2, <2>3 DEF EncodeCall
<1>3. CASE EncodeByte
  <2>1. index \in Nat /\ index + 1 \in 1..Len(data) /\ data[index + 1] \in Byte
    BY <1>3 DEF EncodeByte
  <2>2. encoder' \in EncoderState /\ sender' \in {"encoding", "returned"}
    BY <1>3, <2>1, WriteEffect, Controls DEF EncodeByte
  <2>3. index' = index \/ index' = index + 1
    BY <1>3, Zenon DEF EncodeByte
  <2>4. index' \in 0..Len(data)
    BY <2>1, <2>3
  <2> QED BY <1>3, <2>2, <2>4 DEF EncodeByte
<1>4. CASE EncodeEnd
  <2>1. \A s \in Seq(Byte) : [encoder EXCEPT !.finished = TRUE, !.buffer = s] \in EncoderState
    BY DEF EncoderState
  <2>2. Append(encoder.buffer, STOP_BYTE) \in Seq(Byte)
    BY Controls, EncoderTypes
  <2>3. encoder' \in EncoderState
    BY <1>4, <2>1, <2>2 DEF EncodeEnd
  <2> QED BY <1>4, <2>3 DEF EncodeEnd
<1>5. CASE TransmitUntilZero
  <2>1. \A s \in Seq(Byte) : [encoder EXCEPT !.buffer = s] \in EncoderState
    BY DEF EncoderState
  <2>2. encoder' \in EncoderState
    BY <1>5, <2>1, Empty DEF TransmitUntilZero, Emit
  <2>3. wire' \in Seq(Byte)
    BY <1>5, EncoderTypes DEF TransmitUntilZero, Emit
  <2> QED BY <1>5, <2>2, <2>3 DEF TransmitUntilZero, Emit
<1>6. CASE StartDecoder
  <2>1. \A st \in {"Wait"} : [decoder EXCEPT !.state = st] \in DecoderState
    BY DEF DecoderState, Parse
  <2>2. decoder' \in DecoderState
    BY <1>6, <2>1, Zenon DEF StartDecoder
  <2> QED BY <1>6, <2>2 DEF StartDecoder
<1>7. CASE Receive
  <2>1. Head(wire) \in Byte /\ Tail(wire) \in Seq(Byte)
    BY <1>7 DEF Receive
  <2> QED BY <1>7, <2>1, DecodeByteType DEF Receive
<1>8. CASE UNCHANGED vars
  BY <1>8 DEF vars
<1> QED BY <1>1, <1>2, <1>3, <1>4, <1>5, <1>6, <1>7, <1>8 DEF Next, SenderStep

\* After Escaper_init every variable has its type.
LEMMA TypeInit == ASSUME Init PROVE TypeOK
<1>1. encoder \in EncoderState
  BY EncoderTypes, Empty DEF Init
<1>2. decoder \in DecoderState
  BY DecoderTypes, Empty DEF Init, Parse
<1>3. index \in 0..Len(data)
  BY Empty DEF Init
<1> QED BY <1>1, <1>2, <1>3, Empty DEF Init, TypeOK

\* Every variable keeps its type.
THEOREM TypeCorrect == Spec => []TypeOK
<1>1. Init => TypeOK
  BY TypeInit
<1>2. TypeOK /\ [Next]_vars => TypeOK'
  BY TypeNext
<1> QED BY <1>1, <1>2, PTL DEF Spec

-----------------------------------------------------------------------------
(* The encoder's side: what the flags of struct Escaper say about the       *)
(* packet in hand.                                                          *)

\* A call has room for STOP_BYTE left while it is inside the loop, and the
\* driver holds a written buffer only in between.
CallInv ==
  /\ sender \in {"idle", "calling"} => encoder.buffer = <<>>
  /\ sender = "encoding" => encoder.started /\ Len(encoder.buffer) < EncodedMax
  /\ sender = "returned" => /\ encoder.started
                            /\ encoder.buffer = <<>> => encoder.finished
                            /\ Len(encoder.buffer) <= EncodedMax
  /\ encoder.finished => encoder.started /\ index = Len(data)
  /\ encoder.escape => encoder.started /\ index < Len(data)
  /\ ~encoder.started => index = 0
  /\ sender # "idle" => sent # <<>> /\ data = sent[Len(sent)]
  /\ Len(decoder.buffer) <= DecodedMax

\* Over a line without faults Escaper_start_decoder finds nothing to reset.
EncoderInv ==
  /\ CallInv
  /\ ~polling => decoder.state = "Wait"

\* Storing a byte, Escaper_decode_packet stays within its buffer.
LEMMA StoreBounded ==
  ASSUME NEW d \in DecoderState, NEW b \in Byte, Len(d.buffer) <= DecodedMax
  PROVE  Len(Store(d, b).buffer) <= DecodedMax
<1>1. CASE Len(d.buffer) >= DecodedMax
  <2>1. \A s \in Seq(Byte) : [d EXCEPT !.state = "Wait", !.buffer = s].buffer = s
    BY DEF DecoderState
  <2>2. Store(d, b).buffer = <<>>
    BY <1>1, <2>1, Empty DEF Store
  <2> QED BY <2>2, Empty, SizeAssumption
<1>2. CASE ~(Len(d.buffer) >= DecodedMax)
  <2>1. Append(d.buffer, b) \in Seq(Byte) /\ Len(Append(d.buffer, b)) = Len(d.buffer) + 1
    BY DecoderTypes
  <2>2. \A s \in Seq(Byte) : [d EXCEPT !.state = "Data_Byte", !.buffer = s].buffer = s
    BY DEF DecoderState
  <2>3. Store(d, b).buffer = Append(d.buffer, b)
    BY <1>2, <2>1, <2>2 DEF Store
  <2> QED BY <1>2, <2>1, <2>3, DecoderTypes, SizeAssumption
<1> QED BY <1>1, <1>2

\* What one byte can do to the packets handed over and to the buffer.
LEMMA DecodeByteEffect ==
  ASSUME NEW d \in DecoderState, NEW b \in Byte
  PROVE  /\ \/ DecodeByte(d, b).delivered = d.delivered
            \/ DecodeByte(d, b).delivered = Append(d.delivered, d.buffer)
         /\ Len(d.buffer) <= DecodedMax => Len(DecodeByte(d, b).buffer) <= DecodedMax
<1>0. /\ [d EXCEPT !.state = "Data_Byte"].delivered = d.delivered
      /\ [d EXCEPT !.state = "Data_Byte"].buffer = d.buffer
      /\ [d EXCEPT !.state = "Escape_Byte"].delivered = d.delivered
      /\ [d EXCEPT !.state = "Escape_Byte"].buffer = d.buffer
  BY DEF DecoderState
<1>1. \A st \in {"Wait", "Data_Byte", "Escape_Byte"}, s \in Seq(Byte) :
        /\ [d EXCEPT !.buffer = s].delivered = d.delivered
        /\ [d EXCEPT !.buffer = s].buffer = s
        /\ [d EXCEPT !.state = st, !.buffer = s].delivered = d.delivered
  BY DEF DecoderState
<1>2. Len(<<>>) <= DecodedMax
  BY Empty, SizeAssumption
<1>3. CASE DecodeByte(d, b) = Store(d, b)
  <2>1. Append(d.buffer, b) \in Seq(Byte)
    BY DecoderTypes
  <2>2. Store(d, b).delivered = d.delivered
    BY <1>1, <2>1, Empty DEF Store
  <2> QED BY <1>3, <2>2, StoreBounded
<1>4. CASE d.state = "Wait"
  BY <1>0, <1>4, DecodeByteCases
<1>5. CASE d.state = "Data_Byte" /\ b = STOP_BYTE
  <2>1. DecodeByte(d, b) = [state |-> "Wait", buffer |-> <<>>,
                            delivered |-> Append(d.delivered, d.buffer)]
    BY <1>5, DecodeByteCases
  <2> QED BY <1>2, <2>1
<1>6. CASE d.state = "Data_Byte" /\ b = ESCAPE_BYTE
  BY <1>0, <1>6, DecodeByteCases
<1>7. CASE d.state = "Data_Byte" /\ b = START_BYTE
  <2>1. DecodeByte(d, b) = [d EXCEPT !.buffer = <<>>]
    BY <1>7, DecodeByteCases
  <2> QED BY <1>1, <1>2, <2>1, Empty
<1>8. d.state \in {"Wait", "Data_Byte", "Escape_Byte"}
  BY DecoderTypes DEF Parse
<1> QED BY <1>3, <1>4, <1>5, <1>6, <1>7, <1>8, DecodeByteCases DEF ControlBytes

\* CallInv is kept by every step.
LEMMA CallNext == ASSUME TypeOK, CallInv, [Next]_vars PROVE CallInv'
<1>0. /\ encoder.buffer \in Seq(Byte) /\ Len(encoder.buffer) \in Nat
      /\ index \in Nat /\ Len(data) \in Nat /\ index <= Len(data)
      /\ decoder.buffer \in Seq(Byte)
  BY EncoderTypes, DecoderTypes DEF TypeOK
<1>1. ASSUME NEW p \in Payloads, StartSending(p) PROVE CallInv'
  <2>1. /\ encoder'.started = FALSE /\ encoder'.escape = FALSE /\ encoder'.finished = FALSE
        /\ encoder'.buffer = encoder.buffer
    BY <1>1 DEF StartSending, TypeOK, EncoderState
  <2>2. sent' # <<>> /\ data' = sent'[Len(sent')]
    BY <1>1 DEF StartSending, TypeOK
  <2> QED BY <1>1, <2>1, <2>2 DEF StartSending, CallInv
<1>2. CASE EncodeCall
  <2>1. \A s \in Seq(Byte) :
          LET e == [encoder EXCEPT !.started = TRUE, !.buffer = s]
          IN  /\ e.started = TRUE /\ e.buffer = s
              /\ e.escape = encoder.escape /\ e.finished = encoder.finished
    BY DEF TypeOK, EncoderState
  <2>2. <<START_BYTE>> \in Seq(Byte) /\ Len(<<START_BYTE>>) = 1
    BY Controls
  <2>3. /\ encoder'.started = TRUE /\ Len(encoder'.buffer) < EncodedMax
        /\ encoder'.escape = encoder.escape /\ encoder'.finished = encoder.finished
    BY <1>2, <2>1, <2>2, Empty, SizeAssumption DEF EncodeCall
  <2> QED BY <1>2, <2>3 DEF EncodeCall, CallInv
<1>3. CASE EncodeByte
  <2>1. index + 1 \in 1..Len(data) /\ data[index + 1] \in Byte
    BY <1>0, <1>3 DEF EncodeByte, TypeOK
  <2>2. PICK b \in Byte, escape \in BOOLEAN :
          /\ Write(b, escape)
          /\ escape => index' = index
          /\ ~escape => index' = index + 1
    BY <1>3, <2>1, Controls DEF EncodeByte
  <2>3. /\ encoder'.started = encoder.started /\ encoder'.finished = encoder.finished
        /\ encoder'.escape = escape
        /\ encoder'.buffer = Append(encoder.buffer, b)
        /\ sender' \in {"encoding", "returned"}
        /\ sender' = "encoding" => Len(encoder'.buffer) # EncodedMax
    BY <2>2, WriteEffect
  <2>4. Len(Append(encoder.buffer, b)) = Len(encoder.buffer) + 1
        /\ Append(encoder.buffer, b) # <<>>
    BY <1>0, <2>2
  <2>5. sender = "encoding" /\ index < Len(data)
    BY <1>3 DEF EncodeByte
  <2>6. UNCHANGED <<decoder, data, polling, sent>>
    BY <1>3 DEF EncodeByte
  <2>7. ~encoder.finished
    BY <1>0, <2>5 DEF CallInv
  <2>8. index' = index \/ index' = index + 1
    BY <2>2
  <2> QED BY <1>0, <2>2, <2>3, <2>4, <2>5, <2>6, <2>7, <2>8, SizeAssumption, SMTT(30) DEF CallInv
<1>4. CASE EncodeEnd
  <2>1. \A s \in Seq(Byte) :
          LET e == [encoder EXCEPT !.finished = TRUE, !.buffer = s]
          IN  /\ e.finished = TRUE /\ e.buffer = s
              /\ e.escape = encoder.escape /\ e.started = encoder.started
    BY DEF TypeOK, EncoderState
  <2>2. /\ Append(encoder.buffer, STOP_BYTE) \in Seq(Byte)
        /\ Len(Append(encoder.buffer, STOP_BYTE)) = Len(encoder.buffer) + 1
    BY <1>0, Controls
  <2>3. /\ encoder'.finished = TRUE /\ Len(encoder'.buffer) <= EncodedMax
        /\ encoder'.escape = encoder.escape /\ encoder'.started = encoder.started
    BY <1>0, <1>4, <2>1, <2>2, SizeAssumption DEF EncodeEnd, CallInv, TypeOK, EncoderState
  <2> QED BY <1>4, <2>3 DEF EncodeEnd, CallInv
<1>5. CASE TransmitUntilZero
  <2>1. \A s \in Seq(Byte) :
          LET e == [encoder EXCEPT !.buffer = s]
          IN  /\ e.finished = encoder.finished /\ e.buffer = s
              /\ e.escape = encoder.escape /\ e.started = encoder.started
    BY DEF TypeOK, EncoderState
  <2>2. /\ encoder'.finished = encoder.finished /\ encoder'.buffer = <<>>
        /\ encoder'.escape = encoder.escape /\ encoder'.started = encoder.started
    BY <1>5, <2>1, Empty DEF TransmitUntilZero, Emit
  <2> QED BY <1>5, <2>2 DEF TransmitUntilZero, Emit, CallInv
<1>6. CASE StartDecoder
  <2>1. decoder'.buffer = decoder.buffer
    BY <1>6 DEF StartDecoder, TypeOK, DecoderState
  <2> QED BY <1>6, <2>1 DEF StartDecoder, CallInv
<1>7. CASE Receive
  <2>1. Head(wire) \in Byte
    BY <1>7 DEF Receive, TypeOK
  <2>2. Len(decoder'.buffer) <= DecodedMax
    BY <1>7, <2>1, DecodeByteEffect DEF Receive, TypeOK, CallInv
  <2> QED BY <1>7, <2>2 DEF Receive, CallInv
<1>8. CASE UNCHANGED vars
  BY <1>8 DEF vars, CallInv
<1> QED BY <1>1, <1>2, <1>3, <1>4, <1>5, <1>6, <1>7, <1>8 DEF Next, SenderStep

\* EncoderInv is an invariant of the Escaper.
LEMMA EncoderInvHolds == Spec => []EncoderInv
<1>1. Init => EncoderInv
  BY Empty, SizeAssumption DEF Init, CallInv, EncoderInv
<1>2. TypeOK /\ EncoderInv /\ [Next]_vars => EncoderInv'
  <2> SUFFICES ASSUME TypeOK, EncoderInv, [Next]_vars PROVE EncoderInv'
    OBVIOUS
  <2>1. CASE Receive
    BY <2>1, CallNext DEF Receive, EncoderInv
  <2>2. CASE StartDecoder
    BY <2>2, CallNext DEF StartDecoder, EncoderInv
  <2>3. CASE SenderStep
    <3>1. UNCHANGED <<polling, decoder>>
      BY <2>3 DEF SenderStep, EncodeCall, EncodeByte, EncodeEnd, TransmitUntilZero, Emit
    <3> QED BY <3>1, CallNext DEF EncoderInv
  <2>4. ASSUME NEW p \in Payloads, StartSending(p) PROVE EncoderInv'
    BY <2>4, CallNext DEF StartSending, EncoderInv
  <2>5. CASE UNCHANGED vars
    BY <2>5, CallNext DEF vars, EncoderInv
  <2> QED BY <2>1, <2>2, <2>3, <2>4, <2>5 DEF Next
<1> QED BY <1>1, <1>2, TypeCorrect, PTL DEF Spec

\* What CallInv says of a call in progress bounds both buffers.
LEMMA CallBounds == ASSUME TypeOK, CallInv PROVE BuffersInBounds
BY Empty, EncoderTypes, SizeAssumption DEF TypeOK, CallInv, BuffersInBounds

\* Neither the encoder nor the decoder ever writes behind its buffer.
THEOREM BuffersBounded == Spec => []BuffersInBounds
<1>1. TypeOK /\ EncoderInv => BuffersInBounds
  BY CallBounds DEF EncoderInv
<1> QED BY <1>1, TypeCorrect, EncoderInvHolds, PTL

\* The zero that ends the driver's loop is never returned before the frame is
\* closed.
THEOREM NoEarlyZero == Spec => []ZeroMeansFinished
<1>1. EncoderInv => ZeroMeansFinished
  BY DEF EncoderInv, CallInv, ZeroMeansFinished
<1> QED BY <1>1, EncoderInvHolds, PTL

\* Each step of the sending driver leaves it fewer steps to do.
LEMMA StepsDecrease ==
  ASSUME TypeOK, TypeOK', CallInv, SenderStep
  PROVE  StepsLeft \in Nat /\ StepsLeft' < StepsLeft
<1> DEFINE Stage(s) == [idle |-> 0, returned |-> 1, encoding |-> 2, calling |-> 3][s]
           Held(e) == IF e.buffer = <<>> THEN 0 ELSE 3
<1>0. /\ encoder.buffer \in Seq(Byte)
      /\ index \in Nat /\ Len(data) \in Nat /\ index <= Len(data)
      /\ encoder.started \in BOOLEAN /\ encoder.escape \in BOOLEAN /\ encoder.finished \in BOOLEAN
  BY EncoderTypes DEF TypeOK, EncoderState
<1>1. Stage("idle") = 0 /\ Stage("returned") = 1 /\ Stage("encoding") = 2 /\ Stage("calling") = 3
  OBVIOUS
<1>2. StepsLeft = 4 * BytesLeft + Held(encoder) + Stage(sender)
  BY DEF StepsLeft
<1>3. StepsLeft' = 4 * BytesLeft' + Held(encoder') + Stage(sender')
  BY DEF StepsLeft
<1>4. Held(encoder) \in {0, 3} /\ Held(encoder') \in {0, 3}
  OBVIOUS
<1>5. BytesLeft \in Nat
  BY <1>0, Z3 DEF BytesLeft, CallInv
<1>6. StepsLeft \in Nat
  BY <1>1, <1>2, <1>4, <1>5 DEF TypeOK
<1>7. BytesLeft' \in Int
  <2>1. index' \in Int /\ Len(data') \in Int
    BY DEF TypeOK
  <2> QED BY <2>1 DEF BytesLeft
<1>8. CASE EncodeCall
  <2>1. /\ encoder'.started = TRUE
        /\ encoder'.escape = encoder.escape /\ encoder'.finished = encoder.finished
        /\ encoder.started => encoder'.buffer = <<>>
    BY <1>8 DEF EncodeCall, TypeOK, EncoderState
  <2>2. BytesLeft' = IF encoder.started THEN BytesLeft ELSE BytesLeft - 1
    BY <1>0, <1>8, <2>1 DEF EncodeCall, BytesLeft
  <2>3. encoder.buffer = <<>> /\ sender = "calling" /\ sender' = "encoding"
    BY <1>8 DEF EncodeCall, CallInv
  <2> QED BY <1>1, <1>2, <1>3, <1>4, <1>5, <1>6, <2>1, <2>2, <2>3
<1>9. CASE EncodeByte
  <2>1. index + 1 \in 1..Len(data) /\ data[index + 1] \in Byte
    BY <1>0, <1>9 DEF EncodeByte, TypeOK
  <2>2. PICK b \in Byte, escape \in BOOLEAN :
          /\ Write(b, escape)
          /\ escape => index' = index /\ ~encoder.escape
          /\ ~escape => index' = index + 1
    BY <1>9, <2>1, Controls DEF EncodeByte
  <2>3. /\ encoder'.started = encoder.started /\ encoder'.finished = encoder.finished
        /\ encoder'.escape = escape
        /\ sender' \in {"encoding", "returned"}
    BY <2>2, WriteEffect
  <2>4. BytesLeft' <= BytesLeft - 1
    BY <1>0, <1>9, <2>2, <2>3 DEF EncodeByte, BytesLeft
  <2> QED BY <1>1, <1>2, <1>3, <1>4, <1>5, <1>6, <1>7, <1>9, <2>3, <2>4 DEF EncodeByte
<1>10. CASE EncodeEnd
  <2>1. /\ encoder'.started = encoder.started /\ encoder'.escape = encoder.escape
        /\ encoder'.finished = TRUE
        /\ encoder.finished => encoder'.buffer = encoder.buffer
    BY <1>10 DEF EncodeEnd, TypeOK, EncoderState
  <2>2. BytesLeft' = IF encoder.finished THEN BytesLeft ELSE BytesLeft - 1
    BY <1>0, <1>10, <2>1 DEF EncodeEnd, BytesLeft
  <2> QED BY <1>1, <1>2, <1>3, <1>4, <1>5, <1>6, <1>10, <2>1, <2>2 DEF EncodeEnd
<1>11. CASE TransmitUntilZero
  <2>1. /\ encoder'.started = encoder.started /\ encoder'.escape = encoder.escape
        /\ encoder'.finished = encoder.finished /\ encoder'.buffer = <<>>
    BY <1>11 DEF TransmitUntilZero, Emit, TypeOK, EncoderState
  <2>2. BytesLeft' = BytesLeft
    BY <1>11, <2>1 DEF TransmitUntilZero, Emit, BytesLeft
  <2> QED BY <1>1, <1>2, <1>3, <1>5, <1>6, <1>11, <2>1, <2>2 DEF TransmitUntilZero, Emit
<1> QED BY <1>6, <1>8, <1>9, <1>10, <1>11 DEF SenderStep

\* The loop around Escaper_encode_packet ends, after a number of steps that the
\* length of the payload bounds.
THEOREM SendingEnds == Spec => LoopEnds
<1>1. TypeOK /\ TypeOK' /\ EncoderInv
        => [SenderStep => StepsLeft \in Nat /\ StepsLeft' < StepsLeft]_vars
  BY StepsDecrease DEF EncoderInv
<1> QED BY <1>1, TypeCorrect, EncoderInvHolds, PTL DEF LoopEnds

-----------------------------------------------------------------------------
(* The refinement: over a line that loses nothing, and with payloads the    *)
(* receiver has room for, the Escaper implements PacketPipe.                *)
(*                                                                          *)
(* The invariant behind it says what the bytes under way mean: fed to the   *)
(* decoder one after the other they take it from where it is to where the   *)
(* encoder is.  The decoder's states along the way are a function of the    *)
(* position in the stream, so no recursion over the stream is needed.       *)

AllFit == \A p \in Payloads : Len(p) <= DecodedMax

IsPre(s, t) == Len(s) <= Len(t) /\ \A i \in 1..Len(s) : s[i] = t[i]

\* The bytes s take the decoder from d to t, and what it hands over on the
\* way is the beginning of what it has handed over at the end.
Leads(d, s, t) ==
  \E f \in [0..Len(s) -> DecoderState] :
    /\ f[0] = d
    /\ f[Len(s)] = t
    /\ \A i \in 1..Len(s) : f[i] = DecodeByte(f[i - 1], s[i])
    /\ \A i \in 0..Len(s) : IsPre(f[i].delivered, t.delivered)

\* Is the packet in hand still to be closed?  All others have their frame.
Pending == sender # "idle" /\ ~encoder.finished
Completed == IF Pending THEN SubSeq(sent, 1, Len(sent) - 1) ELSE sent

\* Where the decoder is once it has seen all that the encoder has written.
Target ==
  IF Pending /\ encoder.started
  THEN [state     |-> IF encoder.escape THEN "Escape_Byte" ELSE "Data_Byte",
        buffer    |-> SubSeq(data, 1, index),
        delivered |-> Completed]
  ELSE [state |-> "Wait", buffer |-> <<>>, delivered |-> Completed]

Stream == wire \o encoder.buffer

FrameInv == Leads(decoder, Stream, Target)

\* Without bytes the decoder stays where it is.
LEMMA LeadsNowhere == ASSUME NEW d \in DecoderState PROVE Leads(d, <<>>, d)
<1> DEFINE f == [i \in 0..0 |-> d]
<1>1. Len(<<>>) = 0
  BY Empty
<1>2. f \in [0..0 -> DecoderState] /\ f[0] = d
  OBVIOUS
<1>3. \A i \in 0..0 : IsPre(f[i].delivered, d.delivered)
  BY DecoderTypes DEF IsPre
<1>4. \A i \in 1..0 : f[i] = DecodeByte(f[i - 1], <<>>[i])
  OBVIOUS
<1> QED BY <1>1, <1>2, <1>3, <1>4 DEF Leads

\* One more byte at the end of the stream.
LEMMA LeadsFurther ==
  ASSUME NEW d \in DecoderState, NEW t \in DecoderState,
         NEW s \in Seq(Byte), NEW b \in Byte, Leads(d, s, t)
  PROVE  Leads(d, Append(s, b), DecodeByte(t, b))
<1> DEFINE n == Len(s)
           u == DecodeByte(t, b)
<1>1. n \in Nat /\ Len(Append(s, b)) = n + 1
  OBVIOUS
<1>2. PICK f \in [0..n -> DecoderState] :
        /\ f[0] = d
        /\ f[n] = t
        /\ \A i \in 1..n : f[i] = DecodeByte(f[i - 1], s[i])
        /\ \A i \in 0..n : IsPre(f[i].delivered, t.delivered)
  BY DEF Leads
<1>3. u \in DecoderState
  BY DecodeByteType
<1> DEFINE g == [i \in 0..(n + 1) |-> IF i = n + 1 THEN u ELSE f[i]]
<1> HIDE DEF u
<1>4. g \in [0..(n + 1) -> DecoderState] /\ g[0] = d /\ g[n + 1] = u
  BY <1>1, <1>2, <1>3
<1>5. \A i \in 1..(n + 1) : g[i] = DecodeByte(g[i - 1], Append(s, b)[i])
  <2> TAKE i \in 1..(n + 1)
  <2>1. CASE i = n + 1
    <3>1. g[i] = u /\ g[i - 1] = t /\ Append(s, b)[i] = b
      BY <1>1, <1>2, <2>1
    <3> QED BY <3>1 DEF u
  <2>2. CASE i # n + 1
    <3>1. i \in 1..n /\ g[i] = f[i] /\ g[i - 1] = f[i - 1] /\ Append(s, b)[i] = s[i]
      BY <1>1, <2>2
    <3> QED BY <1>2, <3>1
  <2> QED BY <2>1, <2>2
<1>6. IsPre(t.delivered, u.delivered)
  <2>1. u.delivered = t.delivered \/ u.delivered = Append(t.delivered, t.buffer)
    BY DecodeByteEffect DEF u
  <2>2. t.delivered \in Seq(Seq(Byte)) /\ t.buffer \in Seq(Byte)
    BY DecoderTypes
  <2>3. CASE u.delivered = t.delivered
    BY <2>2, <2>3 DEF IsPre
  <2>4. CASE u.delivered = Append(t.delivered, t.buffer)
    <3>1. /\ Len(u.delivered) = Len(t.delivered) + 1 /\ Len(t.delivered) \in Nat
          /\ \A i \in 1..Len(t.delivered) : u.delivered[i] = t.delivered[i]
      BY <2>2, <2>4
    <3> QED BY <3>1 DEF IsPre
  <2> QED BY <2>1, <2>3, <2>4
<1>7. \A i \in 0..(n + 1) : IsPre(g[i].delivered, u.delivered)
  <2> TAKE i \in 0..(n + 1)
  <2>1. CASE i = n + 1
    BY <1>1, <1>3, <2>1, DecoderTypes DEF IsPre
  <2>2. CASE i # n + 1
    <3>1. i \in 0..n /\ g[i] = f[i] /\ f[i] \in DecoderState
      BY <1>1, <1>2, <2>2
    <3>2. IsPre(f[i].delivered, t.delivered)
      BY <1>2, <3>1
    <3>3. /\ Len(f[i].delivered) \in Nat /\ Len(t.delivered) \in Nat
          /\ Len(u.delivered) \in Nat
      BY <1>3, <3>1, DecoderTypes
    <3> QED BY <1>6, <3>1, <3>2, <3>3 DEF IsPre
  <2> QED BY <2>1, <2>2
<1> QED BY <1>1, <1>4, <1>5, <1>7 DEF Leads, u

\* One byte taken from the beginning of the stream.
LEMMA LeadsOn ==
  ASSUME NEW d \in DecoderState, NEW t \in DecoderState,
         NEW s \in Seq(Byte), s # <<>>, Leads(d, s, t)
  PROVE  /\ Leads(DecodeByte(d, Head(s)), Tail(s), t)
         /\ IsPre(DecodeByte(d, Head(s)).delivered, t.delivered)
<1> DEFINE n == Len(s)
<1>1. /\ n \in Nat /\ n >= 1 /\ Len(Tail(s)) = n - 1 /\ Head(s) = s[1]
      /\ \A i \in 1..(n - 1) : Tail(s)[i] = s[i + 1]
  OBVIOUS
<1>2. PICK f \in [0..n -> DecoderState] :
        /\ f[0] = d
        /\ f[n] = t
        /\ \A i \in 1..n : f[i] = DecodeByte(f[i - 1], s[i])
        /\ \A i \in 0..n : IsPre(f[i].delivered, t.delivered)
  BY DEF Leads
<1>3. f[1] = DecodeByte(d, Head(s))
  <2>1. f[1] = DecodeByte(f[1 - 1], s[1])
    BY <1>1, <1>2
  <2> QED BY <1>1, <1>2, <2>1
<1> DEFINE g == [i \in 0..(n - 1) |-> f[i + 1]]
<1>4. /\ g \in [0..(n - 1) -> DecoderState]
      /\ g[0] = f[1] /\ g[n - 1] = t
  BY <1>1, <1>2
<1>5. \A i \in 1..(n - 1) : g[i] = DecodeByte(g[i - 1], Tail(s)[i])
  <2> TAKE i \in 1..(n - 1)
  <2>1. g[i] = f[i + 1] /\ g[i - 1] = f[i] /\ Tail(s)[i] = s[i + 1]
    BY <1>1
  <2>2. i + 1 \in 1..n /\ (i + 1) - 1 = i
    BY <1>1
  <2>3. f[i + 1] = DecodeByte(f[(i + 1) - 1], s[i + 1])
    BY <1>2, <2>2
  <2> QED BY <2>1, <2>2, <2>3
<1>6. \A i \in 0..(n - 1) : IsPre(g[i].delivered, t.delivered)
  BY <1>1, <1>2
<1>7. IsPre(f[1].delivered, t.delivered)
  BY <1>1, <1>2
<1> HIDE DEF g, n
<1>8. Leads(f[1], Tail(s), t)
  BY <1>1, <1>4, <1>5, <1>6 DEF Leads
<1> QED BY <1>3, <1>7, <1>8

-----------------------------------------------------------------------------
(* What the bytes of a frame do to a decoder that has room for the payload  *)

\* One byte of each sort, in the states a frame passes through.
LEMMA DecodeFrame ==
  ASSUME NEW s \in Seq(Byte), NEW del \in Seq(Seq(Byte)), NEW b \in Byte
  PROVE  LET In(st, buf, p) == [state |-> st, buffer |-> buf, delivered |-> p]
         IN  /\ DecodeByte(In("Wait", <<>>, del), START_BYTE) = In("Data_Byte", <<>>, del)
             /\ DecodeByte(In("Data_Byte", s, del), STOP_BYTE) = In("Wait", <<>>, Append(del, s))
             /\ DecodeByte(In("Data_Byte", s, del), ESCAPE_BYTE) = In("Escape_Byte", s, del)
             /\ Len(s) < DecodedMax =>
                  /\ DecodeByte(In("Escape_Byte", s, del), b) = In("Data_Byte", Append(s, b), del)
                  /\ b \notin ControlBytes =>
                       DecodeByte(In("Data_Byte", s, del), b) = In("Data_Byte", Append(s, b), del)
<1> DEFINE In(st, buf, p) == [state |-> st, buffer |-> buf, delivered |-> p]
<1>1. DecodeByte(In("Wait", <<>>, del), START_BYTE) = In("Data_Byte", <<>>, del)
  BY DEF DecodeByte
<1>2. DecodeByte(In("Data_Byte", s, del), STOP_BYTE) = In("Wait", <<>>, Append(del, s))
  <2>1. LET d == In("Data_Byte", s, del)
        IN  d.state = "Data_Byte" /\ d.buffer = s /\ d.delivered = del
    OBVIOUS
  <2> QED BY <2>1, DecodeByteCases
<1>3. DecodeByte(In("Data_Byte", s, del), ESCAPE_BYTE) = In("Escape_Byte", s, del)
  BY ByteAssumption DEF DecodeByte
<1>4. ASSUME Len(s) < DecodedMax, NEW st \in Parse
      PROVE  Store(In(st, s, del), b) = In("Data_Byte", Append(s, b), del)
  <2>1. ~(Len(s) >= DecodedMax)
    BY <1>4, SizeAssumption
  <2>2. \A d \in DecoderState, buf \in Seq(Byte) :
          [d EXCEPT !.state = "Data_Byte", !.buffer = buf] = In("Data_Byte", buf, d.delivered)
    <3> SUFFICES ASSUME NEW d \in DecoderState, NEW buf \in Seq(Byte)
                 PROVE  [d EXCEPT !.state = "Data_Byte", !.buffer = buf]
                          = In("Data_Byte", buf, d.delivered)
      OBVIOUS
    <3> DEFINE e == [d EXCEPT !.state = "Data_Byte", !.buffer = buf]
    <3>1. /\ e \in DecoderState
          /\ e.state = "Data_Byte" /\ e.buffer = buf /\ e.delivered = d.delivered
      BY DEF DecoderState, Parse
    <3> HIDE DEF e
    <3>2. e = In("Data_Byte", buf, d.delivered)
      BY <3>1, DecoderRecord
    <3> QED BY <3>2 DEF e
  <2>3. PICK d \in DecoderState : d = In(st, s, del)
    BY DecoderTypes
  <2>4. Append(s, b) \in Seq(Byte) /\ d.buffer = s /\ d.delivered = del
    BY <2>3
  <2>5. Store(d, b) = In("Data_Byte", Append(s, b), del)
    BY <2>1, <2>2, <2>4 DEF Store
  <2> QED BY <2>3, <2>5
<1>5. Len(s) < DecodedMax =>
        DecodeByte(In("Escape_Byte", s, del), b) = In("Data_Byte", Append(s, b), del)
  <2>1. DecodeByte(In("Escape_Byte", s, del), b) = Store(In("Escape_Byte", s, del), b)
    BY DEF DecodeByte
  <2> QED BY <1>4, <2>1 DEF Parse
<1>6. Len(s) < DecodedMax /\ b \notin ControlBytes =>
        DecodeByte(In("Data_Byte", s, del), b) = In("Data_Byte", Append(s, b), del)
  <2>1. b \notin ControlBytes =>
          DecodeByte(In("Data_Byte", s, del), b) = Store(In("Data_Byte", s, del), b)
    BY DEF DecodeByte, ControlBytes
  <2> QED BY <1>4, <2>1 DEF Parse
<1> QED BY <1>1, <1>2, <1>3, <1>5, <1>6

\* Packets completed, and where the decoder is heading, have the types of
\* their parts.
LEMMA TargetType ==
  ASSUME TypeOK, EncoderInv
  PROVE  /\ Completed \in Seq(Seq(Byte))
         /\ Target \in DecoderState
         /\ IsPre(Completed, sent)
<1>1. sent \in Seq(Seq(Byte)) /\ Len(sent) \in Nat
  BY PayloadAssumption, SeqMonotonic DEF TypeOK
<1>2. Completed \in Seq(Seq(Byte)) /\ IsPre(Completed, sent)
  <2>1. CASE Pending
    <3>1. Len(sent) >= 1
      BY <1>1, <2>1 DEF Pending, EncoderInv, CallInv
    <3> QED BY <1>1, <2>1, <3>1 DEF Completed, IsPre
  <2>2. CASE ~Pending
    BY <1>1, <2>2 DEF Completed, IsPre
  <2> QED BY <2>1, <2>2
<1>3. SubSeq(data, 1, index) \in Seq(Byte)
  BY DEF TypeOK
<1>4. Target \in DecoderState
  BY <1>2, <1>3, DecoderTypes, Empty DEF Target, Parse
<1> QED BY <1>2, <1>4

\* A step of the encoder that writes byte b takes Target over b.
LEMMA StreamGrows ==
  ASSUME TypeOK, TypeOK', EncoderInv, FrameInv, UNCHANGED <<decoder, wire>>,
         NEW b \in Byte, encoder'.buffer = Append(encoder.buffer, b),
         Target' = DecodeByte(Target, b)
  PROVE  FrameInv'
<1>1. Stream \in Seq(Byte) /\ encoder.buffer \in Seq(Byte) /\ wire \in Seq(Byte)
  BY EncoderTypes DEF TypeOK, Stream
<1>2. Stream' = Append(Stream, b)
  BY <1>1 DEF Stream
<1>3. Leads(decoder, Append(Stream, b), DecodeByte(Target, b))
  BY <1>1, LeadsFurther, TargetType DEF FrameInv, TypeOK
<1> QED BY <1>2, <1>3 DEF FrameInv

\* A step that leaves the decoder, the stream and the target alone.
LEMMA StreamStays ==
  ASSUME FrameInv, UNCHANGED <<decoder, Stream, Target>>
  PROVE  FrameInv'
BY DEF FrameInv

\* At first nothing is under way.
LEMMA FrameInvInit == Init => FrameInv
<1> SUFFICES ASSUME Init PROVE FrameInv
  OBVIOUS
<1>1. decoder \in DecoderState /\ decoder = Target
  BY DecoderTypes, Empty DEF Init, Target, Completed, Pending, Parse
<1>2. Stream = <<>>
  BY Empty, ConcatEmptySeq DEF Init, Stream
<1> QED BY <1>1, <1>2, LeadsNowhere DEF FrameInv

\* Escaper_start_encoder: the packet becomes the next one to come.
LEMMA FrameInvStart ==
  ASSUME TypeOK, EncoderInv, FrameInv, NEW p \in Payloads, StartSending(p)
  PROVE  FrameInv'
<1>1. /\ encoder'.started = FALSE /\ encoder'.finished = FALSE
      /\ encoder'.buffer = encoder.buffer
  BY DEF StartSending, TypeOK, EncoderState
<1>2. sent \in Seq(Payloads) /\ sent' = Append(sent, p) /\ sender = "idle" /\ sender' = "calling"
  BY DEF StartSending, TypeOK
<1>3. SubSeq(sent', 1, Len(sent') - 1) = sent
  BY <1>2, SMTT(30)
<1>4. Completed = sent /\ Completed' = sent
  BY <1>1, <1>2, <1>3 DEF Completed, Pending
<1>5. Target' = Target
  BY <1>1, <1>2, <1>4 DEF Target, Pending
<1>6. UNCHANGED <<decoder, Stream>>
  BY <1>1 DEF StartSending, Stream
<1> QED BY <1>5, <1>6, StreamStays

\* Entering Escaper_encode_packet: START_BYTE once, nothing after that.
LEMMA FrameInvCall ==
  ASSUME TypeOK, TypeOK', EncoderInv, EncoderInv', FrameInv, EncodeCall
  PROVE  FrameInv'
<1>1. \A s \in Seq(Byte) :
        LET e == [encoder EXCEPT !.started = TRUE, !.buffer = s]
        IN  /\ e.started = TRUE /\ e.buffer = s
            /\ e.escape = encoder.escape /\ e.finished = encoder.finished
  BY DEF TypeOK, EncoderState
<1>2. <<START_BYTE>> \in Seq(Byte)
  BY Controls
<1>3. /\ encoder'.started = TRUE
      /\ encoder'.escape = encoder.escape /\ encoder'.finished = encoder.finished
      /\ encoder'.buffer = IF encoder.started THEN <<>> ELSE <<START_BYTE>>
  BY <1>1, <1>2, Empty DEF EncodeCall
<1>4. /\ encoder.buffer = <<>> /\ UNCHANGED <<decoder, wire, data, index, sent>>
      /\ sender = "calling" /\ sender' = "encoding"
  BY DEF EncodeCall, EncoderInv, CallInv
<1>5. Completed' = Completed
  BY <1>3, <1>4 DEF Completed, Pending
<1>6. CASE encoder.started
  <2>1. Target' = Target
    BY <1>3, <1>4, <1>5, <1>6 DEF Target, Pending
  <2>2. Stream' = Stream
    BY <1>3, <1>4, <1>6 DEF Stream
  <2> QED BY <1>4, <2>1, <2>2, StreamStays
<1>7. CASE ~encoder.started
  <2>1. index = 0 /\ ~encoder.escape /\ ~encoder.finished
    BY <1>7 DEF EncoderInv, CallInv, TypeOK
  <2>2. SubSeq(data, 1, index) = <<>>
    BY <2>1 DEF TypeOK
  <2>3. /\ Target = [state |-> "Wait", buffer |-> <<>>, delivered |-> Completed]
        /\ Target' = [state |-> "Data_Byte", buffer |-> <<>>, delivered |-> Completed]
    BY <1>3, <1>4, <1>5, <1>7, <2>1, <2>2 DEF Target, Pending
  <2>4. Target' = DecodeByte(Target, START_BYTE)
    BY <2>3, TargetType, DecodeFrame, Empty, Controls
  <2>5. encoder'.buffer = Append(encoder.buffer, START_BYTE)
    BY <1>3, <1>4, <1>7
  <2> QED BY <1>4, <2>4, <2>5, StreamGrows, Controls
<1> QED BY <1>6, <1>7

\* An iteration of the encoder: a data byte, or the escape before it.
LEMMA FrameInvByte ==
  ASSUME AllFit, TypeOK, TypeOK', EncoderInv, EncoderInv', FrameInv, EncodeByte
  PROVE  FrameInv'
<1> DEFINE b == data[index + 1]
           s == SubSeq(data, 1, index)
<1>1. /\ sender = "encoding" /\ index < Len(data) /\ index \in Nat /\ Len(data) \in Nat
      /\ UNCHANGED <<decoder, data, wire, sent>>
  BY DEF EncodeByte, TypeOK
<1>2. b \in Byte /\ s \in Seq(Byte) /\ Len(s) = index
  BY <1>1 DEF TypeOK
<1>3. Len(s) < DecodedMax
  <2>1. data \in Payloads
    BY <1>1 DEF EncoderInv, CallInv, TypeOK
  <2> QED BY <1>1, <1>2, <2>1, SizeAssumption DEF AllFit
<1>4. ~encoder.finished /\ encoder.started
  BY <1>1 DEF EncoderInv, CallInv
<1>5. PICK c \in Byte, escape \in BOOLEAN :
        /\ Write(c, escape)
        /\ \/ /\ escape /\ c = ESCAPE_BYTE /\ index' = index
              /\ ~encoder.escape /\ b \in ControlBytes
           \/ /\ ~escape /\ c = b /\ index' = index + 1
              /\ encoder.escape \/ b \notin ControlBytes
  BY <1>2, Controls, Zenon DEF EncodeByte
<1>6. /\ encoder'.started = encoder.started /\ encoder'.finished = encoder.finished
      /\ encoder'.escape = escape /\ encoder'.buffer = Append(encoder.buffer, c)
      /\ sender' # "idle"
  BY <1>5, WriteEffect
<1>7. Completed' = Completed
  BY <1>1, <1>4, <1>6 DEF Completed, Pending
<1>8. /\ Target = [state |-> IF encoder.escape THEN "Escape_Byte" ELSE "Data_Byte",
                   buffer |-> s, delivered |-> Completed]
      /\ Target' = [state |-> IF escape THEN "Escape_Byte" ELSE "Data_Byte",
                    buffer |-> SubSeq(data, 1, index'), delivered |-> Completed]
  BY <1>1, <1>4, <1>6, <1>7 DEF Target, Pending
<1>9. Target' = DecodeByte(Target, c)
  <2>1. CASE escape
    BY <1>2, <1>5, <1>8, <2>1, DecodeFrame, TargetType
  <2>2. CASE ~escape
    <3>1. SubSeq(data, 1, index') = Append(s, b)
      <4>1. index' = index + 1 /\ data \in Seq(Byte)
        BY <1>5, <2>2 DEF TypeOK
      <4>2. SubSeq(data, 1, index + 1) \in Seq(Byte) /\ Append(s, b) \in Seq(Byte)
        BY <1>1, <1>2, <4>1
      <4>3. /\ Len(SubSeq(data, 1, index + 1)) = index + 1
            /\ Len(Append(s, b)) = index + 1
        BY <1>1, <1>2, <4>1
      <4>4. \A i \in 1..(index + 1) : SubSeq(data, 1, index + 1)[i] = Append(s, b)[i]
        BY <1>1, <1>2, <4>1
      <4> QED BY <4>1, <4>2, <4>3, <4>4, SeqEqual
    <3>2. Target' = [state |-> "Data_Byte", buffer |-> Append(s, b), delivered |-> Completed]
      BY <1>8, <2>2, <3>1
    <3>3. CASE encoder.escape
      BY <1>2, <1>3, <1>5, <1>8, <2>2, <3>2, <3>3, DecodeFrame, TargetType, ZenonT(60)
    <3>4. CASE ~encoder.escape
      BY <1>2, <1>3, <1>5, <1>8, <2>2, <3>2, <3>4, DecodeFrame, TargetType, ZenonT(60)
    <3> QED BY <3>3, <3>4
  <2> QED BY <2>1, <2>2
<1> QED BY <1>1, <1>6, <1>9, StreamGrows

\* Behind the loop of the encoder: STOP_BYTE, or nothing as bytes are left.
LEMMA FrameInvEnd ==
  ASSUME TypeOK, TypeOK', EncoderInv, EncoderInv', FrameInv, EncodeEnd
  PROVE  FrameInv'
<1>1. /\ sender = "encoding" /\ sender' = "returned" /\ encoder.started /\ index = Len(data)
      /\ UNCHANGED <<decoder, data, index, wire, sent>>
  BY DEF EncodeEnd, EncoderInv, CallInv
<1>2. CASE encoder.finished
  <2>1. encoder' = encoder
    BY <1>2 DEF EncodeEnd
  <2> QED BY <1>1, <1>2, <2>1, StreamStays DEF Stream, Target, Pending, Completed
<1>3. CASE ~encoder.finished
  <2>1. \A s \in Seq(Byte) :
          LET e == [encoder EXCEPT !.finished = TRUE, !.buffer = s]
          IN  e.finished = TRUE /\ e.buffer = s
    BY DEF TypeOK, EncoderState
  <2>2. encoder'.finished /\ encoder'.buffer = Append(encoder.buffer, STOP_BYTE)
    BY <1>3, <2>1, EncoderTypes, Controls DEF EncodeEnd, TypeOK
  <2>3. ~encoder.escape
    BY <1>1 DEF EncoderInv, CallInv, TypeOK
  <2>4. SubSeq(data, 1, index) = data /\ data \in Seq(Byte)
    BY <1>1 DEF TypeOK
  <2>5. Target = [state |-> "Data_Byte", buffer |-> data,
                  delivered |-> SubSeq(sent, 1, Len(sent) - 1)]
    BY <1>1, <1>3, <2>3, <2>4 DEF Target, Pending, Completed
  <2>6. Append(SubSeq(sent, 1, Len(sent) - 1), data) = sent
    <3>1. sent \in Seq(Payloads) /\ sent # <<>> /\ data = sent[Len(sent)]
      BY <1>1 DEF EncoderInv, CallInv, TypeOK
    <3> QED BY <3>1
  <2>7. Target' = [state |-> "Wait", buffer |-> <<>>, delivered |-> sent]
    BY <1>1, <2>2 DEF Target, Pending, Completed
  <2>8. SubSeq(sent, 1, Len(sent) - 1) \in Seq(Seq(Byte))
    BY <1>1, <1>3, TargetType DEF Completed, Pending
  <2>9. Target' = DecodeByte(Target, STOP_BYTE)
    BY <2>4, <2>5, <2>6, <2>7, <2>8, DecodeFrame, Controls, ZenonT(60)
  <2> QED BY <1>1, <2>2, <2>9, StreamGrows, Controls
<1> QED BY <1>2, <1>3

\* The driver moves the bytes from the buffer to the line.
LEMMA FrameInvEmit ==
  ASSUME TypeOK, EncoderInv, FrameInv, TransmitUntilZero
  PROVE  FrameInv'
<1>1. \A s \in Seq(Byte) :
        LET e == [encoder EXCEPT !.buffer = s]
        IN  /\ e.finished = encoder.finished /\ e.buffer = s
            /\ e.escape = encoder.escape /\ e.started = encoder.started
  BY DEF TypeOK, EncoderState
<1>2. /\ encoder'.finished = encoder.finished /\ encoder'.buffer = <<>>
      /\ encoder'.escape = encoder.escape /\ encoder'.started = encoder.started
  BY <1>1, Empty DEF TransmitUntilZero, Emit
<1>3. /\ sender = "returned" /\ UNCHANGED <<decoder, data, index, sent>>
      /\ wire' = wire \o encoder.buffer
      /\ sender' = IF encoder.buffer = <<>> THEN "idle" ELSE "calling"
  BY DEF TransmitUntilZero, Emit
<1>4. Pending' <=> Pending
  BY <1>2, <1>3 DEF Pending, EncoderInv, CallInv
<1>5. Target' = Target
  BY <1>2, <1>3, <1>4 DEF Target, Completed
<1>6. Stream' = Stream
  BY <1>2, <1>3, EncoderTypes, ConcatEmptySeq DEF Stream, TypeOK
<1> QED BY <1>3, <1>5, <1>6, StreamStays

\* Escaper_start_decoder finds the decoder between two frames.
LEMMA FrameInvStartDecoder ==
  ASSUME TypeOK, EncoderInv, FrameInv, StartDecoder
  PROVE  FrameInv'
<1>1. decoder.state = "Wait" /\ decoder' = [decoder EXCEPT !.state = "Wait"]
  BY DEF StartDecoder, EncoderInv, CallInv
<1>2. decoder' = decoder
  BY <1>1 DEF TypeOK, DecoderState
<1> QED BY <1>2, StreamStays DEF StartDecoder, Stream, Target, Completed, Pending

\* Receiving a byte; if a packet comes out, it is the next one.
LEMMA FrameInvReceive ==
  ASSUME TypeOK, EncoderInv, FrameInv, Receive
  PROVE  FrameInv' /\ IsPre(decoder'.delivered, sent)
<1>1. /\ wire # <<>> /\ wire' = Tail(wire) /\ decoder' = DecodeByte(decoder, Head(wire))
      /\ UNCHANGED <<encoder, data, index, sender, sent>>
  BY DEF Receive
<1>2. wire \in Seq(Byte) /\ encoder.buffer \in Seq(Byte)
  BY EncoderTypes DEF TypeOK
<1>3. /\ Stream \in Seq(Byte) /\ Stream # <<>>
      /\ Head(Stream) = Head(wire) /\ Tail(Stream) = Stream'
  BY <1>1, <1>2 DEF Stream
<1>4. /\ Leads(decoder', Stream', Target)
      /\ IsPre(decoder'.delivered, Target.delivered)
  BY <1>1, <1>3, LeadsOn, TargetType DEF FrameInv, TypeOK
<1>5. Target' = Target
  BY <1>1 DEF Target, Completed, Pending
<1>6. Target.delivered = Completed
  BY DEF Target
<1>7. /\ Len(decoder'.delivered) \in Nat /\ Len(Completed) \in Nat /\ Len(sent) \in Nat
      /\ IsPre(Completed, sent)
  <2>1. decoder' \in DecoderState
    BY <1>1, <1>2, DecodeByteType DEF TypeOK
  <2> QED BY <2>1, TargetType, DecoderTypes DEF TypeOK
<1>8. IsPre(decoder'.delivered, sent)
  BY <1>4, <1>6, <1>7 DEF IsPre
<1> QED BY <1>4, <1>5, <1>8 DEF FrameInv

\* FrameInv is an invariant when every payload fits the decoder.
LEMMA FrameInvHolds == AllFit => (Spec => []FrameInv)
<1> SUFFICES ASSUME AllFit PROVE Spec => []FrameInv
  OBVIOUS
<1>1. TypeOK /\ TypeOK' /\ EncoderInv /\ EncoderInv' /\ FrameInv /\ [Next]_vars
        => FrameInv'
  <2> SUFFICES ASSUME TypeOK, TypeOK', EncoderInv, EncoderInv', FrameInv, [Next]_vars
               PROVE  FrameInv'
    OBVIOUS
  <2>1. CASE UNCHANGED vars
    BY <2>1, StreamStays DEF vars, Stream, Target, Completed, Pending
  <2> QED BY <2>1, FrameInvStart, FrameInvCall, FrameInvByte, FrameInvEnd, FrameInvEmit,
             FrameInvStartDecoder, FrameInvReceive DEF Next, SenderStep
<1> QED BY <1>1, FrameInvInit, TypeCorrect, EncoderInvHolds, PTL DEF Spec

\* If every payload fits the receiver's buffer, the Escaper implements the
\* packet pipe: each packet comes out once, unchanged and in order.
THEOREM Implementation == AllFit => (Spec => PipeSafety)
<1> SUFFICES ASSUME AllFit PROVE Spec => PipeSafety
  OBVIOUS
<1>1. Init => Pipe!Init
  BY DEF Init, Pipe!Init
<1>2. TypeOK /\ TypeOK' /\ EncoderInv /\ FrameInv /\ [Next]_vars => [Pipe!Next]_(Pipe!vars)
  <2> SUFFICES ASSUME TypeOK, TypeOK', EncoderInv, FrameInv, [Next]_vars
               PROVE  Pipe!Next \/ UNCHANGED <<sent, decoder.delivered>>
    BY DEF Pipe!vars
  <2>1. ASSUME NEW p \in Payloads, StartSending(p) PROVE Pipe!Send(p)
    BY <2>1 DEF StartSending, Pipe!Send
  <2>2. CASE EncodeCall \/ EncodeByte \/ EncodeEnd \/ TransmitUntilZero
    BY <2>2 DEF EncodeCall, EncodeByte, EncodeEnd, TransmitUntilZero, Emit
  <2>3. CASE StartDecoder
    BY <2>3 DEF StartDecoder, TypeOK, DecoderState
  <2>4. CASE Receive
    <3>1. /\ decoder' = DecodeByte(decoder, Head(wire)) /\ Head(wire) \in Byte
          /\ sent' = sent
      BY <2>4 DEF Receive, TypeOK
    <3>2. IsPre(decoder'.delivered, sent)
      BY <2>4, FrameInvReceive
    <3>3. CASE decoder'.delivered = decoder.delivered
      BY <3>1, <3>3
    <3>4. CASE decoder'.delivered = Append(decoder.delivered, decoder.buffer)
      <4> DEFINE n == Len(decoder.delivered)
      <4>1. /\ n \in Nat /\ Len(decoder'.delivered) = n + 1
            /\ decoder'.delivered[n + 1] = decoder.buffer
        BY <3>4, DecoderTypes, SMTT(30) DEF TypeOK
      <4>2. n < Len(sent) /\ sent[n + 1] = decoder.buffer
        <5>1. n + 1 \in 1..Len(decoder'.delivered) /\ Len(sent) \in Nat
          BY <4>1 DEF TypeOK
        <5> QED BY <3>2, <4>1, <5>1 DEF IsPre
      <4>3. Pipe!Deliver
        BY <3>1, <3>4, <4>2 DEF Pipe!Deliver
      <4> QED BY <4>3 DEF Pipe!Next
    <3> QED BY <3>1, <3>3, <3>4, DecodeByteEffect DEF TypeOK
  <2>5. CASE UNCHANGED vars
    BY <2>5 DEF vars
  <2> QED BY <2>1, <2>2, <2>3, <2>4, <2>5 DEF Next, SenderStep, Pipe!Next
<1> QED BY <1>1, <1>2, TypeCorrect, EncoderInvHolds, FrameInvHolds, PTL
        DEF Spec, PipeSafety, Pipe!Spec

\* Nothing is lost or held back: once the sending driver is idle and the line
\* is empty, everything sent has been handed over (what is left of
\* EventuallyDelivered without fairness).
THEOREM NothingHeldBack == AllFit => (Spec => [](Quiet => delivered = sent))
<1> SUFFICES ASSUME AllFit PROVE Spec => [](Quiet => delivered = sent)
  OBVIOUS
<1>1. TypeOK /\ EncoderInv /\ FrameInv => (Quiet => delivered = sent)
  <2> SUFFICES ASSUME TypeOK, EncoderInv, FrameInv, Quiet PROVE decoder.delivered = sent
    BY DEF delivered
  <2>1. Stream = <<>>
    BY Empty, ConcatEmptySeq DEF Quiet, Stream, EncoderInv, CallInv
  <2>2. decoder = Target
    BY <2>1, Empty DEF FrameInv, Leads
  <2>3. Target.delivered = sent
    BY DEF Quiet, Target, Pending, Completed
  <2> QED BY <2>2, <2>3
<1> QED BY <1>1, TypeCorrect, EncoderInvHolds, FrameInvHolds, PTL

=============================================================================
