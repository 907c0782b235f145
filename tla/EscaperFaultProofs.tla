------------------------- MODULE EscaperFaultProofs -------------------------
(***************************************************************************)
(* Proofs about module EscaperFaults, for every alphabet, every set of     *)
(* payloads, whether or not the receiver has room for them, every pair of  *)
(* buffer sizes and any number of packets, faults and restarts.            *)
(***************************************************************************)
EXTENDS EscaperFaults, EscaperProofs

\* The variables of the sending side are spelled out in every proof.
USE DEF sendVars

-----------------------------------------------------------------------------
(* The buffers and the types.  What the faults add to CallInv is the bounds *)
(* of the ghosts, and that the decoder rests until it is first started.     *)

LineInv ==
  /\ faults \in 0..MaxFaults
  /\ restarts \in 0..MaxRestarts
  /\ Len(sent) <= MaxPackets
  /\ clean \in 1..(Len(sent) + 2)
  /\ fresh \in 1..(Len(sent) + 1)
  /\ restarts = 0 /\ ~polling => decoder.state = "Wait"

ControlInv == TypeOK /\ CallInv /\ LineInv

\* A line with a byte lost, replaced or inserted is still a line of bytes.
LEMMA DamageType ==
  ASSUME NEW s \in Seq(Byte), NEW i \in 1..(Len(s) + 1), NEW b \in Byte
  PROVE  /\ i <= Len(s) => RemoveAt(s, i) \in Seq(Byte) /\ ReplaceAt(s, i, b) \in Seq(Byte)
         /\ InsertAt(s, i, b) \in Seq(Byte)
<1>1. Len(s) \in Nat /\ i \in Nat /\ i - 1 \in 0..Len(s)
  OBVIOUS
<1>2. /\ SubSeq(s, 1, i - 1) \in Seq(Byte)
      /\ SubSeq(s, i + 1, Len(s)) \in Seq(Byte)
      /\ SubSeq(s, i, Len(s)) \in Seq(Byte)
  BY <1>1
<1>3. <<b>> \in Seq(Byte)
  OBVIOUS
<1>4. i <= Len(s) => RemoveAt(s, i) \in Seq(Byte)
  BY <1>2 DEF RemoveAt
<1>5. i <= Len(s) => ReplaceAt(s, i, b) \in Seq(Byte)
  BY <1>1, ExceptSeq DEF ReplaceAt
<1>6. InsertAt(s, i, b) \in Seq(Byte)
  BY <1>2, <1>3 DEF InsertAt
<1> QED BY <1>4, <1>5, <1>6

\* ControlInv holds when both sides have been initialised.
LEMMA ControlInit == FaultyInit => ControlInv
<1> SUFFICES ASSUME FaultyInit PROVE ControlInv
  OBVIOUS
<1>1. TypeOK
  BY TypeInit DEF FaultyInit
<1>2. CallInv
  BY Empty, SizeAssumption DEF FaultyInit, Init, CallInv
<1>3. LineInv
  BY Empty, SizeAssumption, FaultAssumption DEF FaultyInit, Init, LineInv
<1> QED BY <1>1, <1>2, <1>3 DEF ControlInv

\* A step of FaultyNext is a step of the Escaper or one of the three faults.
LEMMA FaultyStep ==
  ASSUME [FaultyNext]_allVars
  PROVE  [Next]_vars \/ DamageByte \/ AbandonSending \/ StopPolling
BY DEF FaultyNext, Next, RestartDecoder, allVars

\* No step, faulty or not, breaks the types, the buffers or the bounds.
LEMMA ControlNext == ControlInv /\ [FaultyNext]_allVars => ControlInv'
<1> SUFFICES ASSUME ControlInv, [FaultyNext]_allVars PROVE ControlInv'
  OBVIOUS
<1> USE DEF ControlInv
<1>1. TypeOK'
  <2>1. CASE DamageByte
    <3>0. wire \in Seq(Byte) /\ Len(wire) \in Nat
      BY DEF TypeOK
    <3>1. ASSUME NEW i \in 1..Len(wire), wire' = RemoveAt(wire, i) PROVE wire' \in Seq(Byte)
      BY <3>0, <3>1, DamageType, Controls
    <3>2. ASSUME NEW i \in 1..Len(wire), NEW b \in Byte, wire' = ReplaceAt(wire, i, b)
          PROVE  wire' \in Seq(Byte)
      BY <3>0, <3>2, DamageType
    <3>3. ASSUME NEW i \in 1..(Len(wire) + 1), NEW b \in Byte, wire' = InsertAt(wire, i, b)
          PROVE  wire' \in Seq(Byte)
      BY <3>0, <3>3, DamageType
    <3>4. wire' \in Seq(Byte)
      BY <2>1, <3>1, <3>2, <3>3 DEF DamageByte
    <3> QED BY <2>1, <3>4 DEF DamageByte, TypeOK
  <2>2. CASE AbandonSending
    BY <2>2 DEF AbandonSending, TypeOK
  <2>3. CASE StopPolling
    BY <2>3 DEF StopPolling, TypeOK
  <2> QED BY <2>1, <2>2, <2>3, FaultyStep, TypeNext
<1>2. CallInv'
  <2>1. CASE DamageByte
    BY <2>1 DEF DamageByte, CallInv
  <2>2. CASE AbandonSending
    BY <2>2 DEF AbandonSending, CallInv
  <2>3. CASE StopPolling
    BY <2>3 DEF StopPolling, CallInv
  <2> QED BY <2>1, <2>2, <2>3, FaultyStep, CallNext
<1>3. LineInv'
  <2>0. Len(sent) \in Nat
    BY DEF TypeOK
  <2>1. ASSUME NEW p \in Payloads, StartSending(p), UNCHANGED faultVars PROVE LineInv'
    <3>1. Len(sent') = Len(sent) + 1
      BY <2>1 DEF StartSending, TypeOK
    <3> QED BY <2>0, <2>1, <3>1, SizeAssumption DEF StartSending, faultVars, LineInv
  <2>2. CASE SenderStep /\ UNCHANGED faultVars
    <3>1. UNCHANGED <<sent, polling, decoder>>
      BY <2>2 DEF SenderStep, EncodeCall, EncodeByte, EncodeEnd, TransmitUntilZero, Emit
    <3> QED BY <2>2, <3>1 DEF faultVars, LineInv
  <2>3. CASE Receive /\ UNCHANGED faultVars
    BY <2>3 DEF Receive, faultVars, LineInv
  <2>4. CASE RestartDecoder
    BY <2>0, <2>4 DEF RestartDecoder, StartDecoder, Disturbed, LineInv
  <2>5. CASE DamageByte
    BY <2>0, <2>5, FaultAssumption DEF DamageByte, Disturbed, LineInv
  <2>6. CASE AbandonSending
    BY <2>0, <2>6, FaultAssumption DEF AbandonSending, Disturbed, LineInv
  <2>7. CASE StopPolling
    BY <2>0, <2>7, FaultAssumption DEF StopPolling, LineInv
  <2>8. CASE UNCHANGED allVars
    BY <2>8 DEF allVars, vars, faultVars, LineInv
  <2> QED BY <2>1, <2>2, <2>3, <2>4, <2>5, <2>6, <2>7, <2>8 DEF FaultyNext
<1> QED BY <1>1, <1>2, <1>3

\* ControlInv is an invariant over a faulty line.
LEMMA ControlHolds == FaultySpec => []ControlInv
BY ControlInit, ControlNext, PTL DEF FaultySpec

\* Every variable keeps its type, *index stays within the payload and the
\* ghosts within the packets, whatever is damaged, given up or restarted.
THEOREM FaultsTypeCorrect == FaultySpec => []FaultsTypeOK
<1>1. ControlInv => FaultsTypeOK
  BY SizeAssumption DEF ControlInv, TypeOK, LineInv, FaultsTypeOK
<1> QED BY <1>1, ControlHolds, PTL

\* No damage to the line and no restart makes the encoder or the decoder write
\* behind its buffer.
THEOREM FaultsBuffersBounded == FaultySpec => []BuffersInBounds
<1>1. ControlInv => BuffersInBounds
  BY CallBounds DEF ControlInv
<1> QED BY <1>1, ControlHolds, PTL

-----------------------------------------------------------------------------
(* Resynchronisation.  As in EscaperProofs, what the bytes under way mean is *)
(* said by a trace: the states the decoder passes through.  Here the packets *)
(* behind the damage need not fit, so where a trace ends is not one state    *)
(* but a property of states, and it is stated of every trace: that one       *)
(* exists is never used before the stream is empty.                          *)

Decoders == {d \in DecoderState : Len(d.buffer) <= DecodedMax}

Reaches(d, s, t) ==
  \E f \in [0..Len(s) -> Decoders] :
    /\ f[0] = d
    /\ f[Len(s)] = t
    /\ \A i \in 1..Len(s) : f[i] = DecodeByte(f[i - 1], s[i])

\* The packets of which all bytes are written.
Done == IF Pending THEN Len(sent) - 1 ELSE Len(sent)

\* A decoder that has seen what is written of the frame in hand.  It may wait,
\* and from the clean packet on that shows the packet does not fit.  Or it is
\* inside the frame, and what it holds is then the payload so far, or for a
\* packet that does not fit the part behind one of its START_BYTEs.
InFrame(e) ==
  /\ e.state = "Wait" =>
       e.buffer = <<>> /\ (Len(sent) >= clean => ~Fits(data))
  /\ e.state # "Wait" =>
       /\ e.state = IF encoder.escape THEN "Escape_Byte" ELSE "Data_Byte"
       /\ Len(sent) >= clean =>
            \E j \in 0..index :
              /\ e.buffer = SubSeq(data, j + 1, index)
              /\ j = 0 \/ (data[j] = START_BYTE /\ ~Fits(data))

\* What is known of a decoder that has seen all that is written: it is in step
\* with the encoder from the frame before the clean packet on.
Sound(e) ==
  /\ Pending /\ encoder.started /\ Len(sent) >= clean - 1 => InFrame(e)
  /\ Done >= clean - 1 => Accounted(e.delivered, Done)
  /\ ~(Pending /\ encoder.started) /\ Done >= clean - 1 =>
       e.state = "Wait" /\ e.buffer = <<>>

ResyncInv == \A e \in Decoders : Reaches(decoder, Stream, e) => Sound(e)

\* Without bytes the decoder is where it was.
LEMMA ReachesHere == ASSUME NEW d \in Decoders PROVE Reaches(d, <<>>, d)
<1> DEFINE f == [i \in 0..0 |-> d]
<1>1. f \in [0..0 -> Decoders] /\ f[0] = d
  OBVIOUS
<1>2. \A i \in 1..0 : f[i] = DecodeByte(f[i - 1], <<>>[i])
  OBVIOUS
<1> QED BY <1>1, <1>2, Empty DEF Reaches

\* A trace of what is left after the first byte is one of the whole.
LEMMA ReachesFrom ==
  ASSUME NEW d \in Decoders, NEW t \in Decoders, NEW s \in Seq(Byte), s # <<>>,
         Reaches(DecodeByte(d, Head(s)), Tail(s), t)
  PROVE  Reaches(d, s, t)
<1> DEFINE n == Len(s)
<1>1. /\ n \in Nat /\ n >= 1 /\ Len(Tail(s)) = n - 1 /\ Head(s) = s[1]
      /\ \A i \in 1..(n - 1) : Tail(s)[i] = s[i + 1]
  OBVIOUS
<1>2. PICK f \in [0..(n - 1) -> Decoders] :
        /\ f[0] = DecodeByte(d, Head(s))
        /\ f[n - 1] = t
        /\ \A i \in 1..(n - 1) : f[i] = DecodeByte(f[i - 1], Tail(s)[i])
  BY <1>1 DEF Reaches
<1> DEFINE g == [i \in 0..n |-> IF i = 0 THEN d ELSE f[i - 1]]
<1>3. g \in [0..n -> Decoders] /\ g[0] = d /\ g[n] = t
  BY <1>1, <1>2
<1>4. \A i \in 1..n : g[i] = DecodeByte(g[i - 1], s[i])
  <2> TAKE i \in 1..n
  <2>1. CASE i = 1
    <3>1. g[i] = f[0] /\ g[i - 1] = d /\ s[i] = Head(s)
      BY <1>1, <2>1
    <3> QED BY <1>2, <3>1
  <2>2. CASE i # 1
    <3>1. i - 1 \in 1..(n - 1) /\ (i - 1) + 1 = i
      BY <1>1, <2>2
    <3>2. g[i] = f[i - 1] /\ g[i - 1] = f[(i - 1) - 1] /\ Tail(s)[i - 1] = s[i]
      BY <1>1, <2>2, <3>1
    <3>3. f[i - 1] = DecodeByte(f[(i - 1) - 1], Tail(s)[i - 1])
      BY <1>2, <3>1
    <3> QED BY <3>2, <3>3
  <2> QED BY <2>1, <2>2
<1> QED BY <1>3, <1>4 DEF Reaches

\* A trace of a stream with one more byte passes, before it, through a state
\* that the stream without it reaches.
LEMMA ReachesBefore ==
  ASSUME NEW d \in Decoders, NEW t \in Decoders, NEW s \in Seq(Byte), NEW b \in Byte,
         Reaches(d, Append(s, b), t)
  PROVE  \E e \in Decoders : Reaches(d, s, e) /\ t = DecodeByte(e, b)
<1> DEFINE n == Len(s)
<1>1. /\ n \in Nat /\ Len(Append(s, b)) = n + 1 /\ Append(s, b)[n + 1] = b
      /\ \A i \in 1..n : Append(s, b)[i] = s[i]
  OBVIOUS
<1>2. PICK f \in [0..(n + 1) -> Decoders] :
        /\ f[0] = d
        /\ f[n + 1] = t
        /\ \A i \in 1..(n + 1) : f[i] = DecodeByte(f[i - 1], Append(s, b)[i])
  BY <1>1 DEF Reaches
<1> DEFINE g == [i \in 0..n |-> f[i]]
<1>3. g \in [0..n -> Decoders] /\ g[0] = d /\ g[n] = f[n] /\ f[n] \in Decoders
  BY <1>1, <1>2
<1>4. \A i \in 1..n : g[i] = DecodeByte(g[i - 1], s[i])
  <2> TAKE i \in 1..n
  <2>1. i \in 1..(n + 1) /\ g[i] = f[i] /\ g[i - 1] = f[i - 1] /\ Append(s, b)[i] = s[i]
    BY <1>1
  <2> QED BY <1>2, <2>1
<1>5. Reaches(d, s, f[n])
  BY <1>3, <1>4 DEF Reaches
<1>6. t = DecodeByte(f[n], b)
  <2>1. n + 1 \in 1..(n + 1) /\ (n + 1) - 1 = n
    BY <1>1
  <2>2. f[n + 1] = DecodeByte(f[(n + 1) - 1], Append(s, b)[n + 1])
    BY <1>2, <2>1
  <2> QED BY <1>1, <1>2, <2>1, <2>2
<1> QED BY <1>3, <1>5, <1>6

-----------------------------------------------------------------------------
(* What one byte does to the fields of a decoder                             *)

\* t is what Store makes of e and b.
Stored(e, b, t) ==
  /\ t.delivered = e.delivered
  /\ IF Len(e.buffer) >= DecodedMax
     THEN t.state = "Wait" /\ t.buffer = <<>>
     ELSE t.state = "Data_Byte" /\ t.buffer = Append(e.buffer, b)

\* DecodeByte, field by field.
LEMMA ByteFields ==
  ASSUME NEW e \in Decoders, NEW b \in Byte, NEW t, t = DecodeByte(e, b)
  PROVE  /\ t \in Decoders
         /\ e.state = "Wait" /\ b = START_BYTE =>
              t.state = "Data_Byte" /\ t.buffer = e.buffer /\ t.delivered = e.delivered
         /\ e.state = "Wait" /\ b # START_BYTE => t = e
         /\ e.state = "Data_Byte" /\ b = STOP_BYTE =>
              /\ t.state = "Wait" /\ t.buffer = <<>>
              /\ t.delivered = Append(e.delivered, e.buffer)
         /\ e.state = "Data_Byte" /\ b = ESCAPE_BYTE =>
              t.state = "Escape_Byte" /\ t.buffer = e.buffer /\ t.delivered = e.delivered
         /\ e.state = "Data_Byte" /\ b = START_BYTE =>
              t.state = "Data_Byte" /\ t.buffer = <<>> /\ t.delivered = e.delivered
         /\ e.state = "Data_Byte" /\ b \notin ControlBytes => Stored(e, b, t)
         /\ e.state = "Escape_Byte" => Stored(e, b, t)
<1>1. e \in DecoderState /\ Len(e.buffer) <= DecodedMax
  BY DEF Decoders
<1>2. t \in Decoders
  BY <1>1, DecodeByteType, DecodeByteEffect DEF Decoders
<1>3. \A st \in Parse, s \in Seq(Byte) :
        /\ LET d == [e EXCEPT !.state = st]
           IN  d.state = st /\ d.buffer = e.buffer /\ d.delivered = e.delivered
        /\ LET d == [e EXCEPT !.buffer = s]
           IN  d.state = e.state /\ d.buffer = s /\ d.delivered = e.delivered
        /\ LET d == [e EXCEPT !.state = st, !.buffer = s]
           IN  d.state = st /\ d.buffer = s /\ d.delivered = e.delivered
  BY <1>1 DEF DecoderState, Parse
<1>4. \A st \in {"Wait", "Data_Byte", "Escape_Byte"} : st \in Parse
  BY DEF Parse
<1>5. Append(e.buffer, b) \in Seq(Byte)
  BY <1>1, DecoderTypes
<1>6. Stored(e, b, Store(e, b))
  <2>1. CASE Len(e.buffer) >= DecodedMax
    <3>1. Store(e, b) = [e EXCEPT !.state = "Wait", !.buffer = <<>>]
      BY <2>1 DEF Store
    <3> QED BY <1>3, <1>4, <2>1, <3>1, Empty DEF Stored
  <2>2. CASE ~(Len(e.buffer) >= DecodedMax)
    <3>1. Store(e, b) = [e EXCEPT !.state = "Data_Byte", !.buffer = Append(e.buffer, b)]
      BY <2>2 DEF Store
    <3> QED BY <1>3, <1>4, <1>5, <2>2, <3>1 DEF Stored
  <2> QED BY <2>1, <2>2
<1>7. CASE e.state = "Wait"
  <2>1. CASE b = START_BYTE
    <3>1. t = [e EXCEPT !.state = "Data_Byte"]
      BY <1>7, <2>1, DecodeByteCases
    <3>2. t.state = "Data_Byte" /\ t.buffer = e.buffer /\ t.delivered = e.delivered
      BY <1>3, <1>4, <3>1, Empty
    <3> QED BY <1>2, <1>7, <2>1, <3>2
  <2>2. CASE b # START_BYTE
    BY <1>2, <1>7, <2>2, DecodeByteCases
  <2> QED BY <2>1, <2>2
<1>8. CASE e.state = "Data_Byte"
  <2>1. CASE b = STOP_BYTE
    <3>1. t = [state |-> "Wait", buffer |-> <<>>, delivered |-> Append(e.delivered, e.buffer)]
      BY <1>8, <2>1, DecodeByteCases
    <3> QED BY <1>2, <1>8, <2>1, <3>1, ByteAssumption DEF ControlBytes
  <2>2. CASE b = ESCAPE_BYTE
    <3>1. t = [e EXCEPT !.state = "Escape_Byte"]
      BY <1>8, <2>2, DecodeByteCases
    <3>2. t.state = "Escape_Byte" /\ t.buffer = e.buffer /\ t.delivered = e.delivered
      BY <1>3, <1>4, <3>1, Empty
    <3> QED BY <1>2, <1>8, <2>2, <3>2, ByteAssumption DEF ControlBytes
  <2>3. CASE b = START_BYTE
    <3>1. t = [e EXCEPT !.buffer = <<>>]
      BY <1>8, <2>3, DecodeByteCases
    <3>2. t.state = "Data_Byte" /\ t.buffer = <<>> /\ t.delivered = e.delivered
      BY <1>3, <1>4, <1>8, <3>1, Empty
    <3> QED BY <1>2, <1>8, <2>3, <3>2, ByteAssumption DEF ControlBytes
  <2>4. CASE b \notin ControlBytes
    BY <1>2, <1>6, <1>8, <2>4, DecodeByteCases DEF ControlBytes
  <2> QED BY <2>1, <2>2, <2>3, <2>4 DEF ControlBytes
<1>9. CASE e.state = "Escape_Byte"
  BY <1>2, <1>6, <1>9, DecodeByteCases
<1> QED BY <1>1, <1>7, <1>8, <1>9, DecoderTypes DEF Parse

-----------------------------------------------------------------------------
(* Accounting for the packets, one by one                                    *)

\* Of the packets before the clean one anything may have come, so whatever was
\* delivered accounts for them.
LEMMA AccountedFirst ==
  ASSUME clean \in Nat, clean >= 2, NEW d \in Seq(Seq(Byte))
  PROVE  Accounted(d, clean - 1)
<1> DEFINE came == [k \in (clean - 1)..(clean - 1) |-> Len(d)]
<1>1. Len(d) \in Nat
  OBVIOUS
<1>2. came \in [(clean - 1)..(clean - 1) -> 0..Len(d)] /\ came[clean - 1] = Len(d)
  BY <1>1
<1>3. clean # 1 /\ \A k \in clean..(clean - 1) : FALSE
  OBVIOUS
<1> HIDE DEF came
<1> QED BY <1>2, <1>3 DEF Accounted

\* One more packet is through: it has left something, or does not fit.
LEMMA AccountedNext ==
  ASSUME clean \in Nat, clean >= 1,
         NEW n \in Nat, n >= clean - 1,
         NEW d \in Seq(Seq(Byte)), NEW e \in Seq(Seq(Byte)), Accounted(d, n),
         \/ e = d /\ ~Fits(sent[n + 1])
         \/ \E x \in Leavings(sent[n + 1]) : e = Append(d, x)
  PROVE  Accounted(e, n + 1)
<1>1. /\ Len(d) \in Nat /\ Len(e) \in Nat /\ Len(d) <= Len(e)
      /\ \A i \in 1..Len(d) : e[i] = d[i]
      /\ \/ Len(e) = Len(d) /\ ~Fits(sent[n + 1])
         \/ Len(e) = Len(d) + 1 /\ e[Len(e)] \in Leavings(sent[n + 1])
  <2>1. CASE e = d /\ ~Fits(sent[n + 1])
    BY <2>1
  <2>2. ASSUME NEW x \in Leavings(sent[n + 1]), e = Append(d, x)
        PROVE  /\ Len(e) = Len(d) + 1 /\ e[Len(e)] = x
               /\ \A i \in 1..Len(d) : e[i] = d[i]
    BY <2>2, AppendProperties
  <2> QED BY <2>1, <2>2
<1>2. PICK came \in [(clean - 1)..n -> 0..Len(d)] :
        /\ clean = 1 => came[0] = 0
        /\ came[n] = Len(d)
        /\ \A k \in clean..n :
             \/ came[k] = came[k - 1] + 1 /\ d[came[k]] \in Leavings(sent[k])
             \/ came[k] = came[k - 1] /\ ~Fits(sent[k])
  BY DEF Accounted
<1> DEFINE more == [k \in (clean - 1)..(n + 1) |-> IF k = n + 1 THEN Len(e) ELSE came[k]]
<1>3. more \in [(clean - 1)..(n + 1) -> 0..Len(e)]
  <2>1. \A k \in (clean - 1)..(n + 1) :
          k # n + 1 => k \in (clean - 1)..n /\ came[k] \in 0..Len(d) /\ came[k] \in 0..Len(e)
    BY <1>1, <1>2
  <2> QED BY <1>1, <2>1
<1>4. (clean = 1 => more[0] = 0) /\ more[n + 1] = Len(e) /\ more[n] = Len(d)
  BY <1>1, <1>2
<1>5. \A k \in clean..(n + 1) :
        \/ more[k] = more[k - 1] + 1 /\ e[more[k]] \in Leavings(sent[k])
        \/ more[k] = more[k - 1] /\ ~Fits(sent[k])
  <2> TAKE k \in clean..(n + 1)
  <2>1. CASE k = n + 1
    <3>1. k - 1 = n /\ more[k] = Len(e) /\ more[k - 1] = Len(d)
      BY <1>4, <2>1
    <3> QED BY <1>1, <2>1, <3>1
  <2>2. CASE k # n + 1
    <3>1. /\ k \in clean..n /\ k - 1 \in (clean - 1)..n
          /\ more[k] = came[k] /\ more[k - 1] = came[k - 1]
      BY <2>2
    <3>2. CASE came[k] = came[k - 1] + 1 /\ d[came[k]] \in Leavings(sent[k])
      <4>1. came[k - 1] \in 0..Len(d) /\ came[k] \in 0..Len(d)
        BY <1>2, <3>1
      <4>2. came[k] \in 1..Len(d)
        BY <1>1, <3>2, <4>1
      <4>3. e[came[k]] = d[came[k]]
        BY <1>1, <4>2
      <4> HIDE DEF more
      <4> QED BY <3>1, <3>2, <4>3
    <3> QED BY <1>2, <3>1, <3>2
  <2> QED BY <2>1, <2>2
<1> HIDE DEF more
<1> QED BY <1>3, <1>4, <1>5 DEF Accounted

\* A new packet to send does not change the account of those before it.
LEMMA AccountedKept ==
  ASSUME TypeOK, clean \in Nat, clean >= 1, UNCHANGED clean,
         NEW n \in Nat, n <= Len(sent), NEW d \in Seq(Seq(Byte)), Accounted(d, n),
         NEW p \in Payloads, sent' = Append(sent, p)
  PROVE  Accounted(d, n)'
<1>1. \A k \in clean..n : sent'[k] = sent[k]
  <2>1. sent \in Seq(Payloads) /\ Len(sent) \in Nat
    BY DEF TypeOK
  <2>2. \A k \in clean..n : k \in 1..Len(sent)
    BY <2>1
  <2> QED BY <2>1, <2>2, AppendProperties
<1>2. PICK came \in [(clean - 1)..n -> 0..Len(d)] :
        /\ clean = 1 => came[0] = 0
        /\ came[n] = Len(d)
        /\ \A k \in clean..n :
             \/ came[k] = came[k - 1] + 1 /\ d[came[k]] \in Leavings(sent[k])
             \/ came[k] = came[k - 1] /\ ~Fits(sent[k])
  BY DEF Accounted
<1>3. \A k \in clean..n :
        \/ came[k] = came[k - 1] + 1 /\ d[came[k]] \in Leavings(sent'[k])
        \/ came[k] = came[k - 1] /\ ~Fits(sent'[k])
  BY <1>1, <1>2
<1> QED BY <1>2, <1>3 DEF Accounted

-----------------------------------------------------------------------------
(* Inside a frame                                                            *)

\* START_BYTE opens the frame in whatever state it finds a decoder; a decoder
\* between two frames starts with nothing in its buffer.
LEMMA FrameOpens ==
  ASSUME NEW e \in Decoders, NEW t, t = DecodeByte(e, START_BYTE)
  PROVE  /\ t.state = "Wait" => t.buffer = <<>>
         /\ t.state \in {"Wait", "Data_Byte"}
         /\ e.state = "Wait" /\ e.buffer = <<>> =>
              t.state = "Data_Byte" /\ t.buffer = <<>> /\ t.delivered = e.delivered
<1>1. e.state \in {"Wait", "Data_Byte", "Escape_Byte"}
  BY DecoderTypes DEF Decoders, Parse
<1>2. CASE e.state = "Wait"
  BY <1>2, ByteFields, Controls
<1>3. CASE e.state = "Data_Byte"
  BY <1>3, ByteFields, Controls
<1>4. CASE e.state = "Escape_Byte"
  <2>1. Stored(e, START_BYTE, t)
    BY <1>4, ByteFields, Controls
  <2> QED BY <1>4, <2>1 DEF Stored
<1> QED BY <1>1, <1>2, <1>3, <1>4

\* A byte of the payload, or the ESCAPE_BYTE before it, keeps a decoder in the
\* frame and delivers nothing: STOP_BYTE is never written without an escape.
LEMMA FrameContinues ==
  ASSUME TypeOK, CallInv, clean \in Nat, UNCHANGED <<clean, sent, data>>,
         sender = "encoding", index < Len(data), ~encoder.finished,
         NEW c \in Byte, NEW escape \in BOOLEAN, encoder'.escape = escape,
         \/ /\ escape /\ c = ESCAPE_BYTE /\ index' = index
            /\ ~encoder.escape
         \/ /\ ~escape /\ c = data[index + 1] /\ index' = index + 1
            /\ encoder.escape \/ c \notin ControlBytes,
         NEW e \in Decoders, NEW t, t = DecodeByte(e, c), InFrame(e)
  PROVE  InFrame(t)' /\ t.delivered = e.delivered
<1>0. /\ index \in Nat /\ Len(data) \in Nat /\ data \in Seq(Byte) /\ Len(sent) \in Nat
      /\ e.state \in {"Wait", "Data_Byte", "Escape_Byte"} /\ e.buffer \in Seq(Byte)
  BY DecoderTypes DEF TypeOK, Decoders, Parse
<1>1. CASE e.state = "Wait"
  <2>1. e.buffer = <<>> /\ (Len(sent) >= clean => ~Fits(data))
    BY <1>1 DEF InFrame
  <2>2. CASE c # START_BYTE
    <3>1. t = e
      BY <1>1, <2>2, ByteFields
    <3> QED BY <1>1, <2>1, <3>1 DEF InFrame
  <2>3. CASE c = START_BYTE
    <3>1. t.state = "Data_Byte" /\ t.buffer = <<>> /\ t.delivered = e.delivered
      BY <1>1, <2>1, <2>3, ByteFields
    <3>2. ~escape /\ data[index + 1] = START_BYTE /\ index' = index + 1
      BY <2>3, ByteAssumption
    <3>3. /\ index + 1 \in 0..index' /\ SubSeq(data, (index + 1) + 1, index') = <<>>
      BY <1>0, <3>2
    <3>4. Len(sent) >= clean =>
            \E j \in 0..index' :
              /\ t.buffer = SubSeq(data, j + 1, index')
              /\ j = 0 \/ (data[j] = START_BYTE /\ ~Fits(data))
      BY <2>1, <3>1, <3>2, <3>3
    <3> QED BY <3>1, <3>2, <3>4 DEF InFrame
  <2> QED BY <2>2, <2>3
<1>2. CASE e.state # "Wait"
  <2>1. /\ e.state = IF encoder.escape THEN "Escape_Byte" ELSE "Data_Byte"
        /\ Len(sent) >= clean =>
             \E j \in 0..index :
               /\ e.buffer = SubSeq(data, j + 1, index)
               /\ j = 0 \/ (data[j] = START_BYTE /\ ~Fits(data))
    BY <1>2 DEF InFrame
  <2>2. CASE escape
    <3>1. e.state = "Data_Byte" /\ c = ESCAPE_BYTE /\ index' = index
      BY <2>1, <2>2
    <3>2. t.state = "Escape_Byte" /\ t.buffer = e.buffer /\ t.delivered = e.delivered
      BY <3>1, ByteFields
    <3> QED BY <2>1, <2>2, <3>1, <3>2 DEF InFrame
  <2>3. CASE ~escape
    <3>1. /\ c = data[index + 1] /\ index' = index + 1
          /\ encoder.escape \/ c \notin ControlBytes
      BY <2>3
    <3>2. Stored(e, c, t)
      <4>1. CASE encoder.escape
        BY <2>1, <4>1, ByteFields
      <4>2. CASE ~encoder.escape
        BY <2>1, <3>1, <4>2, ByteFields
      <4> QED BY <4>1, <4>2
    <3>3. CASE Len(e.buffer) >= DecodedMax
      <4>1. t.state = "Wait" /\ t.buffer = <<>> /\ t.delivered = e.delivered
        BY <3>2, <3>3 DEF Stored
      <4>2. Len(sent) >= clean => ~Fits(data)
        <5> SUFFICES ASSUME Len(sent) >= clean PROVE ~Fits(data)
          OBVIOUS
        <5>1. PICK j \in 0..index : e.buffer = SubSeq(data, j + 1, index)
          BY <2>1
        <5>2. Len(e.buffer) = index - j
          BY <1>0, <5>1
        <5> QED BY <1>0, <3>3, <5>2, SizeAssumption DEF Fits
      <4> QED BY <4>1, <4>2 DEF InFrame
    <3>4. CASE ~(Len(e.buffer) >= DecodedMax)
      <4>1. t.state = "Data_Byte" /\ t.buffer = Append(e.buffer, c) /\ t.delivered = e.delivered
        BY <3>2, <3>4 DEF Stored
      <4>2. ASSUME NEW j \in 0..index
            PROVE  Append(SubSeq(data, j + 1, index), data[index + 1])
                     = SubSeq(data, j + 1, index + 1)
        BY <1>0, SubSeqRecursiveSecond
      <4>3. \A j \in 0..index : j \in 0..index'
        BY <1>0, <3>1
      <4>4. Len(sent) >= clean =>
              \E j \in 0..index' :
                /\ t.buffer = SubSeq(data, j + 1, index')
                /\ j = 0 \/ (data[j] = START_BYTE /\ ~Fits(data))
        BY <2>1, <3>1, <4>1, <4>2, <4>3
      <4> QED BY <2>3, <4>1, <4>4 DEF InFrame
    <3> QED BY <3>3, <3>4
  <2> QED BY <2>2, <2>3
<1> QED BY <1>1, <1>2

-----------------------------------------------------------------------------
(* ResyncInv, step by step                                                   *)

\* A decoder of the Escaper is one of Decoders, and the stream holds bytes.
LEMMA StreamType ==
  ASSUME TypeOK, CallInv
  PROVE  /\ decoder \in Decoders
         /\ Stream \in Seq(Byte) /\ wire \in Seq(Byte) /\ encoder.buffer \in Seq(Byte)
         /\ Len(sent) \in Nat
BY EncoderTypes DEF TypeOK, CallInv, Decoders, Stream

\* A step that leaves the decoder and the stream alone.
LEMMA ResyncStays ==
  ASSUME ResyncInv, UNCHANGED <<decoder, Stream>>,
         \A e \in Decoders : Sound(e) => Sound(e)'
  PROVE  ResyncInv'
BY DEF ResyncInv

\* A step of the encoder that writes byte b.
LEMMA ResyncGrows ==
  ASSUME TypeOK, CallInv, ResyncInv, UNCHANGED <<decoder, wire>>,
         NEW b \in Byte, encoder'.buffer = Append(encoder.buffer, b),
         \A e, t \in Decoders : Sound(e) /\ t = DecodeByte(e, b) => Sound(t)'
  PROVE  ResyncInv'
<1>1. Stream' = Append(Stream, b)
  <2>1. wire \in Seq(Byte) /\ encoder.buffer \in Seq(Byte)
    BY StreamType
  <2>2. wire \o Append(encoder.buffer, b) = Append(wire \o encoder.buffer, b)
    BY <2>1
  <2> QED BY <2>2 DEF Stream
<1>2. ASSUME NEW t \in Decoders, Reaches(decoder, Append(Stream, b), t) PROVE Sound(t)'
  <2>1. PICK e \in Decoders : Reaches(decoder, Stream, e) /\ t = DecodeByte(e, b)
    BY <1>2, StreamType, ReachesBefore
  <2>2. Sound(e)
    BY <2>1 DEF ResyncInv
  <2> QED BY <2>1, <2>2
<1> QED BY <1>1, <1>2 DEF ResyncInv

\* After a disturbance nothing is claimed of the packets handed over so far.
LEMMA ResyncDisturbed ==
  ASSUME Len(sent) \in Nat, Disturbed, UNCHANGED sent
  PROVE  ResyncInv'
<1>1. Done' \in Int /\ ~(Done' >= clean' - 1) /\ ~(Len(sent') >= clean' - 1)
  BY DEF Done, Disturbed
<1>2. ASSUME NEW e \in Decoders PROVE Sound(e)'
  BY <1>1 DEF Sound
<1> QED BY <1>2 DEF ResyncInv

\* At first the decoder waits, and nothing was sent.
LEMMA ResyncInit == FaultyInit => ResyncInv
<1> SUFFICES ASSUME FaultyInit, NEW e \in Decoders, Reaches(decoder, Stream, e)
             PROVE  Sound(e)
  BY DEF ResyncInv
<1>1. /\ Stream = <<>> /\ clean = 1 /\ Done = 0 /\ ~Pending
      /\ decoder.state = "Wait" /\ decoder.buffer = <<>> /\ decoder.delivered = <<>>
  BY Empty, ConcatEmptySeq DEF FaultyInit, Init, Stream, Done, Pending
<1>2. e = decoder
  BY <1>1, Empty DEF Reaches
<1>3. Accounted(<<>>, 0)
  <2> DEFINE came == [k \in 0..0 |-> 0]
  <2>1. came \in [0..0 -> 0..0] /\ came[0] = 0
    OBVIOUS
  <2>2. \A k \in 1..0 : FALSE
    OBVIOUS
  <2> HIDE DEF came
  <2> QED BY <1>1, <2>1, <2>2, Empty DEF Accounted
<1> QED BY <1>1, <1>2, <1>3 DEF Sound

\* Escaper_start_encoder: nothing of the new packet is written yet.
LEMMA ResyncStart ==
  ASSUME ControlInv, ResyncInv, NEW p \in Payloads, StartSending(p), UNCHANGED faultVars
  PROVE  ResyncInv'
<1> USE DEF ControlInv
<1>1. /\ encoder'.started = FALSE /\ encoder'.finished = FALSE
      /\ encoder'.buffer = encoder.buffer
  BY DEF StartSending, TypeOK, EncoderState
<1>2. /\ sender = "idle" /\ sender' = "calling" /\ sent' = Append(sent, p)
      /\ UNCHANGED <<decoder, wire, clean>>
  BY DEF StartSending, faultVars
<1>3. Len(sent) \in Nat /\ Len(sent') = Len(sent) + 1 /\ clean \in Nat /\ clean >= 1
  BY <1>2 DEF TypeOK, LineInv
<1>4. ~Pending /\ Done = Len(sent) /\ Done' = Len(sent) /\ ~(encoder'.started)
  BY <1>1, <1>2, <1>3 DEF Pending, Done
<1>5. ASSUME NEW e \in Decoders, Sound(e) PROVE Sound(e)'
  <2>1. Done' >= clean' - 1 => Accounted(e.delivered, Done)'
    <3> SUFFICES ASSUME Len(sent) >= clean - 1 PROVE Accounted(e.delivered, Done)'
      BY <1>2, <1>4
    <3>1. Accounted(e.delivered, Len(sent))
      BY <1>4, <1>5 DEF Sound
    <3>2. Accounted(e.delivered, Len(sent)) => Accounted(e.delivered, Done)'
      <4>1. e.delivered \in Seq(Seq(Byte))
        BY DecoderTypes DEF Decoders
      <4>2. PICK n \in Nat : n = Len(sent)
        BY <1>3
      <4>3. Accounted(e.delivered, n) => Accounted(e.delivered, n)'
        BY <1>2, <1>3, <4>1, <4>2, AccountedKept
      <4> QED BY <1>4, <4>2, <4>3 DEF Accounted
    <3> QED BY <3>1, <3>2
  <2>2. Done' >= clean' - 1 => e.state = "Wait" /\ e.buffer = <<>>
    BY <1>2, <1>4, <1>5 DEF Sound
  <2> QED BY <1>4, <2>1, <2>2 DEF Sound
<1> QED BY <1>1, <1>2, <1>5, ResyncStays DEF Stream

\* Nothing that Sound speaks of is changed.
LEMMA SoundKept ==
  ASSUME NEW e \in Decoders, Sound(e), Pending' <=> Pending,
         UNCHANGED <<encoder.started, encoder.escape, data, index, sent, clean>>
  PROVE  Sound(e)'
BY DEF Sound, Done, InFrame, Accounted

\* Entering Escaper_encode_packet: the first call opens the frame.
LEMMA ResyncCall ==
  ASSUME ControlInv, ResyncInv, EncodeCall, UNCHANGED faultVars
  PROVE  ResyncInv'
<1> USE DEF ControlInv
<1>1. \A s \in Seq(Byte) :
        LET e == [encoder EXCEPT !.started = TRUE, !.buffer = s]
        IN  /\ e.started = TRUE /\ e.buffer = s
            /\ e.escape = encoder.escape /\ e.finished = encoder.finished
  BY DEF TypeOK, EncoderState
<1>2. <<START_BYTE>> \in Seq(Byte)
  BY Controls
<1>3. /\ encoder'.started = TRUE
      /\ encoder'.escape = encoder.escape /\ encoder'.finished = encoder.finished
      /\ encoder'.buffer = IF encoder.started THEN <<>> ELSE <<START_BYTE>>
  BY <1>1, <1>2, Empty DEF EncodeCall
<1>4. /\ encoder.buffer = <<>> /\ UNCHANGED <<decoder, wire, data, index, sent, clean>>
      /\ sender = "calling" /\ sender' = "encoding"
  BY DEF EncodeCall, CallInv, faultVars
<1>5. Pending' <=> Pending
  BY <1>3, <1>4 DEF Pending
<1>6. CASE encoder.started
  <2>1. encoder.started = TRUE
    BY <1>6, EncoderTypes DEF TypeOK
  <2>2. UNCHANGED <<decoder, Stream, encoder.started, encoder.escape>>
    BY <1>3, <1>4, <2>1 DEF Stream
  <2> QED BY <1>4, <1>5, <2>2, SoundKept, ResyncStays
<1>7. CASE ~encoder.started
  <2>1. /\ index = 0 /\ encoder.escape = FALSE /\ ~encoder.finished /\ Pending
        /\ Len(sent) \in Nat /\ clean \in Nat /\ Done = Len(sent) - 1
    BY <1>4, <1>7, EncoderTypes DEF CallInv, TypeOK, LineInv, Pending, Done
  <2>2. Done' = Done /\ Pending'
    BY <1>4, <1>5, <2>1 DEF Done
  <2>3. ASSUME NEW e \in Decoders, NEW t \in Decoders, Sound(e), t = DecodeByte(e, START_BYTE)
        PROVE  Sound(t)'
    <3>1. Done >= clean - 1 =>
            /\ Accounted(e.delivered, Done)
            /\ t.state = "Data_Byte" /\ t.buffer = <<>> /\ t.delivered = e.delivered
      BY <1>7, <2>3, FrameOpens DEF Sound
    <3>2. Done' >= clean' - 1 => Accounted(t.delivered, Done)'
      <4> SUFFICES ASSUME Done >= clean - 1 PROVE Accounted(t.delivered, Done)'
        BY <1>4, <2>2
      <4>1. Accounted(t.delivered, Done)
        BY <3>1
      <4> QED BY <1>4, <2>2, <4>1 DEF Accounted
    <3>3. InFrame(t)'
      <4>1. t.state \in {"Wait", "Data_Byte"} /\ (t.state = "Wait" => t.buffer = <<>>)
        BY <2>3, FrameOpens
      <4>2. Len(sent) >= clean => t.state = "Data_Byte" /\ t.buffer = <<>>
        BY <2>1, <3>1
      <4>3. 0 \in 0..index' /\ SubSeq(data, 0 + 1, index') = <<>>
        BY <1>4, <2>1 DEF TypeOK
      <4>4. encoder'.escape = FALSE
        BY <1>3, <2>1
      <4>5. Len(sent') >= clean' =>
              \E j \in 0..index' :
                /\ t.buffer = SubSeq(data', j + 1, index')
                /\ j = 0 \/ (data'[j] = START_BYTE /\ ~Fits(data'))
        BY <1>4, <4>2, <4>3
      <4> QED BY <1>4, <4>1, <4>2, <4>4, <4>5 DEF InFrame
    <3> QED BY <1>3, <2>2, <3>2, <3>3 DEF Sound
  <2>4. encoder'.buffer = Append(encoder.buffer, START_BYTE)
    BY <1>3, <1>4, <1>7
  <2> QED BY <1>4, <2>3, <2>4, ResyncGrows, Controls
<1> QED BY <1>6, <1>7

\* An iteration of the encoder: a data byte, or the escape before it.
LEMMA ResyncByte ==
  ASSUME ControlInv, ResyncInv, EncodeByte, UNCHANGED faultVars
  PROVE  ResyncInv'
<1> USE DEF ControlInv
<1>1. /\ sender = "encoding" /\ index < Len(data) /\ index \in Nat /\ Len(data) \in Nat
      /\ UNCHANGED <<decoder, data, wire, sent, clean>> /\ clean \in Nat
  BY DEF EncodeByte, TypeOK, LineInv, faultVars
<1>2. data[index + 1] \in Byte
  BY <1>1 DEF TypeOK
<1>3. ~encoder.finished /\ encoder.started
  BY <1>1 DEF CallInv
<1>4. PICK c \in Byte, escape \in BOOLEAN :
        /\ Write(c, escape)
        /\ \/ /\ escape /\ c = ESCAPE_BYTE /\ index' = index
              /\ ~encoder.escape
           \/ /\ ~escape /\ c = data[index + 1] /\ index' = index + 1
              /\ encoder.escape \/ c \notin ControlBytes
  BY <1>2, Controls, Zenon DEF EncodeByte
<1>5. /\ encoder'.started = encoder.started /\ encoder'.finished = encoder.finished
      /\ encoder'.escape = escape /\ encoder'.buffer = Append(encoder.buffer, c)
      /\ sender' # "idle"
  BY <1>4, WriteEffect
<1>6. /\ Pending /\ Pending' /\ encoder'.started
      /\ Done = Len(sent) - 1 /\ Done' = Len(sent) - 1 /\ Len(sent) \in Nat
  BY <1>1, <1>3, <1>5 DEF Pending, Done, TypeOK
<1>7. ASSUME NEW e \in Decoders, NEW t \in Decoders, Sound(e), t = DecodeByte(e, c)
      PROVE  Sound(t)'
  <2>1. CASE Len(sent) >= clean - 1
    <3>1. InFrame(e) /\ (Done >= clean - 1 => Accounted(e.delivered, Done))
      BY <1>3, <1>6, <1>7, <2>1 DEF Sound
    <3>2. InFrame(t)' /\ t.delivered = e.delivered
      BY <1>1, <1>3, <1>4, <1>5, <1>7, <3>1, FrameContinues
    <3>3. Done' >= clean' - 1 => Accounted(t.delivered, Done)'
      BY <1>1, <1>6, <3>1, <3>2 DEF Accounted
    <3> QED BY <1>6, <3>2, <3>3 DEF Sound
  <2>2. CASE ~(Len(sent) >= clean - 1)
    <3>1. ~(Len(sent') >= clean' - 1) /\ ~(Done' >= clean' - 1)
      BY <1>1, <1>6, <2>2
    <3> QED BY <3>1 DEF Sound
  <2> QED BY <2>1, <2>2
<1> QED BY <1>1, <1>5, <1>7, ResyncGrows

\* STOP_BYTE accounts for the packet in hand: what the decoder has of it comes
\* out, or it has given the packet up before.
LEMMA FrameCloses ==
  ASSUME TypeOK, CallInv, clean \in Nat, clean >= 1,
         sender = "encoding", index = Len(data), encoder.escape = FALSE,
         Len(sent) >= clean - 1,
         NEW e \in Decoders, NEW t, t = DecodeByte(e, STOP_BYTE), InFrame(e),
         Len(sent) - 1 >= clean - 1 => Accounted(e.delivered, Len(sent) - 1)
  PROVE  /\ t.state = "Wait" /\ t.buffer = <<>>
         /\ Accounted(t.delivered, Len(sent))
<1>1. /\ Len(sent) \in Nat /\ Len(sent) >= 1 /\ data = sent[Len(sent)]
      /\ data \in Seq(Byte) /\ Len(data) \in Nat
  BY DEF TypeOK, CallInv
<1>2. /\ t \in Decoders /\ t.delivered \in Seq(Seq(Byte)) /\ e.delivered \in Seq(Seq(Byte))
      /\ e.state \in {"Wait", "Data_Byte", "Escape_Byte"} /\ Len(e.buffer) <= DecodedMax
  BY ByteFields, Controls, DecoderTypes DEF Decoders, Parse
<1>3. \/ /\ e.state = "Wait" /\ e.buffer = <<>> /\ t = e
         /\ Len(sent) >= clean => ~Fits(data)
      \/ /\ e.state = "Data_Byte"
         /\ t.state = "Wait" /\ t.buffer = <<>> /\ t.delivered = Append(e.delivered, e.buffer)
         /\ Len(sent) >= clean => e.buffer \in Leavings(data)
  <2>1. CASE e.state = "Wait"
    <3>1. t = e
      BY <2>1, ByteFields, Controls, ByteAssumption
    <3> QED BY <2>1, <3>1 DEF InFrame
  <2>2. CASE e.state # "Wait"
    <3>1. e.state = "Data_Byte"
      BY <2>2 DEF InFrame
    <3>2. t.state = "Wait" /\ t.buffer = <<>> /\ t.delivered = Append(e.delivered, e.buffer)
      BY <3>1, ByteFields, Controls
    <3>3. ASSUME Len(sent) >= clean PROVE e.buffer \in Leavings(data)
      <4>1. PICK j \in 0..Len(data) :
              /\ e.buffer = SubSeq(data, j + 1, Len(data))
              /\ j = 0 \/ (data[j] = START_BYTE /\ ~Fits(data))
        BY <2>2, <3>3 DEF InFrame
      <4>2. CASE j = 0
        <5>1. e.buffer = data
          BY <1>1, <4>1, <4>2
        <5> QED BY <1>2, <5>1 DEF Leavings, Fits
      <4>3. CASE j # 0
        <5>1. j \in 1..Len(data) /\ data[j] = START_BYTE /\ ~Fits(data)
          BY <1>1, <4>1, <4>3
        <5> QED BY <4>1, <5>1 DEF Leavings
      <4> QED BY <4>2, <4>3
    <3> QED BY <3>1, <3>2, <3>3
  <2> QED BY <2>1, <2>2
<1>4. Accounted(t.delivered, Len(sent))
  <2>1. CASE Len(sent) >= clean
    <3> DEFINE n == Len(sent) - 1
    <3>1. /\ n \in Nat /\ n >= clean - 1 /\ n + 1 = Len(sent)
          /\ Accounted(e.delivered, n)
      BY <1>1, <2>1
    <3>2. \/ t.delivered = e.delivered /\ ~Fits(sent[n + 1])
          \/ \E x \in Leavings(sent[n + 1]) : t.delivered = Append(e.delivered, x)
      BY <1>1, <1>3, <2>1, <3>1
    <3> HIDE DEF n
    <3>3. Accounted(t.delivered, n + 1)
      BY <1>2, <3>1, <3>2, AccountedNext
    <3> QED BY <3>1, <3>3
  <2>2. CASE Len(sent) = clean - 1
    BY <1>1, <1>2, <2>2, AccountedFirst
  <2> QED BY <1>1, <2>1, <2>2
<1> QED BY <1>3, <1>4

\* Behind the loop of the encoder: STOP_BYTE, or nothing as bytes are left.
LEMMA ResyncEnd ==
  ASSUME ControlInv, ResyncInv, EncodeEnd, UNCHANGED faultVars
  PROVE  ResyncInv'
<1> USE DEF ControlInv
<1>1. /\ sender = "encoding" /\ sender' = "returned" /\ encoder.started /\ index = Len(data)
      /\ UNCHANGED <<decoder, data, index, wire, sent, clean>>
  BY DEF EncodeEnd, CallInv, faultVars
<1>2. CASE encoder.finished
  <2>1. encoder' = encoder
    BY <1>2 DEF EncodeEnd
  <2>2. (Pending' <=> Pending) /\ UNCHANGED <<encoder.started, encoder.escape, Stream>>
    BY <1>1, <1>2, <2>1 DEF Pending, Stream
  <2> QED BY <1>1, <2>2, SoundKept, ResyncStays
<1>3. CASE ~encoder.finished
  <2>1. \A s \in Seq(Byte) :
          LET e == [encoder EXCEPT !.finished = TRUE, !.buffer = s]
          IN  e.finished = TRUE /\ e.buffer = s
    BY DEF TypeOK, EncoderState
  <2>2. encoder'.finished /\ encoder'.buffer = Append(encoder.buffer, STOP_BYTE)
    BY <1>3, <2>1, EncoderTypes, Controls DEF EncodeEnd, TypeOK
  <2>3. encoder.escape = FALSE /\ clean \in Nat /\ clean >= 1 /\ Len(sent) \in Nat
    BY <1>1, EncoderTypes DEF CallInv, TypeOK, LineInv
  <2>4. Pending /\ ~Pending' /\ Done = Len(sent) - 1 /\ Done' = Len(sent)
    BY <1>1, <1>3, <2>2 DEF Pending, Done
  <2>5. ASSUME NEW e \in Decoders, NEW t \in Decoders, Sound(e), t = DecodeByte(e, STOP_BYTE)
        PROVE  Sound(t)'
    <3>1. CASE Len(sent) >= clean - 1
      <4>1. InFrame(e) /\ (Len(sent) - 1 >= clean - 1 => Accounted(e.delivered, Len(sent) - 1))
        BY <1>1, <2>4, <2>5, <3>1 DEF Sound
      <4>2. /\ t.state = "Wait" /\ t.buffer = <<>>
            /\ Accounted(t.delivered, Len(sent))
        BY <1>1, <2>3, <2>5, <3>1, <4>1, FrameCloses
      <4>3. Accounted(t.delivered, Done)'
        BY <1>1, <2>4, <4>2 DEF Accounted
      <4> QED BY <2>4, <4>2, <4>3 DEF Sound
    <3>2. CASE ~(Len(sent) >= clean - 1)
      BY <1>1, <2>4, <3>2 DEF Sound
    <3> QED BY <3>1, <3>2
  <2> QED BY <1>1, <2>2, <2>5, ResyncGrows, Controls
<1> QED BY <1>2, <1>3

\* The driver moves the bytes from the buffer to the line.
LEMMA ResyncEmit ==
  ASSUME ControlInv, ResyncInv, TransmitUntilZero, UNCHANGED faultVars
  PROVE  ResyncInv'
<1> USE DEF ControlInv
<1>1. \A s \in Seq(Byte) :
        LET e == [encoder EXCEPT !.buffer = s]
        IN  /\ e.finished = encoder.finished /\ e.buffer = s
            /\ e.escape = encoder.escape /\ e.started = encoder.started
  BY DEF TypeOK, EncoderState
<1>2. /\ encoder'.finished = encoder.finished /\ encoder'.buffer = <<>>
      /\ encoder'.escape = encoder.escape /\ encoder'.started = encoder.started
  BY <1>1, Empty DEF TransmitUntilZero, Emit
<1>3. /\ sender = "returned" /\ UNCHANGED <<decoder, data, index, sent, clean>>
      /\ wire' = wire \o encoder.buffer
      /\ sender' = IF encoder.buffer = <<>> THEN "idle" ELSE "calling"
  BY DEF TransmitUntilZero, Emit, faultVars
<1>4. Pending' <=> Pending
  BY <1>2, <1>3 DEF Pending, CallInv
<1>5. Stream' = Stream
  BY <1>2, <1>3, StreamType, ConcatEmptySeq DEF Stream
<1> QED BY <1>2, <1>3, <1>4, <1>5, SoundKept, ResyncStays

\* Escaper_start_decoder finds the decoder waiting, or disturbs it.
LEMMA ResyncRestart ==
  ASSUME ControlInv, ResyncInv, RestartDecoder
  PROVE  ResyncInv'
<1> USE DEF ControlInv
<1>1. StartDecoder /\ UNCHANGED <<encoder, data, index, sender, wire, sent>>
  BY DEF RestartDecoder, StartDecoder
<1>2. CASE restarts = 0
  <2>1. decoder.state = "Wait" /\ decoder' = [decoder EXCEPT !.state = "Wait"]
    BY <1>1, <1>2 DEF StartDecoder, LineInv
  <2>2. decoder' = decoder /\ clean' = clean
    BY <1>2, <2>1 DEF RestartDecoder, TypeOK, DecoderState
  <2>3. (Pending' <=> Pending) /\ UNCHANGED <<encoder.started, encoder.escape, Stream>>
    BY <1>1 DEF Pending, Stream
  <2> QED BY <1>1, <2>2, <2>3, SoundKept, ResyncStays
<1>3. CASE restarts # 0
  <2>1. Disturbed
    BY <1>3 DEF RestartDecoder
  <2> QED BY <1>1, <2>1, StreamType, ResyncDisturbed
<1> QED BY <1>2, <1>3

\* Receiving a byte: the traces from there on were part of those from here on.
LEMMA ResyncReceive ==
  ASSUME ControlInv, ResyncInv, Receive, UNCHANGED faultVars
  PROVE  ResyncInv'
<1> USE DEF ControlInv
<1>1. /\ wire # <<>> /\ wire' = Tail(wire) /\ decoder' = DecodeByte(decoder, Head(wire))
      /\ UNCHANGED <<encoder, data, index, sender, sent, clean>>
  BY DEF Receive, faultVars
<1>2. /\ Stream \in Seq(Byte) /\ Stream # <<>>
      /\ Head(Stream) = Head(wire) /\ Tail(Stream) = Stream'
  BY <1>1, StreamType DEF Stream
<1>3. (Pending' <=> Pending) /\ UNCHANGED <<encoder.started, encoder.escape>>
  BY <1>1 DEF Pending
<1>4. ASSUME NEW t \in Decoders, Reaches(decoder', Stream', t) PROVE Sound(t)'
  <2>1. Reaches(decoder, Stream, t)
    BY <1>1, <1>2, <1>4, StreamType, ReachesFrom
  <2>2. Sound(t)
    BY <2>1 DEF ResyncInv
  <2> QED BY <1>1, <1>3, <2>2, SoundKept
<1> QED BY <1>4 DEF ResyncInv

\* ResyncInv is kept by every step, faulty or not.
LEMMA ResyncNext == ControlInv /\ ResyncInv /\ [FaultyNext]_allVars => ResyncInv'
<1> SUFFICES ASSUME ControlInv, ResyncInv, [FaultyNext]_allVars PROVE ResyncInv'
  OBVIOUS
<1>0. Len(sent) \in Nat
  BY DEF ControlInv, TypeOK
<1>1. CASE DamageByte
  BY <1>0, <1>1, ResyncDisturbed DEF DamageByte
<1>2. CASE AbandonSending
  BY <1>0, <1>2, ResyncDisturbed DEF AbandonSending
<1>3. CASE StopPolling \/ UNCHANGED allVars
  <2>1. UNCHANGED <<encoder, decoder, data, index, sender, wire, sent, clean>>
    BY <1>3 DEF StopPolling, allVars, vars, faultVars
  <2>2. (Pending' <=> Pending) /\ UNCHANGED <<encoder.started, encoder.escape, Stream>>
    BY <2>1 DEF Pending, Stream
  <2> QED BY <2>1, <2>2, SoundKept, ResyncStays
<1>4. ASSUME NEW p \in Payloads, StartSending(p), UNCHANGED faultVars PROVE ResyncInv'
  BY <1>4, ResyncStart
<1>5. CASE SenderStep /\ UNCHANGED faultVars
  BY <1>5, ResyncCall, ResyncByte, ResyncEnd, ResyncEmit DEF SenderStep
<1>6. CASE Receive /\ UNCHANGED faultVars
  BY <1>6, ResyncReceive
<1>7. CASE RestartDecoder
  BY <1>7, ResyncRestart
<1> QED BY <1>1, <1>2, <1>3, <1>4, <1>5, <1>6, <1>7 DEF FaultyNext

\* The decoder falls back into step by itself: whatever was damaged, given up
\* or restarted, and whether or not the packets fit the receiver, of those
\* beyond the next one each that fits comes out intact, once and in order, and
\* nothing else comes but the leavings of those that do not fit.
THEOREM Resynchronisation == FaultySpec => []Resynchronised
<1>1. ControlInv /\ ResyncInv => Resynchronised
  <2> SUFFICES ASSUME ControlInv, ResyncInv, Quiet, Len(sent) >= clean - 1
               PROVE  Accounted(decoder.delivered, Len(sent))
    BY DEF Resynchronised, delivered
  <2>1. TypeOK /\ CallInv
    BY DEF ControlInv
  <2>2. Stream = <<>> /\ ~Pending
    BY <2>1, Empty, ConcatEmptySeq DEF Quiet, CallInv, Stream, Pending
  <2>3. Sound(decoder)
    BY <2>1, <2>2, StreamType, ReachesHere DEF ResyncInv
  <2> QED BY <2>2, <2>3 DEF Sound, Done
<1>2. FaultyInit => ControlInv /\ ResyncInv
  BY ControlInit, ResyncInit
<1>3. ControlInv /\ ResyncInv /\ [FaultyNext]_allVars => (ControlInv /\ ResyncInv)'
  BY ControlNext, ResyncNext
<1> QED BY <1>1, <1>2, <1>3, PTL DEF FaultySpec
=============================================================================
