--------------------------- MODULE EscaperFaults ---------------------------
(***************************************************************************)
(* The Escaper over a line that damages bytes, with a receiving driver     *)
(* that may leave its polling loop and enter it again.  Nothing in a frame *)
(* is numbered or acknowledged, so packets may be lost or damaged (finding *)
(* that out is left to the packetizer's CRC); what the frame format has to *)
(* guarantee is that the damage does not last.                             *)
(***************************************************************************)
EXTENDS Escaper, SequencesExt

CONSTANTS MaxFaults,     \* bound on the number of bytes damaged
          MaxRestarts    \* bound on how often the polling loop is left

ASSUME FaultAssumption == MaxFaults \in Nat /\ MaxRestarts \in Nat

VARIABLES
  faults,     \* bytes damaged and frames given up so far
  restarts,   \* how often the polling loop was left
  clean,      \* ghost: sent[clean] and what follows is out of the damage's reach
  fresh       \* ghost: sent[fresh] was the next packet when the decoder was started

faultVars == <<faults, restarts, clean, fresh>>
allVars == <<vars, faultVars>>

FaultyInit == Init /\ faults = 0 /\ restarts = 0 /\ clean = 1 /\ fresh = 1

\* Beyond the packets already handed to the encoder, only the next one can be
\* affected: its START_BYTE may be taken as escaped data.
Disturbed == clean' = Len(sent) + 2

\* A byte of the line is lost, replaced or inserted.
DamageByte ==
  /\ faults < MaxFaults
  /\ \/ \E i \in 1..Len(wire) : wire' = RemoveAt(wire, i)
     \/ \E i \in 1..Len(wire), b \in Byte : wire' = ReplaceAt(wire, i, b)
     \/ \E i \in 1..(Len(wire) + 1), b \in Byte : wire' = InsertAt(wire, i, b)
  /\ faults' = faults + 1
  /\ Disturbed
  /\ UNCHANGED <<sendVars, decoder, polling, sent, restarts, fresh>>

\* The sending driver gives a packet up between two calls, with the frame
\* open; the next packet begins with Escaper_start_encoder.
AbandonSending ==
  /\ sender = "calling" /\ encoder.started /\ ~encoder.finished
  /\ faults < MaxFaults
  /\ faults' = faults + 1
  /\ sender' = "idle"
  /\ Disturbed
  /\ UNCHANGED <<encoder, decoder, data, index, polling, wire, sent, restarts, fresh>>

\* The receiving driver leaves its polling loop; Escaper keeps its fields.
StopPolling ==
  /\ polling
  /\ restarts < MaxRestarts
  /\ polling' = FALSE
  /\ restarts' = restarts + 1
  /\ UNCHANGED <<sendVars, decoder, wire, sent, faults, clean, fresh>>

RestartDecoder ==
  /\ StartDecoder
  /\ IF restarts = 0 THEN UNCHANGED <<clean, fresh>>
     ELSE Disturbed /\ fresh' = Len(sent) + 1
  /\ UNCHANGED <<faults, restarts>>

FaultyNext ==
  \/ ((\E p \in Payloads : StartSending(p)) \/ SenderStep \/ Receive) /\ UNCHANGED faultVars
  \/ RestartDecoder
  \/ DamageByte
  \/ AbandonSending
  \/ StopPolling

FaultySpec == FaultyInit /\ [][FaultyNext]_allVars

-----------------------------------------------------------------------------
FaultsTypeOK ==
  /\ TypeOK
  /\ faults \in 0..MaxFaults
  /\ restarts \in 0..MaxRestarts
  /\ clean \in 1..(MaxPackets + 2)
  /\ fresh \in 1..(MaxPackets + 1)

\* What may be delivered of a packet when it is: the packet itself if it fits
\* the receiver's buffer; if not, the part behind one of its own START_BYTEs,
\* which the decoder takes for the start of a frame when it has given the
\* packet up (Escaper.c:77-82, 90-95).
Leavings(p) ==
  IF Fits(p) THEN {p}
  ELSE {SubSeq(p, i + 1, Len(p)) : i \in {i \in 1..Len(p) : p[i] = START_BYTE}}

\* The packets up to the n-th, from the clean one on, and no others, have left
\* something at the end of d, in their order: came[k] is how much had come when
\* the k-th was through.  Where nothing was disturbed that is all of d.
Accounted(d, n) ==
  \E came \in [(clean - 1)..n -> 0..Len(d)] :
    /\ clean = 1 => came[0] = 0
    /\ came[n] = Len(d)
    /\ \A k \in clean..n :
         \/ came[k] = came[k - 1] + 1 /\ d[came[k]] \in Leavings(sent[k])
         \/ came[k] = came[k - 1] /\ ~Fits(sent[k])

\* The decoder falls back into step by itself: whatever byte was lost, changed
\* or inserted, wherever a frame was cut off or the polling loop left, and
\* however long the packets are, only those under way and one more are at
\* risk.  All later ones that fit come out intact, once and in order, with
\* nothing between or behind them but the leavings of those that do not fit
\* (the START_BYTE cases of Escaper.c:61-75).
Resynchronised == Quiet /\ Len(sent) >= clean - 1 => Accounted(delivered, Len(sent))

\* "Initialize decoder. This function shall be used in the polling method
\* before polling loop." (Escaper.h:82-85): over a line that damages nothing,
\* a packet sent after the decoder was started is received intact.
RestartIntact ==
  Quiet => IsSuffix(SubSeq(sent, fresh, Len(sent)), delivered)

=============================================================================
