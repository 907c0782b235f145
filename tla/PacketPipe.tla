----------------------------- MODULE PacketPipe -----------------------------
(***************************************************************************)
(* What a byte-stuffed serial link promises its two users: packets come    *)
(* out exactly as they went in, each once, in the order they were sent.    *)
(* Nothing of frames, escapes, buffers or bytes is visible here.           *)
(***************************************************************************)
EXTENDS Naturals, Sequences

CONSTANTS Payloads,    \* the packets a user may send
          MaxPackets   \* bound on the number of packets sent

VARIABLES sent,        \* packets accepted from the sending user, in order
          delivered    \* packets handed to the receiving user, in order

vars == <<sent, delivered>>

Init == sent = <<>> /\ delivered = <<>>

Send(p) ==
  /\ Len(sent) < MaxPackets
  /\ sent' = Append(sent, p)
  /\ UNCHANGED delivered

\* The next packet to come out is the oldest that has not come out yet.
Deliver ==
  /\ Len(delivered) < Len(sent)
  /\ delivered' = Append(delivered, sent[Len(delivered) + 1])
  /\ UNCHANGED sent

Next == Deliver \/ \E p \in Payloads : Send(p)

Spec == Init /\ [][Next]_vars

=============================================================================
