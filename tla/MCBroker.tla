------------------------------ MODULE MCBroker ------------------------------
(* Instances of Broker for TLC.                                             *)
EXTENDS Broker, TLC

CONSTANTS t1, t2, d1, d2, peer, b1, b2, b3, i1, i2, i3, x, y

-----------------------------------------------------------------------------
(* Two tasks and a driver on a bus of space packets and a passthrough bus.  *)

SendCfg == b1 :> "DEFAULT" @@ b2 :> "PASSTHROUGH"
SendMap == i1 :> b1 @@ i2 :> b2
SendRoutes ==
  {[unique |-> b1 :> i1 @@ b2 :> r[1], anyPort |-> b1 :> TRUE @@ b2 :> r[2]] :
     r \in {<<i2, TRUE>>, <<INTERFACE_INVALID_ID, TRUE>>, <<INTERFACE_INVALID_ID, FALSE>>}}
SendReceived ==
  {[bus |-> b, length |-> "right", intact |-> ok, type |-> "Telemetry",
    dst |-> i1, source |-> peer, data |-> x] : b \in Buses, ok \in BOOLEAN}

-----------------------------------------------------------------------------
(* Drivers and tasks on buses of the other kinds, with every defect.        *)

ReceiveCfg == b1 :> "STRICT_CCSDS" @@ b2 :> "THIN" @@ b3 :> "DEVICE_PROVIDED"
ReceiveMap == i1 :> b1 @@ i2 :> b2 @@ i3 :> b3
ReceiveRoutes ==
  {[unique |-> [b \in Buses |-> INTERFACE_INVALID_ID], anyPort |-> [b \in Buses |-> TRUE]]}
\* What a driver may hand over: on one bus or another every defect a
\* packetizer looks for, alone, and packets without one.
Sound(b) == [bus |-> b, length |-> "right", intact |-> TRUE, type |-> "Telemetry",
             dst |-> i1, source |-> peer, data |-> x]
ReceiveReceived ==
  {[Sound(b1) EXCEPT !.intact = FALSE], [Sound(b1) EXCEPT !.length = "short"],
   [Sound(b2) EXCEPT !.length = "wrong"], Sound(b2), Sound(b3)}

=============================================================================
