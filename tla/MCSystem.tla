------------------------------ MODULE MCSystem ------------------------------
(* An instance of System for TLC: three nodes in a row, with a passthrough  *)
(* bus between the first two, and a bus whose packets carry a type between  *)
(* the last two, of which only one expects what the other sends; the        *)
(* devices of a bus are not neighbours in the tables.                       *)
EXTENDS System, TLC

MCBus == 0 :> 0 @@ 1 :> 1 @@ 2 :> 2 @@ 3 :> 1 @@ 4 :> 2
MCKinds == 0 :> "DEFAULT" @@ 1 :> "PASSTHROUGH" @@ 2 :> "DEFAULT" @@ 3 :> "PASSTHROUGH" @@ 4 :> "DEFAULT"
MCSend == 1 :> "Telemetry" @@ 2 :> "Telemetry" @@ 3 :> "Telecommand"
MCExpect == 1 :> "Telecommand" @@ 2 :> "Telemetry" @@ 3 :> "Telemetry"
MCOwner == 1 :> 1 @@ 2 :> 2 @@ 3 :> 2 @@ 4 :> 3

\* Every table of the ports, each of them unused or a way of a node onto a bus.
Ways == {[partition |-> 0, bus |-> 0]} \cup
        {[partition |-> p, bus |-> b] : p \in Partitions, b \in Buses}
MCPortMaps ==
  {(0 :> [partition |-> 0, bus |-> 0]) @@ ports :
     ports \in [Interfaces -> {w \in Ways : w.bus # 0 => Joins(w.partition, w.bus)}]}

=============================================================================
