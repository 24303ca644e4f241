---------------------------- MODULE MCRelayTrunk ----------------------------
(* The relay on small instances: events of one task.                       *)
EXTENDS RelayTrunk

MCExpected == [o \in Operations |-> 300]

MCClients == 1..MaxTrunks

=============================================================================
