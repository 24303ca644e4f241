----------------------------- MODULE MCPairing -----------------------------
(* Instances of module Pairing: a phone on the relay and a local one, each *)
(* with a device of its own.                                               *)
EXTENDS Pairing, TLC

CONSTANTS p1, l1, d1, d2

MCDeviceOf == (p1 :> d1) @@ (l1 :> d2)
=============================================================================
