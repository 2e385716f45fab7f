---------------------------- MODULE MCDiscovery ----------------------------
(* Instances of Discovery for TLC: one refresh has slots for all servers,  *)
(* the other for one of them.                                              *)
EXTENDS Discovery, TLC

CONSTANTS t1, t2

TwoSlots == (t1 :> 1) @@ (t2 :> 2)
=============================================================================
