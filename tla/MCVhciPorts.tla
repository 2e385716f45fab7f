---------------------------- MODULE MCVhciPorts ----------------------------
(* Instances of VhciPorts for TLC: a process with two threads, one that    *)
(* attaches and one that detaches, and another process that attaches.      *)
EXTENDS VhciPorts, TLC

CONSTANTS a1, a2, d1, app, other

MCAttacher == {a1, a2}
MCDetacher == {d1}
MCProcOf   == (a1 :> app) @@ (a2 :> other) @@ (d1 :> app)
=============================================================================
