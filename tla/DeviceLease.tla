---------------------------- MODULE DeviceLease ----------------------------
(***************************************************************************)
(* What a USB/IP server promises about a device, whatever its processes    *)
(* and the kernel do to keep the promise: a device is leased to at most    *)
(* one connection; a connection that is told it has a device does have it; *)
(* a lease never passes from one connection to another, it ends first, and *)
(* a connection gets one lease in its life.                                *)
(***************************************************************************)
CONSTANTS Conn, Dev, NoConn    \* NoConn is no connection

VARIABLES
    lease,   \* lease[d]: the connection that has the device
    spent,   \* the connections that were given a lease
    told     \* <<c, d>>: c was told it has d, and is still connected

vars == <<lease, spent, told>>

TypeOK ==
    /\ lease \in [Dev -> Conn \cup {NoConn}]
    /\ spent \subseteq Conn
    /\ told  \subseteq Conn \X Dev

Init ==
    /\ lease = [d \in Dev |-> NoConn]
    /\ spent = {}
    /\ told  = {}

(* An import is accepted.                                                  *)
Grant(c, d) ==
    /\ lease[d] = NoConn
    /\ c \notin spent
    /\ lease' = [lease EXCEPT ![d] = c]
    /\ spent' = spent \cup {c}
    /\ UNCHANGED told

(* The client is told so.                                                  *)
Tell(c, d) ==
    /\ lease[d] = c
    /\ told' = told \cup {<<c, d>>}
    /\ UNCHANGED <<lease, spent>>

(* The lease ends, and with it the connection: the client left, the device *)
(* failed or was taken back.                                               *)
Revoke(d) ==
    /\ lease[d] # NoConn
    /\ lease' = [lease EXCEPT ![d] = NoConn]
    /\ told'  = {p \in told : p[1] # lease[d]}
    /\ UNCHANGED spent

Next == \/ \E c \in Conn, d \in Dev : Grant(c, d) \/ Tell(c, d)
        \/ \E d \in Dev : Revoke(d)

Spec == Init /\ [][Next]_vars

(* A client that was told it has a device has it: two connected clients    *)
(* never believe they have the same one.                                   *)
ToldIsLeased == \A p \in told : lease[p[2]] = p[1]
=============================================================================
