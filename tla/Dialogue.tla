------------------------------ MODULE Dialogue ------------------------------
(***************************************************************************)
(* What two processes that exchange usbip messages over a connection may   *)
(* rely on, whatever pieces the messages travel in: a message arrives as a *)
(* whole or not at all, as it was given to the sender, in its turn, and    *)
(* not before the sender is done with it.  Either side may fail at any     *)
(* time; the other is left with what it was sent before.                   *)
(***************************************************************************)
EXTENDS Naturals, Sequences

CONSTANTS Role,       \* the two processes
          Exchanges,  \* as in NetStream: sequences of turns
          NoMessage   \* "no message yet"

VARIABLES
    turns,    \* the exchange
    pos,      \* pos[r]: the turn r has come to
    outcome,  \* outcome[r]: "on", "done" or "failed"
    told,     \* told[k]: the message its sender was given in turn k
    got       \* got[k]: the message its receiver took in turn k

vars == <<turns, pos, outcome, told, got>>

Init ==
    /\ turns   \in Exchanges
    /\ pos     = [r \in Role |-> 1]
    /\ outcome = [r \in Role |-> IF turns = << >> THEN "done" ELSE "on"]
    /\ told    = [k \in DOMAIN turns |-> NoMessage]
    /\ got     = [k \in DOMAIN turns |-> NoMessage]

Sends(r)    == outcome[r] = "on" /\ turns[pos[r]].from = r
Receives(r) == outcome[r] = "on" /\ turns[pos[r]].from # r

(* On to the next turn after message m, or no further.                     *)
GoOn(r, m) ==
    IF m \in turns[pos[r]].accept
      THEN /\ pos'     = [pos EXCEPT ![r] = @ + 1]
           /\ outcome' = [outcome EXCEPT ![r] = IF pos[r] = Len(turns) THEN "done" ELSE "on"]
      ELSE /\ outcome' = [outcome EXCEPT ![r] = "failed"]
           /\ UNCHANGED pos

(* The sender is given its message (an empty one is as good as sent).      *)
Give(r) ==
    /\ Sends(r) /\ told[pos[r]] = NoMessage
    /\ \E m \in turns[pos[r]].options :
         /\ told' = [told EXCEPT ![pos[r]] = m]
         /\ IF turns[pos[r]].size = 0 THEN GoOn(r, m) ELSE UNCHANGED <<pos, outcome>>
    /\ UNCHANGED <<turns, got>>

Sent(r) ==
    /\ Sends(r) /\ told[pos[r]] # NoMessage
    /\ GoOn(r, told[pos[r]])
    /\ UNCHANGED <<turns, told, got>>

(* The receiver takes the message; an empty one it takes at any time.      *)
Take(r) ==
    LET k == pos[r]
        m == IF turns[k].size = 0 THEN << >> ELSE told[k]
    IN
    /\ Receives(r)
    /\ m # NoMessage
    /\ turns[k].size # 0 /\ m \in turns[k].accept => k < pos[turns[k].from]
    /\ got' = [got EXCEPT ![k] = m]
    /\ GoOn(r, m)
    /\ UNCHANGED <<turns, told>>

Fail(r) ==
    /\ outcome[r] = "on"
    /\ outcome' = [outcome EXCEPT ![r] = "failed"]
    /\ UNCHANGED <<turns, pos, told, got>>

Next == \E r \in Role : Give(r) \/ Sent(r) \/ Take(r) \/ Fail(r)
Spec == Init /\ [][Next]_vars
=============================================================================
