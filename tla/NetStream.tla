------------------------------ MODULE NetStream ------------------------------
(***************************************************************************)
(* The exchange of usbip messages over a stream: usbip_net_xmit, and the   *)
(* packing of a message's numbers for the network (usbip_network.c and .h, *)
(* of which client and server have a copy each).                           *)
(*                                                                         *)
(* The two processes take turns as the exchange prescribes.  A socket      *)
(* takes and gives as many bytes as it likes; the connection, or a signal, *)
(* may end a transfer anywhere.  Who has ended closes its socket later, or *)
(* never.  A message is a sequence of bytes, its numbers with the most     *)
(* significant byte first.                                                 *)
(***************************************************************************)
EXTENDS Integers, Sequences

CONSTANTS Exchanges,  \* the exchanges, as sequences of turns
          Window,     \* bytes that fit between the two processes
          NoMessage   \* "no message yet"

(* A turn: who sends, the layout of the message (its size, and where its   *)
(* numbers begin and end), what may be sent, and what both go on with.     *)
Role == {"client", "server"}
Peer(r) == IF r = "client" THEN "server" ELSE "client"
Octet == 0..255
Turn == [from : Role, size : Nat, numbers : SUBSET (Nat \X Nat),
         options : SUBSET Seq(Octet), accept : SUBSET Seq(Octet)]

ASSUME WindowAssumption    == Window \in Nat \ {0}
ASSUME MessageAssumption   == NoMessage \notin Seq(Octet)
ASSUME ExchangesAssumption ==
    /\ Exchanges \subseteq Seq(Turn)
    /\ \A x \in Exchanges : \A k \in DOMAIN x :
         /\ x[k].options # {} /\ x[k].accept \subseteq x[k].options
         /\ \A m \in x[k].options : Len(m) = x[k].size
         /\ \A f \in x[k].numbers : 1 <= f[1] /\ f[2] <= x[k].size
         /\ \A f, g \in x[k].numbers : f[1] <= g[2] /\ g[1] <= f[2] => f = g

VARIABLES
    turns,    \* the exchange
    little,   \* little[r]: the machine of r is little-endian
    up,       \* the network keeps the connection
    shut,     \* shut[r]: r has closed its socket
    pos,      \* pos[r]: the turn r has come to
    state,    \* state[r]: where r stands in it, or how it ended
    buf,      \* buf[r]: bytes it has still to send, or received so far
    wire,     \* wire[r]: bytes from r that its peer has not received
    told,     \* told[k]: the message its sender was given in turn k
    got       \* got[k]: the message its receiver took in turn k

fixed   == <<turns, little>>
netVars == <<fixed, up, shut, pos, state, buf, wire, told, got>>

NetInit ==
    /\ turns  \in Exchanges
    /\ little \in [Role -> BOOLEAN]
    /\ up     = TRUE
    /\ shut   = [r \in Role |-> FALSE]
    /\ pos    = [r \in Role |-> 1]
    /\ state  = [r \in Role |-> IF turns = << >> THEN "done" ELSE "turn"]
    /\ buf    = [r \in Role |-> << >>]
    /\ wire   = [r \in Role |-> << >>]
    /\ told   = [k \in DOMAIN turns |-> NoMessage]
    /\ got    = [k \in DOMAIN turns |-> NoMessage]

-----------------------------------------------------------------------------
(* Messages in memory and on the wire.                                     *)

(* The bytes of b with those of each number in reverse.                    *)
Flip(b, numbers) ==
    [i \in DOMAIN b |->
       IF \E f \in numbers : i \in f[1]..f[2]
         THEN LET f == CHOOSE f \in numbers : i \in f[1]..f[2] IN b[f[1] + f[2] - i]
         ELSE b[i]]

(* What machine r has in memory for message m of turn k, and reads from    *)
(* there; and htonl, htons, ntohl, ntohs on each of its numbers.           *)
InMemory(m, k, r) == IF little[r] THEN Flip(m, turns[k].numbers) ELSE m
Swap(m, k, r)     == IF little[r] THEN Flip(m, turns[k].numbers) ELSE m

(* PACK_*(1, m): the memory of a message once it is packed.                *)
Pack(m, k, r) == Swap(InMemory(m, k, r), k, r)

UnpacksRaw(b, k, r) ==       \* mutant: PACK_*(0, m) is missing
    InMemory(b, k, r)

(* PACK_*(0, m), and what the program then reads.                          *)
Unpack(b, k, r) == InMemory(Swap(b, k, r), k, r)

-----------------------------------------------------------------------------
(* To the next turn, or the end.                                           *)
Advance(r) ==
    /\ pos'   = [pos EXCEPT ![r] = @ + 1]
    /\ state' = [state EXCEPT ![r] = IF pos[r] = Len(turns) THEN "done" ELSE "turn"]
    /\ buf'   = [buf EXCEPT ![r] = << >>]

Stop(r) ==
    /\ state' = [state EXCEPT ![r] = "failed"]
    /\ buf'   = [buf EXCEPT ![r] = << >>]
    /\ UNCHANGED pos

Ended(r) == state[r] \in {"done", "failed"}

(* A message that was sent whole; an error status ends the request.        *)
Sent(r, m) == IF m \in turns[pos[r]].accept THEN Advance(r) ELSE Stop(r)

(* The sender chooses its message and packs it.  Nothing is sent of an     *)
(* empty one: usbip_net_xmit returns 0.                                    *)
BeginSend(r) ==
    /\ state[r] = "turn" /\ turns[pos[r]].from = r
    /\ \E m \in turns[pos[r]].options :
         /\ told' = [told EXCEPT ![pos[r]] = m]
         /\ IF turns[pos[r]].size = 0
              THEN Sent(r, m)
              ELSE /\ buf'   = [buf EXCEPT ![r] = Pack(m, pos[r], r)]
                   /\ state' = [state EXCEPT ![r] = "send"]
                   /\ UNCHANGED pos
    /\ UNCHANGED <<fixed, up, shut, wire, got>>

SendOnce(r) ==               \* mutant: a short send is taken for a whole one
    /\ state[r] = "send" /\ up
    /\ \E n \in 1..Len(buf[r]) :
         /\ n + Len(wire[r]) <= Window
         /\ wire' = [wire EXCEPT ![r] = @ \o SubSeq(buf[r], 1, n)]
    /\ Sent(r, told[pos[r]])
    /\ UNCHANGED <<fixed, up, shut, told, got>>

(* One turn of usbip_net_xmit's loop, sending: send took n bytes.          *)
Send(r) ==
    /\ state[r] = "send" /\ up
    /\ \E n \in 1..Len(buf[r]) :
         /\ n + Len(wire[r]) <= Window
         /\ wire' = [wire EXCEPT ![r] = @ \o SubSeq(buf[r], 1, n)]
         /\ IF n = Len(buf[r])
              THEN Sent(r, told[pos[r]])
              ELSE /\ buf' = [buf EXCEPT ![r] = SubSeq(@, n + 1, Len(@))]
                   /\ UNCHANGED <<pos, state>>
    /\ UNCHANGED <<fixed, up, shut, told, got>>

(* The receiver; of an empty message it receives nothing.                  *)
Took(r, b) ==
    LET m == Unpack(b, pos[r], r) IN
    /\ got' = [got EXCEPT ![pos[r]] = m]
    /\ IF m \in turns[pos[r]].accept THEN Advance(r) ELSE Stop(r)

BeginRecv(r) ==
    /\ state[r] = "turn" /\ turns[pos[r]].from # r
    /\ IF turns[pos[r]].size = 0
         THEN Took(r, << >>)
         ELSE state' = [state EXCEPT ![r] = "recv"] /\ UNCHANGED <<pos, buf, got>>
    /\ UNCHANGED <<fixed, up, shut, wire, told>>

RecvWantsAll(r) ==           \* mutant: every recv starts at the beginning again
    /\ state[r] = "recv"
    /\ \E n \in 1..Len(wire[Peer(r)]) :
         /\ n <= turns[pos[r]].size
         /\ wire' = [wire EXCEPT ![Peer(r)] = SubSeq(@, n + 1, Len(@))]
         /\ IF n = turns[pos[r]].size
              THEN Took(r, SubSeq(wire[Peer(r)], 1, n))
              ELSE UNCHANGED <<pos, state, buf, got>>
    /\ UNCHANGED <<fixed, up, shut, told>>

(* One turn of usbip_net_xmit's loop, receiving: recv gave n bytes, no     *)
(* more than are missing.  (MSG_WAITALL, which a signal cuts short.)       *)
Recv(r) ==
    /\ state[r] = "recv"
    /\ \E n \in 1..Len(wire[Peer(r)]) :
         LET b == buf[r] \o SubSeq(wire[Peer(r)], 1, n) IN
         /\ Len(b) <= turns[pos[r]].size
         /\ wire' = [wire EXCEPT ![Peer(r)] = SubSeq(@, n + 1, Len(@))]
         /\ IF Len(b) = turns[pos[r]].size
              THEN Took(r, b)
              ELSE /\ buf' = [buf EXCEPT ![r] = b]
                   /\ UNCHANGED <<pos, state, got>>
    /\ UNCHANGED <<fixed, up, shut, told>>

(* send or recv returns -1, or recv 0, and so does usbip_net_xmit -1.  It  *)
(* has to when no more bytes can come or go; a signal may make it.         *)
NoMore(r) == \/ ~ up
             \/ shut[Peer(r)] /\ (state[r] = "recv" => wire[Peer(r)] = << >>)
XmitFails(r) ==
    /\ state[r] \in {"send", "recv"}
    /\ Stop(r)
    /\ UNCHANGED <<fixed, up, shut, wire, told, got>>

NetworkFails ==
    /\ up
    /\ up'   = FALSE
    /\ wire' = [r \in Role |-> << >>]
    /\ UNCHANGED <<fixed, shut, pos, state, buf, told, got>>

(* A child of the daemon exits after its request, and a client that got    *)
(* all it asked for closes its socket.  One that failed does not: its      *)
(* socket is closed when its process ends, which the application's does    *)
(* not for that.                                                           *)
CloseSocket(r) ==
    /\ Ended(r) /\ ~ shut[r]
    /\ shut' = [shut EXCEPT ![r] = TRUE]
    /\ UNCHANGED <<fixed, up, pos, state, buf, wire, told, got>>

Closes(r) == r = "server" \/ state[r] = "done"

Step(r) == BeginSend(r) \/ Send(r) \/ BeginRecv(r) \/ Recv(r)

NetNext ==
    NetworkFails \/ \E r \in Role : Step(r) \/ XmitFails(r) \/ CloseSocket(r)

(* Processes run, and a transfer over a connection that is lost, or that   *)
(* the other end has closed, fails.  A client that failed need not close.  *)
NetFairness == \A r \in Role : /\ WF_netVars(Step(r))
                               /\ WF_netVars(NoMore(r) /\ XmitFails(r))
                               /\ WF_netVars(Closes(r) /\ CloseSocket(r))

NetSpec     == NetInit /\ [][NetNext]_netVars
FairNetSpec == NetSpec /\ NetFairness

-----------------------------------------------------------------------------
(* Properties.                                                             *)

(* What a process takes from the stream in a turn is the message its peer  *)
(* was given to send in that turn, whole and with the same numbers, on     *)
(* machines of either endianness, wherever the stream is cut into pieces   *)
(* or cut off; it takes none of an unfinished message.  (An empty one it   *)
(* takes without waiting for it.)  No receive goes past the end of its     *)
(* buffer.  Who comes to the end took the message of every turn; and who   *)
(* waits for the last one knows that the other came to the end, too.       *)
MessagesArrive ==
    /\ \A k \in DOMAIN turns :
         got[k] # NoMessage /\ turns[k].size > 0 => got[k] = told[k]
    /\ \A r \in Role :
         /\ state[r] = "recv" => Len(buf[r]) < turns[pos[r]].size
         /\ state[r] = "done" =>
              /\ \A k \in DOMAIN turns : turns[k].from # r => got[k] # NoMessage
              /\ \A k \in DOMAIN turns :
                   (k = Len(turns) /\ turns[k].from # r /\ turns[k].size > 0)
                       => state[Peer(r)] = "done"

(* The client has failed and keeps its socket, and the daemon's child      *)
(* waits for it: to send more, or to receive what it has sent.             *)
Forsaken(r) ==
    /\ r = "server" /\ up
    /\ state["client"] = "failed" /\ ~ shut["client"]
    /\ \/ state[r] = "recv" /\ wire["client"] = << >>
       \/ state[r] = "send" /\ Len(wire[r]) >= Window

(* Both come to an end, for good, except for a daemon's child whose client *)
(* failed and leaves its socket open: neither waits for bytes that the     *)
(* other does not owe it, whatever pieces the messages come in.            *)
ExchangeEnds == \A r \in Role : <>[](Ended(r) \/ Forsaken(r))

-----------------------------------------------------------------------------
(* Seen message by message, the two processes keep to module Dialogue,     *)
(* which says what the daemon and its clients take a connection for: every *)
(* step of usbip_net_xmit's loop but the last of a message is unseen.      *)
outcome == [r \in Role |-> IF Ended(r) THEN state[r] ELSE "on"]

Talk == INSTANCE Dialogue

ImplementsDialogue == Talk!Spec
=============================================================================
