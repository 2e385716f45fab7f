------------------------------ MODULE Discovery ------------------------------
(***************************************************************************)
(* Discovery: a refresh of the application's window (discover.c) asks the  *)
(* multicast group who serves devices, notes down the nodes that answer    *)
(* within the timeout, and fetches the list of each over TCP.  The other   *)
(* ends are discovery_listener.c and the children of the metadata server.  *)
(*                                                                         *)
(* A refresh is a thread of the application; two run when a broadcast      *)
(* comes during one.  They share the process: wait(NULL) reaps the child   *)
(* of either, and the list just parsed goes through one static variable.   *)
(*                                                                         *)
(* Datagrams are lost and reordered but not duplicated.  The bytes of a    *)
(* list are Size pieces, received in any runs; of its 4-byte size the      *)
(* first recv gets all, none or a part.                                    *)
(*                                                                         *)
(* A refresh that writes past its arrays has overrun: what the process     *)
(* then does is undefined, and none of its threads is followed further.    *)
(***************************************************************************)
EXTENDS Naturals, Sequences, Functions

CONSTANTS Server,     \* hosts with a listener and a metadata server
          Thread,     \* refreshes
          NoServer,   \* "no address"
          NoList,     \* a NULL json_object
          Mixed,      \* whatever the parser makes of anything but a whole list
          Size,       \* pieces of a list
          Slots       \* Slots[t]: slots in the arrays of refresh t; the code
                      \*   has ten for each, whoever answers

ASSUME SizeAssumption == Size \in Nat \ {0} /\ Slots \in [Thread -> Nat]
ASSUME NamesAssumption == NoServer \notin Server /\ {NoList, Mixed} \cap Server = {}
                          /\ NoList # Mixed

VARIABLES
    lpc,        \* lpc[s]: where the listener of s stands
    inbox,      \* inbox[s]: refreshes whose query waits at the listener
    air,        \* answers on their way, or in the socket of the refresh
    pc,         \* pc[t]: where discover_get_json stands
    kid,        \* kid[t]: the address that t's child was forked with
    pipe,       \* pipe[t]: the address in t's pipe
    zombies,    \* children of the process that nobody has waited for
    nodes,      \* nodes[t]: node_addr[0 .. n_node - 1]; overrun, one more
    idx,        \* idx[t]: the node whose list is fetched, from 1
    wire,       \* wire[t]: t's connection; torn, a part of the size is
                \*   yet to be taken, as piece 0 of what follows it
    jsize,      \* jsize[t]: json_size
    buf,        \* buf[t]: recvBuff, which piece of the list is where
    parsed,     \* parsed[t]: what json_tokener_parse gave, until it is returned
    static,     \* usb_json of discover_recv_usb_desc_json
    root,       \* root[t]: the object returned, lists by node
    raced       \* history: static was overwritten before t returned it

askVars   == <<lpc, inbox, air>>
forkVars  == <<kid, pipe, zombies, nodes>>
tcpVars   == <<wire, jsize, buf>>
listVars  == <<parsed, static, root, raced>>
discVars  == <<askVars, pc, forkVars, idx, tcpVars, listVars>>

List   == Server \cup {NoList, Mixed}
Asking == {"listen", "wait", "read"}         \* the loop that takes answers
Place  == Asking \cup {"begin", "overrun", "fetch", "size", "recv", "parsed", "done"}
Wire   == [open : BOOLEAN, size : BOOLEAN, sent : 0..Size, torn : 0..1, taken : 0..Size + 1]
Closed == [open |-> FALSE, size |-> FALSE, sent |-> 0, torn |-> 0, taken |-> 0]
Fresh  == [open |-> TRUE, size |-> FALSE, sent |-> 0, torn |-> 0, taken |-> 0]
Whole  == [i \in 1..Size |-> i]

DiscTypeOK ==
    /\ lpc     \in [Server -> {"start", "listen", "dead"}]
    /\ inbox   \in [Server -> SUBSET Thread]
    /\ air     \subseteq Server \X Thread
    /\ pc      \in [Thread -> Place]
    /\ kid     \in [Thread -> Server \cup {NoServer}]
    /\ pipe    \in [Thread -> Server \cup {NoServer}]
    /\ zombies \in Nat
    /\ nodes   \in [Thread -> Seq(Server)]
    /\ idx     \in [Thread -> Nat \ {0}]
    /\ wire    \in [Thread -> Wire]
    /\ jsize   \in [Thread -> 0..Size + 1]
    /\ buf     \in [Thread -> Seq(0..Size)]
    /\ parsed  \in [Thread -> List]
    /\ static  \in List
    /\ root    \in [Thread -> [Server -> List]]
    /\ raced   \subseteq Thread

DiscInit ==
    /\ lpc     = [s \in Server |-> "start"]
    /\ inbox   = [s \in Server |-> {}]
    /\ air     = {}
    /\ pc      = [t \in Thread |-> "begin"]
    /\ kid     = [t \in Thread |-> NoServer]
    /\ pipe    = [t \in Thread |-> NoServer]
    /\ zombies = 0
    /\ nodes   = [t \in Thread |-> <<>>]
    /\ idx     = [t \in Thread |-> 1]
    /\ wire    = [t \in Thread |-> Closed]
    /\ jsize   = [t \in Thread |-> 0]
    /\ buf     = [t \in Thread |-> <<>>]
    /\ parsed  = [t \in Thread |-> NoList]
    /\ static  = NoList
    /\ root    = [t \in Thread |-> [s \in Server |-> NoList]]
    /\ raced   = {}

Goes(t, here, there) == pc[t] = here /\ pc' = [pc EXCEPT ![t] = there]

-----------------------------------------------------------------------------
(* The listener of a server.                                               *)

(* socket, bind and the membership of the group, any of which may fail.    *)
ListenerStarts(s) ==
    /\ lpc[s] = "start"
    /\ \E to \in {"listen", "dead"} : lpc' = [lpc EXCEPT ![s] = to]
    /\ UNCHANGED <<inbox, air, pc, forkVars, idx, tcpVars, listVars>>

AnswersTwice(s, t) ==        \* mutant: an empty datagram sent counts as a failure
    /\ t \in inbox[s]
    /\ air' = air \cup {<<s, t>>}
    /\ UNCHANGED <<lpc, inbox, pc, forkVars, idx, tcpVars, listVars>>

(* recvfrom, then sendto until it succeeds.  The answer may be lost.       *)
Answer(s, t) ==
    /\ t \in inbox[s]
    /\ inbox' = [inbox EXCEPT ![s] = @ \ {t}]
    /\ \/ air' = air \cup {<<s, t>>}
       \/ UNCHANGED air
    /\ UNCHANGED <<lpc, pc, forkVars, idx, tcpVars, listVars>>

-----------------------------------------------------------------------------
(* discover_get_json.                                                      *)

(* Without a socket, or when sendto fails, the empty object is returned.   *)
AskFails(t) ==
    /\ Goes(t, "begin", "done")
    /\ UNCHANGED <<askVars, forkVars, idx, tcpVars, listVars>>

(* The query reaches some of the servers that listen.                      *)
Ask(t) ==
    /\ Goes(t, "begin", "listen")
    /\ \E heard \in SUBSET {s \in Server : lpc[s] = "listen"} :
         inbox' = [s \in Server |-> IF s \in heard THEN inbox[s] \cup {t} ELSE inbox[s]]
    /\ UNCHANGED <<lpc, air, forkVars, idx, tcpVars, listVars>>

Full(t) == Len(nodes[t]) = Slots[t]

(* recvfrom returns an answer.  Without a pipe it is dropped; a child is   *)
(* forked with the address, or fork fails and there is none.  Nothing      *)
(* checks n_node: when the slots are full, pipe writes behind fd.          *)
TakeAnswer(t) ==
    /\ \E s \in Server :
         /\ <<s, t>> \in air
         /\ air'  = air \ {<<s, t>>}
         /\ \/ Goes(t, "listen", "listen") /\ UNCHANGED <<kid, nodes>>
            \/ ~Full(t) /\ Goes(t, "listen", "wait") /\ UNCHANGED <<kid, nodes>>
            \/ /\ ~Full(t) /\ Goes(t, "listen", "wait")
               /\ kid' = [kid EXCEPT ![t] = s] /\ UNCHANGED nodes
            \/ /\ Full(t) /\ Goes(t, "listen", "overrun")
               /\ nodes' = [nodes EXCEPT ![t] = Append(@, s)] /\ UNCHANGED kid
    /\ UNCHANGED <<lpc, inbox, pipe, zombies, idx, tcpVars, listVars>>

(* The child of t writes its copy of the address to the pipe and exits.    *)
ChildWrites(t) ==
    /\ kid[t] # NoServer
    /\ pipe'    = [pipe EXCEPT ![t] = kid[t]]
    /\ kid'     = [kid EXCEPT ![t] = NoServer]
    /\ zombies' = zombies + 1
    /\ UNCHANGED <<askVars, pc, nodes, idx, tcpVars, listVars>>

(* wait(NULL): any child of the process will do, also another refresh's;   *)
(* it returns at once when there is none.                                  *)
Wait(t) ==
    /\ Goes(t, "wait", "read")
    /\ \/ zombies > 0 /\ zombies' = zombies - 1
       \/ zombies = 0 /\ (\A u \in Thread : kid[u] = NoServer) /\ UNCHANGED zombies
    /\ UNCHANGED <<askVars, kid, pipe, nodes, idx, tcpVars, listVars>>

ReadsOnce(t) ==              \* mutant: read is not tried again
    /\ Goes(t, "read", "listen")
    /\ nodes' = [nodes EXCEPT ![t] = Append(@, pipe[t])]
    /\ pipe'  = [pipe EXCEPT ![t] = NoServer]
    /\ UNCHANGED <<askVars, kid, zombies, idx, tcpVars, listVars>>

(* read until there are 16 bytes: for ever, when fork has failed.          *)
ReadNode(t) ==
    /\ pipe[t] # NoServer
    /\ Goes(t, "read", "listen")
    /\ nodes' = [nodes EXCEPT ![t] = Append(@, pipe[t])]
    /\ pipe'  = [pipe EXCEPT ![t] = NoServer]
    /\ UNCHANGED <<askVars, kid, zombies, idx, tcpVars, listVars>>

RetriesOnTimeout(t) ==       \* mutant: continue in the place of break
    /\ pc[t] = "listen"
    /\ UNCHANGED discVars

(* Nothing came for a second, and the refresh closes its socket.  What is  *)
(* still on its way, or has yet to be answered, comes to nobody: the next  *)
(* refresh asks from a socket of its own.                                  *)
TimesOut(t) ==
    /\ Goes(t, "listen", "fetch")
    /\ air'   = {a \in air : a[2] # t}
    /\ inbox' = [s \in Server |-> inbox[s] \ {t}]
    /\ UNCHANGED <<lpc, forkVars, idx, tcpVars, listVars>>

-----------------------------------------------------------------------------
(* discover_recv_usb_desc_json, for each node in its turn.                 *)

FetchDone(t) ==
    /\ idx[t] > Len(nodes[t])
    /\ Goes(t, "fetch", "done")
    /\ UNCHANGED <<askVars, forkVars, idx, tcpVars, listVars>>

Connect(t) ==
    /\ idx[t] <= Len(nodes[t])
    /\ Goes(t, "fetch", "size")
    /\ wire'  = [wire EXCEPT ![t] = Fresh]
    /\ UNCHANGED <<askVars, forkVars, idx, jsize, buf, listVars>>

(* To the next node; the call's locals and its connection are done with.   *)
NextNode(t) ==
    /\ pc'     = [pc EXCEPT ![t] = "fetch"]
    /\ idx'    = [idx EXCEPT ![t] = @ + 1]
    /\ wire'   = [wire EXCEPT ![t] = Closed]
    /\ jsize'  = [jsize EXCEPT ![t] = 0]
    /\ buf'    = [buf EXCEPT ![t] = <<>>]
    /\ parsed' = [parsed EXCEPT ![t] = NoList]
    /\ UNCHANGED <<askVars, forkVars, static, raced>>

AddsLast(t) ==               \* mutant: usb_json is returned where NULL should be
    /\ pc[t] = "fetch" /\ idx[t] <= Len(nodes[t])
    /\ root' = [root EXCEPT ![t][nodes[t][idx[t]]] = static]
    /\ NextNode(t)

(* A NULL list is not added.                                               *)
ConnectFails(t) ==
    /\ pc[t] = "fetch"
    /\ idx[t] <= Len(nodes[t])
    /\ NextNode(t)
    /\ UNCHANGED root

(* recv fails: the connection was reset, whatever it still held.           *)
RecvFails(t) ==
    /\ pc[t] \in {"size", "recv"}
    /\ ~wire[t].open
    /\ NextNode(t)
    /\ UNCHANGED root

(* The size, and a buffer.  recv is content with the first bytes of the    *)
(* size, and with none when the connection was closed before it: the rest  *)
(* of json_size is what was on the stack.                                  *)
RecvSize(t) ==
    /\ Goes(t, "size", "recv")
    /\ \/ wire[t].size /\ jsize' = [jsize EXCEPT ![t] = Size] /\ UNCHANGED wire
       \/ /\ wire[t].size
          /\ wire' = [wire EXCEPT ![t].torn = 1]
          /\ \E n \in 0..Size + 1 : jsize' = [jsize EXCEPT ![t] = n]
       \/ /\ ~wire[t].size /\ ~wire[t].open
          /\ \E n \in 0..Size + 1 : jsize' = [jsize EXCEPT ![t] = n]
          /\ UNCHANGED wire
    /\ UNCHANGED <<askVars, forkVars, idx, buf, listVars>>

Parse(t, json) ==
    /\ parsed' = [parsed EXCEPT ![t] = json]
    /\ static' = json
    /\ raced'  = raced \cup {u \in Thread \ {t} : pc[u] = "parsed"}
    /\ Goes(t, "recv", "parsed")

(* recv takes n pieces, to the start of the buffer.                        *)
Overwrites(t, n) ==
    /\ n <= jsize[t]
    /\ n <= wire[t].torn + wire[t].sent - wire[t].taken
    /\ wire' = [wire EXCEPT ![t].taken = @ + n]
    /\ buf'  = [buf EXCEPT ![t] = [i \in 1..n |-> wire[t].taken + i - wire[t].torn]
                                  \o SubSeq(@, n + 1, Len(@))]

ParsedFrom(t) == IF buf'[t] = Whole THEN nodes[t][idx[t]] ELSE Mixed

TakesPieces(t) ==            \* mutant: the pieces' sizes are added up
    /\ pc[t] = "recv"
    /\ \E n \in 1..Size + 1 :
         /\ Overwrites(t, n)
         /\ IF wire[t].taken + n = jsize[t]
              THEN Parse(t, ParsedFrom(t))
              ELSE UNCHANGED <<pc, parsed, static, raced>>
    /\ UNCHANGED <<askVars, forkVars, idx, jsize, root>>

(* One round of the loop, which ends when one recv gave json_size bytes.   *)
(* (At the end of the connection recv gives 0, over and over.)             *)
RecvList(t) ==
    /\ pc[t] = "recv"
    /\ \E n \in 1..Size + 1 :
         /\ Overwrites(t, n)
         /\ IF n = jsize[t]
              THEN Parse(t, ParsedFrom(t))
              ELSE UNCHANGED <<pc, parsed, static, raced>>
    /\ UNCHANGED <<askVars, forkVars, idx, jsize, root>>

(* A size of zero: the loop ends at once and the empty buffer is parsed.   *)
RecvNothing(t) ==
    /\ jsize[t] = 0
    /\ Parse(t, NoList)
    /\ UNCHANGED <<askVars, forkVars, idx, tcpVars, root>>

(* free, close and return usb_json: the value that was assigned, or what   *)
(* the static variable holds by now, as the compiler pleases.              *)
Return(t) ==
    /\ pc[t] = "parsed"
    /\ \E json \in {parsed[t], static} :
         root' = IF json = NoList THEN root
                                  ELSE [root EXCEPT ![t][nodes[t][idx[t]]] = json]
    /\ NextNode(t)

-----------------------------------------------------------------------------
(* The child of a metadata server at the other end.                        *)

Served(t) == pc[t] \in {"size", "recv"} /\ wire[t].open

SendSize(t) ==
    /\ Served(t) /\ ~wire[t].size
    /\ wire' = [wire EXCEPT ![t].size = TRUE]
    /\ UNCHANGED <<askVars, pc, forkVars, idx, jsize, buf, listVars>>

(* sendall: send takes as much as it likes.                                *)
SendSome(t) ==
    /\ Served(t) /\ wire[t].size
    /\ \E n \in wire[t].sent + 1 .. Size : wire' = [wire EXCEPT ![t].sent = n]
    /\ UNCHANGED <<askVars, pc, forkVars, idx, jsize, buf, listVars>>

SendDone(t) ==
    /\ Served(t) /\ wire[t].sent = Size
    /\ wire' = [wire EXCEPT ![t].open = FALSE]
    /\ UNCHANGED <<askVars, pc, forkVars, idx, jsize, buf, listVars>>

(* The server is killed for its successor, or the connection is cut.       *)
SendCut(t) ==
    /\ Served(t)
    /\ wire' = [wire EXCEPT ![t].open = FALSE]
    /\ UNCHANGED <<askVars, pc, forkVars, idx, jsize, buf, listVars>>

-----------------------------------------------------------------------------
Overrun == \E t \in Thread : pc[t] = "overrun"

ThreadStep(t) ==
    /\ ~Overrun
    /\ \/ AskFails(t) \/ Ask(t) \/ TakeAnswer(t) \/ Wait(t) \/ ReadNode(t) \/ TimesOut(t)
       \/ FetchDone(t) \/ Connect(t) \/ ConnectFails(t) \/ RecvFails(t) \/ RecvSize(t)
       \/ RecvList(t) \/ RecvNothing(t) \/ Return(t)

SenderStep(t) == SendSize(t) \/ SendSome(t) \/ SendDone(t)

DiscNext ==
    \/ \E t \in Thread : ThreadStep(t) \/ ChildWrites(t) \/ SenderStep(t) \/ SendCut(t)
    \/ \E s \in Server : ListenerStarts(s) \/ \E t \in Thread : Answer(s, t)

(* Threads and children run, and a receive waits a second at most; a       *)
(* server that is connected to gets on with its list.  No listener has to  *)
(* answer.                                                                 *)
DiscFairness ==
    \A t \in Thread : /\ WF_discVars(ThreadStep(t))
                      /\ WF_discVars(ChildWrites(t))
                      /\ WF_discVars(SenderStep(t))

DiscSpec     == DiscInit /\ [][DiscNext]_discVars
FairDiscSpec == DiscSpec /\ DiscFairness

-----------------------------------------------------------------------------
(* Properties.                                                             *)

(* A refresh notes a server down once at most, whatever its answers pass   *)
(* through, so that it writes past its ten slots only when more than ten   *)
(* different servers have answered it, and that many answers are all it    *)
(* takes.                                                                  *)
NotedOnce ==
    \A t \in Thread :
        /\ IsInjective(nodes[t])
        /\ pc[t] = "overrun" <=> Len(nodes[t]) > Slots[t]

(* What the parser is given is a whole list, unless its size was received  *)
(* in part: never pieces one over the other, though recv always writes to  *)
(* the start of the buffer, and never part of a list, though servers are   *)
(* killed while they send.                                                 *)
ListsAreWhole == \A t \in Thread : parsed[t] = Mixed => wire[t].torn = 1

(* A refresh files under a node only that node's list, or what it made of  *)
(* one whose size was received in part, whatever other refreshes do        *)
(* meanwhile, unless another one parsed its list while this one was about  *)
(* to return its own.                                                      *)
ListsAreAttributed ==
    \A t \in Thread \ raced : \A s \in Server : root[t][s] \in {NoList, Mixed, s}

(* fork has failed; or the list came in pieces, or not whole.              *)
ForkFailed(t)  == pc[t] = "read" /\ kid[t] = NoServer /\ pipe[t] = NoServer
ListRanDry(t)  == /\ pc[t] = "recv" /\ ~wire[t].open
                  /\ wire[t].taken = wire[t].torn + wire[t].sent /\ jsize[t] # 0

(* A refresh ends, with or without answers and whosever children it waits  *)
(* for, except in the two loops that only a success ends: the read of a    *)
(* pipe nobody has, and the receive of a list that does not come whole in  *)
(* one piece; and if no refresh of the process overruns its slots.         *)
RefreshEnds ==
    \A t \in Thread :
        pc[t] = "listen" ~> pc[t] = "done" \/ ForkFailed(t) \/ ListRanDry(t) \/ Overrun
=============================================================================
