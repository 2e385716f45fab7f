-------------------------- MODULE DiscoveryProofs --------------------------
(* Theorems about Discovery, for any servers, refreshes and list sizes.    *)
EXTENDS Discovery, SequenceTheorems, TLAPS

(* A refresh that fetches a list fetches that of a node it has.            *)
Fetching == \A t \in Thread : pc[t] \in {"size", "recv", "parsed"} => idx[t] <= Len(nodes[t])

TypeInv == DiscTypeOK /\ Fetching

(* What a recv takes stays within the list and the buffer.                 *)
LEMMA OverwritesTyped ==
    ASSUME DiscTypeOK, NEW t \in Thread, NEW n \in 1..Size + 1, Overwrites(t, n)
    PROVE  /\ wire' \in [Thread -> Wire]
           /\ buf' \in [Thread -> Seq(0..Size)]
<1> DEFINE w == wire[t]
           new == [i \in 1..n |-> w.taken + i - w.torn]
<1>1. /\ w.taken \in 0..Size + 1 /\ w.sent \in 0..Size /\ w.torn \in 0..1
      /\ n <= w.torn + w.sent - w.taken /\ buf[t] \in Seq(0..Size)
      /\ Size \in Nat /\ n \in Nat
  BY SizeAssumption DEF DiscTypeOK, Overwrites, Wire
<1>2. w.taken + n \in 0..Size + 1
  BY <1>1
<1>3. wire' \in [Thread -> Wire]
  BY <1>2 DEF Overwrites, DiscTypeOK, Wire
<1>4. new \in Seq(0..Size)
  <2>1. ASSUME NEW i \in 1..n PROVE w.taken + i - w.torn \in 0..Size
    <3>1. PICK a \in Nat, b \in 0..Size, c \in 0..1 : a = w.taken /\ b = w.sent /\ c = w.torn
      BY <1>1
    <3>2. n <= c + b - a /\ i \in 1..n /\ n \in Nat /\ Size \in Nat
      BY <1>1, <3>1
    <3>3. a + i - c \in 0..Size
      BY <3>2
    <3> QED
      BY <3>1, <3>3
  <2>2. new \in [1..n -> 0..Size]
    BY <2>1
  <2> QED
    BY <2>2, <1>1
<1>5. SubSeq(buf[t], n + 1, Len(buf[t])) \in Seq(0..Size)
  BY <1>1
<1>6. new \o SubSeq(buf[t], n + 1, Len(buf[t])) \in Seq(0..Size)
  BY <1>4, <1>5
<1> QED
  BY <1>3, <1>6 DEF DiscTypeOK, Overwrites

(* What the parser makes of the buffer is a list.                          *)
LEMMA ParsedTyped ==
    ASSUME TypeInv, NEW t \in Thread, pc[t] = "recv"
    PROVE  ParsedFrom(t) \in List
<1>1. idx[t] \in 1..Len(nodes[t]) /\ nodes[t] \in Seq(Server)
  BY DEF TypeInv, DiscTypeOK, Fetching
<1>2. nodes[t][idx[t]] \in Server
  BY <1>1
<1> QED
  BY <1>2 DEF ParsedFrom, List

(* Parsing keeps the types.                                                *)
LEMMA ParseTyped ==
    ASSUME DiscTypeOK, NEW t \in Thread, NEW json \in List, Parse(t, json)
    PROVE  /\ pc' \in [Thread -> Place]
           /\ parsed' \in [Thread -> List] /\ static' \in List /\ raced' \subseteq Thread
<1>1. pc' = [pc EXCEPT ![t] = "parsed"]
  BY DEF Parse, Goes
<1> QED
  BY <1>1 DEF Parse, DiscTypeOK, Place

(* Every step of the listeners, the refreshes and the senders keeps the    *)
(* types.                                                                  *)
LEMMA TypeStep ==
    ASSUME TypeInv, [DiscNext]_discVars
    PROVE  DiscTypeOK'
<1> USE DEF TypeInv, DiscTypeOK, askVars, forkVars, tcpVars, listVars, Place
<1>1. ASSUME NEW s \in Server, ListenerStarts(s) PROVE DiscTypeOK'
  BY <1>1 DEF ListenerStarts
<1>2. ASSUME NEW s \in Server, NEW t \in Thread, Answer(s, t) PROVE DiscTypeOK'
  BY <1>2 DEF Answer
<1>3. ASSUME NEW t \in Thread, AskFails(t) \/ Ask(t) PROVE DiscTypeOK'
  <2>1. pc' \in [Thread -> Place]
    BY <1>3 DEF AskFails, Ask, Goes, Asking
  <2>2. CASE AskFails(t)
    BY <2>1, <2>2 DEF AskFails
  <2>3. CASE Ask(t)
    <3>1. inbox' \in [Server -> SUBSET Thread]
      BY <2>3 DEF Ask
    <3> QED
      BY <2>1, <2>3, <3>1 DEF Ask
  <2> QED
    BY <1>3, <2>2, <2>3
<1>4. ASSUME NEW t \in Thread, TakeAnswer(t) PROVE DiscTypeOK'
  <2>1. \E to \in {"listen", "wait", "overrun"} : pc' = [pc EXCEPT ![t] = to]
    BY <1>4 DEF TakeAnswer, Goes
  <2>2. pc' \in [Thread -> Place]
    BY <2>1 DEF Asking
  <2>3. kid' \in [Thread -> Server \cup {NoServer}]
    BY <1>4 DEF TakeAnswer
  <2>4. nodes' \in [Thread -> Seq(Server)]
    <3>1. PICK s \in Server :
            nodes' = nodes \/ nodes' = [nodes EXCEPT ![t] = Append(@, s)]
      BY <1>4 DEF TakeAnswer
    <3>2. Append(nodes[t], s) \in Seq(Server)
      OBVIOUS
    <3> QED
      BY <3>1, <3>2
  <2>5. air' \subseteq Server \X Thread
    BY <1>4 DEF TakeAnswer
  <2> QED
    BY <1>4, <2>2, <2>3, <2>4, <2>5 DEF TakeAnswer
<1>5. ASSUME NEW t \in Thread, ChildWrites(t) PROVE DiscTypeOK'
  BY <1>5 DEF ChildWrites
<1>6. ASSUME NEW t \in Thread, Wait(t) PROVE DiscTypeOK'
  <2>1. zombies' \in Nat
    BY <1>6 DEF Wait
  <2>2. pc' \in [Thread -> Place]
    BY <1>6 DEF Wait, Goes, Asking
  <2> QED
    BY <1>6, <2>1, <2>2 DEF Wait
<1>7. ASSUME NEW t \in Thread, ReadNode(t) PROVE DiscTypeOK'
  BY <1>7 DEF ReadNode, Goes, Asking
<1>8. ASSUME NEW t \in Thread, TimesOut(t) \/ FetchDone(t) PROVE DiscTypeOK'
  <2>1. \E to \in {"fetch", "done"} : pc' = [pc EXCEPT ![t] = to]
    BY <1>8 DEF TimesOut, FetchDone, Goes
  <2>2. pc' \in [Thread -> Place]
    BY <2>1
  <2>3. inbox' \in [Server -> SUBSET Thread] /\ air' \subseteq Server \X Thread
    BY <1>8 DEF TimesOut, FetchDone
  <2> QED
    BY <1>8, <2>2, <2>3 DEF TimesOut, FetchDone
<1>9. ASSUME NEW t \in Thread, Connect(t) PROVE DiscTypeOK'
  <2>1. Fresh \in Wire
    BY SizeAssumption DEF Fresh, Wire
  <2> QED
    BY <1>9, <2>1 DEF Connect, Goes
<1>10. ASSUME NEW t \in Thread, NextNode(t), root' \in [Thread -> [Server -> List]]
       PROVE  DiscTypeOK'
  <2>1. Closed \in Wire /\ 0 \in 0..Size + 1 /\ <<>> \in Seq(0..Size) /\ NoList \in List
    BY SizeAssumption DEF Closed, Wire, List
  <2>2. idx' \in [Thread -> Nat \ {0}]
    BY <1>10 DEF NextNode
  <2> QED
    BY <1>10, <2>1, <2>2 DEF NextNode
<1>11. ASSUME NEW t \in Thread, ConnectFails(t) \/ RecvFails(t) PROVE DiscTypeOK'
  BY <1>10, <1>11 DEF ConnectFails, RecvFails
<1>12. ASSUME NEW t \in Thread, RecvSize(t) PROVE DiscTypeOK'
  <2>1. \E n \in 0..Size + 1 : jsize' = [jsize EXCEPT ![t] = n]
    <3>1. Size \in 0..Size + 1
      BY SizeAssumption
    <3> QED
      BY <1>12, <3>1 DEF RecvSize
  <2>2. wire' \in [Thread -> Wire]
    <3>1. CASE wire' = [wire EXCEPT ![t].torn = 1]
      <4>1. wire[t] \in Wire
        OBVIOUS
      <4>2. 1 \in 0..1
        OBVIOUS
      <4>3. [wire[t] EXCEPT !.torn = 1] \in Wire
        BY <4>1, <4>2 DEF Wire
      <4> QED
        BY <3>1, <4>3
    <3> QED
      BY <1>12, <3>1 DEF RecvSize
  <2> QED
    BY <1>12, <2>1, <2>2 DEF RecvSize, Goes
<1>13. ASSUME NEW t \in Thread, RecvList(t) PROVE DiscTypeOK'
  <2>1. PICK n \in 1..Size + 1 :
           /\ Overwrites(t, n)
           /\ IF n = jsize[t] THEN Parse(t, ParsedFrom(t))
                              ELSE UNCHANGED <<pc, parsed, static, raced>>
    BY <1>13 DEF RecvList
  <2>2. wire' \in [Thread -> Wire] /\ buf' \in [Thread -> Seq(0..Size)]
    BY <2>1, OverwritesTyped
  <2>3. ParsedFrom(t) \in List
    BY <1>13, ParsedTyped DEF RecvList
  <2>4. /\ pc' \in [Thread -> Place]
        /\ parsed' \in [Thread -> List] /\ static' \in List /\ raced' \subseteq Thread
    <3>1. CASE n = jsize[t]
      <4>1. Parse(t, ParsedFrom(t))
        BY <2>1, <3>1
      <4> QED
        BY <4>1, <2>3, ParseTyped
    <3>2. CASE n # jsize[t]
      BY <2>1, <3>2
    <3> QED
      BY <3>1, <3>2
  <2> QED
    BY <1>13, <2>2, <2>4 DEF RecvList
<1>14. ASSUME NEW t \in Thread, RecvNothing(t) PROVE DiscTypeOK'
  BY <1>14, ParseTyped DEF RecvNothing, List
<1>15. ASSUME NEW t \in Thread, Return(t) PROVE DiscTypeOK'
  <2> DEFINE key == nodes[t][idx[t]]
  <2>1. PICK json \in {parsed[t], static} :
          root' = IF json = NoList THEN root ELSE [root EXCEPT ![t][key] = json]
    BY <1>15 DEF Return
  <2>2. json \in List /\ root[t] \in [Server -> List]
    BY <2>1
  <2>3. [root[t] EXCEPT ![key] = json] \in [Server -> List]
    BY <2>2
  <2>4. root' \in [Thread -> [Server -> List]]
    BY <2>1, <2>2, <2>3
  <2> QED
    BY <1>10, <1>15, <2>4 DEF Return
<1>16. ASSUME NEW t \in Thread, SenderStep(t) \/ SendCut(t) PROVE DiscTypeOK'
  <2>1. wire' \in [Thread -> Wire]
    <3>1. CASE SendSize(t)
      BY <3>1 DEF SendSize, Wire
    <3>2. CASE SendSome(t)
      <4>1. PICK n \in wire[t].sent + 1 .. Size : wire' = [wire EXCEPT ![t].sent = n]
        BY <3>2 DEF SendSome
      <4>2. n \in 0..Size
        BY <4>1, SizeAssumption DEF Wire
      <4> QED
        BY <4>1, <4>2 DEF Wire
    <3>3. CASE SendDone(t) \/ SendCut(t)
      <4>1. wire' = [wire EXCEPT ![t].open = FALSE]
        BY <3>3 DEF SendDone, SendCut
      <4> QED
        BY <4>1 DEF Wire
    <3> QED
      BY <1>16, <3>1, <3>2, <3>3 DEF SenderStep
  <2> QED
    BY <1>16, <2>1 DEF SenderStep, SendSize, SendSome, SendDone, SendCut
<1>17. CASE UNCHANGED discVars
  BY <1>17 DEF discVars
<1> QED
  BY <1>1, <1>2, <1>3, <1>4, <1>5, <1>6, <1>7, <1>8, <1>9, <1>11, <1>12, <1>13, <1>14,
     <1>15, <1>16, <1>17 DEF DiscNext, ThreadStep
(* Only a thread's own steps move it, and none leaves it fetching a node   *)
(* it does not have.                                                       *)
LEMMA FetchingStep ==
    ASSUME TypeInv, [DiscNext]_discVars
    PROVE  Fetching'
<1> USE DEF TypeInv, DiscTypeOK, Fetching, askVars, forkVars, tcpVars, listVars, Goes
<1>1. ASSUME NEW s \in Server, ListenerStarts(s) \/ \E t \in Thread : Answer(s, t)
      PROVE  Fetching'
  BY <1>1 DEF ListenerStarts, Answer
<1>2. ASSUME NEW t \in Thread, AskFails(t) \/ Ask(t) \/ TimesOut(t) \/ FetchDone(t)
      PROVE  Fetching'
  BY <1>2 DEF AskFails, Ask, TimesOut, FetchDone
<1>3. ASSUME NEW t \in Thread, TakeAnswer(t) \/ Wait(t) PROVE Fetching'
  BY <1>3 DEF TakeAnswer, Wait
<1>4. ASSUME NEW t \in Thread, ChildWrites(t) \/ SenderStep(t) \/ SendCut(t) PROVE Fetching'
  BY <1>4 DEF ChildWrites, SenderStep, SendSize, SendSome, SendDone, SendCut
<1>5. ASSUME NEW t \in Thread, ReadNode(t) PROVE Fetching'
  BY <1>5 DEF ReadNode
<1>6. ASSUME NEW t \in Thread, Connect(t) \/ RecvSize(t) PROVE Fetching'
  BY <1>6 DEF Connect, RecvSize
<1>7. ASSUME NEW t \in Thread, NextNode(t) PROVE Fetching'
  BY <1>7 DEF NextNode
<1>8. ASSUME NEW t \in Thread, RecvList(t) \/ RecvNothing(t) PROVE Fetching'
  BY <1>8 DEF RecvList, RecvNothing, Parse
<1>9. CASE UNCHANGED discVars
  BY <1>9 DEF discVars
<1> QED
  BY <1>1, <1>2, <1>3, <1>4, <1>5, <1>6, <1>7, <1>8, <1>9
     DEF DiscNext, ThreadStep, ConnectFails, RecvFails, Return

(* The types, with the node that is fetched, in every state.               *)
LEMMA TypeInvariance == DiscSpec => []TypeInv
<1>1. DiscInit => TypeInv
  <2> SUFFICES ASSUME DiscInit PROVE TypeInv
    OBVIOUS
  <2>1. Closed \in Wire /\ 0 \in 0..Size + 1
    BY SizeAssumption DEF Closed, Wire
  <2>2. DiscTypeOK
    BY <2>1 DEF DiscInit, DiscTypeOK, List, Place
  <2>3. Fetching
    BY DEF DiscInit, Fetching
  <2> QED
    BY <2>2, <2>3 DEF TypeInv
<1>2. TypeInv /\ [DiscNext]_discVars => TypeInv'
  BY TypeStep, FetchingStep DEF TypeInv
<1> QED
  BY <1>1, <1>2, PTL DEF DiscSpec

(* Every step of the listeners, the refreshes and the senders keeps the    *)
(* types.                                                                  *)
THEOREM DiscTypeCorrect == DiscSpec => []DiscTypeOK
  BY TypeInvariance, PTL DEF TypeInv

-----------------------------------------------------------------------------
(* The slots.                                                              *)

(* The servers a refresh has noted down.                                   *)
Noted(t) == {nodes[t][i] : i \in 1..Len(nodes[t])}

(* A server's answer to a refresh is in one place: its query waits, or the *)
(* answer is on its way, or with the child, or in the pipe, or noted down. *)
OnePlace(t) ==
    /\ \A s \in Server :
         /\ t \in inbox[s] \/ <<s, t>> \in air =>
              pc[t] # "begin" /\ s \notin Noted(t) /\ kid[t] # s /\ pipe[t] # s
         /\ ~(t \in inbox[s] /\ <<s, t>> \in air)
    /\ kid[t] # NoServer  => kid[t] \notin Noted(t) /\ pipe[t] = NoServer
    /\ pipe[t] # NoServer => pipe[t] \notin Noted(t)
    /\ pc[t] \notin {"wait", "read"} => kid[t] = NoServer /\ pipe[t] = NoServer
    /\ pc[t] = "begin" => nodes[t] = <<>>

(* While an answer is being noted down there is a slot for it.             *)
InSlots(t) ==
    /\ pc[t] = "overrun" <=> Len(nodes[t]) > Slots[t]
    /\ pc[t] \in {"wait", "read"} => Len(nodes[t]) < Slots[t]

SlotInv == \A t \in Thread : OnePlace(t) /\ IsInjective(nodes[t]) /\ InSlots(t)

(* Steps that leave the answers and the nodes where they are, and nobody   *)
(* in the middle of noting one down, keep the invariant.                   *)
LEMMA SlotsKept ==
    ASSUME SlotInv, DiscTypeOK, UNCHANGED <<inbox, air, kid, pipe, nodes>>,
           NEW t \in Thread, NEW to \in {"fetch", "size", "recv", "parsed", "done"},
           pc[t] \notin {"wait", "read", "overrun"}, pc' = [pc EXCEPT ![t] = to]
    PROVE  SlotInv'
  BY DEF SlotInv, OnePlace, InSlots, Noted, DiscTypeOK

(* A server that is noted down for the first time.                         *)
LEMMA NoteDown ==
    ASSUME DiscTypeOK, NEW t \in Thread, NEW s \in Server, IsInjective(nodes[t]),
           s \notin Noted(t), nodes' = [nodes EXCEPT ![t] = Append(@, s)]
    PROVE  /\ IsInjective(nodes'[t]) /\ Len(nodes'[t]) = Len(nodes[t]) + 1
           /\ Len(nodes[t]) \in Nat
           /\ \A u \in Thread \ {t} : nodes'[u] = nodes[u] /\ Noted(u)' = Noted(u)
           /\ Noted(t)' = Noted(t) \cup {s}
<1> DEFINE new == Append(nodes[t], s)
<1>1. nodes[t] \in Seq(Server) /\ nodes \in [Thread -> Seq(Server)]
  BY DEF DiscTypeOK
<1>2. new \in Seq(Server) /\ Len(new) = Len(nodes[t]) + 1 /\ Len(nodes[t]) \in Nat
  BY <1>1
<1>3. IsInjective(new)
  BY <1>1 DEF IsInjective, Noted
<1>4. {new[i] : i \in 1..Len(new)} = Noted(t) \cup {s}
  BY <1>1, <1>2 DEF Noted
<1>5. nodes'[t] = new /\ \A u \in Thread \ {t} : nodes'[u] = nodes[u]
  BY <1>1
<1> HIDE DEF new
<1>6. Noted(t)' = Noted(t) \cup {s}
  BY <1>4, <1>5 DEF Noted
<1>7. \A u \in Thread \ {t} : Noted(u)' = Noted(u)
  BY <1>5 DEF Noted
<1> QED
  BY <1>2, <1>3, <1>5, <1>6, <1>7

(* Every step keeps a server's answer in one place.                        *)
LEMMA SlotStep ==
    ASSUME SlotInv, DiscTypeOK, [DiscNext]_discVars
    PROVE  SlotInv'
<1> USE DEF DiscTypeOK, askVars, forkVars, tcpVars, listVars, Goes
<1>1. ASSUME NEW s \in Server, ListenerStarts(s) PROVE SlotInv'
  BY <1>1 DEF ListenerStarts, SlotInv, OnePlace, InSlots, Noted
<1>2. ASSUME NEW s \in Server, NEW t \in Thread, Answer(s, t) PROVE SlotInv'
  <2>1. /\ t \in inbox[s] /\ inbox' = [inbox EXCEPT ![s] = @ \ {t}]
        /\ air' = air \/ air' = air \cup {<<s, t>>}
        /\ UNCHANGED <<pc, kid, pipe, nodes>>
    BY <1>2 DEF Answer
  <2>2. ASSUME NEW u \in Thread, NEW r \in Server
        PROVE  /\ u \in inbox'[r] \/ <<r, u>> \in air' =>
                    u \in inbox[r] \/ <<r, u>> \in air
               /\ ~(u \in inbox'[r] /\ <<r, u>> \in air')
    <3>1. u \in inbox'[r] => u \in inbox[r] /\ <<r, u>> # <<s, t>>
      BY <2>1
    <3>2. <<r, u>> \in air' => <<r, u>> \in air \/ <<r, u>> = <<s, t>>
      <4>1. air' \subseteq air \cup {<<s, t>>}
        BY <2>1
      <4> QED
        BY <4>1
    <3> QED
      BY <2>1, <3>1, <3>2 DEF SlotInv, OnePlace
  <2> QED
    BY <2>1, <2>2 DEF SlotInv, OnePlace, InSlots, Noted
<1>3. ASSUME NEW t \in Thread, AskFails(t) PROVE SlotInv'
  BY <1>3, SlotsKept DEF AskFails
<1>4. ASSUME NEW t \in Thread, Ask(t) PROVE SlotInv'
  <2>1. ASSUME NEW u \in Thread PROVE OnePlace(u)'
    <3>1. /\ \A r \in Server : u \in inbox'[r] => u \in inbox[r] \/ u = t
          /\ UNCHANGED <<air, kid, pipe, nodes>>
          /\ pc[t] = "begin" /\ pc' = [pc EXCEPT ![t] = "listen"]
      BY <1>4 DEF Ask
    <3>2. Noted(u)' = Noted(u)
      BY <3>1 DEF Noted
    <3>3. CASE u = t
      <4>1. Noted(t) = {} /\ kid[t] = NoServer /\ pipe[t] = NoServer
            /\ \A r \in Server : <<r, t>> \notin air
        <5>1. nodes[t] = <<>> /\ kid[t] = NoServer /\ pipe[t] = NoServer
              /\ \A r \in Server : <<r, t>> \notin air
          BY <3>1 DEF SlotInv, OnePlace
        <5>2. {<<>>[i] : i \in 1..Len(<<>>)} = {}
          OBVIOUS
        <5> QED
          BY <5>1, <5>2 DEF Noted
      <4> QED
        <5>1. /\ pc'[t] = "listen" /\ kid'[t] = NoServer /\ pipe'[t] = NoServer
              /\ Noted(t)' = {} /\ \A r \in Server : <<r, t>> \notin air'
          BY <3>1, <3>2, <3>3, <4>1
        <5> QED
          BY <3>3, <5>1, NamesAssumption DEF OnePlace
    <3>4. CASE u # t
      BY <3>1, <3>2, <3>4 DEF SlotInv, OnePlace
    <3> QED
      BY <3>3, <3>4
  <2>2. ASSUME NEW u \in Thread PROVE InSlots(u)'
    BY <1>4 DEF Ask, SlotInv, InSlots
  <2> QED
    BY <1>4, <2>1, <2>2 DEF Ask, SlotInv
<1>5. ASSUME NEW t \in Thread, TakeAnswer(t) PROVE SlotInv'
  <2>1. PICK s \in Server :
          /\ <<s, t>> \in air /\ air' = air \ {<<s, t>>} /\ pc[t] = "listen"
          /\ \/ /\ nodes' = nodes
                /\ \/ pc' = [pc EXCEPT ![t] = "listen"] /\ kid' = kid
                   \/ ~Full(t) /\ pc' = [pc EXCEPT ![t] = "wait"] /\ kid' = kid
                   \/ ~Full(t) /\ pc' = [pc EXCEPT ![t] = "wait"] /\ kid' = [kid EXCEPT ![t] = s]
             \/ /\ nodes' = [nodes EXCEPT ![t] = Append(@, s)] /\ kid' = kid
                /\ Full(t) /\ pc' = [pc EXCEPT ![t] = "overrun"]
    BY <1>5 DEF TakeAnswer
  <2>2. UNCHANGED <<inbox, pipe>>
    BY <1>5 DEF TakeAnswer
  <2>3. s \notin Noted(t) /\ t \notin inbox[s]
    BY <2>1 DEF SlotInv, OnePlace
  <2>4. /\ \A u \in Thread, r \in Server : <<r, u>> \in air' => <<r, u>> \in air
        /\ <<s, t>> \notin air'
    BY <2>1
  <2>5. Len(nodes[t]) \in Nat /\ Slots[t] \in Nat
    BY SizeAssumption
  <2>6. ~Full(t) => Len(nodes[t]) < Slots[t]
    BY <2>1, <2>5 DEF SlotInv, InSlots, Full
  <2>7. CASE nodes' = nodes
    <3>1. ASSUME NEW u \in Thread PROVE OnePlace(u)' /\ InSlots(u)'
      <4>1. Noted(u)' = Noted(u)
        BY <2>7 DEF Noted
      <4>2. CASE u = t
        <5>1. OnePlace(t)'
          BY <2>1, <2>2, <2>3, <2>4, <2>7, <4>1, <4>2 DEF SlotInv, OnePlace
        <5>2. InSlots(t)'
          <6>1. \/ pc'[t] = "listen"
                \/ pc'[t] = "wait" /\ ~Full(t)
                \/ pc'[t] = "overrun" /\ Len(nodes'[t]) > Slots[t]
            <7>1. CASE nodes' = [nodes EXCEPT ![t] = Append(@, s)]
              <8>1. nodes'[t] = Append(nodes[t], s)
                BY <7>1
              <8>2. Len(nodes'[t]) = Len(nodes[t]) + 1
                BY <8>1
              <8> QED
                BY <2>5, <2>7, <8>2
            <7> QED
              BY <2>1, <7>1
          <6> QED
            BY <2>1, <2>6, <2>7, <6>1 DEF SlotInv, InSlots
        <5> QED
          BY <4>2, <5>1, <5>2
      <4>3. CASE u # t
        <5>1. pc'[u] = pc[u] /\ kid'[u] = kid[u]
          BY <2>1, <4>3
        <5>2. \A r \in Server : u \in inbox'[r] => u \in inbox[r]
          BY <2>2
        <5>3. OnePlace(u) /\ pipe'[u] = pipe[u] /\ nodes'[u] = nodes[u]
          BY <2>2, <2>7 DEF SlotInv
        <5>4. OnePlace(u)'
          <6>1. ASSUME NEW r \in Server, u \in inbox'[r] \/ <<r, u>> \in air'
                PROVE  u \in inbox[r] \/ <<r, u>> \in air
            BY <2>4, <5>2, <6>1
          <6>2. \A r \in Server : ~(u \in inbox'[r] /\ <<r, u>> \in air')
            BY <2>4, <5>2, <5>3 DEF OnePlace
          <6> QED
            BY <4>1, <5>1, <5>3, <6>1, <6>2 DEF OnePlace
        <5> QED
          BY <2>7, <5>1, <5>4 DEF SlotInv, InSlots
      <4> QED
        BY <4>2, <4>3
    <3> QED
      BY <2>7, <3>1 DEF SlotInv
  <2>8. CASE /\ nodes' = [nodes EXCEPT ![t] = Append(@, s)] /\ kid' = kid
             /\ Full(t) /\ pc' = [pc EXCEPT ![t] = "overrun"]
    <3>1. /\ IsInjective(nodes'[t]) /\ Len(nodes'[t]) = Len(nodes[t]) + 1
          /\ \A u \in Thread \ {t} : nodes'[u] = nodes[u] /\ Noted(u)' = Noted(u)
          /\ Noted(t)' = Noted(t) \cup {s}
      BY <2>3, <2>8, NoteDown DEF SlotInv
    <3>2. pc'[t] = "overrun" /\ kid'[t] = NoServer /\ pipe'[t] = NoServer
      BY <2>1, <2>2, <2>8 DEF SlotInv, OnePlace
    <3>3. Len(nodes'[t]) > Slots[t]
      BY <2>5, <2>8, <3>1 DEF Full
    <3>4. ASSUME NEW u \in Thread PROVE OnePlace(u)' /\ InSlots(u)' /\ IsInjective(nodes'[u])
      <4>1. CASE u = t
        <5>1. OnePlace(t)'
          BY <2>1, <2>2, <2>3, <2>4, <3>1, <3>2, NamesAssumption DEF SlotInv, OnePlace
        <5> QED
          BY <3>1, <3>2, <3>3, <4>1, <5>1 DEF InSlots
      <4>2. CASE u # t
        <5>1. pc'[u] = pc[u] /\ kid'[u] = kid[u] /\ nodes'[u] = nodes[u] /\ Noted(u)' = Noted(u)
          BY <2>8, <3>1, <4>2
        <5>2. \A r \in Server : u \in inbox'[r] => u \in inbox[r]
          BY <2>2
        <5>3. OnePlace(u) /\ pipe'[u] = pipe[u]
          BY <2>2 DEF SlotInv
        <5>4. OnePlace(u)'
          <6>1. ASSUME NEW r \in Server, u \in inbox'[r] \/ <<r, u>> \in air'
                PROVE  u \in inbox[r] \/ <<r, u>> \in air
            BY <2>4, <5>2, <6>1
          <6>2. \A r \in Server : ~(u \in inbox'[r] /\ <<r, u>> \in air')
            BY <2>4, <5>2, <5>3 DEF OnePlace
          <6> QED
            BY <5>1, <5>3, <6>1, <6>2 DEF OnePlace
        <5> QED
          BY <5>1, <5>4 DEF SlotInv, InSlots
      <4> QED
        BY <4>1, <4>2
    <3> QED
      BY <3>4 DEF SlotInv
  <2> QED
    BY <2>1, <2>7, <2>8
<1>6. ASSUME NEW t \in Thread, ChildWrites(t) PROVE SlotInv'
  <2>1. \A u \in Thread : OnePlace(u)'
    BY <1>6 DEF ChildWrites, SlotInv, OnePlace, Noted
  <2>2. \A u \in Thread : InSlots(u)' /\ IsInjective(nodes'[u])
    BY <1>6 DEF ChildWrites, SlotInv, InSlots
  <2> QED
    BY <2>1, <2>2 DEF SlotInv
<1>7. ASSUME NEW t \in Thread, Wait(t) PROVE SlotInv'
  BY <1>7 DEF Wait, SlotInv, OnePlace, InSlots, Noted
<1>8. ASSUME NEW t \in Thread, ReadNode(t) PROVE SlotInv'
  <2>1. /\ pipe[t] \in Server /\ pipe[t] \notin Noted(t) /\ pc[t] = "read"
        /\ kid[t] = NoServer /\ Len(nodes[t]) < Slots[t]
    BY <1>8 DEF ReadNode, SlotInv, OnePlace, InSlots
  <2>2. /\ nodes' = [nodes EXCEPT ![t] = Append(@, pipe[t])]
        /\ pc' = [pc EXCEPT ![t] = "listen"] /\ pipe' = [pipe EXCEPT ![t] = NoServer]
        /\ UNCHANGED <<inbox, air, kid>>
    BY <1>8 DEF ReadNode
  <2>3. /\ IsInjective(nodes'[t]) /\ Len(nodes'[t]) = Len(nodes[t]) + 1 /\ Len(nodes[t]) \in Nat
        /\ \A u \in Thread \ {t} : nodes'[u] = nodes[u] /\ Noted(u)' = Noted(u)
        /\ Noted(t)' = Noted(t) \cup {pipe[t]}
    BY <2>1, <2>2, NoteDown DEF SlotInv
  <2>4. ASSUME NEW u \in Thread PROVE OnePlace(u)' /\ InSlots(u)' /\ IsInjective(nodes'[u])
    <3>1. CASE u = t
      <4>1. OnePlace(t)'
        BY <2>1, <2>2, <2>3, NamesAssumption DEF SlotInv, OnePlace
      <4>2. InSlots(t)'
        <5>1. pc'[t] = "listen" /\ Slots[t] \in Nat
          BY <2>2, SizeAssumption
        <5>2. ~(Len(nodes'[t]) > Slots[t])
          BY <2>1, <2>3, <5>1
        <5> QED
          BY <5>1, <5>2 DEF InSlots
      <4> QED
        BY <2>3, <3>1, <4>1, <4>2
    <3>2. CASE u # t
      <4>1. /\ pc'[u] = pc[u] /\ pipe'[u] = pipe[u] /\ nodes'[u] = nodes[u]
            /\ Noted(u)' = Noted(u)
        BY <2>2, <2>3, <3>2
      <4>2. OnePlace(u)'
        BY <2>2, <4>1 DEF SlotInv, OnePlace
      <4> QED
        BY <4>1, <4>2 DEF SlotInv, InSlots
    <3> QED
      BY <3>1, <3>2
  <2> QED
    BY <2>4 DEF SlotInv
<1>9. ASSUME NEW t \in Thread, TimesOut(t) PROVE SlotInv'
  BY <1>9 DEF TimesOut, SlotInv, OnePlace, InSlots, Noted
<1>10. ASSUME NEW t \in Thread, FetchDone(t) \/ Connect(t) \/ RecvSize(t) PROVE SlotInv'
  BY <1>10, SlotsKept DEF FetchDone, Connect, RecvSize
<1>11. ASSUME NEW t \in Thread, ConnectFails(t) \/ RecvFails(t) \/ Return(t) PROVE SlotInv'
  BY <1>11, SlotsKept DEF ConnectFails, RecvFails, Return, NextNode
<1>12. ASSUME NEW t \in Thread, RecvNothing(t) PROVE SlotInv'
  BY <1>12, SlotsKept DEF RecvNothing, Parse
<1>13. ASSUME NEW t \in Thread, RecvList(t) PROVE SlotInv'
  <2>1. \/ pc' = pc
        \/ pc[t] = "recv" /\ pc' = [pc EXCEPT ![t] = "parsed"]
    BY <1>13 DEF RecvList, Parse
  <2>2. UNCHANGED <<inbox, air, kid, pipe, nodes>>
    BY <1>13 DEF RecvList
  <2> QED
    BY <2>1, <2>2, SlotsKept DEF SlotInv, OnePlace, InSlots, Noted
<1>14. ASSUME NEW t \in Thread, SenderStep(t) \/ SendCut(t) PROVE SlotInv'
  <2>1. UNCHANGED <<inbox, air, pc, kid, pipe, nodes>>
    BY <1>14 DEF SenderStep, SendSize, SendSome, SendDone, SendCut
  <2> QED
    BY <2>1 DEF SlotInv, OnePlace, InSlots, Noted
<1>15. CASE UNCHANGED discVars
  BY <1>15 DEF discVars, SlotInv, OnePlace, InSlots, Noted
<1> QED
  BY <1>1, <1>2, <1>3, <1>4, <1>5, <1>6, <1>7, <1>8, <1>9, <1>10, <1>11, <1>12, <1>13,
     <1>14, <1>15 DEF DiscNext, ThreadStep

(* A refresh notes a server down once at most, and writes past its slots   *)
(* when more servers than it has slots for have answered, and only then,   *)
(* for any number of servers, refreshes and slots.                         *)
THEOREM NotedAtMostOnce == DiscSpec => []NotedOnce
<1>1. DiscInit => SlotInv
  BY NamesAssumption, SizeAssumption DEF DiscInit, SlotInv, OnePlace, InSlots, Noted, IsInjective
<1>2. SlotInv /\ DiscTypeOK /\ [DiscNext]_discVars => SlotInv'
  BY SlotStep
<1>3. SlotInv => NotedOnce
  BY DEF SlotInv, InSlots, NotedOnce
<1> QED
  BY <1>1, <1>2, <1>3, DiscTypeCorrect, PTL DEF DiscSpec

-----------------------------------------------------------------------------
(* The lists.                                                              *)

(* A connection's counts, the buffer while it is being filled, and what    *)
(* was parsed.                                                             *)
Filling(t) ==
    /\ wire[t].taken <= wire[t].torn + wire[t].sent
    /\ ~wire[t].size => wire[t].sent = 0 /\ wire[t].torn = 0
    /\ pc[t] \notin {"recv", "parsed"} => buf[t] = <<>> /\ wire[t].torn = 0
    /\ pc[t] = "recv" => /\ Len(buf[t]) <= jsize[t]
                         /\ \/ wire[t].size /\ (wire[t].torn = 0 => jsize[t] = Size)
                            \/ ~wire[t].size /\ ~wire[t].open

ContentInv == \A t \in Thread : Filling(t) /\ (parsed[t] = Mixed => wire[t].torn = 1)

(* What is left of a buffer behind the n pieces that a recv wrote.         *)
LEMMA Remainder ==
    ASSUME NEW S, NEW s \in Seq(S), NEW n \in Nat
    PROVE  /\ SubSeq(s, n + 1, Len(s)) \in Seq(S)
           /\ Len(SubSeq(s, n + 1, Len(s))) = IF n < Len(s) THEN Len(s) - n ELSE 0
<1>1. Len(s) \in Nat /\ n + 1 \in Int /\ Len(s) \in Int
  OBVIOUS
<1>2. \A i \in n + 1 .. Len(s) : s[i] \in S
  <2> TAKE i \in n + 1 .. Len(s)
  <2>1. i \in 1 .. Len(s)
    BY <1>1
  <2> QED
    BY <2>1, ElementOfSeq
<1>3. /\ SubSeq(s, n + 1, Len(s)) \in Seq(S)
      /\ Len(SubSeq(s, n + 1, Len(s))) = IF n + 1 <= Len(s) THEN Len(s) - (n + 1) + 1 ELSE 0
  BY ONLY <1>1, <1>2, SubSeqProperties, ZenonT(30)
<1> QED
  BY <1>1, <1>3

(* A recv that gave all of json_size gave the whole list, to an otherwise  *)
(* overwritten buffer, if the size had been received whole.                *)
LEMMA WholeList ==
    ASSUME TypeInv, ContentInv, NEW t \in Thread, NEW n \in 1..Size + 1,
           pc[t] = "recv", Overwrites(t, n), n = jsize[t], wire[t].torn = 0
    PROVE  ParsedFrom(t) = nodes[t][idx[t]]
<1> DEFINE rest == SubSeq(buf[t], n + 1, Len(buf[t]))
           new  == [i \in 1..n |-> wire[t].taken + i - wire[t].torn]
<1>1. /\ wire[t].taken \in 0..Size + 1 /\ wire[t].sent \in 0..Size /\ Size \in Nat
      /\ buf[t] \in Seq(0..Size) /\ Len(buf[t]) <= n
  BY SizeAssumption DEF TypeInv, DiscTypeOK, Wire, ContentInv, Filling
<1>2. n <= wire[t].sent - wire[t].taken
  BY <1>1 DEF Overwrites
<1>3. wire[t].size
  <2>1. wire[t].sent # 0
    BY <1>1, <1>2
  <2> QED
    BY <2>1 DEF ContentInv, Filling
<1>4. n = Size /\ wire[t].taken = 0
  BY <1>1, <1>2, <1>3 DEF ContentInv, Filling
<1>5. rest = <<>>
  BY <1>1
<1>6. new = Whole /\ new \in Seq(1..Size)
  <2>1. ASSUME NEW i \in 1..n PROVE wire[t].taken + i - wire[t].torn = i
    BY <1>4, <1>1
  <2>2. new = Whole
    BY <2>1, <1>4 DEF Whole
  <2>3. Whole \in [1..Size -> 1..Size]
    BY DEF Whole
  <2>4. Whole \in Seq(1..Size)
    BY <2>3, SizeAssumption
  <2> QED
    BY <2>2, <2>4
<1>7. buf'[t] = new \o rest
  BY DEF Overwrites, TypeInv, DiscTypeOK
<1>8. new \o <<>> = new
  BY <1>6
<1> QED
  BY <1>5, <1>6, <1>7, <1>8 DEF ParsedFrom

(* Every step keeps the buffers in step with the connections.              *)
LEMMA ContentStep ==
    ASSUME TypeInv, ContentInv, [DiscNext]_discVars
    PROVE  ContentInv'
<1> USE DEF TypeInv, DiscTypeOK, ContentInv, askVars, forkVars, tcpVars, listVars, Goes
<1>1. ASSUME NEW t \in Thread,
             UNCHANGED <<wire, buf, jsize, parsed, static>>,
             \/ pc' = pc
             \/ \E to \in Asking \cup {"overrun", "fetch", "done"} : pc' = [pc EXCEPT ![t] = to],
             pc' = pc \/ pc[t] \notin {"recv", "parsed"}
      PROVE  ContentInv'
  BY <1>1 DEF Filling, Asking
<1>2. ASSUME NEW s \in Server, ListenerStarts(s) \/ \E t \in Thread : Answer(s, t)
      PROVE  ContentInv'
  BY <1>2 DEF ListenerStarts, Answer, Filling
<1>3. ASSUME NEW t \in Thread, AskFails(t) \/ Ask(t) \/ TimesOut(t) \/ FetchDone(t)
      PROVE  ContentInv'
  BY <1>1, <1>3 DEF AskFails, Ask, TimesOut, FetchDone, Asking
<1>4. ASSUME NEW t \in Thread, TakeAnswer(t) \/ Wait(t) \/ ReadNode(t) \/ ChildWrites(t)
      PROVE  ContentInv'
  BY <1>1, <1>4 DEF TakeAnswer, Wait, ReadNode, ChildWrites, Asking
<1>5. ASSUME NEW t \in Thread, Connect(t) PROVE ContentInv'
  BY <1>5 DEF Connect, Fresh, Filling, Wire
<1>6. ASSUME NEW t \in Thread, NextNode(t) PROVE ContentInv'
  BY <1>6, NamesAssumption DEF NextNode, Closed, Filling, Wire
<1>7. ASSUME NEW t \in Thread, RecvSize(t) PROVE ContentInv'
  <2>1. buf[t] = <<>> /\ Len(<<>>) = 0 /\ wire[t].torn = 0 /\ pc[t] = "size"
        /\ wire[t] \in Wire
    BY <1>7 DEF RecvSize, Filling
  <2>2. UNCHANGED <<buf, parsed, static>> /\ pc' = [pc EXCEPT ![t] = "recv"]
    BY <1>7 DEF RecvSize
  <2>3. PICK n \in Nat :
          /\ jsize' = [jsize EXCEPT ![t] = n]
          /\ \/ wire' = wire /\ wire[t].size /\ n = Size
             \/ wire' = wire /\ ~wire[t].size /\ ~wire[t].open
             \/ wire' = [wire EXCEPT ![t].torn = 1] /\ wire[t].size
    BY <1>7, SizeAssumption DEF RecvSize
  <2>4. jsize'[t] = n /\ \A u \in Thread \ {t} : jsize'[u] = jsize[u]
    BY <2>3
  <2>5. \/ wire' = wire
        \/ wire' = [wire EXCEPT ![t].torn = 1] /\ wire[t].size
    BY <2>3
  <2>6. Filling(t)'
    <3>1. CASE /\ wire' = wire
               /\ (wire[t].size /\ n = Size) \/ (~wire[t].size /\ ~wire[t].open)
      BY <2>1, <2>2, <2>4, <3>1 DEF Filling
    <3>2. CASE wire' = [wire EXCEPT ![t].torn = 1] /\ wire[t].size
      <4>1. /\ wire'[t].torn = 1 /\ wire'[t].taken = wire[t].taken
            /\ wire'[t].sent = wire[t].sent /\ wire'[t].size
        BY <2>1, <3>2 DEF Wire
      <4>2. wire'[t].taken <= wire'[t].torn + wire'[t].sent
        BY <2>1, <4>1 DEF Filling, Wire
      <4>3. Len(buf'[t]) <= jsize'[t] /\ pc'[t] = "recv"
        BY <2>1, <2>2, <2>4
      <4> QED
        BY <4>1, <4>2, <4>3 DEF Filling
    <3> QED
      BY <2>3, <3>1, <3>2
  <2>7. parsed[t] = Mixed => FALSE
    BY <2>1
  <2>8. ASSUME NEW u \in Thread \ {t} PROVE Filling(u)' /\ wire'[u] = wire[u]
    <3>1. wire'[u] = wire[u] /\ pc'[u] = pc[u]
      BY <2>2, <2>5
    <3> QED
      BY <2>2, <2>4, <3>1 DEF Filling
  <2> QED
    BY <2>2, <2>6, <2>7, <2>8
<1>8. ASSUME NEW t \in Thread, RecvList(t) PROVE ContentInv'
  <2>1. PICK n \in 1..Size + 1 :
           /\ Overwrites(t, n)
           /\ IF n = jsize[t] THEN Parse(t, ParsedFrom(t))
                              ELSE UNCHANGED <<pc, parsed, static, raced>>
    BY <1>8 DEF RecvList
  <2>2. pc[t] = "recv" /\ jsize' = jsize
    BY <1>8 DEF RecvList
  <2>3. /\ wire' = [wire EXCEPT ![t].taken = wire[t].taken + n]
        /\ n <= wire[t].torn + wire[t].sent - wire[t].taken /\ n <= jsize[t]
        /\ \A u \in Thread \ {t} : buf'[u] = buf[u]
    BY <2>1 DEF Overwrites
  <2>4. /\ wire'[t].taken = wire[t].taken + n /\ wire'[t].sent = wire[t].sent
        /\ wire'[t].size = wire[t].size /\ wire'[t].open = wire[t].open
        /\ wire'[t].torn = wire[t].torn
        /\ \A u \in Thread \ {t} : wire'[u] = wire[u]
    BY <2>3 DEF Wire
  <2>5. wire'[t].taken <= wire'[t].torn + wire'[t].sent
    <3>1. wire[t].taken \in Int /\ wire[t].torn \in Int /\ wire[t].sent \in Int /\ n \in Int
      BY DEF Wire
    <3> QED
      BY <2>3, <2>4, <3>1
  <2>6. CASE n = jsize[t]
    <3>1. Parse(t, ParsedFrom(t))
      BY <2>1, <2>6
    <3>2. ParsedFrom(t) = Mixed => wire[t].torn = 1
      <4>1. idx[t] \in 1..Len(nodes[t])
        BY <2>2 DEF Fetching
      <4>2. nodes[t][idx[t]] \in Server
        BY <4>1
      <4>3. wire[t].torn \in {0, 1}
        BY DEF Wire
      <4>4. CASE wire[t].torn = 0
        BY <2>1, <2>2, <2>6, <4>2, <4>4, WholeList, NamesAssumption
      <4> QED
        BY <4>3, <4>4
    <3>3. (\A u \in Thread : parsed'[u] = Mixed => wire'[u].torn = 1)
          /\ pc' = [pc EXCEPT ![t] = "parsed"]
      BY <2>4, <3>1, <3>2 DEF Parse
    <3>4. ASSUME NEW u \in Thread PROVE Filling(u)'
      <4>1. CASE u = t
        BY <2>4, <2>5, <3>3, <4>1 DEF Filling
      <4>2. CASE u # t
        BY <2>2, <2>3, <2>4, <3>3, <4>2 DEF Filling
      <4> QED
        BY <4>1, <4>2
    <3> QED
      BY <3>3, <3>4
  <2>7. CASE n # jsize[t]
    <3>1. UNCHANGED <<pc, parsed>> /\ \A u \in Thread : wire'[u].torn = wire[u].torn
      BY <2>1, <2>4, <2>7
    <3>2. Len(buf'[t]) <= jsize[t]
      <4> DEFINE new  == [i \in 1..n |-> wire[t].taken + i - wire[t].torn]
                 rest == SubSeq(buf[t], n + 1, Len(buf[t]))
      <4>1. buf'[t] = new \o rest
        BY <2>1 DEF Overwrites
      <4>2. Len(buf[t]) <= jsize[t] /\ Len(buf[t]) \in Nat /\ jsize[t] \in Nat
        BY <2>2 DEF Filling
      <4>3. new \in Seq(Int) /\ Len(new) = n
        <5>1. new \in [1..n -> Int]
          <6>1. wire[t].taken \in Int /\ wire[t].torn \in Int
            BY DEF Wire
          <6>2. \A i \in 1..n : wire[t].taken + i - wire[t].torn \in Int
            BY <6>1
          <6> QED
            BY <6>2
        <5> QED
          BY <5>1
      <4>4. rest \in Seq(0..Size) /\ Len(rest) = IF n < Len(buf[t]) THEN Len(buf[t]) - n ELSE 0
        <5>1. buf[t] \in Seq(0..Size) /\ n \in Nat
          OBVIOUS
        <5> QED
          BY <5>1, Remainder
      <4>5. Len(new \o rest) = Len(new) + Len(rest)
        BY <4>3, <4>4
      <4> QED
        BY <2>3, <4>1, <4>2, <4>3, <4>4, <4>5
    <3>3. ASSUME NEW u \in Thread PROVE Filling(u)'
      <4>1. CASE u = t
        BY <2>2, <2>4, <2>5, <3>1, <3>2, <4>1 DEF Filling
      <4>2. CASE u # t
        BY <2>2, <2>3, <2>4, <3>1, <4>2 DEF Filling
      <4> QED
        BY <4>1, <4>2
    <3> QED
      BY <3>1, <3>3
  <2> QED
    BY <2>6, <2>7
<1>9. ASSUME NEW t \in Thread, RecvNothing(t) PROVE ContentInv'
  BY <1>9, NamesAssumption DEF RecvNothing, Parse, Filling
<1>10. ASSUME NEW t \in Thread, SenderStep(t) \/ SendCut(t) PROVE ContentInv'
  <2>1. UNCHANGED <<pc, buf, jsize, parsed, static>>
    BY <1>10 DEF SenderStep, SendSize, SendSome, SendDone, SendCut
  <2>2. /\ wire[t].open
        /\ \A u \in Thread \ {t} : wire'[u] = wire[u]
        /\ wire'[t].taken = wire[t].taken /\ wire'[t].torn = wire[t].torn
        /\ wire'[t].sent \in Nat
        /\ wire'[t].sent >= wire[t].sent
        /\ wire[t].size => wire'[t].size
        /\ ~wire'[t].size => wire'[t].sent = wire[t].sent
    <3>1. CASE SendSize(t)
      BY <3>1 DEF SendSize, Served, Wire
    <3>2. CASE SendSome(t)
      BY <3>2, SizeAssumption DEF SendSome, Served, Wire
    <3>3. CASE SendDone(t) \/ SendCut(t)
      <4>1. wire' = [wire EXCEPT ![t].open = FALSE] /\ wire[t].open
        BY <3>3 DEF SendDone, SendCut, Served
      <4>2. wire[t] \in Wire
        OBVIOUS
      <4>3. wire'[t] = [wire[t] EXCEPT !.open = FALSE]
        BY <4>1
      <4> QED
        BY <4>1, <4>2, <4>3 DEF Wire
    <3> QED
      BY <1>10, <3>1, <3>2, <3>3 DEF SenderStep
  <2>3. ASSUME NEW u \in Thread PROVE Filling(u)'
    <3>1. CASE u = t
      BY <2>1, <2>2, <3>1 DEF Filling, Wire
    <3>2. CASE u # t
      BY <2>1, <2>2, <3>2 DEF Filling
    <3> QED
      BY <3>1, <3>2
  <2>4. \A u \in Thread : wire'[u].torn = wire[u].torn
    BY <2>2
  <2> QED
    BY <2>1, <2>3, <2>4
<1>11. CASE UNCHANGED discVars
  BY <1>11 DEF discVars, Filling
<1> QED
  BY <1>2, <1>3, <1>4, <1>5, <1>6, <1>7, <1>8, <1>9, <1>10, <1>11
     DEF DiscNext, ThreadStep, ConnectFails, RecvFails, Return

(* The buffers agree with the connections in every state.                  *)
LEMMA ContentInvariance == DiscSpec => [](TypeInv /\ ContentInv)
<1>1. DiscInit => ContentInv
  BY NamesAssumption DEF DiscInit, ContentInv, Filling, Closed
<1>2. TypeInv /\ ContentInv /\ [DiscNext]_discVars => ContentInv'
  BY ContentStep
<1> QED
  BY <1>1, <1>2, TypeInvariance, PTL DEF DiscSpec

(* The parser is given whole lists only, however they are cut into pieces  *)
(* and wherever they are cut off, if their sizes come whole.               *)
THEOREM ListsStayWhole == DiscSpec => []ListsAreWhole
<1>1. ContentInv => ListsAreWhole
  BY DEF ContentInv, ListsAreWhole
<1> QED
  BY <1>1, ContentInvariance, PTL

(* Of a refresh that no other has overtaken: what it parsed is what the    *)
(* static variable holds, and is the list of the node it asked.            *)
Attributed(t) ==
    /\ pc[t] = "parsed" => /\ static = parsed[t]
                           /\ parsed[t] \in {NoList, Mixed, nodes[t][idx[t]]}
    /\ \A s \in Server : root[t][s] \in {NoList, Mixed, s}

AttrInv == \A t \in Thread \ raced : Attributed(t)

Unparsed == Asking \cup {"overrun", "fetch", "size", "recv", "done"}

(* A step that parses nothing and returns nothing attributes nothing.      *)
LEMMA AttrKept ==
    ASSUME AttrInv, NEW t \in Thread, UNCHANGED <<static, root, raced>>,
           TypeInv,
           \/ pc' = pc
           \/ \E to \in Unparsed : pc' = [pc EXCEPT ![t] = to],
           \A u \in Thread : pc[u] = "parsed" /\ pc'[u] = "parsed" =>
               parsed'[u] = parsed[u] /\ nodes'[u] = nodes[u] /\ idx'[u] = idx[u]
    PROVE  AttrInv'
<1> SUFFICES ASSUME NEW u \in Thread \ raced PROVE Attributed(u)'
  BY DEF AttrInv
<1>1. Attributed(u)
  BY DEF AttrInv
<1>2. pc'[u] = "parsed" => pc[u] = "parsed"
  BY DEF Unparsed, Asking, TypeInv, DiscTypeOK
<1> QED
  BY <1>1, <1>2 DEF Attributed

(* A list that was parsed is the static variable's until another one is.   *)
LEMMA AttrParse ==
    ASSUME TypeInv, AttrInv, NEW t \in Thread, NEW json \in {NoList, Mixed, nodes[t][idx[t]]},
           Parse(t, json), UNCHANGED <<nodes, idx, root>>
    PROVE  AttrInv'
<1>1. /\ parsed'[t] = json /\ static' = json
      /\ \A u \in Thread \ {t} : parsed'[u] = parsed[u] /\ pc'[u] = pc[u]
      /\ raced' = raced \cup {u \in Thread \ {t} : pc[u] = "parsed"}
  BY DEF Parse, Goes, TypeInv, DiscTypeOK
<1> SUFFICES ASSUME NEW u \in Thread \ raced' PROVE Attributed(u)'
  BY DEF AttrInv
<1>2. Attributed(u)
  BY <1>1 DEF AttrInv
<1>3. CASE u = t
  BY <1>1, <1>2, <1>3 DEF Attributed
<1>4. CASE u # t
  <2>1. pc'[u] # "parsed"
    BY <1>1, <1>4
  <2> QED
    BY <1>2, <2>1 DEF Attributed
<1> QED
  BY <1>3, <1>4

(* A list that is returned is filed under the node it was asked for.       *)
LEMMA AttrReturn ==
    ASSUME TypeInv, AttrInv, NEW t \in Thread, Return(t)
    PROVE  AttrInv'
<1>1. /\ pc[t] = "parsed" /\ raced' = raced /\ static' = static /\ nodes' = nodes
      /\ pc' = [pc EXCEPT ![t] = "fetch"]
      /\ \A u \in Thread \ {t} : parsed'[u] = parsed[u] /\ idx'[u] = idx[u]
  BY DEF Return, NextNode, forkVars, TypeInv, DiscTypeOK
<1>2. PICK json \in {parsed[t], static} :
         root' = IF json = NoList THEN root
                                  ELSE [root EXCEPT ![t][nodes[t][idx[t]]] = json]
  BY DEF Return
<1>3. nodes[t][idx[t]] \in Server
  BY <1>1 DEF TypeInv, DiscTypeOK, Fetching
<1> SUFFICES ASSUME NEW u \in Thread \ raced PROVE Attributed(u)'
  BY <1>1 DEF AttrInv
<1>4. Attributed(u)
  BY DEF AttrInv
<1>5. CASE u = t
  <2>1. json \in {NoList, Mixed, nodes[t][idx[t]]}
    BY <1>1, <1>4, <1>5 DEF Attributed
  <2>2. pc'[t] # "parsed"
    BY <1>1 DEF TypeInv, DiscTypeOK
  <2>3. ASSUME NEW s \in Server PROVE root'[t][s] \in {NoList, Mixed, s}
    <3>1. root[t][s] \in {NoList, Mixed, s} /\ root \in [Thread -> [Server -> List]]
      BY <1>4, <1>5 DEF Attributed, TypeInv, DiscTypeOK
    <3>2. CASE json = NoList
      BY <1>2, <3>1, <3>2
    <3>3. CASE json \in {Mixed, nodes[t][idx[t]]} /\ json # NoList
      <4>1. root'[t] = [root[t] EXCEPT ![nodes[t][idx[t]]] = json]
        BY <1>2, <3>1, <3>3
      <4> QED
        BY <3>1, <3>3, <4>1
    <3> QED
      BY <2>1, <3>2, <3>3
  <2> QED
    BY <1>5, <2>2, <2>3 DEF Attributed
<1>6. CASE u # t
  <2>1. root'[u] = root[u]
    BY <1>2, <1>6 DEF TypeInv, DiscTypeOK
  <2>2. pc'[u] = pc[u]
    BY <1>1, <1>6 DEF TypeInv, DiscTypeOK
  <2> QED
    BY <1>1, <1>4, <1>6, <2>1, <2>2 DEF Attributed
<1> QED
  BY <1>5, <1>6

(* Every step keeps the lists where they belong.                           *)
LEMMA AttrStep ==
    ASSUME TypeInv, AttrInv, [DiscNext]_discVars
    PROVE  AttrInv'
<1> USE DEF askVars, forkVars, tcpVars, listVars, Goes
<1>1. {"listen", "wait", "read", "overrun", "fetch", "size", "recv", "done"} = Unparsed
  BY DEF Unparsed, Asking
<1>2. ASSUME NEW t \in Thread, AskFails(t) \/ Ask(t) \/ TimesOut(t) \/ FetchDone(t)
                              \/ Wait(t) \/ Connect(t)
      PROVE  AttrInv'
  BY <1>1, <1>2, AttrKept DEF AskFails, Ask, TimesOut, FetchDone, Wait, Connect
<1>3. ASSUME NEW t \in Thread, TakeAnswer(t) \/ ReadNode(t) PROVE AttrInv'
  <2>1. PICK to \in Unparsed : pc' = [pc EXCEPT ![t] = to]
    BY <1>1, <1>3 DEF TakeAnswer, ReadNode
  <2>2. UNCHANGED <<static, root, raced, parsed, idx>>
    BY <1>3 DEF TakeAnswer, ReadNode
  <2>3. \A u \in Thread \ {t} : nodes'[u] = nodes[u]
    BY <1>3 DEF TakeAnswer, ReadNode, TypeInv, DiscTypeOK
  <2>4. pc'[t] # "parsed"
    BY <2>1 DEF Unparsed, Asking, TypeInv, DiscTypeOK
  <2> QED
    BY <2>1, <2>2, <2>3, <2>4, AttrKept
<1>4. ASSUME NEW t \in Thread, ChildWrites(t) \/ SenderStep(t) \/ SendCut(t)
      PROVE  AttrInv'
  BY <1>1, <1>4, AttrKept
     DEF ChildWrites, SenderStep, SendSize, SendSome, SendDone, SendCut
<1>5. ASSUME NEW s \in Server, ListenerStarts(s) \/ \E t \in Thread : Answer(s, t)
      PROVE  AttrInv'
  BY <1>5 DEF ListenerStarts, Answer, AttrInv, Attributed
<1>6. ASSUME NEW t \in Thread, ConnectFails(t) \/ RecvFails(t) PROVE AttrInv'
  BY <1>1, <1>6, AttrKept DEF ConnectFails, RecvFails, NextNode, TypeInv, DiscTypeOK
<1>7. ASSUME NEW t \in Thread, RecvSize(t) PROVE AttrInv'
  BY <1>1, <1>7, AttrKept DEF RecvSize
<1>8. ASSUME NEW t \in Thread, RecvList(t) PROVE AttrInv'
  <2>1. PICK n \in 1..Size + 1 :
           /\ Overwrites(t, n)
           /\ IF n = jsize[t] THEN Parse(t, ParsedFrom(t))
                              ELSE UNCHANGED <<pc, parsed, static, raced>>
    BY <1>8 DEF RecvList
  <2>2. pc[t] = "recv" /\ UNCHANGED <<nodes, idx, root>>
    BY <1>8 DEF RecvList
  <2>3. CASE n = jsize[t]
    <3>1. Parse(t, ParsedFrom(t)) /\ ParsedFrom(t) \in {Mixed, nodes[t][idx[t]]}
      BY <2>1, <2>3 DEF ParsedFrom
    <3> QED
      BY <2>2, <3>1, AttrParse
  <2>4. CASE n # jsize[t]
    BY <2>1, <2>2, <2>4 DEF AttrInv, Attributed
  <2> QED
    BY <2>3, <2>4
<1>9. ASSUME NEW t \in Thread, RecvNothing(t) PROVE AttrInv'
  BY <1>9, AttrParse DEF RecvNothing
<1>10. CASE UNCHANGED discVars
  BY <1>10 DEF discVars, AttrInv, Attributed
<1> QED
  BY <1>2, <1>3, <1>4, <1>5, <1>6, <1>7, <1>8, <1>9, <1>10, AttrReturn
     DEF DiscNext, ThreadStep

(* A refresh that no other overtook at its return files each list under    *)
(* the node it came from, for any number of concurrent refreshes.          *)
THEOREM ListsStayAttributed == DiscSpec => []ListsAreAttributed
<1>1. DiscInit => AttrInv
  BY DEF DiscInit, AttrInv, Attributed
<1>2. TypeInv /\ AttrInv /\ [DiscNext]_discVars => AttrInv'
  BY AttrStep
<1>3. AttrInv => ListsAreAttributed
  BY DEF AttrInv, Attributed, ListsAreAttributed
<1> QED
  BY <1>1, <1>2, <1>3, TypeInvariance, PTL DEF DiscSpec
=============================================================================
