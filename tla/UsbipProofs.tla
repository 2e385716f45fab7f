---------------------------- MODULE UsbipProofs ----------------------------
(***************************************************************************)
(* Theorems about usbipd (UsbipDaemon) and about the clients that import   *)
(* devices from it (UsbipImport), for any sets of machines, connections,   *)
(* devices and requests.  Of the daemon: its types, the exports behind its *)
(* replies, the leases it implements and the form of its replies.  Of the  *)
(* composed system: that the daemon in it is that daemon, and that what a  *)
(* client has attached is exported to it.                                  *)
(***************************************************************************)
EXTENDS UsbipImport, FiniteSetTheorems, SequenceTheorems, TLAPS

(* Every variable keeps its type.  The type of out[c] depends on what      *)
(* status[c] holds when it is sent: a result, never "none".                *)
TypeInv == TypeOK /\ \A c \in Conn : pc[c] = "reply" => status[c] # "none"

(* What Return does to a child keeps its variables typed.                  *)
LEMMA ReturnTyped ==
    ASSUME TypeOK, NEW c \in Conn, NEW rc \in Returned, Return(c, rc)
    PROVE  /\ pc'   = [pc EXCEPT ![c] = rc]
           /\ pc'   \in [Conn -> {"idle", "queued"} \cup Serving \cup Ended]
           /\ todo' \in [Conn -> SUBSET Dev]
           /\ snap' \in [Conn -> [Dev -> ReadStatus]]
  BY DEF TypeOK, Return, EmptyList, ReadStatus, Ended

(* Every step of the daemon, its children and its environment keeps the    *)
(* types, and a child that replies has a result to send.                   *)
LEMMA TypeInvariant == Spec => []TypeInv
<1>1. Init => TypeInv
  BY RequestsAssumption DEF Init, TypeInv, TypeOK, EmptyList, StubStatus, ReadStatus
<1>2. TypeInv /\ [Next]_vars => TypeInv'
  <2> SUFFICES ASSUME TypeInv, [Next]_vars PROVE TypeInv'
    OBVIOUS
  <2> USE DEF TypeInv, TypeOK
  <2>1. ASSUME NEW c \in Conn, Connect(c) PROVE TypeInv'
    BY <2>1 DEF Connect, kernelVars
  <2>2. ASSUME NEW c \in Conn, SendPart(c) PROVE TypeInv'
    <3>1. sent[c] \in 0..2 /\ sent[c] + 1 \in 0..2
      BY <2>2 DEF SendPart
    <3>2. sent' \in [Conn -> 0..2]
      BY <2>2, <3>1 DEF SendPart
    <3> QED
      BY <2>2, <3>2 DEF SendPart, kernelVars, childVars
  <2>3. ASSUME NEW c \in Conn, ClosePeer(c) PROVE TypeInv'
    BY <2>3 DEF ClosePeer, kernelVars, childVars
  <2>4. ASSUME NEW c \in Conn, Accept(c) PROVE TypeInv'
    BY <2>4 DEF Accept, kernelVars, netVars, Serving
  <2>5. ASSUME NEW c \in Conn, Refuse(c) PROVE TypeInv'
    BY <2>5 DEF Refuse, CloseConnfd, Ended, kernelVars
  <2>6. ASSUME NEW c \in Conn, RecvHeader(c) PROVE TypeInv'
    BY <2>6 DEF RecvHeader, EmptyList, ReadStatus, Serving, kernelVars, netVars
  <2>7. ASSUME NEW c \in Conn, RecvHeaderFails(c) PROVE TypeInv'
    BY <2>7, ReturnTyped DEF RecvHeaderFails, Fail, Returned, kernelVars, netVars
  <2>8. ASSUME NEW c \in Conn, ScanDevice(c) PROVE TypeInv'
    BY <2>8 DEF ScanDevice, ReadStatus, kernelVars, netVars
  <2>9. ASSUME NEW c \in Conn, Dispatch(c) PROVE TypeInv'
    BY <2>9 DEF Dispatch, Serving, kernelVars, netVars
  <2>10. ASSUME NEW c \in Conn, DispatchUnknown(c) PROVE TypeInv'
    BY <2>10, ReturnTyped DEF DispatchUnknown, Fail, Returned, kernelVars, netVars
  <2>11. ASSUME NEW c \in Conn, RecvImport(c) PROVE TypeInv'
    <3>1. status' \in [Conn -> OpStatus \cup {"none"}]
      BY <2>11 DEF RecvImport, OpStatus
    <3>2. pc' \in [Conn -> {"idle", "queued"} \cup Serving \cup Ended]
      <4>1. \E s \in {"export", "reply"} : pc' = [pc EXCEPT ![c] = s]
        BY <2>11 DEF RecvImport
      <4> QED
        BY <4>1 DEF Serving
    <3>3. ASSUME NEW cc \in Conn, pc'[cc] = "reply" PROVE status'[cc] # "none"
      <4>1. CASE cc = c
        BY <2>11, <3>3, <4>1 DEF RecvImport
      <4>2. CASE cc # c
        <5>1. pc'[cc] = pc[cc] /\ status'[cc] = status[cc]
          BY <2>11, <4>2 DEF RecvImport
        <5> QED
          BY <3>3, <5>1
      <4> QED
        BY <4>1, <4>2
    <3> QED
      BY <2>11, <3>1, <3>2, <3>3 DEF RecvImport, kernelVars, netVars
  <2>12. ASSUME NEW c \in Conn, RecvImportFails(c) PROVE TypeInv'
    BY <2>12, ReturnTyped DEF RecvImportFails, Fail, Returned, kernelVars, netVars
  <2>13. ASSUME NEW c \in Conn, ExportDevice(c) PROVE TypeInv'
    <3> DEFINE d == req[c].busid
    <3>1. Unavailable(snap[c][d]) \in OpStatus
      BY DEF Unavailable, OpStatus
    <3>2. status' \in [Conn -> OpStatus \cup {"none"}]
      BY <2>13, <3>1 DEF ExportDevice, OpStatus
    <3>6. ASSUME NEW cc \in Conn, pc'[cc] = "reply" PROVE status'[cc] # "none"
      <4>1. status'[c] # "none"
        BY <2>13, <3>1 DEF ExportDevice, OpStatus
      <4>2. CASE cc # c
        <5>1. pc'[cc] = pc[cc] /\ status'[cc] = status[cc]
          BY <2>13, <4>2 DEF ExportDevice
        <5> QED
          BY <3>6, <5>1
      <4> QED
        BY <4>1, <4>2
    <3>3. /\ d \in Dev
          /\ \/ StoreSockfd(c, d)
             \/ UNCHANGED <<stub, holder>>
      BY <2>13 DEF ExportDevice, RequestType
    <3>5. stub' \in [Dev -> StubStatus]
      BY <3>3 DEF StoreSockfd, StubStatus
    <3>7. holder' \in [Dev -> Conn \cup {NoConn}]
      BY <3>3 DEF StoreSockfd
    <3>4. pc' \in [Conn -> {"idle", "queued"} \cup Serving \cup Ended]
      BY <2>13 DEF ExportDevice, Serving
    <3> QED
      BY <2>13, <3>2, <3>4, <3>5, <3>6, <3>7 DEF ExportDevice, netVars
  <2>14. ASSUME NEW c \in Conn, SendImportReply(c) PROVE TypeInv'
    <3>1. out' \in [Conn -> Seq(Message)]
      BY <2>14 DEF SendImportReply, OpCommon, Message
    <3>2. CASE status[c] = "OK"
      BY <2>14, <3>1, <3>2 DEF SendImportReply, Serving, kernelVars
    <3>3. CASE status[c] # "OK"
      BY <2>14, <3>1, <3>3, ReturnTyped DEF SendImportReply, Fail, Returned, kernelVars
    <3> QED
      BY <3>2, <3>3
  <2>15. ASSUME NEW c \in Conn, SendImportPdu(c) PROVE TypeInv'
    BY <2>15, ReturnTyped DEF SendImportPdu, Udev, Message, RequestType, Returned, kernelVars
  <2>16. ASSUME NEW c \in Conn, SendDevlistHeader(c) PROVE TypeInv'
    BY <2>16 DEF SendDevlistHeader, OpCommon, Message, OpStatus, Serving, kernelVars
  <2>17. ASSUME NEW c \in Conn, SendNDev(c) PROVE TypeInv'
    <3>1. Cardinality(Listed(c)) \in Nat
      BY DevAssumption, FS_Subset, FS_CardinalityType DEF Listed
    <3>2. out' \in [Conn -> Seq(Message)]
      BY <2>17, <3>1 DEF SendNDev, NDev, Message
    <3> QED
      BY <2>17, <3>2 DEF SendNDev, Listed, Serving, kernelVars
  <2>18. ASSUME NEW c \in Conn, SendEntry(c) PROVE TypeInv'
    BY <2>18 DEF SendEntry, Udev, Message, kernelVars
  <2>19. ASSUME NEW c \in Conn, DevlistDone(c) PROVE TypeInv'
    BY <2>19, ReturnTyped DEF DevlistDone, Returned, kernelVars, netVars
  <2>20. ASSUME NEW c \in Conn, SendReplyFails(c) PROVE TypeInv'
    BY <2>20, ReturnTyped DEF SendReplyFails, Fail, Returned, kernelVars, netVars
  <2>21. ASSUME NEW d \in Dev, StubReset(d) PROVE TypeInv'
    BY <2>21 DEF StubReset, TearDown, StubStatus, childVars
  <2>22. ASSUME NEW d \in Dev, Bind(d) PROVE TypeInv'
    BY <2>22 DEF Bind, netVars, childVars
  <2>23. ASSUME NEW d \in Dev, Unbind(d) PROVE TypeInv'
    BY <2>23 DEF Unbind, TearDown, StubStatus, childVars
  <2>24. CASE UNCHANGED vars
    BY <2>24 DEF vars, kernelVars, netVars, childVars
  <2>25. ASSUME NEW c \in Conn, ExitChild(c) PROVE TypeInv'
    BY <2>25 DEF ExitChild, CloseConnfd, Ended, kernelVars
  <2> QED
    BY <2>1, <2>2, <2>3, <2>4, <2>5, <2>6, <2>7, <2>8, <2>9, <2>10, <2>11, <2>12, <2>13,
       <2>14, <2>15, <2>16, <2>17, <2>18, <2>19, <2>20, <2>21, <2>22, <2>23, <2>24, <2>25
    DEF Next, ClientStep, DaemonStep, ChildStep, KernelStep
<1> QED
  BY <1>1, <1>2, PTL DEF Spec

(* Every reachable state of the daemon is well typed.                      *)
THEOREM TypeCorrect == Spec => []TypeOK
<1>1. TypeInv => TypeOK
  BY DEF TypeInv
<1> QED
  BY TypeInvariant, <1>1, PTL

(* The cut path is the only way for a bound device to be left out of a     *)
(* list: where no path is cut, or with the vudc back end, BoundIsFound     *)
(* holds.                                                                  *)
THEOREM BoundIsFoundUnlessCut ==
    ASSUME Vudc \/ CutPath = {}
    PROVE  Spec => BoundIsFound
<1> DEFINE Finds == \A c \in Conn, d \in Dev :
                      /\ pc[c] = "scan" /\ d \in todo[c] \ todo'[c]
                      /\ bound[d]
                      => snap'[c][d] # "absent"
<1>1. TypeInv /\ [Next]_vars => Finds
  <2> SUFFICES ASSUME TypeOK, [Next]_vars,
                      NEW c \in Conn, NEW d \in Dev,
                      pc[c] = "scan", d \in todo[c], d \notin todo'[c], bound[d]
               PROVE  snap'[c][d] # "absent"
    BY DEF TypeInv
  <2>1. ASSUME NEW x \in Conn, ScanDevice(x)
        PROVE  x = c /\ snap'[c][d] # "absent"
    <3>1. PICK e \in todo[x] :
            /\ todo' = [todo EXCEPT ![x] = @ \ {e}]
            /\ \E s \in (IF Found(e) THEN {stub[e], "UNKNOWN"} ELSE {"absent"}) :
                 snap' = [snap EXCEPT ![x][e] = s]
      BY <2>1 DEF ScanDevice
    <3>2. x = c /\ e = d
      BY <3>1 DEF TypeOK
    <3>3. Found(d)
      BY DEF Found, FoundHost
    <3>4. stub[d] # "absent"
      BY DEF TypeOK, StubStatus
    <3> QED
      BY <3>1, <3>2, <3>3, <3>4 DEF TypeOK
  <2>2. ASSUME NEW x \in Conn, todo' = todo \/ Fail(x) \/ Return(x, "returned_0"),
               x = c => todo' = todo \/ todo[c] = {}
        PROVE  FALSE
    BY <2>2 DEF Fail, Return, TypeOK
  <2>3. ASSUME NEW x \in Conn, RecvHeader(x) \/ RecvHeaderFails(x) PROVE FALSE
    BY <2>2, <2>3 DEF RecvHeader, RecvHeaderFails, TypeOK
  <2>4. ASSUME NEW x \in Conn, Dispatch(x) \/ DispatchUnknown(x) PROVE FALSE
    BY <2>2, <2>4 DEF Dispatch, DispatchUnknown, TypeOK
  <2>5. ASSUME NEW x \in Conn, RecvImport(x) \/ RecvImportFails(x) \/ ExportDevice(x)
        PROVE  FALSE
    BY <2>2, <2>5 DEF RecvImport, RecvImportFails, ExportDevice
  <2>6. ASSUME NEW x \in Conn, SendImportReply(x) \/ SendImportPdu(x) \/ SendDevlistHeader(x)
        PROVE  FALSE
    BY <2>2, <2>6 DEF SendImportReply, SendImportPdu, SendDevlistHeader, TypeOK
  <2>7. ASSUME NEW x \in Conn,
               SendNDev(x) \/ SendEntry(x) \/ DevlistDone(x) \/ SendReplyFails(x) \/ ExitChild(x)
        PROVE  FALSE
    BY <2>2, <2>7 DEF SendNDev, SendEntry, DevlistDone, SendReplyFails, ExitChild, TypeOK
  <2>8. ASSUME NEW x \in Conn, ClientStep(x) \/ Accept(x) \/ Refuse(x) PROVE FALSE
    BY <2>8 DEF ClientStep, Connect, SendPart, ClosePeer, Accept, Refuse, childVars
  <2>9. ASSUME NEW x \in Dev, KernelStep(x) PROVE FALSE
    BY <2>9 DEF KernelStep, StubReset, Bind, Unbind, childVars
  <2>10. CASE UNCHANGED vars
    BY <2>10 DEF vars, childVars
  <2> QED
    BY <2>1, <2>3, <2>4, <2>5, <2>6, <2>7, <2>8, <2>9, <2>10 DEF Next, DaemonStep, ChildStep
<1> QED
  BY <1>1, TypeInvariant, PTL DEF Spec, BoundIsFound

-----------------------------------------------------------------------------
(* The inductive invariant behind the safety properties.  ChildInv ties a  *)
(* child's progress to what it has exported and sent; HeldInv says what a  *)
(* socket held by the stub implies, GrantedInv the converse for a          *)
(* connection that is up.                                                  *)
OkReply     == OpCommon("REP_IMPORT", "OK")
Unexported  == {"idle", "queued", "header", "scan", "import", "export",
                "devlist", "ndev", "entries"}
Unanswered  == {"idle", "queued", "header", "scan", "import", "export",
                "reply", "devlist"}

ChildInv ==
    \A c \in Conn :
        /\ pc[c] \in Unexported => status[c] = "none"
        /\ pc[c] \in {"queued", "header", "scan", "import", "export"} =>
               sock[c] = "open"
        /\ pc[c] \in Unanswered => out[c] = << >>
        /\ pc[c] = "pdu" => status[c] = "OK" /\ out[c] = <<OkReply>>
        /\ SaidOk(c) => status[c] = "OK"

HeldInv ==
    \A c \in Conn, d \in Dev : holder[d] = c =>
        /\ bound[d] /\ stub[d] = "USED"
        /\ status[c] = "OK" /\ req[c].busid = d /\ sock[c] = "open"
        /\ pc[c] \in Ended => \/ out[c] = <<OkReply, Udev(d)>>
                              \/ peer[c] = "closed"

GrantedInv ==
    \A c \in Conn :
        status[c] = "OK" /\ sock[c] = "open" => holder[req[c].busid] = c

IInv == TypeInv /\ ChildInv /\ HeldInv /\ GrantedInv

(* A sequence holds what was appended to it, and nothing else is new.      *)
LEMMA SaidAppend ==
    ASSUME NEW s \in Seq(Message), NEW m \in Message, NEW x
    PROVE  (\E i \in 1..Len(Append(s, m)) : Append(s, m)[i] = x)
             <=> (m = x \/ \E i \in 1..Len(s) : s[i] = x)
<1>1. Len(Append(s, m)) = Len(s) + 1 /\ Len(s) \in Nat
  OBVIOUS
<1>2. \A i \in 1..Len(s) : Append(s, m)[i] = s[i]
  OBVIOUS
<1>3. Append(s, m)[Len(s) + 1] = m
  OBVIOUS
<1> QED
  BY <1>1, <1>2, <1>3

(* Append on the two shortest sequences: the replies to an import.         *)
LEMMA AppendShort ==
    ASSUME NEW x, NEW y
    PROVE  Append(<< >>, x) = <<x>> /\ Append(<<x>>, y) = <<x, y>>
<1>0. Append(<< >>, x) = <<x>>
  OBVIOUS
<1> DEFINE S == {x, y}
           s == Append(<<x>>, y)
           t == <<x, y>>
<1>1. s \in Seq(S) /\ Len(s) = 2 /\ s[1] = x /\ s[2] = y
  <2>1. <<x>> \in Seq(S) /\ y \in S
    OBVIOUS
  <2> QED BY <2>1, AppendProperties
<1>2. t \in Seq(S) /\ Len(t) = 2 /\ t[1] = x /\ t[2] = y
  OBVIOUS
<1> HIDE DEF s, t, S
<1>3. Len(s) = Len(t) /\ \A i \in 1..Len(s) : s[i] = t[i]
  BY <1>1, <1>2
<1>4. s = t
  BY <1>1, <1>2, <1>3, SeqEqual
<1> QED
  BY <1>0, <1>4 DEF s, t

(* A daemon that sent nothing did not say ST_OK.                           *)
LEMMA NothingSaid == \A c \in Conn : out[c] = << >> => ~ SaidOk(c)
  BY DEF SaidOk, Said

(* A child that ends without a word leaves the invariant alone, provided   *)
(* that if its connection holds a device the client is gone.               *)
LEMMA QuietReturn ==
    ASSUME IInv, NEW c \in Conn, NEW rc \in Returned, Return(c, rc),
           UNCHANGED <<kernelVars, netVars, status>>,
           StubKeeps(c) => peer[c] = "closed"
    PROVE  ChildInv' /\ HeldInv' /\ GrantedInv'
<1> USE DEF IInv, TypeInv, TypeOK, Return, kernelVars, netVars
<1>1. ChildInv'
  BY DEF ChildInv, SaidOk, Said, Unexported, Unanswered, Returned
<1>2. HeldInv'
  BY DEF HeldInv, StubKeeps
<1>3. GrantedInv'
  BY DEF GrantedInv
<1> QED
  BY <1>1, <1>2, <1>3

(* Closing the daemon's descriptor does not disturb it either.             *)
LEMMA QuietClose ==
    ASSUME IInv, NEW c \in Conn, pc[c] \in Ended \/ status[c] = "none",
           pc' = [pc EXCEPT ![c] = "exited"], CloseConnfd(c),
           UNCHANGED <<kernelVars, peer, req, out, status>>
    PROVE  ChildInv' /\ HeldInv' /\ GrantedInv'
<1> USE DEF IInv, TypeInv, TypeOK, CloseConnfd, kernelVars
<1>1. ChildInv'
  BY DEF ChildInv, SaidOk, Said, Unexported, Unanswered
<1>2. HeldInv'
  BY DEF HeldInv, StubKeeps
<1>3. GrantedInv'
  BY DEF GrantedInv
<1> QED
  BY <1>1, <1>2, <1>3

(* Neither does the stub when it lets go of a device.                      *)
LEMMA TearDownInv ==
    ASSUME IInv, NEW d \in Dev, TearDown(d),
           UNCHANGED <<peer, req, out, pc, status>>,
           \A e \in Dev : e # d => stub'[e] = stub[e] /\ bound'[e] = bound[e]
    PROVE  ChildInv' /\ HeldInv' /\ GrantedInv'
<1> USE DEF IInv, TypeInv, TypeOK, TearDown
<1>1. ChildInv'
  <2>1. \A c \in Conn : holder[d] = c => pc[c] \notin Unexported
    BY DEF ChildInv, HeldInv
  <2> QED
    BY <2>1 DEF ChildInv, SaidOk, Said, Unexported
<1>2. HeldInv'
  BY NoConnAssumption DEF HeldInv
<1>3. GrantedInv'
  BY DEF HeldInv, GrantedInv, RequestType
<1> QED
  BY <1>1, <1>2, <1>3

(* The invariant is inductive: every action preserves it.                  *)
LEMMA InvariantHolds == Spec => []IInv
<1>1. Init => IInv
  <2> SUFFICES ASSUME Init PROVE ChildInv /\ HeldInv /\ GrantedInv /\ TypeInv
    BY DEF IInv
  <2>1. TypeInv
    BY RequestsAssumption DEF Init, TypeInv, TypeOK, EmptyList, StubStatus, ReadStatus
  <2>2. ChildInv
    BY NothingSaid DEF Init, ChildInv, Unexported
  <2>3. HeldInv /\ GrantedInv
    BY NoConnAssumption DEF Init, HeldInv, GrantedInv
  <2> QED
    BY <2>1, <2>2, <2>3
<1>2. IInv /\ TypeInv' /\ [Next]_vars => IInv'
  <2> SUFFICES ASSUME IInv, TypeInv', [Next]_vars
               PROVE  ChildInv' /\ HeldInv' /\ GrantedInv'
    BY DEF IInv
  <2> DEFINE Goal == ChildInv /\ HeldInv /\ GrantedInv
  <2> USE DEF IInv, TypeInv, TypeOK
  <2>h. \A c \in Conn : pc[c] \in Unexported => ~ StubKeeps(c)
    BY DEF ChildInv, HeldInv, StubKeeps
  <2>o. \A c \in Conn : StubKeeps(c) => sock[c] = "open"
    BY DEF HeldInv, StubKeeps
  <2>1. ASSUME NEW c \in Conn, Connect(c) PROVE Goal'
    <3>1. ChildInv'
      BY <2>1 DEF Connect, ChildInv, SaidOk, Said, Unexported, Unanswered
    <3>2. HeldInv'
      BY <2>1 DEF Connect, kernelVars, HeldInv, Ended, Returned
    <3>3. GrantedInv'
      BY <2>1 DEF Connect, kernelVars, ChildInv, GrantedInv, Unexported
    <3> QED
      BY <3>1, <3>2, <3>3
  <2>2. ASSUME NEW c \in Conn, SendPart(c) PROVE Goal'
    <3>1. UNCHANGED <<kernelVars, childVars, peer, sock, req, out>>
      BY <2>2 DEF SendPart
    <3> QED
      BY <3>1 DEF kernelVars, childVars, ChildInv, HeldInv, GrantedInv, SaidOk, Said
  <2>3. ASSUME NEW c \in Conn, ClosePeer(c) PROVE Goal'
    BY <2>3 DEF ClosePeer, kernelVars, childVars, ChildInv, HeldInv, GrantedInv, SaidOk, Said
  <2>4. ASSUME NEW c \in Conn, Accept(c) PROVE Goal'
    BY <2>4 DEF Accept, kernelVars, netVars, ChildInv, HeldInv, GrantedInv, SaidOk, Said,
                Unexported, Unanswered, Ended, Returned
  <2>5. ASSUME NEW c \in Conn, Refuse(c) PROVE Goal'
    BY <2>5, QuietClose DEF Refuse, ChildInv, Unexported
  <2>6. ASSUME NEW c \in Conn, RecvHeader(c) PROVE Goal'
    BY <2>6 DEF RecvHeader, kernelVars, netVars, ChildInv, HeldInv, GrantedInv, SaidOk, Said,
                Unexported, Unanswered, Ended, Returned
  <2>7. ASSUME NEW c \in Conn, RecvHeaderFails(c) PROVE Goal'
    BY <2>7, <2>h, QuietReturn DEF RecvHeaderFails, Fail, Returned, Unexported
  <2>8. ASSUME NEW c \in Conn, ScanDevice(c) PROVE Goal'
    BY <2>8 DEF ScanDevice, kernelVars, netVars, ChildInv, HeldInv, GrantedInv, SaidOk, Said
  <2>9. ASSUME NEW c \in Conn, Dispatch(c) PROVE Goal'
    BY <2>9 DEF Dispatch, kernelVars, netVars, ChildInv, HeldInv, GrantedInv, SaidOk, Said,
                Unexported, Unanswered, Ended, Returned
  <2>10. ASSUME NEW c \in Conn, DispatchUnknown(c) PROVE Goal'
    BY <2>10, <2>h, QuietReturn DEF DispatchUnknown, Fail, Returned, Unexported
  <2>11. ASSUME NEW c \in Conn, RecvImport(c) PROVE Goal'
    BY <2>11, NothingSaid DEF RecvImport, kernelVars, netVars, ChildInv, HeldInv, GrantedInv,
                SaidOk, Said, Unexported, Unanswered, Ended, Returned
  <2>12. ASSUME NEW c \in Conn, RecvImportFails(c) PROVE Goal'
    BY <2>12, <2>h, QuietReturn DEF RecvImportFails, Fail, Returned, Unexported
  <2>13. ASSUME NEW c \in Conn, ExportDevice(c) PROVE Goal'
    <3> DEFINE d == req[c].busid
    <3>1. d \in Dev /\ pc[c] = "export" /\ sock[c] = "open" /\ status[c] = "none"
      BY <2>13 DEF ExportDevice, RequestType, ChildInv, Unexported
    <3>2. CASE snap[c][d] = "AVAILABLE" /\ StubAccepts(d)
      <4>1. /\ holder' = [holder EXCEPT ![d] = c]
            /\ stub'   = [stub EXCEPT ![d] = "USED"]
            /\ status' = [status EXCEPT ![c] = "OK"]
            /\ pc'     = [pc EXCEPT ![c] = "reply"]
            /\ UNCHANGED <<bound, peer, sock, req, out>>
        BY <2>13, <3>2 DEF ExportDevice, StoreSockfd, netVars
      <4>2. bound[d] /\ \A cc \in Conn : holder[d] # cc
        BY <3>1, <3>2 DEF StubAccepts, HeldInv
      <4>3. ChildInv'
        BY <3>1, <4>1 DEF ChildInv, SaidOk, Said, Unexported, Unanswered
      <4>4. HeldInv'
        BY <3>1, <4>1, <4>2 DEF HeldInv, Ended, Returned
      <4>5. GrantedInv'
        BY <3>1, <4>1, <4>2 DEF GrantedInv, RequestType
      <4> QED
        BY <4>3, <4>4, <4>5
    <3>3. CASE ~ (snap[c][d] = "AVAILABLE" /\ StubAccepts(d))
      <4>1. /\ status' = [status EXCEPT ![c] = Unavailable(snap[c][d])]
            /\ pc'     = [pc EXCEPT ![c] = "reply"]
            /\ UNCHANGED <<kernelVars, peer, sock, req, out>>
        BY <2>13, <3>3 DEF ExportDevice, netVars, kernelVars
      <4>2. Unavailable(snap[c][d]) # "OK"
        BY DEF Unavailable
      <4> QED
        BY <3>1, <4>1, <4>2, NothingSaid
        DEF kernelVars, ChildInv, HeldInv, GrantedInv, SaidOk, Said,
            Unexported, Unanswered, Ended, Returned
    <3> QED
      BY <3>2, <3>3
  <2>14. ASSUME NEW c \in Conn, SendImportReply(c) PROVE Goal'
    <3>1. /\ pc[c] = "reply" /\ sock[c] = "open" /\ status[c] \in OpStatus
          /\ out'[c] = <<OpCommon("REP_IMPORT", status[c])>>
      <4>1. pc[c] = "reply" /\ sock[c] = "open" /\ status[c] \in OpStatus
        BY <2>14 DEF SendImportReply, CanSend
      <4>2. out[c] = << >>
        BY <4>1 DEF ChildInv, Unanswered
      <4>3. out'[c] = Append(<< >>, OpCommon("REP_IMPORT", status[c]))
        BY <2>14, <4>2 DEF SendImportReply
      <4> QED
        BY <4>1, <4>3, AppendShort
    <3>2. SaidOk(c)' => status[c] = "OK"
      BY <3>1 DEF SaidOk, Said, OpCommon
    <3>3. \A cc \in Conn : cc # c => (SaidOk(cc)' <=> SaidOk(cc))
      BY <2>14 DEF SendImportReply, SaidOk, Said
    <3>4. CASE status[c] = "OK"
      BY <2>14, <3>1, <3>2, <3>3, <3>4
      DEF SendImportReply, kernelVars, ChildInv, HeldInv, GrantedInv, OkReply,
          Unexported, Unanswered, Ended, Returned
    <3>5. CASE status[c] # "OK"
      <4>1. ~ StubKeeps(c)
        BY <3>5 DEF HeldInv, StubKeeps
      <4> QED
        BY <2>14, <3>1, <3>2, <3>3, <3>5, <4>1
        DEF SendImportReply, Fail, Return, StubKeeps, kernelVars, ChildInv, HeldInv, GrantedInv,
            Unexported, Unanswered, Ended, Returned
    <3> QED
      BY <3>4, <3>5
  <2>15. ASSUME NEW c \in Conn, SendImportPdu(c) PROVE Goal'
    <3>1. /\ pc[c] = "pdu" /\ sock[c] = "open" /\ status[c] = "OK"
          /\ out'[c] = <<OkReply, Udev(req[c].busid)>>
      <4>1. /\ pc[c] = "pdu" /\ sock[c] = "open"
            /\ status[c] = "OK" /\ out[c] = <<OkReply>>
        BY <2>15 DEF SendImportPdu, CanSend, ChildInv
      <4>2. out'[c] = Append(<<OkReply>>, Udev(req[c].busid))
        BY <2>15, <4>1 DEF SendImportPdu
      <4> QED
        BY <4>1, <4>2, AppendShort
    <3>2. \A cc \in Conn : cc # c => (SaidOk(cc)' <=> SaidOk(cc))
      BY <2>15 DEF SendImportPdu, SaidOk, Said
    <3> QED
      BY <2>15, <3>1, <3>2
      DEF SendImportPdu, Return, kernelVars, ChildInv, HeldInv, GrantedInv,
          Unexported, Unanswered, Ended, Returned
  <2>16. ASSUME NEW c \in Conn, SendDevlistHeader(c) PROVE Goal'
    <3>1. pc[c] \in Unexported /\ status[c] = "none" /\ ~ SaidOk(c)
      BY <2>16 DEF SendDevlistHeader, ChildInv, Unexported
    <3>2. ~ SaidOk(c)'
      BY <2>16, <3>1, SaidAppend DEF SendDevlistHeader, SaidOk, Said, OpCommon,
          Message, OpStatus
    <3>3. \A cc \in Conn : cc # c => (SaidOk(cc)' <=> SaidOk(cc))
      BY <2>16 DEF SendDevlistHeader, SaidOk, Said
    <3> QED
      BY <2>16, <3>1, <3>2, <3>3
      DEF SendDevlistHeader, kernelVars, ChildInv, HeldInv, GrantedInv,
          Unexported, Unanswered, Ended, Returned
  <2>17. ASSUME NEW c \in Conn, SendNDev(c) PROVE Goal'
    <3>1. pc[c] \in Unexported /\ status[c] = "none" /\ ~ SaidOk(c)
      BY <2>17 DEF SendNDev, ChildInv, Unexported
    <3>2. ~ SaidOk(c)'
      BY <2>17, <3>1, SaidAppend DEF SendNDev, SaidOk, Said, NDev, OpCommon, Message, OpStatus
    <3>3. \A cc \in Conn : cc # c => (SaidOk(cc)' <=> SaidOk(cc))
      BY <2>17 DEF SendNDev, SaidOk, Said
    <3> QED
      BY <2>17, <3>1, <3>2, <3>3
      DEF SendNDev, kernelVars, ChildInv, HeldInv, GrantedInv,
          Unexported, Unanswered, Ended, Returned
  <2>18. ASSUME NEW c \in Conn, SendEntry(c) PROVE Goal'
    <3>1. pc[c] \in Unexported /\ status[c] = "none" /\ ~ SaidOk(c)
      BY <2>18 DEF SendEntry, ChildInv, Unexported
    <3>2. ~ SaidOk(c)'
      BY <2>18, <3>1, SaidAppend DEF SendEntry, SaidOk, Said, Udev, OpCommon, Message, OpStatus
    <3>3. \A cc \in Conn : cc # c => (SaidOk(cc)' <=> SaidOk(cc))
      BY <2>18 DEF SendEntry, SaidOk, Said
    <3>4. /\ UNCHANGED <<bound, stub, holder, peer, sock, req, pc, status>>
          /\ \A cc \in Conn : cc # c => out'[cc] = out[cc]
          /\ pc[c] = "entries"
      BY <2>18 DEF SendEntry, kernelVars
    <3>5. ChildInv'
      BY <3>1, <3>2, <3>3, <3>4 DEF ChildInv, Unanswered
    <3>6. \A d \in Dev : holder[d] # c
      BY <3>1 DEF HeldInv
    <3>7. HeldInv'
      BY <3>4, <3>6 DEF HeldInv
    <3>8. GrantedInv'
      BY <3>4 DEF GrantedInv
    <3> QED
      BY <3>5, <3>7, <3>8
  <2>19. ASSUME NEW c \in Conn, DevlistDone(c) PROVE Goal'
    BY <2>19, <2>h, QuietReturn DEF DevlistDone, Returned, Unexported
  <2>20. ASSUME NEW c \in Conn, SendReplyFails(c) PROVE Goal'
    BY <2>20, <2>o, QuietReturn DEF SendReplyFails, SendFails, Fail, Returned
  <2>21. ASSUME NEW d \in Dev, StubReset(d) PROVE Goal'
    <3>1. TearDown(d) /\ UNCHANGED <<bound, peer, req, out, pc, status>>
          /\ \A e \in Dev : e # d => stub'[e] = stub[e]
      BY <2>21 DEF StubReset, childVars
    <3> QED
      BY <3>1, TearDownInv
  <2>22. ASSUME NEW d \in Dev, Bind(d) PROVE Goal'
    BY <2>22 DEF Bind, netVars, childVars, ChildInv, HeldInv, GrantedInv, SaidOk, Said
  <2>23. ASSUME NEW d \in Dev, Unbind(d) PROVE Goal'
    <3>1. TearDown(d) /\ UNCHANGED <<peer, req, out, pc, status>>
          /\ \A e \in Dev : e # d => stub'[e] = stub[e] /\ bound'[e] = bound[e]
      BY <2>23 DEF Unbind, childVars
    <3> QED
      BY <3>1, TearDownInv
  <2>24. CASE UNCHANGED vars
    BY <2>24 DEF vars, kernelVars, netVars, childVars, ChildInv, HeldInv, GrantedInv, SaidOk, Said
  <2>25. ASSUME NEW c \in Conn, ExitChild(c) PROVE Goal'
    BY <2>25, QuietClose DEF ExitChild, Ended
  <2> QED
    BY <2>1, <2>2, <2>3, <2>4, <2>5, <2>6, <2>7, <2>8, <2>9, <2>10, <2>11, <2>12, <2>13,
       <2>14, <2>15, <2>16, <2>17, <2>18, <2>19, <2>20, <2>21, <2>22, <2>23, <2>24, <2>25
    DEF Next, ClientStep, DaemonStep, ChildStep, KernelStep
<1> QED
  BY <1>1, <1>2, TypeInvariant, PTL DEF Spec

(* An ST_OK import reply on a connection that is up is backed by the stub  *)
(* of the requested device owning that connection's socket.                *)
THEOREM OkReplyIsBacked == Spec => []OkReplyBacked
<1>1. IInv => OkReplyBacked
  BY DEF IInv, ChildInv, GrantedInv, OkReplyBacked
<1> QED
  BY InvariantHolds, <1>1, PTL

(* An ended child leaves a device exported only to a client that got the   *)
(* whole reply, or that is gone.                                           *)
THEOREM NoExportIsOrphaned == Spec => []NoOrphanExport
<1>1. IInv => NoOrphanExport
  BY DEF IInv, HeldInv, NoOrphanExport, OkReply
<1> QED
  BY InvariantHolds, <1>1, PTL

-----------------------------------------------------------------------------
(* The steps of the daemon that DeviceLease does not see.                  *)
Stutter == UNCHANGED <<holder, leaseSpent, leaseTold>>

(* When exports, results and what clients on live connections were told    *)
(* stay, nothing happened at the level of DeviceLease.                     *)
LEMMA StutterRule ==
    ASSUME UNCHANGED <<holder, req>>,
           \A c \in Conn : status'[c] = "OK" <=> status[c] = "OK",
           \A c \in Conn : (SaidOk(c)' /\ sock'[c] = "open") <=>
                           (SaidOk(c) /\ sock[c] = "open")
    PROVE  Stutter
<1>1. leaseSpent' = leaseSpent
  BY DEF leaseSpent
<1>2. leaseTold' = leaseTold
  BY DEF leaseTold
<1> QED
  BY <1>1, <1>2 DEF Stutter

(* A child's exit does not cut off a client that was told ST_OK.           *)
LEMMA CloseStutters ==
    ASSUME IInv, NEW c \in Conn, CloseConnfd(c),
           UNCHANGED <<kernelVars, req, out, status>>
    PROVE  Stutter
<1>1. SaidOk(c) /\ sock[c] = "open" => sock'[c] = "open"
  BY DEF IInv, TypeInv, TypeOK, ChildInv, GrantedInv, CloseConnfd, StubKeeps, RequestType
<1>2. sock'[c] = "open" => sock[c] = "open"
  BY DEF CloseConnfd, IInv, TypeInv, TypeOK
<1>3. \A cc \in Conn : cc # c => sock'[cc] = sock[cc]
  BY DEF CloseConnfd, IInv, TypeInv, TypeOK
<1> QED
  BY <1>1, <1>2, <1>3, StutterRule DEF kernelVars, SaidOk, Said

(* A device that is released ends its lease and nobody else's.             *)
LEMMA TearDownRevokes ==
    ASSUME IInv, NEW d \in Dev, TearDown(d), UNCHANGED <<req, out, status>>
    PROVE  Stutter \/ Lease!Revoke(d)
<1> USE DEF IInv, TypeInv, TypeOK, TearDown
<1>1. CASE holder[d] = NoConn
  <2>1. UNCHANGED <<holder, sock>>
    BY <1>1
  <2> QED
    BY <2>1, StutterRule DEF SaidOk, Said
<1>2. CASE holder[d] # NoConn
  <2>1. leaseSpent' = leaseSpent
    BY DEF leaseSpent
  <2>2. \A c \in Conn : sock'[c] = "open" <=> (sock[c] = "open" /\ c # holder[d])
    BY <1>2
  <2>3. leaseTold' = {p \in leaseTold : p[1] # holder[d]}
    BY <2>2 DEF leaseTold, SaidOk, Said
  <2> QED
    BY <1>2, <2>1, <2>3 DEF Lease!Revoke
<1> QED
  BY <1>1, <1>2

(* Every step of the daemon is a step of DeviceLease or none at all.       *)
LEMMA StepRefines ==
    ASSUME IInv, IInv', [Next]_vars
    PROVE  [Lease!Next]_(Lease!vars)
<1> SUFFICES ASSUME ~ Stutter
             PROVE  \/ \E c \in Conn, d \in Dev : Lease!Grant(c, d) \/ Lease!Tell(c, d)
                    \/ \E d \in Dev : Lease!Revoke(d)
  BY DEF Lease!Next, Lease!vars, Stutter
<1> USE DEF IInv, TypeInv, TypeOK
<1>s. (\A c \in Conn : out'[c] = out[c]) => \A c \in Conn : SaidOk(c)' <=> SaidOk(c)
  BY DEF SaidOk, Said
<1>1. ASSUME NEW c \in Conn, Connect(c) PROVE FALSE
  <2>1. ~ SaidOk(c)
    BY <1>1, NothingSaid DEF Connect, ChildInv, Unanswered
  <2> QED
    BY <1>1, <1>s, <2>1, StutterRule DEF Connect, kernelVars
<1>2. ASSUME NEW c \in Conn, SendPart(c) \/ ClosePeer(c) \/ Accept(c) \/ ScanDevice(c)
                             \/ RecvHeader(c) \/ Dispatch(c)
      PROVE  FALSE
  BY <1>2, <1>s, StutterRule
  DEF SendPart, ClosePeer, Accept, ScanDevice, RecvHeader, Dispatch, kernelVars, netVars, childVars
<1>3. ASSUME NEW c \in Conn, RecvHeaderFails(c) \/ DispatchUnknown(c) \/ RecvImportFails(c)
                             \/ DevlistDone(c) \/ SendReplyFails(c)
      PROVE  FALSE
  BY <1>3, <1>s, StutterRule
  DEF RecvHeaderFails, DispatchUnknown, RecvImportFails, DevlistDone, SendReplyFails,
      kernelVars, netVars
<1>12. ASSUME NEW c \in Conn, Refuse(c) \/ ExitChild(c) PROVE FALSE
  BY <1>12, CloseStutters DEF Refuse, ExitChild
<1>4. ASSUME NEW c \in Conn, RecvImport(c) PROVE FALSE
  <2>1. status[c] # "OK"
    BY <1>4 DEF RecvImport, ChildInv, Unexported
  <2> QED
    BY <1>4, <1>s, <2>1, StutterRule DEF RecvImport, kernelVars, netVars
<1>5. ASSUME NEW c \in Conn, ExportDevice(c) PROVE \E d \in Dev : Lease!Grant(c, d)
  <2> DEFINE d == req[c].busid
  <2>1. d \in Dev /\ status[c] # "OK" /\ ~ SaidOk(c)
    BY <1>5 DEF ExportDevice, RequestType, ChildInv, Unexported
  <2>2. leaseTold' = leaseTold
    BY <1>5 DEF ExportDevice, netVars, leaseTold, SaidOk, Said
  <2>3. CASE snap[c][d] = "AVAILABLE" /\ StubAccepts(d)
    <3>1. /\ holder' = [holder EXCEPT ![d] = c]
          /\ status' = [status EXCEPT ![c] = "OK"]
      BY <1>5, <2>3 DEF ExportDevice, StoreSockfd
    <3>2. holder[d] = NoConn
      BY <2>1, <2>3 DEF StubAccepts, HeldInv
    <3>3. leaseSpent' = leaseSpent \cup {c} /\ c \notin leaseSpent
      BY <2>1, <3>1 DEF leaseSpent
    <3> QED
      BY <2>1, <2>2, <3>1, <3>2, <3>3 DEF Lease!Grant
  <2>4. CASE ~ (snap[c][d] = "AVAILABLE" /\ StubAccepts(d))
    <3>1. status' = [status EXCEPT ![c] = Unavailable(snap[c][d])]
      BY <1>5, <2>4 DEF ExportDevice
    <3>2. Unavailable(snap[c][d]) # "OK"
      BY DEF Unavailable
    <3>3. leaseSpent' = leaseSpent
      BY <2>1, <3>1, <3>2 DEF leaseSpent
    <3> QED
      BY <1>5, <2>2, <2>4, <3>3 DEF ExportDevice, Stutter
  <2> QED
    BY <2>3, <2>4
<1>6. ASSUME NEW c \in Conn, SendImportReply(c) PROVE \E d \in Dev : Lease!Tell(c, d)
  <2>1. /\ \A cc \in Conn : cc # c => (SaidOk(cc)' <=> SaidOk(cc))
        /\ UNCHANGED <<holder, req, status>>
        /\ sock[c] = "open" /\ pc[c] = "reply"
    BY <1>6 DEF SendImportReply, SaidOk, Said, kernelVars, CanSend
  <2>2. CASE status[c] = "OK"
    <3>1. sock' = sock
      BY <1>6, <2>2 DEF SendImportReply
    <3>2. holder[req[c].busid] = c
      BY <2>1, <2>2 DEF GrantedInv
    <3>3. out[c] = << >>
      BY <2>1 DEF ChildInv, Unanswered
    <3>4. SaidOk(c)'
      <4>1. out'[c] = <<OpCommon("REP_IMPORT", "OK")>>
        BY <1>6, <2>2, <3>3, AppendShort DEF SendImportReply
      <4> QED
        BY <4>1 DEF SaidOk, Said
    <3>5. leaseTold' = leaseTold \cup {<<c, req[c].busid>>}
      BY <2>1, <3>1, <3>4 DEF leaseTold, RequestType
    <3>6. leaseSpent' = leaseSpent
      BY <2>1 DEF leaseSpent
    <3> QED
      BY <2>1, <3>2, <3>5, <3>6 DEF Lease!Tell, RequestType
  <2>3. CASE status[c] # "OK"
    <3>1. ~ SaidOk(c) /\ ~ SaidOk(c)'
      BY <2>1, <2>3 DEF ChildInv
    <3> QED
      BY <1>6, <2>1, <2>3, <3>1, StutterRule DEF SendImportReply
  <2> QED
    BY <2>2, <2>3
<1>7. ASSUME NEW c \in Conn, SendImportPdu(c) PROVE FALSE
  <2>1. out[c] = <<OkReply>> /\ out'[c] = <<OkReply, Udev(req[c].busid)>>
    <3>1. out[c] = <<OkReply>>
      BY <1>7 DEF SendImportPdu, ChildInv
    <3>2. out'[c] = Append(<<OkReply>>, Udev(req[c].busid))
      BY <1>7, <3>1 DEF SendImportPdu
    <3> QED
      BY <3>1, <3>2, AppendShort
  <2>2. SaidOk(c) /\ SaidOk(c)'
    BY <2>1 DEF SaidOk, Said, OkReply
  <2>3. \A cc \in Conn : SaidOk(cc)' <=> SaidOk(cc)
    BY <1>7, <2>2 DEF SendImportPdu, SaidOk, Said
  <2> QED
    BY <1>7, <2>3, StutterRule DEF SendImportPdu, kernelVars
<1>8. ASSUME NEW c \in Conn, SendDevlistHeader(c) \/ SendNDev(c) \/ SendEntry(c) PROVE FALSE
  <2>1. status[c] # "OK" /\ UNCHANGED <<holder, req, status, sock>>
    BY <1>8 DEF SendDevlistHeader, SendNDev, SendEntry, ChildInv, Unexported, kernelVars
  <2>2. ~ SaidOk(c) /\ ~ SaidOk(c)'
    BY <2>1 DEF ChildInv
  <2>3. \A cc \in Conn : SaidOk(cc)' <=> SaidOk(cc)
    BY <1>8, <2>2 DEF SendDevlistHeader, SendNDev, SendEntry, SaidOk, Said
  <2> QED
    BY <2>1, <2>3, StutterRule
<1>9. ASSUME NEW d \in Dev, StubReset(d) \/ Unbind(d) PROVE Lease!Revoke(d)
  BY <1>9, TearDownRevokes DEF StubReset, Unbind, childVars
<1>10. ASSUME NEW d \in Dev, Bind(d) PROVE FALSE
  BY <1>10, <1>s, StutterRule DEF Bind, netVars, childVars
<1>11. CASE UNCHANGED vars
  BY <1>11, <1>s, StutterRule DEF vars, kernelVars, netVars, childVars
<1> QED
  BY <1>1, <1>2, <1>3, <1>4, <1>5, <1>6, <1>7, <1>8, <1>9, <1>10, <1>11, <1>12
  DEF Next, ClientStep, DaemonStep, ChildStep, KernelStep

(* Seen through the mapping of module UsbipDaemon, usbipd grants, tells    *)
(* and ends leases as DeviceLease allows, and does nothing else.           *)
THEOREM DaemonImplementsLease == Spec => ImplementsLease
<1>1. Init => Lease!Init
  <2> SUFFICES ASSUME Init PROVE Lease!Init
    OBVIOUS
  <2>1. \A c \in Conn : status[c] # "OK" /\ ~ SaidOk(c)
    BY NothingSaid DEF Init
  <2>2. leaseSpent = {} /\ leaseTold = {}
    BY <2>1 DEF leaseSpent, leaseTold
  <2> QED
    BY <2>2 DEF Init, Lease!Init
<1>2. IInv /\ IInv' /\ [Next]_vars => [Lease!Next]_(Lease!vars)
  BY StepRefines
<1> QED
  BY <1>1, <1>2, InvariantHolds, PTL DEF Spec, ImplementsLease, Lease!Spec

(* What DeviceLease is for: two clients that are connected were never both *)
(* told that they have the same device, and neither was told wrongly.      *)
THEOREM NoDeviceTwice == Spec => []Lease!ToldIsLeased
<1>1. OkReplyBacked => Lease!ToldIsLeased
  BY DEF OkReplyBacked, Lease!ToldIsLeased, leaseTold
<1> QED
  BY OkReplyIsBacked, <1>1, PTL
-----------------------------------------------------------------------------
(***************************************************************************)
(* What the daemon sends: its replies are well formed and its device lists *)
(* framed, wherever they are cut off.                                      *)
(***************************************************************************)

(* The two properties, of one connection.                                  *)
Formed(c) ==
    out[c] # << >> =>
        /\ req[c].version = "ok" /\ req[c].status = "OK"
        /\ \/ req[c].code = "IMPORT" /\ sent[c] = 2
                                     /\ IsImportReply(out[c], req[c].busid)
           \/ req[c].code = "DEVLIST" /\ IsDevlistReply(out[c])

Framed(c) ==
    req[c].code = "DEVLIST" /\ Len(out[c]) > 1 =>
        LET n == out[c][2].ndev IN
        /\ Len(out[c]) <= n + 2
        /\ pc[c] = "returned_0" => Len(out[c]) = n + 2
        /\ \A i, j \in 3..Len(out[c]) : out[c][i] = out[c][j] => i = j

(* Where a child stands tells what it received and what it has sent.       *)
Place(c) ==
    /\ pc[c] \in Serving \ {"header"} => req[c].version = "ok" /\ req[c].status = "OK"
    /\ pc[c] \in {"import", "export", "reply", "pdu"} => req[c].code = "IMPORT"
    /\ pc[c] \in {"export", "reply", "pdu"} => sent[c] = 2
    /\ pc[c] \in {"devlist", "ndev", "entries"} => req[c].code = "DEVLIST"
    /\ pc[c] \in Unanswered => out[c] = << >>
    /\ pc[c] = "pdu" => out[c] = <<OkReply>>
    /\ pc[c] = "ndev" => out[c] = <<OpCommon("REP_DEVLIST", "OK")>>

(* While entries are sent, those that are out and those still to send make *)
(* up the count.                                                           *)
Counted(c) ==
    /\ todo[c] \subseteq Listed(c)
    /\ Len(out[c]) > 1
    /\ out[c][2] = NDev(Cardinality(Listed(c)))
    /\ Len(out[c]) + Cardinality(todo[c]) = Cardinality(Listed(c)) + 2
    /\ \A i \in 3..Len(out[c]) : \E d \in Listed(c) \ todo[c] : out[c][i] = Udev(d)

ReplyInv(c) ==
    /\ Place(c)
    /\ pc[c] = "entries" => Counted(c)
    /\ Formed(c)
    /\ Framed(c)

-----------------------------------------------------------------------------
(* What the invariant says of a connection depends on these alone.         *)
LEMMA LocalSame ==
    ASSUME NEW c \in Conn, ReplyInv(c),
           pc'[c] = pc[c], out'[c] = out[c], req'[c] = req[c],
           sent'[c] = sent[c] \/ (sent[c] < 2 /\ TypeOK),
           todo'[c] = todo[c], snap'[c] = snap[c]
    PROVE  ReplyInv(c)'
<1>1. sent[c] = 2 => sent'[c] = 2
  OBVIOUS
<1>2. Listed(c)' = Listed(c)
  BY DEF Listed
<1>3. Place(c)'
  BY <1>1 DEF ReplyInv, Place
<1>4. (pc[c] = "entries" => Counted(c))'
  BY <1>2 DEF ReplyInv, Counted
<1>5. Formed(c)'
  BY <1>1 DEF ReplyInv, Formed
<1>6. Framed(c)'
  BY DEF ReplyInv, Framed
<1>7. QED
  BY <1>3, <1>4, <1>5, <1>6 DEF ReplyInv

(* A child that goes on without sending only has to keep its Place.        *)
LEMMA Silent ==
    ASSUME NEW c \in Conn, ReplyInv(c), Place(c)',
           pc'[c] \notin {"entries", "returned_0"},
           out' = out, req' = req, sent' = sent
    PROVE  ReplyInv(c)'
  BY DEF ReplyInv, Formed, Framed

(* So does one that returns.                                               *)
LEMMA Returns ==
    ASSUME NEW c \in Conn, TypeOK, ReplyInv(c), Return(c, "returned_err"),
           out' = out, req' = req, sent' = sent
    PROVE  ReplyInv(c)'
<1>1. pc'[c] = "returned_err"
  BY DEF Return, TypeOK
<1>2. Place(c)'
  BY <1>1 DEF Place, Serving, Unanswered
<1>3. QED
  BY <1>1, <1>2, Silent

(* The list a child reports is finite, and no longer than the devices are. *)
LEMMA ListedFinite ==
    ASSUME NEW c \in Conn
    PROVE  /\ IsFiniteSet(Listed(c))
           /\ Cardinality(Listed(c)) \in 0..Cardinality(Dev)
<1>1. Listed(c) \subseteq Dev
  BY DEF Listed
<1>2. /\ IsFiniteSet(Listed(c)) /\ Cardinality(Listed(c)) <= Cardinality(Dev)
  BY <1>1, DevAssumption, FS_Subset
<1>3. Cardinality(Listed(c)) \in Nat /\ Cardinality(Dev) \in Nat
  BY <1>2, DevAssumption, FS_CardinalityType
<1>4. QED
  BY <1>2, <1>3

(* recv_request_import: the status of an import reply.                     *)
LEMMA ImportReplySent ==
    ASSUME NEW c \in Conn, TypeInv, ReplyInv(c), SendImportReply(c)
    PROVE  ReplyInv(c)'
<1>1. /\ out[c] = << >> /\ pc[c] = "reply" /\ status[c] \in OpStatus
      /\ req' = req /\ sent' = sent
      /\ req[c].version = "ok" /\ req[c].status = "OK" /\ req[c].code = "IMPORT"
      /\ sent[c] = 2
  BY DEF SendImportReply, TypeInv, TypeOK, ReplyInv, Place, Unanswered, Serving
<1>2. out'[c] = <<OpCommon("REP_IMPORT", status[c])>>
  BY <1>1, AppendShort DEF SendImportReply, TypeInv, TypeOK
<1>3. \/ pc'[c] = "pdu" /\ status[c] = "OK"
      \/ pc'[c] = "returned_err"
  BY DEF SendImportReply, Fail, Return, TypeInv, TypeOK
<1>4. Place(c)'
  BY <1>1, <1>2, <1>3 DEF Place, OkReply, Serving, Unanswered
<1>5. IsImportReply(out'[c], req[c].busid)
  BY <1>1, <1>2 DEF IsImportReply
<1>6. QED
  BY <1>1, <1>3, <1>4, <1>5 DEF ReplyInv, Formed, Framed

(* The device, after ST_OK.                                                *)
LEMMA ImportPduSent ==
    ASSUME NEW c \in Conn, TypeInv, ReplyInv(c), SendImportPdu(c)
    PROVE  ReplyInv(c)'
<1>1. /\ out[c] = <<OkReply>> /\ pc[c] = "pdu"
      /\ req' = req /\ sent' = sent
      /\ req[c].version = "ok" /\ req[c].status = "OK" /\ req[c].code = "IMPORT"
      /\ sent[c] = 2
  BY DEF SendImportPdu, ReplyInv, Place, Serving
<1>2. out'[c] = <<OkReply, Udev(req[c].busid)>>
  BY <1>1, AppendShort DEF SendImportPdu, TypeInv, TypeOK
<1>3. pc'[c] = "returned_0"
  BY DEF SendImportPdu, Return, TypeInv, TypeOK
<1>4. Place(c)'
  BY <1>3 DEF Place, Serving, Unanswered
<1>5. IsImportReply(out'[c], req[c].busid)
  BY <1>2 DEF IsImportReply, OkReply
<1>6. QED
  BY <1>1, <1>3, <1>4, <1>5 DEF ReplyInv, Formed, Framed

(* send_reply_devlist: the header.                                         *)
LEMMA DevlistHeaderSent ==
    ASSUME NEW c \in Conn, TypeInv, ReplyInv(c), SendDevlistHeader(c)
    PROVE  ReplyInv(c)'
<1> DEFINE h == OpCommon("REP_DEVLIST", "OK")
<1>1. /\ out[c] = << >> /\ pc[c] = "devlist"
      /\ req' = req /\ sent' = sent
      /\ req[c].version = "ok" /\ req[c].status = "OK" /\ req[c].code = "DEVLIST"
  BY DEF SendDevlistHeader, ReplyInv, Place, Serving, Unanswered
<1>2. out'[c] = <<h>>
  BY <1>1, AppendShort DEF SendDevlistHeader, TypeInv, TypeOK
<1>3. pc'[c] = "ndev"
  BY DEF SendDevlistHeader, TypeInv, TypeOK
<1>4. Place(c)'
  BY <1>1, <1>2, <1>3 DEF Place, Serving, Unanswered
<1>5. IsDevlistReply(out'[c]) /\ Len(out'[c]) = 1
  <2>1. Len(<<h>>) = 1 /\ <<h>>[1] = h
    OBVIOUS
  <2>2. QED
    BY <1>2, <2>1 DEF IsDevlistReply
<1>6. QED
  BY <1>1, <1>3, <1>4, <1>5 DEF ReplyInv, Formed, Framed

(* The count: all entries are still to send.                               *)
LEMMA CountSent ==
    ASSUME NEW c \in Conn, TypeInv, ReplyInv(c), SendNDev(c)
    PROVE  ReplyInv(c)'
<1> DEFINE h == OpCommon("REP_DEVLIST", "OK")
           n == Cardinality(Listed(c))
<1>1. /\ out[c] = <<h>> /\ pc[c] = "ndev"
      /\ req' = req /\ sent' = sent /\ snap' = snap
      /\ req[c].version = "ok" /\ req[c].status = "OK" /\ req[c].code = "DEVLIST"
  BY DEF SendNDev, ReplyInv, Place, Serving
<1>2. out'[c] = <<h, NDev(n)>> /\ todo'[c] = Listed(c) /\ pc'[c] = "entries"
  <2>1. out'[c] = Append(<<h>>, NDev(n))
    BY <1>1 DEF SendNDev, TypeInv, TypeOK
  <2>2. QED
    BY <2>1, AppendShort DEF SendNDev, TypeInv, TypeOK
<1>3. Len(out'[c]) = 2 /\ out'[c][1] = h /\ out'[c][2] = NDev(n)
  BY <1>2
<1>4. n \in 0..Cardinality(Dev) /\ Cardinality(Dev) \in Nat
  BY ListedFinite, DevAssumption, FS_CardinalityType
<1>5. Listed(c)' = Listed(c)
  BY <1>1 DEF Listed
<1>6. Place(c)'
  BY <1>1, <1>2 DEF Place, Serving, Unanswered
<1>7. Counted(c)'
  BY <1>2, <1>3, <1>4, <1>5 DEF Counted
<1>8. IsDevlistReply(out'[c])
  BY <1>3, <1>4 DEF IsDevlistReply
<1>9. NDev(n).ndev = n
  BY DEF NDev
<1>10. Framed(c)'
  BY <1>2, <1>3, <1>4, <1>9 DEF Framed
<1>11. QED
  BY <1>1, <1>6, <1>7, <1>8, <1>10 DEF ReplyInv, Formed

(* An entry, which is one of those still to send and none of those sent.   *)
LEMMA EntrySent ==
    ASSUME NEW c \in Conn, TypeInv, ReplyInv(c), SendEntry(c)
    PROVE  ReplyInv(c)'
<1> DEFINE n == Cardinality(Listed(c))
           k == Len(out[c])
<1>1. /\ Counted(c) /\ Framed(c) /\ Formed(c) /\ pc[c] = "entries"
      /\ req' = req /\ sent' = sent /\ snap' = snap /\ pc' = pc
      /\ req[c].version = "ok" /\ req[c].status = "OK" /\ req[c].code = "DEVLIST"
  BY DEF SendEntry, ReplyInv, Place, Serving
<1>2. PICK d \in todo[c] : /\ out'[c] = Append(out[c], Udev(d))
                           /\ todo'[c] = todo[c] \ {d}
  BY DEF SendEntry, TypeInv, TypeOK
<1>3. d \in Dev /\ Udev(d) \in Message /\ out[c] \in Seq(Message)
  BY <1>2 DEF TypeInv, TypeOK, Udev, Message
<1>4. /\ k \in Nat /\ k > 1 /\ Len(out'[c]) = k + 1
      /\ \A i \in 1..k : out'[c][i] = out[c][i]
      /\ out'[c][k + 1] = Udev(d)
  BY <1>1, <1>2, <1>3 DEF Counted
<1>5. n \in Nat /\ IsFiniteSet(Listed(c))
  BY ListedFinite, DevAssumption, FS_CardinalityType
<1>6. /\ IsFiniteSet(todo[c]) /\ Cardinality(todo[c]) \in Nat
      /\ Cardinality(todo'[c]) = Cardinality(todo[c]) - 1
      /\ Cardinality(todo'[c]) \in Nat
  <2>1. IsFiniteSet(todo[c])
    BY <1>1, <1>5, FS_Subset DEF Counted
  <2>2. Cardinality(todo'[c]) = Cardinality(todo[c]) - 1
    BY <1>2, <2>1, FS_RemoveElement
  <2>3. IsFiniteSet(todo'[c])
    BY <1>2, <2>1, FS_Subset
  <2>4. QED
    BY <2>1, <2>2, <2>3, FS_CardinalityType
<1>7. Listed(c)' = Listed(c)
  BY <1>1 DEF Listed
<1>8. Place(c)'
  BY <1>1 DEF Place, Serving, Unanswered
<1>9. Counted(c)'
  <2>1. todo'[c] \subseteq Listed(c)
    BY <1>1, <1>2 DEF Counted
  <2>2. Len(out'[c]) > 1 /\ out'[c][2] = NDev(n)
    BY <1>1, <1>4 DEF Counted
  <2>3. Len(out'[c]) + Cardinality(todo'[c]) = n + 2
    BY <1>1, <1>4, <1>5, <1>6, SMTT(30) DEF Counted
  <2>4. ASSUME NEW i \in 3..Len(out'[c])
        PROVE  \E e \in Listed(c) \ todo'[c] : out'[c][i] = Udev(e)
    <3>1. CASE i = k + 1
      BY <1>1, <1>2, <1>4, <3>1 DEF Counted
    <3>2. CASE i \in 3..k
      BY <1>1, <1>2, <1>4, <3>2 DEF Counted
    <3>3. QED
      BY <1>4, <3>1, <3>2
  <2>5. QED
    BY <1>7, <2>1, <2>2, <2>3, <2>4 DEF Counted
<1>10. Formed(c)'
  <2>1. IsDevlistReply(out[c])
    <3>1. out[c] # << >>
      BY <1>4
    <3>2. QED
      BY <1>1, <3>1 DEF Formed
  <2>2. out'[c][1] = OpCommon("REP_DEVLIST", "OK") /\ out'[c][2] = out[c][2]
    BY <1>4, <2>1, SMTT(30) DEF IsDevlistReply
  <2>3. ASSUME NEW i \in 3..Len(out'[c]) PROVE out'[c][i] \in {Udev(e) : e \in Dev}
    <3>1. CASE i = k + 1
      BY <1>3, <1>4, <3>1
    <3>2. CASE i \in 3..k
      BY <1>4, <2>1, <3>2 DEF IsDevlistReply
    <3>3. QED
      BY <1>4, <3>1, <3>2
  <2>4. out[c][2] \in {NDev(j) : j \in 0..Cardinality(Dev)}
    BY <1>4, <2>1 DEF IsDevlistReply
  <2>5. IsDevlistReply(out'[c])
    BY <2>2, <2>3, <2>4 DEF IsDevlistReply
  <2>6. QED
    BY <1>1, <2>5 DEF Formed
<1>11. Framed(c)'
  <2>1. out'[c][2].ndev = n
    BY <1>1, <1>4 DEF Counted, NDev
  <2>2. Len(out'[c]) <= n + 2
    BY <1>1, <1>4, <1>5, <1>6 DEF Counted
  <2>3. ASSUME NEW i \in 3..k PROVE out[c][i] # Udev(d)
    <3>1. PICK e \in Listed(c) \ todo[c] : out[c][i] = Udev(e)
      BY <1>1 DEF Counted
    <3>2. e # d
      BY <1>2, <3>1
    <3>3. Udev(e).dev = e /\ Udev(d).dev = d
      BY DEF Udev
    <3>4. QED
      BY <3>1, <3>2, <3>3
  <2>4. ASSUME NEW i \in 3..Len(out'[c]), NEW j \in 3..Len(out'[c]),
               out'[c][i] = out'[c][j]
        PROVE  i = j
    <3>1. CASE i \in 3..k /\ j \in 3..k
      BY <1>1, <1>4, <2>4, <3>1 DEF Framed
    <3>2. CASE i = k + 1 \/ j = k + 1
      BY <1>4, <2>3, <2>4, <3>2, SMTT(30)
    <3>3. QED
      BY <1>4, <3>1, <3>2
  <2>5. pc'[c] # "returned_0"
    BY <1>1
  <2>6. QED
    BY <2>1, <2>2, <2>4, <2>5 DEF Framed
<1>12. QED
  BY <1>8, <1>9, <1>10, <1>11 DEF ReplyInv

(* No entry is left: as many were sent as were announced.                  *)
LEMMA ListDone ==
    ASSUME NEW c \in Conn, TypeInv, ReplyInv(c), DevlistDone(c)
    PROVE  ReplyInv(c)'
<1>1. /\ pc[c] = "entries" /\ todo[c] = {} /\ Counted(c)
      /\ out' = out /\ req' = req /\ sent' = sent
  BY DEF DevlistDone, ReplyInv, netVars
<1>2. pc'[c] = "returned_0"
  BY DEF DevlistDone, Return, TypeInv, TypeOK
<1>3. Cardinality(Listed(c)) \in Nat /\ Cardinality(todo[c]) = 0 /\ Len(out[c]) \in Nat
  <2>1. Cardinality(Listed(c)) \in Nat
    BY ListedFinite, DevAssumption, FS_CardinalityType
  <2>2. Cardinality(todo[c]) = 0
    BY <1>1, FS_EmptySet
  <2>3. QED
    BY <2>1, <2>2 DEF TypeInv, TypeOK
<1>4. out[c][2].ndev = Cardinality(Listed(c))
  BY <1>1 DEF Counted, NDev
<1>5. Len(out[c]) = out[c][2].ndev + 2
  BY <1>1, <1>3, <1>4 DEF Counted
<1>6. Place(c)'
  BY <1>2 DEF Place, Serving, Unanswered
<1>7. Framed(c)'
  BY <1>1, <1>2, <1>5 DEF Framed, ReplyInv
<1>8. QED
  BY <1>1, <1>2, <1>6, <1>7 DEF ReplyInv, Formed

-----------------------------------------------------------------------------
(* Every step keeps the invariant of every connection.                     *)
LEMMA ReplyStep ==
    ASSUME TypeInv, \A c \in Conn : ReplyInv(c), [Next]_vars
    PROVE  \A c \in Conn : ReplyInv(c)'
<1> DEFINE Same(b) == /\ pc'[b] = pc[b] /\ out'[b] = out[b] /\ req'[b] = req[b]
                      /\ sent'[b] = sent[b] \/ (sent[b] < 2 /\ TypeOK)
                      /\ todo'[b] = todo[b] /\ snap'[b] = snap[b]
<1>0. TypeOK
  BY DEF TypeInv
<1>a. \A b \in Conn : Same(b) => ReplyInv(b)'
  BY LocalSame
<1>1. ASSUME NEW c \in Conn, ClientStep(c), NEW b \in Conn PROVE ReplyInv(b)'
  <2>1. CASE Connect(c)
    <3>1. b # c => Same(b)
      BY <1>0, <2>1 DEF Connect, TypeOK
    <3>2. b = c => Place(b)' /\ pc'[b] = "queued" /\ out' = out /\ req' = req /\ sent' = sent
      BY <1>0, <2>1 DEF Connect, TypeOK, Place, ReplyInv, Serving, Unanswered
    <3>3. QED
      BY <1>a, <3>1, <3>2, Silent
  <2>2. CASE SendPart(c) \/ ClosePeer(c)
    <3>1. Same(b)
      BY <1>0, <2>2 DEF SendPart, ClosePeer, TypeOK, childVars
    <3>2. QED
      BY <1>a, <3>1
  <2>3. QED
    BY <1>1, <2>1, <2>2 DEF ClientStep
<1>2. ASSUME NEW d \in Dev, KernelStep(d), NEW b \in Conn PROVE ReplyInv(b)'
  <2>1. Same(b)
    BY <1>2 DEF KernelStep, StubReset, Bind, Unbind, netVars, childVars
  <2>2. QED
    BY <1>a, <2>1
<1>3. ASSUME NEW c \in Conn, DaemonStep(c), NEW b \in Conn, b # c PROVE ReplyInv(b)'
  <2>1. Same(b)
    <3> USE <1>0, <1>3 DEF TypeOK, netVars, Return, Fail
    <3>1. CASE Accept(c) \/ Refuse(c) \/ ExitChild(c) \/ RecvHeader(c)
      BY <3>1 DEF Accept, Refuse, ExitChild, RecvHeader
    <3>2. CASE RecvHeaderFails(c) \/ ScanDevice(c) \/ Dispatch(c) \/ DispatchUnknown(c)
      BY <3>2 DEF RecvHeaderFails, ScanDevice, Dispatch, DispatchUnknown
    <3>3. CASE RecvImport(c) \/ RecvImportFails(c) \/ ExportDevice(c)
      BY <3>3 DEF RecvImport, RecvImportFails, ExportDevice
    <3>4. CASE SendImportReply(c) \/ SendImportPdu(c) \/ SendDevlistHeader(c)
      BY <3>4 DEF SendImportReply, SendImportPdu, SendDevlistHeader
    <3>5. CASE SendNDev(c) \/ SendEntry(c) \/ DevlistDone(c) \/ SendReplyFails(c)
      BY <3>5 DEF SendNDev, SendEntry, DevlistDone, SendReplyFails
    <3>6. QED
      BY <3>1, <3>2, <3>3, <3>4, <3>5 DEF DaemonStep, ChildStep
  <2>2. QED
    BY <1>a, <2>1
<1>4. ASSUME NEW c \in Conn, DaemonStep(c) PROVE ReplyInv(c)'
  <2>0. ReplyInv(c) /\ Place(c)
    BY DEF ReplyInv
  <2>1. CASE Accept(c) \/ Refuse(c) \/ ExitChild(c)
    <3>1. /\ pc'[c] = "exited" \/ (pc'[c] = "header" /\ pc[c] = "queued")
          /\ out' = out /\ req' = req /\ sent' = sent
      BY <1>0, <2>1 DEF Accept, Refuse, ExitChild, netVars, TypeOK
    <3>2. Place(c)'
      BY <2>0, <3>1 DEF Place, Serving, Unanswered
    <3>3. QED
      BY <2>0, <3>1, <3>2, Silent
  <2>2. CASE RecvHeader(c)
    <3>1. /\ pc'[c] = "scan" /\ pc[c] = "header" /\ out' = out /\ req' = req /\ sent' = sent
          /\ req[c].version = "ok" /\ req[c].status = "OK"
      BY <1>0, <2>2 DEF RecvHeader, netVars, TypeOK
    <3>2. Place(c)'
      BY <2>0, <3>1 DEF Place, Serving, Unanswered
    <3>3. QED
      BY <2>0, <3>1, <3>2, Silent
  <2>3. CASE RecvHeaderFails(c) \/ DispatchUnknown(c) \/ RecvImportFails(c) \/ SendReplyFails(c)
    <3>1. Return(c, "returned_err") /\ out' = out /\ req' = req /\ sent' = sent
      BY <2>3 DEF RecvHeaderFails, DispatchUnknown, RecvImportFails, SendReplyFails,
                  Fail, netVars
    <3>2. QED
      BY <1>0, <2>0, <3>1, Returns
  <2>4. CASE ScanDevice(c) \/ Dispatch(c)
    <3>1. /\ pc[c] = "scan" /\ out' = out /\ req' = req /\ sent' = sent
          /\ \/ pc'[c] = "scan"
             \/ pc'[c] = "devlist" /\ req[c].code = "DEVLIST"
             \/ pc'[c] = "import" /\ req[c].code = "IMPORT"
      BY <1>0, <2>4 DEF ScanDevice, Dispatch, RequestType, netVars, TypeOK
    <3>2. Place(c)'
      BY <2>0, <3>1 DEF Place, Serving, Unanswered
    <3>3. QED
      BY <2>0, <3>1, <3>2, Silent
  <2>5. CASE RecvImport(c) \/ ExportDevice(c)
    <3>1. CASE RecvImport(c)
      <4>1. /\ pc[c] = "import" /\ sent[c] = 2 /\ pc'[c] \in {"export", "reply"}
            /\ out' = out /\ req' = req /\ sent' = sent
        <5>1. sent[c] >= 2 /\ sent[c] \in 0..2
          BY <1>0, <3>1 DEF RecvImport, Received, TypeOK
        <5>2. pc'[c] \in {"export", "reply"}
          BY <1>0, <3>1 DEF RecvImport, TypeOK
        <5>3. pc[c] = "import" /\ out' = out /\ req' = req /\ sent' = sent
          BY <3>1 DEF RecvImport, netVars
        <5>4. QED
          BY <5>1, <5>2, <5>3
      <4>2. Place(c)'
        BY <2>0, <4>1 DEF Place, Serving, Unanswered
      <4>3. QED
        BY <2>0, <4>1, <4>2, Silent
    <3>2. CASE ExportDevice(c)
      <4>1. /\ pc[c] = "export" /\ pc'[c] = "reply"
            /\ out' = out /\ req' = req /\ sent' = sent
        BY <1>0, <3>2 DEF ExportDevice, netVars, TypeOK
      <4>2. Place(c)'
        BY <2>0, <4>1 DEF Place, Serving, Unanswered
      <4>3. QED
        BY <2>0, <4>1, <4>2, Silent
    <3>3. QED
      BY <2>5, <3>1, <3>2
  <2>6. QED
    BY <1>4, <2>0, <2>1, <2>2, <2>3, <2>4, <2>5, ImportReplySent, ImportPduSent,
       DevlistHeaderSent, CountSent, EntrySent, ListDone
    DEF DaemonStep, ChildStep
<1>5. CASE UNCHANGED vars
  <2>1. \A b \in Conn : Same(b)
    BY <1>5 DEF vars, netVars, childVars
  <2>2. QED
    BY <1>a, <2>1
<1>6. QED
  BY <1>1, <1>2, <1>3, <1>4, <1>5 DEF Next

(* The invariant holds of every connection, always.                        *)
LEMMA RepliesInvariant == Spec => []((\A c \in Conn : ReplyInv(c)) /\ TypeInv)
<1>1. Init => \A c \in Conn : ReplyInv(c)
  BY DEF Init, ReplyInv, Place, Formed, Framed, Serving, Unanswered
<1>2. TypeInv /\ (\A c \in Conn : ReplyInv(c)) /\ [Next]_vars
        => (\A c \in Conn : ReplyInv(c))'
  BY ReplyStep
<1>3. QED
  BY <1>1, <1>2, TypeInvariant, PTL DEF Spec

(* What a client reads, wherever the reply is cut off, is a prefix of a    *)
(* well-formed reply to the request it sent (recv_request_import,          *)
(* send_reply_devlist), for any number of clients and devices.             *)
THEOREM RepliesAreWellFormed == Spec => []ReplyWellFormed
<1>1. (\A c \in Conn : ReplyInv(c)) => ReplyWellFormed
  BY DEF ReplyInv, Formed, ReplyWellFormed
<1>2. QED
  BY <1>1, RepliesInvariant, PTL

(* The count of a device list is the number of its entries, none of which  *)
(* comes twice (the two loops of send_reply_devlist), for any devices.     *)
THEOREM ListsAreFramed == Spec => []DevlistFramed
<1>1. (\A c \in Conn : ReplyInv(c)) => DevlistFramed
  BY DEF ReplyInv, Framed, DevlistFramed
<1>2. QED
  BY <1>1, RepliesInvariant, PTL
-----------------------------------------------------------------------------
(***************************************************************************)
(* The importing client and the daemon together: the composed system       *)
(* contains a daemon as UsbipDaemon describes it, so that what was proved of*)
(* the daemon above can be used here, and an attached port is backed by an *)
(* export.                                                                 *)
(***************************************************************************)

(* A client's step is a step of the daemon's environment, or none of the   *)
(* daemon's business.                                                      *)
LEMMA AttachIsClient ==
    ASSUME NEW c \in Conn, AttachStep(c)
    PROVE  ClientStep(c) \/ UNCHANGED vars
<1>1. CASE TcpConnect(c)
  BY <1>1 DEF TcpConnect, ClientStep
<1>2. CASE SendHeader(c) \/ SendBusid(c)
  BY <1>2 DEF SendHeader, SendBusid, ClientStep
<1>3. CASE CloseSocket(c)
  BY <1>3 DEF CloseSocket, CloseDescriptor, ClientStep
<1>4. CASE \/ RecvReply(c) \/ RecvPdu(c) \/ QueryFails(c)
           \/ DriverOpen(c) \/ DriverOpenFails(c)
           \/ GetFreePort(c) \/ NoFreePort(c)
           \/ AttachPort(c) \/ AttachBusy(c) \/ AttachRefused(c)
           \/ RecordConnection(c)
  BY <1>4 DEF RecvReply, RecvPdu, QueryFails, DriverOpen, DriverOpenFails, GetFreePort,
              NoFreePort, AttachPort, AttachBusy, AttachRefused, RecordConnection
<1> QED
  BY <1>1, <1>2, <1>3, <1>4 DEF AttachStep

(* What a port holds is a connection or nothing.                           *)
PortsTyped == vhci \in [Machine -> [Port -> Conn \cup {NoConn}]]

(* Freeing a port closes its connection, or closes nothing.                *)
LEMMA FreePortIsClient ==
    ASSUME PortsTyped, NEW m \in Machine, NEW p \in Port, FreePort(m, p)
    PROVE  (\E c \in Conn : ClientStep(c)) \/ UNCHANGED vars
  BY DEF PortsTyped, FreePort, ClientStep

(* Every step of the composed system is one of the daemon's, or none.      *)
LEMMA ImportStepIsDaemonStep ==
    ASSUME PortsTyped, ImportNext
    PROVE  [Next]_vars
<1>1. ASSUME NEW c \in Conn, ServerStep(c) PROVE Next
  BY <1>1 DEF ServerStep, Next
<1>2. ASSUME NEW c \in Conn, AttachStep(c) PROVE [Next]_vars
  BY <1>2, AttachIsClient DEF Next
<1>3. ASSUME NEW c \in Conn, ProcessExit(c) PROVE [Next]_vars
  BY <1>3 DEF ProcessExit, CloseDescriptor, Next, ClientStep
<1>4. ASSUME NEW d \in Dev, StubStep(d) PROVE Next
  BY <1>4 DEF StubStep, Next
<1>5. ASSUME NEW m \in Machine, NEW p \in Port, DetachCheck(m, p) PROVE UNCHANGED vars
  BY <1>5 DEF DetachCheck
<1>6. ASSUME NEW m \in Machine, NEW p \in Port, DetachPort(m, p) \/ VhciDown(m, p)
      PROVE  [Next]_vars
  BY <1>6, FreePortIsClient DEF DetachPort, VhciDown, Next
<1> QED
  BY <1>1, <1>2, <1>3, <1>4, <1>5, <1>6 DEF ImportNext

(* The client's own variables are well typed.                              *)
ClientTypeOK ==
    /\ cpc       \in [Conn -> ClientPC]
    /\ fd        \in [Conn -> BOOLEAN]
    /\ free      \in [Conn -> SUBSET Port]
    /\ rhport    \in [Conn -> Port]
    /\ PortsTyped
    /\ detaching \subseteq Machine \X Port

(* Every step of the composed system keeps the client's variables typed.   *)
LEMMA ClientTyped == ImportSpec => []ClientTypeOK
<1>1. ImportInit => ClientTypeOK
  BY DEF ImportInit, ClientTypeOK, ClientPC, PortsTyped
<1>2. ClientTypeOK /\ [ImportNext]_importVars => ClientTypeOK'
  <2> SUFFICES ASSUME ClientTypeOK, [ImportNext]_importVars PROVE ClientTypeOK'
    OBVIOUS
  <2> USE DEF ClientTypeOK, PortsTyped
  <2>1. ASSUME NEW c \in Conn, ServerStep(c) PROVE ClientTypeOK'
    BY <2>1 DEF ServerStep, clientVars
  <2>2. ASSUME NEW c \in Conn, TcpConnect(c) PROVE ClientTypeOK'
    BY <2>2 DEF TcpConnect, Go, ClientPC
  <2>3. ASSUME NEW c \in Conn, SendHeader(c) \/ SendBusid(c) PROVE ClientTypeOK'
    BY <2>3 DEF SendHeader, SendBusid, Go, ClientPC
  <2>4. ASSUME NEW c \in Conn, RecvReply(c) \/ RecvPdu(c) \/ QueryFails(c) PROVE ClientTypeOK'
    <3>1. cpc' \in [Conn -> ClientPC]
      BY <2>4 DEF RecvReply, RecvPdu, QueryFails, Go, ClientPC
    <3> QED
      BY <2>4, <3>1 DEF RecvReply, RecvPdu, QueryFails
  <2>5. ASSUME NEW c \in Conn, DriverOpen(c) PROVE ClientTypeOK'
    BY <2>5 DEF DriverOpen, Go, ClientPC
  <2>6. ASSUME NEW c \in Conn, DriverOpenFails(c) \/ NoFreePort(c) PROVE ClientTypeOK'
    BY <2>6 DEF DriverOpenFails, NoFreePort, Go, ClientPC
  <2>7. ASSUME NEW c \in Conn, GetFreePort(c) PROVE ClientTypeOK'
    BY <2>7 DEF GetFreePort, Go, ClientPC
  <2>8. ASSUME NEW c \in Conn, AttachPort(c) PROVE ClientTypeOK'
    <3>1. MachineOf[c] \in Machine /\ rhport[c] \in Port
      BY MachineAssumption
    <3>2. PortsTyped'
      BY <2>8, <3>1 DEF AttachPort
    <3> QED
      BY <2>8, <3>2 DEF AttachPort, Go, ClientPC
  <2>9. ASSUME NEW c \in Conn, AttachBusy(c) \/ AttachRefused(c) PROVE ClientTypeOK'
    BY <2>9 DEF AttachBusy, AttachRefused, Go, ClientPC
  <2>10. ASSUME NEW c \in Conn, CloseSocket(c) PROVE ClientTypeOK'
    BY <2>10 DEF CloseSocket, CloseDescriptor, Go, ClientPC
  <2>11. ASSUME NEW c \in Conn, RecordConnection(c) PROVE ClientTypeOK'
    BY <2>11 DEF RecordConnection, Go, ClientPC
  <2>12. ASSUME NEW c \in Conn, ProcessExit(c) PROVE ClientTypeOK'
    BY <2>12 DEF ProcessExit, CloseDescriptor, ClientPC
  <2>13. ASSUME NEW d \in Dev, StubStep(d) PROVE ClientTypeOK'
    BY <2>13 DEF StubStep, clientVars
  <2>14. ASSUME NEW m \in Machine, NEW p \in Port, DetachCheck(m, p) PROVE ClientTypeOK'
    BY <2>14 DEF DetachCheck
  <2>15. ASSUME NEW m \in Machine, NEW p \in Port, FreePort(m, p) PROVE PortsTyped'
    BY <2>15 DEF FreePort
  <2>16. ASSUME NEW m \in Machine, NEW p \in Port, DetachPort(m, p) \/ VhciDown(m, p)
         PROVE  ClientTypeOK'
    BY <2>15, <2>16 DEF DetachPort, VhciDown
  <2>17. CASE UNCHANGED importVars
    BY <2>17 DEF importVars, clientVars
  <2> QED
    BY <2>1, <2>2, <2>3, <2>4, <2>5, <2>6, <2>7, <2>8, <2>9, <2>10, <2>11, <2>12, <2>13,
       <2>14, <2>16, <2>17 DEF ImportNext, AttachStep
<1> QED
  BY <1>1, <1>2, PTL DEF ImportSpec

(* The composed system contains the daemon of UsbipDaemon: attach_device   *)
(* is one of the clients it is specified for.                              *)
THEOREM DaemonWithin == ImportSpec => DaemonSpec
<1>1. ImportInit => Init
  BY DEF ImportInit
<1>2. ClientTypeOK /\ [ImportNext]_importVars => [Next]_vars
  BY ImportStepIsDaemonStep DEF ClientTypeOK, importVars
<1> QED
  BY <1>1, <1>2, ClientTyped, PTL DEF ImportSpec, DaemonSpec, Spec

(* Every reachable state of the composed system is well typed: what        *)
(* get_free_port leaves in rhport is a port, what a port owns a socket.    *)
THEOREM ImportTypeCorrect == ImportSpec => []ImportTypeOK
<1>1. TypeOK /\ ClientTypeOK => ImportTypeOK
  BY DEF ImportTypeOK, ClientTypeOK, PortsTyped
<1> QED
  BY <1>1, DaemonWithin, TypeCorrect, ClientTyped, PTL DEF DaemonSpec

(* And so the composed system implements DeviceLease, whatever its clients *)
(* do with what they import.                                               *)
THEOREM ImportImplementsLease == ImportSpec => ImplementsLease
  BY DaemonWithin, DaemonImplementsLease, PTL DEF DaemonSpec

-----------------------------------------------------------------------------
(* AttachedIsExported.  The client acts on an ST_OK it was sent, and what  *)
(* was sent stays sent; the daemon's invariant does the rest.              *)
Promised == {"pdu", "open", "pick", "attach", "close", "record", "done"}
PromisedInv ==
    \A c \in Conn : cpc[c] \in Promised \/ Attached(c) => SaidOk(c)

(* A child only adds to what it sent.                                      *)
LEMMA OutGrows ==
    ASSUME TypeInv, [Next]_vars
    PROVE  \/ out' = out
           \/ \E b \in Conn, m \in Message : out' = [out EXCEPT ![b] = Append(@, m)]
<1> USE DEF TypeInv, TypeOK
<1>1. ASSUME NEW b \in Conn, SendImportReply(b)
      PROVE  \E m \in Message : out' = [out EXCEPT ![b] = Append(@, m)]
  <2>1. OpCommon("REP_IMPORT", status[b]) \in Message
    BY <1>1 DEF SendImportReply, OpCommon, Message
  <2> QED
    BY <1>1, <2>1 DEF SendImportReply
<1>2. ASSUME NEW b \in Conn, SendImportPdu(b)
      PROVE  \E m \in Message : out' = [out EXCEPT ![b] = Append(@, m)]
  <2>1. Udev(req[b].busid) \in Message
    BY DEF Udev, Message, RequestType
  <2> QED
    BY <1>2, <2>1 DEF SendImportPdu
<1>3. ASSUME NEW b \in Conn, SendDevlistHeader(b)
      PROVE  \E m \in Message : out' = [out EXCEPT ![b] = Append(@, m)]
  <2>1. OpCommon("REP_DEVLIST", "OK") \in Message
    BY DEF OpCommon, Message, OpStatus
  <2> QED
    BY <1>3, <2>1 DEF SendDevlistHeader
<1>4. ASSUME NEW b \in Conn, SendNDev(b)
      PROVE  \E m \in Message : out' = [out EXCEPT ![b] = Append(@, m)]
  <2>1. NDev(Cardinality(Listed(b))) \in Message
    BY DevAssumption, FS_Subset, FS_CardinalityType DEF Listed, NDev, Message
  <2> QED
    BY <1>4, <2>1 DEF SendNDev
<1>5. ASSUME NEW b \in Conn, SendEntry(b)
      PROVE  \E m \in Message : out' = [out EXCEPT ![b] = Append(@, m)]
  <2>1. PICK d \in todo[b] : out' = [out EXCEPT ![b] = Append(@, Udev(d))]
    BY <1>5 DEF SendEntry
  <2>2. Udev(d) \in Message
    BY <2>1 DEF Udev, Message
  <2> QED
    BY <2>1, <2>2
<1>6. ASSUME NEW b \in Conn,
             \/ ClientStep(b) \/ Accept(b) \/ Refuse(b) \/ RecvHeader(b) \/ RecvHeaderFails(b)
             \/ ScanDevice(b) \/ Dispatch(b) \/ DispatchUnknown(b) \/ RecvImport(b)
             \/ RecvImportFails(b) \/ ExportDevice(b) \/ DevlistDone(b) \/ SendReplyFails(b)
             \/ ExitChild(b)
      PROVE  out' = out
  BY <1>6 DEF ClientStep, Connect, SendPart, ClosePeer, Accept, Refuse, RecvHeader,
              RecvHeaderFails, ScanDevice, Dispatch, DispatchUnknown, RecvImport,
              RecvImportFails, ExportDevice, DevlistDone, SendReplyFails, ExitChild, netVars
<1>7. ASSUME NEW d \in Dev, KernelStep(d) PROVE out' = out
  BY <1>7 DEF KernelStep, StubReset, Bind, Unbind, netVars
<1>8. CASE UNCHANGED vars
  BY <1>8 DEF vars, netVars
<1> QED
  BY <1>1, <1>2, <1>3, <1>4, <1>5, <1>6, <1>7, <1>8 DEF Next, DaemonStep, ChildStep

(* An ST_OK that was sent stays sent.                                      *)
LEMMA OkStays ==
    ASSUME TypeInv, [Next]_vars, NEW c \in Conn, SaidOk(c)
    PROVE  SaidOk(c)'
<1>1. CASE out'[c] = out[c]
  BY <1>1 DEF SaidOk, Said
<1>2. CASE \E m \in Message : out'[c] = Append(out[c], m)
  <2>1. out[c] \in Seq(Message)
    BY DEF TypeInv, TypeOK
  <2>2. PICK m \in Message : out'[c] = Append(out[c], m)
    BY <1>2
  <2>3. \E i \in 1..Len(Append(out[c], m)) :
            Append(out[c], m)[i] = OpCommon("REP_IMPORT", "OK")
    BY <2>1, SaidAppend DEF SaidOk, Said
  <2> QED
    BY <2>2, <2>3 DEF SaidOk, Said
<1>3. out'[c] = out[c] \/ \E m \in Message : out'[c] = Append(out[c], m)
  BY OutGrows DEF TypeInv, TypeOK
<1> QED
  BY <1>1, <1>2, <1>3

(* The client acts only on an ST_OK it was sent.                           *)
LEMMA PromisedHolds == ImportSpec => []PromisedInv
<1>1. ImportInit => PromisedInv
  BY NoConnAssumption, MachineAssumption DEF ImportInit, PromisedInv, Promised, Attached, PortOf
<1>2. /\ TypeInv /\ ClientTypeOK /\ PromisedInv
      /\ [Next]_vars /\ [ImportNext]_importVars
      => PromisedInv'
  <2> SUFFICES ASSUME TypeInv, ClientTypeOK, PromisedInv, [Next]_vars, [ImportNext]_importVars,
                      NEW c \in Conn, cpc'[c] \in Promised \/ Attached(c)'
               PROVE  SaidOk(c)'
    BY DEF PromisedInv
  <2>1. SUFFICES SaidOk(c)
    BY OkStays
  <2> USE DEF PromisedInv, ClientTypeOK, PortsTyped
  <2>2. ASSUME cpc'[c] \in Promised => cpc[c] \in Promised, Attached(c)' => Attached(c)
        PROVE  SaidOk(c)
    BY <2>2
  <2>3. ASSUME NEW b \in Conn, RecvReply(b) PROVE SaidOk(c)
    <3>1. CASE b = c /\ cpc'[c] = "pdu"
      <4>1. out[c] \in Seq(Message)
        BY DEF TypeInv, TypeOK
      <4>2. Len(out[c]) >= 1 /\ out[c][1] = OpCommon("REP_IMPORT", "OK")
        BY <2>3, <3>1 DEF RecvReply, Go
      <4> QED
        BY <4>1, <4>2 DEF SaidOk, Said
    <3>2. CASE ~ (b = c /\ cpc'[c] = "pdu")
      BY <2>2, <2>3, <3>2 DEF RecvReply, Go, Promised, Attached, PortOf
    <3> QED
      BY <3>1, <3>2
  <2>4. ASSUME NEW b \in Conn, AttachPort(b) PROVE SaidOk(c)
    <3>1. SaidOk(b)
      BY <2>4 DEF AttachPort, Go, Promised
    <3>2. CASE b = c
      BY <3>1, <3>2
    <3>3. CASE b # c
      <4>1. Attached(c)' => Attached(c)
        BY <2>4, <3>3, MachineAssumption DEF AttachPort, Attached, PortOf
      <4>2. cpc'[c] = cpc[c]
        BY <2>4, <3>3 DEF AttachPort, Go
      <4> QED
        BY <2>2, <4>1, <4>2
    <3> QED
      BY <3>2, <3>3
  <2>5. ASSUME NEW b \in Conn,
               \/ TcpConnect(b) \/ SendHeader(b) \/ SendBusid(b) \/ RecvPdu(b) \/ QueryFails(b)
               \/ DriverOpen(b) \/ DriverOpenFails(b) \/ GetFreePort(b) \/ NoFreePort(b)
               \/ AttachBusy(b) \/ AttachRefused(b)
        PROVE  SaidOk(c)
    <3>1. Attached(c)' => Attached(c)
      BY <2>5 DEF TcpConnect, SendHeader, SendBusid, RecvPdu, QueryFails, DriverOpen,
         DriverOpenFails, GetFreePort, NoFreePort, AttachBusy, AttachRefused, Attached, PortOf
    <3>2. cpc'[c] \in Promised => cpc[c] \in Promised
      BY <2>5 DEF TcpConnect, SendHeader, SendBusid, RecvPdu, QueryFails, DriverOpen,
         DriverOpenFails, GetFreePort, NoFreePort, AttachBusy, AttachRefused, Go, Promised
    <3> QED
      BY <2>2, <3>1, <3>2
  <2>6. ASSUME NEW b \in Conn, CloseSocket(b) \/ RecordConnection(b) \/ ProcessExit(b)
        PROVE  SaidOk(c)
    <3>1. Attached(c)' => Attached(c)
      BY <2>6 DEF CloseSocket, RecordConnection, ProcessExit, Attached, PortOf
    <3>2. cpc'[c] \in Promised => cpc[c] \in Promised
      BY <2>6 DEF CloseSocket, RecordConnection, ProcessExit, Go, Promised
    <3> QED
      BY <2>2, <3>1, <3>2
  <2>7. ASSUME NEW m \in Machine, NEW p \in Port, DetachPort(m, p) \/ VhciDown(m, p)
        PROVE  SaidOk(c)
    <3>1. ASSUME NEW q \in Port, vhci'[MachineOf[c]][q] = c
          PROVE  vhci[MachineOf[c]][q] = c
      <4>1. vhci' = [vhci EXCEPT ![m][p] = NoConn]
        BY <2>7 DEF DetachPort, VhciDown, FreePort
      <4>2. MachineOf[c] \in Machine /\ c # NoConn
        BY NoConnAssumption, MachineAssumption
      <4>3. CASE m = MachineOf[c] /\ p = q
        BY <3>1, <4>1, <4>2, <4>3
      <4>4. CASE ~ (m = MachineOf[c] /\ p = q)
        BY <3>1, <4>1, <4>2, <4>4
      <4> QED
        BY <4>3, <4>4
    <3>3. Attached(c)' => Attached(c)
      BY <3>1 DEF Attached, PortOf
    <3>2. cpc'[c] = cpc[c]
      BY <2>7 DEF DetachPort, VhciDown
    <3> QED
      BY <2>2, <3>3, <3>2
  <2>8. ASSUME UNCHANGED <<cpc, vhci>> PROVE SaidOk(c)
    BY <2>8 DEF Attached, PortOf
  <2>9. ASSUME \/ \E b \in Conn : ServerStep(b)
               \/ \E d \in Dev : StubStep(d)
               \/ \E m \in Machine, p \in Port : DetachCheck(m, p)
               \/ UNCHANGED importVars
        PROVE  UNCHANGED <<cpc, vhci>>
    BY <2>9 DEF ServerStep, StubStep, DetachCheck, clientVars, importVars
  <2> QED
    BY <2>3, <2>4, <2>5, <2>6, <2>7, <2>8, <2>9 DEF ImportNext, AttachStep
<1> QED
  BY <1>1, <1>2, DaemonWithin, TypeInvariant, ClientTyped, PTL DEF ImportSpec, DaemonSpec, Spec

-----------------------------------------------------------------------------
(* PortKeepsConnection.  While the process has its descriptor, or a port   *)
(* has the socket, the client's end is open; a call attaches one port, on  *)
(* its own machine, and that only before it closes its descriptor.         *)
BeforeAttach == {"idle", "header", "busid", "reply", "pdu", "open", "pick", "attach"}
HasSocket    == {"header", "busid", "reply", "pdu", "open", "pick", "attach", "close"}

FdInv ==
    \A c \in Conn :
        /\ fd[c] => peer[c] = "open"
        /\ cpc[c] \in HasSocket => fd[c]

PortInv ==
    \A m \in Machine, p \in Port : vhci[m][p] # NoConn =>
        LET c == vhci[m][p] IN
        /\ MachineOf[c] = m
        /\ peer[c] = "open"
        /\ cpc[c] \notin BeforeAttach
        /\ \A q \in Port : vhci[m][q] = c => q = p

ClientInv == FdInv /\ PortInv

(* Neither the daemon nor its kernel closes the client's end.              *)
LEMMA ServerKeepsPeer ==
    ASSUME \/ \E c \in Conn : DaemonStep(c)
           \/ \E d \in Dev : KernelStep(d)
    PROVE  peer' = peer
  BY DEF DaemonStep, ChildStep, KernelStep, Accept, Refuse, RecvHeader, RecvHeaderFails,
         ScanDevice, Dispatch, DispatchUnknown, RecvImport, RecvImportFails, ExportDevice,
         SendImportReply, SendImportPdu, SendDevlistHeader, SendNDev, SendEntry,
         DevlistDone, SendReplyFails, ExitChild, StubReset, Bind, Unbind, netVars

(* The connection of an attached port stays up, whatever the process does  *)
(* with its descriptor; and a connection is given to one port.             *)
LEMMA ClientInvariant == ImportSpec => []ClientInv
<1>1. ImportInit => ClientInv
  BY DEF ImportInit, ClientInv, FdInv, PortInv, HasSocket
<1>2. TypeOK /\ ClientTypeOK /\ ClientInv /\ [ImportNext]_importVars => ClientInv'
  <2> SUFFICES ASSUME TypeOK, ClientTypeOK, ClientInv, [ImportNext]_importVars
               PROVE  ClientInv'
    OBVIOUS
  <2> USE NoConnAssumption, MachineAssumption DEF ClientInv, ClientTypeOK, PortsTyped
  <2>1. peer \in [Conn -> {"none", "open", "closed"}]
    BY DEF TypeOK
  <2>2. ASSUME peer' = peer, UNCHANGED <<cpc, fd, vhci>> PROVE ClientInv'
    BY <2>2 DEF FdInv, PortInv
  <2>3. ASSUME NEW c \in Conn, TcpConnect(c) PROVE ClientInv'
    <3>1. /\ cpc[c] = "idle" /\ cpc' = [cpc EXCEPT ![c] = "header"]
          /\ fd' = [fd EXCEPT ![c] = TRUE]
          /\ peer' = [peer EXCEPT ![c] = "open"]
          /\ vhci' = vhci
      BY <2>3 DEF TcpConnect, Go, Connect
    <3>2. FdInv'
      BY <2>1, <3>1 DEF FdInv, HasSocket
    <3>3. PortInv'
      BY <2>1, <3>1 DEF PortInv, BeforeAttach
    <3> QED
      BY <3>2, <3>3
  <2>4. ASSUME NEW c \in Conn, NEW s \in ClientPC,
               cpc' = [cpc EXCEPT ![c] = s],
               s \in HasSocket => cpc[c] \in HasSocket,
               s \in BeforeAttach => cpc[c] \in BeforeAttach,
               peer' = peer, fd' = fd, vhci' = vhci
        PROVE  ClientInv'
    <3>1. FdInv'
      BY <2>4 DEF FdInv
    <3>2. PortInv'
      BY <2>4 DEF PortInv
    <3> QED
      BY <3>1, <3>2
  <2>5. ASSUME NEW c \in Conn,
               \/ SendHeader(c) \/ SendBusid(c) \/ RecvReply(c) \/ RecvPdu(c) \/ QueryFails(c)
               \/ DriverOpen(c) \/ DriverOpenFails(c) \/ GetFreePort(c) \/ NoFreePort(c)
               \/ AttachBusy(c) \/ AttachRefused(c) \/ RecordConnection(c)
        PROVE  ClientInv'
    <3>1. peer' = peer /\ fd' = fd /\ vhci' = vhci
      BY <2>5 DEF SendHeader, SendBusid, SendPart, RecvReply, RecvPdu, QueryFails, DriverOpen,
         DriverOpenFails, GetFreePort, NoFreePort, AttachBusy, AttachRefused,
         RecordConnection, vars, netVars
    <3>2. \E s \in ClientPC : /\ cpc' = [cpc EXCEPT ![c] = s]
                              /\ s \in HasSocket => cpc[c] \in HasSocket
                              /\ s \in BeforeAttach => cpc[c] \in BeforeAttach
      BY <2>5 DEF SendHeader, SendBusid, RecvReply, RecvPdu, QueryFails, DriverOpen,
         DriverOpenFails, GetFreePort, NoFreePort, AttachBusy, AttachRefused,
         RecordConnection, Go, ClientPC, HasSocket, BeforeAttach
    <3> QED
      BY <2>4, <3>1, <3>2
  <2>6. ASSUME NEW c \in Conn, AttachPort(c) PROVE ClientInv'
    <3> DEFINE m == MachineOf[c]
               p == rhport[c]
    <3>1. /\ m \in Machine /\ p \in Port
          /\ cpc[c] = "attach" /\ cpc' = [cpc EXCEPT ![c] = "close"]
          /\ vhci' = [vhci EXCEPT ![m][p] = c]
          /\ peer' = peer /\ fd' = fd
      BY <2>6 DEF AttachPort, Go, vars, netVars
    <3> HIDE DEF m, p
    <3>2. FdInv'
      BY <3>1 DEF FdInv, HasSocket
    <3>3. ASSUME NEW q \in Port PROVE vhci[m][q] # c
      <4>1. SUFFICES ASSUME vhci[m][q] = c PROVE FALSE
        OBVIOUS
      <4>2. m \in Machine /\ vhci[m][q] # NoConn
        BY <3>1, <4>1
      <4>3. cpc[c] \notin BeforeAttach
        BY <4>1, <4>2 DEF PortInv
      <4> QED
        BY <3>1, <4>3 DEF BeforeAttach
    <3>4. ASSUME NEW n \in Machine, NEW q \in Port, vhci'[n][q] # NoConn
          PROVE  LET b == vhci'[n][q] IN
                 /\ MachineOf[b] = n /\ peer'[b] = "open" /\ cpc'[b] \notin BeforeAttach
                 /\ \A r \in Port : vhci'[n][r] = b => r = q
      <4>1. CASE n = m /\ q = p
        <5>1. vhci'[n][q] = c
          BY <3>1, <4>1
        <5>2. MachineOf[c] = n /\ peer'[c] = "open" /\ cpc'[c] \notin BeforeAttach
          BY <3>1, <4>1 DEF FdInv, HasSocket, BeforeAttach, m
        <5>3. ASSUME NEW r \in Port, vhci'[n][r] = c PROVE r = q
          BY <3>1, <3>3, <4>1, <5>3
        <5> QED
          BY <5>1, <5>2, <5>3
      <4>2. CASE ~ (n = m /\ q = p)
        <5> DEFINE b == vhci[n][q]
        <5>1. vhci'[n][q] = b
          BY <3>1, <4>2
        <5>2. /\ b \in Conn /\ MachineOf[b] = n /\ peer[b] = "open"
              /\ cpc[b] \notin BeforeAttach
              /\ \A r \in Port : vhci[n][r] = b => r = q
          BY <3>4, <5>1 DEF PortInv
        <5>3. b # c
          BY <3>1, <5>2 DEF BeforeAttach
        <5>4. ASSUME NEW r \in Port, vhci'[n][r] = b PROVE r = q
          BY <3>1, <5>2, <5>3, <5>4
        <5> QED
          BY <3>1, <5>1, <5>2, <5>3, <5>4
      <4> QED
        BY <4>1, <4>2
    <3>5. PortInv'
      BY <3>4 DEF PortInv
    <3> QED
      BY <3>2, <3>5
  <2>7. ASSUME NEW c \in Conn, NEW s \in {"record", "exited"},
               cpc' = [cpc EXCEPT ![c] = s], CloseDescriptor(c), vhci' = vhci
        PROVE  ClientInv'
    <3>1. \/ peer' = peer
          \/ peer' = [peer EXCEPT ![c] = "closed"] /\ ~ Attached(c)
      BY <2>7 DEF CloseDescriptor, ClosePeer, vars, netVars
    <3>2. fd' = [fd EXCEPT ![c] = FALSE]
      BY <2>7 DEF CloseDescriptor
    <3>3. FdInv'
      BY <2>1, <2>7, <3>1, <3>2 DEF FdInv, HasSocket
    <3>4. ASSUME NEW m \in Machine, NEW p \in Port, vhci[m][p] # NoConn
          PROVE  peer'[vhci[m][p]] = "open" /\ cpc'[vhci[m][p]] \notin BeforeAttach
      <4>1. vhci[m][p] = c => Attached(c)
        BY <3>4 DEF PortInv, Attached, PortOf
      <4> QED
        BY <2>1, <2>7, <3>1, <3>4, <4>1 DEF PortInv, BeforeAttach
    <3>5. PortInv'
      BY <2>7, <3>4 DEF PortInv
    <3> QED
      BY <3>3, <3>5
  <2>8. ASSUME NEW m \in Machine, NEW p \in Port, FreePort(m, p), UNCHANGED <<cpc, fd>>
        PROVE  ClientInv'
    <3> DEFINE c == vhci[m][p]
    <3>1. /\ vhci' = [vhci EXCEPT ![m][p] = NoConn]
          /\ \/ peer' = peer
             \/ c \in Conn /\ ~ fd[c] /\ peer' = [peer EXCEPT ![c] = "closed"]
      BY <2>8 DEF FreePort, ClosePeer, vars, netVars
    <3>2. FdInv'
      BY <2>1, <2>8, <3>1 DEF FdInv
    <3>3. ASSUME NEW n \in Machine, NEW q \in Port, vhci'[n][q] # NoConn
          PROVE  /\ vhci'[n][q] = vhci[n][q]
                 /\ c # NoConn => vhci[n][q] # c
      <4>1. CASE n = m /\ q = p
        BY <3>1, <3>3, <4>1
      <4>2. CASE ~ (n = m /\ q = p)
        <5>1. vhci'[n][q] = vhci[n][q]
          BY <3>1, <4>2
        <5>2. ASSUME c # NoConn, vhci[n][q] = c PROVE n = m /\ q = p
          BY <5>2 DEF PortInv
        <5> QED
          BY <4>2, <5>1, <5>2
      <4> QED
        BY <4>1, <4>2
    <3>4. ASSUME NEW n \in Machine, NEW q \in Port, vhci'[n][q] # NoConn
          PROVE  LET b == vhci'[n][q] IN
                 /\ MachineOf[b] = n /\ peer'[b] = "open" /\ cpc'[b] \notin BeforeAttach
                 /\ \A r \in Port : vhci'[n][r] = b => r = q
      <4> DEFINE b == vhci[n][q]
      <4>1. /\ b \in Conn /\ MachineOf[b] = n /\ peer[b] = "open"
            /\ cpc[b] \notin BeforeAttach
            /\ \A r \in Port : vhci[n][r] = b => r = q
        BY <3>3, <3>4 DEF PortInv
      <4>2. peer'[b] = "open"
        BY <2>1, <3>1, <3>3, <3>4, <4>1
      <4>3. ASSUME NEW r \in Port, vhci'[n][r] = b PROVE r = q
        BY <3>3, <4>1, <4>3
      <4> QED
        BY <2>8, <3>3, <3>4, <4>1, <4>2, <4>3
    <3>5. PortInv'
      BY <3>4 DEF PortInv
    <3> QED
      BY <3>2, <3>5
  <2>9. ASSUME \/ \E c \in Conn : ServerStep(c)
               \/ \E d \in Dev : StubStep(d)
               \/ \E m \in Machine, p \in Port : DetachCheck(m, p)
               \/ UNCHANGED importVars
        PROVE  peer' = peer /\ UNCHANGED <<cpc, fd, vhci>>
    BY <2>9, ServerKeepsPeer DEF ServerStep, StubStep, DetachCheck, clientVars, importVars,
       vars, netVars
  <2>10. ASSUME NEW c \in Conn, CloseSocket(c) \/ ProcessExit(c) PROVE ClientInv'
    BY <2>7, <2>10 DEF CloseSocket, ProcessExit, Go
  <2>11. ASSUME NEW m \in Machine, NEW p \in Port, DetachPort(m, p) \/ VhciDown(m, p)
         PROVE  ClientInv'
    BY <2>8, <2>11 DEF DetachPort, VhciDown
  <2> QED
    BY <2>2, <2>3, <2>5, <2>6, <2>9, <2>10, <2>11 DEF ImportNext, AttachStep
<1> QED
  BY <1>1, <1>2, DaemonWithin, TypeCorrect, ClientTyped, PTL DEF ImportSpec, DaemonSpec

(* The connection of an attached port is open at the client's end although *)
(* attach_device closed its descriptor, and no other port lives on it.     *)
THEOREM PortOwnsConnection == ImportSpec => []PortKeepsConnection
<1>1. ClientInv /\ ClientTypeOK => PortKeepsConnection
  BY DEF ClientInv, PortInv, PortKeepsConnection
<1> QED
  BY <1>1, ClientInvariant, ClientTyped, PTL

-----------------------------------------------------------------------------
(* An attached port drives a device that the server exported to the port's *)
(* own connection, for as long as that is up.                              *)
THEOREM AttachedIsBacked == ImportSpec => []AttachedIsExported
<1>1. OkReplyBacked /\ PromisedInv /\ PortInv /\ ClientTypeOK => AttachedIsExported
  <2> SUFFICES ASSUME OkReplyBacked, PromisedInv, PortInv, ClientTypeOK,
                      NEW m \in Machine, NEW p \in Port,
                      vhci[m][p] # NoConn, sock[vhci[m][p]] = "open"
               PROVE  holder[req[vhci[m][p]].busid] = vhci[m][p]
    BY DEF AttachedIsExported
  <2>1. vhci[m][p] \in Conn /\ Attached(vhci[m][p])
    BY DEF ClientTypeOK, PortsTyped, PortInv, Attached, PortOf
  <2> QED
    BY <2>1 DEF OkReplyBacked, PromisedInv
<1> QED
  BY <1>1, DaemonWithin, OkReplyIsBacked, PromisedHolds, ClientInvariant, ClientTyped, PTL
  DEF DaemonSpec, ClientInv

(* No two ports, of one machine or of two, drive the same device over      *)
(* connections that are both up: the server gave it to one connection, and *)
(* only one port lives on that.                                            *)
DrivenOnce ==
    \A m, n \in Machine : \A p, q \in Port :
        /\ vhci[m][p] # NoConn /\ vhci[n][q] # NoConn
        /\ sock[vhci[m][p]] = "open" /\ sock[vhci[n][q]] = "open"
        /\ req[vhci[m][p]].busid = req[vhci[n][q]].busid
        => m = n /\ p = q

(* At every moment of the composed system, for any number of machines,     *)
(* ports and calls of attach_device.                                       *)
THEOREM DeviceIsDrivenOnce == ImportSpec => []DrivenOnce
<1>1. AttachedIsExported /\ PortKeepsConnection => DrivenOnce
  BY DEF AttachedIsExported, PortKeepsConnection, DrivenOnce
<1> QED
  BY <1>1, AttachedIsBacked, PortOwnsConnection, PTL
=============================================================================
