---------------------------- MODULE UsbipDaemon ----------------------------
(***************************************************************************)
(* usbipd: the daemon that exports USB devices (src/src/server/usbipd.c),  *)
(* with the library calls a request makes (src/src/libs/usbip_host_common.c*)
(* and src/src/server/usbip_network.c).                                    *)
(*                                                                         *)
(* The parent accepts a connection and forks a child.  The child receives  *)
(* one request, rebuilds its private list of exportable devices from       *)
(* sysfs, one device at a time, and serves the request from that list.     *)
(* To export a device it writes the connection's descriptor to the stub    *)
(* driver's usbip_sockfd attribute: from then on the stub keeps the        *)
(* socket, also after the child has exited.                                *)
(*                                                                         *)
(* Children share no memory.  What they race for is the stub driver's      *)
(* state, which the child reads (status) and, later, writes (sockfd).      *)
(* The stub driver, the network and the client are the environment, and    *)
(* are modelled by the most general behaviour the code has to cope with.   *)
(***************************************************************************)
EXTENDS Naturals, Sequences, FiniteSets

CONSTANTS Conn,      \* connections; each carries one request
          Dev,       \* USB devices of the server, named by their busid
          NoConn,    \* "no socket"
          Requests,  \* the requests clients may send
          Vudc,      \* started with -e: the devices are gadgets on a vudc
          CutPath    \* devices whose sysfs path has more than 31 characters

(* What a request holds that the daemon looks at: the version and status   *)
(* of its op_common header, its operation code, and the busid of an import *)
RequestType == [version : {"ok", "other"}, status : {"OK", "error"},
                code : {"DEVLIST", "IMPORT", "other"}, busid : Dev]

ASSUME NoConnAssumption   == NoConn \notin Conn
ASSUME RequestsAssumption == Requests \subseteq RequestType
ASSUME DevAssumption      == IsFiniteSet(Dev)
ASSUME DriverAssumption   == Vudc \in BOOLEAN /\ CutPath \subseteq Dev

VARIABLES
    bound,    \* bound[d]: usbip-host drives it; or the vudc has a gadget
    stub,     \* stub[d]: its usbip_status, meaningful while bound
    holder,   \* holder[d]: connection whose socket the stub owns
    peer,     \* peer[c]: the client's end of the connection
    sock,     \* sock[c]: the server's end
    req,      \* req[c]: the request the client sends on c
    sent,     \* sent[c]: parts of it sent: 0, 1 (header) or 2 (busid)
    out,      \* out[c]: what the daemon sent on c, in order
    pc,       \* pc[c]: where the process serving c stands
    todo,     \* todo[c]: entries of the loop in progress still to visit
    snap,     \* snap[c]: the child's edev_list: the status it read of each
    status    \* status[c]: result of usbip_export_device

kernelVars == <<bound, stub, holder>>
netVars    == <<peer, sock, req, sent, out>>
childVars  == <<pc, todo, snap, status>>
vars       == <<kernelVars, netVars, childVars>>

StubStatus == {"AVAILABLE", "USED", "ERROR"}          \* SDEV_ST_*
ReadStatus == StubStatus \cup {"UNKNOWN", "absent"}   \* in an edev_list
OpStatus   == {"OK", "NA", "DEV_BUSY", "DEV_ERR", "NODEV"}   \* ST_*

Message == [kind : {"REP_IMPORT", "REP_DEVLIST"}, status : OpStatus]
             \cup [kind : {"NDEV"}, ndev : Nat]
             \cup [kind : {"UDEV"}, dev : Dev]

OpCommon(kind, st) == [kind |-> kind, status |-> st]
NDev(n)            == [kind |-> "NDEV", ndev |-> n]
Udev(d)            == [kind |-> "UDEV", dev |-> d]

(* "idle": no connection yet.  "queued": in the listen backlog.  Then the  *)
(* child's progress until recv_pdu returns 0 or -1, and exit(0).           *)
Serving  == {"header", "scan", "import", "export", "reply", "pdu",
             "devlist", "ndev", "entries"}
Returned == {"returned_0", "returned_err"}
Ended    == Returned \cup {"exited"}

TypeOK ==
    /\ bound  \in [Dev -> BOOLEAN]
    /\ stub   \in [Dev -> StubStatus]
    /\ holder \in [Dev -> Conn \cup {NoConn}]
    /\ peer   \in [Conn -> {"none", "open", "closed"}]
    /\ sock   \in [Conn -> {"none", "open", "down"}]
    /\ req    \in [Conn -> RequestType]
    /\ sent   \in [Conn -> 0..2]
    /\ out    \in [Conn -> Seq(Message)]
    /\ pc     \in [Conn -> {"idle", "queued"} \cup Serving \cup Ended]
    /\ todo   \in [Conn -> SUBSET Dev]
    /\ snap   \in [Conn -> [Dev -> ReadStatus]]
    /\ status \in [Conn -> OpStatus \cup {"none"}]

EmptyList == [d \in Dev |-> "absent"]

Init ==
    /\ bound  \in [Dev -> BOOLEAN]
    /\ stub   = [d \in Dev |-> "AVAILABLE"]
    /\ holder = [d \in Dev |-> NoConn]
    /\ peer   = [c \in Conn |-> "none"]
    /\ sock   = [c \in Conn |-> "none"]
    /\ req    \in [Conn -> Requests]
    /\ sent   = [c \in Conn |-> 0]
    /\ out    = [c \in Conn |-> << >>]
    /\ pc     = [c \in Conn |-> "idle"]
    /\ todo   = [c \in Conn |-> {}]
    /\ snap   = [c \in Conn |-> EmptyList]
    /\ status = [c \in Conn |-> "none"]

-----------------------------------------------------------------------------
(* The client, as the daemon sees it: it may send its request in two       *)
(* parts, stop half way, and go away (or be cut off) at any time.          *)

Connect(c) ==
    /\ pc[c] = "idle"
    /\ pc'   = [pc EXCEPT ![c] = "queued"]
    /\ peer' = [peer EXCEPT ![c] = "open"]
    /\ sock' = [sock EXCEPT ![c] = "open"]
    /\ UNCHANGED <<kernelVars, req, sent, out, todo, snap, status>>

SendPart(c) ==
    /\ peer[c] = "open"
    /\ sent[c] < 2
    /\ sent' = [sent EXCEPT ![c] = @ + 1]
    /\ UNCHANGED <<kernelVars, peer, sock, req, out, childVars>>

ClosePeer(c) ==
    /\ peer[c] = "open"
    /\ peer' = [peer EXCEPT ![c] = "closed"]
    /\ UNCHANGED <<kernelVars, sock, req, sent, out, childVars>>

ClientStep(c) == Connect(c) \/ SendPart(c) \/ ClosePeer(c)

-----------------------------------------------------------------------------
(* Sockets, as usbip_net_xmit meets them.                                  *)

(* A receive of the n-th part completes when it was sent, before or after  *)
(* the peer closed; it fails (recv returns 0) when it never will be.       *)
Received(c, n) == sent[c] >= n
RecvIgnoresEof(c, n) ==      \* mutant: only a negative result ends the loop
    sent[c] < n /\ sock[c] = "down"
RecvFails(c, n) == sent[c] < n /\ (peer[c] = "closed" \/ sock[c] = "down")

(* A send to a closed peer may still be buffered, or fail.                 *)
CanSend(c)   == sock[c] = "open"
SendFails(c) == peer[c] = "closed" \/ sock[c] = "down"

(* Closing the daemon's descriptor takes the connection down, unless the   *)
(* stub took a reference to the socket.                                    *)
StubKeeps(c) == \E d \in Dev : holder[d] = c
CloseConnfd(c) ==
    sock' = IF StubKeeps(c) THEN sock ELSE [sock EXCEPT ![c] = "down"]

(* recv_pdu returns; the child's list of devices is of no use any more.    *)
Return(c, rc) ==
    /\ pc'   = [pc EXCEPT ![c] = rc]
    /\ todo' = [todo EXCEPT ![c] = {}]
    /\ snap' = [snap EXCEPT ![c] = EmptyList]

Fail(c) == Return(c, "returned_err")

-----------------------------------------------------------------------------
(* The parent: do_accept and fork of process_request.                      *)

Accept(c) ==
    /\ pc[c] = "queued"
    /\ pc' = [pc EXCEPT ![c] = "header"]
    /\ UNCHANGED <<kernelVars, netVars, todo, snap, status>>

(* tcpd_auth denies the host, or fork fails: the parent closes connfd.     *)
Refuse(c) ==
    /\ pc[c] = "queued"
    /\ pc' = [pc EXCEPT ![c] = "exited"]
    /\ CloseConnfd(c)
    /\ UNCHANGED <<kernelVars, peer, req, sent, out, todo, snap, status>>

(* exit(0) of the child.                                                   *)
ExitChild(c) ==
    /\ pc[c] \in Returned
    /\ pc' = [pc EXCEPT ![c] = "exited"]
    /\ CloseConnfd(c)
    /\ UNCHANGED <<kernelVars, peer, req, sent, out, todo, snap, status>>

-----------------------------------------------------------------------------
(* The child: recv_pdu.                                                    *)

(* usbip_net_recv_op_common, then usbip_refresh_device_list empties the    *)
(* list and enumerates the devices of the subsystem.                       *)
RecvHeader(c) ==
    /\ pc[c] = "header"
    /\ Received(c, 1)
    /\ req[c].version = "ok" /\ req[c].status = "OK"
    /\ pc'   = [pc EXCEPT ![c] = "scan"]
    /\ todo' = [todo EXCEPT ![c] = Dev]
    /\ snap' = [snap EXCEPT ![c] = EmptyList]
    /\ UNCHANGED <<kernelVars, netVars, status>>

RecvHeaderFails(c) ==
    /\ pc[c] = "header"
    /\ \/ RecvFails(c, 1)
       \/ Received(c, 1) /\ (req[c].version # "ok" \/ req[c].status # "OK")
    /\ Fail(c)
    /\ UNCHANGED <<kernelVars, netVars, status>>

(* What usbip_exported_device_new can make an entry of.  read_usb_device   *)
(* ends the path at the length of a busid, so that the status of a device  *)
(* deeper in sysfs cannot be opened; read_usb_vudc_device does not, and    *)
(* describes a controller also when it has no gadget, from a descriptor    *)
(* that was not read.                                                      *)
FoundHost(d) == bound[d] /\ d \notin CutPath
Found(d)     == IF Vudc THEN TRUE ELSE FoundHost(d)

(* One turn of the loop of refresh_exported_devices.  A device not driven  *)
(* by usbip-host, or that vanishes while its attributes are read, is left  *)
(* out.  The status is atoi of one character with no terminator after it:  *)
(* what it returns may be no SDEV_ST_* value at all.                       *)
ScanDevice(c) ==
    /\ pc[c] = "scan"
    /\ \E d \in todo[c] :
         /\ todo' = [todo EXCEPT ![c] = @ \ {d}]
         /\ \E s \in (IF Found(d) THEN {stub[d], "UNKNOWN"} ELSE {"absent"}) :
              snap' = [snap EXCEPT ![c][d] = s]
    /\ UNCHANGED <<kernelVars, netVars, pc, status>>

(* The switch of recv_pdu.  op_devlist_request is empty: receiving it      *)
(* cannot block or fail.                                                   *)
Dispatch(c) ==
    /\ pc[c] = "scan"
    /\ todo[c] = {}
    /\ req[c].code # "other"
    /\ pc' = [pc EXCEPT ![c] =
                IF req[c].code = "DEVLIST" THEN "devlist" ELSE "import"]
    /\ UNCHANGED <<kernelVars, netVars, todo, snap, status>>

DispatchRereads(c) ==        \* mutant: an unknown opcode is skipped over
    /\ pc[c] = "scan" /\ todo[c] = {} /\ req[c].code = "other"
    /\ pc' = [pc EXCEPT ![c] = "header"]
    /\ UNCHANGED <<kernelVars, netVars, todo, snap, status>>

DispatchUnknown(c) ==
    /\ pc[c] = "scan"
    /\ todo[c] = {}
    /\ req[c].code = "other"
    /\ Fail(c)
    /\ UNCHANGED <<kernelVars, netVars, status>>

-----------------------------------------------------------------------------
(* recv_request_import                                                     *)

RecvImportNoStatus(c) ==     \* mutant: ST_NODEV is not assigned
    /\ pc[c] = "import" /\ Received(c, 2)
    /\ pc' = [pc EXCEPT ![c] =
                IF snap[c][req[c].busid] # "absent" THEN "export" ELSE "reply"]
    /\ UNCHANGED <<kernelVars, netVars, todo, snap, status>>

RecvImport(c) ==
    /\ pc[c] = "import"
    /\ Received(c, 2)
    /\ IF snap[c][req[c].busid] # "absent"
         THEN pc' = [pc EXCEPT ![c] = "export"] /\ UNCHANGED status
         ELSE /\ pc' = [pc EXCEPT ![c] = "reply"]
              /\ status' = [status EXCEPT ![c] = "NODEV"]
    /\ UNCHANGED <<kernelVars, netVars, todo, snap>>

RecvImportFails(c) ==
    /\ pc[c] = "import"
    /\ RecvFails(c, 2)
    /\ Fail(c)
    /\ UNCHANGED <<kernelVars, netVars, status>>

(* The stub driver's store_sockfd: refused unless the device is bound and  *)
(* SDEV_ST_AVAILABLE; otherwise the stub takes the socket.                 *)
StubAccepts(d) == bound[d] /\ stub[d] = "AVAILABLE"
StoreSockfd(c, d) ==
    /\ stub'   = [stub EXCEPT ![d] = "USED"]
    /\ holder' = [holder EXCEPT ![d] = c]

(* usbip_export_device when the listed status is not SDEV_ST_AVAILABLE; a  *)
(* negative result becomes ST_NA in recv_request_import.                   *)
Unavailable(st) == CASE st = "ERROR" -> "DEV_ERR"
                     [] st = "USED"  -> "DEV_BUSY"
                     [] OTHER        -> "NA"

ExportUnchecked(c) ==        \* mutant: the result of the write is ignored
    LET d == req[c].busid IN
    /\ pc[c] = "export"
    /\ pc' = [pc EXCEPT ![c] = "reply"]
    /\ status' = [status EXCEPT ![c] =
                    IF snap[c][d] = "AVAILABLE" THEN "OK" ELSE Unavailable(snap[c][d])]
    /\ IF snap[c][d] = "AVAILABLE" /\ StubAccepts(d)
         THEN StoreSockfd(c, d) ELSE UNCHANGED <<stub, holder>>
    /\ UNCHANGED <<bound, netVars, todo, snap>>

(* The decision is taken on the list, the write is judged by the stub.     *)
ExportDevice(c) ==
    LET d == req[c].busid IN
    /\ pc[c] = "export"
    /\ pc' = [pc EXCEPT ![c] = "reply"]
    /\ IF snap[c][d] = "AVAILABLE" /\ StubAccepts(d)
         THEN /\ StoreSockfd(c, d)
              /\ status' = [status EXCEPT ![c] = "OK"]
         ELSE /\ status' = [status EXCEPT ![c] = Unavailable(snap[c][d])]
              /\ UNCHANGED <<stub, holder>>
    /\ UNCHANGED <<bound, netVars, todo, snap>>

ReplyWithoutPdu(c) ==        \* mutant: the device is not described
    /\ pc[c] = "reply" /\ CanSend(c)
    /\ out' = [out EXCEPT ![c] = Append(@, OpCommon("REP_IMPORT", status[c]))]
    /\ Fail(c)
    /\ UNCHANGED <<kernelVars, peer, sock, req, sent, status>>

ReplyThenPdu(c) ==           \* mutant: an error status does not end the request
    /\ pc[c] = "reply" /\ CanSend(c)
    /\ out' = [out EXCEPT ![c] = Append(@, OpCommon("REP_IMPORT", status[c]))]
    /\ pc'  = [pc EXCEPT ![c] = "pdu"]
    /\ UNCHANGED <<kernelVars, peer, sock, req, sent, todo, snap, status>>

(* usbip_net_send_op_common; an error status ends the request.             *)
SendImportReply(c) ==
    /\ pc[c] = "reply"
    /\ CanSend(c)
    /\ out' = [out EXCEPT ![c] = Append(@, OpCommon("REP_IMPORT", status[c]))]
    /\ IF status[c] = "OK"
         THEN pc' = [pc EXCEPT ![c] = "pdu"] /\ UNCHANGED <<todo, snap>>
         ELSE Fail(c)
    /\ UNCHANGED <<kernelVars, peer, sock, req, sent, status>>

SendImportPdu(c) ==
    /\ pc[c] = "pdu"
    /\ CanSend(c)
    /\ out' = [out EXCEPT ![c] = Append(@, Udev(req[c].busid))]
    /\ Return(c, "returned_0")
    /\ UNCHANGED <<kernelVars, peer, sock, req, sent, status>>

-----------------------------------------------------------------------------
(* send_reply_devlist                                                      *)

Listed(c) == {d \in Dev : snap[c][d] \notin {"absent", "USED"}}

SendDevlistHeader(c) ==
    /\ pc[c] = "devlist"
    /\ CanSend(c)
    /\ out' = [out EXCEPT ![c] = Append(@, OpCommon("REP_DEVLIST", "OK"))]
    /\ pc'  = [pc EXCEPT ![c] = "ndev"]
    /\ UNCHANGED <<kernelVars, peer, sock, req, sent, todo, snap, status>>

SendNDevOnly(c) ==           \* mutant: only the counting loop excludes used devices
    /\ pc[c] = "ndev" /\ CanSend(c)
    /\ out'  = [out EXCEPT ![c] = Append(@, NDev(Cardinality(Listed(c))))]
    /\ pc'   = [pc EXCEPT ![c] = "entries"]
    /\ todo' = [todo EXCEPT ![c] = {d \in Dev : snap[c][d] # "absent"}]
    /\ UNCHANGED <<kernelVars, peer, sock, req, sent, snap, status>>

SendNDev(c) ==
    /\ pc[c] = "ndev"
    /\ CanSend(c)
    /\ out'  = [out EXCEPT ![c] = Append(@, NDev(Cardinality(Listed(c))))]
    /\ pc'   = [pc EXCEPT ![c] = "entries"]
    /\ todo' = [todo EXCEPT ![c] = Listed(c)]
    /\ UNCHANGED <<kernelVars, peer, sock, req, sent, snap, status>>

(* A device and its interfaces, in one message.                            *)
SendEntry(c) ==
    /\ pc[c] = "entries"
    /\ CanSend(c)
    /\ \E d \in todo[c] :
         /\ out'  = [out EXCEPT ![c] = Append(@, Udev(d))]
         /\ todo' = [todo EXCEPT ![c] = @ \ {d}]
    /\ UNCHANGED <<kernelVars, peer, sock, req, sent, pc, snap, status>>

DevlistDone(c) ==
    /\ pc[c] = "entries"
    /\ todo[c] = {}
    /\ Return(c, "returned_0")
    /\ UNCHANGED <<kernelVars, netVars, status>>

(* Every send of a reply may fail; the child then gives up.                *)
SendReplyFails(c) ==
    /\ \/ pc[c] \in {"reply", "pdu", "devlist", "ndev"}
       \/ pc[c] = "entries" /\ todo[c] # {}
    /\ SendFails(c)
    /\ Fail(c)
    /\ UNCHANGED <<kernelVars, netVars, status>>

ChildStep(c) ==
    \/ RecvHeader(c) \/ RecvHeaderFails(c)
    \/ ScanDevice(c) \/ Dispatch(c) \/ DispatchUnknown(c)
    \/ RecvImport(c) \/ RecvImportFails(c) \/ ExportDevice(c)
    \/ SendImportReply(c) \/ SendImportPdu(c)
    \/ SendDevlistHeader(c) \/ SendNDev(c) \/ SendEntry(c) \/ DevlistDone(c)
    \/ SendReplyFails(c) \/ ExitChild(c)

DaemonStep(c) == Accept(c) \/ Refuse(c) \/ ChildStep(c)

-----------------------------------------------------------------------------
(* The stub driver.  Releasing a device shuts its socket down.             *)

TearDown(d) ==
    /\ holder' = [holder EXCEPT ![d] = NoConn]
    /\ sock'   = IF holder[d] = NoConn THEN sock
                 ELSE [sock EXCEPT ![holder[d]] = "down"]

(* The peer went away, or the connection or the device failed: the stub    *)
(* resets the device and, unless that fails, makes it available again.     *)
StubReset(d) ==
    /\ holder[d] # NoConn
    /\ TearDown(d)
    /\ \E s \in {"AVAILABLE", "ERROR"} : stub' = [stub EXCEPT ![d] = s]
    /\ UNCHANGED <<bound, peer, req, sent, out, childVars>>

(* usbip_bind and usbip_unbind, run by the administrator at any time.      *)
Bind(d) ==
    /\ ~bound[d]
    /\ bound' = [bound EXCEPT ![d] = TRUE]
    /\ UNCHANGED <<stub, holder, netVars, childVars>>

Unbind(d) ==
    /\ bound[d]
    /\ bound' = [bound EXCEPT ![d] = FALSE]
    /\ stub'  = [stub EXCEPT ![d] = "AVAILABLE"]
    /\ TearDown(d)
    /\ UNCHANGED <<peer, req, sent, out, childVars>>

KernelStep(d) == StubReset(d) \/ Bind(d) \/ Unbind(d)

-----------------------------------------------------------------------------
Next == \/ \E c \in Conn : ClientStep(c) \/ DaemonStep(c)
        \/ \E d \in Dev : KernelStep(d)

(* The daemon and its children run; a stub notices that its peer is gone.  *)
(* Nothing is assumed of clients or of the administrator.                  *)
PeerGone(d) == holder[d] # NoConn /\ peer[holder[d]] = "closed"
Fairness == /\ \A c \in Conn : WF_vars(DaemonStep(c))
            /\ \A d \in Dev  : WF_vars(PeerGone(d) /\ StubReset(d))

Spec     == Init /\ [][Next]_vars
FairSpec == Spec /\ Fairness

-----------------------------------------------------------------------------
(* Properties.                                                             *)

Said(c, m) == \E i \in 1..Len(out[c]) : out[c][i] = m
SaidOk(c)  == Said(c, OpCommon("REP_IMPORT", "OK"))

(* An ST_OK import reply is backed by the export it announces: as long as  *)
(* the connection is up, the stub of the requested device owns this very   *)
(* connection's socket, however many other children raced for the device   *)
(* on equally stale lists (recv_request_import).                           *)
OkReplyBacked ==
    \A c \in Conn : SaidOk(c) /\ sock[c] = "open" => holder[req[c].busid] = c

(* A child never leaves a device exported to a client that was not told:   *)
(* once recv_pdu has returned, a device is held by the connection only if  *)
(* the client got the complete reply to its import of that device, or is   *)
(* gone (so that the stub is about to release the device).                 *)
NoOrphanExport ==
    \A c \in Conn, d \in Dev :
        holder[d] = c /\ pc[c] \in Ended =>
            \/ out[c] = <<OpCommon("REP_IMPORT", "OK"), Udev(d)>>
            \/ peer[c] = "closed"

(* What a client reads, wherever the reply is cut off, is a prefix of a    *)
(* reply to the request it sent: no PDU follows an error, no device but    *)
(* the requested one is described, and only a well-formed and complete     *)
(* request is answered.                                                    *)
IsImportReply(s, d) ==
    \/ \E st \in OpStatus \ {"OK"} : s = <<OpCommon("REP_IMPORT", st)>>
    \/ s = <<OpCommon("REP_IMPORT", "OK")>>
    \/ s = <<OpCommon("REP_IMPORT", "OK"), Udev(d)>>
IsDevlistReply(s) ==
    /\ s[1] = OpCommon("REP_DEVLIST", "OK")
    /\ Len(s) > 1 => s[2] \in {NDev(n) : n \in 0..Cardinality(Dev)}
    /\ \A i \in 3..Len(s) : s[i] \in {Udev(d) : d \in Dev}
ReplyWellFormed ==
    \A c \in Conn : out[c] # << >> =>
        /\ req[c].version = "ok" /\ req[c].status = "OK"
        /\ \/ req[c].code = "IMPORT" /\ sent[c] = 2
                                     /\ IsImportReply(out[c], req[c].busid)
           \/ req[c].code = "DEVLIST" /\ IsDevlistReply(out[c])

(* The count a device list announces is the number of entries that follow, *)
(* although send_reply_devlist computes it in a loop of its own: never     *)
(* more, exactly as many when the request completes, no device twice.      *)
DevlistFramed ==
    \A c \in Conn :
        req[c].code = "DEVLIST" /\ Len(out[c]) > 1 =>
            LET n == out[c][2].ndev IN
            /\ Len(out[c]) <= n + 2
            /\ pc[c] = "returned_0" => Len(out[c]) = n + 2
            /\ \A i, j \in 3..Len(out[c]) : out[c][i] = out[c][j] => i = j

(* Whatever a client does, once it is gone its child ends and every device *)
(* it held is released: nothing of the connection remains at the server.   *)
ConnectionReclaimed ==
    \A c \in Conn : peer[c] = "closed" ~> sock[c] = "down"

(* A client that sends its whole request is served to the end: no child    *)
(* waits for ever, whatever the other children and the administrator do.   *)
RequestServed == \A c \in Conn : sent[c] = 2 ~> pc[c] = "exited"

(* The comment at usbipd.c:175-182: "Exclude devices that are already      *)
(* exported to a client from the exportable device list to avoid [...]     *)
(* revealing devices that are imported by a client to another client".     *)
(* Taken at its word, no device goes out in a list while it is exported.   *)
(* The code excludes those its list shows as used.                         *)
DevlistHidesExported ==
    [][\A c \in Conn, d \in Dev :
         /\ req[c].code = "DEVLIST"
         /\ out'[c] = Append(out[c], Udev(d))
         => holder[d] = NoConn]_vars

(* "Check whether device uses usbip driver" (usbip_host_common.c:151) is   *)
(* the one condition on the devices of the list: a device that is bound    *)
(* when the loop gets to it is in the list, whatever its status, wherever  *)
(* it is plugged in.                                                       *)
BoundIsFound ==
    [][\A c \in Conn, d \in Dev :
         /\ pc[c] = "scan" /\ d \in todo[c] \ todo'[c]
         /\ bound[d]
         => snap'[c][d] # "absent"]_vars

-----------------------------------------------------------------------------
(* The daemon keeps the promise of DeviceLease: the stub's socket is the   *)
(* lease, the export result spends the connection's one lease, and an      *)
(* ST_OK reply on a connection that is up is the telling.                  *)
leaseSpent == {c \in Conn : status[c] = "OK"}
leaseTold  == {p \in Conn \X Dev : /\ SaidOk(p[1])
                                   /\ sock[p[1]] = "open"
                                   /\ req[p[1]].busid = p[2]}

Lease == INSTANCE DeviceLease
           WITH lease <- holder, spent <- leaseSpent, told <- leaseTold

(* Every behaviour of the daemon, seen through that mapping, is one of     *)
(* DeviceLease (usbip_export_device and recv_request_import).              *)
ImplementsLease == Lease!Spec
=============================================================================
