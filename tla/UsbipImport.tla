---------------------------- MODULE UsbipImport ----------------------------
(***************************************************************************)
(* A remote device from end to end: the daemon of UsbipDaemon together     *)
(* with the client that imports (src/src/client/usbip_attach.c), detaches  *)
(* (usbip_detach.c), and its virtual host controller, reached through      *)
(* src/src/libs/vhci_driver.c.                                             *)
(*                                                                         *)
(* Each connection c is one call of attach_device, made by a process on    *)
(* the machine MachineOf[c].  The processes of a machine share its vhci    *)
(* ports, but each has a vhci_driver of its own.  The kernel's port keeps  *)
(* the socket it was given; a connection is closed at the client's end     *)
(* when neither the process's descriptor nor a port refers to it.          *)
(***************************************************************************)
EXTENDS UsbipDaemon

CONSTANTS Machine,     \* client machines
          MachineOf,   \* MachineOf[c]: where the call behind c is made
          Port         \* vhci ports of a machine, of the hub the speed asks for

ASSUME MachineAssumption == MachineOf \in [Conn -> Machine]
ASSUME PortAssumption    == Port \subseteq Nat

VARIABLES
    cpc,        \* cpc[c]: where attach_device stands
    fd,         \* fd[c]: the process has its descriptor open
    free,       \* free[c]: ports its vhci_driver lists as VDEV_ST_NULL
    rhport,     \* rhport[c]: the port get_free_port returned
    vhci,       \* vhci[m][p]: connection whose socket the port owns
    detaching   \* <<m, p>>: detach_port found p in use and will detach it

clientVars == <<cpc, fd, free, rhport, vhci, detaching>>
importVars == <<vars, clientVars>>

ClientPC == {"idle", "header", "busid", "reply", "pdu", "open", "pick",
             "attach", "close", "record", "done", "failed", "exited"}

ImportTypeOK ==
    /\ TypeOK
    /\ cpc       \in [Conn -> ClientPC]
    /\ fd        \in [Conn -> BOOLEAN]
    /\ free      \in [Conn -> SUBSET Port]
    /\ rhport    \in [Conn -> Port]
    /\ vhci      \in [Machine -> [Port -> Conn \cup {NoConn}]]
    /\ detaching \subseteq Machine \X Port

(* The client asks for an import, with the right version.                  *)
ImportRequest == {r \in Requests : /\ r.version = "ok" /\ r.status = "OK"
                                   /\ r.code = "IMPORT"}

ImportInit ==
    /\ Init
    /\ req       \in [Conn -> ImportRequest]
    /\ cpc       = [c \in Conn |-> "idle"]
    /\ fd        = [c \in Conn |-> FALSE]
    /\ free      = [c \in Conn |-> {}]
    /\ rhport    \in [Conn -> Port]     \* not yet assigned
    /\ vhci      = [m \in Machine |-> [p \in Port |-> NoConn]]
    /\ detaching = {}

PortOf(c)   == {p \in Port : vhci[MachineOf[c]][p] = c}
Attached(c) == PortOf(c) # {}

Go(c, here, there) ==
    /\ cpc[c] = here
    /\ cpc' = [cpc EXCEPT ![c] = there]

-----------------------------------------------------------------------------
(* attach_device: usbip_net_tcp_connect.                                   *)
TcpConnect(c) ==
    /\ Go(c, "idle", "header")
    /\ Connect(c)
    /\ fd' = [fd EXCEPT ![c] = TRUE]
    /\ UNCHANGED <<free, rhport, vhci, detaching>>

(* query_import_device.  Wherever it fails attach_device returns -1 and    *)
(* leaves the descriptor open.                                             *)
SendHeader(c) ==
    /\ Go(c, "header", "busid")
    /\ SendPart(c)
    /\ UNCHANGED <<fd, free, rhport, vhci, detaching>>

SendBusid(c) ==
    /\ Go(c, "busid", "reply")
    /\ SendPart(c)
    /\ UNCHANGED <<fd, free, rhport, vhci, detaching>>

AcceptAnyReply(c) ==         \* mutant: the reply's status is not looked at
    /\ Len(out[c]) >= 1
    /\ Go(c, "reply", "open")
    /\ UNCHANGED <<vars, fd, free, rhport, vhci, detaching>>

RecvReply(c) ==
    /\ Len(out[c]) >= 1
    /\ Go(c, "reply", IF out[c][1] = OpCommon("REP_IMPORT", "OK")
                        THEN "pdu" ELSE "failed")
    /\ UNCHANGED <<vars, fd, free, rhport, vhci, detaching>>

RecvPdu(c) ==
    /\ Len(out[c]) >= 2
    /\ Go(c, "pdu", IF out[c][2] = Udev(req[c].busid) THEN "open" ELSE "failed")
    /\ UNCHANGED <<vars, fd, free, rhport, vhci, detaching>>

(* The server's end is down: a send fails, and so does a receive, which    *)
(* may yet return what was sent before.                                    *)
QueryFails(c) ==
    /\ cpc[c] \in {"header", "busid", "reply", "pdu"}
    /\ sock[c] = "down"
    /\ cpc' = [cpc EXCEPT ![c] = "failed"]
    /\ UNCHANGED <<vars, fd, free, rhport, vhci, detaching>>

-----------------------------------------------------------------------------
(* import_device: the ports are read once, when the driver is opened.      *)
DriverOpen(c) ==
    /\ Go(c, "open", "pick")
    /\ free' = [free EXCEPT ![c] = {p \in Port : vhci[MachineOf[c]][p] = NoConn}]
    /\ UNCHANGED <<vars, fd, rhport, vhci, detaching>>

DriverOpenFails(c) ==
    /\ Go(c, "open", "failed")
    /\ UNCHANGED <<vars, fd, free, rhport, vhci, detaching>>

(* usbip_vhci_get_free_port: the first free port of the list.              *)
GetFreePort(c) ==
    /\ Go(c, "pick", "attach")
    /\ \E p \in free[c] : /\ \A q \in free[c] : p <= q
                          /\ rhport' = [rhport EXCEPT ![c] = p]
    /\ UNCHANGED <<vars, fd, free, vhci, detaching>>

NoFreePort(c) ==
    /\ free[c] = {}
    /\ Go(c, "pick", "failed")
    /\ UNCHANGED <<vars, fd, free, rhport, vhci, detaching>>

(* usbip_vhci_attach_device: the kernel takes the socket if the port is    *)
(* free.                                                                   *)
AttachPort(c) ==
    LET m == MachineOf[c] IN
    /\ vhci[m][rhport[c]] = NoConn
    /\ Go(c, "attach", "close")
    /\ vhci' = [vhci EXCEPT ![m][rhport[c]] = c]
    /\ UNCHANGED <<vars, fd, free, rhport, detaching>>

(* EBUSY: the loop of import_device picks again, from the same list.       *)
AttachBusy(c) ==
    /\ vhci[MachineOf[c]][rhport[c]] # NoConn
    /\ Go(c, "attach", "pick")
    /\ UNCHANGED <<vars, fd, free, rhport, vhci, detaching>>

RetryAnyError(c) ==          \* mutant: errno is not looked at
    /\ Go(c, "attach", "pick")
    /\ UNCHANGED <<vars, fd, free, rhport, vhci, detaching>>

(* Any other errno.                                                        *)
AttachRefused(c) ==
    /\ Go(c, "attach", "failed")
    /\ UNCHANGED <<vars, fd, free, rhport, vhci, detaching>>

-----------------------------------------------------------------------------
(* Dropping a reference to the socket closes the connection with the last. *)
CloseDescriptor(c) ==
    /\ fd' = [fd EXCEPT ![c] = FALSE]
    /\ IF fd[c] /\ ~ Attached(c) THEN ClosePeer(c) ELSE UNCHANGED vars

FreePort(m, p) ==
    LET c == vhci[m][p] IN
    /\ vhci' = [vhci EXCEPT ![m][p] = NoConn]
    /\ IF c # NoConn /\ ~ fd[c] THEN ClosePeer(c) ELSE UNCHANGED vars

KeepSocket(c) ==             \* mutant: close(sockfd) is missing here as well
    /\ Go(c, "close", "record")
    /\ UNCHANGED <<vars, fd, free, rhport, vhci, detaching>>

ShutdownSocket(c) ==         \* mutant: the connection, not the descriptor, is closed
    /\ Go(c, "close", "record")
    /\ fd' = [fd EXCEPT ![c] = FALSE]
    /\ IF peer[c] = "open" THEN ClosePeer(c) ELSE UNCHANGED vars
    /\ UNCHANGED <<free, rhport, vhci, detaching>>

(* attach_device, after a successful query.                                *)
CloseSocket(c) ==
    /\ Go(c, "close", "record")
    /\ CloseDescriptor(c)
    /\ UNCHANGED <<free, rhport, vhci, detaching>>

(* record_connection writes the port's state file, or fails; the port is   *)
(* attached either way.                                                    *)
RecordConnection(c) ==
    /\ \/ Go(c, "record", "done")
       \/ Go(c, "record", "failed")
    /\ UNCHANGED <<vars, fd, free, rhport, vhci, detaching>>

(* The process exits or is killed, at any point; its ports stay attached.  *)
ProcessExit(c) ==
    /\ cpc[c] \notin {"idle", "exited"}
    /\ cpc' = [cpc EXCEPT ![c] = "exited"]
    /\ CloseDescriptor(c)
    /\ UNCHANGED <<free, rhport, vhci, detaching>>

AttachStep(c) ==
    \/ TcpConnect(c) \/ SendHeader(c) \/ SendBusid(c)
    \/ RecvReply(c) \/ RecvPdu(c) \/ QueryFails(c)
    \/ DriverOpen(c) \/ DriverOpenFails(c)
    \/ GetFreePort(c) \/ NoFreePort(c)
    \/ AttachPort(c) \/ AttachBusy(c) \/ AttachRefused(c)
    \/ CloseSocket(c) \/ RecordConnection(c)

-----------------------------------------------------------------------------
(* detach_port: the check on the port's listed status, then the write to   *)
(* the kernel, which detaches whatever is attached by then.                *)
DetachCheck(m, p) ==
    /\ vhci[m][p] # NoConn
    /\ detaching' = detaching \cup {<<m, p>>}
    /\ UNCHANGED <<vars, cpc, fd, free, rhport, vhci>>

DetachPort(m, p) ==
    /\ <<m, p>> \in detaching
    /\ detaching' = detaching \ {<<m, p>>}
    /\ FreePort(m, p)
    /\ UNCHANGED <<cpc, fd, free, rhport>>

(* The port's receiver finds the server's end down.                        *)
VhciDown(m, p) ==
    /\ vhci[m][p] # NoConn
    /\ sock[vhci[m][p]] = "down"
    /\ FreePort(m, p)
    /\ UNCHANGED <<cpc, fd, free, rhport, detaching>>

-----------------------------------------------------------------------------
ServerStep(c) == DaemonStep(c) /\ UNCHANGED clientVars
StubStep(d)   == KernelStep(d) /\ UNCHANGED clientVars

ImportNext ==
    \/ \E c \in Conn : ServerStep(c) \/ AttachStep(c) \/ ProcessExit(c)
    \/ \E d \in Dev : StubStep(d)
    \/ \E m \in Machine, p \in Port :
         DetachCheck(m, p) \/ DetachPort(m, p) \/ VhciDown(m, p)

(* On top of the daemon's fairness: a call of attach_device that was begun *)
(* runs, and a port notices that its connection is down.  Nobody has to    *)
(* start, to detach or to quit.                                            *)
ImportFairness ==
    /\ \A c \in Conn : /\ WF_importVars(ServerStep(c))
                       /\ WF_importVars(cpc[c] # "idle" /\ AttachStep(c))
    /\ \A d \in Dev : WF_importVars(PeerGone(d) /\ StubReset(d)
                                                /\ UNCHANGED clientVars)
    /\ \A m \in Machine, p \in Port : WF_importVars(VhciDown(m, p))

ImportSpec     == ImportInit /\ [][ImportNext]_importVars
FairImportSpec == ImportSpec /\ ImportFairness

-----------------------------------------------------------------------------
(* Properties.                                                             *)

(* A port that is attached over a connection that is up drives the device  *)
(* its process asked for, and the server has exported that device to this  *)
(* very connection.  Hence no two ports, of any machines, drive the same   *)
(* device.  (query_import_device, import_device, recv_request_import.)     *)
AttachedIsExported ==
    \A m \in Machine, p \in Port :
        LET c == vhci[m][p] IN
        c # NoConn /\ sock[c] = "open" => holder[req[c].busid] = c

(* The client's kernel keeps the connection of an attached port up after   *)
(* attach_device closed its descriptor or its process died; and only one   *)
(* port lives on a connection.                                             *)
PortKeepsConnection ==
    \A m, n \in Machine : \A p, q \in Port :
        vhci[m][p] # NoConn =>
            /\ peer[vhci[m][p]] = "open"
            /\ vhci[m][p] = vhci[n][q] => m = n /\ p = q

(* A call that has returned, or whose process is gone, and that has no     *)
(* port (it never got one, or the port was detached) leaves nothing behind:*)
(* the server gets its device back without anyone's help.  The exception   *)
(* is attach_device returning -1 after usbip_net_tcp_connect: it does not  *)
(* close its descriptor, and a process that lives on, as the application   *)
(* does, keeps the server's device exported.                               *)
Abandoned(c) == cpc[c] \in {"done", "failed", "exited"} /\ ~ Attached(c)
Leaked(c)    == cpc[c] = "failed" /\ fd[c]
DeviceComesBack ==
    \A c \in Conn : Abandoned(c) ~> (sock[c] = "down" \/ Leaked(c))

(* A call of attach_device returns, unless it is about to ask, once more,  *)
(* for a port that another process of its machine took after this one read *)
(* its list: it goes on asking for as long as the other keeps the port.    *)
Overtaken(c) ==
    cpc[c] = "attach" /\ vhci[MachineOf[c]][rhport[c]] \notin {NoConn, c}
AttachReturns ==
    \A c \in Conn : cpc[c] # "idle" ~>
        (cpc[c] \in {"done", "failed", "exited"} \/ Overtaken(c))

(* The daemon within this system behaves as module UsbipDaemon says.       *)
DaemonSpec == Spec
=============================================================================
