--------------------------- MODULE MetadataServer ---------------------------
(***************************************************************************)
(* The life of the metadata server: usb_metadata_server.c with the scan of *)
(* device.c, the event monitor that kills it and starts another at every   *)
(* uevent (usb_event_monitor.c), and the clients that fetch its list.      *)
(*                                                                         *)
(* Nothing but the listening port coordinates the servers: killall only    *)
(* sends a signal, the next server is started in the background, and both  *)
(* reset the same devices.  A child that sends the list has a copy of it   *)
(* and of the name killall looks for.                                      *)
(***************************************************************************)
EXTENDS BindDriver

CONSTANTS Conn,       \* connections to the metadata server
          Onboard,    \* devices the scan passes over (pass_raspi_fast_ethernet)
          NoProc,     \* "no process"
          MaxPlugs    \* bound on the times a device is plugged or unplugged

ASSUME NoProcAssumption   == NoProc \notin Proc
ASSUME MaxPlugsAssumption == MaxPlugs \in Nat

VARIABLES
    plugs,      \* times a device was plugged or unplugged
    port,       \* the server that has the listening socket
    todo,       \* todo[s]: devices of the enumeration still to visit
    list,       \* list[s]: all it enumerated, which its JSON array describes
    asOf,       \* asOf[s]: plugs when its devices were enumerated
    conn,       \* conn[c]: state of a client's connection
    have,       \* have[c]: asOf of the list that a child sends on c
    promise,    \* promise[c]: announced when c was opened
    mpc,        \* where the event monitor stands
    seen,       \* plugs when the event it handles was received
    announced   \* seen of the last event that was broadcast

resetVars   == <<present, driver, matched, pc, killed, dev, faulty>>
scanVars    == <<todo, list, asOf>>
connVars    == <<conn, have, promise>>
monitorVars == <<mpc, seen, announced>>
metaVars    == <<resetVars, plugs, port, scanVars, connVars, monitorVars>>

(* Not yet started; in the shell that will become it; in main.             *)
ServerPC == {"unborn", "forked", "start", "enumerate", "next", "serve", "dying",
             "dead"} \cup ResetPC
Listening == {"enumerate", "next", "serve", "dying"} \cup ResetPC
Running   == Listening \cup {"start"}

MetaTypeOK ==
    /\ KernelTypeOK
    /\ pc        \in [Proc -> ServerPC]
    /\ killed    \subseteq Proc
    /\ dev       \in [Proc -> Dev]
    /\ faulty    \in [Proc -> SUBSET Dev]
    /\ plugs     \in Nat
    /\ port      \in Proc \cup {NoProc}
    /\ todo      \in [Proc -> SUBSET Dev]
    /\ list      \in [Proc -> SUBSET Dev]
    /\ asOf      \in [Proc -> Nat]
    /\ conn      \in [Conn -> {"idle", "queued", "child", "got", "cut"}]
    /\ have      \in [Conn -> Nat]
    /\ promise   \in [Conn -> Nat]
    /\ mpc       \in {"wait", "killall", "start", "broadcast", "dead"}
    /\ seen      \in Nat
    /\ announced \in Nat

(* The monitor has made its first broadcast, which announces no event.     *)
MetaInit ==
    /\ KernelInit
    /\ pc        = [s \in Proc |-> "unborn"]
    /\ killed    = {}
    /\ dev       \in {[s \in Proc |-> d] : d \in Dev}    \* not yet assigned
    /\ faulty    = [s \in Proc |-> {}]
    /\ plugs     = 0
    /\ port      = NoProc
    /\ todo      = [s \in Proc |-> {}]
    /\ list      = [s \in Proc |-> {}]
    /\ asOf      = [s \in Proc |-> 0]
    /\ conn      = [c \in Conn |-> "idle"]
    /\ have      = [c \in Conn |-> 0]
    /\ promise   = [c \in Conn |-> 0]
    /\ mpc       = "wait"
    /\ seen      = 0
    /\ announced = 0

HotPlug(d) ==
    /\ plugs < MaxPlugs
    /\ plugs' = plugs + 1
    /\ Plug(d) \/ Unplug(d)
    /\ UNCHANGED <<port, scanVars, connVars, monitorVars>>

-----------------------------------------------------------------------------
(* The processes.                                                          *)

Moves(s, here, there) ==
    /\ pc[s] = here
    /\ s \notin killed
    /\ pc' = [pc EXCEPT ![s] = there]
    /\ UNCHANGED <<kernelVars, killed>>

(* A process ends.  Its sockets are closed with it; connections that wait  *)
(* in the backlog are reset.                                               *)
Ends(s) ==
    /\ pc'     = [pc EXCEPT ![s] = "dead"]
    /\ todo'   = [todo EXCEPT ![s] = {}]
    /\ list'   = [list EXCEPT ![s] = {}]
    /\ faulty' = [faulty EXCEPT ![s] = {}]
    /\ IF port = s
         THEN /\ port' = NoProc
              /\ conn' = [c \in Conn |-> IF conn[c] = "queued" THEN "cut" ELSE conn[c]]
         ELSE UNCHANGED <<port, conn>>
    /\ UNCHANGED <<kernelVars, killed, dev, plugs, asOf, have, promise>>

(* Somebody starts a server by hand.                                       *)
Launch(s) ==
    /\ Moves(s, "unborn", "start")
    /\ UNCHANGED <<dev, faulty, plugs, port, scanVars, connVars, monitorVars>>

(* The shell's child runs ./usb_metadata_server, unless that is not there. *)
Exec(s) ==
    /\ \/ Moves(s, "forked", "start")
       \/ Moves(s, "forked", "dead")
    /\ UNCHANGED <<dev, faulty, plugs, port, scanVars, connVars, monitorVars>>

(* bind and listen: one of them fails while another process listens.       *)
Listen(s) ==
    /\ port = NoProc
    /\ Moves(s, "start", "enumerate")
    /\ port' = s
    /\ UNCHANGED <<dev, faulty, plugs, scanVars, connVars, monitorVars>>

ListenErrorIgnored(s) ==     \* mutant: the error is only printed
    /\ port # NoProc
    /\ Moves(s, "start", "enumerate")
    /\ UNCHANGED <<dev, faulty, plugs, port, scanVars, connVars, monitorVars>>

ListenFails(s) ==
    /\ port # NoProc
    /\ pc[s] = "start"
    /\ s \notin killed
    /\ Ends(s)
    /\ UNCHANGED monitorVars

(* get_devices: populate_usb_devices, then its loop.                       *)
Enumerate(s) ==
    /\ Moves(s, "enumerate", "next")
    /\ todo' = [todo EXCEPT ![s] = present \ Onboard]
    /\ list' = [list EXCEPT ![s] = present \ Onboard]
    /\ asOf' = [asOf EXCEPT ![s] = plugs]
    /\ UNCHANGED <<dev, faulty, plugs, port, connVars, monitorVars>>

NextDevice(s) ==
    /\ Moves(s, "next", "unbind_device")
    /\ \E d \in todo[s] \cap present :
         /\ todo' = [todo EXCEPT ![s] = @ \ {d}]
         /\ dev'  = [dev EXCEPT ![s] = d]
    /\ UNCHANGED <<faulty, plugs, port, list, asOf, connVars, monitorVars>>

(* The device is gone: a NULL attribute is given to strcmp.                *)
DeviceGone(s) ==
    /\ pc[s] = "next"
    /\ s \notin killed
    /\ todo[s] \ present # {}
    /\ Ends(s)
    /\ UNCHANGED monitorVars

Reset(s) ==
    /\ ResetStep(s)
    /\ UNCHANGED <<plugs, port, scanVars, connVars, monitorVars>>

ScanDone(s) ==
    /\ todo[s] = {}
    /\ Moves(s, "next", "serve")
    /\ UNCHANGED <<dev, faulty, plugs, port, scanVars, connVars, monitorVars>>

(* accept, and a child with a copy of the list; or fork fails.             *)
Accept(s, c) ==
    /\ pc[s] = "serve" /\ s \notin killed
    /\ port = s /\ conn[c] = "queued"
    /\ \/ /\ conn' = [conn EXCEPT ![c] = "child"]
          /\ have' = [have EXCEPT ![c] = asOf[s]]
       \/ /\ conn' = [conn EXCEPT ![c] = "cut"]
          /\ UNCHANGED have
    /\ UNCHANGED <<resetVars, plugs, port, scanVars, promise, monitorVars>>

(* sendall: the client gets the whole list, or only a part of it.          *)
SendAll(c) ==
    /\ conn[c] = "child"
    /\ \E r \in {"got", "cut"} : conn' = [conn EXCEPT ![c] = r]
    /\ UNCHANGED <<resetVars, plugs, port, scanVars, have, promise, monitorVars>>

Die(s) ==
    /\ s \in killed
    /\ pc[s] \in Running
    /\ Ends(s)
    /\ UNCHANGED monitorVars

ServerStep(s) ==
    \/ Exec(s) \/ Listen(s) \/ ListenFails(s) \/ Enumerate(s) \/ NextDevice(s)
    \/ DeviceGone(s) \/ Reset(s) \/ ScanDone(s) \/ Die(s)
    \/ \E c \in Conn : Accept(s, c)

-----------------------------------------------------------------------------
(* A client connects, which only takes somebody listening.                 *)
Connect(c) ==
    /\ port # NoProc
    /\ conn[c] = "idle"
    /\ conn'    = [conn EXCEPT ![c] = "queued"]
    /\ promise' = [promise EXCEPT ![c] = announced]
    /\ UNCHANGED <<resetVars, plugs, port, scanVars, have, monitorVars>>

-----------------------------------------------------------------------------
(* The event monitor.                                                      *)

BroadcastFirst ==            \* mutant: the clients are told before the restart
    /\ mpc = "wait" /\ mpc' = "killall"
    /\ seen' = plugs /\ announced' = plugs
    /\ UNCHANGED <<resetVars, plugs, port, scanVars, connVars>>

(* A uevent of the usb subsystem, whatever it tells.                       *)
ReceiveEvent ==
    /\ mpc = "wait"
    /\ mpc'  = "killall"
    /\ seen' = plugs
    /\ UNCHANGED <<resetVars, plugs, port, scanVars, connVars, announced>>

(* killall: the processes that run under the name get a signal.  A child   *)
(* dies of it unless it was forked while killall looked around.            *)
Servers  == {s \in Proc : pc[s] \in Running}
Children == {c \in Conn : conn[c] = "child"}

KillsListener ==             \* mutant: who has the port is killed, not who has the name
    /\ mpc = "killall" /\ Servers # {}
    /\ mpc' = "start"
    /\ killed' = killed \cup {port}
    /\ UNCHANGED <<kernelVars, pc, dev, faulty, plugs, port, scanVars, connVars, seen, announced>>

Killall ==
    /\ mpc = "killall"
    /\ Servers \cup Children # {}
    /\ mpc'    = "start"
    /\ killed' = killed \cup Servers
    /\ \E hit \in SUBSET Children :
         conn' = [c \in Conn |-> IF c \in hit THEN "cut" ELSE conn[c]]
    /\ UNCHANGED <<kernelVars, pc, dev, faulty, plugs, port, scanVars, have, promise,
                   seen, announced>>

NothingToKill ==
    /\ mpc = "killall"
    /\ Servers \cup Children = {}
    /\ mpc' = "wait"
    /\ UNCHANGED <<resetVars, plugs, port, scanVars, connVars, seen, announced>>

(* system("./usb_metadata_server &")                                       *)
StartServer(s) ==
    /\ mpc = "start"
    /\ mpc' = "broadcast"
    /\ Moves(s, "unborn", "forked")
    /\ UNCHANGED <<dev, faulty, plugs, port, scanVars, connVars, seen, announced>>

StartFails ==
    /\ mpc = "start"
    /\ mpc' = "wait"
    /\ UNCHANGED <<resetVars, plugs, port, scanVars, connVars, seen, announced>>

(* broadcast_event, which ends the monitor when it fails.                  *)
Broadcast ==
    /\ mpc = "broadcast"
    /\ \/ mpc' = "wait" /\ announced' = seen
       \/ mpc' = "dead" /\ UNCHANGED announced
    /\ UNCHANGED <<resetVars, plugs, port, scanVars, connVars, seen>>

MonitorStep == ReceiveEvent \/ Killall \/ NothingToKill \/ StartFails \/ Broadcast

-----------------------------------------------------------------------------
MetaNext ==
    \/ \E s \in Proc : Launch(s) \/ ServerStep(s) \/ StartServer(s)
    \/ \E c \in Conn : Connect(c) \/ SendAll(c)
    \/ \E d \in Dev : HotPlug(d)
    \/ MonitorStep

(* Processes run, and those that were killed come to their end.  A client  *)
(* takes what it is sent or leaves; none has to come.                      *)
MetaFairness ==
    /\ \A s \in Proc : WF_metaVars(ServerStep(s))
    /\ \A c \in Conn : WF_metaVars(SendAll(c))

MetaSpec     == MetaInit /\ [][MetaNext]_metaVars
FairMetaSpec == MetaSpec /\ MetaFairness

-----------------------------------------------------------------------------
(* Properties.                                                             *)

(* No two processes reset devices at the same time, however soon one is    *)
(* started after its predecessor was killed.  (The listening socket is     *)
(* opened before get_devices, and closed by nothing but the exit.)         *)
ResetExclusive ==
    \A s, t \in Proc : pc[s] \in ResetPC /\ pc[t] \in ResetPC => s = t

(* A device that is bound to usbip-host is registered with it, wherever    *)
(* resets were cut short: the driver and the table of busids that          *)
(* bind_device and unbind_device write one after the other agree.          *)
BoundIsMatched == \A d \in Dev : driver[d] = "usbip-host" => d \in matched

(* A server that serves has bound every device of its list, in whatever    *)
(* state killed predecessors left it, except those a write failed for,     *)
(* those unplugged since and those that come from vhci_hcd; and none of    *)
(* its successors has touched one.                                         *)
ServedIsBound ==
    \A s \in Proc : pc[s] = "serve" =>
        \A d \in list[s] \ (faulty[s] \cup Imported) : driver[d] = "usbip-host"

(* A client that was told of an event and then connects gets, if it gets a *)
(* whole list, one that was made after the event: never one of the server  *)
(* that the monitor had killed for it.                                     *)
ListIsFresh == \A c \in Conn : conn[c] = "got" => have[c] >= promise[c]

(* A connection that was taken into a backlog is answered or closed, also  *)
(* when the server is killed, crashes or is still resetting its devices.   *)
ConnectionSettles == \A c \in Conn : conn[c] = "queued" ~> conn[c] \in {"got", "cut"}
=============================================================================
