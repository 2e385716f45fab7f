----------------------------- MODULE UsbipdMain -----------------------------
(***************************************************************************)
(* The process of usbipd (src/src/server/usbipd.c): main and               *)
(* do_standalone_mode, with its signals, its pid file and its listening    *)
(* sockets, one per address family.  The instances of Inst are started one *)
(* after the other or side by side, on one host and one port.              *)
(*                                                                         *)
(* A child has the listening sockets of its parent but for the one it came *)
(* from.  What it does with its request is module UsbipDaemon; here it     *)
(* ends once its client has spoken or left.                                *)
(***************************************************************************)
EXTENDS Naturals, FiniteSets

CONSTANTS Inst,       \* runs of the daemon
          WithPid,    \* those with -P, of one file that they can write
          Family,     \* address families, numbered as getaddrinfo lists them
          FamiliesOf, \* FamiliesOf[d]: those that -4 and -6 leave
          Conn,       \* connections of clients
          NoInst      \* "no daemon"

ASSUME FamilyAssumption == Family \subseteq Nat /\ FamiliesOf \in [Inst -> SUBSET Family]
ASSUME InstAssumption   == WithPid \subseteq Inst /\ NoInst \notin Inst

VARIABLES
    pc,       \* pc[d]: where daemon d stands
    todo,     \* todo[d]: families its present loop has still to visit
    open,     \* open[d]: families of the listening sockets it has
    pidfile,  \* whose process id the pid file holds
    conn,     \* conn[c]: state of a client's connection
    sock,     \* sock[c]: the listening socket c went to: <<daemon, family>>
    kept,     \* kept[c]: families of the sockets the child of c has open
    silent,   \* silent[c]: the client neither spoke nor left
    termed,   \* history: daemons that were sent SIGTERM or SIGINT
    lost,     \* history: those that handled one outside ppoll
    met       \* history: daemons that ran at the same time as another

procVars == <<pc, todo, open, pidfile>>
connVars == <<conn, sock, kept, silent>>
pastVars == <<termed, lost, met>>
mainVars == <<procVars, connVars, pastVars>>

Alive == {"daemonize", "write_pid", "listen", "poll", "loop", "close"}
Ended == {"exited", "killed"}

NoSock == <<NoInst, 0>>

MainTypeOK ==
    /\ pc      \in [Inst -> {"off", "exit"} \cup Alive \cup Ended]
    /\ todo    \in [Inst -> SUBSET Family]
    /\ open    \in [Inst -> SUBSET Family]
    /\ pidfile \in WithPid \cup {NoInst}
    /\ conn    \in [Conn -> {"idle", "queued", "child", "gone"}]
    /\ sock    \in [Conn -> (Inst \X Family) \cup {NoSock}]
    /\ kept    \in [Conn -> SUBSET Family]
    /\ silent  \in [Conn -> BOOLEAN]
    /\ termed  \subseteq Inst /\ lost \subseteq termed /\ met \subseteq Inst

MainInit ==
    /\ pc      = [d \in Inst |-> "off"]
    /\ todo    = [d \in Inst |-> {}]
    /\ open    = [d \in Inst |-> {}]
    /\ pidfile = NoInst
    /\ conn    = [c \in Conn |-> "idle"]
    /\ sock    = [c \in Conn |-> NoSock]
    /\ kept    = [c \in Conn |-> {}]
    /\ silent  = [c \in Conn |-> FALSE]
    /\ termed  = {} /\ lost = {} /\ met = {}

Goes(d, here, there) == pc[d] = here /\ pc' = [pc EXCEPT ![d] = there]
First(f, S)          == f \in S /\ \A g \in S : f <= g

(* A listening socket is open as long as a process has it.                 *)
IsOpen(d, f) == f \in open[d] \/ \E c \in Conn : f \in kept[c] /\ sock[c][1] = d
Queued(d, f) == {c \in Conn : conn[c] = "queued" /\ sock[c] = <<d, f>>}

(* Connections that are closed.                                            *)
Gone(S) ==
    /\ conn'   = [c \in Conn |-> IF c \in S THEN "gone" ELSE conn[c]]
    /\ sock'   = [c \in Conn |-> IF c \in S THEN NoSock ELSE sock[c]]
    /\ silent' = [c \in Conn |-> silent[c] /\ c \notin S]

(* When processes close sockets, those that no process has left are reset  *)
(* with what is in their backlog; op and kp is what the others have.       *)
Reset(op, kp) ==
    {c \in Conn : /\ conn[c] = "queued"
                  /\ sock[c][2] \notin op[sock[c][1]]
                  /\ \A b \in Conn : sock[c][2] \in kp[b] => sock[b][1] # sock[c][1]}

-----------------------------------------------------------------------------
(* do_standalone_mode, until it listens.                                   *)

(* usbip_driver_open, which may fail.                                      *)
Start(d) ==
    /\ Goes(d, "off", "daemonize") \/ Goes(d, "off", "close")
    /\ LET others == {e \in Inst : pc[e] \in Alive} IN
         met' = IF others = {} THEN met ELSE met \cup others \cup {d}
    /\ UNCHANGED <<todo, open, pidfile, connVars, termed, lost>>

(* daemon, and set_signal; or daemon fails.                                *)
Daemonize(d) ==
    /\ Goes(d, "daemonize", "write_pid") \/ Goes(d, "daemonize", "close")
    /\ UNCHANGED <<todo, open, pidfile, connVars, pastVars>>

(* write_pid_file, and do_getaddrinfo, which may fail.                     *)
WritePidFile(d) ==
    /\ pidfile' = IF d \in WithPid THEN d ELSE pidfile
    /\ \/ /\ Goes(d, "write_pid", "listen")
          /\ todo' = [todo EXCEPT ![d] = FamiliesOf[d]]
       \/ Goes(d, "write_pid", "close") /\ UNCHANGED todo
    /\ UNCHANGED <<open, connVars, pastVars>>

(* One turn of listen_all_addrinfo: socket, bind and listen, one of which  *)
(* fails while another socket listens there, and may fail anyhow.          *)
Listen(d) ==
    /\ pc[d] = "listen"
    /\ \E f \in todo[d] :
         /\ First(f, todo[d])
         /\ todo' = [todo EXCEPT ![d] = @ \ {f}]
         /\ \/ /\ \A e \in Inst : ~ IsOpen(e, f)
               /\ open' = [open EXCEPT ![d] = @ \cup {f}]
            \/ UNCHANGED open
    /\ UNCHANGED <<pc, pidfile, connVars, pastVars>>

Listens(d) ==
    /\ pc[d] = "listen" /\ todo[d] = {}
    /\ pc' = [pc EXCEPT ![d] = IF open[d] = {} THEN "close" ELSE "poll"]
    /\ UNCHANGED <<todo, open, pidfile, connVars, pastVars>>

-----------------------------------------------------------------------------
(* The loop.                                                               *)
Ready(d) == {f \in open[d] : Queued(d, f) # {}}

PollsButLast(d) ==           \* mutant: nfds is one too small
    /\ \E f \in Ready(d) : ~ \A g \in open[d] : g <= f
    /\ Goes(d, "poll", "loop")
    /\ todo' = [todo EXCEPT ![d] = {f \in Ready(d) : ~ \A g \in open[d] : g <= f}]
    /\ UNCHANGED <<open, pidfile, connVars, pastVars>>

Poll(d) ==
    /\ Ready(d) # {}
    /\ Goes(d, "poll", "loop")
    /\ todo' = [todo EXCEPT ![d] = Ready(d)]
    /\ UNCHANGED <<open, pidfile, connVars, pastVars>>

(* ppoll fails by itself, not by a signal.                                 *)
PollFails(d) ==
    /\ Goes(d, "poll", "close")
    /\ UNCHANGED <<todo, open, pidfile, connVars, pastVars>>

(* process_request on the next descriptor with POLLIN: do_accept waits for *)
(* a connection if the one that was there has gone.  Then fork; the child  *)
(* closes that descriptor.  Or tcpd denies the host, or fork fails.        *)
ProcessRequest(d) ==
    /\ pc[d] = "loop"
    /\ \E f \in todo[d] : \E c \in Queued(d, f) :
         /\ First(f, todo[d])
         /\ todo' = [todo EXCEPT ![d] = @ \ {f}]
         /\ \/ /\ conn' = [conn EXCEPT ![c] = "child"]
               /\ kept' = [kept EXCEPT ![c] = open[d] \ {f}]
               /\ UNCHANGED <<sock, silent>>
            \/ Gone({c}) /\ UNCHANGED kept
    /\ UNCHANGED <<pc, open, pidfile, pastVars>>

PollAgain(d) ==
    /\ todo[d] = {}
    /\ Goes(d, "loop", "poll")
    /\ UNCHANGED <<todo, open, pidfile, connVars, pastVars>>

KeepsPidFile(d) ==           \* mutant: an error exit does not remove it
    /\ Goes(d, "close", "exit")
    /\ pidfile' = IF d \in WithPid /\ open[d] # {} THEN NoInst ELSE pidfile
    /\ UNCHANGED <<todo, open, connVars, pastVars>>

(* usbip_driver_close, if it was opened; then main's remove_pid_file,      *)
(* whatever do_standalone_mode returned.                                   *)
RemovePidFile(d) ==
    /\ Goes(d, "close", "exit")
    /\ pidfile' = IF d \in WithPid THEN NoInst ELSE pidfile
    /\ UNCHANGED <<todo, open, connVars, pastVars>>

(* The end of the process closes its sockets, but not those of children.   *)
Ends(d, how) ==
    /\ pc'   = [pc EXCEPT ![d] = how]
    /\ todo' = [todo EXCEPT ![d] = {}]
    /\ open' = [open EXCEPT ![d] = {}]
    /\ Gone(Reset(open', kept))
    /\ termed' = termed \ {d} /\ lost' = lost \ {d} /\ met' = met \ {d}
    /\ UNCHANGED <<pidfile, kept>>

Exit(d) == pc[d] = "exit" /\ Ends(d, "exited")

DaemonStep(d) ==
    \/ Daemonize(d) \/ WritePidFile(d) \/ Listen(d) \/ Listens(d)
    \/ Poll(d) \/ ProcessRequest(d) \/ PollAgain(d) \/ RemovePidFile(d) \/ Exit(d)

-----------------------------------------------------------------------------
(* Signals to the daemon.                                                  *)

(* SIGKILL; or SIGTERM before set_signal, which has the same effect.       *)
Kill(d) == pc[d] \in Alive \cup {"exit"} /\ Ends(d, "killed")

TermBlocked(d) ==            \* mutant: sigdelset(SIGTERM) is missing
    /\ pc[d] = "poll"
    /\ termed' = termed \cup {d}
    /\ UNCHANGED <<procVars, connVars, lost, met>>

(* SIGTERM in ppoll, which fails with EINTR: terminate is set.             *)
TermInPoll(d) ==
    /\ Goes(d, "poll", "close")
    /\ termed' = termed \cup {d}
    /\ UNCHANGED <<todo, open, pidfile, connVars, lost, met>>

(* Anywhere else the handler does nothing but make an accept that waits    *)
(* return.                                                                 *)
TermElsewhere(d) ==
    /\ pc[d] \in (Alive \ {"daemonize", "poll"}) \cup {"exit"}
    /\ termed' = termed \cup {d}
    /\ lost'   = lost \cup {d}
    /\ \/ UNCHANGED todo
       \/ \E f \in todo[d] : /\ pc[d] = "loop" /\ First(f, todo[d]) /\ Queued(d, f) = {}
                             /\ todo' = [todo EXCEPT ![d] = @ \ {f}]
    /\ UNCHANGED <<pc, open, pidfile, connVars, met>>

Term(d) == d \notin termed /\ (TermInPoll(d) \/ TermElsewhere(d))

-----------------------------------------------------------------------------
(* Clients, and the children that serve them.                              *)

Connect(c) ==
    /\ conn[c] = "idle"
    /\ \E d \in Inst, f \in Family :
         /\ IsOpen(d, f)
         /\ conn'   = [conn EXCEPT ![c] = "queued"]
         /\ sock'   = [sock EXCEPT ![c] = <<d, f>>]
         /\ silent' = [silent EXCEPT ![c] = TRUE]
    /\ UNCHANGED <<procVars, kept, pastVars>>

(* The client sends its request or leaves; in the latter case the network  *)
(* may take its connection out of the backlog.                             *)
SpeakOrLeave(c) ==
    /\ silent[c] /\ conn[c] \in {"queued", "child"}
    /\ \/ silent' = [silent EXCEPT ![c] = FALSE] /\ UNCHANGED <<conn, sock>>
       \/ conn[c] = "queued" /\ Gone({c})
    /\ UNCHANGED <<procVars, kept, pastVars>>

ChildStays(c) ==             \* mutant: no exit(0), it goes on in the parent's loop
    /\ conn[c] = "child" /\ ~ silent[c]
    /\ conn' = [conn EXCEPT ![c] = "gone"]
    /\ UNCHANGED <<procVars, sock, kept, silent, pastVars>>

(* recv_pdu returns (properties ConnectionReclaimed and RequestServed of   *)
(* UsbipDaemon): exit(0) of the child.                                     *)
ChildExits(c) ==
    /\ conn[c] = "child" /\ ~ silent[c]
    /\ kept' = [kept EXCEPT ![c] = {}]
    /\ Gone({c} \cup Reset(open, kept'))
    /\ UNCHANGED <<procVars, pastVars>>

-----------------------------------------------------------------------------
MainNext ==
    \/ \E d \in Inst : Start(d) \/ DaemonStep(d) \/ PollFails(d) \/ Kill(d) \/ Term(d)
    \/ \E c \in Conn : Connect(c) \/ SpeakOrLeave(c) \/ ChildExits(c)

(* Processes run.  No client has to speak, nobody has to start or stop a   *)
(* daemon, and ppoll need not fail.                                        *)
MainFairness == /\ \A d \in Inst : WF_mainVars(DaemonStep(d))
                /\ \A c \in Conn : WF_mainVars(ChildExits(c))

MainSpec     == MainInit /\ [][MainNext]_mainVars
FairMainSpec == MainSpec /\ MainFairness

-----------------------------------------------------------------------------
(* Properties.                                                             *)

(* The pid file never names a daemon that came to its end by itself, and   *)
(* it names every daemon that is up and was given it, unless two daemons   *)
(* ran at the same time: then the one that cannot listen overwrites and    *)
(* removes the other's (write_pid_file before listen_all_addrinfo,         *)
(* remove_pid_file whatever do_standalone_mode returned).                  *)
PidFileIsTrue ==
    \A d \in WithPid :
        /\ pidfile = d => pc[d] # "exited"
        /\ pc[d] \in {"poll", "loop"} /\ d \notin met => pidfile = d

(* SIGTERM ends the daemon, unless it is handled outside ppoll, the only   *)
(* place where the daemon notices that there was a signal.                 *)
TermEnds == \A d \in Inst : d \in termed ~> (pc[d] \in Ended \/ d \in lost)

(* When a daemon has ended, cleanly or not, the address families it        *)
(* listened on become free for the next, except those that a child of a    *)
(* silent client has inherited the sockets of.                             *)
HeldBySilent(d, f) == \E c \in Conn : /\ conn[c] = "child" /\ silent[c]
                                      /\ sock[c][1] = d /\ f \in kept[c]
PortComesBack ==
    \A d \in Inst, f \in Family :
        pc[d] \in Ended ~> (~ IsOpen(d, f) \/ HeldBySilent(d, f))

(* A connection does not stay in a backlog, unless its socket has outlived *)
(* the daemon in the child of a silent client, or the daemon waits in an   *)
(* accept for a connection that it saw and that has gone since.            *)
Unserved(c) == pc[sock[c][1]] \in Ended /\ HeldBySilent(sock[c][1], sock[c][2])
InAccept(d) == pc[d] = "loop" /\ \E f \in todo[d] : First(f, todo[d]) /\ Queued(d, f) = {}
QueueDrains ==
    \A c \in Conn : conn[c] = "queued" ~>
        (conn[c] # "queued" \/ Unserved(c) \/ InAccept(sock[c][1]))
=============================================================================
