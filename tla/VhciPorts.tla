------------------------------ MODULE VhciPorts ------------------------------
(***************************************************************************)
(* The ports of one client machine and who works on them: calls of         *)
(* import_device with the record_connection that follows (usbip_attach.c)  *)
(* and of detach_port (usbip_detach.c), through vhci_driver.c.             *)
(*                                                                         *)
(* The calls of a process are threads, as the application's tasks are, and *)
(* share its vhci_driver, which every call opens and closes.  All share    *)
(* the kernel's ports and the directory of state files.  A driver is named *)
(* for the call that allocated it, and so is the inode of a state file for *)
(* the call that created it.  Ports are those of one controller and hub.   *)
(***************************************************************************)
EXTENDS Naturals

CONSTANTS Proc,       \* processes of the machine
          Attacher,   \* calls of import_device; the name is that of the socket, too
          Detacher,   \* calls of detach_port
          ProcOf,     \* ProcOf[c]: the process that makes the call
          Port,       \* numbers of the ports
          Nobody      \* neither a call nor a driver: NULL

Call == Attacher \cup Detacher

ASSUME CallAssumption == ProcOf \in [Call -> Proc] /\ Attacher \cap Detacher = {}
                         /\ Nobody \notin Call
ASSUME PortAssumption == Port \subseteq Nat

VARIABLES
    pc,         \* pc[c]: where the call stands
    res,        \* res[c]: what it is about to return
    rhport,     \* rhport[c]: the port it picked, or was told to detach
    driver,     \* driver[q]: vhci_driver of process q
    heap,       \* drivers allocated and not freed
    idev,       \* idev[o][p]: what driver o lists of port p, "blank" from calloc
    lines,      \* lines[c]: of the status attribute, ports to be parsed still
    owner,      \* owner[p]: whose socket the kernel's port has
    dir,        \* VHCI_STATE_PATH exists
    file,       \* file[p]: the state file of port p
    inode,      \* inode[c]: the file that c has open
    dead,       \* processes that crashed or ended
    crashed,    \* history: processes that used NULL or freed memory
    overlapped, \* history: processes that had two calls in the library
    muddled,    \* history: ports whose record is not their owner's; see there
    wasFree     \* history: detaching calls whose port was free meanwhile

libVars  == <<driver, heap, idev, lines>>
fileVars == <<dir, file, inode>>
pastVars == <<overlapped, muddled, wasFree>>
portVars == <<pc, res, rhport, libVars, owner, fileVars, dead, crashed, pastVars>>

Inside   == {"read", "parse", "opened", "attach", "remove", "detach", "close", "unwind", "null"}
File     == [ino : Attacher, by : Attacher \cup {Nobody}]
NoFile   == [ino |-> Nobody, by |-> Nobody]
Blank    == [p \in Port |-> "blank"]

PortsTypeOK ==
    /\ pc      \in [Call -> Inside \cup {"open", "mkdir", "create", "write", "done", "failed"}]
    /\ res     \in [Call -> {"ok", "fail"}]
    /\ rhport  \in [Call -> Port]
    /\ driver  \in [Proc -> Call \cup {Nobody}]
    /\ heap    \subseteq Call
    /\ idev    \in [Call -> [Port -> {"blank", "free", "used"}]]
    /\ lines   \in [Call -> SUBSET (Port \X {"free", "used"})]
    /\ owner   \in [Port -> Attacher \cup {Nobody}]
    /\ dir     \in BOOLEAN
    /\ file    \in [Port -> File \cup {NoFile}]
    /\ inode   \in [Attacher -> Attacher \cup {Nobody}]
    /\ dead    \subseteq Proc /\ crashed \subseteq dead
    /\ overlapped \subseteq Proc
    /\ muddled \subseteq Port
    /\ wasFree \subseteq Detacher

Least(p, S) == p \in S /\ \A q \in S : p <= q

PortsInit ==
    /\ pc      = [c \in Call |-> "open"]
    /\ res     = [c \in Call |-> "ok"]
    /\ rhport  \in {r \in [Call -> Port] : \A c \in Attacher : Least(r[c], Port)}
    /\ driver  = [q \in Proc |-> Nobody]
    /\ heap    = {}
    /\ idev    = [c \in Call |-> Blank]
    /\ lines   = [c \in Call |-> {}]
    /\ owner   = [p \in Port |-> Nobody]
    /\ dir     = FALSE
    /\ file    = [p \in Port |-> NoFile]
    /\ inode   = [c \in Attacher |-> Nobody]
    /\ dead    = {}
    /\ crashed = {}
    /\ overlapped = {}
    /\ muddled = {}
    /\ wasFree = {}

My(c)     == driver[ProcOf[c]]
Busy(q)   == {c \in Call : ProcOf[c] = q /\ pc[c] \in Inside}
At(c, l)  == pc[c] = l /\ ProcOf[c] \notin dead
Goes(c, here, there) == At(c, here) /\ pc' = [pc EXCEPT ![c] = there]

(* To the end of the call, with what it will return; or out of a failed    *)
(* usbip_vhci_driver_open.                                                 *)
Closes(c, here, r) == Goes(c, here, "close") /\ res' = [res EXCEPT ![c] = r]
Unwinds(c, here)   == Goes(c, here, "unwind") /\ res' = [res EXCEPT ![c] = "fail"]
Leaves(c)          == IF res[c] = "fail" THEN "failed"
                      ELSE IF c \in Attacher THEN "mkdir" ELSE "done"

-----------------------------------------------------------------------------
(* vhci_driver points to a driver, to freed memory or nowhere.  The last   *)
(* ends the process; freed memory holds anything, if it does not.          *)
Lists(c) == CASE My(c) = Nobody -> {}
              [] My(c) \in heap -> {idev[My(c)]}
              [] OTHER          -> [Port -> {"blank", "free", "used"}]

Reaches(c) == My(c) # Nobody

Crash(c) ==
    /\ pc[c] \in Inside \ {"remove", "null"} /\ ProcOf[c] \notin dead
    /\ My(c) \notin heap
    /\ pc[c] \in {"close", "unwind"} => My(c) # Nobody
    /\ dead'    = dead \cup {ProcOf[c]}
    /\ crashed' = crashed \cup {ProcOf[c]}
    /\ UNCHANGED <<pc, res, rhport, libVars, owner, fileVars, pastVars>>

-----------------------------------------------------------------------------
(* usbip_vhci_driver_open.                                                 *)

(* A call that enters while another of its process is in the library.      *)
Enters(c) ==
    /\ overlapped' = IF Busy(ProcOf[c]) = {} THEN overlapped
                                             ELSE overlapped \cup {ProcOf[c]}
    /\ wasFree' = IF c \in Detacher /\ owner[rhport[c]] = Nobody
                    THEN wasFree \cup {c} ELSE wasFree

(* No udev; or no controller or no port, or no memory for the driver.      *)
OpenFails(c) ==
    /\ \/ Goes(c, "open", "failed") /\ res' = [res EXCEPT ![c] = "fail"] /\ UNCHANGED driver
       \/ Unwinds(c, "open") /\ UNCHANGED driver
       \/ Unwinds(c, "open") /\ driver' = [driver EXCEPT ![ProcOf[c]] = Nobody]
    /\ Enters(c)
    /\ UNCHANGED <<rhport, heap, idev, lines, owner, fileVars, dead, crashed, muddled>>

Allocate(c) ==
    /\ Goes(c, "open", "read")
    /\ driver' = [driver EXCEPT ![ProcOf[c]] = c]
    /\ heap'   = heap \cup {c}
    /\ idev'   = [idev EXCEPT ![c] = Blank]
    /\ Enters(c)
    /\ UNCHANGED <<res, rhport, lines, owner, fileVars, dead, crashed, muddled>>

(* get_ncontrollers, and refresh_imported_device_list up to the parsing of *)
(* the status attribute, one moment's view of the ports.                   *)
ReadStatus(c) ==
    /\ Reaches(c)
    /\ Goes(c, "read", "parse")
    /\ lines' = [lines EXCEPT ![c] =
                   {<<p, IF owner[p] = Nobody THEN "free" ELSE "used">> : p \in Port}]
    /\ UNCHANGED <<res, rhport, driver, heap, idev, owner, fileVars, dead, crashed, pastVars>>

ReadFails(c) ==
    /\ Reaches(c)
    /\ Unwinds(c, "read")
    /\ UNCHANGED <<rhport, libVars, owner, fileVars, dead, crashed, pastVars>>

(* One line, into the driver that is there now.  An attached device that   *)
(* udev does not know of yet fails the whole of the opening.               *)
ParseLine(c) ==
    /\ Reaches(c)
    /\ \E line \in lines[c] :
         /\ \A l \in lines[c] : line[1] <= l[1]
         /\ \/ /\ Goes(c, "parse", IF lines[c] = {line} THEN "opened" ELSE "parse")
               /\ lines' = [lines EXCEPT ![c] = @ \ {line}]
               /\ UNCHANGED res
            \/ /\ line[2] = "used"
               /\ Unwinds(c, "parse")
               /\ lines' = [lines EXCEPT ![c] = {}]
         /\ idev' = IF My(c) \in heap THEN [idev EXCEPT ![My(c)][line[1]] = line[2]]
                                      ELSE idev
    /\ UNCHANGED <<rhport, driver, heap, owner, fileVars, dead, crashed, pastVars>>

(* usbip_vhci_driver_close, and the same in a failed open: free, and NULL. *)
(* Without a driver the former returns at once.                            *)
KeepsPointer(c) ==           \* mutant: vhci_driver keeps its value
    /\ pc[c] \in {"close", "unwind"} /\ ProcOf[c] \notin dead
    /\ My(c) \in heap \cup {Nobody}
    /\ pc'   = [pc EXCEPT ![c] = Leaves(c)]
    /\ heap' = heap \ {My(c)}
    /\ idev' = [o \in Call |-> IF o = My(c) THEN Blank ELSE idev[o]]
    /\ UNCHANGED <<res, rhport, driver, lines, owner, fileVars, dead, crashed, pastVars>>

Free(c) ==
    /\ \/ Goes(c, "close", IF My(c) = Nobody THEN Leaves(c) ELSE "null")
       \/ Goes(c, "unwind", "null")
    /\ My(c) \in heap \cup {Nobody}
    /\ heap' = heap \ {My(c)}
    /\ idev' = [o \in Call |-> IF o = My(c) THEN Blank ELSE idev[o]]
    /\ UNCHANGED <<res, rhport, driver, lines, owner, fileVars, dead, crashed, pastVars>>

Forget(c) ==
    /\ Goes(c, "null", Leaves(c))
    /\ driver' = [driver EXCEPT ![ProcOf[c]] = Nobody]
    /\ UNCHANGED <<res, rhport, heap, idev, lines, owner, fileVars, dead, crashed, pastVars>>

-----------------------------------------------------------------------------
(* import_device.                                                          *)

PicksNone(c) ==              \* mutant: -1 is not recognised as "no port"
    /\ c \in Attacher
    /\ \E list \in Lists(c) : \A p \in Port : list[p] # "free"
    /\ Goes(c, "opened", "attach") /\ rhport' = [rhport EXCEPT ![c] = 255]
    /\ UNCHANGED <<res, libVars, owner, fileVars, dead, crashed, pastVars>>

(* usbip_vhci_get_free_port, from the list as it was read.                 *)
GetFreePort(c) ==
    /\ c \in Attacher
    /\ \E list \in Lists(c) :
         LET ports == {p \in Port : list[p] = "free"} IN
         \/ ports = {} /\ Closes(c, "opened", "fail") /\ UNCHANGED rhport
         \/ /\ Goes(c, "opened", "attach")
            /\ \E p \in ports : Least(p, ports) /\ rhport' = [rhport EXCEPT ![c] = p]
            /\ UNCHANGED res
    /\ UNCHANGED <<libVars, owner, fileVars, dead, crashed, pastVars>>

AttachPort(c) ==
    /\ Reaches(c)
    /\ owner[rhport[c]] = Nobody
    /\ Closes(c, "attach", "ok")
    /\ owner'   = [owner EXCEPT ![rhport[c]] = c]
    /\ muddled' = muddled \ {rhport[c]}
    /\ UNCHANGED <<rhport, libVars, fileVars, dead, crashed, overlapped, wasFree>>

(* EBUSY, and once more; or any other error.                               *)
AttachBusy(c) ==
    /\ Reaches(c)
    /\ owner[rhport[c]] # Nobody
    /\ Goes(c, "attach", "opened")
    /\ UNCHANGED <<res, rhport, libVars, owner, fileVars, dead, crashed, pastVars>>

AttachRefused(c) ==
    /\ Reaches(c)
    /\ Closes(c, "attach", "fail")
    /\ UNCHANGED <<rhport, libVars, owner, fileVars, dead, crashed, pastVars>>

-----------------------------------------------------------------------------
(* record_connection.  Every call in it may fail.                          *)

RecordFails(c) ==
    /\ pc[c] \in {"mkdir", "create", "write"} /\ ProcOf[c] \notin dead
    /\ pc' = [pc EXCEPT ![c] = "failed"]
    /\ inode' = [inode EXCEPT ![c] = Nobody]
    /\ UNCHANGED <<res, rhport, libVars, owner, dir, file, dead, crashed, pastVars>>

MakeDir(c) ==
    /\ Goes(c, "mkdir", "create")
    /\ dir' = TRUE
    /\ UNCHANGED <<res, rhport, libVars, owner, file, inode, dead, crashed, pastVars>>

(* The port has changed hands since c attached it.                         *)
Muddles(c) ==
    muddled' = IF owner[rhport[c]] = c THEN muddled ELSE muddled \cup {rhport[c]}

(* open with O_CREAT and O_TRUNC; it fails without the directory.          *)
Create(c) ==
    LET p == rhport[c] IN
    /\ dir
    /\ Goes(c, "create", "write")
    /\ IF file[p] = NoFile
         THEN file' = [file EXCEPT ![p] = [ino |-> c, by |-> Nobody]]
         ELSE file' = [file EXCEPT ![p].by = Nobody]
    /\ inode' = [inode EXCEPT ![c] = file'[p].ino]
    /\ Muddles(c)
    /\ UNCHANGED <<res, rhport, libVars, owner, dir, dead, crashed, overlapped, wasFree>>

(* Into the file that was opened, which may have been removed.             *)
WriteRecord(c) ==
    LET p == rhport[c] IN
    /\ Goes(c, "write", "done")
    /\ IF file[p].ino = inode[c]
         THEN file' = [file EXCEPT ![p].by = c] /\ Muddles(c)
         ELSE UNCHANGED <<file, muddled>>
    /\ inode' = [inode EXCEPT ![c] = Nobody]
    /\ UNCHANGED <<res, rhport, libVars, owner, dir, dead, crashed, overlapped, wasFree>>

-----------------------------------------------------------------------------
(* detach_port.                                                            *)

(* The check.  A port that is free is "already detached"; one that is not  *)
(* listed is "invalid"; both return 0.  A blank entry has the number 0.    *)
CheckPort(c) ==
    /\ c \in Detacher
    /\ \E list \in Lists(c) :
         IF list[rhport[c]] = "used" \/ (rhport[c] = 0 /\ list[0] = "blank")
           THEN Goes(c, "opened", "remove") /\ UNCHANGED res
           ELSE Closes(c, "opened", "ok")
    /\ UNCHANGED <<rhport, libVars, owner, fileVars, dead, crashed, pastVars>>

RemovesLast(c) ==            \* mutant: the state file is removed after the detach
    /\ \/ Goes(c, "remove", "detach") /\ UNCHANGED <<dir, file>>
       \/ /\ At(c, "close") /\ c \in Detacher /\ res[c] = "ok" /\ UNCHANGED <<pc, dir>>
          /\ file' = [file EXCEPT ![rhport[c]] = NoFile]
    /\ UNCHANGED <<res, rhport, libVars, owner, inode, dead, crashed, pastVars>>

(* remove, and rmdir, which fails unless the directory is empty.           *)
RemoveFile(c) ==
    /\ Goes(c, "remove", "detach")
    /\ file' = [file EXCEPT ![rhport[c]] = NoFile]
    /\ dir'  = (dir /\ \E p \in Port : file'[p] # NoFile)
    /\ UNCHANGED <<res, rhport, libVars, owner, inode, dead, crashed, pastVars>>

(* Port p is free from now on: so it was during all calls that detach it.  *)
Frees(p) ==
    /\ owner'   = [owner EXCEPT ![p] = Nobody]
    /\ wasFree' = wasFree \cup {d \in Detacher : rhport[d] = p /\ pc[d] # "open"}

DetachPort(c) ==
    /\ Reaches(c)
    /\ owner[rhport[c]] # Nobody
    /\ Closes(c, "detach", "ok")
    /\ Frees(rhport[c])
    /\ UNCHANGED <<rhport, libVars, fileVars, dead, crashed, overlapped, muddled>>

DetachUnchecked(c) ==        \* mutant: ret keeps the value of driver_open
    /\ Reaches(c)
    /\ Closes(c, "detach", "ok")
    /\ UNCHANGED <<rhport, libVars, owner, fileVars, dead, crashed, pastVars>>

(* The kernel refuses, the port being free or for another reason; then the *)
(* port is left without its record.                                        *)
DetachRefused(c) ==
    /\ Reaches(c)
    /\ Closes(c, "detach", "fail")
    /\ muddled' = muddled \cup {rhport[c]}
    /\ UNCHANGED <<rhport, libVars, owner, fileVars, dead, crashed, overlapped, wasFree>>

-----------------------------------------------------------------------------
(* The connection of a port goes down; a process ends.                     *)
PortDown(p) ==
    /\ owner[p] # Nobody
    /\ Frees(p)
    /\ UNCHANGED <<pc, res, rhport, libVars, fileVars, dead, crashed, overlapped, muddled>>

Quit(q) ==
    /\ q \notin dead
    /\ dead' = dead \cup {q}
    /\ UNCHANGED <<pc, res, rhport, libVars, owner, fileVars, crashed, pastVars>>

CallStep(c) ==
    \/ OpenFails(c) \/ Allocate(c) \/ ReadStatus(c) \/ ReadFails(c) \/ ParseLine(c)
    \/ Free(c) \/ Forget(c) \/ Crash(c)

AttacherStep(c) ==
    \/ GetFreePort(c) \/ AttachPort(c) \/ AttachBusy(c) \/ AttachRefused(c)
    \/ RecordFails(c) \/ MakeDir(c) \/ Create(c) \/ WriteRecord(c)

DetacherStep(c) == CheckPort(c) \/ RemoveFile(c) \/ DetachPort(c) \/ DetachRefused(c)

PortsNext ==
    \/ \E c \in Call : CallStep(c)
    \/ \E c \in Attacher : AttacherStep(c)
    \/ \E c \in Detacher : DetacherStep(c)
    \/ \E p \in Port : PortDown(p)
    \/ \E q \in Proc : Quit(q)

PortsSpec == PortsInit /\ [][PortsNext]_portVars

-----------------------------------------------------------------------------
(* Properties.                                                             *)

(* A process that has one call at a time in the library never uses a freed *)
(* or missing driver, and keeps none when no call is in it, however its    *)
(* calls failed: only calls that overlap do that to one another.           *)
LibraryIsSound ==
    \A q \in Proc \ overlapped :
        /\ q \notin crashed
        /\ Busy(q) = {} => driver[q] = Nobody /\ \A c \in heap : ProcOf[c] # q

(* Once attach_device has recorded the port it attached, the state file    *)
(* says who has the port for as long as the port is attached; but for the  *)
(* middle of a detach_port and, until the next attach, for a detach that   *)
(* was refused and for a record that was written when the port had changed *)
(* hands.                                                                  *)
Detaching(p) == \E d \in Detacher : rhport[d] = p /\ pc[d] = "detach"

RecordIsOwners ==
    \A p \in Port \ muddled :
        owner[p] # Nobody /\ pc[owner[p]] = "done" /\ ~Detaching(p)
            => file[p].by = owner[p]

(* When detach_port returned 0, its port was free at some time during the  *)
(* call, unless calls of its process overlapped: then it may have looked   *)
(* into a list that was not read yet.                                      *)
DetachedWasFree ==
    \A d \in Detacher : pc[d] = "done" /\ ProcOf[d] \notin overlapped => d \in wasFree
=============================================================================
