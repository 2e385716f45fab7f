--------------------------- MODULE VhciPortsProofs ---------------------------
(***************************************************************************)
(* Proofs about VhciPorts: its types, the soundness of the library, what   *)
(* detach_port promises, and the state files.                              *)
(***************************************************************************)
EXTENDS VhciPorts, TLAPS

(* An open state file has an inode.                                        *)
OpenFiles == \A c \in Attacher : pc[c] = "write" => inode[c] \in Attacher

PortsInv == PortsTypeOK /\ OpenFiles

Steps(c) ==
    \/ CallStep(c)
    \/ c \in Attacher /\ AttacherStep(c)
    \/ c \in Detacher /\ DetacherStep(c)

(* A step of one call leaves the places of the others alone.               *)
LEMMA OthersStay ==
    ASSUME PortsTypeOK, NEW c \in Call, Steps(c)
    PROVE  \A b \in Call \ {c} : pc'[b] = pc[b] /\ res'[b] = res[b] /\ rhport'[b] = rhport[b]
<1> USE DEF PortsTypeOK, Goes, Closes, Unwinds
<1>1. CASE CallStep(c)
  BY <1>1 DEF CallStep, OpenFails, Allocate, ReadStatus, ReadFails, ParseLine, Free, Forget, Crash
<1>2. CASE AttacherStep(c)
  <2>1. CASE GetFreePort(c)
    BY <2>1 DEF GetFreePort
  <2>2. CASE RecordFails(c) \/ MakeDir(c) \/ Create(c) \/ WriteRecord(c)
    BY <2>2 DEF RecordFails, MakeDir, Create, WriteRecord
  <2>3. CASE AttachPort(c) \/ AttachBusy(c) \/ AttachRefused(c)
    BY <2>3 DEF AttachPort, AttachBusy, AttachRefused
  <2>4. QED
    BY <1>2, <2>1, <2>2, <2>3 DEF AttacherStep
<1>3. CASE DetacherStep(c)
  BY <1>3 DEF DetacherStep, CheckPort, RemoveFile, DetachPort, DetachRefused
<1>4. QED
  BY <1>1, <1>2, <1>3 DEF Steps

-----------------------------------------------------------------------------
(* The types.                                                              *)

(* What every call does keeps the types.                                   *)
LEMMA CallTypes ==
    ASSUME PortsTypeOK, NEW c \in Call, CallStep(c)
    PROVE  PortsTypeOK'
<1> USE CallAssumption DEF PortsTypeOK, Inside, Goes, Closes, Unwinds, At
<1>0. ProcOf[c] \in Proc /\ My(c) \in Call \cup {Nobody} /\ ProcOf \in [Call -> Proc]
  BY DEF My
<1>1. Leaves(c) \in {"failed", "mkdir", "done"}
  BY DEF Leaves
<1>2. CASE OpenFails(c)
  <2>1. overlapped' \subseteq Proc /\ wasFree' \subseteq Detacher
    BY <1>0, <1>2 DEF OpenFails, Enters
  <2>2. driver' \in [Proc -> Call \cup {Nobody}]
    BY <1>0, <1>2 DEF OpenFails
  <2>3. pc' \in [Call -> Inside \cup {"open", "mkdir", "create", "write", "done", "failed"}]
        /\ res' \in [Call -> {"ok", "fail"}]
    BY <1>2 DEF OpenFails
  <2>4. UNCHANGED <<rhport, heap, idev, lines, owner, fileVars, dead, crashed, muddled>>
    BY <1>2 DEF OpenFails
  <2>5. QED
    BY <2>1, <2>2, <2>3, <2>4 DEF fileVars
<1>3. CASE Allocate(c)
  <2>1. overlapped' \subseteq Proc /\ wasFree' \subseteq Detacher
    BY <1>0, <1>3 DEF Allocate, Enters
  <2>2. /\ driver' \in [Proc -> Call \cup {Nobody}]
        /\ heap' \subseteq Call
        /\ pc' \in [Call -> Inside \cup {"open", "mkdir", "create", "write", "done", "failed"}]
    BY <1>0, <1>3 DEF Allocate
  <2>3. Blank \in [Port -> {"blank", "free", "used"}]
    BY DEF Blank
  <2>4. idev' \in [Call -> [Port -> {"blank", "free", "used"}]]
    BY <1>3, <2>3 DEF Allocate
  <2>5. UNCHANGED <<res, rhport, lines, owner, fileVars, dead, crashed, muddled>>
    BY <1>3 DEF Allocate
  <2>6. QED
    BY <2>1, <2>2, <2>4, <2>5 DEF fileVars
<1>4. CASE ReadStatus(c)
  <2>1. {<<p, IF owner[p] = Nobody THEN "free" ELSE "used">> : p \in Port}
          \in SUBSET (Port \X {"free", "used"})
    OBVIOUS
  <2>2. lines' \in [Call -> SUBSET (Port \X {"free", "used"})]
    BY <1>4, <2>1 DEF ReadStatus
  <2>3. QED
    BY <1>4, <2>2 DEF ReadStatus, fileVars, pastVars
<1>5. CASE ReadFails(c)
  BY <1>5 DEF ReadFails, libVars, fileVars, pastVars
<1>6. CASE ParseLine(c)
  <2>1. PICK line \in lines[c] :
          /\ \/ /\ Goes(c, "parse", IF lines[c] = {line} THEN "opened" ELSE "parse")
                /\ lines' = [lines EXCEPT ![c] = @ \ {line}]
                /\ UNCHANGED res
             \/ /\ Unwinds(c, "parse")
                /\ lines' = [lines EXCEPT ![c] = {}]
          /\ idev' = IF My(c) \in heap THEN [idev EXCEPT ![My(c)][line[1]] = line[2]]
                                       ELSE idev
    BY <1>6 DEF ParseLine
  <2>2. line[1] \in Port /\ line[2] \in {"free", "used"}
    OBVIOUS
  <2>3. idev' \in [Call -> [Port -> {"blank", "free", "used"}]]
    <3>1. CASE My(c) \in heap
      <4>1. [idev[My(c)] EXCEPT ![line[1]] = line[2]] \in [Port -> {"blank", "free", "used"}]
        BY <2>2, <3>1
      <4>2. idev' = [idev EXCEPT ![My(c)] = [idev[My(c)] EXCEPT ![line[1]] = line[2]]]
        BY <2>1, <3>1
      <4>3. QED
        BY <3>1, <4>1, <4>2
    <3>2. QED
      BY <2>1, <3>1
  <2>4. lines' \in [Call -> SUBSET (Port \X {"free", "used"})]
    BY <2>1, SMTT(30)
  <2>5. pc' \in [Call -> Inside \cup {"open", "mkdir", "create", "write", "done", "failed"}]
        /\ res' \in [Call -> {"ok", "fail"}]
    BY <2>1
  <2>6. UNCHANGED <<rhport, driver, heap, owner, fileVars, dead, crashed, pastVars>>
    BY <1>6 DEF ParseLine
  <2>7. QED
    BY <2>3, <2>4, <2>5, <2>6 DEF fileVars, pastVars
<1>7. CASE Free(c)
  <2>1. pc' \in [Call -> Inside \cup {"open", "mkdir", "create", "write", "done", "failed"}]
    BY <1>1, <1>7 DEF Free
  <2>2. heap' \subseteq Call /\ idev' \in [Call -> [Port -> {"blank", "free", "used"}]]
    BY <1>7 DEF Free, Blank
  <2>3. UNCHANGED <<res, rhport, driver, lines, owner, fileVars, dead, crashed, pastVars>>
    BY <1>7 DEF Free
  <2>4. QED
    BY <2>1, <2>2, <2>3 DEF fileVars, pastVars
<1>8. CASE Forget(c)
  BY <1>0, <1>1, <1>8 DEF Forget, fileVars, pastVars
<1>9. CASE Crash(c)
  BY <1>0, <1>9 DEF Crash, libVars, fileVars, pastVars
<1>10. QED
  BY <1>2, <1>3, <1>4, <1>5, <1>6, <1>7, <1>8, <1>9 DEF CallStep

(* A state file with another record is a state file.                       *)
LEMMA NewRecord ==
    ASSUME NEW r \in File, NEW x \in Attacher \cup {Nobody}
    PROVE  [r EXCEPT !.by = x] \in File /\ [r EXCEPT !.by = x].ino = r.ino
BY DEF File

(* The files stay typed when one of them is replaced.                      *)
LEMMA NewFile ==
    ASSUME file \in [Port -> File \cup {NoFile}], NEW p \in Port, NEW r \in File,
           file' = [file EXCEPT ![p] = r]
    PROVE  file' \in [Port -> File \cup {NoFile}] /\ file'[p] = r
OBVIOUS

(* The file that is created.                                               *)
LEMMA CreatedFile ==
    ASSUME PortsTypeOK, NEW c \in Attacher, Create(c)
    PROVE  /\ file' \in [Port -> File \cup {NoFile}]
           /\ file'[rhport[c]] \in File
           /\ \A p \in Port \ {rhport[c]} : file'[p] = file[p]
           /\ file[rhport[c]] # NoFile => file'[rhport[c]].ino = file[rhport[c]].ino
<1> DEFINE p == rhport[c]
<1>1. p \in Port /\ file \in [Port -> File \cup {NoFile}]
  BY DEF PortsTypeOK, Call
<1>2. CASE file[p] = NoFile
  <2>1. [ino |-> c, by |-> Nobody] \in File
    BY DEF File
  <2>2. file' = [file EXCEPT ![p] = [ino |-> c, by |-> Nobody]]
    BY <1>2 DEF Create
  <2>3. QED
    BY <1>1, <1>2, <2>1, <2>2, NewFile
<1>3. CASE file[p] # NoFile
  <2>1. file[p] \in File
    BY <1>1, <1>3
  <2>2. file' = [file EXCEPT ![p] = [file[p] EXCEPT !.by = Nobody]]
    BY <1>3 DEF Create
  <2>3. [file[p] EXCEPT !.by = Nobody] \in File /\ [file[p] EXCEPT !.by = Nobody].ino = file[p].ino
    BY <2>1, NewRecord
  <2>4. file'[p] = [file[p] EXCEPT !.by = Nobody] /\ \A q \in Port \ {p} : file'[q] = file[q]
    BY <1>1, <2>2
  <2>5. QED
    BY <1>1, <2>2, <2>3, <2>4, NewFile
<1>4. QED
  BY <1>2, <1>3

(* What attach_device and record_connection do keeps the types.            *)
LEMMA AttacherTypes ==
    ASSUME PortsTypeOK, OpenFiles, NEW c \in Attacher, AttacherStep(c)
    PROVE  PortsTypeOK'
<1> USE CallAssumption DEF PortsTypeOK, Inside, Goes, Closes, Unwinds, At
<1>0. c \in Call /\ rhport[c] \in Port /\ Attacher \subseteq Call
  BY DEF Call
<1>1. CASE GetFreePort(c)
  <2>1. PICK list \in Lists(c) :
          \/ Closes(c, "opened", "fail") /\ UNCHANGED rhport
          \/ /\ Goes(c, "opened", "attach")
             /\ \E p \in Port : rhport' = [rhport EXCEPT ![c] = p]
             /\ UNCHANGED res
    BY <1>1 DEF GetFreePort
  <2>2. UNCHANGED <<libVars, owner, fileVars, dead, crashed, pastVars>>
    BY <1>1 DEF GetFreePort
  <2>3. /\ pc' \in [Call -> Inside \cup {"open", "mkdir", "create", "write", "done", "failed"}]
        /\ res' \in [Call -> {"ok", "fail"}]
    BY <2>1
  <2>4. rhport' \in [Call -> Port]
    BY <2>1
  <2>5. QED
    BY <2>2, <2>3, <2>4 DEF libVars, fileVars, pastVars
<1>2. CASE AttachPort(c)
  <2>1. /\ pc' \in [Call -> Inside \cup {"open", "mkdir", "create", "write", "done", "failed"}]
        /\ res' \in [Call -> {"ok", "fail"}]
    BY <1>2 DEF AttachPort
  <2>2. owner' \in [Port -> Attacher \cup {Nobody}] /\ muddled' \subseteq Port
    BY <1>0, <1>2 DEF AttachPort
  <2>3. UNCHANGED <<rhport, libVars, fileVars, dead, crashed, overlapped, wasFree>>
    BY <1>2 DEF AttachPort
  <2>4. QED
    BY <2>1, <2>2, <2>3 DEF libVars, fileVars
<1>3. CASE AttachBusy(c) \/ AttachRefused(c)
  BY <1>0, <1>3 DEF AttachBusy, AttachRefused, libVars, fileVars, pastVars
<1>4. CASE RecordFails(c) \/ MakeDir(c)
  BY <1>0, <1>4 DEF RecordFails, MakeDir, libVars, fileVars, pastVars
<1>5. CASE Create(c)
  <2>1. file' \in [Port -> File \cup {NoFile}] /\ file'[rhport[c]] \in File
    BY <1>0, <1>5, CreatedFile
  <2>2. inode' \in [Attacher -> Attacher \cup {Nobody}]
    BY <1>5, <2>1 DEF Create, File
  <2>3. pc' \in [Call -> Inside \cup {"open", "mkdir", "create", "write", "done", "failed"}]
        /\ muddled' \subseteq Port
    BY <1>0, <1>5 DEF Create, Muddles
  <2>4. UNCHANGED <<res, rhport, libVars, owner, dir, dead, crashed, overlapped, wasFree>>
    BY <1>5 DEF Create
  <2>5. QED
    BY <2>1, <2>2, <2>3, <2>4 DEF libVars
<1>6. CASE WriteRecord(c)
  <2>1. file' \in [Port -> File \cup {NoFile}]
    <3>1. CASE file[rhport[c]].ino = inode[c]
      <4>1. file[rhport[c]] \in File
        <5>1. inode[c] # Nobody
          BY <1>0, <1>6 DEF WriteRecord, OpenFiles
        <5>2. file[rhport[c]] # NoFile
          BY <3>1, <5>1 DEF NoFile
        <5>3. QED
          BY <1>0, <5>2
      <4>2. file' = [file EXCEPT ![rhport[c]] = [file[rhport[c]] EXCEPT !.by = c]]
        BY <1>6, <3>1 DEF WriteRecord
      <4>3. QED
        BY <1>0, <4>1, <4>2, NewRecord, NewFile
    <3>2. CASE file[rhport[c]].ino # inode[c]
      BY <1>6, <3>2 DEF WriteRecord
    <3>3. QED
      BY <3>1, <3>2
  <2>2. pc' \in [Call -> Inside \cup {"open", "mkdir", "create", "write", "done", "failed"}]
        /\ muddled' \subseteq Port
        /\ inode' \in [Attacher -> Attacher \cup {Nobody}]
    BY <1>0, <1>6 DEF WriteRecord, Muddles
  <2>3. UNCHANGED <<res, rhport, libVars, owner, dir, dead, crashed, overlapped, wasFree>>
    BY <1>6 DEF WriteRecord
  <2>4. QED
    BY <2>1, <2>2, <2>3 DEF libVars
<1>7. QED
  BY <1>1, <1>2, <1>3, <1>4, <1>5, <1>6 DEF AttacherStep

(* What detach_port does keeps the types.                                  *)
LEMMA DetacherTypes ==
    ASSUME PortsTypeOK, NEW c \in Detacher, DetacherStep(c)
    PROVE  PortsTypeOK'
<1> USE CallAssumption DEF PortsTypeOK, Inside, Goes, Closes, Unwinds, At
<1>0. c \in Call /\ rhport[c] \in Port
  BY DEF Call
<1>1. CASE CheckPort(c)
  BY <1>0, <1>1 DEF CheckPort, libVars, fileVars, pastVars
<1>2. CASE RemoveFile(c)
  <2>1. file' \in [Port -> File \cup {NoFile}]
    BY <1>0, <1>2 DEF RemoveFile
  <2>2. dir' \in BOOLEAN
    BY <1>2 DEF RemoveFile
  <2>3. pc' \in [Call -> Inside \cup {"open", "mkdir", "create", "write", "done", "failed"}]
        /\ UNCHANGED <<res, rhport, libVars, owner, inode, dead, crashed, pastVars>>
    BY <1>2 DEF RemoveFile
  <2>4. QED
    BY <2>1, <2>2, <2>3 DEF libVars, pastVars
<1>3. CASE DetachPort(c)
  BY <1>0, <1>3 DEF DetachPort, Frees, libVars, fileVars
<1>4. CASE DetachRefused(c)
  BY <1>0, <1>4 DEF DetachRefused, libVars, fileVars
<1>5. QED
  BY <1>1, <1>2, <1>3, <1>4 DEF DetacherStep

(* Every step leaves the state well typed, and open files with an inode.   *)
LEMMA PortsInvStep == PortsInv /\ [PortsNext]_portVars => PortsInv'
<1> SUFFICES ASSUME PortsTypeOK, OpenFiles, [PortsNext]_portVars
             PROVE  PortsTypeOK' /\ OpenFiles'
  BY DEF PortsInv
<1>0. Attacher \subseteq Call /\ Detacher \subseteq Call
  BY DEF Call
<1>1. PortsTypeOK'
  <2>1. ASSUME NEW p \in Port, PortDown(p) PROVE PortsTypeOK'
    BY <2>1 DEF PortDown, Frees, PortsTypeOK, libVars, fileVars
  <2>2. ASSUME NEW q \in Proc, Quit(q) PROVE PortsTypeOK'
    BY <2>2 DEF Quit, PortsTypeOK, libVars, fileVars, pastVars
  <2>3. CASE UNCHANGED portVars
    BY <2>3 DEF portVars, PortsTypeOK, libVars, fileVars, pastVars
  <2>4. QED
    BY <2>1, <2>2, <2>3, CallTypes, AttacherTypes, DetacherTypes DEF PortsNext
<1>2. OpenFiles'
  <2> USE DEF OpenFiles
  <2>1. ASSUME NEW c \in Call, Steps(c), NEW a \in Attacher \ {c}
        PROVE  pc'[a] = "write" /\ inode'[a] = inode[a] => inode'[a] \in Attacher
    BY <1>0, <2>1, OthersStay
  <2>2. ASSUME NEW c \in Call, CallStep(c) PROVE OpenFiles'
    <3>1. UNCHANGED inode
      BY <2>2 DEF CallStep, OpenFails, Allocate, ReadStatus, ReadFails, ParseLine, Free,
                  Forget, Crash, fileVars
    <3>2. pc'[c] # "write" \/ pc'[c] = pc[c]
      BY <2>2 DEF CallStep, OpenFails, Allocate, ReadStatus, ReadFails, ParseLine, Free,
                  Forget, Crash, Goes, Unwinds, Leaves, PortsTypeOK
    <3>3. QED
      BY <1>0, <2>1, <2>2, <3>1, <3>2 DEF Steps
  <2>3. ASSUME NEW c \in Attacher, AttacherStep(c) PROVE OpenFiles'
    <3>1. \A a \in Attacher \ {c} : inode'[a] = inode[a]
      BY <2>3 DEF AttacherStep, GetFreePort, AttachPort, AttachBusy, AttachRefused,
                  RecordFails, MakeDir, Create, WriteRecord, fileVars, PortsTypeOK
    <3>2. pc'[c] = "write" => inode'[c] \in Attacher
      <4>1. CASE Create(c)
        <5>1. file'[rhport[c]].ino \in Attacher
          BY <2>3, <4>1, CreatedFile DEF File
        <5>2. QED
          BY <4>1, <5>1 DEF Create, PortsTypeOK
      <4>2. CASE ~ Create(c)
        <5>1. pc'[c] # "write"
          BY <1>0, <2>3, <4>2 DEF AttacherStep, GetFreePort, AttachPort, AttachBusy,
             AttachRefused, RecordFails, MakeDir, WriteRecord, Goes, Closes, PortsTypeOK
        <5>2. QED
          BY <5>1
      <4>3. QED
        BY <4>1, <4>2
    <3>3. QED
      BY <1>0, <2>1, <2>3, <3>1, <3>2 DEF Steps
  <2>4. ASSUME NEW c \in Detacher, DetacherStep(c) PROVE OpenFiles'
    <3>1. UNCHANGED inode /\ c \notin Attacher
      BY <2>4, CallAssumption DEF DetacherStep, CheckPort, RemoveFile, DetachPort,
         DetachRefused, fileVars
    <3>2. QED
      BY <1>0, <2>1, <2>4, <3>1 DEF Steps
  <2>5. ASSUME NEW p \in Port, PortDown(p) PROVE OpenFiles'
    BY <2>5 DEF PortDown, fileVars
  <2>6. ASSUME NEW q \in Proc, Quit(q) PROVE OpenFiles'
    BY <2>6 DEF Quit, fileVars
  <2>7. CASE UNCHANGED portVars
    BY <2>7 DEF portVars, fileVars
  <2>8. QED
    BY <2>2, <2>3, <2>4, <2>5, <2>6, <2>7 DEF PortsNext
<1>3. QED
  BY <1>1, <1>2

(* It holds in every state.                                                *)
LEMMA PortsInvHolds == PortsSpec => []PortsInv
<1>1. PortsInit => PortsInv
  <2> SUFFICES ASSUME PortsInit PROVE PortsTypeOK /\ OpenFiles
    BY DEF PortsInv
  <2> USE DEF PortsInit
  <2>1. rhport \in [Call -> Port]
    OBVIOUS
  <2>2. /\ pc \in [Call -> Inside \cup {"open", "mkdir", "create", "write", "done", "failed"}]
        /\ res \in [Call -> {"ok", "fail"}]
        /\ lines \in [Call -> SUBSET (Port \X {"free", "used"})]
    OBVIOUS
  <2>3. idev \in [Call -> [Port -> {"blank", "free", "used"}]]
    BY DEF Blank
  <2>4. /\ driver \in [Proc -> Call \cup {Nobody}]
        /\ owner \in [Port -> Attacher \cup {Nobody}]
        /\ file \in [Port -> File \cup {NoFile}]
        /\ inode \in [Attacher -> Attacher \cup {Nobody}]
    OBVIOUS
  <2>5. PortsTypeOK
    BY <2>1, <2>2, <2>3, <2>4 DEF PortsTypeOK
  <2>6. OpenFiles
    BY DEF OpenFiles, Call
  <2>7. QED
    BY <2>5, <2>6
<1>2. QED
  BY <1>1, PortsInvStep, PTL DEF PortsSpec

(* Every reachable state of the ports, of the library's drivers and of the *)
(* state files is well typed, for any number of calls and processes; so    *)
(* the port given to the kernel is one of the controller's.                *)
THEOREM PortsTypeCorrect == PortsSpec => []PortsTypeOK
BY PortsInvHolds, PTL DEF PortsInv

-----------------------------------------------------------------------------
(* The library.  Where a call of a process whose calls do not overlap has  *)
(* the driver it allocated.                                                *)
Uses   == {"read", "parse", "opened", "attach", "remove", "detach", "close"}
Own(q) == {h \in heap : ProcOf[h] = q}
Has(q, c)  == driver[q] = c /\ Own(q) = {c}
HasNone(q) == driver[q] = Nobody /\ Own(q) = {}

LibOf(q) ==
    /\ \A c, d \in Busy(q) : c = d
    /\ Busy(q) = {} => HasNone(q)
    /\ \A c \in Busy(q) :
         /\ pc[c] \in Uses => Has(q, c)
         /\ pc[c] = "unwind" => Has(q, c) \/ HasNone(q)
         /\ pc[c] = "null" => driver[q] \in {c, Nobody} /\ Own(q) = {}
    /\ q \notin crashed

(* A process's vhci_driver was allocated by one of its calls.              *)
DriverInv == \A q \in Proc : driver[q] # Nobody => ProcOf[driver[q]] = q

LibInv == DriverInv /\ \A q \in Proc \ overlapped : LibOf(q)

(* A process in whose calls and driver nothing happens is left as it was.  *)
LEMMA LibFrame ==
    ASSUME NEW q, LibOf(q), Busy(q)' = Busy(q), \A c \in Busy(q) : pc'[c] = pc[c],
           driver'[q] = driver[q], Own(q)' = Own(q), q \in crashed' => q \in crashed
    PROVE  LibOf(q)'
BY DEF LibOf, Has, HasNone

(* What a step may do to vhci_driver and to the heap: of its own process.  *)
LEMMA LibStep ==
    ASSUME PortsTypeOK, DriverInv, NEW c \in Call, Steps(c)
    PROVE  /\ \A q \in Proc \ {ProcOf[c]} :
                driver'[q] = driver[q] /\ Own(q)' = Own(q) /\ (q \in crashed' <=> q \in crashed)
           /\ driver'[ProcOf[c]] \in {c, Nobody, My(c)}
           /\ overlapped \subseteq overlapped'
<1> USE CallAssumption DEF PortsTypeOK, My, Own
<1>0. ProcOf[c] \in Proc
  OBVIOUS
<1>1. CASE OpenFails(c)
  BY <1>0, <1>1 DEF OpenFails, Enters
<1>2. CASE Allocate(c)
  BY <1>0, <1>2 DEF Allocate, Enters
<1>3. CASE Free(c)
  <2>1. heap' = heap \ {driver[ProcOf[c]]} /\ UNCHANGED <<driver, crashed, pastVars>>
    BY <1>3 DEF Free
  <2>2. \A q \in Proc \ {ProcOf[c]} : driver[ProcOf[c]] \notin Own(q)
    BY <1>0 DEF DriverInv
  <2>3. QED
    BY <1>0, <2>1, <2>2 DEF pastVars
<1>4. CASE Forget(c)
  BY <1>0, <1>4 DEF Forget, pastVars
<1>5. CASE Crash(c)
  BY <1>0, <1>5 DEF Crash, libVars, pastVars
<1>6. CASE ReadStatus(c) \/ ReadFails(c) \/ ParseLine(c)
  BY <1>0, <1>6 DEF ReadStatus, ReadFails, ParseLine, libVars, pastVars
<1>7. CASE AttacherStep(c)
  BY <1>0, <1>7 DEF AttacherStep, GetFreePort, AttachPort, AttachBusy, AttachRefused,
     RecordFails, MakeDir, Create, WriteRecord, libVars, pastVars
<1>8. CASE DetacherStep(c)
  BY <1>0, <1>8 DEF DetacherStep, CheckPort, RemoveFile, DetachPort, DetachRefused,
     libVars, pastVars
<1>9. QED
  BY <1>1, <1>2, <1>3, <1>4, <1>5, <1>6, <1>7, <1>8 DEF Steps, CallStep

(* Where the others of a process stay out of the library, they do so.      *)
LEMMA BusyAfter ==
    ASSUME PortsTypeOK, NEW c \in Call, Steps(c), Busy(ProcOf[c]) \subseteq {c}
    PROVE  Busy(ProcOf[c])' = IF pc'[c] \in Inside THEN {c} ELSE {}
BY OthersStay DEF Busy

(* A step that leaves the driver alone, with the call where it uses it.    *)
LEMMA LibUsed ==
    ASSUME PortsTypeOK, NEW c \in Call, Steps(c), LibOf(ProcOf[c]),
           pc[c] \in Uses, pc'[c] \in Uses \cup {"unwind"},
           UNCHANGED <<driver, heap, crashed>>
    PROVE  LibOf(ProcOf[c])'
<1> DEFINE q == ProcOf[c]
<1>1. c \in Busy(q) /\ Busy(q) = {c}
  BY DEF Busy, Uses, Inside, LibOf
<1>2. Busy(q)' = {c}
  BY <1>1, BusyAfter DEF Uses, Inside
<1>3. Has(q, c) /\ q \notin crashed
  BY <1>1 DEF LibOf
<1>4. Has(q, c)'
  BY <1>3 DEF Has, Own
<1>5. pc'[c] # "null"
  BY DEF Uses
<1>6. QED
  BY <1>2, <1>3, <1>4, <1>5 DEF LibOf

(* A step outside the library.                                             *)
LEMMA LibUnused ==
    ASSUME PortsTypeOK, NEW c \in Call, Steps(c), LibOf(ProcOf[c]),
           pc[c] \notin Inside, pc'[c] \notin Inside, UNCHANGED <<driver, heap, crashed>>
    PROVE  LibOf(ProcOf[c])'
<1> DEFINE q == ProcOf[c]
<1>1. Busy(q)' = Busy(q) /\ \A b \in Busy(q) : pc'[b] = pc[b]
  BY OthersStay DEF Busy
<1>2. Own(q)' = Own(q)
  BY DEF Own
<1>3. QED
  BY <1>1, <1>2, LibFrame

(* Every step of a call keeps its own process sound.                       *)
LEMMA LibSound ==
    ASSUME PortsTypeOK, DriverInv, NEW c \in Call, Steps(c),
           ProcOf[c] \notin overlapped', LibOf(ProcOf[c])
    PROVE  LibOf(ProcOf[c])'
<1> DEFINE q == ProcOf[c]
<1>0. q \in Proc /\ c # Nobody
  BY CallAssumption
<1> USE DEF PortsTypeOK, Goes, Closes, Unwinds
<1>1. CASE OpenFails(c)
  <2>1. Busy(q) = {} /\ HasNone(q) /\ q \notin crashed
    BY <1>1 DEF OpenFails, Enters, LibOf
  <2>2. UNCHANGED <<heap, crashed>> /\ driver'[q] = Nobody /\ pc'[c] \in {"failed", "unwind"}
    BY <1>0, <1>1, <2>1 DEF OpenFails, HasNone
  <2>3. HasNone(q)'
    BY <2>1, <2>2 DEF HasNone, Own
  <2>4. Busy(q)' = IF pc'[c] \in Inside THEN {c} ELSE {}
    BY <2>1, BusyAfter
  <2>5. QED
    BY <2>1, <2>2, <2>3, <2>4 DEF LibOf, Uses
<1>2. CASE Allocate(c)
  <2>1. Busy(q) = {} /\ HasNone(q) /\ q \notin crashed
    BY <1>2 DEF Allocate, Enters, LibOf
  <2>2. /\ heap' = heap \cup {c} /\ driver'[q] = c /\ pc'[c] = "read"
        /\ UNCHANGED crashed
    BY <1>0, <1>2 DEF Allocate
  <2>3. Has(q, c)'
    BY <2>1, <2>2 DEF Has, HasNone, Own
  <2>4. Busy(q)' = {c}
    BY <2>1, <2>2, BusyAfter DEF Inside
  <2>5. QED
    BY <2>1, <2>2, <2>3, <2>4 DEF LibOf
<1>3. CASE ReadStatus(c) \/ ReadFails(c)
  <2>1. /\ pc[c] = "read" /\ pc'[c] \in {"parse", "unwind"}
        /\ UNCHANGED <<driver, heap, crashed>>
    BY <1>3 DEF ReadStatus, ReadFails, At, libVars
  <2>2. QED
    BY <2>1, LibUsed DEF Uses
<1>4. CASE ParseLine(c)
  <2>1. /\ pc[c] = "parse" /\ pc'[c] \in {"parse", "opened", "unwind"}
        /\ UNCHANGED <<driver, heap, crashed>>
    BY <1>4 DEF ParseLine, At
  <2>2. QED
    BY <2>1, LibUsed DEF Uses
<1>5. CASE Free(c)
  <2>1. /\ pc[c] \in {"close", "unwind"}
        /\ pc'[c] = "null" \/ (My(c) = Nobody /\ pc'[c] = Leaves(c) /\ pc[c] = "close")
        /\ heap' = heap \ {My(c)} /\ UNCHANGED <<driver, crashed>>
    BY <1>5 DEF Free, At
  <2>2. c \in Busy(q) /\ Busy(q) = {c} /\ q \notin crashed
    BY <2>1 DEF LibOf, Busy, Inside
  <2>3. Has(q, c) \/ HasNone(q)
    BY <2>1, <2>2 DEF LibOf, Uses
  <2>4. pc'[c] = "null"
    BY <1>0, <2>1, <2>2 DEF LibOf, Uses, Has, My
  <2>5. driver'[q] \in {c, Nobody} /\ Own(q)' = {}
    BY <2>1, <2>3 DEF Has, HasNone, Own, My
  <2>6. Busy(q)' = {c}
    BY <2>2, <2>4, BusyAfter DEF Inside
  <2>7. QED
    BY <2>1, <2>2, <2>4, <2>5, <2>6 DEF LibOf, Uses
<1>6. CASE Forget(c)
  <2>1. /\ pc[c] = "null" /\ pc'[c] \in {"failed", "mkdir", "done"}
        /\ driver'[q] = Nobody /\ UNCHANGED <<heap, crashed>>
    BY <1>0, <1>6 DEF Forget, At, Leaves
  <2>2. c \in Busy(q) /\ Busy(q) = {c} /\ q \notin crashed
    BY <2>1 DEF LibOf, Busy, Inside
  <2>3. Own(q)' = {}
    BY <2>1, <2>2 DEF LibOf, Own
  <2>4. Busy(q)' = {}
    BY <2>1, <2>2, BusyAfter DEF Inside
  <2>5. QED
    BY <2>1, <2>2, <2>3, <2>4 DEF LibOf, HasNone
<1>7. CASE Crash(c)
  <2>1. /\ pc[c] \in Inside \ {"remove", "null"}
        /\ My(c) \notin heap
        /\ pc[c] \in {"close", "unwind"} => My(c) # Nobody
    BY <1>7 DEF Crash
  <2>2. c \in Busy(q)
    BY <2>1 DEF Busy
  <2>3. pc[c] \in Uses \/ pc[c] = "unwind"
    BY <2>1 DEF Inside, Uses
  <2>4. Has(q, c) \/ (HasNone(q) /\ pc[c] = "unwind")
    BY <2>2, <2>3 DEF LibOf
  <2>5. QED
    BY <2>1, <2>4 DEF Has, HasNone, Own, My
<1>8. CASE GetFreePort(c)
  <2>1. pc[c] = "opened" /\ pc'[c] \in {"attach", "close"} /\ UNCHANGED <<driver, heap, crashed>>
    BY <1>8 DEF GetFreePort, At, libVars
  <2>2. QED
    BY <2>1, LibUsed DEF Uses
<1>9. CASE AttachPort(c) \/ AttachBusy(c) \/ AttachRefused(c)
  <2>1. pc[c] = "attach" /\ pc'[c] \in {"opened", "close"} /\ UNCHANGED <<driver, heap, crashed>>
    BY <1>9 DEF AttachPort, AttachBusy, AttachRefused, At, libVars
  <2>2. QED
    BY <2>1, LibUsed DEF Uses
<1>10. CASE RecordFails(c) \/ MakeDir(c) \/ Create(c) \/ WriteRecord(c)
  <2>1. /\ pc[c] \in {"mkdir", "create", "write"}
        /\ pc'[c] \in {"create", "write", "done", "failed"}
        /\ UNCHANGED <<driver, heap, crashed>>
    BY <1>10 DEF RecordFails, MakeDir, Create, WriteRecord, At, libVars
  <2>2. QED
    BY <2>1, LibUnused DEF Inside
<1>11. CASE DetacherStep(c)
  <2>1. /\ pc[c] \in {"opened", "remove", "detach"} /\ pc'[c] \in {"remove", "detach", "close"}
        /\ UNCHANGED <<driver, heap, crashed>>
    BY <1>11 DEF DetacherStep, CheckPort, RemoveFile, DetachPort, DetachRefused, At, libVars
  <2>2. QED
    BY <2>1, LibUsed DEF Uses
<1>12. QED
  BY <1>1, <1>2, <1>3, <1>4, <1>5, <1>6, <1>7, <1>8, <1>9, <1>10, <1>11
  DEF Steps, CallStep, AttacherStep

(* The library stays sound in every process whose calls do not overlap.    *)
LEMMA LibInvStep ==
    ASSUME PortsTypeOK, LibInv, [PortsNext]_portVars
    PROVE  LibInv'
<1>0. Attacher \subseteq Call /\ Detacher \subseteq Call
  BY DEF Call
<1>1. ASSUME NEW c \in Call, Steps(c) PROVE LibInv'
  <2>1. /\ \A q \in Proc \ {ProcOf[c]} :
             driver'[q] = driver[q] /\ Own(q)' = Own(q) /\ (q \in crashed' <=> q \in crashed)
        /\ driver'[ProcOf[c]] \in {c, Nobody, My(c)}
        /\ overlapped \subseteq overlapped'
    BY <1>1, LibStep DEF LibInv
  <2>2. DriverInv'
    BY <2>1 DEF LibInv, DriverInv, My
  <2>3. ASSUME NEW q \in Proc \ overlapped', q # ProcOf[c] PROVE LibOf(q)'
    <3>1. Busy(q)' = Busy(q) /\ \A b \in Busy(q) : pc'[b] = pc[b]
      BY <1>1, <2>3, OthersStay DEF Busy
    <3>2. LibOf(q)
      BY <2>1, <2>3 DEF LibInv
    <3>3. QED
      BY <2>1, <2>3, <3>1, <3>2, LibFrame
  <2>4. ASSUME NEW q \in Proc \ overlapped', q = ProcOf[c] PROVE LibOf(q)'
    BY <1>1, <2>1, <2>4, LibSound DEF LibInv
  <2>5. QED
    BY <2>2, <2>3, <2>4 DEF LibInv
<1>2. CASE UNCHANGED <<pc, libVars, crashed, overlapped>>
  <2>1. \A q : Busy(q)' = Busy(q) /\ Own(q)' = Own(q)
    BY <1>2 DEF Busy, Own, libVars
  <2>2. \A q \in Proc \ overlapped : LibOf(q)'
    BY <1>2, <2>1, LibFrame DEF LibInv, libVars
  <2>3. QED
    BY <1>2, <2>2 DEF LibInv, DriverInv, libVars
<1>3. QED
  BY <1>0, <1>1, <1>2 DEF PortsNext, Steps, PortDown, Quit, portVars, pastVars

(* It is sound in every state.                                             *)
LEMMA LibInvHolds == PortsSpec => []LibInv
<1>1. PortsInit => LibInv
  BY DEF PortsInit, LibInv, DriverInv, LibOf, HasNone, Own, Busy, Inside
<1>2. PortsInv /\ LibInv /\ [PortsNext]_portVars => LibInv'
  BY LibInvStep DEF PortsInv
<1>3. QED
  BY <1>1, <1>2, PortsInvHolds, PTL DEF PortsSpec

(* A process whose calls do not overlap neither uses a freed driver nor    *)
(* keeps one, for any number of calls that fail anywhere.                  *)
THEOREM LibraryStaysSound == PortsSpec => []LibraryIsSound
<1>1. LibInv => LibraryIsSound
  BY DEF LibInv, LibOf, HasNone, Own, LibraryIsSound
<1>2. QED
  BY <1>1, LibInvHolds, PTL

-----------------------------------------------------------------------------
(* detach_port.  A port that is free while a call detaches it is noted.    *)
FreeNoted == \A d \in Detacher : pc[d] # "open" /\ owner[rhport[d]] = Nobody => d \in wasFree

(* What a call of detach_port has read says "free" only if the port was    *)
(* free since the call began; and it has read every port before it looks.  *)
Checked(d) ==
    /\ pc[d] = "parse" => /\ <<rhport[d], "free">> \in lines[d] => d \in wasFree
                          /\ \A p \in Port : idev[d][p] = "blank" =>
                                                \E l \in lines[d] : l[1] = p
    /\ pc[d] = "read" => idev[d] = Blank
    /\ pc[d] \in {"parse", "opened"} /\ idev[d][rhport[d]] = "free" => d \in wasFree
    /\ pc[d] = "opened" => idev[d][rhport[d]] # "blank"
    /\ pc[d] \in {"close", "null"} /\ res[d] = "ok" => d \in wasFree
    /\ pc[d] = "unwind" => res[d] = "fail"
    /\ pc[d] = "done" => d \in wasFree

FreeInv == FreeNoted /\ \A d \in Detacher : ProcOf[d] \notin overlapped => Checked(d)

(* What every step keeps: the ports that calls detach, and the history.    *)
LEMMA DetachFrame ==
    ASSUME PortsTypeOK, [PortsNext]_portVars
    PROVE  /\ \A d \in Detacher : rhport'[d] = rhport[d]
           /\ wasFree \subseteq wasFree' /\ overlapped \subseteq overlapped'
<1> USE CallAssumption DEF PortsTypeOK
<1>1. ASSUME NEW c \in Call, CallStep(c) PROVE UNCHANGED rhport
  BY <1>1 DEF CallStep, OpenFails, Allocate, ReadStatus, ReadFails, ParseLine, Free, Forget, Crash
<1>2. ASSUME NEW c \in Call, CallStep(c)
      PROVE  wasFree \subseteq wasFree' /\ overlapped \subseteq overlapped'
  BY <1>2 DEF CallStep, OpenFails, Allocate, ReadStatus, ReadFails, ParseLine, Free, Forget,
     Crash, Enters, pastVars
<1>3. ASSUME NEW c \in Attacher, AttacherStep(c)
      PROVE  /\ \A d \in Detacher : rhport'[d] = rhport[d]
             /\ UNCHANGED <<wasFree, overlapped>>
  <2>1. \A d \in Detacher : d # c /\ d \in Call /\ c \in Call
    BY DEF Call
  <2>2. \A d \in Detacher : rhport'[d] = rhport[d]
    BY <1>3, <2>1, OthersStay DEF Steps
  <2>3. UNCHANGED <<wasFree, overlapped>>
    BY <1>3 DEF AttacherStep, GetFreePort, AttachPort, AttachBusy, AttachRefused,
       RecordFails, MakeDir, Create, WriteRecord, pastVars
  <2>4. QED
    BY <2>2, <2>3
<1>4. ASSUME NEW c \in Detacher, DetacherStep(c)
      PROVE  UNCHANGED rhport /\ wasFree \subseteq wasFree' /\ UNCHANGED overlapped
  BY <1>4 DEF DetacherStep, CheckPort, RemoveFile, DetachPort, DetachRefused, Frees, pastVars
<1>5. ASSUME NEW p \in Port, PortDown(p)
      PROVE  UNCHANGED rhport /\ wasFree \subseteq wasFree' /\ UNCHANGED overlapped
  BY <1>5 DEF PortDown, Frees
<1>6. ASSUME NEW q \in Proc, Quit(q)
      PROVE  UNCHANGED rhport /\ UNCHANGED <<wasFree, overlapped>>
  BY <1>6 DEF Quit, pastVars
<1>7. CASE UNCHANGED portVars
  BY <1>7 DEF portVars, pastVars
<1>8. QED
  BY <1>1, <1>2, <1>3, <1>4, <1>5, <1>6, <1>7 DEF PortsNext

(* A port becomes free in Frees only, and a call begins in Enters only.    *)
LEMMA FreeNotedStep ==
    ASSUME PortsTypeOK, FreeNoted, [PortsNext]_portVars
    PROVE  FreeNoted'
<1>0. /\ \A d \in Detacher : rhport'[d] = rhport[d] /\ rhport[d] \in Port
      /\ wasFree \subseteq wasFree'
      /\ Detacher \subseteq Call /\ Attacher \subseteq Call
  BY DetachFrame DEF PortsTypeOK, Call
<1>1. ASSUME NEW d \in Detacher, pc[d] # "open" \/ pc'[d] = "open",
             owner'[rhport[d]] = owner[rhport[d]], pc'[d] # "open",
             owner'[rhport[d]] = Nobody
      PROVE  d \in wasFree'
  BY <1>0, <1>1 DEF FreeNoted
<1>2. ASSUME NEW c \in Call, CallStep(c) PROVE FreeNoted'
  <2>1. UNCHANGED owner
    BY <1>2 DEF CallStep, OpenFails, Allocate, ReadStatus, ReadFails, ParseLine, Free, Forget, Crash
  <2>2. \A d \in Detacher \ {c} : pc'[d] = pc[d]
    BY <1>0, <1>2, OthersStay DEF Steps
  <2>3. ASSUME c \in Detacher, pc[c] = "open", pc'[c] # "open", owner[rhport[c]] = Nobody
        PROVE  c \in wasFree'
    <3>1. OpenFails(c) \/ Allocate(c)
      BY <1>2, <2>3 DEF CallStep, OpenFails, Allocate, ReadStatus, ReadFails, ParseLine,
                        Free, Forget, Crash, Goes, Unwinds, At, Inside
    <3>2. Enters(c)
      BY <3>1 DEF OpenFails, Allocate
    <3>3. QED
      BY <2>3, <3>2 DEF Enters
  <2>4. QED
    BY <1>0, <1>1, <2>1, <2>2, <2>3 DEF FreeNoted
<1>3. ASSUME NEW c \in Attacher, AttacherStep(c) PROVE FreeNoted'
  <2>1. \A d \in Detacher : pc'[d] = pc[d]
    BY <1>0, <1>3, OthersStay, CallAssumption DEF Steps
  <2>2. \/ UNCHANGED owner
        \/ owner' = [owner EXCEPT ![rhport[c]] = c]
    BY <1>3 DEF AttacherStep, GetFreePort, AttachPort, AttachBusy, AttachRefused,
       RecordFails, MakeDir, Create, WriteRecord
  <2>3. c # Nobody
    BY <1>0, CallAssumption
  <2>4. \A p \in Port : owner'[p] = Nobody => owner[p] = Nobody
    BY <2>2, <2>3 DEF PortsTypeOK
  <2>5. QED
    BY <1>0, <2>1, <2>4 DEF FreeNoted
<1>4. ASSUME NEW p \in Port, Frees(p), \A d \in Detacher : pc[d] = "open" => pc'[d] = "open"
      PROVE  FreeNoted'
  BY <1>0, <1>4 DEF Frees, FreeNoted, PortsTypeOK
<1>5. ASSUME NEW c \in Detacher, DetacherStep(c) PROVE FreeNoted'
  <2>1. \A d \in Detacher : pc[d] = "open" => pc'[d] = "open"
    <3>1. \A d \in Detacher \ {c} : pc'[d] = pc[d]
      BY <1>0, <1>5, OthersStay DEF Steps
    <3>2. pc[c] # "open"
      BY <1>5 DEF DetacherStep, CheckPort, RemoveFile, DetachPort, DetachRefused, Goes,
         Closes, At
    <3>3. QED
      BY <3>1, <3>2
  <2>2. CASE DetachPort(c)
    BY <1>0, <1>4, <2>1, <2>2 DEF DetachPort
  <2>3. CASE ~ DetachPort(c)
    <3>1. UNCHANGED owner
      BY <1>5, <2>3 DEF DetacherStep, CheckPort, RemoveFile, DetachRefused
    <3>2. \A d \in Detacher : pc'[d] # "open" => pc[d] # "open"
      BY <2>1
    <3>3. QED
      BY <1>0, <3>1, <3>2 DEF FreeNoted
  <2>4. QED
    BY <2>2, <2>3
<1>6. ASSUME NEW p \in Port, PortDown(p) PROVE FreeNoted'
  BY <1>4, <1>6 DEF PortDown
<1>7. ASSUME NEW q \in Proc, Quit(q) PROVE FreeNoted'
  BY <1>7 DEF Quit, FreeNoted, pastVars
<1>8. CASE UNCHANGED portVars
  BY <1>8 DEF portVars, FreeNoted, pastVars
<1>9. QED
  BY <1>2, <1>3, <1>5, <1>6, <1>7, <1>8 DEF PortsNext

(* What a call has read is changed by the call itself only, unless calls   *)
(* of its process overlap.                                                 *)
LEMMA OwnList ==
    ASSUME PortsTypeOK, LibInv, NEW d \in Call, ProcOf[d] \notin overlapped,
           pc[d] \in {"read", "parse", "opened"},
           NEW c \in Call \ {d}, Steps(c)
    PROVE  idev'[d] = idev[d] /\ lines'[d] = lines[d]
<1> USE DEF PortsTypeOK
<1>1. ASSUME pc[c] \in Inside PROVE My(c) # d
  <2>1. SUFFICES ASSUME driver[ProcOf[c]] = d PROVE FALSE
    BY DEF My
  <2>2. ProcOf[c] \in Proc /\ ProcOf[d] \in Proc /\ d # Nobody
    BY CallAssumption
  <2>3. ProcOf[d] = ProcOf[c]
    BY <2>1, <2>2 DEF LibInv, DriverInv
  <2>4. c \in Busy(ProcOf[d]) /\ d \in Busy(ProcOf[d])
    BY <1>1, <2>3 DEF Busy, Inside
  <2>5. QED
    BY <2>2, <2>4 DEF LibInv, LibOf
<1>2. CASE ParseLine(c)
  <2>1. My(c) # d
    BY <1>1, <1>2 DEF ParseLine, Goes, Unwinds, At, Inside
  <2>2. PICK line \in lines[c] :
          /\ lines' = [lines EXCEPT ![c] = @ \ {line}] \/ lines' = [lines EXCEPT ![c] = {}]
          /\ idev' = IF My(c) \in heap THEN [idev EXCEPT ![My(c)][line[1]] = line[2]]
                                       ELSE idev
    BY <1>2 DEF ParseLine
  <2>3. lines'[d] = lines[d]
    BY <2>2
  <2>4. idev'[d] = idev[d]
    BY <2>1, <2>2
  <2>5. QED
    BY <2>3, <2>4
<1>3. CASE Free(c)
  BY <1>1, <1>3 DEF Free, Goes, At, Inside
<1>4. CASE OpenFails(c) \/ Allocate(c) \/ ReadStatus(c) \/ ReadFails(c) \/ Forget(c) \/ Crash(c)
  BY <1>4 DEF OpenFails, Allocate, ReadStatus, ReadFails, Forget, Crash, libVars
<1>5. CASE AttacherStep(c)
  BY <1>5 DEF AttacherStep, GetFreePort, AttachPort, AttachBusy, AttachRefused,
     RecordFails, MakeDir, Create, WriteRecord, libVars
<1>6. CASE DetacherStep(c)
  BY <1>6 DEF DetacherStep, CheckPort, RemoveFile, DetachPort, DetachRefused, libVars
<1>7. QED
  BY <1>2, <1>3, <1>4, <1>5, <1>6 DEF Steps, CallStep

(* Where a call has its driver, it looks into the list that it read.       *)
LEMMA ReadsOwn ==
    ASSUME PortsTypeOK, LibInv, NEW d \in Call, ProcOf[d] \notin overlapped, pc[d] \in Uses
    PROVE  My(d) = d /\ d \in heap /\ Lists(d) = {idev[d]}
<1>1. ProcOf[d] \in Proc /\ d # Nobody
  BY CallAssumption
<1>2. d \in Busy(ProcOf[d])
  BY DEF Busy, Uses, Inside
<1>3. driver[ProcOf[d]] = d /\ d \in heap
  BY <1>1, <1>2 DEF LibInv, LibOf, Has, Own
<1>4. QED
  BY <1>1, <1>3 DEF My, Lists

(* A line is parsed into the call's own list.                              *)
LEMMA CheckedParse ==
    ASSUME PortsTypeOK, NEW d \in Detacher, ParseLine(d), Checked(d),
           My(d) = d, d \in heap
    PROVE  Checked(d)'
<1>0. d \in Call /\ rhport[d] \in Port
  BY DEF Call, PortsTypeOK
<1>1. PICK line \in lines[d] :
        /\ \/ /\ Goes(d, "parse", IF lines[d] = {line} THEN "opened" ELSE "parse")
              /\ lines' = [lines EXCEPT ![d] = @ \ {line}]
           \/ Unwinds(d, "parse")
        /\ idev' = [idev EXCEPT ![d][line[1]] = line[2]]
  BY DEF ParseLine
<1>2. /\ pc[d] = "parse" /\ UNCHANGED <<rhport, wasFree>>
      /\ line = <<line[1], line[2]>> /\ line[1] \in Port /\ line[2] \in {"free", "used"}
  BY <1>0, <1>1 DEF Goes, Unwinds, At, ParseLine, PortsTypeOK, pastVars
<1>3. idev'[d] = [idev[d] EXCEPT ![line[1]] = line[2]] /\ idev[d] \in [Port -> {"blank", "free", "used"}]
  BY <1>0, <1>1 DEF PortsTypeOK
<1>4. idev'[d][rhport[d]] = "free" => d \in wasFree
  <2>1. CASE line[1] = rhport[d]
    BY <1>0, <1>2, <1>3, <2>1 DEF Checked
  <2>2. CASE line[1] # rhport[d]
    BY <1>0, <1>2, <1>3, <2>2 DEF Checked
  <2>3. QED
    BY <2>1, <2>2
<1>5. \A p \in Port : idev'[d][p] = "blank" => \E l \in lines[d] : l[1] = p /\ l # line
  <2>1. SUFFICES ASSUME NEW p \in Port, idev'[d][p] = "blank"
                 PROVE  \E l \in lines[d] : l[1] = p /\ l # line
    OBVIOUS
  <2>2. p # line[1] /\ idev[d][p] = "blank"
    BY <1>2, <1>3, <2>1
  <2>3. PICK l \in lines[d] : l[1] = p
    BY <1>2, <2>2 DEF Checked
  <2>4. QED
    BY <2>2, <2>3
<1>6. CASE pc'[d] = "parse" /\ lines'[d] = lines[d] \ {line}
  BY <1>2, <1>4, <1>5, <1>6 DEF Checked
<1>7. CASE pc'[d] = "opened" /\ lines[d] = {line}
  <2>1. idev'[d][rhport[d]] # "blank"
    BY <1>0, <1>5, <1>7
  <2>2. QED
    BY <1>2, <1>4, <1>7, <2>1 DEF Checked
<1>8. CASE pc'[d] = "unwind" /\ res'[d] = "fail"
  BY <1>8 DEF Checked
<1>9. QED
  BY <1>0, <1>1, <1>6, <1>7, <1>8 DEF Goes, Unwinds, PortsTypeOK

(* A call of detach_port on its way.                                       *)
LEMMA CheckedOwn ==
    ASSUME PortsTypeOK, LibInv, FreeNoted, NEW d \in Detacher, Steps(d),
           ProcOf[d] \notin overlapped, Checked(d), wasFree \subseteq wasFree'
    PROVE  Checked(d)'
<1>0. d \in Call /\ d \notin Attacher /\ rhport[d] \in Port /\ 0 \in Nat
  BY CallAssumption DEF Call, PortsTypeOK
<1> USE DEF PortsTypeOK, Goes, Closes, Unwinds, At
<1>1. CASE OpenFails(d)
  BY <1>0, <1>1 DEF OpenFails, Checked
<1>2. CASE Allocate(d)
  BY <1>0, <1>2 DEF Allocate, Checked
<1>3. CASE ReadStatus(d)
  <2>1. /\ pc[d] = "read" /\ pc'[d] = "parse" /\ UNCHANGED <<idev, rhport, wasFree>>
        /\ lines'[d] = {<<p, IF owner[p] = Nobody THEN "free" ELSE "used">> : p \in Port}
    BY <1>0, <1>3 DEF ReadStatus, pastVars
  <2>2. <<rhport[d], "free">> \in lines'[d] => d \in wasFree
    <3>1. SUFFICES ASSUME <<rhport[d], "free">> \in lines'[d] PROVE d \in wasFree
      OBVIOUS
    <3>2. PICK p \in Port :
            <<rhport[d], "free">> = <<p, IF owner[p] = Nobody THEN "free" ELSE "used">>
      BY <2>1, <3>1
    <3>3. owner[rhport[d]] = Nobody
      BY <3>2
    <3>4. QED
      BY <2>1, <3>3 DEF FreeNoted
  <2>3. ASSUME NEW p \in Port PROVE \E l \in lines'[d] : l[1] = p
    <3>1. <<p, IF owner[p] = Nobody THEN "free" ELSE "used">> \in lines'[d]
      BY <2>1
    <3>2. <<p, IF owner[p] = Nobody THEN "free" ELSE "used">>[1] = p
      OBVIOUS
    <3>3. QED
      BY <3>1, <3>2, Zenon
  <2>4. idev'[d][rhport[d]] = "blank"
    BY <1>0, <2>1 DEF Checked, Blank
  <2>5. QED
    BY <2>1, <2>2, <2>3, <2>4 DEF Checked
<1>4. CASE ReadFails(d)
  BY <1>0, <1>4 DEF ReadFails, Checked
<1>5. CASE ParseLine(d)
  <2>1. My(d) = d /\ d \in heap
    BY <1>0, <1>5, ReadsOwn DEF ParseLine, Uses
  <2>2. QED
    BY <1>5, <2>1, CheckedParse
<1>6. CASE Free(d)
  <2>1. /\ pc[d] \in {"close", "unwind"} /\ UNCHANGED <<res, wasFree>>
        /\ pc'[d] = "null" \/ (pc'[d] = Leaves(d) /\ pc[d] = "close")
    BY <1>0, <1>6 DEF Free, pastVars
  <2>2. Leaves(d) = "failed" \/ (Leaves(d) = "done" /\ res[d] = "ok")
    BY <1>0 DEF Leaves
  <2>3. QED
    BY <2>1, <2>2 DEF Checked
<1>7. CASE Forget(d)
  <2>1. pc[d] = "null" /\ UNCHANGED <<res, wasFree>> /\ pc'[d] = Leaves(d)
    BY <1>0, <1>7 DEF Forget, pastVars
  <2>2. Leaves(d) = "failed" \/ (Leaves(d) = "done" /\ res[d] = "ok")
    BY <1>0 DEF Leaves
  <2>3. QED
    BY <2>1, <2>2 DEF Checked
<1>8. CASE Crash(d)
  BY <1>8 DEF Crash, Checked, libVars, pastVars
<1>9. CASE CheckPort(d)
  <2>1. /\ pc[d] = "opened" /\ UNCHANGED wasFree
        /\ \E list \in Lists(d) :
             IF list[rhport[d]] = "used" \/ (rhport[d] = 0 /\ list[0] = "blank")
               THEN pc'[d] = "remove" ELSE pc'[d] = "close"
    BY <1>0, <1>9 DEF CheckPort, pastVars
  <2>2. Lists(d) = {idev[d]}
    BY <1>0, <2>1, ReadsOwn DEF Uses
  <2>3. idev[d][rhport[d]] # "blank" /\ (idev[d][rhport[d]] = "free" => d \in wasFree)
    BY <2>1 DEF Checked
  <2>4. \/ pc'[d] = "remove"
        \/ pc'[d] = "close" /\ d \in wasFree
    BY <1>0, <2>1, <2>2, <2>3
  <2>5. QED
    BY <2>1, <2>4 DEF Checked
<1>10. CASE RemoveFile(d)
  BY <1>0, <1>10 DEF RemoveFile, Checked
<1>11. CASE DetachPort(d)
  <2>1. pc[d] = "detach" /\ pc'[d] = "close" /\ Frees(rhport[d])
    BY <1>0, <1>11 DEF DetachPort
  <2>2. d \in wasFree'
    BY <2>1 DEF Frees
  <2>3. QED
    BY <2>1, <2>2 DEF Checked
<1>12. CASE DetachRefused(d)
  BY <1>0, <1>12 DEF DetachRefused, Checked
<1>13. QED
  BY <1>0, <1>1, <1>2, <1>3, <1>4, <1>5, <1>6, <1>7, <1>8, <1>9, <1>10, <1>11, <1>12
  DEF Steps, CallStep, DetacherStep

(* What others do leaves the call where it is, with what it has read.      *)
LEMMA CheckedStays ==
    ASSUME NEW d, Checked(d), wasFree \subseteq wasFree',
           pc'[d] = pc[d], res'[d] = res[d], rhport'[d] = rhport[d],
           pc[d] \in {"read", "parse", "opened"} => idev'[d] = idev[d] /\ lines'[d] = lines[d]
    PROVE  Checked(d)'
BY DEF Checked

(* So it does in every step.                                               *)
LEMMA FreeInvStep ==
    ASSUME PortsTypeOK, LibInv, FreeInv, [PortsNext]_portVars
    PROVE  FreeInv'
<1>0. /\ \A d \in Detacher : rhport'[d] = rhport[d]
      /\ wasFree \subseteq wasFree' /\ overlapped \subseteq overlapped'
      /\ Detacher \subseteq Call /\ Attacher \subseteq Call
  BY DetachFrame DEF Call
<1>1. FreeNoted'
  BY FreeNotedStep DEF FreeInv
<1>2. ASSUME NEW d \in Detacher, ProcOf[d] \notin overlapped' PROVE Checked(d)'
  <2>1. ProcOf[d] \notin overlapped /\ Checked(d) /\ d \in Call
    BY <1>0, <1>2 DEF FreeInv
  <2>2. ASSUME NEW c \in Call, Steps(c) PROVE Checked(d)'
    <3>1. CASE c = d
      BY <1>0, <2>1, <2>2, <3>1, CheckedOwn DEF FreeInv
    <3>2. CASE c # d
      <4>1. pc'[d] = pc[d] /\ res'[d] = res[d]
        BY <2>1, <2>2, <3>2, OthersStay
      <4>2. pc[d] \in {"read", "parse", "opened"} => idev'[d] = idev[d] /\ lines'[d] = lines[d]
        BY <2>1, <2>2, <3>2, OwnList
      <4>3. QED
        BY <1>0, <2>1, <4>1, <4>2, CheckedStays
    <3>3. QED
      BY <3>1, <3>2
  <2>3. CASE UNCHANGED <<pc, res, idev, lines>>
    BY <1>0, <2>1, <2>3, CheckedStays
  <2>4. QED
    BY <1>0, <2>2, <2>3 DEF PortsNext, Steps, PortDown, Quit, portVars, libVars
<1>3. QED
  BY <1>1, <1>2 DEF FreeInv

(* When detach_port returned 0 the port was free at some time during the   *)
(* call, in every process whose calls do not overlap, whatever others do   *)
(* to the port between its steps.                                          *)
THEOREM DetachedWasFreeIndeed == PortsSpec => []DetachedWasFree
<1>1. PortsInit => FreeInv
  BY DEF PortsInit, FreeInv, FreeNoted, Checked, Call
<1>2. PortsInv /\ LibInv /\ FreeInv /\ [PortsNext]_portVars => FreeInv'
  BY FreeInvStep DEF PortsInv
<1>3. FreeInv => DetachedWasFree
  BY DEF FreeInv, Checked, DetachedWasFree
<1>4. QED
  BY <1>1, <1>2, <1>3, PortsInvHolds, LibInvHolds, PTL DEF PortsSpec

-----------------------------------------------------------------------------
(* The state files.  Who has a port has attached it and is on its way to   *)
(* record it, or past that.                                                *)
Past == {"close", "null", "mkdir", "create", "write", "done", "failed"}

OwnerInv ==
    \A p \in Port : owner[p] # Nobody => rhport[owner[p]] = p /\ pc[owner[p]] \in Past

(* The owner of a port writes into the file that the port has; when it is  *)
(* done, that file has its record.                                         *)
Recorded(p, a) ==
    /\ pc[a] = "write" => file[p].ino = inode[a]
    /\ pc[a] = "done" => file[p].by = a

RecordInv ==
    \A p \in Port \ muddled :
        owner[p] # Nobody /\ ~ Detaching(p) => Recorded(p, owner[p])

(* A port is given away in AttachPort only.                                *)
LEMMA OwnerStep ==
    ASSUME PortsTypeOK, OwnerInv, [PortsNext]_portVars
    PROVE  /\ OwnerInv'
           /\ \A p \in Port : \/ owner'[p] \in {owner[p], Nobody}
                              \/ \E c \in Attacher : /\ AttachPort(c) /\ p = rhport[c]
                                                     /\ owner'[p] = c
<1>0. Attacher \subseteq Call /\ Detacher \subseteq Call /\ Nobody \notin Call
  BY CallAssumption DEF Call
<1> DEFINE Kept(p) == owner'[p] \in {owner[p], Nobody}
<1>1. ASSUME NEW c \in Call, Steps(c), \A p \in Port : Kept(p),
             pc[c] \in Past => pc'[c] \in Past /\ rhport'[c] = rhport[c]
      PROVE  OwnerInv'
  <2>1. \A a \in Call : pc[a] \in Past => pc'[a] \in Past /\ rhport'[a] = rhport[a]
    BY <1>1, OthersStay
  <2>2. \A p \in Port : owner[p] \in Call \cup {Nobody}
    BY <1>0 DEF PortsTypeOK
  <2>3. QED
    BY <1>1, <2>1, <2>2 DEF OwnerInv
<1>2. ASSUME NEW c \in Call, CallStep(c) PROVE OwnerInv' /\ \A p \in Port : Kept(p)
  <2>1. UNCHANGED owner /\ UNCHANGED rhport
    BY <1>2 DEF CallStep, OpenFails, Allocate, ReadStatus, ReadFails, ParseLine, Free, Forget, Crash
  <2>2. pc[c] \in Past => pc'[c] \in Past
    BY <1>2 DEF CallStep, OpenFails, Allocate, ReadStatus, ReadFails, ParseLine, Free,
       Forget, Crash, Past, Goes, Unwinds, At, Leaves, PortsTypeOK
  <2>3. QED
    BY <1>1, <1>2, <2>1, <2>2 DEF Steps
<1>3. ASSUME NEW c \in Attacher, AttacherStep(c), ~ AttachPort(c)
      PROVE  OwnerInv' /\ \A p \in Port : Kept(p)
  <2>1. UNCHANGED owner
    BY <1>3 DEF AttacherStep, GetFreePort, AttachBusy, AttachRefused, RecordFails,
       MakeDir, Create, WriteRecord
  <2>2. pc[c] \in Past => pc'[c] \in Past /\ rhport'[c] = rhport[c]
    BY <1>0, <1>3 DEF AttacherStep, GetFreePort, AttachBusy, AttachRefused, RecordFails,
       MakeDir, Create, WriteRecord, Past, Goes, Closes, At, PortsTypeOK
  <2>3. QED
    BY <1>0, <1>1, <1>3, <2>1, <2>2 DEF Steps
<1>4. ASSUME NEW c \in Attacher, AttachPort(c)
      PROVE  /\ OwnerInv'
             /\ \A p \in Port : Kept(p) \/ (p = rhport[c] /\ owner'[p] = c)
  <2>1. /\ owner' = [owner EXCEPT ![rhport[c]] = c] /\ UNCHANGED rhport
        /\ pc[c] = "attach" /\ pc'[c] = "close" /\ rhport[c] \in Port
    BY <1>0, <1>4 DEF AttachPort, Closes, Goes, At, PortsTypeOK
  <2>2. \A a \in Call \ {c} : pc'[a] = pc[a]
    BY <1>0, <1>4, OthersStay DEF Steps, AttacherStep
  <2>3. ASSUME NEW p \in Port, owner'[p] # Nobody
        PROVE  rhport'[owner'[p]] = p /\ pc'[owner'[p]] \in Past
    <3>1. CASE p = rhport[c]
      BY <2>1, <3>1 DEF PortsTypeOK, Past
    <3>2. CASE p # rhport[c]
      <4>1. owner'[p] = owner[p] /\ owner[p] \in Call
        BY <1>0, <2>1, <2>3, <3>2 DEF PortsTypeOK
      <4>2. rhport[owner[p]] = p /\ pc[owner[p]] \in Past
        BY <2>3, <4>1 DEF OwnerInv
      <4>3. owner[p] # c
        BY <3>2, <4>2
      <4>4. QED
        BY <2>1, <2>2, <4>1, <4>2, <4>3
    <3>3. QED
      BY <3>1, <3>2
  <2>4. \A p \in Port : Kept(p) \/ (p = rhport[c] /\ owner'[p] = c)
    BY <2>1 DEF PortsTypeOK
  <2>5. QED
    BY <2>3, <2>4 DEF OwnerInv
<1>5. ASSUME NEW c \in Detacher, DetacherStep(c)
      PROVE  OwnerInv' /\ \A p \in Port : Kept(p)
  <2>1. \A p \in Port : Kept(p)
    BY <1>5 DEF DetacherStep, CheckPort, RemoveFile, DetachPort, DetachRefused, Frees,
       PortsTypeOK
  <2>2. pc[c] \in Past => pc'[c] \in Past
    BY <1>5 DEF DetacherStep, CheckPort, RemoveFile, DetachPort, DetachRefused, Past,
       Goes, Closes, At, PortsTypeOK
  <2>3. UNCHANGED rhport
    BY <1>5 DEF DetacherStep, CheckPort, RemoveFile, DetachPort, DetachRefused
  <2>4. QED
    BY <1>0, <1>1, <1>5, <2>1, <2>2, <2>3 DEF Steps
<1>6. ASSUME NEW q \in Port, PortDown(q) PROVE OwnerInv' /\ \A p \in Port : Kept(p)
  BY <1>6 DEF PortDown, Frees, OwnerInv, PortsTypeOK
<1>7. CASE UNCHANGED <<pc, rhport, owner>>
  BY <1>7 DEF OwnerInv
<1>8. QED
  BY <1>2, <1>3, <1>4, <1>5, <1>6, <1>7 DEF PortsNext, Quit, portVars

(* A port to whose file, owner and detaching calls nothing happens.        *)
LEMMA RecordFrame ==
    ASSUME PortsTypeOK, OwnerInv, RecordInv, NEW p \in Port \ muddled',
           owner'[p] # Nobody, owner'[p] = owner[p], ~ Detaching(p)',
           p \in muddled => p \in muddled',
           Detaching(p) => Detaching(p)',
           file'[p] = file[p],
           pc'[owner[p]] = pc[owner[p]] \/ pc'[owner[p]] \notin {"write", "done"},
           inode'[owner[p]] = inode[owner[p]] \/ pc'[owner[p]] # "write"
    PROVE  Recorded(p, owner[p])'
BY DEF RecordInv, Recorded

(* A detach_port goes on to its write once it has begun, unless the write  *)
(* was made.                                                               *)
LEMMA DetachingStays ==
    ASSUME PortsTypeOK, NEW c \in Call, Steps(c), NEW p,
           ~ (c \in Detacher /\ rhport[c] = p /\ (DetachPort(c) \/ DetachRefused(c)))
    PROVE  Detaching(p) => Detaching(p)'
<1>0. Attacher \subseteq Call /\ Detacher \subseteq Call /\ Attacher \cap Detacher = {}
  BY CallAssumption DEF Call
<1>1. SUFFICES ASSUME NEW d \in Detacher, rhport[d] = p, pc[d] = "detach"
               PROVE  rhport'[d] = p /\ pc'[d] = "detach"
  BY DEF Detaching
<1>2. CASE d # c
  BY <1>0, <1>1, <1>2, OthersStay
<1>3. CASE d = c
  <2>1. CallStep(c) \/ DetacherStep(c)
    BY <1>0, <1>3 DEF Steps
  <2>2. CASE CallStep(c)
    BY <1>1, <1>3, <2>2 DEF CallStep, OpenFails, Allocate, ReadStatus, ReadFails, ParseLine,
       Free, Forget, Crash, Goes, Unwinds, At
  <2>3. CASE DetacherStep(c)
    BY <1>1, <1>3, <2>3 DEF DetacherStep, CheckPort, RemoveFile, Goes, Closes, At
  <2>4. QED
    BY <2>1, <2>2, <2>3
<1>4. QED
  BY <1>2, <1>3

(* The records stay true, of the ports that are not muddled.               *)
LEMMA RecordStep ==
    ASSUME PortsTypeOK, OpenFiles, OwnerInv, RecordInv, [PortsNext]_portVars
    PROVE  RecordInv'
<1>0. Attacher \subseteq Call /\ Detacher \subseteq Call /\ Nobody \notin Call
      /\ Attacher \cap Detacher = {}
  BY CallAssumption DEF Call
<1>1. SUFFICES ASSUME NEW p \in Port \ muddled', owner'[p] # Nobody, ~ Detaching(p)'
               PROVE  Recorded(p, owner[p])'
  BY DEF RecordInv
<1>2. ASSUME NEW c \in Attacher, AttachPort(c), p = rhport[c], owner'[p] = c
      PROVE  Recorded(p, owner[p])'
  <2>1. pc'[c] = "close"
    BY <1>0, <1>2 DEF AttachPort, Closes, Goes, PortsTypeOK
  <2>2. QED
    BY <1>2, <2>1 DEF Recorded
<1>3. ASSUME owner'[p] = owner[p] PROVE Recorded(p, owner[p])'
  <2> DEFINE a == owner[p]
  <2>1. a \in Attacher /\ a \in Call /\ rhport[a] = p /\ pc[a] \in Past
    BY <1>0, <1>1, <1>3 DEF PortsTypeOK, OwnerInv
  <2>2. ASSUME NEW c \in Call, CallStep(c) PROVE Recorded(p, a)'
    <3>1. UNCHANGED <<file, inode, muddled>>
      BY <2>2 DEF CallStep, OpenFails, Allocate, ReadStatus, ReadFails, ParseLine, Free,
         Forget, Crash, fileVars, pastVars
    <3>2. pc'[a] = pc[a] \/ pc'[a] \notin {"write", "done"}
      <4>1. CASE a # c
        BY <2>1, <2>2, <4>1, OthersStay DEF Steps
      <4>2. CASE a = c
        BY <2>1, <2>2, <4>2 DEF CallStep, OpenFails, Allocate, ReadStatus, ReadFails,
           ParseLine, Free, Forget, Crash, Goes, Unwinds, At, Leaves, PortsTypeOK
      <4>3. QED
        BY <4>1, <4>2
    <3>3. Detaching(p) => Detaching(p)'
      <4>1. ASSUME NEW d \in Detacher, pc[d] = "detach" PROVE pc'[d] = "detach"
        BY <1>0, <2>2, <4>1, OthersStay DEF Steps, CallStep, OpenFails, Allocate,
           ReadStatus, ReadFails, ParseLine, Free, Forget, Crash, Goes, Unwinds, At
      <4>2. UNCHANGED rhport
        BY <2>2 DEF CallStep, OpenFails, Allocate, ReadStatus, ReadFails, ParseLine, Free,
           Forget, Crash
      <4>3. QED
        BY <4>1, <4>2 DEF Detaching
    <3>4. QED
      BY <1>1, <1>3, <3>1, <3>2, <3>3, RecordFrame
  <2>3. ASSUME NEW c \in Attacher, AttacherStep(c) PROVE Recorded(p, a)'
    <3>0. Steps(c) /\ c \in Call /\ c \notin Detacher
      BY <1>0, <2>3 DEF Steps
    <3>1. Detaching(p) => Detaching(p)'
      BY <3>0, DetachingStays
    <3>2. a # c => pc'[a] = pc[a]
      BY <2>1, <3>0, OthersStay
    <3>3. CASE GetFreePort(c) \/ AttachBusy(c) \/ AttachRefused(c) \/ AttachPort(c)
      <4>1. /\ UNCHANGED <<file, inode>> /\ pc[c] \in {"opened", "attach"}
            /\ p \in muddled => p \in muddled' \/ (AttachPort(c) /\ p = rhport[c])
        BY <3>3 DEF GetFreePort, AttachBusy, AttachRefused, AttachPort, Goes, Closes, At,
           fileVars, pastVars
      <4>2. a # c
        BY <2>1, <4>1 DEF Past
      <4>3. AttachPort(c) => p # rhport[c]
        BY <1>1, <1>3 DEF AttachPort
      <4>4. QED
        BY <1>1, <1>3, <3>1, <3>2, <4>1, <4>2, <4>3, RecordFrame
    <3>4. CASE RecordFails(c) \/ MakeDir(c)
      <4>1. /\ UNCHANGED <<file, muddled>> /\ pc'[c] \in {"failed", "create"}
            /\ \A b \in Attacher \ {c} : inode'[b] = inode[b]
        BY <3>0, <3>4 DEF RecordFails, MakeDir, Goes, PortsTypeOK, pastVars
      <4>2. QED
        BY <1>1, <1>3, <2>1, <3>1, <3>2, <4>1, RecordFrame
    <3>5. CASE Create(c)
      <4>1. /\ pc'[c] = "write" /\ Muddles(c) /\ rhport[c] \in Port
            /\ inode' = [inode EXCEPT ![c] = file'[rhport[c]].ino]
        BY <3>0, <3>5 DEF Create, Goes, PortsTypeOK
      <4>2. CASE p = rhport[c]
        <5>1. a = c
          BY <1>1, <4>1, <4>2 DEF Muddles
        <5>2. QED
          BY <1>3, <2>1, <4>1, <4>2, <5>1 DEF Recorded, PortsTypeOK
      <4>3. CASE p # rhport[c]
        <5>1. a # c
          BY <2>1, <4>3
        <5>2. file'[p] = file[p]
          BY <3>5, <4>3, CreatedFile
        <5>3. inode'[a] = inode[a] /\ (p \in muddled => p \in muddled')
          BY <2>1, <4>1, <4>3, <5>1 DEF Muddles, PortsTypeOK
        <5>4. QED
          BY <1>1, <1>3, <3>1, <3>2, <5>1, <5>2, <5>3, RecordFrame
      <4>4. QED
        BY <4>2, <4>3
    <3>6. CASE WriteRecord(c)
      <4>1. /\ pc[c] = "write" /\ pc'[c] = "done" /\ rhport[c] \in Port
            /\ inode' = [inode EXCEPT ![c] = Nobody]
        BY <3>0, <3>6 DEF WriteRecord, Goes, At, PortsTypeOK
      <4>2. CASE file[rhport[c]].ino = inode[c]
        <5>1. /\ file' = [file EXCEPT ![rhport[c]] = [file[rhport[c]] EXCEPT !.by = c]]
              /\ Muddles(c)
          BY <3>6, <4>2 DEF WriteRecord
        <5>2. CASE p = rhport[c]
          <6>1. a = c
            BY <1>1, <5>1, <5>2 DEF Muddles
          <6>2. file[p] \in File
            <7>1. inode[c] # Nobody
              BY <1>0, <4>1 DEF OpenFiles
            <7>2. file[p] # NoFile
              BY <4>2, <5>2, <7>1 DEF NoFile
            <7>3. QED
              BY <1>1, <7>2 DEF PortsTypeOK
          <6>3. file'[p] = [file[p] EXCEPT !.by = c]
            BY <1>1, <5>1, <5>2 DEF PortsTypeOK
          <6>4. file'[p].by = c
            BY <6>2, <6>3 DEF File
          <6>5. QED
            BY <1>3, <4>1, <6>1, <6>4 DEF Recorded
        <5>3. CASE p # rhport[c]
          <6>1. a # c
            BY <2>1, <5>3
          <6>2. file'[p] = file[p] /\ inode'[a] = inode[a] /\ (p \in muddled => p \in muddled')
            BY <1>1, <2>1, <4>1, <5>1, <5>3, <6>1 DEF Muddles, PortsTypeOK
          <6>3. QED
            BY <1>1, <1>3, <3>1, <3>2, <6>1, <6>2, RecordFrame
        <5>4. QED
          BY <5>2, <5>3
      <4>3. CASE file[rhport[c]].ino # inode[c]
        <5>1. UNCHANGED <<file, muddled>>
          BY <3>6, <4>3 DEF WriteRecord
        <5>2. a # c
          <6>1. ~ Detaching(p) /\ p \notin muddled
            BY <1>1, <3>1, <5>1
          <6>2. Recorded(p, a)
            BY <1>1, <1>3, <6>1 DEF RecordInv
          <6>3. QED
            BY <2>1, <4>1, <4>3, <6>2 DEF Recorded
        <5>3. inode'[a] = inode[a]
          BY <2>1, <4>1, <5>2 DEF PortsTypeOK
        <5>4. QED
          BY <1>1, <1>3, <3>1, <3>2, <5>1, <5>2, <5>3, RecordFrame
      <4>4. QED
        BY <4>2, <4>3
    <3>7. QED
      BY <2>3, <3>3, <3>4, <3>5, <3>6 DEF AttacherStep
  <2>4. ASSUME NEW c \in Detacher, DetacherStep(c) PROVE Recorded(p, a)'
    <3>0. Steps(c) /\ c \in Call /\ a # c /\ rhport[c] \in Port
      BY <1>0, <2>1, <2>4 DEF Steps, PortsTypeOK
    <3>1. pc'[a] = pc[a]
      BY <2>1, <3>0, OthersStay
    <3>2. CASE RemoveFile(c)
      <4>1. /\ pc'[c] = "detach" /\ UNCHANGED <<rhport, inode, muddled>>
            /\ file' = [file EXCEPT ![rhport[c]] = NoFile]
        BY <3>0, <3>2 DEF RemoveFile, Goes, PortsTypeOK, pastVars
      <4>2. p # rhport[c]
        BY <1>1, <4>1 DEF Detaching
      <4>3. file'[p] = file[p]
        BY <4>1, <4>2 DEF PortsTypeOK
      <4>4. ~ (DetachPort(c) \/ DetachRefused(c)) \/ rhport[c] # p
        BY <4>2
      <4>5. Detaching(p) => Detaching(p)'
        BY <3>0, <4>4, DetachingStays
      <4>6. QED
        BY <1>1, <1>3, <3>1, <4>1, <4>3, <4>5, RecordFrame
    <3>3. CASE CheckPort(c) /\ ~ DetachPort(c) /\ ~ DetachRefused(c)
      <4>1. UNCHANGED <<file, inode, muddled>>
        BY <3>3 DEF CheckPort, fileVars, pastVars
      <4>2. Detaching(p) => Detaching(p)'
        BY <3>0, <3>3, DetachingStays
      <4>3. QED
        BY <1>1, <1>3, <3>1, <4>1, <4>2, RecordFrame
    <3>4. CASE DetachPort(c)
      <4>1. UNCHANGED <<file, inode, muddled>> /\ owner'[rhport[c]] = Nobody
        BY <3>0, <3>4 DEF DetachPort, Frees, fileVars, PortsTypeOK
      <4>2. p # rhport[c]
        BY <1>1, <4>1
      <4>3. Detaching(p) => Detaching(p)'
        BY <3>0, <4>2, DetachingStays
      <4>4. QED
        BY <1>1, <1>3, <3>1, <4>1, <4>3, RecordFrame
    <3>5. CASE DetachRefused(c)
      <4>1. UNCHANGED <<file, inode>> /\ muddled' = muddled \cup {rhport[c]}
        BY <3>5 DEF DetachRefused, fileVars
      <4>2. p # rhport[c]
        BY <1>1, <4>1
      <4>3. Detaching(p) => Detaching(p)'
        BY <3>0, <4>2, DetachingStays
      <4>4. QED
        BY <1>1, <1>3, <3>1, <4>1, <4>3, RecordFrame
    <3>6. QED
      BY <2>4, <3>2, <3>3, <3>4, <3>5 DEF DetacherStep
  <2>5. CASE UNCHANGED <<pc, rhport, fileVars, muddled>>
    <3>1. Detaching(p) => Detaching(p)'
      BY <2>5 DEF Detaching
    <3>2. QED
      BY <1>1, <1>3, <2>5, <3>1, RecordFrame DEF fileVars
  <2>6. QED
    BY <2>2, <2>3, <2>4, <2>5 DEF PortsNext, PortDown, Quit, portVars, pastVars
<1>4. QED
  BY <1>1, <1>2, <1>3, OwnerStep

(* Once attach_device has recorded its port, the state file names the      *)
(* port's owner, through any attaches, detaches, lost connections and      *)
(* crashes, but for the cases the property names.                          *)
THEOREM RecordsAreOwners == PortsSpec => []RecordIsOwners
<1>1. PortsInit => OwnerInv /\ RecordInv
  BY DEF PortsInit, OwnerInv, RecordInv
<1>2. PortsInv /\ OwnerInv /\ RecordInv /\ [PortsNext]_portVars => OwnerInv' /\ RecordInv'
  BY OwnerStep, RecordStep DEF PortsInv
<1>3. RecordInv => RecordIsOwners
  BY DEF RecordInv, Recorded, RecordIsOwners
<1>4. QED
  BY <1>1, <1>2, <1>3, PortsInvHolds, PTL DEF PortsSpec
=============================================================================
