-------------------------- MODULE UsbipdMainProofs --------------------------
(***************************************************************************)
(* Proofs about UsbipdMain: its types, and that its pid file is true.      *)
(***************************************************************************)
EXTENDS UsbipdMain, TLAPS

(* A connection that is closed stays well typed, and so do the others.     *)
LEMMA GoneTyped ==
    ASSUME MainTypeOK, NEW S, Gone(S)
    PROVE  /\ conn'   \in [Conn -> {"idle", "queued", "child", "gone"}]
           /\ sock'   \in [Conn -> (Inst \X Family) \cup {NoSock}]
           /\ silent' \in [Conn -> BOOLEAN]
<1>1. conn' \in [Conn -> {"idle", "queued", "child", "gone"}]
  BY DEF Gone, MainTypeOK
<1>2. sock' \in [Conn -> (Inst \X Family) \cup {NoSock}]
  <2>1. sock \in [Conn -> (Inst \X Family) \cup {NoSock}]
    BY DEF MainTypeOK
  <2>2. QED
    BY <2>1 DEF Gone
<1>3. silent' \in [Conn -> BOOLEAN]
  <2>1. silent \in [Conn -> BOOLEAN]
    BY DEF MainTypeOK
  <2>2. QED
    BY <2>1 DEF Gone
<1>4. QED
  BY <1>1, <1>2, <1>3

(* Every step leaves the state well typed.                                 *)
LEMMA MainTypeStep == MainTypeOK /\ [MainNext]_mainVars => MainTypeOK'
<1> SUFFICES ASSUME MainTypeOK, [MainNext]_mainVars PROVE MainTypeOK'
  OBVIOUS
<1> USE FamilyAssumption, InstAssumption DEF MainTypeOK, Alive, Ended, Goes
<1>1. ASSUME NEW d \in Inst, Start(d) PROVE MainTypeOK'
  BY <1>1 DEF Start, connVars
<1>2. ASSUME NEW d \in Inst, Daemonize(d) PROVE MainTypeOK'
  BY <1>2 DEF Daemonize, connVars, pastVars
<1>3. ASSUME NEW d \in Inst, WritePidFile(d) PROVE MainTypeOK'
  BY <1>3 DEF WritePidFile, connVars, pastVars
<1>4. ASSUME NEW d \in Inst, Listen(d) PROVE MainTypeOK'
  BY <1>4 DEF Listen, connVars, pastVars
<1>5. ASSUME NEW d \in Inst, Listens(d) PROVE MainTypeOK'
  BY <1>5 DEF Listens, connVars, pastVars
<1>6. ASSUME NEW d \in Inst, Poll(d) PROVE MainTypeOK'
  BY <1>6 DEF Poll, Ready, connVars, pastVars
<1>7. ASSUME NEW d \in Inst, ProcessRequest(d) PROVE MainTypeOK'
  <2>1. PICK f \in todo[d] : \E c \in Queued(d, f) :
          /\ todo' = [todo EXCEPT ![d] = @ \ {f}]
          /\ \/ /\ conn' = [conn EXCEPT ![c] = "child"]
                /\ kept' = [kept EXCEPT ![c] = open[d] \ {f}]
                /\ UNCHANGED <<sock, silent>>
             \/ Gone({c}) /\ UNCHANGED kept
    BY <1>7 DEF ProcessRequest
  <2>2. PICK c \in Conn :
          \/ /\ conn' = [conn EXCEPT ![c] = "child"]
             /\ kept' = [kept EXCEPT ![c] = open[d] \ {f}]
             /\ UNCHANGED <<sock, silent>>
          \/ Gone({c}) /\ UNCHANGED kept
    BY <2>1 DEF Queued
  <2>3. todo' \in [Inst -> SUBSET Family]
    BY <2>1
  <2>4. kept' \in [Conn -> SUBSET Family]
    BY <2>2
  <2>5. /\ conn'   \in [Conn -> {"idle", "queued", "child", "gone"}]
        /\ sock'   \in [Conn -> (Inst \X Family) \cup {NoSock}]
        /\ silent' \in [Conn -> BOOLEAN]
    BY <2>2, GoneTyped
  <2>6. UNCHANGED <<pc, open, pidfile, termed, lost, met>>
    BY <1>7 DEF ProcessRequest, pastVars
  <2>7. QED
    BY <2>3, <2>4, <2>5, <2>6
<1>8. ASSUME NEW d \in Inst, PollAgain(d) \/ RemovePidFile(d) \/ PollFails(d)
      PROVE MainTypeOK'
  BY <1>8 DEF PollAgain, RemovePidFile, PollFails, connVars, pastVars
<1>9. ASSUME NEW d \in Inst, Exit(d) \/ Kill(d) PROVE MainTypeOK'
  <2>1. \E how \in Ended : pc' = [pc EXCEPT ![d] = how]
    BY <1>9 DEF Exit, Kill, Ends
  <2>2. pc' \in [Inst -> {"off", "exit"} \cup Alive \cup Ended]
    BY <2>1
  <2>3. /\ todo' = [todo EXCEPT ![d] = {}]
        /\ open' = [open EXCEPT ![d] = {}]
        /\ termed' = termed \ {d} /\ lost' = lost \ {d} /\ met' = met \ {d}
        /\ UNCHANGED <<pidfile, kept>>
    BY <1>9 DEF Exit, Kill, Ends
  <2>4. /\ conn'   \in [Conn -> {"idle", "queued", "child", "gone"}]
        /\ sock'   \in [Conn -> (Inst \X Family) \cup {NoSock}]
        /\ silent' \in [Conn -> BOOLEAN]
    <3>1. PICK S : S = Reset(open', kept)
      OBVIOUS
    <3>2. Gone(S)
      BY <1>9, <3>1 DEF Exit, Kill, Ends
    <3>3. QED
      BY <3>2, GoneTyped
  <2>5. QED
    BY <2>2, <2>3, <2>4
<1>10. ASSUME NEW d \in Inst, Term(d) PROVE MainTypeOK'
  BY <1>10 DEF Term, TermInPoll, TermElsewhere, connVars
<1>11. ASSUME NEW c \in Conn, Connect(c) PROVE MainTypeOK'
  BY <1>11 DEF Connect, procVars, pastVars
<1>12. ASSUME NEW c \in Conn, SpeakOrLeave(c) PROVE MainTypeOK'
  <2>1. /\ conn'   \in [Conn -> {"idle", "queued", "child", "gone"}]
        /\ sock'   \in [Conn -> (Inst \X Family) \cup {NoSock}]
        /\ silent' \in [Conn -> BOOLEAN]
    BY <1>12, GoneTyped DEF SpeakOrLeave
  <2>2. UNCHANGED <<procVars, kept, pastVars>>
    BY <1>12 DEF SpeakOrLeave
  <2>3. QED
    BY <2>1, <2>2 DEF procVars, pastVars
<1>13. ASSUME NEW c \in Conn, ChildExits(c) PROVE MainTypeOK'
  BY <1>13 DEF ChildExits, Gone, procVars, pastVars
<1>14. CASE UNCHANGED mainVars
  BY <1>14 DEF mainVars, procVars, connVars, pastVars
<1>15. QED
  BY <1>1, <1>2, <1>3, <1>4, <1>5, <1>6, <1>7, <1>8, <1>9, <1>10, <1>11, <1>12,
     <1>13, <1>14 DEF MainNext, DaemonStep

(* Every reachable state of the daemons and of their clients is well       *)
(* typed.                                                                  *)
THEOREM MainTypeCorrect == MainSpec => []MainTypeOK
<1>1. MainInit => MainTypeOK
  BY FamilyAssumption, InstAssumption DEF MainInit, MainTypeOK, Alive, NoSock
<1>2. QED
  BY <1>1, MainTypeStep, PTL DEF MainSpec

-----------------------------------------------------------------------------
(* The strengthening of PidFileIsTrue: daemons that run side by side are   *)
(* known to; the file names one only between its write_pid_file and its    *)
(* remove_pid_file; and one that runs alone is named from the former on.   *)
Written == {"listen", "poll", "loop"}

KnownInv == \A d, e \in Inst : d # e /\ pc[d] \in Alive /\ pc[e] \in Alive => d \in met
NamedInv == \A d \in Inst : pidfile = d => pc[d] \in Written \cup {"close", "killed"}
AloneInv == \A d \in WithPid : pc[d] \in Written /\ d \notin met => pidfile = d

PidInv == MainTypeOK /\ KnownInv /\ NamedInv /\ AloneInv

(* A daemon that goes on to a place where it still runs, and touches       *)
(* neither the pid file nor met, keeps the invariant.                      *)
LEMMA GoesOn ==
    ASSUME PidInv, NEW d \in Inst, pc[d] \in Alive \ {"daemonize", "write_pid"},
           NEW there \in Written \cup {"close"},
           pc' = [pc EXCEPT ![d] = there],
           pc[d] = "close" => there = "close",
           pidfile' = pidfile, met' = met
    PROVE  KnownInv' /\ NamedInv' /\ AloneInv'
<1> USE DEF PidInv, MainTypeOK, Alive, Written
<1>1. KnownInv'
  BY DEF KnownInv
<1>2. NamedInv'
  BY DEF NamedInv
<1>3. AloneInv'
  BY InstAssumption DEF AloneInv
<1>4. QED
  BY <1>1, <1>2, <1>3

(* Every step keeps the invariant.                                         *)
LEMMA PidStep == PidInv /\ [MainNext]_mainVars => PidInv'
<1> SUFFICES ASSUME PidInv, [MainNext]_mainVars PROVE PidInv'
  OBVIOUS
<1>0. MainTypeOK /\ MainTypeOK'
  BY MainTypeStep DEF PidInv
<1> DEFINE Inv == KnownInv /\ NamedInv /\ AloneInv
<1>1. ASSUME NEW d \in Inst, Start(d) PROVE Inv'
  <2> USE <1>0, <1>1 DEF PidInv, MainTypeOK, Alive, Written, Start, Goes
  <2>1. KnownInv'
    BY DEF KnownInv
  <2>2. NamedInv'
    BY DEF NamedInv
  <2>3. AloneInv'
    BY InstAssumption DEF AloneInv
  <2>4. QED
    BY <2>1, <2>2, <2>3
<1>2. ASSUME NEW d \in Inst, Daemonize(d) PROVE Inv'
  <2> USE <1>0, <1>2 DEF PidInv, MainTypeOK, Alive, Written, Daemonize, Goes, pastVars
  <2>1. KnownInv'
    BY DEF KnownInv
  <2>2. NamedInv'
    BY DEF NamedInv
  <2>3. AloneInv'
    BY InstAssumption DEF AloneInv
  <2>4. QED
    BY <2>1, <2>2, <2>3
<1>3. ASSUME NEW d \in Inst, WritePidFile(d) PROVE Inv'
  <2> USE <1>0, <1>3 DEF PidInv, MainTypeOK, Alive, Written, WritePidFile, Goes, pastVars
  <2>1. KnownInv'
    BY DEF KnownInv
  <2>2. NamedInv'
    BY InstAssumption DEF NamedInv
  <2>3. AloneInv'
    BY InstAssumption DEF AloneInv, KnownInv
  <2>4. QED
    BY <2>1, <2>2, <2>3
<1>4. ASSUME NEW d \in Inst,
             Listens(d) \/ Poll(d) \/ PollAgain(d) \/ PollFails(d) \/ TermInPoll(d)
      PROVE Inv'
  BY <1>4, GoesOn
  DEF Listens, Poll, PollAgain, PollFails, TermInPoll, Goes, Alive, Written, pastVars
<1>5. ASSUME NEW d \in Inst, RemovePidFile(d) PROVE Inv'
  <2> USE <1>0, <1>5 DEF PidInv, MainTypeOK, Alive, Written, RemovePidFile, Goes, pastVars
  <2>1. KnownInv'
    BY DEF KnownInv
  <2>2. NamedInv'
    BY InstAssumption DEF NamedInv
  <2>3. AloneInv'
    BY InstAssumption DEF AloneInv, KnownInv
  <2>4. QED
    BY <2>1, <2>2, <2>3
<1>6. ASSUME NEW d \in Inst, Exit(d) \/ Kill(d) PROVE Inv'
  <2>1. PICK how \in Ended : /\ pc' = [pc EXCEPT ![d] = how]
                             /\ pc[d] = "exit" \/ how = "killed"
    BY <1>6 DEF Exit, Kill, Ends, Ended
  <2>0. met' = met \ {d} /\ pidfile' = pidfile
    BY <1>6 DEF Exit, Kill, Ends
  <2> USE <1>0, <2>0, <2>1 DEF PidInv, MainTypeOK, Alive, Written, Ended
  <2>2. KnownInv'
    BY DEF KnownInv
  <2>3. NamedInv'
    BY DEF NamedInv
  <2>4. AloneInv'
    BY InstAssumption DEF AloneInv
  <2>5. QED
    BY <2>2, <2>3, <2>4
<1>7. ASSUME UNCHANGED <<pc, pidfile, met>> PROVE Inv'
  BY <1>7 DEF PidInv, KnownInv, NamedInv, AloneInv
<1>8. ASSUME NEW d \in Inst, Listen(d) \/ ProcessRequest(d) \/ TermElsewhere(d) PROVE Inv'
  BY <1>7, <1>8 DEF Listen, ProcessRequest, TermElsewhere, pastVars
<1>9. ASSUME NEW c \in Conn, Connect(c) \/ SpeakOrLeave(c) \/ ChildExits(c) PROVE Inv'
  BY <1>7, <1>9 DEF Connect, SpeakOrLeave, ChildExits, procVars, pastVars
<1>10. ASSUME UNCHANGED mainVars PROVE Inv'
  BY <1>7, <1>10 DEF mainVars, procVars, pastVars
<1>11. Inv'
  BY <1>1, <1>2, <1>3, <1>4, <1>5, <1>6, <1>8, <1>9, <1>10 DEF MainNext, DaemonStep, Term
<1>12. QED
  BY <1>0, <1>11 DEF PidInv

(* The pid file never names a daemon that ended by itself, and names every *)
(* daemon that is up and ran beside no other (write_pid_file,              *)
(* remove_pid_file), for any number of daemons and clients.                *)
THEOREM PidFileStaysTrue == MainSpec => []PidFileIsTrue
<1>1. MainInit => PidInv
  <2>1. MainInit => MainTypeOK
    BY FamilyAssumption, InstAssumption DEF MainInit, MainTypeOK, Alive, NoSock
  <2>2. QED
    BY <2>1, InstAssumption
    DEF MainInit, PidInv, KnownInv, NamedInv, AloneInv, Alive, Written
<1>2. PidInv => PidFileIsTrue
  BY InstAssumption DEF PidInv, NamedInv, AloneInv, PidFileIsTrue, Written
<1>3. QED
  BY <1>1, <1>2, PidStep, PTL DEF MainSpec
=============================================================================
