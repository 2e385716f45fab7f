--------------------------- MODULE AppWindowProofs ---------------------------
(***************************************************************************)
(* Proofs about AppWindow: its types, the references to its descriptions,  *)
(* its button, and what its list shows.                                    *)
(***************************************************************************)
EXTENDS AppWindow, FiniteSetTheorems, TLAPS

(* A task that has been started and has not been released.                 *)
Active(k) == tpc[k] \notin {"unborn", "done"}

(* A task at work between its two callbacks.                               *)
Works(k) ==
    \/ Choose(k) \/ Attach(k) \/ AttachFails(k) \/ SetLabel(k) \/ SetState(k) \/ SetPort(k)
    \/ Detach(k) \/ DetachFails(k) \/ DetachNull(k)

(* The types but for that of refs, which the count of references gives.    *)
PlainTypes ==
    /\ rpc       \in [Refresh -> {"idle", "asking", "answered", "done"}]
    /\ nodes     \in [Refresh -> BOOLEAN]
    /\ found     \in [Refresh -> SUBSET Dev]
    /\ sensitive \in BOOLEAN
    /\ devs      \subseteq Desc
    /\ label     \in [Desc -> {"Attach", "Detach"}]
    /\ state     \in [Desc -> BOOLEAN]
    /\ port      \in [Desc -> Port \cup {NoPort}]
    /\ tpc       \in [Task -> TaskPC]
    /\ on        \in [Task -> Desc]
    /\ got       \in [Task -> Port \cup {NoPort}]
    /\ att       \in [Port -> Dev \cup {NoDev}]
    /\ crashed   \in BOOLEAN
    /\ disturbed \subseteq Dev

(* A description whose refresh is not over is as it will be allocated: it  *)
(* has no row, no task, and its first values.                              *)
FreshInv ==
    \A o \in Desc : rpc[o[1]] # "done" =>
        /\ o \notin devs
        /\ label[o] = "Attach" /\ state[o] = TRUE /\ port[o] = NoPort
        /\ \A k \in Task : Active(k) => on[k] # o

(* A description has a reference for its row and one for each task.        *)
Users(o) == {k \in Task : on[k] = o /\ Active(k)}

RefInv ==
    /\ refs \in [Desc -> Nat]
    /\ \A o \in Desc : refs[o] = Cardinality(Users(o)) + (IF o \in devs THEN 1 ELSE 0)

-----------------------------------------------------------------------------
(* What a task at work leaves alone.                                       *)
LEMMA WorkFrame ==
    ASSUME PlainTypes, NEW k \in Task, Works(k)
    PROVE  /\ UNCHANGED <<rpc, nodes, found, sensitive, devs, refs, on>>
           /\ Active(k) /\ Active(k)'
           /\ \A j \in Task \ {k} : tpc'[j] = tpc[j] /\ got'[j] = got[j]
           /\ \A o \in Desc \ {on[k]} :
                label'[o] = label[o] /\ state'[o] = state[o] /\ port'[o] = port[o]
           /\ disturbed \subseteq disturbed'
<1> USE DEF PlainTypes, Active, Moves, refreshVars, descVars, taskVars
<1>1. CASE Choose(k)
  BY <1>1 DEF Choose
<1>2. CASE Attach(k)
  <2>1. /\ UNCHANGED <<refreshVars, devs, refs, descVars, on, crashed>>
        /\ \E p \in Port :
             \/ Moves(k, "attach", "label") /\ got' = [got EXCEPT ![k] = p]
                /\ disturbed' = disturbed
             \/ Moves(k, "attach", "returned") /\ disturbed' = disturbed \cup {DevOf(on[k])}
                /\ got' = got
    BY <1>2 DEF Attach, Disturbs
  <2>2. QED
    BY <2>1
<1>3. CASE AttachFails(k)
  BY <1>3 DEF AttachFails
<1>4. CASE SetLabel(k)
  BY <1>4 DEF SetLabel
<1>5. CASE SetState(k)
  BY <1>5 DEF SetState
<1>6. CASE SetPort(k)
  BY <1>6 DEF SetPort
<1>7. CASE Detach(k)
  BY <1>7 DEF Detach
<1>8. CASE DetachFails(k)
  BY <1>8 DEF DetachFails
<1>9. CASE DetachNull(k)
  BY <1>9 DEF DetachNull
<1>10. QED
  BY <1>1, <1>2, <1>3, <1>4, <1>5, <1>6, <1>7, <1>8, <1>9 DEF Works

(* A task at work leaves the state well typed.                             *)
LEMMA WorkTypes ==
    ASSUME PlainTypes, NEW k \in Task, Works(k)
    PROVE  PlainTypes'
<1> USE DEF PlainTypes, Moves, refreshVars, descVars, taskVars, TaskPC
<1>0. on[k] \in Desc /\ DevOf(on[k]) \in Dev
  BY DEF Desc, DevOf
<1>1. CASE Choose(k)
  BY <1>1 DEF Choose
<1>2. CASE Attach(k)
  <2>1. /\ UNCHANGED <<refreshVars, devs, refs, descVars, on, crashed>>
        /\ \E p \in Port :
             /\ att' = [att EXCEPT ![p] = DevOf(on[k])]
             /\ \/ Moves(k, "attach", "label") /\ got' = [got EXCEPT ![k] = p]
                   /\ disturbed' = disturbed
                \/ Moves(k, "attach", "returned") /\ disturbed' = disturbed \cup {DevOf(on[k])}
                   /\ got' = got
    BY <1>2 DEF Attach, Disturbs
  <2>2. QED
    BY <1>0, <2>1
<1>3. CASE AttachFails(k)
  BY <1>3 DEF AttachFails
<1>4. CASE SetLabel(k)
  BY <1>4 DEF SetLabel
<1>5. CASE SetState(k)
  BY <1>5 DEF SetState
<1>6. CASE SetPort(k)
  BY <1>6 DEF SetPort
<1>7. CASE Detach(k)
  BY <1>7 DEF Detach
<1>8. CASE DetachFails(k)
  BY <1>8 DEF DetachFails
<1>9. CASE DetachNull(k)
  BY <1>9 DEF DetachNull
<1>10. QED
  BY <1>1, <1>2, <1>3, <1>4, <1>5, <1>6, <1>7, <1>8, <1>9 DEF Works

(* What is done when a list is shown, an index at a time.                  *)
LEMMA ShowFrame ==
    ASSUME PlainTypes, FreshInv, NEW r \in Refresh, ShowList(r)
    PROVE  /\ rpc[r] = "answered" /\ rpc' = [rpc EXCEPT ![r] = "done"]
           /\ sensitive' = TRUE
           /\ UNCHANGED <<nodes, found, taskVars, att, crashed>>
           /\ devs' = {r} \X found[r]
           /\ devs \cap devs' = {}
           /\ refs' = [o \in Desc |-> IF o \in devs' THEN 1
                                      ELSE IF o \in devs THEN refs[o] - 1 ELSE refs[o]]
           /\ disturbed' = disturbed \cup Busy \cup (Attached \ found[r])
<1>1. /\ devs' = {r} \X found[r]
      /\ RefreshDone(r)
      /\ refs' = [o \in Desc |-> IF o \in {r} \X found[r] THEN 1
                                 ELSE IF o \in devs THEN refs[o] - 1 ELSE refs[o]]
      /\ Disturbs(Busy \cup (Attached \ found[r]))
  BY DEF ShowList
<1>2. devs \cap devs' = {}
  BY <1>1 DEF FreshInv, PlainTypes, RefreshDone, Desc
<1>3. QED
  BY <1>1, <1>2 DEF RefreshDone, Disturbs

(* The rows of a new list: what they take over from the old one's.         *)
LEMMA ShowRows ==
    ASSUME PlainTypes, NEW r \in Refresh, ShowList(r), NEW o \in Desc
    PROVE  /\ o \notin devs' => /\ label'[o] = label[o] /\ state'[o] = state[o]
                                /\ port'[o] = port[o]
           /\ o \in devs' /\ (\A q \in Same(o) : state[q]) =>
                /\ label'[o] = label[o] /\ state'[o] = TRUE /\ port'[o] = port[o]
           /\ o \in devs' /\ (\E q \in Same(o) : ~state[q]) =>
                /\ label'[o] = "Detach" /\ state'[o] = FALSE
                /\ \E q \in Same(o) : ~state[q] /\ port'[o] = port[q]
<1> DEFINE Was(x) == {q \in Same(x) : ~state[q]}
<1>1. /\ devs'  = {r} \X found[r]
      /\ state' = [x \in Desc |-> IF x \in {r} \X found[r] THEN Was(x) = {} ELSE state[x]]
      /\ port'  = [x \in Desc |-> IF x \in {r} \X found[r] /\ Was(x) # {}
                                    THEN port[CHOOSE q \in Was(x) : TRUE] ELSE port[x]]
      /\ label' = [x \in Desc |-> IF x \in {r} \X found[r] /\ Was(x) # {}
                                    THEN "Detach" ELSE label[x]]
  BY DEF ShowList
<1>2. state'[o] = (IF o \in devs' THEN Was(o) = {} ELSE state[o])
  BY <1>1
<1>3. label'[o] = (IF o \in devs' /\ Was(o) # {} THEN "Detach" ELSE label[o])
  BY <1>1
<1>4. port'[o] = (IF o \in devs' /\ Was(o) # {} THEN port[CHOOSE q \in Was(o) : TRUE]
                                                ELSE port[o])
  BY <1>1
<1>5. Was(o) # {} => (CHOOSE q \in Was(o) : TRUE) \in Was(o)
  OBVIOUS
<1> HIDE DEF Was
<1>6. CASE o \notin devs'
  BY <1>2, <1>3, <1>4, <1>6
<1>7. CASE o \in devs' /\ Was(o) = {}
  <2>1. \A q \in Same(o) : state[q]
    BY <1>7 DEF Was
  <2>2. QED
    BY <1>2, <1>3, <1>4, <1>7, <2>1
<1>8. CASE o \in devs' /\ Was(o) # {}
  <2>1. PICK q \in Was(o) : port'[o] = port[q]
    BY <1>4, <1>5, <1>8
  <2>2. q \in Same(o) /\ ~state[q]
    BY <2>1 DEF Was
  <2>3. QED
    BY <1>2, <1>3, <1>8, <2>1, <2>2
<1>9. QED
  BY <1>6, <1>7, <1>8

(* Every step leaves the state well typed, but for refs.                   *)
LEMMA PlainTypesStep ==
    ASSUME PlainTypes, FreshInv, [WinNext]_winVars
    PROVE  PlainTypes'
<1>1. ASSUME NEW r \in Refresh, StartRefresh(r) PROVE PlainTypes'
  BY <1>1 DEF StartRefresh, PlainTypes, descVars, taskVars
<1>2. ASSUME NEW r \in Refresh, Answered(r) PROVE PlainTypes'
  <2>1. PICK ds \in SUBSET Dev, any \in BOOLEAN :
          found' = [found EXCEPT ![r] = ds] /\ nodes' = [nodes EXCEPT ![r] = any]
    BY <1>2 DEF Answered
  <2>2. QED
    BY <1>2, <2>1 DEF Answered, PlainTypes, descVars, taskVars
<1>3. ASSUME NEW r \in Refresh, NothingFound(r) PROVE PlainTypes'
  BY <1>3 DEF NothingFound, RefreshDone, PlainTypes, descVars, taskVars
<1>4. ASSUME NEW r \in Refresh, ShowList(r) PROVE PlainTypes'
  <2>1. /\ rpc' = [rpc EXCEPT ![r] = "done"]
        /\ sensitive' = TRUE
        /\ UNCHANGED <<nodes, found, taskVars, att, crashed>>
        /\ devs' = {r} \X found[r]
        /\ disturbed' = disturbed \cup Busy \cup (Attached \ found[r])
    BY <1>4, ShowFrame
  <2>2. Busy \subseteq Dev /\ Attached \subseteq Dev
    BY DEF Busy, Attached, PlainTypes, DevOf, Desc
  <2>3. devs' \subseteq Desc
    BY <2>1 DEF PlainTypes, Desc
  <2>4. state' \in [Desc -> BOOLEAN]
    BY <1>4 DEF ShowList, PlainTypes
  <2>5. label' \in [Desc -> {"Attach", "Detach"}]
    BY <1>4 DEF ShowList, PlainTypes
  <2>6. port' \in [Desc -> Port \cup {NoPort}]
    <3>1. port' = [o \in Desc |-> port'[o]]
      BY <1>4 DEF ShowList
    <3>2. ASSUME NEW o \in Desc PROVE port'[o] \in Port \cup {NoPort}
      <4>1. \/ port'[o] = port[o]
            \/ \E q \in Same(o) : port'[o] = port[q]
        BY <1>4, ShowRows
      <4>2. Same(o) \subseteq Desc
        BY DEF Same, PlainTypes
      <4>3. QED
        BY <4>1, <4>2 DEF PlainTypes
    <3>3. QED
      BY <3>1, <3>2
  <2>7. QED
    BY <2>1, <2>2, <2>3, <2>4, <2>5, <2>6 DEF PlainTypes, taskVars
<1>5. ASSUME NEW k \in Task, Works(k) PROVE PlainTypes'
  BY <1>5, WorkTypes
<1>6. ASSUME NEW k \in Task, ControlDone(k) PROVE PlainTypes'
  BY <1>6 DEF ControlDone, Moves, PlainTypes, TaskPC, refreshVars, descVars
<1>7. ASSUME NEW k \in Task, NEW o \in Desc, Click(k, o) PROVE PlainTypes'
  <2>1. DevOf(o) \in Dev
    BY DEF DevOf, Desc
  <2>2. QED
    BY <1>7, <2>1 DEF Click, Disturbs, Moves, PlainTypes, TaskPC, refreshVars, descVars
<1>8. ASSUME NEW p \in Port, LosePort(p) PROVE PlainTypes'
  BY <1>8 DEF LosePort, PlainTypes, refreshVars, descVars, taskVars
<1>9. CASE UNCHANGED winVars
  BY <1>9 DEF winVars, PlainTypes, refreshVars, descVars, taskVars
<1>10. QED
  BY <1>1, <1>2, <1>3, <1>4, <1>5, <1>6, <1>7, <1>8, <1>9
  DEF WinNext, RefreshStep, TaskStep, Works

-----------------------------------------------------------------------------
(* A description stays fresh until its refresh is over.                    *)
LEMMA FreshStep ==
    ASSUME PlainTypes, FreshInv, [WinNext]_winVars
    PROVE  FreshInv'
<1> USE DEF Active
<1>0. \A o \in Desc : o[1] \in Refresh
  BY DEF Desc
<1>1. ASSUME NEW r \in Refresh, StartRefresh(r) PROVE FreshInv'
  BY <1>0, <1>1 DEF StartRefresh, PlainTypes, FreshInv, descVars, taskVars
<1>2. ASSUME NEW r \in Refresh, Answered(r) PROVE FreshInv'
  BY <1>0, <1>2 DEF Answered, PlainTypes, FreshInv, descVars, taskVars
<1>3. ASSUME NEW r \in Refresh, NothingFound(r) PROVE FreshInv'
  BY <1>0, <1>3 DEF NothingFound, RefreshDone, PlainTypes, FreshInv, descVars, taskVars
<1>4. ASSUME NEW r \in Refresh, ShowList(r) PROVE FreshInv'
  <2>1. /\ rpc' = [rpc EXCEPT ![r] = "done"]
        /\ UNCHANGED taskVars
        /\ devs' = {r} \X found[r]
    BY <1>4, ShowFrame
  <2>2. SUFFICES ASSUME NEW o \in Desc, rpc'[o[1]] # "done"
                 PROVE  /\ o \notin devs'
                        /\ label'[o] = "Attach" /\ state'[o] = TRUE /\ port'[o] = NoPort
                        /\ \A k \in Task : Active(k)' => on'[k] # o
    BY DEF FreshInv
  <2>3. o[1] # r /\ rpc[o[1]] # "done"
    BY <1>0, <2>1, <2>2 DEF PlainTypes
  <2>4. o \notin devs'
    BY <2>1, <2>3
  <2>5. label'[o] = label[o] /\ state'[o] = state[o] /\ port'[o] = port[o]
    BY <1>4, <2>4, ShowRows
  <2>6. QED
    BY <2>1, <2>3, <2>4, <2>5 DEF FreshInv, taskVars
<1>5. ASSUME NEW k \in Task, Works(k) PROVE FreshInv'
  <2>1. /\ UNCHANGED <<rpc, nodes, found, sensitive, devs, refs, on>>
        /\ Active(k) /\ Active(k)'
        /\ \A j \in Task \ {k} : tpc'[j] = tpc[j] /\ got'[j] = got[j]
        /\ \A o \in Desc \ {on[k]} :
             label'[o] = label[o] /\ state'[o] = state[o] /\ port'[o] = port[o]
    BY <1>5, WorkFrame
  <2>2. \A o \in Desc : rpc[o[1]] # "done" => on[k] # o
    BY <2>1 DEF FreshInv
  <2>3. QED
    BY <2>1, <2>2 DEF FreshInv
<1>6. ASSUME NEW k \in Task, ControlDone(k) PROVE FreshInv'
  BY <1>6 DEF ControlDone, Moves, PlainTypes, FreshInv, refreshVars, descVars
<1>7. ASSUME NEW k \in Task, NEW o \in Desc, Click(k, o) PROVE FreshInv'
  BY <1>7 DEF Click, Moves, PlainTypes, FreshInv, refreshVars, descVars
<1>8. ASSUME NEW p \in Port, LosePort(p) PROVE FreshInv'
  BY <1>8 DEF LosePort, FreshInv, refreshVars, descVars, taskVars
<1>9. CASE UNCHANGED winVars
  BY <1>9 DEF winVars, FreshInv, refreshVars, descVars, taskVars
<1>10. QED
  BY <1>1, <1>2, <1>3, <1>4, <1>5, <1>6, <1>7, <1>8, <1>9
  DEF WinNext, RefreshStep, TaskStep, Works

(* The users of a description are finitely many.                           *)
LEMMA UsersAreFinite ==
    ASSUME NEW o
    PROVE  IsFiniteSet(Users(o)) /\ Cardinality(Users(o)) \in Nat
<1>1. Users(o) \subseteq Task
  BY DEF Users
<1>2. IsFiniteSet(Users(o))
  BY <1>1, TaskAssumption, FS_Subset
<1>3. QED
  BY <1>2, FS_CardinalityType

(* What is counted keeps its number when neither rows nor users change.    *)
LEMMA SameRefs ==
    ASSUME RefInv, UNCHANGED <<refs, devs>>, \A o \in Desc : Users(o)' = Users(o)
    PROVE  RefInv'
BY DEF RefInv

(* Every row and every task has its reference.                             *)
LEMMA RefStep ==
    ASSUME PlainTypes, FreshInv, RefInv, [WinNext]_winVars
    PROVE  RefInv'
<1> USE DEF Active
<1>1. ASSUME NEW r \in Refresh, StartRefresh(r) \/ Answered(r) \/ NothingFound(r)
      PROVE  RefInv'
  <2>1. UNCHANGED <<refs, devs, taskVars>>
    BY <1>1 DEF StartRefresh, Answered, NothingFound, RefreshDone
  <2>2. QED
    BY <2>1, SameRefs DEF Users, taskVars
<1>2. ASSUME NEW r \in Refresh, ShowList(r) PROVE RefInv'
  <2>1. /\ rpc[r] = "answered"
        /\ devs' = {r} \X found[r]
        /\ devs \cap devs' = {}
        /\ refs' = [o \in Desc |-> IF o \in devs' THEN 1
                                   ELSE IF o \in devs THEN refs[o] - 1 ELSE refs[o]]
        /\ UNCHANGED taskVars
    BY <1>2, ShowFrame
  <2>2. ASSUME NEW o \in Desc
        PROVE  /\ refs'[o] \in Nat
               /\ refs'[o] = Cardinality(Users(o)') + (IF o \in devs' THEN 1 ELSE 0)
    <3>1. Users(o)' = Users(o)
      BY <2>1 DEF Users, taskVars
    <3>2. Cardinality(Users(o)) \in Nat
      BY UsersAreFinite
    <3>3. refs[o] = Cardinality(Users(o)) + (IF o \in devs THEN 1 ELSE 0)
      BY DEF RefInv
    <3>4. CASE o \in devs'
      <4>1. rpc[o[1]] # "done"
        BY <2>1, <3>4
      <4>2. Users(o) = {}
        BY <4>1 DEF FreshInv, Users
      <4>3. Cardinality(Users(o)) = 0
        BY <4>2, FS_EmptySet
      <4>4. QED
        BY <2>1, <3>1, <3>4, <4>3
    <3>5. CASE o \notin devs'
      BY <2>1, <3>1, <3>2, <3>3, <3>5
    <3>6. QED
      BY <3>4, <3>5
  <2>3. refs' \in [Desc -> Nat]
    BY <2>1, <2>2
  <2>4. QED
    BY <2>2, <2>3 DEF RefInv
<1>3. ASSUME NEW k \in Task, Works(k) PROVE RefInv'
  <2>1. /\ UNCHANGED <<devs, refs, on>> /\ Active(k) /\ Active(k)'
        /\ \A j \in Task \ {k} : tpc'[j] = tpc[j]
    BY <1>3, WorkFrame
  <2>2. \A o \in Desc : Users(o)' = Users(o)
    BY <2>1 DEF Users
  <2>3. QED
    BY <2>1, <2>2, SameRefs
<1>4. ASSUME NEW k \in Task, ControlDone(k) PROVE RefInv'
  <2>1. /\ tpc[k] = "returned" /\ tpc' = [tpc EXCEPT ![k] = "done"]
        /\ refs' = [refs EXCEPT ![on[k]] = @ - 1]
        /\ UNCHANGED <<on, devs>>
    BY <1>4 DEF ControlDone, Moves
  <2>2. ASSUME NEW o \in Desc
        PROVE  /\ refs'[o] \in Nat
               /\ refs'[o] = Cardinality(Users(o)') + (IF o \in devs' THEN 1 ELSE 0)
    <3>1. refs[o] \in Nat /\ refs[o] = Cardinality(Users(o)) + (IF o \in devs THEN 1 ELSE 0)
      BY DEF RefInv
    <3>2. IsFiniteSet(Users(o)) /\ Cardinality(Users(o)) \in Nat
      BY UsersAreFinite
    <3>3. CASE o = on[k]
      <4>1. k \in Users(o) /\ Users(o)' = Users(o) \ {k}
        BY <2>1, <3>3 DEF Users, PlainTypes
      <4>2. Cardinality(Users(o)') = Cardinality(Users(o)) - 1
        BY <3>2, <4>1, FS_RemoveElement
      <4>3. Cardinality(Users(o)) # 0
        BY <3>2, <4>1, FS_EmptySet
      <4>4. refs'[o] = refs[o] - 1
        BY <2>1, <3>3 DEF RefInv
      <4>5. QED
        BY <2>1, <3>1, <3>2, <4>2, <4>3, <4>4
    <3>4. CASE o # on[k]
      <4>1. Users(o)' = Users(o)
        BY <2>1, <3>4 DEF Users, PlainTypes
      <4>2. refs'[o] = refs[o]
        BY <2>1, <3>4 DEF RefInv
      <4>3. QED
        BY <2>1, <3>1, <4>1, <4>2
    <3>5. QED
      BY <3>3, <3>4
  <2>3. refs' \in [Desc -> Nat]
    BY <2>1, <2>2 DEF RefInv
  <2>4. QED
    BY <2>2, <2>3 DEF RefInv
<1>5. ASSUME NEW k \in Task, NEW q \in Desc, Click(k, q) PROVE RefInv'
  <2>1. /\ tpc[k] = "unborn" /\ tpc' = [tpc EXCEPT ![k] = "clicked"]
        /\ on' = [on EXCEPT ![k] = q]
        /\ refs' = [refs EXCEPT ![q] = @ + 1]
        /\ UNCHANGED devs
    BY <1>5 DEF Click, Moves
  <2>2. ASSUME NEW o \in Desc
        PROVE  /\ refs'[o] \in Nat
               /\ refs'[o] = Cardinality(Users(o)') + (IF o \in devs' THEN 1 ELSE 0)
    <3>1. refs[o] \in Nat /\ refs[o] = Cardinality(Users(o)) + (IF o \in devs THEN 1 ELSE 0)
      BY DEF RefInv
    <3>2. IsFiniteSet(Users(o)) /\ Cardinality(Users(o)) \in Nat
      BY UsersAreFinite
    <3>3. CASE o = q
      <4>1. k \notin Users(o) /\ Users(o)' = Users(o) \cup {k}
        BY <2>1, <3>3 DEF Users, PlainTypes
      <4>2. Cardinality(Users(o)') = Cardinality(Users(o)) + 1
        BY <3>2, <4>1, FS_AddElement
      <4>3. refs'[o] = refs[o] + 1
        BY <2>1, <3>3 DEF RefInv
      <4>4. QED
        BY <2>1, <3>1, <3>2, <4>2, <4>3
    <3>4. CASE o # q
      <4>1. Users(o)' = Users(o)
        BY <2>1, <3>4 DEF Users, PlainTypes
      <4>2. refs'[o] = refs[o]
        BY <2>1, <3>4 DEF RefInv
      <4>3. QED
        BY <2>1, <3>1, <4>1, <4>2
    <3>5. QED
      BY <3>3, <3>4
  <2>3. refs' \in [Desc -> Nat]
    BY <2>1, <2>2 DEF RefInv
  <2>4. QED
    BY <2>2, <2>3 DEF RefInv
<1>6. ASSUME NEW p \in Port, LosePort(p) PROVE RefInv'
  <2>1. UNCHANGED <<refs, devs, taskVars>>
    BY <1>6 DEF LosePort
  <2>2. QED
    BY <2>1, SameRefs DEF Users, taskVars
<1>7. CASE UNCHANGED winVars
  <2>1. UNCHANGED <<refs, devs, taskVars>>
    BY <1>7 DEF winVars
  <2>2. QED
    BY <2>1, SameRefs DEF Users, taskVars
<1>8. QED
  BY <1>1, <1>2, <1>3, <1>4, <1>5, <1>6, <1>7
  DEF WinNext, RefreshStep, TaskStep, Works

-----------------------------------------------------------------------------
DescInv == PlainTypes /\ FreshInv /\ RefInv

(* The three together hold in every state.                                 *)
LEMMA DescInvHolds == WinSpec => []DescInv
<1>1. WinInit => DescInv
  <2> SUFFICES ASSUME WinInit PROVE DescInv
    OBVIOUS
  <2>1. PlainTypes
    BY DEF WinInit, PlainTypes, TaskPC
  <2>2. FreshInv
    BY DEF WinInit, FreshInv, Active
  <2>3. ASSUME NEW o \in Desc PROVE refs[o] = 0 /\ Cardinality(Users(o)) = 0 /\ o \notin devs
    <3>1. Users(o) = {}
      BY DEF Users, WinInit, Active
    <3>2. QED
      BY <3>1, FS_EmptySet DEF WinInit
  <2>4. refs \in [Desc -> Nat]
    BY DEF WinInit
  <2>5. QED
    BY <2>1, <2>2, <2>3, <2>4 DEF DescInv, RefInv
<1>2. DescInv /\ [WinNext]_winVars => DescInv'
  BY PlainTypesStep, FreshStep, RefStep DEF DescInv
<1>3. QED
  BY <1>1, <1>2, PTL DEF WinSpec

(* Every reachable state of the window is well typed: no description is    *)
(* released more often than it was referenced, and every task is at a      *)
(* place of its code.                                                      *)
THEOREM WinTypeCorrect == WinSpec => []WinTypeOK
<1>1. DescInv => WinTypeOK
  BY DEF DescInv, PlainTypes, RefInv, WinTypeOK
<1>2. QED
  BY <1>1, DescInvHolds, PTL

(* A description lives exactly as long as its row and its tasks, for any   *)
(* number of refreshes and clicks in any order.                            *)
THEOREM DescriptionsStayLive == WinSpec => []DescriptionsLive
<1>1. DescInv => DescriptionsLive
  <2> SUFFICES ASSUME DescInv, NEW o \in Desc
               PROVE  refs[o] > 0 <=> \/ o \in devs
                                      \/ \E k \in Task : on[k] = o /\ Active(k)
    BY DEF DescriptionsLive, Active
  <2>1. refs[o] = Cardinality(Users(o)) + (IF o \in devs THEN 1 ELSE 0)
    BY DEF DescInv, RefInv
  <2>2. IsFiniteSet(Users(o)) /\ Cardinality(Users(o)) \in Nat
    BY UsersAreFinite
  <2>3. Cardinality(Users(o)) = 0 <=> Users(o) = {}
    BY <2>2, FS_EmptySet
  <2>4. Users(o) # {} <=> \E k \in Task : on[k] = o /\ Active(k)
    BY DEF Users
  <2>5. QED
    BY <2>1, <2>2, <2>3, <2>4
<1>2. QED
  BY <1>1, DescInvHolds, PTL

(* The refresh button is disabled only while a refresh runs, for any       *)
(* number of refreshes.                                                    *)
THEOREM ButtonComesBackAlways == WinSpec => []ButtonComesBack
<1>1. WinInit => ButtonComesBack
  BY DEF WinInit, ButtonComesBack
<1>2. DescInv /\ ButtonComesBack /\ [WinNext]_winVars => ButtonComesBack'
  <2> SUFFICES ASSUME DescInv, ButtonComesBack, [WinNext]_winVars PROVE ButtonComesBack'
    OBVIOUS
  <2> USE DEF DescInv, PlainTypes, ButtonComesBack
  <2>1. ASSUME NEW r \in Refresh, StartRefresh(r) PROVE ButtonComesBack'
    BY <2>1 DEF StartRefresh
  <2>2. ASSUME NEW r \in Refresh, Answered(r) PROVE ButtonComesBack'
    <3>1. rpc' = [rpc EXCEPT ![r] = "answered"]
      BY <2>2 DEF Answered
    <3>2. QED
      BY <3>1
  <2>3. ASSUME NEW r \in Refresh, NothingFound(r) PROVE ButtonComesBack'
    BY <2>3 DEF NothingFound, RefreshDone
  <2>4. ASSUME NEW r \in Refresh, ShowList(r) PROVE ButtonComesBack'
    BY <2>4, ShowFrame
  <2>5. ASSUME NEW k \in Task, Works(k) PROVE ButtonComesBack'
    BY <2>5, WorkFrame
  <2>6. ASSUME NEW k \in Task, ControlDone(k) PROVE ButtonComesBack'
    BY <2>6 DEF ControlDone, refreshVars
  <2>7. ASSUME NEW k \in Task, NEW o \in Desc, Click(k, o) PROVE ButtonComesBack'
    BY <2>7 DEF Click, refreshVars
  <2>8. ASSUME NEW p \in Port, LosePort(p) PROVE ButtonComesBack'
    BY <2>8 DEF LosePort, refreshVars
  <2>9. CASE UNCHANGED winVars
    BY <2>9 DEF winVars, refreshVars
  <2>10. QED
    BY <2>1, <2>2, <2>3, <2>4, <2>5, <2>6, <2>7, <2>8, <2>9
    DEF WinNext, RefreshStep, TaskStep, Works
<1>3. QED
  BY <1>1, <1>2, DescInvHolds, PTL DEF WinSpec

-----------------------------------------------------------------------------
(* What the list shows.  All of this is of the devices that the window has *)
(* not lost track of.                                                      *)
Tracked(o)   == DevOf(o) \notin disturbed
Lacks(d)     == \A p \in Port : att[p] # d
HeldAs(d, q) == \A p \in Port : att[p] = d => p = q

(* A description between tasks: the device can be attached, or it says     *)
(* where the device is, if it still is anywhere.                           *)
Offers(o) == /\ label[o] = "Attach" /\ state[o] = TRUE /\ port[o] = NoPort
             /\ Lacks(DevOf(o))
Shows(o)  == /\ label[o] = "Detach" /\ state[o] = FALSE /\ port[o] \in Port
             /\ HeldAs(DevOf(o), port[o])

(* A description while task k is at work on it.                            *)
StageOf(k, o) ==
    /\ tpc[k] \in {"clicked", "returned"} => Offers(o) \/ Shows(o)
    /\ tpc[k] = "attach" => Offers(o)
    /\ tpc[k] \in {"label", "state", "port"} =>
         got[k] \in Port /\ HeldAs(DevOf(o), got[k])
    /\ tpc[k] \in {"state", "port"} => label[o] = "Detach"
    /\ tpc[k] = "port" => state[o] = FALSE
    /\ tpc[k] = "detach" => Shows(o)
    /\ tpc[k] \in {"unlabel", "unstate", "unport"} => Lacks(DevOf(o))
    /\ tpc[k] \in {"unstate", "unport"} => label[o] = "Attach"
    /\ tpc[k] = "unport" => state[o] = TRUE

(* Only one refresh has its descriptions in the list.                      *)
OneList == \A o, q \in devs : o[1] = q[1]

(* A device has one task at a time, which was started for its row.         *)
TaskInv ==
    /\ \A k, j \in Task : Active(k) /\ Active(j) /\ DevOf(on[k]) = DevOf(on[j])
                          /\ Tracked(on[k]) => k = j
    /\ \A k \in Task : Active(k) /\ Tracked(on[k]) => on[k] \in devs

(* An attached device has a row; a row is as its task or the last one left *)
(* it.                                                                     *)
RowInv ==
    /\ \A p \in Port : att[p] \in Dev \ disturbed => \E o \in devs : DevOf(o) = att[p]
    /\ \A o \in devs : Tracked(o) /\ (\A k \in Task : Active(k) => on[k] # o)
                          => Offers(o) \/ Shows(o)
    /\ \A k \in Task : Active(k) /\ Tracked(on[k]) => StageOf(k, on[k])

ListInv == OneList /\ TaskInv /\ RowInv

(* Of one device the list has one description.                             *)
LEMMA OneRow ==
    ASSUME PlainTypes, OneList
    PROVE  \A o, q \in devs : DevOf(o) = DevOf(q) => o = q
BY DEF OneList, DevOf, PlainTypes, Desc

(* What a task at work does to the ports and to its own description.       *)
LEMMA WorkOnRow ==
    ASSUME PlainTypes, NEW k \in Task, Works(k), StageOf(k, on[k]),
           DevOf(on[k]) \notin disturbed'
    PROVE  /\ StageOf(k, on[k])'
           /\ \A p \in Port : att'[p] \in {att[p], NoDev, DevOf(on[k])}
<1> DEFINE o == on[k]
           d == DevOf(on[k])
<1>0. o \in Desc /\ d \in Dev /\ on' = on
  BY WorkFrame DEF Desc, DevOf, PlainTypes
<1> USE DEF PlainTypes, Moves, descVars
<1>1. CASE Choose(k)
  <2>1. \/ tpc[k] = "clicked" /\ tpc'[k] = "attach" /\ label[o] = "Attach"
        \/ tpc[k] = "clicked" /\ tpc'[k] = "detach" /\ label[o] = "Detach"
    BY <1>0, <1>1 DEF Choose
  <2>2. UNCHANGED <<descVars, got, att>>
    BY <1>1 DEF Choose
  <2>3. QED
    BY <1>0, <2>1, <2>2 DEF StageOf, Offers, Shows, Lacks, HeldAs
<1>2. CASE Attach(k)
  <2>1. PICK p \in Port :
          /\ att' = [att EXCEPT ![p] = d]
          /\ Moves(k, "attach", "label") /\ got' = [got EXCEPT ![k] = p]
    BY <1>2 DEF Attach, Disturbs
  <2>2. Lacks(d)
    BY <2>1 DEF StageOf, Offers
  <2>3. \A q \in Port : att'[q] = d => q = p
    BY <2>1, <2>2 DEF Lacks
  <2>4. tpc'[k] = "label" /\ got'[k] = p
    BY <2>1
  <2>5. HeldAs(d, p)'
    BY <1>0, <2>3 DEF HeldAs, DevOf
  <2>6. StageOf(k, on[k])'
    BY <1>0, <2>4, <2>5 DEF StageOf
  <2>7. QED
    BY <2>1, <2>6
<1>3. CASE AttachFails(k)
  BY <1>0, <1>3 DEF AttachFails, StageOf, Offers, Shows, Lacks, HeldAs
<1>4. CASE SetLabel(k)
  BY <1>0, <1>4 DEF SetLabel, StageOf, Offers, Shows, Lacks, HeldAs
<1>5. CASE SetState(k)
  BY <1>0, <1>5 DEF SetState, StageOf, Offers, Shows, Lacks, HeldAs
<1>6. CASE SetPort(k)
  <2>1. CASE tpc[k] = "port"
    BY <1>0, <1>6, <2>1 DEF SetPort, StageOf, Offers, Shows, Lacks, HeldAs
  <2>2. CASE tpc[k] = "unport"
    BY <1>0, <1>6, <2>2 DEF SetPort, StageOf, Offers, Shows, Lacks, HeldAs
  <2>3. QED
    BY <1>6, <2>1, <2>2 DEF SetPort
<1>7. CASE Detach(k)
  <2>1. /\ tpc[k] = "detach" /\ tpc'[k] = "unlabel"
        /\ att' = [att EXCEPT ![port[o]] = NoDev]
    BY <1>7 DEF Detach
  <2>2. Shows(o)
    BY <2>1 DEF StageOf
  <2>3. \A p \in Port : att'[p] # d
    BY <1>0, <2>1, <2>2, PortNames DEF Shows, HeldAs
  <2>4. Lacks(DevOf(o))'
    BY <1>0, <2>3 DEF Lacks, DevOf
  <2>5. QED
    BY <1>0, <2>1, <2>4 DEF StageOf
<1>8. CASE DetachFails(k)
  BY <1>0, <1>8 DEF DetachFails, StageOf, Offers, Shows, Lacks, HeldAs
<1>9. CASE DetachNull(k)
  BY <1>0, <1>9, PortNames DEF DetachNull, StageOf, Offers, Shows, Lacks, HeldAs, taskVars
<1>10. QED
  BY <1>1, <1>2, <1>3, <1>4, <1>5, <1>6, <1>7, <1>8, <1>9 DEF Works

(* A description that nobody writes to, and whose device is nowhere it was *)
(* not, stays as it was.                                                   *)
LEMMA RowFrame ==
    ASSUME NEW o, NEW k \in Task,
           label'[o] = label[o], state'[o] = state[o], port'[o] = port[o],
           \A p \in Port : att'[p] = DevOf(o) => att[p] = DevOf(o)
    PROVE  /\ Offers(o) => Offers(o)'
           /\ Shows(o) => Shows(o)'
           /\ tpc'[k] = tpc[k] /\ got'[k] = got[k] /\ StageOf(k, o) => StageOf(k, o)'
<1>1. /\ Lacks(DevOf(o)) => Lacks(DevOf(o))'
      /\ \A q : HeldAs(DevOf(o), q) => HeldAs(DevOf(o), q)'
  BY DEF Lacks, HeldAs, DevOf
<1>2. Offers(o) => Offers(o)'
  BY <1>1 DEF Offers
<1>3. Shows(o) => Shows(o)'
  <2>1. HeldAs(DevOf(o), port[o]) => HeldAs(DevOf(o), port[o])'
    BY DEF HeldAs, DevOf
  <2>2. QED
    BY <2>1 DEF Shows
<1>4. tpc'[k] = tpc[k] /\ got'[k] = got[k] /\ StageOf(k, o) => StageOf(k, o)'
  <2>1. got'[k] = got[k] /\ HeldAs(DevOf(o), got[k]) => HeldAs(DevOf(o), got[k])'
    BY DEF HeldAs, DevOf
  <2>2. QED
    BY <1>1, <1>2, <1>3, <2>1 DEF StageOf
<1>5. QED
  BY <1>2, <1>3, <1>4

(* A task at work keeps the list true.                                     *)
LEMMA WorkKeepsList ==
    ASSUME PlainTypes, ListInv, NEW k \in Task, Works(k)
    PROVE  ListInv'
<1>1. /\ UNCHANGED <<devs, on>>
      /\ Active(k) /\ Active(k)'
      /\ \A j \in Task \ {k} : tpc'[j] = tpc[j] /\ got'[j] = got[j]
      /\ \A o \in Desc \ {on[k]} :
           label'[o] = label[o] /\ state'[o] = state[o] /\ port'[o] = port[o]
      /\ disturbed \subseteq disturbed'
  BY WorkFrame
<1>2. \A j \in Task : Active(j)' <=> Active(j)
  BY <1>1 DEF Active
<1>3. \A o : Tracked(o)' => Tracked(o)
  BY <1>1 DEF Tracked, DevOf
<1>4. OneList'
  BY <1>1 DEF OneList, ListInv
<1>5. TaskInv'
  BY <1>1, <1>2, <1>3 DEF TaskInv, ListInv, DevOf
<1>6. devs \subseteq Desc /\ on \in [Task -> Desc] /\ NoDev \notin Dev
  BY PortNames DEF PlainTypes
<1>7. \A p \in Port : att'[p] \in {att[p], NoDev, DevOf(on[k])}
  <2>1. \/ att' = att
        \/ \E p \in Port : att' = [att EXCEPT ![p] = DevOf(on[k])]
        \/ \E p : att' = [att EXCEPT ![p] = NoDev]
    BY DEF Works, Choose, Attach, AttachFails, SetLabel, SetState, SetPort, Detach,
           DetachFails, DetachNull
  <2>2. QED
    BY <2>1 DEF PlainTypes
<1>8. Tracked(on[k])' => Tracked(on[k]) /\ on[k] \in devs /\ StageOf(k, on[k])'
  <2>1. SUFFICES ASSUME Tracked(on[k])'
                 PROVE  Tracked(on[k]) /\ on[k] \in devs /\ StageOf(k, on[k])'
    OBVIOUS
  <2>2. DevOf(on[k]) \notin disturbed' /\ Tracked(on[k])
    BY <1>1, <2>1 DEF Tracked, DevOf
  <2>3. on[k] \in devs /\ StageOf(k, on[k])
    BY <1>1, <2>2 DEF ListInv, TaskInv, RowInv
  <2>4. QED
    BY <2>2, <2>3, WorkOnRow
<1>9. ASSUME NEW o \in Desc, Tracked(o)', DevOf(o) # DevOf(on[k]), NEW j \in Task
      PROVE  /\ Offers(o) => Offers(o)'
             /\ Shows(o) => Shows(o)'
             /\ j # k /\ StageOf(j, o) => StageOf(j, o)'
  <2>1. \A p \in Port : att'[p] = DevOf(o) => att[p] = DevOf(o)
    BY <1>6, <1>7, <1>9 DEF Desc, DevOf
  <2>2. label'[o] = label[o] /\ state'[o] = state[o] /\ port'[o] = port[o]
    BY <1>1, <1>9
  <2>3. j # k => tpc'[j] = tpc[j] /\ got'[j] = got[j]
    BY <1>1
  <2>4. QED
    BY <2>1, <2>2, <2>3, RowFrame
<1>10. ASSUME NEW p \in Port, att'[p] \in Dev \ disturbed'
       PROVE  \E o \in devs' : DevOf(o) = att'[p]
  <2>1. CASE att'[p] = att[p]
    BY <1>1, <1>10, <2>1 DEF ListInv, RowInv
  <2>2. CASE att'[p] = DevOf(on[k])
    <3>1. Tracked(on[k])'
      BY <1>1, <1>10, <2>2 DEF Tracked, DevOf
    <3>2. QED
      BY <1>1, <1>8, <2>2, <3>1
  <2>3. QED
    BY <1>6, <1>7, <1>10, <2>1, <2>2
<1>11. ASSUME NEW o \in devs', Tracked(o)', \A j \in Task : Active(j)' => on'[j] # o
       PROVE  Offers(o)' \/ Shows(o)'
  <2>1. o \in devs /\ o \in Desc /\ Tracked(o) /\ o # on[k]
    BY <1>1, <1>3, <1>6, <1>11
  <2>2. Offers(o) \/ Shows(o)
    BY <1>1, <1>2, <1>11, <2>1 DEF ListInv, RowInv
  <2>3. DevOf(o) # DevOf(on[k])
    <3>1. SUFFICES ASSUME DevOf(o) = DevOf(on[k]) PROVE FALSE
      OBVIOUS
    <3>2. Tracked(on[k])'
      BY <1>1, <1>11, <3>1 DEF Tracked, DevOf
    <3>3. QED
      BY <1>8, <2>1, <3>1, <3>2, OneRow DEF ListInv
  <2>4. QED
    BY <1>9, <1>11, <2>1, <2>2, <2>3
<1>12. ASSUME NEW j \in Task, Active(j)', Tracked(on[j])' PROVE StageOf(j, on[j])'
  <2>1. on'[j] = on[j] /\ on[j] \in Desc
    BY <1>1, <1>6
  <2>2. Tracked(on[j]) /\ DevOf(on[j]) \notin disturbed' /\ StageOf(j, on[j])
    BY <1>1, <1>2, <1>12, <2>1 DEF Tracked, DevOf, ListInv, RowInv
  <2>3. CASE j = k
    BY <1>8, <1>12, <2>3
  <2>4. CASE j # k
    <3>1. DevOf(on[j]) # DevOf(on[k])
      BY <1>1, <1>2, <1>12, <2>2, <2>4 DEF ListInv, TaskInv
    <3>2. \A p \in Port : att'[p] = DevOf(on[j]) => att[p] = DevOf(on[j])
      BY <1>6, <1>7, <2>1, <3>1 DEF Desc, DevOf
    <3>3. /\ label'[on[j]] = label[on[j]] /\ state'[on[j]] = state[on[j]]
          /\ port'[on[j]] = port[on[j]]
          /\ tpc'[j] = tpc[j] /\ got'[j] = got[j]
      BY <1>1, <2>1, <2>4, <3>1
    <3>4. QED
      BY <2>1, <2>2, <3>2, <3>3 DEF StageOf, Offers, Shows, Lacks, HeldAs, DevOf
  <2>5. QED
    BY <2>3, <2>4
<1>13. QED
  BY <1>4, <1>5, <1>10, <1>11, <1>12 DEF ListInv, RowInv

(* The list does not depend on the rest of the state.                      *)
LEMMA SameList ==
    ASSUME ListInv, UNCHANGED <<devs, descVars, taskVars, att, disturbed>>
    PROVE  ListInv'
<1> USE DEF descVars, taskVars, Tracked, DevOf, Active, Lacks, HeldAs, Offers, Shows
<1>1. OneList'
  BY DEF ListInv, OneList
<1>2. TaskInv'
  BY DEF ListInv, TaskInv
<1>3. \A k \in Task : StageOf(k, on[k]) => StageOf(k, on[k])'
  BY DEF StageOf
<1>4. RowInv'
  BY <1>3 DEF ListInv, RowInv
<1>5. QED
  BY <1>1, <1>2, <1>4 DEF ListInv

(* A task that ends leaves its row as a row without a task has to be.      *)
LEMMA DoneKeepsList ==
    ASSUME PlainTypes, ListInv, NEW k \in Task, ControlDone(k)
    PROVE  ListInv'
<1>1. /\ tpc[k] = "returned" /\ tpc' = [tpc EXCEPT ![k] = "done"]
      /\ UNCHANGED <<devs, descVars, on, got, att, disturbed>>
  BY DEF ControlDone, Moves
<1>2. \A j \in Task : Active(j)' <=> (Active(j) /\ j # k)
  BY <1>1 DEF Active, PlainTypes
<1>3. \A o : /\ Tracked(o)' = Tracked(o) /\ Offers(o)' = Offers(o) /\ Shows(o)' = Shows(o)
  BY <1>1 DEF Tracked, Offers, Shows, Lacks, HeldAs, DevOf, descVars
<1>4. OneList'
  BY <1>1 DEF ListInv, OneList
<1>5. TaskInv'
  <2>1. \A j \in Task : on'[j] = on[j] /\ DevOf(on[j])' = DevOf(on[j])
                        /\ Tracked(on[j])' = Tracked(on[j])
    BY <1>1 DEF DevOf, Tracked
  <2>2. QED
    BY <1>1, <1>2, <2>1 DEF ListInv, TaskInv
<1>6. ASSUME NEW o \in devs', Tracked(o)', \A j \in Task : Active(j)' => on'[j] # o
      PROVE  Offers(o)' \/ Shows(o)'
  <2>1. CASE on[k] = o
    BY <1>1, <1>3, <1>6, <2>1 DEF ListInv, RowInv, StageOf, Active
  <2>2. CASE on[k] # o
    BY <1>1, <1>2, <1>3, <1>6, <2>2 DEF ListInv, RowInv
  <2>3. QED
    BY <2>1, <2>2
<1>7. ASSUME NEW j \in Task, Active(j)', Tracked(on[j])' PROVE StageOf(j, on[j])'
  <2>1. Active(j) /\ j # k /\ Tracked(on[j])
    BY <1>1, <1>2, <1>7 DEF Tracked, DevOf
  <2>2. StageOf(j, on[j]) /\ tpc'[j] = tpc[j]
    BY <1>1, <2>1 DEF ListInv, RowInv, PlainTypes
  <2>3. QED
    BY <1>1, <2>2 DEF StageOf, Offers, Shows, Lacks, HeldAs, DevOf, descVars
<1>8. QED
  BY <1>1, <1>4, <1>5, <1>6, <1>7 DEF ListInv, RowInv, DevOf

(* A click finds the row as it has to be, or another task at work on it.   *)
LEMMA ClickKeepsList ==
    ASSUME PlainTypes, ListInv, NEW k \in Task, NEW q \in Desc, Click(k, q)
    PROVE  ListInv'
<1>1. /\ tpc[k] = "unborn" /\ tpc' = [tpc EXCEPT ![k] = "clicked"]
      /\ q \in devs /\ on' = [on EXCEPT ![k] = q]
      /\ UNCHANGED <<devs, descVars, got, att>>
      /\ disturbed' = disturbed \cup ({DevOf(q)} \cap Busy)
  BY DEF Click, Moves, Disturbs
<1>2. \A j \in Task : Active(j)' <=> (Active(j) \/ j = k)
  BY <1>1 DEF Active, PlainTypes
<1>3. /\ tpc'[k] = "clicked" /\ on'[k] = q /\ ~ Active(k)
      /\ \A j \in Task \ {k} : tpc'[j] = tpc[j] /\ on'[j] = on[j]
  BY <1>1 DEF PlainTypes, Active
<1>4. \A o : (Tracked(o)' => Tracked(o)) /\ Offers(o)' = Offers(o) /\ Shows(o)' = Shows(o)
  BY <1>1 DEF Tracked, Offers, Shows, Lacks, HeldAs, DevOf, descVars
<1>5. ASSUME NEW j \in Task, Active(j), DevOf(on[j]) = DevOf(q) PROVE ~ Tracked(q)'
  <2>1. DevOf(q) \in Busy
    BY <1>5 DEF Busy, Active
  <2>2. QED
    BY <1>1, <2>1 DEF Tracked, DevOf
<1>6. OneList'
  BY <1>1 DEF ListInv, OneList
<1>7. TaskInv'
  <2>1. ASSUME NEW i \in Task, NEW j \in Task, Active(i)', Active(j)',
               DevOf(on'[i]) = DevOf(on'[j]), DevOf(on'[i]) \notin disturbed'
        PROVE  i = j
    <3>1. CASE i = k /\ j # k
      <4>1. Active(j) /\ DevOf(on[j]) = DevOf(q)
        BY <1>2, <1>3, <2>1, <3>1
      <4>2. QED
        BY <1>3, <1>5, <2>1, <3>1, <4>1 DEF Tracked, DevOf
    <3>2. CASE j = k /\ i # k
      <4>1. Active(i) /\ DevOf(on[i]) = DevOf(q)
        BY <1>2, <1>3, <2>1, <3>2
      <4>2. QED
        BY <1>3, <1>5, <2>1, <3>2, <4>1 DEF Tracked, DevOf
    <3>3. CASE i # k /\ j # k
      <4>1. Active(i) /\ Active(j) /\ DevOf(on[i]) = DevOf(on[j]) /\ Tracked(on[i])
        BY <1>1, <1>2, <1>3, <2>1, <3>3 DEF Tracked
      <4>2. QED
        BY <4>1 DEF ListInv, TaskInv
    <3>4. QED
      BY <3>1, <3>2, <3>3
  <2>2. ASSUME NEW j \in Task, Active(j)', DevOf(on'[j]) \notin disturbed'
        PROVE  on'[j] \in devs'
    <3>1. CASE j = k
      BY <1>1, <1>3, <3>1
    <3>2. CASE j # k
      <4>1. Active(j) /\ Tracked(on[j])
        BY <1>1, <1>2, <1>3, <2>2, <3>2 DEF Tracked
      <4>2. QED
        BY <1>1, <1>3, <3>2, <4>1 DEF ListInv, TaskInv
    <3>3. QED
      BY <3>1, <3>2
  <2>3. QED
    BY <2>1, <2>2 DEF TaskInv, Tracked, DevOf
<1>8. ASSUME NEW p \in Port, att'[p] \in Dev \ disturbed'
      PROVE  \E o \in devs' : DevOf(o) = att'[p]
  BY <1>1, <1>8 DEF ListInv, RowInv
<1>9. ASSUME NEW o \in devs', Tracked(o)', \A j \in Task : Active(j)' => on'[j] # o
      PROVE  Offers(o)' \/ Shows(o)'
  <2>1. \A j \in Task : Active(j) => on[j] # o
    BY <1>2, <1>3, <1>9
  <2>2. QED
    BY <1>1, <1>4, <1>9, <2>1 DEF ListInv, RowInv
<1>10. ASSUME NEW j \in Task, Active(j)', Tracked(on[j])' PROVE StageOf(j, on[j])'
  <2>1. CASE j = k
    <3>1. Tracked(q)' /\ Tracked(q)
      BY <1>3, <1>4, <1>10, <2>1 DEF Tracked, DevOf
    <3>2. \A i \in Task : Active(i) => on[i] # q
      BY <1>5, <3>1
    <3>3. Offers(q) \/ Shows(q)
      BY <1>1, <3>1, <3>2 DEF ListInv, RowInv
    <3>4. Offers(on[k])' \/ Shows(on[k])'
      BY <1>1, <1>3, <3>3 DEF Offers, Shows, Lacks, HeldAs, DevOf, descVars
    <3>5. QED
      BY <1>3, <2>1, <3>4 DEF StageOf
  <2>2. CASE j # k
    <3>1. tpc'[j] = tpc[j] /\ on'[j] = on[j] /\ got'[j] = got[j] /\ Active(j)
      BY <1>1, <1>2, <1>3, <1>10, <2>2
    <3>2. Tracked(on[j])
      BY <1>1, <1>10, <3>1 DEF Tracked, DevOf
    <3>3. StageOf(j, on[j])
      BY <3>1, <3>2 DEF ListInv, RowInv
    <3>4. QED
      BY <1>1, <3>1, <3>3 DEF StageOf, Offers, Shows, Lacks, HeldAs, DevOf, descVars
  <2>3. QED
    BY <2>1, <2>2
<1>11. QED
  BY <1>6, <1>7, <1>8, <1>9, <1>10 DEF ListInv, RowInv, DevOf

(* A port that is lost is one that no description needs.                   *)
LEMMA LossKeepsList ==
    ASSUME PlainTypes, ListInv, NEW p \in Port, LosePort(p)
    PROVE  ListInv'
<1>1. att' = [att EXCEPT ![p] = NoDev] /\ UNCHANGED <<devs, descVars, taskVars, disturbed>>
  BY DEF LosePort
<1>2. NoDev \notin Dev /\ devs \subseteq Desc /\ on \in [Task -> Desc]
  BY PortNames DEF PlainTypes
<1>3. \A q \in Port : att'[q] \in {att[q], NoDev}
  BY <1>1 DEF PlainTypes
<1>4. OneList'
  BY <1>1 DEF ListInv, OneList
<1>5. TaskInv'
  BY <1>1 DEF ListInv, TaskInv, Active, Tracked, DevOf, taskVars
<1>6. ASSUME NEW q \in Port, att'[q] \in Dev \ disturbed'
      PROVE  \E o \in devs' : DevOf(o) = att'[q]
  BY <1>1, <1>2, <1>3, <1>6 DEF ListInv, RowInv
<1>7. ASSUME NEW o \in devs', Tracked(o)', \A j \in Task : Active(j)' => on'[j] # o
      PROVE  Offers(o)' \/ Shows(o)'
  <2>1. o \in devs /\ Tracked(o) /\ \A j \in Task : Active(j) => on[j] # o
    BY <1>1, <1>7 DEF Tracked, DevOf, Active, taskVars
  <2>2. Offers(o) \/ Shows(o)
    BY <2>1 DEF ListInv, RowInv
  <2>3. \A q \in Port : att'[q] = DevOf(o) => att[q] = DevOf(o)
    BY <1>2, <1>3, <2>1 DEF Desc, DevOf
  <2>4. QED
    BY <1>1, <2>2, <2>3 DEF Offers, Shows, Lacks, HeldAs, DevOf, descVars
<1>8. ASSUME NEW j \in Task, Active(j)', Tracked(on[j])' PROVE StageOf(j, on[j])'
  <2>1. on' = on /\ on[j] \in Desc /\ Active(j) /\ Tracked(on[j])
    BY <1>1, <1>2, <1>8 DEF Tracked, DevOf, Active, taskVars
  <2>2. StageOf(j, on[j])
    BY <2>1 DEF ListInv, RowInv
  <2>3. \A q \in Port : att'[q] = DevOf(on[j]) => att[q] = DevOf(on[j])
    BY <1>2, <1>3, <2>1 DEF Desc, DevOf
  <2>4. QED
    BY <1>1, <2>1, <2>2, <2>3
    DEF StageOf, Offers, Shows, Lacks, HeldAs, DevOf, descVars, taskVars
<1>9. QED
  BY <1>4, <1>5, <1>6, <1>7, <1>8 DEF ListInv, RowInv, DevOf

(* A new list shows what the old one did, of the devices it has and no     *)
(* task is at work on; of the others the window loses track.               *)
LEMMA ShowKeepsList ==
    ASSUME PlainTypes, FreshInv, ListInv, NEW r \in Refresh, ShowList(r)
    PROVE  ListInv'
<1>1. /\ rpc[r] = "answered" /\ UNCHANGED <<taskVars, att>>
      /\ devs' = {r} \X found[r]
      /\ disturbed' = disturbed \cup Busy \cup (Attached \ found[r])
      /\ found[r] \subseteq Dev
  BY ShowFrame DEF PlainTypes
<1>2. devs' \subseteq Desc /\ NoDev \notin Dev /\ devs \subseteq Desc
  BY <1>1, PortNames DEF Desc, PlainTypes
<1>3. \A j \in Task : Active(j) => DevOf(on[j]) \in disturbed'
  BY <1>1 DEF Busy, Active
<1>4. OneList'
  BY <1>1 DEF OneList
<1>5. \A j \in Task : Active(j)' => ~ Tracked(on[j])'
  BY <1>1, <1>3 DEF Tracked, Active, DevOf, taskVars
<1>6. TaskInv'
  BY <1>5 DEF TaskInv
<1>7. ASSUME NEW p \in Port, att'[p] \in Dev \ disturbed'
      PROVE  \E o \in devs' : DevOf(o) = att'[p]
  <2>1. att[p] \in Attached /\ att'[p] = att[p]
    BY <1>1, <1>2, <1>7 DEF Attached
  <2>2. att[p] \in found[r]
    BY <1>1, <1>7, <2>1
  <2>3. <<r, att[p]>> \in devs' /\ DevOf(<<r, att[p]>>) = att[p]
    BY <1>1, <2>2 DEF DevOf
  <2>4. QED
    BY <2>1, <2>3
<1>8. ASSUME NEW o \in devs', Tracked(o)' PROVE Offers(o)' \/ Shows(o)'
  <2>1. o \in Desc /\ o[1] = r /\ DevOf(o) \in Dev /\ DevOf(o) \notin disturbed'
    BY <1>1, <1>2, <1>8 DEF Tracked, DevOf, Desc
  <2>2. label[o] = "Attach" /\ state[o] = TRUE /\ port[o] = NoPort
    BY <1>1, <2>1 DEF FreshInv
  <2>3. ASSUME NEW q \in devs, DevOf(q) = DevOf(o)
        PROVE  q \in Same(o) /\ (Offers(q) \/ Shows(q))
    <3>1. q \in Same(o)
      BY <2>3 DEF Same
    <3>2. Tracked(q) /\ \A j \in Task : Active(j) => on[j] # q
      BY <1>1, <1>3, <2>1, <2>3 DEF Tracked
    <3>3. QED
      BY <3>1, <3>2 DEF ListInv, RowInv
  <2>4. CASE \A q \in Same(o) : state[q]
    <3>1. label'[o] = "Attach" /\ state'[o] = TRUE /\ port'[o] = NoPort
      BY <1>8, <2>1, <2>2, <2>4, ShowRows
    <3>2. ASSUME NEW p \in Port, att[p] = DevOf(o) PROVE FALSE
      <4>1. PICK q \in devs : DevOf(q) = DevOf(o)
        BY <1>1, <2>1, <3>2 DEF ListInv, RowInv
      <4>2. state[q] /\ (Offers(q) \/ Shows(q))
        BY <2>3, <2>4, <4>1
      <4>3. QED
        BY <3>2, <4>1, <4>2 DEF Offers, Shows, Lacks
    <3>3. QED
      BY <1>1, <3>1, <3>2 DEF Offers, Lacks, DevOf
  <2>5. CASE \E q \in Same(o) : ~ state[q]
    <3>1. PICK q \in Same(o) : ~ state[q] /\ port'[o] = port[q]
      BY <1>8, <2>1, <2>5, ShowRows
    <3>2. label'[o] = "Detach" /\ state'[o] = FALSE
      BY <1>8, <2>1, <2>5, ShowRows
    <3>3. q \in devs /\ DevOf(q) = DevOf(o)
      BY <3>1 DEF Same
    <3>4. Shows(q)
      BY <2>3, <3>1, <3>3 DEF Offers
    <3>5. QED
      BY <1>1, <3>1, <3>2, <3>3, <3>4 DEF Shows, HeldAs, DevOf
  <2>6. QED
    BY <2>4, <2>5
<1>9. QED
  BY <1>4, <1>5, <1>6, <1>7, <1>8 DEF ListInv, RowInv, DevOf

-----------------------------------------------------------------------------
(* The list is as described in every state.                                *)
LEMMA ListInvHolds == WinSpec => []ListInv
<1>1. WinInit => ListInv
  BY PortNames DEF WinInit, ListInv, OneList, TaskInv, RowInv, Active
<1>2. DescInv /\ ListInv /\ [WinNext]_winVars => ListInv'
  <2> SUFFICES ASSUME DescInv, ListInv, [WinNext]_winVars PROVE ListInv'
    OBVIOUS
  <2>0. PlainTypes /\ FreshInv
    BY DEF DescInv
  <2>1. ASSUME NEW r \in Refresh, StartRefresh(r) \/ Answered(r) \/ NothingFound(r)
        PROVE  ListInv'
    <3>1. UNCHANGED <<devs, descVars, taskVars, att, disturbed>>
      BY <2>1 DEF StartRefresh, Answered, NothingFound, RefreshDone
    <3>2. QED
      BY <3>1, SameList
  <2>2. ASSUME NEW r \in Refresh, ShowList(r) PROVE ListInv'
    BY <2>0, <2>2, ShowKeepsList
  <2>3. ASSUME NEW k \in Task, Works(k) PROVE ListInv'
    BY <2>0, <2>3, WorkKeepsList
  <2>4. ASSUME NEW k \in Task, ControlDone(k) PROVE ListInv'
    BY <2>0, <2>4, DoneKeepsList
  <2>5. ASSUME NEW k \in Task, NEW o \in Desc, Click(k, o) PROVE ListInv'
    BY <2>0, <2>5, ClickKeepsList
  <2>6. ASSUME NEW p \in Port, LosePort(p) PROVE ListInv'
    BY <2>0, <2>6, LossKeepsList
  <2>7. CASE UNCHANGED winVars
    BY <2>7, SameList DEF winVars
  <2>8. QED
    BY <2>1, <2>2, <2>3, <2>4, <2>5, <2>6, <2>7
    DEF WinNext, RefreshStep, TaskStep, Works
<1>3. QED
  BY <1>1, <1>2, DescInvHolds, PTL DEF WinSpec

(* An attached device the window has not lost track of is in the list with *)
(* its port and a button to detach it, through any number of refreshes     *)
(* and clicks.                                                             *)
THEOREM AttachedIsAlwaysShown == WinSpec => []AttachedIsShown
<1>1. DescInv /\ ListInv => AttachedIsShown
  <2> SUFFICES ASSUME DescInv, ListInv, NEW p \in Port,
                      att[p] \in Dev \ (disturbed \cup Busy)
               PROVE  \E o \in devs :
                         DevOf(o) = att[p] /\ label[o] = "Detach" /\ port[o] = p
    BY DEF AttachedIsShown
  <2>1. PICK o \in devs : DevOf(o) = att[p]
    BY DEF ListInv, RowInv
  <2>2. \A k \in Task : Active(k) => on[k] # o
    BY <2>1 DEF Busy, Active
  <2>3. Offers(o) \/ Shows(o)
    BY <2>1, <2>2 DEF ListInv, RowInv, Tracked
  <2>4. QED
    BY <2>1, <2>3 DEF Offers, Shows, Lacks, HeldAs
<1>2. QED
  BY <1>1, DescInvHolds, ListInvHolds, PTL

(* A detaching task knows its port, unless the window has lost track of    *)
(* the device.                                                             *)
THEOREM NoPortIsNull == WinSpec => []NoNullPort
<1>1. ListInv => NoNullPort
  <2> SUFFICES ASSUME ListInv, NEW k \in Task, tpc[k] = "detach", port[on[k]] = NoPort,
                      DevOf(on[k]) \notin disturbed
               PROVE  FALSE
    BY DEF NoNullPort
  <2>1. Shows(on[k])
    BY DEF ListInv, RowInv, Active, Tracked, StageOf
  <2>2. QED
    BY <2>1, PortNames DEF Shows
<1>2. QED
  BY <1>1, ListInvHolds, PTL
=============================================================================
