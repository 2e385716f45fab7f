------------------------------ MODULE AppWindow ------------------------------
(***************************************************************************)
(* The application's window (usbip_app_win.c): its list of descriptions    *)
(* (usb_desc.c), the refreshes that replace the list, and the tasks that   *)
(* attach and detach devices in threads.                                   *)
(*                                                                         *)
(* A task writes to the description it was started for, also when a        *)
(* refresh has meanwhile put another in its place; a description is the    *)
(* only place where the window keeps a device's port.  What a refresh      *)
(* finds is any set of devices here (see Discovery), and a call of         *)
(* attach_device or detach_port is its effect on the ports (UsbipImport).  *)
(***************************************************************************)
EXTENDS Naturals, FiniteSets

CONSTANTS Dev,        \* a node and a busid
          Refresh,    \* refreshes, each of which makes new descriptions
          Task,       \* clicks on the button of a row, a task each
          Port,       \* vhci ports
          NoPort,     \* a NULL port string
          NoDev       \* a port with nothing attached

Desc == Refresh \X Dev          \* the descriptions ever made
DevOf(o) == o[2]

ASSUME PortNames == NoPort \notin Port /\ NoDev \notin Dev
ASSUME TaskAssumption == IsFiniteSet(Task)

VARIABLES
    rpc,        \* rpc[r]: where a refresh stands
    nodes,      \* nodes[r]: its JSON object has an entry, maybe an empty list
    found,      \* found[r]: the devices of its JSON object
    sensitive,  \* button_add_dev can be clicked
    devs,       \* self->devs, a row for each
    refs,       \* refs[o]: references to a description
    label,      \* label[o]: "Attach" or "Detach", on the row's button
    state,      \* state[o]: TRUE when the device can be attached
    port,       \* port[o]: the port it is attached to, as the window knows it
    tpc,        \* tpc[k]: where a task stands
    on,         \* on[k]: the description it was started for
    got,        \* got[k]: what attach_device returned
    att,        \* att[p]: the device that the kernel has at port p
    crashed,    \* strlen was given a NULL port
    disturbed   \* history: see Disturbs

refreshVars == <<rpc, nodes, found, sensitive>>
descVars    == <<label, state, port>>
taskVars    == <<tpc, on, got>>
winVars     == <<refreshVars, devs, refs, descVars, taskVars, att, crashed, disturbed>>

TaskPC == {"unborn", "clicked", "attach", "label", "state", "port", "detach",
           "unlabel", "unstate", "unport", "returned", "done"}

WinTypeOK ==
    /\ rpc       \in [Refresh -> {"idle", "asking", "answered", "done"}]
    /\ nodes     \in [Refresh -> BOOLEAN]
    /\ found     \in [Refresh -> SUBSET Dev]
    /\ sensitive \in BOOLEAN
    /\ devs      \subseteq Desc
    /\ refs      \in [Desc -> Nat]
    /\ label     \in [Desc -> {"Attach", "Detach"}]
    /\ state     \in [Desc -> BOOLEAN]
    /\ port      \in [Desc -> Port \cup {NoPort}]
    /\ tpc       \in [Task -> TaskPC]
    /\ on        \in [Task -> Desc]
    /\ got       \in [Task -> Port \cup {NoPort}]
    /\ att       \in [Port -> Dev \cup {NoDev}]
    /\ crashed   \in BOOLEAN
    /\ disturbed \subseteq Dev

WinInit ==
    /\ rpc       = [r \in Refresh |-> "idle"]
    /\ nodes     = [r \in Refresh |-> FALSE]
    /\ found     = [r \in Refresh |-> {}]
    /\ sensitive = TRUE
    /\ devs      = {}
    /\ refs      = [o \in Desc |-> 0]
    /\ label     = [o \in Desc |-> "Attach"]
    /\ state     = [o \in Desc |-> TRUE]
    /\ port      = [o \in Desc |-> NoPort]
    /\ tpc       = [k \in Task |-> "unborn"]
    /\ on        \in {[k \in Task |-> o] : o \in Desc}     \* not yet assigned
    /\ got       = [k \in Task |-> NoPort]
    /\ att       = [p \in Port |-> NoDev]
    /\ crashed   = FALSE
    /\ disturbed = {}

Busy     == {DevOf(on[k]) : k \in {j \in Task : tpc[j] \notin {"unborn", "done"}}}
Attached == {att[p] : p \in Port} \ {NoDev}

(* The ways in which a device's row loses track of it.                     *)
Disturbs(ds) == disturbed' = disturbed \cup ds

-----------------------------------------------------------------------------
(* Refreshes.                                                              *)

(* usbip_app_win_refresh_list: by the button, at the start, and for every  *)
(* broadcast, also while another refresh is running.                       *)
StartRefresh(r) ==
    /\ rpc[r] = "idle"
    /\ rpc' = [rpc EXCEPT ![r] = "asking"]
    /\ sensitive' = FALSE
    /\ UNCHANGED <<nodes, found, devs, refs, descVars, taskVars, att, crashed, disturbed>>

(* refresh_list_thread: discover_get_json.                                 *)
Answered(r) ==
    /\ rpc[r] = "asking"
    /\ rpc' = [rpc EXCEPT ![r] = "answered"]
    /\ \E ds \in SUBSET Dev, any \in BOOLEAN :
         /\ ds # {} => any
         /\ found' = [found EXCEPT ![r] = ds]
         /\ nodes' = [nodes EXCEPT ![r] = any]
    /\ UNCHANGED <<sensitive, devs, refs, descVars, taskVars, att, crashed, disturbed>>

RefreshDone(r) ==
    /\ rpc[r] = "answered"
    /\ rpc' = [rpc EXCEPT ![r] = "done"]
    /\ sensitive' = TRUE
    /\ UNCHANGED <<nodes, found, taskVars, att, crashed>>

ReturnsEarly(r) ==           \* mutant: return in the place of goto done
    /\ rpc[r] = "answered" /\ ~nodes[r]
    /\ rpc' = [rpc EXCEPT ![r] = "done"]
    /\ UNCHANGED <<nodes, found, sensitive, devs, refs, descVars, taskVars, att, crashed, disturbed>>

(* No node sent a list: the old one stays.                                 *)
NothingFound(r) ==
    /\ ~nodes[r]
    /\ RefreshDone(r)
    /\ UNCHANGED <<devs, refs, descVars, disturbed>>

(* The old list's entries for the same address and busid.                  *)
Same(o) == {q \in devs : DevOf(q) = DevOf(o)}

ForgetsPort(r) ==            \* mutant: set_dev_state copies only the state
    LET new == {r} \X found[r]
        Was(o) == {q \in Same(o) : ~state[q]}
    IN  /\ nodes[r]
        /\ devs'  = new
        /\ refs'  = [o \in Desc |-> IF o \in new THEN 1
                                    ELSE IF o \in devs THEN refs[o] - 1 ELSE refs[o]]
        /\ state' = [o \in Desc |-> IF o \in new THEN Was(o) = {} ELSE state[o]]
        /\ label' = [o \in Desc |-> IF o \in new /\ Was(o) # {} THEN "Detach" ELSE label[o]]
        /\ Disturbs(Busy \cup (Attached \ found[r]))
        /\ RefreshDone(r)
        /\ UNCHANGED port

(* usbip_app_win_refresh_list_done: a new description for each device,     *)
(* with the state and port of the old one if that was attached; a row for  *)
(* each, and the old ones are released.                                    *)
ShowList(r) ==
    LET new == {r} \X found[r]
        Was(o) == {q \in Same(o) : ~state[q]}
    IN  /\ nodes[r]
        /\ devs'  = new
        /\ refs'  = [o \in Desc |-> IF o \in new THEN 1
                                    ELSE IF o \in devs THEN refs[o] - 1 ELSE refs[o]]
        /\ state' = [o \in Desc |-> IF o \in new THEN Was(o) = {} ELSE state[o]]
        /\ port'  = [o \in Desc |-> IF o \in new /\ Was(o) # {}
                                      THEN port[CHOOSE q \in Was(o) : TRUE] ELSE port[o]]
        /\ label' = [o \in Desc |-> IF o \in new /\ Was(o) # {} THEN "Detach" ELSE label[o]]
        /\ Disturbs(Busy \cup (Attached \ found[r]))
        /\ RefreshDone(r)

-----------------------------------------------------------------------------
(* Tasks.                                                                  *)

Moves(k, here, there) == tpc[k] = here /\ tpc' = [tpc EXCEPT ![k] = there]

ClickNoRef(k, o) ==          \* mutant: the task takes no reference
    /\ Moves(k, "unborn", "clicked") /\ o \in devs
    /\ on' = [on EXCEPT ![k] = o]
    /\ Disturbs({DevOf(o)} \cap Busy)
    /\ UNCHANGED <<refreshVars, devs, refs, descVars, got, att, crashed>>

(* usbip_state_changed.                                                    *)
Click(k, o) ==
    /\ Moves(k, "unborn", "clicked")
    /\ o \in devs
    /\ on'   = [on EXCEPT ![k] = o]
    /\ refs' = [refs EXCEPT ![o] = @ + 1]
    /\ Disturbs({DevOf(o)} \cap Busy)
    /\ UNCHANGED <<refreshVars, devs, descVars, got, att, crashed>>

(* usbip_device_control looks at the label.                                *)
Choose(k) ==
    /\ IF label[on[k]] = "Attach" THEN Moves(k, "clicked", "attach")
                                  ELSE Moves(k, "clicked", "detach")
    /\ UNCHANGED <<refreshVars, devs, refs, descVars, on, got, att, crashed, disturbed>>

(* attach_device.  The server exports a device once; after that,           *)
(* record_connection may still fail.                                       *)
Attach(k) ==
    LET d == DevOf(on[k])
    IN  /\ d \notin Attached
        /\ \E p \in {q \in Port : att[q] = NoDev} :
             /\ att' = [att EXCEPT ![p] = d]
             /\ \/ /\ Moves(k, "attach", "label")
                   /\ got' = [got EXCEPT ![k] = p]
                   /\ UNCHANGED disturbed
                \/ /\ Moves(k, "attach", "returned")
                   /\ Disturbs({d})
                   /\ UNCHANGED got
        /\ UNCHANGED <<refreshVars, devs, refs, descVars, on, crashed>>

AttachFails(k) ==
    /\ Moves(k, "attach", "returned")
    /\ UNCHANGED <<refreshVars, devs, refs, descVars, on, got, att, crashed, disturbed>>

LabelKept(k) ==              \* mutant: the row still says Detach afterwards
    /\ \/ Moves(k, "label", "state") /\ label' = [label EXCEPT ![on[k]] = "Detach"]
       \/ Moves(k, "unlabel", "unstate") /\ UNCHANGED label
    /\ UNCHANGED <<refreshVars, devs, refs, state, port, on, got, att, crashed, disturbed>>

(* The button's label, the state and the port, one after the other.        *)
SetLabel(k) ==
    /\ \/ Moves(k, "label", "state")     /\ label' = [label EXCEPT ![on[k]] = "Detach"]
       \/ Moves(k, "unlabel", "unstate") /\ label' = [label EXCEPT ![on[k]] = "Attach"]
    /\ UNCHANGED <<refreshVars, devs, refs, state, port, on, got, att, crashed, disturbed>>

SetState(k) ==
    /\ \/ Moves(k, "state", "port")     /\ state' = [state EXCEPT ![on[k]] = FALSE]
       \/ Moves(k, "unstate", "unport") /\ state' = [state EXCEPT ![on[k]] = TRUE]
    /\ UNCHANGED <<refreshVars, devs, refs, label, port, on, got, att, crashed, disturbed>>

SetPort(k) ==
    /\ \/ Moves(k, "port", "returned")   /\ port' = [port EXCEPT ![on[k]] = got[k]]
       \/ Moves(k, "unport", "returned") /\ port' = [port EXCEPT ![on[k]] = NoPort]
    /\ UNCHANGED <<refreshVars, devs, refs, label, state, on, got, att, crashed, disturbed>>

(* detach_port: whatever is attached there goes; nothing is no failure.    *)
Detach(k) ==
    LET p == port[on[k]]
    IN  /\ p # NoPort
        /\ Moves(k, "detach", "unlabel")
        /\ att' = [att EXCEPT ![p] = NoDev]
        /\ UNCHANGED <<refreshVars, devs, refs, descVars, on, got, crashed, disturbed>>

DetachFails(k) ==
    /\ port[on[k]] # NoPort
    /\ Moves(k, "detach", "returned")
    /\ UNCHANGED <<refreshVars, devs, refs, descVars, on, got, att, crashed, disturbed>>

DetachNull(k) ==
    /\ tpc[k] = "detach"
    /\ port[on[k]] = NoPort
    /\ crashed' = TRUE
    /\ UNCHANGED <<refreshVars, devs, refs, descVars, taskVars, att, disturbed>>

ReleasesTwice(k) ==          \* mutant: the callback releases its data, too
    /\ Moves(k, "returned", "done")
    /\ refs' = [refs EXCEPT ![on[k]] = @ - 2]
    /\ UNCHANGED <<refreshVars, devs, descVars, on, got, att, crashed, disturbed>>

(* usbip_device_control_done, and the task is released.                    *)
ControlDone(k) ==
    /\ Moves(k, "returned", "done")
    /\ refs' = [refs EXCEPT ![on[k]] = @ - 1]
    /\ UNCHANGED <<refreshVars, devs, descVars, on, got, att, crashed, disturbed>>

(* The server drops the connection: the port is free again.                *)
LosePort(p) ==
    /\ att[p] # NoDev
    /\ att' = [att EXCEPT ![p] = NoDev]
    /\ UNCHANGED <<refreshVars, devs, refs, descVars, taskVars, crashed, disturbed>>

-----------------------------------------------------------------------------
RefreshStep(r) == Answered(r) \/ NothingFound(r) \/ ShowList(r)

TaskStep(k) ==
    \/ Choose(k) \/ Attach(k) \/ AttachFails(k) \/ SetLabel(k) \/ SetState(k) \/ SetPort(k)
    \/ Detach(k) \/ DetachFails(k) \/ DetachNull(k) \/ ControlDone(k)

WinNext ==
    /\ ~crashed
    /\ \/ \E r \in Refresh : StartRefresh(r) \/ RefreshStep(r)
       \/ \E k \in Task : TaskStep(k) \/ \E o \in Desc : Click(k, o)
       \/ \E p \in Port : LosePort(p)

WinSpec == WinInit /\ [][WinNext]_winVars

-----------------------------------------------------------------------------
(* Properties.                                                             *)

(* An attached device is in the list, with its port and a button to detach *)
(* it, through any number of refreshes, once no task is at work on it.     *)
(* The rest is what the window does not track: a refresh displayed while   *)
(* the task was running or when the device's server did not answer, a      *)
(* second click before the first one's task was done, and a connection     *)
(* that could not be recorded.                                             *)
AttachedIsShown ==
    \A p \in Port :
        att[p] \in Dev \ (disturbed \cup Busy) =>
            \E o \in devs : DevOf(o) = att[p] /\ label[o] = "Detach" /\ port[o] = p

(* The window detaches a port it knows, unless it has lost track of one:   *)
(* the label that offers it and the port are written one after the other.  *)
NoNullPort ==
    \A k \in Task : tpc[k] = "detach" /\ port[on[k]] = NoPort => DevOf(on[k]) \in disturbed

(* A row's description lives as long as the row, a task's as long as the   *)
(* task, and no longer, also when a refresh replaces the list meanwhile.   *)
DescriptionsLive ==
    \A o \in Desc :
        refs[o] > 0 <=> \/ o \in devs
                        \/ \E k \in Task : on[k] = o /\ tpc[k] \notin {"unborn", "done"}

(* The button to refresh is disabled only while a refresh is running,      *)
(* whatever it finds and however many broadcasts start others meanwhile.   *)
ButtonComesBack == ~sensitive => \E r \in Refresh : rpc[r] \in {"asking", "answered"}
=============================================================================
