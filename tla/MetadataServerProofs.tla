----------------------- MODULE MetadataServerProofs -----------------------
(* Theorems about MetadataServer, for any sets of processes, devices and   *)
(* connections and any number of plugs.                                    *)
EXTENDS MetadataServer, TLAPS

(* A step of a reset moves its process on within the reset, or back to the *)
(* loop of get_devices, or, if it was killed, to its end.                  *)
LEMMA ResetShape ==
    ASSUME MetaTypeOK, NEW s \in Proc, ResetStep(s)
    PROVE  /\ pc[s] \in ResetPC
           /\ \E t \in ResetPC \cup {"next", "dying"} : pc' = [pc EXCEPT ![s] = t]
           /\ UNCHANGED <<present, killed, dev>>
  BY DEF MetaTypeOK, ResetStep, UnbindDevice, UnbindHost, DelBusid, Rebind, BindDevice,
         UnbindOther, AddBusid, BindUsbip, UndoBusid, WriteFails, Read, Write, ResetPC, kernelVars

(* What it does to the drivers and to the table of busids.                 *)
LEMMA ResetTyped ==
    ASSUME MetaTypeOK, NEW s \in Proc, ResetStep(s)
    PROVE  /\ KernelTypeOK'
           /\ faulty' \in [Proc -> SUBSET Dev]
<1> USE DEF MetaTypeOK, KernelTypeOK
<1>1. CASE UnbindDevice(s) \/ BindDevice(s)
  BY <1>1 DEF UnbindDevice, BindDevice, Read, kernelVars
<1>2. CASE UnbindHost(s) \/ UnbindOther(s)
  BY <1>2 DEF UnbindHost, UnbindOther, SetDriver, WriteFails, Write, Driver
<1>3. CASE Rebind(s)
  BY <1>3 DEF Rebind, SetDriver, WriteFails, Write, Driver
<1>4. CASE DelBusid(s) \/ AddBusid(s) \/ UndoBusid(s)
  BY <1>4 DEF DelBusid, AddBusid, UndoBusid, WriteFails, Write
<1>5. CASE BindUsbip(s)
  BY <1>5 DEF BindUsbip, WriteFails, Write, Driver
<1> QED
  BY <1>1, <1>2, <1>3, <1>4, <1>5 DEF ResetStep

(* The end of a process frees its port and its locals.                     *)
LEMMA EndsTyped ==
    ASSUME MetaTypeOK, NEW s \in Proc, Ends(s), UNCHANGED monitorVars
    PROVE  MetaTypeOK'
<1> USE DEF MetaTypeOK, KernelTypeOK
<1>1. port' \in Proc \cup {NoProc}
  BY DEF Ends
<1>2. conn' \in [Conn -> {"idle", "queued", "child", "got", "cut"}]
  BY DEF Ends
<1>3. /\ pc' \in [Proc -> ServerPC]
      /\ todo' \in [Proc -> SUBSET Dev]
      /\ list' \in [Proc -> SUBSET Dev]
      /\ faulty' \in [Proc -> SUBSET Dev]
  BY DEF Ends, ServerPC
<1> QED
  BY <1>1, <1>2, <1>3 DEF Ends, kernelVars, monitorVars

(* Every step of the servers, the clients, the monitor and the kernel      *)
(* keeps the types.                                                        *)
THEOREM MetaTypeCorrect == MetaSpec => []MetaTypeOK
<1>1. MetaInit => MetaTypeOK
  BY DEF MetaInit, MetaTypeOK, KernelInit, KernelTypeOK, ServerPC, Driver
<1>2. MetaTypeOK /\ [MetaNext]_metaVars => MetaTypeOK'
  <2> SUFFICES ASSUME MetaTypeOK, [MetaNext]_metaVars PROVE MetaTypeOK'
    OBVIOUS
  <2> USE DEF MetaTypeOK, KernelTypeOK
  <2>1. ASSUME NEW s \in Proc, Launch(s) \/ Exec(s) \/ ScanDone(s) PROVE MetaTypeOK'
    <3>1. pc' \in [Proc -> ServerPC]
      BY <2>1 DEF Launch, Exec, ScanDone, Moves, ServerPC
    <3> QED
      BY <2>1, <3>1 DEF Launch, Exec, ScanDone, Moves, kernelVars, scanVars, connVars, monitorVars
  <2>2. ASSUME NEW s \in Proc, Listen(s) PROVE MetaTypeOK'
    BY <2>2 DEF Listen, Moves, ServerPC, kernelVars, scanVars, connVars, monitorVars
  <2>3. ASSUME NEW s \in Proc, ListenFails(s) \/ DeviceGone(s) \/ Die(s) PROVE MetaTypeOK'
    BY <2>3, EndsTyped DEF ListenFails, DeviceGone, Die
  <2>4. ASSUME NEW s \in Proc, Enumerate(s) PROVE MetaTypeOK'
    BY <2>4 DEF Enumerate, Moves, ServerPC, kernelVars, connVars, monitorVars
  <2>5. ASSUME NEW s \in Proc, NextDevice(s) PROVE MetaTypeOK'
    <3>1. pc' \in [Proc -> ServerPC]
      BY <2>5 DEF NextDevice, Moves, ServerPC, ResetPC
    <3>2. todo' \in [Proc -> SUBSET Dev] /\ dev' \in [Proc -> Dev]
      BY <2>5 DEF NextDevice
    <3> QED
      BY <2>5, <3>1, <3>2 DEF NextDevice, Moves, kernelVars, connVars, monitorVars
  <2>6. ASSUME NEW s \in Proc, Reset(s) PROVE MetaTypeOK'
    <3>1. pc' \in [Proc -> ServerPC]
      BY <2>6, ResetShape DEF Reset, ServerPC
    <3>2. KernelTypeOK' /\ faulty' \in [Proc -> SUBSET Dev] /\ UNCHANGED <<killed, dev>>
      BY <2>6, ResetTyped, ResetShape DEF Reset
    <3> QED
      BY <2>6, <3>1, <3>2 DEF Reset, scanVars, connVars, monitorVars
  <2>7. ASSUME NEW s \in Proc, NEW c \in Conn, Accept(s, c) PROVE MetaTypeOK'
    BY <2>7 DEF Accept, resetVars, scanVars, monitorVars
  <2>8. ASSUME NEW c \in Conn, SendAll(c) \/ Connect(c) PROVE MetaTypeOK'
    BY <2>8 DEF SendAll, Connect, resetVars, scanVars, monitorVars
  <2>9. ASSUME NEW d \in Dev, HotPlug(d) PROVE MetaTypeOK'
    <3>1. KernelTypeOK' /\ faulty' \in [Proc -> SUBSET Dev]
      BY <2>9 DEF HotPlug, Plug, Unplug, Driver
    <3>2. UNCHANGED <<pc, killed, dev>> /\ plugs' \in Nat
      BY <2>9 DEF HotPlug, Plug, Unplug
    <3> QED
      BY <2>9, <3>1, <3>2 DEF HotPlug, scanVars, connVars, monitorVars
  <2>10. CASE ReceiveEvent \/ NothingToKill \/ StartFails \/ Broadcast
    BY <2>10 DEF ReceiveEvent, NothingToKill, StartFails, Broadcast, resetVars, scanVars, connVars
  <2>11. CASE Killall
    <3>1. conn' \in [Conn -> {"idle", "queued", "child", "got", "cut"}]
      BY <2>11 DEF Killall
    <3>2. killed' \subseteq Proc
      BY <2>11 DEF Killall, Servers
    <3> QED
      BY <2>11, <3>1, <3>2 DEF Killall, kernelVars, scanVars
  <2>12. ASSUME NEW s \in Proc, StartServer(s) PROVE MetaTypeOK'
    BY <2>12 DEF StartServer, Moves, ServerPC, kernelVars, scanVars, connVars
  <2>13. CASE UNCHANGED metaVars
    BY <2>13 DEF metaVars, resetVars, scanVars, connVars, monitorVars
  <2> QED
    BY <2>1, <2>2, <2>3, <2>4, <2>5, <2>6, <2>7, <2>8, <2>9, <2>10, <2>11, <2>12, <2>13
    DEF MetaNext, ServerStep, MonitorStep
<1> QED
  BY <1>1, <1>2, PTL DEF MetaSpec

-----------------------------------------------------------------------------
(* ResetExclusive.  The listening socket belongs to the one process that   *)
(* is past listen and has not ended, whether or not it was killed.         *)
PortInv == \A s \in Proc : pc[s] \in Listening <=> port = s

(* A process that ends gives the port up if it has it.                     *)
LEMMA EndsPort ==
    ASSUME MetaTypeOK, PortInv, NEW s \in Proc, Ends(s)
    PROVE  PortInv'
<1>1. port' = IF port = s THEN NoProc ELSE port
  BY DEF Ends
<1>2. pc' = [pc EXCEPT ![s] = "dead"] /\ "dead" \notin Listening
  BY DEF Ends, Listening, ResetPC
<1> QED
  BY <1>1, <1>2, NoProcAssumption DEF PortInv, MetaTypeOK

(* A process that goes on keeps what it has of the port.                   *)
LEMMA MovesPort ==
    ASSUME MetaTypeOK, PortInv, NEW s \in Proc, NEW t \in ServerPC,
           pc' = [pc EXCEPT ![s] = t], pc[s] \in Listening <=> t \in Listening, port' = port
    PROVE  PortInv'
  BY DEF PortInv, MetaTypeOK

(* The port has one owner at a time: the process past listen.              *)
LEMMA PortInvariant == MetaSpec => []PortInv
<1>1. MetaInit => PortInv
  BY NoProcAssumption DEF MetaInit, PortInv, Listening, ResetPC
<1>2. MetaTypeOK /\ PortInv /\ [MetaNext]_metaVars => PortInv'
  <2> SUFFICES ASSUME MetaTypeOK, PortInv, [MetaNext]_metaVars PROVE PortInv'
    OBVIOUS
  <2>1. ASSUME NEW s \in Proc, Launch(s) \/ Exec(s) \/ StartServer(s) PROVE PortInv'
    <3>1. \E t \in {"forked", "start", "dead"} : pc' = [pc EXCEPT ![s] = t]
      BY <2>1 DEF Launch, Exec, StartServer, Moves
    <3>2. pc[s] \in {"unborn", "forked"} /\ port' = port
      BY <2>1 DEF Launch, Exec, StartServer, Moves
    <3> QED
      BY <3>1, <3>2, MovesPort DEF ServerPC, Listening, ResetPC
  <2>2. ASSUME NEW s \in Proc, Listen(s) PROVE PortInv'
    <3>1. /\ port = NoProc /\ port' = s
          /\ pc' = [pc EXCEPT ![s] = "enumerate"]
      BY <2>2 DEF Listen, Moves
    <3> QED
      BY <3>1, NoProcAssumption DEF PortInv, MetaTypeOK, Listening
  <2>3. ASSUME NEW s \in Proc, ListenFails(s) \/ DeviceGone(s) \/ Die(s) PROVE PortInv'
    BY <2>3, EndsPort DEF ListenFails, DeviceGone, Die
  <2>4. ASSUME NEW s \in Proc, Enumerate(s) \/ NextDevice(s) \/ ScanDone(s) PROVE PortInv'
    <3>1. \E t \in {"next", "unbind_device", "serve"} : pc' = [pc EXCEPT ![s] = t]
      BY <2>4 DEF Enumerate, NextDevice, ScanDone, Moves
    <3>2. pc[s] \in {"enumerate", "next"} /\ port' = port
      BY <2>4 DEF Enumerate, NextDevice, ScanDone, Moves
    <3> QED
      BY <3>1, <3>2, MovesPort DEF ServerPC, Listening, ResetPC
  <2>5. ASSUME NEW s \in Proc, Reset(s) PROVE PortInv'
    <3>1. PICK t \in ResetPC \cup {"next", "dying"} : pc' = [pc EXCEPT ![s] = t]
      BY <2>5, ResetShape DEF Reset
    <3>2. pc[s] \in ResetPC /\ port' = port
      BY <2>5, ResetShape DEF Reset
    <3> QED
      BY <3>1, <3>2, MovesPort DEF ServerPC, Listening
  <2>6. ASSUME UNCHANGED <<pc, port>> PROVE PortInv'
    BY <2>6 DEF PortInv
  <2>7. ASSUME \/ \E s \in Proc, c \in Conn : Accept(s, c)
               \/ \E c \in Conn : SendAll(c) \/ Connect(c)
               \/ \E d \in Dev : HotPlug(d)
               \/ MonitorStep
               \/ UNCHANGED metaVars
        PROVE  UNCHANGED <<pc, port>>
    BY <2>7 DEF Accept, SendAll, Connect, HotPlug, Plug, Unplug, MonitorStep, ReceiveEvent,
       Killall, NothingToKill, StartFails, Broadcast, metaVars, resetVars
  <2> QED
    BY <2>1, <2>2, <2>3, <2>4, <2>5, <2>6, <2>7 DEF MetaNext, ServerStep
<1> QED
  BY <1>1, <1>2, MetaTypeCorrect, PTL DEF MetaSpec

(* At most one process resets devices, although a successor is started     *)
(* while its predecessor may not have ended.                               *)
THEOREM ResetsExclude == MetaSpec => []ResetExclusive
<1>1. PortInv => ResetExclusive
  BY DEF PortInv, ResetExclusive, Listening
<1> QED
  BY <1>1, PortInvariant, PTL

-----------------------------------------------------------------------------
(* BoundIsMatched.  While a process writes the busid, the device it writes *)
(* for is not bound to usbip-host, and nobody else can bind it.            *)
BusidPC == {"del_busid", "rebind", "add_busid", "bind_usbip", "undo_busid"}
BusidInv ==
    /\ BoundIsMatched
    /\ \A s \in Proc : pc[s] \in BusidPC => driver[dev[s]] # "usbip-host"

(* A reset keeps the driver and the table in agreement.                    *)
LEMMA ResetBusid ==
    ASSUME MetaTypeOK, BusidInv, NEW s \in Proc, ResetStep(s)
    PROVE  /\ BoundIsMatched'
           /\ pc'[s] \in BusidPC => driver'[dev[s]] # "usbip-host"
<1> USE DEF MetaTypeOK, KernelTypeOK, BusidInv, BoundIsMatched, BusidPC
<1>1. CASE UnbindDevice(s)
  BY <1>1 DEF UnbindDevice, Read, kernelVars
<1>2. CASE BindDevice(s)
  BY <1>2 DEF BindDevice, Read, kernelVars
<1>3. CASE UnbindHost(s) \/ UnbindOther(s)
  BY <1>3 DEF UnbindHost, UnbindOther, SetDriver, WriteFails, Write
<1>4. CASE Rebind(s)
  BY <1>4 DEF Rebind, SetDriver, WriteFails, Write
<1>5. CASE DelBusid(s)
  BY <1>5 DEF DelBusid, WriteFails, Write
<1>6. CASE AddBusid(s)
  BY <1>6 DEF AddBusid, WriteFails, Write
<1>7. CASE BindUsbip(s)
  BY <1>7 DEF BindUsbip, WriteFails, Write
<1>8. CASE UndoBusid(s)
  BY <1>8 DEF UndoBusid, WriteFails, Write
<1> QED
  BY <1>1, <1>2, <1>3, <1>4, <1>5, <1>6, <1>7, <1>8 DEF ResetStep

(* Every step keeps the driver and the table in agreement.                 *)
LEMMA BusidInvariant == MetaSpec => []BusidInv
<1>1. MetaInit => BusidInv
  BY DEF MetaInit, KernelInit, BusidInv, BoundIsMatched, BusidPC
<1>2. MetaTypeOK /\ ResetExclusive /\ BusidInv /\ [MetaNext]_metaVars => BusidInv'
  <2> SUFFICES ASSUME MetaTypeOK, ResetExclusive, BusidInv, [MetaNext]_metaVars
               PROVE  BusidInv'
    OBVIOUS
  <2> USE DEF MetaTypeOK, KernelTypeOK
  <2>1. ASSUME NEW s \in Proc, Reset(s) PROVE BusidInv'
    <3>1. /\ BoundIsMatched'
          /\ pc'[s] \in BusidPC => driver'[dev[s]] # "usbip-host"
      BY <2>1, ResetBusid DEF Reset
    <3>2. /\ pc[s] \in ResetPC
          /\ \E t \in ResetPC \cup {"next", "dying"} : pc' = [pc EXCEPT ![s] = t]
          /\ dev' = dev
      BY <2>1, ResetShape DEF Reset
    <3>3. ASSUME NEW t \in Proc, t # s PROVE pc'[t] \notin BusidPC
      BY <3>2, <3>3 DEF ResetExclusive, ResetPC, BusidPC
    <3> QED
      BY <3>1, <3>2, <3>3 DEF BusidInv
  <2>2. ASSUME NEW d \in Dev, HotPlug(d) PROVE BusidInv'
    BY <2>2 DEF HotPlug, Plug, Unplug, BusidInv, BoundIsMatched
  <2>3. ASSUME UNCHANGED <<driver, matched>>,
               \A s \in Proc : pc'[s] \in BusidPC => pc[s] \in BusidPC /\ dev'[s] = dev[s]
        PROVE  BusidInv'
    BY <2>3 DEF BusidInv, BoundIsMatched
  <2>4. ASSUME NEW s \in Proc,
               \/ Launch(s) \/ Exec(s) \/ Listen(s) \/ Enumerate(s) \/ NextDevice(s)
               \/ ScanDone(s) \/ StartServer(s)
        PROVE  BusidInv'
    <3>1. UNCHANGED <<driver, matched>>
      BY <2>4 DEF Launch, Exec, Listen, Enumerate, NextDevice, ScanDone, StartServer, Moves,
         kernelVars
    <3>2. \E t \in ServerPC \ BusidPC : pc' = [pc EXCEPT ![s] = t]
      BY <2>4 DEF Launch, Exec, Listen, Enumerate, NextDevice, ScanDone, StartServer, Moves,
         ServerPC, ResetPC, BusidPC
    <3>3. \A t \in Proc : t # s => dev'[t] = dev[t]
      BY <2>4 DEF Launch, Exec, Listen, Enumerate, NextDevice, ScanDone, StartServer
    <3> QED
      BY <2>3, <3>1, <3>2, <3>3
  <2>5. ASSUME NEW s \in Proc, ListenFails(s) \/ DeviceGone(s) \/ Die(s) PROVE BusidInv'
    <3>1. UNCHANGED <<driver, matched, dev>> /\ pc' = [pc EXCEPT ![s] = "dead"]
      BY <2>5 DEF ListenFails, DeviceGone, Die, Ends, kernelVars
    <3> QED
      BY <2>3, <3>1 DEF BusidPC
  <2>6. ASSUME \/ \E s \in Proc, c \in Conn : Accept(s, c)
               \/ \E c \in Conn : SendAll(c) \/ Connect(c)
               \/ MonitorStep
               \/ UNCHANGED metaVars
        PROVE  UNCHANGED <<driver, matched, pc, dev>>
    BY <2>6 DEF Accept, SendAll, Connect, MonitorStep, ReceiveEvent, Killall, NothingToKill,
       StartFails, Broadcast, metaVars, resetVars, kernelVars
  <2> QED
    BY <2>1, <2>2, <2>3, <2>4, <2>5, <2>6 DEF MetaNext, ServerStep
<1> QED
  BY <1>1, <1>2, MetaTypeCorrect, ResetsExclude, PTL DEF MetaSpec

(* A device bound to usbip-host is registered with it, wherever resets     *)
(* were cut short.                                                         *)
THEOREM DriverAgreesWithTable == MetaSpec => []BoundIsMatched
<1>1. BusidInv => BoundIsMatched
  BY DEF BusidInv
<1> QED
  BY <1>1, BusidInvariant, PTL

-----------------------------------------------------------------------------
(* ListIsFresh.  A server that is not marked for death enumerated after    *)
(* the last event broadcast, and after the one about to be; a connection   *)
(* that waits was promised no more than that.                              *)
Enumerated == {"next", "serve"} \cup ResetPC

FreshInv ==
    /\ announced <= seen /\ seen <= plugs
    /\ \A s \in Proc \ killed : pc[s] \in Enumerated =>
           /\ asOf[s] >= announced
           /\ mpc \in {"start", "broadcast"} => asOf[s] >= seen
    /\ \A c \in Conn : /\ conn[c] = "queued" => promise[c] <= announced
                       /\ conn[c] \in {"child", "got"} => have[c] >= promise[c]

(* A connection's state may only be cut.                                   *)
LEMMA CutKeepsFresh ==
    ASSUME MetaTypeOK, FreshInv, killed \subseteq killed',
           \A s \in Proc \ killed' : pc'[s] \in Enumerated => pc[s] \in Enumerated,
           \A c \in Conn : conn'[c] \in {conn[c], "cut"},
           UNCHANGED <<asOf, have, promise, mpc, seen, announced, plugs>>
    PROVE  FreshInv'
  BY DEF FreshInv, MetaTypeOK

(* Every step keeps lists and promises in order.                           *)
LEMMA FreshInvariant == MetaSpec => []FreshInv
<1>1. MetaInit => FreshInv
  BY DEF MetaInit, FreshInv, Enumerated, ResetPC
<1>2. MetaTypeOK /\ FreshInv /\ [MetaNext]_metaVars => FreshInv'
  <2> SUFFICES ASSUME MetaTypeOK, FreshInv, [MetaNext]_metaVars PROVE FreshInv'
    OBVIOUS
  <2> USE DEF MetaTypeOK
  <2>1. ASSUME NEW s \in Proc, Launch(s) \/ Exec(s) \/ Listen(s) PROVE FreshInv'
    <3>1. \E t \in {"start", "dead", "enumerate"} : pc' = [pc EXCEPT ![s] = t]
      BY <2>1 DEF Launch, Exec, Listen, Moves
    <3>2. UNCHANGED <<killed, conn, asOf, have, promise, mpc, seen, announced, plugs>>
      BY <2>1 DEF Launch, Exec, Listen, Moves, scanVars, connVars, monitorVars
    <3> QED
      BY <3>1, <3>2, CutKeepsFresh DEF Enumerated, ResetPC
  <2>2. ASSUME NEW s \in Proc, NextDevice(s) \/ ScanDone(s) PROVE FreshInv'
    <3>1. pc[s] = "next" /\ \E t \in {"unbind_device", "serve"} : pc' = [pc EXCEPT ![s] = t]
      BY <2>2 DEF NextDevice, ScanDone, Moves
    <3>2. UNCHANGED <<killed, conn, asOf, have, promise, mpc, seen, announced, plugs>>
      BY <2>2 DEF NextDevice, ScanDone, Moves, scanVars, connVars, monitorVars
    <3> QED
      BY <3>1, <3>2, CutKeepsFresh DEF Enumerated
  <2>3. ASSUME NEW s \in Proc, ListenFails(s) \/ DeviceGone(s) \/ Die(s) PROVE FreshInv'
    <3>1. pc' = [pc EXCEPT ![s] = "dead"] /\ UNCHANGED <<killed, asOf, have, promise, plugs>>
      BY <2>3 DEF ListenFails, DeviceGone, Die, Ends
    <3>2. \A c \in Conn : conn'[c] \in {conn[c], "cut"}
      BY <2>3 DEF ListenFails, DeviceGone, Die, Ends
    <3>3. UNCHANGED <<mpc, seen, announced>>
      BY <2>3 DEF ListenFails, DeviceGone, Die, monitorVars
    <3> QED
      BY <3>1, <3>2, <3>3, CutKeepsFresh DEF Enumerated, ResetPC
  <2>4. ASSUME NEW s \in Proc, Enumerate(s) PROVE FreshInv'
    <3>1. asOf' = [asOf EXCEPT ![s] = plugs] /\ pc' = [pc EXCEPT ![s] = "next"]
      BY <2>4 DEF Enumerate, Moves
    <3>2. UNCHANGED <<killed, conn, have, promise, mpc, seen, announced, plugs>>
      BY <2>4 DEF Enumerate, Moves, connVars, monitorVars
    <3>3. plugs >= announced /\ plugs >= seen
      BY DEF FreshInv
    <3> QED
      BY <3>1, <3>2, <3>3 DEF FreshInv
  <2>5. ASSUME NEW s \in Proc, Reset(s) PROVE FreshInv'
    <3>1. pc[s] \in ResetPC /\ \E t \in ServerPC : pc' = [pc EXCEPT ![s] = t]
      BY <2>5, ResetShape DEF Reset, ServerPC
    <3>2. UNCHANGED <<killed, conn, asOf, have, promise, mpc, seen, announced, plugs>>
      BY <2>5, ResetShape DEF Reset, scanVars, connVars, monitorVars
    <3> QED
      BY <3>1, <3>2, CutKeepsFresh DEF Enumerated
  <2>6. ASSUME NEW s \in Proc, NEW c \in Conn, Accept(s, c) PROVE FreshInv'
    <3>1. UNCHANGED <<pc, killed, asOf, promise, mpc, seen, announced, plugs>>
      BY <2>6 DEF Accept, resetVars, scanVars, monitorVars
    <3>2. asOf[s] >= announced /\ promise[c] <= announced
      BY <2>6 DEF Accept, FreshInv, Enumerated
    <3>3. asOf[s] >= promise[c]
      BY <3>2
    <3>4. CASE conn' = [conn EXCEPT ![c] = "child"] /\ have' = [have EXCEPT ![c] = asOf[s]]
      BY <3>1, <3>3, <3>4 DEF FreshInv
    <3>5. CASE conn' = [conn EXCEPT ![c] = "cut"] /\ have' = have
      BY <3>1, <3>5, CutKeepsFresh
    <3> QED
      BY <2>6, <3>4, <3>5 DEF Accept
  <2>7. ASSUME NEW c \in Conn, SendAll(c) PROVE FreshInv'
    <3>1. UNCHANGED <<pc, killed, asOf, have, promise, mpc, seen, announced, plugs>>
      BY <2>7 DEF SendAll, resetVars, scanVars, monitorVars
    <3>2. conn[c] = "child" /\ \E r \in {"got", "cut"} : conn' = [conn EXCEPT ![c] = r]
      BY <2>7 DEF SendAll
    <3> QED
      BY <3>1, <3>2 DEF FreshInv
  <2>8. ASSUME NEW c \in Conn, Connect(c) PROVE FreshInv'
    <3>1. UNCHANGED <<pc, killed, asOf, have, mpc, seen, announced, plugs>>
      BY <2>8 DEF Connect, resetVars, scanVars, monitorVars
    <3>2. /\ conn' = [conn EXCEPT ![c] = "queued"]
          /\ promise' = [promise EXCEPT ![c] = announced]
      BY <2>8 DEF Connect
    <3> QED
      BY <3>1, <3>2 DEF FreshInv
  <2>9. ASSUME NEW d \in Dev, HotPlug(d) PROVE FreshInv'
    <3>1. UNCHANGED <<pc, killed, asOf, conn, have, promise, mpc, seen, announced>>
      BY <2>9 DEF HotPlug, Plug, Unplug, scanVars, connVars, monitorVars
    <3>2. plugs' = plugs + 1
      BY <2>9 DEF HotPlug
    <3> QED
      BY <3>1, <3>2 DEF FreshInv
  <2>10. CASE ReceiveEvent
    <3>1. UNCHANGED <<pc, killed, asOf, conn, have, promise, announced, plugs>>
      BY <2>10 DEF ReceiveEvent, resetVars, scanVars, connVars
    <3>2. mpc' = "killall" /\ seen' = plugs
      BY <2>10 DEF ReceiveEvent
    <3> QED
      BY <3>1, <3>2 DEF FreshInv
  <2>11. CASE Killall
    <3>1. UNCHANGED <<pc, asOf, have, promise, seen, announced, plugs>>
      BY <2>11 DEF Killall, scanVars
    <3>2. killed' = killed \cup Servers /\ \A c \in Conn : conn'[c] \in {conn[c], "cut"}
      BY <2>11 DEF Killall
    <3>3. \A s \in Proc \ killed' : pc'[s] \notin Enumerated
      BY <3>1, <3>2 DEF Servers, Running, Listening, Enumerated
    <3> QED
      BY <3>1, <3>2, <3>3 DEF FreshInv
  <2>12. CASE NothingToKill \/ StartFails
    <3>1. UNCHANGED <<pc, killed, asOf, conn, have, promise, seen, announced, plugs>>
      BY <2>12 DEF NothingToKill, StartFails, resetVars, scanVars, connVars
    <3>2. mpc' = "wait"
      BY <2>12 DEF NothingToKill, StartFails
    <3> QED
      BY <3>1, <3>2 DEF FreshInv
  <2>13. ASSUME NEW s \in Proc, StartServer(s) PROVE FreshInv'
    <3>1. UNCHANGED <<killed, asOf, conn, have, promise, seen, announced, plugs>>
      BY <2>13 DEF StartServer, Moves, scanVars, connVars
    <3>2. mpc = "start" /\ mpc' = "broadcast" /\ pc' = [pc EXCEPT ![s] = "forked"]
      BY <2>13 DEF StartServer, Moves
    <3> QED
      BY <3>1, <3>2 DEF FreshInv, Enumerated, ResetPC
  <2>14. CASE Broadcast
    <3>1. UNCHANGED <<pc, killed, asOf, conn, have, promise, seen, plugs>>
      BY <2>14 DEF Broadcast, resetVars, scanVars, connVars
    <3>2. CASE mpc = "broadcast" /\ mpc' = "wait" /\ announced' = seen
      <4>1. \A s \in Proc \ killed : pc[s] \in Enumerated => asOf[s] >= seen
        BY <3>2 DEF FreshInv
      <4>2. \A c \in Conn : conn[c] = "queued" => promise[c] <= seen
        BY DEF FreshInv
      <4> QED
        BY <3>1, <3>2, <4>1, <4>2 DEF FreshInv
    <3>3. CASE mpc' = "dead" /\ announced' = announced
      BY <3>1, <3>3 DEF FreshInv
    <3> QED
      BY <2>14, <3>2, <3>3 DEF Broadcast
  <2>15. CASE UNCHANGED metaVars
    BY <2>15, CutKeepsFresh DEF metaVars, resetVars, scanVars, connVars, monitorVars
  <2> QED
    BY <2>1, <2>2, <2>3, <2>4, <2>5, <2>6, <2>7, <2>8, <2>9, <2>10, <2>11, <2>12, <2>13,
       <2>14, <2>15 DEF MetaNext, ServerStep, MonitorStep
<1> QED
  BY <1>1, <1>2, MetaTypeCorrect, PTL DEF MetaSpec

(* A client that connects after the broadcast of an event never gets the   *)
(* whole of a list that was made before the event.                         *)
THEOREM ListsAreFresh == MetaSpec => []ListIsFresh
<1>1. FreshInv => ListIsFresh
  BY DEF FreshInv, ListIsFresh
<1> QED
  BY <1>1, FreshInvariant, PTL

-----------------------------------------------------------------------------
(* ServedIsBound.  Of the devices a server enumerated, those it is done    *)
(* with are bound, or faulty, or none of its business.                     *)
Current(s) == IF pc[s] \in ResetPC THEN {dev[s]} ELSE {}
Open(s)    == todo[s] \cup faulty[s] \cup Imported \cup Current(s)

DoneInv(s) ==
    pc[s] \in Enumerated =>
        /\ todo[s] \subseteq list[s] /\ Current(s) \subseteq list[s]
        /\ list[s] \subseteq present \cup faulty[s]
        /\ pc[s] = "undo_busid" => dev[s] \in faulty[s]
        /\ pc[s] = "serve" => todo[s] = {}
        /\ \A d \in list[s] \ Open(s) : driver[d] = "usbip-host"

ServedInv == \A s \in Proc : DoneInv(s)

(* What a step of a reset does to its device, and that it leaves the other *)
(* devices alone.                                                          *)
LEMMA ResetOutcome ==
    ASSUME MetaTypeOK, NEW s \in Proc, ResetStep(s),
           dev[s] \in present \cup faulty[s],
           pc[s] = "undo_busid" => dev[s] \in faulty[s]
    PROVE  /\ \A d \in Dev \ {dev[s]} : /\ driver'[d] = driver[d]
                                        /\ d \in faulty'[s] <=> d \in faulty[s]
           /\ dev[s] \in present \cup faulty'[s]
           /\ pc'[s] = "undo_busid" => dev[s] \in faulty'[s]
           /\ pc'[s] = "next" => \/ dev[s] \in faulty'[s] \cup Imported
                                 \/ driver'[dev[s]] = "usbip-host"
<1> USE DEF MetaTypeOK, KernelTypeOK
<1>1. CASE UnbindDevice(s)
  BY <1>1 DEF UnbindDevice, Read, kernelVars
<1>2. CASE BindDevice(s)
  BY <1>2 DEF BindDevice, Read, kernelVars
<1>3. CASE UnbindHost(s) \/ UnbindOther(s)
  BY <1>3 DEF UnbindHost, UnbindOther, SetDriver, WriteFails, Write
<1>4. CASE Rebind(s)
  BY <1>4 DEF Rebind, SetDriver, WriteFails, Write
<1>5. CASE DelBusid(s)
  BY <1>5 DEF DelBusid, WriteFails, Write
<1>6. CASE AddBusid(s)
  BY <1>6 DEF AddBusid, WriteFails, Write
<1>7. CASE BindUsbip(s)
  BY <1>7 DEF BindUsbip, WriteFails, Write
<1>8. CASE UndoBusid(s)
  BY <1>8 DEF UndoBusid, WriteFails, Write
<1> QED
  BY <1>1, <1>2, <1>3, <1>4, <1>5, <1>6, <1>7, <1>8 DEF ResetStep

(* A reset is done with a device only when that is bound, faulty or        *)
(* attached through vhci_hcd.                                              *)
LEMMA ResetDone ==
    ASSUME MetaTypeOK, NEW s \in Proc, DoneInv(s), ResetStep(s), UNCHANGED <<todo, list>>
    PROVE  DoneInv(s)'
<1> USE DEF MetaTypeOK
<1>1. /\ todo[s] \subseteq list[s] /\ dev[s] \in list[s] /\ list[s] \subseteq Dev
      /\ list[s] \subseteq present \cup faulty[s]
      /\ pc[s] = "undo_busid" => dev[s] \in faulty[s]
      /\ \A d \in list[s] \ (todo[s] \cup faulty[s] \cup Imported \cup {dev[s]}) :
             driver[d] = "usbip-host"
  BY ResetShape DEF DoneInv, Enumerated, Current, Open
<1>2. /\ \E t \in ResetPC \cup {"next", "dying"} : pc' = [pc EXCEPT ![s] = t]
      /\ UNCHANGED <<present, dev>>
  BY ResetShape
<1>3. /\ \A d \in Dev \ {dev[s]} : /\ driver'[d] = driver[d]
                                   /\ d \in faulty'[s] <=> d \in faulty[s]
      /\ dev[s] \in present \cup faulty'[s]
      /\ pc'[s] = "undo_busid" => dev[s] \in faulty'[s]
      /\ pc'[s] = "next" => \/ dev[s] \in faulty'[s] \cup Imported
                            \/ driver'[dev[s]] = "usbip-host"
  BY <1>1, ResetOutcome
<1>4. list[s] \subseteq present' \cup faulty'[s]
  BY <1>1, <1>2, <1>3
<1>5. pc'[s] # "serve" /\ Current(s)' \subseteq list[s]
  BY <1>1, <1>2 DEF ResetPC, Current
<1>6. ASSUME pc'[s] \in Enumerated, NEW d \in list[s] \ Open(s)'
      PROVE  driver'[d] = "usbip-host"
  <2>1. d \notin todo[s] \cup faulty'[s] \cup Imported
    BY DEF Open
  <2>2. CASE d = dev[s]
    <3>1. pc'[s] \notin ResetPC
      BY <1>2, <2>2 DEF Open, Current
    <3>2. pc'[s] = "next"
      BY <1>5, <1>6, <3>1 DEF Enumerated
    <3> QED
      BY <1>3, <2>1, <2>2, <3>2
  <2>3. CASE d # dev[s]
    BY <1>1, <1>3, <2>1, <2>3
  <2> QED
    BY <2>2, <2>3
<1>7. dev' = dev
  BY <1>2
<1> QED
  BY <1>1, <1>3, <1>4, <1>5, <1>6, <1>7 DEF DoneInv

(* A step that leaves a server's scan and the drivers alone.               *)
LEMMA DoneStays ==
    ASSUME NEW s \in Proc, DoneInv(s), pc'[s] = pc[s],
           UNCHANGED <<present, driver>>,
           dev'[s] = dev[s], todo'[s] = todo[s], list'[s] = list[s], faulty'[s] = faulty[s]
    PROVE  DoneInv(s)'
  BY DEF DoneInv, Open, Current

(* Every step of the system keeps what a server is done with bound.        *)
LEMMA ServedInvariant == MetaSpec => []ServedInv
<1>1. MetaInit => ServedInv
  BY DEF MetaInit, ServedInv, DoneInv, Enumerated, ResetPC
<1>2. MetaTypeOK /\ PortInv /\ ServedInv /\ [MetaNext]_metaVars => ServedInv'
  <2> SUFFICES ASSUME MetaTypeOK, PortInv, ServedInv, [MetaNext]_metaVars, NEW t \in Proc
               PROVE  DoneInv(t)'
    BY DEF ServedInv
  <2>0. DoneInv(t)
    BY DEF ServedInv
  <2> USE DEF MetaTypeOK, KernelTypeOK
  <2>1. ASSUME NEW s \in Proc, Launch(s) \/ Exec(s) \/ Listen(s) \/ StartServer(s)
        PROVE  DoneInv(t)'
    <3>1. \E u \in {"start", "dead", "enumerate", "forked"} : pc' = [pc EXCEPT ![s] = u]
      BY <2>1 DEF Launch, Exec, Listen, StartServer, Moves
    <3>2. UNCHANGED <<present, driver, dev, todo, list, faulty>>
      BY <2>1 DEF Launch, Exec, Listen, StartServer, Moves, kernelVars, scanVars
    <3>3. CASE s = t
      BY <3>1, <3>3 DEF DoneInv, Enumerated, ResetPC
    <3>4. CASE s # t
      BY <2>0, <3>1, <3>2, <3>4, DoneStays
    <3> QED
      BY <3>3, <3>4
  <2>2. ASSUME NEW s \in Proc, ListenFails(s) \/ DeviceGone(s) \/ Die(s) PROVE DoneInv(t)'
    <3>1. Ends(s)
      BY <2>2 DEF ListenFails, DeviceGone, Die
    <3>2. CASE s = t
      BY <3>1, <3>2 DEF Ends, DoneInv, Enumerated, ResetPC
    <3>3. CASE s # t
      BY <2>0, <3>1, <3>3, DoneStays DEF Ends, kernelVars
    <3> QED
      BY <3>2, <3>3
  <2>3. ASSUME NEW s \in Proc, Enumerate(s) PROVE DoneInv(t)'
    <3>1. /\ pc' = [pc EXCEPT ![s] = "next"]
          /\ todo' = [todo EXCEPT ![s] = present \ Onboard]
          /\ list' = [list EXCEPT ![s] = present \ Onboard]
          /\ UNCHANGED <<present, driver, dev, faulty>>
      BY <2>3 DEF Enumerate, Moves, kernelVars
    <3>2. CASE s = t
      BY <3>1, <3>2 DEF DoneInv, Open, Current, ResetPC
    <3>3. CASE s # t
      BY <2>0, <3>1, <3>3, DoneStays
    <3> QED
      BY <3>2, <3>3
  <2>4. ASSUME NEW s \in Proc, NextDevice(s) PROVE DoneInv(t)'
    <3>1. PICK d \in todo[s] \cap present : /\ todo' = [todo EXCEPT ![s] = @ \ {d}]
                                            /\ dev' = [dev EXCEPT ![s] = d]
      BY <2>4 DEF NextDevice
    <3>2. /\ pc[s] = "next" /\ pc' = [pc EXCEPT ![s] = "unbind_device"]
          /\ UNCHANGED <<present, driver, list, faulty>>
      BY <2>4 DEF NextDevice, Moves, kernelVars
    <3>3. CASE s = t
      <4>1. /\ todo[t] \subseteq list[t] /\ list[t] \subseteq present \cup faulty[t]
            /\ \A e \in list[t] \ (todo[t] \cup faulty[t] \cup Imported) :
                   driver[e] = "usbip-host"
        BY <2>0, <3>2, <3>3 DEF DoneInv, Enumerated, Open, Current, ResetPC
      <4>2. /\ pc'[t] = "unbind_device" /\ dev'[t] = d /\ todo'[t] = todo[t] \ {d}
            /\ "unbind_device" \in ResetPC
        BY <3>1, <3>2, <3>3 DEF ResetPC
      <4> QED
        BY <3>1, <3>2, <3>3, <4>1, <4>2 DEF DoneInv, Open, Current
    <3>4. CASE s # t
      BY <2>0, <3>1, <3>2, <3>4, DoneStays
    <3> QED
      BY <3>3, <3>4
  <2>5. ASSUME NEW s \in Proc, ScanDone(s) PROVE DoneInv(t)'
    <3>1. /\ pc[s] = "next" /\ pc' = [pc EXCEPT ![s] = "serve"] /\ todo[s] = {}
          /\ UNCHANGED <<present, driver, dev, todo, list, faulty>>
      BY <2>5 DEF ScanDone, Moves, kernelVars, scanVars
    <3>2. CASE s = t
      BY <2>0, <3>1, <3>2 DEF DoneInv, Enumerated, Open, Current, ResetPC
    <3>3. CASE s # t
      BY <2>0, <3>1, <3>3, DoneStays
    <3> QED
      BY <3>2, <3>3
  <2>6. ASSUME NEW s \in Proc, Reset(s) PROVE DoneInv(t)'
    <3>1. ResetStep(s) /\ UNCHANGED <<todo, list>>
      BY <2>6 DEF Reset, scanVars
    <3>2. CASE s = t
      BY <2>0, <3>1, <3>2, ResetDone
    <3>3. CASE s # t
      <4>1. pc[s] \in ResetPC /\ \E u \in ServerPC : pc' = [pc EXCEPT ![s] = u]
        BY <3>1, ResetShape DEF ServerPC
      <4>2. pc[t] \notin Enumerated
        BY <3>3, <4>1 DEF PortInv, Listening, Enumerated
      <4> QED
        BY <3>3, <4>1, <4>2 DEF DoneInv
    <3> QED
      BY <3>2, <3>3
  <2>7. ASSUME NEW d \in Dev, HotPlug(d) PROVE DoneInv(t)'
    <3>1. UNCHANGED <<pc, dev, todo, list>>
      BY <2>7 DEF HotPlug, Plug, Unplug, scanVars
    <3>2. CASE Plug(d)
      <4>1. /\ present' = present \cup {d} /\ d \notin present
            /\ driver' = [driver EXCEPT ![d] = "other"] /\ faulty' = faulty
        BY <3>2 DEF Plug
      <4> QED
        BY <2>0, <3>1, <4>1 DEF DoneInv, Open, Current
    <3>3. CASE Unplug(d)
      <4>1. /\ present' = present \ {d}
            /\ driver' = [driver EXCEPT ![d] = "none"]
            /\ pc[t] \in Enumerated => faulty'[t] = faulty[t] \cup {d}
        BY <3>3 DEF Unplug, Enumerated
      <4> QED
        BY <2>0, <3>1, <4>1 DEF DoneInv, Open, Current
    <3> QED
      BY <2>7, <3>2, <3>3 DEF HotPlug
  <2>8. ASSUME \/ \E s \in Proc, c \in Conn : Accept(s, c)
               \/ \E c \in Conn : SendAll(c) \/ Connect(c)
               \/ MonitorStep
               \/ UNCHANGED metaVars
        PROVE  DoneInv(t)'
    <3>1. UNCHANGED <<present, driver, pc, dev, faulty, todo, list>>
      BY <2>8 DEF Accept, SendAll, Connect, MonitorStep, ReceiveEvent, Killall, NothingToKill,
         StartFails, Broadcast, metaVars, resetVars, kernelVars, scanVars
    <3> QED
      BY <2>0, <3>1, DoneStays
  <2> QED
    BY <2>1, <2>2, <2>3, <2>4, <2>5, <2>6, <2>7, <2>8 DEF MetaNext, ServerStep
<1> QED
  BY <1>1, <1>2, MetaTypeCorrect, PortInvariant, PTL DEF MetaSpec

(* A serving server's devices are bound, in whatever state killed          *)
(* predecessors left them, except faulty ones and those of vhci_hcd.       *)
THEOREM ServedAreBound == MetaSpec => []ServedIsBound
<1>1. ServedInv => ServedIsBound
  BY DEF ServedInv, DoneInv, ServedIsBound, Enumerated, Open, Current, ResetPC
<1> QED
  BY <1>1, ServedInvariant, PTL
=============================================================================
