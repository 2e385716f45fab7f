---------------------------- MODULE BindDriver ----------------------------
(***************************************************************************)
(* reset_bind_device (src/src/server/device.c): unbind_device and then     *)
(* bind_device (src/src/server/usbip_unbind.c, usbip_bind.c), as a process *)
(* carries them out on the kernel's drivers, one read or write of sysfs at *)
(* a time.  Any write may fail, and the process may be killed anywhere:    *)
(* the write it is in then still takes effect, or fails, and nothing more. *)
(***************************************************************************)
EXTENDS Naturals, FiniteSets

CONSTANTS Proc,       \* processes that reset devices
          Dev,        \* places a USB device may be plugged in, by busid
          Imported    \* devices that are themselves attached through vhci_hcd

ASSUME ImportedAssumption == Imported \subseteq Dev

VARIABLES
    present,   \* the devices plugged in
    driver,    \* driver[d]: the driver d is bound to
    matched,   \* the busids registered with usbip-host (match_busid)
    pc,        \* pc[s]: where process s stands
    killed,    \* the processes that a signal will end
    dev,       \* dev[s]: the device being reset
    faulty     \* faulty[s]: a write failed for it, or it was unplugged,
               \* since s began and did not bind it

kernelVars == <<present, driver, matched>>

Driver  == {"usbip-host", "other", "none"}
ResetPC == {"unbind_device", "unbind_host", "del_busid", "rebind",
            "bind_device", "unbind_other", "add_busid", "bind_usbip", "undo_busid"}

KernelTypeOK ==
    /\ present \subseteq Dev
    /\ driver  \in [Dev -> Driver]
    /\ matched \subseteq Dev

KernelInit ==
    /\ present \in SUBSET Dev
    /\ driver  = [d \in Dev |-> IF d \in present THEN "other" ELSE "none"]
    /\ matched = {}

-----------------------------------------------------------------------------
(* A device appears: the kernel's generic driver takes it.                 *)
Plug(d) ==
    /\ d \notin present
    /\ present' = present \cup {d}
    /\ driver'  = [driver EXCEPT ![d] = "other"]
    /\ UNCHANGED <<matched, pc, killed, dev, faulty>>

Unplug(d) ==
    /\ d \in present
    /\ present' = present \ {d}
    /\ driver'  = [driver EXCEPT ![d] = "none"]
    /\ faulty'  = [s \in Proc |-> IF pc[s] \in ResetPC \cup {"next", "serve"}
                                   THEN faulty[s] \cup {d} ELSE faulty[s]]
    /\ UNCHANGED <<matched, pc, killed, dev>>

-----------------------------------------------------------------------------
(* A read is of no consequence in a process that was killed.               *)
Read(s, here, there) ==
    /\ pc[s] = here
    /\ s \notin killed
    /\ pc' = [pc EXCEPT ![s] = there]
    /\ UNCHANGED <<kernelVars, killed, dev, faulty>>

Write(s, here, there) ==
    /\ pc[s] = here
    /\ pc' = [pc EXCEPT ![s] = IF s \in killed THEN "dying" ELSE there]
    /\ UNCHANGED <<present, killed, dev>>

WriteFails(s, here, there) ==
    /\ Write(s, here, there)
    /\ faulty' = [faulty EXCEPT ![s] = @ \cup {dev[s]}]
    /\ UNCHANGED <<driver, matched>>

SetDriver(s, drv) ==
    /\ driver' = [driver EXCEPT ![dev[s]] = drv]
    /\ UNCHANGED <<matched, faulty>>

-----------------------------------------------------------------------------
(* unbind_device: whatever it returns, reset_bind_device goes on.          *)

UnbindDevice(s) ==
    Read(s, "unbind_device", IF driver[dev[s]] = "usbip-host" THEN "unbind_host"
                                                           ELSE "bind_device")

UnbindErrorIgnored(s) ==     \* mutant: a failed unbind does not end unbind_device
    \/ /\ Write(s, "unbind_host", "del_busid")
       /\ driver[dev[s]] = "usbip-host"
       /\ SetDriver(s, "none")
    \/ WriteFails(s, "unbind_host", "del_busid")

UnbindHost(s) ==
    \/ /\ Write(s, "unbind_host", "del_busid")
       /\ driver[dev[s]] = "usbip-host"
       /\ SetDriver(s, "none")
    \/ WriteFails(s, "unbind_host", "bind_device")

DelBusid(s) ==
    \/ /\ Write(s, "del_busid", "rebind")
       /\ dev[s] \in matched
       /\ matched' = matched \ {dev[s]}
       /\ UNCHANGED <<driver, faulty>>
    \/ WriteFails(s, "del_busid", "bind_device")

(* The kernel probes the device anew, if it has no driver.                 *)
Rebind(s) ==
    \/ /\ Write(s, "rebind", "bind_device")
       /\ dev[s] \in present
       /\ SetDriver(s, IF driver[dev[s]] = "none" THEN "other" ELSE driver[dev[s]])
    \/ WriteFails(s, "rebind", "bind_device")

-----------------------------------------------------------------------------
(* bind_device: the checks, and unbind_other.                              *)

BindNeedsDriver(s) ==        \* mutant: a device without a driver is an error
    Read(s, "bind_device", IF driver[dev[s]] = "other" /\ dev[s] \notin Imported
                             THEN "unbind_other" ELSE "next")

BindDevice(s) ==
    Read(s, "bind_device",
         CASE dev[s] \notin present             -> "next"    \* does not exist
           [] dev[s] \in Imported               -> "next"    \* bind loop
           [] driver[dev[s]] = "usbip-host"     -> "next"    \* already bound
           [] driver[dev[s]] = "none"           -> "add_busid"
           [] OTHER                             -> "unbind_other")

UnbindOther(s) ==
    \/ /\ Write(s, "unbind_other", "add_busid")
       /\ driver[dev[s]] = "other"
       /\ SetDriver(s, "none")
    \/ WriteFails(s, "unbind_other", "next")

(* modify_match_busid(busid, 1)                                            *)
AddBusid(s) ==
    \/ /\ Write(s, "add_busid", "bind_usbip")
       /\ matched' = matched \cup {dev[s]}
       /\ UNCHANGED <<driver, faulty>>
    \/ WriteFails(s, "add_busid", "next")

BindRetries(s) ==            \* mutant: the bind is tried until it succeeds
    \/ /\ Write(s, "bind_usbip", "next")
       /\ driver[dev[s]] = "none" /\ dev[s] \in present \cap matched
       /\ driver' = [driver EXCEPT ![dev[s]] = "usbip-host"]
       /\ UNCHANGED <<matched, faulty>>
    \/ WriteFails(s, "bind_usbip", "bind_usbip")

(* usbip-host takes a device that has no driver and whose busid it knows.  *)
BindUsbip(s) ==
    \/ /\ Write(s, "bind_usbip", "next")
       /\ driver[dev[s]] = "none"
       /\ dev[s] \in present \cap matched
       /\ driver' = [driver EXCEPT ![dev[s]] = "usbip-host"]
       /\ faulty' = [faulty EXCEPT ![s] = @ \ {dev[s]}]
       /\ UNCHANGED matched
    \/ WriteFails(s, "bind_usbip", "undo_busid")

UndoBusid(s) ==
    \/ /\ Write(s, "undo_busid", "next")
       /\ dev[s] \in matched
       /\ matched' = matched \ {dev[s]}
       /\ UNCHANGED <<driver, faulty>>
    \/ WriteFails(s, "undo_busid", "next")

ResetStep(s) ==
    \/ UnbindDevice(s) \/ UnbindHost(s) \/ DelBusid(s) \/ Rebind(s)
    \/ BindDevice(s) \/ UnbindOther(s) \/ AddBusid(s) \/ BindUsbip(s) \/ UndoBusid(s)
=============================================================================
