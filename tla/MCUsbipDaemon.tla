--------------------------- MODULE MCUsbipDaemon ---------------------------
(* Instances of UsbipDaemon for TLC.                                       *)
EXTENDS UsbipDaemon, TLC

Symmetry == Permutations(Conn) \cup Permutations(Dev)

Ask(code, d) == [version |-> "ok", status |-> "OK", code |-> code, busid |-> d]

(* Several clients after the same devices.                                 *)
Imports == {Ask("IMPORT", d) : d \in Dev}

(* One of every kind of request recv_pdu tells apart, for every busid (it  *)
(* means nothing outside an import) so that devices stay interchangeable.  *)
AllKinds ==
    UNION { { Ask("IMPORT", d), Ask("DEVLIST", d), Ask("other", d),
              [Ask("IMPORT", d) EXCEPT !.version = "other"],
              [Ask("IMPORT", d) EXCEPT !.status = "error"] } : d \in Dev }

ListAndImport == UNION {{Ask("IMPORT", d), Ask("DEVLIST", d)} : d \in Dev}
=============================================================================
