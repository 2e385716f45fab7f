--------------------------- MODULE MCUsbipImport ---------------------------
(* Instances of UsbipImport for TLC.                                       *)
EXTENDS UsbipImport

Imports == [version : {"ok"}, status : {"OK"}, code : {"IMPORT"}, busid : Dev]

(* All calls on one machine, whose ports they compete for.                 *)
OneMachine == [c \in Conn |-> CHOOSE m \in Machine : TRUE]

=============================================================================
