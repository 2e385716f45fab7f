------------------------- MODULE MCMetadataServer -------------------------
(* Instances of MetadataServer for TLC.  No symmetry: the run checks a     *)
(* liveness property.                                                      *)
EXTENDS MetadataServer, TLC

(* No device of the instance is attached through vhci_hcd or passed over.  *)
NoDevice == {}
=============================================================================
