---------------------------- MODULE MCUsbipdMain ----------------------------
(* Instances of UsbipdMain for TLC.                                        *)
EXTENDS UsbipdMain, TLC

(* The first daemon has both address families, the second one has -4.      *)
OneHasBoth == [d \in Inst |-> IF d = (CHOOSE e \in Inst : TRUE) THEN Family ELSE {4}]
=============================================================================
