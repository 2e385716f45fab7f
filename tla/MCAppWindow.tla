---------------------------- MODULE MCAppWindow ----------------------------
(* Instances of AppWindow for TLC.                                         *)
EXTENDS AppWindow, TLC

Symmetry == Permutations(Dev) \cup Permutations(Refresh) \cup Permutations(Task)
=============================================================================
