------------------------------ MODULE MCNamesDb ------------------------------
(* Instances of NamesDb for TLC.                                           *)
EXTENDS NamesDb

(* Some keys of every table share a bucket.                                *)
FirstDigit(k) == k[1] % 2
=============================================================================
