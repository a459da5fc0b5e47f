------------------------------ MODULE MCAlarms ------------------------------
(* Alarms on a small instance. *)
EXTENDS Alarms, TLC

CONSTANTS t1, t2, c1, c2, c3, c4

MCSymmetry == Permutations(Tabs) \cup Permutations(Calls)
=============================================================================
