-------------------------- MODULE MCWindowManager --------------------------
(* WindowManager on a small instance.                                      *)
EXTENDS WindowManager, TLC

WindowSymmetry == Permutations(Windows)
=============================================================================
