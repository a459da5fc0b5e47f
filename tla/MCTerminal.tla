----------------------------- MODULE MCTerminal -----------------------------
(* Terminal on a small instance. *)
EXTENDS Terminal, TLC

CONSTANTS w1, s1, s2, s3
=============================================================================
