------------------------------ MODULE MCFiles -------------------------------
(* Files on a small instance: a path, and the one that restore tries next. *)
EXTENDS Files, TLC

CONSTANTS a, a1, back, f1, f2, dir

MCTrashNames == (a :> <<a, a1>>) @@ (back :> <<>>)
MCBackNames == (a :> <<a, back>>) @@ (back :> <<back>>)

\* Two paths with one name, in two folders.
SameTrashNames == [n \in Names |-> <<a, a1>>]

MCSymmetry == Permutations(Requests) \cup Permutations({f1, f2})
=============================================================================
