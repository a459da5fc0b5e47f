----------------------------- MODULE MCRestore -----------------------------
(* Restore on a small instance: the system entry, a directory and a file.  *)
EXTENDS Restore, TLC

CONSTANTS u1, u2, sys, docs, note

MCNames == {sys, docs, note}
SmallNames == {sys, note}

OneMember == [u \in Uploads |-> MCNames]

\* Both uploads carry the system entry and the file; the directory only one.
TwoMembers == [u \in Uploads |-> IF u = u1 THEN MCNames ELSE SmallNames]
=============================================================================
