--------------------------- MODULE AtomicRestore ---------------------------
(***************************************************************************)
(* What a restore promises (BackupService.apply): the home directory takes *)
(* every entry of the backup and keeps the others, in one step, or the     *)
(* restore fails and the directory stays as it was.                        *)
(*                                                                         *)
(* The promise is for restores one at a time, on a disk and in a process   *)
(* that fail at the worst before the backup's database is put in.          *)
(***************************************************************************)
CONSTANTS Uploads, Names, Members

VARIABLES tree,      \* the home directory
          outcome,   \* of each upload: "none", "restored" or "failed"
          disturbed  \* the promise is off

vars == <<tree, outcome, disturbed>>

Init == outcome = [u \in Uploads |-> "none"] /\ disturbed = FALSE

Decide(u, o) == /\ outcome[u] = "none"
                /\ outcome' = [outcome EXCEPT ![u] = o]

Restore(u) ==
  /\ disturbed' = FALSE
  /\ Decide(u, "restored")
  /\ tree' = [n \in Names |-> IF n \in Members[u] THEN u ELSE tree[n]]

Refuse(u) == Decide(u, "failed") /\ UNCHANGED <<tree, disturbed>>

Disturb == disturbed' = TRUE

Next ==
  \/ ~disturbed /\ \E u \in Uploads : Restore(u) \/ Refuse(u)
  \/ Disturb

Spec == Init /\ [][Next]_vars
=============================================================================
