------------------------------ MODULE Restore ------------------------------
(***************************************************************************)
(* Restoring the home volume from an uploaded backup: inspect and apply of *)
(* BackupService (apps/backend/src/modules/backup/backup.service.ts), and  *)
(* DbService.replaceWith, which swaps the open database.                   *)
(*                                                                         *)
(* The home directory is a function from its top-level entries to what     *)
(* they hold: the user's tree, that of an upload, or nothing.  Every await *)
(* ends an action, so two applies interleave at each rename: nothing in    *)
(* the service keeps them apart.  Where the file system may answer with an *)
(* error is the constant Faults, so that each run says which errors it     *)
(* admits.                                                                 *)
(*                                                                         *)
(* The database file lies in the entry Sys (".imbatranim"), as in the      *)
(* container and on the ISO, and moves with it; the process keeps the open *)
(* file whatever happens to its name.                                      *)
(***************************************************************************)
EXTENDS Integers, Sequences

CONSTANTS
  Uploads,      \* the backup files sent for inspection
  Names,        \* top-level entries of the home directory
  Sys,          \* the entry that holds the database and a backup's snapshot
  PlainFiles,   \* the entries that are files; the others are directories
  Members,      \* Members[u]: the top-level entries of upload u
  Faults,       \* the steps at which the file system may fail
  MaxPending,   \* MAX_PENDING_UPLOADS
  MaxCrashes,   \* bound on restarts of the backend
  User, Boot, Absent  \* what an entry may hold, beside the tree of an upload

ASSUME RestoreAssumption ==
  /\ Sys \in Names /\ PlainFiles \subseteq Names \ {Sys}
  /\ Members \in [Uploads -> SUBSET Names]
  /\ Faults \subseteq {"measure", "stage", "swap", "undo", "install", "reopen",
                     "revoke", "clean"}
  /\ MaxPending \in Nat /\ MaxCrashes \in Nat
  /\ User # Boot /\ Boot # Absent /\ Absent # User
  /\ {User, Boot, Absent} \cap Uploads = {}

VARIABLES
  pending,   \* BackupService.pending, oldest first
  tarballs,  \* the uploaded files that still exist
  phase,     \* where each upload is
  home,      \* what each top-level entry holds
  staging, rollback,  \* the scratch directories of each apply
  todo,      \* the names swapIn has still to swap
  current,   \* the name it is swapping
  undo,      \* its undo list
  database,  \* database[t]: whose data the database file inside tree t holds
  snapshots, \* the trees that still hold a backup's database snapshot
  open,      \* whose data the open connection reads, or Absent: it is closed
  carried,   \* carried[d]: the sessions that database d came with are valid
  \* History:
  before,    \* the home directory when the swap of an apply began
  cause,     \* the step at which an apply failed
  overlap,   \* whether two applies were ever between swap and clean-up at once
  crashes

upload   == <<pending, tarballs>>
scratch  == <<staging, rollback>>
swap     == <<todo, current, undo>>
db       == <<database, snapshots, open, carried>>
history  == <<before, overlap, crashes>>
vars == <<upload, phase, home, scratch, swap, db, cause, history>>

Trees == {User, Boot} \cup Uploads
Nothing == [n \in Names |-> Absent]
Directory == [Names -> Trees \cup {Absent}]

Phases == {"new", "inspecting", "pending", "staging", "checking", "parking",
           "moving", "undoing", "installing", "replacing", "revoking", "cleaning",
           "restored", "failed", "littered", "gone"}
Causes == {"none", "measure", "stage", "swap", "install", "reopen", "revoke", "clean"}
InSwap == {"checking", "parking", "moving", "undoing",
           "installing", "replacing", "revoking", "cleaning"}

TypeOK ==
  /\ pending \in Seq(Uploads) /\ Len(pending) <= MaxPending
  /\ tarballs \subseteq Uploads
  /\ phase \in [Uploads -> Phases]
  /\ home \in Directory
  /\ staging \in [Uploads -> Directory] /\ rollback \in [Uploads -> Directory]
  /\ todo \in [Uploads -> SUBSET Names] /\ current \in [Uploads -> Names]
  /\ undo \in [Uploads -> Seq({"park", "move"} \X Names)]
  /\ database \in [Trees -> Trees \cup {Absent}]
  /\ snapshots \subseteq Uploads
  /\ open \in Trees \cup {Absent} /\ carried \in [Trees -> BOOLEAN]
  /\ before \in [Uploads -> Directory]
  /\ cause \in [Uploads -> Causes]
  /\ overlap \in BOOLEAN /\ crashes \in 0..MaxCrashes

Init ==
  /\ pending = <<>> /\ tarballs = {}
  /\ phase = [u \in Uploads |-> "new"]
  /\ home \in {h \in [Names -> {User, Absent}] : h[Sys] = User}
  /\ staging = [u \in Uploads |-> Nothing] /\ rollback = [u \in Uploads |-> Nothing]
  /\ todo = [u \in Uploads |-> {}] /\ current = [u \in Uploads |-> Sys]
  /\ undo = [u \in Uploads |-> <<>>]
  /\ database = [t \in Trees |-> IF t = User THEN User ELSE Absent]
  /\ snapshots = Uploads /\ open = User
  /\ carried = [t \in Trees |-> t # Boot]
  /\ before = [u \in Uploads |-> home]
  /\ cause = [u \in Uploads |-> "none"]
  /\ overlap = FALSE /\ crashes = 0

Go(u, p) == phase' = [phase EXCEPT ![u] = p]

Fail(u, why) == cause' = [cause EXCEPT ![u] = why]

-----------------------------------------------------------------------------
(* POST /backup/restore/inspect: expired uploads are swept, the tarball is *)
(* listed and its manifest read, and the upload is remembered.             *)

\* sweepUploads: the expired ones are the oldest ones.
BeginInspect(u) ==
  /\ phase[u] = "new" /\ open # Absent
  /\ \E expired \in 0..Len(pending) :
       /\ pending' = SubSeq(pending, expired + 1, Len(pending))
       /\ tarballs' = (tarballs \cup {u}) \ {pending[i] : i \in 1..expired}
       /\ phase' = [v \in Uploads |->
            IF v = u THEN "inspecting"
            ELSE IF \E i \in 1..expired : pending[i] = v THEN "gone" ELSE phase[v]]
  /\ UNCHANGED <<home, scratch, swap, db, cause, history>>

\* Plausible slip: the upload that arrived last is evicted.
EndInspectEvictsNewest(u) ==
  /\ phase[u] = "inspecting"
  /\ pending' = IF Len(pending) >= MaxPending THEN pending ELSE Append(pending, u)
  /\ tarballs' = IF Len(pending) >= MaxPending THEN tarballs \ {pending[1]} ELSE tarballs
  /\ Go(u, "pending")
  /\ UNCHANGED <<home, scratch, swap, db, cause, history>>

\* Plausible slip: nothing is evicted.
EndInspectUncapped(u) ==
  /\ phase[u] = "inspecting"
  /\ pending' = Append(pending, u)
  /\ Go(u, "pending")
  /\ UNCHANGED <<tarballs, home, scratch, swap, db, cause, history>>

\* capUploads: the oldest goes when there is one too many.
EndInspect(u) ==
  /\ phase[u] = "inspecting"
  /\ LET all  == Append(pending, u)
         over == IF Len(all) > MaxPending THEN {all[1]} ELSE {}
     IN  /\ pending' = IF over = {} THEN all ELSE Tail(all)
         /\ tarballs' = tarballs \ over
         /\ phase' = [v \in Uploads |-> IF v \in over THEN "gone"
                                        ELSE IF v = u THEN "pending" ELSE phase[v]]
  /\ UNCHANGED <<home, scratch, swap, db, cause, history>>

\* Not a backup, or unreadable.
RefuseInspect(u) ==
  /\ phase[u] = "inspecting"
  /\ tarballs' = tarballs \ {u}
  /\ Go(u, "gone")
  /\ UNCHANGED <<pending, home, scratch, swap, db, cause, history>>

\* The same, when the tarball cannot be removed either.
RefuseFails(u) ==
  /\ phase[u] = "inspecting"
  /\ "clean" \in Faults
  /\ Fail(u, "clean")
  /\ Go(u, "gone")
  /\ UNCHANGED <<upload, home, scratch, swap, db, history>>

-----------------------------------------------------------------------------
(* POST /backup/restore/apply: stage, verify.                              *)

Without(s, i) == SubSeq(s, 1, i - 1) \o SubSeq(s, i + 1, Len(s))

Apply(u) ==
  /\ open # Absent
  /\ \E i \in DOMAIN pending : pending[i] = u /\ pending' = Without(pending, i)
  /\ Go(u, "staging")
  /\ UNCHANGED <<tarballs, home, scratch, swap, db, cause, history>>

\* freeBytes or homeRoot throws: the upload is no longer pending, and the try
\* block whose finally removes its tarball was not entered.
ApplyFails(u) ==
  /\ phase[u] = "staging"
  /\ "measure" \in Faults
  /\ Fail(u, "measure")
  /\ before' = [before EXCEPT ![u] = home]
  /\ Go(u, "failed")
  /\ UNCHANGED <<upload, home, scratch, swap, db, overlap, crashes>>

Stage(u) ==
  /\ phase[u] = "staging"
  /\ Sys \in Members[u]
  /\ staging' = [staging EXCEPT ![u] = [n \in Names |->
                    IF n \in Members[u] THEN u ELSE Absent]]
  /\ todo' = [todo EXCEPT ![u] = Members[u]]
  /\ before' = [before EXCEPT ![u] = home]
  /\ overlap' = (overlap \/ \E v \in Uploads : phase[v] \in InSwap)
  /\ Go(u, "checking")
  /\ UNCHANGED <<upload, home, rollback, current, undo, db, cause, crashes>>

\* No room (its removal of the tarball is that of the clean-up), an extraction
\* error, an empty archive or one without a snapshot.
StageFails(u) ==
  /\ phase[u] = "staging"
  /\ "stage" \in Faults \/ Sys \notin Members[u]
  /\ Fail(u, "stage")
  /\ before' = [before EXCEPT ![u] = home]
  /\ overlap' = (overlap \/ \E v \in Uploads : phase[v] \in InSwap)
  /\ Go(u, "cleaning")
  /\ UNCHANGED <<upload, home, scratch, swap, db, crashes>>

-----------------------------------------------------------------------------
(* swapIn: for each name, look whether it is there, park it, move the new  *)
(* one in.  The names come in the order of readdir, which is any order.    *)

CheckLive(u) ==
  /\ phase[u] = "checking"
  /\ \E n \in todo[u] :
       /\ current' = [current EXCEPT ![u] = n]
       /\ todo' = [todo EXCEPT ![u] = @ \ {n}]
       /\ Go(u, IF home[n] # Absent THEN "parking" ELSE "moving")
  /\ UNCHANGED <<upload, home, scratch, undo, db, cause, history>>

Park(u) ==
  LET n == current[u] IN
  /\ phase[u] = "parking"
  /\ home[n] # Absent
  /\ rollback' = [rollback EXCEPT ![u][n] = home[n]]
  /\ home' = [home EXCEPT ![n] = Absent]
  /\ undo' = [undo EXCEPT ![u] = Append(@, <<"park", n>>)]
  /\ Go(u, "moving")
  /\ UNCHANGED <<upload, staging, todo, current, db, cause, history>>

\* rename onto a file replaces it, onto a directory with entries it fails.
CanReplace(n) == home[n] = Absent \/ n \in PlainFiles

Move(u) ==
  LET n == current[u] IN
  /\ phase[u] = "moving"
  /\ CanReplace(n)
  /\ home' = [home EXCEPT ![n] = staging[u][n]]
  /\ staging' = [staging EXCEPT ![u][n] = Absent]
  /\ undo' = [undo EXCEPT ![u] = Append(@, <<"move", n>>)]
  /\ Go(u, "checking")
  /\ UNCHANGED <<upload, rollback, todo, current, db, cause, history>>

SwapFails(u) ==
  LET n == current[u] IN
  /\ \/ phase[u] = "parking" /\ ("swap" \in Faults \/ home[n] = Absent)
     \/ phase[u] = "moving" /\ ("swap" \in Faults \/ ~CanReplace(n))
  /\ Fail(u, "swap")
  /\ Go(u, "undoing")
  /\ UNCHANGED <<upload, home, scratch, swap, db, history>>

\* swapIn returns or throws, and what it kept is gone.
LeaveSwap(u) ==
  /\ todo' = [todo EXCEPT ![u] = {}]
  /\ current' = [current EXCEPT ![u] = Sys]
  /\ undo' = [undo EXCEPT ![u] = <<>>]

SwapDone(u) ==
  /\ phase[u] = "checking" /\ todo[u] = {}
  /\ LeaveSwap(u)
  /\ Go(u, "installing")
  /\ UNCHANGED <<upload, home, scratch, db, cause, history>>

\* Plausible slip: the undo list is run first to last.
UndoForwards(u) ==
  /\ phase[u] = "undoing" /\ undo[u] # <<>>
  /\ LET step == Head(undo[u])
         n == step[2]
     IN  /\ undo' = [undo EXCEPT ![u] = Tail(@)]
         /\ \/ step[1] = "park" /\ CanReplace(n)
               /\ home' = [home EXCEPT ![n] = rollback[u][n]]
               /\ rollback' = [rollback EXCEPT ![u][n] = Absent]
               /\ UNCHANGED staging
            \/ step[1] = "move" /\ home[n] # Absent
               /\ staging' = [staging EXCEPT ![u][n] = home[n]]
               /\ home' = [home EXCEPT ![n] = Absent]
               /\ UNCHANGED rollback
            \/ /\ step[1] = "park" /\ ~CanReplace(n)
               /\ UNCHANGED <<home, scratch>>
  /\ UNCHANGED <<upload, phase, todo, current, db, cause, history>>

\* One step of the undo list, last first; a step that fails is logged and
\* skipped.
Undo(u) ==
  /\ phase[u] = "undoing" /\ undo[u] # <<>>
  /\ LET step == undo[u][Len(undo[u])]
         n == step[2]
     IN  /\ undo' = [undo EXCEPT ![u] = SubSeq(@, 1, Len(@) - 1)]
         /\ \/ step[1] = "park" /\ CanReplace(n)
               /\ home' = [home EXCEPT ![n] = rollback[u][n]]
               /\ rollback' = [rollback EXCEPT ![u][n] = Absent]
               /\ UNCHANGED staging
            \/ step[1] = "move" /\ home[n] # Absent
               /\ staging' = [staging EXCEPT ![u][n] = home[n]]
               /\ home' = [home EXCEPT ![n] = Absent]
               /\ UNCHANGED rollback
            \/ /\ \/ "undo" \in Faults
                  \/ step[1] = "park" /\ ~CanReplace(n)
                  \/ step[1] = "move" /\ home[n] = Absent
               /\ UNCHANGED <<home, scratch>>
  /\ UNCHANGED <<upload, phase, todo, current, db, cause, history>>

UndoDone(u) ==
  /\ phase[u] = "undoing" /\ undo[u] = <<>>
  /\ LeaveSwap(u)
  /\ Go(u, "cleaning")
  /\ UNCHANGED <<upload, home, scratch, db, cause, history>>

-----------------------------------------------------------------------------
(* installDatabase, after the tree is in place and outside its undo.       *)

InstallFindsSnapshot(u) ==
  /\ phase[u] = "installing"
  /\ home[Sys] \in snapshots
  /\ Go(u, "replacing")
  /\ UNCHANGED <<upload, home, scratch, swap, db, cause, history>>

InstallFindsNone(u) ==
  /\ phase[u] = "installing"
  /\ home[Sys] \notin snapshots
  /\ Fail(u, "install")
  /\ Go(u, "cleaning")
  /\ UNCHANGED <<upload, home, scratch, swap, db, history>>

\* replaceWith, when all goes well: close, rename the snapshot to the database's
\* name, remove the sidecar files, reopen.
Replace(u) ==
  LET tree == home[Sys] IN
  /\ phase[u] = "replacing"
  /\ tree \in snapshots
  /\ snapshots' = snapshots \ {tree}
  /\ database' = [database EXCEPT ![tree] = tree]
  /\ open' = tree
  /\ Go(u, "revoking")
  /\ UNCHANGED <<upload, home, scratch, swap, carried, cause, history>>

\* What opening the database inside a tree finds: it is created if missing.
Opened(tree) == IF database[tree] = Absent THEN Boot ELSE database[tree]

\* Plausible slip: the reopening is not in a finally block.
ReplaceFailsStaysClosed(u) ==
  /\ phase[u] = "replacing"
  /\ "install" \in Faults \/ home[Sys] \notin snapshots
  /\ open' = Absent
  /\ Fail(u, "install")
  /\ Go(u, "cleaning")
  /\ UNCHANGED <<upload, home, scratch, swap, database, snapshots, carried, history>>

\* The rename failed: the database is reopened under its name all the same,
\* unless the directory that should hold it is not there.
ReplaceFails(u) ==
  LET tree == home[Sys] IN
  /\ phase[u] = "replacing"
  /\ "install" \in Faults \/ tree \notin snapshots
  /\ IF tree = Absent
     THEN open' = Absent /\ UNCHANGED database
     ELSE open' = Opened(tree) /\ database' = [database EXCEPT ![tree] = Opened(tree)]
  /\ Fail(u, "install")
  /\ Go(u, "cleaning")
  /\ UNCHANGED <<upload, home, scratch, swap, snapshots, carried, history>>

\* The rename was done and the database reopened, but a sidecar file could not
\* be removed, or a pragma or a migration failed: the restored database is open
\* and the error keeps destroyAll from running.
ReplaceHalfDone(u) ==
  LET tree == home[Sys] IN
  /\ phase[u] = "replacing"
  /\ tree \in snapshots /\ "install" \in Faults
  /\ snapshots' = snapshots \ {tree}
  /\ database' = [database EXCEPT ![tree] = tree]
  /\ open' = tree
  /\ Fail(u, "install")
  /\ Go(u, "cleaning")
  /\ UNCHANGED <<upload, home, scratch, swap, carried, history>>

\* The database cannot be reopened (a corrupt snapshot, a full disk), whether
\* the rename was done or not.
ReopenFails(u) ==
  LET tree == home[Sys] IN
  /\ phase[u] = "replacing"
  /\ "reopen" \in Faults
  /\ \/ /\ tree \in snapshots
        /\ snapshots' = snapshots \ {tree}
        /\ database' = [database EXCEPT ![tree] = tree]
     \/ UNCHANGED <<database, snapshots>>
  /\ open' = Absent
  /\ Fail(u, "reopen")
  /\ Go(u, "cleaning")
  /\ UNCHANGED <<upload, home, scratch, swap, carried, history>>

\* Plausible slip: destroyAll is left out.
RevokeNothing(u) ==
  /\ phase[u] = "revoking"
  /\ Go(u, "cleaning")
  /\ UNCHANGED <<upload, home, scratch, swap, db, cause, history>>

\* The staging directory of the backup is removed, then destroyAll.
Revoke(u) ==
  /\ phase[u] = "revoking"
  /\ open # Absent
  /\ snapshots' = snapshots \ {home[Sys]}
  /\ carried' = [carried EXCEPT ![open] = FALSE]
  /\ Go(u, "cleaning")
  /\ UNCHANGED <<upload, home, scratch, swap, database, open, cause, history>>

RevokeFails(u) ==
  /\ phase[u] = "revoking"
  /\ "revoke" \in Faults \/ open = Absent
  /\ Fail(u, "revoke")
  /\ Go(u, "cleaning")
  /\ UNCHANGED <<upload, home, scratch, swap, db, history>>

\* The finally block, whatever happened: tarball, staging and rollback go, one
\* after the other.
CleanTarball(u) ==
  /\ phase[u] = "cleaning" /\ u \in tarballs
  /\ tarballs' = tarballs \ {u}
  /\ UNCHANGED <<pending, phase, home, scratch, swap, db, cause, history>>

CleanStaging(u) ==
  /\ phase[u] = "cleaning" /\ u \notin tarballs /\ staging[u] # Nothing
  /\ staging' = [staging EXCEPT ![u] = Nothing]
  /\ UNCHANGED <<upload, phase, home, rollback, swap, db, cause, history>>

CleanUp(u) ==
  /\ phase[u] = "cleaning" /\ u \notin tarballs /\ staging[u] = Nothing
  /\ rollback' = [rollback EXCEPT ![u] = Nothing]
  /\ Go(u, IF cause[u] = "none" THEN "restored" ELSE "failed")
  /\ UNCHANGED <<upload, home, staging, swap, db, cause, history>>

\* One of the three cannot be removed: the others after it stay, and the user is
\* told that the restore failed, whether it did or not.
CleanUpFails(u) ==
  /\ phase[u] = "cleaning"
  /\ "clean" \in Faults
  /\ Go(u, "littered")
  /\ UNCHANGED <<upload, home, scratch, swap, db, cause, history>>

-----------------------------------------------------------------------------
(* The backend stops and boots again.  The map of pending uploads and the  *)
(* applies with all they kept in memory are gone, the scratch directories  *)
(* stay; the entrypoint makes the directory of the database and the        *)
(* database is created if missing.  This is the boot that succeeds: one    *)
(* that cannot open the database ends, and the next finds what it found.   *)

Restart ==
  /\ crashes < MaxCrashes
  /\ crashes' = crashes + 1
  /\ pending' = <<>>
  /\ phase' = [u \in Uploads |->
       IF phase[u] \in {"new", "restored", "failed", "littered"} THEN phase[u] ELSE "gone"]
  /\ LET tree == IF home[Sys] = Absent THEN Boot ELSE home[Sys]
     IN  /\ home' = [home EXCEPT ![Sys] = tree]
         /\ database' = [database EXCEPT ![tree] = Opened(tree)]
         /\ open' = Opened(tree)
  /\ todo' = [u \in Uploads |-> {}] /\ current' = [u \in Uploads |-> Sys]
  /\ undo' = [u \in Uploads |-> <<>>]
  /\ UNCHANGED <<tarballs, scratch, snapshots, carried, cause, before, overlap>>

Swap(u) ==
  \/ CheckLive(u)
  \/ Park(u)
  \/ Move(u)
  \/ SwapFails(u)
  \/ SwapDone(u)
  \/ Undo(u)
  \/ UndoDone(u)

Finish(u) ==
  \/ InstallFindsSnapshot(u)
  \/ InstallFindsNone(u)
  \/ Replace(u)
  \/ ReplaceFails(u)
  \/ ReplaceHalfDone(u)
  \/ ReopenFails(u)
  \/ Revoke(u)
  \/ RevokeFails(u)
  \/ CleanTarball(u)
  \/ CleanStaging(u)
  \/ CleanUp(u)
  \/ CleanUpFails(u)

Next ==
  \/ Restart
  \/ \E u \in Uploads :
       BeginInspect(u) \/ EndInspect(u) \/ RefuseInspect(u) \/ RefuseFails(u)
  \/ \E u \in Uploads : Apply(u) \/ ApplyFails(u) \/ Stage(u) \/ StageFails(u)
  \/ \E u \in Uploads : Swap(u)
  \/ \E u \in Uploads : Finish(u)

Spec == Init /\ [][Next]_vars

-----------------------------------------------------------------------------
(* Properties.                                                             *)

\* What apply works on exists: a pending or running apply has its tarball,
\* through sweeps and evictions by other uploads.  And a tarball that nothing
\* works on any more was left by an apply that failed before its try block, by a
\* removal that failed, or by a restart.
TarballsAccountedFor ==
  LET working == {"inspecting", "pending", "staging"} \cup InSwap
      Left(u) == \/ cause[u] \in {"measure", "clean"} \/ phase[u] = "littered"
                 \/ crashes > 0 /\ phase[u] = "gone"
  IN  /\ \A u \in Uploads : phase[u] \in working \ {"cleaning"} => u \in tarballs
      /\ \A u \in tarballs : phase[u] \in working \/ Left(u)

\* An apply that fails while it swaps, alone, puts back exactly the tree it
\* found (the undo list, "one entry per completed rename").
SwapIsUndone ==
  \A u \in Uploads :
    /\ phase[u] = "cleaning" /\ cause[u] = "swap"
    /\ ~overlap /\ "undo" \notin Faults
    => home = before[u]

\* Before the first clean-up nothing of the user's is lost, whatever fails
\* and wherever the backend stops: what is not in the home directory is
\* parked, if the applies do not overlap.
NothingLostBeforeCleanUp ==
  (~overlap /\ \A u \in Uploads :
                 phase[u] \in {"restored", "failed", "littered"} => cause[u] = "measure")
    => \A n \in Names, u \in Uploads :
         before[u][n] = User
           => home[n] = User \/ \E v \in Uploads : rollback[v][n] = User

\* The restore of u did not come to its destroyAll, or not yet: the install or
\* the revocation failed, or the backend stopped in between.
NotRevoked(u) ==
  \/ phase[u] = "revoking"
  \/ cause[u] \in {"install", "reopen", "revoke"}
  \/ crashes > 0 /\ phase[u] = "gone"

\* A restore that succeeded signs everybody out: if the sessions that the open
\* database came with are valid, then its own restore has still to revoke them,
\* failed in or after the install, or was cut off by a restart.  Other restores,
\* failed, cut off or reopening an earlier database, are no excuse, except for
\* applies in progress together, where one may open what another put there.
CarriedSessionsRevoked ==
  open \in Uploads /\ carried[open]
    => \/ NotRevoked(open)
       \/ overlap /\ (crashes > 0 \/ \E u \in Uploads : NotRevoked(u))

\* "A failed swap must not leave the process without a database"
\* (db.service.ts:100): no failed step of a restore takes the connection away,
\* but the reopening itself, unless another apply moved the directory of the
\* database away meanwhile.
AlwaysADatabase ==
  [][open # Absent /\ open' = Absent
       => overlap \/ \E u \in Uploads : cause[u] = "none" /\ cause'[u] = "reopen"]_vars

\* What the user is told: a restore that fails leaves the tree as it was.
FailedRestoreChangesNothing ==
  \A u \in Uploads : phase[u] = "failed" => home = before[u]

-----------------------------------------------------------------------------
(* The promise, seen through the renames: until the last of them the       *)
(* directory counts as untouched.                                          *)

Swapping(u) == phase[u] \in {"checking", "parking", "moving", "undoing"}

Committed(u) ==
  \/ phase[u] \in {"installing", "replacing", "revoking", "restored"}
  \/ phase[u] = "cleaning" /\ cause[u] = "none"

Tree == IF \E u \in Uploads : Swapping(u)
        THEN before[CHOOSE u \in Uploads : Swapping(u)] ELSE home

Outcome == [u \in Uploads |->
  IF Committed(u) THEN "restored"
  ELSE IF phase[u] \in {"cleaning", "failed", "littered"} THEN "failed" ELSE "none"]

Disturbed ==
  \/ overlap \/ crashes > 0
  \/ \E u \in Uploads :
       cause[u] \in {"install", "reopen", "revoke"} \/ phase[u] = "littered"

Atomic == INSTANCE AtomicRestore WITH
  tree <- Tree, outcome <- Outcome, disturbed <- Disturbed

\* Restores one at a time, with failures only while they stage or swap, are
\* atomic ("rolls back to the tree the user started with").
ImplementsAtomic == Atomic!Spec
=============================================================================
