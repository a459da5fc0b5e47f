------------------------------- MODULE Backup -------------------------------
(***************************************************************************)
(* The backup download: openBackupStream of BackupService and the download *)
(* handler of BackupController (apps/backend/src/modules/backup).          *)
(*                                                                         *)
(* Each backup builds a staging directory at one fixed path, which tar     *)
(* reads on its walk of the home volume.  Every await ends an action.  The *)
(* archive is abstracted to what tar took from the staging directory: the  *)
(* database snapshot and the manifest, each named by the download that     *)
(* wrote it.                                                               *)
(***************************************************************************)
EXTENDS FiniteSets

CONSTANTS
  Downloads,  \* the requests for a backup
  None        \* nobody

ASSUME BackupAssumption == None \notin Downloads

VARIABLES
  backupInFlight,
  phase,      \* where each download is
  staged,     \* whether the staging directory exists
  snapshot,   \* who wrote db.sqlite in it, or None
  manifest,   \* who wrote manifest.json in it, or None
  archive,    \* what tar took from it
  client,     \* whether the client still reads
  \* History:
  disturbed   \* downloads whose staging directory somebody else removed

staging == <<staged, snapshot, manifest>>
vars == <<backupInFlight, phase, staging, archive, client, disturbed>>

Building == {"root", "clearing", "making", "snapshotting", "describing", "tarring", "walked"}

TypeOK ==
  /\ backupInFlight \in BOOLEAN
  /\ phase \in [Downloads -> {"new", "refused", "rootless", "failed", "removing", "undoing", "complete"}
                             \cup Building]
  /\ staged \in BOOLEAN
  /\ snapshot \in Downloads \cup {None} /\ manifest \in Downloads \cup {None}
  /\ (snapshot # None \/ manifest # None) => staged
  /\ archive \in [Downloads -> [snapshot : Downloads \cup {None},
                                manifest : Downloads \cup {None}]]
  /\ client \in [Downloads -> BOOLEAN]
  /\ disturbed \subseteq Downloads

Init ==
  /\ backupInFlight = FALSE
  /\ phase = [d \in Downloads |-> "new"]
  /\ staged = FALSE /\ snapshot = None /\ manifest = None
  /\ archive = [d \in Downloads |-> [snapshot |-> None, manifest |-> None]]
  /\ client = [d \in Downloads |-> TRUE]
  /\ disturbed = {}

Go(d, p) == phase' = [phase EXCEPT ![d] = p]

RemoveStaging == staged' = FALSE /\ snapshot' = None /\ manifest' = None

DisturbOthers(d) ==
  disturbed' = disturbed \cup {e \in Downloads \ {d} : phase[e] \in Building}

-----------------------------------------------------------------------------
(* openBackupStream up to the spawn of tar.                                *)

\* Plausible slip: the conflict is thrown inside the try, whose catch
\* disposes, so a refused download releases the lock of the running one.
OpenDisposesOnConflict(d) ==
  /\ phase[d] = "new"
  /\ backupInFlight' = ~backupInFlight
  /\ Go(d, IF backupInFlight THEN "refused" ELSE "root")
  /\ UNCHANGED <<staging, archive, client, disturbed>>

Open(d) ==
  /\ phase[d] = "new"
  /\ backupInFlight' = TRUE
  /\ Go(d, IF backupInFlight THEN "refused" ELSE "root")
  /\ UNCHANGED <<staging, archive, client, disturbed>>

\* homeRoot is awaited with the lock held and outside the try: if it throws,
\* the lock stays.
ResolveRoot(d) ==
  /\ phase[d] = "root"
  /\ \E next \in {"clearing", "rootless"} : Go(d, next)
  /\ UNCHANGED <<backupInFlight, staging, archive, client, disturbed>>

\* rm and mkdir of the staging directory.
Clear(d) ==
  /\ phase[d] = "clearing"
  /\ RemoveStaging
  /\ DisturbOthers(d)
  /\ Go(d, "making")
  /\ UNCHANGED <<backupInFlight, archive, client>>

Make(d) ==
  /\ phase[d] = "making"
  /\ staged' = TRUE
  /\ Go(d, "snapshotting")
  /\ UNCHANGED <<backupInFlight, snapshot, manifest, archive, client, disturbed>>

\* Plausible slip: nobody awaits the manifest, and tar starts without it.
SnapshotThenTar(d) ==
  /\ phase[d] = "snapshotting"
  /\ staged /\ snapshot = None
  /\ snapshot' = d
  /\ Go(d, "tarring")
  /\ UNCHANGED <<backupInFlight, staged, manifest, archive, client, disturbed>>

\* VACUUM INTO refuses a file that exists, and needs the directory.
Snapshot(d) ==
  /\ phase[d] = "snapshotting"
  /\ staged /\ snapshot = None
  /\ snapshot' = d
  /\ Go(d, "describing")
  /\ UNCHANGED <<backupInFlight, staged, manifest, archive, client, disturbed>>

\* Plausible slip: the manifest is written without its directory.
DescribeAnyway(d) ==
  /\ phase[d] = "describing"
  /\ manifest' = d
  /\ Go(d, "tarring")
  /\ UNCHANGED <<backupInFlight, staged, snapshot, archive, client, disturbed>>

\* The manifest is written, and tar spawned in the same turn.
Describe(d) ==
  /\ phase[d] = "describing"
  /\ staged
  /\ manifest' = d
  /\ Go(d, "tarring")
  /\ UNCHANGED <<backupInFlight, staged, snapshot, archive, client, disturbed>>

\* Plausible slip: the catch removes the staging directory, not the lock.
FailKeepsLock(d) ==
  /\ phase[d] \in {"clearing", "making", "snapshotting", "describing"}
  /\ Go(d, "undoing")
  /\ UNCHANGED <<backupInFlight, staging, archive, client, disturbed>>

\* Any of these steps throws; dispose clears the lock before it awaits rm.
Fail(d) ==
  /\ phase[d] \in {"clearing", "making", "snapshotting", "describing"}
  /\ backupInFlight' = FALSE
  /\ Go(d, "undoing")
  /\ UNCHANGED <<staging, archive, client, disturbed>>

-----------------------------------------------------------------------------
(* tar, the client, and the end of the download.                           *)

\* tar comes to the staging directory.
Walk(d) ==
  /\ phase[d] = "tarring"
  /\ archive' = [archive EXCEPT ![d] = [snapshot |-> snapshot, manifest |-> manifest]]
  /\ Go(d, "walked")
  /\ UNCHANGED <<backupInFlight, staging, client, disturbed>>

\* tar exits with 0: the response ends; dispose, up to its rm.
TarDone(d) ==
  /\ phase[d] = "walked"
  /\ backupInFlight' = FALSE
  /\ Go(d, "removing")
  /\ UNCHANGED <<staging, archive, client, disturbed>>

\* tar exits with an error: the socket is destroyed; the same dispose.
TarFails(d) ==
  /\ phase[d] \in {"tarring", "walked"}
  /\ backupInFlight' = FALSE
  /\ Go(d, "undoing")
  /\ UNCHANGED <<staging, archive, client, disturbed>>

\* The client goes away.  Nothing listens for it: the pipe is no longer read,
\* and tar, once it is full, neither ends nor is killed.
ClientLeaves(d) ==
  /\ phase[d] \in {"tarring", "walked"} /\ client[d]
  /\ client' = [client EXCEPT ![d] = FALSE]
  /\ UNCHANGED <<backupInFlight, phase, staging, archive, disturbed>>

\* The rm of dispose, at the path all downloads share.
Remove(d) ==
  /\ phase[d] \in {"removing", "undoing"}
  /\ RemoveStaging
  /\ DisturbOthers(d)
  /\ Go(d, IF phase[d] = "removing" THEN "complete" ELSE "failed")
  /\ UNCHANGED <<backupInFlight, archive, client>>

\* A restore removes the staging directory too (installDatabase).
RestoreRemoves ==
  /\ staged
  /\ RemoveStaging
  /\ disturbed' = disturbed \cup {e \in Downloads : phase[e] \in Building}
  /\ UNCHANGED <<backupInFlight, phase, archive, client>>

\* The backend restarts; the staging directory stays.
Restart ==
  /\ \E d \in Downloads : phase[d] \in Building \cup {"rootless", "removing", "undoing"}
  /\ backupInFlight' = FALSE
  /\ phase' = [d \in Downloads |->
       IF phase[d] \in {"new", "refused", "complete"} THEN phase[d] ELSE "failed"]
  /\ UNCHANGED <<staging, archive, client, disturbed>>

Build(d) ==
  \/ ResolveRoot(d)
  \/ Clear(d)
  \/ Make(d)
  \/ Snapshot(d)
  \/ Describe(d)

Progress(d) ==
  \/ Build(d)
  \/ Fail(d)
  \/ client[d] /\ Walk(d)
  \/ client[d] /\ TarDone(d)
  \/ Remove(d)

Next ==
  \/ \E d \in Downloads : Open(d)
  \/ \E d \in Downloads : Build(d)
  \/ \E d \in Downloads : Fail(d)
  \/ \E d \in Downloads : Walk(d) \/ TarDone(d) \/ TarFails(d) \/ ClientLeaves(d)
  \/ \E d \in Downloads : Remove(d)
  \/ RestoreRemoves
  \/ Restart

Spec == Init /\ [][Next]_vars

\* Node goes on with a promise that settles, and tar with a pipe that is read.
FairSpec == Spec /\ \A d \in Downloads : WF_vars(Progress(d))

-----------------------------------------------------------------------------
(* Properties.                                                             *)

\* "One backup at a time" (backup.service.ts:150): the lock keeps two
\* downloads from building or archiving at once, whatever fails or restarts.
OneAtATime ==
  \A d, e \in Downloads : phase[d] \in Building /\ phase[e] \in Building => d = e

\* A complete archive that nobody disturbed carries its own snapshot and its
\* own manifest, also after a restart that left another's behind.
OwnSnapshot ==
  \A d \in Downloads :
    phase[d] \in {"removing", "complete"} /\ d \notin disturbed
      => archive[d] = [snapshot |-> d, manifest |-> d]

\* The lock is released again and again, except when a client went away in
\* the middle or the home directory could not be resolved.
LockReleased ==
  []<>~backupInFlight \/ <>(\E d \in Downloads : ~client[d] \/ phase[d] = "rootless")
=============================================================================
