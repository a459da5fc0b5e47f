------------------------------- MODULE Files --------------------------------
(***************************************************************************)
(* The home directory and its trash: FilesService, TrashService and the    *)
(* part of ArchiveService that puts an extracted tree in place             *)
(* (apps/backend/src/modules/files, archive).                              *)
(*                                                                         *)
(* A path is a name, and what it holds a document: a file's bytes or a     *)
(* folder's tree.  Every await ends an action, and nothing keeps two       *)
(* requests apart: what one has checked another may change before it acts. *)
(* Every call to the file system may fail and the backend may stop         *)
(* anywhere: both are Refuse, and a stop is a Refuse of every request.     *)
(***************************************************************************)
EXTENDS Naturals, Sequences

CONSTANTS
  Requests,    \* slots for requests in flight
  Names,       \* paths in the home directory
  Ids,         \* names inside Trash/files
  TrashNames,  \* TrashNames[n]: the ids uniqueName tries for n, in order
  BackNames,   \* BackNames[n]: the paths restore tries for n, in order
  Docs,        \* documents; each is written at most once
  Folders,     \* those that are folders
  Absent, NoInfo, None

ASSUME FilesAssumption ==
  /\ TrashNames \in [Names -> Seq(Ids)] /\ BackNames \in [Names -> Seq(Names)]
  /\ Folders \subseteq Docs /\ Absent \notin Docs
  /\ None \notin Docs \cup Names \cup Ids /\ NoInfo \notin Names

VARIABLES
  home,     \* what each path holds
  bin,      \* what each id in Trash/files holds
  info,     \* the path in Trash/info/<id>.trashinfo: NoInfo, if there is none
  partial,  \* the documents whose bytes are not all written
  fresh,    \* the documents nobody has written yet
  req,      \* the requests in flight
  \* History:
  origin,   \* the path each item of the trash came from
  rivals,   \* requests that met another one with the same target
  muddled   \* ids that two requests worked on, or one while the trash was emptied

disk    == <<home, bin, info>>
history == <<origin, rivals, muddled>>
vars    == <<disk, partial, fresh, req, history>>

Phases == {"idle", "staging", "saving", "checking", "opening", "overwriting", "writing",
           "moving", "deleting", "clearing", "unpacking",
           "naming", "noting", "binning", "unnoting",
           "finding", "placing", "returning", "forgetting", "removing",
           "emptying", "dropping"}

Request == [phase: Phases,
            from: Names \cup {None},  \* the path it takes something from
            to: Names \cup {None},    \* the path it puts something at
            id: Ids \cup {None},      \* the item of the trash it works on
            doc: Docs \cup {None},    \* what it writes
            try: Nat,                 \* how many names it has tried
            left: SUBSET Ids,         \* what emptying has still to remove
            mixed: BOOLEAN]           \* its open file was opened by another writer

Idle == [phase |-> "idle", from |-> None, to |-> None, id |-> None, doc |-> None,
         try |-> 1, left |-> {}, mixed |-> FALSE]

TypeOK ==
  /\ home \in [Names -> Docs \cup {Absent}] /\ bin \in [Ids -> Docs \cup {Absent}]
  /\ info \in [Ids -> Names \cup {NoInfo}]
  /\ partial \subseteq Docs /\ fresh \subseteq Docs
  /\ req \in [Requests -> Request]
  /\ origin \in [Ids -> Names \cup {None}]
  /\ rivals \subseteq Requests /\ muddled \subseteq Ids

Init ==
  /\ home \in [Names -> Docs \cup {Absent}]
  /\ \A m, n \in Names : home[m] = home[n] /\ home[m] # Absent => m = n
  /\ bin = [i \in Ids |-> Absent] /\ info = [i \in Ids |-> NoInfo]
  /\ partial = {} /\ fresh = Docs \ {home[n] : n \in Names}
  /\ req = [q \in Requests |-> Idle]
  /\ origin = [i \in Ids |-> None] /\ rivals = {} /\ muddled = {}

\* rename puts d where x is: over a file if it is one, else only where
\* nothing is.
Takes(x, d) == x = Absent \/ {x, d} \cap Folders = {}

Begin(q, r) == /\ req[q] = Idle
               /\ req' = [req EXCEPT ![q] = r]

Go(q, p) == req' = [req EXCEPT ![q].phase = p]

Done(q) == req' = [req EXCEPT ![q] = Idle]

-----------------------------------------------------------------------------
(* Saving: uploadFile copies the upload to a file of its own beside the    *)
(* target and renames it over; writeFile opens the target itself, and so   *)
(* do createFile, copy, extractZip and compressZip.                        *)

Upload(q, n, d) ==
  /\ d \in fresh \ Folders
  /\ Begin(q, [Idle EXCEPT !.phase = "staging", !.to = n, !.doc = d])
  /\ fresh' = fresh \ {d}
  /\ UNCHANGED <<disk, partial>>

\* Plausible slip: copyFile straight onto the target.
StageInPlace(q) ==
  /\ req[q].phase = "staging"
  /\ Takes(home[req[q].to], req[q].doc)
  /\ home' = [home EXCEPT ![req[q].to] = req[q].doc]
  /\ partial' = partial \cup {req[q].doc}
  /\ Go(q, "writing")
  /\ UNCHANGED <<bin, info, fresh>>

Stage(q) ==
  /\ req[q].phase = "staging"
  /\ Go(q, "saving")
  /\ UNCHANGED <<disk, partial, fresh>>

Install(q) ==
  LET r == req[q] IN
  /\ r.phase = "saving"
  /\ Takes(home[r.to], r.doc)
  /\ home' = [home EXCEPT ![r.to] = r.doc]
  /\ Done(q)
  /\ UNCHANGED <<bin, info, partial, fresh>>

WriteFile(q, n, d) ==
  /\ d \in fresh \ Folders
  /\ Begin(q, [Idle EXCEPT !.phase = "overwriting", !.to = n, !.doc = d])
  /\ fresh' = fresh \ {d}
  /\ UNCHANGED <<disk, partial>>

CreateFile(q, n, d) ==
  /\ d \in fresh \ Folders
  /\ Begin(q, [Idle EXCEPT !.phase = "checking", !.to = n, !.doc = d])
  /\ fresh' = fresh \ {d}
  /\ UNCHANGED <<disk, partial>>

Copy(q, m, n, d) ==
  /\ m # n /\ home[m] # Absent
  /\ home[m] \notin Folders /\ d \in fresh \ Folders
  /\ Begin(q, [Idle EXCEPT !.phase = "checking", !.from = m, !.to = n, !.doc = d])
  /\ fresh' = fresh \ {d}
  /\ UNCHANGED <<disk, partial>>

\* The destination must not exist; for a move too.
CheckFree(q) ==
  /\ req[q].phase = "checking"
  /\ home[req[q].to] = Absent
  /\ Go(q, IF req[q].doc = None THEN "moving" ELSE "opening")
  /\ UNCHANGED <<disk, partial, fresh>>

\* Opening truncates.  Who is still writing this file goes on writing it.
Open(q) ==
  LET r == req[q]
      old == home[r.to]
      others == {p \in Requests : req[p].phase = "writing" /\ req[p].doc = old}
  IN
  /\ r.phase \in {"opening", "overwriting"}
  /\ old \notin Folders
  /\ home' = [home EXCEPT ![r.to] = r.doc]
  /\ partial' = partial \cup {r.doc}
  /\ req' = [p \in Requests |->
       IF p = q THEN [r EXCEPT !.phase = "writing", !.mixed = (others # {})]
       ELSE IF p \in others THEN [req[p] EXCEPT !.doc = r.doc, !.mixed = TRUE]
       ELSE req[p]]
  /\ UNCHANGED <<bin, info, fresh>>

\* Two writers of one file leave a whole document or a mixture.
Written(q) ==
  /\ req[q].phase = "writing"
  /\ \/ partial' = partial \ {req[q].doc}
     \/ req[q].mixed /\ partial' = partial \cup {req[q].doc}
  /\ Done(q)
  /\ UNCHANGED <<disk, fresh>>

\* copyFile removes what it could not finish.
CopyFails(q) ==
  /\ req[q].phase = "writing" /\ req[q].from # None
  /\ home' = [home EXCEPT ![req[q].to] = Absent]
  /\ Done(q)
  /\ UNCHANGED <<bin, info, partial, fresh>>

-----------------------------------------------------------------------------
(* Moving, deleting, and mergeTree of an archive with one entry: it        *)
(* removes what is there and renames the new one in.                       *)

Move(q, m, n) ==
  /\ m # n /\ home[m] # Absent
  /\ Begin(q, [Idle EXCEPT !.phase = "checking", !.from = m, !.to = n])
  /\ UNCHANGED <<disk, partial, fresh>>

Rename(q) ==
  LET r == req[q] IN
  /\ r.phase = "moving"
  /\ home[r.from] # Absent /\ Takes(home[r.to], home[r.from])
  /\ home' = [home EXCEPT ![r.to] = home[r.from], ![r.from] = Absent]
  /\ Done(q)
  /\ UNCHANGED <<bin, info, partial, fresh>>

Delete(q, n) ==
  /\ home[n] # Absent
  /\ Begin(q, [Idle EXCEPT !.phase = "deleting", !.from = n])
  /\ UNCHANGED <<disk, partial, fresh>>

Unlink(q) ==
  /\ req[q].phase = "deleting"
  /\ home' = [home EXCEPT ![req[q].from] = Absent]
  /\ Done(q)
  /\ UNCHANGED <<bin, info, partial, fresh>>

Extract(q, n, d) ==
  /\ d \in fresh
  /\ Begin(q, [Idle EXCEPT !.phase = "clearing", !.to = n, !.doc = d])
  /\ fresh' = fresh \ {d}
  /\ UNCHANGED <<disk, partial>>

Clear(q) ==
  /\ req[q].phase = "clearing"
  /\ home' = [home EXCEPT ![req[q].to] = Absent]
  /\ Go(q, "unpacking")
  /\ UNCHANGED <<bin, info, partial, fresh>>

Unpack(q) ==
  LET r == req[q] IN
  /\ r.phase = "unpacking"
  /\ Takes(home[r.to], r.doc)
  /\ home' = [home EXCEPT ![r.to] = r.doc]
  /\ Done(q)
  /\ UNCHANGED <<bin, info, partial, fresh>>

-----------------------------------------------------------------------------
(* trash: find a free name, write the info file, rename.                   *)

Trash(q, n) ==
  /\ home[n] # Absent
  /\ Begin(q, [Idle EXCEPT !.phase = "naming", !.from = n])
  /\ UNCHANGED <<disk, partial, fresh>>

UniqueName(q) ==
  LET r == req[q] IN
  /\ r.phase = "naming" /\ r.try \in DOMAIN TrashNames[r.from]
  /\ LET i == TrashNames[r.from][r.try]
     IN  req' = [req EXCEPT ![q] = IF bin[i] = Absent
                                   THEN [r EXCEPT !.phase = "noting", !.id = i]
                                   ELSE [r EXCEPT !.try = r.try + 1]]
  /\ UNCHANGED <<disk, partial, fresh>>

\* Plausible slip: the info names the place in the trash, not the one before.
NoteTrashPath(q) ==
  /\ req[q].phase = "noting"
  /\ info' = [info EXCEPT ![req[q].id] = req[q].id]
  /\ Go(q, "binning")
  /\ UNCHANGED <<home, bin, partial, fresh>>

Note(q) ==
  /\ req[q].phase = "noting"
  /\ info' = [info EXCEPT ![req[q].id] = req[q].from]
  /\ Go(q, "binning")
  /\ UNCHANGED <<home, bin, partial, fresh>>

\* A full disk: the file is there without its path.
NoteFails(q) ==
  /\ req[q].phase = "noting"
  /\ info' = [info EXCEPT ![req[q].id] = NoInfo]
  /\ Done(q)
  /\ UNCHANGED <<home, bin, partial, fresh>>

Bin(q) ==
  LET r == req[q] IN
  /\ r.phase = "binning"
  /\ home[r.from] # Absent /\ Takes(bin[r.id], home[r.from])
  /\ bin' = [bin EXCEPT ![r.id] = home[r.from]]
  /\ home' = [home EXCEPT ![r.from] = Absent]
  /\ Done(q)
  /\ UNCHANGED <<info, partial, fresh>>

BinFails(q) ==
  /\ req[q].phase = "binning"
  /\ Go(q, "unnoting")
  /\ UNCHANGED <<disk, partial, fresh>>

-----------------------------------------------------------------------------
(* restore: read the info file, find a free path, rename, forget the info. *)
(* remove and empty: the items, then their infos.                          *)

Restore(q, i) ==
  /\ info[i] \in Names
  /\ Begin(q, [Idle EXCEPT !.phase = "finding", !.id = i, !.from = info[i]])
  /\ UNCHANGED <<disk, partial, fresh>>

\* Plausible slip: the info goes before the item is back.
FindForgets(q) ==
  /\ req[q].phase = "finding"
  /\ bin[req[q].id] # Absent
  /\ info' = [info EXCEPT ![req[q].id] = NoInfo]
  /\ Go(q, "placing")
  /\ UNCHANGED <<home, bin, partial, fresh>>

Find(q) ==
  /\ req[q].phase = "finding"
  /\ bin[req[q].id] # Absent
  /\ Go(q, "placing")
  /\ UNCHANGED <<disk, partial, fresh>>

\* Plausible slip: it goes back where it was.
PlaceAsWas(q) ==
  /\ req[q].phase = "placing"
  /\ req' = [req EXCEPT ![q].phase = "returning", ![q].to = req[q].from]
  /\ UNCHANGED <<disk, partial, fresh>>

Place(q) ==
  LET r == req[q] IN
  /\ r.phase = "placing" /\ r.try \in DOMAIN BackNames[r.from]
  /\ LET n == BackNames[r.from][r.try]
     IN  req' = [req EXCEPT ![q] = IF home[n] = Absent
                                   THEN [r EXCEPT !.phase = "returning", !.to = n]
                                   ELSE [r EXCEPT !.try = r.try + 1]]
  /\ UNCHANGED <<disk, partial, fresh>>

Return(q) ==
  LET r == req[q] IN
  /\ r.phase = "returning"
  /\ bin[r.id] # Absent /\ Takes(home[r.to], bin[r.id])
  /\ home' = [home EXCEPT ![r.to] = bin[r.id]]
  /\ bin' = [bin EXCEPT ![r.id] = Absent]
  /\ Go(q, "forgetting")
  /\ UNCHANGED <<info, partial, fresh>>

\* After a restore, a removal, or a rename into the trash that failed.
Forget(q) ==
  /\ req[q].phase \in {"forgetting", "unnoting"}
  /\ info' = [info EXCEPT ![req[q].id] = NoInfo]
  /\ Done(q)
  /\ UNCHANGED <<home, bin, partial, fresh>>

Remove(q, i) ==
  /\ bin[i] # Absent
  /\ Begin(q, [Idle EXCEPT !.phase = "removing", !.id = i])
  /\ UNCHANGED <<disk, partial, fresh>>

RemoveItem(q) ==
  /\ req[q].phase = "removing"
  /\ bin' = [bin EXCEPT ![req[q].id] = Absent]
  /\ Go(q, "forgetting")
  /\ UNCHANGED <<home, info, partial, fresh>>

Empty(q) ==
  /\ Begin(q, [Idle EXCEPT !.phase = "emptying", !.left = {i \in Ids : bin[i] # Absent}])
  /\ UNCHANGED <<disk, partial, fresh>>

EmptyItem(q) ==
  /\ req[q].phase = "emptying"
  /\ \E i \in req[q].left :
       /\ bin' = [bin EXCEPT ![i] = Absent]
       /\ req' = [req EXCEPT ![q].left = @ \ {i}]
  /\ UNCHANGED <<home, info, partial, fresh>>

EmptyLists(q) ==
  /\ req[q].phase = "emptying" /\ req[q].left = {}
  /\ req' = [req EXCEPT ![q].phase = "dropping", ![q].left = {i \in Ids : info[i] # NoInfo}]
  /\ UNCHANGED <<disk, partial, fresh>>

EmptyInfo(q) ==
  /\ req[q].phase = "dropping"
  /\ \E i \in req[q].left :
       /\ info' = [info EXCEPT ![i] = NoInfo]
       /\ req' = [req EXCEPT ![q].left = @ \ {i}]
  /\ UNCHANGED <<home, bin, partial, fresh>>

-----------------------------------------------------------------------------
\* A check that says no, an error that is only reported, or the backend
\* stops: what was done stays done.  Emptying ends here too.
Refuse(q) ==
  /\ req[q] # Idle
  /\ Done(q)
  /\ UNCHANGED <<disk, partial, fresh>>

Save(q) ==
  \/ \E n \in Names, d \in Docs : Upload(q, n, d) \/ WriteFile(q, n, d) \/ CreateFile(q, n, d)
  \/ \E m, n \in Names, d \in Docs : Copy(q, m, n, d)
  \/ Stage(q)
  \/ Install(q)
  \/ Open(q)
  \/ Written(q)
  \/ CopyFails(q)

Arrange(q) ==
  \/ \E m, n \in Names : Move(q, m, n)
  \/ CheckFree(q)
  \/ Rename(q)
  \/ \E n \in Names : Delete(q, n)
  \/ Unlink(q)
  \/ \E n \in Names, d \in Docs : Extract(q, n, d)
  \/ Clear(q)
  \/ Unpack(q)

PutInTrash(q) ==
  \/ \E n \in Names : Trash(q, n)
  \/ UniqueName(q)
  \/ Note(q)
  \/ NoteFails(q)
  \/ Bin(q)
  \/ BinFails(q)

TakeFromTrash(q) ==
  \/ \E i \in Ids : Restore(q, i) \/ Remove(q, i)
  \/ Find(q)
  \/ Place(q)
  \/ Return(q)
  \/ Forget(q)
  \/ RemoveItem(q)
  \/ Empty(q)
  \/ EmptyItem(q)
  \/ EmptyLists(q)
  \/ EmptyInfo(q)

Step == \E q \in Requests :
  Save(q) \/ Arrange(q) \/ PutInTrash(q) \/ TakeFromTrash(q) \/ Refuse(q)

\* A request of the trash has its target in it, any other one in the home
\* directory; restore has both.
SameTarget(r, s) ==
  \/ r.to = s.to /\ r.to # None
  \/ r.id = s.id /\ r.id # None

Emptying == \E q \in Requests : req[q].phase \in {"emptying", "dropping"}

Workers(i) == {q \in Requests : req[q].id = i}

Crowded(i) == (\E p, q \in Workers(i) : p # q) \/ (Workers(i) # {} /\ Emptying)

\* What the history remembers, after every step.
Observe ==
  /\ rivals' = {q \in Requests : /\ req'[q] # Idle
                                 /\ \/ q \in rivals
                                    \/ \E p \in Requests \ {q} : SameTarget(req'[p], req'[q])}
  /\ muddled' = {i \in Ids :
       \/ Crowded(i)'
       \/ i \in muddled /\ (bin'[i] # Absent \/ Workers(i)' # {})}
  /\ origin' = [i \in Ids |->
       IF bin'[i] = Absent THEN None
       ELSE IF bin'[i] = bin[i] THEN origin[i]
       ELSE CHOOSE n \in Names : home[n] = bin'[i]]

Next == Step /\ Observe

Spec == Init /\ [][Next]_vars

-----------------------------------------------------------------------------
(* Properties.                                                             *)

Held == {home[n] : n \in Names} \cup {bin[i] : i \in Ids}

\* q was asked to give up the document d: to delete it, to empty the trash,
\* or to write over it.  A save that stages gives it up only for the whole of
\* the new one.
Asked(q, d) ==
  LET r == req[q] IN
  \/ r.phase = "deleting" /\ home[r.from] = d
  \/ r.phase = "removing" /\ bin[r.id] = d
  \/ r.phase = "emptying" /\ \E i \in r.left : bin[i] = d
  \/ r.phase \in {"clearing", "overwriting"} /\ home[r.to] = d
  \/ r.phase = "saving" /\ home[r.to] = d /\ home'[r.to] = r.doc /\ r.doc \notin partial'

\* A document leaves the home directory and the trash only at the hands of a
\* request that was asked to give it up: trashing, restoring, moving, copying
\* and creating never destroy one, whatever fails and wherever the backend
\* stops, unless two requests in flight had the same target.
NothingVanishes ==
  [][\A d \in (Held \cap Docs) \ partial :
       \/ d \in Held'
       \/ \E q \in Requests : \/ Asked(q, d)
                              \/ q \in rivals /\ req'[q].phase # req[q].phase]_vars

\* "An entry in files/ with no info/ is unrestorable" (trash.service.ts:147):
\* every item of the trash is listed with the path it came from, over failures
\* and restarts, unless two requests worked on its id at once or one did while
\* the trash was being emptied.
TrashedIsRestorable ==
  \A i \in Ids \ muddled : bin[i] # Absent => info[i] = origin[i]

\* "A name inside Trash/files that does not collide" (trash.service.ts:102):
\* what the trash holds under an id is taken out or removed, never replaced.
TrashIdsDoNotCollide ==
  [][\A i \in Ids : bin[i] # Absent /\ bin'[i] # bin[i] => bin'[i] = Absent]_vars
=============================================================================
