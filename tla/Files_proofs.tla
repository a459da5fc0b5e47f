---------------------------- MODULE Files_proofs ----------------------------
(***************************************************************************)
(* Proofs about Files, for any number of requests, paths, ids and          *)
(* documents.                                                              *)
(*                                                                         *)
(* Every action is one request's, and Effect says what it may do: it puts  *)
(* something only at its own target, notes only under its own id, and      *)
(* writes only its own document.  From that alone follows what the         *)
(* requests that only look on keep: a target that was free when it was     *)
(* checked is free, or somebody else with this target was met.             *)
(***************************************************************************)
EXTENDS Files, TLAPS

\* Each document lies in one place.
Distinct ==
  /\ \A m, n \in Names : home[m] = home[n] /\ home[m] # Absent => m = n
  /\ \A i, j \in Ids : bin[i] = bin[j] /\ bin[i] # Absent => i = j
  /\ \A n \in Names, i \in Ids : home[n] = bin[i] => home[n] = Absent

Unheld(d) == (\A n \in Names : home[n] # d) /\ (\A i \in Ids : bin[i] # d)

\* r has a document that it is still to write.
Waits(r) ==
  /\ r.doc # None
  /\ r.phase \in {"staging", "saving", "checking", "opening", "overwriting", "clearing", "unpacking"}

\* Such a document is nowhere yet, and nobody else's.
Unwritten ==
  /\ \A q \in Requests : Waits(req[q]) =>
       /\ Unheld(req[q].doc) /\ req[q].doc \notin fresh /\ req[q].doc \notin partial
       /\ \A p \in Requests \ {q} : req[p].doc # req[q].doc
  /\ \A d \in fresh :
       /\ Unheld(d) /\ d \notin partial
       /\ \A p \in Requests : req[p].doc # d

\* What the fields of a request hold in each phase.
Shape(r) ==
  /\ r.phase \in {"staging", "saving", "opening", "overwriting", "writing", "clearing", "unpacking"}
       => r.to \in Names /\ r.doc \in Docs
  /\ r.phase = "overwriting" => r.from = None
  /\ r.phase = "checking" =>
       /\ r.to \in Names
       /\ r.doc = None => r.from \in Names /\ r.from # r.to
  /\ r.phase = "moving" => r.from \in Names /\ r.to \in Names /\ r.from # r.to
  /\ r.phase \in {"deleting", "naming", "noting", "binning", "finding", "placing"} => r.from \in Names
  /\ r.phase \in {"noting", "binning", "unnoting", "finding", "placing", "returning",
                  "forgetting", "removing"} => r.id \in Ids
  /\ r.phase = "returning" => r.to \in Names

Shapes == \A q \in Requests : Shape(req[q])

Meeting == \A p, q \in Requests : p # q /\ SameTarget(req[p], req[q]) => q \in rivals

Crowding == \A i \in Ids : Crowded(i) => i \in muddled

\* What the only request that works on an id has found there.
Lone ==
  \A i \in Ids \ muddled, q \in Requests : req[q].id = i =>
    /\ req[q].phase \in {"noting", "binning", "unnoting", "forgetting"} => bin[i] = Absent
    /\ req[q].phase = "binning" => info[i] = req[q].from

\* Who empties the trash has listed what is in it, unless it came meanwhile.
Emptied ==
  \A i \in Ids \ muddled, q \in Requests : bin[i] # Absent =>
    /\ req[q].phase = "emptying" => i \in req[q].left
    /\ req[q].phase # "dropping"

\* What r has found free is free.
Free(r) ==
  /\ r.phase \in {"opening", "moving", "returning", "unpacking"} => home[r.to] = Absent
  /\ r.phase \in {"noting", "binning"} => bin[r.id] = Absent

\* A copy that fails removes its own file.
OwnCopy(q) ==
  req[q].phase = "writing" /\ req[q].from # None =>
    \/ home[req[q].to] = Absent
    \/ /\ home[req[q].to] = req[q].doc /\ req[q].doc \in partial
       /\ \A p \in Requests \ {q} : req[p].phase = "writing" => req[p].doc # req[q].doc

Unrivalled == \A q \in Requests \ rivals : Free(req[q]) /\ OwnCopy(q)

Typed ==
  /\ home \in [Names -> Docs \cup {Absent}] /\ bin \in [Ids -> Docs \cup {Absent}]
  /\ info \in [Ids -> Names \cup {NoInfo}]
  /\ partial \subseteq Docs /\ fresh \subseteq Docs
  /\ req \in [Requests -> Request]

Base == Typed /\ Shapes /\ Distinct /\ Unwritten

FInv ==
  /\ Base /\ TypeOK
  /\ Meeting /\ Unrivalled
  /\ Crowding /\ Lone /\ Emptied /\ TrashedIsRestorable

-----------------------------------------------------------------------------
(* What an action of the request q may do.                                 *)

\* The others stay; only who is writing the file that q opens goes on with
\* the document of q.
Stays(q) ==
  \A p \in Requests \ {q} :
    /\ req'[p].phase = req[p].phase /\ req'[p].from = req[p].from /\ req'[p].to = req[p].to
    /\ req'[p].id = req[p].id /\ req'[p].left = req[p].left
    /\ req[p].phase # "writing" => req'[p] = req[p]
    /\ \/ req'[p].doc = req[p].doc
       \/ /\ req'[p].doc = req[q].doc /\ Waits(req[q]) /\ ~Waits(req'[q])
          /\ req[q].to \in Names /\ home[req[q].to] = req[p].doc

Puts(q) ==
  /\ \A n \in Names : home'[n] # home[n] /\ home'[n] # Absent => req[q].to = n
  /\ \A i \in Ids : bin'[i] # bin[i] /\ bin'[i] # Absent =>
       /\ req[q].phase = "binning" /\ req[q].id = i
       /\ bin'[i] = home[req[q].from] /\ info'[i] = info[i]
  /\ \A i \in Ids : bin'[i] # bin[i] => req[q].id = i \/ req[q].phase = "emptying"
  /\ \A i \in Ids : info'[i] # info[i] =>
       \/ req[q].id = i /\ req[q].phase \in {"noting", "unnoting", "forgetting"}
       \/ req[q].phase = "dropping"

Writes(q) ==
  /\ fresh' \subseteq fresh
  /\ \A d \in Docs : Unheld(d) =>
       Unheld(d)' \/ (d = req[q].doc /\ Waits(req[q]) /\ ~Waits(req'[q]))
  /\ \A d \in partial' : d \notin partial =>
       /\ d = req[q].doc /\ ~Waits(req'[q])
       /\ Waits(req[q]) \/ req[q].phase = "writing"
  /\ \A d \in partial : d \notin partial' => d = req[q].doc /\ req[q].phase = "writing"
  /\ \/ req'[q].doc \in {None, req[q].doc}
     \/ req'[q].doc \in fresh /\ req'[q].doc \notin fresh'
  /\ Waits(req'[q]) =>
       \/ req'[q].doc = req[q].doc /\ Waits(req[q])
       \/ req'[q].doc \in fresh /\ req'[q].doc \notin fresh'

Notes(q) ==
  LET r == req'[q] IN
  /\ r.phase \in {"noting", "forgetting"} => bin'[r.id] = Absent
  /\ r.phase \in {"binning", "unnoting"} =>
       req[q].phase \in {"noting", "binning"} /\ req[q].id = r.id /\ bin' = bin
  /\ r.phase = "binning" => info'[r.id] = r.from /\ req[q].phase = "noting"
  /\ r.phase = "emptying" => \A i \in Ids : bin'[i] # Absent =>
       i \in r.left \/ (req[q].phase = "emptying" /\ bin[i] # Absent /\ i \notin req[q].left)
  /\ r.phase = "dropping" => \A i \in Ids : bin'[i] # Absent =>
       /\ bin[i] # Absent
       /\ req[q].phase = "dropping" \/ (req[q].phase = "emptying" /\ i \notin req[q].left)

Checks(q) ==
  LET r == req'[q] IN
  /\ r.phase \in {"opening", "moving", "returning", "unpacking"} => home'[r.to] = Absent
  /\ r.phase = "writing" =>
       /\ req[q].phase \in {"opening", "overwriting"} /\ Waits(req[q])
       /\ r.from = req[q].from /\ r.to = req[q].to /\ r.doc = req[q].doc
       /\ home'[r.to] = r.doc /\ r.doc \in partial'

Effect(q) == Stays(q) /\ Puts(q) /\ Writes(q) /\ Notes(q) /\ Checks(q)

Act(q) == Typed' /\ Shape(req'[q]) /\ Distinct' /\ Effect(q)

-----------------------------------------------------------------------------
(* Requests.                                                               *)

LEMMA IdleFields ==
  /\ Idle \in Request /\ Idle.phase = "idle" /\ Idle.from = None /\ Idle.to = None
  /\ Idle.id = None /\ Idle.doc = None /\ Idle.left = {}
BY DEF Idle, Request, Phases

LEMMA Going ==
  ASSUME Typed, NEW q \in Requests, NEW p \in Phases, Go(q, p)
  PROVE  /\ req' \in [Requests -> Request]
         /\ \A o \in Requests \ {q} : req'[o] = req[o]
         /\ req'[q].phase = p /\ req'[q].from = req[q].from /\ req'[q].to = req[q].to
         /\ req'[q].id = req[q].id /\ req'[q].doc = req[q].doc /\ req'[q].left = req[q].left
<1>1. req[q] \in Request /\ req' = [req EXCEPT ![q] = [req[q] EXCEPT !.phase = p]]
  BY DEF Typed, Go
<1>2. PICK r : r = [req[q] EXCEPT !.phase = p]
  OBVIOUS
<1>3. /\ r \in Request
      /\ r.phase = p /\ r.from = req[q].from /\ r.to = req[q].to
      /\ r.id = req[q].id /\ r.doc = req[q].doc /\ r.left = req[q].left
  BY <1>1, <1>2 DEF Request
<1>4. req' = [req EXCEPT ![q] = r]
  BY <1>1, <1>2
<1> QED BY <1>3, <1>4 DEF Typed

LEMMA Ending ==
  ASSUME Typed, NEW q \in Requests, Done(q)
  PROVE  /\ req' \in [Requests -> Request]
         /\ \A o \in Requests \ {q} : req'[o] = req[o]
         /\ req'[q] = Idle
BY IdleFields DEF Typed, Done

LEMMA Beginning ==
  ASSUME Typed, NEW q \in Requests, NEW r \in Request, Begin(q, r)
  PROVE  /\ req' \in [Requests -> Request]
         /\ \A o \in Requests \ {q} : req'[o] = req[o]
         /\ req'[q] = r /\ req[q] = Idle
BY DEF Typed, Begin

\* A step of q alone.
LEMMA Alone ==
  ASSUME NEW q \in Requests, \A o \in Requests \ {q} : req'[o] = req[o]
  PROVE  Stays(q)
BY DEF Stays

\* Nothing on the disk changes.
LEMMA Quiet ==
  ASSUME Base, NEW q \in Requests, UNCHANGED <<disk, partial>>
  PROVE  /\ home' = home /\ bin' = bin /\ info' = info
         /\ Distinct' /\ Puts(q)
         /\ \A d \in Docs : Unheld(d) => Unheld(d)'
BY DEF Base, Distinct, Puts, Unheld, disk

\* q begins something: with a fresh document, or with none.
LEMMA BeginQuiet ==
  ASSUME Base, NEW q \in Requests, NEW r \in Request, Begin(q, r), Shape(r),
         UNCHANGED <<disk, partial>>,
         \/ r.doc = None /\ fresh' = fresh
         \/ r.doc \in fresh /\ fresh' = fresh \ {r.doc},
         r.phase \in {"staging", "overwriting", "checking", "deleting", "clearing", "naming",
                      "finding", "removing", "emptying"},
         r.phase = "emptying" => r.left = {i \in Ids : bin[i] # Absent}
  PROVE  Act(q)
<1>1. /\ req' \in [Requests -> Request]
      /\ \A o \in Requests \ {q} : req'[o] = req[o]
      /\ req'[q] = r
  BY Beginning DEF Base
<1>2. Typed'
  BY <1>1 DEF Base, Typed, disk
<1>3. Distinct' /\ Puts(q) /\ Stays(q) /\ bin' = bin
  BY <1>1, Quiet, Alone
<1>4. Writes(q)
  <2>1. \A d \in Docs : Unheld(d) => Unheld(d)'
    BY Quiet
  <2>2. Waits(req'[q]) => req'[q].doc \in fresh /\ req'[q].doc \notin fresh'
    BY <1>1 DEF Waits
  <2> QED BY <1>1, <2>1, <2>2 DEF Writes
<1>5. Notes(q)
  BY <1>1, <1>3 DEF Notes
<1>6. Checks(q)
  BY <1>1 DEF Checks
<1> QED BY <1>1, <1>2, <1>3, <1>4, <1>5, <1>6 DEF Act, Effect

\* q goes on and nothing on the disk changes.
LEMMA GoQuiet ==
  ASSUME Base, NEW q \in Requests, NEW p \in Phases, Go(q, p),
         UNCHANGED <<disk, partial, fresh>>,
         \/ req[q].phase = "staging" /\ p = "saving"
         \/ req[q].phase = "checking" /\ p = "moving" /\ req[q].doc = None /\ home[req[q].to] = Absent
         \/ req[q].phase = "checking" /\ p = "opening" /\ req[q].doc # None /\ home[req[q].to] = Absent
         \/ req[q].phase = "binning" /\ p = "unnoting"
         \/ req[q].phase = "finding" /\ p = "placing"
  PROVE  Act(q)
<1>1. /\ req' \in [Requests -> Request]
      /\ \A o \in Requests \ {q} : req'[o] = req[o]
      /\ req'[q].phase = p /\ req'[q].from = req[q].from /\ req'[q].to = req[q].to
      /\ req'[q].id = req[q].id /\ req'[q].doc = req[q].doc /\ req'[q].left = req[q].left
  BY Going DEF Base
<1>2. Typed'
  BY <1>1 DEF Base, Typed, disk
<1>3. /\ Distinct' /\ Puts(q) /\ Stays(q) /\ home' = home /\ bin' = bin /\ info' = info
      /\ \A d \in Docs : Unheld(d) => Unheld(d)'
  BY <1>1, Quiet, Alone
<1>4. Shape(req[q]) /\ req[q] \in Request
  BY DEF Base, Shapes, Typed
<1>5. Shape(req'[q])
  BY <1>1, <1>4 DEF Shape, Request
<1>6. Waits(req'[q]) => Waits(req[q])
  BY <1>1 DEF Waits
<1>7. Writes(q)
  BY <1>1, <1>3, <1>6 DEF Writes
<1>8. Notes(q)
  BY <1>1, <1>3 DEF Notes
<1>9. Checks(q)
  BY <1>1, <1>3 DEF Checks
<1> QED BY <1>2, <1>3, <1>5, <1>7, <1>8, <1>9 DEF Act, Effect

\* q ends; what that does to the disk is what is left to say.
LEMMA EndWith ==
  ASSUME Base, NEW q \in Requests, Done(q), fresh' = fresh,
         home' \in [Names -> Docs \cup {Absent}], bin' \in [Ids -> Docs \cup {Absent}],
         info' \in [Ids -> Names \cup {NoInfo}], partial' \subseteq Docs,
         Distinct', Puts(q),
         \A d \in Docs : Unheld(d) => Unheld(d)' \/ (d = req[q].doc /\ Waits(req[q])),
         \A d \in partial' : d \notin partial => d = req[q].doc /\ req[q].phase = "writing",
         \A d \in partial : d \notin partial' => d = req[q].doc /\ req[q].phase = "writing"
  PROVE  Act(q)
<1>1. /\ req' \in [Requests -> Request]
      /\ \A o \in Requests \ {q} : req'[o] = req[o]
      /\ req'[q] = Idle
  BY Ending DEF Base
<1>2. Typed'
  BY <1>1 DEF Base, Typed
<1>3. Stays(q)
  BY <1>1, Alone
<1>4. /\ req'[q].phase = "idle" /\ req'[q].doc = None
  BY <1>1, IdleFields
<1>5. Shape(req'[q])
  BY <1>4 DEF Shape
<1>6. ~Waits(req'[q])
  BY <1>4 DEF Waits
<1>7. Writes(q)
  BY <1>4, <1>6 DEF Writes
<1>8. Notes(q) /\ Checks(q)
  BY <1>4 DEF Notes, Checks
<1> QED BY <1>2, <1>3, <1>5, <1>7, <1>8 DEF Act, Effect

-----------------------------------------------------------------------------
(* The disk.                                                               *)

LEMMA PutNew ==
  ASSUME Base, NEW n \in Names, NEW d \in Docs, Unheld(d),
         home' = [home EXCEPT ![n] = d], bin' = bin
  PROVE  /\ home' \in [Names -> Docs \cup {Absent}] /\ Distinct'
         /\ \A c \in Docs : Unheld(c) => Unheld(c)' \/ c = d
<1>1. home \in [Names -> Docs \cup {Absent}] /\ Distinct
  BY DEF Base, Typed
<1>2. home'[n] = d /\ \A m \in Names \ {n} : home'[m] = home[m]
  BY <1>1
<1>3. home' \in [Names -> Docs \cup {Absent}]
  BY <1>1
<1>4. Distinct'
  BY <1>1, <1>2 DEF Distinct, Unheld
<1> QED BY <1>2, <1>3, <1>4 DEF Unheld

LEMMA HomeCleared ==
  ASSUME Base, NEW n \in Names, home' = [home EXCEPT ![n] = Absent], bin' = bin
  PROVE  /\ home' \in [Names -> Docs \cup {Absent}] /\ Distinct'
         /\ \A m \in Names : home'[m] \in {home[m], Absent}
         /\ \A c \in Docs : Unheld(c) => Unheld(c)'
<1>1. home \in [Names -> Docs \cup {Absent}] /\ Distinct
  BY DEF Base, Typed
<1>2. home'[n] = Absent /\ \A m \in Names \ {n} : home'[m] = home[m]
  BY <1>1
<1>3. home' \in [Names -> Docs \cup {Absent}]
  BY <1>1
<1>4. Distinct'
  BY <1>1, <1>2 DEF Distinct
<1> QED BY <1>2, <1>3, <1>4, FilesAssumption DEF Unheld

LEMMA BinCleared ==
  ASSUME Base, NEW i \in Ids, bin' = [bin EXCEPT ![i] = Absent], home' = home
  PROVE  /\ bin' \in [Ids -> Docs \cup {Absent}] /\ Distinct'
         /\ bin'[i] = Absent /\ \A j \in Ids \ {i} : bin'[j] = bin[j]
         /\ \A c \in Docs : Unheld(c) => Unheld(c)'
<1>1. bin \in [Ids -> Docs \cup {Absent}] /\ Distinct
  BY DEF Base, Typed
<1>2. bin'[i] = Absent /\ \A j \in Ids \ {i} : bin'[j] = bin[j]
  BY <1>1
<1>3. bin' \in [Ids -> Docs \cup {Absent}]
  BY <1>1
<1>4. Distinct'
  BY <1>1, <1>2 DEF Distinct
<1> QED BY <1>2, <1>3, <1>4, FilesAssumption DEF Unheld

\* A document takes another place: from x to y, and from nowhere else.
LEMMA Moved ==
  ASSUME Base, NEW m \in Names, NEW n \in Names, m # n, home[m] # Absent,
         home' = [home EXCEPT ![n] = home[m], ![m] = Absent], bin' = bin
  PROVE  /\ home' \in [Names -> Docs \cup {Absent}] /\ Distinct'
         /\ home'[n] = home[m] /\ home'[m] = Absent
         /\ \A o \in Names \ {m, n} : home'[o] = home[o]
         /\ \A c \in Docs : Unheld(c) => Unheld(c)'
<1>1. home \in [Names -> Docs \cup {Absent}] /\ Distinct
  BY DEF Base, Typed
<1>2. /\ home'[n] = home[m] /\ home'[m] = Absent
      /\ \A o \in Names \ {m, n} : home'[o] = home[o]
  BY <1>1
<1>3. home' \in [Names -> Docs \cup {Absent}]
  BY <1>1
<1>4. Distinct'
  BY <1>1, <1>2 DEF Distinct
<1> QED BY <1>2, <1>3, <1>4, FilesAssumption DEF Unheld

LEMMA Binned ==
  ASSUME Base, NEW m \in Names, NEW i \in Ids, home[m] # Absent,
         bin' = [bin EXCEPT ![i] = home[m]], home' = [home EXCEPT ![m] = Absent]
  PROVE  /\ home' \in [Names -> Docs \cup {Absent}] /\ bin' \in [Ids -> Docs \cup {Absent}]
         /\ Distinct'
         /\ home'[m] = Absent /\ \A o \in Names \ {m} : home'[o] = home[o]
         /\ bin'[i] = home[m] /\ \A j \in Ids \ {i} : bin'[j] = bin[j]
         /\ \A c \in Docs : Unheld(c) => Unheld(c)'
<1>1. /\ home \in [Names -> Docs \cup {Absent}] /\ bin \in [Ids -> Docs \cup {Absent}]
      /\ Distinct
  BY DEF Base, Typed
<1>2. /\ home'[m] = Absent /\ \A o \in Names \ {m} : home'[o] = home[o]
      /\ bin'[i] = home[m] /\ \A j \in Ids \ {i} : bin'[j] = bin[j]
  BY <1>1
<1>3. home' \in [Names -> Docs \cup {Absent}] /\ bin' \in [Ids -> Docs \cup {Absent}]
  BY <1>1
<1>4. Distinct'
  BY <1>1, <1>2 DEF Distinct
<1> QED BY <1>2, <1>3, <1>4, FilesAssumption DEF Unheld

LEMMA Unbinned ==
  ASSUME Base, NEW n \in Names, NEW i \in Ids, bin[i] # Absent,
         home' = [home EXCEPT ![n] = bin[i]], bin' = [bin EXCEPT ![i] = Absent]
  PROVE  /\ home' \in [Names -> Docs \cup {Absent}] /\ bin' \in [Ids -> Docs \cup {Absent}]
         /\ Distinct'
         /\ home'[n] = bin[i] /\ \A o \in Names \ {n} : home'[o] = home[o]
         /\ bin'[i] = Absent /\ \A j \in Ids \ {i} : bin'[j] = bin[j]
         /\ \A c \in Docs : Unheld(c) => Unheld(c)'
<1>1. /\ home \in [Names -> Docs \cup {Absent}] /\ bin \in [Ids -> Docs \cup {Absent}]
      /\ Distinct
  BY DEF Base, Typed
<1>2. /\ home'[n] = bin[i] /\ \A o \in Names \ {n} : home'[o] = home[o]
      /\ bin'[i] = Absent /\ \A j \in Ids \ {i} : bin'[j] = bin[j]
  BY <1>1
<1>3. home' \in [Names -> Docs \cup {Absent}] /\ bin' \in [Ids -> Docs \cup {Absent}]
  BY <1>1
<1>4. Distinct'
  BY <1>1, <1>2 DEF Distinct
<1> QED BY <1>2, <1>3, <1>4, FilesAssumption DEF Unheld

\* What the fields of a request that exists are.
LEMMA Fields ==
  ASSUME Base, NEW q \in Requests
  PROVE  /\ req[q] \in Request /\ Shape(req[q])
         /\ req[q].from \in Names \cup {None} /\ req[q].to \in Names \cup {None}
         /\ req[q].id \in Ids \cup {None} /\ req[q].doc \in Docs \cup {None}
         /\ req[q].left \subseteq Ids
         /\ None \notin Docs /\ None \notin Names /\ None \notin Ids /\ Absent \notin Docs
BY FilesAssumption DEF Base, Typed, Shapes, Request

-----------------------------------------------------------------------------
(* Saving.                                                                 *)

LEMMA BeginSave ==
  ASSUME Base, NEW q \in Requests, NEW n \in Names, NEW d \in Docs,
         Upload(q, n, d) \/ WriteFile(q, n, d) \/ CreateFile(q, n, d)
  PROVE  Act(q)
<1>1. PICK p \in {"staging", "overwriting", "checking"} :
        LET r == [Idle EXCEPT !.phase = p, !.to = n, !.doc = d] IN
        /\ Begin(q, r) /\ d \in fresh /\ fresh' = fresh \ {d} /\ UNCHANGED <<disk, partial>>
  BY DEF Upload, WriteFile, CreateFile
<1>2. PICK r : r = [Idle EXCEPT !.phase = p, !.to = n, !.doc = d]
  OBVIOUS
<1>3. /\ r \in Request /\ r.phase = p /\ r.from = None /\ r.to = n /\ r.doc = d
  BY <1>2 DEF Idle, Request, Phases
<1>4. Shape(r)
  BY <1>3, FilesAssumption DEF Shape
<1> QED BY <1>1, <1>2, <1>3, <1>4, BeginQuiet

LEMMA BeginCopy ==
  ASSUME Base, NEW q \in Requests, NEW m \in Names, NEW n \in Names, NEW d \in Docs,
         Copy(q, m, n, d)
  PROVE  Act(q)
<1>1. PICK r : r = [Idle EXCEPT !.phase = "checking", !.from = m, !.to = n, !.doc = d]
  OBVIOUS
<1>2. /\ r \in Request /\ r.phase = "checking" /\ r.from = m /\ r.to = n /\ r.doc = d
  BY <1>1 DEF Idle, Request, Phases
<1>3. Shape(r)
  BY <1>2, FilesAssumption DEF Shape
<1>4. Begin(q, r) /\ d \in fresh /\ fresh' = fresh \ {d} /\ UNCHANGED <<disk, partial>>
  BY <1>1 DEF Copy
<1> QED BY <1>2, <1>3, <1>4, BeginQuiet

LEMMA StageActs ==
  ASSUME Base, NEW q \in Requests, Stage(q)
  PROVE  Act(q)
BY GoQuiet DEF Stage, Phases

\* A document that is still to be written is put where q wants it.
LEMMA PutsOwn ==
  ASSUME Base, NEW q \in Requests, Done(q), Waits(req[q]), req[q].to \in Names,
         home' = [home EXCEPT ![req[q].to] = req[q].doc], UNCHANGED <<bin, info, partial, fresh>>
  PROVE  Act(q)
<1>1. req[q].doc \in Docs /\ Unheld(req[q].doc)
  BY Fields DEF Base, Unwritten, Waits
<1>2. /\ home' \in [Names -> Docs \cup {Absent}] /\ Distinct'
      /\ \A c \in Docs : Unheld(c) => Unheld(c)' \/ c = req[q].doc
  BY <1>1, PutNew
<1>3. Puts(q)
  BY DEF Base, Typed, Puts
<1> QED BY <1>2, <1>3, EndWith DEF Base, Typed

LEMMA InstallActs ==
  ASSUME Base, NEW q \in Requests, Install(q)
  PROVE  Act(q)
<1>1. /\ req[q].phase = "saving" /\ Done(q)
      /\ home' = [home EXCEPT ![req[q].to] = req[q].doc] /\ UNCHANGED <<bin, info, partial, fresh>>
  BY DEF Install
<1>2. req[q].to \in Names /\ Waits(req[q])
  BY <1>1, Fields DEF Shape, Waits
<1> QED BY <1>1, <1>2, PutsOwn

LEMMA UnpackActs ==
  ASSUME Base, NEW q \in Requests, Unpack(q)
  PROVE  Act(q)
<1>1. /\ req[q].phase = "unpacking" /\ Done(q)
      /\ home' = [home EXCEPT ![req[q].to] = req[q].doc] /\ UNCHANGED <<bin, info, partial, fresh>>
  BY DEF Unpack
<1>2. req[q].to \in Names /\ Waits(req[q])
  BY <1>1, Fields DEF Shape, Waits
<1> QED BY <1>1, <1>2, PutsOwn

\* The records that opening changes.
LEMMA Opening ==
  ASSUME Base, NEW q \in Requests, Open(q)
  PROVE  /\ req' \in [Requests -> Request]
         /\ req'[q].phase = "writing" /\ req'[q].from = req[q].from /\ req'[q].to = req[q].to
         /\ req'[q].id = req[q].id /\ req'[q].doc = req[q].doc
         /\ \A p \in Requests \ {q} :
              \/ req'[p] = req[p]
              \/ /\ req[p].phase = "writing" /\ req[p].doc = home[req[q].to]
                 /\ req'[p].phase = req[p].phase /\ req'[p].from = req[p].from
                 /\ req'[p].to = req[p].to /\ req'[p].id = req[p].id
                 /\ req'[p].left = req[p].left /\ req'[p].doc = req[q].doc
<1> DEFINE others == {p \in Requests : req[p].phase = "writing" /\ req[p].doc = home[req[q].to]}
           mine == [req[q] EXCEPT !.phase = "writing", !.mixed = (others # {})]
           theirs(p) == [req[p] EXCEPT !.doc = req[q].doc, !.mixed = TRUE]
<1>1. req' = [p \in Requests |-> IF p = q THEN mine ELSE IF p \in others THEN theirs(p) ELSE req[p]]
  BY DEF Open
<1>2. req[q] \in Request /\ \A p \in Requests : req[p] \in Request
  BY Fields
<1>3. /\ mine \in Request /\ mine.phase = "writing" /\ mine.from = req[q].from
      /\ mine.to = req[q].to /\ mine.id = req[q].id /\ mine.doc = req[q].doc
  <2>1. (others # {}) \in BOOLEAN
    OBVIOUS
  <2> HIDE DEF others
  <2> QED BY <1>2, <2>1 DEF Request, Phases
<1>4. ASSUME NEW p \in others
      PROVE  /\ theirs(p) \in Request
             /\ theirs(p).phase = req[p].phase /\ theirs(p).from = req[p].from
             /\ theirs(p).to = req[p].to /\ theirs(p).id = req[p].id
             /\ theirs(p).left = req[p].left /\ theirs(p).doc = req[q].doc
  BY <1>2, <1>4 DEF Request
<1>5. \A p \in others : p \in Requests /\ req[p].phase = "writing" /\ req[p].doc = home[req[q].to]
  OBVIOUS
<1> HIDE DEF others, mine, theirs
<1>6. req'[q] = mine /\ \A p \in Requests \ {q} : req'[p] = IF p \in others THEN theirs(p) ELSE req[p]
  BY <1>1
<1>7. req' \in [Requests -> Request]
  BY <1>1, <1>2, <1>3, <1>4
<1> QED BY <1>3, <1>4, <1>5, <1>6, <1>7

LEMMA OpenActs ==
  ASSUME Base, NEW q \in Requests, Open(q)
  PROVE  Act(q)
<1>1. /\ req[q].phase \in {"opening", "overwriting"}
      /\ home' = [home EXCEPT ![req[q].to] = req[q].doc] /\ partial' = partial \cup {req[q].doc}
      /\ bin' = bin /\ info' = info /\ fresh' = fresh
  BY DEF Open
<1>2. req[q].to \in Names /\ req[q].doc \in Docs /\ Waits(req[q]) /\ Unheld(req[q].doc)
  BY <1>1, Fields DEF Shape, Waits, Base, Unwritten
<1>3. /\ req' \in [Requests -> Request]
      /\ req'[q].phase = "writing" /\ req'[q].from = req[q].from /\ req'[q].to = req[q].to
      /\ req'[q].id = req[q].id /\ req'[q].doc = req[q].doc
  BY Opening
<1>4. /\ home' \in [Names -> Docs \cup {Absent}] /\ Distinct'
      /\ \A c \in Docs : Unheld(c) => Unheld(c)' \/ c = req[q].doc
  BY <1>1, <1>2, PutNew
<1>5. Typed'
  BY <1>1, <1>2, <1>3, <1>4 DEF Base, Typed
<1>6. Shape(req'[q])
  BY <1>2, <1>3 DEF Shape
<1>7. ~Waits(req'[q])
  BY <1>3 DEF Waits
<1>8. Stays(q)
  BY <1>2, <1>7, Opening DEF Stays
<1>9. Puts(q)
  BY <1>1 DEF Base, Typed, Puts
<1>10. Writes(q)
  BY <1>1, <1>2, <1>3, <1>4, <1>7 DEF Writes
<1>11. Notes(q)
  BY <1>3 DEF Notes
<1>12. Checks(q)
  <2>1. home'[req[q].to] = req[q].doc
    BY <1>1, <1>2 DEF Base, Typed
  <2> QED BY <1>1, <1>2, <1>3, <2>1 DEF Checks
<1> QED BY <1>4, <1>5, <1>6, <1>8, <1>9, <1>10, <1>11, <1>12 DEF Act, Effect

LEMMA WrittenActs ==
  ASSUME Base, NEW q \in Requests, Written(q)
  PROVE  Act(q)
<1>1. /\ req[q].phase = "writing" /\ Done(q)
      /\ partial' = partial \ {req[q].doc} \/ partial' = partial \cup {req[q].doc}
      /\ UNCHANGED <<disk, fresh>>
  BY DEF Written
<1>2. req[q].doc \in Docs
  BY <1>1, Fields DEF Shape
<1>3. home' = home /\ bin' = bin /\ info' = info /\ fresh' = fresh
  BY <1>1 DEF disk
<1>4. Distinct' /\ Puts(q) /\ \A d \in Docs : Unheld(d) => Unheld(d)'
  BY <1>3 DEF Base, Distinct, Puts, Unheld
<1>5. partial' \subseteq Docs
  BY <1>1, <1>2 DEF Base, Typed
<1> QED BY <1>1, <1>3, <1>4, <1>5, EndWith DEF Base, Typed

\* A path is cleared by a request that ends with it.
LEMMA ClearsOne ==
  ASSUME Base, NEW q \in Requests, NEW n \in Names, Done(q),
         home' = [home EXCEPT ![n] = Absent], UNCHANGED <<bin, info, partial, fresh>>
  PROVE  Act(q)
<1>1. /\ home' \in [Names -> Docs \cup {Absent}] /\ Distinct'
      /\ \A m \in Names : home'[m] \in {home[m], Absent}
      /\ \A c \in Docs : Unheld(c) => Unheld(c)'
  BY HomeCleared
<1>2. Puts(q)
  BY <1>1 DEF Puts
<1> QED BY <1>1, <1>2, EndWith DEF Base, Typed

LEMMA CopyFailsActs ==
  ASSUME Base, NEW q \in Requests, CopyFails(q)
  PROVE  Act(q)
BY ClearsOne, Fields DEF CopyFails, Shape

-----------------------------------------------------------------------------
(* Moving and deleting.                                                    *)

LEMMA BeginMove ==
  ASSUME Base, NEW q \in Requests, NEW m \in Names, NEW n \in Names, Move(q, m, n)
  PROVE  Act(q)
<1>1. PICK r : r = [Idle EXCEPT !.phase = "checking", !.from = m, !.to = n]
  OBVIOUS
<1>2. /\ r \in Request /\ r.phase = "checking" /\ r.from = m /\ r.to = n /\ r.doc = None
  BY <1>1 DEF Idle, Request, Phases
<1>3. Begin(q, r) /\ m # n /\ UNCHANGED <<disk, partial, fresh>>
  BY <1>1 DEF Move
<1>4. Shape(r)
  BY <1>2, <1>3 DEF Shape
<1> QED BY <1>2, <1>3, <1>4, BeginQuiet

LEMMA CheckFreeActs ==
  ASSUME Base, NEW q \in Requests, CheckFree(q)
  PROVE  Act(q)
<1>1. /\ req[q].phase = "checking" /\ home[req[q].to] = Absent
      /\ UNCHANGED <<disk, partial, fresh>>
  BY DEF CheckFree
<1>2. CASE req[q].doc = None
  BY <1>1, <1>2, GoQuiet DEF CheckFree, Phases
<1>3. CASE req[q].doc # None
  BY <1>1, <1>3, GoQuiet DEF CheckFree, Phases
<1> QED BY <1>2, <1>3

LEMMA RenameActs ==
  ASSUME Base, NEW q \in Requests, Rename(q)
  PROVE  Act(q)
<1> DEFINE m == req[q].from
           n == req[q].to
<1>1. /\ req[q].phase = "moving" /\ Done(q) /\ home[m] # Absent
      /\ home' = [home EXCEPT ![n] = home[m], ![m] = Absent]
      /\ UNCHANGED <<bin, info, partial, fresh>>
  BY DEF Rename
<1>2. m \in Names /\ n \in Names /\ m # n
  BY <1>1, Fields DEF Shape
<1>3. /\ home' \in [Names -> Docs \cup {Absent}] /\ Distinct'
      /\ home'[n] = home[m] /\ home'[m] = Absent
      /\ \A o \in Names \ {m, n} : home'[o] = home[o]
      /\ \A c \in Docs : Unheld(c) => Unheld(c)'
  BY <1>1, <1>2, Moved
<1>4. Puts(q)
  BY <1>1, <1>3 DEF Puts
<1> QED BY <1>1, <1>3, <1>4, EndWith DEF Base, Typed

\* A request that begins with a path or an item and nothing else.
LEMMA BeginOn ==
  ASSUME Base, NEW q \in Requests, NEW n \in Names,
         NEW p \in {"deleting", "naming"},
         Begin(q, [Idle EXCEPT !.phase = p, !.from = n]), UNCHANGED <<disk, partial, fresh>>
  PROVE  Act(q)
<1>1. PICK r : r = [Idle EXCEPT !.phase = p, !.from = n]
  OBVIOUS
<1>2. /\ r \in Request /\ r.phase = p /\ r.from = n /\ r.doc = None
  BY <1>1 DEF Idle, Request, Phases
<1>3. Shape(r)
  BY <1>2 DEF Shape
<1> QED BY <1>1, <1>2, <1>3, BeginQuiet

LEMMA BeginDelete ==
  ASSUME Base, NEW q \in Requests, NEW n \in Names, Delete(q, n) \/ Trash(q, n)
  PROVE  Act(q)
BY BeginOn DEF Delete, Trash

LEMMA UnlinkActs ==
  ASSUME Base, NEW q \in Requests, Unlink(q)
  PROVE  Act(q)
BY ClearsOne, Fields DEF Unlink, Shape

LEMMA BeginExtract ==
  ASSUME Base, NEW q \in Requests, NEW n \in Names, NEW d \in Docs, Extract(q, n, d)
  PROVE  Act(q)
<1>1. PICK r : r = [Idle EXCEPT !.phase = "clearing", !.to = n, !.doc = d]
  OBVIOUS
<1>2. /\ r \in Request /\ r.phase = "clearing" /\ r.to = n /\ r.doc = d
  BY <1>1 DEF Idle, Request, Phases
<1>3. Shape(r)
  BY <1>2 DEF Shape
<1>4. Begin(q, r) /\ d \in fresh /\ fresh' = fresh \ {d} /\ UNCHANGED <<disk, partial>>
  BY <1>1 DEF Extract
<1> QED BY <1>2, <1>3, <1>4, BeginQuiet

LEMMA ClearActs ==
  ASSUME Base, NEW q \in Requests, Clear(q)
  PROVE  Act(q)
<1>1. /\ req[q].phase = "clearing" /\ Go(q, "unpacking")
      /\ home' = [home EXCEPT ![req[q].to] = Absent]
      /\ UNCHANGED <<bin, info, partial, fresh>>
  BY DEF Clear
<1>2. req[q].to \in Names /\ req[q].doc \in Docs
  BY <1>1, Fields DEF Shape
<1>3. /\ req' \in [Requests -> Request]
      /\ \A o \in Requests \ {q} : req'[o] = req[o]
      /\ req'[q].phase = "unpacking" /\ req'[q].to = req[q].to /\ req'[q].doc = req[q].doc
  BY <1>1, Going DEF Base, Phases
<1>4. /\ home' \in [Names -> Docs \cup {Absent}] /\ Distinct'
      /\ \A m \in Names : home'[m] \in {home[m], Absent}
      /\ \A c \in Docs : Unheld(c) => Unheld(c)'
  BY <1>1, <1>2, HomeCleared
<1>5. Typed'
  BY <1>1, <1>3, <1>4 DEF Base, Typed
<1>6. Shape(req'[q])
  BY <1>2, <1>3 DEF Shape
<1>7. Stays(q) /\ Puts(q)
  BY <1>1, <1>3, <1>4, Alone DEF Puts
<1>8. Waits(req[q])
  BY <1>1, <1>2, FilesAssumption DEF Waits
<1>9. Writes(q)
  BY <1>1, <1>3, <1>4, <1>8 DEF Writes
<1>10. Notes(q)
  BY <1>3 DEF Notes
<1>11. Checks(q)
  <2>1. home'[req[q].to] = Absent
    BY <1>1, <1>2 DEF Base, Typed
  <2> QED BY <1>3, <2>1 DEF Checks
<1> QED BY <1>4, <1>5, <1>6, <1>7, <1>9, <1>10, <1>11 DEF Act, Effect

-----------------------------------------------------------------------------
(* Into the trash.                                                         *)

LEMMA UniqueNameActs ==
  ASSUME Base, NEW q \in Requests, UniqueName(q)
  PROVE  Act(q)
<1> DEFINE i == TrashNames[req[q].from][req[q].try]
<1>1. /\ req[q].phase = "naming" /\ req[q].try \in DOMAIN TrashNames[req[q].from]
      /\ req' = [req EXCEPT ![q] = IF bin[i] = Absent
                                   THEN [req[q] EXCEPT !.phase = "noting", !.id = i]
                                   ELSE [req[q] EXCEPT !.try = req[q].try + 1]]
      /\ UNCHANGED <<disk, partial, fresh>>
  BY DEF UniqueName
<1>2. req[q].from \in Names /\ req[q] \in Request
  BY <1>1, Fields DEF Shape
<1>3. i \in Ids
  BY <1>1, <1>2, FilesAssumption
<1> HIDE DEF i
<1>4. PICK r : r = IF bin[i] = Absent THEN [req[q] EXCEPT !.phase = "noting", !.id = i]
                                      ELSE [req[q] EXCEPT !.try = req[q].try + 1]
  OBVIOUS
<1>5. /\ r \in Request /\ r.from = req[q].from /\ r.to = req[q].to /\ r.doc = req[q].doc
      /\ \/ bin[i] = Absent /\ r.phase = "noting" /\ r.id = i
         \/ r.phase = "naming" /\ r.id = req[q].id
  <2>1. CASE bin[i] = Absent
    <3>1. r = [req[q] EXCEPT !.phase = "noting", !.id = i]
      BY <1>4, <2>1
    <3> QED BY <1>2, <1>3, <2>1, <3>1 DEF Request, Phases
  <2>2. CASE bin[i] # Absent
    <3>1. r = [req[q] EXCEPT !.try = req[q].try + 1]
      BY <1>4, <2>2
    <3>2. req[q].try + 1 \in Nat
      BY <1>2 DEF Request
    <3> QED BY <1>1, <1>2, <3>1, <3>2 DEF Request
  <2> QED BY <2>1, <2>2
<1>6. /\ req' \in [Requests -> Request] /\ req'[q] = r
      /\ \A o \in Requests \ {q} : req'[o] = req[o]
  BY <1>1, <1>4, <1>5 DEF Base, Typed
<1>7. /\ Distinct' /\ Puts(q) /\ Stays(q) /\ bin' = bin
      /\ \A d \in Docs : Unheld(d) => Unheld(d)'
  BY <1>1, <1>6, Quiet, Alone
<1>8. Typed'
  BY <1>1, <1>6 DEF Base, Typed, disk
<1>9. Shape(req'[q])
  BY <1>2, <1>3, <1>5, <1>6 DEF Shape
<1>10. Writes(q)
  BY <1>1, <1>5, <1>6, <1>7 DEF Writes, Waits
<1>11. Notes(q)
  BY <1>5, <1>6, <1>7 DEF Notes
<1>12. Checks(q)
  BY <1>5, <1>6 DEF Checks
<1> QED BY <1>7, <1>8, <1>9, <1>10, <1>11, <1>12 DEF Act, Effect

LEMMA NoteActs ==
  ASSUME Base, NEW q \in Requests, Note(q)
  PROVE  Act(q)
<1>1. /\ req[q].phase = "noting" /\ Go(q, "binning")
      /\ info' = [info EXCEPT ![req[q].id] = req[q].from]
      /\ UNCHANGED <<home, bin, partial, fresh>>
  BY DEF Note
<1>2. req[q].id \in Ids /\ req[q].from \in Names
  BY <1>1, Fields DEF Shape
<1>3. /\ req' \in [Requests -> Request]
      /\ \A o \in Requests \ {q} : req'[o] = req[o]
      /\ req'[q].phase = "binning" /\ req'[q].from = req[q].from /\ req'[q].to = req[q].to
      /\ req'[q].id = req[q].id /\ req'[q].doc = req[q].doc
  BY <1>1, Going DEF Base, Phases
<1>4. /\ info' \in [Ids -> Names \cup {NoInfo}] /\ info'[req[q].id] = req[q].from
      /\ \A i \in Ids : info'[i] # info[i] => i = req[q].id
  BY <1>1, <1>2 DEF Base, Typed
<1>5. Typed'
  BY <1>1, <1>3, <1>4 DEF Base, Typed
<1>6. Shape(req'[q])
  BY <1>2, <1>3 DEF Shape
<1>7. Distinct' /\ Stays(q) /\ \A d \in Docs : Unheld(d) => Unheld(d)'
  BY <1>1, <1>3, Alone DEF Base, Distinct, Unheld
<1>8. Puts(q)
  BY <1>1, <1>4 DEF Puts
<1>9. Writes(q)
  BY <1>1, <1>3, <1>7 DEF Writes, Waits
<1>10. Notes(q) /\ Checks(q)
  BY <1>1, <1>3, <1>4 DEF Notes, Checks
<1> QED BY <1>5, <1>6, <1>7, <1>8, <1>9, <1>10 DEF Act, Effect

\* An info file goes, and the request ends.
LEMMA InfoGone ==
  ASSUME Base, NEW q \in Requests, req[q].phase \in {"noting", "forgetting", "unnoting"},
         info' = [info EXCEPT ![req[q].id] = NoInfo], Done(q),
         UNCHANGED <<home, bin, partial, fresh>>
  PROVE  Act(q)
<1>1. /\ info' \in [Ids -> Names \cup {NoInfo}]
      /\ \A i \in Ids : info'[i] # info[i] => i = req[q].id
  BY DEF Base, Typed
<1>2. Distinct' /\ \A d \in Docs : Unheld(d) => Unheld(d)'
  BY DEF Base, Distinct, Unheld
<1>3. Puts(q)
  BY <1>1 DEF Puts
<1> QED BY <1>1, <1>2, <1>3, EndWith DEF Base, Typed

LEMMA NoteFailsActs ==
  ASSUME Base, NEW q \in Requests, NoteFails(q) \/ Forget(q)
  PROVE  Act(q)
BY InfoGone DEF NoteFails, Forget

LEMMA BinActs ==
  ASSUME Base, NEW q \in Requests, Bin(q)
  PROVE  Act(q)
<1>1. /\ req[q].phase = "binning" /\ home[req[q].from] # Absent /\ Done(q)
      /\ bin' = [bin EXCEPT ![req[q].id] = home[req[q].from]]
      /\ home' = [home EXCEPT ![req[q].from] = Absent]
      /\ UNCHANGED <<info, partial, fresh>>
  BY DEF Bin
<1>2. req[q].from \in Names /\ req[q].id \in Ids
  BY <1>1, Fields DEF Shape
<1>3. /\ home' \in [Names -> Docs \cup {Absent}] /\ bin' \in [Ids -> Docs \cup {Absent}]
      /\ Distinct'
      /\ home'[req[q].from] = Absent
      /\ \A o \in Names \ {req[q].from} : home'[o] = home[o]
      /\ bin'[req[q].id] = home[req[q].from]
      /\ \A j \in Ids \ {req[q].id} : bin'[j] = bin[j]
      /\ \A c \in Docs : Unheld(c) => Unheld(c)'
  BY <1>1, <1>2, Binned
<1>4. Puts(q)
  BY <1>1, <1>3 DEF Puts
<1> QED BY <1>1, <1>3, <1>4, EndWith DEF Base, Typed

LEMMA BinFailsActs ==
  ASSUME Base, NEW q \in Requests, BinFails(q)
  PROVE  Act(q)
BY GoQuiet DEF BinFails, Phases

-----------------------------------------------------------------------------
(* Out of the trash.                                                       *)

LEMMA BeginRestore ==
  ASSUME Base, NEW q \in Requests, NEW i \in Ids, Restore(q, i)
  PROVE  Act(q)
<1>1. PICK r : r = [Idle EXCEPT !.phase = "finding", !.id = i, !.from = info[i]]
  OBVIOUS
<1>2. Begin(q, r) /\ info[i] \in Names /\ UNCHANGED <<disk, partial, fresh>>
  BY <1>1 DEF Restore
<1>3. /\ r \in Request /\ r.phase = "finding" /\ r.from = info[i] /\ r.id = i /\ r.doc = None
  BY <1>1, <1>2 DEF Idle, Request, Phases
<1>4. Shape(r)
  BY <1>2, <1>3 DEF Shape
<1> QED BY <1>2, <1>3, <1>4, BeginQuiet

LEMMA FindActs ==
  ASSUME Base, NEW q \in Requests, Find(q)
  PROVE  Act(q)
BY GoQuiet DEF Find, Phases

LEMMA PlaceActs ==
  ASSUME Base, NEW q \in Requests, Place(q)
  PROVE  Act(q)
<1> DEFINE n == BackNames[req[q].from][req[q].try]
<1>1. /\ req[q].phase = "placing" /\ req[q].try \in DOMAIN BackNames[req[q].from]
      /\ req' = [req EXCEPT ![q] = IF home[n] = Absent
                                   THEN [req[q] EXCEPT !.phase = "returning", !.to = n]
                                   ELSE [req[q] EXCEPT !.try = req[q].try + 1]]
      /\ UNCHANGED <<disk, partial, fresh>>
  BY DEF Place
<1>2. req[q].from \in Names /\ req[q].id \in Ids /\ req[q] \in Request
  BY <1>1, Fields DEF Shape
<1>3. n \in Names
  BY <1>1, <1>2, FilesAssumption
<1> HIDE DEF n
<1>4. PICK r : r = IF home[n] = Absent THEN [req[q] EXCEPT !.phase = "returning", !.to = n]
                                       ELSE [req[q] EXCEPT !.try = req[q].try + 1]
  OBVIOUS
<1>5. /\ r \in Request /\ r.from = req[q].from /\ r.id = req[q].id /\ r.doc = req[q].doc
      /\ \/ home[n] = Absent /\ r.phase = "returning" /\ r.to = n
         \/ r.phase = "placing" /\ r.to = req[q].to
  <2>1. CASE home[n] = Absent
    <3>1. r = [req[q] EXCEPT !.phase = "returning", !.to = n]
      BY <1>4, <2>1
    <3> QED BY <1>2, <1>3, <2>1, <3>1 DEF Request, Phases
  <2>2. CASE home[n] # Absent
    <3>1. r = [req[q] EXCEPT !.try = req[q].try + 1]
      BY <1>4, <2>2
    <3>2. req[q].try + 1 \in Nat
      BY <1>2 DEF Request
    <3> QED BY <1>1, <1>2, <3>1, <3>2 DEF Request
  <2> QED BY <2>1, <2>2
<1>6. /\ req' \in [Requests -> Request] /\ req'[q] = r
      /\ \A o \in Requests \ {q} : req'[o] = req[o]
  BY <1>1, <1>4, <1>5 DEF Base, Typed
<1>7. /\ Distinct' /\ Puts(q) /\ Stays(q) /\ home' = home
      /\ \A d \in Docs : Unheld(d) => Unheld(d)'
  BY <1>1, <1>6, Quiet, Alone
<1>8. Typed'
  BY <1>1, <1>6 DEF Base, Typed, disk
<1>9. Shape(req'[q])
  BY <1>2, <1>3, <1>5, <1>6 DEF Shape
<1>10. Writes(q)
  BY <1>1, <1>5, <1>6, <1>7 DEF Writes, Waits
<1>11. Notes(q)
  BY <1>5, <1>6 DEF Notes
<1>12. Checks(q)
  BY <1>5, <1>6, <1>7 DEF Checks
<1> QED BY <1>7, <1>8, <1>9, <1>10, <1>11, <1>12 DEF Act, Effect

LEMMA ReturnActs ==
  ASSUME Base, NEW q \in Requests, Return(q)
  PROVE  Act(q)
<1>1. /\ req[q].phase = "returning" /\ bin[req[q].id] # Absent /\ Go(q, "forgetting")
      /\ home' = [home EXCEPT ![req[q].to] = bin[req[q].id]]
      /\ bin' = [bin EXCEPT ![req[q].id] = Absent]
      /\ UNCHANGED <<info, partial, fresh>>
  BY DEF Return
<1>2. req[q].to \in Names /\ req[q].id \in Ids
  BY <1>1, Fields DEF Shape
<1>3. /\ home' \in [Names -> Docs \cup {Absent}] /\ bin' \in [Ids -> Docs \cup {Absent}]
      /\ Distinct'
      /\ \A o \in Names \ {req[q].to} : home'[o] = home[o]
      /\ bin'[req[q].id] = Absent /\ \A j \in Ids \ {req[q].id} : bin'[j] = bin[j]
      /\ \A c \in Docs : Unheld(c) => Unheld(c)'
  BY <1>1, <1>2, Unbinned
<1>4. /\ req' \in [Requests -> Request]
      /\ \A o \in Requests \ {q} : req'[o] = req[o]
      /\ req'[q].phase = "forgetting" /\ req'[q].id = req[q].id /\ req'[q].doc = req[q].doc
  BY <1>1, Going DEF Base, Phases
<1>5. Typed'
  BY <1>1, <1>3, <1>4 DEF Base, Typed
<1>6. Shape(req'[q])
  BY <1>2, <1>4 DEF Shape
<1>7. Puts(q) /\ Stays(q)
  BY <1>1, <1>3, <1>4, Alone DEF Puts
<1>8. Writes(q)
  BY <1>1, <1>3, <1>4 DEF Writes, Waits
<1>9. Notes(q) /\ Checks(q)
  BY <1>3, <1>4 DEF Notes, Checks
<1> QED BY <1>3, <1>5, <1>6, <1>7, <1>8, <1>9 DEF Act, Effect

LEMMA BeginRemove ==
  ASSUME Base, NEW q \in Requests, NEW i \in Ids, Remove(q, i)
  PROVE  Act(q)
<1>1. PICK r : r = [Idle EXCEPT !.phase = "removing", !.id = i]
  OBVIOUS
<1>2. Begin(q, r) /\ UNCHANGED <<disk, partial, fresh>>
  BY <1>1 DEF Remove
<1>3. /\ r \in Request /\ r.phase = "removing" /\ r.id = i /\ r.doc = None
  BY <1>1 DEF Idle, Request, Phases
<1>4. Shape(r)
  BY <1>3 DEF Shape
<1> QED BY <1>2, <1>3, <1>4, BeginQuiet

LEMMA RemoveItemActs ==
  ASSUME Base, NEW q \in Requests, RemoveItem(q)
  PROVE  Act(q)
<1>1. /\ req[q].phase = "removing" /\ Go(q, "forgetting")
      /\ bin' = [bin EXCEPT ![req[q].id] = Absent]
      /\ UNCHANGED <<home, info, partial, fresh>>
  BY DEF RemoveItem
<1>2. req[q].id \in Ids
  BY <1>1, Fields DEF Shape
<1>3. /\ bin' \in [Ids -> Docs \cup {Absent}] /\ Distinct'
      /\ bin'[req[q].id] = Absent /\ \A j \in Ids \ {req[q].id} : bin'[j] = bin[j]
      /\ \A c \in Docs : Unheld(c) => Unheld(c)'
  BY <1>1, <1>2, BinCleared
<1>4. /\ req' \in [Requests -> Request]
      /\ \A o \in Requests \ {q} : req'[o] = req[o]
      /\ req'[q].phase = "forgetting" /\ req'[q].id = req[q].id /\ req'[q].doc = req[q].doc
  BY <1>1, Going DEF Base, Phases
<1>5. Typed'
  BY <1>1, <1>3, <1>4 DEF Base, Typed
<1>6. Shape(req'[q])
  BY <1>2, <1>4 DEF Shape
<1>7. Puts(q) /\ Stays(q)
  BY <1>1, <1>3, <1>4, Alone DEF Puts
<1>8. Writes(q)
  BY <1>1, <1>3, <1>4 DEF Writes, Waits
<1>9. Notes(q) /\ Checks(q)
  BY <1>3, <1>4 DEF Notes, Checks
<1> QED BY <1>3, <1>5, <1>6, <1>7, <1>8, <1>9 DEF Act, Effect

LEMMA BeginEmpty ==
  ASSUME Base, NEW q \in Requests, Empty(q)
  PROVE  Act(q)
<1>1. PICK r : r = [Idle EXCEPT !.phase = "emptying", !.left = {i \in Ids : bin[i] # Absent}]
  OBVIOUS
<1>2. Begin(q, r) /\ UNCHANGED <<disk, partial, fresh>>
  BY <1>1 DEF Empty
<1>3. /\ r \in Request /\ r.phase = "emptying" /\ r.doc = None
      /\ r.left = {i \in Ids : bin[i] # Absent}
  BY <1>1 DEF Idle, Request, Phases
<1>4. Shape(r)
  BY <1>3 DEF Shape
<1> QED BY <1>2, <1>3, <1>4, BeginQuiet

\* What is left to remove gets less.
LEMMA Leaving ==
  ASSUME Base, NEW q \in Requests, NEW i \in Ids, req' = [req EXCEPT ![q].left = @ \ {i}]
  PROVE  /\ req' \in [Requests -> Request]
         /\ \A o \in Requests \ {q} : req'[o] = req[o]
         /\ req'[q].phase = req[q].phase /\ req'[q].doc = req[q].doc
         /\ req'[q].left = req[q].left \ {i}
<1>1. req[q] \in Request /\ req' = [req EXCEPT ![q] = [req[q] EXCEPT !.left = req[q].left \ {i}]]
  BY Fields
<1>2. PICK r : r = [req[q] EXCEPT !.left = req[q].left \ {i}]
  OBVIOUS
<1>3. /\ r \in Request /\ r.phase = req[q].phase /\ r.doc = req[q].doc
      /\ r.left = req[q].left \ {i}
  BY <1>1, <1>2 DEF Request
<1>4. req' = [req EXCEPT ![q] = r]
  BY <1>1, <1>2
<1> QED BY <1>3, <1>4 DEF Base, Typed

LEMMA EmptyItemActs ==
  ASSUME Base, NEW q \in Requests, EmptyItem(q)
  PROVE  Act(q)
<1>1. PICK i \in req[q].left : /\ bin' = [bin EXCEPT ![i] = Absent]
                               /\ req' = [req EXCEPT ![q].left = @ \ {i}]
  BY DEF EmptyItem
<1>2. /\ req[q].phase = "emptying" /\ i \in Ids /\ UNCHANGED <<home, info, partial, fresh>>
  BY Fields DEF EmptyItem
<1>3. /\ bin' \in [Ids -> Docs \cup {Absent}] /\ Distinct'
      /\ bin'[i] = Absent /\ \A j \in Ids \ {i} : bin'[j] = bin[j]
      /\ \A c \in Docs : Unheld(c) => Unheld(c)'
  BY <1>1, <1>2, BinCleared
<1>4. /\ req' \in [Requests -> Request]
      /\ \A o \in Requests \ {q} : req'[o] = req[o]
      /\ req'[q].phase = "emptying" /\ req'[q].doc = req[q].doc
      /\ req'[q].left = req[q].left \ {i}
  BY <1>1, <1>2, Leaving
<1>5. Typed'
  BY <1>2, <1>3, <1>4 DEF Base, Typed
<1>6. Shape(req'[q])
  BY <1>4 DEF Shape
<1>7. Puts(q) /\ Stays(q)
  BY <1>2, <1>3, <1>4, Alone DEF Puts
<1>8. Writes(q)
  BY <1>2, <1>3, <1>4 DEF Writes, Waits
<1>9. Notes(q) /\ Checks(q)
  BY <1>2, <1>3, <1>4 DEF Notes, Checks
<1> QED BY <1>3, <1>5, <1>6, <1>7, <1>8, <1>9 DEF Act, Effect

LEMMA EmptyListsActs ==
  ASSUME Base, NEW q \in Requests, EmptyLists(q)
  PROVE  Act(q)
<1> DEFINE infos == {i \in Ids : info[i] # NoInfo}
<1>1. /\ req[q].phase = "emptying" /\ req[q].left = {}
      /\ req' = [req EXCEPT ![q].phase = "dropping", ![q].left = infos]
      /\ UNCHANGED <<disk, partial, fresh>>
  BY DEF EmptyLists
<1>2. infos \subseteq Ids /\ req[q] \in Request
  BY Fields
<1> HIDE DEF infos
<1>3. PICK r : r = [req[q] EXCEPT !.phase = "dropping", !.left = infos]
  OBVIOUS
<1>4. r \in Request /\ r.phase = "dropping" /\ r.doc = req[q].doc
  BY <1>2, <1>3 DEF Request, Phases
<1>5. req' = [req EXCEPT ![q] = r]
  BY <1>1, <1>3 DEF Base, Typed
<1>6. /\ req' \in [Requests -> Request] /\ req'[q] = r
      /\ \A o \in Requests \ {q} : req'[o] = req[o]
  BY <1>4, <1>5 DEF Base, Typed
<1>7. /\ Distinct' /\ Puts(q) /\ Stays(q) /\ bin' = bin
      /\ \A d \in Docs : Unheld(d) => Unheld(d)'
  BY <1>1, <1>6, Quiet, Alone
<1>8. Typed'
  BY <1>1, <1>6 DEF Base, Typed, disk
<1>9. Shape(req'[q])
  BY <1>4, <1>6 DEF Shape
<1>10. Writes(q)
  BY <1>1, <1>4, <1>6, <1>7 DEF Writes, Waits
<1>11. Notes(q) /\ Checks(q)
  BY <1>1, <1>4, <1>6, <1>7 DEF Notes, Checks
<1> QED BY <1>7, <1>8, <1>9, <1>10, <1>11 DEF Act, Effect

LEMMA EmptyInfoActs ==
  ASSUME Base, NEW q \in Requests, EmptyInfo(q)
  PROVE  Act(q)
<1>1. PICK i \in req[q].left : /\ info' = [info EXCEPT ![i] = NoInfo]
                               /\ req' = [req EXCEPT ![q].left = @ \ {i}]
  BY DEF EmptyInfo
<1>2. /\ req[q].phase = "dropping" /\ i \in Ids /\ UNCHANGED <<home, bin, partial, fresh>>
  BY Fields DEF EmptyInfo
<1>3. info' \in [Ids -> Names \cup {NoInfo}]
  BY <1>1 DEF Base, Typed
<1>4. /\ req' \in [Requests -> Request]
      /\ \A o \in Requests \ {q} : req'[o] = req[o]
      /\ req'[q].phase = "dropping" /\ req'[q].doc = req[q].doc
  BY <1>1, <1>2, Leaving
<1>5. Typed'
  BY <1>2, <1>3, <1>4 DEF Base, Typed
<1>6. Shape(req'[q])
  BY <1>4 DEF Shape
<1>7. Distinct' /\ Stays(q) /\ \A d \in Docs : Unheld(d) => Unheld(d)'
  BY <1>2, <1>4, Alone DEF Base, Distinct, Unheld
<1>8. Puts(q)
  BY <1>2 DEF Puts
<1>9. Writes(q)
  BY <1>2, <1>4, <1>7 DEF Writes, Waits
<1>10. Notes(q) /\ Checks(q)
  BY <1>2, <1>4 DEF Notes, Checks
<1> QED BY <1>5, <1>6, <1>7, <1>8, <1>9, <1>10 DEF Act, Effect

LEMMA RefuseActs ==
  ASSUME Base, NEW q \in Requests, Refuse(q)
  PROVE  Act(q)
<1>1. Done(q) /\ UNCHANGED <<disk, partial, fresh>>
  BY DEF Refuse
<1>2. home' = home /\ bin' = bin /\ info' = info
  BY <1>1 DEF disk
<1>3. Distinct' /\ Puts(q) /\ \A d \in Docs : Unheld(d) => Unheld(d)'
  BY <1>1, Quiet
<1> QED BY <1>1, <1>2, <1>3, EndWith DEF Base, Typed

LEMMA StepActs ==
  ASSUME Base, Step
  PROVE  \E q \in Requests : Act(q)
<1>1. PICK q \in Requests :
        Save(q) \/ Arrange(q) \/ PutInTrash(q) \/ TakeFromTrash(q) \/ Refuse(q)
  BY DEF Step
<1>2. CASE Save(q)
  BY <1>2, BeginSave, BeginCopy, StageActs, InstallActs, OpenActs, WrittenActs, CopyFailsActs
     DEF Save
<1>3. CASE Arrange(q)
  BY <1>3, BeginMove, CheckFreeActs, RenameActs, BeginDelete, UnlinkActs, BeginExtract,
     ClearActs, UnpackActs DEF Arrange
<1>4. CASE PutInTrash(q)
  BY <1>4, BeginDelete, UniqueNameActs, NoteActs, NoteFailsActs, BinActs, BinFailsActs
     DEF PutInTrash
<1>5. CASE TakeFromTrash(q)
  BY <1>5, BeginRestore, BeginRemove, FindActs, PlaceActs, ReturnActs, NoteFailsActs,
     RemoveItemActs, BeginEmpty, EmptyItemActs, EmptyListsActs, EmptyInfoActs
     DEF TakeFromTrash
<1> QED BY <1>1, <1>2, <1>3, <1>4, <1>5, RefuseActs

-----------------------------------------------------------------------------
(* What every action keeps.                                                *)

LEMMA KeepsShapes ==
  ASSUME Base, NEW q \in Requests, Act(q)
  PROVE  Shapes'
<1> SUFFICES ASSUME NEW p \in Requests PROVE Shape(req'[p])
  BY DEF Shapes
<1>1. CASE p = q
  BY <1>1 DEF Act
<1>2. CASE p # q /\ req'[p] = req[p]
  BY <1>2, Fields
<1>3. CASE p # q /\ req'[p] # req[p]
  <2>1. /\ req[p].phase = "writing" /\ req'[p].phase = "writing" /\ req'[p].to = req[p].to
        /\ req'[p].doc \in {req[p].doc, req[q].doc}
        /\ req'[p].doc = req[q].doc => Waits(req[q]) \/ req'[p].doc = req[p].doc
    BY <1>3 DEF Act, Effect, Stays
  <2>2. req[p].to \in Names /\ req[p].doc \in Docs
    BY <2>1, Fields DEF Shape
  <2>3. Waits(req[q]) => req[q].doc \in Docs
    BY Fields DEF Waits
  <2> QED BY <2>1, <2>2, <2>3 DEF Shape
<1> QED BY <1>1, <1>2, <1>3

LEMMA KeepsUnwritten ==
  ASSUME Base, NEW q \in Requests, Act(q)
  PROVE  Unwritten'
<1>1. Stays(q) /\ Writes(q)
  BY DEF Act, Effect
<1>2. \A p \in Requests \ {q} :
        req'[p].doc = req[p].doc \/ (req'[p].doc = req[q].doc /\ Waits(req[q]) /\ ~Waits(req'[q]))
  BY <1>1 DEF Stays
<1>3. \A p \in Requests \ {q} : Waits(req'[p]) => req'[p] = req[p]
  BY <1>1 DEF Stays, Waits
<1>4. \A p \in Requests : Waits(req[p]) => req[p].doc \in Docs
  BY Fields DEF Waits
<1>5. ASSUME NEW d \in fresh' PROVE Unheld(d)' /\ d \notin partial' /\ \A p \in Requests : req'[p].doc # d
  <2>1. d \in fresh /\ d \in Docs /\ Unheld(d) /\ d \notin partial /\ \A p \in Requests : req[p].doc # d
    BY <1>1, <1>5 DEF Writes, Base, Unwritten, Typed
  <2>2. Unheld(d)' /\ d \notin partial'
    BY <1>1, <2>1 DEF Writes
  <2>3. req'[q].doc # d
    BY <1>1, <1>5, <2>1, Fields DEF Writes
  <2> QED BY <1>2, <2>1, <2>2, <2>3
<1>6. ASSUME NEW p \in Requests \ {q}, Waits(req'[p])
      PROVE  /\ Unheld(req[p].doc)' /\ req'[p].doc \notin fresh' /\ req'[p].doc \notin partial'
             /\ \A o \in Requests \ {p} : req'[o].doc # req'[p].doc
  <2>1. req'[p] = req[p] /\ Waits(req[p])
    BY <1>3, <1>6
  <2>2. PICK d \in Docs : d = req[p].doc
    BY <1>4, <2>1
  <2>3. /\ Unheld(d) /\ d \notin fresh /\ d \notin partial
        /\ \A o \in Requests \ {p} : req[o].doc # d
    BY <2>1, <2>2 DEF Base, Unwritten
  <2>4. Unheld(d)' /\ d \notin fresh' /\ d \notin partial'
    BY <1>1, <2>3 DEF Writes
  <2>7. Unheld(req[p].doc)'
    BY <2>1, <2>2, <2>4 DEF Unheld
  <2>5. req'[q].doc # d
    <3>1. d # None
      BY <2>2, Fields
    <3> QED BY <1>1, <2>3, <3>1 DEF Writes
  <2>6. \A o \in Requests \ {p} : req'[o].doc # d
    BY <1>2, <2>3, <2>5
  <2> QED BY <2>1, <2>2, <2>4, <2>6, <2>7
<1>7. ASSUME Waits(req'[q])
      PROVE  /\ Unheld(req[q].doc)' /\ req'[q].doc \notin fresh' /\ req'[q].doc \notin partial'
             /\ \A o \in Requests \ {q} : req'[o].doc # req'[q].doc
  <2>1. \A o \in Requests \ {q} : req'[o].doc = req[o].doc
    BY <1>2, <1>7
  <2>2. CASE req'[q].doc = req[q].doc /\ Waits(req[q])
    <3>1. PICK d \in Docs : d = req[q].doc
      BY <1>4, <2>2
    <3>2. /\ Unheld(d) /\ d \notin fresh /\ d \notin partial
          /\ \A o \in Requests \ {q} : req[o].doc # d
      BY <2>2, <3>1 DEF Base, Unwritten
    <3>3. Unheld(d)' /\ d \notin fresh' /\ d \notin partial'
      BY <1>1, <1>7, <3>2 DEF Writes
    <3>4. Unheld(req[q].doc)'
      BY <2>2, <3>1, <3>3 DEF Unheld
    <3> QED BY <2>1, <2>2, <3>1, <3>2, <3>3, <3>4
  <2>3. CASE req'[q].doc \in fresh /\ req'[q].doc \notin fresh'
    <3>1. PICK d \in Docs : d = req'[q].doc /\ d \in fresh
      BY <2>3 DEF Base, Typed
    <3>2. Unheld(d) /\ d \notin partial /\ \A o \in Requests : req[o].doc # d
      BY <3>1 DEF Base, Unwritten
    <3>3. Unheld(d)' /\ d \notin partial'
      BY <1>1, <1>7, <3>2 DEF Writes
    <3>4. Unheld(req[q].doc)'
      BY <3>1, <3>3 DEF Unheld
    <3> QED BY <2>1, <2>3, <3>1, <3>2, <3>3, <3>4
  <2> QED BY <1>1, <1>7, <2>2, <2>3 DEF Writes
<1> QED BY <1>5, <1>6, <1>7 DEF Unwritten

LEMMA KeepsBase ==
  ASSUME Base, NEW q \in Requests, Act(q)
  PROVE  Base'
BY KeepsShapes, KeepsUnwritten DEF Base, Act

-----------------------------------------------------------------------------
(* Requests that meet.                                                     *)

LEMMA SameTargetNone ==
  ASSUME NEW r, NEW s, SameTarget(r, s)
  PROVE  s.to # None \/ s.id # None
BY DEF SameTarget

LEMMA KeepsMeeting ==
  ASSUME FInv, NEW q \in Requests, Act(q), Observe
  PROVE  /\ Meeting' /\ rivals' \subseteq Requests
         /\ \A p \in Requests : p \in rivals /\ req'[p].phase # "idle" => p \in rivals'
<1>1. rivals' = {p \in Requests : /\ req'[p] # Idle
                                  /\ \/ p \in rivals
                                     \/ \E o \in Requests \ {p} : SameTarget(req'[o], req'[p])}
  BY DEF Observe
<1>2. Meeting'
  <2> SUFFICES ASSUME NEW o \in Requests, NEW p \in Requests, o # p, SameTarget(req'[o], req'[p])
               PROVE  p \in rivals'
    BY DEF Meeting, SameTarget
  <2>1. req'[p] # Idle
    BY IdleFields, SameTargetNone
  <2> QED BY <1>1, <2>1
<1> QED BY <1>1, <1>2, IdleFields

\* A path that a request has found free is free, unless another request with
\* this target was met.
LEMMA StaysFree ==
  ASSUME FInv, NEW q \in Requests, Act(q), NEW p \in Requests \ {q}, p \notin rivals,
         req[p].to \in Names
  PROVE  home'[req[p].to] = home[req[p].to] \/ home'[req[p].to] = Absent
<1> SUFFICES ASSUME home'[req[p].to] # home[req[p].to], home'[req[p].to] # Absent PROVE FALSE
  OBVIOUS
<1>1. req[q].to = req[p].to
  BY DEF Act, Effect, Puts
<1>2. req[p].to # None
  BY Fields DEF FInv
<1>3. SameTarget(req[q], req[p])
  BY <1>1, <1>2 DEF SameTarget
<1> QED BY <1>3 DEF FInv, Meeting

LEMMA IdStaysFree ==
  ASSUME FInv, NEW q \in Requests, Act(q), NEW p \in Requests \ {q}, p \notin rivals,
         req[p].id \in Ids, bin[req[p].id] = Absent
  PROVE  bin'[req[p].id] = Absent
<1> SUFFICES ASSUME bin'[req[p].id] # Absent PROVE FALSE
  OBVIOUS
<1>1. req[q].id = req[p].id
  BY DEF Act, Effect, Puts
<1>2. req[p].id # None
  BY Fields DEF FInv
<1>3. SameTarget(req[q], req[p])
  BY <1>1, <1>2 DEF SameTarget
<1> QED BY <1>3 DEF FInv, Meeting

\* The own file of a copy stays its own.
LEMMA StaysOwn ==
  ASSUME FInv, NEW q \in Requests, Act(q), NEW p \in Requests \ {q}, p \notin rivals, OwnCopy(p)
  PROVE  OwnCopy(p)'
<1>1. /\ req'[p].phase = req[p].phase /\ req'[p].from = req[p].from /\ req'[p].to = req[p].to
      /\ \/ req'[p].doc = req[p].doc
         \/ /\ Waits(req[q]) /\ req[q].to \in Names /\ home[req[q].to] = req[p].doc
  BY DEF Act, Effect, Stays
<1> SUFFICES ASSUME req[p].phase = "writing", req[p].from # None, home'[req[p].to] # Absent
             PROVE  /\ home'[req[p].to] = req'[p].doc /\ req'[p].doc \in partial'
                    /\ \A o \in Requests \ {p} : req'[o].phase = "writing" => req'[o].doc # req'[p].doc
  BY <1>1 DEF OwnCopy
<1>2. req[p].to \in Names /\ req[p].doc \in Docs
  BY Fields DEF FInv, Shape
<1>3. home'[req[p].to] = home[req[p].to]
  BY <1>2, StaysFree
<1>4. /\ home[req[p].to] = req[p].doc /\ req[p].doc \in partial
      /\ \A o \in Requests \ {p} : req[o].phase = "writing" => req[o].doc # req[p].doc
  BY <1>3 DEF OwnCopy
<1>5. req'[p].doc = req[p].doc
  <2> SUFFICES ASSUME req'[p].doc # req[p].doc PROVE FALSE
    OBVIOUS
  <2>1. req[q].to \in Names /\ home[req[q].to] = home[req[p].to] /\ home[req[p].to] # Absent
    BY <1>1, <1>3, <1>4
  <2>2. req[q].to = req[p].to
    BY <1>2, <2>1 DEF FInv, Base, Distinct
  <2>3. SameTarget(req[q], req[p])
    BY <1>2, <2>2, Fields DEF FInv, SameTarget
  <2> QED BY <2>3 DEF FInv, Meeting
<1>6. req[p].doc \in partial'
  <2>1. req[p].doc \notin partial' => req[p].doc = req[q].doc /\ req[q].phase = "writing"
    BY <1>4 DEF Act, Effect, Writes
  <2> QED BY <1>4, <2>1
<1>7. Waits(req[q]) => req[q].doc # req[p].doc
  BY DEF FInv, Base, Unwritten
<1>8. ASSUME NEW o \in Requests \ {p}, req'[o].phase = "writing" PROVE req'[o].doc # req[p].doc
  <2>1. CASE o = q
    <3>1. Waits(req[q]) /\ req'[q].doc = req[q].doc
      BY <1>8, <2>1 DEF Act, Effect, Checks
    <3> QED BY <1>7, <2>1, <3>1
  <2>2. CASE o # q
    <3>1. /\ req[o].phase = "writing"
          /\ req'[o].doc = req[o].doc \/ (req'[o].doc = req[q].doc /\ Waits(req[q]))
      BY <1>8, <2>2 DEF Act, Effect, Stays
    <3> QED BY <1>4, <1>7, <3>1
  <2> QED BY <2>1, <2>2
<1> QED BY <1>3, <1>4, <1>5, <1>6, <1>8

\* q's own file, when it has just opened it.
LEMMA OpensOwn ==
  ASSUME FInv, NEW q \in Requests, Act(q), q \notin rivals
  PROVE  OwnCopy(q)'
<1> SUFFICES ASSUME req'[q].phase = "writing", req'[q].from # None
             PROVE  /\ home'[req'[q].to] = req'[q].doc /\ req'[q].doc \in partial'
                    /\ \A o \in Requests \ {q} : req'[o].phase = "writing" => req'[o].doc # req'[q].doc
  BY DEF OwnCopy
<1>1. /\ req[q].phase \in {"opening", "overwriting"} /\ Waits(req[q])
      /\ req'[q].from = req[q].from /\ req'[q].to = req[q].to /\ req'[q].doc = req[q].doc
      /\ home'[req'[q].to] = req'[q].doc /\ req'[q].doc \in partial'
  BY DEF Act, Effect, Checks
<1>2. req[q].phase = "opening"
  BY <1>1, Fields DEF FInv, Shape
<1>3. home[req[q].to] = Absent
  BY <1>2 DEF FInv, Unrivalled, Free
<1>4. ASSUME NEW o \in Requests \ {q}, req'[o].phase = "writing" PROVE req'[o].doc # req[q].doc
  <2>1. /\ req[o].phase = "writing"
        /\ req'[o].doc = req[o].doc \/ home[req[q].to] = req[o].doc
    BY <1>4 DEF Act, Effect, Stays
  <2>2. req[o].doc \in Docs
    BY <2>1, Fields DEF FInv, Shape
  <2>3. req'[o].doc = req[o].doc
    BY <1>3, <2>1, <2>2, FilesAssumption
  <2>4. req[o].doc # req[q].doc
    BY <1>1 DEF FInv, Base, Unwritten
  <2> QED BY <2>3, <2>4
<1> QED BY <1>1, <1>4

LEMMA KeepsUnrivalled ==
  ASSUME FInv, NEW q \in Requests, Act(q), Observe
  PROVE  Unrivalled'
<1> SUFFICES ASSUME NEW p \in Requests, p \notin rivals' PROVE Free(req[p])' /\ OwnCopy(p)'
  BY DEF Unrivalled
<1>1. p \in rivals => req'[p].phase = "idle"
  BY KeepsMeeting
<1>2. CASE p \in rivals
  BY <1>1, <1>2 DEF Free, OwnCopy
<1>3. CASE p \notin rivals /\ p # q
  <2>1. Free(req[p]) /\ OwnCopy(p)
    BY <1>3 DEF FInv, Unrivalled
  <2>2. /\ req'[p].phase = req[p].phase /\ req'[p].to = req[p].to /\ req'[p].id = req[p].id
    BY <1>3 DEF Act, Effect, Stays
  <2>3. Shape(req[p])
    BY Fields DEF FInv
  <2>4. req[p].phase \in {"opening", "moving", "returning", "unpacking"} => home'[req[p].to] = Absent
    BY <1>3, <2>1, <2>3, StaysFree DEF Free, Shape
  <2>5. req[p].phase \in {"noting", "binning"} => bin'[req[p].id] = Absent
    BY <1>3, <2>1, <2>3, IdStaysFree DEF Free, Shape
  <2>6. OwnCopy(p)'
    BY <1>3, <2>1, StaysOwn
  <2> QED BY <2>2, <2>4, <2>5, <2>6 DEF Free
<1>4. CASE p \notin rivals /\ p = q
  <2>1. Free(req[q])
    BY <1>4 DEF FInv, Unrivalled
  <2>2. Checks(q) /\ Notes(q)
    BY DEF Act, Effect
  <2>3. req'[q].phase = "binning" => bin'[req'[q].id] = Absent
    BY <2>1, <2>2 DEF Notes, Free
  <2>4. Free(req[q])'
    BY <2>2, <2>3 DEF Checks, Notes, Free
  <2> QED BY <1>4, <2>4, OpensOwn
<1> QED BY <1>2, <1>3, <1>4

-----------------------------------------------------------------------------
(* The trash.                                                              *)

\* Where nobody met anybody, one request at most works on an id, and then
\* nobody empties the trash.
LEMMA OneWorker ==
  ASSUME FInv, NEW i \in Ids, i \notin muddled
  PROVE  \A p, q \in Requests : req[p].id = i =>
           /\ req[q].id = i => p = q
           /\ req[q].phase \notin {"emptying", "dropping"}
<1>1. ~Crowded(i)
  BY DEF FInv, Crowding
<1> QED BY <1>1 DEF Crowded, Workers, Emptying

\* An id that is muddled no longer is out of use.
LEMMA Cleared ==
  ASSUME FInv, Observe, NEW i \in Ids, i \notin muddled'
  PROVE  /\ ~Crowded(i)'
         /\ i \in muddled => bin'[i] = Absent /\ \A q \in Requests : req'[q].id # i
BY DEF Observe, Workers

LEMMA KeepsLone ==
  ASSUME FInv, NEW q \in Requests, Act(q), Observe
  PROVE  Lone'
<1> SUFFICES ASSUME NEW i \in Ids, i \notin muddled', NEW p \in Requests, req'[p].id = i
             PROVE  /\ req'[p].phase \in {"noting", "binning", "unnoting", "forgetting"}
                         => bin'[i] = Absent
                    /\ req'[p].phase = "binning" => info'[i] = req'[p].from
  BY DEF Lone
<1>1. i \notin muddled
  BY Cleared
<1>2. CASE p = q
  <2>1. Notes(q)
    BY DEF Act, Effect
  <2>2. req'[q].phase \in {"binning", "unnoting"} => bin'[i] = Absent
    BY <1>1, <1>2, <2>1 DEF Notes, FInv, Lone
  <2> QED BY <1>2, <2>1, <2>2 DEF Notes
<1>3. CASE p # q
  <2>1. req[p].id = i /\ req'[p].phase = req[p].phase /\ req'[p].from = req[p].from
    BY <1>3 DEF Act, Effect, Stays
  <2>2. req[q].id # i /\ req[q].phase \notin {"emptying", "dropping"}
    BY <1>1, <1>3, <2>1, OneWorker
  <2>3. bin'[i] = bin[i] /\ info'[i] = info[i]
    BY <2>2 DEF Act, Effect, Puts
  <2> QED BY <1>1, <2>1, <2>3 DEF FInv, Lone
<1> QED BY <1>2, <1>3

LEMMA KeepsEmptied ==
  ASSUME FInv, NEW q \in Requests, Act(q), Observe
  PROVE  Emptied'
<1> SUFFICES ASSUME NEW i \in Ids, i \notin muddled', NEW p \in Requests, bin'[i] # Absent
             PROVE  /\ req'[p].phase = "emptying" => i \in req'[p].left
                    /\ req'[p].phase # "dropping"
  BY DEF Emptied
<1>1. i \notin muddled
  BY Cleared
<1>2. CASE p = q
  BY <1>1, <1>2 DEF Act, Effect, Notes, FInv, Emptied
<1>3. CASE p # q /\ req[p].phase \in {"emptying", "dropping"}
  <2>1. req'[p].phase = req[p].phase /\ req'[p].left = req[p].left
    BY <1>3 DEF Act, Effect, Stays
  <2>2. req[q].id # i
    BY <1>1, <1>3, OneWorker
  <2>3. bin'[i] = bin[i]
    BY <2>2 DEF Act, Effect, Puts
  <2> QED BY <1>1, <2>1, <2>3 DEF FInv, Emptied
<1>4. CASE p # q /\ req[p].phase \notin {"emptying", "dropping"}
  BY <1>4 DEF Act, Effect, Stays
<1> QED BY <1>2, <1>3, <1>4

LEMMA KeepsOrigin ==
  ASSUME FInv, NEW q \in Requests, Act(q), Observe
  PROVE  TrashedIsRestorable' /\ origin' \in [Ids -> Names \cup {None}]
<1>1. origin' = [i \in Ids |->
        IF bin'[i] = Absent THEN None
        ELSE IF bin'[i] = bin[i] THEN origin[i]
        ELSE CHOOSE n \in Names : home[n] = bin'[i]]
  BY DEF Observe
<1>2. ASSUME NEW i \in Ids, bin'[i] # bin[i], bin'[i] # Absent
      PROVE  /\ req[q].phase = "binning" /\ req[q].id = i /\ req[q].from \in Names
             /\ info'[i] = info[i] /\ origin'[i] = req[q].from
  <2>1. /\ req[q].phase = "binning" /\ req[q].id = i /\ info'[i] = info[i]
        /\ bin'[i] = home[req[q].from]
    BY <1>2 DEF Act, Effect, Puts
  <2>2. req[q].from \in Names
    BY <2>1, Fields DEF FInv, Shape
  <2>3. \A n \in Names : home[n] = bin'[i] => n = req[q].from
    BY <1>2, <2>1, <2>2 DEF FInv, Base, Distinct
  <2>4. origin'[i] = CHOOSE n \in Names : home[n] = bin'[i]
    BY <1>1, <1>2
  <2> QED BY <2>1, <2>2, <2>3, <2>4
<1>3. ASSUME NEW i \in Ids, i \notin muddled', bin'[i] # Absent PROVE info'[i] = origin'[i]
  <2>1. i \notin muddled
    BY <1>3, Cleared
  <2>2. CASE bin'[i] = bin[i]
    <3>1. origin'[i] = origin[i] /\ info[i] = origin[i]
      BY <1>1, <1>3, <2>1, <2>2 DEF FInv, TrashedIsRestorable
    <3>2. info'[i] = info[i]
      <4> SUFFICES ASSUME info'[i] # info[i] PROVE FALSE
        OBVIOUS
      <4>1. \/ req[q].id = i /\ req[q].phase \in {"noting", "unnoting", "forgetting"}
            \/ req[q].phase = "dropping"
        BY DEF Act, Effect, Puts
      <4> QED BY <1>3, <2>1, <2>2, <4>1 DEF FInv, Lone, Emptied
    <3> QED BY <3>1, <3>2
  <2>3. CASE bin'[i] # bin[i]
    <3>1. /\ req[q].phase = "binning" /\ req[q].id = i
          /\ info'[i] = info[i] /\ origin'[i] = req[q].from
      BY <1>2, <1>3, <2>3
    <3> QED BY <2>1, <3>1 DEF FInv, Lone
  <2> QED BY <2>2, <2>3
<1>4. \A i \in Ids : origin'[i] \in Names \cup {None}
  <2> SUFFICES ASSUME NEW i \in Ids PROVE origin'[i] \in Names \cup {None}
    OBVIOUS
  <2>1. CASE bin'[i] = Absent
    BY <1>1, <2>1
  <2>2. CASE bin'[i] # Absent /\ bin'[i] = bin[i]
    BY <1>1, <2>2 DEF FInv, TypeOK
  <2>3. CASE bin'[i] # Absent /\ bin'[i] # bin[i]
    BY <1>2, <2>3
  <2> QED BY <2>1, <2>2, <2>3
<1>5. origin' \in [Ids -> Names \cup {None}]
  BY <1>1, <1>4
<1>6. TrashedIsRestorable'
  BY <1>3 DEF TrashedIsRestorable
<1> QED BY <1>5, <1>6

LEMMA FInvStep == FInv /\ [Next]_vars => FInv'
<1> SUFFICES ASSUME FInv, [Next]_vars PROVE FInv'
  OBVIOUS
<1>1. CASE UNCHANGED vars
  BY <1>1 DEF vars, disk, history, FInv, Base, TypeOK, Typed, Shapes, Distinct, Unwritten, Unheld,
     Meeting, Unrivalled, Free, OwnCopy, Crowding, Crowded, Workers, Emptying, Lone, Emptied,
     TrashedIsRestorable
<1>2. CASE Next
  <2>1. Observe
    BY <1>2 DEF Next
  <2>2. PICK q \in Requests : Act(q)
    BY <1>2, StepActs DEF Next, FInv
  <2>3. Base'
    BY <2>2, KeepsBase DEF FInv
  <2>4. Meeting' /\ Unrivalled' /\ rivals' \subseteq Requests
    BY <2>1, <2>2, KeepsMeeting, KeepsUnrivalled
  <2>5. Lone' /\ Emptied' /\ TrashedIsRestorable' /\ origin' \in [Ids -> Names \cup {None}]
    BY <2>1, <2>2, KeepsLone, KeepsEmptied, KeepsOrigin
  <2>6. muddled' \subseteq Ids /\ Crowding'
    BY <2>1 DEF Observe, Crowding
  <2>7. TypeOK'
    BY <2>3, <2>4, <2>5, <2>6 DEF TypeOK, Base, Typed
  <2> QED BY <2>3, <2>4, <2>5, <2>6, <2>7 DEF FInv
<1> QED BY <1>1, <1>2

LEMMA FInvInit == Init => FInv
<1> SUFFICES ASSUME Init PROVE FInv
  OBVIOUS
<1>1. /\ home \in [Names -> Docs \cup {Absent}]
      /\ \A m, n \in Names : home[m] = home[n] /\ home[m] # Absent => m = n
      /\ \A i \in Ids : bin[i] = Absent /\ info[i] = NoInfo
      /\ bin \in [Ids -> {Absent}] /\ info \in [Ids -> {NoInfo}]
      /\ partial = {} /\ fresh = Docs \ {home[n] : n \in Names}
      /\ req \in [Requests -> {Idle}] /\ \A q \in Requests : req[q] = Idle
      /\ origin \in [Ids -> {None}] /\ rivals = {} /\ muddled = {}
  BY DEF Init
<1>2. \A q \in Requests : /\ req[q] \in Request /\ req[q].phase = "idle" /\ req[q].doc = None
                          /\ req[q].to = None /\ req[q].id = None
  BY <1>1, IdleFields
<1>3. Typed /\ TypeOK
  BY <1>1, IdleFields DEF Typed, TypeOK
<1>4. Shapes /\ Unrivalled
  BY <1>2 DEF Shapes, Shape, Unrivalled, Free, OwnCopy
<1>5. Distinct
  BY <1>1 DEF Distinct
<1>6. Unwritten
  <2>1. \A d \in fresh : d \in Docs /\ \A n \in Names : home[n] # d
    BY <1>1
  <2>2. \A d \in fresh : Unheld(d)
    BY <1>1, <2>1, FilesAssumption DEF Unheld
  <2>3. \A d \in fresh : d # None
    BY <2>1, FilesAssumption
  <2> QED BY <1>1, <1>2, <2>2, <2>3 DEF Unwritten, Waits
<1>7. Meeting
  BY <1>2, SameTargetNone DEF Meeting
<1>8. Crowding
  BY <1>2, FilesAssumption DEF Crowding, Crowded, Workers
<1>9. Lone /\ Emptied /\ TrashedIsRestorable
  BY <1>1, <1>2 DEF Lone, Emptied, TrashedIsRestorable
<1> QED BY <1>3, <1>4, <1>5, <1>6, <1>7, <1>8, <1>9 DEF FInv, Base

-----------------------------------------------------------------------------
(* What is destroyed.                                                      *)

\* A document that q takes away was asked for, or q had met another request.
Spares(q) ==
  \A d \in (Held \cap Docs) \ partial :
    d \in Held' \/ Asked(q, d) \/ (q \in rivals /\ req'[q].phase # req[q].phase)

LEMMA SameSpares ==
  ASSUME NEW q \in Requests, home' = home, bin' = bin
  PROVE  Spares(q)
BY DEF Spares, Held

\* Only what lay at n may be gone.
LEMMA PathGiven ==
  ASSUME Typed, NEW n \in Names, NEW x, home' = [home EXCEPT ![n] = x], bin' = bin
  PROVE  \A d \in Held : d \in Held' \/ d = home[n]
BY DEF Typed, Held

LEMMA IdGiven ==
  ASSUME Typed, NEW i \in Ids, bin' = [bin EXCEPT ![i] = Absent], home' = home
  PROVE  \A d \in Held : d \in Held' \/ d = bin[i]
BY DEF Typed, Held

\* The phase that a request ends or leaves is not the one it goes to.
LEMMA Leaves ==
  ASSUME Typed, NEW q \in Requests, NEW p \in Phases, req[q].phase # p, req[q].phase # "idle",
         Go(q, p) \/ Done(q)
  PROVE  req'[q].phase # req[q].phase
BY Going, Ending, IdleFields

\* Where nothing is, nothing is lost.
LEMMA NoLoss ==
  ASSUME NEW q \in Requests, NEW x,
         \A d \in Held : d \in Held' \/ d = x,
         x = Absent \/ x \in partial \/ (q \in rivals /\ req'[q].phase # req[q].phase)
  PROVE  Spares(q)
BY FilesAssumption DEF Spares

LEMMA SaveSpares ==
  ASSUME FInv, NEW q \in Requests, Save(q)
  PROVE  Spares(q)
<1>1. Typed /\ Shape(req[q]) /\ (q \notin rivals => Free(req[q]) /\ OwnCopy(q))
  BY DEF FInv, Base, Shapes, Unrivalled
<1>2. CASE \/ \E n \in Names, d \in Docs : Upload(q, n, d) \/ WriteFile(q, n, d) \/ CreateFile(q, n, d)
           \/ \E m, n \in Names, d \in Docs : Copy(q, m, n, d)
           \/ Stage(q) \/ Written(q)
  BY <1>2, SameSpares DEF Upload, WriteFile, CreateFile, Copy, Stage, Written, disk
<1>3. CASE Install(q)
  <2>1. /\ req[q].phase = "saving" /\ home' = [home EXCEPT ![req[q].to] = req[q].doc]
        /\ bin' = bin /\ partial' = partial /\ req[q].to \in Names /\ req[q].doc \in Docs
    BY <1>1, <1>3 DEF Install, Shape
  <2>2. req[q].doc \notin partial' /\ home'[req[q].to] = req[q].doc
    BY <1>1, <2>1, FilesAssumption DEF Typed, FInv, Base, Unwritten, Waits
  <2>3. \A d \in Held : d \in Held' \/ d = home[req[q].to]
    BY <1>1, <2>1, PathGiven
  <2> QED BY <2>1, <2>2, <2>3 DEF Spares, Asked
<1>4. CASE Open(q)
  <2>1. /\ req[q].phase \in {"opening", "overwriting"} /\ req[q].to \in Names
        /\ home' = [home EXCEPT ![req[q].to] = req[q].doc] /\ bin' = bin
    BY <1>1, <1>4 DEF Open, Shape
  <2>2. req'[q].phase = "writing"
    <3>1. req'[q] = [req[q] EXCEPT !.phase = "writing", !.mixed =
            ({p \in Requests : req[p].phase = "writing" /\ req[p].doc = home[req[q].to]} # {})]
      BY <1>4 DEF Open
    <3> QED BY <1>1, <3>1 DEF Typed, Request
  <2>3. \A d \in Held : d \in Held' \/ d = home[req[q].to]
    BY <1>1, <2>1, PathGiven
  <2>4. CASE req[q].phase = "overwriting"
    BY <2>3, <2>4 DEF Spares, Asked
  <2>5. CASE req[q].phase = "opening"
    BY <1>1, <2>2, <2>3, <2>5, NoLoss DEF Free
  <2> QED BY <2>1, <2>4, <2>5
<1>5. CASE CopyFails(q)
  <2>1. /\ req[q].phase = "writing" /\ req[q].from # None /\ req[q].to \in Names
        /\ home' = [home EXCEPT ![req[q].to] = Absent] /\ bin' = bin /\ Done(q)
    BY <1>1, <1>5 DEF CopyFails, Shape
  <2>2. \A d \in Held : d \in Held' \/ d = home[req[q].to]
    BY <1>1, <2>1, PathGiven
  <2>3. req'[q].phase # req[q].phase
    BY <1>1, <2>1, Ending, IdleFields
  <2>4. q \notin rivals => home[req[q].to] = Absent \/ home[req[q].to] \in partial
    BY <1>1, <2>1 DEF OwnCopy
  <2> QED BY <2>2, <2>3, <2>4, NoLoss
<1> QED BY <1>2, <1>3, <1>4, <1>5 DEF Save

LEMMA ArrangeSpares ==
  ASSUME FInv, NEW q \in Requests, Arrange(q)
  PROVE  Spares(q)
<1>1. Typed /\ Shape(req[q]) /\ (q \notin rivals => Free(req[q]))
  BY DEF FInv, Base, Shapes, Unrivalled
<1>2. CASE \/ \E m, n \in Names : Move(q, m, n)
           \/ CheckFree(q)
           \/ \E n \in Names : Delete(q, n)
           \/ \E n \in Names, d \in Docs : Extract(q, n, d)
  BY <1>2, SameSpares DEF Move, CheckFree, Delete, Extract, disk
<1>3. CASE Rename(q)
  <2>1. /\ req[q].phase = "moving" /\ req[q].from \in Names /\ req[q].to \in Names
        /\ req[q].from # req[q].to /\ bin' = bin /\ Done(q)
        /\ home' = [home EXCEPT ![req[q].to] = home[req[q].from], ![req[q].from] = Absent]
    BY <1>1, <1>3 DEF Rename, Shape
  <2>2. /\ home'[req[q].to] = home[req[q].from]
        /\ \A n \in Names : n \notin {req[q].to, req[q].from} => home'[n] = home[n]
    BY <1>1, <2>1 DEF Typed
  <2>3. \A d \in Held : d \in Held' \/ d = home[req[q].to]
    <3>1. \A n \in Names : home[n] = home[req[q].to] \/ \E o \in Names : home'[o] = home[n]
      BY <2>1, <2>2
    <3>2. \A i \in Ids : bin'[i] = bin[i]
      BY <2>1
    <3> QED BY <3>1, <3>2 DEF Held
  <2>4. req'[q].phase # req[q].phase
    BY <1>1, <2>1, Ending, IdleFields
  <2> QED BY <1>1, <2>1, <2>3, <2>4, NoLoss DEF Free
<1>4. CASE Unlink(q)
  <2>1. /\ req[q].phase = "deleting" /\ req[q].from \in Names
        /\ home' = [home EXCEPT ![req[q].from] = Absent] /\ bin' = bin
    BY <1>1, <1>4 DEF Unlink, Shape
  <2>2. \A d \in Held : d \in Held' \/ d = home[req[q].from]
    BY <1>1, <2>1, PathGiven
  <2> QED BY <2>1, <2>2 DEF Spares, Asked
<1>5. CASE Clear(q)
  <2>1. /\ req[q].phase = "clearing" /\ req[q].to \in Names
        /\ home' = [home EXCEPT ![req[q].to] = Absent] /\ bin' = bin
    BY <1>1, <1>5 DEF Clear, Shape
  <2>2. \A d \in Held : d \in Held' \/ d = home[req[q].to]
    BY <1>1, <2>1, PathGiven
  <2> QED BY <2>1, <2>2 DEF Spares, Asked
<1>6. CASE Unpack(q)
  <2>1. /\ req[q].phase = "unpacking" /\ req[q].to \in Names
        /\ home' = [home EXCEPT ![req[q].to] = req[q].doc] /\ bin' = bin /\ Done(q)
    BY <1>1, <1>6 DEF Unpack, Shape
  <2>2. \A d \in Held : d \in Held' \/ d = home[req[q].to]
    BY <1>1, <2>1, PathGiven
  <2>3. req'[q].phase # req[q].phase
    BY <1>1, <2>1, Ending, IdleFields
  <2> QED BY <1>1, <2>1, <2>2, <2>3, NoLoss DEF Free
<1> QED BY <1>2, <1>3, <1>4, <1>5, <1>6 DEF Arrange

LEMMA TrashSpares ==
  ASSUME FInv, NEW q \in Requests, PutInTrash(q)
  PROVE  Spares(q)
<1>1. Typed /\ Shape(req[q]) /\ (q \notin rivals => Free(req[q]))
  BY DEF FInv, Base, Shapes, Unrivalled
<1>2. CASE \/ \E n \in Names : Trash(q, n)
           \/ UniqueName(q) \/ Note(q) \/ NoteFails(q) \/ BinFails(q)
  BY <1>2, SameSpares DEF Trash, UniqueName, Note, NoteFails, BinFails, disk
<1>3. CASE Bin(q)
  <2>1. /\ req[q].phase = "binning" /\ req[q].from \in Names /\ req[q].id \in Ids
        /\ bin' = [bin EXCEPT ![req[q].id] = home[req[q].from]]
        /\ home' = [home EXCEPT ![req[q].from] = Absent] /\ Done(q)
    BY <1>1, <1>3 DEF Bin, Shape
  <2>2. /\ bin'[req[q].id] = home[req[q].from]
        /\ \A n \in Names : n # req[q].from => home'[n] = home[n]
        /\ \A i \in Ids : i # req[q].id => bin'[i] = bin[i]
    BY <1>1, <2>1 DEF Typed
  <2>3. \A d \in Held : d \in Held' \/ d = bin[req[q].id]
    BY <2>1, <2>2 DEF Held
  <2>4. req'[q].phase # req[q].phase
    BY <1>1, <2>1, Ending, IdleFields
  <2> QED BY <1>1, <2>1, <2>3, <2>4, NoLoss DEF Free
<1> QED BY <1>2, <1>3 DEF PutInTrash

LEMMA UntrashSpares ==
  ASSUME FInv, NEW q \in Requests, TakeFromTrash(q)
  PROVE  Spares(q)
<1>1. Typed /\ Shape(req[q]) /\ (q \notin rivals => Free(req[q]))
  BY DEF FInv, Base, Shapes, Unrivalled
<1>2. CASE \/ \E i \in Ids : Restore(q, i) \/ Remove(q, i)
           \/ Find(q) \/ Place(q) \/ Forget(q) \/ Empty(q) \/ EmptyLists(q) \/ EmptyInfo(q)
  BY <1>2, SameSpares DEF Restore, Remove, Find, Place, Forget, Empty, EmptyLists, EmptyInfo, disk
<1>3. CASE Return(q)
  <2>1. /\ req[q].phase = "returning" /\ req[q].to \in Names /\ req[q].id \in Ids
        /\ home' = [home EXCEPT ![req[q].to] = bin[req[q].id]]
        /\ bin' = [bin EXCEPT ![req[q].id] = Absent] /\ Go(q, "forgetting")
    BY <1>1, <1>3 DEF Return, Shape
  <2>2. /\ home'[req[q].to] = bin[req[q].id]
        /\ \A n \in Names : n # req[q].to => home'[n] = home[n]
        /\ \A i \in Ids : i # req[q].id => bin'[i] = bin[i]
    BY <1>1, <2>1 DEF Typed
  <2>3. \A d \in Held : d \in Held' \/ d = home[req[q].to]
    BY <2>1, <2>2 DEF Held
  <2>4. req'[q].phase # req[q].phase
    BY <1>1, <2>1, Going DEF Phases
  <2> QED BY <1>1, <2>1, <2>3, <2>4, NoLoss DEF Free
<1>4. CASE RemoveItem(q)
  <2>1. /\ req[q].phase = "removing" /\ req[q].id \in Ids
        /\ bin' = [bin EXCEPT ![req[q].id] = Absent] /\ home' = home
    BY <1>1, <1>4 DEF RemoveItem, Shape
  <2>2. \A d \in Held : d \in Held' \/ d = bin[req[q].id]
    BY <1>1, <2>1, IdGiven
  <2> QED BY <2>1, <2>2 DEF Spares, Asked
<1>5. CASE EmptyItem(q)
  <2>1. PICK i \in req[q].left : bin' = [bin EXCEPT ![i] = Absent] /\ home' = home
    BY <1>5 DEF EmptyItem
  <2>2. i \in Ids /\ req[q].phase = "emptying"
    BY <1>1, <1>5 DEF EmptyItem, Typed, Request
  <2>3. \A d \in Held : d \in Held' \/ d = bin[i]
    BY <1>1, <2>1, <2>2, IdGiven
  <2> QED BY <2>1, <2>2, <2>3 DEF Spares, Asked
<1> QED BY <1>2, <1>3, <1>4, <1>5 DEF TakeFromTrash

LEMMA StepSpares ==
  ASSUME FInv, NEW q \in Requests,
         Save(q) \/ Arrange(q) \/ PutInTrash(q) \/ TakeFromTrash(q) \/ Refuse(q)
  PROVE  Spares(q)
<1>1. Refuse(q) => Spares(q)
  BY SameSpares DEF Refuse, disk
<1> QED BY <1>1, SaveSpares, ArrangeSpares, TrashSpares, UntrashSpares

-----------------------------------------------------------------------------
(* The theorems.                                                           *)

\* What the home directory, the trash and the requests keep, step by step.
THEOREM FilesInvariant == Spec => []FInv
BY FInvInit, FInvStep, PTL DEF Spec

\* TypeOK of Files.
THEOREM FilesTyped == Spec => []TypeOK
<1>1. FInv => TypeOK
  BY DEF FInv
<1> QED BY <1>1, FilesInvariant, PTL

\* What is in the trash is listed with the path it came from (trash, restore,
\* remove and empty of TrashService), for any number of requests, unless two of
\* them worked on its id at once or one did while the trash was being emptied.
THEOREM TrashIsListed == Spec => []TrashedIsRestorable
<1>1. FInv => TrashedIsRestorable
  BY DEF FInv
<1> QED BY <1>1, FilesInvariant, PTL
\* NothingVanishes of Files: trashing, restoring, moving, copying and creating
\* (FilesService, TrashService, placement in ArchiveService) destroy nothing,
\* whatever fails, unless two requests in flight had the same target.
THEOREM NothingIsDestroyed == Spec => NothingVanishes
<1>1. ASSUME FInv, [Next]_vars
      PROVE  [\A d \in (Held \cap Docs) \ partial :
               \/ d \in Held'
               \/ \E q \in Requests : \/ Asked(q, d)
                                      \/ q \in rivals /\ req'[q].phase # req[q].phase]_vars
  <2>1. CASE Next
    <3>1. PICK q \in Requests :
            Save(q) \/ Arrange(q) \/ PutInTrash(q) \/ TakeFromTrash(q) \/ Refuse(q)
      BY <2>1 DEF Next, Step
    <3> QED BY <1>1, <3>1, StepSpares DEF Spares
  <2> QED BY <1>1, <2>1
<1> QED BY <1>1, FilesInvariant, PTL DEF Spec, NothingVanishes
=============================================================================
