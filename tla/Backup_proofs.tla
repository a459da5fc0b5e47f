--------------------------- MODULE Backup_proofs ---------------------------
(***************************************************************************)
(* Proofs about Backup, for any number of downloads.  The lock is what     *)
(* makes the staging directory private: whoever builds or archives holds   *)
(* it, so no two do, so what is staged is one's own, unless it is removed  *)
(* by somebody who no longer, or never, held it.                           *)
(***************************************************************************)
EXTENDS Backup, TLAPS

BuilderHoldsLock == \A d \in Downloads : phase[d] \in Building => backupInFlight

\* What each phase has put into the staging directory, if nobody removed it.
StagedOwn ==
  \A d \in Downloads : d \notin disturbed =>
    /\ phase[d] \in {"describing", "tarring"} => snapshot = d
    /\ phase[d] = "tarring" => manifest = d
    /\ phase[d] = "walked" => archive[d] = [snapshot |-> d, manifest |-> d]

IInv == TypeOK /\ BuilderHoldsLock /\ OneAtATime /\ StagedOwn /\ OwnSnapshot

LEMMA Initially == Init => IInv
<1> SUFFICES ASSUME Init PROVE IInv
  OBVIOUS
<1> USE DEF Init, Building
<1>1. \A d \in Downloads : phase[d] = "new"
  OBVIOUS
<1>2. TypeOK
  BY DEF TypeOK
<1>3. BuilderHoldsLock /\ OneAtATime
  BY <1>1 DEF BuilderHoldsLock, OneAtATime
<1>4. StagedOwn /\ OwnSnapshot
  BY <1>1 DEF StagedOwn, OwnSnapshot
<1> QED BY <1>2, <1>3, <1>4 DEF IInv

-----------------------------------------------------------------------------
(* The type invariant.                                                     *)

LEMMA TypeStep == TypeOK /\ [Next]_vars => TypeOK'
<1> SUFFICES ASSUME TypeOK, [Next]_vars PROVE TypeOK'
  OBVIOUS
<1> USE DEF TypeOK, Building, Go, RemoveStaging, DisturbOthers
<1>1. CASE UNCHANGED vars
  BY <1>1 DEF vars, staging
<1>2. ASSUME NEW d \in Downloads, Open(d) \/ ResolveRoot(d) \/ Clear(d) \/ Make(d)
      PROVE  TypeOK'
  <2>1. CASE Open(d)
    BY <2>1 DEF Open, staging
  <2>2. CASE ResolveRoot(d)
    BY <2>2 DEF ResolveRoot, staging
  <2>3. CASE Clear(d)
    BY <2>3 DEF Clear
  <2>4. CASE Make(d)
    BY <2>4 DEF Make
  <2> QED BY <1>2, <2>1, <2>2, <2>3, <2>4
<1>3. ASSUME NEW d \in Downloads, Snapshot(d) \/ Describe(d) \/ Fail(d) PROVE TypeOK'
  <2>1. CASE Snapshot(d)
    BY <2>1 DEF Snapshot
  <2>2. CASE Describe(d)
    BY <2>2 DEF Describe
  <2>3. CASE Fail(d)
    BY <2>3 DEF Fail, staging
  <2> QED BY <1>3, <2>1, <2>2, <2>3
<1>4. ASSUME NEW d \in Downloads,
             Walk(d) \/ TarDone(d) \/ TarFails(d) \/ ClientLeaves(d) \/ Remove(d)
      PROVE  TypeOK'
  <2>1. CASE Walk(d)
    BY <2>1 DEF Walk, staging
  <2>2. CASE TarDone(d)
    BY <2>2 DEF TarDone, staging
  <2>3. CASE TarFails(d)
    BY <2>3 DEF TarFails, staging
  <2>4. CASE ClientLeaves(d)
    BY <2>4 DEF ClientLeaves, staging
  <2>5. CASE Remove(d)
    BY <2>5 DEF Remove
  <2> QED BY <1>4, <2>1, <2>2, <2>3, <2>4, <2>5
<1>5. CASE RestoreRemoves
  BY <1>5 DEF RestoreRemoves
<1>6. CASE Restart
  BY <1>6 DEF Restart, staging
<1> QED BY <1>1, <1>2, <1>3, <1>4, <1>5, <1>6 DEF Next, Build

-----------------------------------------------------------------------------
(* The lock.                                                               *)

LEMMA LockStep ==
  ASSUME TypeOK, BuilderHoldsLock, OneAtATime, [Next]_vars
  PROVE  BuilderHoldsLock' /\ OneAtATime'
<1> USE DEF TypeOK, Building, BuilderHoldsLock, OneAtATime, Go
<1>1. CASE UNCHANGED vars \/ RestoreRemoves
  BY <1>1 DEF vars, RestoreRemoves
<1>2. ASSUME NEW d \in Downloads, Open(d) PROVE BuilderHoldsLock' /\ OneAtATime'
  BY <1>2 DEF Open
\* A step of a builder on its way keeps the lock.
<1>3. ASSUME NEW d \in Downloads,
             \/ Build(d) \/ Walk(d)
             \/ ClientLeaves(d) \/ Remove(d)
      PROVE  BuilderHoldsLock' /\ OneAtATime'
  <2>1. /\ backupInFlight' = backupInFlight
        /\ \A e \in Downloads : phase'[e] \in Building => phase[e] \in Building
    BY <1>3 DEF Build, ResolveRoot, Clear, Make, Snapshot, Describe, Walk, ClientLeaves, Remove
  <2> QED BY <2>1
\* Who releases the lock was the only builder, and is none afterwards.
<1>4. ASSUME NEW d \in Downloads, Fail(d) \/ TarDone(d) \/ TarFails(d)
      PROVE  BuilderHoldsLock' /\ OneAtATime'
  <2>1. phase[d] \in Building /\ phase'[d] \notin Building
    BY <1>4 DEF Fail, TarDone, TarFails
  <2>2. \A e \in Downloads : e # d => phase'[e] = phase[e]
    BY <1>4 DEF Fail, TarDone, TarFails
  <2>3. \A e \in Downloads : phase'[e] \notin Building
    BY <2>1, <2>2
  <2> QED BY <2>3
<1>5. CASE Restart
  <2>1. \A e \in Downloads : phase'[e] \notin Building
    BY <1>5 DEF Restart
  <2> QED BY <2>1
<1> QED BY <1>1, <1>2, <1>3, <1>4, <1>5 DEF Next

-----------------------------------------------------------------------------
(* The staging directory.                                                  *)

LEMMA StagingStep ==
  ASSUME IInv, [Next]_vars
  PROVE  StagedOwn' /\ OwnSnapshot'
<1> USE DEF IInv, TypeOK, Building, OneAtATime, StagedOwn, OwnSnapshot, Go
<1>1. CASE UNCHANGED vars
  BY <1>1 DEF vars, staging
<1>2. ASSUME NEW d \in Downloads, Open(d) \/ ResolveRoot(d) \/ Fail(d) \/ ClientLeaves(d)
      PROVE  StagedOwn' /\ OwnSnapshot'
  <2>1. UNCHANGED <<staging, archive, disturbed>>
    BY <1>2 DEF Open, ResolveRoot, Fail, ClientLeaves
  <2>2. \A e \in Downloads : \/ phase'[e] = phase[e]
                             \/ phase'[e] \in {"refused", "root", "clearing", "rootless", "undoing"}
    BY <1>2 DEF Open, ResolveRoot, Fail, ClientLeaves
  <2> QED BY <2>1, <2>2 DEF staging
<1>3. ASSUME NEW d \in Downloads, Clear(d) \/ Remove(d) PROVE StagedOwn' /\ OwnSnapshot'
  <2>1. CASE Clear(d)
    BY <2>1 DEF Clear, RemoveStaging, DisturbOthers
  <2>2. CASE Remove(d)
    BY <2>2 DEF Remove, RemoveStaging, DisturbOthers
  <2> QED BY <1>3, <2>1, <2>2
<1>4. ASSUME NEW d \in Downloads, Make(d) \/ Snapshot(d) \/ Describe(d)
      PROVE  StagedOwn' /\ OwnSnapshot'
  <2>1. CASE Make(d)
    BY <2>1 DEF Make
  <2>2. CASE Snapshot(d)
    BY <2>2 DEF Snapshot
  <2>3. CASE Describe(d)
    BY <2>3 DEF Describe
  <2> QED BY <1>4, <2>1, <2>2, <2>3
<1>5. ASSUME NEW d \in Downloads, Walk(d) \/ TarDone(d) \/ TarFails(d)
      PROVE  StagedOwn' /\ OwnSnapshot'
  <2>1. CASE Walk(d)
    BY <2>1 DEF Walk, staging
  <2>2. CASE TarDone(d)
    BY <2>2 DEF TarDone, staging
  <2>3. CASE TarFails(d)
    BY <2>3 DEF TarFails, staging
  <2> QED BY <1>5, <2>1, <2>2, <2>3
<1>6. CASE RestoreRemoves
  BY <1>6 DEF RestoreRemoves, RemoveStaging
<1>7. CASE Restart
  BY <1>7 DEF Restart, staging
<1> QED BY <1>1, <1>2, <1>3, <1>4, <1>5, <1>6, <1>7 DEF Next, Build

-----------------------------------------------------------------------------
(* The theorems.                                                           *)

THEOREM BackupInvariant == Spec => []IInv
<1>1. IInv /\ [Next]_vars => IInv'
  BY TypeStep, LockStep, StagingStep DEF IInv
<1> QED BY Initially, <1>1, PTL DEF Spec

\* Every variable keeps its type.
THEOREM BackupTypes == Spec => []TypeOK
BY BackupInvariant, PTL DEF IInv

\* Two downloads never build or archive at once.
THEOREM LockExcludes == Spec => []OneAtATime
BY BackupInvariant, PTL DEF IInv

\* A complete, undisturbed archive is the downloader's own.
THEOREM ArchiveIsOwn == Spec => []OwnSnapshot
BY BackupInvariant, PTL DEF IInv
=============================================================================
