--------------------------- MODULE Restore_proofs ---------------------------
(***************************************************************************)
(* Proofs about Restore, for any number of uploads and entries.            *)
(*                                                                         *)
(* While one apply swaps, its undo list says what each of the three        *)
(* directories holds (Exact): an entry that was parked lies in rollback,   *)
(* one that was moved in is its own, and each was parked before anything   *)
(* was moved over it.  Run backwards, the list therefore gives back what   *)
(* was there; and run with errors it still never overwrites the user's     *)
(* (Careful).                                                              *)
(***************************************************************************)
EXTENDS Restore, SequenceTheorems, TLAPS

Working == {"inspecting", "pending", "staging"} \cup InSwap

\* The queue of uploads holds each of them once, and only those that wait.
Queued ==
  /\ \A i \in 1..Len(pending) : phase[pending[i]] = "pending"
  /\ \A i, j \in 1..Len(pending) : pending[i] = pending[j] => i = j

Step == {"park", "move"} \X Names

-----------------------------------------------------------------------------
(* What the three ways to drop an upload leave of the queue.               *)

LEMMA Expiring ==
  ASSUME NEW S, NEW s \in Seq(S), NEW k \in 0..Len(s)
  PROVE  /\ SubSeq(s, k + 1, Len(s)) \in Seq(S)
         /\ Len(SubSeq(s, k + 1, Len(s))) = Len(s) - k
         /\ \A i \in 1..(Len(s) - k) : SubSeq(s, k + 1, Len(s))[i] = s[k + i]
<1>1. /\ k \in Int /\ k + 1 \in Int /\ Len(s) \in Nat
      /\ \A i \in (k + 1)..Len(s) : s[i] \in S
  BY LenProperties, ElementOfSeq
<1> DEFINE t == SubSeq(s, k + 1, Len(s))
<1>2. /\ t \in Seq(S)
      /\ Len(t) = IF k + 1 <= Len(s) THEN Len(s) - (k + 1) + 1 ELSE 0
      /\ \A i \in 1 .. Len(s) - (k + 1) + 1 : t[i] = s[(k + 1) + i - 1]
  BY ONLY <1>1, SubSeqProperties
<1> HIDE DEF t
<1>3. Len(t) = Len(s) - k
  BY <1>1, <1>2
<1>4. ASSUME NEW i \in 1..(Len(s) - k)
      PROVE  t[i] = s[k + i]
  <2>1. i \in 1 .. Len(s) - (k + 1) + 1 /\ (k + 1) + i - 1 = k + i
    BY <1>1
  <2> QED BY <2>1, <1>2
<1>5. QED BY <1>2, <1>3, <1>4 DEF t

LEMMA Removing ==
  ASSUME NEW S, NEW s \in Seq(S), NEW i \in 1..Len(s)
  PROVE  /\ Without(s, i) \in Seq(S)
         /\ Len(Without(s, i)) = Len(s) - 1
         /\ \A j \in 1..(Len(s) - 1) :
              /\ j < i => Without(s, i)[j] = s[j]
              /\ ~(j < i) => Without(s, i)[j] = s[j + 1]
<1> DEFINE a == SubSeq(s, 1, i - 1)
           b == SubSeq(s, i + 1, Len(s))
<1>1. /\ i \in Nat /\ 1 <= i /\ i <= Len(s) /\ Len(s) \in Nat
      /\ \A j \in 1..(i - 1) : s[j] \in S
  BY LenProperties, ElementOfSeq
<1>2. /\ a \in Seq(S)
      /\ Len(a) = IF 1 <= i - 1 THEN i - 1 - 1 + 1 ELSE 0
      /\ \A j \in 1 .. i - 1 - 1 + 1 : a[j] = s[1 + j - 1]
  <2>1. 1 \in Int /\ i - 1 \in Int
    BY <1>1
  <2> QED BY ONLY <1>1, <2>1, SubSeqProperties
<1>3. /\ b \in Seq(S) /\ Len(b) = Len(s) - i
      /\ \A j \in 1..(Len(s) - i) : b[j] = s[i + j]
  <2>1. i \in 0..Len(s)
    BY <1>1
  <2> QED BY <2>1, Expiring
<1> HIDE DEF a, b
<1>4. Len(a) = i - 1
  BY <1>1, <1>2
<1> DEFINE c == a \o b
<1>5. /\ c \in Seq(S) /\ Len(c) = Len(a) + Len(b)
      /\ \A j \in 1 .. Len(a) + Len(b) :
           c[j] = IF j <= Len(a) THEN a[j] ELSE b[j - Len(a)]
  BY <1>2, <1>3, ConcatProperties
<1>6. c = Without(s, i)
  BY DEF a, b, Without
<1> HIDE DEF c
<1>7. ASSUME NEW j \in 1..(Len(s) - 1)
      PROVE  (j < i => c[j] = s[j]) /\ (~(j < i) => c[j] = s[j + 1])
  <2>0. j \in 1 .. Len(a) + Len(b) /\ j \in Nat
    BY <1>1, <1>3, <1>4
  <2>1. CASE j < i
    <3>1. j \in 1 .. i - 1 - 1 + 1 /\ 1 + j - 1 = j /\ j <= Len(a)
      BY <1>1, <1>4, <2>0, <2>1
    <3> QED BY <3>1, <1>2, <1>5, <2>0, <2>1
  <2>2. CASE ~(j < i)
    <3> DEFINE m == j - (i - 1)
    <3>1. m \in 1..(Len(s) - i) /\ i + m = j + 1 /\ ~(j <= Len(a)) /\ m = j - Len(a)
      BY <1>1, <1>4, <2>0, <2>2
    <3> HIDE DEF m
    <3>2. b[m] = s[i + m]
      BY <3>1, <1>3
    <3>3. c[j] = b[j - Len(a)]
      BY <3>1, <1>5, <2>0
    <3>4. c[j] = b[m]
      BY <3>1, <3>3
    <3>5. c[j] = s[j + 1]
      BY <3>1, <3>2, <3>4
    <3> QED BY ONLY <3>5, <2>2
  <2> QED BY <2>1, <2>2
<1>8. c \in Seq(S) /\ Len(c) = Len(s) - 1
  BY ONLY <1>1, <1>3, <1>4, <1>5
<1> QED BY <1>6, <1>7, <1>8

LEMMA Adding ==
  ASSUME NEW S, NEW s \in Seq(S), NEW e \in S
  PROVE  /\ Append(s, e) \in Seq(S)
         /\ Len(Append(s, e)) = Len(s) + 1
         /\ Append(s, e) # <<>>
         /\ \A i \in 1..(Len(s) + 1) :
              Append(s, e)[i] = IF i = Len(s) + 1 THEN e ELSE s[i]
<1>1. Len(s) \in Nat
  BY LenProperties
<1> QED BY <1>1, AppendProperties

LEMMA Undoing ==
  ASSUME NEW S, NEW s \in Seq(S), s # <<>>
  PROVE  /\ Len(s) \in Nat \ {0}
         /\ s[Len(s)] \in S
         /\ SubSeq(s, 1, Len(s) - 1) \in Seq(S)
         /\ Len(SubSeq(s, 1, Len(s) - 1)) = Len(s) - 1
         /\ \A i \in 1..(Len(s) - 1) : SubSeq(s, 1, Len(s) - 1)[i] = s[i]
<1>1. Len(s) \in Nat \ {0}
  BY EmptySeq
<1> DEFINE n == Len(s) - 1
           t == SubSeq(s, 1, n)
<1>2. /\ 1 \in Int /\ n \in Int /\ n >= 0
      /\ \A i \in 1..n : s[i] \in S
  BY <1>1, ElementOfSeq
<1> HIDE DEF n
<1>3. /\ t \in Seq(S)
      /\ Len(t) = IF 1 <= n THEN n - 1 + 1 ELSE 0
      /\ \A i \in 1 .. n - 1 + 1 : t[i] = s[1 + i - 1]
  BY ONLY <1>2, SubSeqProperties
<1> HIDE DEF t
<1>4. Len(t) = n
  BY <1>2, <1>3
<1>5. ASSUME NEW i \in 1..n PROVE t[i] = s[i]
  <2>1. i \in 1 .. n - 1 + 1 /\ 1 + i - 1 = i
    BY <1>2
  <2> QED BY <2>1, <1>3
<1>6. s[Len(s)] \in S
  BY <1>1, ElementOfSeq
<1> QED BY <1>1, <1>3, <1>4, <1>5, <1>6 DEF t, n

-----------------------------------------------------------------------------
(* Types.                                                                  *)

LEMMA TreesAreNotAbsent == Absent \notin Trees /\ User \in Trees /\ Boot \in Trees
BY RestoreAssumption DEF Trees

LEMMA QueueStep ==
  ASSUME TypeOK, Queued, NEW u \in Uploads,
         BeginInspect(u) \/ EndInspect(u) \/ RefuseInspect(u) \/ Apply(u)
  PROVE  /\ pending' \in Seq(Uploads) /\ Len(pending') <= MaxPending
         /\ phase' \in [Uploads -> Phases]
         /\ Queued'
<1> USE DEF Go
<1>t. /\ pending \in Seq(Uploads) /\ Len(pending) <= MaxPending
      /\ phase \in [Uploads -> Phases]
      /\ {"inspecting", "gone", "pending", "staging"} \subseteq Phases
  BY DEF TypeOK, Phases
<1>0. Len(pending) \in Nat /\ MaxPending \in Nat
  BY <1>t, LenProperties, RestoreAssumption
<1>a. \A i \in 1..Len(pending) : pending[i] \in Uploads
  BY <1>t, ElementOfSeq
<1>q. /\ \A i \in 1..Len(pending) : phase[pending[i]] = "pending"
      /\ \A i, j \in 1..Len(pending) : pending[i] = pending[j] => i = j
  BY DEF Queued
<1>1. CASE BeginInspect(u)
  <2>1. PICK k \in 0..Len(pending) :
          /\ pending' = SubSeq(pending, k + 1, Len(pending))
          /\ phase' = [v \in Uploads |->
               IF v = u THEN "inspecting"
               ELSE IF \E i \in 1..k : pending[i] = v THEN "gone" ELSE phase[v]]
    BY <1>1 DEF BeginInspect
  <2>2. /\ pending' \in Seq(Uploads) /\ Len(pending') = Len(pending) - k
        /\ \A i \in 1..(Len(pending) - k) : pending'[i] = pending[k + i]
    BY <2>1, <1>t, Expiring
  <2>3. phase[u] = "new" /\ phase' \in [Uploads -> Phases]
    BY <1>1, <2>1, <1>t DEF BeginInspect
  <2>4. ASSUME NEW i \in 1..Len(pending') PROVE phase'[pending'[i]] = "pending"
    <3>1. k + i \in 1..Len(pending) /\ ~(k + i \in 1..k)
      BY <2>2, <1>0
    <3> DEFINE v == pending[k + i]
    <3>2. v \in Uploads /\ pending'[i] = v /\ phase[v] = "pending"
      BY <3>1, <2>2, <1>0, <1>a, <1>q
    <3>3. \A j \in 1..k : pending[j] # v
      <4>1. \A j \in 1..k : j \in 1..Len(pending) /\ j # k + i
        BY <3>1, <1>0, <2>2
      <4> QED BY <4>1, <3>1, <1>q
    <3> HIDE DEF v
    <3> QED BY <3>2, <3>3, <2>1, <2>3
  <2>5. ASSUME NEW i \in 1..Len(pending'), NEW j \in 1..Len(pending'),
               pending'[i] = pending'[j]
        PROVE  i = j
    <3>1. k + i \in 1..Len(pending) /\ k + j \in 1..Len(pending)
      BY <2>2, <1>0
    <3>2. k + i = k + j
      <4>1. pending[k + i] = pending[k + j]
        BY <2>2, <2>5, <1>0
      <4> QED BY <4>1, <3>1, <1>q
    <3> QED BY <3>2, <1>0
  <2>6. Len(pending') <= MaxPending
    BY <2>2, <1>0, <1>t
  <2> QED BY <2>2, <2>3, <2>4, <2>5, <2>6 DEF Queued
<1>2. CASE EndInspect(u)
  <2> DEFINE all == Append(pending, u)
             over == IF Len(all) > MaxPending THEN {all[1]} ELSE {}
  <2>1. /\ phase[u] = "inspecting"
        /\ pending' = IF over = {} THEN all ELSE Tail(all)
        /\ phase' = [v \in Uploads |-> IF v \in over THEN "gone"
                                       ELSE IF v = u THEN "pending" ELSE phase[v]]
    BY <1>2 DEF EndInspect
  <2>2. /\ all \in Seq(Uploads) /\ Len(all) = Len(pending) + 1 /\ all # <<>>
        /\ \A i \in 1..(Len(pending) + 1) :
              all[i] = IF i = Len(pending) + 1 THEN u ELSE pending[i]
    BY <1>t, Adding
  <2> HIDE DEF all
  <2>3. \A i \in 1..Len(all) : /\ all[i] \in Uploads
                               /\ all[i] = u \/ phase[all[i]] = "pending"
    <3>1. ASSUME NEW i \in 1..Len(all)
          PROVE  all[i] \in Uploads /\ (all[i] = u \/ phase[all[i]] = "pending")
      <4>1. CASE i = Len(pending) + 1
        BY <4>1, <2>2
      <4>2. CASE i # Len(pending) + 1
        <5>1. i \in 1..Len(pending) /\ all[i] = pending[i]
          BY <4>2, <2>2, <1>0
        <5> QED BY <5>1, <1>a, <1>q
      <4> QED BY <4>1, <4>2
    <3> QED BY <3>1
  <2>4. ASSUME NEW i \in 1..Len(all), NEW j \in 1..Len(all), all[i] = all[j]
        PROVE  i = j
    <3>1. \A m \in 1..Len(pending) : pending[m] # u
      BY <2>1, <1>q
    <3>2. /\ i # Len(pending) + 1 => i \in 1..Len(pending) /\ all[i] = pending[i]
          /\ j # Len(pending) + 1 => j \in 1..Len(pending) /\ all[j] = pending[j]
          /\ i = Len(pending) + 1 => all[i] = u
          /\ j = Len(pending) + 1 => all[j] = u
      BY <2>2, <1>0
    <3> QED BY <3>1, <3>2, <2>4, <1>q
  <2>5. CASE Len(all) > MaxPending
    <3>1. pending' = Tail(all) /\ over = {all[1]}
      BY <2>1, <2>5
    <3>2. /\ pending' \in Seq(Uploads) /\ Len(pending') = Len(all) - 1
          /\ \A i \in 1..Len(pending') : pending'[i] = all[i + 1]
      <4>1. PICK rest : rest = Tail(all)
        OBVIOUS
      <4>2. /\ rest \in Seq(Uploads) /\ Len(rest) = Len(all) - 1
            /\ \A i \in 1..Len(rest) : rest[i] = all[i + 1]
        BY <4>1, <2>2, HeadTailProperties
      <4>3. pending' = rest
        BY <4>1, <3>1
      <4> QED BY ONLY <4>2, <4>3
    <3>3. Len(pending') <= MaxPending
      BY <3>2, <2>2, <1>0, <1>t
    <3>4. \A i \in 1..Len(pending') : /\ i + 1 \in 1..Len(all) /\ 1 \in 1..Len(all)
                                      /\ i + 1 # 1
      BY <3>2, <2>2, <1>0
    <3>5. \A i \in 1..Len(pending') : phase'[pending'[i]] = "pending"
      <4>1. ASSUME NEW i \in 1..Len(pending') PROVE phase'[pending'[i]] = "pending"
        <5>1. all[i + 1] # all[1]
          BY <3>4, <2>4
        <5> QED BY <5>1, <3>1, <3>2, <3>4, <2>1, <2>3
      <4> QED BY <4>1
    <3>6. ASSUME NEW i \in 1..Len(pending'), NEW j \in 1..Len(pending'),
                 pending'[i] = pending'[j]
          PROVE  i = j
      <4>1. i + 1 = j + 1
        <5>1. all[i + 1] = all[j + 1]
          BY <3>2, <3>6
        <5> QED BY <5>1, <3>4, <2>4
      <4> QED BY <4>1, <3>2, <1>0, <2>2
    <3>7. phase' \in [Uploads -> Phases]
      BY <2>1, <1>t
    <3> QED BY <3>2, <3>3, <3>5, <3>6, <3>7 DEF Queued
  <2>6. CASE ~(Len(all) > MaxPending)
    <3>1. pending' = all /\ over = {}
      BY <2>1, <2>6
    <3>2. phase' \in [Uploads -> Phases]
      BY <2>1, <1>t
    <3>3. \A i \in 1..Len(pending') : phase'[pending'[i]] = "pending"
      BY <2>1, <2>3, <3>1
    <3>4. Len(all) <= MaxPending
      BY <2>2, <2>6, <1>0
    <3> QED BY <3>1, <3>2, <3>3, <3>4, <2>2, <2>4 DEF Queued
  <2> QED BY <2>5, <2>6
<1>3. CASE RefuseInspect(u)
  BY <1>3, <1>t, <1>a, <1>q DEF RefuseInspect, Queued
<1>4. CASE Apply(u)
  <2>1. PICK i \in 1..Len(pending) :
          /\ pending[i] = u
          /\ pending' = Without(pending, i)
    <3>1. DOMAIN pending = 1..Len(pending)
      BY <1>t, LenProperties
    <3> QED BY <3>1, <1>4 DEF Apply
  <2>2. /\ pending' \in Seq(Uploads) /\ Len(pending') = Len(pending) - 1
        /\ \A j \in 1..(Len(pending) - 1) :
              /\ j < i => pending'[j] = pending[j]
              /\ ~(j < i) => pending'[j] = pending[j + 1]
    <3>1. PICK r : r = Without(pending, i)
      OBVIOUS
    <3>2. /\ r \in Seq(Uploads) /\ Len(r) = Len(pending) - 1
          /\ \A j \in 1..(Len(pending) - 1) :
                /\ j < i => r[j] = pending[j]
                /\ ~(j < i) => r[j] = pending[j + 1]
      BY ONLY <3>1, <1>t, i \in 1..Len(pending), Removing
    <3> QED BY <3>1, <3>2, <2>1
  <2>3. phase' = [phase EXCEPT ![u] = "staging"]
    BY <1>4 DEF Apply
  <2>4. ASSUME NEW j \in 1..Len(pending')
        PROVE  \E m \in 1..Len(pending) : /\ m # i /\ pending'[j] = pending[m]
                                          /\ m = IF j < i THEN j ELSE j + 1
    <3> DEFINE m == IF j < i THEN j ELSE j + 1
    <3>1. m \in 1..Len(pending) /\ m # i
      BY <2>2, <1>0
    <3>2. pending'[j] = pending[m]
      BY <2>2, <1>0
    <3> HIDE DEF m
    <3>3. m = IF j < i THEN j ELSE j + 1
      BY DEF m
    <3> QED BY <3>1, <3>2, <3>3
  <2>5. ASSUME NEW j \in 1..Len(pending') PROVE phase'[pending'[j]] = "pending"
    <3>1. PICK m \in 1..Len(pending) : m # i /\ pending'[j] = pending[m]
      BY <2>4
    <3>2. pending[m] \in Uploads /\ pending[m] # u /\ phase[pending[m]] = "pending"
      BY <3>1, <2>1, <1>a, <1>q
    <3> QED BY <3>1, <3>2, <2>3, <1>t
  <2>6. ASSUME NEW j \in 1..Len(pending'), NEW k \in 1..Len(pending'),
               pending'[j] = pending'[k]
        PROVE  j = k
    <3>1. PICK m \in 1..Len(pending) : /\ m # i /\ pending'[j] = pending[m]
                                       /\ m = IF j < i THEN j ELSE j + 1
      BY <2>4
    <3>2. PICK n \in 1..Len(pending) : /\ n # i /\ pending'[k] = pending[n]
                                       /\ n = IF k < i THEN k ELSE k + 1
      BY <2>4
    <3>3. m = n
      BY <3>1, <3>2, <2>6, <1>q
    <3>4. j \in Nat /\ k \in Nat /\ i \in Nat
      BY <2>2, <1>0
    <3> QED BY <3>1, <3>2, <3>3, <3>4
  <2>7. Len(pending') <= MaxPending /\ phase' \in [Uploads -> Phases]
    BY <2>2, <2>3, <1>0, <1>t
  <2> QED BY <2>2, <2>5, <2>6, <2>7 DEF Queued
<1> QED BY <1>1, <1>2, <1>3, <1>4

LEMMA InspectTypes ==
  ASSUME TypeOK, Queued, NEW u \in Uploads,
         BeginInspect(u) \/ EndInspect(u) \/ RefuseInspect(u) \/ Apply(u)
  PROVE  TypeOK' /\ Queued'
<1>1. tarballs' \subseteq Uploads
  BY DEF TypeOK, BeginInspect, EndInspect, RefuseInspect, Apply
<1>2. UNCHANGED <<home, scratch, swap, db, cause, history>>
  BY DEF BeginInspect, EndInspect, RefuseInspect, Apply
<1> QED BY <1>1, <1>2, QueueStep DEF TypeOK, scratch, swap, db, history

\* The conjuncts of TypeOK about the scratch directories and the undo lists.
ScratchTyped ==
  /\ home \in Directory
  /\ staging \in [Uploads -> Directory] /\ rollback \in [Uploads -> Directory]
  /\ todo \in [Uploads -> SUBSET Names] /\ current \in [Uploads -> Names]
  /\ undo \in [Uploads -> Seq(Step)]

LEMMA ScratchIsTyped == TypeOK => ScratchTyped
BY DEF TypeOK, ScratchTyped, Step

\* An entry of a directory may be replaced.
LEMMA Placing ==
  ASSUME NEW d \in Directory, NEW n \in Names, NEW t \in Trees \cup {Absent}
  PROVE  [d EXCEPT ![n] = t] \in Directory
BY DEF Directory

LEMMA StageTypes ==
  ASSUME TypeOK, NEW u \in Uploads, Stage(u) \/ StageFails(u)
  PROVE  TypeOK'
<1>1. CASE Stage(u)
  <2>1. /\ staging' \in [Uploads -> Directory]
        /\ todo' \in [Uploads -> SUBSET Names]
    <3>1. [n \in Names |-> IF n \in Members[u] THEN u ELSE Absent] \in Directory
      BY DEF Directory, Trees
    <3>2. Members[u] \in SUBSET Names
      BY RestoreAssumption
    <3> QED BY <3>1, <3>2, <1>1 DEF Stage, TypeOK
  <2>2. /\ before' \in [Uploads -> Directory] /\ overlap' \in BOOLEAN
        /\ phase' \in [Uploads -> Phases]
    BY <1>1 DEF Stage, TypeOK, Go, Phases
  <2> QED BY <2>1, <2>2, <1>1 DEF Stage, TypeOK, upload, db
<1>2. CASE StageFails(u)
  <2>1. /\ before' \in [Uploads -> Directory] /\ overlap' \in BOOLEAN
        /\ phase' \in [Uploads -> Phases]
        /\ cause' \in [Uploads -> Causes]
    BY <1>2 DEF StageFails, TypeOK, Go, Fail, Phases, Causes
  <2> QED BY <2>1, <1>2 DEF StageFails, TypeOK, upload, scratch, swap, db
<1> QED BY <1>1, <1>2

LEMMA SwapTypes ==
  ASSUME TypeOK, NEW u \in Uploads, Swap(u)
  PROVE  TypeOK'
<1>0. ScratchTyped
  BY ScratchIsTyped
<1>1. /\ UNCHANGED <<upload, db, history>>
      /\ phase' \in [Uploads -> Phases]
      /\ cause' \in [Uploads -> Causes]
  BY DEF Swap, CheckLive, Park, Move, SwapFails, SwapDone, Undo, UndoDone, TypeOK, Go,
         Fail, Phases, Causes
<1>2. ScratchTyped'
  <2>1. CASE CheckLive(u)
    BY <2>1, <1>0 DEF CheckLive, ScratchTyped, scratch
  <2>2. CASE Park(u)
    <3> DEFINE n == current[u]
    <3>1. n \in Names /\ home[n] \in Trees \cup {Absent} /\ <<"park", n>> \in Step
      BY <1>0 DEF ScratchTyped, Directory, Step
    <3>2. Append(undo[u], <<"park", n>>) \in Seq(Step)
      BY <3>1, <1>0, Adding DEF ScratchTyped
    <3>3. /\ [home EXCEPT ![n] = Absent] \in Directory
          /\ [rollback[u] EXCEPT ![n] = home[n]] \in Directory
      BY <3>1, <1>0, Placing DEF ScratchTyped
    <3>4. rollback' = [rollback EXCEPT ![u] = [rollback[u] EXCEPT ![n] = home[n]]]
      BY <2>2, <1>0 DEF Park, ScratchTyped
    <3> QED BY <3>2, <3>3, <3>4, <2>2, <1>0 DEF Park, ScratchTyped
  <2>3. CASE Move(u)
    <3> DEFINE n == current[u]
    <3>1. /\ n \in Names /\ staging[u][n] \in Trees \cup {Absent}
          /\ <<"move", n>> \in Step
      BY <1>0 DEF ScratchTyped, Directory, Step
    <3>2. Append(undo[u], <<"move", n>>) \in Seq(Step)
      BY <3>1, <1>0, Adding DEF ScratchTyped
    <3>3. /\ [home EXCEPT ![n] = staging[u][n]] \in Directory
          /\ [staging[u] EXCEPT ![n] = Absent] \in Directory
      BY <3>1, <1>0, Placing DEF ScratchTyped
    <3>4. staging' = [staging EXCEPT ![u] = [staging[u] EXCEPT ![n] = Absent]]
      BY <2>3, <1>0 DEF Move, ScratchTyped
    <3> QED BY <3>2, <3>3, <3>4, <2>3, <1>0 DEF Move, ScratchTyped
  <2>4. CASE SwapFails(u)
    BY <2>4, <1>0 DEF SwapFails, ScratchTyped, scratch, swap
  <2>6. CASE SwapDone(u) \/ UndoDone(u)
    <3>1. <<>> \in Seq(Step) /\ Sys \in Names
      BY EmptySeq, RestoreAssumption
    <3> QED BY <2>6, <3>1, <1>0 DEF SwapDone, UndoDone, LeaveSwap, ScratchTyped, scratch
  <2>5. CASE Undo(u)
    <3> DEFINE step == undo[u][Len(undo[u])]
               n == step[2]
               rest == SubSeq(undo[u], 1, Len(undo[u]) - 1)
    <3>1. undo[u] \in Seq(Step) /\ undo[u] # <<>>
      BY <2>5, <1>0 DEF Undo, ScratchTyped
    <3>2. step \in Step /\ rest \in Seq(Step)
      BY <3>1, Undoing
    <3>3. /\ n \in Names /\ rollback[u][n] \in Trees \cup {Absent}
          /\ home[n] \in Trees \cup {Absent}
      BY <3>2, <1>0 DEF ScratchTyped, Directory, Step
    <3>4. /\ [home EXCEPT ![n] = rollback[u][n]] \in Directory
          /\ [home EXCEPT ![n] = Absent] \in Directory
          /\ [rollback[u] EXCEPT ![n] = Absent] \in Directory
          /\ [staging[u] EXCEPT ![n] = home[n]] \in Directory
      BY <3>3, <1>0, Placing DEF ScratchTyped
    <3>5. /\ undo' = [undo EXCEPT ![u] = rest] /\ UNCHANGED <<todo, current>>
          /\ \/ /\ home' = [home EXCEPT ![n] = rollback[u][n]]
                /\ rollback' = [rollback EXCEPT ![u] = [rollback[u] EXCEPT ![n] = Absent]]
                /\ UNCHANGED staging
             \/ /\ staging' = [staging EXCEPT ![u] = [staging[u] EXCEPT ![n] = home[n]]]
                /\ home' = [home EXCEPT ![n] = Absent]
                /\ UNCHANGED rollback
             \/ UNCHANGED <<home, staging, rollback>>
      BY <2>5, <1>0 DEF Undo, ScratchTyped, scratch
    <3> HIDE DEF step, rest, n
    <3> QED BY <3>2, <3>4, <3>5, <1>0 DEF ScratchTyped
  <2> QED BY <2>1, <2>2, <2>3, <2>4, <2>5, <2>6 DEF Swap
<1> QED BY <1>1, <1>2 DEF TypeOK, ScratchTyped, Step, upload, db, history

LEMMA FinishTypes ==
  ASSUME TypeOK, NEW u \in Uploads, Finish(u)
  PROVE  TypeOK'
<1>1. /\ UNCHANGED <<pending, swap, history>>
      /\ phase' \in [Uploads -> Phases]
      /\ cause' \in [Uploads -> Causes]
      /\ home' = home
  BY DEF Finish, InstallFindsSnapshot, InstallFindsNone, Replace, ReplaceFails,
         ReplaceHalfDone, ReopenFails, Revoke, RevokeFails, CleanTarball, CleanStaging,
         CleanUp, CleanUpFails, TypeOK, Go, Fail, Phases, Causes, upload
<1>2. /\ tarballs' \subseteq Uploads
      /\ staging' \in [Uploads -> Directory] /\ rollback' \in [Uploads -> Directory]
  <2>1. Nothing \in Directory
    BY DEF Nothing, Directory
  <2> QED BY <2>1 DEF Finish, InstallFindsSnapshot, InstallFindsNone, Replace,
     ReplaceFails, ReplaceHalfDone, ReopenFails, Revoke, RevokeFails, CleanTarball,
     CleanStaging, CleanUp, CleanUpFails, TypeOK, upload, scratch
<1>3. /\ database' \in [Trees -> Trees \cup {Absent}] /\ snapshots' \subseteq Uploads
      /\ open' \in Trees \cup {Absent} /\ carried' \in [Trees -> BOOLEAN]
  <2>1. CASE \/ InstallFindsSnapshot(u) \/ InstallFindsNone(u) \/ RevokeFails(u)
             \/ CleanTarball(u) \/ CleanStaging(u) \/ CleanUp(u) \/ CleanUpFails(u)
    BY <2>1 DEF InstallFindsSnapshot, InstallFindsNone, RevokeFails, CleanTarball,
       CleanStaging, CleanUp, CleanUpFails, db, TypeOK
  <2>2. CASE Replace(u) \/ ReplaceHalfDone(u) \/ ReopenFails(u)
    BY <2>2 DEF Replace, ReplaceHalfDone, ReopenFails, TypeOK, Trees
  <2>3. CASE ReplaceFails(u)
    <3>1. home[Sys] \in Trees \cup {Absent}
      BY RestoreAssumption DEF TypeOK, Directory
    <3>2. \A t \in Trees : Opened(t) \in Trees
      BY TreesAreNotAbsent DEF Opened, TypeOK
    <3> QED BY <2>3, <3>1, <3>2 DEF ReplaceFails, TypeOK
  <2>4. CASE Revoke(u)
    BY <2>4 DEF Revoke, TypeOK
  <2> QED BY <2>1, <2>2, <2>3, <2>4 DEF Finish
<1> QED BY <1>1, <1>2, <1>3 DEF TypeOK, swap, history

LEMMA RestartTypes ==
  ASSUME TypeOK, Restart
  PROVE  TypeOK' /\ Queued' /\ open' # Absent
<1> DEFINE tree == IF home[Sys] = Absent THEN Boot ELSE home[Sys]
<1>1. /\ tree \in Trees /\ Opened(tree) \in Trees /\ Sys \in Names
  BY RestoreAssumption, TreesAreNotAbsent DEF TypeOK, Directory, Opened
<1>2. /\ pending' = <<>> /\ crashes < MaxCrashes /\ crashes' = crashes + 1
      /\ phase' = [v \in Uploads |->
           IF phase[v] \in {"new", "restored", "failed", "littered"} THEN phase[v]
           ELSE "gone"]
      /\ home' = [home EXCEPT ![Sys] = tree]
      /\ database' = [database EXCEPT ![tree] = Opened(tree)]
      /\ open' = Opened(tree)
      /\ UNCHANGED <<tarballs, scratch, snapshots, carried, cause, before, overlap>>
  BY DEF Restart
<1> HIDE DEF tree
<1>3. home' \in Directory /\ database' \in [Trees -> Trees \cup {Absent}]
  BY <1>1, <1>2 DEF TypeOK, Directory
<1>4. phase' \in [Uploads -> Phases]
  BY <1>2 DEF TypeOK, Phases
<1>5. crashes' \in 0..MaxCrashes
  BY <1>2, RestoreAssumption DEF TypeOK
<1>6. pending' \in Seq(Uploads) /\ Len(pending') = 0 /\ Len(pending') <= MaxPending
  BY <1>2, EmptySeq, RestoreAssumption
<1>7. Queued'
  BY <1>6 DEF Queued
<1>8. /\ todo' \in [Uploads -> SUBSET Names] /\ current' \in [Uploads -> Names]
      /\ undo' \in [Uploads -> Seq({"park", "move"} \X Names)]
  BY <1>1, EmptySeq DEF Restart
<1> QED BY <1>1, <1>2, <1>3, <1>4, <1>5, <1>6, <1>7, <1>8, TreesAreNotAbsent
        DEF TypeOK, scratch

\* An upload is given up and its tarball stays.
Dropping(u) == RefuseFails(u) \/ ApplyFails(u)

LEMMA DroppingDoes ==
  ASSUME TypeOK, NEW u \in Uploads, Dropping(u)
  PROVE  /\ \/ /\ phase[u] = "inspecting" /\ phase' = [phase EXCEPT ![u] = "gone"]
               /\ cause' = [cause EXCEPT ![u] = "clean"] /\ before' = before
            \/ /\ phase[u] = "staging" /\ phase' = [phase EXCEPT ![u] = "failed"]
               /\ cause' = [cause EXCEPT ![u] = "measure"]
               /\ before' = [before EXCEPT ![u] = home]
         /\ UNCHANGED <<pending, tarballs, home, staging, rollback, todo, current, undo,
                        database, snapshots, open, carried, overlap, crashes>>
BY DEF Dropping, RefuseFails, ApplyFails, Go, Fail, upload, scratch, swap, db, history

LEMMA DroppingTypes ==
  ASSUME TypeOK, Queued, NEW u \in Uploads, Dropping(u)
  PROVE  TypeOK' /\ Queued'
<1>d. /\ \/ /\ phase[u] = "inspecting" /\ phase' = [phase EXCEPT ![u] = "gone"]
            /\ cause' = [cause EXCEPT ![u] = "clean"] /\ before' = before
         \/ /\ phase[u] = "staging" /\ phase' = [phase EXCEPT ![u] = "failed"]
            /\ cause' = [cause EXCEPT ![u] = "measure"]
            /\ before' = [before EXCEPT ![u] = home]
      /\ UNCHANGED <<pending, tarballs, home, staging, rollback, todo, current, undo,
                     database, snapshots, open, carried, overlap, crashes>>
  BY DroppingDoes
<1>t. phase \in [Uploads -> Phases] /\ cause \in [Uploads -> Causes]
      /\ before \in [Uploads -> Directory] /\ home \in Directory
  BY DEF TypeOK
<1>1. \A i \in 1..Len(pending) : pending[i] \in Uploads
  BY ElementOfSeq DEF TypeOK
<1>2. Queued'
  BY <1>1, <1>d, <1>t DEF Queued
<1>4. /\ phase' \in [Uploads -> Phases] /\ cause' \in [Uploads -> Causes]
      /\ before' \in [Uploads -> Directory]
  BY <1>d, <1>t DEF Phases, Causes
<1>3. TypeOK'
  BY <1>4, <1>d DEF TypeOK
<1> QED BY <1>2, <1>3

LEMMA OthersQueue ==
  ASSUME TypeOK, Queued, NEW u \in Uploads,
         Stage(u) \/ StageFails(u) \/ Swap(u) \/ Finish(u)
  PROVE  Queued'
<1>1. /\ pending' = pending /\ phase[u] # "pending"
      /\ \E p \in Phases : phase' = [phase EXCEPT ![u] = p]
  BY DEF Stage, StageFails, Swap, CheckLive, Park, Move, SwapFails, SwapDone, Undo,
     UndoDone, Finish, InstallFindsSnapshot, InstallFindsNone, Replace, ReplaceFails,
     ReplaceHalfDone, ReopenFails, Revoke, RevokeFails, CleanTarball, CleanStaging,
     CleanUp, CleanUpFails, Go, upload, Phases, TypeOK
<1>2. \A i \in 1..Len(pending) : pending[i] \in Uploads
  BY ElementOfSeq DEF TypeOK
<1> QED BY <1>1, <1>2 DEF Queued, TypeOK

-----------------------------------------------------------------------------
(* Tarballs: an upload that is dropped and its file go in one step.        *)

LEMMA TarballsStep ==
  ASSUME TypeOK, Queued, TarballsAccountedFor, NEW u \in Uploads,
         \/ BeginInspect(u) \/ EndInspect(u) \/ RefuseInspect(u) \/ Apply(u)
         \/ Dropping(u) \/ Stage(u) \/ StageFails(u) \/ Swap(u) \/ Finish(u)
  PROVE  TarballsAccountedFor'
<1> USE DEF TarballsAccountedFor, InSwap
<1>t. /\ phase \in [Uploads -> Phases] /\ tarballs \subseteq Uploads
      /\ cause \in [Uploads -> Causes]
  BY DEF TypeOK
<1>1. CASE BeginInspect(u)
  <2>1. PICK k \in 0..Len(pending) :
          /\ tarballs' = (tarballs \cup {u}) \ {pending[i] : i \in 1..k}
          /\ phase' = [v \in Uploads |->
               IF v = u THEN "inspecting"
               ELSE IF \E i \in 1..k : pending[i] = v THEN "gone" ELSE phase[v]]
    BY <1>1 DEF BeginInspect
  <2>2. /\ phase[u] = "new" /\ crashes' = crashes /\ cause' = cause
        /\ \A i \in 1..k : pending[i] # u
    <3>1. Len(pending) \in Nat
      BY LenProperties DEF TypeOK
    <3>2. \A i \in 1..k : i \in 1..Len(pending)
      BY <3>1
    <3> QED BY <1>1, <3>2 DEF BeginInspect, Queued, history
  <2> QED BY <2>1, <2>2, <1>t
<1>2. CASE EndInspect(u)
  <2> DEFINE all == Append(pending, u)
             over == IF Len(all) > MaxPending THEN {all[1]} ELSE {}
  <2>1. /\ phase[u] = "inspecting" /\ crashes' = crashes /\ cause' = cause
        /\ tarballs' = tarballs \ over
        /\ phase' = [v \in Uploads |-> IF v \in over THEN "gone"
                                       ELSE IF v = u THEN "pending" ELSE phase[v]]
    BY <1>2 DEF EndInspect, history
  <2> HIDE DEF over
  <2> QED BY <2>1, <1>t
<1>3. CASE RefuseInspect(u)
  BY <1>3, <1>t DEF RefuseInspect, Go, history
<1>4. CASE Apply(u)
  <2>1. phase[u] = "pending"
    <3>1. DOMAIN pending = 1..Len(pending)
      BY LenProperties DEF TypeOK
    <3> QED BY <3>1, <1>4 DEF Apply, Queued
  <2> QED BY <2>1, <1>4, <1>t DEF Apply, Go, history
<1>5. CASE Stage(u) \/ StageFails(u)
  <2>1. CASE Stage(u)
    BY <2>1, <1>t DEF Stage, Go, upload
  <2>2. CASE StageFails(u)
    <3>1. /\ phase' = [phase EXCEPT ![u] = "cleaning"]
          /\ cause' = [cause EXCEPT ![u] = "stage"]
          /\ phase[u] = "staging" /\ tarballs' = tarballs /\ crashes' = crashes
      BY <2>2 DEF StageFails, Fail, Go, upload
    <3> QED BY <3>1, <1>t
  <2> QED BY <1>5, <2>1, <2>2
<1>8. CASE Dropping(u)
  <2>1. /\ \/ /\ phase[u] = "inspecting" /\ phase' = [phase EXCEPT ![u] = "gone"]
              /\ cause' = [cause EXCEPT ![u] = "clean"] /\ before' = before
           \/ /\ phase[u] = "staging" /\ phase' = [phase EXCEPT ![u] = "failed"]
              /\ cause' = [cause EXCEPT ![u] = "measure"]
              /\ before' = [before EXCEPT ![u] = home]
        /\ UNCHANGED <<pending, tarballs, home, staging, rollback, todo, current, undo,
                       database, snapshots, open, carried, overlap, crashes>>
    BY <1>8, DroppingDoes
  <2> QED BY <2>1, <1>t
<1>6. CASE Swap(u)
  <2>1. /\ phase[u] \in {"checking", "parking", "moving", "undoing"}
        /\ \E p \in InSwap : phase' = [phase EXCEPT ![u] = p]
        /\ cause' = cause \/ cause' = [cause EXCEPT ![u] = "swap"]
        /\ tarballs' = tarballs /\ crashes' = crashes
    BY <1>6, <1>t DEF Swap, CheckLive, Park, Move, SwapFails, SwapDone, Undo, UndoDone,
       Go, Fail, upload, history
  <2> QED BY <2>1, <1>t
<1>7. CASE Finish(u)
  <2>1. CASE CleanTarball(u) \/ CleanStaging(u) \/ CleanUp(u) \/ CleanUpFails(u)
    BY <2>1, <1>t DEF CleanTarball, CleanStaging, CleanUp, CleanUpFails, Go, upload, history
  <2>2. CASE \/ InstallFindsSnapshot(u) \/ InstallFindsNone(u) \/ Replace(u)
             \/ ReplaceFails(u) \/ ReplaceHalfDone(u) \/ ReopenFails(u)
             \/ Revoke(u) \/ RevokeFails(u)
    <3>1. /\ phase[u] \in {"installing", "replacing", "revoking"}
          /\ \E p \in InSwap : phase' = [phase EXCEPT ![u] = p]
          /\ \/ cause' = cause
             \/ \E c \in {"install", "reopen", "revoke"} : cause' = [cause EXCEPT ![u] = c]
          /\ tarballs' = tarballs /\ crashes' = crashes
      BY <2>2, <1>t DEF InstallFindsSnapshot, InstallFindsNone, Replace, ReplaceFails,
         ReplaceHalfDone, ReopenFails, Revoke, RevokeFails, Go, Fail, upload, history
    <3> QED BY <3>1, <1>t
  <2> QED BY <2>1, <2>2, <1>7 DEF Finish
<1> QED BY <1>1, <1>2, <1>3, <1>4, <1>5, <1>6, <1>7, <1>8

LEMMA TarballsRestart ==
  ASSUME TypeOK, TarballsAccountedFor, Restart
  PROVE  TarballsAccountedFor'
BY DEF TarballsAccountedFor, InSwap, Restart, TypeOK

\* One step of one upload.
OneStep(u) ==
  \/ BeginInspect(u) \/ EndInspect(u) \/ RefuseInspect(u) \/ Apply(u)
  \/ Dropping(u) \/ Stage(u) \/ StageFails(u) \/ Swap(u) \/ Finish(u)

Booked == TypeOK /\ Queued /\ TarballsAccountedFor

LEMMA BookedStep ==
  ASSUME Booked, [Next]_vars
  PROVE  Booked'
<1> USE DEF Booked
<1>1. CASE Restart
  BY <1>1, RestartTypes, TarballsRestart
<1>2. ASSUME NEW u \in Uploads, OneStep(u) PROVE Booked'
  BY <1>2, InspectTypes, DroppingTypes, StageTypes, SwapTypes, FinishTypes, OthersQueue,
     TarballsStep DEF OneStep
<1>3. CASE UNCHANGED vars
  BY <1>3 DEF TypeOK, Queued, TarballsAccountedFor, vars, upload, scratch, swap, db, history
<1> QED BY <1>1, <1>2, <1>3 DEF Next, OneStep, Dropping

LEMMA BookedInit == Init => Booked
<1> SUFFICES ASSUME Init PROVE Booked
  OBVIOUS
<1>1. pending = <<>> /\ pending \in Seq(Uploads) /\ Len(pending) = 0
  BY EmptySeq DEF Init
<1>2. Queued
  BY <1>1 DEF Queued
<1>3. TarballsAccountedFor
  BY DEF Init, TarballsAccountedFor, InSwap
<1>4. home \in Directory /\ Nothing \in Directory
  BY TreesAreNotAbsent DEF Init, Directory, Nothing
<1>5. TypeOK
  <2>1. /\ staging \in [Uploads -> Directory] /\ rollback \in [Uploads -> Directory]
        /\ before \in [Uploads -> Directory]
        /\ phase \in [Uploads -> Phases] /\ todo \in [Uploads -> SUBSET Names]
    BY <1>4 DEF Init, Phases
  <2>2. undo \in [Uploads -> Seq(Step)] /\ current \in [Uploads -> Names]
    BY EmptySeq, RestoreAssumption DEF Init
  <2>3. /\ database \in [Trees -> Trees \cup {Absent}] /\ snapshots \subseteq Uploads
        /\ open \in Trees \cup {Absent} /\ carried \in [Trees -> BOOLEAN]
        /\ cause \in [Uploads -> Causes]
    BY TreesAreNotAbsent DEF Init, Causes
  <2>4. /\ Len(pending) <= MaxPending /\ tarballs \subseteq Uploads
        /\ overlap \in BOOLEAN /\ crashes \in 0..MaxCrashes
    <3>1. MaxPending \in Nat /\ MaxCrashes \in Nat /\ crashes = 0 /\ overlap = FALSE
          /\ tarballs = {}
      BY RestoreAssumption DEF Init
    <3>2. 0 <= MaxPending /\ 0 \in 0..MaxCrashes
      BY <3>1
    <3>3. Len(pending) <= MaxPending
      BY ONLY <1>1, <3>2
    <3> QED BY <3>1, <3>2, <3>3
  <2> QED BY <1>1, <1>4, <2>1, <2>2, <2>3, <2>4 DEF TypeOK, Step
<1> QED BY <1>2, <1>3, <1>5 DEF Booked

-----------------------------------------------------------------------------
(* The undo list.                                                          *)

\* The entries that list s says were parked, or moved in.
Marks(s, k) == {n \in Names : \E i \in 1..Len(s) : s[i] = <<k, n>>}

\* Each rename is logged once, the parking of an entry before its arrival.
Ordered(s) ==
  /\ \A i, j \in 1..Len(s) : s[i] = s[j] => i = j
  /\ \A n \in Names : \A i, j \in 1..Len(s) :
       s[i] = <<"park", n>> /\ s[j] = <<"move", n>> => i < j

LEMMA EmptyLog == Ordered(<<>>) /\ \A k : Marks(<<>>, k) = {}
BY DEF Ordered, Marks

\* s with one more rename.
Logged(s, k, n) == Append(s, <<k, n>>)

LEMMA LogGrows ==
  ASSUME NEW s \in Seq(Step), Ordered(s), NEW n \in Names, NEW k \in {"park", "move"},
         n \notin Marks(s, k), n \notin Marks(s, "move")
  PROVE  /\ Ordered(Logged(s, k, n))
         /\ Marks(Logged(s, k, n), k) = Marks(s, k) \cup {n}
         /\ \A l : l # k => Marks(Logged(s, k, n), l) = Marks(s, l)
<1> DEFINE e == <<k, n>>
           t == Append(s, e)
<1>1. e \in Step
  BY DEF Step
<1>2. /\ Len(t) = Len(s) + 1 /\ Len(s) \in Nat
      /\ \A i \in 1..(Len(s) + 1) : t[i] = IF i = Len(s) + 1 THEN e ELSE s[i]
  BY <1>1, Adding, LenProperties
<1> HIDE DEF t
<1>3. /\ t[Len(s) + 1] = e /\ Len(s) + 1 \in 1..Len(t)
      /\ \A i \in 1..Len(s) : i \in 1..Len(t) /\ t[i] = s[i] /\ s[i] # e /\ i < Len(s) + 1
      /\ \A i \in 1..Len(t) : i \in 1..Len(s) \/ i = Len(s) + 1
  <2>1. \A i \in 1..Len(s) : s[i] # e
    BY DEF Marks
  <2> QED BY <1>2, <2>1
<1>4. \A i, j \in 1..Len(t) : t[i] = t[j] => i = j
  BY <1>3 DEF Ordered
<1>5. ASSUME NEW m \in Names, NEW i \in 1..Len(t), NEW j \in 1..Len(t),
             t[i] = <<"park", m>>, t[j] = <<"move", m>>
      PROVE  i < j
  <2>1. CASE i \in 1..Len(s) /\ j \in 1..Len(s)
    BY <2>1, <1>3, <1>5 DEF Ordered
  <2>2. CASE i = Len(s) + 1
    <3>1. k = "park" /\ m = n /\ j # i
      BY <2>2, <1>3, <1>5
    <3>2. j \in 1..Len(s) /\ s[j] = <<"move", n>>
      BY <3>1, <2>2, <1>3, <1>5
    <3> QED BY <3>2 DEF Marks
  <2>3. CASE j = Len(s) + 1 /\ i \in 1..Len(s)
    BY <2>3, <1>3
  <2> QED BY <2>1, <2>2, <2>3, <1>3
<1>6. \A l : Marks(t, l) = Marks(s, l) \cup (IF l = k THEN {n} ELSE {})
  <2>1. ASSUME NEW l, NEW m \in Names
        PROVE  m \in Marks(t, l) <=> m \in Marks(s, l) \/ (l = k /\ m = n)
    <3>1. m \in Marks(s, l) => m \in Marks(t, l)
      BY <1>3 DEF Marks
    <3>2. l = k /\ m = n => m \in Marks(t, l)
      BY <1>3 DEF Marks
    <3>3. ASSUME m \in Marks(t, l) PROVE m \in Marks(s, l) \/ (l = k /\ m = n)
      <4>1. PICK i \in 1..Len(t) : t[i] = <<l, m>>
        BY <3>3 DEF Marks
      <4>2. CASE i \in 1..Len(s)
        BY <4>1, <4>2, <1>3 DEF Marks
      <4>3. CASE i = Len(s) + 1
        BY <4>1, <4>3, <1>3
      <4> QED BY <4>2, <4>3, <1>3
    <3> QED BY <3>1, <3>2, <3>3
  <2>2. \A l : Marks(t, l) \subseteq Names /\ Marks(s, l) \subseteq Names
    BY DEF Marks
  <2> QED BY <2>1, <2>2
<1>7. Ordered(t)
  BY <1>4, <1>5 DEF Ordered
<1>8. Logged(s, k, n) = t
  BY DEF t, Logged
<1> HIDE DEF e
<1> QED BY <1>6, <1>7, <1>8

\* The rename that s logged last, and s without it.
Latest(s) == s[Len(s)]
Earlier(s) == SubSeq(s, 1, Len(s) - 1)

LEMMA LogShrinks ==
  ASSUME NEW s \in Seq(Step), Ordered(s), s # <<>>,
         NEW t, t = Earlier(s), NEW k, NEW n, Latest(s) = <<k, n>>
  PROVE  /\ t \in Seq(Step) /\ Ordered(t)
         /\ k \in {"park", "move"} /\ n \in Names
         /\ n \in Marks(s, k) /\ Marks(t, k) = Marks(s, k) \ {n}
         /\ \A l : l # k => Marks(t, l) = Marks(s, l)
         /\ k = "park" => n \notin Marks(s, "move")
<1>1. /\ Len(s) \in Nat \ {0} /\ s[Len(s)] \in Step
      /\ t \in Seq(Step) /\ Len(t) = Len(s) - 1
      /\ \A i \in 1..(Len(s) - 1) : t[i] = s[i]
  <2>1. PICK r : r = SubSeq(s, 1, Len(s) - 1)
    OBVIOUS
  <2>2. /\ Len(s) \in Nat \ {0} /\ s[Len(s)] \in Step
        /\ r \in Seq(Step) /\ Len(r) = Len(s) - 1
        /\ \A i \in 1..(Len(s) - 1) : r[i] = s[i]
    BY <2>1, Undoing
  <2>3. t = r
    BY <2>1 DEF Earlier
  <2> QED BY ONLY <2>2, <2>3
<1>2. k \in {"park", "move"} /\ n \in Names /\ s[Len(s)] = <<k, n>>
  BY <1>1 DEF Step, Latest
<1>3. /\ Len(s) \in 1..Len(s)
      /\ \A i \in 1..Len(t) : i \in 1..Len(s) /\ i < Len(s) /\ i # Len(s) /\ t[i] = s[i]
      /\ \A i \in 1..Len(s) : i \in 1..Len(t) \/ i = Len(s)
  BY ONLY <1>1
<1>4. Ordered(t)
  BY ONLY <1>3, Ordered(s) DEF Ordered
<1>5. n \in Marks(s, k)
  BY <1>2, <1>3 DEF Marks
<1>6. ASSUME NEW l, NEW m \in Names
      PROVE  m \in Marks(t, l) <=> m \in Marks(s, l) /\ <<l, m>> # <<k, n>>
  <2>1. ASSUME m \in Marks(t, l) PROVE m \in Marks(s, l) /\ <<l, m>> # <<k, n>>
    <3>1. PICK i \in 1..Len(t) : t[i] = <<l, m>>
      BY <2>1 DEF Marks
    <3>2. s[i] = <<l, m>> /\ i \in 1..Len(s) /\ i # Len(s)
      BY <3>1, <1>3
    <3>3. <<l, m>> # s[Len(s)]
      BY <3>2, <1>3 DEF Ordered
    <3> QED BY <3>2, <3>3, <1>2 DEF Marks
  <2>2. ASSUME m \in Marks(s, l), <<l, m>> # <<k, n>> PROVE m \in Marks(t, l)
    <3>1. PICK i \in 1..Len(s) : s[i] = <<l, m>>
      BY <2>2 DEF Marks
    <3>2. i # Len(s)
      BY <3>1, <2>2, <1>2
    <3>3. i \in 1..Len(t) /\ t[i] = <<l, m>>
      BY <3>1, <3>2, <1>3
    <3> QED BY <3>3 DEF Marks
  <2> QED BY <2>1, <2>2
<1>7. \A l : Marks(t, l) \subseteq Names /\ Marks(s, l) \subseteq Names
  BY DEF Marks
<1>8. k = "park" => n \notin Marks(s, "move")
  <2>1. ASSUME k = "park", n \in Marks(s, "move") PROVE FALSE
    <3>1. PICK j \in 1..Len(s) : s[j] = <<"move", n>>
      BY <2>1 DEF Marks
    <3>2. Len(s) < j
      BY <3>1, <2>1, <1>2, <1>3 DEF Ordered
    <3> QED BY <3>2, <1>1
  <2> QED BY <2>1
<1>9. Marks(t, k) = Marks(s, k) \ {n} /\ \A l : l # k => Marks(t, l) = Marks(s, l)
  <2>1. \A l : \A m \in Names : <<l, m>> = <<k, n>> <=> l = k /\ m = n
    OBVIOUS
  <2>2. \A l : \A m \in Names : m \in Marks(t, l) <=> m \in Marks(s, l) /\ ~(l = k /\ m = n)
    BY <1>6, <2>1
  <2>3. ASSUME NEW l, l # k PROVE Marks(t, l) = Marks(s, l)
    <3>1. \A m \in Names : m \in Marks(t, l) <=> m \in Marks(s, l)
      BY <2>2, <2>3
    <3>2. PICK a, b : a = Marks(t, l) /\ b = Marks(s, l)
      OBVIOUS
    <3>3. a \subseteq Names /\ b \subseteq Names /\ \A m \in Names : m \in a <=> m \in b
      BY <3>1, <3>2, <1>7
    <3>4. a = b
      BY ONLY <3>3
    <3> QED BY <3>2, <3>4
  <2>4. Marks(t, k) = Marks(s, k) \ {n}
    BY <2>2, <1>7
  <2> QED BY <2>3, <2>4
<1> QED BY <1>1, <1>2, <1>4, <1>5, <1>8, <1>9

-----------------------------------------------------------------------------
(* The swap, while no two applies overlap.                                 *)

\* Nothing happened yet for an upload that is not being swapped.
Fresh ==
  \A u \in Uploads :
    phase[u] \in {"new", "inspecting", "pending", "staging"} =>
      /\ staging[u] = Nothing /\ rollback[u] = Nothing /\ undo[u] = <<>>

\* An apply has failed only where it is undone or cleaned up.
Failing ==
  \A u \in Uploads :
    /\ cause[u] # "none" =>
         phase[u] \in {"undoing", "cleaning", "failed", "littered", "gone"}
    /\ phase[u] = "undoing" => cause[u] = "swap"
    /\ cause[u] = "measure" => phase[u] = "failed"

Alone ==
  ~overlap => \A u, v \in Uploads : phase[u] \in InSwap /\ phase[v] \in InSwap => u = v

Parked(u) == Marks(undo[u], "park")
Moved(u) == Marks(undo[u], "move")

\* The three directories, as the undo list says.
Exact(u) ==
  \A n \in Names :
    /\ n \in Moved(u) => n \in Members[u]
    /\ n \in Parked(u) => before[u][n] # Absent
    /\ n \in Moved(u) /\ before[u][n] # Absent => n \in Parked(u)
    /\ home[n] = IF n \in Moved(u) THEN u
                 ELSE IF n \in Parked(u) THEN Absent ELSE before[u][n]
    /\ rollback[u][n] = IF n \in Parked(u) THEN before[u][n] ELSE Absent
    /\ staging[u][n] = IF n \in Members[u] /\ n \notin Moved(u) THEN u ELSE Absent

\* What still holds when steps of the undo list have failed.
Careful(u) ==
  \A n \in Names :
    /\ n \in Moved(u) => home[n] = u
    /\ n \in Parked(u) => rollback[u][n] = before[u][n] /\ home[n] \in {Absent, u}

\* Which names are done.
Ahead(u) ==
  LET done == IF phase[u] = "checking" THEN Moved(u) ELSE Moved(u) \cup {current[u]}
  IN  /\ Members[u] = todo[u] \cup done /\ todo[u] \cap done = {}
      /\ Parked(u) \subseteq done
      /\ phase[u] # "checking" => current[u] \notin Moved(u)
      /\ phase[u] = "parking" => current[u] \notin Parked(u)
      /\ phase[u] = "moving" => current[u] \in Parked(u) \/ before[u][current[u]] = Absent

Forward == {"checking", "parking", "moving"}

SwapOK(u) ==
  /\ phase[u] \in Forward => Ordered(undo[u]) /\ Exact(u) /\ Ahead(u) /\ Sys \in Members[u]
  /\ phase[u] = "undoing" =>
       Ordered(undo[u]) /\ Careful(u) /\ ("undo" \notin Faults => Exact(u))
  /\ phase[u] = "cleaning" /\ cause[u] = "swap" /\ "undo" \notin Faults => home = before[u]
  /\ phase[u] \in {"installing", "replacing", "revoking"} => home[Sys] = u

Swaps == ~overlap => \A u \in Uploads : SwapOK(u)

\* A directory is what it holds at each name.
LEMMA SameDirectory ==
  ASSUME NEW d \in Directory, NEW e \in Directory, \A n \in Names : d[n] = e[n]
  PROVE  d = e
BY DEF Directory

LEMMA SetEntry ==
  ASSUME NEW f \in [Uploads -> Directory], NEW u \in Uploads, NEW n \in Names, NEW t
  PROVE  /\ \A m \in Names : [f EXCEPT ![u][n] = t][u][m] = IF m = n THEN t ELSE f[u][m]
         /\ \A v \in Uploads : v # u => [f EXCEPT ![u][n] = t][v] = f[v]
BY DEF Directory

LEMMA CheckLiveKeeps ==
  ASSUME TypeOK, NEW u \in Uploads, SwapOK(u), CheckLive(u)
  PROVE  SwapOK(u)'
<1>t. ScratchTyped /\ phase \in [Uploads -> Phases]
  BY ScratchIsTyped DEF TypeOK
<1>1. PICK n \in todo[u] :
        /\ current' = [current EXCEPT ![u] = n]
        /\ todo' = [todo EXCEPT ![u] = @ \ {n}]
        /\ phase' = [phase EXCEPT ![u] = IF home[n] # Absent THEN "parking" ELSE "moving"]
  BY DEF CheckLive, Go
<1>2. /\ phase[u] = "checking"
      /\ UNCHANGED <<home, staging, rollback, undo, before>>
  BY DEF CheckLive, scratch, history
<1>3. Ordered(undo[u]) /\ Exact(u) /\ Ahead(u)
  BY <1>2 DEF SwapOK, Forward
<1>4. /\ current'[u] = n /\ todo'[u] = todo[u] \ {n} /\ n \in Names
      /\ phase'[u] = IF home[n] # Absent THEN "parking" ELSE "moving"
  BY <1>1, <1>t DEF ScratchTyped
<1>5. /\ n \notin Moved(u) /\ n \notin Parked(u) /\ n \in Members[u]
      /\ home[n] = before[u][n]
  BY <1>1, <1>2, <1>3, <1>4 DEF Ahead, Exact
<1>6. Moved(u)' = Moved(u) /\ Parked(u)' = Parked(u)
  BY <1>2 DEF Moved, Parked
<1>7. Exact(u)'
  BY <1>2, <1>3, <1>6 DEF Exact
<1>8. Ahead(u)'
  <2>1. Members[u] = todo[u] \cup Moved(u) /\ todo[u] \cap Moved(u) = {}
        /\ Parked(u) \subseteq Moved(u)
    BY <1>2, <1>3 DEF Ahead
  <2> QED BY <2>1, <1>1, <1>2, <1>4, <1>5, <1>6 DEF Ahead
<1> QED BY <1>2, <1>3, <1>4, <1>7, <1>8 DEF SwapOK, Forward

LEMMA ParkKeeps ==
  ASSUME TypeOK, NEW u \in Uploads, SwapOK(u), Park(u)
  PROVE  SwapOK(u)'
<1>t. ScratchTyped /\ phase \in [Uploads -> Phases]
  BY ScratchIsTyped DEF TypeOK
<1> DEFINE n == current[u]
<1>1. /\ phase[u] = "parking" /\ home[n] # Absent
      /\ rollback' = [rollback EXCEPT ![u][n] = home[n]]
      /\ home' = [home EXCEPT ![n] = Absent]
      /\ undo' = [undo EXCEPT ![u] = Append(@, <<"park", n>>)]
      /\ phase' = [phase EXCEPT ![u] = "moving"]
      /\ UNCHANGED <<staging, todo, current, before>>
  BY DEF Park, Go, history
<1>2. Ordered(undo[u]) /\ Exact(u) /\ Ahead(u) /\ Sys \in Members[u]
  BY <1>1 DEF SwapOK, Forward
<1>3. n \in Names /\ n \notin Moved(u) /\ n \notin Parked(u) /\ home[n] = before[u][n]
  BY <1>1, <1>2, <1>t DEF Ahead, Exact, ScratchTyped
<1>4. undo[u] \in Seq(Step) /\ undo'[u] = Append(undo[u], <<"park", n>>)
  BY <1>1, <1>t DEF ScratchTyped
<1>5. /\ Ordered(undo[u])' /\ Parked(u)' = Parked(u) \cup {n} /\ Moved(u)' = Moved(u)
  <2>1. PICK s \in Seq(Step), m \in Names : s = undo[u] /\ m = n
    BY <1>3, <1>4
  <2>2. Ordered(s) /\ m \notin Marks(s, "park") /\ m \notin Marks(s, "move")
    BY <2>1, <1>2, <1>3 DEF Parked, Moved
  <2>3. /\ Ordered(Logged(s, "park", m))
        /\ Marks(Logged(s, "park", m), "park") = Marks(s, "park") \cup {m}
        /\ Marks(Logged(s, "park", m), "move") = Marks(s, "move")
    BY <2>2, LogGrows
  <2>4. undo'[u] = Logged(s, "park", m)
    BY <2>1, <1>4 DEF Logged
  <2> QED BY <2>1, <2>3, <2>4 DEF Parked, Moved
<1>6. /\ \A m \in Names : rollback'[u][m] = IF m = n THEN home[n] ELSE rollback[u][m]
      /\ \A m \in Names : home'[m] = IF m = n THEN Absent ELSE home[m]
  BY <1>1, <1>3, <1>t, SetEntry DEF ScratchTyped, Directory
<1>7. Exact(u)'
  <2> HIDE DEF n
  <2> QED BY <1>1, <1>2, <1>3, <1>5, <1>6 DEF Exact
<1>8. phase'[u] = "moving" /\ current'[u] = n
  BY <1>1, <1>t
<1>9. Ahead(u)'
  BY <1>1, <1>2, <1>5, <1>8 DEF Ahead
<1> QED BY <1>2, <1>5, <1>7, <1>8, <1>9 DEF SwapOK, Forward

LEMMA MoveKeeps ==
  ASSUME TypeOK, NEW u \in Uploads, SwapOK(u), Move(u)
  PROVE  SwapOK(u)'
<1>t. ScratchTyped /\ phase \in [Uploads -> Phases]
  BY ScratchIsTyped DEF TypeOK
<1> DEFINE n == current[u]
<1>1. /\ phase[u] = "moving"
      /\ home' = [home EXCEPT ![n] = staging[u][n]]
      /\ staging' = [staging EXCEPT ![u][n] = Absent]
      /\ undo' = [undo EXCEPT ![u] = Append(@, <<"move", n>>)]
      /\ phase' = [phase EXCEPT ![u] = "checking"]
      /\ UNCHANGED <<rollback, todo, current, before>>
  BY DEF Move, Go, history
<1>2. Ordered(undo[u]) /\ Exact(u) /\ Ahead(u) /\ Sys \in Members[u]
  BY <1>1 DEF SwapOK, Forward
<1>3. /\ n \in Names /\ n \notin Moved(u) /\ n \in Members[u]
      /\ n \in Parked(u) \/ before[u][n] = Absent
      /\ staging[u][n] = u
  BY <1>1, <1>2, <1>t DEF Ahead, Exact, ScratchTyped
<1>4. undo[u] \in Seq(Step) /\ undo'[u] = Append(undo[u], <<"move", n>>)
  BY <1>1, <1>t DEF ScratchTyped
<1>5. /\ Ordered(undo[u])' /\ Moved(u)' = Moved(u) \cup {n} /\ Parked(u)' = Parked(u)
  <2>1. PICK s \in Seq(Step), m \in Names : s = undo[u] /\ m = n
    BY <1>3, <1>4
  <2>2. Ordered(s) /\ m \notin Marks(s, "move")
    BY <2>1, <1>2, <1>3 DEF Parked, Moved
  <2>3. /\ Ordered(Logged(s, "move", m))
        /\ Marks(Logged(s, "move", m), "move") = Marks(s, "move") \cup {m}
        /\ Marks(Logged(s, "move", m), "park") = Marks(s, "park")
    BY <2>2, LogGrows
  <2>4. undo'[u] = Logged(s, "move", m)
    BY <2>1, <1>4 DEF Logged
  <2> QED BY <2>1, <2>3, <2>4 DEF Parked, Moved
<1>6. /\ \A m \in Names : staging'[u][m] = IF m = n THEN Absent ELSE staging[u][m]
      /\ \A m \in Names : home'[m] = IF m = n THEN u ELSE home[m]
  BY <1>1, <1>3, <1>t, SetEntry DEF ScratchTyped, Directory
<1>7. Exact(u)'
  <2> HIDE DEF n
  <2> QED BY <1>1, <1>2, <1>3, <1>5, <1>6 DEF Exact
<1>8. phase'[u] = "checking"
  BY <1>1, <1>t
<1>9. Ahead(u)'
  BY <1>1, <1>2, <1>5, <1>8 DEF Ahead
<1> QED BY <1>2, <1>5, <1>7, <1>8, <1>9 DEF SwapOK, Forward

\* What a step of the undo list does: k is the kind and n the name of its last
\* entry.
LEMMA UndoDoes ==
  ASSUME TypeOK, NEW u \in Uploads, SwapOK(u), Undo(u)
  PROVE  \E k \in {"park", "move"}, n \in Names :
           /\ undo'[u] \in Seq(Step) /\ Ordered(undo[u])'
           /\ \A v \in Uploads : v # u => rollback'[v] = rollback[v]
           /\ k = "park" => /\ n \in Parked(u) /\ n \notin Moved(u)
                            /\ Parked(u)' = Parked(u) \ {n} /\ Moved(u)' = Moved(u)
           /\ k = "move" => /\ n \in Moved(u)
                            /\ Moved(u)' = Moved(u) \ {n} /\ Parked(u)' = Parked(u)
           /\ \/ /\ k = "park"
                 /\ \A m \in Names : home'[m] = IF m = n THEN rollback[u][n] ELSE home[m]
                 /\ \A m \in Names :
                      rollback'[u][m] = IF m = n THEN Absent ELSE rollback[u][m]
                 /\ UNCHANGED staging
              \/ /\ k = "move"
                 /\ \A m \in Names : home'[m] = IF m = n THEN Absent ELSE home[m]
                 /\ \A m \in Names :
                      staging'[u][m] = IF m = n THEN home[n] ELSE staging[u][m]
                 /\ UNCHANGED rollback
              \/ /\ \/ "undo" \in Faults
                    \/ k = "park" /\ home[n] # Absent
                    \/ k = "move" /\ home[n] = Absent
                 /\ UNCHANGED <<home, staging, rollback>>
<1>t. ScratchTyped
  BY ScratchIsTyped
<1>1. phase[u] = "undoing" /\ undo[u] # <<>> /\ undo[u] \in Seq(Step) /\ Ordered(undo[u])
  BY <1>t DEF Undo, ScratchTyped, SwapOK
<1>2. PICK s \in Seq(Step) : s = undo[u] /\ s # <<>>
  BY <1>1
<1>3. PICK step \in Step : step = s[Len(s)]
  BY <1>2, Undoing
<1>4. PICK k \in {"park", "move"}, n \in Names : step = <<k, n>>
  BY <1>3 DEF Step
<1>5. PICK t : t = Earlier(s)
  OBVIOUS
<1>6. /\ t \in Seq(Step) /\ Ordered(t)
      /\ n \in Marks(s, k) /\ Marks(t, k) = Marks(s, k) \ {n}
      /\ \A l : l # k => Marks(t, l) = Marks(s, l)
      /\ k = "park" => n \notin Marks(s, "move")
  <2>1. Latest(s) = <<k, n>> /\ Ordered(s)
    BY <1>1, <1>2, <1>3, <1>4 DEF Latest
  <2> QED BY <1>2, <1>5, <2>1, LogShrinks
<1>7. undo' = [undo EXCEPT ![u] = t]
  BY <1>2, <1>5 DEF Undo, Earlier
<1>8. undo'[u] = t
  BY <1>7, <1>t DEF ScratchTyped
<1>9. /\ undo'[u] \in Seq(Step) /\ Ordered(undo[u])'
      /\ k = "park" => /\ n \in Parked(u) /\ n \notin Moved(u)
                       /\ Parked(u)' = Parked(u) \ {n} /\ Moved(u)' = Moved(u)
      /\ k = "move" => /\ n \in Moved(u)
                       /\ Moved(u)' = Moved(u) \ {n} /\ Parked(u)' = Parked(u)
  BY <1>2, <1>6, <1>8 DEF Parked, Moved
<1>10. undo[u][Len(undo[u])] = step /\ step[1] = k /\ step[2] = n
  BY <1>2, <1>3, <1>4
<1>11. \/ /\ k = "park"
          /\ home' = [home EXCEPT ![n] = rollback[u][n]]
          /\ rollback' = [rollback EXCEPT ![u][n] = Absent]
          /\ UNCHANGED staging
       \/ /\ k = "move"
          /\ staging' = [staging EXCEPT ![u][n] = home[n]]
          /\ home' = [home EXCEPT ![n] = Absent]
          /\ UNCHANGED rollback
       \/ /\ \/ "undo" \in Faults
             \/ k = "park" /\ home[n] # Absent
             \/ k = "move" /\ home[n] = Absent
          /\ UNCHANGED <<home, staging, rollback>>
  BY <1>10 DEF Undo, CanReplace, scratch
<1>12. \A d : /\ \A m \in Names : [rollback EXCEPT ![u][n] = d][u][m] =
                                    IF m = n THEN d ELSE rollback[u][m]
              /\ \A m \in Names : [staging EXCEPT ![u][n] = d][u][m] =
                                    IF m = n THEN d ELSE staging[u][m]
              /\ \A m \in Names : [home EXCEPT ![n] = d][m] =
                                    IF m = n THEN d ELSE home[m]
  BY <1>t, SetEntry DEF ScratchTyped, Directory
<1>13. \/ /\ k = "park"
          /\ \A m \in Names : home'[m] = IF m = n THEN rollback[u][n] ELSE home[m]
          /\ \A m \in Names : rollback'[u][m] = IF m = n THEN Absent ELSE rollback[u][m]
          /\ UNCHANGED staging
       \/ /\ k = "move"
          /\ \A m \in Names : home'[m] = IF m = n THEN Absent ELSE home[m]
          /\ \A m \in Names : staging'[u][m] = IF m = n THEN home[n] ELSE staging[u][m]
          /\ UNCHANGED rollback
       \/ /\ \/ "undo" \in Faults
             \/ k = "park" /\ home[n] # Absent
             \/ k = "move" /\ home[n] = Absent
          /\ UNCHANGED <<home, staging, rollback>>
  <2>1. CASE /\ k = "park"
             /\ home' = [home EXCEPT ![n] = rollback[u][n]]
             /\ rollback' = [rollback EXCEPT ![u][n] = Absent]
             /\ UNCHANGED staging
    BY <2>1, <1>12
  <2>2. CASE /\ k = "move"
             /\ staging' = [staging EXCEPT ![u][n] = home[n]]
             /\ home' = [home EXCEPT ![n] = Absent]
             /\ UNCHANGED rollback
    BY <2>2, <1>12
  <2> QED BY <1>11, <2>1, <2>2
<1>14. \A v \in Uploads : v # u => rollback'[v] = rollback[v]
  BY <1>11, <1>t, SetEntry DEF ScratchTyped
<1> QED BY <1>9, <1>13, <1>14

LEMMA UndoKeeps ==
  ASSUME TypeOK, NEW u \in Uploads, SwapOK(u), Undo(u)
  PROVE  SwapOK(u)'
<1>1. PICK k \in {"park", "move"}, n \in Names :
           /\ undo'[u] \in Seq(Step) /\ Ordered(undo[u])'
           /\ \A v \in Uploads : v # u => rollback'[v] = rollback[v]
           /\ k = "park" => /\ n \in Parked(u) /\ n \notin Moved(u)
                            /\ Parked(u)' = Parked(u) \ {n} /\ Moved(u)' = Moved(u)
           /\ k = "move" => /\ n \in Moved(u)
                            /\ Moved(u)' = Moved(u) \ {n} /\ Parked(u)' = Parked(u)
           /\ \/ /\ k = "park"
                 /\ \A m \in Names : home'[m] = IF m = n THEN rollback[u][n] ELSE home[m]
                 /\ \A m \in Names :
                      rollback'[u][m] = IF m = n THEN Absent ELSE rollback[u][m]
                 /\ UNCHANGED staging
              \/ /\ k = "move"
                 /\ \A m \in Names : home'[m] = IF m = n THEN Absent ELSE home[m]
                 /\ \A m \in Names :
                      staging'[u][m] = IF m = n THEN home[n] ELSE staging[u][m]
                 /\ UNCHANGED rollback
              \/ /\ \/ "undo" \in Faults
                    \/ k = "park" /\ home[n] # Absent
                    \/ k = "move" /\ home[n] = Absent
                 /\ UNCHANGED <<home, staging, rollback>>
  BY UndoDoes
<1>2. /\ phase[u] = "undoing" /\ phase' = phase /\ before' = before
      /\ Ordered(undo[u]) /\ Careful(u) /\ ("undo" \notin Faults => Exact(u))
  BY DEF Undo, SwapOK, history
<1>3. u # Absent
  BY RestoreAssumption
<1>4. Careful(u)'
  BY <1>1, <1>2, <1>3 DEF Careful
<1>5. ASSUME "undo" \notin Faults PROVE Exact(u)'
  <2>1. Exact(u)
    BY <1>2, <1>5
  <2>2. CASE k = "park"
    <3>1. /\ n \in Parked(u) /\ n \notin Moved(u)
          /\ Parked(u)' = Parked(u) \ {n} /\ Moved(u)' = Moved(u)
          /\ home[n] = Absent
      BY <2>2, <1>1, <2>1 DEF Exact
    <3>2. /\ \A m \in Names : home'[m] = IF m = n THEN rollback[u][n] ELSE home[m]
          /\ \A m \in Names : rollback'[u][m] = IF m = n THEN Absent ELSE rollback[u][m]
          /\ UNCHANGED staging
      BY <2>2, <3>1, <1>1, <1>5
    <3> QED BY <3>1, <3>2, <2>1, <1>2 DEF Exact
  <2>3. CASE k = "move"
    <3>1. /\ n \in Moved(u)
          /\ Moved(u)' = Moved(u) \ {n} /\ Parked(u)' = Parked(u)
          /\ home[n] = u
      BY <2>3, <1>1, <2>1 DEF Exact
    <3>2. /\ \A m \in Names : home'[m] = IF m = n THEN Absent ELSE home[m]
          /\ \A m \in Names : staging'[u][m] = IF m = n THEN home[n] ELSE staging[u][m]
          /\ UNCHANGED rollback
      BY <2>3, <3>1, <1>1, <1>3, <1>5
    <3> QED BY <3>1, <3>2, <2>1, <1>2 DEF Exact
  <2> QED BY <2>2, <2>3
<1> QED BY <1>1, <1>2, <1>4, <1>5 DEF SwapOK, Forward

LEMMA SwapFailsKeeps ==
  ASSUME TypeOK, NEW u \in Uploads, SwapOK(u), SwapFails(u)
  PROVE  SwapOK(u)'
<1>1. /\ phase[u] \in {"parking", "moving"} /\ phase'[u] = "undoing"
      /\ UNCHANGED <<home, staging, rollback, undo, before>>
  BY DEF SwapFails, Go, TypeOK, scratch, swap, history
<1>2. Ordered(undo[u]) /\ Exact(u)
  BY <1>1 DEF SwapOK, Forward
<1>3. Careful(u)
  BY <1>2 DEF Exact, Careful
<1> QED BY <1>1, <1>2, <1>3 DEF SwapOK, Forward, Exact, Careful, Parked, Moved

LEMMA SwapDoneKeeps ==
  ASSUME TypeOK, NEW u \in Uploads, SwapOK(u), SwapDone(u)
  PROVE  SwapOK(u)'
<1>1. /\ phase[u] = "checking" /\ todo[u] = {} /\ phase'[u] = "installing" /\ home' = home
  BY DEF SwapDone, Go, TypeOK
<1>2. Exact(u) /\ Members[u] = Moved(u) /\ Sys \in Members[u]
  BY <1>1 DEF SwapOK, Forward, Ahead
<1>3. home[Sys] = u
  BY <1>2, RestoreAssumption DEF Exact
<1> QED BY <1>1, <1>3 DEF SwapOK, Forward

LEMMA UndoDoneKeeps ==
  ASSUME TypeOK, NEW u \in Uploads, SwapOK(u), UndoDone(u)
  PROVE  SwapOK(u)' /\ ("undo" \notin Faults => home = before[u])
<1>1. /\ phase[u] = "undoing" /\ undo[u] = <<>> /\ phase'[u] = "cleaning"
      /\ UNCHANGED <<home, before>>
  BY DEF UndoDone, Go, TypeOK, history
<1>2. ASSUME "undo" \notin Faults PROVE home = before[u]
  <2>1. Exact(u) /\ Parked(u) = {} /\ Moved(u) = {}
    BY <1>1, <1>2, EmptyLog DEF SwapOK, Parked, Moved
  <2>2. home \in Directory /\ before[u] \in Directory
    BY DEF TypeOK
  <2>3. \A n \in Names : home[n] = before[u][n]
    BY <2>1 DEF Exact
  <2> QED BY <2>2, <2>3, SameDirectory
<1> QED BY <1>1, <1>2 DEF SwapOK, Forward

LEMMA SwapKeeps ==
  ASSUME TypeOK, NEW u \in Uploads, SwapOK(u), Swap(u)
  PROVE  SwapOK(u)'
BY CheckLiveKeeps, ParkKeeps, MoveKeeps, UndoKeeps, SwapFailsKeeps, SwapDoneKeeps,
   UndoDoneKeeps DEF Swap

LEMMA FinishKeeps ==
  ASSUME TypeOK, Failing, NEW u \in Uploads, SwapOK(u), Finish(u)
  PROVE  SwapOK(u)'
<1>1. home' = home /\ phase \in [Uploads -> Phases]
  BY DEF Finish, InstallFindsSnapshot, InstallFindsNone, Replace, ReplaceFails,
     ReplaceHalfDone, ReopenFails, Revoke, RevokeFails, CleanTarball, CleanStaging,
     CleanUp, CleanUpFails, TypeOK
<1>2. CASE InstallFindsSnapshot(u)
  BY <1>1, <1>2 DEF InstallFindsSnapshot, Go, SwapOK, Forward
<1>3. CASE Replace(u)
  BY <1>1, <1>3 DEF Replace, Go, SwapOK, Forward
<1>4. CASE Revoke(u)
  <2>1. cause'[u] = "none" /\ phase'[u] = "cleaning"
    BY <1>1, <1>4 DEF Revoke, Go, Failing
  <2> QED BY <2>1 DEF SwapOK, Forward
<1>5. CASE \/ InstallFindsNone(u) \/ ReplaceFails(u) \/ ReplaceHalfDone(u)
           \/ ReopenFails(u) \/ RevokeFails(u)
  <2>1. cause'[u] \in {"install", "reopen", "revoke"} /\ phase'[u] = "cleaning"
    BY <1>1, <1>5 DEF InstallFindsNone, ReplaceFails, ReplaceHalfDone, ReopenFails,
       RevokeFails, Go, Fail, TypeOK
  <2> QED BY <2>1 DEF SwapOK, Forward
<1>6. CASE CleanUp(u) \/ CleanUpFails(u)
  BY <1>1, <1>6 DEF CleanUp, CleanUpFails, Go, SwapOK, Forward
<1>7. CASE CleanTarball(u) \/ CleanStaging(u)
  BY <1>1, <1>7 DEF CleanTarball, CleanStaging, SwapOK, Forward, history
<1> QED BY <1>2, <1>3, <1>4, <1>5, <1>6, <1>7 DEF Finish

LEMMA StageKeeps ==
  ASSUME TypeOK, Fresh, NEW u \in Uploads, Stage(u) \/ StageFails(u)
  PROVE  SwapOK(u)'
<1>t. ScratchTyped /\ phase \in [Uploads -> Phases]
  BY ScratchIsTyped DEF TypeOK
<1>1. CASE Stage(u)
  <2>1. /\ phase[u] = "staging" /\ phase'[u] = "checking"
        /\ \A n \in Names : staging'[u][n] = IF n \in Members[u] THEN u ELSE Absent
        /\ todo'[u] = Members[u] /\ before'[u] = home
        /\ Sys \in Members[u] /\ UNCHANGED <<home, rollback, undo>>
    BY <1>1, <1>t DEF Stage, Go, TypeOK, ScratchTyped
  <2>2. rollback[u] = Nothing /\ undo[u] = <<>>
    BY <2>1 DEF Fresh
  <2>3. Parked(u)' = {} /\ Moved(u)' = {} /\ Ordered(undo[u])'
    BY <2>1, <2>2, EmptyLog DEF Parked, Moved
  <2>4. Exact(u)'
    BY <2>1, <2>2, <2>3 DEF Exact, Nothing
  <2>5. Ahead(u)'
    BY <2>1, <2>3 DEF Ahead
  <2> QED BY <2>1, <2>3, <2>4, <2>5 DEF SwapOK, Forward
<1>2. CASE StageFails(u)
  BY <1>2, <1>t DEF StageFails, Go, Fail, TypeOK, SwapOK, Forward
<1> QED BY <1>1, <1>2

-----------------------------------------------------------------------------
(* The invariant.                                                          *)

RInv ==
  /\ Booked /\ Fresh /\ Failing /\ Alone /\ Swaps
  /\ NothingLostBeforeCleanUp

\* What each step does to the phases of all uploads but one.
LEMMA OthersWait ==
  ASSUME TypeOK, NEW u \in Uploads, OneStep(u)
  PROVE  \A v \in Uploads : v # u =>
           \/ phase'[v] = phase[v]
           \/ phase'[v] = "gone" /\ \E i \in 1..Len(pending) : pending[i] = v
<1>1. CASE BeginInspect(u)
  <2>1. PICK k \in 0..Len(pending) :
          phase' = [v \in Uploads |->
               IF v = u THEN "inspecting"
               ELSE IF \E i \in 1..k : pending[i] = v THEN "gone" ELSE phase[v]]
    BY <1>1 DEF BeginInspect
  <2>2. Len(pending) \in Nat
    BY LenProperties DEF TypeOK
  <2>3. \A i \in 1..k : i \in 1..Len(pending)
    BY <2>2
  <2> QED BY <2>1, <2>3
<1>2. CASE EndInspect(u)
  <2>1. PICK all : all = Append(pending, u)
    OBVIOUS
  <2>2. /\ Len(all) = Len(pending) + 1 /\ Len(pending) \in Nat
        /\ all[1] = u \/ (1 \in 1..Len(pending) /\ all[1] = pending[1])
    <3>1. /\ Len(all) = Len(pending) + 1 /\ Len(pending) \in Nat
          /\ \A i \in 1..(Len(pending) + 1) :
               all[i] = IF i = Len(pending) + 1 THEN u ELSE pending[i]
      BY <2>1, Adding, LenProperties DEF TypeOK
    <3> QED BY <3>1
  <2>3. phase' = [v \in Uploads |->
          IF v \in (IF Len(all) > MaxPending THEN {all[1]} ELSE {}) THEN "gone"
          ELSE IF v = u THEN "pending" ELSE phase[v]]
    BY <1>2, <2>1 DEF EndInspect
  <2> QED BY <2>2, <2>3
<1>4. CASE Dropping(u)
  <2>1. \E p \in Phases : phase' = [phase EXCEPT ![u] = p]
    BY <1>4, DroppingDoes DEF Phases
  <2> QED BY <2>1 DEF TypeOK
<1>3. CASE \/ RefuseInspect(u) \/ Apply(u) \/ Stage(u) \/ StageFails(u)
           \/ Swap(u) \/ Finish(u)
  <2>1. \E p \in Phases : phase' = [phase EXCEPT ![u] = p] \/ phase' = phase
    BY <1>3 DEF RefuseInspect, Apply, Stage, StageFails, Swap, CheckLive, Park, Move,
       SwapFails, SwapDone, Undo, UndoDone, Finish, InstallFindsSnapshot,
       InstallFindsNone, Replace, ReplaceFails, ReplaceHalfDone, ReopenFails, Revoke,
       RevokeFails, CleanTarball, CleanStaging, CleanUp, CleanUpFails, Go, Phases,
       TypeOK
  <2> QED BY <2>1 DEF TypeOK
<1> QED BY <1>1, <1>2, <1>3, <1>4 DEF OneStep

\* Inspecting an upload or taking it leaves the home directory alone.
Asking(u) == BeginInspect(u) \/ EndInspect(u) \/ RefuseInspect(u) \/ Apply(u)

LEMMA OwnStep ==
  ASSUME Booked, NEW u \in Uploads, OneStep(u)
  PROVE  \/ /\ Asking(u)
            /\ phase[u] \in {"new", "inspecting", "pending"}
            /\ phase'[u] \in {"inspecting", "pending", "staging", "gone"}
            /\ UNCHANGED <<home, scratch, swap, db, cause, history>>
         \/ /\ Stage(u) \/ StageFails(u)
            /\ phase[u] = "staging" /\ phase'[u] \in {"checking", "cleaning"}
            /\ UNCHANGED <<home, rollback, undo, db, crashes>>
            /\ overlap' = (overlap \/ \E v \in Uploads : phase[v] \in InSwap)
         \/ /\ Dropping(u)
            /\ phase[u] \in {"inspecting", "staging"} /\ phase'[u] \in {"gone", "failed"}
            /\ UNCHANGED <<home, staging, rollback, undo, db, overlap, crashes>>
         \/ /\ Swap(u) \/ Finish(u)
            /\ phase[u] \in InSwap
            /\ phase'[u] \in InSwap \cup {"restored", "failed", "littered"}
            /\ UNCHANGED history
<1>1. CASE BeginInspect(u) \/ EndInspect(u) \/ RefuseInspect(u)
  BY <1>1 DEF Asking, BeginInspect, EndInspect, RefuseInspect, Go, TypeOK, Booked
<1>2. CASE Apply(u)
  <2>1. DOMAIN pending = 1..Len(pending)
    BY LenProperties DEF TypeOK, Booked
  <2> QED BY <2>1, <1>2 DEF Asking, Apply, Go, TypeOK, Booked, Queued
<1>3. CASE Stage(u) \/ StageFails(u)
  BY <1>3 DEF Stage, StageFails, Go, TypeOK, Booked, scratch, swap
<1>4. CASE Swap(u)
  BY <1>4 DEF Swap, CheckLive, Park, Move, SwapFails, SwapDone, Undo, UndoDone, InSwap,
     Go, TypeOK, Booked
<1>5. CASE Finish(u)
  BY <1>5 DEF Finish, InstallFindsSnapshot, InstallFindsNone, Replace, ReplaceFails,
     ReplaceHalfDone, ReopenFails, Revoke, RevokeFails, CleanTarball, CleanStaging,
     CleanUp, CleanUpFails, InSwap, Go, TypeOK, Booked
<1>6. CASE Dropping(u)
  BY <1>6, DroppingDoes DEF TypeOK, Booked, db
<1> QED BY <1>1, <1>2, <1>3, <1>4, <1>5, <1>6 DEF OneStep

\* The causes of the others do not change.
LEMMA OthersCause ==
  ASSUME Booked, NEW u \in Uploads, OneStep(u)
  PROVE  \A v \in Uploads : v # u => cause'[v] = cause[v]
BY DEF OneStep, Dropping, RefuseFails, ApplyFails, BeginInspect, EndInspect, RefuseInspect,
   Apply, Stage, StageFails, Swap, CheckLive, Park, Move, SwapFails, SwapDone, Undo,
   UndoDone, Finish, InstallFindsSnapshot, InstallFindsNone, Replace, ReplaceFails,
   ReplaceHalfDone, ReopenFails, Revoke, RevokeFails, CleanTarball, CleanStaging, CleanUp,
   CleanUpFails, Fail, Booked, TypeOK

LEMMA WaitingIsOK ==
  ASSUME NEW u \in Uploads, phase[u] \notin InSwap
  PROVE  SwapOK(u)
BY DEF SwapOK, InSwap, Forward

LEMMA FreshStep ==
  ASSUME Booked, Fresh, NEW u \in Uploads, OneStep(u)
  PROVE  Fresh'
<1> DEFINE Early == {"new", "inspecting", "pending", "staging"}
<1>1. \A v \in Uploads : v # u /\ phase'[v] \in Early => phase[v] \in Early
  BY OthersWait DEF Booked
<1>2. \A v \in Uploads : v # u => /\ staging'[v] = staging[v] /\ rollback'[v] = rollback[v]
                                  /\ undo'[v] = undo[v]
  <2>1. CASE Asking(u)
    BY <2>1 DEF Asking, BeginInspect, EndInspect, RefuseInspect, Apply, scratch, swap
  <2>2. CASE Stage(u) \/ StageFails(u)
    BY <2>2 DEF Stage, StageFails, scratch, swap, Booked, TypeOK
  <2>3. CASE Swap(u)
    BY <2>3 DEF Swap, CheckLive, Park, Move, SwapFails, SwapDone, Undo, UndoDone, LeaveSwap,
       scratch, swap, Booked, TypeOK
  <2>5. CASE Dropping(u)
    BY <2>5, DroppingDoes DEF Booked
  <2>4. CASE Finish(u)
    BY <2>4 DEF Finish, InstallFindsSnapshot, InstallFindsNone, Replace, ReplaceFails,
       ReplaceHalfDone, ReopenFails, Revoke, RevokeFails, CleanTarball, CleanStaging,
       CleanUp, CleanUpFails, scratch, swap, Booked, TypeOK
  <2> QED BY <2>1, <2>2, <2>3, <2>4, <2>5 DEF OneStep, Asking
<1>3. phase'[u] \in Early =>
        phase[u] \in Early /\ UNCHANGED <<staging, rollback, undo>>
  BY OwnStep DEF scratch, swap, InSwap
<1> QED BY <1>1, <1>2, <1>3 DEF Fresh

LEMMA FailingStep ==
  ASSUME Booked, Failing, NEW u \in Uploads, OneStep(u)
  PROVE  Failing'
<1> DEFINE Late == {"undoing", "cleaning", "failed", "littered", "gone"}
<1>1. \A v \in Uploads : v # u /\ phase'[v] # phase[v] => phase'[v] = "gone"
  BY OthersWait DEF Booked
<1>2. /\ \A v \in Uploads : v # u => cause'[v] = cause[v]
      /\ cause'[u] # "none" => phase'[u] \in Late
      /\ phase'[u] = "undoing" => cause'[u] = "swap"
      /\ cause'[u] = "measure" => phase'[u] = "failed"
  <2>1. CASE Asking(u)
    <3>1. phase[u] \in {"new", "inspecting", "pending"} /\ cause' = cause
      BY <2>1 DEF Asking, BeginInspect, EndInspect, RefuseInspect, Apply, Booked, Queued,
         TypeOK
    <3>2. phase'[u] # "undoing"
      BY <2>1 DEF Asking, BeginInspect, EndInspect, RefuseInspect, Apply, Booked, Go, TypeOK
    <3> QED BY <3>1, <3>2 DEF Failing
  <2>2. CASE Stage(u) \/ StageFails(u)
    BY <2>2 DEF Stage, StageFails, Go, Fail, Booked, TypeOK, Failing
  <2>3. CASE Swap(u)
    BY <2>3 DEF Swap, CheckLive, Park, Move, SwapFails, SwapDone, Undo, UndoDone, Go, Fail,
       Booked, TypeOK, Failing
  <2>4. CASE Finish(u)
    BY <2>4 DEF Finish, InstallFindsSnapshot, InstallFindsNone, Replace, ReplaceFails,
       ReplaceHalfDone, ReopenFails, Revoke, RevokeFails, CleanTarball, CleanStaging,
       CleanUp, CleanUpFails, Go, Fail, Booked, TypeOK, Failing
  <2>5. CASE Dropping(u)
    BY <2>5, DroppingDoes DEF Booked, TypeOK
  <2> QED BY <2>1, <2>2, <2>3, <2>4, <2>5 DEF OneStep, Asking
<1>3. \A v \in Uploads : v # u /\ cause[v] = "measure" => phase'[v] = phase[v]
  <2>1. \A i \in 1..Len(pending) : phase[pending[i]] = "pending"
    BY DEF Booked, Queued
  <2> QED BY <2>1, OthersWait DEF Booked, Failing
<1> QED BY <1>1, <1>2, <1>3 DEF Failing

LEMMA AloneStep ==
  ASSUME Booked, Alone, NEW u \in Uploads, OneStep(u)
  PROVE  Alone'
<1>1. \A v \in Uploads : v # u /\ phase'[v] \in InSwap => phase[v] \in InSwap
  BY OthersWait DEF Booked, InSwap
<1>2. CASE phase'[u] \in InSwap
  <2>1. \/ phase[u] \in InSwap /\ overlap' = overlap
        \/ overlap' = (overlap \/ \E v \in Uploads : phase[v] \in InSwap)
    BY <1>2, OwnStep DEF InSwap, history
  <2> QED BY <1>1, <2>1 DEF Alone
<1>3. CASE phase'[u] \notin InSwap
  <2>1. overlap' = overlap \/ (overlap => overlap')
    BY OwnStep DEF history
  <2>2. ~overlap' => ~overlap
    BY <2>1
  <2> QED BY <1>1, <1>3, <2>2 DEF Alone
<1> QED BY <1>2, <1>3

LEMMA SwapsStep ==
  ASSUME Booked, Fresh, Failing, Alone, Swaps, NEW u \in Uploads, OneStep(u)
  PROVE  Swaps'
<1> SUFFICES ASSUME ~overlap', NEW v \in Uploads PROVE SwapOK(v)'
  BY DEF Swaps
<1>1. ~overlap
  BY OwnStep DEF history
<1>2. SwapOK(u) /\ SwapOK(v)
  BY <1>1 DEF Swaps
<1>3. CASE Asking(u)
  <2>1. /\ phase'[u] \notin InSwap
        /\ UNCHANGED <<home, scratch, swap, db, cause, history>>
    BY <1>3, OwnStep DEF InSwap, Asking, BeginInspect, EndInspect, RefuseInspect, Apply, Go,
       Booked, TypeOK
  <2>2. CASE phase'[v] \in InSwap
    <3>1. v # u /\ phase'[v] = phase[v]
      BY <2>1, <2>2, OthersWait DEF Booked, InSwap
    <3> QED BY <3>1, <2>1, <1>2
            DEF SwapOK, Forward, Exact, Careful, Ahead, Parked, Moved, scratch, swap, history
  <2>3. CASE phase'[v] \notin InSwap
    BY <2>3 DEF SwapOK, InSwap, Forward
  <2> QED BY <2>2, <2>3
<1>4. CASE Stage(u) \/ StageFails(u)
  <2>1. \A w \in Uploads : phase[w] \notin InSwap
    BY <1>4 DEF Stage, StageFails
  <2>2. CASE v = u
    BY <1>4, <2>2, StageKeeps DEF Booked
  <2>3. CASE v # u
    <3>1. phase'[v] \notin InSwap
      BY <2>1, <2>3, OthersWait DEF Booked, InSwap
    <3> QED BY <3>1 DEF SwapOK, InSwap, Forward
  <2> QED BY <2>2, <2>3
<1>6. CASE Dropping(u)
  <2>1. phase'[u] \notin InSwap
    BY <1>6, DroppingDoes DEF InSwap, Booked, TypeOK
  <2>2. CASE phase'[v] \in InSwap
    <3>1. v # u /\ phase'[v] = phase[v]
      BY <2>1, <2>2, OthersWait DEF Booked, InSwap
    <3>2. /\ before'[v] = before[v] /\ cause'[v] = cause[v]
          /\ UNCHANGED <<home, staging, rollback, todo, current, undo>>
      BY <1>6, <3>1, DroppingDoes DEF Booked, TypeOK
    <3> QED BY <3>1, <3>2, <1>2 DEF SwapOK, Forward, Exact, Careful, Ahead, Parked, Moved
  <2>3. CASE phase'[v] \notin InSwap
    BY <2>3 DEF SwapOK, InSwap, Forward
  <2> QED BY <2>2, <2>3
<1>5. CASE Swap(u) \/ Finish(u)
  <2>1. phase[u] \in InSwap
    BY <1>5 DEF Swap, CheckLive, Park, Move, SwapFails, SwapDone, Undo, UndoDone,
       InSwap, Finish, InstallFindsSnapshot, InstallFindsNone, Replace, ReplaceFails,
       ReplaceHalfDone, ReopenFails, Revoke, RevokeFails, CleanTarball, CleanStaging,
       CleanUp, CleanUpFails
  <2>2. CASE v = u
    BY <1>2, <1>5, <2>2, SwapKeeps, FinishKeeps DEF Booked
  <2>3. CASE v # u
    <3>1. phase'[v] \notin InSwap
      BY <1>1, <2>1, <2>3, OthersWait DEF Booked, InSwap, Alone
    <3> QED BY <3>1 DEF SwapOK, InSwap, Forward
  <2> QED BY <2>2, <2>3
<1> QED BY <1>3, <1>4, <1>5, <1>6 DEF OneStep, Asking

LEMMA KeptStep ==
  ASSUME Booked, Failing, Alone, Swaps, NothingLostBeforeCleanUp, NEW u \in Uploads,
         OneStep(u)
  PROVE  NothingLostBeforeCleanUp'
<1> DEFINE Done == {"restored", "failed", "littered"}
<1> SUFFICES ASSUME ~overlap',
                    \A v \in Uploads : phase'[v] \in Done => cause'[v] = "measure",
                    NEW n \in Names, NEW v \in Uploads, before'[v][n] = User
             PROVE  home'[n] = User \/ \E w \in Uploads : rollback'[w][n] = User
  BY DEF NothingLostBeforeCleanUp
<1>t. ScratchTyped /\ before \in [Uploads -> Directory]
  BY ScratchIsTyped DEF Booked, TypeOK
<1>1. ~overlap /\ SwapOK(u)
  BY OwnStep DEF history, Swaps
<1>2. \A w \in Uploads : phase[w] \in Done => cause[w] = "measure"
  <2>1. phase[u] \notin Done
    BY OwnStep DEF InSwap
  <2>2. ASSUME NEW w \in Uploads, w # u, phase[w] \in Done
        PROVE  cause[w] = "measure"
    <3>1. ~ \E i \in 1..Len(pending) : pending[i] = w
      BY <2>2 DEF Booked, Queued
    <3>2. phase'[w] = phase[w] /\ cause'[w] = cause[w]
      BY <2>2, <3>1, OthersWait, OthersCause DEF Booked
    <3> QED BY <2>2, <3>2
  <2> QED BY <2>1, <2>2
<1>3. \A m \in Names, w \in Uploads :
        before[w][m] = User => home[m] = User \/ \E x \in Uploads : rollback[x][m] = User
  BY <1>1, <1>2 DEF NothingLostBeforeCleanUp
<1>n. User # Absent /\ u # User
  BY RestoreAssumption
<1>4. CASE Asking(u)
  BY <1>3, <1>4 DEF Asking, BeginInspect, EndInspect, RefuseInspect, Apply, scratch, history
<1>5. CASE Stage(u) \/ StageFails(u)
  <2>1. /\ UNCHANGED <<home, rollback>>
        /\ before' = [before EXCEPT ![u] = home]
    BY <1>5 DEF Stage, StageFails, scratch
  <2> QED BY <2>1, <1>3, <1>t
<1>6. CASE CheckLive(u) \/ SwapFails(u) \/ SwapDone(u) \/ UndoDone(u)
  BY <1>3, <1>6 DEF CheckLive, SwapFails, SwapDone, UndoDone, scratch, history
<1>7. CASE Park(u)
  <2> DEFINE m == current[u]
  <2>1. /\ phase[u] = "parking" /\ m \in Names
        /\ rollback' = [rollback EXCEPT ![u][m] = home[m]]
        /\ home' = [home EXCEPT ![m] = Absent]
        /\ before' = before
    BY <1>7, <1>t DEF Park, history, ScratchTyped
  <2>2. rollback[u][m] = Absent
    BY <2>1, <1>1 DEF SwapOK, Forward, Exact, Ahead
  <2> HIDE DEF m
  <2>3. /\ rollback'[u][m] = home[m]
        /\ \A k \in Names : k # m => rollback'[u][k] = rollback[u][k] /\ home'[k] = home[k]
        /\ \A w \in Uploads : w # u => rollback'[w] = rollback[w]
    BY <2>1, <1>t, SetEntry DEF ScratchTyped, Directory
  <2>4. home[n] = User \/ \E x \in Uploads : rollback[x][n] = User
    BY <1>3, <2>1
  <2>5. CASE n = m
    BY <2>2, <2>3, <2>4, <2>5, <1>n
  <2>6. CASE n # m
    BY <2>3, <2>4, <2>6
  <2> QED BY <2>5, <2>6
<1>8. CASE Move(u)
  <2> DEFINE m == current[u]
  <2>1. /\ phase[u] = "moving" /\ m \in Names
        /\ home' = [home EXCEPT ![m] = staging[u][m]]
        /\ UNCHANGED <<rollback, before>>
    BY <1>8, <1>t DEF Move, history, ScratchTyped
  <2>2. home[m] = Absent
    BY <2>1, <1>1 DEF SwapOK, Forward, Exact, Ahead
  <2> HIDE DEF m
  <2> QED BY <2>1, <2>2, <1>3, <1>n, <1>t DEF ScratchTyped, Directory
<1>9. CASE Undo(u)
  <2>1. before' = before /\ Careful(u)
    BY <1>1, <1>9 DEF Undo, SwapOK, history
  <2>2. home[n] = User \/ \E x \in Uploads : rollback[x][n] = User
    BY <1>3, <2>1
  <2>3. PICK k \in {"park", "move"}, m \in Names :
           /\ \A w \in Uploads : w # u => rollback'[w] = rollback[w]
           /\ k = "park" => m \in Parked(u)
           /\ k = "move" => m \in Moved(u)
           /\ \/ /\ k = "park"
                 /\ \A j \in Names : home'[j] = IF j = m THEN rollback[u][m] ELSE home[j]
                 /\ \A j \in Names :
                      rollback'[u][j] = IF j = m THEN Absent ELSE rollback[u][j]
              \/ /\ k = "move"
                 /\ \A j \in Names : home'[j] = IF j = m THEN Absent ELSE home[j]
                 /\ UNCHANGED rollback
              \/ UNCHANGED <<home, staging, rollback>>
    <3>1. Undo(u) /\ TypeOK /\ SwapOK(u)
      BY <1>1, <1>9 DEF Booked
    <3> QED BY <3>1, UndoDoes
  <2>4. /\ k = "park" => home[m] \in {Absent, u}
        /\ k = "move" => home[m] = u
    BY <2>1, <2>3 DEF Careful
  <2>5. CASE /\ k = "park"
             /\ \A j \in Names : home'[j] = IF j = m THEN rollback[u][m] ELSE home[j]
             /\ \A j \in Names : rollback'[u][j] = IF j = m THEN Absent ELSE rollback[u][j]
    <3>1. CASE n = m
      BY <3>1, <2>2, <2>3, <2>4, <2>5, <1>n
    <3>2. CASE n # m
      BY <3>2, <2>2, <2>3, <2>5
    <3> QED BY <3>1, <3>2
  <2>6. CASE /\ k = "move"
             /\ \A j \in Names : home'[j] = IF j = m THEN Absent ELSE home[j]
             /\ UNCHANGED rollback
    BY <2>2, <2>4, <2>6, <1>n
  <2>7. CASE UNCHANGED <<home, staging, rollback>>
    BY <2>2, <2>7
  <2> QED BY <2>3, <2>5, <2>6, <2>7
<1>11. CASE Dropping(u)
  BY <1>3, <1>11, <1>t, DroppingDoes DEF Booked
<1>10. CASE Finish(u)
  <2>1. ~CleanUp(u)
    BY DEF CleanUp, Go, Booked, TypeOK, Failing
  <2>2. UNCHANGED <<home, rollback, before>>
    BY <1>10, <2>1 DEF Finish, InstallFindsSnapshot, InstallFindsNone, Replace,
       ReplaceFails, ReplaceHalfDone, ReopenFails, Revoke, RevokeFails, CleanTarball,
       CleanStaging, CleanUpFails, scratch, history
  <2> QED BY <2>2, <1>3
<1> QED BY <1>4, <1>5, <1>6, <1>7, <1>8, <1>9, <1>10, <1>11 DEF OneStep, Asking, Swap

\* What replaceWith of a lone apply opens lies in that apply's own tree.
LEMMA OwnTree ==
  ASSUME RInv, ~overlap, NEW u \in Uploads, phase[u] \in {"replacing", "revoking"}
  PROVE  home[Sys] = u
BY DEF RInv, Swaps, SwapOK

LEMMA DatabaseStep ==
  ASSUME RInv, ~overlap, open # Absent, NEW u \in Uploads, OneStep(u), ~ReopenFails(u)
  PROVE  open' # Absent
<1>1. CASE Replace(u) \/ ReplaceHalfDone(u)
  BY <1>1, RestoreAssumption DEF Replace, ReplaceHalfDone, RInv, Booked, TypeOK
<1>2. CASE ReplaceFails(u)
  <2>1. home[Sys] = u /\ u \in Trees
    BY <1>2, OwnTree DEF ReplaceFails, Trees
  <2>2. Opened(u) \in Trees
    BY <2>1, TreesAreNotAbsent DEF Opened, RInv, Booked, TypeOK
  <2> QED BY <1>2, <2>1, <2>2, TreesAreNotAbsent DEF ReplaceFails
<1>3. CASE ~Replace(u) /\ ~ReplaceFails(u) /\ ~ReplaceHalfDone(u)
  <2>1. open' = open
    BY <1>3 DEF OneStep, Dropping, RefuseFails, ApplyFails, BeginInspect, EndInspect,
       RefuseInspect, Apply, Stage, StageFails, Swap, CheckLive, Park, Move, SwapFails,
       SwapDone, Undo, UndoDone, Finish, InstallFindsSnapshot, InstallFindsNone, Revoke,
       RevokeFails, CleanTarball, CleanStaging, CleanUp, CleanUpFails, db
  <2> QED BY <2>1
<1> QED BY <1>1, <1>2, <1>3

LEMMA RestartStep ==
  ASSUME RInv, Restart
  PROVE  RInv'
<1>1. Booked' /\ open' # Absent
  BY RestartTypes, TarballsRestart DEF RInv, Booked
<1>2. /\ phase \in [Uploads -> Phases]
      /\ phase' = [v \in Uploads |->
           IF phase[v] \in {"new", "restored", "failed", "littered"} THEN phase[v]
           ELSE "gone"]
      /\ home' = [home EXCEPT ![Sys] = IF home[Sys] = Absent THEN Boot ELSE home[Sys]]
      /\ undo' = [v \in Uploads |-> <<>>]
      /\ UNCHANGED <<staging, rollback, cause, before, overlap>>
  BY DEF Restart, scratch, RInv, Booked, TypeOK
<1>3. \A v \in Uploads : /\ phase'[v] \notin InSwap
                         /\ phase'[v] = phase[v] \/ phase'[v] = "gone"
                         /\ phase'[v] \in {"restored", "failed", "littered"} <=>
                            phase[v] \in {"restored", "failed", "littered"}
  BY <1>2 DEF InSwap
<1>4. Fresh' /\ Failing' /\ Alone'
  BY <1>2, <1>3 DEF RInv, Fresh, Failing, Alone, InSwap
<1>5. Swaps'
  BY <1>3 DEF Swaps, SwapOK, InSwap, Forward
<1>6. NothingLostBeforeCleanUp'
  <2>1. \A n \in Names : home[n] = User => home'[n] = User
    BY <1>2, RestoreAssumption DEF RInv, Booked, TypeOK, Directory
  <2> QED BY <1>2, <1>3, <2>1 DEF RInv, NothingLostBeforeCleanUp
<1> QED BY <1>1, <1>4, <1>5, <1>6 DEF RInv

LEMMA RInvInit == Init => RInv
<1> SUFFICES ASSUME Init PROVE RInv
  OBVIOUS
<1>1. Booked
  BY BookedInit
<1>2. \A u \in Uploads : phase[u] = "new" /\ cause[u] = "none" /\ before[u] = home
  BY DEF Init
<1>3. Fresh /\ Failing /\ Alone
  BY <1>2 DEF Init, Fresh, Failing, Alone, InSwap
<1>4. Swaps
  BY <1>2 DEF Swaps, SwapOK, Forward
<1>5. NothingLostBeforeCleanUp
  BY <1>2 DEF NothingLostBeforeCleanUp
<1> QED BY <1>1, <1>3, <1>4, <1>5 DEF RInv

LEMMA RInvStep ==
  ASSUME RInv, [Next]_vars
  PROVE  RInv'
<1>1. CASE Restart
  BY <1>1, RestartStep
<1>2. ASSUME NEW u \in Uploads, OneStep(u) PROVE RInv'
  <2>1. Booked'
    BY <1>2, BookedStep DEF RInv, Next, OneStep
  <2> QED BY <1>2, <2>1, FreshStep, FailingStep, AloneStep, SwapsStep, KeptStep DEF RInv
<1>3. CASE UNCHANGED vars
  <2>1. Booked'
    BY <1>3, BookedStep DEF RInv
  <2> QED BY <1>3, <2>1 DEF RInv, Fresh, Failing, Alone, Swaps, SwapOK, Exact, Careful,
        Ahead, Parked, Moved, NothingLostBeforeCleanUp, vars, upload, scratch, swap, db,
        history
<1> QED BY <1>1, <1>2, <1>3 DEF Next, OneStep, Dropping

-----------------------------------------------------------------------------
(* The sessions that a backup came with.                                   *)

\* While no two applies overlap, the open database and those that could be opened
\* again have valid sessions only by a restore of their own that did not revoke
\* them.
SignedOut ==
  ~overlap =>
    /\ \A u \in Uploads : phase[u] = "revoking" => open = u
    /\ \A t \in Trees : database[t] \in Uploads /\ carried[database[t]] =>
         NotRevoked(database[t])
    /\ open \in Uploads /\ carried[open] => NotRevoked(open)

\* An apply whose install or revocation failed has failed for good.
LEMMA CauseStays ==
  ASSUME RInv, NEW u \in Uploads, OneStep(u),
         NEW v \in Uploads, cause[v] \in {"install", "reopen", "revoke"}
  PROVE  cause'[v] = cause[v]
<1>1. phase[v] \in {"cleaning", "failed", "littered", "gone"}
  BY DEF RInv, Failing
<1>2. CASE v # u
  BY <1>2, OthersCause DEF RInv
<1>3. CASE v = u
  <2>1. Finish(u)
    BY <1>1, <1>3, OwnStep DEF RInv, Swap, CheckLive, Park, Move, SwapFails, SwapDone,
       Undo, UndoDone
  <2> QED BY <1>1, <1>3, <2>1 DEF Finish, InstallFindsSnapshot, InstallFindsNone, Replace,
        ReplaceFails, ReplaceHalfDone, ReopenFails, Revoke, RevokeFails, CleanTarball,
        CleanStaging, CleanUp, CleanUpFails
<1> QED BY <1>2, <1>3

\* What was not revoked stays so until its apply revokes.
LEMMA NotRevokedStays ==
  ASSUME RInv, NEW u \in Uploads, OneStep(u), NEW v \in Uploads, NotRevoked(v),
         ~(v = u /\ Revoke(u))
  PROVE  NotRevoked(v)'
<1>1. CASE cause[v] \in {"install", "reopen", "revoke"}
  BY <1>1, CauseStays DEF NotRevoked
<1>2. \A i \in 1..Len(pending) : phase[pending[i]] = "pending"
  BY DEF RInv, Booked, Queued
<1>3. CASE phase[v] = "revoking"
  <2>1. CASE v # u
    <3>1. phase'[v] = "revoking"
      BY <1>2, <1>3, <2>1, OthersWait DEF RInv, Booked
    <3> QED BY <3>1 DEF NotRevoked
  <2>2. CASE v = u
    <3>1. RevokeFails(u)
      BY <1>3, <2>2, OwnStep DEF RInv, Swap, CheckLive, Park, Move, SwapFails, SwapDone,
         Undo, UndoDone, Finish, InstallFindsSnapshot, InstallFindsNone, Replace,
         ReplaceFails, ReplaceHalfDone, ReopenFails, CleanTarball, CleanStaging, CleanUp,
         CleanUpFails
    <3>2. cause'[u] = "revoke"
      BY <3>1 DEF RevokeFails, Fail, RInv, Booked, TypeOK
    <3> QED BY <2>2, <3>2 DEF NotRevoked
  <2> QED BY <2>1, <2>2
<1>4. CASE crashes > 0 /\ phase[v] = "gone"
  <2>1. crashes' = crashes /\ phase[u] # "gone"
    BY OwnStep DEF RInv, history, InSwap
  <2>2. phase'[v] = "gone"
    BY <1>4, <2>1, OthersWait DEF RInv, Booked
  <2> QED BY <1>4, <2>1, <2>2 DEF NotRevoked
<1> QED BY <1>1, <1>3, <1>4 DEF NotRevoked

\* NotRevoked after a step, of whatever value v is by then.
Unrevoked(v) ==
  \/ phase'[v] = "revoking"
  \/ cause'[v] \in {"install", "reopen", "revoke"}
  \/ crashes' > 0 /\ phase'[v] = "gone"

\* The steps of replaceWith.
Installs(u) == Replace(u) \/ ReplaceFails(u) \/ ReplaceHalfDone(u) \/ ReopenFails(u)

LEMMA OtherStepsKeep ==
  ASSUME RInv, NEW u \in Uploads, OneStep(u), ~Installs(u)
  PROVE  /\ open' = open /\ database' = database
         /\ ~Revoke(u) => carried' = carried
         /\ phase'[u] # "revoking"
BY DEF Installs, OneStep, Dropping, RefuseFails, ApplyFails, BeginInspect, EndInspect,
   RefuseInspect, Apply, Stage, StageFails, Swap, CheckLive, Park, Move, SwapFails,
   SwapDone, Undo, UndoDone, Finish, InstallFindsSnapshot, InstallFindsNone, Revoke,
   RevokeFails, CleanTarball, CleanStaging, CleanUp, CleanUpFails, db, Go, RInv, Booked,
   TypeOK

LEMMA SignedOutStep ==
  ASSUME RInv, SignedOut, NEW u \in Uploads, OneStep(u)
  PROVE  SignedOut'
<1> SUFFICES ASSUME ~overlap'
             PROVE  /\ \A v \in Uploads : phase'[v] = "revoking" => open' = v
                    /\ \A t \in Trees : database'[t] \in Uploads /\ carried'[database'[t]] =>
                         Unrevoked(database'[t])
                    /\ open' \in Uploads /\ carried'[open'] => Unrevoked(open')
  BY DEF SignedOut, NotRevoked, Unrevoked
<1>t. /\ phase \in [Uploads -> Phases] /\ open \in Trees \cup {Absent}
      /\ database \in [Trees -> Trees \cup {Absent}] /\ carried \in [Trees -> BOOLEAN]
      /\ cause \in [Uploads -> Causes] /\ Uploads \subseteq Trees
  BY DEF RInv, Booked, TypeOK, Trees
<1>1. ~overlap
  BY OwnStep DEF RInv, history
<1>2. /\ \A v \in Uploads : phase[v] = "revoking" => open = v
      /\ \A t \in Trees : database[t] \in Uploads /\ carried[database[t]] =>
           NotRevoked(database[t])
      /\ open \in Uploads /\ carried[open] => NotRevoked(open)
  BY <1>1 DEF SignedOut
<1>3. \A v \in Uploads : v # u /\ phase'[v] = "revoking" => phase[v] = "revoking"
  BY OthersWait DEF RInv, Booked
<1>4. ASSUME Installs(u)
      PROVE  /\ home[Sys] = u /\ u \in Trees /\ carried' = carried /\ ~Revoke(u)
             /\ \A v \in Uploads : v # u => phase'[v] # "revoking"
             /\ \A v \in Uploads : NotRevoked(v) => Unrevoked(v)
  <2>1. phase[u] = "replacing" /\ carried' = carried /\ ~Revoke(u)
    BY <1>4 DEF Installs, Replace, ReplaceFails, ReplaceHalfDone, ReopenFails, Revoke
  <2>2. \A v \in Uploads : v # u => phase[v] # "revoking"
    BY <1>1, <2>1 DEF RInv, Alone, InSwap
  <2>3. home[Sys] = u
    BY <1>1, <2>1, OwnTree
  <2> QED BY <1>3, <1>t, <2>1, <2>2, <2>3, NotRevokedStays DEF NotRevoked, Unrevoked
<1>5. CASE Replace(u) \/ ReplaceHalfDone(u)
  <2>1. /\ database' = [database EXCEPT ![u] = u] /\ open' = u
        /\ phase'[u] = "revoking" \/ cause'[u] = "install"
    BY <1>4, <1>5, <1>t DEF Installs, Replace, ReplaceHalfDone, Go, Fail
  <2>2. Unrevoked(u)
    BY <2>1 DEF Unrevoked
  <2>3. \A t \in Trees : database'[t] = u \/ database'[t] = database[t]
    BY <2>1, <1>t
  <2> QED BY <1>2, <1>4, <1>5, <2>1, <2>2, <2>3 DEF Installs
<1>6. CASE ReplaceFails(u)
  <2>1. /\ open' = Opened(u) /\ database' = [database EXCEPT ![u] = Opened(u)]
        /\ phase'[u] = "cleaning"
    BY <1>4, <1>6, <1>t, TreesAreNotAbsent DEF Installs, ReplaceFails, Go
  <2>2. Opened(u) = Boot \/ (Opened(u) = database[u])
    BY DEF Opened
  <2>3. Opened(u) \in Uploads /\ carried[Opened(u)] => NotRevoked(Opened(u))
    BY <1>2, <1>4, <1>6, <2>2, RestoreAssumption DEF Installs
  <2>4. \A t \in Trees : database'[t] = Opened(u) \/ database'[t] = database[t]
    BY <2>1, <1>t
  <2>5. PICK o : o = Opened(u)
    OBVIOUS
  <2> QED BY <1>2, <1>4, <1>6, <2>1, <2>3, <2>4, <2>5 DEF Installs
<1>7. CASE ReopenFails(u)
  <2>1. /\ \/ database' = [database EXCEPT ![u] = u] \/ database' = database
        /\ open' = Absent /\ cause'[u] = "reopen" /\ phase'[u] = "cleaning"
    BY <1>4, <1>7, <1>t DEF Installs, ReopenFails, Go, Fail
  <2>2. Unrevoked(u) /\ Absent \notin Uploads
    BY <2>1, RestoreAssumption DEF Unrevoked
  <2>3. \A t \in Trees : database'[t] = u \/ database'[t] = database[t]
    BY <2>1, <1>t
  <2> QED BY <1>2, <1>4, <1>7, <2>1, <2>2, <2>3 DEF Installs
<1>8. CASE ~Installs(u)
  <2>1. /\ open' = open /\ database' = database /\ phase'[u] # "revoking"
        /\ ~Revoke(u) => carried' = carried
    BY <1>8, OtherStepsKeep
  <2>2. \A v \in Uploads : phase'[v] = "revoking" => open' = v
    BY <1>2, <1>3, <2>1
  <2>3. CASE Revoke(u)
    <3>1. open = u /\ carried' = [carried EXCEPT ![u] = FALSE]
      BY <1>2, <2>3 DEF Revoke
    <3>2. /\ \A v \in Uploads : carried'[v] => v # u /\ carried[v]
      BY <3>1, <1>t
    <3>3. \A v \in Uploads : v # u /\ NotRevoked(v) => Unrevoked(v)
      BY NotRevokedStays DEF NotRevoked, Unrevoked
    <3> QED BY <1>2, <2>1, <2>2, <3>2, <3>3
  <2>4. CASE ~Revoke(u)
    <3>1. \A v \in Uploads : NotRevoked(v) => Unrevoked(v)
      BY <2>4, NotRevokedStays DEF NotRevoked, Unrevoked
    <3> QED BY <1>2, <2>1, <2>2, <2>4, <3>1
  <2> QED BY <2>3, <2>4
<1> QED BY <1>5, <1>6, <1>7, <1>8 DEF Installs

LEMMA SignedOutRestart ==
  ASSUME RInv, SignedOut, Restart
  PROVE  SignedOut'
<1> DEFINE tree == IF home[Sys] = Absent THEN Boot ELSE home[Sys]
<1>1. /\ tree \in Trees /\ crashes' > 0
      /\ \A v \in Uploads : phase'[v] # "revoking"
      /\ database' = [database EXCEPT ![tree] = Opened(tree)]
      /\ open' = Opened(tree) /\ carried' = carried /\ overlap' = overlap
  BY RestoreAssumption, TreesAreNotAbsent DEF Restart, RInv, Booked, TypeOK, Directory
<1> HIDE DEF tree
<1>2. \A v \in Uploads : NotRevoked(v) => Unrevoked(v)
  BY <1>1 DEF Restart, NotRevoked, Unrevoked
<1>3. Opened(tree) = Boot \/ Opened(tree) = database[tree]
  BY DEF Opened
<1>4. \A t \in Trees : database'[t] = Opened(tree) \/ database'[t] = database[t]
  BY <1>1 DEF RInv, Booked, TypeOK
<1>5. Boot \notin Uploads
  BY RestoreAssumption
<1> SUFFICES ASSUME ~overlap
             PROVE  /\ \A t \in Trees : database'[t] \in Uploads /\ carried[database'[t]] =>
                         Unrevoked(database'[t])
                    /\ open' \in Uploads /\ carried[open'] => Unrevoked(open')
  BY <1>1 DEF SignedOut, NotRevoked, Unrevoked
<1>6. \A t \in Trees : database[t] \in Uploads /\ carried[database[t]] =>
        NotRevoked(database[t])
  BY DEF SignedOut
<1>7. Opened(tree) \in Uploads /\ carried[Opened(tree)] => NotRevoked(Opened(tree))
  BY <1>1, <1>3, <1>5, <1>6
<1>8. PICK o : o = Opened(tree)
  OBVIOUS
<1> QED BY <1>1, <1>2, <1>4, <1>6, <1>7, <1>8

LEMMA SignedOutNext ==
  ASSUME RInv, SignedOut, [Next]_vars
  PROVE  SignedOut'
<1>1. CASE UNCHANGED vars
  BY <1>1 DEF SignedOut, NotRevoked, vars, db, history
<1> QED BY <1>1, SignedOutRestart, SignedOutStep DEF Next, OneStep, Dropping

LEMMA SignedOutInit == Init => SignedOut
<1> SUFFICES ASSUME Init PROVE SignedOut
  OBVIOUS
<1>1. \A t \in Trees : database[t] \in {User, Absent}
  BY DEF Init
<1>2. open = User /\ User \notin Uploads /\ Absent \notin Uploads
  BY RestoreAssumption DEF Init
<1>3. \A u \in Uploads : phase[u] = "new"
  BY DEF Init
<1> QED BY <1>1, <1>2, <1>3 DEF SignedOut

\* Overlapping or not, a database opens with valid sessions only by a restore that
\* does not revoke, or not yet, or after a restart.
Watched ==
  open \in Uploads /\ carried[open] => crashes > 0 \/ \E u \in Uploads : NotRevoked(u)

LEMMA WatchedStep ==
  ASSUME RInv, Watched, NEW u \in Uploads, OneStep(u)
  PROVE  Watched'
<1>1. /\ phase \in [Uploads -> Phases] /\ open \in Trees \cup {Absent}
      /\ carried \in [Trees -> BOOLEAN] /\ cause \in [Uploads -> Causes]
  BY DEF RInv, Booked, TypeOK
<1>2. CASE Installs(u)
  <2>1. phase'[u] = "revoking" \/ cause'[u] \in {"install", "reopen"}
    BY <1>1, <1>2 DEF Installs, Replace, ReplaceFails, ReplaceHalfDone, ReopenFails, Go,
       Fail
  <2>2. NotRevoked(u)'
    BY <2>1 DEF NotRevoked
  <2> QED BY <2>2 DEF Watched, NotRevoked
<1>3. CASE Revoke(u)
  <2>1. open' = open /\ open \in Trees /\ carried' = [carried EXCEPT ![open] = FALSE]
    BY <1>1, <1>3 DEF Revoke
  <2>2. ~carried'[open']
    BY <2>1, <1>1
  <2> QED BY <2>2 DEF Watched
<1>4. CASE ~Installs(u) /\ ~Revoke(u)
  <2>1. open' = open /\ carried' = carried /\ crashes' = crashes
    BY <1>4, OwnStep, OtherStepsKeep DEF RInv, history
  <2>2. \A v \in Uploads : NotRevoked(v) => NotRevoked(v)'
    BY <1>4, NotRevokedStays
  <2> QED BY <2>1, <2>2 DEF Watched, NotRevoked
<1> QED BY <1>2, <1>3, <1>4

LEMMA WatchedNext ==
  ASSUME RInv, Watched, [Next]_vars
  PROVE  Watched'
<1>1. CASE Restart
  <2>1. crashes' > 0
    BY <1>1, RestoreAssumption DEF Restart, RInv, Booked, TypeOK
  <2> QED BY <2>1 DEF Watched
<1>2. CASE UNCHANGED vars
  BY <1>2 DEF Watched, NotRevoked, vars, db, history
<1> QED BY <1>1, <1>2, WatchedStep DEF Next, OneStep, Dropping

LEMMA WatchedInit == Init => Watched
  BY RestoreAssumption DEF Init, Watched

-----------------------------------------------------------------------------
(* The refinement.                                                         *)

LEMMA TreeNow ==
  ASSUME Alone, ~overlap
  PROVE  /\ \A w \in Uploads : Swapping(w) => Tree = before[w]
         /\ (\A w \in Uploads : ~Swapping(w)) => Tree = home
<1>1. ASSUME NEW w \in Uploads, Swapping(w) PROVE Tree = before[w]
  <2>1. \A v \in Uploads : Swapping(v) => v = w
    BY <1>1 DEF Alone, Swapping, InSwap
  <2>2. (CHOOSE v \in Uploads : Swapping(v)) = w
    BY <1>1, <2>1
  <2> QED BY <1>1, <2>2 DEF Tree
<1> QED BY <1>1 DEF Tree

LEMMA TreeNext ==
  ASSUME Alone', ~overlap'
  PROVE  /\ \A w \in Uploads : Swapping(w)' => Tree' = before'[w]
         /\ (\A w \in Uploads : ~Swapping(w)') => Tree' = home'
<1>1. ASSUME NEW w \in Uploads, Swapping(w)' PROVE Tree' = before'[w]
  <2>1. \A v \in Uploads : Swapping(v)' => v = w
    BY <1>1 DEF Alone, Swapping, InSwap
  <2>2. (CHOOSE v \in Uploads : Swapping(v)') = w
    BY <1>1, <2>1
  <2> QED BY <1>1, <2>2 DEF Tree
<1> QED BY <1>1 DEF Tree

\* What the other uploads have come to does not change.
LEMMA OthersOutcome ==
  ASSUME RInv, NEW u \in Uploads, OneStep(u)
  PROVE  \A v \in Uploads : v # u => Outcome'[v] = Outcome[v]
<1>1. \A v \in Uploads : v # u => cause'[v] = cause[v]
  BY OthersCause DEF RInv
<1>2. \A v \in Uploads : v # u => \/ phase'[v] = phase[v]
                                  \/ phase[v] = "pending" /\ phase'[v] = "gone"
  BY OthersWait DEF RInv, Booked, Queued
<1> QED BY <1>1, <1>2 DEF Outcome, Committed

\* A step that leaves the tree and the outcomes alone, or decides u.
LEMMA Deciding ==
  ASSUME NEW u \in Uploads, NEW o, Outcome'[u] = o,
         \A v \in Uploads : v # u => Outcome'[v] = Outcome[v]
  PROVE  /\ Outcome' = [Outcome EXCEPT ![u] = o]
         /\ o = Outcome[u] => Outcome' = Outcome
<1>1. PICK f : f = Outcome
  OBVIOUS
<1>2. PICK g : g = Outcome'
  OBVIOUS
<1>3. /\ f = [v \in Uploads |-> f[v]] /\ g = [v \in Uploads |-> g[v]]
      /\ g[u] = o /\ \A v \in Uploads : v # u => g[v] = f[v]
  BY <1>1, <1>2 DEF Outcome
<1>4. g = [f EXCEPT ![u] = o] /\ (o = f[u] => g = f)
  BY ONLY <1>3, u \in Uploads
<1> QED BY <1>1, <1>2, <1>4

\* The fields of the view after a step in which nothing disturbs the promise.
Same == Tree' = Tree /\ Outcome' = Outcome /\ ~Disturbed /\ ~Disturbed'

\* Before a step that does not disturb the promise, nothing has.
LEMMA Undisturbed ==
  ASSUME RInv, NEW u \in Uploads, OneStep(u), ~Disturbed'
  PROVE  ~Disturbed /\ ~overlap /\ ~overlap' /\ Alone'
<1>1. ~overlap' /\ ~overlap /\ crashes' = crashes /\ Alone'
  BY OwnStep, AloneStep DEF RInv, Disturbed, history
<1>2. \A v \in Uploads : cause[v] \in {"install", "reopen", "revoke"} => cause'[v] = cause[v]
  BY CauseStays
<1>3. \A v \in Uploads : phase[v] = "littered" => phase'[v] = "littered"
  <2>1. phase[u] # "littered"
    BY OwnStep DEF RInv, InSwap
  <2>2. \A i \in 1..Len(pending) : phase[pending[i]] = "pending"
    BY DEF RInv, Booked, Queued
  <2> QED BY <2>1, <2>2, OthersWait DEF RInv, Booked
<1> QED BY <1>1, <1>2, <1>3 DEF Disturbed

LEMMA AskingIsSame ==
  ASSUME RInv, NEW u \in Uploads, Asking(u), ~Disturbed'
  PROVE  Same
<1>0. OneStep(u)
  BY DEF Asking, OneStep
<1>1. ~Disturbed /\ ~overlap /\ ~overlap' /\ Alone /\ Alone'
  BY <1>0, Undisturbed DEF RInv
<1>2. /\ phase[u] \in {"new", "inspecting", "pending"}
      /\ phase'[u] \in {"inspecting", "pending", "staging", "gone"}
      /\ UNCHANGED <<home, before>>
  BY DEF Asking, BeginInspect, EndInspect, RefuseInspect, Apply, Go, RInv, Booked, TypeOK,
     history, Queued
<1>3. Outcome' = Outcome
  <2>1. Outcome'[u] = "none" /\ Outcome[u] = "none"
    BY <1>2 DEF Outcome, Committed
  <2> QED BY <2>1, <1>0, OthersOutcome, Deciding
<1>4. \A v \in Uploads : Swapping(v)' <=> Swapping(v)
  <2>1. \A v \in Uploads : v # u => \/ phase'[v] = phase[v]
                                    \/ phase[v] = "pending" /\ phase'[v] = "gone"
    BY <1>0, OthersWait DEF RInv, Booked, Queued
  <2> QED BY <1>2, <2>1 DEF Swapping
<1>5. Tree' = Tree
  <2>1. CASE \E w \in Uploads : Swapping(w)
    <3>1. PICK w \in Uploads : Swapping(w) /\ Swapping(w)'
      BY <2>1, <1>4
    <3>2. Tree = before[w] /\ Tree' = before'[w]
      BY <3>1, <1>1, TreeNow, TreeNext
    <3> QED BY <3>2, <1>2
  <2>2. CASE \A w \in Uploads : ~Swapping(w)
    BY <2>2, <1>1, <1>2, <1>4, TreeNow, TreeNext
  <2> QED BY <2>1, <2>2
<1> QED BY <1>1, <1>3, <1>5 DEF Same

\* The tree that is seen while u is the only apply at work.
LEMMA SeenTree ==
  ASSUME RInv, NEW u \in Uploads, OneStep(u), ~Asking(u), ~Dropping(u), ~Disturbed'
  PROVE  /\ Tree = IF Swapping(u) THEN before[u] ELSE home
         /\ Tree' = IF Swapping(u)' THEN before'[u] ELSE home'
<1>1. ~Disturbed /\ ~overlap /\ ~overlap' /\ Alone /\ Alone'
  BY Undisturbed DEF RInv
<1>2. \A v \in Uploads : v # u => phase[v] \notin InSwap /\ phase'[v] \notin InSwap
  <2>1. \/ phase[u] \in InSwap
        \/ overlap' = (overlap \/ \E v \in Uploads : phase[v] \in InSwap)
    BY OwnStep DEF RInv
  <2>2. \A v \in Uploads : v # u => phase[v] \notin InSwap
    BY <2>1, <1>1 DEF Alone
  <2> QED BY <2>2, OthersWait DEF RInv, Booked, InSwap
<1>3. \A v \in Uploads : v # u => ~Swapping(v) /\ ~Swapping(v)'
  BY <1>2 DEF Swapping, InSwap
<1> QED BY <1>1, <1>3, TreeNow, TreeNext

\* u decides o: it was undecided, and the promise stands.
Decides(u, o) ==
  /\ Outcome[u] = "none" /\ Outcome' = [Outcome EXCEPT ![u] = o]
  /\ ~Disturbed /\ ~Disturbed'

LEMMA AskingEarly ==
  ASSUME RInv, NEW u \in Uploads, Asking(u)
  PROVE  phase[u] \in {"new", "inspecting", "pending"}
<1>1. DOMAIN pending = 1..Len(pending)
  BY LenProperties DEF TypeOK, RInv, Booked
<1> QED BY <1>1 DEF Asking, BeginInspect, EndInspect, RefuseInspect, Apply, RInv, Booked,
        Queued

\* The directory seen does not change where the home directory, and what is kept
\* of it for the applies at their swap, do not.
LEMMA SameTree ==
  ASSUME Alone, ~overlap, Alone', ~overlap', home' = home,
         \A v \in Uploads : Swapping(v)' <=> Swapping(v),
         \A v \in Uploads : Swapping(v) => before'[v] = before[v]
  PROVE  Tree' = Tree
<1>1. CASE \E w \in Uploads : Swapping(w)
  <2>1. PICK w \in Uploads : Swapping(w) /\ Swapping(w)' /\ before'[w] = before[w]
    BY <1>1
  <2>2. Tree = before[w] /\ Tree' = before'[w]
    BY <2>1, TreeNow, TreeNext
  <2> QED BY <2>1, <2>2
<1>2. CASE \A w \in Uploads : ~Swapping(w)
  <2>1. Tree = home /\ Tree' = home'
    BY <1>2, TreeNow, TreeNext
  <2> QED BY <2>1
<1> QED BY <1>1, <1>2

LEMMA DroppingIsSeen ==
  ASSUME RInv, NEW u \in Uploads, Dropping(u), ~Disturbed'
  PROVE  Same \/ (Decides(u, "failed") /\ Tree' = Tree)
<1>0. OneStep(u)
  BY DEF OneStep
<1>1. ~Disturbed /\ ~overlap /\ ~overlap' /\ Alone /\ Alone'
  BY <1>0, Undisturbed DEF RInv
<1>2. /\ phase[u] \in {"inspecting", "staging"} /\ home' = home
      /\ phase'[u] = IF phase[u] = "staging" THEN "failed" ELSE "gone"
      /\ \A v \in Uploads : v # u => before'[v] = before[v] /\ phase'[v] = phase[v]
  BY DroppingDoes DEF RInv, Booked, TypeOK
<1>3. Tree' = Tree
  <2>1. \A v \in Uploads : Swapping(v)' <=> Swapping(v)
    BY <1>2 DEF Swapping
  <2>2. \A v \in Uploads : Swapping(v) => before'[v] = before[v]
    BY <1>2 DEF Swapping
  <2> QED BY <1>1, <1>2, <2>1, <2>2, SameTree
<1>4. Outcome[u] = "none"
  BY <1>2 DEF Outcome, Committed
<1>5. CASE phase[u] = "inspecting"
  <2>1. Outcome'[u] = "none"
    BY <1>2, <1>5 DEF Outcome, Committed
  <2> QED BY <1>0, <1>1, <1>3, <1>4, <2>1, OthersOutcome, Deciding DEF Same
<1>6. CASE phase[u] = "staging"
  <2>1. Outcome'[u] = "failed"
    BY <1>2, <1>6 DEF Outcome, Committed
  <2> QED BY <1>0, <1>1, <1>3, <1>4, <2>1, OthersOutcome, Deciding DEF Decides
<1> QED BY <1>2, <1>5, <1>6

LEMMA StageIsSame ==
  ASSUME RInv, NEW u \in Uploads, Stage(u) \/ StageFails(u), ~Disturbed'
  PROVE  Same \/ (Decides(u, "failed") /\ Tree' = Tree)
<1>0. OneStep(u) /\ ~Asking(u) /\ ~Dropping(u) /\ phase[u] = "staging"
  <2>1. OneStep(u) /\ phase[u] = "staging"
    BY DEF OneStep, Stage, StageFails
  <2>2. ~Asking(u)
    BY <2>1, AskingEarly
  <2>3. ~Dropping(u)
    <3>1. phase'[u] \in {"checking", "cleaning"}
      BY DEF Stage, StageFails, Go, RInv, Booked, TypeOK
    <3> QED BY <3>1, DroppingDoes DEF RInv, Booked, TypeOK
  <2> QED BY <2>1, <2>2, <2>3
<1>1. /\ Tree = IF Swapping(u) THEN before[u] ELSE home
      /\ Tree' = IF Swapping(u)' THEN before'[u] ELSE home'
  BY <1>0, SeenTree
<1>2. ~Disturbed /\ ~Swapping(u) /\ Outcome[u] = "none"
  BY <1>0, Undisturbed DEF Swapping, Outcome, Committed
<1>3. home' = home /\ before'[u] = home
  BY DEF Stage, StageFails, RInv, Booked, TypeOK
<1>4. Tree' = Tree
  BY <1>1, <1>2, <1>3
<1>5. CASE Stage(u)
  <2>1. Outcome'[u] = "none"
    BY <1>5 DEF Stage, Go, RInv, Booked, TypeOK, Outcome, Committed
  <2> QED BY <1>0, <1>2, <1>4, <2>1, OthersOutcome, Deciding DEF Same
<1>6. CASE StageFails(u)
  <2>1. Outcome'[u] = "failed"
    BY <1>6 DEF StageFails, Go, Fail, RInv, Booked, TypeOK, Outcome, Committed
  <2> QED BY <1>0, <1>2, <1>4, <2>1, OthersOutcome, Deciding DEF Decides
<1> QED BY <1>5, <1>6

LEMMA WorkingIsNotAsking ==
  ASSUME RInv, NEW u \in Uploads, Swap(u) \/ Finish(u)
  PROVE  OneStep(u) /\ ~Asking(u) /\ ~Dropping(u) /\ phase[u] \in InSwap
<1>1. OneStep(u) /\ phase[u] \in InSwap
  BY DEF OneStep, Swap, CheckLive, Park, Move, SwapFails, SwapDone, Undo, UndoDone,
     InSwap, Finish, InstallFindsSnapshot, InstallFindsNone, Replace, ReplaceFails,
     ReplaceHalfDone, ReopenFails, Revoke, RevokeFails, CleanTarball, CleanStaging,
     CleanUp, CleanUpFails
<1>2. ~Asking(u)
  BY <1>1, AskingEarly DEF InSwap
<1>3. ~Dropping(u)
  BY <1>1, DroppingDoes DEF InSwap, RInv, Booked
<1> QED BY <1>1, <1>2, <1>3

LEMMA SwapIsSeen ==
  ASSUME RInv, "undo" \notin Faults, NEW u \in Uploads, Swap(u), ~Disturbed'
  PROVE  \/ Same
         \/ Decides(u, "failed") /\ Tree' = Tree
         \/ /\ Decides(u, "restored")
            /\ Tree' = [n \in Names |-> IF n \in Members[u] THEN u ELSE Tree[n]]
<1>0. OneStep(u) /\ ~Asking(u) /\ ~Dropping(u)
  BY WorkingIsNotAsking
<1>1. /\ Tree = IF Swapping(u) THEN before[u] ELSE home
      /\ Tree' = IF Swapping(u)' THEN before'[u] ELSE home'
  BY <1>0, SeenTree
<1>2. ~Disturbed /\ ~overlap /\ SwapOK(u) /\ TypeOK
  BY <1>0, Undisturbed DEF RInv, Swaps, Booked
<1>3. Swapping(u) /\ Outcome[u] = "none" /\ before' = before /\ Tree = before[u]
  <2>1. Swapping(u) /\ before' = before
    BY DEF Swap, CheckLive, Park, Move, SwapFails, SwapDone, Undo, UndoDone, Swapping,
       history
  <2>2. Outcome[u] = "none"
    BY <2>1 DEF Swapping, Outcome, Committed
  <2> QED BY <2>1, <2>2, <1>1
<1>4. CASE CheckLive(u) \/ Park(u) \/ Move(u) \/ SwapFails(u) \/ Undo(u)
  <2>1. Swapping(u)'
    BY <1>2, <1>4 DEF CheckLive, Park, Move, SwapFails, Undo, Go, TypeOK, Swapping
  <2>2. Outcome'[u] = "none" /\ Tree' = Tree
    BY <2>1, <1>1, <1>3 DEF Swapping, Outcome, Committed
  <2> QED BY <1>0, <1>2, <1>3, <2>2, OthersOutcome, Deciding DEF Same
<1>5. CASE UndoDone(u)
  <2>1. phase'[u] = "cleaning" /\ cause'[u] = "swap" /\ home' = home
    BY <1>2, <1>5 DEF UndoDone, Go, TypeOK, RInv, Failing
  <2>2. Outcome'[u] = "failed" /\ ~Swapping(u)'
    BY <2>1 DEF Swapping, Outcome, Committed
  <2>3. Tree' = Tree
    BY <2>1, <2>2, <1>1, <1>2, <1>3, <1>5, UndoDoneKeeps
  <2> QED BY <1>0, <1>2, <1>3, <2>2, <2>3, OthersOutcome, Deciding DEF Decides
<1>6. CASE SwapDone(u)
  <2>1. phase[u] = "checking" /\ todo[u] = {} /\ phase'[u] = "installing" /\ home' = home
    BY <1>2, <1>6 DEF SwapDone, Go, TypeOK
  <2>2. Outcome'[u] = "restored" /\ ~Swapping(u)'
    BY <2>1 DEF Swapping, Outcome, Committed
  <2>3. Exact(u) /\ Members[u] = Moved(u) /\ Parked(u) \subseteq Moved(u)
    BY <2>1, <1>2 DEF SwapOK, Forward, Ahead
  <2>4. \A n \in Names : home[n] = IF n \in Members[u] THEN u ELSE before[u][n]
    BY <2>3 DEF Exact
  <2>5. Tree' = home /\ home = [n \in Names |-> home[n]]
    BY <2>1, <2>2, <1>1, <1>2 DEF TypeOK, Directory
  <2>6. Tree' = [n \in Names |-> IF n \in Members[u] THEN u ELSE Tree[n]]
    BY <2>4, <2>5, <1>3
  <2> QED BY <1>0, <1>2, <1>3, <2>2, <2>6, OthersOutcome, Deciding DEF Decides
<1> QED BY <1>4, <1>5, <1>6 DEF Swap

LEMMA FinishIsSame ==
  ASSUME RInv, NEW u \in Uploads, Finish(u), ~Disturbed'
  PROVE  Same
<1>0. OneStep(u) /\ ~Asking(u) /\ ~Dropping(u)
  BY WorkingIsNotAsking
<1>1. /\ Tree = IF Swapping(u) THEN before[u] ELSE home
      /\ Tree' = IF Swapping(u)' THEN before'[u] ELSE home'
  BY <1>0, SeenTree
<1>2. ~Disturbed /\ TypeOK /\ Failing
  BY <1>0, Undisturbed DEF RInv, Booked
<1>3. ~Swapping(u) /\ ~Swapping(u)' /\ home' = home
  BY <1>2 DEF Finish, InstallFindsSnapshot, InstallFindsNone, Replace, ReplaceFails,
     ReplaceHalfDone, ReopenFails, Revoke, RevokeFails, CleanTarball, CleanStaging,
     CleanUp, CleanUpFails, Go, TypeOK, Swapping
<1>4. Outcome'[u] = Outcome[u]
  <2>1. CASE \/ InstallFindsNone(u) \/ ReplaceFails(u) \/ ReplaceHalfDone(u)
             \/ ReopenFails(u) \/ RevokeFails(u)
    <3>1. cause'[u] \in {"install", "reopen", "revoke"}
      BY <1>2, <2>1 DEF InstallFindsNone, ReplaceFails, ReplaceHalfDone, ReopenFails,
         RevokeFails, Fail, TypeOK
    <3> QED BY <3>1 DEF Disturbed
  <2>2. CASE InstallFindsSnapshot(u) \/ Replace(u)
    BY <1>2, <2>2 DEF InstallFindsSnapshot, Replace, Go, TypeOK, Outcome, Committed
  <2>3. CASE Revoke(u)
    <3>1. cause'[u] = "none" /\ phase[u] = "revoking" /\ phase'[u] = "cleaning"
      BY <1>2, <2>3 DEF Revoke, Go, TypeOK, Failing
    <3> QED BY <3>1 DEF Outcome, Committed
  <2>4. CASE CleanUp(u)
    BY <1>2, <2>4 DEF CleanUp, Go, TypeOK, Outcome, Committed
  <2>5. CASE CleanTarball(u) \/ CleanStaging(u)
    BY <2>5 DEF CleanTarball, CleanStaging, Outcome, Committed
  <2>6. CASE CleanUpFails(u)
    <3>1. phase'[u] = "littered"
      BY <1>2, <2>6 DEF CleanUpFails, Go, TypeOK
    <3> QED BY <3>1 DEF Disturbed
  <2> QED BY <2>1, <2>2, <2>3, <2>4, <2>5, <2>6 DEF Finish
<1>5. Outcome' = Outcome
  BY <1>0, <1>4, OthersOutcome, Deciding
<1> QED BY <1>1, <1>2, <1>3, <1>5 DEF Same

LEMMA AtomicInit == Init => Atomic!Init
<1> SUFFICES ASSUME Init PROVE Atomic!Init
  OBVIOUS
<1>1. \A v \in Uploads : phase[v] = "new" /\ cause[v] = "none"
  BY DEF Init
<1>2. Outcome = [v \in Uploads |-> "none"]
  BY <1>1 DEF Outcome, Committed
<1>3. Disturbed = FALSE
  BY <1>1 DEF Disturbed, Init
<1> QED BY <1>2, <1>3 DEF Atomic!Init

LEMMA AtomicStep ==
  ASSUME RInv, "undo" \notin Faults, [Next]_vars
  PROVE  [Atomic!Next]_(Atomic!vars)
<1>1. CASE Disturbed'
  <2>1. Disturbed' = TRUE
    BY <1>1 DEF Disturbed
  <2> QED BY <2>1 DEF Atomic!Next, Atomic!Disturb
<1>2. CASE Same
  <2>1. Disturbed' = Disturbed
    BY <1>2 DEF Same, Disturbed
  <2> QED BY <1>2, <2>1 DEF Same, Atomic!vars
<1>3. ASSUME NEW u \in Uploads, Decides(u, "failed"), Tree' = Tree
      PROVE  Atomic!Next
  <2>1. Disturbed' = Disturbed
    BY <1>3 DEF Decides, Disturbed
  <2>2. Atomic!Refuse(u)
    BY <1>3, <2>1 DEF Decides, Atomic!Refuse, Atomic!Decide
  <2> QED BY <1>3, <2>2 DEF Decides, Atomic!Next
<1>4. ASSUME NEW u \in Uploads, Decides(u, "restored"),
             Tree' = [n \in Names |-> IF n \in Members[u] THEN u ELSE Tree[n]]
      PROVE  Atomic!Next
  <2>1. Disturbed' = FALSE
    BY <1>4 DEF Decides, Disturbed
  <2>2. Atomic!Restore(u)
    BY <1>4, <2>1 DEF Decides, Atomic!Restore, Atomic!Decide
  <2> QED BY <1>4, <2>2 DEF Decides, Atomic!Next
<1>5. CASE Restart /\ ~Disturbed'
  BY <1>5 DEF Restart, Disturbed, RInv, Booked, TypeOK
<1>6. CASE UNCHANGED vars /\ ~Disturbed'
  <2>1. /\ phase' = phase /\ cause' = cause /\ before' = before /\ home' = home
        /\ overlap' = overlap /\ crashes' = crashes
    BY <1>6 DEF vars, history
  <2>2. Outcome' = Outcome /\ ~Disturbed
    BY <1>6, <2>1 DEF Outcome, Committed, Disturbed
  <2>3. Tree' = Tree
    BY <2>1 DEF Tree, Swapping
  <2> QED BY <1>2, <1>6, <2>2, <2>3 DEF Same
<1>7. ASSUME NEW u \in Uploads, OneStep(u), ~Disturbed'
      PROVE  [Atomic!Next]_(Atomic!vars)
  <2>1. CASE Asking(u)
    BY <1>2, <1>7, <2>1, AskingIsSame
  <2>2. CASE Stage(u) \/ StageFails(u)
    BY <1>2, <1>3, <1>7, <2>2, StageIsSame
  <2>5. CASE Dropping(u)
    BY <1>2, <1>3, <1>7, <2>5, DroppingIsSeen
  <2>3. CASE Swap(u)
    BY <1>2, <1>3, <1>4, <1>7, <2>3, SwapIsSeen
  <2>4. CASE Finish(u)
    BY <1>2, <1>7, <2>4, FinishIsSame
  <2> QED BY <1>7, <2>1, <2>2, <2>3, <2>4, <2>5 DEF OneStep, Asking
<1> QED BY <1>1, <1>5, <1>6, <1>7 DEF Next, OneStep, Dropping

-----------------------------------------------------------------------------
(* The theorems.                                                           *)

\* What apply and swapIn keep, step by step.
THEOREM RestoreInvariant == Spec => []RInv
BY RInvInit, RInvStep, PTL DEF Spec

\* TypeOK of Restore.
THEOREM RestoreTypes == Spec => []TypeOK
<1>1. RInv => TypeOK
  BY DEF RInv, Booked
<1> QED BY <1>1, RestoreInvariant, PTL

\* A pending or running apply has its tarball, and every other tarball was left by
\* an apply that failed before its try block, by a removal that failed or by a
\* restart (capUploads, sweepUploads and the finally block of apply), for every
\* number of uploads and every MAX_PENDING_UPLOADS.
THEOREM TarballsKept == Spec => []TarballsAccountedFor
<1>1. RInv => TarballsAccountedFor
  BY DEF RInv, Booked
<1> QED BY <1>1, RestoreInvariant, PTL

\* A swap that fails puts back exactly the tree it found (swapIn), however
\* many entries there are and in whatever order they came.
THEOREM FailedSwapIsUndone == Spec => []SwapIsUndone
<1>1. RInv => SwapIsUndone
  BY DEF RInv, Swaps, SwapOK, SwapIsUndone
<1> QED BY <1>1, RestoreInvariant, PTL

\* Until an apply cleans up, each of the user's entries is in the home directory
\* or parked, whatever fails, the undo list included, and wherever the backend
\* stops.
THEOREM NothingIsLost == Spec => []NothingLostBeforeCleanUp
<1>1. RInv => NothingLostBeforeCleanUp
  BY DEF RInv
<1> QED BY <1>1, RestoreInvariant, PTL

\* "A failed swap must not leave the process without a database"
\* (db.service.ts:100): only a reopening that fails itself takes the connection
\* away, unless two applies overlapped.
THEOREM DatabaseStaysOpen == Spec => AlwaysADatabase
<1> DEFINE Kept == open # Absent /\ open' = Absent
                     => overlap \/ \E u \in Uploads :
                                     cause[u] = "none" /\ cause'[u] = "reopen"
<1>1. ASSUME RInv, [Next]_vars PROVE [Kept]_vars
  <2>1. CASE Restart
    BY <1>1, <2>1, RestartTypes DEF RInv, Booked
  <2>2. ASSUME NEW u \in Uploads, OneStep(u) PROVE Kept
    <3>1. CASE ReopenFails(u)
      <4>1. cause[u] = "none" /\ cause'[u] = "reopen"
        BY <1>1, <3>1 DEF ReopenFails, Fail, RInv, Failing, Booked, TypeOK
      <4> QED BY <4>1
    <3>2. CASE ~ReopenFails(u)
      BY <1>1, <2>2, <3>2, DatabaseStep
    <3> QED BY <3>1, <3>2
  <2> QED BY <1>1, <2>1, <2>2 DEF Next, OneStep, Dropping
<1> QED BY <1>1, RestoreInvariant, PTL DEF Spec, AlwaysADatabase

\* Whatever database is open, its sessions are revoked unless its own restore has
\* still to do it, failed in or after the install, or was cut off (destroyAll
\* after replaceWith, backup.service.ts), for every number of applies and of
\* restarts.
THEOREM RestoresSignOut == Spec => []CarriedSessionsRevoked
<1>1. SignedOut /\ ~overlap => CarriedSessionsRevoked
  BY DEF SignedOut, CarriedSessionsRevoked
<1>2. Watched /\ overlap => CarriedSessionsRevoked
  BY DEF Watched, CarriedSessionsRevoked
<1>3. SignedOut /\ Watched => CarriedSessionsRevoked
  BY <1>1, <1>2
<1> QED BY <1>3, SignedOutInit, SignedOutNext, WatchedInit, WatchedNext, RestoreInvariant,
          PTL DEF Spec

\* "Rolls back to the tree the user started with" (backup.service.ts): where the
\* undo list itself does not fail, restores implement AtomicRestore.
THEOREM RestoreIsAtomic == "undo" \notin Faults => (Spec => ImplementsAtomic)
<1> SUFFICES ASSUME "undo" \notin Faults PROVE Spec => ImplementsAtomic
  OBVIOUS
<1>1. RInv /\ [Next]_vars => [Atomic!Next]_(Atomic!vars)
  BY AtomicStep
<1> QED BY <1>1, AtomicInit, RestoreInvariant, PTL DEF Spec, ImplementsAtomic, Atomic!Spec
=============================================================================
