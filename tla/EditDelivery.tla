---------------------------- MODULE EditDelivery ----------------------------
(***************************************************************************)
(* What a page promises of the user's edits, whatever queue, timers and    *)
(* requests carry them: the last edit of a key waits until the server has  *)
(* stored it or refused it for good; one that was refused may still be     *)
(* stored by a copy of it under way; and only a page that goes away        *)
(* forgets any.  Stored is what the server has had in its table: an older  *)
(* copy that arrives late may replace it there, which nothing promises.    *)
(***************************************************************************)
CONSTANT Keys

VARIABLE fate  \* of the last edit of each key that this page made

Init == fate = [k \in Keys |-> "none"]

Edit(k) == fate' = [fate EXCEPT ![k] = "waiting"]

\* A batch settles many keys at once.
Become(ks, f) == fate' = [k \in Keys |-> IF k \in ks THEN f ELSE fate[k]]

Store(ks) ==
  /\ \A k \in ks : fate[k] \in {"waiting", "refused"}
  /\ Become(ks, "stored")

Refuse(ks) ==
  /\ \A k \in ks : fate[k] = "waiting"
  /\ Become(ks, "refused")

Forget == Become(Keys, "none")

Next == \/ \E k \in Keys : Edit(k)
        \/ \E ks \in SUBSET Keys : Store(ks) \/ Refuse(ks)
        \/ Forget

Spec == Init /\ [][Next]_fate
=============================================================================
