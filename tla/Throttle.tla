------------------------------ MODULE Throttle ------------------------------
(***************************************************************************)
(* The login rate limiter of the backend (modules/auth/throttle.service.ts) *)
(* as operators on its entries.  The service keeps one entry per client    *)
(* address and one for the whole application; AuthSession holds both as    *)
(* variables and applies these operators in the handlers that call them.   *)
(* An address without an entry and a fresh entry behave alike, so the map  *)
(* is a total function.                                                    *)
(***************************************************************************)
EXTENDS Integers

CONSTANTS FailThreshold,        \* failures of one address that are free
          GlobalFailThreshold,  \* failures over all addresses that are free
          BaseLock,             \* the first lockout, in ticks
          MaxLock               \* the longest lockout, in ticks

ASSUME ThrottleAssumption ==
  /\ FailThreshold \in Nat /\ GlobalFailThreshold \in Nat
  /\ BaseLock \in Nat /\ MaxLock \in Nat
  /\ 0 < BaseLock /\ BaseLock <= MaxLock

Attempt == [count : Nat, lockedUntil : Int]

NoAttempt == [count |-> 0, lockedUntil |-> 0]

IsLocked(entry, now) == entry.lockedUntil > now

\* 2 ** over
PowerOfTwo[over \in Nat] == IF over = 0 THEN 1 ELSE 2 * PowerOfTwo[over - 1]

\* Plausible slip: the backoff by a shift (<<), which wraps to 0 at the width of
\* an integer, here two ticks for the 32 bits of JavaScript.
WrappedBackoff(over) ==
  LET lock == (BaseLock * PowerOfTwo[over]) % 2
  IN  IF lock < MaxLock THEN lock ELSE MaxLock

Backoff(over) ==
  LET lock == BaseLock * PowerOfTwo[over]
  IN  IF lock < MaxLock THEN lock ELSE MaxLock

BumpLock(entry, threshold, now) ==
  LET n == entry.count + 1
  IN  [count       |-> n,
       lockedUntil |-> IF n > threshold THEN now + Backoff(n - threshold - 1)
                                        ELSE entry.lockedUntil]
=============================================================================
