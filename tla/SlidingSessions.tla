--------------------------- MODULE SlidingSessions ---------------------------
(***************************************************************************)
(* What the backend promises of sessions, whatever rows, requests in       *)
(* flight and restarts it is made of: a session begins at a sign-in,       *)
(* slides with the requests that use it up to a ceiling, and ends by a     *)
(* logout, by a new password or when its time is over, and by nothing      *)
(* else.                                                                   *)
(*                                                                         *)
(* A renewal that would gain less than Slack is not written, so a session  *)
(* may end by that much before its deadline; never at or after it.         *)
(***************************************************************************)
EXTENDS Integers

CONSTANTS TTL,   \* how long a session lasts that nobody uses
          Cap,   \* how long one lasts at most
          Slack

VARIABLES now,
          issued,  \* the tokens handed out so far
          gen,     \* the passwords the account has had
          live     \* the sessions: token, birth and last use

vars == <<now, issued, gen, live>>

Deadline(s) == IF s.used + TTL < s.born + Cap THEN s.used + TTL ELSE s.born + Cap

Fresh == [token |-> issued + 1, born |-> now, used |-> now]

Init == now = 0 /\ issued = 0 /\ gen = 0 /\ live = {}

SignIn ==
  /\ issued' = issued + 1
  /\ live' = live \cup {Fresh}
  /\ UNCHANGED <<now, gen>>

\* Setting up the account, or changing the password: nobody else stays.
NewPassword ==
  /\ gen' = gen + 1
  /\ issued' = issued + 1
  /\ live' = {Fresh}
  /\ UNCHANGED now

Use(t) ==
  /\ \E s \in live : s.token = t
  /\ live' = {IF s.token = t THEN [s EXCEPT !.used = now] ELSE s : s \in live}
  /\ UNCHANGED <<now, issued, gen>>

Logout(t) ==
  /\ live' = {s \in live : s.token # t}
  /\ UNCHANGED <<now, issued, gen>>

Pass ==
  /\ now' = now + 1
  /\ live' \in SUBSET live
  /\ \A s \in live : IF s \in live' THEN now' < Deadline(s)
                                    ELSE now' > Deadline(s) - Slack
  /\ UNCHANGED <<issued, gen>>

Next == \/ SignIn
        \/ NewPassword
        \/ \E t \in 1..issued : Use(t) \/ Logout(t)
        \/ Pass

Spec == Init /\ [][Next]_vars
=============================================================================
