------------------------------ MODULE ShellPool ------------------------------
(***************************************************************************)
(* What PtyGateway promises of shells, whatever sockets, windows and       *)
(* handshakes they hang on.  A shell is opened for a session that is       *)
(* valid, while there are fewer than the cap, and stays that session's.    *)
(* It may end at any time: by itself, with its socket or with the backend. *)
(* But only a sweep tells a client that its session was revoked, and it    *)
(* tells, and ends, all those of revoked sessions and no others.           *)
(***************************************************************************)
EXTENDS Naturals, FiniteSets

CONSTANTS Slots, MaxSessions

VARIABLES
  shells,  \* the shells that run: their slot and their session
  told,    \* the slots whose client is being told 'session-revoked'
  cookie,  \* the last session to sign in
  valid    \* the sessions that are valid

vars == <<shells, told, cookie, valid>>

Init == shells = {} /\ told = {} /\ cookie = 1 /\ valid = {1}

\* The client of a slot has heard why, or never will.
Heard(s) == told' \in {told, told \ {s}}

Opens(s) ==
  /\ Cardinality(shells) < MaxSessions
  /\ \A x \in shells : x.slot # s
  /\ \E t \in valid : shells' = shells \cup {[slot |-> s, token |-> t]}
  /\ Heard(s)
  /\ UNCHANGED <<cookie, valid>>

Ends(s) ==
  /\ shells' = {x \in shells : x.slot # s}
  /\ Heard(s)
  /\ UNCHANGED <<cookie, valid>>

Sweep ==
  LET revoked == {x \in shells : x.token \notin valid} IN
  /\ shells' = shells \ revoked
  /\ told' = told \cup {x.slot : x \in revoked}
  /\ UNCHANGED <<cookie, valid>>

Closes(s) == Heard(s) /\ UNCHANGED <<shells, cookie, valid>>

Stop == shells' = {} /\ told' \subseteq told /\ UNCHANGED <<cookie, valid>>

Revoke == valid' = {} /\ UNCHANGED <<shells, told, cookie>>

SignIn ==
  /\ cookie' = cookie + 1 /\ valid' = valid \cup {cookie + 1}
  /\ UNCHANGED <<shells, told>>

Next == \/ \E s \in Slots : Opens(s) \/ Ends(s) \/ Closes(s)
        \/ Sweep
        \/ Stop
        \/ Revoke
        \/ SignIn

Spec == Init /\ [][Next]_vars
=============================================================================
