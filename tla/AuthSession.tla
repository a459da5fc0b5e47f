---------------------------- MODULE AuthSession ----------------------------
(***************************************************************************)
(* The backend's account, its session table and the HTTP handlers that     *)
(* change them (apps/backend/src/modules/auth).                            *)
(*                                                                         *)
(* Node runs a handler without interruption up to its next await, and the  *)
(* awaits that matter are the argon2 calls, which run on the thread pool.  *)
(* So a handler is a sequence of atomic segments: Begin... up to the first *)
(* argon2 call, and one action for what follows each of them.  What a      *)
(* handler keeps over an await is in req[q]; everything else it reads      *)
(* again, from the database.  The guard of an authenticated route and the  *)
(* first segment of its handler run in the same turn of the event loop.    *)
(*                                                                         *)
(* An argon2 verification is a comparison with the hash READ BEFORE the    *)
(* await, so its result is fixed there and req[q] keeps it in "ok".        *)
(* The clock is a coarse tick: the session lifetimes, the lockouts and the *)
(* TOTP steps are counted in it.  last_seen, which nothing reads, is left  *)
(* out, as are the setup token and the Origin check, which change nothing. *)
(***************************************************************************)
EXTENDS Throttle, FiniteSets

CONSTANTS
  Requests,         \* slots for requests in flight
  Keys,             \* client addresses
  Passwords,        \* what a client may type
  StrongPasswords,  \* those that pass assertStrongPassword
  NoPassword,       \* the account does not exist yet
  TTL,              \* SESSION_TTL_HOURS
  AbsoluteMax,      \* SESSION_ABSOLUTE_MAX_HOURS
  RenewGain,        \* the hour under which a renewal is not worth a write
  MaxTime,          \* bound on the clock
  MaxTokens,        \* bound on the sessions ever issued
  MaxSecrets,       \* bound on the TOTP secrets ever generated
  MaxFailures       \* bound on the failures counted since the last success

ASSUME AuthAssumption ==
  /\ StrongPasswords \subseteq Passwords
  /\ NoPassword \notin Passwords
  /\ Keys # {}
  /\ TTL \in Nat \ {0} /\ AbsoluteMax \in Nat
  /\ RenewGain \in Nat \ {0}
  /\ MaxTime \in Nat /\ MaxTokens \in Nat
  /\ MaxSecrets \in Nat /\ MaxFailures \in Nat

VARIABLES
  now,       \* Date.now()
  user,      \* the one row of auth_user
  sessions,  \* auth_sessions, a set of rows
  attempts,  \* ThrottleService.attempts
  global,    \* ThrottleService.global
  req,       \* the requests in flight
  \* History, read by no handler:
  issued,    \* how many tokens exist: randomBytes never repeats one
  secrets,   \* how many TOTP secrets exist
  gen,       \* how many passwords the account has had
  uses       \* how often a code of each TOTP step was accepted

vars == <<now, user, sessions, attempts, global, req, issued, secrets, gen, uses>>
account == <<user, secrets, gen, uses>>
throttle == <<attempts, global>>

Tokens   == 1..issued
NoToken  == 0
NoSecret == 0
NoStep   == -1
Steps    == 0..(MaxTime + 1)
Codes    == [secret : Nat, step : Steps]
NoCode   == [secret |-> NoSecret, step |-> 0]

\* "lastHttp" and "issuedGen" are history: the last HTTP request that used the
\* session, and the password generation when its row was written.
Row == [token : Nat, created : Nat, expires : Nat, lastHttp : Nat, issuedGen : Nat]

Ops == {"idle", "setup", "login", "enroll", "disable",
        "change.current", "change.next", "change.hash"}

Request == [op : Ops, key : Keys, cookie : Nat, ok : BOOLEAN,
            code : Codes, password : Passwords \cup {NoPassword}]

AnyKey == CHOOSE k \in Keys : TRUE

Idle == [op |-> "idle", key |-> AnyKey, cookie |-> NoToken, ok |-> FALSE,
         code |-> NoCode, password |-> NoPassword]

TypeOK ==
  /\ now \in 0..MaxTime
  /\ user \in [hash : Passwords \cup {NoPassword}, secret : Nat,
               enabled : BOOLEAN, lastStep : {NoStep} \cup Steps]
  /\ sessions \in SUBSET Row
  /\ attempts \in [Keys -> Attempt]
  /\ global \in Attempt
  /\ req \in [Requests -> Request]
  /\ issued \in Nat
  /\ secrets \in Nat
  /\ gen \in Nat
  /\ uses \in [Steps -> Nat]

Init ==
  /\ now = 0
  /\ user = [hash |-> NoPassword, secret |-> NoSecret, enabled |-> FALSE,
             lastStep |-> NoStep]
  /\ sessions = {}
  /\ attempts = [k \in Keys |-> NoAttempt]
  /\ global = NoAttempt
  /\ req = [q \in Requests |-> Idle]
  /\ issued = 0
  /\ secrets = 0
  /\ gen = 0
  /\ uses = [s \in Steps |-> 0]

-----------------------------------------------------------------------------
(* The session table: SessionService.                                      *)

Lesser(a, b)  == IF a < b THEN a ELSE b
Greater(a, b) == IF a > b THEN a ELSE b

IsValid(t) == \E r \in sessions : r.token = t /\ r.expires > now

Cap == Greater(AbsoluteMax, TTL)

NextExpiry(r) == Lesser(now + TTL, r.created + Cap)

PurgeExpired(table) == {r \in table : r.expires > now}

Destroy(table, t) == {r \in table : r.token # t}

\* Plausible slip: "<=" for "<", so a gain of just an hour is skipped too.
RenewIfMore(table, t) ==
  {IF r.token # t THEN r
   ELSE IF NextExpiry(r) - r.expires <= RenewGain THEN [r EXCEPT !.lastHttp = now]
   ELSE [r EXCEPT !.expires = NextExpiry(r), !.lastHttp = now] : r \in table}

\* renewIfDue on a row that validate has just returned.
RenewIfDue(table, t) ==
  {IF r.token # t THEN r
   ELSE IF NextExpiry(r) - r.expires < RenewGain THEN [r EXCEPT !.lastHttp = now]
   ELSE [r EXCEPT !.expires = NextExpiry(r), !.lastHttp = now] : r \in table}

Issue(table, rowGen) ==
  /\ issued' = issued + 1
  /\ sessions' = PurgeExpired(table) \cup
       {[token |-> issued + 1, created |-> now, expires |-> now + TTL,
         lastHttp |-> now, issuedGen |-> rowGen]}

\* validate: a row found expired is deleted on the spot.
DropIfExpired(table, t) == {r \in table : r.token # t \/ r.expires > now}

-----------------------------------------------------------------------------
(* The throttle, and the bookkeeping of requests.                          *)

NotLocked(k) == ~IsLocked(global, now) /\ ~IsLocked(attempts[k], now)

RecordFailure(k) ==
  /\ attempts' = [attempts EXCEPT ![k] = BumpLock(@, FailThreshold, now)]
  /\ global' = BumpLock(global, GlobalFailThreshold, now)

Reset(k) ==
  /\ attempts' = [attempts EXCEPT ![k] = NoAttempt]
  /\ global' = NoAttempt

\* Bounds: room for the tokens and the failures of all requests in flight.
InFlight == Cardinality({q \in Requests : req[q].op # "idle"})
WithinBounds == /\ issued + InFlight < MaxTokens
                /\ global.count + InFlight < MaxFailures

Begin(q, r)  == /\ req[q].op = "idle"
                /\ WithinBounds
                /\ req' = [req EXCEPT ![q] = r]

Finish(q) == req' = [req EXCEPT ![q] = Idle]

\* Plausible slip: a row is slid without a look at its expiry.
GuardAnyRow(t) == (\E r \in sessions : r.token = t) /\ sessions' = RenewIfDue(sessions, t)

\* The guard of an authenticated route lets the token through and slides it.
Guard(t) == IsValid(t) /\ sessions' = RenewIfDue(sessions, t)

-----------------------------------------------------------------------------
(* The TOTP codes.  A code belongs to a secret and a 30 s step, and is     *)
(* valid for the adjacent steps too.                                       *)

TotpMatch(code) ==
  /\ user.secret # NoSecret
  /\ code.secret = user.secret
  /\ code.step \in {now - 1, now, now + 1}

\* Plausible slip: "<" for "<=", so the step just accepted passes again.
VerifyTotpOffByOne(code) == TotpMatch(code) /\ code.step >= user.lastStep

VerifyTotp(code) == TotpMatch(code) /\ code.step > user.lastStep

\* Plausible slip: the width of the drift window is added to the step.
ConsumeAhead(code) ==
  IF user.enabled /\ VerifyTotp(code)
  THEN /\ user' = [user EXCEPT !.lastStep = code.step + 2]
       /\ uses' = [uses EXCEPT ![code.step] = @ + 1]
  ELSE UNCHANGED <<user, uses>>

\* A valid code is consumed, whatever becomes of the request that carries it.
Consume(code) ==
  IF user.enabled /\ VerifyTotp(code)
  THEN /\ user' = [user EXCEPT !.lastStep = code.step]
       /\ uses' = [uses EXCEPT ![code.step] = @ + 1]
  ELSE UNCHANGED <<user, uses>>

\* The codes a client may send now: none, or one of any secret it has seen.
ClientCodes == {NoCode} \cup
  [secret : 1..secrets, step : {now - 1, now, now + 1} \cap Steps]

ClientCookies == {NoToken} \cup Tokens

-----------------------------------------------------------------------------
(* POST /auth/setup: the account must not exist, twice checked: before the *)
(* hash is computed, and by the primary key when the row is inserted.      *)

BeginSetup(q) ==
  \E pw \in StrongPasswords :
    /\ user.hash = NoPassword
    /\ Begin(q, [Idle EXCEPT !.op = "setup", !.password = pw])
    /\ UNCHANGED <<now, account, sessions, throttle, issued>>

FinishSetup(q) ==
  /\ req[q].op = "setup"
  /\ user.hash = NoPassword
  /\ user' = [user EXCEPT !.hash = req[q].password]
  /\ gen' = gen + 1
  /\ Issue(sessions, gen')
  /\ Finish(q)
  /\ UNCHANGED <<now, throttle, secrets, uses>>

SetupConflict(q) ==
  /\ req[q].op = "setup"
  /\ user.hash # NoPassword
  /\ Finish(q)
  /\ UNCHANGED <<now, account, sessions, throttle, issued>>

-----------------------------------------------------------------------------
(* POST /auth/login, public.  The lockout is tested before the await and   *)
(* nothing else is; the second factor is read after it.                    *)

LoginWithoutAccount(k) ==
  /\ user.hash = NoPassword
  /\ NotLocked(k)
  /\ WithinBounds
  /\ RecordFailure(k)
  /\ UNCHANGED <<now, account, sessions, req, issued>>

BeginLogin(q, k) ==
  \E pw \in Passwords, code \in ClientCodes, t \in ClientCookies :
    /\ user.hash # NoPassword
    /\ NotLocked(k)
    /\ Begin(q, [Idle EXCEPT !.op = "login", !.key = k, !.cookie = t,
                             !.code = code, !.ok = (pw = user.hash)])
    /\ UNCHANGED <<now, account, sessions, throttle, issued>>

SecondFactor(code) == ~user.enabled \/ VerifyTotp(code)

Proven(r) == r.ok /\ SecondFactor(r.code)

LoginFails(q) ==
  /\ req[q].op = "login"
  /\ ~Proven(req[q])
  /\ Consume(req[q].code)
  /\ RecordFailure(req[q].key)
  /\ Finish(q)
  /\ UNCHANGED <<now, sessions, issued, secrets, gen>>

\* Unlocking over a session that is still valid keeps its token.
LoginRenews(q) ==
  /\ req[q].op = "login"
  /\ Proven(req[q])
  /\ Consume(req[q].code)
  /\ Reset(req[q].key)
  /\ Guard(req[q].cookie)
  /\ Finish(q)
  /\ UNCHANGED <<now, issued, secrets, gen>>

LoginIssues(q) ==
  /\ req[q].op = "login"
  /\ Proven(req[q])
  /\ Consume(req[q].code)
  /\ Reset(req[q].key)
  /\ ~IsValid(req[q].cookie)
  /\ Issue(DropIfExpired(sessions, req[q].cookie), gen)
  /\ Finish(q)
  /\ UNCHANGED <<now, secrets, gen>>

Logout(t) ==
  /\ sessions' = Destroy(sessions, t)
  /\ UNCHANGED <<now, account, throttle, req, issued>>

-----------------------------------------------------------------------------
(* Authenticated requests that only pass the guard, or are refused by it;  *)
(* the terminal gateway's sweep, which validates and never renews.         *)

Browse(t) ==
  /\ Guard(t)
  /\ UNCHANGED <<now, account, throttle, req, issued>>

\* Plausible slip: the sweep slides the session like a request does.
SweepSlides(t) ==
  /\ sessions' = IF IsValid(t)
                 THEN {IF r.token = t /\ NextExpiry(r) > r.expires
                       THEN [r EXCEPT !.expires = NextExpiry(r)] ELSE r : r \in sessions}
                 ELSE DropIfExpired(sessions, t)
  /\ UNCHANGED <<now, account, throttle, req, issued>>

ValidateOnly(t) ==
  /\ sessions' = DropIfExpired(sessions, t)
  /\ UNCHANGED <<now, account, throttle, req, issued>>

-----------------------------------------------------------------------------
(* The second factor: enrol (pending), confirm, disable.                   *)

BeginEnroll(q, t) ==
  \E pw \in Passwords :
    /\ Guard(t)
    /\ secrets + InFlight < MaxSecrets
    /\ Begin(q, [Idle EXCEPT !.op = "enroll", !.ok = (pw = user.hash)])
    /\ UNCHANGED <<now, account, throttle, issued>>

FinishEnroll(q) ==
  /\ req[q].op = "enroll"
  /\ req[q].ok
  /\ secrets' = secrets + 1
  /\ user' = [user EXCEPT !.secret = secrets + 1, !.enabled = FALSE]
  /\ Finish(q)
  /\ UNCHANGED <<now, sessions, throttle, issued, gen, uses>>

ConfirmTotp(t, code) ==
  /\ Guard(t)
  /\ TotpMatch(code)
  /\ user' = [user EXCEPT !.enabled = TRUE]
  /\ UNCHANGED <<now, throttle, req, issued, secrets, gen, uses>>

BeginDisable(q, t) ==
  \E pw \in Passwords :
    /\ Guard(t)
    /\ Begin(q, [Idle EXCEPT !.op = "disable", !.ok = (pw = user.hash)])
    /\ UNCHANGED <<now, account, throttle, issued>>

FinishDisable(q) ==
  /\ req[q].op = "disable"
  /\ req[q].ok
  /\ user' = [user EXCEPT !.secret = NoSecret, !.enabled = FALSE]
  /\ Finish(q)
  /\ UNCHANGED <<now, sessions, throttle, issued, secrets, gen, uses>>

\* A wrong password on either route: 401, no throttle.
StepUpFails(q) ==
  /\ req[q].op \in {"enroll", "disable"}
  /\ ~req[q].ok
  /\ Finish(q)
  /\ UNCHANGED <<now, account, sessions, throttle, issued>>

-----------------------------------------------------------------------------
(* POST /auth/password: three argon2 calls, then one atomic tail.          *)

BeginChange(q, k, t) ==
  \E current \in Passwords, next \in Passwords, code \in ClientCodes :
    /\ Guard(t)
    /\ NotLocked(k)
    /\ Begin(q, [Idle EXCEPT !.op = "change.current", !.key = k, !.code = code,
                             !.ok = (current = user.hash), !.password = next])
    /\ UNCHANGED <<now, account, throttle, issued>>

\* The current password or the code was wrong.
ChangeRefused(q) ==
  /\ req[q].op = "change.current"
  /\ ~Proven(req[q])
  /\ IF req[q].ok THEN Consume(req[q].code) ELSE UNCHANGED <<user, uses>>
  /\ RecordFailure(req[q].key)
  /\ Finish(q)
  /\ UNCHANGED <<now, sessions, issued, secrets, gen>>

\* Proved; is the new password strong, and is it really new?
ChangeProved(q) ==
  /\ req[q].op = "change.current"
  /\ Proven(req[q])
  /\ Consume(req[q].code)
  /\ req' = [req EXCEPT ![q] =
       IF req[q].password \in StrongPasswords
       THEN [@ EXCEPT !.op = "change.next", !.code = NoCode,
                      !.ok = (req[q].password = user.hash)]
       ELSE Idle]
  /\ UNCHANGED <<now, sessions, throttle, issued, secrets, gen>>

HashNext(q) ==
  /\ req[q].op = "change.next"
  /\ req' = [req EXCEPT ![q] = IF req[q].ok THEN Idle ELSE [@ EXCEPT !.op = "change.hash"]]
  /\ UNCHANGED <<now, account, sessions, throttle, issued>>

\* Plausible slip: destroyAll is forgotten.
FinishChangeKeepsSessions(q) ==
  /\ req[q].op = "change.hash"
  /\ user' = [user EXCEPT !.hash = req[q].password]
  /\ gen' = gen + 1
  /\ Reset(req[q].key)
  /\ Issue(sessions, gen')
  /\ Finish(q)
  /\ UNCHANGED <<now, secrets, uses>>

FinishChange(q) ==
  /\ req[q].op = "change.hash"
  /\ user' = [user EXCEPT !.hash = req[q].password]
  /\ gen' = gen + 1
  /\ Reset(req[q].key)
  /\ Issue({}, gen')
  /\ Finish(q)
  /\ UNCHANGED <<now, secrets, uses>>

-----------------------------------------------------------------------------
(* The clock, and a restart of the backend: the requests in flight and the *)
(* throttle are lost, the database stays, expired rows are purged.         *)

Tick ==
  /\ now < MaxTime
  /\ now' = now + 1
  /\ UNCHANGED <<account, sessions, throttle, req, issued>>

Restart ==
  /\ req' = [q \in Requests |-> Idle]
  /\ attempts' = [k \in Keys |-> NoAttempt]
  /\ global' = NoAttempt
  /\ sessions' = PurgeExpired(sessions)
  /\ UNCHANGED <<now, account, issued>>

Handler(q) ==
  \/ FinishSetup(q)
  \/ SetupConflict(q)
  \/ LoginFails(q)
  \/ LoginRenews(q)
  \/ LoginIssues(q)
  \/ FinishEnroll(q)
  \/ FinishDisable(q)
  \/ StepUpFails(q)
  \/ ChangeRefused(q)
  \/ ChangeProved(q)
  \/ HashNext(q)
  \/ FinishChange(q)

Next ==
  \/ Tick
  \/ Restart
  \/ \E k \in Keys : LoginWithoutAccount(k)
  \/ \E q \in Requests : BeginSetup(q)
  \/ \E q \in Requests, k \in Keys : BeginLogin(q, k)
  \/ \E q \in Requests, t \in Tokens : BeginEnroll(q, t)
  \/ \E q \in Requests, t \in Tokens : BeginDisable(q, t)
  \/ \E q \in Requests, k \in Keys, t \in Tokens : BeginChange(q, k, t)
  \/ \E q \in Requests : Handler(q)
  \/ \E t \in Tokens : Logout(t)
  \/ \E t \in Tokens : Browse(t)
  \/ \E t \in Tokens : ValidateOnly(t)
  \/ \E t \in Tokens, code \in ClientCodes : ConfirmTotp(t, code)

Spec == Init /\ [][Next]_vars

-----------------------------------------------------------------------------
(* Properties.                                                             *)

\* An entry of the throttle, locked before a step, that the step did not reset.
NotShortened(before, after) ==
  IsLocked(before, now) /\ after.count # 0 => after.lockedUntil >= before.lockedUntil

\* A session outlives neither its absolute ceiling nor one TTL since the last
\* HTTP request that used it: neither the terminal sweep, nor a login that was
\* already waiting for argon2, nor any order of requests stretches it
\* (renewIfDue's cap; "renewal there would let any open terminal immortalize
\* its own session", session.service.ts:93).
SlidingExpiryBound ==
  \A r \in sessions : /\ r.expires <= r.created + Cap
                      /\ r.expires <= r.lastHttp + TTL

\* A token that was logged out, rotated away or that expired never becomes
\* valid again, not even through a request that was in flight meanwhile.
RevokedStaysRevoked ==
  [][\A t \in Tokens : ~IsValid(t) => ~IsValid(t)']_vars

\* No row written before the last password change survives it: the change
\* replaces the hash before it drops the sessions, in one turn
\* (auth.controller.ts:199, "no pre-change token still valid anywhere").
NoPreChangeToken == \A r \in sessions : r.issuedGen = gen

\* A TOTP step is accepted once, over logins and password changes in flight
\* together, over the drift window and over re-enrolment.
TotpSingleUse == \A s \in Steps : uses[s] <= 1

\* Only a successful sign-in or password change, or a restart, shortens a
\* running lockout, of one address or of the whole application; the failures of
\* requests admitted before it began only lengthen it.
LockoutHolds ==
  [][/\ \A k \in Keys : NotShortened(attempts[k], attempts'[k])
     /\ NotShortened(global, global')]_vars

-----------------------------------------------------------------------------
(* The promise, seen through the rows that are not over yet.               *)

Live == {[token |-> r.token, born |-> r.created, used |-> r.lastHttp] :
           r \in {x \in sessions : x.expires > now}}

Sliding == INSTANCE SlidingSessions WITH live <- Live, Slack <- RenewGain

\* A session lasts while it is used, up to its ceiling, and is ended by nothing
\* but a logout, a new password and its time: not by a purge, the terminal
\* sweep, a restart, a sign-in elsewhere or a skipped renewal, which costs less
\* than RenewGain (session.service.ts, "Gains under an hour are skipped").
ImplementsSlidingSessions == Sliding!Spec
=============================================================================
