------------------------- MODULE AuthSession_proofs -------------------------
(***************************************************************************)
(* Proofs about AuthSession, for every value of its constants.             *)
(***************************************************************************)
EXTENDS AuthSession, WellFoundedInduction, TLAPS

(***************************************************************************)
(* The inductive invariant, by the part of the state it is about.  Beyond  *)
(* the properties it says: a row's stamps are not in the future and its    *)
(* token was issued; a setup or a change in flight carries a password the  *)
(* account may take; the steps accepted so far are not after lastStep; and *)
(* before the account exists there is no session and no request but        *)
(* setups, so the first password finds no older row in the table.          *)
(***************************************************************************)
RowOK(r) ==
  /\ r \in Row
  /\ r.token \in Tokens
  /\ r.lastHttp <= now
  /\ r.expires <= r.created + Cap
  /\ r.expires <= r.lastHttp + TTL
  /\ r.issuedGen = gen

SessionPart ==
  /\ now \in 0..MaxTime
  /\ issued \in Nat
  /\ gen \in Nat
  /\ \A r \in sessions : RowOK(r)

NeedsPassword == {"setup", "change.current", "change.next", "change.hash"}

RequestOK(r) == r \in Request /\ (r.op \in NeedsPassword => r.password # NoPassword)

RequestPart ==
  /\ req \in [Requests -> Request]
  /\ \A q \in Requests : RequestOK(req[q])

ThrottlePart ==
  /\ attempts \in [Keys -> Attempt]
  /\ global \in Attempt

User == [hash : Passwords \cup {NoPassword}, secret : Nat,
         enabled : BOOLEAN, lastStep : {NoStep} \cup Steps]

UserPart ==
  /\ user \in User
  /\ secrets \in Nat
  /\ uses \in [Steps -> Nat]
  /\ \A s \in Steps : uses[s] # 0 => s <= user.lastStep
  /\ TotpSingleUse

NothingBeforeSetup ==
  user.hash = NoPassword => /\ sessions = {}
                            /\ \A q \in Requests : req[q].op \in {"idle", "setup"}

AInv == /\ SessionPart
        /\ RequestPart
        /\ ThrottlePart
        /\ UserPart
        /\ NothingBeforeSetup

-----------------------------------------------------------------------------
(* The session table.                                                      *)

LEMMA CapIsNat == Cap \in Nat /\ TTL <= Cap /\ TTL \in Nat
  BY AuthAssumption DEF Cap, Greater

\* Rows may be dropped, and time may pass.
LEMMA FewerRows ==
  ASSUME SessionPart, sessions' \subseteq sessions,
         now' \in 0..MaxTime, now <= now', issued' = issued, gen' = gen
  PROVE  SessionPart'
<1> SUFFICES ASSUME NEW r \in sessions PROVE RowOK(r)'
  BY DEF SessionPart
<1>1. RowOK(r) /\ now \in Nat /\ MaxTime \in Nat
  BY AuthAssumption DEF SessionPart
<1> QED
  BY <1>1 DEF RowOK, Row, Tokens

\* What renewIfDue leaves of a row is within the bounds.
LEMMA RenewedRows ==
  ASSUME SessionPart, NEW t, sessions' = RenewIfDue(sessions, t),
         UNCHANGED <<now, issued, gen>>
  PROVE  SessionPart'
<1> SUFFICES ASSUME NEW x \in sessions,
                    NEW y, y = IF x.token # t THEN x
                               ELSE IF NextExpiry(x) - x.expires < RenewGain
                                    THEN [x EXCEPT !.lastHttp = now]
                                    ELSE [x EXCEPT !.expires = NextExpiry(x),
                                                   !.lastHttp = now]
             PROVE  RowOK(y)
  BY DEF RenewIfDue, SessionPart, RowOK, Tokens
<1>1. RowOK(x) /\ now \in Nat
  BY AuthAssumption DEF SessionPart
<1>2. /\ NextExpiry(x) \in Nat
      /\ NextExpiry(x) <= now + TTL
      /\ NextExpiry(x) <= x.created + Cap
  BY <1>1, CapIsNat DEF NextExpiry, Lesser, Row, RowOK
<1>3. CASE x.token # t
  BY <1>1, <1>3
<1>4. CASE x.token = t /\ NextExpiry(x) - x.expires < RenewGain
  <2>1. /\ y \in Row /\ y.token = x.token /\ y.created = x.created
        /\ y.expires = x.expires /\ y.lastHttp = now /\ y.issuedGen = x.issuedGen
    BY <1>1, <1>4 DEF Row, RowOK
  <2> QED BY <1>1, <2>1, CapIsNat DEF Row, RowOK
<1>5. CASE x.token = t /\ ~(NextExpiry(x) - x.expires < RenewGain)
  <2>1. /\ y \in Row /\ y.token = x.token /\ y.created = x.created
        /\ y.expires = NextExpiry(x) /\ y.lastHttp = now /\ y.issuedGen = x.issuedGen
    BY <1>1, <1>2, <1>5 DEF Row, RowOK
  <2> QED BY <1>1, <1>2, <2>1, CapIsNat DEF Row, RowOK
<1> QED BY <1>3, <1>4, <1>5

\* A new row is within the bounds; the rows that stay are of its generation.
LEMMA IssuedRow ==
  ASSUME SessionPart, NEW table \in SUBSET sessions,
         gen' \in Nat, Issue(table, gen'), now' = now,
         gen' = gen \/ table = {}
  PROVE  SessionPart'
<1>1. now \in Nat /\ issued \in Nat /\ issued' = issued + 1
  BY AuthAssumption DEF SessionPart, Issue
<1>2. PICK new : new = [token |-> issued + 1, created |-> now, expires |-> now + TTL,
                        lastHttp |-> now, issuedGen |-> gen']
  OBVIOUS
<1>3. RowOK(new)'
  BY <1>1, <1>2, CapIsNat DEF RowOK, Row, Tokens
<1>4. ASSUME NEW r \in sessions', r # new PROVE RowOK(r)'
  <2>1. r \in table
    BY <1>2, <1>4 DEF Issue, PurgeExpired
  <2>2. gen' = gen /\ RowOK(r)
    BY <2>1 DEF SessionPart
  <2> QED BY <1>1, <2>2 DEF RowOK, Row, Tokens
<1> QED BY <1>1, <1>3, <1>4 DEF SessionPart

-----------------------------------------------------------------------------
(* The requests in flight.                                                 *)

LEMMA IdleIsRequest == Idle \in Request /\ Idle.op = "idle" /\ RequestOK(Idle)
<1>1. AnyKey \in Keys
  BY AuthAssumption DEF AnyKey
<1>2. NoCode \in Codes
  BY AuthAssumption DEF NoCode, Codes, NoSecret, Steps
<1> QED
  BY <1>1, <1>2 DEF Idle, Request, Ops, NoToken, RequestOK, NeedsPassword

LEMMA SetRequest ==
  ASSUME RequestPart, NEW q \in Requests, NEW r, RequestOK(r),
         req' = [req EXCEPT ![q] = r]
  PROVE  RequestPart'
  BY DEF RequestPart, RequestOK

LEMMA Finished ==
  ASSUME RequestPart, NEW q \in Requests, Finish(q)
  PROVE  /\ RequestPart'
         /\ \A p \in Requests : req'[p].op \in {"idle", "setup"}
                                \/ req'[p].op = req[p].op
  BY SetRequest, IdleIsRequest DEF Finish, RequestPart

-----------------------------------------------------------------------------
(* The powers of two of the backoff.                                       *)

\* Induction, as a fact about sets of numbers.
LEMMA SetInduction ==
  ASSUME NEW S \in SUBSET Nat, 0 \in S, \A n \in S : n + 1 \in S
  PROVE  S = Nat
<1> DEFINE R == OpToRel(<, Nat)
<1>1. SUFFICES ASSUME Nat \ S # {} PROVE FALSE
  OBVIOUS
<1>2. IsWellFoundedOn(R, Nat)
  BY NatLessThanWellFounded
<1> HIDE DEF R
<1>3. PICK y \in Nat \ S : \A z \in Nat \ S : ~(<<z, y>> \in R)
  BY <1>1, <1>2, WFMin
<1>4. y - 1 \in Nat /\ y - 1 < y /\ (y - 1) + 1 = y
  BY <1>3
<1>5. <<y - 1, y>> \in R
  BY <1>3, <1>4 DEF R, OpToRel
<1>6. y - 1 \in S
  BY <1>3, <1>4, <1>5
<1> QED BY <1>3, <1>4, <1>6

\* g holds the powers of two up to n.
PowersUpTo(g, n) ==
  g \in [0..n -> Nat] /\ \A i \in 0..n : g[i] = IF i = 0 THEN 1 ELSE 2 * g[i - 1]

LEMMA PowersExist == \A n \in Nat : \E g : PowersUpTo(g, n)
<1> DEFINE S == {n \in Nat : \E g : PowersUpTo(g, n)}
<1>1. 0 \in S
  <2>1. PowersUpTo([i \in 0..0 |-> 1], 0)
    BY DEF PowersUpTo
  <2> QED BY <2>1
<1>2. ASSUME NEW n \in S PROVE n + 1 \in S
  <2>1. PICK g : PowersUpTo(g, n)
    OBVIOUS
  <2> DEFINE h == [i \in 0..(n + 1) |-> IF i = n + 1 THEN 2 * g[n] ELSE g[i]]
  <2>2. h \in [0..(n + 1) -> Nat]
    BY <2>1 DEF PowersUpTo
  <2>3. ASSUME NEW i \in 0..(n + 1) PROVE h[i] = IF i = 0 THEN 1 ELSE 2 * h[i - 1]
    <3>1. CASE i = n + 1
      BY <3>1
    <3>2. CASE i # n + 1
      <4>1. i \in 0..n /\ i - 1 # n + 1 /\ (i # 0 => i - 1 \in 0..(n + 1))
        BY <3>2
      <4> QED BY <2>1, <4>1 DEF PowersUpTo
    <3> QED BY <3>1, <3>2
  <2>4. PowersUpTo(h, n + 1)
    BY <2>2, <2>3 DEF PowersUpTo
  <2> QED BY <2>4
<1>3. S = Nat
  <2> HIDE DEF S
  <2>1. S \in SUBSET Nat
    BY DEF S
  <2> QED BY <1>1, <1>2, <2>1, SetInduction
<1> QED BY <1>3

LEMMA PowersAgree ==
  ASSUME NEW g, NEW h, NEW n \in Nat, NEW m \in Nat, PowersUpTo(g, n), PowersUpTo(h, m)
  PROVE  \A i \in Nat : i <= n /\ i <= m => g[i] = h[i]
<1> DEFINE S == {i \in Nat : i <= n /\ i <= m => g[i] = h[i]}
<1>1. 0 \in S
  BY DEF PowersUpTo
<1>2. ASSUME NEW i \in S PROVE i + 1 \in S
  <2> SUFFICES ASSUME i + 1 <= n, i + 1 <= m PROVE g[i + 1] = h[i + 1]
    OBVIOUS
  <2>1. i + 1 \in 0..n /\ i + 1 \in 0..m /\ (i + 1) - 1 = i /\ i + 1 # 0 /\ g[i] = h[i]
    OBVIOUS
  <2>2. g[i + 1] = 2 * g[(i + 1) - 1] /\ h[i + 1] = 2 * h[(i + 1) - 1]
    BY <2>1 DEF PowersUpTo
  <2> QED BY <2>1, <2>2
<1>3. S = Nat
  <2> HIDE DEF S
  <2>1. S \in SUBSET Nat
    BY DEF S
  <2> QED BY <1>1, <1>2, <2>1, SetInduction
<1> QED BY <1>3

\* The recursion defines a function, and its values are numbers that double.
LEMMA PowersDouble ==
  /\ PowerOfTwo \in [Nat -> Nat]
  /\ \A n \in Nat : PowerOfTwo[n + 1] = 2 * PowerOfTwo[n]
<1> DEFINE upTo[n \in Nat] == CHOOSE g : PowersUpTo(g, n)
           f == [n \in Nat |-> upTo[n][n]]
<1>1. \A n \in Nat : PowersUpTo(upTo[n], n)
  BY PowersExist
<1> HIDE DEF upTo
<1>2. \A n \in Nat : f[n] \in Nat
  BY <1>1 DEF PowersUpTo
<1>3. ASSUME NEW n \in Nat, n # 0 PROVE f[n] = 2 * f[n - 1]
  <2>1. n - 1 \in Nat /\ n - 1 <= n /\ n \in 0..n
    BY <1>3
  <2>2. upTo[n][n] = 2 * upTo[n][n - 1]
    BY <1>1, <1>3, <2>1 DEF PowersUpTo
  <2>3. upTo[n][n - 1] = upTo[n - 1][n - 1]
    BY <1>1, <2>1, PowersAgree
  <2> QED BY <2>1, <2>2, <2>3
<1>4. f[0] = 1
  BY <1>1 DEF PowersUpTo
<1>5. f = [n \in Nat |-> IF n = 0 THEN 1 ELSE 2 * f[n - 1]]
  <2>1. \A n \in Nat : f[n] = IF n = 0 THEN 1 ELSE 2 * f[n - 1]
    BY <1>3, <1>4
  <2> QED BY <2>1
<1> HIDE DEF f
<1>6. PowerOfTwo = [n \in Nat |-> IF n = 0 THEN 1 ELSE 2 * PowerOfTwo[n - 1]]
  BY <1>5 DEF PowerOfTwo
<1> DEFINE S == {n \in Nat : PowerOfTwo[n] \in Nat}
<1>7. S = Nat
  <2>1. 0 \in S
    BY <1>6
  <2>2. ASSUME NEW n \in S PROVE n + 1 \in S
    <3>1. n + 1 \in Nat /\ n + 1 # 0 /\ (n + 1) - 1 = n
      OBVIOUS
    <3>2. PowerOfTwo[n + 1] = 2 * PowerOfTwo[n]
      BY <1>6, <3>1
    <3> QED BY <3>2
  <2>3. S \in SUBSET Nat
    OBVIOUS
  <2> HIDE DEF S
  <2> QED BY <2>1, <2>2, <2>3, SetInduction
<1>8. \A n \in Nat : n + 1 \in Nat /\ n + 1 # 0 /\ (n + 1) - 1 = n
  OBVIOUS
<1>9. \A n \in Nat : PowerOfTwo[n + 1] = 2 * PowerOfTwo[n]
  BY <1>6, <1>8
<1>10. \A n \in Nat : PowerOfTwo[n] \in Nat
  BY <1>7
<1>11. PowerOfTwo \in [Nat -> Nat]
  <2> DEFINE g == [n \in Nat |-> IF n = 0 THEN 1 ELSE 2 * PowerOfTwo[n - 1]]
  <2>1. PowerOfTwo = g /\ \A n \in Nat : g[n] \in Nat
    BY <1>6, <1>10
  <2>2. g \in [Nat -> Nat]
    BY <2>1, Zenon
  <2> QED BY <2>1, <2>2
<1> QED BY <1>9, <1>11

\* One failure more never earns a shorter lock, and the doubling stops at the cap
\* (bumpLock, throttle.service.ts), for every base and cap.
THEOREM BackoffGrows ==
  ASSUME NEW n \in Nat
  PROVE  /\ Backoff(n) \in 0..MaxLock
         /\ Backoff(n) <= Backoff(n + 1)
<1>1. PICK a \in Nat : a = PowerOfTwo[n]
  BY PowersDouble
<1>2. PICK b \in Nat : b = PowerOfTwo[n + 1] /\ b = 2 * a
  BY <1>1, PowersDouble
<1>3. /\ Backoff(n) = IF BaseLock * a < MaxLock THEN BaseLock * a ELSE MaxLock
      /\ Backoff(n + 1) = IF BaseLock * b < MaxLock THEN BaseLock * b ELSE MaxLock
  BY <1>1, <1>2 DEF Backoff
<1>4. BaseLock * b = 2 * (BaseLock * a)
  BY <1>2, ThrottleAssumption
<1>5. PICK c \in Nat : c = BaseLock * a
  BY <1>1, ThrottleAssumption
<1> QED BY <1>3, <1>4, <1>5, ThrottleAssumption

-----------------------------------------------------------------------------
(* The throttle.                                                           *)

LEMMA BumpedAttempt ==
  ASSUME NEW e \in Attempt, NEW threshold \in Nat, NEW time \in Nat
  PROVE  BumpLock(e, threshold, time) \in Attempt
<1>1. e.count + 1 > threshold => e.count + 1 - threshold - 1 \in Nat
  BY DEF Attempt
<1>2. ASSUME NEW over \in Nat PROVE Backoff(over) \in Int
  BY BackoffGrows
<1> QED BY <1>1, <1>2 DEF BumpLock, Attempt

LEMMA FailureRecorded ==
  ASSUME ThrottlePart, SessionPart, NEW k \in Keys, RecordFailure(k)
  PROVE  ThrottlePart'
<1>1. now \in Nat
  BY AuthAssumption DEF SessionPart
<1> QED
  BY <1>1, BumpedAttempt, ThrottleAssumption DEF RecordFailure, ThrottlePart

LEMMA ThrottleReset ==
  ASSUME ThrottlePart, NEW k \in Keys, Reset(k)
  PROVE  ThrottlePart'
  BY DEF Reset, ThrottlePart, Attempt, NoAttempt

-----------------------------------------------------------------------------
(* The account.                                                            *)

LEMMA Consumed ==
  ASSUME UserPart, SessionPart, NEW code \in Codes, Consume(code), secrets' = secrets
  PROVE  UserPart' /\ user'.hash = user.hash
<1>1. CASE user.enabled /\ VerifyTotp(code)
  <2>1. /\ code.step \in Steps /\ code.step > user.lastStep
        /\ user.lastStep \in Int /\ code.step \in Int /\ \A s \in Steps : s \in Int
    BY <1>1, AuthAssumption DEF VerifyTotp, Codes, Steps, UserPart, User, NoStep
  <2>2. uses[code.step] = 0
    <3>1. ~(code.step <= user.lastStep)
      BY <2>1
    <3> QED BY <3>1, <2>1 DEF UserPart
  <2>3. /\ user' \in User /\ user'.hash = user.hash
        /\ user'.lastStep = code.step
    BY <1>1, <2>1 DEF Consume, UserPart, User
  <2>4. /\ uses' \in [Steps -> Nat]
        /\ \A s \in Steps : uses'[s] = IF s = code.step THEN 1 ELSE uses[s]
    BY <1>1, <2>1, <2>2 DEF Consume, UserPart
  <2>5. \A s \in Steps : uses'[s] # 0 => s <= user'.lastStep
    <3> SUFFICES ASSUME NEW s \in Steps, uses'[s] # 0 PROVE s <= code.step
      BY <2>3
    <3>1. CASE s = code.step
      BY <3>1, <2>1
    <3>2. CASE s # code.step
      <4>1. s <= user.lastStep
        BY <3>2, <2>4 DEF UserPart
      <4>2. s \in Int
        BY <2>1
      <4> QED BY <4>1, <4>2, <2>1
    <3> QED BY <3>1, <3>2
  <2>6. \A s \in Steps : uses'[s] <= 1
    BY <2>4 DEF UserPart, TotpSingleUse
  <2>7. secrets' \in Nat
    BY DEF UserPart
  <2> QED BY <2>3, <2>4, <2>5, <2>6, <2>7 DEF UserPart, TotpSingleUse
<1>2. CASE ~(user.enabled /\ VerifyTotp(code))
  BY <1>2 DEF Consume, UserPart, User, TotpSingleUse
<1> QED BY <1>1, <1>2

LEMMA UserReplaced ==
  ASSUME UserPart, user' \in User, user'.lastStep = user.lastStep,
         secrets' \in Nat, uses' = uses
  PROVE  UserPart'
  BY DEF UserPart, TotpSingleUse

-----------------------------------------------------------------------------
(* Every step keeps the invariant: one lemma per kind of step.             *)

LEMMA InitInv == Init => AInv
<1> SUFFICES ASSUME Init PROVE AInv
  OBVIOUS
<1>1. SessionPart
  BY AuthAssumption DEF Init, SessionPart
<1>2. RequestPart /\ NothingBeforeSetup
  BY IdleIsRequest DEF Init, RequestPart, NothingBeforeSetup
<1>3. ThrottlePart
  BY DEF Init, ThrottlePart, Attempt, NoAttempt
<1>4. UserPart
  BY DEF Init, UserPart, User, TotpSingleUse, NoSecret
<1> QED
  BY <1>1, <1>2, <1>3, <1>4 DEF AInv

\* Steps that touch the sessions only through the guard, the sweep or logout,
\* and no request.
LEMMA TableSteps ==
  ASSUME AInv, NEW t \in Tokens,
         \/ Logout(t)
         \/ Browse(t)
         \/ ValidateOnly(t)
         \/ \E code \in ClientCodes : ConfirmTotp(t, code)
  PROVE  AInv'
<1>1. now \in 0..MaxTime /\ now \in Nat
  BY AuthAssumption DEF AInv, SessionPart
<1>2. CASE Logout(t)
  <2>1. SessionPart'
    BY <1>1, <1>2, FewerRows DEF AInv, Logout, Destroy, account
  <2> QED BY <1>2, <2>1 DEF AInv, Logout, Destroy, account, throttle, RequestPart,
                            ThrottlePart, UserPart, TotpSingleUse, NothingBeforeSetup
<1>3. CASE ValidateOnly(t)
  <2>1. SessionPart'
    BY <1>1, <1>3, FewerRows DEF AInv, ValidateOnly, DropIfExpired, account
  <2> QED BY <1>3, <2>1 DEF AInv, ValidateOnly, DropIfExpired, account, throttle,
                   RequestPart, ThrottlePart, UserPart, TotpSingleUse, NothingBeforeSetup
<1>4. CASE Browse(t)
  <2>1. SessionPart' /\ sessions # {}
    BY <1>4, RenewedRows DEF AInv, Browse, Guard, IsValid, account
  <2> QED BY <1>4, <2>1 DEF AInv, Browse, account, throttle, RequestPart,
                            ThrottlePart, UserPart, TotpSingleUse, NothingBeforeSetup
<1>5. ASSUME NEW code \in ClientCodes, ConfirmTotp(t, code) PROVE AInv'
  <2>1. SessionPart' /\ sessions # {}
    BY <1>5, RenewedRows DEF AInv, ConfirmTotp, Guard, IsValid
  <2>2. /\ user' \in User /\ user'.lastStep = user.lastStep /\ user'.hash = user.hash
    BY <1>5 DEF AInv, UserPart, ConfirmTotp, User
  <2>3. UserPart'
    BY <1>5, <2>2, UserReplaced DEF AInv, ConfirmTotp, UserPart
  <2> QED BY <1>5, <2>1, <2>2, <2>3 DEF AInv, ConfirmTotp, throttle, RequestPart,
                                        ThrottlePart, NothingBeforeSetup
<1> QED BY <1>2, <1>3, <1>4, <1>5

\* A request of an authenticated route has passed the guard and starts.
LEMMA GuardedBegin ==
  ASSUME AInv, NEW q \in Requests, NEW t \in Tokens, NEW r,
         Guard(t), Begin(q, r), RequestOK(r),
         UNCHANGED <<now, account, throttle, issued>>
  PROVE  AInv'
<1>1. SessionPart' /\ sessions # {}
  BY RenewedRows DEF AInv, Guard, IsValid, account
<1>2. RequestPart'
  BY SetRequest DEF AInv, Begin
<1> QED BY <1>1, <1>2 DEF AInv, account, throttle, ThrottlePart, UserPart,
                          TotpSingleUse, NothingBeforeSetup

LEMMA BeginSteps ==
  ASSUME AInv, NEW q \in Requests,
         \/ BeginSetup(q)
         \/ \E k \in Keys : BeginLogin(q, k)
         \/ \E t \in Tokens : BeginEnroll(q, t) \/ BeginDisable(q, t)
         \/ \E k \in Keys, t \in Tokens : BeginChange(q, k, t)
  PROVE  AInv'
<1> USE DEF NeedsPassword, RequestOK
<1>1. ASSUME NEW code \in ClientCodes PROVE code \in Codes
  BY AuthAssumption DEF ClientCodes, Codes, NoCode, NoSecret, Steps, AInv, UserPart
<1>2. gen \in Nat /\ now \in Nat
  BY AuthAssumption DEF AInv, SessionPart
<1>3. CASE BeginSetup(q)
  <2>1. PICK pw \in StrongPasswords :
          /\ user.hash = NoPassword
          /\ Begin(q, [Idle EXCEPT !.op = "setup", !.password = pw])
          /\ UNCHANGED <<now, account, sessions, throttle, issued>>
    BY <1>3 DEF BeginSetup
  <2>2. RequestOK([Idle EXCEPT !.op = "setup", !.password = pw])
    BY IdleIsRequest, AuthAssumption DEF Request, Ops
  <2>3. RequestPart'
    BY <2>1, <2>2, SetRequest DEF AInv, Begin
  <2>4. \A p \in Requests : req'[p].op = "setup" \/ req'[p].op = req[p].op
    BY <2>1, IdleIsRequest DEF Begin, AInv, RequestPart, Request
  <2> QED BY <2>1, <2>3, <2>4 DEF AInv, account, throttle, SessionPart, RowOK, Tokens,
                         ThrottlePart, UserPart, TotpSingleUse, NothingBeforeSetup
<1>4. ASSUME NEW k \in Keys, BeginLogin(q, k) PROVE AInv'
  <2>1. PICK pw \in Passwords, code \in ClientCodes, t \in ClientCookies :
          /\ user.hash # NoPassword
          /\ Begin(q, [Idle EXCEPT !.op = "login", !.key = k, !.cookie = t,
                                   !.code = code, !.ok = (pw = user.hash)])
          /\ UNCHANGED <<now, account, sessions, throttle, issued>>
    BY <1>4 DEF BeginLogin
  <2>2. t \in Nat
    BY DEF ClientCookies, Tokens, NoToken, AInv, SessionPart
  <2>3. RequestOK([Idle EXCEPT !.op = "login", !.key = k, !.cookie = t,
                               !.code = code, !.ok = (pw = user.hash)])
    BY <1>1, <1>2, <2>2, IdleIsRequest DEF Request, Ops
  <2>4. RequestPart'
    BY <2>1, <2>3, SetRequest DEF AInv, Begin
  <2> QED BY <2>1, <2>4 DEF AInv, account, throttle, SessionPart, RowOK, Tokens,
                    ThrottlePart, UserPart, TotpSingleUse, NothingBeforeSetup
<1>5. ASSUME NEW t \in Tokens, BeginEnroll(q, t) PROVE AInv'
  <2>1. PICK pw \in Passwords :
          /\ Guard(t)
          /\ Begin(q, [Idle EXCEPT !.op = "enroll", !.ok = (pw = user.hash)])
          /\ UNCHANGED <<now, account, throttle, issued>>
    BY <1>5 DEF BeginEnroll
  <2>2. RequestOK([Idle EXCEPT !.op = "enroll", !.ok = (pw = user.hash)])
    BY IdleIsRequest DEF Request, Ops
  <2> QED BY <2>1, <2>2, GuardedBegin
<1>6. ASSUME NEW t \in Tokens, BeginDisable(q, t) PROVE AInv'
  <2>1. PICK pw \in Passwords :
          /\ Guard(t)
          /\ Begin(q, [Idle EXCEPT !.op = "disable", !.ok = (pw = user.hash)])
          /\ UNCHANGED <<now, account, throttle, issued>>
    BY <1>6 DEF BeginDisable
  <2>2. RequestOK([Idle EXCEPT !.op = "disable", !.ok = (pw = user.hash)])
    BY IdleIsRequest DEF Request, Ops
  <2> QED BY <2>1, <2>2, GuardedBegin
<1>7. ASSUME NEW k \in Keys, NEW t \in Tokens, BeginChange(q, k, t) PROVE AInv'
  <2>1. PICK current \in Passwords, next \in Passwords, code \in ClientCodes :
          /\ Guard(t)
          /\ Begin(q, [Idle EXCEPT !.op = "change.current", !.key = k, !.code = code,
                                   !.ok = (current = user.hash), !.password = next])
          /\ UNCHANGED <<now, account, throttle, issued>>
    BY <1>7 DEF BeginChange
  <2>2. RequestOK([Idle EXCEPT !.op = "change.current", !.key = k, !.code = code,
                               !.ok = (current = user.hash), !.password = next])
    BY <1>1, IdleIsRequest, AuthAssumption DEF Request, Ops
  <2> QED BY <2>1, <2>2, GuardedBegin
<1> QED BY <1>3, <1>4, <1>5, <1>6, <1>7

LEMMA HandlerSteps ==
  ASSUME AInv, NEW q \in Requests, Handler(q)
  PROVE  AInv'
<1> DEFINE r == req[q]
<1>1. /\ r \in Request /\ RequestOK(r) /\ r.key \in Keys /\ r.code \in Codes
      /\ r.password \in Passwords \cup {NoPassword}
      /\ gen \in Nat /\ now \in Nat /\ secrets \in Nat
  BY AuthAssumption DEF AInv, SessionPart, RequestPart, Request, UserPart
<1>2. r.op \notin {"idle", "setup"} => user.hash # NoPassword
  BY DEF AInv, NothingBeforeSetup
<1>3. CASE FinishSetup(q)
  <2>1. sessions = {} /\ gen' \in Nat
    BY <1>1, <1>3 DEF AInv, NothingBeforeSetup, FinishSetup
  <2>2. SessionPart'
    BY <1>1, <1>3, <2>1, IssuedRow DEF AInv, FinishSetup
  <2>3. RequestPart'
    BY <1>3, Finished DEF AInv, FinishSetup
  <2>4. r.password # NoPassword
    BY <1>1, <1>3 DEF FinishSetup, RequestOK, NeedsPassword
  <2>5. user' \in User /\ user'.lastStep = user.lastStep /\ user'.hash = r.password
    BY <1>1, <1>3 DEF AInv, UserPart, User, FinishSetup
  <2>6. UserPart'
    BY <1>1, <1>3, <2>5, UserReplaced DEF AInv, FinishSetup
  <2> QED BY <1>3, <2>2, <2>3, <2>4, <2>5, <2>6
          DEF AInv, FinishSetup, throttle, ThrottlePart, NothingBeforeSetup
<1>4. ASSUME Finish(q), UNCHANGED <<now, account, sessions, throttle, issued>>
      PROVE  AInv'
  <2>1. RequestPart' /\ \A p \in Requests : req'[p].op \in {"idle", "setup"}
                                            \/ req'[p].op = req[p].op
    BY <1>4, Finished DEF AInv
  <2> QED BY <1>4, <2>1 DEF AInv, account, throttle, SessionPart, RowOK, Tokens,
                   ThrottlePart, UserPart, TotpSingleUse, NothingBeforeSetup
<1>5. CASE SetupConflict(q) \/ StepUpFails(q)
  BY <1>4, <1>5 DEF SetupConflict, StepUpFails
<1>6. CASE LoginFails(q)
  <2>1. UserPart' /\ user'.hash # NoPassword
    BY <1>1, <1>2, <1>6, Consumed DEF AInv, LoginFails
  <2>2. ThrottlePart' /\ RequestPart'
    BY <1>1, <1>6, FailureRecorded, Finished DEF AInv, LoginFails
  <2> QED BY <1>6, <2>1, <2>2
          DEF AInv, LoginFails, SessionPart, RowOK, Tokens, NothingBeforeSetup
<1>7. CASE LoginRenews(q)
  <2>1. UserPart' /\ user'.hash # NoPassword
    BY <1>1, <1>2, <1>7, Consumed DEF AInv, LoginRenews
  <2>2. ThrottlePart' /\ RequestPart'
    BY <1>1, <1>7, ThrottleReset, Finished DEF AInv, LoginRenews
  <2>3. SessionPart'
    BY <1>7, RenewedRows DEF AInv, LoginRenews, Guard
  <2> QED BY <2>1, <2>2, <2>3 DEF AInv, NothingBeforeSetup
<1>8. CASE LoginIssues(q)
  <2>1. UserPart' /\ user'.hash # NoPassword
    BY <1>1, <1>2, <1>8, Consumed DEF AInv, LoginIssues
  <2>2. ThrottlePart' /\ RequestPart'
    BY <1>1, <1>8, ThrottleReset, Finished DEF AInv, LoginIssues
  <2>3. DropIfExpired(sessions, r.cookie) \in SUBSET sessions
    BY DEF DropIfExpired
  <2>4. SessionPart'
    BY <1>1, <1>8, <2>3, IssuedRow DEF AInv, LoginIssues
  <2> QED BY <2>1, <2>2, <2>4 DEF AInv, NothingBeforeSetup
<1>9. CASE FinishEnroll(q) \/ FinishDisable(q)
  <2>1. /\ user' \in User /\ user'.lastStep = user.lastStep /\ user'.hash = user.hash
        /\ secrets' \in Nat /\ uses' = uses
    <3>1. CASE FinishEnroll(q)
      <4>1. secrets + 1 \in Nat /\ user \in User
        BY <1>1 DEF AInv, UserPart
      <4> QED BY <3>1, <4>1 DEF User, FinishEnroll
    <3>2. CASE FinishDisable(q)
      BY <1>1, <3>2 DEF AInv, UserPart, User, FinishDisable, NoSecret
    <3> QED BY <1>9, <3>1, <3>2
  <2>2. UserPart'
    BY <2>1, UserReplaced DEF AInv
  <2>3. RequestPart'
    BY <1>9, Finished DEF AInv, FinishEnroll, FinishDisable
  <2>4. user'.hash # NoPassword
    BY <1>2, <1>9, <2>1 DEF FinishEnroll, FinishDisable
  <2> QED BY <1>9, <2>2, <2>3, <2>4
          DEF AInv, FinishEnroll, FinishDisable, SessionPart, RowOK, Tokens,
              throttle, ThrottlePart, NothingBeforeSetup
<1>10. CASE ChangeRefused(q)
  <2>1. UserPart' /\ user'.hash = user.hash
    <3>1. CASE r.ok
      BY <1>1, <1>10, <3>1, Consumed DEF AInv, ChangeRefused
    <3>2. CASE ~r.ok
      BY <1>10, <3>2 DEF AInv, ChangeRefused, UserPart, TotpSingleUse
    <3> QED BY <3>1, <3>2
  <2>2. ThrottlePart' /\ RequestPart'
    BY <1>1, <1>10, FailureRecorded, Finished DEF AInv, ChangeRefused
  <2>3. user'.hash # NoPassword
    BY <1>2, <1>10, <2>1 DEF ChangeRefused
  <2> QED BY <1>10, <2>1, <2>2, <2>3
          DEF AInv, ChangeRefused, SessionPart, RowOK, Tokens, NothingBeforeSetup
<1>11. CASE ChangeProved(q)
  <2>1. UserPart' /\ user'.hash # NoPassword
    BY <1>1, <1>2, <1>11, Consumed DEF AInv, ChangeProved
  <2>2. RequestOK([r EXCEPT !.op = "change.next", !.code = NoCode,
                            !.ok = (r.password = user.hash)])
    <3>1. r.password # NoPassword
      BY <1>1, <1>11 DEF ChangeProved, RequestOK, NeedsPassword
    <3>2. NoCode \in Codes
      BY IdleIsRequest, AuthAssumption DEF NoCode, Codes, NoSecret, Steps
    <3> QED BY <1>1, <3>1, <3>2 DEF RequestOK, Request, Ops
  <2>3. PICK s : RequestOK(s) /\ req' = [req EXCEPT ![q] = s]
    <3>1. CASE r.password \in StrongPasswords
      BY <1>11, <2>2, <3>1 DEF ChangeProved
    <3>2. CASE r.password \notin StrongPasswords
      BY <1>11, <3>2, IdleIsRequest DEF ChangeProved
    <3> QED BY <3>1, <3>2
  <2>4. RequestPart'
    BY <2>3, SetRequest DEF AInv
  <2> QED BY <1>11, <2>1, <2>4
          DEF AInv, ChangeProved, SessionPart, RowOK, Tokens, throttle, ThrottlePart,
              NothingBeforeSetup
<1>12. CASE HashNext(q)
  <2>1. RequestOK([r EXCEPT !.op = "change.hash"])
    <3>1. r.password # NoPassword
      BY <1>1, <1>12 DEF HashNext, RequestOK, NeedsPassword
    <3> QED BY <1>1, <3>1 DEF RequestOK, Request, Ops
  <2>2. PICK s : RequestOK(s) /\ req' = [req EXCEPT ![q] = s]
    <3>1. CASE r.ok
      BY <1>12, <3>1, IdleIsRequest DEF HashNext
    <3>2. CASE ~r.ok
      BY <1>12, <2>1, <3>2 DEF HashNext
    <3> QED BY <3>1, <3>2
  <2>3. RequestPart' /\ user.hash # NoPassword
    BY <1>2, <1>12, <2>2, SetRequest DEF AInv, HashNext
  <2> QED BY <1>12, <2>3
          DEF AInv, HashNext, account, SessionPart, RowOK, Tokens, throttle,
              ThrottlePart, UserPart, TotpSingleUse, NothingBeforeSetup
<1>13. CASE FinishChange(q)
  <2>1. gen' \in Nat
    BY <1>1, <1>13 DEF FinishChange
  <2>2. SessionPart'
    BY <1>1, <1>13, <2>1, IssuedRow DEF AInv, FinishChange
  <2>3. ThrottlePart' /\ RequestPart'
    BY <1>1, <1>13, ThrottleReset, Finished DEF AInv, FinishChange
  <2>4. r.password # NoPassword
    BY <1>1, <1>13 DEF FinishChange, RequestOK, NeedsPassword
  <2>5. user' \in User /\ user'.lastStep = user.lastStep /\ user'.hash = r.password
    BY <1>1, <1>13 DEF AInv, UserPart, User, FinishChange
  <2>6. UserPart'
    BY <1>1, <1>13, <2>5, UserReplaced DEF AInv, FinishChange
  <2> QED BY <2>2, <2>3, <2>4, <2>5, <2>6 DEF AInv, NothingBeforeSetup
<1> QED BY <1>3, <1>5, <1>6, <1>7, <1>8, <1>9, <1>10, <1>11, <1>12, <1>13 DEF Handler

LEMMA OtherSteps ==
  ASSUME AInv, Tick \/ Restart \/ \E k \in Keys : LoginWithoutAccount(k)
  PROVE  AInv'
<1>1. now \in 0..MaxTime /\ now \in Nat /\ MaxTime \in Nat
  BY AuthAssumption DEF AInv, SessionPart
<1>2. CASE Tick
  <2>1. SessionPart'
    BY <1>1, <1>2, FewerRows DEF AInv, Tick, account
  <2> QED BY <1>2, <2>1 DEF AInv, Tick, account, throttle, RequestPart, ThrottlePart,
                            UserPart, TotpSingleUse, NothingBeforeSetup
<1>3. CASE Restart
  <2>1. SessionPart'
    BY <1>1, <1>3, FewerRows DEF AInv, Restart, account, PurgeExpired
  <2>2. RequestPart' /\ \A q \in Requests : req'[q].op = "idle"
    BY <1>3, IdleIsRequest DEF Restart, RequestPart
  <2>3. ThrottlePart'
    BY <1>3 DEF Restart, ThrottlePart, NoAttempt, Attempt
  <2> QED BY <1>3, <2>1, <2>2, <2>3 DEF AInv, Restart, account, PurgeExpired, UserPart,
                                        TotpSingleUse, NothingBeforeSetup
<1>4. ASSUME NEW k \in Keys, LoginWithoutAccount(k) PROVE AInv'
  <2>1. ThrottlePart'
    BY <1>4, FailureRecorded DEF AInv, LoginWithoutAccount
  <2> QED BY <1>4, <2>1 DEF AInv, LoginWithoutAccount, account, SessionPart, RowOK,
                   Tokens, RequestPart, UserPart, TotpSingleUse, NothingBeforeSetup
<1> QED BY <1>2, <1>3, <1>4

LEMMA StepInv == AInv /\ [Next]_vars => AInv'
<1> SUFFICES ASSUME AInv, [Next]_vars PROVE AInv'
  OBVIOUS
<1>1. CASE UNCHANGED vars
  BY <1>1 DEF vars, AInv, SessionPart, RowOK, Tokens, RequestPart, ThrottlePart,
              UserPart, TotpSingleUse, NothingBeforeSetup
<1>2. CASE Next
  BY <1>2, TableSteps, BeginSteps, HandlerSteps, OtherSteps DEF Next
<1> QED BY <1>1, <1>2

THEOREM InductiveInvariant == Spec => []AInv
  BY InitInv, StepInv, PTL DEF Spec

-----------------------------------------------------------------------------
(* The theorems.                                                           *)

\* Every variable keeps its type.
THEOREM TypeCorrect == Spec => []TypeOK
<1>1. AInv => TypeOK
  BY DEF AInv, SessionPart, RowOK, RequestPart, ThrottlePart, UserPart, User, TypeOK
<1> QED BY <1>1, InductiveInvariant, PTL

\* No session passes its ceiling or its idle limit, whatever the lifetimes.
THEOREM ExpiryBounded == Spec => []SlidingExpiryBound
<1>1. AInv => SlidingExpiryBound
  BY DEF AInv, SessionPart, RowOK, SlidingExpiryBound
<1> QED BY <1>1, InductiveInvariant, PTL

\* A password change leaves no row older than itself, with any number of
\* requests in flight.
THEOREM RotationDropsOldRows == Spec => []NoPreChangeToken
<1>1. AInv => NoPreChangeToken
  BY DEF AInv, SessionPart, RowOK, NoPreChangeToken
<1> QED BY <1>1, InductiveInvariant, PTL

\* No TOTP step is accepted twice, over any number of enrolments.
THEOREM CodesAreSingleUse == Spec => []TotpSingleUse
<1>1. AInv => TotpSingleUse
  BY DEF AInv, UserPart
<1> QED BY <1>1, InductiveInvariant, PTL

-----------------------------------------------------------------------------
(* What a turn of the backend does to the table is one of six things.      *)

TableKept == UNCHANGED <<now, issued, gen>>

\* Rows that are over may go.
RowsPurged == /\ TableKept
              /\ sessions' \subseteq sessions
              /\ \A r \in sessions : r \notin sessions' => r.expires <= now

TimePassed == now' = now + 1 /\ UNCHANGED <<sessions, issued, gen>>

RowRevoked == TableKept /\ \E t \in Tokens : sessions' = Destroy(sessions, t)

RowSlid == TableKept /\ \E t \in Tokens : Guard(t)

RowAdded == /\ UNCHANGED <<now, gen>>
            /\ \E table \in SUBSET sessions :
                 /\ \A r \in sessions : r \notin table => r.expires <= now
                 /\ Issue(table, gen)

RowReplaces == now' = now /\ gen' = gen + 1 /\ Issue({}, gen')

LEMMA TableEffects ==
  ASSUME AInv, [Next]_vars
  PROVE  RowsPurged \/ TimePassed \/ RowRevoked \/ RowSlid \/ RowAdded \/ RowReplaces
<1>1. /\ now \in Nat /\ gen \in Nat
      /\ \A r \in sessions : r.token \in Tokens /\ r.expires \in Nat
  BY AuthAssumption DEF AInv, SessionPart, RowOK, Row
<1>2. UNCHANGED <<now, issued, gen, sessions>> => RowsPurged
  BY DEF RowsPurged, TableKept
<1>3. CASE UNCHANGED vars \/ Tick \/ Restart \/ \E k \in Keys : LoginWithoutAccount(k)
  <2>1. CASE Restart
    BY <1>1, <2>1 DEF Restart, PurgeExpired, account, RowsPurged, TableKept
  <2> QED BY <1>2, <1>3, <2>1 DEF vars, Tick, LoginWithoutAccount, account, TimePassed
<1>4. ASSUME NEW q \in Requests,
             BeginSetup(q) \/ \E k \in Keys : BeginLogin(q, k)
      PROVE  RowsPurged
  <2>1. BeginSetup(q) => UNCHANGED <<now, issued, gen, sessions>>
    BY DEF BeginSetup, account
  <2>2. ASSUME NEW k \in Keys, BeginLogin(q, k) PROVE UNCHANGED <<now, issued, gen, sessions>>
    BY <2>2 DEF BeginLogin, account
  <2> QED BY <1>2, <1>4, <2>1, <2>2
<1>5. ASSUME NEW q \in Requests, NEW t \in Tokens,
             BeginEnroll(q, t) \/ BeginDisable(q, t) \/ \E k \in Keys : BeginChange(q, k, t)
      PROVE  RowSlid
  BY <1>5 DEF BeginEnroll, BeginDisable, BeginChange, account, RowSlid, TableKept
<1>6. ASSUME NEW t \in Tokens, Logout(t) PROVE RowRevoked
  BY <1>6 DEF Logout, account, RowRevoked, TableKept
<1>7. ASSUME NEW t \in Tokens, ValidateOnly(t) PROVE RowsPurged
  BY <1>1, <1>7 DEF ValidateOnly, DropIfExpired, account, RowsPurged, TableKept
<1>8. ASSUME NEW t \in Tokens, Browse(t) \/ \E code \in ClientCodes : ConfirmTotp(t, code)
      PROVE  RowSlid
  BY <1>8 DEF Browse, ConfirmTotp, account, RowSlid, TableKept
<1>9. ASSUME NEW q \in Requests, Handler(q)
      PROVE  RowsPurged \/ RowSlid \/ RowAdded \/ RowReplaces
  <2>1. CASE FinishSetup(q)
    <3>1. sessions = {}
      BY <2>1 DEF FinishSetup, AInv, NothingBeforeSetup
    <3> QED BY <2>1, <3>1 DEF FinishSetup, RowReplaces
  <2>2. CASE FinishChange(q)
    BY <2>2 DEF FinishChange, RowReplaces
  <2>3. CASE LoginIssues(q)
    <3> DEFINE table == DropIfExpired(sessions, req[q].cookie)
    <3>1. table \in SUBSET sessions /\ \A r \in sessions : r \notin table => r.expires <= now
      BY <1>1 DEF DropIfExpired
    <3> HIDE DEF table
    <3>2. UNCHANGED <<now, gen>> /\ Issue(table, gen)
      BY <2>3 DEF LoginIssues, table
    <3> QED BY <3>1, <3>2 DEF RowAdded
  <2>4. CASE LoginRenews(q)
    <3>1. req[q].cookie \in Tokens
      BY <1>1, <2>4 DEF LoginRenews, Guard, IsValid
    <3> QED BY <2>4, <3>1 DEF LoginRenews, RowSlid, TableKept
  <2>5. CASE \/ SetupConflict(q) \/ LoginFails(q) \/ FinishEnroll(q) \/ FinishDisable(q)
             \/ StepUpFails(q) \/ ChangeRefused(q) \/ ChangeProved(q) \/ HashNext(q)
    <3>1. UNCHANGED <<now, issued, gen, sessions>>
      BY <2>5 DEF SetupConflict, LoginFails, FinishEnroll, FinishDisable, StepUpFails,
                  ChangeRefused, ChangeProved, HashNext, account
    <3> QED BY <1>2, <3>1
  <2> QED BY <1>9, <2>1, <2>2, <2>3, <2>4, <2>5 DEF Handler
<1> QED BY <1>3, <1>4, <1>5, <1>6, <1>7, <1>8, <1>9 DEF Next

\* What becomes of a row when the session of token t is slid.
Slid(x, t) ==
  IF x.token # t THEN x
  ELSE IF NextExpiry(x) - x.expires < RenewGain THEN [x EXCEPT !.lastHttp = now]
  ELSE [x EXCEPT !.expires = NextExpiry(x), !.lastHttp = now]

\* A row of the table after a step is one of before, one that was slid, or new.
LEMMA RowsFrom ==
  ASSUME AInv, [Next]_vars, NEW r \in sessions'
  PROVE  \/ r \in sessions
         \/ TableKept /\ \E t \in Tokens, x \in sessions : IsValid(t) /\ r = Slid(x, t)
         \/ /\ r = [token |-> issued + 1, created |-> now, expires |-> now + TTL,
                    lastHttp |-> now, issuedGen |-> gen']
            /\ issued' = issued + 1
<1>1. CASE RowsPurged \/ TimePassed \/ RowRevoked
  BY <1>1 DEF RowsPurged, TimePassed, RowRevoked, Destroy
<1>2. CASE RowSlid
  <2>1. PICK t \in Tokens : IsValid(t) /\ sessions' = {Slid(x, t) : x \in sessions}
    BY <1>2 DEF RowSlid, Guard, RenewIfDue, Slid
  <2> QED BY <1>2, <2>1 DEF RowSlid
<1>3. CASE RowAdded \/ RowReplaces
  BY <1>3 DEF RowAdded, RowReplaces, Issue, PurgeExpired
<1> QED BY <1>1, <1>2, <1>3, TableEffects

LEMMA NowMoves ==
  ASSUME AInv, [Next]_vars
  PROVE  now \in Nat /\ now' \in Nat /\ now <= now'
<1>1. now \in Nat
  BY AuthAssumption DEF AInv, SessionPart
<1> QED BY <1>1, TableEffects DEF RowsPurged, TimePassed, RowRevoked, RowSlid, RowAdded,
           RowReplaces, TableKept

\* A token once issued and no longer valid is never valid again, in any
\* interleaving of requests, sweeps, logins and rotations.
THEOREM RevocationIsFinal == Spec => RevokedStaysRevoked
<1>1. ASSUME AInv, [Next]_vars, NEW t \in Tokens, IsValid(t)' PROVE IsValid(t)
  <2>1. PICK r \in sessions' : r.token = t /\ r.expires > now'
    BY <1>1 DEF IsValid
  <2>2. /\ now \in Nat /\ issued \in Nat /\ t \in Nat /\ t <= issued
        /\ \A x \in sessions : x \in Row
    BY <1>1, AuthAssumption DEF AInv, SessionPart, RowOK, Tokens
  <2>3. CASE r \in sessions
    <3>1. r.expires > now
      BY <1>1, <2>1, <2>2, <2>3, NowMoves DEF Row
    <3> QED BY <2>1, <2>3, <3>1 DEF IsValid
  <2>4. ASSUME NEW u \in Tokens, NEW x \in sessions, IsValid(u), r = Slid(x, u)
        PROVE  IsValid(t) \/ r \in sessions
    BY <2>1, <2>2, <2>4 DEF Slid, Row
  <2>5. r.token # issued + 1
    BY <2>1, <2>2
  <2> QED BY <1>1, <2>3, <2>4, <2>5, RowsFrom
<1>2. AInv /\ [Next]_vars => [\A t \in Tokens : ~IsValid(t) => ~IsValid(t)']_vars
  BY <1>1
<1> QED BY <1>2, InductiveInvariant, PTL DEF Spec, RevokedStaysRevoked

-----------------------------------------------------------------------------
(* The sliding sessions that the table implements.                         *)

\* A renewal was skipped only where it gained less than RenewGain.
Renewed(r) == r.expires > Lesser(r.lastHttp + TTL, r.created + Cap) - RenewGain

\* Each token has one row.
Rows == /\ \A r \in sessions : Renewed(r)
        /\ \A r, s \in sessions : r.token = s.token => r = s

\* Sliding changes the row of that token only, and leaves it renewed.
LEMMA SlidRow ==
  ASSUME AInv, NEW x \in sessions, NEW t
  PROVE  /\ Slid(x, t).token = x.token /\ Slid(x, t).created = x.created
         /\ x.token # t => Slid(x, t) = x
         /\ x.token = t => /\ Slid(x, t).lastHttp = now
                           /\ x.expires > now => Slid(x, t).expires > now
                           /\ Renewed(Slid(x, t))
<1>1. x \in Row /\ now \in Nat /\ x.created \in Nat /\ x.expires \in Nat
  BY AuthAssumption DEF AInv, SessionPart, RowOK, Row
<1> DEFINE y == Slid(x, t)
<1>2. /\ y.token = x.token /\ y.created = x.created
      /\ x.token # t => y = x
  BY <1>1 DEF Slid, Row
<1>3. ASSUME x.token = t
      PROVE  /\ y.lastHttp = now
             /\ y.expires = IF NextExpiry(x) - x.expires < RenewGain THEN x.expires
                                                                     ELSE NextExpiry(x)
  BY <1>1, <1>3 DEF Slid, Row
<1>4. PICK n \in Nat : n = NextExpiry(x) /\ n = Lesser(now + TTL, x.created + Cap)
  BY <1>1, CapIsNat DEF NextExpiry, Lesser
<1>5. RenewGain \in Nat \ {0}
  BY AuthAssumption
<1> HIDE DEF y
<1>6. ASSUME x.token = t PROVE (x.expires > now => y.expires > now) /\ Renewed(y)
  BY <1>1, <1>2, <1>3, <1>4, <1>5, <1>6 DEF Renewed
<1> QED BY <1>2, <1>3, <1>6 DEF y

LEMMA RowsStep ==
  ASSUME AInv, Rows, [Next]_vars
  PROVE  Rows'
<1>1. /\ now \in Nat /\ issued \in Nat /\ RenewGain \in Nat \ {0}
      /\ \A r \in sessions : r \in Row /\ r.token \in Nat /\ r.token <= issued
  BY AuthAssumption DEF AInv, SessionPart, RowOK, Tokens
<1>2. \A r : Renewed(r)' <=> Renewed(r)
  BY DEF Renewed
<1>3. CASE sessions' \subseteq sessions
  BY <1>2, <1>3 DEF Rows
<1>4. CASE RowSlid
  <2>1. PICK t \in Tokens : sessions' = {Slid(x, t) : x \in sessions}
    BY <1>4 DEF RowSlid, Guard, RenewIfDue, Slid
  <2>2. \A x \in sessions : Slid(x, t).token = x.token /\ Renewed(Slid(x, t))
    BY SlidRow DEF Rows
  <2>3. \A x, y \in sessions : Slid(x, t).token = Slid(y, t).token => x = y
    BY <2>2 DEF Rows
  <2> QED BY <1>2, <2>1, <2>2, <2>3 DEF Rows
<1>5. CASE RowAdded \/ RowReplaces
  <2>1. PICK table \in SUBSET sessions, g \in {gen, gen'} : Issue(table, g)
    BY <1>5 DEF RowAdded, RowReplaces
  <2>2. PICK new : new = [token |-> issued + 1, created |-> now, expires |-> now + TTL,
                          lastHttp |-> now, issuedGen |-> g]
    OBVIOUS
  <2>3. Renewed(new)
    BY <1>1, <2>2, CapIsNat DEF Renewed, Lesser
  <2>4. \A r \in sessions : r.token # new.token
    BY <1>1, <2>2
  <2>5. \A r \in sessions' : r \in sessions \/ r = new
    BY <2>1, <2>2 DEF Issue, PurgeExpired
  <2> QED BY <1>2, <2>3, <2>4, <2>5 DEF Rows
<1> QED BY <1>3, <1>4, <1>5, TableEffects
        DEF RowsPurged, TimePassed, RowRevoked, Destroy

\* What SlidingSessions sees of a row.
Seen(r) == [token |-> r.token, born |-> r.created, used |-> r.lastHttp]

LEMMA LiveIs ==
  /\ \A s : s \in Live <=> \E r \in sessions : r.expires > now /\ s = Seen(r)
  /\ \A s : s \in Live' <=> \E r \in sessions' : r.expires > now' /\ s = Seen(r)
BY DEF Live, Seen

LEMMA PurgeIsUnseen ==
  ASSUME AInv, RowsPurged
  PROVE  Live' = Live
<1>1. now \in Nat /\ now' = now /\ \A r \in sessions : r.expires \in Nat
  BY AuthAssumption DEF AInv, SessionPart, RowOK, Row, RowsPurged, TableKept
<1>2. \A r : (r \in sessions /\ r.expires > now) <=> (r \in sessions' /\ r.expires > now')
  BY <1>1 DEF RowsPurged
<1>3. \A s : s \in Live' <=> s \in Live
  BY <1>2, LiveIs
<1> QED BY <1>3

LEMMA TimeIsPass ==
  ASSUME AInv, Rows, TimePassed
  PROVE  Sliding!Pass
<1>1. /\ now \in Nat /\ now' = now + 1 /\ sessions' = sessions
      /\ \A r \in sessions : RowOK(r) /\ r \in Row /\ Renewed(r)
  BY AuthAssumption DEF AInv, SessionPart, RowOK, Rows, TimePassed
<1>2. ASSUME NEW r \in sessions
      PROVE  /\ Seen(r).token = r.token
             /\ Sliding!Deadline(Seen(r)) = Lesser(r.lastHttp + TTL, r.created + Cap)
  BY DEF Sliding!Deadline, Seen, Lesser
<1>3. ASSUME NEW r \in sessions, NEW d, d = Lesser(r.lastHttp + TTL, r.created + Cap)
      PROVE  d \in Nat /\ r.expires \in Nat /\ r.expires <= d /\ r.expires > d - RenewGain
  BY <1>1, <1>3, CapIsNat, AuthAssumption DEF RowOK, Row, Lesser, Renewed
<1>4. Live' \subseteq Live
  BY <1>1, <1>3, LiveIs
<1>5. ASSUME NEW s \in Live'
      PROVE  now' < Sliding!Deadline(s)
  <2>1. PICK r \in sessions : r.expires > now' /\ s = Seen(r)
    BY <1>1, LiveIs
  <2> QED BY <1>1, <1>2, <1>3, <2>1
<1>6. ASSUME NEW s \in Live, s \notin Live'
      PROVE  now' > Sliding!Deadline(s) - RenewGain
  <2>1. PICK r \in sessions : s = Seen(r)
    BY LiveIs
  <2>2. ~(r.expires > now')
    BY <1>1, <1>6, <2>1, LiveIs
  <2> QED BY <1>1, <1>2, <1>3, <2>1, <2>2, AuthAssumption
<1> QED BY <1>1, <1>4, <1>5, <1>6 DEF TimePassed, Sliding!Pass

LEMMA RevokeIsLogout ==
  ASSUME AInv, RowRevoked
  PROVE  Sliding!Next
<1>1. PICK t \in 1..issued : sessions' = Destroy(sessions, t)
  BY DEF RowRevoked, Tokens
<1>2. now' = now /\ UNCHANGED <<now, issued, gen>>
  BY DEF RowRevoked, TableKept
<1>3. \A s : s \in Live' <=> s \in Live /\ s.token # t
  BY <1>1, <1>2, LiveIs DEF Destroy, Seen
<1>4. Live' = {s \in Live : s.token # t}
  BY <1>3
<1> QED BY <1>1, <1>2, <1>4 DEF Sliding!Next, Sliding!Logout

LEMMA SlideIsUse ==
  ASSUME AInv, Rows, RowSlid
  PROVE  Sliding!Next
<1>1. PICK t \in 1..issued : IsValid(t) /\ sessions' = {Slid(x, t) : x \in sessions}
  BY DEF RowSlid, Guard, RenewIfDue, Slid, Tokens
<1>2. /\ now' = now /\ UNCHANGED <<now, issued, gen>> /\ now \in Nat
      /\ \A r \in sessions : r.expires \in Nat
  BY AuthAssumption DEF RowSlid, TableKept, AInv, SessionPart, RowOK, Row
<1>3. PICK v \in sessions : v.token = t /\ v.expires > now
  BY <1>1 DEF IsValid
<1> DEFINE Touched(s) == IF s.token = t THEN [s EXCEPT !.used = now] ELSE s
<1>4. ASSUME NEW x \in sessions
      PROVE  /\ Slid(x, t).expires > now <=> x.expires > now
             /\ Seen(Slid(x, t)) = Touched(Seen(x))
  <2>1. CASE x.token # t
    BY <2>1, SlidRow DEF Seen
  <2>2. CASE x.token = t
    <3>1. x = v
      BY <1>3, <2>2 DEF Rows
    <3> QED BY <1>3, <2>2, <3>1, SlidRow DEF Seen
  <2> QED BY <2>1, <2>2
<1> HIDE DEF Touched
<1>5. ASSUME NEW s PROVE s \in Live' <=> s \in {Touched(z) : z \in Live}
  <2>1. s \in Live' <=> \E x \in sessions : Slid(x, t).expires > now /\ s = Seen(Slid(x, t))
    BY <1>1, <1>2, LiveIs
  <2>2. s \in Live' <=> \E x \in sessions : x.expires > now /\ s = Touched(Seen(x))
    BY <1>4, <2>1
  <2> QED BY <2>2, LiveIs
<1>6. Live' = {Touched(s) : s \in Live}
  BY <1>5
<1>7. \E s \in Live : s.token = t
  <2>1. Seen(v) \in Live
    BY <1>3 DEF Live, Seen
  <2>2. Seen(v).token = t
    BY <1>3 DEF Seen
  <2> QED BY <2>1, <2>2
<1>8. Live' = {IF s.token = t THEN [s EXCEPT !.used = now] ELSE s : s \in Live}
  BY <1>6 DEF Touched
<1>9. Sliding!Use(t)
  BY <1>2, <1>7, <1>8 DEF Sliding!Use
<1> QED BY <1>9 DEF Sliding!Next

LEMMA IssueIsBegin ==
  ASSUME AInv, RowAdded \/ RowReplaces
  PROVE  Sliding!Next
<1>1. now \in Nat /\ now' = now /\ \A r \in sessions : r.expires \in Nat
  BY AuthAssumption DEF AInv, SessionPart, RowOK, Row, RowAdded, RowReplaces
<1>2. ASSUME NEW table \in SUBSET sessions, NEW g, Issue(table, g)
      PROVE  \A s : s \in Live' <=> \/ s = Sliding!Fresh
                                     \/ \E r \in table : r.expires > now /\ s = Seen(r)
  <2>1. PICK new : new = [token |-> issued + 1, created |-> now, expires |-> now + TTL,
                          lastHttp |-> now, issuedGen |-> g]
    OBVIOUS
  <2>2. sessions' = PurgeExpired(table) \cup {new}
    BY <1>2, <2>1 DEF Issue
  <2>3. new.expires > now /\ Seen(new) = Sliding!Fresh
    BY <1>1, <2>1, AuthAssumption DEF Seen, Sliding!Fresh
  <2> QED BY <1>1, <2>2, <2>3, LiveIs DEF PurgeExpired
<1>3. CASE RowAdded
  <2>1. PICK table \in SUBSET sessions : /\ \A r \in sessions : r \notin table => r.expires <= now
                                         /\ Issue(table, gen)
    BY <1>3 DEF RowAdded
  <2>2. \A r : (r \in table /\ r.expires > now) <=> (r \in sessions /\ r.expires > now)
    BY <1>1, <2>1
  <2>3. \A s : s \in Live' <=> s = Sliding!Fresh \/ s \in Live
    BY <1>2, <2>1, <2>2, LiveIs
  <2>4. Live' = Live \cup {Sliding!Fresh}
    BY <2>3
  <2> QED BY <1>3, <2>1, <2>4 DEF RowAdded, Issue, Sliding!Next, Sliding!SignIn
<1>4. CASE RowReplaces
  <2>1. Issue({}, gen') /\ now' = now /\ gen' = gen + 1
    BY <1>4 DEF RowReplaces
  <2>2. Live' = {Sliding!Fresh}
    BY <1>2, <2>1
  <2> QED BY <2>1, <2>2 DEF Issue, Sliding!Next, Sliding!NewPassword
<1> QED BY <1>3, <1>4

LEMMA SlidingStep ==
  ASSUME AInv, Rows, [Next]_vars
  PROVE  [Sliding!Next]_(Sliding!vars)
<1>1. CASE RowsPurged
  <2>1. Live' = Live /\ UNCHANGED <<now, issued, gen>>
    BY <1>1, PurgeIsUnseen DEF RowsPurged, TableKept
  <2> QED BY <2>1 DEF Sliding!vars
<1>2. CASE TimePassed
  BY <1>2, TimeIsPass DEF Sliding!Next
<1> QED BY <1>1, <1>2, RevokeIsLogout, SlideIsUse, IssueIsBegin, TableEffects

\* A session lasts while it is used, up to its ceiling, and nothing but a logout,
\* a new password and its time ends it (SessionService and the handlers of
\* AuthController): the table implements SlidingSessions, for every lifetime,
\* ceiling and renewal threshold and any number of requests in flight.
THEOREM TableImplementsSliding == Spec => ImplementsSlidingSessions
<1>1. Init => Rows
  BY DEF Init, Rows
<1>2. Init => Sliding!Init
  <2>1. Init => Live = {}
    BY DEF Init, Live
  <2> QED BY <2>1 DEF Init, Sliding!Init
<1>3. AInv /\ Rows /\ [Next]_vars => Rows'
  BY RowsStep
<1>4. AInv /\ Rows /\ [Next]_vars => [Sliding!Next]_(Sliding!vars)
  BY SlidingStep
<1> QED BY <1>1, <1>2, <1>3, <1>4, InductiveInvariant,
          PTL DEF Spec, ImplementsSlidingSessions, Sliding!Spec

-----------------------------------------------------------------------------
(* The lockouts.                                                           *)

\* No entry is locked before it failed too often, nor longer than its count of
\* failures says.
EarnedBy(entry, threshold, time) ==
  /\ entry.count <= threshold => entry.lockedUntil = 0
  /\ entry.count > threshold =>
       entry.lockedUntil <= time + Backoff(entry.count - threshold - 1)

Earned ==
  /\ \A k \in Keys : EarnedBy(attempts[k], FailThreshold, now)
  /\ EarnedBy(global, GlobalFailThreshold, now)

\* One turn of the backend, seen by the throttle.
Throttled ==
  \/ UNCHANGED throttle /\ now <= now'
  \/ now' = now /\ \E k \in Keys : RecordFailure(k) \/ Reset(k)
  \/ /\ now' = now
     /\ attempts' = [k \in Keys |-> NoAttempt]
     /\ global' = NoAttempt

LEMMA ThrottleEffects ==
  ASSUME AInv, [Next]_vars
  PROVE  Throttled
<1>1. now \in Nat /\ \A q \in Requests : req[q].key \in Keys
  BY AuthAssumption DEF AInv, SessionPart, RequestPart, Request
<1>2. CASE UNCHANGED vars \/ Tick \/ Restart \/ \E k \in Keys : LoginWithoutAccount(k)
  BY <1>1, <1>2 DEF vars, throttle, Tick, Restart, LoginWithoutAccount, Throttled
<1>3. ASSUME NEW q \in Requests, BeginSetup(q) \/ \E k \in Keys : BeginLogin(q, k)
      PROVE  Throttled
  <2>1. BeginSetup(q) => now' = now /\ UNCHANGED throttle
    BY DEF BeginSetup, throttle
  <2>2. ASSUME NEW k \in Keys, BeginLogin(q, k) PROVE now' = now /\ UNCHANGED throttle
    BY <2>2 DEF BeginLogin, throttle
  <2> QED BY <1>1, <1>3, <2>1, <2>2 DEF Throttled
<1>4. ASSUME NEW q \in Requests, NEW t \in Tokens,
             BeginEnroll(q, t) \/ BeginDisable(q, t) \/ \E k \in Keys : BeginChange(q, k, t)
      PROVE  Throttled
  <2>1. BeginEnroll(q, t) \/ BeginDisable(q, t) => now' = now /\ UNCHANGED throttle
    BY DEF BeginEnroll, BeginDisable, throttle
  <2>2. ASSUME NEW k \in Keys, BeginChange(q, k, t) PROVE now' = now /\ UNCHANGED throttle
    BY <2>2 DEF BeginChange, throttle
  <2> QED BY <1>1, <1>4, <2>1, <2>2 DEF Throttled
<1>5. ASSUME NEW t \in Tokens,
             \/ Logout(t) \/ ValidateOnly(t) \/ Browse(t)
             \/ \E code \in ClientCodes : ConfirmTotp(t, code)
      PROVE  Throttled
  BY <1>1, <1>5 DEF Logout, ValidateOnly, Browse, ConfirmTotp, throttle, Throttled
<1>6. ASSUME NEW q \in Requests, Handler(q) PROVE Throttled
  <2>1. CASE \/ FinishSetup(q) \/ SetupConflict(q) \/ FinishEnroll(q) \/ FinishDisable(q)
             \/ StepUpFails(q) \/ ChangeProved(q) \/ HashNext(q)
    BY <1>1, <2>1 DEF FinishSetup, SetupConflict, FinishEnroll, FinishDisable, StepUpFails,
       ChangeProved, HashNext, throttle, Throttled
  <2>2. CASE LoginFails(q) \/ ChangeRefused(q)
    BY <1>1, <2>2 DEF LoginFails, ChangeRefused, Throttled
  <2>3. CASE LoginRenews(q) \/ LoginIssues(q) \/ FinishChange(q)
    BY <1>1, <2>3 DEF LoginRenews, LoginIssues, FinishChange, Throttled
  <2> QED BY <1>6, <2>1, <2>2, <2>3 DEF Handler
<1> QED BY <1>2, <1>3, <1>4, <1>5, <1>6 DEF Next

\* One more failure of an entry keeps what it earned, and lengthens its lock.
LEMMA FailureLengthens ==
  ASSUME NEW e \in Attempt, NEW threshold \in Nat, now \in Nat, EarnedBy(e, threshold, now)
  PROVE  /\ EarnedBy(BumpLock(e, threshold, now), threshold, now)
         /\ NotShortened(e, BumpLock(e, threshold, now))
<1>1. PICK n \in Nat, l \in Int : n = e.count /\ l = e.lockedUntil
  BY DEF Attempt
<1> DEFINE f == BumpLock(e, threshold, now)
<1>2. /\ f.count = n + 1
      /\ f.lockedUntil = IF n + 1 > threshold THEN now + Backoff(n + 1 - threshold - 1) ELSE l
  BY <1>1 DEF BumpLock
<1> HIDE DEF f
<1>3. /\ n <= threshold => l = 0
      /\ n > threshold => l <= now + Backoff(n - threshold - 1)
  BY <1>1 DEF EarnedBy
<1>4. CASE n <= threshold
  <2>1. ~IsLocked(e, now)
    BY <1>1, <1>3, <1>4 DEF IsLocked
  <2>2. n + 1 > threshold => n + 1 - threshold - 1 \in Nat
    OBVIOUS
  <2>3. n + 1 > threshold => Backoff(n + 1 - threshold - 1) \in Nat
    BY <2>2, BackoffGrows
  <2>4. EarnedBy(f, threshold, now)
    BY <1>2, <1>3, <1>4, <2>3 DEF EarnedBy
  <2> QED BY <2>1, <2>4 DEF NotShortened, f
<1>5. CASE n > threshold
  <2> DEFINE m == n - threshold - 1
  <2>1. m \in Nat /\ m + 1 = n + 1 - threshold - 1 /\ m + 1 = (n + 1) - threshold - 1
    BY <1>5
  <2>2. Backoff(m) \in Nat /\ Backoff(m + 1) \in Nat /\ Backoff(m) <= Backoff(m + 1)
    BY <2>1, BackoffGrows
  <2>3. /\ l <= now + Backoff(m)
        /\ f.lockedUntil = now + Backoff(m + 1)
        /\ f.count - threshold - 1 = m + 1 /\ f.count > threshold
    BY <1>2, <1>3, <1>5, <2>1
  <2> HIDE DEF m
  <2>4. f.lockedUntil >= l
    BY <2>2, <2>3
  <2>5. EarnedBy(f, threshold, now)
    BY <1>2, <2>2, <2>3 DEF EarnedBy
  <2> QED BY <1>1, <2>4, <2>5 DEF NotShortened, f
<1> QED BY <1>4, <1>5

\* What an entry earned it has earned later too.
LEMMA EarnedLater ==
  ASSUME NEW e \in Attempt, NEW threshold \in Nat, NEW t \in Nat, NEW u \in Nat, t <= u,
         EarnedBy(e, threshold, t)
  PROVE  EarnedBy(e, threshold, u)
<1>1. PICK n \in Nat, l \in Int : n = e.count /\ l = e.lockedUntil
  BY DEF Attempt
<1>2. SUFFICES ASSUME n > threshold PROVE l <= u + Backoff(n - threshold - 1)
  BY <1>1 DEF EarnedBy
<1>3. n - threshold - 1 \in Nat
  BY <1>2
<1>4. PICK b \in Nat : b = Backoff(n - threshold - 1)
  BY <1>3, BackoffGrows
<1>5. l <= t + b
  BY <1>1, <1>2, <1>4 DEF EarnedBy
<1> QED BY <1>4, <1>5

\* An entry that is kept or reset is not shortened, and has earned its lock.
LEMMA KeptOrReset ==
  ASSUME NEW e \in Attempt, NEW f, f = e \/ f = NoAttempt, NEW threshold \in Nat,
         EarnedBy(e, threshold, now)
  PROVE  EarnedBy(f, threshold, now) /\ NotShortened(e, f)
<1>1. NoAttempt.count = 0 /\ NoAttempt.lockedUntil = 0
  BY DEF NoAttempt
<1>2. e.lockedUntil \in Int
  BY DEF Attempt
<1> QED BY <1>1, <1>2 DEF EarnedBy, NotShortened

LEMMA EarnedStep ==
  ASSUME AInv, Earned, [Next]_vars
  PROVE  /\ Earned'
         /\ \A k \in Keys : NotShortened(attempts[k], attempts'[k])
         /\ NotShortened(global, global')
<1>1. /\ now \in Nat /\ now' \in Nat
      /\ attempts \in [Keys -> Attempt] /\ global \in Attempt
      /\ FailThreshold \in Nat /\ GlobalFailThreshold \in Nat
  BY StepInv, AuthAssumption, ThrottleAssumption DEF AInv, SessionPart, ThrottlePart
<1>2. /\ \A k \in Keys : attempts[k] \in Attempt /\ EarnedBy(attempts[k], FailThreshold, now)
      /\ EarnedBy(global, GlobalFailThreshold, now)
  BY <1>1 DEF Earned
<1>3. CASE UNCHANGED throttle /\ now <= now'
  <2>1. /\ \A k \in Keys : NotShortened(attempts[k], attempts[k])
        /\ NotShortened(global, global)
    BY <1>1, <1>2, KeptOrReset
  <2>2. /\ \A k \in Keys : EarnedBy(attempts[k], FailThreshold, now')
        /\ EarnedBy(global, GlobalFailThreshold, now')
    BY <1>1, <1>2, <1>3, EarnedLater
  <2> QED BY <1>3, <2>1, <2>2 DEF Earned, throttle
<1>4. ASSUME NEW k \in Keys, RecordFailure(k), now' = now
      PROVE  /\ Earned'
             /\ \A o \in Keys : NotShortened(attempts[o], attempts'[o])
             /\ NotShortened(global, global')
  <2>1. /\ \A o \in Keys : attempts'[o] = IF o = k THEN BumpLock(attempts[k], FailThreshold, now)
                                                 ELSE attempts[o]
        /\ global' = BumpLock(global, GlobalFailThreshold, now)
    BY <1>1, <1>4 DEF RecordFailure
  <2>2. \A o \in Keys : /\ EarnedBy(attempts[o], FailThreshold, now)
                        /\ NotShortened(attempts[o], attempts[o])
    BY <1>1, <1>2, KeptOrReset
  <2>3. /\ EarnedBy(attempts'[k], FailThreshold, now) /\ NotShortened(attempts[k], attempts'[k])
        /\ EarnedBy(global', GlobalFailThreshold, now) /\ NotShortened(global, global')
    BY <1>1, <1>2, <2>1, FailureLengthens
  <2> QED BY <1>4, <2>1, <2>2, <2>3 DEF Earned
<1>5. ASSUME now' = now, global' = global \/ global' = NoAttempt,
             \A k \in Keys : attempts'[k] = attempts[k] \/ attempts'[k] = NoAttempt
      PROVE  /\ Earned'
             /\ \A o \in Keys : NotShortened(attempts[o], attempts'[o])
             /\ NotShortened(global, global')
  <2>1. \A k \in Keys : /\ EarnedBy(attempts'[k], FailThreshold, now)
                        /\ NotShortened(attempts[k], attempts'[k])
    BY <1>1, <1>2, <1>5, KeptOrReset
  <2>2. EarnedBy(global', GlobalFailThreshold, now) /\ NotShortened(global, global')
    BY <1>1, <1>2, <1>5, KeptOrReset
  <2> QED BY <1>5, <2>1, <2>2 DEF Earned
<1>6. ASSUME NEW k \in Keys, Reset(k)
      PROVE  /\ \A o \in Keys : attempts'[o] = attempts[o] \/ attempts'[o] = NoAttempt
             /\ global' = NoAttempt
  BY <1>1, <1>6 DEF Reset
<1>7. (\E k \in Keys : RecordFailure(k) \/ Reset(k)) /\ now' = now =>
        /\ Earned'
        /\ \A o \in Keys : NotShortened(attempts[o], attempts'[o])
        /\ NotShortened(global, global')
  BY <1>4, <1>5, <1>6
<1>8. CASE now' = now /\ attempts' = [k \in Keys |-> NoAttempt] /\ global' = NoAttempt
  <2>1. \A k \in Keys : attempts'[k] = NoAttempt
    BY <1>8
  <2> QED BY <1>5, <1>8, <2>1
<1> QED BY <1>3, <1>7, <1>8, ThrottleEffects DEF Throttled

\* Only a sign-in, a password change or a restart shortens a running lockout, of
\* an address or of the application (throttle.service.ts), for every threshold,
\* base and cap.
THEOREM LockoutsHold == Spec => LockoutHolds
<1>1. Init => Earned
  <2>1. NoAttempt.count = 0 /\ NoAttempt.lockedUntil = 0
    BY DEF NoAttempt
  <2> QED BY <2>1, ThrottleAssumption DEF Init, Earned, EarnedBy
<1>2. AInv /\ Earned /\ [Next]_vars => Earned'
  BY EarnedStep
<1>3. AInv /\ Earned /\ [Next]_vars =>
        [/\ \A k \in Keys : NotShortened(attempts[k], attempts'[k])
         /\ NotShortened(global, global')]_vars
  BY EarnedStep
<1> QED BY <1>1, <1>2, <1>3, InductiveInvariant, PTL DEF Spec, LockoutHolds
=============================================================================
