----------------------------- MODULE PrefsSync -----------------------------
(***************************************************************************)
(* The dotfiles of one browser tab: the mirror, the queue of unsaved       *)
(* writes and the requests that carry them (apps/core/src/lib/prefs.ts),   *)
(* the effects of AuthGate.tsx that start them, and the prefs route of the *)
(* backend (apps/backend/src/modules/prefs).                               *)
(*                                                                         *)
(* A value is the number of the write that made it, so that older and      *)
(* newer mean something.  A batch maps each key to its value or to Nil.    *)
(* Requests are under way in the bag net and arrive in any order: they     *)
(* share no connection.  "put" is flushPrefs's, of which one is in flight; *)
(* "get" is hydratePrefs's; "blind" is a PUT whose answer nobody awaits,   *)
(* from the seeding of hydratePrefs, from flushPrefsKeepalive, or left     *)
(* behind by a page that is gone.  localStorage equals the mirror; the     *)
(* timers run out at any time.                                             *)
(***************************************************************************)
EXTENDS Integers, FiniteSets, Bags

CONSTANTS
  Keys,         \* DOTFILE_KEYS
  MaxWrites,    \* bound on the user's changes
  MaxTroubles   \* bound on lost messages, server errors, expiries, reloads

ASSUME PrefsAssumption == MaxWrites \in Nat /\ MaxTroubles \in Nat

VARIABLES
  server,      \* the prefs table
  valid,       \* the session cookie is good
  net,         \* requests under way
  flight,      \* the PUT of flushPrefs: "none", "sent" or its answer
  sent,        \* its batch
  hydrating,   \* the GET of hydratePrefs, likewise
  fetched,     \* its answer
  cache,       \* the mirror
  pending,     \* pendingWrites
  debounce, retry,  \* writeTimer and retryTimer are set
  flushAgain,
  hydrated,
  authed,      \* the auth store: authenticated
  shown,       \* prefsReady: the desktop is there
  \* History and bounds:
  newest,      \* the last write of each key since the page loaded
  refused,     \* keys whose last write the server refused
  stored,      \* the newest write of each key that the server ever stored
  writes, troubles

link   == <<server, valid, net>>
put    == <<flight, sent, flushAgain>>
get    == <<hydrating, fetched, hydrated>>
timers == <<debounce, retry>>
mirror == <<cache, pending>>
page   == <<authed, shown>>
record == <<newest, refused, stored, writes>>
vars   == <<link, put, get, timers, mirror, page, record, troubles>>

Nil     == -1
Values  == 0..MaxWrites
Batch   == [Keys -> Values \cup {Nil}]
Empty   == [k \in Keys |-> Nil]
Answers == {"ok", "unauthorized", "refused", "error"}

\* The requests of a kind that are under way.
Under(kind) == [m \in {x \in BagToSet(net) : x.kind = kind} |-> net[m]]

\* A request of that kind is under way exactly when somebody waits for its
\* answer, and it is the only one.
Awaited(kind, waits) ==
  /\ waits <=> \E m \in BagToSet(net) : m.kind = kind
  /\ \A m, n \in BagToSet(net) : m.kind = kind /\ n.kind = kind => m = n /\ net[m] = 1

TypeOK ==
  /\ server \in Batch /\ valid \in BOOLEAN
  /\ IsABag(net) /\ BagToSet(net) \subseteq [kind : {"put", "get", "blind"}, batch : Batch]
  /\ Awaited("put", flight = "sent") /\ Awaited("get", hydrating = "sent")
  /\ flight \in {"none", "sent"} \cup Answers
  /\ hydrating \in {"none", "sent"} \cup Answers
  /\ sent \in Batch /\ fetched \in Batch /\ cache \in Batch /\ pending \in Batch
  /\ {debounce, retry, flushAgain, hydrated, authed, shown} \subseteq BOOLEAN
  /\ newest \in Batch /\ refused \subseteq Keys /\ stored \in Batch
  /\ writes \in 0..MaxWrites /\ troubles \in 0..MaxTroubles

\* The server may know a key or not, and so may the browser.
Init ==
  /\ server \in [Keys -> {Nil, 0}] /\ cache \in [Keys -> {Nil, 0}]
  /\ valid \in BOOLEAN
  /\ net = EmptyBag
  /\ flight = "none" /\ sent = Empty /\ flushAgain = FALSE
  /\ hydrating = "none" /\ fetched = Empty /\ hydrated = FALSE
  /\ pending = Empty
  /\ debounce = FALSE /\ retry = FALSE
  /\ authed = FALSE /\ shown = FALSE
  /\ newest = Empty /\ refused = {} /\ stored = Empty
  /\ writes = 0 /\ troubles = 0

Request(kind, batch) == [kind |-> kind, batch |-> batch]

Send(n, kind, batch) == n (+) SetToBag({Request(kind, batch)})

Over(new, old) == [k \in Keys |-> IF new[k] = Nil THEN old[k] ELSE new[k]]

Trouble == troubles < MaxTroubles /\ troubles' = troubles + 1

-----------------------------------------------------------------------------
(* flushPrefs, on a queue p: it sends unless a PUT is in flight already,   *)
(* and then asks for another flush.                                        *)

InFlight == flight # "none"

\* Plausible slip: no guard against a flush that is in flight.
SendsTwice(p, busy) == p # Empty

Sends(p, busy) == p # Empty /\ ~busy

AfterFlush(p, busy, n) == IF Sends(p, busy) THEN Send(n, "put", p) ELSE n

Flush(p, busy) ==
  /\ debounce' = FALSE /\ retry' = FALSE
  /\ flight' = (IF Sends(p, busy) THEN "sent" ELSE IF busy THEN flight ELSE "none")
  /\ sent' = IF Sends(p, busy) THEN p ELSE sent
  /\ flushAgain' = (busy /\ (flushAgain \/ p # Empty))

\* A store changes: the mirror at once, the server on a debounce.
WritePref(k) ==
  /\ shown /\ authed
  /\ writes < MaxWrites
  /\ writes' = writes + 1
  /\ cache' = [cache EXCEPT ![k] = writes + 1]
  /\ pending' = [pending EXCEPT ![k] = writes + 1]
  /\ debounce' = TRUE
  /\ newest' = [newest EXCEPT ![k] = writes + 1]
  /\ refused' = refused \ {k}
  /\ UNCHANGED <<stored, link, put, get, retry, page, troubles>>

TimerFires ==
  /\ debounce \/ retry
  /\ Flush(pending, InFlight)
  /\ net' = AfterFlush(pending, InFlight, net)
  /\ UNCHANGED <<server, valid, get, mirror, page, record, troubles>>

\* Plausible slip: what was sent is retired, whatever the queue holds now.
RetireAll == [k \in Keys |-> IF sent[k] # Nil THEN Nil ELSE pending[k]]

\* What was sent leaves the queue, unless it was rewritten meanwhile.
Retire == [k \in Keys |-> IF sent[k] # Nil /\ pending[k] = sent[k] THEN Nil ELSE pending[k]]

\* Plausible slip: a server error is not retried.
RetriesNothing == FALSE

Retries == flight = "error"

\* Plausible slip: a 401 settles the batch like every other status.
SettledByStatus == flight \in {"ok", "refused", "unauthorized"}

Settled == flight \in {"ok", "refused"}

\* The answer to the PUT: ok retires; 401 holds the batch and locks; another
\* 4xx drops it; a server error or a lost answer sets the retry timer.  Then
\* the flush that was asked for meanwhile.
Settle ==
  /\ flight \in Answers
  /\ pending' = IF Settled THEN Retire ELSE pending
  /\ authed' = (authed /\ flight # "unauthorized")
  /\ refused' = IF flight = "refused"
                THEN refused \cup {k \in Keys : sent[k] # Nil /\ pending[k] = sent[k]}
                ELSE refused
  /\ IF flushAgain
     THEN /\ Flush(pending', FALSE)
          /\ net' = AfterFlush(pending', FALSE, net)
     ELSE /\ flight' = "none"
          /\ retry' = (retry \/ Retries)
          /\ UNCHANGED <<sent, flushAgain, net, debounce>>
  /\ UNCHANGED <<server, valid, get, cache, shown, newest, stored, writes, troubles>>

-----------------------------------------------------------------------------
(* AuthGate: the authenticated transition flushes, then hydrates.          *)

SignIn ==
  /\ ~authed
  /\ authed' = TRUE /\ valid' = TRUE
  /\ Flush(pending, InFlight)
  /\ LET n == AfterFlush(pending, InFlight, net) IN
     IF hydrated \/ hydrating # "none"
     THEN net' = n /\ UNCHANGED hydrating
     ELSE net' = Send(n, "get", Empty) /\ hydrating' = "sent"
  /\ shown' = (shown \/ hydrated)
  /\ UNCHANGED <<server, fetched, hydrated, mirror, record, troubles>>

\* The answer to the GET: the server's values replace the local ones, and the
\* keys it does not know are pushed up, unawaited.
Hydrate ==
  /\ hydrating \in Answers
  /\ hydrating' = "none"
  /\ hydrated' = (hydrating = "ok")
  /\ authed' = (authed /\ hydrating # "unauthorized")
  /\ shown' = (shown \/ authed')
  /\ IF hydrating = "ok"
     THEN LET unknown == [k \in Keys |-> IF fetched[k] = Nil THEN cache[k] ELSE Nil] IN
          /\ cache' = Over(fetched, cache)
          /\ net' = IF unknown = Empty THEN net ELSE Send(net, "blind", unknown)
     ELSE UNCHANGED <<cache, net>>
  /\ UNCHANGED <<server, valid, put, fetched, pending, timers, record, troubles>>

\* flushPrefsKeepalive: the tab is hidden; the queue stays as it is.
Hide ==
  /\ pending # Empty
  /\ Trouble
  /\ net' = Send(net, "blind", pending)
  /\ UNCHANGED <<server, valid, put, get, timers, mirror, page, record>>

\* The page is left or reloaded: a last keepalive, the PUT in flight goes on
\* without it or is aborted, and only localStorage remains.
Reload ==
  /\ authed
  /\ Trouble
  /\ \E aborted \in BOOLEAN :
       LET orphans == IF flight = "sent" /\ ~aborted
                      THEN Send(Under("blind"), "blind", sent) ELSE Under("blind")
       IN  net' = IF pending = Empty THEN orphans ELSE Send(orphans, "blind", pending)
  /\ flight' = "none" /\ sent' = Empty /\ flushAgain' = FALSE
  /\ hydrating' = "none" /\ fetched' = Empty /\ hydrated' = FALSE
  /\ pending' = Empty /\ debounce' = FALSE /\ retry' = FALSE
  /\ authed' = FALSE /\ shown' = FALSE
  /\ newest' = Empty /\ refused' = {}
  /\ UNCHANGED <<server, valid, cache, stored, writes>>

-----------------------------------------------------------------------------
(* The backend and the network.                                            *)

Expire ==
  /\ valid /\ authed
  /\ Trouble
  /\ valid' = FALSE
  /\ UNCHANGED <<server, net, put, get, timers, mirror, page, record>>

\* The network hands over, or loses, a request of a kind.
Take(m, kind) ==
  /\ BagIn(m, net) /\ m.kind = kind
  /\ net' = net (-) SetToBag({m})

\* PrefsService.put: the batch is written in one transaction.
Store(batch) ==
  /\ server' = Over(batch, server)
  /\ stored' = [k \in Keys |-> IF batch[k] > stored[k] THEN batch[k] ELSE stored[k]]

ArrivePut(m) ==
  /\ Take(m, "put")
  /\ IF valid THEN Store(m.batch) /\ flight' = "ok"
              ELSE flight' = "unauthorized" /\ UNCHANGED <<server, stored>>
  /\ UNCHANGED <<valid, sent, flushAgain, get, timers, mirror, page,
                 newest, refused, writes, troubles>>

ArriveBlind(m) ==
  /\ Take(m, "blind")
  /\ IF valid THEN Store(m.batch) ELSE UNCHANGED <<server, stored>>
  /\ UNCHANGED <<valid, put, get, timers, mirror, page, newest, refused, writes, troubles>>

ArriveGet(m) ==
  /\ Take(m, "get")
  /\ IF valid THEN hydrating' = "ok" /\ fetched' = server
              ELSE hydrating' = "unauthorized" /\ UNCHANGED fetched
  /\ UNCHANGED <<server, valid, put, hydrated, timers, mirror, page, record, troubles>>

\* The PUT is lost or fails with a server error, or is refused for good.
PutFails(m) ==
  /\ Take(m, "put")
  /\ Trouble
  /\ flight' \in {"error", "refused"}
  /\ UNCHANGED <<server, valid, sent, flushAgain, get, timers, mirror, page, record>>

\* The PUT was written and its answer is lost.
AnswerLost ==
  /\ flight = "ok"
  /\ Trouble
  /\ flight' = "error"
  /\ UNCHANGED <<link, sent, flushAgain, get, timers, mirror, page, record>>

BlindLost(m) ==
  /\ Take(m, "blind")
  /\ Trouble
  /\ UNCHANGED <<server, valid, put, get, timers, mirror, page, record>>

GetLost(m) ==
  /\ Take(m, "get")
  /\ Trouble
  /\ hydrating' = "error"
  /\ UNCHANGED <<server, valid, put, fetched, hydrated, timers, mirror, page, record>>

Arrive == \E m \in BagToSet(net) : ArrivePut(m) \/ ArriveBlind(m) \/ ArriveGet(m)

Next ==
  \/ \E k \in Keys : WritePref(k)
  \/ TimerFires
  \/ Settle
  \/ SignIn
  \/ Hydrate
  \/ Hide
  \/ Reload
  \/ Expire
  \/ Arrive
  \/ \E m \in BagToSet(net) : PutFails(m) \/ BlindLost(m) \/ GetLost(m)
  \/ AnswerLost

Spec == Init /\ [][Next]_vars

\* Timers run out, messages arrive, promises settle, and the user signs in
\* when the lock screen is up.
FairSpec ==
  /\ Spec
  /\ WF_vars(TimerFires) /\ WF_vars(Settle) /\ WF_vars(Hydrate)
  /\ WF_vars(SignIn) /\ WF_vars(Arrive)

-----------------------------------------------------------------------------
(* Properties.                                                             *)

\* An edit leaves the queue only when the server has stored it, or refused
\* it: no lost request or answer, expiry, overlap of two flushes or rewriting
\* in flight drops one ("Entries now leave the queue only on confirmation",
\* prefs.ts:192).
EditsAreDurable ==
  \A k \in Keys : newest[k] # Nil /\ k \notin refused => newest[k] \in {pending[k], stored[k]}

\* In the end every edit of a page that stays has been stored, or refused.
EditsArrive == <>[](\A k \in Keys : k \in refused \/ newest[k] \in {Nil, stored[k]})

\* What waits in the queue is what the desktop shows: hydrating cannot
\* "clobber the pending value with the server's stale copy" (AuthGate.tsx:56).
PendingIsShown == \A k \in Keys : pending[k] # Nil => cache[k] = pending[k]

-----------------------------------------------------------------------------
(* The promise, seen through the queue and what the server has stored.     *)

FateOf(k) ==
  IF newest[k] = Nil THEN "none"
  ELSE CASE newest[k] = stored[k] -> "stored"
         [] newest[k] # stored[k] /\ k \in refused -> "refused"
         [] newest[k] \notin {stored[k], pending[k]} /\ k \notin refused -> "lost"
         [] OTHER -> "waiting"

Fate == [k \in Keys |-> FateOf(k)]

Delivery == INSTANCE EditDelivery WITH fate <- Fate

\* The last edit of each key waits until the server had it or refused it; no
\* answer, retry, expiry, sign-in or overlap of requests settles one that was not
\* in the batch, or one that the server may still take (flushPrefs, prefs.ts):
\* the queue implements the delivery of edits.
ImplementsDelivery == Delivery!Spec
=============================================================================
