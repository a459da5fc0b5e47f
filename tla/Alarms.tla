------------------------------- MODULE Alarms -------------------------------
(***************************************************************************)
(* One alarm of the Clock, the tabs of the desktop that ring it and the    *)
(* backend that keeps it (apps/add-ons/clock, lib/scheduleClaim.ts, and    *)
(* apps/backend/src/modules/clock and schedule).                           *)
(*                                                                         *)
(* Each tab decides by its own cache and its own ticks, as far apart as    *)
(* the browser likes; it changes its cache at once and tells the backend,  *)
(* whose answers and errors come when they come.  Time is in minutes, and  *)
(* 0 stands for null.                                                      *)
(***************************************************************************)
EXTENDS Naturals, FiniteSets

CONSTANTS
  Tabs, Calls,   \* desktop tabs; slots for requests in flight
  Occurrences,   \* the minutes the alarm names, on the days it repeats
  Repeats,       \* whether `days` is something else than NO_REPEAT
  LateWindow,    \* LATE_FIRE_WINDOW_MS
  SnoozeFor,     \* SNOOZE_MS
  MaxNow,        \* bound on time
  MaxIncidents,   \* bound on the requests that fail, the tabs that close
                 \* and the turns of the switch
  Asked, None

ASSUME AlarmsAssumption ==
  /\ MaxNow \in Nat /\ Occurrences \subseteq 1..MaxNow
  /\ Repeats \in BOOLEAN
  /\ LateWindow \in Nat /\ SnoozeFor \in Nat \ {0} /\ MaxIncidents \in Nat
  /\ IsFiniteSet(Tabs) /\ IsFiniteSet(Calls)
  /\ None \notin Tabs

VARIABLES
  now,
  row,       \* the alarm in clock_alarms
  claimed,   \* schedule_fired
  up,        \* the tabs that are open
  cache,     \* what each has loaded
  since,     \* lastTickRef
  fetch,     \* the refetch of each: asked, or the row the answer carries
  shown,     \* tabs that show the banner or a toast
  calls,     \* PATCHes and claims in flight
  incidents,  \* how many of these there were
  \* History:
  toasts,    \* how often a claim of each was won and announced, 2 for more
  rung,      \* occurrences that a tab rang
  blind,     \* those announced without an answer
  gone,      \* those whose claim a tab left behind
  promised,  \* the deadline of the last snooze, till it rings or is overtaken
  behind     \* the PATCHes in flight that do not know of that snooze

backend == <<row, claimed>>
tabs    == <<up, cache, since, fetch, shown>>
history == <<toasts, rung, blind, gone, promised, behind>>
vars    == <<now, backend, tabs, calls, incidents, history>>

Moments == 0..MaxNow

Alarm == [enabled: BOOLEAN, snoozed: Moments, fired: Moments]

Call == [tab: Tabs \cup {None},  \* None: the tab has been closed
         kind: {"fired", "snooze", "on", "off", "claim"},
         at: Moments,
         state: {"sent", "done", "lost"},  \* lost: a claim that was too late
         previous: Alarm \cup {None}]

ASSUME ValuesAssumption == None \notin Alarm \cup Call /\ Asked \notin Alarm

TypeOK ==
  /\ now \in Moments /\ row \in Alarm /\ claimed \subseteq Moments
  /\ up \subseteq Tabs /\ shown \subseteq up
  /\ cache \in [Tabs -> Alarm \cup {None}] /\ since \in [Tabs -> Moments]
  /\ fetch \in [Tabs -> Alarm \cup {Asked, None}]
  /\ calls \in [Calls -> Call \cup {None}]
  /\ incidents \in 0..MaxIncidents
  /\ toasts \in [Moments -> 0..2]
  /\ rung \subseteq Moments /\ blind \subseteq Moments /\ gone \subseteq Moments
  /\ promised \in Moments /\ behind \subseteq Calls

Init ==
  /\ now = 0 /\ row = [enabled |-> TRUE, snoozed |-> 0, fired |-> 0]
  /\ claimed = {}
  /\ up = {} /\ shown = {}
  /\ cache = [t \in Tabs |-> None] /\ since = [t \in Tabs |-> 0]
  /\ fetch = [t \in Tabs |-> None]
  /\ calls = [c \in Calls |-> None] /\ incidents = 0
  /\ toasts = [o \in Moments |-> 0] /\ rung = {} /\ blind = {} /\ gone = {}
  /\ promised = 0 /\ behind = {}

\* The patches: firedPatch, snoozePatch and the switch of the Alarms tab.
Patched(a, kind, at) ==
  CASE kind = "fired"  -> [enabled |-> a.enabled /\ Repeats, snoozed |-> 0, fired |-> at]
    [] kind = "snooze" -> [a EXCEPT !.enabled = TRUE, !.snoozed = at]
    [] kind = "on"     -> [a EXCEPT !.enabled = TRUE, !.snoozed = 0]
    [] kind = "off"    -> [a EXCEPT !.enabled = FALSE, !.snoozed = 0]
    [] OTHER           -> a

New(t, kind, at) == [tab |-> t, kind |-> kind, at |-> at, state |-> "sent", previous |-> None]

Idle == {c \in Calls : calls[c] = None}

\* Room for n more requests: as many can be in flight as there are slots.
Room(n) == Cardinality({t \in Tabs : fetch[t] # None}) + n <= Cardinality(Idle)

Send(f, call) == [f EXCEPT ![CHOOSE c \in Calls : f[c] = None] = call]

Sent(c) == calls[c] # None /\ calls[c].state = "sent"

Patches == {c \in Calls : Sent(c) /\ calls[c].kind # "claim"}

\* A banner that comes too late to be snoozed within the bound on time is not
\* kept.
Kept(n, s) == IF n + SnoozeFor <= MaxNow THEN s ELSE {}

Put(f, t, v) == [f EXCEPT ![t] = v]

-----------------------------------------------------------------------------
(* The tab.                                                                *)

Open(t) ==
  /\ t \notin up /\ Room(1)
  /\ up' = up \cup {t}
  /\ cache' = Put(cache, t, None) /\ since' = Put(since, t, now)
  /\ fetch' = Put(fetch, t, Asked)
  /\ UNCHANGED <<now, backend, shown, calls, incidents, history>>

\* What is on its way to the backend still arrives; no answer does.
CloseTab(t) ==
  /\ t \in up
  /\ incidents < MaxIncidents /\ incidents' = incidents + 1
  /\ up' = up \ {t} /\ shown' = shown \ {t}
  /\ cache' = Put(cache, t, None) /\ since' = Put(since, t, 0)
  /\ fetch' = Put(fetch, t, None)
  /\ calls' = [c \in Calls |->
       IF calls[c] = None \/ calls[c].tab # t THEN calls[c]
       ELSE IF Sent(c) THEN [calls[c] EXCEPT !.tab = None, !.previous = None]
       ELSE None]
  /\ gone' = gone \cup {o \in Moments : \E c \in Calls :
               calls[c] # None /\ calls[c].tab = t /\ calls[c].kind = "claim" /\ calls[c].at = o}
  /\ UNCHANGED <<now, backend, toasts, rung, blind, promised, behind>>

\* Plausible slip: a pending snooze does not keep the alarm from its time.
DueDespiteSnooze(a, from) ==
  IF a = None \/ ~a.enabled THEN {}
  ELSE {o \in {a.snoozed} : o # 0 /\ now >= o}
         \cup {o \in Occurrences : from < o /\ o <= now /\ now - o <= LateWindow /\ o # a.fired}

\* dueOccurrence: a pending snooze suppresses the scheduled time.
DueOccurrences(a, from) ==
  IF a = None \/ ~a.enabled THEN {}
  ELSE IF a.snoozed # 0 THEN {o \in {a.snoozed} : now >= o}
  ELSE {o \in Occurrences : from < o /\ o <= now /\ now - o <= LateWindow /\ o # a.fired}

Due(t) == DueOccurrences(cache[t], since[t])

TickQuiet(t) ==
  /\ t \in up /\ since[t] # now
  /\ Due(t) = {}
  /\ since' = Put(since, t, now)
  /\ UNCHANGED <<now, backend, up, cache, fetch, shown, calls, incidents, history>>

TickFires(t) ==
  /\ t \in up /\ Due(t) # {} /\ Room(2)
  /\ \E o \in Due(t) :
       /\ cache' = Put(cache, t, Patched(cache[t], "fired", o))
       /\ calls' = Send(Send(calls, New(t, "fired", o)), New(t, "claim", o))
       /\ promised' = IF o = promised THEN 0 ELSE promised
       /\ behind' = IF promised \in {0, o} THEN {}
                    ELSE IF cache[t].snoozed = promised THEN behind
                    ELSE behind \cup (Patches' \ Patches)
       /\ rung' = rung \cup {o}
  /\ shown' = Kept(now, shown \cup {t})
  /\ since' = Put(since, t, now)
  /\ UNCHANGED <<now, backend, up, fetch, incidents, toasts, blind, gone>>

\* usePatchAlarmMutation: the refetch in flight is cancelled, the cache written.
Mutate(t, kind, at) ==
  /\ t \in up /\ cache[t] # None /\ Room(1)
  /\ calls' = Send(calls, [New(t, kind, at) EXCEPT !.previous = cache[t]])
  /\ cache' = Put(cache, t, Patched(cache[t], kind, at))
  /\ fetch' = Put(fetch, t, None)
  /\ UNCHANGED <<now, backend, up, since, toasts, rung, blind, gone>>

\* Plausible slip: a deadline where a duration is meant.
SnoozeFromTheDeadline(t) ==
  /\ t \in shown /\ now + SnoozeFor <= MaxNow
  /\ Mutate(t, "snooze", now + now + SnoozeFor)
  /\ shown' = shown \ {t}
  /\ promised' = now + SnoozeFor /\ behind' = Patches
  /\ UNCHANGED incidents

Snooze(t) ==
  /\ t \in shown /\ now + SnoozeFor <= MaxNow
  /\ Mutate(t, "snooze", now + SnoozeFor)
  /\ shown' = shown \ {t}
  /\ promised' = now + SnoozeFor /\ behind' = Patches
  /\ UNCHANGED incidents

Dismiss(t) ==
  /\ t \in shown
  /\ shown' = shown \ {t}
  /\ UNCHANGED <<now, backend, up, cache, since, fetch, calls, incidents, history>>

Toggle(t) ==
  /\ cache[t] # None
  /\ incidents < MaxIncidents /\ incidents' = incidents + 1
  /\ Mutate(t, IF cache[t].enabled THEN "off" ELSE "on", 0)
  /\ promised' = 0 /\ behind' = {}
  /\ UNCHANGED shown

Poll(t) ==
  /\ t \in up /\ fetch[t] = None /\ Room(1)
  /\ fetch' = Put(fetch, t, Asked)
  /\ UNCHANGED <<now, backend, up, cache, since, shown, calls, incidents, history>>

FetchAnswered(t) ==
  /\ fetch[t] \in Alarm
  /\ cache' = Put(cache, t, fetch[t])
  /\ fetch' = Put(fetch, t, None)
  /\ UNCHANGED <<now, backend, up, since, shown, calls, incidents, history>>

FetchFails(t) ==
  /\ t \in up /\ fetch[t] # None
  /\ incidents < MaxIncidents /\ incidents' = incidents + 1
  /\ fetch' = Put(fetch, t, None)
  /\ UNCHANGED <<now, backend, up, cache, since, shown, calls, history>>

-----------------------------------------------------------------------------
(* The backend, and its answers.                                           *)

FetchHandled(t) ==
  /\ fetch[t] = Asked
  /\ fetch' = Put(fetch, t, row)
  /\ UNCHANGED <<now, backend, up, cache, since, shown, calls, incidents, history>>

\* The history of the snooze, when PATCH c is handled or fails: it is overtaken,
\* for the reason given, or goes on without c.
Overtaken(c, reason) ==
  /\ promised' = IF reason THEN 0 ELSE promised
  /\ behind' = IF reason THEN {} ELSE behind \ {c}

UpdateAlarm(c) ==
  /\ Sent(c) /\ calls[c].kind # "claim"
  /\ row' = Patched(row, calls[c].kind, calls[c].at)
  /\ calls' = [calls EXCEPT ![c].state = "done"]
  /\ Overtaken(c, c \in behind /\ row.snoozed = promised)
  /\ UNCHANGED <<now, claimed, tabs, incidents, toasts, rung, blind, gone>>

\* Plausible slip: look first, and insert whatever it found.
ClaimAnyway(c) ==
  /\ Sent(c) /\ calls[c].kind = "claim"
  /\ claimed' = claimed \cup {calls[c].at}
  /\ calls' = [calls EXCEPT ![c].state = "done"]
  /\ UNCHANGED <<now, row, tabs, incidents, history>>

\* INSERT OR IGNORE.  Nothing of the time modelled is old enough to prune.
Claim(c) ==
  /\ Sent(c) /\ calls[c].kind = "claim"
  /\ claimed' = claimed \cup {calls[c].at}
  /\ calls' = [calls EXCEPT ![c].state = IF calls[c].at \in claimed THEN "lost" ELSE "done"]
  /\ UNCHANGED <<now, row, tabs, incidents, history>>

Drop(c) == calls' = [calls EXCEPT ![c] = None]

PatchAnswered(c) ==
  /\ calls[c] # None /\ calls[c].kind # "claim" /\ calls[c].state = "done"
  /\ Drop(c)
  /\ fetch' = IF calls[c].tab = None THEN fetch ELSE Put(fetch, calls[c].tab, Asked)
  /\ UNCHANGED <<now, backend, up, cache, since, shown, incidents, history>>

ClaimAnswered(c) ==
  LET call == calls[c] IN
  /\ call # None /\ call.kind = "claim" /\ call.state # "sent"
  /\ Drop(c)
  /\ IF call.tab # None /\ call.state = "done"
     THEN /\ shown' = Kept(now, shown \cup {call.tab})
          /\ toasts' = [toasts EXCEPT ![call.at] = IF @ = 2 THEN 2 ELSE @ + 1]
     ELSE UNCHANGED <<shown, toasts>>
  /\ UNCHANGED <<now, backend, up, cache, since, fetch, incidents, rung, blind, gone, promised, behind>>

\* A request fails before or after the backend has handled it.
Fails(c) ==
  /\ calls[c] # None /\ calls[c].tab # None
  /\ incidents < MaxIncidents /\ incidents' = incidents + 1
  /\ Drop(c)

\* A change of the user's is taken back; either way the list is refetched.
PatchFails(c) ==
  /\ Fails(c) /\ calls[c].kind # "claim"
  /\ LET t == calls[c].tab IN
     /\ cache' = IF calls[c].kind = "fired" THEN cache ELSE Put(cache, t, calls[c].previous)
     /\ fetch' = Put(fetch, t, Asked)
  /\ Overtaken(c, Sent(c) /\ calls[c].kind = "snooze" /\ calls[c].at = promised)
  /\ UNCHANGED <<now, backend, up, since, shown, toasts, rung, blind, gone>>

\* Plausible slip: no answer is no permission.
ClaimFailsClosed(c) ==
  /\ Fails(c) /\ calls[c].kind = "claim"
  /\ UNCHANGED <<now, backend, tabs, history>>

\* "Fails open": the tab announces it.
ClaimFails(c) ==
  /\ Fails(c) /\ calls[c].kind = "claim"
  /\ shown' = Kept(now, shown \cup {calls[c].tab})
  /\ blind' = blind \cup {calls[c].at}
  /\ UNCHANGED <<now, backend, up, cache, since, fetch, toasts, rung, gone, promised, behind>>

Advance ==
  /\ now < MaxNow
  /\ now' = now + 1 /\ shown' = Kept(now + 1, shown)
  /\ UNCHANGED <<backend, up, cache, since, fetch, calls, incidents, history>>

Tab(t) ==
  \/ Open(t)
  \/ CloseTab(t)
  \/ TickQuiet(t)
  \/ TickFires(t)
  \/ Snooze(t)
  \/ Dismiss(t)
  \/ Toggle(t)
  \/ Poll(t)
  \/ FetchHandled(t)
  \/ FetchAnswered(t)
  \/ FetchFails(t)

Request(c) ==
  \/ UpdateAlarm(c)
  \/ Claim(c)
  \/ PatchAnswered(c)
  \/ ClaimAnswered(c)
  \/ PatchFails(c)
  \/ ClaimFails(c)

Next ==
  \/ \E t \in Tabs : Tab(t)
  \/ \E c \in Calls : Request(c)
  \/ Advance

Spec == Init /\ [][Next]_vars

-----------------------------------------------------------------------------
(* Properties.                                                             *)

\* "Exactly one INSERT succeeds and only that tab shows the toast"
\* (scheduleClaim.ts:9): whatever tabs ring an occurrence, late or again from a
\* stale cache, one wins it; the others announce it only if they get no answer.
AnnouncedOnce == \A o \in Moments : toasts[o] <= 1

\* "A duplicate toast in a rare failure mode beats a silently missed alarm"
\* (scheduleClaim.ts:14): an occurrence that rings is announced, or an open tab
\* has still to learn whether it is to, unless one was closed at that point.
NoneIsSilent ==
  \A o \in rung \ gone :
    \/ toasts[o] > 0 \/ o \in blind
    \/ \E c \in Calls : /\ calls[c] # None /\ calls[c].kind = "claim"
                        /\ calls[c].at = o /\ calls[c].tab # None

\* "A snooze has to re-arm it or the snooze silently never arrives"
\* (alarmSchedule.ts:168): until it rings or the user turns the switch, the last
\* snooze is in the table or on its way there.  What may overtake it is named:
\* its own request fails; or, once it is stored, a PATCH arrives that does not
\* know of it, sent before it or by a tab that rang the alarm while its list did
\* not show the snooze.
SnoozeIsKept ==
  promised # 0 =>
    \/ row.enabled /\ row.snoozed = promised
    \/ \E c \in Patches : calls[c].kind = "snooze" /\ calls[c].at = promised

\* "The cache patch, the PATCH and the in-window ring banner are idempotent and
\* happen in every tab regardless" (ClockBackground.tsx:32): the PATCH of a
\* second tab for an occurrence that is recorded changes nothing.
FiringIsIdempotent ==
  [][\A c \in Calls :
       Sent(c) /\ calls[c].kind = "fired" /\ calls[c].at = row.fired
         /\ calls' # calls /\ calls'[c] # calls[c] => row' = row]_vars
=============================================================================
