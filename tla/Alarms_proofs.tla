--------------------------- MODULE Alarms_proofs ---------------------------
(***************************************************************************)
(* Proofs about Alarms, for any number of tabs and requests, any alarm and *)
(* any stretch of time.  The claim of an occurrence is won by one request  *)
(* at most, because the row is inserted once; what has become of the       *)
(* winner (its answer is on the way, was shown, was replaced by an error,  *)
(* or its tab is gone) is what tells that no occurrence stays silent.      *)
(***************************************************************************)
EXTENDS Alarms, FiniteSetTheorems, TLAPS

IsClaim(c, o) == calls[c] # None /\ calls[c].kind = "claim" /\ calls[c].at = o

WonBy(c, o) == IsClaim(c, o) /\ calls[c].state = "done"

\* A closed tab has left its calls to nobody.
Attended == \A c \in Calls : calls[c] # None => calls[c].tab \in up \cup {None}

OneWinner ==
  \A o \in Moments :
    /\ toasts[o] <= 1
    /\ toasts[o] > 0 => o \in claimed
    /\ \A c \in Calls : WonBy(c, o) =>
         /\ o \in claimed /\ toasts[o] = 0
         /\ \A d \in Calls : WonBy(d, o) => d = c

Accounted ==
  /\ \A c \in Calls, o \in Moments : IsClaim(c, o) =>
       /\ calls[c].tab = None => o \in gone
       /\ calls[c].state = "lost" => o \in claimed
  /\ \A o \in claimed :
       toasts[o] > 0 \/ o \in blind \/ o \in gone
         \/ \E c \in Calls : WonBy(c, o) /\ calls[c].tab # None

\* Whatever is on its way, but for the snooze itself, is known not to know of it.
SnoozeIsLast ==
  promised # 0 =>
    \A c \in Patches : c \in behind \/ (calls[c].kind = "snooze" /\ calls[c].at = promised)

AInv ==
  /\ TypeOK /\ Attended /\ OneWinner /\ Accounted /\ NoneIsSilent
  /\ SnoozeIsLast /\ SnoozeIsKept

-----------------------------------------------------------------------------
(* Requests.                                                               *)

LEMMA PatchedTyped ==
  ASSUME NEW a \in Alarm, NEW k, NEW at \in Moments
  PROVE  Patched(a, k, at) \in Alarm
<1>1. 0 \in Moments
  BY AlarmsAssumption DEF Moments
<1> QED BY <1>1, AlarmsAssumption DEF Patched, Alarm

LEMMA NewTyped ==
  ASSUME NEW t \in Tabs, NEW k \in {"fired", "snooze", "on", "off", "claim"}, NEW at \in Moments,
         NEW p \in Alarm
  PROVE  /\ New(t, k, at) \in Call
         /\ [New(t, k, at) EXCEPT !.previous = p] \in Call
  BY DEF New, Call

LEMMA RoomForOne ==
  ASSUME NEW n \in Nat \ {0}, Room(n)
  PROVE  \E c \in Calls : calls[c] = None
<1>1. IsFiniteSet({t \in Tabs : fetch[t] # None})
  BY FS_Subset, AlarmsAssumption
<1>2. Cardinality({t \in Tabs : fetch[t] # None}) \in Nat
  BY <1>1, FS_CardinalityType
<1>3. IsFiniteSet(Idle)
  BY FS_Subset, AlarmsAssumption DEF Idle
<1>4. Cardinality(Idle) \in Nat
  BY <1>3, FS_CardinalityType
<1>5. Cardinality(Idle) # 0
  BY <1>2, <1>4 DEF Room
<1>6. Idle # {}
  BY <1>5, FS_EmptySet
<1> QED BY <1>6 DEF Idle

LEMMA RoomForTwo ==
  ASSUME Room(2)
  PROVE  \E c, d \in Calls : c # d /\ calls[c] = None /\ calls[d] = None
<1>1. IsFiniteSet({t \in Tabs : fetch[t] # None})
  BY FS_Subset, AlarmsAssumption
<1>2. Cardinality({t \in Tabs : fetch[t] # None}) \in Nat
  BY <1>1, FS_CardinalityType
<1>3. IsFiniteSet(Idle)
  BY FS_Subset, AlarmsAssumption DEF Idle
<1>4. Cardinality(Idle) \in Nat /\ Cardinality(Idle) >= 2
  BY <1>2, <1>3, FS_CardinalityType DEF Room
<1>5. PICK c \in Calls : calls[c] = None
  BY RoomForOne
<1>6. c \in Idle
  BY <1>5 DEF Idle
<1>7. Cardinality(Idle \ {c}) = Cardinality(Idle) - 1
  BY <1>3, <1>6, FS_RemoveElement
<1>8. Cardinality(Idle \ {c}) # 0
  BY <1>4, <1>7
<1>9. Idle \ {c} # {}
  BY <1>8, FS_EmptySet
<1> QED BY <1>5, <1>9 DEF Idle

LEMMA SendFills ==
  ASSUME NEW f \in [Calls -> Call \cup {None}], NEW call \in Call, \E c \in Calls : f[c] = None
  PROVE  \E c \in Calls : f[c] = None /\ Send(f, call) = [f EXCEPT ![c] = call]
<1> DEFINE c == CHOOSE c \in Calls : f[c] = None
<1>1. c \in Calls /\ f[c] = None
  OBVIOUS
<1>2. Send(f, call) = [f EXCEPT ![c] = call]
  BY DEF Send
<1> QED BY <1>1, <1>2

\* The two requests of a tab that rings.
LEMMA SendTwo ==
  ASSUME TypeOK, Room(2), NEW p \in Call, NEW q \in Call
  PROVE  \E c, d \in Calls : /\ c # d /\ calls[c] = None /\ calls[d] = None
                             /\ Send(Send(calls, p), q) = [calls EXCEPT ![c] = p, ![d] = q]
<1>1. PICK c \in Calls : calls[c] = None /\ Send(calls, p) = [calls EXCEPT ![c] = p]
  BY RoomForOne, SendFills DEF TypeOK
<1> DEFINE f == [calls EXCEPT ![c] = p]
<1>2. f \in [Calls -> Call \cup {None}] /\ \E d \in Calls : f[d] = None
  BY RoomForTwo DEF TypeOK
<1>3. PICK d \in Calls : f[d] = None /\ Send(f, q) = [f EXCEPT ![d] = q]
  BY <1>2, SendFills
<1>4. d # c /\ calls[d] = None
  BY <1>3, ValuesAssumption DEF TypeOK
<1> QED BY <1>1, <1>3, <1>4

-----------------------------------------------------------------------------
(* Steps that are not about claims, or not about snoozes.                  *)

Plain(c) == calls[c] = None \/ calls[c].kind # "claim"

LEMMA ClaimsStay ==
  ASSUME AInv, UNCHANGED <<claimed, toasts, rung, blind, gone>>, up \subseteq up',
         \A c \in Calls : \/ calls'[c] = calls[c]
                          \/ /\ Plain(c) /\ Plain(c)'
                             /\ calls'[c] # None => calls'[c].tab \in up' \cup {None}
  PROVE  Attended' /\ OneWinner' /\ Accounted' /\ NoneIsSilent'
<1>1. Attended'
  BY DEF AInv, Attended
<1>2. \A c \in Calls, o \in Moments : /\ IsClaim(c, o)' <=> IsClaim(c, o)
                                      /\ WonBy(c, o)' <=> WonBy(c, o)
                                      /\ IsClaim(c, o) => calls'[c] = calls[c]
  BY DEF IsClaim, WonBy, Plain
<1>3. OneWinner'
  BY <1>2 DEF AInv, OneWinner
<1>4. Accounted'
  <2>1. claimed \subseteq Moments
    BY DEF AInv, TypeOK
  <2> QED BY <1>2, <2>1 DEF AInv, Accounted, WonBy
<1>5. NoneIsSilent'
  <2>1. rung \subseteq Moments
    BY DEF AInv, TypeOK
  <2> QED BY <1>2, <2>1 DEF AInv, NoneIsSilent, IsClaim
<1> QED BY <1>1, <1>3, <1>4, <1>5

LEMMA SnoozeStays ==
  ASSUME AInv, row' = row,
         promised' # 0 => promised' = promised /\ behind \subseteq behind',
         \A c \in Patches : /\ c \in Patches'
                            /\ calls'[c].kind = calls[c].kind /\ calls'[c].at = calls[c].at,
         \A c \in Patches' \ Patches : promised' # 0 => c \in behind'
  PROVE  SnoozeIsLast' /\ SnoozeIsKept'
<1>1. SnoozeIsLast'
  BY DEF AInv, SnoozeIsLast
<1>2. SnoozeIsKept'
  BY DEF AInv, SnoozeIsKept
<1> QED BY <1>1, <1>2

LEMMA QuietStep ==
  ASSUME AInv,
         \/ \E t \in Tabs : \/ Open(t) \/ TickQuiet(t) \/ Dismiss(t) \/ Poll(t)
                            \/ FetchHandled(t) \/ FetchAnswered(t) \/ FetchFails(t)
         \/ Advance
  PROVE  AInv'
<1>1. /\ UNCHANGED <<row, claimed, calls, toasts, rung, blind, gone, promised, behind>>
      /\ up \subseteq up'
  BY DEF Open, TickQuiet, Dismiss, Poll, FetchHandled, FetchAnswered, FetchFails, Advance,
         backend, history
<1>2. Attended' /\ OneWinner' /\ Accounted' /\ NoneIsSilent'
  BY <1>1, ClaimsStay
<1>3. SnoozeIsLast' /\ SnoozeIsKept'
  BY <1>1, SnoozeStays DEF Patches, Sent
<1>4. TypeOK'
  <2> USE DEF AInv, TypeOK, backend, tabs, history, Put
  <2>1. ASSUME NEW t \in Tabs, Open(t) PROVE TypeOK'
    BY <2>1 DEF Open
  <2>2. ASSUME NEW t \in Tabs, TickQuiet(t) PROVE TypeOK'
    BY <2>2 DEF TickQuiet
  <2>3. ASSUME NEW t \in Tabs, Dismiss(t) PROVE TypeOK'
    BY <2>3 DEF Dismiss
  <2>4. ASSUME NEW t \in Tabs, Poll(t) \/ FetchHandled(t) PROVE TypeOK'
    BY <2>4 DEF Poll, FetchHandled
  <2>5. ASSUME NEW t \in Tabs, FetchAnswered(t) PROVE TypeOK'
    BY <2>5 DEF FetchAnswered
  <2>6. ASSUME NEW t \in Tabs, FetchFails(t) PROVE TypeOK'
    <3>1. incidents' \in 0..MaxIncidents
      BY <2>6, AlarmsAssumption DEF FetchFails
    <3> QED BY <2>6, <3>1 DEF FetchFails
  <2>7. CASE Advance
    <3>1. now' \in Moments
      BY <2>7, AlarmsAssumption DEF Advance, Moments
    <3> QED BY <2>7, <3>1 DEF Advance, Kept
  <2> QED BY <2>1, <2>2, <2>3, <2>4, <2>5, <2>6, <2>7
<1> QED BY <1>2, <1>3, <1>4 DEF AInv

-----------------------------------------------------------------------------
(* The steps of a tab.                                                     *)

LEMMA CloseStep ==
  ASSUME AInv, NEW t \in Tabs, CloseTab(t)
  PROVE  AInv'
<1>1. \A c \in Calls :
        \/ (calls[c] = None \/ calls[c].tab # t) /\ calls'[c] = calls[c]
        \/ /\ calls[c] # None /\ calls[c].tab = t /\ Sent(c)
           /\ calls'[c] = [calls[c] EXCEPT !.tab = None, !.previous = None]
        \/ calls[c] # None /\ calls[c].tab = t /\ ~Sent(c) /\ calls'[c] = None
  BY DEF CloseTab
<1>2. \A c \in Calls : calls[c] # None /\ calls[c].tab = t /\ Sent(c) =>
        /\ calls'[c] \in Call /\ calls'[c] # None /\ calls'[c].tab = None
        /\ calls'[c].kind = calls[c].kind /\ calls'[c].at = calls[c].at
        /\ calls'[c].state = calls[c].state
  <2> TAKE c \in Calls
  <2> HAVE calls[c] # None /\ calls[c].tab = t /\ Sent(c)
  <2>1. calls[c] \in Call
    BY DEF AInv, TypeOK
  <2>2. calls'[c] = [calls[c] EXCEPT !.tab = None, !.previous = None]
    BY <1>1
  <2> QED BY <2>1, <2>2, ValuesAssumption DEF Call
<1>3. /\ up' = up \ {t} /\ UNCHANGED <<row, claimed, toasts, rung, blind, promised, behind>>
      /\ \A c \in Calls, o \in Moments : IsClaim(c, o) /\ calls[c].tab = t => o \in gone'
      /\ gone \subseteq gone' /\ gone' \subseteq Moments
  BY DEF CloseTab, backend, IsClaim, AInv, TypeOK
<1>4. t # None
  BY AlarmsAssumption
<1>5. TypeOK'
  <2>1. calls' \in [Calls -> Call \cup {None}]
    <3>1. \A c \in Calls : calls'[c] \in Call \cup {None}
      BY <1>1, <1>2 DEF AInv, TypeOK
    <3> QED BY <3>1 DEF CloseTab
  <2>2. since' \in [Tabs -> Moments] /\ incidents' \in 0..MaxIncidents
    <3>1. incidents < MaxIncidents /\ incidents \in 0..MaxIncidents /\ incidents' = incidents + 1
      BY DEF CloseTab, AInv, TypeOK
    <3>2. 0 \in Moments /\ incidents + 1 \in 0..MaxIncidents
      BY <3>1, AlarmsAssumption DEF Moments
    <3> QED BY <3>1, <3>2 DEF CloseTab, AInv, TypeOK, Put
  <2>3. cache' \in [Tabs -> Alarm \cup {None}] /\ fetch' \in [Tabs -> Alarm \cup {Asked, None}]
    BY DEF CloseTab, AInv, TypeOK, Put
  <2> QED BY <1>3, <2>1, <2>2, <2>3 DEF CloseTab, AInv, TypeOK, backend
<1>6. Attended'
  BY <1>1, <1>2, <1>3 DEF AInv, Attended
<1>7. \A c \in Calls, o \in Moments :
        /\ IsClaim(c, o)' => /\ IsClaim(c, o)
                             /\ calls'[c].state = calls[c].state
                             /\ calls'[c].tab = None => calls[c].tab \in {t, None}
        /\ WonBy(c, o)' => WonBy(c, o)
        /\ IsClaim(c, o) /\ calls[c].tab # t => calls'[c] = calls[c]
  BY <1>1, <1>2 DEF IsClaim, WonBy, Sent
<1>8. OneWinner'
  BY <1>3, <1>7 DEF AInv, OneWinner
<1>9. Accounted'
  <2>1. \A c \in Calls, o \in Moments : IsClaim(c, o)' =>
          /\ calls'[c].tab = None => o \in gone'
          /\ calls'[c].state = "lost" => o \in claimed'
    BY <1>3, <1>7 DEF AInv, Accounted
  <2>2. \A o \in claimed' :
          toasts'[o] > 0 \/ o \in blind' \/ o \in gone'
            \/ \E c \in Calls : WonBy(c, o)' /\ calls'[c].tab # None
    <3> SUFFICES ASSUME NEW o \in claimed, ~(toasts[o] > 0 \/ o \in blind \/ o \in gone')
                 PROVE  \E c \in Calls : WonBy(c, o)' /\ calls'[c].tab # None
      BY <1>3
    <3>1. PICK c \in Calls : WonBy(c, o) /\ calls[c].tab # None
      BY <1>3 DEF AInv, Accounted
    <3>2. o \in Moments
      BY DEF AInv, TypeOK
    <3>3. calls'[c] = calls[c]
      BY <1>3, <1>7, <3>1, <3>2 DEF WonBy
    <3> QED BY <3>1, <3>3 DEF WonBy, IsClaim
  <2> QED BY <2>1, <2>2 DEF Accounted
<1>10. NoneIsSilent'
  <2> SUFFICES ASSUME NEW o \in rung, o \notin gone', ~(toasts[o] > 0 \/ o \in blind)
               PROVE  \E c \in Calls : IsClaim(c, o)' /\ calls'[c].tab # None
    BY <1>3 DEF NoneIsSilent, IsClaim
  <2>1. PICK c \in Calls : IsClaim(c, o) /\ calls[c].tab # None
    BY <1>3 DEF AInv, NoneIsSilent, IsClaim
  <2>2. o \in Moments
    BY DEF AInv, TypeOK
  <2>3. calls'[c] = calls[c]
    BY <1>3, <1>7, <2>1, <2>2
  <2> QED BY <2>1, <2>3 DEF IsClaim
<1>11. SnoozeIsLast' /\ SnoozeIsKept'
  <2>1. \A c \in Calls : /\ Sent(c)' <=> Sent(c)
                         /\ Sent(c) => calls'[c].kind = calls[c].kind /\ calls'[c].at = calls[c].at
    BY <1>1, <1>2 DEF Sent
  <2> QED BY <1>3, <2>1, SnoozeStays DEF Patches
<1> QED BY <1>5, <1>6, <1>8, <1>9, <1>10, <1>11 DEF AInv

\* A tab rings: it sends a PATCH, and a claim that is its own to answer for.
LEMMA TickStep ==
  ASSUME AInv, NEW t \in Tabs, TickFires(t)
  PROVE  AInv'
<1>1. PICK o \in Due(t) :
        /\ cache' = Put(cache, t, Patched(cache[t], "fired", o))
        /\ calls' = Send(Send(calls, New(t, "fired", o)), New(t, "claim", o))
        /\ promised' = IF o = promised THEN 0 ELSE promised
        /\ behind' = IF promised \in {0, o} THEN {}
                     ELSE IF cache[t].snoozed = promised THEN behind
                     ELSE behind \cup (Patches' \ Patches)
        /\ rung' = rung \cup {o}
  BY DEF TickFires
<1>2. cache[t] \in Alarm /\ o \in Moments
  <2>1. cache[t] # None
    BY <1>1 DEF Due, DueOccurrences
  <2>2. cache[t] \in Alarm
    BY <2>1 DEF AInv, TypeOK
  <2>3. o = cache[t].snoozed \/ o \in Occurrences
    BY <1>1, <2>1 DEF Due, DueOccurrences
  <2>4. cache[t].snoozed \in Moments /\ Occurrences \subseteq Moments
    BY <2>2, AlarmsAssumption DEF Alarm, Moments
  <2> QED BY <2>2, <2>3, <2>4
<1> DEFINE p == New(t, "fired", o)
           q == New(t, "claim", o)
<1>3. /\ p \in Call /\ p # None /\ p.kind = "fired" /\ p.tab = t
      /\ q \in Call /\ q # None /\ q.kind = "claim" /\ q.tab = t /\ q.at = o /\ q.state = "sent"
  <2>1. p \in Call /\ q \in Call
    BY <1>2, NewTyped
  <2> QED BY <2>1, ValuesAssumption DEF New
<1>4. calls' = Send(Send(calls, p), q) /\ Room(2) /\ t \in up
  BY <1>1 DEF TickFires
<1> HIDE DEF p, q
<1>5. PICK c, d \in Calls : /\ c # d /\ calls[c] = None /\ calls[d] = None
                            /\ calls' = [calls EXCEPT ![c] = p, ![d] = q]
  BY <1>3, <1>4, SendTwo DEF AInv
<1>6. /\ calls' \in [Calls -> Call \cup {None}]
      /\ calls'[c] = p /\ calls'[d] = q /\ \A e \in Calls \ {c, d} : calls'[e] = calls[e]
  BY <1>3, <1>5 DEF AInv, TypeOK
<1>7. /\ UNCHANGED <<now, row, claimed, up, fetch, incidents, toasts, blind, gone>>
      /\ shown' \subseteq up
  BY DEF TickFires, backend, Kept, AInv, TypeOK
<1>8. TypeOK'
  <2>1. cache' \in [Tabs -> Alarm \cup {None}] /\ since' \in [Tabs -> Moments]
    BY <1>1, <1>2, PatchedTyped DEF TickFires, AInv, TypeOK, Put
  <2>2. rung' \subseteq Moments /\ promised' \in Moments
    BY <1>1, <1>2, AlarmsAssumption DEF AInv, TypeOK, Moments
  <2>3. behind' \subseteq Calls
    BY <1>1 DEF AInv, TypeOK, Patches
  <2> QED BY <1>6, <1>7, <2>1, <2>2, <2>3 DEF AInv, TypeOK
<1>9. Attended'
  <2> SUFFICES ASSUME NEW e \in Calls, calls'[e] # None
               PROVE  calls'[e].tab \in up \cup {None}
    BY <1>7 DEF Attended
  <2> QED BY <1>3, <1>4, <1>6 DEF AInv, Attended
<1>10. \A e \in Calls, m \in Moments :
         /\ IsClaim(e, m)' <=> IsClaim(e, m) \/ (e = d /\ m = o)
         /\ WonBy(e, m)' <=> WonBy(e, m)
         /\ IsClaim(e, m) => calls'[e] = calls[e]
  <2> TAKE e \in Calls, m \in Moments
  <2>1. CASE e = c
    BY <2>1, <1>3, <1>5, <1>6 DEF IsClaim, WonBy
  <2>2. CASE e = d
    BY <2>2, <1>3, <1>5, <1>6 DEF IsClaim, WonBy
  <2>3. CASE e \notin {c, d}
    BY <2>3, <1>6 DEF IsClaim, WonBy
  <2> QED BY <2>1, <2>2, <2>3
<1>11. OneWinner'
  BY <1>7, <1>10 DEF AInv, OneWinner
<1>12. Accounted'
  <2>1. t # None
    BY AlarmsAssumption
  <2>2. \A e \in Calls, m \in Moments : IsClaim(e, m)' =>
          /\ calls'[e].tab = None => m \in gone'
          /\ calls'[e].state = "lost" => m \in claimed'
    BY <1>3, <1>6, <1>7, <1>10, <2>1 DEF AInv, Accounted
  <2>3. \A m \in claimed' :
          toasts'[m] > 0 \/ m \in blind' \/ m \in gone'
            \/ \E e \in Calls : WonBy(e, m)' /\ calls'[e].tab # None
    <3> SUFFICES ASSUME NEW m \in claimed, ~(toasts[m] > 0 \/ m \in blind \/ m \in gone)
                 PROVE  \E e \in Calls : WonBy(e, m)' /\ calls'[e].tab # None
      BY <1>7
    <3>1. PICK e \in Calls : WonBy(e, m) /\ calls[e].tab # None
      BY DEF AInv, Accounted
    <3>2. m \in Moments /\ IsClaim(e, m)
      BY <3>1 DEF AInv, TypeOK, WonBy
    <3> QED BY <1>10, <3>1, <3>2
  <2> QED BY <2>2, <2>3 DEF Accounted
<1>13. NoneIsSilent'
  <2> SUFFICES ASSUME NEW m \in rung \cup {o}, m \notin gone, ~(toasts[m] > 0 \/ m \in blind)
               PROVE  \E e \in Calls : IsClaim(e, m)' /\ calls'[e].tab # None
    BY <1>1, <1>7 DEF NoneIsSilent, IsClaim
  <2>1. CASE m = o
    BY <1>2, <1>3, <1>6, <1>10, <2>1, AlarmsAssumption
  <2>2. CASE m \in rung
    <3>1. PICK e \in Calls : IsClaim(e, m) /\ calls[e].tab # None
      BY <2>2 DEF AInv, NoneIsSilent, IsClaim
    <3>2. m \in Moments
      BY <2>2 DEF AInv, TypeOK
    <3> QED BY <1>10, <3>1, <3>2
  <2> QED BY <2>1, <2>2
<1>14. SnoozeIsLast' /\ SnoozeIsKept'
  <2>1. \A e \in Calls : Sent(e) => calls'[e] = calls[e] /\ Sent(e)'
    BY <1>5, <1>6 DEF Sent
  <2>2. \A e \in Patches : e \in Patches' /\ calls'[e] = calls[e]
    BY <2>1 DEF Patches
  <2>3. CASE promised \in {0, o}
    <3>1. promised' = 0
      BY <1>1, <2>3
    <3> QED BY <3>1 DEF SnoozeIsLast, SnoozeIsKept
  <2>4. CASE promised \notin {0, o}
    <3>1. cache[t].snoozed # promised
      \* What is due to a tab that sees the snooze is the snooze.
      <4>1. SUFFICES ASSUME cache[t].snoozed = promised PROVE FALSE
        OBVIOUS
      <4>2. o \in {cache[t].snoozed}
        BY <1>1, <2>4, <4>1 DEF Due, DueOccurrences
      <4> QED BY <2>4, <4>1, <4>2
    <3>2. promised' = promised /\ behind' = behind \cup (Patches' \ Patches)
      BY <1>1, <2>4, <3>1
    <3> QED BY <1>7, <2>2, <3>2, SnoozeStays
  <2> QED BY <2>3, <2>4
<1> QED BY <1>8, <1>9, <1>11, <1>12, <1>13, <1>14 DEF AInv

\* The user's changes, which are requests for the backend as well.
LEMMA MutateStep ==
  ASSUME AInv, NEW t \in Tabs, Snooze(t) \/ Toggle(t)
  PROVE  AInv'
<1>1. PICK k \in {"snooze", "on", "off"}, at \in Moments :
        /\ Mutate(t, k, at)
        /\ \/ k = "snooze" /\ promised' = at /\ behind' = Patches
           \/ promised' = 0 /\ behind' = {}
  <2>1. CASE Snooze(t)
    BY <2>1, AlarmsAssumption DEF Snooze, AInv, TypeOK, Moments
  <2>2. CASE Toggle(t)
    BY <2>2, AlarmsAssumption DEF Toggle, Moments
  <2> QED BY <2>1, <2>2
<1> DEFINE p == [New(t, k, at) EXCEPT !.previous = cache[t]]
<1>2. cache[t] \in Alarm
  BY <1>1 DEF Mutate, AInv, TypeOK
<1>3. /\ p \in Call /\ p # None /\ p.kind = k /\ p.tab = t /\ p.at = at /\ p.state = "sent"
  <2>1. p \in Call
    BY <1>2, NewTyped
  <2> QED BY <2>1, ValuesAssumption DEF New
<1>4. calls' = Send(calls, p) /\ Room(1) /\ t \in up
  BY <1>1 DEF Mutate
<1> HIDE DEF p
<1>5. PICK c \in Calls : calls[c] = None /\ calls' = [calls EXCEPT ![c] = p]
  BY <1>3, <1>4, RoomForOne, SendFills DEF AInv, TypeOK
<1>6. /\ calls' \in [Calls -> Call \cup {None}]
      /\ calls'[c] = p /\ \A e \in Calls \ {c} : calls'[e] = calls[e]
  BY <1>3, <1>5 DEF AInv, TypeOK
<1>7. /\ UNCHANGED <<now, row, claimed, up, since, toasts, rung, blind, gone>>
      /\ cache' = Put(cache, t, Patched(cache[t], k, at)) /\ fetch' = Put(fetch, t, None)
  BY <1>1 DEF Mutate, backend
<1>8. shown' \subseteq up /\ incidents' \in 0..MaxIncidents
  <2>1. CASE Snooze(t)
    BY <2>1 DEF Snooze, AInv, TypeOK
  <2>2. CASE Toggle(t)
    <3>1. /\ incidents < MaxIncidents /\ incidents \in 0..MaxIncidents
          /\ incidents' = incidents + 1 /\ shown' = shown /\ shown \subseteq up
      BY <2>2 DEF Toggle, AInv, TypeOK
    <3> QED BY <3>1, AlarmsAssumption
  <2> QED BY <2>1, <2>2
<1>9. TypeOK'
  <2>1. cache' \in [Tabs -> Alarm \cup {None}] /\ fetch' \in [Tabs -> Alarm \cup {Asked, None}]
    BY <1>2, <1>7, PatchedTyped DEF AInv, TypeOK, Put
  <2>2. promised' \in Moments /\ behind' \subseteq Calls
    <3>1. 0 \in Moments
      BY AlarmsAssumption DEF Moments
    <3> QED BY <1>1, <3>1 DEF Patches
  <2> QED BY <1>6, <1>7, <1>8, <2>1, <2>2 DEF AInv, TypeOK
<1>10. Attended' /\ OneWinner' /\ Accounted' /\ NoneIsSilent'
  BY <1>3, <1>4, <1>5, <1>6, <1>7, ClaimsStay DEF Plain
<1>11. SnoozeIsLast' /\ SnoozeIsKept'
  <2>1. CASE k = "snooze" /\ promised' = at /\ behind' = Patches
    <3>1. c \in Patches' /\ calls'[c].kind = "snooze" /\ calls'[c].at = promised'
      BY <1>3, <1>6, <2>1 DEF Patches, Sent
    <3>2. Patches' \subseteq Patches \cup {c}
      BY <1>6 DEF Patches, Sent
    <3> QED BY <2>1, <3>1, <3>2 DEF SnoozeIsLast, SnoozeIsKept
  <2>2. CASE promised' = 0
    BY <2>2 DEF SnoozeIsLast, SnoozeIsKept
  <2> QED BY <1>1, <2>1, <2>2
<1> QED BY <1>9, <1>10, <1>11 DEF AInv

-----------------------------------------------------------------------------
(* The backend and its answers.                                            *)

\* A PATCH is handled, answered or fails: the claims stay as they are.
LEMMA PatchStep ==
  ASSUME AInv, NEW c \in Calls, UpdateAlarm(c) \/ PatchAnswered(c) \/ PatchFails(c)
  PROVE  AInv'
<1>1. calls[c] \in Call /\ calls[c] # None /\ calls[c].kind # "claim"
  BY DEF UpdateAlarm, PatchAnswered, PatchFails, Fails, Sent, AInv, TypeOK
<1>2. /\ UNCHANGED <<now, claimed, up, since, shown, toasts, rung, blind, gone>>
      /\ \A e \in Calls \ {c} : calls'[e] = calls[e]
  BY DEF UpdateAlarm, PatchAnswered, PatchFails, Fails, Drop, AInv, TypeOK, backend, tabs, history
<1>3. /\ calls' \in [Calls -> Call \cup {None}]
      /\ \/ calls'[c] = None
         \/ /\ calls'[c] \in Call /\ calls'[c] # None /\ calls'[c].kind = calls[c].kind
            /\ calls'[c].tab = calls[c].tab
  <2>1. CASE UpdateAlarm(c)
    <3> DEFINE p == [calls[c] EXCEPT !.state = "done"]
    <3>1. calls' = [calls EXCEPT ![c] = p]
      BY <2>1 DEF UpdateAlarm
    <3>2. p \in Call /\ p.kind = calls[c].kind /\ p.tab = calls[c].tab
      BY <1>1 DEF Call
    <3> HIDE DEF p
    <3> QED BY <3>1, <3>2, ValuesAssumption DEF AInv, TypeOK
  <2>2. CASE PatchAnswered(c) \/ PatchFails(c)
    BY <2>2 DEF PatchAnswered, PatchFails, Fails, Drop, AInv, TypeOK
  <2> QED BY <2>1, <2>2
<1>4. /\ row' \in Alarm /\ incidents' \in 0..MaxIncidents
      /\ promised' \in {promised, 0} /\ promised' \in Moments /\ behind' \subseteq Calls
  <2> USE AlarmsAssumption DEF Overtaken, Moments
  <2>1. CASE UpdateAlarm(c)
    <3>1. calls[c].at \in Moments
      BY <1>1 DEF Call
    <3> QED BY <2>1, <3>1, PatchedTyped DEF UpdateAlarm, AInv, TypeOK
  <2>2. CASE PatchAnswered(c)
    BY <2>2 DEF PatchAnswered, AInv, TypeOK, backend, history
  <2>3. CASE PatchFails(c)
    <3>1. /\ incidents < MaxIncidents /\ incidents \in 0..MaxIncidents
          /\ incidents' = incidents + 1
      BY <2>3 DEF PatchFails, Fails, AInv, TypeOK
    <3>2. incidents' \in 0..MaxIncidents
      BY <3>1, AlarmsAssumption
    <3> QED BY <2>3, <3>2 DEF PatchFails, AInv, TypeOK, backend
  <2> QED BY <2>1, <2>2, <2>3
<1>5. cache' \in [Tabs -> Alarm \cup {None}] /\ fetch' \in [Tabs -> Alarm \cup {Asked, None}]
  <2>1. calls[c].previous \in Alarm \cup {None}
    BY <1>1 DEF Call
  <2>2. CASE UpdateAlarm(c)
    BY <2>2 DEF UpdateAlarm, tabs, AInv, TypeOK
  <2>3. CASE PatchAnswered(c)
    BY <2>3 DEF PatchAnswered, Put, AInv, TypeOK
  <2>4. CASE PatchFails(c)
    BY <2>1, <2>4 DEF PatchFails, Put, AInv, TypeOK
  <2> QED BY <2>2, <2>3, <2>4
<1>6. TypeOK'
  BY <1>2, <1>3, <1>4, <1>5 DEF AInv, TypeOK
<1>7. Attended' /\ OneWinner' /\ Accounted' /\ NoneIsSilent'
  <2>1. calls'[c] # None => calls'[c].tab \in up' \cup {None}
    BY <1>1, <1>2, <1>3 DEF AInv, Attended
  <2> QED BY <1>1, <1>2, <1>3, <2>1, ClaimsStay DEF Plain
<1>8. SnoozeIsLast' /\ SnoozeIsKept'
  <2>1. \A e \in Calls \ {c} : /\ e \in Patches' <=> e \in Patches
                               /\ calls'[e] = calls[e]
    BY <1>2 DEF Patches, Sent
  <2>2. CASE promised' = 0
    BY <2>2 DEF SnoozeIsLast, SnoozeIsKept
  <2>3. CASE promised' # 0 /\ ~PatchAnswered(c)
    <3>1. promised' = promised /\ behind' = behind \ {c}
      BY <2>3 DEF UpdateAlarm, PatchFails, Overtaken
    <3>2. c \notin Patches'
      BY <1>1, <2>3 DEF UpdateAlarm, PatchFails, Fails, Drop, Patches, Sent, AInv, TypeOK, Call
    <3>3. SnoozeIsLast'
      BY <2>1, <2>3, <3>1, <3>2 DEF AInv, SnoozeIsLast, Patches
    <3>4. SnoozeIsKept'
      <4>1. CASE UpdateAlarm(c) /\ calls[c].kind = "snooze" /\ calls[c].at = promised
        <5>1. row' = [row EXCEPT !.enabled = TRUE, !.snoozed = promised]
          BY <4>1 DEF UpdateAlarm, Patched
        <5>2. row'.enabled /\ row'.snoozed = promised
          BY <5>1 DEF AInv, TypeOK, Alarm
        <5> QED BY <3>1, <5>2 DEF SnoozeIsKept
      <4>2. CASE UpdateAlarm(c) /\ ~(calls[c].kind = "snooze" /\ calls[c].at = promised)
        <5>1. c \in behind
          BY <2>3, <3>1, <4>2 DEF UpdateAlarm, AInv, SnoozeIsLast, Patches
        <5>2. row.snoozed # promised
          BY <2>3, <4>2, <5>1 DEF UpdateAlarm, Overtaken
        <5>3. PICK d \in Patches : calls[d].kind = "snooze" /\ calls[d].at = promised
          BY <2>3, <3>1, <5>2 DEF AInv, SnoozeIsKept
        <5>4. d \in Calls \ {c}
          BY <4>2, <5>3 DEF Patches
        <5>5. d \in Patches' /\ calls'[d] = calls[d]
          BY <2>1, <5>3, <5>4
        <5> QED BY <3>1, <5>3, <5>5 DEF SnoozeIsKept
      <4>3. CASE PatchFails(c)
        <5>1. row' = row /\ ~(Sent(c) /\ calls[c].kind = "snooze" /\ calls[c].at = promised)
          BY <2>3, <4>3 DEF PatchFails, Overtaken, backend
        <5>2. \A d \in Patches : calls[d].kind = "snooze" /\ calls[d].at = promised => d # c
          BY <5>1 DEF Patches
        <5>3. \A d \in Patches : d # c => d \in Patches' /\ calls'[d] = calls[d]
          BY <2>1 DEF Patches
        <5> QED BY <3>1, <5>1, <5>2, <5>3 DEF AInv, SnoozeIsKept
      <4> QED BY <2>3, <4>1, <4>2, <4>3
    <3> QED BY <3>3, <3>4
  <2>4. CASE PatchAnswered(c)
    <3>1. row' = row /\ promised' = promised /\ behind' = behind
      BY <2>4 DEF PatchAnswered, backend, history
    <3>2. c \notin Patches /\ c \notin Patches'
      BY <1>3, <2>4 DEF PatchAnswered, Drop, Patches, Sent, AInv, TypeOK
    <3>3. Patches' = Patches /\ \A e \in Patches : calls'[e] = calls[e]
      BY <2>1, <3>2 DEF Patches, Sent
    <3> QED BY <3>1, <3>3, SnoozeStays
  <2> QED BY <2>2, <2>3, <2>4
<1> QED BY <1>6, <1>7, <1>8 DEF AInv

\* The claim of an occurrence is handled: the first one wins.
LEMMA ClaimStep ==
  ASSUME AInv, NEW c \in Calls, Claim(c)
  PROVE  AInv'
<1>1. /\ calls[c] \in Call /\ calls[c] # None /\ calls[c].kind = "claim"
      /\ calls[c].state = "sent" /\ calls[c].at \in Moments /\ IsClaim(c, calls[c].at)
  BY DEF Claim, Sent, AInv, TypeOK, Call, IsClaim
<1>2. PICK o \in Moments : o = calls[c].at
  BY <1>1
<1> DEFINE p == [calls[c] EXCEPT !.state = IF o \in claimed THEN "lost" ELSE "done"]
<1>3. /\ p \in Call /\ p # None /\ p.kind = "claim" /\ p.at = o /\ p.tab = calls[c].tab
      /\ p.state = IF o \in claimed THEN "lost" ELSE "done"
  <2>1. /\ p \in Call /\ p.kind = "claim" /\ p.at = o /\ p.tab = calls[c].tab
        /\ p.state = IF o \in claimed THEN "lost" ELSE "done"
    BY <1>1, <1>2 DEF Call
  <2> QED BY <2>1, ValuesAssumption
<1>4. /\ calls' = [calls EXCEPT ![c] = p] /\ claimed' = claimed \cup {o}
      /\ UNCHANGED <<now, row, tabs, incidents, history>>
  BY <1>2 DEF Claim
<1> HIDE DEF p
<1>5. /\ calls' \in [Calls -> Call \cup {None}]
      /\ calls'[c] = p /\ \A e \in Calls \ {c} : calls'[e] = calls[e]
  BY <1>3, <1>4 DEF AInv, TypeOK
<1>6. TypeOK'
  BY <1>4, <1>5 DEF AInv, TypeOK, tabs, history
<1>7. Attended'
  BY <1>1, <1>3, <1>4, <1>5 DEF AInv, Attended, tabs
<1>8. \A e \in Calls, m \in Moments :
        /\ IsClaim(e, m)' <=> IsClaim(e, m)
        /\ e # c => calls'[e] = calls[e] /\ (WonBy(e, m)' <=> WonBy(e, m))
        /\ WonBy(c, m)' <=> m = o /\ o \notin claimed
        /\ ~WonBy(c, m)
        /\ calls'[e] # None => calls'[e].tab = calls[e].tab
  BY <1>1, <1>2, <1>3, <1>5 DEF IsClaim, WonBy
<1>9. OneWinner'
  <2> SUFFICES ASSUME NEW m \in Moments
               PROVE  /\ toasts[m] <= 1
                      /\ toasts[m] > 0 => m \in claimed \cup {o}
                      /\ \A e \in Calls : WonBy(e, m)' =>
                           /\ m \in claimed \cup {o} /\ toasts[m] = 0
                           /\ \A d \in Calls : WonBy(d, m)' => d = e
    BY <1>4 DEF OneWinner, history
  <2>1. /\ toasts[m] <= 1 /\ toasts[m] \in 0..2
        /\ toasts[m] > 0 => m \in claimed
        /\ \A e \in Calls : WonBy(e, m) =>
             /\ m \in claimed /\ toasts[m] = 0
             /\ \A d \in Calls : WonBy(d, m) => d = e
    BY DEF AInv, OneWinner, TypeOK
  <2>2. CASE m = o /\ o \notin claimed
    BY <1>8, <2>1, <2>2
  <2>3. CASE ~(m = o /\ o \notin claimed)
    BY <1>8, <2>1, <2>3
  <2> QED BY <2>2, <2>3
<1>10. Accounted'
  <2>1. \A e \in Calls, m \in Moments : IsClaim(e, m)' =>
          /\ calls'[e].tab = None => m \in gone
          /\ calls'[e].state = "lost" => m \in claimed \cup {o}
    <3> SUFFICES ASSUME NEW e \in Calls, NEW m \in Moments, IsClaim(e, m)'
                 PROVE  /\ calls'[e].tab = None => m \in gone
                        /\ calls'[e].state = "lost" => m \in claimed \cup {o}
      OBVIOUS
    <3>1. IsClaim(e, m) /\ calls'[e].tab = calls[e].tab
      BY <1>8 DEF IsClaim
    <3>2. /\ calls[e].tab = None => m \in gone
          /\ calls[e].state = "lost" => m \in claimed
      BY <3>1 DEF AInv, Accounted
    <3>3. CASE e = c
      BY <1>2, <1>3, <1>5, <3>1, <3>2, <3>3 DEF IsClaim
    <3>4. CASE e # c
      BY <1>5, <3>2, <3>4
    <3> QED BY <3>3, <3>4
  <2>2. \A m \in claimed \cup {o} :
          toasts[m] > 0 \/ m \in blind \/ m \in gone
            \/ \E e \in Calls : WonBy(e, m)' /\ calls'[e].tab # None
    <3> SUFFICES ASSUME NEW m \in claimed \cup {o}, ~(toasts[m] > 0 \/ m \in blind \/ m \in gone)
                 PROVE  \E e \in Calls : WonBy(e, m)' /\ calls'[e].tab # None
      OBVIOUS
    <3>1. CASE m \in claimed
      <4>1. PICK e \in Calls : WonBy(e, m) /\ calls[e].tab # None
        BY <3>1 DEF AInv, Accounted
      <4>2. m \in Moments
        BY <3>1 DEF AInv, TypeOK
      <4>3. e # c
        BY <1>8, <4>1, <4>2
      <4> QED BY <1>8, <4>1, <4>2, <4>3
    <3>2. CASE m = o /\ o \notin claimed
      <4>1. WonBy(c, m)'
        BY <1>8, <3>2
      <4>2. calls[c].tab # None
        BY <1>1, <1>2, <3>2 DEF AInv, Accounted
      <4> QED BY <1>3, <1>5, <4>1, <4>2
    <3> QED BY <3>1, <3>2
  <2> QED BY <1>4, <2>1, <2>2 DEF Accounted, history
<1>11. NoneIsSilent'
  <2> SUFFICES ASSUME NEW m \in rung, m \notin gone, ~(toasts[m] > 0 \/ m \in blind)
               PROVE  \E e \in Calls : IsClaim(e, m)' /\ calls'[e].tab # None
    BY <1>4 DEF NoneIsSilent, IsClaim, history
  <2>1. PICK e \in Calls : IsClaim(e, m) /\ calls[e].tab # None
    BY DEF AInv, NoneIsSilent, IsClaim
  <2>2. m \in Moments
    BY DEF AInv, TypeOK
  <2>3. IsClaim(e, m)' /\ calls'[e] # None
    BY <1>8, <2>1, <2>2 DEF IsClaim
  <2> QED BY <1>8, <2>1, <2>2, <2>3
<1>12. SnoozeIsLast' /\ SnoozeIsKept'
  <2>1. Patches' = Patches /\ \A e \in Patches : calls'[e] = calls[e]
    BY <1>1, <1>3, <1>5 DEF Patches, Sent
  <2> QED BY <1>4, <2>1, SnoozeStays DEF history
<1> QED BY <1>6, <1>7, <1>9, <1>10, <1>11, <1>12 DEF AInv

\* A claim is answered or fails: the slot of the request is free again, and
\* the tab has announced the occurrence unless another one was the first.
LEMMA ClaimEnds ==
  ASSUME AInv, NEW c \in Calls, ClaimAnswered(c) \/ ClaimFails(c)
  PROVE  AInv'
<1>1. /\ calls[c] \in Call /\ calls[c] # None /\ calls[c].kind = "claim"
      /\ calls[c].state \in {"sent", "done", "lost"} /\ calls[c].tab \in up \cup {None}
  BY DEF ClaimAnswered, ClaimFails, Fails, AInv, TypeOK, Attended, Call
<1>2. PICK o \in Moments : o = calls[c].at /\ IsClaim(c, o)
  BY <1>1 DEF Call, IsClaim
<1>3. /\ calls' \in [Calls -> Call \cup {None}]
      /\ calls'[c] = None /\ \A e \in Calls \ {c} : calls'[e] = calls[e]
      /\ UNCHANGED <<now, row, claimed, up, cache, since, fetch, rung, gone, promised, behind>>
  BY DEF ClaimAnswered, ClaimFails, Fails, Drop, AInv, TypeOK, backend
<1>4. \A e \in Calls, m \in Moments :
        /\ e # c => (IsClaim(e, m)' <=> IsClaim(e, m)) /\ (WonBy(e, m)' <=> WonBy(e, m))
        /\ ~IsClaim(c, m)' /\ ~WonBy(c, m)'
        /\ WonBy(c, m) <=> m = o /\ calls[c].state = "done"
  BY <1>1, <1>2, <1>3 DEF IsClaim, WonBy
<1>5. \/ /\ calls[c].tab # None /\ calls[c].state = "done"
         /\ toasts' = [toasts EXCEPT ![o] = 1] /\ blind' = blind
      \/ /\ calls[c].tab = None \/ calls[c].state = "lost"
         /\ toasts' = toasts /\ blind' = blind
      \/ toasts' = toasts /\ blind' = blind \cup {o}
  <2>1. CASE ClaimFails(c)
    BY <1>2, <2>1 DEF ClaimFails
  <2>2. CASE ClaimAnswered(c) /\ calls[c].tab # None /\ calls[c].state = "done"
    <3>1. toasts[o] = 0
      BY <1>4, <2>2 DEF AInv, OneWinner
    <3>2. toasts' = [toasts EXCEPT ![o] = IF @ = 2 THEN 2 ELSE @ + 1] /\ blind' = blind
      BY <1>2, <2>2 DEF ClaimAnswered
    <3>3. (IF toasts[o] = 2 THEN 2 ELSE toasts[o] + 1) = 1
      BY <3>1
    <3> QED BY <2>2, <3>2, <3>3
  <2>3. CASE ClaimAnswered(c) /\ ~(calls[c].tab # None /\ calls[c].state = "done")
    BY <1>1, <2>3 DEF ClaimAnswered
  <2> QED BY <2>1, <2>2, <2>3
<1>6. blind \subseteq blind' /\ blind' \subseteq Moments
  BY <1>5 DEF AInv, TypeOK
<1>7. /\ toasts' \in [Moments -> 0..2]
      /\ \A m \in Moments : toasts[m] > 0 => toasts'[m] > 0
      /\ \A m \in Moments \ {o} : toasts'[m] = toasts[m]
  BY <1>5 DEF AInv, TypeOK
<1>8. TypeOK'
  <2>1. shown' \subseteq up
    BY <1>1 DEF ClaimAnswered, ClaimFails, Fails, Kept, AInv, TypeOK
  <2>2. incidents' \in 0..MaxIncidents
    <3>1. CASE ClaimAnswered(c)
      BY <3>1 DEF ClaimAnswered, AInv, TypeOK
    <3>2. CASE ClaimFails(c)
      <4>1. /\ incidents < MaxIncidents /\ incidents \in 0..MaxIncidents
            /\ incidents' = incidents + 1
        BY <3>2 DEF ClaimFails, Fails, AInv, TypeOK
      <4> QED BY <4>1, AlarmsAssumption
    <3> QED BY <3>1, <3>2
  <2> QED BY <1>3, <1>6, <1>7, <2>1, <2>2 DEF AInv, TypeOK
<1>9. Attended'
  BY <1>3 DEF AInv, Attended
<1>10. OneWinner'
  <2> SUFFICES ASSUME NEW m \in Moments
               PROVE  /\ toasts'[m] <= 1
                      /\ toasts'[m] > 0 => m \in claimed
                      /\ \A e \in Calls : WonBy(e, m)' =>
                           /\ m \in claimed /\ toasts'[m] = 0
                           /\ \A d \in Calls : WonBy(d, m)' => d = e
    BY <1>3 DEF OneWinner
  <2>1. /\ toasts[m] <= 1
        /\ toasts[m] > 0 => m \in claimed
        /\ \A e \in Calls : WonBy(e, m) =>
             /\ m \in claimed /\ toasts[m] = 0
             /\ \A d \in Calls : WonBy(d, m) => d = e
    BY DEF AInv, OneWinner
  <2>2. CASE toasts'[m] = toasts[m]
    BY <1>4, <2>1, <2>2
  <2>3. CASE toasts'[m] # toasts[m]
    <3>1. m = o /\ calls[c].state = "done" /\ toasts'[m] = 1
      BY <1>5, <1>7, <2>3 DEF AInv, TypeOK
    <3>2. WonBy(c, m)
      BY <1>4, <3>1
    <3>3. m \in claimed /\ \A e \in Calls : ~WonBy(e, m)'
      BY <1>4, <2>1, <3>2
    <3> QED BY <3>1, <3>3
  <2> QED BY <2>2, <2>3
<1>11. Accounted'
  <2>1. \A e \in Calls, m \in Moments : IsClaim(e, m)' =>
          /\ calls'[e].tab = None => m \in gone
          /\ calls'[e].state = "lost" => m \in claimed
    BY <1>3, <1>4 DEF AInv, Accounted
  <2>2. \A m \in claimed :
          toasts'[m] > 0 \/ m \in blind' \/ m \in gone
            \/ \E e \in Calls : WonBy(e, m)' /\ calls'[e].tab # None
    <3> SUFFICES ASSUME NEW m \in claimed, ~(toasts'[m] > 0 \/ m \in blind' \/ m \in gone)
                 PROVE  \E e \in Calls : WonBy(e, m)' /\ calls'[e].tab # None
      OBVIOUS
    <3>1. m \in Moments
      BY DEF AInv, TypeOK
    <3>2. PICK e \in Calls : WonBy(e, m) /\ calls[e].tab # None
      BY <1>6, <1>7, <3>1 DEF AInv, Accounted
    <3>3. e # c
      <4>1. SUFFICES ASSUME e = c PROVE FALSE
        OBVIOUS
      <4>2. m = o /\ calls[c].state = "done" /\ calls[c].tab # None
        BY <1>4, <3>1, <3>2, <4>1
      <4>3. toasts' = [toasts EXCEPT ![o] = 1] \/ o \in blind'
        BY <1>5, <4>2
      <4> QED BY <4>2, <4>3 DEF AInv, TypeOK
    <3> QED BY <1>3, <1>4, <3>1, <3>2, <3>3
  <2> QED BY <1>3, <2>1, <2>2 DEF Accounted
<1>12. NoneIsSilent'
  <2> SUFFICES ASSUME NEW m \in rung, m \notin gone, ~(toasts'[m] > 0 \/ m \in blind')
               PROVE  \E e \in Calls : IsClaim(e, m)' /\ calls'[e].tab # None
    BY <1>3 DEF NoneIsSilent, IsClaim
  <2>1. m \in Moments
    BY DEF AInv, TypeOK
  <2>2. PICK e \in Calls : IsClaim(e, m) /\ calls[e].tab # None
    BY <1>6, <1>7, <2>1 DEF AInv, NoneIsSilent, IsClaim
  <2>3. CASE e # c
    BY <1>3, <1>4, <2>1, <2>2, <2>3
  <2>4. CASE e = c
    <3>1. m = o /\ calls[c].tab # None
      BY <1>2, <2>2, <2>4 DEF IsClaim
    <3>2. calls[c].state = "lost"
      <4>1. ~(toasts' = [toasts EXCEPT ![o] = 1]) /\ o \notin blind'
        BY <3>1 DEF AInv, TypeOK
      <4> QED BY <1>5, <3>1, <4>1
    <3>3. m \in claimed
      BY <1>2, <3>1, <3>2 DEF AInv, Accounted
    <3>4. PICK d \in Calls : WonBy(d, m)' /\ calls'[d].tab # None
      BY <1>3, <1>11, <3>3 DEF Accounted
    <3> QED BY <3>4 DEF WonBy
  <2> QED BY <2>3, <2>4
<1>13. SnoozeIsLast' /\ SnoozeIsKept'
  <2>1. Patches' = Patches /\ \A e \in Patches : calls'[e] = calls[e]
    BY <1>1, <1>3 DEF Patches, Sent
  <2> QED BY <1>3, <2>1, SnoozeStays
<1> QED BY <1>8, <1>9, <1>10, <1>11, <1>12, <1>13 DEF AInv

-----------------------------------------------------------------------------
(* The theorems.                                                           *)

\* The invariant that the others rest on: an occurrence is claimed once, by a
\* request whose fate is known.
THEOREM AlarmsInvariant == Spec => []AInv
<1>1. Init => AInv
  <2> SUFFICES ASSUME Init PROVE AInv
    OBVIOUS
  <2>1. 0 \in Moments /\ 0 \in 0..MaxIncidents
    BY AlarmsAssumption DEF Moments
  <2>2. TypeOK
    <3>1. [enabled |-> TRUE, snoozed |-> 0, fired |-> 0] \in Alarm
      BY <2>1 DEF Alarm
    <3>2. row \in Alarm /\ now \in Moments
      BY <2>1, <3>1 DEF Init
    <3>3. /\ cache \in [Tabs -> Alarm \cup {None}] /\ since \in [Tabs -> Moments]
          /\ fetch \in [Tabs -> Alarm \cup {Asked, None}]
          /\ calls \in [Calls -> Call \cup {None}]
          /\ toasts \in [Moments -> 0..2]
      BY <2>1 DEF Init
    <3> QED BY <2>1, <3>2, <3>3 DEF Init, TypeOK
  <2>3. Attended /\ OneWinner /\ Accounted
    BY DEF Init, Attended, OneWinner, Accounted, WonBy, IsClaim
  <2>4. NoneIsSilent /\ SnoozeIsLast /\ SnoozeIsKept
    BY DEF Init, NoneIsSilent, SnoozeIsLast, SnoozeIsKept
  <2> QED BY <2>2, <2>3, <2>4 DEF AInv
<1>2. AInv /\ [Next]_vars => AInv'
  <2> SUFFICES ASSUME AInv, [Next]_vars PROVE AInv'
    OBVIOUS
  <2>1. CASE Advance
    BY <2>1, QuietStep
  <2>2. ASSUME NEW t \in Tabs, Tab(t) PROVE AInv'
    BY <2>2, QuietStep, CloseStep, TickStep, MutateStep DEF Tab
  <2>3. ASSUME NEW c \in Calls, Request(c) PROVE AInv'
    BY <2>3, PatchStep, ClaimStep, ClaimEnds DEF Request
  <2>4. CASE UNCHANGED vars
    <3> USE <2>4 DEF vars, backend, tabs, history
    <3>1. TypeOK' /\ Attended'
      BY DEF AInv, TypeOK, Attended
    <3>2. OneWinner' /\ Accounted'
      BY DEF AInv, OneWinner, Accounted, WonBy, IsClaim
    <3>3. NoneIsSilent' /\ SnoozeIsLast' /\ SnoozeIsKept'
      BY DEF AInv, NoneIsSilent, SnoozeIsLast, SnoozeIsKept, Patches, Sent
    <3> QED BY <3>1, <3>2, <3>3 DEF AInv
  <2> QED BY <2>1, <2>2, <2>3, <2>4 DEF Next
<1> QED BY <1>1, <1>2, PTL DEF Spec

\* TypeOK of Alarms.
THEOREM AlarmsTyped == Spec => []TypeOK
<1>1. AInv => TypeOK
  BY DEF AInv
<1> QED BY <1>1, AlarmsInvariant, PTL

\* "Exactly one INSERT succeeds and only that tab shows the toast"
\* (scheduleClaim.ts:9), however many tabs ring an occurrence and however
\* often, and whatever is lost between them and the backend.
THEOREM ToastsAreSingle == Spec => []AnnouncedOnce
<1>1. AInv => AnnouncedOnce
  BY DEF AInv, OneWinner, AnnouncedOnce
<1> QED BY <1>1, AlarmsInvariant, PTL

\* "A duplicate toast in a rare failure mode beats a silently missed alarm"
\* (scheduleClaim.ts:14): an occurrence that rings is announced, or a tab has
\* still to learn whether it is to, or was closed before it learnt.
THEOREM RingsAreHeard == Spec => []NoneIsSilent
<1>1. AInv => NoneIsSilent
  BY DEF AInv
<1> QED BY <1>1, AlarmsInvariant, PTL

\* "A snooze has to re-arm it or the snooze silently never arrives"
\* (alarmSchedule.ts:168): till it rings or the user turns the switch, the last
\* snooze is in the table or on its way, whatever arrives after it was made, but
\* for a PATCH that does not know of it, sent before it or by a tab that rang
\* without seeing it, which then comes after it; or unless its own request failed.
THEOREM SnoozesAreKept == Spec => []SnoozeIsKept
<1>1. AInv => SnoozeIsKept
  BY DEF AInv
<1> QED BY <1>1, AlarmsInvariant, PTL
=============================================================================
