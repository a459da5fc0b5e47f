-------------------------- MODULE PrefsSync_proofs --------------------------
(***************************************************************************)
(* Proofs about PrefsSync, for any set of keys and any number of writes    *)
(* and troubles.  No value anywhere is newer than the last write of its    *)
(* key, and the queue holds nothing but last writes: an entry that equals  *)
(* what a confirmed batch carried is therefore stored as the newest.       *)
(***************************************************************************)
EXTENDS PrefsSync, TLAPS

Requests == [kind : {"put", "get", "blind"}, batch : Batch]

\* One request of that kind is in the bag n when w says so, and otherwise none.
One(n, kind, w) ==
  /\ w = "sent" <=> \E m \in DOMAIN n : m.kind = kind
  /\ \A m, o \in DOMAIN n : m.kind = kind /\ o.kind = kind => m = o /\ n[m] = 1

\* What is under way when f and h are the states of the two awaited requests
\* and s is the batch of the PUT.
Link(n, f, s, h) ==
  /\ IsABag(n) /\ DOMAIN n \subseteq Requests
  /\ One(n, "put", f) /\ One(n, "get", h)
  /\ \A m \in DOMAIN n : m.kind = "put" => m.batch = s

\* b holds no value newer than the last write of its key, of w writes.
Older(b, new, w) ==
  \A k \in Keys : b[k] <= w /\ (new[k] # Nil => b[k] <= new[k])

OlderNet(n, new, w) == \A m \in DOMAIN n : Older(m.batch, new, w)

\* The queue holds last writes only.
Latest(p, new) == \A k \in Keys : p[k] \in {Nil, new[k]}

Within(a, b) == \A k \in Keys : a[k] <= b[k]

Aged ==
  /\ Older(server, newest, writes) /\ Older(stored, newest, writes)
  /\ Older(sent, newest, writes) /\ Older(fetched, newest, writes)
  /\ Older(cache, newest, writes) /\ Older(newest, newest, writes)
  /\ OlderNet(net, newest, writes)
  /\ Latest(pending, newest)

States == {"none", "sent"} \cup Answers

\* TypeOK but for what is under way, which Link describes.
Typed ==
  /\ server \in Batch /\ valid \in BOOLEAN
  /\ flight \in States /\ hydrating \in States
  /\ sent \in Batch /\ fetched \in Batch /\ cache \in Batch /\ pending \in Batch
  /\ debounce \in BOOLEAN /\ retry \in BOOLEAN /\ flushAgain \in BOOLEAN
  /\ hydrated \in BOOLEAN /\ authed \in BOOLEAN /\ shown \in BOOLEAN
  /\ newest \in Batch /\ refused \subseteq Keys /\ stored \in Batch
  /\ writes \in 0..MaxWrites /\ troubles \in 0..MaxTroubles

PInv ==
  /\ Typed
  /\ Link(net, flight, sent, hydrating)
  /\ Aged
  /\ flight = "ok" => Within(sent, stored)
  /\ EditsAreDurable

LEMMA BatchTyped ==
  /\ Nil \in Int /\ Nil < 0
  /\ Values \subseteq Nat /\ Nil \notin Values
  /\ \A b \in Batch, k \in Keys : b[k] \in Int /\ b[k] >= Nil
  /\ Empty \in Batch
BY PrefsAssumption DEF Nil, Values, Batch, Empty

-----------------------------------------------------------------------------
(* The bag of requests.                                                    *)

Added(n, r) == n (+) SetToBag({r})

LEMMA AddBag ==
  ASSUME NEW n, IsABag(n), NEW r
  PROVE  /\ IsABag(Added(n, r))
         /\ DOMAIN Added(n, r) = DOMAIN n \cup {r}
         /\ \A m \in DOMAIN n : m # r => Added(n, r)[m] = n[m]
         /\ r \notin DOMAIN n => Added(n, r)[r] = 1
<1> DEFINE b == SetToBag({r})
<1>1. DOMAIN b = {r} /\ b[r] = 1
  BY DEF SetToBag
<1>2. \A m \in DOMAIN n : n[m] \in Nat /\ n[m] > 0
  BY DEF IsABag
<1> HIDE DEF b
<1> DEFINE c == n (+) b
<1>3. c = [e \in DOMAIN n \cup DOMAIN b |->
             (IF e \in DOMAIN n THEN n[e] ELSE 0) + (IF e \in DOMAIN b THEN b[e] ELSE 0)]
  BY DEF (+)
<1> HIDE DEF c
<1>4. DOMAIN c = DOMAIN n \cup {r}
  BY <1>1, <1>3
<1>5. \A m \in DOMAIN n : m # r => c[m] = n[m]
  BY <1>1, <1>2, <1>3
<1>6. r \notin DOMAIN n => c[r] = 1
  BY <1>1, <1>3
<1>7. r \in DOMAIN n => c[r] = n[r] + 1
  BY <1>1, <1>3
<1>8. \A m \in DOMAIN c : c[m] \in {i \in Nat : i > 0}
  BY <1>2, <1>4, <1>5, <1>6, <1>7
<1>9. IsABag(c)
  BY <1>3, <1>8 DEF IsABag
<1> QED BY <1>4, <1>5, <1>6, <1>9 DEF Added, c, b

\* What Take leaves of it.
Dropped(n, m) == n (-) SetToBag({m})

LEMMA DropBag ==
  ASSUME NEW n, IsABag(n), NEW m \in DOMAIN n
  PROVE  /\ IsABag(Dropped(n, m))
         /\ DOMAIN Dropped(n, m) \subseteq DOMAIN n
         /\ \A x \in DOMAIN n : x # m => x \in DOMAIN Dropped(n, m) /\ Dropped(n, m)[x] = n[x]
         /\ n[m] = 1 => m \notin DOMAIN Dropped(n, m)
<1> DEFINE b == SetToBag({m})
           c == [e \in DOMAIN n |-> IF e \in DOMAIN b THEN n[e] - b[e] ELSE n[e]]
           d == n (-) b
<1>1. DOMAIN b = {m} /\ b[m] = 1
  BY DEF SetToBag
<1>2. \A x \in DOMAIN n : n[x] \in Nat /\ n[x] > 0
  BY DEF IsABag
<1>3. d = [e \in {x \in DOMAIN c : c[x] > 0} |-> c[e]]
  BY DEF (-)
<1> HIDE DEF b
<1>4. DOMAIN c = DOMAIN n /\ c[m] = n[m] - 1 /\ \A x \in DOMAIN n : x # m => c[x] = n[x]
  BY <1>1
<1>5. \A x \in DOMAIN n : c[x] \in Int
  BY <1>2, <1>4
<1> HIDE DEF c, d
<1>6. DOMAIN d = {x \in DOMAIN n : c[x] > 0} /\ \A x \in DOMAIN d : d[x] = c[x]
  BY <1>3, <1>4
<1>7. IsABag(d)
  BY <1>3, <1>5, <1>6 DEF IsABag
<1>8. \A x \in DOMAIN n : x # m => x \in DOMAIN d /\ d[x] = n[x]
  BY <1>2, <1>4, <1>6
<1>9. n[m] = 1 => m \notin DOMAIN d
  BY <1>4, <1>6
<1> QED BY <1>6, <1>7, <1>8, <1>9 DEF Dropped, d, b

LEMMA RequestTyped ==
  ASSUME NEW kind \in {"put", "get", "blind"}, NEW batch \in Batch
  PROVE  /\ Request(kind, batch) \in Requests
         /\ Request(kind, batch).kind = kind /\ Request(kind, batch).batch = batch
BY DEF Request, Requests

LEMMA SendBlind ==
  ASSUME NEW n, NEW f, NEW s, NEW h, Link(n, f, s, h), NEW b \in Batch
  PROVE  /\ Link(Send(n, "blind", b), f, s, h)
         /\ \A new, w : OlderNet(n, new, w) /\ Older(b, new, w)
              => OlderNet(Send(n, "blind", b), new, w)
<1> DEFINE r == Request("blind", b)
           c == Added(n, r)
<1>1. r \in Requests /\ r.kind = "blind" /\ r.batch = b
  BY RequestTyped
<1>2. /\ IsABag(c) /\ DOMAIN c = DOMAIN n \cup {r}
      /\ \A m \in DOMAIN n : m # r => c[m] = n[m]
  <2>1. IsABag(n)
    BY DEF Link
  <2> QED BY <2>1, AddBag
<1> HIDE DEF c, r
<1>3. One(c, "put", f)
  BY <1>1, <1>2 DEF Link, One
<1>4. One(c, "get", h)
  BY <1>1, <1>2 DEF Link, One
<1>5. Link(c, f, s, h)
  BY <1>1, <1>2, <1>3, <1>4 DEF Link
<1>6. \A new, w : OlderNet(n, new, w) /\ Older(b, new, w) => OlderNet(c, new, w)
  BY <1>1, <1>2 DEF OlderNet
<1> QED BY <1>5, <1>6 DEF c, r, Added, Send

LEMMA SendPut ==
  ASSUME NEW n, NEW f, NEW s, NEW h, Link(n, f, s, h), f # "sent", NEW b \in Batch
  PROVE  /\ Link(Send(n, "put", b), "sent", b, h)
         /\ \A new, w : OlderNet(n, new, w) /\ Older(b, new, w)
              => OlderNet(Send(n, "put", b), new, w)
<1> DEFINE r == Request("put", b)
           c == Added(n, r)
<1>1. r \in Requests /\ r.kind = "put" /\ r.batch = b
  BY RequestTyped
<1>2. \A m \in DOMAIN n : m.kind # "put"
  BY DEF Link, One
<1>3. /\ IsABag(c) /\ DOMAIN c = DOMAIN n \cup {r}
      /\ \A m \in DOMAIN n : m # r => c[m] = n[m]
      /\ r \notin DOMAIN n => c[r] = 1
  <2>1. IsABag(n)
    BY DEF Link
  <2> QED BY <2>1, AddBag
<1> HIDE DEF c, r
<1>0. c[r] = 1
  BY <1>1, <1>2, <1>3
<1>4. One(c, "put", "sent")
  BY <1>0, <1>1, <1>2, <1>3 DEF One
<1>5. One(c, "get", h)
  BY <1>1, <1>3 DEF Link, One
<1>6. Link(c, "sent", b, h)
  BY <1>1, <1>2, <1>3, <1>4, <1>5 DEF Link
<1>7. \A new, w : OlderNet(n, new, w) /\ Older(b, new, w) => OlderNet(c, new, w)
  BY <1>1, <1>3 DEF OlderNet
<1> QED BY <1>6, <1>7 DEF c, r, Added, Send

LEMMA SendGet ==
  ASSUME NEW n, NEW f, NEW s, NEW h, Link(n, f, s, h), h # "sent", NEW b \in Batch
  PROVE  /\ Link(Send(n, "get", b), f, s, "sent")
         /\ \A new, w : OlderNet(n, new, w) /\ Older(b, new, w)
              => OlderNet(Send(n, "get", b), new, w)
<1> DEFINE r == Request("get", b)
           c == Added(n, r)
<1>1. r \in Requests /\ r.kind = "get" /\ r.batch = b
  BY RequestTyped
<1>2. \A m \in DOMAIN n : m.kind # "get"
  BY DEF Link, One
<1>3. /\ IsABag(c) /\ DOMAIN c = DOMAIN n \cup {r}
      /\ \A m \in DOMAIN n : m # r => c[m] = n[m]
      /\ r \notin DOMAIN n => c[r] = 1
  <2>1. IsABag(n)
    BY DEF Link
  <2> QED BY <2>1, AddBag
<1> HIDE DEF c, r
<1>0. c[r] = 1
  BY <1>1, <1>2, <1>3
<1>4. One(c, "get", "sent")
  BY <1>0, <1>1, <1>2, <1>3 DEF One
<1>5. One(c, "put", f)
  BY <1>1, <1>3 DEF Link, One
<1>6. Link(c, f, s, "sent")
  BY <1>1, <1>3, <1>4, <1>5 DEF Link
<1>7. \A new, w : OlderNet(n, new, w) /\ Older(b, new, w) => OlderNet(c, new, w)
  BY <1>1, <1>3 DEF OlderNet
<1> QED BY <1>6, <1>7 DEF c, r, Added, Send

\* A request that arrives or is lost: the one who waits for it is told.
LEMMA Taken ==
  ASSUME NEW n, NEW f, NEW s, NEW h, Link(n, f, s, h), NEW m \in DOMAIN n
  PROVE  /\ m.kind = "blind" => Link(Dropped(n, m), f, s, h)
         /\ m.kind = "put" => \A g : g # "sent" => Link(Dropped(n, m), g, s, h)
         /\ m.kind = "get" => \A g : g # "sent" => Link(Dropped(n, m), f, s, g)
         /\ \A new, w : OlderNet(n, new, w) => OlderNet(Dropped(n, m), new, w)
<1> DEFINE c == Dropped(n, m)
<1>1. /\ IsABag(c) /\ DOMAIN c \subseteq DOMAIN n
      /\ \A x \in DOMAIN n : x # m => x \in DOMAIN c /\ c[x] = n[x]
      /\ n[m] = 1 => m \notin DOMAIN c
  BY DropBag DEF Link
<1> HIDE DEF c
<1>2. m.kind # "put" => One(c, "put", f)
  BY <1>1 DEF Link, One
<1>3. m.kind # "get" => One(c, "get", h)
  BY <1>1 DEF Link, One
<1>4. ASSUME m.kind = "put", NEW g, g # "sent" PROVE One(c, "put", g)
  BY <1>1, <1>4 DEF Link, One
<1>5. ASSUME m.kind = "get", NEW g, g # "sent" PROVE One(c, "get", g)
  BY <1>1, <1>5 DEF Link, One
<1>6. \A x \in DOMAIN c : x \in Requests /\ (x.kind = "put" => x.batch = s)
  BY <1>1 DEF Link
<1>7. m.kind = "blind" => Link(c, f, s, h)
  BY <1>1, <1>2, <1>3, <1>6 DEF Link
<1>8. m.kind = "put" => \A g : g # "sent" => Link(c, g, s, h)
  BY <1>1, <1>3, <1>4, <1>6 DEF Link
<1>9. m.kind = "get" => \A g : g # "sent" => Link(c, f, s, g)
  BY <1>1, <1>2, <1>5, <1>6 DEF Link
<1>10. \A new, w : OlderNet(n, new, w) => OlderNet(c, new, w)
  BY <1>1 DEF OlderNet
<1> QED BY <1>7, <1>8, <1>9, <1>10 DEF c

-----------------------------------------------------------------------------
(* A flush sends a queue of last writes, unless a batch is under way.      *)

LEMMA Flushing ==
  ASSUME NEW p \in Batch, NEW busy \in BOOLEAN, NEW new, NEW w,
         Typed, Link(net, flight, sent, hydrating), flight = "sent" => busy,
         OlderNet(net, new, w), Older(p, new, w), Older(sent, new, w),
         Flush(p, busy)
  PROVE  /\ Link(AfterFlush(p, busy, net), flight', sent', hydrating)
         /\ OlderNet(AfterFlush(p, busy, net), new, w)
         /\ flight' \in States /\ sent' \in Batch /\ Older(sent', new, w)
         /\ debounce' \in BOOLEAN /\ retry' \in BOOLEAN /\ flushAgain' \in BOOLEAN
         /\ flight' = "ok" => flight = "ok" /\ sent' = sent
<1>1. debounce' \in BOOLEAN /\ retry' \in BOOLEAN /\ flushAgain' \in BOOLEAN
  BY DEF Flush, Typed
<1>2. CASE Sends(p, busy)
  <2>1. flight' = "sent" /\ sent' = p /\ flight # "sent"
    BY <1>2 DEF Flush, Sends
  <2>2. AfterFlush(p, busy, net) = Send(net, "put", p)
    BY <1>2 DEF AfterFlush
  <2> QED BY <1>1, <2>1, <2>2, SendPut DEF States
<1>3. CASE ~Sends(p, busy)
  <2>1. sent' = sent /\ AfterFlush(p, busy, net) = net
    BY <1>3 DEF Flush, AfterFlush
  <2>2. CASE busy
    <3>1. flight' = flight
      BY <1>3, <2>2 DEF Flush
    <3> QED BY <1>1, <2>1, <3>1 DEF Typed
  <2>3. CASE ~busy
    <3>1. flight' = "none" /\ flight # "sent"
      BY <1>3, <2>3 DEF Flush
    <3>2. Link(net, "none", sent, hydrating)
      BY <3>1 DEF Link, One
    <3> QED BY <1>1, <2>1, <3>1, <3>2 DEF Typed, States
  <2> QED BY <2>2, <2>3
<1> QED BY <1>2, <1>3

\* The queue holds what Older allows.
LEMMA QueueIsOlder ==
  ASSUME Typed, Aged
  PROVE  Older(pending, newest, writes)
BY BatchTyped DEF Typed, Aged, Older, Latest

-----------------------------------------------------------------------------
(* The steps of the tab.                                                   *)

LEMMA WriteStep ==
  ASSUME PInv, NEW k \in Keys, WritePref(k)
  PROVE  PInv'
<1> DEFINE v == writes + 1
<1>1. v \in Values /\ v \in Nat /\ writes \in Nat /\ v > writes /\ v # Nil
  BY PrefsAssumption DEF PInv, Typed, WritePref, Values, Nil
<1>2. /\ writes' = v /\ cache' = [cache EXCEPT ![k] = v]
      /\ pending' = [pending EXCEPT ![k] = v] /\ newest' = [newest EXCEPT ![k] = v]
      /\ debounce' = TRUE /\ refused' = refused \ {k}
      /\ UNCHANGED <<stored, link, put, get, retry, page, troubles>>
  BY DEF WritePref
<1> HIDE DEF v
<1>3. /\ pending \in Batch /\ newest \in Batch /\ cache \in Batch
      /\ pending' \in Batch /\ newest' \in Batch /\ cache' \in Batch
  BY <1>1, <1>2 DEF PInv, Typed, Batch
<1>4. /\ pending'[k] = v /\ newest'[k] = v /\ cache'[k] = v
      /\ \A j \in Keys \ {k} : /\ pending'[j] = pending[j] /\ newest'[j] = newest[j]
                                /\ cache'[j] = cache[j]
  BY <1>2, <1>3 DEF Batch
<1>5. writes' \in 0..MaxWrites
  BY <1>1, <1>2 DEF Values
<1>6. Typed'
  BY <1>2, <1>3, <1>5 DEF PInv, Typed, link, put, get, page
<1>7. ASSUME NEW b \in Batch, Older(b, newest, writes) PROVE Older(b, newest', writes')
  BY <1>1, <1>2, <1>4, <1>7, BatchTyped DEF Older
<1>8. Older(cache', newest', writes') /\ Older(newest', newest', writes')
  <2>1. \A j \in Keys : cache[j] \in Int /\ newest[j] \in Int /\ cache[j] <= writes /\ newest[j] <= writes
                       /\ (newest[j] # Nil => cache[j] <= newest[j])
    BY <1>3, BatchTyped DEF PInv, Aged, Older
  <2> QED BY <1>1, <1>2, <1>4, <2>1 DEF Older
<1>9. OlderNet(net', newest', writes')
  <2>1. net' = net
    BY <1>2 DEF link
  <2>2. \A m \in DOMAIN net : m.batch \in Batch
    BY DEF PInv, Link, Requests
  <2> QED BY <1>7, <2>1, <2>2 DEF PInv, Aged, OlderNet
<1>10. Latest(pending', newest')
  BY <1>1, <1>4 DEF PInv, Aged, Latest
<1>11. Aged'
  <2>1. UNCHANGED <<server, stored, sent, fetched>>
    BY <1>2 DEF link, put, get
  <2>2. /\ server \in Batch /\ stored \in Batch /\ sent \in Batch /\ fetched \in Batch
        /\ Older(server, newest, writes) /\ Older(stored, newest, writes)
        /\ Older(sent, newest, writes) /\ Older(fetched, newest, writes)
    BY DEF PInv, Typed, Aged
  <2> QED BY <1>7, <1>8, <1>9, <1>10, <2>1, <2>2 DEF Aged
<1>12. EditsAreDurable'
  BY <1>1, <1>2, <1>4 DEF PInv, EditsAreDurable
<1> QED BY <1>2, <1>6, <1>11, <1>12 DEF PInv, link, put, get

LEMMA TimerStep ==
  ASSUME PInv, TimerFires
  PROVE  PInv'
<1>1. /\ Flush(pending, InFlight) /\ net' = AfterFlush(pending, InFlight, net)
      /\ UNCHANGED <<server, valid, get, mirror, page, record, troubles>>
  BY DEF TimerFires
<1>2. InFlight \in BOOLEAN /\ (flight = "sent" => InFlight)
  BY DEF InFlight
<1>3. /\ Link(net', flight', sent', hydrating) /\ OlderNet(net', newest, writes)
      /\ flight' \in States /\ sent' \in Batch /\ Older(sent', newest, writes)
      /\ debounce' \in BOOLEAN /\ retry' \in BOOLEAN /\ flushAgain' \in BOOLEAN
      /\ flight' = "ok" => flight = "ok" /\ sent' = sent
  BY <1>1, <1>2, Flushing, QueueIsOlder DEF PInv, Aged, Typed
<1>4. Typed'
  BY <1>1, <1>3 DEF PInv, Typed, get, mirror, page, record
<1>5. Aged'
  BY <1>1, <1>3 DEF PInv, Aged, get, mirror, record
<1>6. EditsAreDurable'
  BY <1>1 DEF PInv, EditsAreDurable, mirror, record
<1> QED BY <1>1, <1>3, <1>4, <1>5, <1>6 DEF PInv, get, record

\* What a confirmed or refused batch leaves of the queue.
LEMMA Retiring ==
  ASSUME Typed, Aged
  PROVE  /\ Retire \in Batch /\ Latest(Retire, newest)
         /\ \A k \in Keys :
              \/ Retire[k] = pending[k]
              \/ Retire[k] = Nil /\ sent[k] # Nil /\ pending[k] = sent[k]
<1>1. \A k \in Keys : /\ Retire[k] \in Values \cup {Nil}
                      /\ \/ Retire[k] = pending[k]
                         \/ Retire[k] = Nil /\ sent[k] # Nil /\ pending[k] = sent[k]
  BY DEF Typed, Batch, Retire
<1>2. Retire \in Batch
  BY <1>1 DEF Batch, Retire
<1>3. Latest(Retire, newest)
  BY <1>1 DEF Aged, Latest
<1> QED BY <1>1, <1>2, <1>3

LEMMA SettleStep ==
  ASSUME PInv, Settle
  PROVE  PInv'
<1>1. /\ flight \in Answers
      /\ pending' = IF flight \in {"ok", "refused"} THEN Retire ELSE pending
      /\ authed' = (authed /\ flight # "unauthorized")
      /\ refused' = IF flight = "refused"
                    THEN refused \cup {k \in Keys : sent[k] # Nil /\ pending[k] = sent[k]}
                    ELSE refused
      /\ UNCHANGED <<server, valid, get, cache, shown, newest, stored, writes, troubles>>
  BY DEF Settle, Settled
<1>2. flight # "sent"
  BY <1>1 DEF Answers
<1>3. /\ pending' \in Batch /\ Latest(pending', newest)
      /\ \A k \in Keys :
           \/ pending'[k] = pending[k]
           \/ /\ flight \in {"ok", "refused"}
              /\ pending'[k] = Nil /\ sent[k] # Nil /\ pending[k] = sent[k]
  BY <1>1, Retiring DEF PInv, Aged, Typed
<1>4. Older(pending', newest, writes)
  BY <1>3, BatchTyped DEF PInv, Typed, Aged, Older, Latest
<1>5. refused' \subseteq Keys /\ authed' \in BOOLEAN
  BY <1>1 DEF PInv, Typed
<1>6. EditsAreDurable'
  <2> SUFFICES ASSUME NEW k \in Keys, newest[k] # Nil, k \notin refused'
               PROVE  newest[k] \in {pending'[k], stored[k]}
    BY <1>1 DEF EditsAreDurable
  <2>1. k \notin refused /\ newest[k] \in {pending[k], stored[k]}
    BY <1>1 DEF PInv, EditsAreDurable
  <2>2. CASE pending'[k] = pending[k]
    BY <2>1, <2>2
  <2>3. CASE pending'[k] # pending[k]
    <3>1. /\ flight \in {"ok", "refused"} /\ sent[k] # Nil /\ pending[k] = sent[k]
      BY <1>3, <2>3
    <3>2. flight = "ok"
      BY <1>1, <3>1
    <3>3. pending[k] = newest[k]
      BY <3>1 DEF PInv, Aged, Latest
    <3>4. sent[k] <= stored[k] /\ stored[k] <= newest[k]
      BY <3>2 DEF PInv, Within, Aged, Older
    <3>5. newest[k] \in Int /\ stored[k] \in Int
      BY BatchTyped DEF PInv, Typed
    <3> QED BY <3>1, <3>3, <3>4, <3>5
  <2> QED BY <2>2, <2>3
<1>7. /\ Link(net', flight', sent', hydrating) /\ OlderNet(net', newest, writes)
      /\ flight' \in States /\ sent' \in Batch /\ Older(sent', newest, writes)
      /\ debounce' \in BOOLEAN /\ retry' \in BOOLEAN /\ flushAgain' \in BOOLEAN
      /\ flight' = "ok" => flight = "ok" /\ sent' = sent
  <2>1. CASE flushAgain
    <3>1. PICK p \in Batch : p = pending'
      BY <1>3
    <3>2. Flush(p, FALSE) /\ net' = AfterFlush(p, FALSE, net)
      BY <2>1, <3>1 DEF Settle
    <3>3. Older(p, newest, writes)
      BY <1>4, <3>1
    <3> QED BY <1>2, <3>2, <3>3, Flushing DEF PInv, Aged
  <2>2. CASE ~flushAgain
    <3>1. /\ flight' = "none" /\ retry' = (retry \/ Retries)
          /\ UNCHANGED <<sent, flushAgain, net, debounce>>
      BY <2>2 DEF Settle
    <3>2. Link(net, "none", sent, hydrating)
      BY <1>2 DEF PInv, Link, One
    <3> QED BY <3>1, <3>2 DEF PInv, Typed, Aged, States
  <2> QED BY <2>1, <2>2
<1>8. Typed'
  BY <1>1, <1>3, <1>5, <1>7 DEF PInv, Typed, get
<1>9. Aged'
  BY <1>1, <1>3, <1>7 DEF PInv, Aged, get
<1> QED BY <1>1, <1>6, <1>7, <1>8, <1>9 DEF PInv, get

LEMMA SignInStep ==
  ASSUME PInv, SignIn
  PROVE  PInv'
<1> DEFINE n == AfterFlush(pending, InFlight, net)
<1>1. /\ authed' = TRUE /\ valid' = TRUE /\ Flush(pending, InFlight)
      /\ IF hydrated \/ hydrating # "none"
         THEN net' = n /\ UNCHANGED hydrating
         ELSE net' = Send(n, "get", Empty) /\ hydrating' = "sent"
      /\ shown' = (shown \/ hydrated)
      /\ UNCHANGED <<server, fetched, hydrated, mirror, record, troubles>>
  BY DEF SignIn
<1>2. InFlight \in BOOLEAN /\ (flight = "sent" => InFlight)
  BY DEF InFlight
<1>3. /\ Link(n, flight', sent', hydrating) /\ OlderNet(n, newest, writes)
      /\ flight' \in States /\ sent' \in Batch /\ Older(sent', newest, writes)
      /\ debounce' \in BOOLEAN /\ retry' \in BOOLEAN /\ flushAgain' \in BOOLEAN
      /\ flight' = "ok" => flight = "ok" /\ sent' = sent
  BY <1>1, <1>2, Flushing, QueueIsOlder DEF PInv, Aged, Typed
<1> HIDE DEF n
<1>4. /\ Link(net', flight', sent', hydrating') /\ OlderNet(net', newest, writes)
      /\ hydrating' \in States
  <2>1. CASE hydrated \/ hydrating # "none"
    BY <1>1, <1>3, <2>1 DEF PInv, Typed
  <2>2. CASE ~(hydrated \/ hydrating # "none")
    <3>1. net' = Send(n, "get", Empty) /\ hydrating' = "sent" /\ hydrating # "sent"
      BY <1>1, <2>2
    <3>2. Empty \in Batch /\ Older(Empty, newest, writes)
      <4>1. /\ Empty \in Batch /\ writes \in Nat /\ newest \in Batch
            /\ \A k \in Keys : Empty[k] = Nil
        BY BatchTyped, PrefsAssumption DEF PInv, Typed, Empty
      <4> QED BY <4>1, BatchTyped DEF Older
    <3> QED BY <1>3, <3>1, <3>2, SendGet DEF States
  <2> QED BY <2>1, <2>2
<1>5. Typed'
  BY <1>1, <1>3, <1>4 DEF PInv, Typed, mirror, record
<1>6. Aged'
  BY <1>1, <1>3, <1>4 DEF PInv, Aged, mirror, record
<1>7. EditsAreDurable'
  BY <1>1 DEF PInv, EditsAreDurable, mirror, record
<1> QED BY <1>1, <1>3, <1>4, <1>5, <1>6, <1>7 DEF PInv, record

LEMMA HydrateStep ==
  ASSUME PInv, Hydrate
  PROVE  PInv'
<1> DEFINE unknown == [k \in Keys |-> IF fetched[k] = Nil THEN cache[k] ELSE Nil]
<1>1. /\ hydrating \in Answers /\ hydrating' = "none"
      /\ hydrated' = (hydrating = "ok")
      /\ authed' = (authed /\ hydrating # "unauthorized")
      /\ shown' = (shown \/ authed')
      /\ IF hydrating = "ok"
         THEN /\ cache' = Over(fetched, cache)
              /\ net' = IF unknown = Empty THEN net ELSE Send(net, "blind", unknown)
         ELSE UNCHANGED <<cache, net>>
      /\ UNCHANGED <<server, valid, put, fetched, pending, timers, record, troubles>>
  BY DEF Hydrate
<1>2. /\ unknown \in Batch /\ Over(fetched, cache) \in Batch
      /\ \A k \in Keys : /\ unknown[k] \in {cache[k], Nil}
                         /\ Over(fetched, cache)[k] \in {cache[k], fetched[k]}
  BY DEF PInv, Typed, Batch, Over
<1> HIDE DEF unknown
<1>3. Older(unknown, newest, writes) /\ Older(Over(fetched, cache), newest, writes)
  <2>1. \A k \in Keys : Nil <= writes /\ (newest[k] # Nil => Nil <= newest[k])
    BY BatchTyped DEF PInv, Typed
  <2> QED BY <1>2, <2>1 DEF PInv, Aged, Older
<1>4. Link(net, flight, sent, "none")
  <2>1. hydrating # "sent"
    BY <1>1 DEF Answers
  <2> QED BY <2>1 DEF PInv, Link, One
<1>5. /\ cache' \in Batch /\ Older(cache', newest, writes)
      /\ Link(net', flight, sent, "none") /\ OlderNet(net', newest, writes)
  <2>1. CASE net' = Send(net, "blind", unknown) /\ cache' = Over(fetched, cache)
    BY <1>2, <1>3, <1>4, <2>1, SendBlind DEF PInv, Aged
  <2>2. CASE net' = net /\ cache' = Over(fetched, cache)
    BY <1>2, <1>3, <1>4, <2>2 DEF PInv, Aged
  <2>3. CASE net' = net /\ cache' = cache
    BY <1>4, <2>3 DEF PInv, Typed, Aged
  <2> QED BY <1>1, <2>1, <2>2, <2>3
<1>6. Typed'
  <2>1. hydrated' \in BOOLEAN /\ authed' \in BOOLEAN /\ shown' \in BOOLEAN
    BY <1>1 DEF PInv, Typed
  <2> QED BY <1>1, <1>5, <2>1 DEF PInv, Typed, States, put, timers, record
<1>7. Aged'
  BY <1>1, <1>5 DEF PInv, Aged, put, record
<1>8. EditsAreDurable'
  BY <1>1 DEF PInv, EditsAreDurable, record
<1> QED BY <1>1, <1>5, <1>6, <1>7, <1>8 DEF PInv, put, record

LEMMA HideStep ==
  ASSUME PInv, Hide
  PROVE  PInv'
<1>1. /\ net' = Send(net, "blind", pending) /\ troubles' \in 0..MaxTroubles
      /\ UNCHANGED <<server, valid, put, get, timers, mirror, page, record>>
  BY PrefsAssumption DEF Hide, Trouble, PInv, Typed
<1>2. Link(net', flight, sent, hydrating) /\ OlderNet(net', newest, writes)
  BY <1>1, SendBlind, QueueIsOlder DEF PInv, Typed, Aged
<1>3. Typed'
  BY <1>1 DEF PInv, Typed, put, get, timers, mirror, page, record
<1>4. Aged'
  BY <1>1, <1>2 DEF PInv, Aged, put, get, mirror, record
<1>5. EditsAreDurable'
  BY <1>1 DEF PInv, EditsAreDurable, mirror, record
<1> QED BY <1>1, <1>2, <1>3, <1>4, <1>5 DEF PInv, put, get, record

\* A page that is gone leaves nothing but requests whose answer nobody awaits.
LEMMA Orphans ==
  ASSUME PInv
  PROVE  Link(Under("blind"), "none", Empty, "none") /\ OlderNet(Under("blind"), newest, writes)
<1>1. /\ DOMAIN Under("blind") \subseteq DOMAIN net
      /\ Under("blind") = [m \in {x \in DOMAIN net : x.kind = "blind"} |-> net[m]]
      /\ \A m \in DOMAIN Under("blind") : m.kind = "blind"
  BY DEF Under, BagToSet
<1>2. IsABag(Under("blind"))
  BY <1>1 DEF PInv, Link, IsABag
<1>3. One(Under("blind"), "put", "none") /\ One(Under("blind"), "get", "none")
  BY <1>1 DEF One
<1>4. Link(Under("blind"), "none", Empty, "none")
  BY <1>1, <1>2, <1>3 DEF PInv, Link
<1> QED BY <1>1, <1>4 DEF PInv, Aged, OlderNet

LEMMA ReloadStep ==
  ASSUME PInv, Reload
  PROVE  PInv'
<1>1. PICK aborted \in BOOLEAN :
        LET orphans == IF flight = "sent" /\ ~aborted
                       THEN Send(Under("blind"), "blind", sent) ELSE Under("blind")
        IN  net' = IF pending = Empty THEN orphans ELSE Send(orphans, "blind", pending)
  BY DEF Reload
<1>2. /\ flight' = "none" /\ sent' = Empty /\ flushAgain' = FALSE
      /\ hydrating' = "none" /\ fetched' = Empty /\ hydrated' = FALSE
      /\ pending' = Empty /\ debounce' = FALSE /\ retry' = FALSE
      /\ authed' = FALSE /\ shown' = FALSE
      /\ newest' = Empty /\ refused' = {}
      /\ UNCHANGED <<server, valid, cache, stored, writes>>
      /\ troubles' \in 0..MaxTroubles
  BY PrefsAssumption DEF Reload, Trouble, PInv, Typed
<1>3. PICK o : /\ Link(o, "none", Empty, "none") /\ OlderNet(o, newest, writes)
               /\ net' = IF pending = Empty THEN o ELSE Send(o, "blind", pending)
  <2>1. CASE flight = "sent" /\ ~aborted
    <3>1. net' = IF pending = Empty THEN Send(Under("blind"), "blind", sent)
                 ELSE Send(Send(Under("blind"), "blind", sent), "blind", pending)
      BY <1>1, <2>1
    <3>2. /\ Link(Send(Under("blind"), "blind", sent), "none", Empty, "none")
          /\ OlderNet(Send(Under("blind"), "blind", sent), newest, writes)
      BY Orphans, SendBlind DEF PInv, Typed, Aged
    <3> QED BY <3>1, <3>2
  <2>2. CASE ~(flight = "sent" /\ ~aborted)
    <3>1. net' = IF pending = Empty THEN Under("blind") ELSE Send(Under("blind"), "blind", pending)
      BY <1>1, <2>2
    <3> QED BY <3>1, Orphans
  <2> QED BY <2>1, <2>2
<1>4. Link(net', "none", Empty, "none") /\ OlderNet(net', newest, writes)
  BY <1>3, SendBlind, QueueIsOlder DEF PInv, Typed
<1>5. \A k \in Keys : Empty[k] = Nil
  BY DEF Empty
<1>6. Typed'
  BY <1>2, BatchTyped DEF PInv, Typed, States
<1>7. \A b : Older(b, newest, writes) => Older(b, Empty, writes)
  BY <1>5 DEF Older
<1>8. Older(Empty, Empty, writes)
  <2>1. writes \in Nat
    BY PrefsAssumption DEF PInv, Typed
  <2> QED BY <1>5, <2>1, BatchTyped DEF Older
<1>9. OlderNet(net', Empty, writes)
  BY <1>4, <1>7 DEF OlderNet
<1>10. Aged'
  BY <1>2, <1>5, <1>7, <1>8, <1>9 DEF PInv, Aged, Latest
<1>11. EditsAreDurable'
  BY <1>2, <1>5 DEF EditsAreDurable
<1> QED BY <1>2, <1>4, <1>6, <1>10, <1>11 DEF PInv

-----------------------------------------------------------------------------
(* The steps of the backend and of the network.                            *)

LEMMA ExpireStep ==
  ASSUME PInv, Expire
  PROVE  PInv'
<1>1. /\ valid' = FALSE /\ troubles' \in 0..MaxTroubles
      /\ UNCHANGED <<server, net, put, get, timers, mirror, page, record>>
  BY PrefsAssumption DEF Expire, Trouble, PInv, Typed
<1>2. Typed'
  BY <1>1 DEF PInv, Typed, put, get, timers, mirror, page, record
<1>3. Aged'
  BY <1>1 DEF PInv, Aged, put, get, mirror, record
<1>4. EditsAreDurable'
  BY <1>1 DEF PInv, EditsAreDurable, mirror, record
<1> QED BY <1>1, <1>2, <1>3, <1>4 DEF PInv, put, get, record

LEMMA AnswerLostStep ==
  ASSUME PInv, AnswerLost
  PROVE  PInv'
<1>1. /\ flight = "ok" /\ flight' = "error" /\ troubles' \in 0..MaxTroubles
      /\ UNCHANGED <<link, sent, flushAgain, get, timers, mirror, page, record>>
  BY PrefsAssumption DEF AnswerLost, Trouble, PInv, Typed
<1>2. Link(net, "error", sent, hydrating)
  BY <1>1 DEF PInv, Link, One
<1>3. Typed'
  BY <1>1 DEF PInv, Typed, States, Answers, link, get, timers, mirror, page, record
<1>4. Aged'
  BY <1>1 DEF PInv, Aged, link, get, mirror, record
<1>5. EditsAreDurable'
  BY <1>1 DEF PInv, EditsAreDurable, mirror, record
<1> QED BY <1>1, <1>2, <1>3, <1>4, <1>5 DEF PInv, link, get, record

\* What a batch leaves of the table, and of the newest that was ever in it.
LEMMA Storing ==
  ASSUME PInv, NEW b \in Batch, Older(b, newest, writes), Store(b)
  PROVE  /\ server' \in Batch /\ stored' \in Batch
         /\ Older(server', newest, writes) /\ Older(stored', newest, writes)
         /\ Within(b, stored') /\ Within(stored, stored')
         /\ \A k \in Keys : stored'[k] \in {b[k], stored[k]}
<1>1. /\ server' = Over(b, server)
      /\ stored' = [k \in Keys |-> IF b[k] > stored[k] THEN b[k] ELSE stored[k]]
  BY DEF Store
<1>2. /\ server' \in Batch /\ stored' \in Batch
      /\ \A k \in Keys : /\ server'[k] \in {b[k], server[k]}
                         /\ stored'[k] = IF b[k] > stored[k] THEN b[k] ELSE stored[k]
  BY <1>1 DEF PInv, Typed, Batch, Over
<1>3. \A k \in Keys : b[k] \in Int /\ stored[k] \in Int
  BY BatchTyped DEF PInv, Typed
<1>4. Within(b, stored') /\ Within(stored, stored')
  BY <1>2, <1>3 DEF Within
<1> QED BY <1>2, <1>4 DEF PInv, Aged, Older

\* An edit that was stored is still the newest stored when another batch is.
LEMMA StoringKeeps ==
  ASSUME PInv, stored' \in Batch, Within(stored, stored'), Older(stored', newest, writes),
         UNCHANGED <<newest, refused, pending>>
  PROVE  EditsAreDurable'
<1> SUFFICES ASSUME NEW k \in Keys, newest[k] # Nil, k \notin refused
             PROVE  newest[k] \in {pending[k], stored'[k]}
  BY DEF EditsAreDurable
<1>1. newest[k] \in {pending[k], stored[k]}
  BY DEF PInv, EditsAreDurable
<1>2. /\ stored[k] <= stored'[k] /\ stored'[k] <= newest[k]
      /\ stored[k] \in Int /\ stored'[k] \in Int /\ newest[k] \in Int
  BY BatchTyped DEF PInv, Typed, Within, Older
<1> QED BY <1>1, <1>2

LEMMA Handed ==
  ASSUME PInv, NEW m \in BagToSet(net), NEW kind, Take(m, kind)
  PROVE  /\ m \in DOMAIN net /\ m.kind = kind /\ net' = Dropped(net, m)
         /\ m.batch \in Batch /\ Older(m.batch, newest, writes)
         /\ OlderNet(net', newest, writes)
<1>1. m \in DOMAIN net /\ m.kind = kind /\ net' = Dropped(net, m)
  BY DEF Take, BagToSet, Dropped
<1>2. m \in Requests /\ Older(m.batch, newest, writes)
  BY <1>1 DEF PInv, Link, Aged, OlderNet
<1>3. OlderNet(Dropped(net, m), newest, writes)
  BY <1>1, Taken DEF PInv, Aged
<1> QED BY <1>1, <1>2, <1>3 DEF Requests

LEMMA PutStep ==
  ASSUME PInv, NEW m \in BagToSet(net), ArrivePut(m)
  PROVE  PInv'
<1>1. /\ Take(m, "put")
      /\ IF valid THEN Store(m.batch) /\ flight' = "ok"
                  ELSE flight' = "unauthorized" /\ UNCHANGED <<server, stored>>
      /\ UNCHANGED <<valid, sent, flushAgain, get, timers, mirror, page,
                     newest, refused, writes, troubles>>
  BY DEF ArrivePut
<1>2. /\ m \in DOMAIN net /\ m.kind = "put" /\ net' = Dropped(net, m)
      /\ m.batch \in Batch /\ Older(m.batch, newest, writes)
      /\ OlderNet(net', newest, writes)
  BY <1>1, Handed
<1>3. flight' \in {"ok", "unauthorized"}
  BY <1>1
<1>4. Link(net', flight', sent, hydrating)
  BY <1>2, <1>3, Taken DEF PInv
<1>5. m.batch = sent
  BY <1>2 DEF PInv, Link
<1>6. /\ server' \in Batch /\ stored' \in Batch
      /\ Older(server', newest, writes) /\ Older(stored', newest, writes)
      /\ Within(stored, stored') /\ (flight' = "ok" => Within(sent, stored'))
  <2>1. CASE valid
    BY <1>1, <1>2, <1>5, <2>1, Storing
  <2>2. CASE ~valid
    <3>1. \A k \in Keys : stored[k] \in Int
      BY BatchTyped DEF PInv, Typed
    <3> QED BY <1>1, <2>2, <3>1 DEF PInv, Typed, Aged, Within
  <2> QED BY <2>1, <2>2
<1>7. Typed'
  BY <1>1, <1>3, <1>6 DEF PInv, Typed, States, Answers, get, timers, mirror, page
<1>8. Aged'
  BY <1>1, <1>2, <1>6 DEF PInv, Aged, get, mirror
<1>9. EditsAreDurable'
  BY <1>1, <1>6, StoringKeeps DEF mirror
<1> QED BY <1>1, <1>4, <1>6, <1>7, <1>8, <1>9 DEF PInv, get

LEMMA BlindStep ==
  ASSUME PInv, NEW m \in BagToSet(net), ArriveBlind(m)
  PROVE  PInv'
<1>1. /\ Take(m, "blind")
      /\ IF valid THEN Store(m.batch) ELSE UNCHANGED <<server, stored>>
      /\ UNCHANGED <<valid, put, get, timers, mirror, page, newest, refused, writes, troubles>>
  BY DEF ArriveBlind
<1>2. /\ m \in DOMAIN net /\ m.kind = "blind" /\ net' = Dropped(net, m)
      /\ m.batch \in Batch /\ Older(m.batch, newest, writes)
      /\ OlderNet(net', newest, writes)
  BY <1>1, Handed
<1>3. Link(net', flight, sent, hydrating)
  BY <1>2, Taken DEF PInv
<1>4. /\ server' \in Batch /\ stored' \in Batch
      /\ Older(server', newest, writes) /\ Older(stored', newest, writes)
      /\ Within(stored, stored')
  <2>1. CASE valid
    BY <1>1, <1>2, <2>1, Storing
  <2>2. CASE ~valid
    <3>1. \A k \in Keys : stored[k] \in Int
      BY BatchTyped DEF PInv, Typed
    <3> QED BY <1>1, <2>2, <3>1 DEF PInv, Typed, Aged, Within
  <2> QED BY <2>1, <2>2
<1>5. flight = "ok" => Within(sent, stored')
  <2>1. \A k \in Keys : sent[k] \in Int /\ stored[k] \in Int /\ stored'[k] \in Int
    BY <1>4, BatchTyped DEF PInv, Typed
  <2> QED BY <1>4, <2>1 DEF PInv, Within
<1>6. Typed'
  BY <1>1, <1>4 DEF PInv, Typed, put, get, timers, mirror, page
<1>7. Aged'
  BY <1>1, <1>2, <1>4 DEF PInv, Aged, put, get, mirror
<1>8. EditsAreDurable'
  BY <1>1, <1>4, StoringKeeps DEF mirror
<1> QED BY <1>1, <1>3, <1>5, <1>6, <1>7, <1>8 DEF PInv, put, get

LEMMA GetStep ==
  ASSUME PInv, NEW m \in BagToSet(net), ArriveGet(m)
  PROVE  PInv'
<1>1. /\ Take(m, "get")
      /\ IF valid THEN hydrating' = "ok" /\ fetched' = server
                  ELSE hydrating' = "unauthorized" /\ UNCHANGED fetched
      /\ UNCHANGED <<server, valid, put, hydrated, timers, mirror, page, record, troubles>>
  BY DEF ArriveGet
<1>2. /\ m \in DOMAIN net /\ m.kind = "get" /\ net' = Dropped(net, m)
      /\ OlderNet(net', newest, writes)
  BY <1>1, Handed
<1>3. hydrating' \in {"ok", "unauthorized"}
  BY <1>1
<1>4. Link(net', flight, sent, hydrating')
  BY <1>2, <1>3, Taken DEF PInv
<1>5. fetched' \in Batch /\ Older(fetched', newest, writes)
  BY <1>1 DEF PInv, Typed, Aged
<1>6. Typed'
  BY <1>1, <1>3, <1>5 DEF PInv, Typed, States, Answers, put, timers, mirror, page, record
<1>7. Aged'
  BY <1>1, <1>2, <1>5 DEF PInv, Aged, put, mirror, record
<1>8. EditsAreDurable'
  BY <1>1 DEF PInv, EditsAreDurable, mirror, record
<1> QED BY <1>1, <1>4, <1>6, <1>7, <1>8 DEF PInv, put, record

LEMMA FailStep ==
  ASSUME PInv, NEW m \in BagToSet(net), PutFails(m) \/ BlindLost(m) \/ GetLost(m)
  PROVE  PInv'
<1>1. troubles' \in 0..MaxTroubles
  BY PrefsAssumption DEF PutFails, BlindLost, GetLost, Trouble, PInv, Typed
<1>2. CASE PutFails(m)
  <2>1. /\ Take(m, "put") /\ flight' \in {"error", "refused"}
        /\ UNCHANGED <<server, valid, sent, flushAgain, get, timers, mirror, page, record>>
    BY <1>2 DEF PutFails
  <2>2. /\ m \in DOMAIN net /\ m.kind = "put" /\ net' = Dropped(net, m)
        /\ OlderNet(net', newest, writes)
    BY <2>1, Handed
  <2>3. Link(net', flight', sent, hydrating)
    BY <2>1, <2>2, Taken DEF PInv
  <2>4. Typed'
    BY <1>1, <2>1 DEF PInv, Typed, States, Answers, get, timers, mirror, page, record
  <2>5. Aged' /\ EditsAreDurable'
    BY <2>1, <2>2 DEF PInv, Aged, EditsAreDurable, get, mirror, record
  <2> QED BY <2>1, <2>3, <2>4, <2>5 DEF PInv, get
<1>3. CASE BlindLost(m)
  <2>1. /\ Take(m, "blind")
        /\ UNCHANGED <<server, valid, put, get, timers, mirror, page, record>>
    BY <1>3 DEF BlindLost
  <2>2. /\ m \in DOMAIN net /\ m.kind = "blind" /\ net' = Dropped(net, m)
        /\ OlderNet(net', newest, writes)
    BY <2>1, Handed
  <2>3. Link(net', flight, sent, hydrating)
    BY <2>2, Taken DEF PInv
  <2>4. Typed'
    BY <1>1, <2>1 DEF PInv, Typed, put, get, timers, mirror, page, record
  <2>5. Aged' /\ EditsAreDurable'
    BY <2>1, <2>2 DEF PInv, Aged, EditsAreDurable, put, get, mirror, record
  <2> QED BY <2>1, <2>3, <2>4, <2>5 DEF PInv, put, get, record
<1>4. CASE GetLost(m)
  <2>1. /\ Take(m, "get") /\ hydrating' = "error"
        /\ UNCHANGED <<server, valid, put, fetched, hydrated, timers, mirror, page, record>>
    BY <1>4 DEF GetLost
  <2>2. /\ m \in DOMAIN net /\ m.kind = "get" /\ net' = Dropped(net, m)
        /\ OlderNet(net', newest, writes)
    BY <2>1, Handed
  <2>3. Link(net', flight, sent, hydrating')
    BY <2>1, <2>2, Taken DEF PInv
  <2>4. Typed'
    BY <1>1, <2>1 DEF PInv, Typed, States, Answers, put, timers, mirror, page, record
  <2>5. Aged' /\ EditsAreDurable'
    BY <2>1, <2>2 DEF PInv, Aged, EditsAreDurable, put, mirror, record
  <2> QED BY <2>1, <2>3, <2>4, <2>5 DEF PInv, put, record
<1> QED BY <1>2, <1>3, <1>4

-----------------------------------------------------------------------------
(* The theorems.                                                           *)

LEMMA PInvInit == Init => PInv
<1> SUFFICES ASSUME Init PROVE PInv
  OBVIOUS
<1>1. \A k \in Keys : Empty[k] = Nil
  BY DEF Empty
<1>2. 0 \in Values /\ 0 \in 0..MaxWrites /\ 0 \in 0..MaxTroubles
  BY PrefsAssumption DEF Values
<1>3. Typed
  BY <1>2, BatchTyped DEF Init, Typed, States, Batch
<1>4. DOMAIN net = {} /\ IsABag(net)
  BY DEF Init, EmptyBag, SetToBag, IsABag
<1>5. Link(net, flight, sent, hydrating)
  BY <1>4 DEF Init, Link, One
<1>6. Older(server, Empty, 0) /\ Older(cache, Empty, 0) /\ Older(Empty, Empty, 0)
  BY <1>1, BatchTyped DEF Init, Older
<1>7. Aged
  BY <1>1, <1>4, <1>6 DEF Init, Aged, OlderNet, Latest
<1>8. EditsAreDurable
  BY <1>1 DEF Init, EditsAreDurable
<1> QED BY <1>3, <1>5, <1>7, <1>8 DEF PInv, Init

LEMMA PInvStep == PInv /\ [Next]_vars => PInv'
<1> SUFFICES ASSUME PInv, [Next]_vars PROVE PInv'
  OBVIOUS
<1>1. CASE UNCHANGED vars
  BY <1>1 DEF PInv, Typed, Link, One, Aged, Older, OlderNet, Latest, Within, EditsAreDurable,
              vars, link, put, get, timers, mirror, page, record
<1>2. CASE Next
  BY <1>2, WriteStep, TimerStep, SettleStep, SignInStep, HydrateStep, HideStep, ReloadStep,
     ExpireStep, AnswerLostStep, PutStep, BlindStep, GetStep, FailStep DEF Next, Arrive
<1> QED BY <1>1, <1>2

\* What the queue, the requests and the table keep, step by step.
THEOREM PrefsInvariant == Spec => []PInv
BY PInvInit, PInvStep, PTL DEF Spec

\* TypeOK of PrefsSync: among others, one PUT of the queue and one GET are
\* under way at most.
THEOREM PrefsTypes == Spec => []TypeOK
<1>1. PInv => TypeOK
  BY DEF PInv, Typed, States, Link, One, Requests, TypeOK, Awaited, BagToSet
<1> QED BY <1>1, PrefsInvariant, PTL

\* "Entries now leave the queue only on confirmation" (prefs.ts:192): every
\* edit waits, or the server has stored it or refused it, for every set of
\* keys and every number of lost requests, expiries and reloads.
THEOREM EditsStay == Spec => []EditsAreDurable
<1>1. PInv => EditsAreDurable
  BY DEF PInv
<1> QED BY <1>1, PrefsInvariant, PTL

-----------------------------------------------------------------------------
(* The delivery of edits.                                                  *)

\* No edit is lost, before a step and after it.
LEMMA Fates ==
  ASSUME PInv
  PROVE  \A k \in Keys :
           FateOf(k) = IF newest[k] = Nil THEN "none"
                       ELSE IF newest[k] = stored[k] THEN "stored"
                       ELSE IF k \in refused THEN "refused" ELSE "waiting"
<1> SUFFICES ASSUME NEW k \in Keys
             PROVE  FateOf(k) = IF newest[k] = Nil THEN "none"
                                ELSE IF newest[k] = stored[k] THEN "stored"
                                ELSE IF k \in refused THEN "refused" ELSE "waiting"
  OBVIOUS
<1>1. newest[k] # Nil /\ k \notin refused => newest[k] \in {pending[k], stored[k]}
  BY DEF PInv, EditsAreDurable
<1> QED BY <1>1 DEF FateOf

LEMMA FatesNext ==
  ASSUME PInv'
  PROVE  \A k \in Keys :
           FateOf(k)' = IF newest'[k] = Nil THEN "none"
                        ELSE IF newest'[k] = stored'[k] THEN "stored"
                        ELSE IF k \in refused' THEN "refused" ELSE "waiting"
<1> SUFFICES ASSUME NEW k \in Keys
             PROVE  FateOf(k)' = IF newest'[k] = Nil THEN "none"
                                 ELSE IF newest'[k] = stored'[k] THEN "stored"
                                 ELSE IF k \in refused' THEN "refused" ELSE "waiting"
  OBVIOUS
<1>1. newest'[k] # Nil /\ k \notin refused' => newest'[k] \in {pending'[k], stored'[k]}
  BY DEF PInv, EditsAreDurable
<1> QED BY <1>1 DEF FateOf

\* What is left to show of a step: of each key, what becomes of its last edit.
LEMMA Delivers ==
  ASSUME PInv, PInv', NEW ks \in SUBSET Keys, NEW f,
         \A k \in Keys : FateOf(k)' = IF k \in ks THEN f ELSE FateOf(k)
  PROVE  Delivery!Become(ks, f)
<1>1. Fate' = [k \in Keys |-> FateOf(k)'] /\ \A k \in Keys : Fate[k] = FateOf(k)
  BY DEF Fate
<1>2. [k \in Keys |-> FateOf(k)'] = [k \in Keys |-> IF k \in ks THEN f ELSE Fate[k]]
  BY <1>1
<1> QED BY <1>1, <1>2 DEF Delivery!Become

LEMMA NoneDelivered ==
  ASSUME PInv, PInv', UNCHANGED <<newest, stored, refused>>
  PROVE  Fate' = Fate
<1>1. \A k \in Keys : FateOf(k)' = FateOf(k)
  BY Fates, FatesNext
<1>2. [k \in Keys |-> FateOf(k)'] = [k \in Keys |-> FateOf(k)]
  BY <1>1
<1> QED BY <1>2 DEF Fate

\* A batch that is stored settles its keys, unless they were edited since.
LEMMA StoreDelivers ==
  ASSUME PInv, PInv', NEW m \in BagToSet(net), ArrivePut(m) \/ ArriveBlind(m)
  PROVE  Fate' = Fate \/ \E ks \in SUBSET Keys : Delivery!Store(ks)
<1>1. UNCHANGED <<newest, refused>>
  BY DEF ArrivePut, ArriveBlind
<1>2. CASE ~valid
  <2>1. stored' = stored
    BY <1>2 DEF ArrivePut, ArriveBlind
  <2> QED BY <1>1, <2>1, NoneDelivered
<1>3. CASE valid
  <2>1. Store(m.batch) /\ \E kind : Take(m, kind)
    BY <1>3 DEF ArrivePut, ArriveBlind
  <2>2. m.batch \in Batch /\ Older(m.batch, newest, writes)
    BY <2>1, Handed
  <2>3. Within(stored, stored') /\ stored' \in Batch /\ Older(stored', newest, writes)
    BY <2>1, <2>2, Storing
  <2>4. \A k \in Keys : /\ stored[k] \in Int /\ stored'[k] \in Int /\ newest[k] \in Int
                        /\ stored[k] <= stored'[k]
                        /\ newest[k] # Nil => stored'[k] <= newest[k]
    BY <2>3, BatchTyped DEF PInv, Typed, Within, Older
  <2> DEFINE ks == {k \in Keys : newest[k] # Nil /\ newest[k] # stored[k] /\ newest[k] = stored'[k]}
  <2>5. \A k \in Keys : FateOf(k)' = IF k \in ks THEN "stored" ELSE FateOf(k)
    BY <1>1, <2>4, Fates, FatesNext
  <2>6. \A k \in ks : FateOf(k) \in {"waiting", "refused"} /\ Fate[k] = FateOf(k)
    BY Fates DEF Fate
  <2>7. Delivery!Become(ks, "stored")
    BY <2>5, Delivers
  <2> QED BY <2>6, <2>7 DEF Delivery!Store
<1> QED BY <1>2, <1>3

\* An answer settles what it is about: a batch that was refused, and no other.
LEMMA SettleDelivers ==
  ASSUME PInv, PInv', Settle
  PROVE  Fate' = Fate \/ \E ks \in SUBSET Keys : Delivery!Refuse(ks)
<1>1. UNCHANGED <<newest, stored>>
  BY DEF Settle
<1>2. refused' = IF flight = "refused"
                 THEN refused \cup {k \in Keys : sent[k] # Nil /\ pending[k] = sent[k]}
                 ELSE refused
  BY DEF Settle
<1>3. CASE flight # "refused"
  BY <1>1, <1>2, <1>3, NoneDelivered
<1>4. CASE flight = "refused"
  <2> DEFINE ks == {k \in Keys : FateOf(k) = "waiting" /\ k \in refused'}
  <2>1. \A k \in Keys : k \in refused => k \in refused'
    BY <1>2
  <2>2. \A k \in Keys : FateOf(k)' = IF k \in ks THEN "refused" ELSE FateOf(k)
    BY <1>1, <2>1, Fates, FatesNext
  <2>3. \A k \in ks : Fate[k] = "waiting"
    BY DEF Fate
  <2>4. Delivery!Become(ks, "refused")
    BY <2>2, Delivers
  <2> QED BY <2>3, <2>4 DEF Delivery!Refuse
<1> QED BY <1>3, <1>4

LEMMA DeliveryStep ==
  ASSUME PInv, PInv', [Next]_vars
  PROVE  [Delivery!Next]_Fate
<1>1. ASSUME NEW k \in Keys, WritePref(k) PROVE Delivery!Edit(k)
  <2>1. /\ newest' = [newest EXCEPT ![k] = writes + 1] /\ refused' = refused \ {k}
        /\ stored' = stored /\ writes \in Nat /\ newest \in Batch
        /\ stored[k] \in Int /\ stored[k] <= writes
    BY <1>1, BatchTyped, PrefsAssumption DEF WritePref, PInv, Typed, Aged, Older
  <2>2. newest'[k] = writes + 1 /\ newest'[k] # Nil /\ newest'[k] # stored[k]
    BY <2>1 DEF Batch, Nil
  <2>3. FateOf(k)' = "waiting"
    BY <2>1, <2>2, FatesNext
  <2>4. \A j \in Keys \ {k} : FateOf(j)' = FateOf(j)
    BY <2>1, Fates, FatesNext DEF Batch
  <2>5. Fate' = [Fate EXCEPT ![k] = "waiting"]
    BY <2>3, <2>4 DEF Fate
  <2> QED BY <2>5 DEF Delivery!Edit
<1>2. ASSUME Reload PROVE Delivery!Forget
  <2>1. newest' = Empty
    BY <1>2 DEF Reload
  <2>2. \A k \in Keys : FateOf(k)' = IF k \in Keys THEN "none" ELSE FateOf(k)
    BY <2>1, FatesNext DEF Empty
  <2> QED BY <2>2, Delivers DEF Delivery!Forget
<1>3. CASE UNCHANGED vars \/ TimerFires \/ SignIn \/ Hydrate \/ Hide \/ Expire \/ AnswerLost
  BY <1>3, NoneDelivered
     DEF vars, record, TimerFires, SignIn, Hydrate, Hide, Expire, AnswerLost
<1>4. CASE \E m \in BagToSet(net) : ArriveGet(m) \/ PutFails(m) \/ BlindLost(m) \/ GetLost(m)
  BY <1>4, NoneDelivered DEF record, ArriveGet, PutFails, BlindLost, GetLost
<1> QED BY <1>1, <1>2, <1>3, <1>4, StoreDelivers, SettleDelivers
        DEF Next, Arrive, Delivery!Next

\* The last edit of each key waits until the server has stored it or refused it,
\* none is settled by the answer to another, and only a page that goes away
\* forgets any (flushPrefs and flushPrefsKeepalive, prefs.ts): the queue implements
\* EditDelivery, for every set of keys and whatever the network does.
THEOREM QueueImplementsDelivery == Spec => ImplementsDelivery
<1>1. PInv /\ Init => Delivery!Init
  <2> SUFFICES ASSUME PInv, Init PROVE Delivery!Init
    OBVIOUS
  <2>1. \A k \in Keys : FateOf(k) = "none"
    BY Fates DEF Init, Empty
  <2> QED BY <2>1 DEF Delivery!Init, Fate
<1>2. PInv /\ PInv' /\ [Next]_vars => [Delivery!Next]_Fate
  BY DeliveryStep
<1> QED BY <1>1, <1>2, PrefsInvariant, PTL DEF Spec, ImplementsDelivery, Delivery!Spec
=============================================================================
