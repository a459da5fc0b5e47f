-------------------------- MODULE Terminal_proofs --------------------------
(***************************************************************************)
(* Proofs about Terminal, for any number of windows, sockets and shells.   *)
(* A shell ends before its entry leaves `live`, so what `live` counts is   *)
(* at least what runs; and every turn of a window uses up one of the       *)
(* callbacks it waits for before it asks for another.                      *)
(***************************************************************************)
EXTENDS Terminal, FiniteSetTheorems, TLAPS

\* An entry of `live` has a socket that is open, with its shell, or closing, and
\* each running shell has an entry and an open socket.
Holds(c) == c.server \in {"open", "closing"} /\ (c.server = "open" => c.shell)

Counted ==
  /\ IsFiniteSet(live) /\ Cardinality(live) <= MaxSessions
  /\ \A s \in live : Holds(conn[s])
  /\ \A s \in Used : conn[s].shell => s \in live /\ conn[s].server = "open"

Awaited ==
  \A w \in Windows : /\ held[w] => timers[w] > 0
                     /\ Waiting(w) <= MaxWaiting + 1

TInv == TypeOK /\ Counted /\ Awaited

ConnTyped(f) == f \in [Sockets -> Connection \cup {None}]

-----------------------------------------------------------------------------
(* What Set leaves of a connection.                                        *)

LEMMA SetKeeps ==
  ASSUME NEW f, ConnTyped(f), NEW s \in Sockets, NEW c \in Connection
  PROVE  /\ ConnTyped(Set(f, s, c))
         /\ \A t \in Sockets \ {s} : Set(f, s, c)[t] = f[t]
         /\ Set(f, s, c)[s] = None <=> c.client = "closed" /\ c.server = "closed"
         /\ Set(f, s, c)[s] # None =>
              /\ Set(f, s, c)[s] \in Connection
              /\ Set(f, s, c)[s].owner = c.owner /\ Set(f, s, c)[s].client = c.client
              /\ Set(f, s, c)[s].server = c.server /\ Set(f, s, c)[s].shell = c.shell
<1> DEFINE d == IF c.client = "closed" /\ c.server = "closed" THEN None
                ELSE IF c.client = "closed" THEN [c EXCEPT !.code = "drop", !.opened = FALSE]
                ELSE IF c.server = "closed" THEN [c EXCEPT !.token = 0]
                ELSE c
<1>1. Set(f, s, c) = [f EXCEPT ![s] = d]
  BY DEF Set, ConnTyped
<1>2. /\ [c EXCEPT !.code = "drop", !.opened = FALSE] \in Connection
      /\ [c EXCEPT !.code = "drop", !.opened = FALSE].owner = c.owner
      /\ [c EXCEPT !.code = "drop", !.opened = FALSE].client = c.client
      /\ [c EXCEPT !.code = "drop", !.opened = FALSE].server = c.server
      /\ [c EXCEPT !.code = "drop", !.opened = FALSE].shell = c.shell
  BY DEF Connection
<1>3. /\ [c EXCEPT !.token = 0] \in Connection
      /\ [c EXCEPT !.token = 0].owner = c.owner
      /\ [c EXCEPT !.token = 0].client = c.client
      /\ [c EXCEPT !.token = 0].server = c.server
      /\ [c EXCEPT !.token = 0].shell = c.shell
  BY TerminalAssumption DEF Connection
<1>4. d # None => /\ d \in Connection
                  /\ d.owner = c.owner /\ d.client = c.client
                  /\ d.server = c.server /\ d.shell = c.shell
  BY <1>2, <1>3
<1>5. d = None <=> c.client = "closed" /\ c.server = "closed"
  BY <1>2, <1>3, NoneAssumption
<1> HIDE DEF d
<1> QED BY <1>1, <1>4, <1>5 DEF ConnTyped

\* A change of one connection that stays its owner's.
LEMMA SetCallers ==
  ASSUME TypeOK, NEW s \in Used, NEW c \in Connection,
         c.owner = conn[s].owner, conn' = Set(conn, s, c),
         NEW w \in Windows
  PROVE  /\ c.client = conn[s].client => Callers(w)' = Callers(w)
         /\ conn[s].client # "closed" /\ c.client # "closed" => Callers(w)' = Callers(w)
         /\ c.client = "closed" => Callers(w)' = Callers(w) \ {s}
<1>1. s \in Sockets /\ conn[s] \in Connection /\ ConnTyped(conn)
  BY DEF Used, TypeOK, ConnTyped
<1>2. /\ ConnTyped(conn')
      /\ \A t \in Sockets \ {s} : conn'[t] = conn[t]
      /\ conn'[s] = None <=> c.client = "closed" /\ c.server = "closed"
      /\ conn'[s] # None => conn'[s].owner = c.owner /\ conn'[s].client = c.client
  BY <1>1, SetKeeps
<1>3. \A t \in Sockets \ {s} : t \in Callers(w)' <=> t \in Callers(w)
  BY <1>2 DEF Callers, Used
<1>4. s \in Callers(w)' <=> c.owner = w /\ c.client # "closed"
  BY <1>1, <1>2 DEF Callers, Used
<1>5. s \in Callers(w) <=> c.owner = w /\ conn[s].client # "closed"
  BY <1>1 DEF Callers, Used
<1>6. Callers(w) \subseteq Sockets /\ Callers(w)' \subseteq Sockets
  BY DEF Callers, Used
<1> QED BY <1>3, <1>4, <1>5, <1>6

\* A change of one connection as `live` sees it: it may take or give up its
\* entry, and a shell that runs has one.
LEMMA SetCounted ==
  ASSUME TypeOK, Counted, NEW s \in Used, NEW c \in Connection,
         conn' = Set(conn, s, c),
         live' \subseteq live \cup {s}, live \subseteq live' \cup {s},
         IsFiniteSet(live'), Cardinality(live') <= MaxSessions,
         s \in live' => Holds(c),
         c.shell => s \in live' /\ c.server = "open"
  PROVE  Counted' /\ live' \subseteq Used'
<1>1. s \in Sockets /\ conn[s] \in Connection /\ ConnTyped(conn)
  BY DEF Used, TypeOK, ConnTyped
<1>2. /\ \A t \in Sockets \ {s} : conn'[t] = conn[t]
      /\ conn'[s] = None <=> c.client = "closed" /\ c.server = "closed"
      /\ conn'[s] # None => conn'[s].server = c.server /\ conn'[s].shell = c.shell
  BY <1>1, SetKeeps
<1>3. live \subseteq Used
  BY DEF TypeOK
<1>4. \A t \in live' : t \in Used' /\ Holds(conn'[t])
  BY <1>1, <1>2, <1>3 DEF Counted, Holds, Used
<1>5. \A t \in Used' : conn'[t].shell => t \in live' /\ conn'[t].server = "open"
  <2> SUFFICES ASSUME NEW t \in Used', conn'[t].shell
               PROVE  t \in live' /\ conn'[t].server = "open"
    OBVIOUS
  <2>1. CASE t = s
    BY <2>1, <1>1, <1>2 DEF Used
  <2>2. CASE t # s
    BY <2>2, <1>2 DEF Used, Counted, Holds
  <2> QED BY <2>1, <2>2
<1> QED BY <1>4, <1>5 DEF Counted, Holds

-----------------------------------------------------------------------------
(* Counting what a window waits for.                                       *)

LEMMA CallersFinite ==
  ASSUME NEW w
  PROVE  IsFiniteSet(Callers(w)) /\ Cardinality(Callers(w)) \in Nat
<1>1. Callers(w) \subseteq Sockets
  BY DEF Callers, Used
<1>2. IsFiniteSet(Callers(w))
  BY <1>1, FS_Subset, TerminalAssumption
<1> QED BY <1>2, FS_CardinalityType

\* What is left to show of a step that only the window w counts.
LEMMA Turn ==
  ASSUME TInv, NEW w \in Windows,
         \A v \in Windows \ {w} :
           /\ Cardinality(Callers(v)') = Cardinality(Callers(v))
           /\ timers'[v] = timers[v] /\ asking'[v] = asking[v] /\ held'[v] = held[v],
         timers' \in [Windows -> Int], asking' \in [Windows -> Int],
         timers'[w] >= 0, asking'[w] >= 0,
         held'[w] => timers'[w] > 0,
         Cardinality(Callers(w)') + timers'[w] + asking'[w] <= MaxWaiting + 1
  PROVE  /\ Awaited'
         /\ timers' \in [Windows -> 0..MaxWaiting + 1]
         /\ asking' \in [Windows -> 0..MaxWaiting + 1]
<1>1. Callers(w)' \subseteq Sockets
  BY DEF Callers, Used
<1>2. Cardinality(Callers(w)') \in Nat
  BY <1>1, FS_Subset, FS_CardinalityType, TerminalAssumption
<1>3. timers'[w] \in 0..MaxWaiting + 1 /\ asking'[w] \in 0..MaxWaiting + 1
  <2>1. MaxWaiting + 1 \in Nat
    BY TerminalAssumption
  <2> QED BY <1>2, <2>1
<1>4. timers \in [Windows -> 0..MaxWaiting + 1] /\ asking \in [Windows -> 0..MaxWaiting + 1]
  BY DEF TInv, TypeOK
<1>5. \A v \in Windows : timers'[v] \in 0..MaxWaiting + 1 /\ asking'[v] \in 0..MaxWaiting + 1
  <2> TAKE v \in Windows
  <2>1. CASE v = w
    BY <2>1, <1>3
  <2>2. CASE v # w
    <3>1. timers'[v] = timers[v] /\ asking'[v] = asking[v]
      BY <2>2
    <3> QED BY <3>1, <1>4
  <2> QED BY <2>1, <2>2
<1>6. \A v \in Windows : (held'[v] => timers'[v] > 0) /\ Waiting(v)' <= MaxWaiting + 1
  <2> TAKE v \in Windows
  <2>1. CASE v = w
    BY <2>1 DEF Waiting
  <2>2. CASE v # w
    <3>1. /\ Cardinality(Callers(v)') = Cardinality(Callers(v))
          /\ timers'[v] = timers[v] /\ asking'[v] = asking[v] /\ held'[v] = held[v]
      BY <2>2
    <3>2. (held[v] => timers[v] > 0) /\ Waiting(v) <= MaxWaiting + 1
      BY DEF TInv, Awaited
    <3> QED BY <3>1, <3>2 DEF Waiting
  <2> QED BY <2>1, <2>2
<1> QED BY <1>5, <1>6 DEF Awaited

-----------------------------------------------------------------------------
(* The gateway's end of one connection.                                    *)

LEMMA ServerEnd ==
  ASSUME TInv, NEW s \in Used, NEW c \in Connection,
         c.owner = conn[s].owner, c.client = conn[s].client,
         conn' = Set(conn, s, c),
         live' \subseteq live \cup {s}, live \subseteq live' \cup {s},
         IsFiniteSet(live'), Cardinality(live') <= MaxSessions,
         s \in live' => Holds(c),
         c.shell => s \in live' /\ c.server = "open",
         UNCHANGED <<cookie, valid, window>>
  PROVE  TInv'
<1>1. Counted' /\ live' \subseteq Used'
  BY SetCounted DEF TInv
<1>2. ConnTyped(conn')
  BY SetKeeps DEF TInv, TypeOK, ConnTyped, Used
<1>3. \A w \in Windows : Waiting(w)' = Waiting(w)
  BY SetCallers DEF TInv, window, Waiting
<1>4. Awaited'
  BY <1>3 DEF TInv, Awaited, window
<1>5. TypeOK'
  BY <1>1, <1>2 DEF TInv, TypeOK, ConnTyped, window
<1> QED BY <1>1, <1>4, <1>5 DEF TInv

LEMMA GatewayStep ==
  ASSUME TInv, NEW s \in Sockets,
         UpgradeRefused(s) \/ UpgradeAccepted(s) \/ SpawnFails(s)
           \/ ShellExits(s) \/ ServerCloses(s)
  PROVE  TInv'
<1>1. s \in Used /\ conn[s] \in Connection
  BY DEF UpgradeRefused, UpgradeAccepted, SpawnFails, ShellExits, ServerCloses, TInv, TypeOK, Used
<1>2. /\ IsFiniteSet(live) /\ Cardinality(live) <= MaxSessions /\ Cardinality(live) \in Nat
      /\ s \in live => Holds(conn[s])
      /\ conn[s].shell => s \in live /\ conn[s].server = "open"
  BY <1>1, FS_CardinalityType DEF TInv, Counted, Holds
<1>3. CASE UpgradeRefused(s)
  <2> DEFINE c == [conn[s] EXCEPT !.server = "closed"]
  <2>1. /\ c \in Connection /\ c.owner = conn[s].owner /\ c.client = conn[s].client
        /\ c.shell = conn[s].shell /\ c.server = "closed" /\ conn[s].server = "waiting"
    BY <1>1, <1>3 DEF Connection, UpgradeRefused
  <2>2. conn' = Set(conn, s, c) /\ UNCHANGED <<server, window>>
    BY <1>3 DEF UpgradeRefused, Change
  <2> HIDE DEF c
  <2> QED BY <1>1, <1>2, <2>1, <2>2, ServerEnd DEF server, Holds
<1>4. CASE UpgradeAccepted(s)
  <2> DEFINE c == [conn[s] EXCEPT !.server = "open", !.shell = TRUE]
  <2>2. /\ c \in Connection /\ c.owner = conn[s].owner /\ c.client = conn[s].client
        /\ c.server = "open" /\ c.shell
    BY <1>1 DEF Connection
  <2>3. conn' = Set(conn, s, c) /\ live' = live \cup {s} /\ UNCHANGED <<cookie, valid, window>>
    BY <1>4 DEF UpgradeAccepted, Change
  <2>4. /\ IsFiniteSet(live \cup {s})
        /\ Cardinality(live \cup {s}) = Cardinality(live) \/ Cardinality(live \cup {s}) = Cardinality(live) + 1
    BY <1>2, FS_AddElement
  <2>5. ~(Cardinality(live) >= MaxSessions)
    BY <1>4 DEF UpgradeAccepted, Refused
  <2>6. IsFiniteSet(live') /\ Cardinality(live') <= MaxSessions
    BY <1>2, <2>3, <2>4, <2>5, TerminalAssumption
  <2> HIDE DEF c
  <2> QED BY <1>1, <2>2, <2>3, <2>6, ServerEnd DEF Holds
<1>5. CASE SpawnFails(s)
  <2> DEFINE c == [conn[s] EXCEPT !.server = "closing", !.code = "spawn"]
  <2>1. /\ c \in Connection /\ c.owner = conn[s].owner /\ c.client = conn[s].client
        /\ c.shell = conn[s].shell /\ c.server = "closing" /\ conn[s].server = "waiting"
    BY <1>1, <1>5 DEF Connection, SpawnFails
  <2>2. conn' = Set(conn, s, c) /\ UNCHANGED <<server, window>>
    BY <1>5 DEF SpawnFails, Change
  <2> HIDE DEF c
  <2> QED BY <1>1, <1>2, <2>1, <2>2, ServerEnd DEF server, Holds
<1>6. CASE ShellExits(s)
  <2> DEFINE c == Disposed(conn[s], "exit")
  <2>1. conn[s].server = "open"
    BY <1>2, <1>6 DEF ShellExits
  <2>2. /\ c \in Connection /\ c.owner = conn[s].owner /\ c.client = conn[s].client
        /\ ~c.shell /\ c.server = "closing"
    BY <1>1, <2>1 DEF Disposed, Connection
  <2>3. conn' = Set(conn, s, c) /\ UNCHANGED <<server, window>>
    BY <1>6 DEF ShellExits, Change
  <2> HIDE DEF c
  <2> QED BY <1>1, <1>2, <2>2, <2>3, ServerEnd DEF server, Holds
<1>7. CASE ServerCloses(s)
  <2> DEFINE c == [conn[s] EXCEPT !.server = "closed", !.shell = FALSE]
  <2>1. /\ c \in Connection /\ c.owner = conn[s].owner /\ c.client = conn[s].client /\ ~c.shell
    BY <1>1 DEF Connection
  <2>2. conn' = Set(conn, s, c) /\ live' = live \ {s} /\ UNCHANGED <<cookie, valid, window>>
    BY <1>7 DEF ServerCloses, Change
  <2>3. /\ IsFiniteSet(live \ {s})
        /\ Cardinality(live \ {s}) = Cardinality(live) \/ Cardinality(live \ {s}) = Cardinality(live) - 1
    BY <1>2, FS_RemoveElement
  <2>4. IsFiniteSet(live') /\ Cardinality(live') <= MaxSessions
    BY <1>2, <2>2, <2>3, TerminalAssumption
  <2> HIDE DEF c
  <2> QED BY <1>1, <2>1, <2>2, <2>4, ServerEnd
<1> QED BY <1>3, <1>4, <1>5, <1>6, <1>7

\* Steps of the gateway and of the world that are about many connections.
LEMMA ServerStep ==
  ASSUME TInv, SweepRevoked \/ Restart \/ Revoke \/ SignIn \/ \E s \in Sockets : Lose(s)
  PROVE  TInv'
<1> USE DEF TInv
<1>1. CASE SweepRevoked
  <2>1. \A s \in Sockets : s \in Revoked =>
          conn[s] \in Connection /\ Holds(conn[s]) /\ s \in live
    BY DEF Revoked, TypeOK, Used, Counted, Holds
  <2>2. \A s \in Sockets :
          /\ s \notin Revoked => conn'[s] = conn[s]
          /\ s \in Revoked => conn'[s] = Disposed(conn[s], "revoked")
    BY <1>1 DEF SweepRevoked
  <2>3. \A s \in Sockets : s \in Revoked =>
          /\ conn'[s] \in Connection /\ ~conn'[s].shell
          /\ conn'[s] # None
          /\ conn'[s].owner = conn[s].owner /\ conn'[s].client = conn[s].client
          /\ Holds(conn'[s])
    <3> SUFFICES ASSUME NEW s \in Sockets, s \in Revoked
                 PROVE  /\ conn'[s] \in Connection /\ ~conn'[s].shell
                        /\ conn'[s] # None
                        /\ conn'[s].owner = conn[s].owner /\ conn'[s].client = conn[s].client
                        /\ Holds(conn'[s])
      OBVIOUS
    <3>1. CASE conn[s].server = "open"
      <4>1. conn'[s] = [conn[s] EXCEPT !.server = "closing", !.shell = FALSE, !.code = "revoked"]
        BY <2>2, <3>1 DEF Disposed
      <4>2. conn[s] \in Connection
        BY <2>1
      <4>3. /\ conn'[s] \in Connection /\ ~conn'[s].shell
            /\ conn'[s].owner = conn[s].owner /\ conn'[s].client = conn[s].client
            /\ conn'[s].server = "closing"
        BY <4>1, <4>2 DEF Connection
      <4> QED BY <4>3, NoneAssumption DEF Holds
    <3>2. CASE conn[s].server # "open"
      <4>1. conn'[s] = conn[s]
        BY <2>2, <3>2 DEF Disposed
      <4>2. ~conn[s].shell
        BY <2>1, <3>2, NoneAssumption DEF Counted, Holds, Used
      <4> QED BY <2>1, <4>1, <4>2, NoneAssumption
    <3> QED BY <3>1, <3>2
  <2>4. conn' \in [Sockets -> Connection \cup {None}]
    BY <1>1, <2>1, <2>2, <2>3 DEF SweepRevoked, TypeOK
  <2>5. live' = live \ Revoked /\ UNCHANGED <<cookie, valid, window>>
    BY <1>1 DEF SweepRevoked
  <2>6. Used' = Used
    BY <2>1, <2>2, <2>3, NoneAssumption DEF Used
  <2>7. TypeOK'
    BY <2>4, <2>5, <2>6 DEF TypeOK, window
  <2>8. IsFiniteSet(live') /\ Cardinality(live') <= MaxSessions
    <3>1. live' \in SUBSET live /\ IsFiniteSet(live) /\ Cardinality(live) <= MaxSessions
      BY <2>5 DEF Counted, Holds
    <3>2. /\ IsFiniteSet(live') /\ Cardinality(live') <= Cardinality(live)
      BY <3>1, FS_Subset
    <3>3. Cardinality(live) \in Nat /\ Cardinality(live') \in Nat
      BY <3>1, <3>2, FS_CardinalityType
    <3> QED BY <3>1, <3>2, <3>3, TerminalAssumption
  <2>9. Counted'
    <3>1. \A s \in live' : Holds(conn'[s])
      BY <2>2, <2>5 DEF Counted, Holds, TypeOK, Used
    <3>2. \A s \in Used' : conn'[s].shell => s \in live' /\ conn'[s].server = "open"
      <4> SUFFICES ASSUME NEW s \in Used, conn'[s].shell
                   PROVE  s \in live' /\ conn'[s].server = "open"
        BY <2>6
      <4>1. s \notin Revoked
        BY <2>3 DEF Used
      <4> QED BY <2>2, <2>5, <4>1 DEF Counted, Holds, Used
    <3> QED BY <2>8, <3>1, <3>2 DEF Counted, Holds
  <2>10. \A w \in Windows : Callers(w)' = Callers(w)
    BY <2>2, <2>3, <2>6 DEF Callers, Used
  <2>11. Awaited'
    BY <2>5, <2>10 DEF Awaited, Waiting, window
  <2> QED BY <2>7, <2>9, <2>11
<1>2. CASE Restart
  <2>1. PICK code \in {"shutdown", "drop"} : conn' = [s \in Sockets |->
          IF conn[s] = None \/ conn[s].client = "closed" THEN None
          ELSE [conn[s] EXCEPT !.server = "closed", !.shell = FALSE,
                               !.code = IF conn[s].server = "open" THEN code ELSE @]]
    BY <1>2 DEF Restart
  <2>2. \A s \in Sockets :
          \/ conn'[s] = None /\ (conn[s] = None \/ conn[s].client = "closed")
          \/ /\ conn[s] # None /\ conn[s].client # "closed"
             /\ conn'[s] \in Connection /\ conn'[s] # None /\ ~conn'[s].shell
             /\ conn'[s].owner = conn[s].owner /\ conn'[s].client = conn[s].client
    <3> TAKE s \in Sockets
    <3>1. CASE conn[s] = None \/ conn[s].client = "closed"
      BY <2>1, <3>1
    <3>2. CASE ~(conn[s] = None \/ conn[s].client = "closed")
      <4>1. conn[s] \in Connection
        BY <3>2 DEF TypeOK
      <4>2. conn'[s] = [conn[s] EXCEPT !.server = "closed", !.shell = FALSE,
                                       !.code = IF conn[s].server = "open" THEN code ELSE @]
        BY <2>1, <3>2
      <4> DEFINE new == IF conn[s].server = "open" THEN code ELSE conn[s].code
      <4>3. new \in {"drop", "exit", "spawn", "revoked", "shutdown"}
        BY <4>1 DEF Connection
      <4>4. conn'[s] = [conn[s] EXCEPT !.server = "closed", !.shell = FALSE, !.code = new]
        BY <4>2
      <4> HIDE DEF new
      <4>5. /\ conn'[s] \in Connection /\ ~conn'[s].shell
            /\ conn'[s].owner = conn[s].owner /\ conn'[s].client = conn[s].client
        BY ONLY <4>1, <4>3, <4>4 DEF Connection
      <4> QED BY <3>2, <4>5, NoneAssumption
    <3> QED BY <3>1, <3>2
  <2>3. live' = {} /\ UNCHANGED <<cookie, valid, window>>
    BY <1>2 DEF Restart
  <2>4. conn' \in [Sockets -> Connection \cup {None}]
    BY <2>1, <2>2
  <2>5. TypeOK'
    BY <2>3, <2>4 DEF TypeOK, window
  <2>6. Counted'
    BY <2>2, <2>3, FS_EmptySet, TerminalAssumption DEF Counted, Holds, Used
  <2>7. \A w \in Windows : Callers(w)' = Callers(w)
    BY <2>2 DEF Callers, Used
  <2>8. Awaited'
    BY <2>3, <2>7 DEF Awaited, Waiting, window
  <2> QED BY <2>5, <2>6, <2>8
<1>3. CASE Revoke \/ SignIn
  <2>1. UNCHANGED <<conn, live, window>> /\ cookie' \in 1..MaxLogins /\ valid' \subseteq 1..MaxLogins
    <3>1. CASE Revoke
      BY <3>1 DEF Revoke, TypeOK
    <3>2. CASE SignIn
      <4>1. cookie + 1 \in 1..MaxLogins
        BY <3>2, TerminalAssumption DEF SignIn, TypeOK
      <4> QED BY <3>2, <4>1 DEF SignIn, TypeOK
    <3> QED BY <1>3, <3>1, <3>2
  <2>2. TypeOK'
    BY <2>1 DEF TypeOK, Used, window
  <2>3. Counted' /\ Awaited'
    BY <2>1 DEF Counted, Holds, Awaited, Waiting, Callers, Used, window
  <2> QED BY <2>2, <2>3
<1>4. ASSUME NEW s \in Sockets, Lose(s) PROVE TInv'
  <2>1. conn[s] \in Connection
    BY <1>4 DEF Lose, TypeOK, Used
  <2>2. /\ conn'[s] = [conn[s] EXCEPT !.lost = TRUE]
        /\ \A t \in Sockets \ {s} : conn'[t] = conn[t]
        /\ UNCHANGED <<server, window>>
    BY <1>4 DEF Lose, TypeOK
  <2>3. /\ conn'[s] \in Connection /\ conn'[s].server = conn[s].server
        /\ conn'[s].shell = conn[s].shell
        /\ conn'[s].owner = conn[s].owner /\ conn'[s].client = conn[s].client
    BY <2>1, <2>2 DEF Connection
  <2>4. conn' \in [Sockets -> Connection \cup {None}]
    BY <1>4, <2>3 DEF Lose, TypeOK
  <2>5. Used' = Used
    BY <1>4, <2>2, <2>3, NoneAssumption DEF Used, Lose
  <2>6. TypeOK'
    BY <2>2, <2>4, <2>5 DEF TypeOK, server, window
  <2>7. Counted'
    BY <2>2, <2>3, <2>5 DEF Counted, Holds, server, Used, TypeOK
  <2>8. \A w \in Windows : Callers(w)' = Callers(w)
    <3>1. \A t \in Used : conn'[t].owner = conn[t].owner /\ conn'[t].client = conn[t].client
      BY <2>2, <2>3 DEF Used
    <3> QED BY <2>5, <3>1 DEF Callers
  <2>9. Awaited'
    BY <2>2, <2>8 DEF Awaited, Waiting, window
  <2> QED BY <2>6, <2>7, <2>9
<1> QED BY <1>1, <1>2, <1>3, <1>4

-----------------------------------------------------------------------------
(* The window's end.                                                       *)

\* Its socket opens or closes: the gateway's end stays as it is.
LEMMA ClientEnd ==
  ASSUME TInv, NEW s \in Used, NEW c \in Connection,
         c.owner = conn[s].owner, c.server = conn[s].server, c.shell = conn[s].shell,
         conn' = Set(conn, s, c), UNCHANGED server
  PROVE  /\ Counted' /\ live' \subseteq Used' /\ ConnTyped(conn')
         /\ cookie' \in 1..MaxLogins /\ valid' \subseteq 1..MaxLogins
<1>1. /\ IsFiniteSet(live) /\ Cardinality(live) <= MaxSessions
      /\ s \in live => Holds(conn[s])
      /\ conn[s].shell => s \in live /\ conn[s].server = "open"
  BY DEF TInv, Counted, Holds
<1>2. Counted' /\ live' \subseteq Used'
  <2>1. s \in live => Holds(c)
    BY <1>1 DEF Holds
  <2> QED BY <1>1, <2>1, SetCounted DEF TInv, server
<1>3. ConnTyped(conn')
  BY SetKeeps DEF TInv, TypeOK, ConnTyped, Used
<1> QED BY <1>2, <1>3 DEF TInv, TypeOK, server

\* A close takes its socket from what the window waits for.
LEMMA CallerGone ==
  ASSUME TInv, NEW s \in Used, NEW c \in Connection,
         c.owner = conn[s].owner, c.client = "closed", conn[s].client # "closed",
         conn' = Set(conn, s, c), NEW w \in Windows
  PROVE  Cardinality(Callers(w)') = IF w = conn[s].owner THEN Cardinality(Callers(w)) - 1
                                                       ELSE Cardinality(Callers(w))
<1>1. Callers(w)' = Callers(w) \ {s}
  BY SetCallers DEF TInv
<1>2. s \in Callers(w) <=> w = conn[s].owner
  BY DEF Callers
<1>3. Cardinality(Callers(w) \ {s}) = IF s \in Callers(w) THEN Cardinality(Callers(w)) - 1
                                                       ELSE Cardinality(Callers(w))
  BY CallersFinite, FS_RemoveElement
<1> QED BY <1>1, <1>2, <1>3

LEMMA SocketStep ==
  ASSUME TInv, NEW s \in Sockets, OnOpen(s) \/ OnClose(s) \/ OnCloseUnmounted(s)
  PROVE  TInv'
<1>1. s \in Used /\ conn[s] \in Connection /\ conn[s].owner \in Windows
  BY DEF OnOpen, OnClose, OnCloseUnmounted, TInv, TypeOK, Used, Connection
<1>0. PICK w \in Windows : w = conn[s].owner
  BY <1>1
<1>2. CASE OnOpen(s)
  <2> DEFINE c == [conn[s] EXCEPT !.client = "open", !.opened = TRUE]
  <2>1. /\ c \in Connection /\ c.owner = conn[s].owner /\ c.server = conn[s].server
        /\ c.shell = conn[s].shell /\ c.client = "open" /\ conn[s].client # "closed"
    BY <1>0, <1>1, <1>2 DEF OnOpen, Connection
  <2>2. conn' = Set(conn, s, c) /\ UNCHANGED <<server, mounted, socket, timers, held, asking, late>>
    BY <1>2 DEF OnOpen, Change
  <2> HIDE DEF c
  <2>3. /\ Counted' /\ live' \subseteq Used' /\ ConnTyped(conn')
        /\ cookie' \in 1..MaxLogins /\ valid' \subseteq 1..MaxLogins
    BY <1>0, <1>1, <2>1, <2>2, ClientEnd
  <2>4. \A v \in Windows : Callers(v)' = Callers(v)
    BY <1>0, <1>1, <2>1, <2>2, SetCallers DEF TInv
  <2>5. /\ attempt' \in [Windows -> 0..MaxRetries + 1]
        /\ status' \in [Windows -> {"connecting", "open", "retrying", "closed", "ended"}]
    BY <1>0, <1>1, <1>2, TerminalAssumption DEF OnOpen, TInv, TypeOK
  <2>6. TypeOK'
    BY <2>2, <2>3, <2>5 DEF TInv, TypeOK, ConnTyped
  <2>7. Awaited'
    BY <2>2, <2>4 DEF TInv, Awaited, Waiting
  <2> QED BY <2>3, <2>6, <2>7 DEF TInv
<1> DEFINE c == [conn[s] EXCEPT !.client = "closed"]
<1>3. /\ c \in Connection /\ c.owner = conn[s].owner /\ c.server = conn[s].server
      /\ c.shell = conn[s].shell /\ c.client = "closed"
  BY <1>0, <1>1 DEF Connection
<1>4. ASSUME conn' = Set(conn, s, c), conn[s].client # "closed", UNCHANGED server
      PROVE  /\ Counted' /\ live' \subseteq Used' /\ ConnTyped(conn')
             /\ cookie' \in 1..MaxLogins /\ valid' \subseteq 1..MaxLogins
             /\ \A v \in Windows : Cardinality(Callers(v)') =
                  IF v = w THEN Cardinality(Callers(v)) - 1 ELSE Cardinality(Callers(v))
  <2> HIDE DEF c
  <2> QED BY <1>0, <1>1, <1>3, <1>4, ClientEnd, CallerGone
<1>5. \A v \in Windows : Cardinality(Callers(v)) \in Nat /\ timers[v] \in Nat /\ asking[v] \in Nat
  BY CallersFinite, TerminalAssumption DEF TInv, TypeOK
<1>6. CASE OnCloseUnmounted(s)
  <2>1. conn' = Set(conn, s, c) /\ conn[s].client # "closed" /\ UNCHANGED <<server, window>>
    BY <1>6 DEF OnCloseUnmounted, Change
  <2> HIDE DEF c
  <2>2. TypeOK'
    BY <2>1, <1>4 DEF TInv, TypeOK, ConnTyped, window
  <2>3. Awaited'
    BY <2>1, <1>4, <1>5, TerminalAssumption DEF TInv, Awaited, Waiting, window
  <2> QED BY <2>1, <2>2, <2>3, <1>4 DEF TInv
<1>7. CASE OnClose(s)
  <2>1. /\ conn' = Set(conn, s, c) /\ conn[s].client # "closed"
        /\ UNCHANGED <<server, mounted, late>>
        /\ socket' = [socket EXCEPT ![w] = None]
    BY <1>0, <1>7 DEF OnClose, Change
  <2>2. \/ /\ \/ status' = [status EXCEPT ![w] = "ended"]
              \/ status' = [status EXCEPT ![w] = "closed"]
           /\ UNCHANGED <<attempt, timers, held, asking>>
        \/ /\ attempt[w] < MaxRetries
           /\ attempt' = [attempt EXCEPT ![w] = @ + 1]
           /\ status' = [status EXCEPT ![w] = "retrying"]
           /\ timers' = [timers EXCEPT ![w] = @ + 1] /\ held' = [held EXCEPT ![w] = TRUE]
           /\ UNCHANGED asking
        \/ /\ attempt' = [attempt EXCEPT ![w] = MaxRetries + 1]
           /\ status' = [status EXCEPT ![w] = "closed"]
           /\ \/ asking' = [asking EXCEPT ![w] = @ + 1]
              \/ asking' = asking
           /\ UNCHANGED <<timers, held>>
    <3>1. status \in [Windows -> {"connecting", "open", "retrying", "closed", "ended"}]
          /\ asking \in [Windows -> 0..MaxWaiting + 1]
      BY DEF TInv, TypeOK
    <3>2. asking = [asking EXCEPT ![w] = @]
      BY <3>1
    <3> QED BY <1>0, <1>7, <3>2 DEF OnClose
  <2> HIDE DEF c
  <2>3. /\ timers \in [Windows -> 0..MaxWaiting + 1] /\ asking \in [Windows -> 0..MaxWaiting + 1]
        /\ held \in [Windows -> BOOLEAN] /\ attempt \in [Windows -> 0..MaxRetries + 1]
        /\ status \in [Windows -> {"connecting", "open", "retrying", "closed", "ended"}]
        /\ socket \in [Windows -> Sockets \cup {None}]
    BY DEF TInv, TypeOK
  <2>4. attempt' \in [Windows -> 0..MaxRetries + 1]
    BY <1>0, <1>1, <2>2, <2>3, TerminalAssumption
  <2>5. /\ status' \in [Windows -> {"connecting", "open", "retrying", "closed", "ended"}]
        /\ held' \in [Windows -> BOOLEAN]
        /\ socket' \in [Windows -> Sockets \cup {None}]
    BY <1>0, <1>1, <2>1, <2>2, <2>3
  <2>6. /\ timers' \in [Windows -> Int] /\ asking' \in [Windows -> Int]
        /\ timers'[w] >= 0 /\ asking'[w] >= 0
        /\ timers'[w] + asking'[w] <= timers[w] + asking[w] + 1
        /\ \A v \in Windows \ {w} :
             timers'[v] = timers[v] /\ asking'[v] = asking[v] /\ held'[v] = held[v]
    BY <1>0, <1>1, <2>2, <2>3, TerminalAssumption
  <2>7. held'[w] => timers'[w] > 0
    <3>1. held[w] => timers[w] > 0
      BY <1>0, <1>1 DEF TInv, Awaited
    <3> QED BY <1>0, <1>1, <2>2, <2>3, <3>1, TerminalAssumption
  <2>8. /\ \A v \in Windows \ {w} : Cardinality(Callers(v)') = Cardinality(Callers(v))
        /\ Cardinality(Callers(w)') = Cardinality(Callers(w)) - 1
    BY <1>0, <1>1, <1>4, <2>1
  <2>9. Cardinality(Callers(w)') + timers'[w] + asking'[w] <= MaxWaiting + 1
    <3>1. Cardinality(Callers(w)) + timers[w] + asking[w] <= MaxWaiting + 1
      BY <1>0, <1>1 DEF TInv, Awaited, Waiting
    <3>2. Cardinality(Callers(w)) \in Nat /\ timers[w] \in Nat /\ asking[w] \in Nat
      BY <1>0, <1>1, <1>5
    <3>3. timers'[w] \in Int /\ asking'[w] \in Int
      BY <1>0, <1>1, <2>6
    <3>4. timers'[w] + asking'[w] <= timers[w] + asking[w] + 1
      BY <2>6
    <3> QED BY <2>8, <3>1, <3>2, <3>3, <3>4, TerminalAssumption
  <2>10. /\ Awaited'
         /\ timers' \in [Windows -> 0..MaxWaiting + 1]
         /\ asking' \in [Windows -> 0..MaxWaiting + 1]
    BY <1>0, <1>1, <2>6, <2>7, <2>8, <2>9, Turn
  <2>11. TypeOK'
    BY <1>4, <2>1, <2>4, <2>5, <2>10 DEF TInv, TypeOK, ConnTyped
  <2> QED BY <1>4, <2>1, <2>10, <2>11 DEF TInv
<1> QED BY <1>2, <1>6, <1>7

\* Nothing has changed but how far the clients' closes have come.
Alike(f) ==
  /\ ConnTyped(f)
  /\ \A t \in Sockets : f[t] = None <=> conn[t] = None
  /\ \A t \in Used : /\ f[t].owner = conn[t].owner /\ f[t].server = conn[t].server
                     /\ f[t].shell = conn[t].shell
                     /\ f[t].client = "closed" <=> conn[t].client = "closed"

LEMMA ClosingIsAlike ==
  ASSUME TInv, NEW x
  PROVE  Alike(conn) /\ Alike(Closing(conn, x))
<1>1. Alike(conn)
  BY DEF Alike, ConnTyped, TInv, TypeOK
<1>2. CASE Closing(conn, x) = conn
  BY <1>1, <1>2
<1>3. CASE Closing(conn, x) # conn
  <2>1. /\ Closing(conn, x) = [conn EXCEPT ![x].client = "closing"]
        /\ conn[x] # None /\ conn[x].client # "closed"
    BY <1>3 DEF Closing
  <2>2. conn \in [Sockets -> Connection \cup {None}]
    BY DEF TInv, TypeOK
  <2>3. x \in Sockets
    BY <1>3, <2>1, <2>2
  <2>4. conn[x] \in Connection
    BY <2>1, <2>2, <2>3
  <2> DEFINE c == [conn[x] EXCEPT !.client = "closing"]
  <2>5. /\ c \in Connection /\ c.owner = conn[x].owner /\ c.server = conn[x].server
        /\ c.shell = conn[x].shell /\ c.client = "closing"
    BY <2>4 DEF Connection
  <2>6. Closing(conn, x) = [conn EXCEPT ![x] = c]
    BY <2>1
  <2> HIDE DEF c
  <2>7. c # None
    BY <2>5, NoneAssumption
  <2> QED BY <2>1, <2>2, <2>3, <2>5, <2>6, <2>7 DEF Alike, ConnTyped, Used
<1> QED BY <1>1, <1>2, <1>3

LEMMA AlikeKeeps ==
  ASSUME TInv, Alike(conn'), live' = live
  PROVE  /\ Counted' /\ live' \subseteq Used' /\ ConnTyped(conn')
         /\ \A v \in Windows : Cardinality(Callers(v)') = Cardinality(Callers(v))
<1>1. Used' = Used
  BY DEF Alike, Used
<1>2. \A v \in Windows : Callers(v)' = Callers(v)
  BY <1>1 DEF Callers, Alike
<1>3. \A t \in Used : conn'[t].server = conn[t].server /\ conn'[t].shell = conn[t].shell
  BY DEF Alike
<1>4. live \subseteq Used
  BY DEF TInv, TypeOK
<1>5. Counted'
  BY <1>1, <1>3, <1>4 DEF TInv, Counted, Holds
<1> QED BY <1>1, <1>2, <1>4, <1>5 DEF Alike

\* A connection in a free slot is one more thing that its window waits for.
LEMMA NewCaller ==
  ASSUME TInv, NEW f, Alike(f), NEW w \in Windows, NEW r \in Sockets, conn[r] = None,
         conn' = Set(f, r, New(w)), live' = live
  PROVE  /\ Counted' /\ live' \subseteq Used' /\ ConnTyped(conn')
         /\ \A v \in Windows : Cardinality(Callers(v)') =
              IF v = w THEN Cardinality(Callers(v)) + 1 ELSE Cardinality(Callers(v))
<1> DEFINE c == New(w)
<1>1. /\ c \in Connection /\ c.owner = w /\ c.client = "connecting"
      /\ c.server = "waiting" /\ ~c.shell
  BY TerminalAssumption DEF New, Connection, TInv, TypeOK
<1>2. conn' = Set(f, r, c) /\ ConnTyped(f)
  BY DEF Alike
<1> HIDE DEF c
<1>3. /\ ConnTyped(conn')
      /\ \A t \in Sockets \ {r} : conn'[t] = f[t]
      /\ conn'[r] # None
      /\ conn'[r].owner = w /\ conn'[r].client = "connecting" /\ ~conn'[r].shell
  BY <1>1, <1>2, SetKeeps
<1>4. r \notin Used /\ Used \subseteq Sockets
  BY DEF Used
<1>5. Used' = Used \cup {r}
  BY <1>3, <1>4 DEF Alike, Used
<1>6. \A t \in Used : /\ conn'[t].owner = conn[t].owner /\ conn'[t].server = conn[t].server
                      /\ conn'[t].shell = conn[t].shell
                      /\ conn'[t].client = "closed" <=> conn[t].client = "closed"
  <2> TAKE t \in Used
  <2>1. conn'[t] = f[t]
    BY <1>3, <1>4
  <2> QED BY <2>1 DEF Alike
<1>7. live \subseteq Used
  BY DEF TInv, TypeOK
<1>8. Counted' /\ live' \subseteq Used'
  BY <1>3, <1>5, <1>6, <1>7 DEF TInv, Counted, Holds
<1>9. \A v \in Windows : Callers(v)' = IF v = w THEN Callers(v) \cup {r} ELSE Callers(v)
  BY <1>3, <1>4, <1>5, <1>6 DEF Callers
<1>10. \A v \in Windows : r \notin Callers(v)
  BY <1>4 DEF Callers
<1>11. \A v \in Windows : Cardinality(Callers(v) \cup {r}) = Cardinality(Callers(v)) + 1
  BY <1>10, CallersFinite, FS_AddElement
<1> QED BY <1>3, <1>8, <1>9, <1>11

\* What the step of a window leaves to be shown.
LEMMA HookTurn ==
  ASSUME TInv, NEW w \in Windows, UNCHANGED server,
         Counted', live' \subseteq Used', ConnTyped(conn'),
         mounted' \subseteq Windows, late' \subseteq Windows,
         \A v \in Windows \ {w} :
           /\ Cardinality(Callers(v)') = Cardinality(Callers(v))
           /\ timers'[v] = timers[v] /\ asking'[v] = asking[v] /\ held'[v] = held[v],
         status' \in [Windows -> {"connecting", "open", "retrying", "closed", "ended"}],
         socket' \in [Windows -> Sockets \cup {None}],
         attempt' \in [Windows -> 0..MaxRetries + 1],
         held' \in [Windows -> BOOLEAN],
         timers' \in [Windows -> Int], asking' \in [Windows -> Int],
         timers'[w] >= 0, asking'[w] >= 0,
         held'[w] => timers'[w] > 0,
         Cardinality(Callers(w)') + timers'[w] + asking'[w] <= MaxWaiting + 1
  PROVE  TInv'
<1>1. /\ Awaited'
      /\ timers' \in [Windows -> 0..MaxWaiting + 1]
      /\ asking' \in [Windows -> 0..MaxWaiting + 1]
  BY Turn
<1>2. TypeOK'
  BY <1>1 DEF TInv, TypeOK, ConnTyped, server
<1> QED BY <1>1, <1>2 DEF TInv

LEMMA HookStep ==
  ASSUME TInv, NEW w \in Windows, Hook(w)
  PROVE  TInv'
<1>1. /\ timers \in [Windows -> 0..MaxWaiting + 1] /\ asking \in [Windows -> 0..MaxWaiting + 1]
      /\ held \in [Windows -> BOOLEAN] /\ attempt \in [Windows -> 0..MaxRetries + 1]
      /\ status \in [Windows -> {"connecting", "open", "retrying", "closed", "ended"}]
      /\ socket \in [Windows -> Sockets \cup {None}]
      /\ mounted \subseteq Windows /\ late \subseteq Windows
  BY DEF TInv, TypeOK
<1>2. /\ held[w] => timers[w] > 0
      /\ Cardinality(Callers(w)) + timers[w] + asking[w] <= MaxWaiting + 1
      /\ timers[w] \in Nat /\ asking[w] \in Nat
      /\ Cardinality(Callers(w)) \in Nat
  BY <1>1, CallersFinite, TerminalAssumption DEF TInv, Awaited, Waiting
<1>3. (\E s \in Sockets : Free(s)) => Slot \in Sockets /\ conn[Slot] = None
  BY DEF Slot, Free
<1>4. CASE Mount(w)
  <2>1. PICK r \in Sockets : conn[r] = None /\ conn' = Set(conn, r, New(w)) /\ r = Slot
    BY <1>3, <1>4 DEF Mount, Change
  <2>2. /\ timers[w] = 0 /\ asking[w] = 0
        /\ UNCHANGED <<server, timers, held, asking>>
        /\ mounted' = mounted \cup {w} /\ late' = late \ {w}
        /\ socket' = [socket EXCEPT ![w] = r]
        /\ status' = [status EXCEPT ![w] = "connecting"]
        /\ attempt' = [attempt EXCEPT ![w] = 0]
    BY <1>4, <2>1 DEF Mount
  <2>3. /\ Counted' /\ live' \subseteq Used' /\ ConnTyped(conn')
        /\ \A v \in Windows : Cardinality(Callers(v)') =
             IF v = w THEN Cardinality(Callers(v)) + 1 ELSE Cardinality(Callers(v))
    BY <2>1, <2>2, ClosingIsAlike, NewCaller DEF server
  <2>4. Callers(w) = {}
    BY <1>4 DEF Mount, Callers
  <2>5. Cardinality(Callers(w)') + timers'[w] + asking'[w] <= MaxWaiting + 1
    <3>1. Cardinality(Callers(w)') = 1
      BY <2>3, <2>4, FS_EmptySet
    <3>2. timers'[w] = 0 /\ asking'[w] = 0
      BY <2>2
    <3> QED BY <3>1, <3>2, TerminalAssumption
  <2>6. attempt' \in [Windows -> 0..MaxRetries + 1]
    BY <1>1, <2>2, TerminalAssumption
  <2>7. /\ timers' \in [Windows -> Int] /\ asking' \in [Windows -> Int]
        /\ timers'[w] >= 0 /\ asking'[w] >= 0 /\ (held'[w] => timers'[w] > 0)
        /\ held' \in [Windows -> BOOLEAN]
    BY <1>1, <1>2, <2>2
  <2>8. /\ status' \in [Windows -> {"connecting", "open", "retrying", "closed", "ended"}]
        /\ socket' \in [Windows -> Sockets \cup {None}]
        /\ mounted' \subseteq Windows /\ late' \subseteq Windows
        /\ UNCHANGED server
    BY <1>1, <2>2
  <2> QED BY <2>2, <2>3, <2>5, <2>6, <2>7, <2>8, HookTurn
<1>5. CASE Answer(w)
  <2>1. /\ asking[w] > 0 /\ asking' = [asking EXCEPT ![w] = @ - 1]
        /\ UNCHANGED <<conn, server, mounted, socket, attempt, timers, held>>
        /\ status' = status \/ status' = [status EXCEPT ![w] = "closed"]
        /\ late' \subseteq Windows
    BY <1>1, <1>5 DEF Answer
  <2>2. /\ Counted' /\ live' \subseteq Used' /\ ConnTyped(conn')
        /\ \A v \in Windows : Cardinality(Callers(v)') = Cardinality(Callers(v))
    BY <2>1, ClosingIsAlike, AlikeKeeps DEF server
  <2>3. /\ asking' \in [Windows -> Int] /\ asking'[w] = asking[w] - 1
        /\ \A v \in Windows \ {w} : asking'[v] = asking[v]
    BY <1>1, <2>1, TerminalAssumption
  <2>4. Cardinality(Callers(w)') + timers'[w] + asking'[w] <= MaxWaiting + 1
    BY <1>2, <2>1, <2>2, <2>3, TerminalAssumption
  <2>5. /\ timers' \in [Windows -> Int]
        /\ timers'[w] >= 0 /\ asking'[w] >= 0 /\ (held'[w] => timers'[w] > 0)
        /\ held' \in [Windows -> BOOLEAN]
    BY <1>1, <1>2, <2>1, <2>3
  <2>6. /\ status' \in [Windows -> {"connecting", "open", "retrying", "closed", "ended"}]
        /\ socket' \in [Windows -> Sockets \cup {None}]
        /\ attempt' \in [Windows -> 0..MaxRetries + 1]
        /\ mounted' \subseteq Windows
        /\ UNCHANGED server
    BY <1>1, <2>1
  <2> QED BY <2>1, <2>2, <2>3, <2>4, <2>5, <2>6, HookTurn
<1>6. CASE TimerFires(w)
  <2>1. /\ timers[w] > 0 /\ timers' = [timers EXCEPT ![w] = @ - 1]
        /\ held' = [held EXCEPT ![w] = FALSE]
        /\ UNCHANGED <<server, mounted, attempt, asking, late>>
    BY <1>6 DEF TimerFires
  <2>2. /\ Counted' /\ live' \subseteq Used' /\ ConnTyped(conn')
        /\ \A v \in Windows \ {w} : Cardinality(Callers(v)') = Cardinality(Callers(v))
        /\ \/ Cardinality(Callers(w)') = Cardinality(Callers(w)) + 1
           \/ Cardinality(Callers(w)') = Cardinality(Callers(w))
        /\ status' \in [Windows -> {"connecting", "open", "retrying", "closed", "ended"}]
        /\ socket' \in [Windows -> Sockets \cup {None}]
    <3>1. CASE w \in mounted
      <4>1. PICK r \in Sockets : conn[r] = None /\ conn' = Set(conn, r, New(w)) /\ r = Slot
        BY <1>3, <1>6, <3>1 DEF TimerFires, Change
      <4>2. /\ socket' = [socket EXCEPT ![w] = r]
            /\ status' = [status EXCEPT ![w] = "connecting"]
        BY <1>6, <3>1, <4>1 DEF TimerFires
      <4>3. /\ Counted' /\ live' \subseteq Used' /\ ConnTyped(conn')
            /\ \A v \in Windows : Cardinality(Callers(v)') =
                 IF v = w THEN Cardinality(Callers(v)) + 1 ELSE Cardinality(Callers(v))
        BY <2>1, <4>1, ClosingIsAlike, NewCaller DEF server
      <4> QED BY <1>1, <4>2, <4>3
    <3>2. CASE w \notin mounted
      <4>1. UNCHANGED <<conn, socket, status>>
        BY <1>6, <3>2 DEF TimerFires
      <4> QED BY <1>1, <2>1, <4>1, ClosingIsAlike, AlikeKeeps DEF server
    <3> QED BY <3>1, <3>2
  <2>3. /\ timers' \in [Windows -> Int] /\ timers'[w] = timers[w] - 1
        /\ \A v \in Windows \ {w} : timers'[v] = timers[v] /\ held'[v] = held[v]
        /\ held' \in [Windows -> BOOLEAN] /\ ~held'[w]
    BY <1>1, <2>1, TerminalAssumption
  <2>4. Cardinality(Callers(w)') + timers'[w] + asking'[w] <= MaxWaiting + 1
    BY <1>2, <2>1, <2>2, <2>3, TerminalAssumption
  <2>5. asking' \in [Windows -> Int] /\ timers'[w] >= 0 /\ asking'[w] >= 0
    BY <1>1, <1>2, <2>1, <2>3
  <2>6. /\ attempt' \in [Windows -> 0..MaxRetries + 1]
        /\ mounted' \subseteq Windows /\ late' \subseteq Windows
        /\ UNCHANGED server
    BY <1>1, <2>1
  <2> QED BY <2>1, <2>2, <2>3, <2>4, <2>5, <2>6, HookTurn
<1>7. CASE Reconnect(w) \/ Unmount(w)
  <2>1. /\ timers' = [timers EXCEPT ![w] = IF held[w] THEN @ - 1 ELSE @]
        /\ held' = [held EXCEPT ![w] = FALSE]
        /\ UNCHANGED <<server, asking, late>>
        /\ mounted' \subseteq Windows
    BY <1>1, <1>7 DEF Reconnect, Unmount
  <2>2. /\ timers' \in [Windows -> Int] /\ timers'[w] >= 0 /\ timers'[w] <= timers[w]
        /\ \A v \in Windows \ {w} : timers'[v] = timers[v] /\ held'[v] = held[v]
        /\ held' \in [Windows -> BOOLEAN] /\ ~held'[w]
    BY <1>1, <1>2, <2>1, TerminalAssumption
  <2>3. asking' \in [Windows -> Int] /\ asking'[w] = asking[w]
    BY <1>1, <2>1
  <2>4. /\ Counted' /\ live' \subseteq Used' /\ ConnTyped(conn')
        /\ \A v \in Windows \ {w} : Cardinality(Callers(v)') = Cardinality(Callers(v))
        /\ Cardinality(Callers(w)') + timers'[w] + asking'[w] <= MaxWaiting + 1
        /\ status' \in [Windows -> {"connecting", "open", "retrying", "closed", "ended"}]
        /\ socket' \in [Windows -> Sockets \cup {None}]
        /\ attempt' \in [Windows -> 0..MaxRetries + 1]
    <3>1. CASE Reconnect(w)
      <4>1. PICK r \in Sockets :
              conn[r] = None /\ conn' = Set(Closing(conn, socket[w]), r, New(w)) /\ r = Slot
        BY <1>3, <3>1 DEF Reconnect
      <4>2. /\ socket' = [socket EXCEPT ![w] = r]
            /\ status' = [status EXCEPT ![w] = "connecting"]
            /\ attempt' = [attempt EXCEPT ![w] = 0]
            /\ Cardinality(Callers(w)) + timers[w] + asking[w] <= MaxWaiting
        BY <3>1, <4>1 DEF Reconnect, Waiting
      <4>3. /\ Counted' /\ live' \subseteq Used' /\ ConnTyped(conn')
            /\ \A v \in Windows : Cardinality(Callers(v)') =
                 IF v = w THEN Cardinality(Callers(v)) + 1 ELSE Cardinality(Callers(v))
        BY <2>1, <4>1, ClosingIsAlike, NewCaller DEF server
      <4>4. Cardinality(Callers(w)') + timers'[w] + asking'[w] <= MaxWaiting + 1
        BY <1>1, <1>2, <2>2, <2>3, <4>2, <4>3, TerminalAssumption
      <4>5. attempt' \in [Windows -> 0..MaxRetries + 1]
        BY <1>1, <4>2, TerminalAssumption
      <4> QED BY <1>1, <4>2, <4>3, <4>4, <4>5
    <3>2. CASE Unmount(w)
      <4>1. /\ conn' = Closing(conn, socket[w])
            /\ socket' = [socket EXCEPT ![w] = None]
            /\ UNCHANGED <<status, attempt>>
        BY <3>2 DEF Unmount
      <4>2. /\ Counted' /\ live' \subseteq Used' /\ ConnTyped(conn')
            /\ \A v \in Windows : Cardinality(Callers(v)') = Cardinality(Callers(v))
        BY <2>1, <4>1, ClosingIsAlike, AlikeKeeps DEF server
      <4>3. Cardinality(Callers(w)') + timers'[w] + asking'[w] <= MaxWaiting + 1
        BY <1>1, <1>2, <2>2, <2>3, <4>2, TerminalAssumption
      <4> QED BY <1>1, <4>1, <4>2, <4>3
    <3> QED BY <1>7, <3>1, <3>2
  <2>5. /\ mounted' \subseteq Windows /\ late' \subseteq Windows /\ UNCHANGED server
        /\ asking'[w] >= 0 /\ \A v \in Windows \ {w} : asking'[v] = asking[v]
    BY <1>1, <1>2, <2>1
  <2> QED BY <2>2, <2>3, <2>4, <2>5, HookTurn
<1> QED BY <1>4, <1>5, <1>6, <1>7 DEF Hook

-----------------------------------------------------------------------------
(* The theorems.                                                           *)

\* Every variable keeps its type and every counter its bound.  That there are
\* never more than MaxWaiting + 1 callbacks (sockets, timers, questions) a
\* window waits for (usePtyConnection.ts) is what bounds timers and asking.
THEOREM TerminalInvariant == Spec => []TInv
<1>1. Init => TInv
  <2> SUFFICES ASSUME Init PROVE TInv
    OBVIOUS
  <2>1. Used = {}
    BY DEF Init, Used
  <2>2. \A w \in Windows : Callers(w) = {}
    BY <2>1 DEF Callers
  <2>3. Cardinality({}) = 0 /\ IsFiniteSet({})
    BY FS_EmptySet
  <2>4. TypeOK
    BY <2>1, TerminalAssumption DEF Init, TypeOK
  <2>5. Counted
    BY <2>1, <2>3, TerminalAssumption DEF Init, Counted, Holds
  <2>6. Awaited
    BY <2>2, <2>3, TerminalAssumption DEF Init, Awaited, Waiting
  <2> QED BY <2>4, <2>5, <2>6 DEF TInv
<1>2. TInv /\ [Next]_vars => TInv'
  <2> SUFFICES ASSUME TInv, [Next]_vars PROVE TInv'
    OBVIOUS
  <2>1. CASE Next
    BY <2>1, GatewayStep, ServerStep, SocketStep, HookStep DEF Next, Gateway
  <2>2. CASE UNCHANGED vars
    BY <2>2 DEF TInv, TypeOK, Counted, Holds, Awaited, Waiting, Callers, Used, vars, server, window
  <2> QED BY <2>1, <2>2
<1> QED BY <1>1, <1>2, PTL DEF Spec

\* TypeOK of Terminal.
THEOREM TerminalTyped == Spec => []TypeOK
<1>1. TInv => TypeOK
  BY DEF TInv
<1> QED BY <1>1, TerminalInvariant, PTL

\* "Cap concurrent shells so a client can't exhaust PIDs/memory"
\* (pty.gateway.ts:91): however many windows, sockets and sign-ins there are and
\* whichever end of a connection goes first, each running shell is counted
\* in `live`, which never holds more than MAX_SESSIONS.
THEOREM ShellsCapped == Spec => []ShellsAreCapped
<1>1. TInv => ShellsAreCapped
  BY DEF TInv, Counted, Holds, ShellsAreCapped, Running, Used
<1> QED BY <1>1, TerminalInvariant, PTL

-----------------------------------------------------------------------------
(* The pool of shells.                                                     *)

\* The shell of slot s when the connections are f, and what the pool sees of it.
Runs(f, s) == f[s] # None /\ f[s].shell

Seen(f, s) == [slot |-> s, token |-> f[s].token]

\* The shell of slot s is the same one, or there is none in both.
SameShell(f, g, s) == /\ Runs(g, s) <=> Runs(f, s)
                      /\ Runs(f, s) => g[s].token = f[s].token

ShellsKept == \A s \in Sockets : SameShell(conn, conn', s)

\* The client of slot s is being told that its session was revoked.
Hears(f, s) == f[s] # None /\ f[s].code = "revoked"

\* No client is told so that was not, and only that of s may cease to be.
Hearing(s) == /\ Hears(conn', s) => Hears(conn, s)
              /\ \A r \in Sockets \ {s} : Hears(conn', r) <=> Hears(conn, r)

ToldKept == \A s \in Sockets : Hears(conn', s) <=> Hears(conn, s)

\* What one turn of the gateway, a window or the world does to the shells.
ShellOpens(s) ==
  /\ ~Refused(s)
  /\ ~Runs(conn, s) /\ Runs(conn', s) /\ conn'[s].token = conn[s].token
  /\ Hearing(s) /\ \A r \in Sockets \ {s} : SameShell(conn, conn', r)
  /\ UNCHANGED <<cookie, valid>>

ShellEnds(s) ==
  /\ ~Runs(conn', s)
  /\ Hearing(s) /\ \A r \in Sockets \ {s} : SameShell(conn, conn', r)
  /\ UNCHANGED <<cookie, valid>>

ShellsSwept ==
  /\ \A s \in Sockets : IF Runs(conn, s) /\ conn[s].token \in valid
                        THEN SameShell(conn, conn', s) ELSE ~Runs(conn', s)
  /\ \A s \in Sockets : Hears(conn', s) <=> \/ Hears(conn, s)
                                            \/ Runs(conn, s) /\ conn[s].token \notin valid
  /\ UNCHANGED <<cookie, valid>>

ShellsStop ==
  /\ \A s \in Sockets : ~Runs(conn', s) /\ (Hears(conn', s) => Hears(conn, s))
  /\ UNCHANGED <<cookie, valid>>

LEMMA SetShell ==
  ASSUME NEW f, ConnTyped(f), NEW s \in Sockets, NEW c \in Connection,
         c.shell => c.server = "open"
  PROVE  /\ \A t \in Sockets \ {s} : Set(f, s, c)[t] = f[t]
         /\ Runs(Set(f, s, c), s) <=> c.shell
         /\ c.shell => Set(f, s, c)[s].token = c.token
         /\ Hears(Set(f, s, c), s) => c.code = "revoked"
<1>1. /\ \A t \in Sockets \ {s} : Set(f, s, c)[t] = f[t]
      /\ Set(f, s, c)[s] = None <=> c.client = "closed" /\ c.server = "closed"
      /\ Set(f, s, c)[s] # None => Set(f, s, c)[s].shell = c.shell
  BY SetKeeps
<1>2. Runs(Set(f, s, c), s) <=> c.shell
  BY <1>1 DEF Runs
<1>3. ASSUME c.shell PROVE Set(f, s, c)[s].token = c.token
  <2>1. CASE c.client = "closed"
    <3>1. Set(f, s, c)[s] = [c EXCEPT !.code = "drop", !.opened = FALSE]
      BY <1>3, <2>1 DEF Set, ConnTyped
    <3>2. [c EXCEPT !.code = "drop", !.opened = FALSE].token = c.token
      BY DEF Connection
    <3> QED BY <3>1, <3>2
  <2>2. CASE c.client # "closed"
    BY <1>3, <2>2 DEF Set, ConnTyped
  <2> QED BY <2>1, <2>2
<1>4. ASSUME Hears(Set(f, s, c), s) PROVE c.code = "revoked"
  <2>1. CASE c.client = "closed"
    <3>1. Set(f, s, c)[s] = [c EXCEPT !.code = "drop", !.opened = FALSE]
      BY <1>1, <1>4, <2>1 DEF Set, ConnTyped, Hears
    <3>2. [c EXCEPT !.code = "drop", !.opened = FALSE].code = "drop"
      BY DEF Connection
    <3> QED BY <1>4, <3>1, <3>2 DEF Hears
  <2>2. CASE c.client # "closed" /\ c.server = "closed"
    <3>1. Set(f, s, c)[s] = [c EXCEPT !.token = 0]
      BY <2>2 DEF Set, ConnTyped
    <3>2. [c EXCEPT !.token = 0].code = c.code
      BY DEF Connection
    <3> QED BY <1>4, <3>1, <3>2 DEF Hears
  <2>3. CASE c.client # "closed" /\ c.server # "closed"
    BY <1>4, <2>3 DEF Set, ConnTyped, Hears
  <2> QED BY <2>1, <2>2, <2>3
<1> QED BY <1>1, <1>2, <1>3, <1>4

LEMMA ClosingShell ==
  ASSUME TInv, NEW x, NEW s \in Sockets
  PROVE  /\ SameShell(conn, Closing(conn, x), s)
         /\ Hears(Closing(conn, x), s) <=> Hears(conn, s)
<1>1. CASE Closing(conn, x)[s] = conn[s]
  BY <1>1 DEF SameShell, Runs, Hears
<1>2. CASE Closing(conn, x)[s] # conn[s]
  <2>1. conn \in [Sockets -> Connection \cup {None}]
    BY DEF TInv, TypeOK
  <2>2. /\ x = s /\ conn[s] # None
        /\ Closing(conn, x)[s] = [conn[s] EXCEPT !.client = "closing"]
    BY <1>2, <2>1 DEF Closing
  <2>3. conn[s] \in Connection
    BY <2>1, <2>2
  <2> DEFINE c == [conn[s] EXCEPT !.client = "closing"]
  <2>4. /\ c \in Connection /\ c.shell = conn[s].shell /\ c.token = conn[s].token
        /\ c.code = conn[s].code
    BY <2>3 DEF Connection
  <2> HIDE DEF c
  <2>5. c # None
    BY <2>4, NoneAssumption
  <2> QED BY <2>2, <2>4, <2>5 DEF SameShell, Runs, Hears, c
<1> QED BY <1>1, <1>2

\* A shell has an open socket.
LEMMA ShellIsOpen ==
  ASSUME TInv, NEW s \in Sockets
  PROVE  /\ s \in Used => conn[s] \in Connection /\ conn[s] # None
         /\ Runs(conn, s) => s \in Used /\ s \in live /\ conn[s].server = "open"
BY DEF TInv, TypeOK, Counted, Holds, Used, Runs

\* The turn of one socket, at either end.
LEMMA GatewayShells ==
  ASSUME TInv, NEW s \in Sockets, Gateway(s)
  PROVE  \/ ShellsKept /\ ToldKept /\ UNCHANGED <<cookie, valid>>
         \/ ShellOpens(s)
         \/ ShellEnds(s)
<1>1. s \in Used
  BY DEF Gateway, UpgradeRefused, UpgradeAccepted, SpawnFails, ShellExits, ServerCloses, Lose
<1>2. /\ conn[s] \in Connection /\ conn[s] # None /\ ConnTyped(conn)
      /\ conn[s].shell <=> Runs(conn, s)
      /\ conn[s].shell => conn[s].server = "open"
  BY <1>1, ShellIsOpen DEF TInv, TypeOK, ConnTyped, Runs
<1>3. ASSUME NEW c \in Connection, conn' = Set(conn, s, c), ~c.shell,
             c.code = "revoked" => conn[s].code = "revoked", UNCHANGED <<cookie, valid>>
      PROVE  ShellEnds(s)
  <2>1. /\ ~Runs(conn', s) /\ \A t \in Sockets \ {s} : conn'[t] = conn[t]
        /\ Hears(conn', s) => c.code = "revoked"
    BY <1>2, <1>3, SetShell
  <2>2. Hearing(s)
    BY <1>2, <1>3, <2>1 DEF Hearing, Hears
  <2> QED BY <1>3, <2>1, <2>2 DEF ShellEnds, SameShell, Runs
<1>4. CASE UpgradeRefused(s)
  <2> DEFINE c == [conn[s] EXCEPT !.server = "closed"]
  <2>1. c \in Connection /\ ~c.shell /\ c.code = conn[s].code
    BY <1>2, <1>4 DEF Connection, UpgradeRefused
  <2>2. conn' = Set(conn, s, c) /\ UNCHANGED <<cookie, valid>>
    BY <1>4 DEF UpgradeRefused, Change, server
  <2> QED BY <1>3, <2>1, <2>2
<1>5. CASE UpgradeAccepted(s)
  <2> DEFINE c == [conn[s] EXCEPT !.server = "open", !.shell = TRUE]
  <2>2. /\ c \in Connection /\ c.shell /\ c.server = "open"
        /\ c.token = conn[s].token /\ c.code = conn[s].code
    BY <1>2 DEF Connection
  <2>3. /\ conn' = Set(conn, s, c) /\ UNCHANGED <<cookie, valid>>
        /\ ~Refused(s) /\ conn[s].server = "waiting"
    BY <1>5 DEF UpgradeAccepted, Change
  <2> HIDE DEF c
  <2>4. /\ Runs(conn', s) /\ conn'[s].token = conn[s].token
        /\ Hears(conn', s) => c.code = "revoked"
        /\ \A t \in Sockets \ {s} : conn'[t] = conn[t]
    BY <1>2, <2>2, <2>3, SetShell
  <2>5. ~Runs(conn, s)
    BY <1>2, <2>3
  <2>6. Hearing(s)
    BY <1>2, <2>2, <2>4 DEF Hearing, Hears
  <2> QED BY <2>3, <2>4, <2>5, <2>6 DEF ShellOpens, SameShell, Runs
<1>6. CASE SpawnFails(s)
  <2> DEFINE c == [conn[s] EXCEPT !.server = "closing", !.code = "spawn"]
  <2>1. c \in Connection /\ ~c.shell /\ c.code = "spawn"
    BY <1>2, <1>6 DEF Connection, SpawnFails
  <2>2. conn' = Set(conn, s, c) /\ UNCHANGED <<cookie, valid>>
    BY <1>6 DEF SpawnFails, Change, server
  <2> QED BY <1>3, <2>1, <2>2
<1>7. CASE ShellExits(s)
  <2> DEFINE c == Disposed(conn[s], "exit")
  <2>1. conn[s].server = "open"
    BY <1>2, <1>7 DEF ShellExits
  <2>2. c \in Connection /\ ~c.shell /\ c.code = "exit"
    BY <1>2, <2>1 DEF Disposed, Connection
  <2>3. conn' = Set(conn, s, c) /\ UNCHANGED <<cookie, valid>>
    BY <1>7 DEF ShellExits, Change, server
  <2> HIDE DEF c
  <2> QED BY <1>3, <2>2, <2>3
<1>8. CASE ServerCloses(s)
  <2> DEFINE c == [conn[s] EXCEPT !.server = "closed", !.shell = FALSE]
  <2>1. c \in Connection /\ ~c.shell /\ c.code = conn[s].code
    BY <1>2 DEF Connection
  <2>2. conn' = Set(conn, s, c) /\ UNCHANGED <<cookie, valid>>
    BY <1>8 DEF ServerCloses, Change
  <2> QED BY <1>3, <2>1, <2>2
<1>9. CASE Lose(s)
  <2> DEFINE c == [conn[s] EXCEPT !.lost = TRUE]
  <2>1. /\ c \in Connection /\ c.shell = conn[s].shell /\ c.token = conn[s].token
        /\ c.code = conn[s].code
    BY <1>2 DEF Connection
  <2>2. /\ conn'[s] = c /\ \A t \in Sockets \ {s} : conn'[t] = conn[t]
        /\ UNCHANGED <<cookie, valid>>
    BY <1>9, <1>2 DEF Lose, ConnTyped, server
  <2> HIDE DEF c
  <2>3. c # None
    BY <2>1, NoneAssumption
  <2>4. ShellsKept /\ ToldKept
    BY <1>2, <2>1, <2>2, <2>3 DEF ShellsKept, SameShell, Runs, ToldKept, Hears
  <2> QED BY <2>2, <2>4
<1> QED BY <1>4, <1>5, <1>6, <1>7, <1>8, <1>9 DEF Gateway

LEMMA SocketShells ==
  ASSUME TInv, NEW s \in Sockets, OnOpen(s) \/ OnClose(s) \/ OnCloseUnmounted(s)
  PROVE  ShellsKept /\ Hearing(s) /\ UNCHANGED <<cookie, valid>>
<1>1. s \in Used /\ UNCHANGED <<cookie, valid>>
  BY DEF OnOpen, OnClose, OnCloseUnmounted, server
<1>2. /\ conn[s] \in Connection /\ conn[s] # None /\ ConnTyped(conn)
      /\ conn[s].shell <=> Runs(conn, s)
      /\ conn[s].shell => conn[s].server = "open"
  BY <1>1, ShellIsOpen DEF TInv, TypeOK, ConnTyped, Runs
<1>3. PICK c \in Connection : /\ conn' = Set(conn, s, c) /\ c.server = conn[s].server
                              /\ c.shell = conn[s].shell /\ c.token = conn[s].token
                              /\ c.code = conn[s].code
  <2>1. CASE OnOpen(s)
    <3> DEFINE c == [conn[s] EXCEPT !.client = "open", !.opened = TRUE]
    <3>1. conn' = Set(conn, s, c)
      BY <2>1 DEF OnOpen, Change
    <3>2. /\ c \in Connection /\ c.server = conn[s].server
          /\ c.shell = conn[s].shell /\ c.token = conn[s].token
          /\ c.code = conn[s].code
      BY <1>2 DEF Connection
    <3> HIDE DEF c
    <3> QED BY <3>1, <3>2
  <2>2. CASE OnClose(s) \/ OnCloseUnmounted(s)
    <3> DEFINE c == [conn[s] EXCEPT !.client = "closed"]
    <3>1. conn' = Set(conn, s, c)
      BY <2>2 DEF OnClose, OnCloseUnmounted, Change
    <3>2. /\ c \in Connection /\ c.server = conn[s].server
          /\ c.shell = conn[s].shell /\ c.token = conn[s].token
          /\ c.code = conn[s].code
      BY <1>2 DEF Connection
    <3> HIDE DEF c
    <3> QED BY <3>1, <3>2
  <2> QED BY <2>1, <2>2
<1>4. /\ \A t \in Sockets \ {s} : conn'[t] = conn[t]
      /\ Runs(conn', s) <=> Runs(conn, s)
      /\ Runs(conn, s) => conn'[s].token = conn[s].token
      /\ Hears(conn', s) => c.code = "revoked"
  BY <1>2, <1>3, SetShell
<1>5. Hearing(s)
  BY <1>2, <1>3, <1>4 DEF Hearing, Hears
<1> QED BY <1>1, <1>4, <1>5 DEF ShellsKept, SameShell, Runs

LEMMA HookShells ==
  ASSUME TInv, NEW w \in Windows, Hook(w)
  PROVE  ShellsKept /\ ToldKept /\ UNCHANGED <<cookie, valid>>
<1>1. (\E s \in Sockets : Free(s)) => Slot \in Sockets /\ conn[Slot] = None
  BY DEF Slot, Free
<1>2. ConnTyped(conn) /\ \A x : ConnTyped(Closing(conn, x))
  BY ClosingIsAlike DEF Alike
<1>3. New(w) \in Connection /\ ~New(w).shell /\ New(w).code = "drop"
  BY TerminalAssumption DEF New, Connection, TInv, TypeOK
<1>4. ASSUME NEW x, Slot \in Sockets, conn[Slot] = None,
             \/ conn' = Set(conn, Slot, New(w))
             \/ conn' = Set(Closing(conn, x), Slot, New(w))
      PROVE  ShellsKept /\ ToldKept
  <2>1. PICK f : /\ f = conn \/ f = Closing(conn, x)
                 /\ conn' = Set(f, Slot, New(w)) /\ ConnTyped(f)
    BY <1>2, <1>4
  <2>2. \A t \in Sockets : SameShell(conn, f, t) /\ (Hears(f, t) <=> Hears(conn, t))
    BY <2>1, ClosingShell DEF SameShell
  <2>3. /\ ~Runs(conn', Slot) /\ ~Hears(conn', Slot)
        /\ \A t \in Sockets \ {Slot} : conn'[t] = f[t]
    BY <1>3, <1>4, <2>1, SetShell
  <2> QED BY <1>4, <2>2, <2>3 DEF ShellsKept, SameShell, Runs, ToldKept, Hears
<1>5. ASSUME NEW x, conn' = conn \/ conn' = Closing(conn, x)
      PROVE  ShellsKept /\ ToldKept
  BY <1>5, ClosingShell DEF ShellsKept, SameShell, ToldKept
<1>6. UNCHANGED <<cookie, valid>>
  BY DEF Hook, Mount, Answer, TimerFires, Reconnect, Unmount, server
<1>7. CASE Mount(w)
  BY <1>1, <1>4, <1>7, <1>6 DEF Mount, Change
<1>8. CASE Answer(w)
  BY <1>5, <1>8, <1>6 DEF Answer
<1>9. CASE TimerFires(w)
  BY <1>1, <1>4, <1>5, <1>9, <1>6 DEF TimerFires, Change
<1>10. CASE Reconnect(w)
  BY <1>1, <1>4, <1>10, <1>6 DEF Reconnect
<1>11. CASE Unmount(w)
  BY <1>5, <1>11, <1>6 DEF Unmount
<1> QED BY <1>7, <1>8, <1>9, <1>10, <1>11 DEF Hook

LEMMA WorldShells ==
  ASSUME TInv, SweepRevoked \/ Restart \/ Revoke \/ SignIn
  PROVE  \/ ShellsSwept
         \/ ShellsStop
         \/ ShellsKept /\ ToldKept /\ (Revoke \/ SignIn)
<1>1. CASE SweepRevoked
  <2>1. conn \in [Sockets -> Connection \cup {None}]
    BY DEF TInv, TypeOK
  <2>2. \A s \in Sockets :
          conn'[s] = IF s \in Revoked THEN Disposed(conn[s], "revoked") ELSE conn[s]
    BY <1>1 DEF SweepRevoked
  <2>3. ASSUME NEW s \in Sockets
        PROVE  IF Runs(conn, s) /\ conn[s].token \in valid
               THEN SameShell(conn, conn', s) ELSE ~Runs(conn', s)
    <3>1. CASE Runs(conn, s) /\ conn[s].token \in valid
      <4>1. s \notin Revoked
        BY <3>1 DEF Revoked
      <4> QED BY <2>2, <3>1, <4>1 DEF SameShell, Runs
    <3>2. CASE Runs(conn, s) /\ conn[s].token \notin valid
      <4>1. /\ s \in Revoked /\ conn[s].server = "open" /\ conn[s] \in Connection
        BY <3>2, ShellIsOpen DEF Revoked
      <4>2. ~Disposed(conn[s], "revoked").shell
        BY <4>1 DEF Disposed, Connection
      <4> QED BY <2>2, <3>2, <4>1, <4>2 DEF Runs
    <3>3. CASE ~Runs(conn, s)
      <4>1. CASE s \notin Revoked
        BY <2>2, <3>3, <4>1 DEF Runs
      <4>2. CASE s \in Revoked
        <5>1. s \in Used /\ conn[s] \in Connection /\ conn[s] # None
          BY <4>2, ShellIsOpen DEF Revoked, TInv, TypeOK
        <5>2. ~conn[s].shell
          BY <3>3, <5>1 DEF Runs
        <5>3. ~Disposed(conn[s], "revoked").shell
          BY <5>1, <5>2 DEF Disposed, Connection
        <5> QED BY <2>2, <3>3, <4>2, <5>3 DEF Runs
      <4> QED BY <4>1, <4>2
    <3> QED BY <3>1, <3>2, <3>3
  <2>4. ASSUME NEW s \in Sockets
        PROVE  Hears(conn', s) <=> \/ Hears(conn, s)
                                   \/ Runs(conn, s) /\ conn[s].token \notin valid
    <3>1. CASE s \notin Revoked
      <4>1. ~(Runs(conn, s) /\ conn[s].token \notin valid)
        BY <3>1, ShellIsOpen DEF Revoked
      <4> QED BY <2>2, <3>1, <4>1 DEF Hears
    <3>2. CASE s \in Revoked
      <4>1. /\ conn[s] \in Connection /\ conn[s] # None /\ conn[s].token \notin valid
            /\ conn[s].server = "open" <=> Runs(conn, s)
        BY <3>2, ShellIsOpen DEF Revoked, TInv, TypeOK, Counted, Holds, Runs
      <4>2. CASE conn[s].server = "open"
        <5>1. conn'[s] = [conn[s] EXCEPT !.server = "closing", !.shell = FALSE,
                                         !.code = "revoked"]
          BY <2>2, <3>2, <4>2 DEF Disposed
        <5>2. conn'[s] \in Connection /\ conn'[s].code = "revoked"
          BY <4>1, <5>1 DEF Connection
        <5> QED BY <4>1, <4>2, <5>2, NoneAssumption DEF Hears
      <4>3. CASE conn[s].server # "open"
        BY <2>2, <3>2, <4>1, <4>3 DEF Disposed, Hears
      <4> QED BY <4>2, <4>3
    <3> QED BY <3>1, <3>2
  <2> QED BY <1>1, <2>3, <2>4 DEF SweepRevoked, ShellsSwept
<1>2. CASE Restart
  <2>1. PICK code \in {"shutdown", "drop"} : conn' = [s \in Sockets |->
          IF conn[s] = None \/ conn[s].client = "closed" THEN None
          ELSE [conn[s] EXCEPT !.server = "closed", !.shell = FALSE,
                               !.code = IF conn[s].server = "open" THEN code ELSE @]]
    BY <1>2 DEF Restart
  <2>2. \A s \in Sockets : ~Runs(conn', s) /\ (Hears(conn', s) => Hears(conn, s))
    <3> TAKE s \in Sockets
    <3>1. CASE conn[s] = None \/ conn[s].client = "closed"
      BY <2>1, <3>1 DEF Runs, Hears
    <3>2. CASE ~(conn[s] = None \/ conn[s].client = "closed")
      <4>1. conn[s] \in Connection
        BY <3>2 DEF TInv, TypeOK
      <4>2. conn'[s] = [conn[s] EXCEPT !.server = "closed", !.shell = FALSE,
                                       !.code = IF conn[s].server = "open" THEN code ELSE @]
        BY <2>1, <3>2
      <4>3. ~conn'[s].shell /\ (conn'[s].code = "revoked" => conn[s].code = "revoked")
        BY <2>1, <4>1, <4>2 DEF Connection
      <4> QED BY <3>2, <4>3 DEF Runs, Hears
    <3> QED BY <3>1, <3>2
  <2> QED BY <1>2, <2>2 DEF Restart, ShellsStop
<1>3. CASE Revoke \/ SignIn
  BY <1>3 DEF Revoke, SignIn, ShellsKept, SameShell, ToldKept
<1> QED BY <1>1, <1>2, <1>3

\* What the pool sees.
LEMMA ShellsAre ==
  /\ \A x : x \in Shells <=> \E s \in Sockets : Runs(conn, s) /\ x = Seen(conn, s)
  /\ \A x : x \in Shells' <=> \E s \in Sockets : Runs(conn', s) /\ x = Seen(conn', s)
BY DEF Shells, Running, Used, Runs, Seen

LEMMA ToldAre ==
  /\ ToldRevoked \subseteq Sockets /\ ToldRevoked' \subseteq Sockets
  /\ \A s \in Sockets : s \in ToldRevoked <=> Hears(conn, s)
  /\ \A s \in Sockets : s \in ToldRevoked' <=> Hears(conn', s)
BY DEF ToldRevoked, Used, Hears

LEMMA HearingIsHeard ==
  ASSUME NEW s \in Sockets, Hearing(s)
  PROVE  Pool!Heard(s)
<1>1. \A r \in Sockets \ {s} : r \in ToldRevoked' <=> r \in ToldRevoked
  BY ToldAre DEF Hearing
<1>2. s \in ToldRevoked' => s \in ToldRevoked
  BY ToldAre DEF Hearing
<1>3. CASE s \in ToldRevoked' <=> s \in ToldRevoked
  <2>1. ToldRevoked' = ToldRevoked
    BY <1>1, <1>3, ToldAre
  <2> QED BY <2>1 DEF Pool!Heard
<1>4. CASE s \notin ToldRevoked' /\ s \in ToldRevoked
  <2>1. ToldRevoked' = ToldRevoked \ {s}
    BY <1>1, <1>4, ToldAre
  <2> QED BY <2>1 DEF Pool!Heard
<1> QED BY <1>2, <1>3, <1>4

LEMMA ToldIsSame ==
  ASSUME ToldKept
  PROVE  ToldRevoked' = ToldRevoked
BY ToldAre DEF ToldKept

LEMMA KeptIsSame ==
  ASSUME ShellsKept
  PROVE  Shells' = Shells
<1>1. \A s \in Sockets : /\ Runs(conn', s) <=> Runs(conn, s)
                         /\ Runs(conn, s) => Seen(conn', s) = Seen(conn, s)
  BY DEF ShellsKept, SameShell, Seen
<1> QED BY <1>1, ShellsAre

\* No more shells run than `live` counts.
LEMMA ShellsFew ==
  ASSUME TInv
  PROVE  /\ IsFiniteSet(Shells) /\ Cardinality(Shells) \in Nat
         /\ Cardinality(Shells) <= Cardinality(live) /\ Cardinality(live) \in Nat
<1> DEFINE f == [s \in Running |-> Seen(conn, s)]
<1>1. Running \subseteq live
  BY DEF Running, TInv, Counted, Holds
<1>2. IsFiniteSet(live)
  BY DEF TInv, Counted, Holds
<1>3. /\ IsFiniteSet(Running) /\ Cardinality(Running) <= Cardinality(live)
  BY <1>1, <1>2, FS_Subset
<1>4. f \in Surjection(Running, Shells)
  BY DEF Surjection, Shells, Seen
<1>5. IsFiniteSet(Shells) /\ Cardinality(Shells) <= Cardinality(Running)
  BY <1>3, <1>4, FS_Surjection
<1> QED BY <1>2, <1>3, <1>5, FS_CardinalityType

\* The instance counts with the same operator.
LEMMA PoolCounts == Pool!Cardinality(Shells) = Cardinality(Shells)
BY DEF Cardinality, Pool!Cardinality

LEMMA PoolStep ==
  ASSUME TInv, [Next]_vars
  PROVE  [Pool!Next]_(Pool!vars)
<1>1. ASSUME ShellsKept, ToldKept, UNCHANGED <<cookie, valid>> PROVE UNCHANGED Pool!vars
  BY <1>1, KeptIsSame, ToldIsSame DEF Pool!vars
<1>2. ASSUME NEW s \in Sockets, ShellOpens(s) PROVE Pool!Opens(s)
  <2>1. \A r \in Sockets \ {s} : /\ Runs(conn', r) <=> Runs(conn, r)
                                 /\ Runs(conn, r) => Seen(conn', r) = Seen(conn, r)
    BY <1>2 DEF ShellOpens, SameShell, Seen
  <2> DEFINE t == conn[s].token
  <2>2. Runs(conn', s) /\ ~Runs(conn, s) /\ Seen(conn', s) = [slot |-> s, token |-> t]
    BY <1>2 DEF ShellOpens, Seen
  <2>3. \A x : x \in Shells' <=> x \in Shells \/ x = [slot |-> s, token |-> t]
    BY <2>1, <2>2, ShellsAre
  <2>4. Shells' = Shells \cup {[slot |-> s, token |-> t]}
    BY <2>3
  <2>5. \A x \in Shells : x.slot # s
    BY <2>2, ShellsAre DEF Seen
  <2>6. t \in valid /\ ~(Cardinality(live) >= MaxSessions)
    BY <1>2 DEF ShellOpens, Refused
  <2>7. Cardinality(Shells) < MaxSessions
    BY <2>6, ShellsFew, TerminalAssumption
  <2>8. UNCHANGED <<cookie, valid>>
    BY <1>2 DEF ShellOpens
  <2>9. Pool!Heard(s)
    BY <1>2, HearingIsHeard DEF ShellOpens
  <2> HIDE DEF t
  <2> QED BY <2>4, <2>5, <2>6, <2>7, <2>8, <2>9, PoolCounts DEF Pool!Opens
<1>3. ASSUME NEW s \in Sockets, ShellEnds(s) PROVE Pool!Ends(s)
  <2>1. \A r \in Sockets \ {s} : /\ Runs(conn', r) <=> Runs(conn, r)
                                 /\ Runs(conn, r) => Seen(conn', r) = Seen(conn, r)
    BY <1>3 DEF ShellEnds, SameShell, Seen
  <2>2. ~Runs(conn', s) /\ \A r \in Sockets : Seen(conn, r).slot = r
    BY <1>3 DEF ShellEnds, Seen
  <2>3. \A x : x \in Shells' <=> x \in Shells /\ x.slot # s
    BY <2>1, <2>2, ShellsAre
  <2>4. Shells' = {x \in Shells : x.slot # s}
    BY <2>3
  <2>5. Pool!Heard(s)
    BY <1>3, HearingIsHeard DEF ShellEnds
  <2> QED BY <1>3, <2>4, <2>5 DEF ShellEnds, Pool!Ends
<1>4. ASSUME ShellsSwept PROVE Pool!Sweep
  <2>1. \A s \in Sockets :
          /\ Runs(conn', s) <=> Runs(conn, s) /\ Seen(conn, s).token \in valid
          /\ Runs(conn', s) => Seen(conn', s) = Seen(conn, s)
    BY <1>4 DEF ShellsSwept, SameShell, Seen
  <2> DEFINE revoked == {x \in Shells : x.token \notin valid}
  <2>2. \A x : x \in Shells' <=> x \in Shells /\ x.token \in valid
    BY <2>1, ShellsAre
  <2>3. Shells' = Shells \ revoked
    BY <2>2
  <2>4. ASSUME NEW s \in Sockets
        PROVE  s \in {x.slot : x \in revoked}
                 <=> Runs(conn, s) /\ conn[s].token \notin valid
    <3>1. ASSUME NEW x \in revoked, s = x.slot
          PROVE  Runs(conn, s) /\ conn[s].token \notin valid
      <4>1. PICK r \in Sockets : Runs(conn, r) /\ x = Seen(conn, r)
        BY <3>1, ShellsAre
      <4>2. x.slot = r /\ x.token = conn[r].token /\ x.token \notin valid
        BY <3>1, <4>1 DEF Seen
      <4> QED BY <3>1, <4>1, <4>2
    <3>2. ASSUME Runs(conn, s), conn[s].token \notin valid
          PROVE  s \in {x.slot : x \in revoked}
      <4>1. /\ Seen(conn, s) \in Shells /\ Seen(conn, s).token = conn[s].token
            /\ Seen(conn, s).slot = s
        BY <3>2, ShellsAre DEF Seen
      <4>2. Seen(conn, s) \in revoked
        BY <3>2, <4>1
      <4> QED BY <4>1, <4>2
    <3> QED BY <3>1, <3>2
  <2>5. {x.slot : x \in revoked} \subseteq Sockets
    BY ShellsAre DEF Seen
  <2>6. \A s \in Sockets : Hears(conn', s) <=> \/ Hears(conn, s)
                                               \/ Runs(conn, s) /\ conn[s].token \notin valid
    BY <1>4 DEF ShellsSwept
  <2> HIDE DEF revoked
  <2>7. \A s \in Sockets :
          s \in ToldRevoked' <=> s \in ToldRevoked \/ s \in {x.slot : x \in revoked}
    BY <2>4, <2>6, ToldAre
  <2>8. ToldRevoked' = ToldRevoked \cup {x.slot : x \in revoked}
    BY <2>5, <2>7, ToldAre
  <2> QED BY <1>4, <2>3, <2>8 DEF ShellsSwept, Pool!Sweep, revoked
<1>5. ASSUME ShellsStop PROVE Pool!Stop
  <2>1. Shells' = {}
    BY <1>5, ShellsAre DEF ShellsStop
  <2>2. ToldRevoked' \subseteq ToldRevoked
    BY <1>5, ToldAre DEF ShellsStop
  <2> QED BY <1>5, <2>1, <2>2 DEF ShellsStop, Pool!Stop
<1>9. ASSUME NEW s \in Sockets, ShellsKept, Hearing(s), UNCHANGED <<cookie, valid>>
      PROVE  Pool!Closes(s)
  BY <1>9, KeptIsSame, HearingIsHeard DEF Pool!Closes
<1>6. ASSUME ShellsKept, ToldKept, Revoke \/ SignIn PROVE Pool!Revoke \/ Pool!SignIn
  BY <1>6, KeptIsSame, ToldIsSame DEF Revoke, SignIn, Pool!Revoke, Pool!SignIn
<1>7. CASE UNCHANGED vars
  BY <1>1, <1>7 DEF vars, server, ShellsKept, SameShell, ToldKept
<1>8. CASE Next
  <2>1. CASE \E s \in Sockets : Gateway(s)
    BY <1>1, <1>2, <1>3, <2>1, GatewayShells DEF Pool!Next
  <2>2. CASE \E s \in Sockets : OnOpen(s) \/ OnClose(s) \/ OnCloseUnmounted(s)
    BY <1>9, <2>2, SocketShells DEF Pool!Next
  <2>4. CASE \E w \in Windows : Hook(w)
    BY <1>1, <2>4, HookShells
  <2>3. CASE SweepRevoked \/ Restart \/ Revoke \/ SignIn
    BY <1>4, <1>5, <1>6, <2>3, WorldShells DEF Pool!Next
  <2> QED BY <1>8, <2>1, <2>2, <2>3, <2>4 DEF Next
<1> QED BY <1>7, <1>8

\* A shell is opened for a valid session and below the cap and keeps to it, and a
\* sweep ends all those of revoked sessions and tells no other client that its
\* session was revoked (upgradeHandler and sweepRevoked, pty.gateway.ts): the
\* gateway implements ShellPool, for any number of windows, sockets and sign-ins
\* and every MAX_SESSIONS.
THEOREM GatewayImplementsPool == Spec => ImplementsShellPool
<1>1. Init => Pool!Init
  BY DEF Init, Pool!Init, Shells, ToldRevoked, Running, Used
<1>2. TInv /\ [Next]_vars => [Pool!Next]_(Pool!vars)
  BY PoolStep
<1> QED BY <1>1, <1>2, TerminalInvariant, PTL DEF Spec, ImplementsShellPool, Pool!Spec
=============================================================================
