------------------------------ MODULE Terminal ------------------------------
(***************************************************************************)
(* Terminals: the gateway that gives each socket a shell                   *)
(* (apps/backend/src/modules/pty) and the hook that keeps a terminal       *)
(* window connected (usePtyConnection.ts, closeReason.ts of the add-on     *)
(* repl-interpreter).                                                      *)
(*                                                                         *)
(* The two ends of a socket close at different times, and what one end     *)
(* has done the other learns later, or never when the line is lost.  The   *)
(* handler of a close belongs to its socket, the variables it writes to    *)
(* its window.  Keystrokes, geometry and flow control are left out.        *)
(***************************************************************************)
EXTENDS Naturals, FiniteSets

CONSTANTS
  Windows,      \* terminal windows
  Sockets,      \* slots for connections
  MaxSessions,  \* MAX_SESSIONS of pty.constants.ts
  MaxRetries,   \* MAX_RETRIES of closeReason.ts
  MaxLogins,    \* bound on the sign-ins
  MaxWaiting,   \* Reconnect is not clicked with more than this to call back
  MaxLost,      \* bound on the connections whose line is dead
  None

ASSUME TerminalAssumption ==
  /\ MaxSessions \in Nat /\ MaxRetries \in Nat
  /\ MaxLogins \in Nat \ {0} /\ MaxWaiting \in Nat \ {0} /\ MaxLost \in Nat
  /\ IsFiniteSet(Sockets)
  /\ None \notin Windows \cup Sockets

VARIABLES
  conn,     \* the connection in each slot
  live,     \* PtyGateway.live, as the sockets of its entries
  cookie,   \* the session the browser presents
  valid,    \* the sessions that are valid
  mounted,  \* the windows whose effect has not been torn down
  status,   \* what each window shows
  socket,   \* the variable of that name of each window
  attempt,
  timers,   \* how many reconnect timers are running
  held,     \* whether `timer` holds one of them
  asking,   \* auth questions (describeAuthFailure) without an answer
  \* History:
  late      \* windows that were told an answer after they had moved on

server == <<live, cookie, valid>>
window == <<mounted, status, socket, attempt, timers, held, asking, late>>
vars   == <<conn, server, window>>

\* client and server are the two ends; code is what the server closes with,
\* "drop" standing for the codes 1005 and 1006; lost: nothing gets through.
Connection == [owner: Windows,
               client: {"connecting", "open", "closing", "closed"},
               server: {"waiting", "open", "closing", "closed"},
               opened: BOOLEAN,
               code: {"drop", "exit", "spawn", "revoked", "shutdown"},
               token: 0..MaxLogins,
               shell: BOOLEAN,
               lost: BOOLEAN]

ASSUME NoneAssumption == None \notin Connection

Used == {s \in Sockets : conn[s] # None}

TypeOK ==
  /\ conn \in [Sockets -> Connection \cup {None}]
  /\ live \subseteq Used
  /\ cookie \in 1..MaxLogins /\ valid \subseteq 1..MaxLogins
  /\ mounted \subseteq Windows
  /\ status \in [Windows -> {"connecting", "open", "retrying", "closed", "ended"}]
  /\ socket \in [Windows -> Sockets \cup {None}]
  /\ attempt \in [Windows -> 0..MaxRetries + 1]
  /\ timers \in [Windows -> 0..MaxWaiting + 1] /\ asking \in [Windows -> 0..MaxWaiting + 1]
  /\ held \in [Windows -> BOOLEAN]
  /\ late \subseteq Windows

Init ==
  /\ conn = [s \in Sockets |-> None]
  /\ live = {} /\ cookie = 1 /\ valid = {1}
  /\ mounted = {} /\ late = {}
  /\ status = [w \in Windows |-> "connecting"]
  /\ socket = [w \in Windows |-> None]
  /\ attempt = [w \in Windows |-> 0]
  /\ timers = [w \in Windows |-> 0] /\ asking = [w \in Windows |-> 0]
  /\ held = [w \in Windows |-> FALSE]

\* A slot is free again when both ends are closed, and keeps nothing that
\* nobody will read.
Set(f, s, c) ==
  [f EXCEPT ![s] =
     IF c.client = "closed" /\ c.server = "closed" THEN None
     ELSE IF c.client = "closed" THEN [c EXCEPT !.code = "drop", !.opened = FALSE]
     ELSE IF c.server = "closed" THEN [c EXCEPT !.token = 0]
     ELSE c]

Change(s, c) == conn' = Set(conn, s, c)

\* new WebSocket: the request carries the cookie of that moment.
New(w) == [owner |-> w, client |-> "connecting", server |-> "waiting", opened |-> FALSE,
           code |-> "drop", token |-> cookie, shell |-> FALSE, lost |-> FALSE]

-----------------------------------------------------------------------------
(* The gateway.  ws completes the handshake in the turn of the upgrade, so *)
(* the check of the cap and the counting are one step.                     *)

Refused(s) == conn[s].token \notin valid \/ Cardinality(live) >= MaxSessions

UpgradeRefused(s) ==
  /\ s \in Used /\ conn[s].server = "waiting"
  /\ Refused(s)
  /\ Change(s, [conn[s] EXCEPT !.server = "closed"])
  /\ UNCHANGED <<server, window>>

UpgradeAccepted(s) ==
  /\ s \in Used /\ conn[s].server = "waiting"
  /\ ~Refused(s)
  /\ Change(s, [conn[s] EXCEPT !.server = "open", !.shell = TRUE])
  /\ live' = live \cup {s}
  /\ UNCHANGED <<cookie, valid, window>>

SpawnFails(s) ==
  /\ s \in Used /\ conn[s].server = "waiting"
  /\ ~Refused(s)
  /\ Change(s, [conn[s] EXCEPT !.server = "closing", !.code = "spawn"])
  /\ UNCHANGED <<server, window>>

\* PtySession.dispose: it kills the shell, which is taken to die of its SIGHUP,
\* and closes the socket if it is open.
Disposed(c, code) ==
  IF c.server = "open" THEN [c EXCEPT !.server = "closing", !.shell = FALSE, !.code = code]
                       ELSE c

\* The entry stays in `live` until the socket has closed.
ShellExits(s) ==
  /\ s \in Used /\ conn[s].shell
  /\ Change(s, Disposed(conn[s], "exit"))
  /\ UNCHANGED <<server, window>>

Revoked == {s \in live : conn[s].token \notin valid}

\* Plausible slip: the entries go and the shells stay.
SweepForgets ==
  /\ Revoked # {}
  /\ live' = live \ Revoked
  /\ UNCHANGED <<conn, cookie, valid, window>>

\* Plausible slip: only the shells of the session that logged in last.
SweepSparesCurrent ==
  /\ Revoked # {}
  /\ conn' = [s \in Sockets |-> IF s \in Revoked /\ conn[s].token # cookie
                                THEN Disposed(conn[s], "revoked") ELSE conn[s]]
  /\ live' = live \ {s \in Revoked : conn[s].token # cookie}
  /\ UNCHANGED <<cookie, valid, window>>

\* Plausible slip: a sign-in counts as the end of the sessions before it.
SweepOlder ==
  LET older == {s \in live : conn[s].token # cookie} IN
  /\ older # {}
  /\ conn' = [s \in Sockets |-> IF s \in older THEN Disposed(conn[s], "revoked") ELSE conn[s]]
  /\ live' = live \ older
  /\ UNCHANGED <<cookie, valid, window>>

SweepRevoked ==
  /\ Revoked # {}
  /\ conn' = [s \in Sockets |-> IF s \in Revoked THEN Disposed(conn[s], "revoked") ELSE conn[s]]
  /\ live' = live \ Revoked
  /\ UNCHANGED <<cookie, valid, window>>

\* Plausible slip: the entry is not taken out of `live`.
ServerClosesOnly(s) ==
  /\ s \in Used /\ conn[s].server = "closing"
  /\ Change(s, [conn[s] EXCEPT !.server = "closed", !.shell = FALSE])
  /\ UNCHANGED <<server, window>>

\* 'close' on the server's socket: its client has closed, or has not answered
\* the server's close in time, or the line has failed.
ServerCloses(s) ==
  /\ s \in Used
  /\ \/ conn[s].server = "closing"
     \/ conn[s].server \in {"waiting", "open"} /\ conn[s].client \in {"closing", "closed"}
        /\ ~conn[s].lost
  /\ Change(s, [conn[s] EXCEPT !.server = "closed", !.shell = FALSE])
  /\ live' = live \ {s}
  /\ UNCHANGED <<cookie, valid, window>>

\* The backend stops, with or without onModuleDestroy, and starts again.
Restart ==
  /\ \E code \in {"shutdown", "drop"} :
       conn' = [s \in Sockets |->
         IF conn[s] = None \/ conn[s].client = "closed" THEN None
         ELSE [conn[s] EXCEPT !.server = "closed", !.shell = FALSE,
                              !.code = IF conn[s].server = "open" THEN code ELSE @]]
  /\ live' = {}
  /\ UNCHANGED <<cookie, valid, window>>

\* A logout, an expiry or a password change; and signing in.
Revoke ==
  /\ valid # {}
  /\ valid' = {}
  /\ UNCHANGED <<conn, live, cookie, window>>

SignIn ==
  /\ cookie < MaxLogins
  /\ cookie' = cookie + 1 /\ valid' = valid \cup {cookie + 1}
  /\ UNCHANGED <<conn, live, window>>

\* The line goes dead: neither end hears of the other again.
Lose(s) ==
  /\ s \in Used /\ conn[s].client = "open" /\ conn[s].server = "open"
  /\ Cardinality({t \in Used : conn[t].lost}) < MaxLost
  /\ ~conn[s].lost
  /\ conn' = [conn EXCEPT ![s].lost = TRUE]
  /\ UNCHANGED <<server, window>>

-----------------------------------------------------------------------------
(* The window.                                                             *)

Free(s) == conn[s] = None

Slot == CHOOSE s \in Sockets : Free(s)

\* The effect runs: connect().
Mount(w) ==
  /\ w \notin mounted
  /\ timers[w] = 0 /\ asking[w] = 0 /\ \A s \in Used : conn[s].owner # w
  /\ mounted' = mounted \cup {w} /\ late' = late \ {w}
  /\ \E s \in Sockets : Free(s)
  /\ Change(Slot, New(w))
  /\ socket' = [socket EXCEPT ![w] = Slot]
  /\ status' = [status EXCEPT ![w] = "connecting"]
  /\ attempt' = [attempt EXCEPT ![w] = 0]
  /\ UNCHANGED <<server, timers, held, asking>>

OnOpen(s) ==
  LET w == conn[s].owner IN
  /\ s \in Used /\ conn[s].client = "connecting" /\ conn[s].server \in {"open", "closing"}
  /\ Change(s, [conn[s] EXCEPT !.client = "open", !.opened = TRUE])
  /\ IF w \in mounted
     THEN attempt' = [attempt EXCEPT ![w] = 0] /\ status' = [status EXCEPT ![w] = "open"]
     ELSE UNCHANGED <<attempt, status>>
  /\ UNCHANGED <<server, mounted, socket, timers, held, asking, late>>

\* The codes this end may be told: the server's if its close gets through,
\* else 1006, or 1005 for a close of one's own.
Codes(s) ==
  {"drop"} \cup {code \in {conn[s].code} : conn[s].opened /\ ~conn[s].lost
                                            /\ conn[s].server \in {"closing", "closed"}}

\* classifyClose
Retried(code) == code \in {"shutdown", "drop"}

\* `disposed` keeps the close of a torn down effect from doing anything.
OnCloseUnmounted(s) ==
  /\ s \in Used /\ conn[s].client # "closed" /\ conn[s].owner \notin mounted
  /\ Change(s, [conn[s] EXCEPT !.client = "closed"])
  /\ UNCHANGED <<server, window>>

\* Plausible slip: every attempt is the first one.
OnCloseNeverGivesUp(s) ==
  LET w == conn[s].owner IN
  /\ s \in Used /\ conn[s].client # "closed" /\ w \in mounted
  /\ Change(s, [conn[s] EXCEPT !.client = "closed"])
  /\ socket' = [socket EXCEPT ![w] = None]
  /\ status' = [status EXCEPT ![w] = "retrying"]
  /\ timers' = [timers EXCEPT ![w] = @ + 1] /\ held' = [held EXCEPT ![w] = TRUE]
  /\ UNCHANGED <<server, mounted, attempt, asking, late>>

OnClose(s) ==
  LET w == conn[s].owner IN
  /\ s \in Used /\ conn[s].client # "closed" /\ w \in mounted
  /\ Change(s, [conn[s] EXCEPT !.client = "closed"])
  /\ socket' = [socket EXCEPT ![w] = None]
  /\ \E code \in Codes(s) :
       \/ /\ ~Retried(code)
          /\ status' = [status EXCEPT ![w] = IF code = "revoked" THEN "ended" ELSE "closed"]
          /\ UNCHANGED <<attempt, timers, held, asking>>
       \/ /\ Retried(code) /\ attempt[w] < MaxRetries
          /\ attempt' = [attempt EXCEPT ![w] = @ + 1]
          /\ status' = [status EXCEPT ![w] = "retrying"]
          /\ timers' = [timers EXCEPT ![w] = @ + 1] /\ held' = [held EXCEPT ![w] = TRUE]
          /\ UNCHANGED asking
       \/ /\ Retried(code) /\ attempt[w] >= MaxRetries
          /\ attempt' = [attempt EXCEPT ![w] = MaxRetries + 1]
          /\ status' = [status EXCEPT ![w] = "closed"]
          /\ asking' = [asking EXCEPT ![w] =
               IF code = "drop" /\ ~conn[s].opened THEN @ + 1 ELSE @]
          /\ UNCHANGED <<timers, held>>
  /\ UNCHANGED <<server, mounted, late>>

\* describeAuthFailure: nothing to add, or the message of a closed window.
Answer(w) ==
  /\ asking[w] > 0
  /\ asking' = [asking EXCEPT ![w] = @ - 1]
  /\ \/ w \in mounted /\ status' = [status EXCEPT ![w] = "closed"]
        /\ late' = IF status[w] = "closed" THEN late ELSE late \cup {w}
     \/ UNCHANGED <<status, late>>
  /\ UNCHANGED <<conn, server, mounted, socket, attempt, timers, held>>

\* The callback forgets the timer in `timer`, whichever that is.
TimerFires(w) ==
  /\ timers[w] > 0
  /\ timers' = [timers EXCEPT ![w] = @ - 1] /\ held' = [held EXCEPT ![w] = FALSE]
  /\ IF w \in mounted
     THEN /\ \E s \in Sockets : Free(s)
          /\ Change(Slot, New(w))
          /\ socket' = [socket EXCEPT ![w] = Slot]
          /\ status' = [status EXCEPT ![w] = "connecting"]
     ELSE UNCHANGED <<conn, socket, status>>
  /\ UNCHANGED <<server, mounted, attempt, asking, late>>

\* close() of this end's socket.
Closing(f, s) ==
  IF s = None \/ f[s] = None \/ f[s].client = "closed" THEN f
  ELSE [f EXCEPT ![s].client = "closing"]

\* What is still to call back into w: sockets, timers and questions.
Callers(w) == {s \in Used : conn[s].owner = w /\ conn[s].client # "closed"}

Waiting(w) == Cardinality(Callers(w)) + timers[w] + asking[w]

\* The button: it is there when the window says that it is closed.
Reconnect(w) ==
  /\ w \in mounted /\ status[w] = "closed"
  /\ Waiting(w) <= MaxWaiting
  /\ timers' = [timers EXCEPT ![w] = IF held[w] THEN @ - 1 ELSE @]
  /\ held' = [held EXCEPT ![w] = FALSE]
  /\ attempt' = [attempt EXCEPT ![w] = 0]
  /\ \E s \in Sockets : Free(s)
  /\ conn' = Set(Closing(conn, socket[w]), Slot, New(w))
  /\ socket' = [socket EXCEPT ![w] = Slot]
  /\ status' = [status EXCEPT ![w] = "connecting"]
  /\ UNCHANGED <<server, mounted, asking, late>>

\* Plausible slip: a socket that is still connecting is not closed.
UnmountLeavesSocket(w) ==
  /\ w \in mounted
  /\ mounted' = mounted \ {w}
  /\ timers' = [timers EXCEPT ![w] = IF held[w] THEN @ - 1 ELSE @]
  /\ held' = [held EXCEPT ![w] = FALSE]
  /\ conn' = IF status[w] = "connecting" THEN conn ELSE Closing(conn, socket[w])
  /\ socket' = [socket EXCEPT ![w] = None]
  /\ UNCHANGED <<server, status, attempt, asking, late>>

Unmount(w) ==
  /\ w \in mounted
  /\ mounted' = mounted \ {w}
  /\ timers' = [timers EXCEPT ![w] = IF held[w] THEN @ - 1 ELSE @]
  /\ held' = [held EXCEPT ![w] = FALSE]
  /\ conn' = Closing(conn, socket[w])
  /\ socket' = [socket EXCEPT ![w] = None]
  /\ UNCHANGED <<server, status, attempt, asking, late>>

Gateway(s) ==
  \/ UpgradeRefused(s)
  \/ UpgradeAccepted(s)
  \/ SpawnFails(s)
  \/ ShellExits(s)
  \/ ServerCloses(s)
  \/ Lose(s)

Hook(w) ==
  \/ Mount(w)
  \/ Answer(w)
  \/ TimerFires(w)
  \/ Reconnect(w)
  \/ Unmount(w)

Next ==
  \/ \E s \in Sockets : Gateway(s) \/ OnOpen(s) \/ OnClose(s) \/ OnCloseUnmounted(s)
  \/ \E w \in Windows : Hook(w)
  \/ SweepRevoked
  \/ Restart
  \/ Revoke
  \/ SignIn

Spec == Init /\ [][Next]_vars

(* Handlers run, timers fire, and a socket that is to open or to close does: *)
(* the browser and ws both give up waiting for the other end.  Nothing says  *)
(* that a shell exits, a window closes or a dead line is noticed.            *)
Ending(s) ==
  /\ s \in Used
  /\ \/ conn[s].client = "closing"
     \/ conn[s].server \in {"closing", "closed"} /\ ~conn[s].lost

Connecting(s) == s \in Used /\ conn[s].client = "connecting"

FairSpec ==
  /\ Spec
  /\ \A s \in Sockets :
       /\ WF_vars(UpgradeRefused(s) \/ UpgradeAccepted(s) \/ SpawnFails(s))
       /\ WF_vars(ServerCloses(s))
       /\ WF_vars(Ending(s) /\ (OnClose(s) \/ OnCloseUnmounted(s)))
       /\ WF_vars(Connecting(s) /\ (OnOpen(s) \/ OnClose(s) \/ OnCloseUnmounted(s)))
  /\ \A w \in Windows : WF_vars(TimerFires(w))
  /\ WF_vars(SweepRevoked)

-----------------------------------------------------------------------------
(* Properties.                                                             *)

Running == {s \in Used : conn[s].shell}

\* "Cap concurrent shells so a client can't exhaust PIDs/memory"
\* (pty.gateway.ts:91): no shell runs that `live` does not count, whichever of
\* its ends, the sweep and the shell itself closes a connection first.
ShellsAreCapped == Running \subseteq live /\ Cardinality(live) <= MaxSessions

\* "Kill any pty whose session cookie is no longer valid" (pty.gateway.ts:142):
\* every shell of a revoked session ends, those behind a dead line too.
RevokedShellsDie ==
  \A s \in Sockets : (s \in Running /\ conn[s].token \notin valid)
                        ~> (s \notin Running \/ conn[s].token \in valid)

\* "Closing the socket is what makes the server reap the pty"
\* (usePtyConnection.ts:244): the shells of a window that is gone end, unless the
\* line was dead, or an answer that came late let the user reconnect while
\* the window had a connection.
GoneWindowsAreReaped ==
  \A s \in Sockets :
    LET stray == s \in Running /\ conn[s].owner \notin mounted
    IN  stray ~> (~stray \/ conn[s].lost \/ conn[s].owner \in late)

\* "Retries are finite" (closeReason.ts:36): a window that connects or
\* waits to comes to show an open terminal or why there is none.
RetriesEnd ==
  \A w \in Windows :
    (w \in mounted /\ status[w] \in {"connecting", "retrying"})
      ~> (w \notin mounted \/ status[w] \in {"open", "closed", "ended"})

-----------------------------------------------------------------------------
(* The promise, seen through the sockets whose shell runs.                 *)

Shells == {[slot |-> s, token |-> conn[s].token] : s \in Running}

ToldRevoked == {s \in Used : conn[s].code = "revoked"}

Pool == INSTANCE ShellPool WITH shells <- Shells, told <- ToldRevoked, Slots <- Sockets

\* A shell is opened only for a session that is valid at that moment and below
\* the cap, and keeps to it whatever becomes of its socket; a sweep ends the
\* shells of revoked sessions, all of them, and tells no other client that its
\* session was revoked (upgradeHandler and sweepRevoked, pty.gateway.ts): the
\* gateway implements the pool of shells.
ImplementsShellPool == Pool!Spec
=============================================================================
