# ImbatranimOS in TLA+

ImbatranimOS is a single-user desktop in the browser: a NestJS backend
(`apps/backend`) over one SQLite database and one home directory, a React shell
(`apps/core`), about 26 add-on applications (`apps/add-ons`) on a UI kit
(`packages/ui`), and a container or ISO that starts them
(`infrastructure`). This directory holds specifications of the parts of it that
keep state across concurrent steps, the TLC configurations that check them, and
proofs. Source paths below are relative to `src/`; `PROJECT.json` maps each
definition to the lines it models.

## 1. Inventory

| Component | State | Operations | Talks to | What is hard |
|---|---|---|---|---|
| Login, sessions, rotation (`modules/auth`) | the row `auth_user`, the table `auth_sessions` | setup, login, logout, password change, TOTP enrol / confirm / disable, the guard of every route, boot purge | throttle; the guard stands before every other module; the terminal's sweep | handlers interleave at every argon2 call; sliding expiry under a ceiling; single-use codes |
| Login throttle | counters per address and one global, in memory | check, record a failure, reset | called by login and password change | failures that land after a lock began; backoff arithmetic; a restart forgets |
| Backup download (`modules/backup`) | a lock flag, one staging directory at a fixed path, a `tar` child | download | database (`VACUUM INTO`), home directory | nine awaits, each may fail; a client that leaves; a restart in the middle |
| Restore (`modules/backup`) | pending uploads, scratch directories, the home directory, the open database | inspect, apply | database, sessions (`destroyAll`), home directory | renames that interleave or fail half way; an undo list; swapping an open database |
| Database (`db`) | connection, file, migration ledger | open, snapshot, replace | every backend module | replaced while in use; a migration that stops half way |
| Dotfile sync (`lib/prefs.ts`, `AuthGate`, `modules/prefs`) | the browser's mirror and queue, timers; the table `prefs` | write, flush, hydrate, seed, keepalive, lock and sign in | every persisted store of the shell | lost and late requests, answers to old batches, an expiring session, reloads |
| Window manager (`windowStore.ts` and its callers) | windows, stacking counter, workspaces, show-desktop stash, pending closes, the tab's saved layout | open, focus, show, hide, move, show desktop, close, log off, reload | close guards of applications, session storage | callers combine methods in different orders; close questions answered later; stale layouts |
| Unsaved-changes guard (`packages/ui`) | the dialog, a save in flight | ask, discard, cancel, save | window manager | a save that fails or misses an edit; unmount while it asks |
| Terminal (`modules/pty`, `usePtyConnection.ts`) | the set of live shells, each window's socket, attempt counter and reconnect timer | connect, data, resize, revoke sweep, shutdown; mount, retry, reconnect, unmount | sessions | two ends that close at different times, dead lines, answers that come late |
| Files and trash (`modules/files`, `modules/archive`) | the home directory, trash files and their info | list, read, write, create, upload, copy, move, delete, extract, trash, restore, remove, empty | home directory | check-then-rename without a lock; a full disk or a stop between two steps |
| Clock alarms and schedule claims (`add-ons/clock`, `scheduleClaim.ts`, `modules/clock`, `modules/schedule`) | alarms, claimed occurrences; each tab's cache, ticks and banner | tick, ring, claim, snooze, switch, refetch | every tab that polls | several tabs with stale caches, late ticks, a lost answer |
| Other backend modules | one table each, or none | synchronous CRUD, wrappers of `git`, `tar`, `fetch` | database | little: one handler, one turn |
| Other stores of the shell, add-ons, PDF engine, image and ISO | local | user interface, rendering, packaging | window manager, dotfiles | rendering and I/O |

What makes each correct, in a sentence:

- *Sessions*: a credential that was revoked, rotated away or expired never works
  again, none outlives its ceiling, and a one-time code is used once.
- *Throttle*: no order of requests shortens a lockout that is running.
- *Backup*: one at a time; an archive holds its own snapshot and manifest; the
  lock comes back.
- *Restore*: the old tree or the new one, no data lost, no tarball left behind, always
  a database, and nobody signed in with the sessions a backup came with, each but for the
  failures the properties name.
- *Dotfile sync*: an edit leaves the queue only when it was stored, and is stored
  in the end; what waits is what is shown.
- *Files*: a document goes only when a request was asked to give it up, and what is
  in the trash can be put back where it was.
- *Terminal*: every shell is counted, and ends with its session and its window;
  retrying ends.
- *Alarms*: an occurrence that rings is announced, and once; a snooze arrives.
- *Window manager*: one window is on top; what is brought up is seen; a close
  neither hangs nor discards a document silently.

The full list of what is hard to test, line by line, is under `hazards` in
`PROJECT.json`.

## 2. Modules

| Module | Models | Rests on |
|---|---|---|
| `Throttle` | `throttle.service.ts`, as operators on a counter | |
| `AuthSession` | login, sessions, rotation, TOTP, the guard, the terminal's sweep | `Throttle` |
| `SlidingSessions` | what the backend promises of sessions | implemented by `AuthSession` |
| `Backup` | the download | |
| `Restore` | inspect, apply, `replaceWith` | |
| `AtomicRestore` | what a restore promises | implemented by `Restore` |
| `PrefsSync` | mirror, queue, requests under way, the `prefs` route | |
| `EditDelivery` | what a page promises of an edit | implemented by `PrefsSync` |
| `WindowManager` | store, its callers, close guards, the tab | |
| `Files` | `files.service.ts`, `trash.service.ts`, `mergeTree` of `archive.service.ts` | |
| `Terminal` | `pty.gateway.ts`, `pty-session.ts`, `usePtyConnection.ts` | |
| `ShellPool` | what the gateway promises of shells | implemented by `Terminal` |
| `Alarms` | the Clock's background service, `claim`, the tables behind them | |
| `AuthSession_proofs`, `Backup_proofs`, `Restore_proofs`, `PrefsSync_proofs`, `WindowManager_proofs`, `Files_proofs`, `Terminal_proofs`, `Alarms_proofs` | the theorems about each | the module named |
| `MC*` | small instances for TLC | |

The convention of all of them: Node (and a browser tab) runs one turn at a time,
so a handler is cut at its awaits and each piece is one action. What the handler
keeps over an await is in the model's record of it; what it reads again is read
again. Operators marked *plausible slip* are what a definition could wrongly have
been; no specification uses them. They are the mutants of `PROJECT.json`, each
the wrong program one property rejects.

### AuthSession and SlidingSessions

`req[q]` is a request in flight, cut at its argon2 calls: `BeginLogin` tests the
lockout and reads the hash, and `LoginFails`, `LoginRenews` or `LoginIssues` is
the turn after it; a password change has three such calls (`BeginChange`,
`ChangeProved`, `HashNext`, `FinishChange`). The result of an argon2 comparison
is fixed when the hash is read, and `ok` keeps it. The second factor, the sessions
and the counters are read after the await, as in the code. `Guard` is the route
guard with its renewal and lies in the same turn as the handler's first piece;
`ValidateOnly` is the terminal's sweep, which must not renew. `Restart` loses what
is in memory and purges. Left out: the one-time setup token, the `Origin` check,
cookie attributes and `last_seen`, which change nothing that is modelled; a slot of
`Requests` stands for a connection. The password policy is the set
`StrongPasswords`; a code is a secret and a step.

`SlidingSessions` knows of no rows, requests or restarts: a session has a birth and a last
use, is over at a deadline made of the two, and ends by a logout, a new password or that
deadline. It is implemented through `Live`, the rows that are not over. A renewal that
would gain less than `RenewGain` (an hour) is not written, so `Slack` says by how much
a session may end early.

### Backup

The phases of `openBackupStream` and of the controller's `download`; each await is
a step and each can fail into the `catch`. The archive is reduced to whose snapshot
and whose manifest `tar` found. `disturbed` is history: the downloads whose staging
directory somebody else removed, which `dispose` (it clears the lock *before* it
awaits `rm`) and a restore do. Nothing in the controller listens for a client that
goes away: `ClientLeaves` changes only `client`, and `tar` may then never end.

### Restore and AtomicRestore

The home directory is a function from its top-level entries to whose tree they hold.
`swapIn` is `CheckLive`, `Park` and `Move` for each name in any order, `Undo` one
entry of the undo list. `installDatabase` checks (`InstallFindsSnapshot`), replaces
(`Replace`) and revokes (`Revoke`): the awaits between them are steps others may take.
The database file lies inside the entry `Sys` and moves with it. `replaceWith` is
synchronous and so one step, which may go well (`Replace`), fail at its rename
(`ReplaceFails`), fail after it with the restored database open (`ReplaceHalfDone`:
a sidecar file, a pragma, a migration), or not get the database open again
(`ReopenFails`). `CleanTarball`, `CleanStaging` and `CleanUp` are the three removals of
the `finally` block, each of which may fail (`CleanUpFails`). The listing and the
extraction of the archive are one step each that succeeds or fails.

`Faults` names the steps at which the file system may answer with an error, so that a
run says which it admits: "measure" (`statfs` or `homeRoot`, which throw after the
upload has left the map and before the `try`), "stage", "swap", "undo" (a step of the
undo list), "install" (`replaceWith`), "reopen", "revoke", "clean" (a removal of a tarball
or a scratch directory). `capUploads` and `sweepUploads` do not await their removals of
other tarballs; these are done at once here, and their errors left out.

### PrefsSync and EditDelivery

One tab, one backend, and a bag of requests between them which arrive in any order
or not at all. `put` is the flush, of which one is in flight; `get` the hydration;
`blind` a PUT nobody awaits (seeding, keepalive, a page that is gone). A value is the
number of the write that made it. Timers may run out at any time. `Settle` is the
whole of what follows the answer to a flush, with the flush that was asked for
meanwhile. `removeItem` is left out.

`EditDelivery` gives the last edit of each key one fate: waiting, stored, or refused for
good. `Fate` reads it off the queue, the table and the history; a key whose last edit is in
none of them is "lost", a fate `EditDelivery` does not have. Stored means that the
table has had it; a late keepalive may put an older value over it. An edit that was refused may
still be stored by a keepalive that carries it, and a reload forgets what was waiting.

### WindowManager

`desk` is the store, and each method a function on desks (`Focus`, `Show`, `Hide`,
`MoveTo`, ...), so that what a caller does is a composition of them: the taskbar shows
and then focuses (`BringUp`), the palette focuses and then shows (`LookUp`),
`OpenApp` only focuses. `CloseAsks` to `SaveFails` are the guard's dialog. `tab` is
session storage: the layout is saved on a debounce (`PersistLayout`), the active
workspace at once, and `Reload(flushed)` starts from the two with or without the
flush of `beforeunload`. Left out: geometry and titles, `restoreLayout`'s clamping of
rectangles, and the focus gate of the lock screen. Only applications in `GuardedApps`
have documents.

### Files

A path is a name and what it holds a document: a file's bytes or a folder's tree. A
request is a record with a phase, and the awaits of each operation are its steps:
`Upload`, `Stage`, `Install` are the staged save; `WriteFile` and `CreateFile` open
the target itself (`Open`, `Written`), and so does a copy; `Trash`, `UniqueName`,
`Note`, `Bin` put a document in the trash and `Restore`, `Find`, `Place`, `Return`,
`Forget` take it out. `Refuse` is a check that says no, an error of the file system or
a stop of the backend at that point; `NoteFails`, `BinFails` and `CopyFails` are the
failures that leave something behind. `Observe` keeps history beside every step: where
each item of the trash came from, which requests met another with the same target, and
on which ids two requests worked. Left out: the path jail, listings and searches,
creating and copying folders, `compressTarGz`.

### Terminal and ShellPool

A connection has a client end and a server end that open and close on their own, and
`Codes` is what this end may be told of the other's close. A connection carries the
cookie its request was sent with (`token`), whoever signs in before the server handles
it. `ws.handleUpgrade` calls
back in the turn of the upgrade, so the test of the cap and the spawn are one step.
`Disposed` takes the shell to be over with the SIGHUP it is sent: a shell that ignores it
outlives its entry in `live`, and nothing in the gateway would notice.
`OnClose` is the hook's handler with `classifyClose`; `socket`, `attempt` and `held`
are the hook's variables, and `timers` and `asking` the callbacks that are still to
come, whatever those variables say by then. `Lose` is a dead line: the gateway sends no
pings, so neither end hears of it. Left out: keystrokes, geometry, flow control, and
the frames queued while there is no connection.

`ShellPool` is the gateway without sockets and windows: shells with the session each
belongs to, and `told`, the clients that are being told 'session-revoked'. It is
implemented through `Shells`, the sockets whose shell runs, and `ToldRevoked`, those with
this close code. A shell may end at any time, as its window may go, so what tells a sweep
from other ends is `told`: only `Sweep` adds to it, it adds the shells of revoked sessions
and no others, and it ends all of them. `Opens` needs a valid session and room under
the cap.

### Alarms

One alarm and the tabs that ring it. `TickFires` is one tick of `ClockBackground` for
a due occurrence: it changes the cache, sends the PATCH and the claim, and shows the
banner in one turn. `Mutate` is the optimistic mutation of the snooze button and the
switch, with its roll-back in `PatchFails`. A request is handled (`UpdateAlarm`,
`Claim`, `FetchHandled`) and answered in two steps, and may fail before or after the
first. Tabs tick as rarely as a hidden tab does. A slot of `Calls` stands for a request
in flight; `Room` keeps enough of them free. `promised` is history: the deadline of the last
snooze, until it rings, the user turns the switch, or it is overtaken (`Overtaken`). `behind`
says by what it can be: the PATCHes in flight that were sent before the snooze, or since by
a tab that rang the alarm while its list did not show the snooze. Left out: creating, editing and deleting
alarms, timers, the stopwatch, world clocks, and the pruning of old claims.

## 3. Runs

| Run | Asks | Shows |
|---|---|---|
| `auth` | `TypeOK`, `TotpSingleUse`, `SlidingExpiryBound`, `NoPreChangeToken`, `RevokedStaysRevoked`, `LockoutHolds`, `ImplementsSlidingSessions` | two requests in flight over logins, password changes, enrolments, expiry, restarts: no session is stretched, resurrected, cut short, or left from an older password; a code step is accepted once; no lockout, of an address or of the application, shrinks; the table implements `SlidingSessions` |
| `backup` | `TypeOK`, `OneAtATime`, `OwnSnapshot`, `LockReleased` | exclusion, ownership and release, over failures at every step and restarts |
| `restore` | `TypeOK`, `TarballsAccountedFor`, `SwapIsUndone`, `NothingLostBeforeCleanUp`, `CarriedSessionsRevoked`, `AlwaysADatabase`, `ImplementsAtomic` | every interleaving of two applies, every kind of error but those of the undo list, a restart; each tarball is in use or was left by a named failure; no failure but that of the reopening itself takes the connection to a database away whenever no two applies have overlapped; whose sessions a restored database may leave valid; until an overlap, a crash, an error after the swap or in the clean-up, it implements `AtomicRestore` |
| `prefs` | `TypeOK`, `EditsAreDurable`, `EditsArrive`, `ImplementsDelivery` | no edit is dropped unstored; each is stored in the end; none is settled by the answer to another: the queue implements `EditDelivery` |
| `windows` | `TypeOK`, `StackIsStrict`, `CloseIsAsked`, `RaisedIsSeen`, `NoSilentLoss` | two windows, two workspaces, every method and caller |
| `files` | `TypeOK`, `TrashedIsRestorable`, `NothingVanishes` | two requests of any kind, cut at every await, with failures and stops |
| `terminal` | `TypeOK`, `ShellsAreCapped`, `RevokedShellsDie`, `GoneWindowsAreReaped`, `RetriesEnd`, `ImplementsShellPool` | the two ends of two sockets, a dead line, sign-outs, restarts and reconnections; the gateway implements `ShellPool`, so that a sweep tells and ends exactly the shells of revoked sessions |
| `alarms` | `TypeOK`, `AnnouncedOnce`, `NoneIsSilent`, `SnoozeIsKept` | two tabs over requests that are late, reordered or fail: an occurrence has one winner and is not silent; a snooze is lost only to its own failure or to a PATCH that does not know of it |
| `restore_half` | `FailedRestoreChangesNothing` | violated, finding 1 |
| `prefs_clobber` | `PendingIsShown` | violated, finding 2 |
| `files_collide` | `TrashIdsDoNotCollide` | violated, finding 3 |
| `alarms_snooze` | `FiringIsIdempotent` | violated, finding 4 |

### Bounds, and why they are enough

- **Authentication.** Two requests: the handlers share nothing but the rows and
  counters, and a hazard is one handler's turn between two of another's. TTL 2,
  ceiling 3, clock 0..2: a session can be renewed, meet the ceiling and expire. Thresholds
  0 and 1 and a maximal lock of 2 ticks: a lock begins, doubles and is capped, with one
  failure admitted before it. Two secrets: codes overlap in the drift window and a second
  secret replaces the first. The constraint `TotpBounds` of `MCAuthSession` cuts what
  follows an enrolment to the first tick and two tokens, and what follows a second
  enrolment to one request at a time; without an enrolment nothing is cut. `MaxTokens`, `MaxSecrets`, `MaxFailures` bound the histories;
  the actions leave room for what is in flight, so a request that began can end.
- **Backup.** Three downloads: one that disturbs, one disturbed, and one after.
- **Restore.** Two uploads over three entries: the system entry, a file (which a
  rename may replace), a directory (which it may not) that only one of them carries.
  `MaxPending` 1 forces an eviction; one restart. Every fault but "undo" is admitted; with
  "undo" the promise of `swapIn` is off, and what holds then is `NothingIsLost`.
- **Dotfiles.** Two keys, three edits, two troubles (a loss, an error, an expiry, a
  keepalive, a reload). Two keys make a batch that is partly rewritten in flight; a
  key is rewritten at most twice. The counterexample of finding 2 needs three
  troubles or fewer and one key.
- **Windows.** Two windows, two workspaces, two applications (one single-instance
  with a document, one with several windows); the stacking counter up to 5. Only one
  window can have a document at a time in this instance, so dialogs never stand beside
  each other; `CloseIsAsked` and `NoSilentLoss` speak of one window each.
- **Files.** Two requests: a hazard is one request's step between a check and an act of
  another. Two files and a folder (which a rename cannot replace), two ids that the
  trash tries for a path, and a second path that restore tries when the first is taken.
  In `files_collide` both paths have one name.
- **Terminal.** One window with two sockets: an old connection whose end comes late
  beside a new one. One shell is allowed, so the old one may keep the cap; one automatic
  retry; one dead line; two sign-ins. Windows share nothing but the cap. A sweep here meets
  one shell, whose session is valid or revoked, and TLC shows that it leaves it alone or
  ends it accordingly; that a sweep which meets both kinds at once tells them apart
  is shown by the proof (`GatewayImplementsPool`), for every cap. With a cap of two and three
  sockets the instance is too large for the liveness properties.
- **Alarms.** Two tabs, three requests in flight, three minutes, one snooze of one
  minute, one incident (a request that fails, a tab that closes, a turn of the switch).
  A late tick fires up to one minute after the occurrence, as in the code.
- **Symmetry** is declared for request slots, tabs and window ids, in runs without liveness;
  no definition tells them apart (`AnyKey` picks an address, which is not in the
  symmetry set; `NextAbove` picks a number; `Send` picks one of the free slots, which
  are alike).

Deadlock is checked except where the users' acts run out: every download, upload, edit
or trouble, and the clock of the alarms, is used up in the end
(`CHECK_DEADLOCK FALSE`). It is checked wherever somebody can always do something.

### Fairness

`Backup!FairSpec`: weak fairness of `Progress(d)`, that is of each await of a download
and of `tar` *while its client reads*. Node resumes a promise that settled and the
kernel runs `tar` with a reader; nothing makes a `tar` end whose pipe is full. A
download that never starts, a restart and an error need not happen.

`PrefsSync!FairSpec`: weak fairness of the timers, of settling and hydrating, of
arrival, and of signing in while the lock screen is up. The last is the user's, and the
code's too only in that it queues writes until then. Edits, troubles and reloads are
not fair, and troubles are bounded: a network that loses everything stores nothing.

`Terminal!FairSpec`: weak fairness of the gateway's handlers, of the sweep, of timers,
and of sockets that are to open or to close: browsers and `ws` both give up waiting for
the other end. Nothing says that a shell exits, that a window closes, that an answer to
`describeAuthFailure` comes, or that a dead line is noticed.

## 4. Findings

Each is a run whose property quotes a promise of the repository. TLC's trace is the
account; `PROJECT.json` has the quotations with their lines.

1. **`restore_half`.** The undo list covers the renames. If the database cannot be
   installed afterwards, the restore fails with the new tree in place and the old one
   deleted by the clean-up.
2. **`prefs_clobber`.** If the first hydration failed, a second sign-in flushes and
   hydrates at once; the stale answer replaces a newer edit on screen.
3. **`files_collide`.** Two files of one name trashed at once find the same free id;
   the second replaces the info file and renames its file over the first, which is gone.
4. **`alarms_snooze`.** A tab that ticks late fires an occurrence that was rung and
   snoozed in another, and its PATCH erases the snooze.

The following were met while modelling and have no run of their own. Each is an exception
a property names, or a sentence the properties do not say.

- A login that waits for argon2 over a password change gets a session of the new
  generation with the old password (`NoPreChangeToken` speaks of rows, written later).
- `replaceWith` may throw after its rename (a sidecar file, a pragma, a migration): the
  restored database is open, the restore has failed, and `destroyAll` did not run
  (`CarriedSessionsRevoked` names it). If the reopening itself throws, a closed
  connection stays until a restart (`AlwaysADatabase` names it), against "Reopen no
  matter what" (`db.service.ts:100`).
- `statfs` or `homeRoot` may throw before the `try` of `apply`: the tarball stays in the
  temporary directory, as it does when its removal fails (`TarballsAccountedFor` names
  these). A clean-up that fails reports the failure of a restore that is done.
- Two overlapping restores, without any error of the disk: one parks the directory of
  the database between the other's check and its rename, rename and reopening both
  fail, and the process has no connection (`AlwaysADatabase` excludes `overlap`).
- With several overlapping restores (TLC found it with five) an install that fails opens
  again a database which another restore put there and whose `destroyAll` ran on a third:
  its sessions are valid (`CarriedSessionsRevoked` excepts a failed install under `overlap`).
- A second backup that starts while `dispose` still removes can lose its snapshot
  (`OwnSnapshot` excludes `disturbed`); the lock stays when a client leaves or the home
  directory does not resolve (`LockReleased` names both).
- `openApp` on a minimised single-instance application raises it and never shows it,
  against `windowStore.ts:779-784` (`RaisedIsSeen` speaks of the other callers).
- `restoreLayout` returns on an empty layout before it reads the saved workspace and
  leaves it saved; a later reload, with windows, jumps to it
  (`windowStore.ts:192-194` calls this alarming).
- "Every save in the OS goes through here" (`files.service.ts:675`) is not so: Notepad and
  the REST client save with `writeFile`, in place. `NothingVanishes` counts a request
  that overwrites among those asked to give up the old bytes.
- An item trashed while the trash is emptied keeps its file and may lose its info
  (`TrashedIsRestorable` excludes `muddled`). Extraction removes the old entry before
  it renames the new one in, and a failure in between leaves neither.
- When the answer to `describeAuthFailure` arrives after the user has reconnected, the
  window says closed over a connection that opens; another click leaves a shell
  nobody closes (`GoneWindowsAreReaped` excludes `late`). A shell behind a dead line
  stays until its session ends.

## 5. Proofs

`tlapm` checks these for every value of the constants, under the assumptions that the
modules name and TLC evaluates in their runs: `AuthAssumption`, `ThrottleAssumption`,
`BackupAssumption`, `RestoreAssumption`, `PrefsAssumption`, `WindowAssumption`,
`FilesAssumption`, `TerminalAssumption`, `NoneAssumption`, `AlarmsAssumption`,
`ValuesAssumption`. They say that counts and times are numbers, that the markers (`None`,
`Absent`, ...) are no values, and that a set somebody counts is finite; not how many
requests, files, windows, tabs, uploads or passwords there are. The bounds of the histories
(`MaxTokens`, `MaxWrites`, ...) are arbitrary numbers.

| Module | Theorem | States |
|---|---|---|
| `AuthSession` | `InductiveInvariant`, `TypeCorrect` | the inductive invariant; `TypeOK` |
| | `ExpiryBounded` | `SlidingExpiryBound` |
| | `RotationDropsOldRows` | `NoPreChangeToken` |
| | `CodesAreSingleUse` | `TotpSingleUse` |
| | `RevocationIsFinal` | `RevokedStaysRevoked` |
| | `LockoutsHold` | `LockoutHolds`, of addresses and of the application |
| | `BackoffGrows` | one failure more never earns a shorter lock, nor one above the cap |
| | `TableImplementsSliding` | `ImplementsSlidingSessions`, the refinement |
| `Backup` | `BackupInvariant`, `BackupTypes` | the inductive invariant; `TypeOK` |
| | `LockExcludes`, `ArchiveIsOwn` | `OneAtATime`, `OwnSnapshot` |
| `Restore` | `RestoreInvariant`, `RestoreTypes` | the inductive invariant; `TypeOK` |
| | `TarballsKept`, `FailedSwapIsUndone` | `TarballsAccountedFor`, `SwapIsUndone` |
| | `NothingIsLost`, `DatabaseStaysOpen` | `NothingLostBeforeCleanUp`, `AlwaysADatabase` |
| | `RestoresSignOut` | `CarriedSessionsRevoked`, of applies that overlap too |
| | `RestoreIsAtomic` | `ImplementsAtomic`, the refinement, if the undo list itself does not fail |
| `PrefsSync` | `PrefsInvariant`, `PrefsTypes` | the inductive invariant; `TypeOK` |
| | `EditsStay` | `EditsAreDurable` |
| | `QueueImplementsDelivery` | `ImplementsDelivery`, the refinement |
| `WindowManager` | `WindowInvariant`, `WindowTypes` | the inductive invariant; `TypeOK` |
| | `OneTop`, `ClosesAreAsked` | `StackIsStrict`, `CloseIsAsked` |
| | `RaisedAreSeen`, `NothingLostSilently` | `RaisedIsSeen`, `NoSilentLoss` |
| `Files` | `FilesInvariant`, `FilesTyped` | the inductive invariant; `TypeOK` |
| | `TrashIsListed`, `NothingIsDestroyed` | `TrashedIsRestorable`, `NothingVanishes` |
| `Terminal` | `TerminalInvariant`, `TerminalTyped` | the inductive invariant; `TypeOK` |
| | `ShellsCapped` | `ShellsAreCapped` |
| | `GatewayImplementsPool` | `ImplementsShellPool`, the refinement |
| `Alarms` | `AlarmsInvariant`, `AlarmsTyped` | the inductive invariant; `TypeOK` |
| | `ToastsAreSingle`, `RingsAreHeard`, `SnoozesAreKept` | `AnnouncedOnce`, `NoneIsSilent`, `SnoozeIsKept` |

Every proof has the same outline: an inductive invariant, a lemma that the initial states
satisfy it, lemmas for what each action does to each of its parts, and temporal theorems
that follow from the three facts. What each invariant adds to the properties, and why:

**AuthSession.** `AInv` adds that a row's token was issued and its stamps are not in the
future, so a fresh token is nobody's and a renewal only moves forward; that no step after
`lastStep` has been used, so a step that `VerifyTotp` lets through is unused, whatever the
secret; that a setup or a change in flight carries a real password; and that before the
account exists there are no rows and no requests but setups, so the first password meets no
older row. `RevocationIsFinal` needs it too: `Issue` revives no token only because it hands
out one that no row and no client has. `LockoutsHold` needs that a lock is not longer than
the count of failures earned (`Earned`), for each address and for the global counter: the
next one, counted from now, is then no shorter. That needs powers of two. `PowerOfTwo` is
a recursive function, and what it computes is proved without an induction theorem over
operators: `SetInduction` says that a set of numbers with 0 and every successor is all of
them, because what it lacks would have a least element (`WFMin`, of the library's
theorems on well-founded orders); `PowersExist` and `PowersAgree` apply it to functions defined up to n, and
`PowersDouble` reads the recursion off them. For the refinement, `TableEffects` lists
what any step does to the table, `Rows` adds to the invariant that a token has one row
and that a row expires less than `RenewGain` before its deadline and never after it, and
each effect is a step of `SlidingSessions`: a purge, a sweep and a restart are stutters.

**Backup.** `OneAtATime` rests on the lock being held by whoever builds or archives.
`OwnSnapshot` needs what each phase of that one builder has put into the staging
directory: its snapshot once it describes, its manifest too once it tars, and both in
the archive once `tar` has walked there, each *unless disturbed*. That a leftover of
another download is not taken for one's own follows from `VACUUM INTO` refusing a file
that exists.

**Restore.** While one apply swaps, the undo list says what the three directories hold
(`Exact`): what was parked lies in `rollback`, what was moved in is the upload's, and each
name was parked before anything was moved over it (`Ordered`). The list shrinks from its
end, so what it says stays true until it is empty, and then says that nothing has changed.
If steps of the list fail, only `Careful` remains: they still overwrite nothing of the
user's. `Ahead` is the bookkeeping that no name is swapped twice; `Alone` that one apply
is in the swap unless `overlap`. For the refinement, the tree seen from outside is
`before` of the only apply that swaps, and the step that commits is the last one of the
swap or, undone, the last of the list. `SignedOut` says of the
open database and of every other that could be opened again that its sessions are valid only
if its own restore did not come to `destroyAll`. Under `overlap` that is false; `Watched` is
what is left: a database with valid sessions is open only after some restore that did not, or
after a crash.

**PrefsSync.** `Link` ties the bag of requests to who waits for them: one PUT of the queue,
with the batch the tab remembers, while a flush is awaited. `Aged` says that no value, in
the tab, under way or on the server, is newer than the last write of its key, and that
the queue holds last writes only: an entry that equals what a confirmed batch carried is
therefore stored as the newest, and one that was rewritten meanwhile differs and stays.
In `QueueImplementsDelivery` the invariant excludes the fate "lost" (`Fates`). That a PUT or
a keepalive brings to "stored" only edits that waited or were refused, and changes no other
fate, follows from the same order: nothing under way is newer than the last write of its
key, and what equals it is that write.

**WindowManager.** `Good` adds that the counter is above every window; each method that
raises hands out the counter or, after show desktop, ranks above the greatest. `Saved` says
the same of the layout a tab keeps, which was the stack of some moment. `Asking` ties dialogs
to unsaved documents of open windows.

**Files.** `Effect` says once what an action of a request may do: put something only at its
own target, note only under its own id, write only its own document. From that alone
follows what everybody else keeps: a target that was found free (`Free`) is free still, or
another request with this target was met (`Meeting`, `Unrivalled`). `Distinct` and
`Unwritten` say that a document lies in one place and one that is still to be written
in none. For the trash, `Lone` is what the only request on an id has found, and
`Emptied` what one that empties has listed.

**Terminal.** `Counted` says that a running shell has an entry in `live` and an open
socket, so the cap on entries is a cap on shells. The types need `Awaited`: the callbacks a
window waits for are bounded, because each turn uses one up before it asks for more. For
the refinement, each action leaves the shell of a socket as it was (`SameShell`), opens
it (`ShellOpens`), ends it, sweeps or stops, whichever of the two ends acts; each of these
effects is a step of `ShellPool`. The cap on shells is that on entries, by `Counted`.

**Alarms.** The row of a claim is inserted once, so one request has won it (`OneWinner`);
`Accounted` says what has become of it: its answer is on the way or was shown, or it
was lost, or its tab has gone. For the snooze, `SnoozeIsLast` says that every PATCH on its way
is the snooze itself or one of `behind`: a tab that rings while it sees the snooze can only
ring the snooze, which ends the promise. So what puts something else over a stored
snooze did not know of it, and that overtakes it.

**Only model-checked.** Liveness (`LockReleased`, `EditsArrive`, `RevokedShellsDie`,
`GoneWindowsAreReaped`, `RetriesEnd`), which is out of the prover's reach. The four
properties of section 4 that are false are runs, not theorems.

## 6. Not modelled

- Within the components above: creating and copying folders, the path jail, searches,
  `compressTarGz` and the reading of archives; creating, editing and deleting alarms,
  timers, the stopwatch and world clocks; keystrokes, flow control and geometry of
  the terminal; geometry of windows and the focus gate of the lock screen. Copying a folder
  and packing an archive do touch the home directory at many awaits: what they write is a
  tree in parts, and a document of `Files` is whole or `partial`, so they would need a finer
  home directory.
- The migration ledger of `db.service.ts`: each step and its stamp are one SQLite
  transaction, run synchronously before anything is served, so nothing comes between.
- The other backend modules: synchronous CRUD, where no operation is cut by another, and
  wrappers of `git` and `fetch` that keep nothing.
- The stores of the shell whose only shared state is a dotfile, the add-ons beside the Clock
  and the terminal's hook, the UI kit beside the unsaved-changes guard, the PDF engine,
  image and ISO: rendering, I/O and packaging (the entrypoint's part in a restart is in
  `Restore`). They are most of the repository's lines.

## 7. Plan

Done, in the order of what a failure would cost: authentication, restore, backup,
dotfiles, windows, files and trash, terminal, alarms; proofs of the safety of all eight,
and of the four refinements.

What is left:

1. A composition of `Restore`, `Backup` and `AuthSession` in one backend: `destroyAll`
   after a restore against requests in flight; the backup's staging directory against
   the restore that deletes it.
2. A property that no session is granted for a password that was replaced, as a finding
   of its own beside `NoPreChangeToken`.
3. Migrations of a restored database that is older than the image, with a step that fails:
   the process then runs on a half-migrated schema and answers 503.
4. Unsaved documents of several windows beside each other, at logging off.
5. Abstract specifications of the trash (an item is in it or where it was) and of the
   occurrences of an alarm, and the proofs that `Files` and `Alarms` implement them.
