--------------------------- MODULE WindowManager ---------------------------
(***************************************************************************)
(* The window store of the shell: stacking, workspaces, show desktop, the  *)
(* close guards and the per-tab layout                                     *)
(* (apps/core/src/shared/store/windowStore.ts), the callers that combine   *)
(* its methods (openApp, the palette, the taskbar, Alt+Tab, the start      *)
(* menu), and the unsaved-changes guard the applications register          *)
(* (packages/ui/src/hooks/systemHooks.tsx).                                *)
(*                                                                         *)
(* Every store method is one action.  A close guard asks with a dialog and *)
(* answers later, so anything may happen between question and answer.      *)
(* Geometry and titles are left out.  A window id is a uuid: it is used    *)
(* once, and after a reload, which renames every window, nothing holds an  *)
(* old name, so the model keeps the names.                                 *)
(***************************************************************************)
EXTENDS Integers, Sequences, FiniteSets

CONSTANTS
  Windows,      \* window ids
  Apps,
  MultiApps,    \* the applications that may have several windows
  GuardedApps,  \* those that register useUnsavedGuard
  Workspaces,   \* WORKSPACE_COUNT
  MaxZ          \* bound on nextZIndex

ASSUME WindowAssumption ==
  /\ MultiApps \subseteq Apps /\ GuardedApps \subseteq Apps
  /\ Workspaces \in Nat \ {0}
  /\ MaxZ \in Nat \ {0}
  /\ IsFiniteSet(Windows)

VARIABLES
  desk,     \* windows (a function on the open ones), activeWorkspace, nextZIndex
  stash,    \* showDesktopStash
  pending,  \* pendingCloses
  dialog,   \* the unsaved-changes dialog of each window
  unsaved,  \* windows whose document is dirty
  touched,  \* those edited since the save of their dialog began
  tab,      \* sessionStorage: the layout and the active workspace
  used      \* ids handed out since the page was loaded

guard == <<pending, dialog, unsaved, touched>>
vars  == <<desk, stash, guard, tab, used>>

WorkspaceIds == 1..Workspaces

Window == [app : Apps, workspace : WorkspaceIds, visible : BOOLEAN, z : Nat]

NoWindows == [w \in {} |-> w]

IsLayout(f) == DOMAIN f \subseteq Windows /\ f \in [DOMAIN f -> Window]

Open == DOMAIN desk.windows

TypeOK ==
  /\ DOMAIN desk = {"windows", "active", "nextZ"}
  /\ IsLayout(desk.windows) /\ desk.active \in WorkspaceIds /\ desk.nextZ \in Nat
  /\ stash \in [WorkspaceIds -> Seq(Windows)]
  /\ pending \subseteq Windows
  /\ dialog \in [Windows -> {"none", "open", "saving"}]
  /\ unsaved \subseteq Open /\ touched \subseteq unsaved
  /\ DOMAIN tab = {"layout", "active"}
  /\ IsLayout(tab.layout) /\ tab.active \in WorkspaceIds
  /\ used \subseteq Windows /\ Open \subseteq used

Init ==
  /\ desk = [windows |-> NoWindows, active |-> 1, nextZ |-> 1]
  /\ stash = [n \in WorkspaceIds |-> <<>>]
  /\ pending = {} /\ unsaved = {} /\ touched = {}
  /\ dialog = [w \in Windows |-> "none"]
  /\ tab = [layout |-> NoWindows, active |-> 1]
  /\ used = {}

-----------------------------------------------------------------------------
(* The methods of the store, on a desk d.                                  *)

Seen(d, w) == d.windows[w].visible /\ d.windows[w].workspace = d.active

OnScreen(d) == {w \in DOMAIN d.windows : Seen(d, w)}

\* topVisibleWindowId() = w
IsTop(d, w) ==
  Seen(d, w) /\ \A v \in DOMAIN d.windows : Seen(d, v) => d.windows[v].z <= d.windows[w].z

\* Plausible slip: the new top gets the index of the old one.
RaiseToLast(d, w) == [d EXCEPT !.windows[w].z = d.nextZ - 1, !.nextZ = d.nextZ + 1]

Raise(d, w) == [d EXCEPT !.windows[w].z = d.nextZ, !.nextZ = d.nextZ + 1]

Show(d, w) == [Raise(d, w) EXCEPT !.windows[w].visible = TRUE]

Hide(d, w) == [d EXCEPT !.windows[w].visible = FALSE]

\* Plausible slip: the workspace does not follow.
FocusInPlace(d, w) == IF IsTop(d, w) THEN d ELSE Raise(d, w)

\* focusWindow: it switches the workspace, and does not show what is hidden.
Focus(d, w) ==
  IF IsTop(d, w) THEN d ELSE [Raise(d, w) EXCEPT !.active = d.windows[w].workspace]

\* The taskbar and Alt+Tab: show first, then focus.
BringUp(d, w) == IF d.windows[w].visible THEN Focus(d, w) ELSE Focus(Show(d, w), w)

\* The palette: focus first, then show.
LookUp(d, w) == Show(Focus(d, w), w)

MoveTo(d, w, n) == [Show(d, w) EXCEPT !.windows[w].workspace = n, !.active = n]

\* saveActiveWorkspace, which focusWindow calls when the workspace changes.
Followed == tab' = IF desk'.active = desk.active THEN tab ELSE [tab EXCEPT !.active = desk'.active]

Bounded == desk'.nextZ <= MaxZ

-----------------------------------------------------------------------------
(* Opening, focusing, hiding.                                              *)

OpenOf(a) == {w \in Open : desk.windows[w].app = a}

OpenWindow(w, a) ==
  /\ w \notin used
  /\ a \in MultiApps \/ OpenOf(a) = {}
  /\ used' = used \cup {w}
  /\ desk' = [desk EXCEPT
       !.windows = [v \in Open \cup {w} |->
          IF v = w THEN [app |-> a, workspace |-> desk.active, visible |-> TRUE, z |-> desk.nextZ]
                   ELSE desk.windows[v]],
       !.nextZ = desk.nextZ + 1]
  /\ Bounded
  /\ UNCHANGED <<stash, guard, tab>>

\* openApp on an application whose one window is open.
OpenApp(w) ==
  /\ w \in Open /\ desk.windows[w].app \notin MultiApps
  /\ desk' = Focus(desk, w)
  /\ Bounded /\ Followed
  /\ UNCHANGED <<stash, guard, used>>

\* The same from the command palette, which has its own code for it.
Palette(w) ==
  /\ w \in Open /\ desk.windows[w].app \notin MultiApps
  /\ desk' = LookUp(desk, w)
  /\ Bounded /\ Followed
  /\ UNCHANGED <<stash, guard, used>>

\* A task button: there is one for each window of the active workspace.
TaskClick(w) ==
  /\ w \in Open /\ desk.windows[w].workspace = desk.active
  /\ desk' = IF IsTop(desk, w) THEN Hide(desk, w) ELSE BringUp(desk, w)
  /\ Bounded /\ Followed
  /\ UNCHANGED <<stash, guard, used>>

\* Alt+Tab commits: to any window, as the list was made when it opened.
Switch(w) ==
  /\ w \in Open
  /\ desk' = BringUp(desk, w)
  /\ Bounded /\ Followed
  /\ UNCHANGED <<stash, guard, used>>

\* A click in the window, its minimise button, a hotkey, or the application
\* itself through system.window.
FocusHideShow(w) ==
  /\ w \in Open
  /\ desk' \in {Focus(desk, w), Hide(desk, w), Show(desk, w)}
  /\ Bounded /\ Followed
  /\ UNCHANGED <<stash, guard, used>>

SetActiveWorkspace(n) ==
  /\ desk' = [desk EXCEPT !.active = n]
  /\ tab' = [tab EXCEPT !.active = n]
  /\ UNCHANGED <<stash, guard, used>>

MoveWindowToWorkspace(w, n) ==
  /\ w \in Open
  /\ desk' = MoveTo(desk, w, n)
  /\ Bounded
  /\ tab' = [tab EXCEPT !.active = n]
  /\ UNCHANGED <<stash, guard, used>>

-----------------------------------------------------------------------------
(* toggleShowDesktop: hide what is on screen and stash it in stacking      *)
(* order, or bring the stash back.  What was closed meanwhile is skipped.  *)

InStackingOrder(s) ==
  /\ {s[i] : i \in DOMAIN s} = OnScreen(desk)
  /\ \A i, j \in DOMAIN s : i < j => desk.windows[s[i]].z < desk.windows[s[j]].z

HideAll(s) ==
  /\ InStackingOrder(s)
  /\ desk' = [desk EXCEPT !.windows = [w \in Open |->
       [desk.windows[w] EXCEPT !.visible = @ /\ w \notin OnScreen(desk)]]]
  /\ stash' = [stash EXCEPT ![desk.active] = s]

BringBack(s) ==
  /\ s # <<>>
  /\ LET old(w) == CHOOSE i \in DOMAIN s : s[i] = w
         back   == {s[i] : i \in DOMAIN s} \cap Open
         rank(w) == Cardinality({v \in back : old(v) < old(w)})
     IN  desk' = [desk EXCEPT
           !.windows = [w \in Open |->
              IF w \in back
              THEN [desk.windows[w] EXCEPT !.visible = TRUE, !.z = desk.nextZ + rank(w)]
              ELSE desk.windows[w]],
           !.nextZ = desk.nextZ + Cardinality(back)]
  /\ stash' = [stash EXCEPT ![desk.active] = <<>>]

Orders == UNION {[1..n -> Windows] : n \in 1..Cardinality(Windows)}

ToggleShowDesktop ==
  /\ IF OnScreen(desk) # {}
     THEN \E s \in Orders : Len(s) = Cardinality(OnScreen(desk)) /\ HideAll(s)
     ELSE BringBack(stash[desk.active])
  /\ Bounded
  /\ UNCHANGED <<guard, tab, used>>

-----------------------------------------------------------------------------
(* Closing, and the guard of an application with a document.               *)

\* Plausible slip: the guard and its document outlive the window.
CloseKeepsGuard(w) ==
  /\ desk' = [desk EXCEPT !.windows = [v \in Open \ {w} |-> desk.windows[v]]]
  /\ pending' = pending \ {w}
  /\ dialog' = [dialog EXCEPT ![w] = "none"]
  /\ UNCHANGED <<stash, unsaved, touched, tab, used>>

\* closeWindow's proceed(): the window unmounts, and the guard with it.
Close(w) ==
  /\ desk' = [desk EXCEPT !.windows = [v \in Open \ {w} |-> desk.windows[v]]]
  /\ pending' = pending \ {w}
  /\ dialog' = [dialog EXCEPT ![w] = "none"]
  /\ unsaved' = unsaved \ {w} /\ touched' = touched \ {w}
  /\ UNCHANGED <<stash, tab, used>>

\* The guard said no: the store forgets the request.
Keep(w) ==
  /\ pending' = pending \ {w}
  /\ dialog' = [dialog EXCEPT ![w] = "none"]
  /\ UNCHANGED <<desk, stash, tab, used>>

CloseClean(w) ==
  /\ w \in Open \ (pending \cup unsaved)
  /\ Close(w)

\* The guard answers with a promise; until it settles, more requests do
\* nothing.
CloseAsks(w) ==
  /\ w \in (Open \cap unsaved) \ pending
  /\ pending' = pending \cup {w}
  /\ dialog' = [dialog EXCEPT ![w] = "open"]
  /\ UNCHANGED <<desk, stash, unsaved, touched, tab, used>>

\* The buttons are dead while a save is in flight.
Discard(w) == dialog[w] = "open" /\ Close(w)

Cancel(w) ==
  /\ dialog[w] = "open"
  /\ Keep(w)
  /\ UNCHANGED <<unsaved, touched>>

Save(w) ==
  /\ dialog[w] = "open"
  /\ dialog' = [dialog EXCEPT ![w] = "saving"]
  /\ touched' = touched \ {w}
  /\ UNCHANGED <<desk, stash, pending, unsaved, tab, used>>

\* Plausible slip: a save that returned means that the document is clean.
SaveSettlesAtOnce(w) == dialog[w] = "saving" /\ Close(w)

\* The save went through and the document it saved is still the one shown.
SaveSettles(w) ==
  /\ dialog[w] = "saving"
  /\ w \notin touched
  /\ Close(w)

\* It failed, or the document is dirty again: the window stays.
SaveFails(w) ==
  /\ dialog[w] = "saving" /\ w \in unsaved
  /\ Keep(w)
  /\ touched' = touched \ {w}
  /\ UNCHANGED unsaved

\* An application that opens a document, or whose document changes.
Edit(w) ==
  /\ w \in Open /\ desk.windows[w].app \in GuardedApps
  /\ unsaved' = unsaved \cup {w}
  /\ touched' = IF dialog[w] = "saving" THEN touched \cup {w} ELSE touched
  /\ UNCHANGED <<desk, stash, pending, dialog, tab, used>>

\* It is saved or reverted without the dialog.
Settled(w) ==
  /\ w \in unsaved
  /\ unsaved' = unsaved \ {w} /\ touched' = touched \ {w}
  /\ UNCHANGED <<desk, stash, pending, dialog, tab, used>>

\* Plausible slip: an unmount leaves the question unanswered.
CrashHangs(w) ==
  /\ w \in Open
  /\ dialog' = [dialog EXCEPT ![w] = "none"]
  /\ unsaved' = unsaved \ {w} /\ touched' = touched \ {w}
  /\ UNCHANGED <<desk, stash, pending, tab, used>>

\* The application throws: it unmounts inside its frame, the question it
\* asked settles with no, and "Reload" mounts it afresh.
Crash(w) ==
  /\ w \in Open
  /\ Keep(w)
  /\ unsaved' = unsaved \ {w} /\ touched' = touched \ {w}

-----------------------------------------------------------------------------
(* The tab.                                                                *)

\* The debounce runs out, or the tab is hidden.
PersistLayout ==
  /\ tab' = [tab EXCEPT !.layout = desk.windows]
  /\ UNCHANGED <<desk, stash, guard, used>>

NoQuestions ==
  /\ pending' = {} /\ unsaved' = {} /\ touched' = {}
  /\ dialog' = [w \in Windows |-> "none"]

\* Log off: the windows and the layout go, the rest of the store stays.
LogOff ==
  /\ desk' = [desk EXCEPT !.windows = NoWindows]
  /\ tab' = [tab EXCEPT !.layout = NoWindows]
  /\ NoQuestions
  /\ UNCHANGED <<stash, used>>

\* maxZ + 1
NextAbove(f) ==
  CHOOSE n \in 1..MaxZ : /\ \A w \in DOMAIN f : f[w].z < n
                         /\ \E w \in DOMAIN f : f[w].z = n - 1

\* A reload, with the flush of beforeunload or, after a crash of the tab,
\* without it; then restoreLayout, which does nothing on an empty layout.
Reload(flushed) ==
  LET layout == IF flushed THEN desk.windows ELSE tab.layout IN
  /\ tab' = [tab EXCEPT !.layout = layout]
  /\ desk' = IF DOMAIN layout = {}
             THEN [windows |-> NoWindows, active |-> 1, nextZ |-> 1]
             ELSE [windows |-> layout, active |-> tab.active, nextZ |-> NextAbove(layout)]
  /\ stash' = [n \in WorkspaceIds |-> <<>>]
  /\ used' = DOMAIN layout
  /\ NoQuestions

Store(w) ==
  \/ \E a \in Apps : OpenWindow(w, a)
  \/ OpenApp(w)
  \/ Palette(w)
  \/ TaskClick(w)
  \/ Switch(w)
  \/ FocusHideShow(w)
  \/ \E n \in WorkspaceIds : MoveWindowToWorkspace(w, n)

Closing(w) ==
  \/ CloseClean(w)
  \/ CloseAsks(w)
  \/ Discard(w)
  \/ Cancel(w)
  \/ Save(w)
  \/ SaveSettles(w)
  \/ SaveFails(w)
  \/ Edit(w)
  \/ Settled(w)
  \/ Crash(w)

Next ==
  \/ \E w \in Windows : Store(w)
  \/ \E w \in Windows : Closing(w)
  \/ \E n \in WorkspaceIds : SetActiveWorkspace(n)
  \/ ToggleShowDesktop
  \/ PersistLayout
  \/ LogOff
  \/ \E flushed \in BOOLEAN : Reload(flushed)

Spec == Init /\ [][Next]_vars

-----------------------------------------------------------------------------
(* Properties.                                                             *)

\* No two windows share a place in the stack, and the next index is above
\* them all: "which window owns global keyboard focus" (windowStore.ts:460)
\* has one answer, through show desktop, reloads and layouts saved earlier.
StackIsStrict ==
  /\ \A v, w \in Open : desk.windows[v].z = desk.windows[w].z => v = w
  /\ \A w \in Open : desk.windows[w].z < desk.nextZ

\* The store holds a close open exactly while the application of an open
\* window is asking: no second dialog, no close that hangs for ever after a
\* crash or a log-off (systemHooks.tsx:102).
CloseIsAsked ==
  /\ pending = {w \in Windows : dialog[w] # "none"}
  /\ pending \subseteq Open

\* A document with changes is closed only by the user who discards it or
\* leaves: not by a save that failed or that missed the last edit.
NoSilentLoss ==
  [][\A w \in unsaved : w \notin DOMAIN desk'.windows =>
       \/ dialog[w] = "open"
       \/ dialog[w] = "saving" /\ w \notin touched
       \/ LogOff \/ Reload(TRUE) \/ Reload(FALSE)]_vars

\* In every state, what the taskbar, the switcher, the palette or a move
\* brings up is then on screen and on top, though focusWindow shows nothing
\* that is hidden and showWindow does not follow to the workspace.
RaisedIsSeen ==
  \A w \in Open :
    /\ IsTop(BringUp(desk, w), w)
    /\ IsTop(LookUp(desk, w), w)
    /\ \A n \in WorkspaceIds : IsTop(MoveTo(desk, w, n), w)
=============================================================================
