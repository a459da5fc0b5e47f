------------------------ MODULE WindowManager_proofs ------------------------
(***************************************************************************)
(* Proofs about WindowManager, for any number of windows, applications and *)
(* workspaces.  The stack is strict because every window that moves in it  *)
(* moves above all others; and the layout that a tab has saved was the     *)
(* stack of some moment, so that a reload finds a place above it.          *)
(***************************************************************************)
EXTENDS WindowManager, FiniteSetTheorems, TLAPS

\* No two windows of a layout share a place.
Distinct(f) == \A v, w \in DOMAIN f : f[v].z = f[w].z => v = w

Below(f, n) == \A w \in DOMAIN f : f[w].z < n

Good(d) ==
  /\ DOMAIN d = {"windows", "active", "nextZ"}
  /\ IsLayout(d.windows) /\ d.active \in WorkspaceIds /\ d.nextZ \in Nat
  /\ Distinct(d.windows) /\ Below(d.windows, d.nextZ)

Saved(t) ==
  /\ DOMAIN t = {"layout", "active"}
  /\ IsLayout(t.layout) /\ t.active \in WorkspaceIds
  /\ Distinct(t.layout) /\ Below(t.layout, MaxZ)

Asking ==
  /\ dialog \in [Windows -> {"none", "open", "saving"}]
  /\ pending \subseteq Windows
  /\ unsaved \subseteq Open /\ touched \subseteq unsaved
  /\ CloseIsAsked

WInv ==
  /\ Good(desk) /\ desk.nextZ <= MaxZ
  /\ stash \in [WorkspaceIds -> Seq(Windows)]
  /\ Asking
  /\ Saved(tab)
  /\ used \subseteq Windows /\ Open \subseteq used

\* A desk of the same windows.
SameWindows(d, e) == Good(e) /\ DOMAIN e.windows = DOMAIN d.windows

-----------------------------------------------------------------------------
(* The place above a layout.                                               *)

LEMMA Greatest ==
  ASSUME NEW T \in SUBSET Nat, T # {}, NEW n \in Nat, \A x \in T : x < n
  PROVE  \E m \in T : \A x \in T : x <= m
<1> DEFINE M == {n - x : x \in T}
           R == OpToRel(<, Nat)
<1>1. M \subseteq Nat /\ M # {}
  <2>1. \A x \in T : n - x \in Nat
    OBVIOUS
  <2>2. PICK x \in T : TRUE
    OBVIOUS
  <2>3. n - x \in M
    OBVIOUS
  <2> QED BY <2>1, <2>3
<1>2. IsWellFoundedOn(R, Nat)
  BY NatLessThanWellFounded
<1> HIDE DEF R, M
<1>3. PICK y \in M : \A z \in M : ~(<<z, y>> \in R)
  BY <1>1, <1>2, WFMin
<1>4. PICK m \in T : y = n - m
  BY <1>3 DEF M
<1>5. \A x \in T : x <= m
  <2> SUFFICES ASSUME NEW x \in T, ~(x <= m) PROVE FALSE
    OBVIOUS
  <2>1. n - x \in M /\ n - x \in Nat /\ n - m \in Nat /\ n - x < n - m
    BY <1>4 DEF M
  <2>2. <<n - x, n - m>> \in R
    BY <2>1 DEF R, OpToRel
  <2> QED BY <1>3, <1>4, <2>1, <2>2
<1> QED BY <1>5

LEMMA AboveAll ==
  ASSUME NEW f, IsLayout(f), Below(f, MaxZ), DOMAIN f # {}
  PROVE  NextAbove(f) \in 1..MaxZ /\ Below(f, NextAbove(f))
<1> DEFINE T == {f[w].z : w \in DOMAIN f}
<1>1. T \in SUBSET Nat /\ T # {} /\ \A x \in T : x < MaxZ
  BY DEF IsLayout, Window, Below
<1> HIDE DEF T
<1>2. PICK m \in T : \A x \in T : x <= m
  BY <1>1, Greatest, WindowAssumption
<1>3. PICK w \in DOMAIN f : f[w].z = m
  BY DEF T
<1>4. m + 1 \in 1..MaxZ /\ m \in Nat
  BY <1>1, WindowAssumption
<1>5. /\ \A v \in DOMAIN f : f[v].z < m + 1
      /\ \E v \in DOMAIN f : f[v].z = (m + 1) - 1
  <2>1. \A v \in DOMAIN f : f[v].z \in T
    BY DEF T
  <2>2. \A v \in DOMAIN f : f[v].z <= m /\ f[v].z \in Nat
    BY <1>1, <1>2, <2>1
  <2> QED BY <1>3, <1>4, <2>2
<1>6. \E n \in 1..MaxZ : /\ \A v \in DOMAIN f : f[v].z < n
                         /\ \E v \in DOMAIN f : f[v].z = n - 1
  BY <1>4, <1>5
<1> QED BY <1>6 DEF NextAbove, Below

-----------------------------------------------------------------------------
(* What the methods of the store do to a desk.                             *)

\* One window changes, and moves in the stack only to the top.
LEMMA OneChanges ==
  ASSUME NEW d, Good(d), NEW w \in DOMAIN d.windows, NEW x \in Window, NEW e,
         DOMAIN e = DOMAIN d, e.windows = [d.windows EXCEPT ![w] = x],
         e.active \in WorkspaceIds,
         \/ x.z = d.windows[w].z /\ e.nextZ = d.nextZ
         \/ x.z = d.nextZ /\ e.nextZ = d.nextZ + 1
  PROVE  SameWindows(d, e)
<1>1. DOMAIN e.windows = DOMAIN d.windows /\ IsLayout(e.windows)
  BY DEF Good, IsLayout
<1>2. \A v \in DOMAIN d.windows : /\ e.windows[v] = IF v = w THEN x ELSE d.windows[v]
                                  /\ d.windows[v].z \in Nat /\ d.windows[v].z < d.nextZ
  BY DEF Good, IsLayout, Window, Below
<1>3. d.nextZ \in Nat /\ e.nextZ \in Nat
  BY DEF Good
<1>4. Below(e.windows, e.nextZ)
  BY <1>1, <1>2, <1>3 DEF Below
<1>5. Distinct(e.windows)
  <2> SUFFICES ASSUME NEW u \in DOMAIN d.windows, NEW v \in DOMAIN d.windows,
                      e.windows[u].z = e.windows[v].z
               PROVE  u = v
    BY <1>1 DEF Distinct
  <2>1. d.windows[u].z = d.windows[v].z => u = v
    BY DEF Good, Distinct
  <2> QED BY <1>2, <1>3, <2>1
<1> QED BY <1>1, <1>3, <1>4, <1>5 DEF SameWindows, Good

LEMMA Raised ==
  ASSUME NEW d, Good(d), NEW w \in DOMAIN d.windows
  PROVE  /\ SameWindows(d, Raise(d, w))
         /\ Raise(d, w).active = d.active
         /\ Raise(d, w).windows[w] = [d.windows[w] EXCEPT !.z = d.nextZ]
         /\ Raise(d, w).nextZ = d.nextZ + 1
         /\ DOMAIN Raise(d, w) = DOMAIN d
         /\ Raise(d, w).windows = [d.windows EXCEPT ![w] = [d.windows[w] EXCEPT !.z = d.nextZ]]
<1> DEFINE x == [d.windows[w] EXCEPT !.z = d.nextZ]
<1>1. d.windows[w] \in Window /\ d.nextZ \in Nat
  BY DEF Good, IsLayout
<1>2. x \in Window /\ x.z = d.nextZ
  BY <1>1 DEF Window
<1>3. /\ DOMAIN Raise(d, w) = DOMAIN d
      /\ Raise(d, w).windows = [d.windows EXCEPT ![w] = x]
      /\ Raise(d, w).active = d.active /\ Raise(d, w).nextZ = d.nextZ + 1
  BY DEF Raise, Good
<1> HIDE DEF x
<1>4. SameWindows(d, Raise(d, w))
  BY <1>2, <1>3, OneChanges DEF Good
<1> QED BY <1>3, <1>4 DEF x

LEMMA Shown ==
  ASSUME NEW d, Good(d), NEW w \in DOMAIN d.windows
  PROVE  /\ SameWindows(d, Show(d, w))
         /\ DOMAIN Show(d, w) = DOMAIN d
         /\ Show(d, w).active = d.active
         /\ Show(d, w).nextZ = d.nextZ + 1
         /\ Show(d, w).windows[w].visible /\ Show(d, w).windows[w].z = d.nextZ
         /\ Show(d, w).windows[w].workspace = d.windows[w].workspace
<1> DEFINE x == [d.windows[w] EXCEPT !.z = d.nextZ, !.visible = TRUE]
<1>1. d.windows[w] \in Window /\ d.nextZ \in Nat
  BY DEF Good, IsLayout
<1>2. /\ x \in Window /\ x.z = d.nextZ /\ x.visible /\ x.workspace = d.windows[w].workspace
      /\ x = [[d.windows[w] EXCEPT !.z = d.nextZ] EXCEPT !.visible = TRUE]
  BY <1>1 DEF Window
<1> DEFINE r == Raise(d, w)
           y == [d.windows[w] EXCEPT !.z = d.nextZ]
<1>3. /\ DOMAIN r = {"windows", "active", "nextZ"} /\ DOMAIN d = DOMAIN r
      /\ r.windows = [d.windows EXCEPT ![w] = y] /\ r.windows[w] = y
      /\ r.active = d.active /\ r.nextZ = d.nextZ + 1
  BY Raised DEF Good
<1>4. /\ DOMAIN Show(d, w) = DOMAIN d
      /\ Show(d, w).windows = [d.windows EXCEPT ![w] = x]
      /\ Show(d, w).active = d.active /\ Show(d, w).nextZ = d.nextZ + 1
  <2>1. Show(d, w) = [r EXCEPT !.windows = [r.windows EXCEPT ![w] = [y EXCEPT !.visible = TRUE]]]
    <3> HIDE DEF y
    <3>1. Show(d, w) = [r EXCEPT !.windows[w].visible = TRUE]
      BY DEF Show
    <3> HIDE DEF r
    <3> QED BY <1>3, <3>1
  <2>2. [y EXCEPT !.visible = TRUE] = x
    BY <1>2
  <2> HIDE DEF r, y, x
  <2>3. Show(d, w).windows = [r.windows EXCEPT ![w] = x]
    BY <1>3, <2>1, <2>2
  <2>4. [r.windows EXCEPT ![w] = x] = [d.windows EXCEPT ![w] = x]
    BY <1>3
  <2> QED BY <1>3, <2>1, <2>3, <2>4
<1> HIDE DEF x, r, y
<1>5. SameWindows(d, Show(d, w))
  <2>1. Show(d, w).active \in WorkspaceIds
    BY <1>4 DEF Good
  <2>2. x \in Window /\ x.z = d.nextZ
    BY <1>2
  <2> DEFINE e == Show(d, w)
  <2>3. /\ DOMAIN e = DOMAIN d /\ e.windows = [d.windows EXCEPT ![w] = x]
        /\ e.active \in WorkspaceIds /\ e.nextZ = d.nextZ + 1
    BY <1>4, <2>1
  <2> HIDE DEF e
  <2>4. SameWindows(d, e)
    BY <2>2, <2>3, OneChanges
  <2> QED BY <2>4 DEF e
<1>6. Show(d, w).windows[w] = x
  BY <1>4
<1> QED BY <1>2, <1>4, <1>5, <1>6

LEMMA Hidden ==
  ASSUME NEW d, Good(d), NEW w \in DOMAIN d.windows
  PROVE  SameWindows(d, Hide(d, w)) /\ Hide(d, w).active = d.active
<1> DEFINE x == [d.windows[w] EXCEPT !.visible = FALSE]
<1>1. d.windows[w] \in Window /\ d.nextZ \in Nat
  BY DEF Good, IsLayout
<1>2. x \in Window /\ x.z = d.windows[w].z
  BY <1>1 DEF Window
<1>3. /\ DOMAIN Hide(d, w) = DOMAIN d
      /\ Hide(d, w).windows = [d.windows EXCEPT ![w] = x]
      /\ Hide(d, w).active = d.active /\ Hide(d, w).nextZ = d.nextZ
  BY DEF Hide, Good
<1> HIDE DEF x
<1> QED BY <1>2, <1>3, OneChanges DEF Good

LEMMA OnTop ==
  ASSUME NEW d, Good(d), NEW w \in DOMAIN d.windows, Seen(d, w),
         d.windows[w].z = d.nextZ - 1
  PROVE  IsTop(d, w)
<1>1. \A v \in DOMAIN d.windows : d.windows[v].z \in Nat /\ d.windows[v].z < d.nextZ
  BY DEF Good, IsLayout, Window, Below
<1>2. d.nextZ \in Nat
  BY DEF Good
<1> QED BY <1>1, <1>2 DEF IsTop

LEMMA Focused ==
  ASSUME NEW d, Good(d), NEW w \in DOMAIN d.windows
  PROVE  /\ SameWindows(d, Focus(d, w)) /\ DOMAIN Focus(d, w) = DOMAIN d
         /\ Focus(d, w).active = d.windows[w].workspace
         /\ Focus(d, w).windows[w].workspace = d.windows[w].workspace
         /\ Focus(d, w).windows[w].visible = d.windows[w].visible
         /\ d.windows[w].visible => IsTop(Focus(d, w), w)
<1>1. d.windows[w] \in Window /\ d.nextZ \in Nat
  BY DEF Good, IsLayout
<1>2. CASE IsTop(d, w)
  BY <1>2 DEF Focus, IsTop, Seen, SameWindows
<1>3. CASE ~IsTop(d, w)
  <2> DEFINE e == Focus(d, w)
             x == [d.windows[w] EXCEPT !.z = d.nextZ]
  <2>1. /\ DOMAIN e = DOMAIN d /\ e.active = d.windows[w].workspace
        /\ e.windows = [d.windows EXCEPT ![w] = x] /\ e.nextZ = d.nextZ + 1
    BY <1>3, Raised DEF Focus, Good
  <2>2. /\ x \in Window /\ x.z = d.nextZ
        /\ x.workspace = d.windows[w].workspace /\ x.visible = d.windows[w].visible
    BY <1>1 DEF Window
  <2>3. d.windows[w].workspace \in WorkspaceIds
    BY <1>1 DEF Window
  <2> HIDE DEF e, x
  <2>4. SameWindows(d, e)
    BY <2>1, <2>2, <2>3, OneChanges
  <2>5. /\ e.windows[w] = x /\ w \in DOMAIN e.windows
    BY <2>1
  <2>6. d.windows[w].visible => IsTop(e, w)
    <3> SUFFICES ASSUME d.windows[w].visible PROVE IsTop(e, w)
      OBVIOUS
    <3>1. e.windows[w].z = e.nextZ - 1
      BY <1>1, <2>1, <2>2, <2>5
    <3>2. Seen(e, w)
      BY <2>1, <2>2, <2>5 DEF Seen
    <3> QED BY <2>4, <2>5, <3>1, <3>2, OnTop DEF SameWindows
  <2>7. /\ SameWindows(d, e) /\ DOMAIN e = DOMAIN d /\ e.active = d.windows[w].workspace
        /\ e.windows[w].workspace = d.windows[w].workspace
        /\ e.windows[w].visible = d.windows[w].visible
    BY <2>1, <2>2, <2>4, <2>5
  <2> QED BY <2>6, <2>7 DEF e
<1> QED BY <1>2, <1>3

\* The taskbar and Alt+Tab.
LEMMA BroughtUp ==
  ASSUME NEW d, Good(d), NEW w \in DOMAIN d.windows
  PROVE  SameWindows(d, BringUp(d, w)) /\ IsTop(BringUp(d, w), w)
<1>1. CASE d.windows[w].visible
  BY <1>1, Focused DEF BringUp
<1>2. CASE ~d.windows[w].visible
  <2>1. Good(Show(d, w)) /\ DOMAIN Show(d, w).windows = DOMAIN d.windows
    BY Shown DEF SameWindows
  <2>2. /\ SameWindows(Show(d, w), Focus(Show(d, w), w))
        /\ IsTop(Focus(Show(d, w), w), w)
    BY <2>1, Shown, Focused
  <2> QED BY <1>2, <2>1, <2>2 DEF BringUp, SameWindows
<1> QED BY <1>1, <1>2

\* The palette.
LEMMA LookedUp ==
  ASSUME NEW d, Good(d), NEW w \in DOMAIN d.windows
  PROVE  SameWindows(d, LookUp(d, w)) /\ IsTop(LookUp(d, w), w)
<1> DEFINE e == Focus(d, w)
<1>1. /\ Good(e) /\ w \in DOMAIN e.windows /\ DOMAIN e.windows = DOMAIN d.windows
      /\ e.active = e.windows[w].workspace
  BY Focused DEF SameWindows
<1> HIDE DEF e
<1>2. /\ SameWindows(e, Show(e, w)) /\ Show(e, w).active = e.active
      /\ Show(e, w).nextZ = e.nextZ + 1
      /\ Show(e, w).windows[w].visible /\ Show(e, w).windows[w].z = e.nextZ
      /\ Show(e, w).windows[w].workspace = e.windows[w].workspace
  BY <1>1, Shown
<1>3. Seen(Show(e, w), w)
  BY <1>1, <1>2 DEF Seen
<1>4. e.nextZ \in Nat
  BY <1>1 DEF Good
<1>5. Good(Show(e, w)) /\ w \in DOMAIN Show(e, w).windows
  BY <1>1, <1>2 DEF SameWindows
<1>6. Show(e, w).windows[w].z = Show(e, w).nextZ - 1
  BY <1>2, <1>4
<1>7. IsTop(Show(e, w), w)
  BY <1>3, <1>5, <1>6, OnTop
<1>8. SameWindows(d, Show(e, w))
  BY <1>1, <1>2 DEF SameWindows
<1> QED BY <1>7, <1>8 DEF LookUp, e

LEMMA Moved ==
  ASSUME NEW d, Good(d), NEW w \in DOMAIN d.windows, NEW n \in WorkspaceIds
  PROVE  /\ SameWindows(d, MoveTo(d, w, n)) /\ MoveTo(d, w, n).active = n
         /\ IsTop(MoveTo(d, w, n), w)
<1> DEFINE e == Show(d, w)
           x == [e.windows[w] EXCEPT !.workspace = n]
           f == MoveTo(d, w, n)
<1>1. /\ SameWindows(d, e) /\ DOMAIN e = DOMAIN d /\ e.nextZ = d.nextZ + 1
      /\ e.windows[w].visible /\ e.windows[w].z = d.nextZ
  BY Shown
<1>2. Good(e) /\ w \in DOMAIN e.windows /\ DOMAIN e.windows = DOMAIN d.windows
  BY <1>1 DEF SameWindows
<1>3. e.windows[w] \in Window
  BY <1>2 DEF Good, IsLayout
<1>4. x \in Window /\ x.z = e.windows[w].z /\ x.visible = e.windows[w].visible /\ x.workspace = n
  BY <1>3 DEF Window
<1>5. /\ DOMAIN f = DOMAIN e /\ f.windows = [e.windows EXCEPT ![w] = x]
      /\ f.active = n /\ f.nextZ = e.nextZ
  BY <1>2 DEF MoveTo, Good
<1> HIDE DEF e, x, f
<1>6. SameWindows(e, f)
  BY <1>2, <1>4, <1>5, OneChanges
<1>7. f.windows[w] = x
  BY <1>2, <1>5
<1>8. Seen(f, w)
  BY <1>1, <1>4, <1>5, <1>7 DEF Seen
<1>9. f.windows[w].z = f.nextZ - 1
  <2>1. d.nextZ \in Nat
    BY DEF Good
  <2> QED BY <1>1, <1>4, <1>5, <1>7, <2>1
<1>10. Good(f) /\ w \in DOMAIN f.windows
  BY <1>2, <1>6 DEF SameWindows
<1>11. IsTop(f, w)
  BY <1>8, <1>9, <1>10, OnTop
<1>12. SameWindows(d, f)
  BY <1>2, <1>6 DEF SameWindows
<1> QED BY <1>5, <1>11, <1>12 DEF f

-----------------------------------------------------------------------------
(* Steps that leave the windows what they are.                             *)

LEMMA ActiveSaved ==
  ASSUME Saved(tab), NEW n \in WorkspaceIds
  PROVE  Saved([tab EXCEPT !.active = n])
BY DEF Saved

LEMMA DeskStep ==
  ASSUME WInv, SameWindows(desk, desk'), Bounded, UNCHANGED <<guard, used>>,
         stash' \in [WorkspaceIds -> Seq(Windows)], Saved(tab')
  PROVE  WInv'
<1>1. Open' = Open /\ Good(desk')
  BY DEF SameWindows, Open
<1>2. Asking'
  BY <1>1 DEF WInv, Asking, CloseIsAsked, guard
<1> QED BY <1>1, <1>2 DEF WInv, Bounded

LEMMA FollowStep ==
  ASSUME WInv, SameWindows(desk, desk'), Bounded, Followed, UNCHANGED <<guard, stash, used>>
  PROVE  WInv'
<1>1. desk'.active \in WorkspaceIds
  BY DEF SameWindows, Good
<1>2. Saved(tab')
  BY <1>1, ActiveSaved DEF Followed, WInv
<1> QED BY <1>2, DeskStep DEF WInv

LEMMA RaisingStep ==
  ASSUME WInv, NEW w \in Windows,
         OpenApp(w) \/ Palette(w) \/ TaskClick(w) \/ Switch(w) \/ FocusHideShow(w)
  PROVE  WInv'
<1>1. w \in DOMAIN desk.windows /\ Good(desk)
  BY DEF OpenApp, Palette, TaskClick, Switch, FocusHideShow, Open, WInv
<1>2. SameWindows(desk, desk')
  BY <1>1, Focused, LookedUp, Hidden, BroughtUp, Shown
     DEF OpenApp, Palette, TaskClick, Switch, FocusHideShow
<1>3. Bounded /\ Followed /\ UNCHANGED <<guard, stash, used>>
  BY DEF OpenApp, Palette, TaskClick, Switch, FocusHideShow
<1> QED BY <1>2, <1>3, FollowStep

LEMMA WorkspaceStep ==
  ASSUME WInv, NEW n \in WorkspaceIds,
         SetActiveWorkspace(n) \/ \E w \in Windows : MoveWindowToWorkspace(w, n)
  PROVE  WInv'
<1>1. Saved(tab')
  BY ActiveSaved DEF SetActiveWorkspace, MoveWindowToWorkspace, WInv
<1>2. CASE SetActiveWorkspace(n)
  <2>1. desk' = [desk EXCEPT !.active = n] /\ UNCHANGED <<stash, guard, used>>
    BY <1>2 DEF SetActiveWorkspace
  <2>2. SameWindows(desk, desk') /\ Bounded
    BY <2>1 DEF WInv, Good, SameWindows, Bounded
  <2> QED BY <1>1, <2>1, <2>2, DeskStep DEF WInv
<1>3. ASSUME NEW w \in Windows, MoveWindowToWorkspace(w, n) PROVE WInv'
  <2>1. SameWindows(desk, desk')
    BY <1>3, Moved DEF MoveWindowToWorkspace, Open, WInv
  <2> QED BY <1>1, <1>3, <2>1, DeskStep DEF MoveWindowToWorkspace, WInv
<1> QED BY <1>2, <1>3

-----------------------------------------------------------------------------
(* A new window, and show desktop.                                         *)

LEMMA OpenStep ==
  ASSUME WInv, NEW w \in Windows, NEW a \in Apps, OpenWindow(w, a)
  PROVE  WInv'
<1> DEFINE x == [app |-> a, workspace |-> desk.active, visible |-> TRUE, z |-> desk.nextZ]
           f == [v \in Open \cup {w} |-> IF v = w THEN x ELSE desk.windows[v]]
<1>1. desk.active \in WorkspaceIds /\ desk.nextZ \in Nat /\ Open \subseteq Windows /\ w \notin Open
  BY DEF OpenWindow, WInv, Good, IsLayout, Open
<1>2. x \in Window /\ x.z = desk.nextZ
  BY <1>1 DEF Window
<1>3. \A v \in Open : desk.windows[v] \in Window /\ desk.windows[v].z \in Nat
                      /\ desk.windows[v].z < desk.nextZ
  BY DEF WInv, Good, IsLayout, Below, Window, Open
<1>4. /\ DOMAIN desk' = DOMAIN desk /\ desk'.windows = f
      /\ desk'.active = desk.active /\ desk'.nextZ = desk.nextZ + 1
      /\ desk'.nextZ <= MaxZ
      /\ used' = used \cup {w} /\ UNCHANGED <<stash, guard, tab>>
  BY DEF OpenWindow, WInv, Good, Bounded
<1> HIDE DEF x
<1>5. /\ DOMAIN f = Open \cup {w} /\ f[w] = x
      /\ \A v \in Open : f[v] = desk.windows[v]
  BY <1>1
<1> HIDE DEF f
<1>6. IsLayout(desk'.windows)
  <2>1. f \in [DOMAIN f -> Window]
    <3>1. f = [v \in DOMAIN f |-> f[v]]
      BY DEF f
    <3>2. \A v \in DOMAIN f : f[v] \in Window
      BY <1>2, <1>3, <1>5
    <3> QED BY <3>1, <3>2
  <2> QED BY <1>1, <1>4, <1>5, <2>1 DEF IsLayout
<1>7. Distinct(desk'.windows)
  <2> SUFFICES ASSUME NEW u \in Open \cup {w}, NEW v \in Open \cup {w}, f[u].z = f[v].z
               PROVE  u = v
    BY <1>4, <1>5 DEF Distinct
  <2>1. u \in Open /\ v \in Open => u = v
    BY <1>5 DEF WInv, Good, Distinct, Open
  <2> QED BY <1>1, <1>2, <1>3, <1>5, <2>1
<1>8. Below(desk'.windows, desk'.nextZ)
  BY <1>1, <1>2, <1>3, <1>4, <1>5 DEF Below
<1>9. Good(desk')
  BY <1>1, <1>4, <1>6, <1>7, <1>8 DEF Good, WInv
<1>10. Open' = Open \cup {w}
  BY <1>4, <1>5 DEF Open
<1>11. Asking'
  BY <1>4, <1>10 DEF WInv, Asking, CloseIsAsked, guard
<1> QED BY <1>4, <1>9, <1>10, <1>11 DEF WInv

LEMMA DesktopStep ==
  ASSUME WInv, ToggleShowDesktop
  PROVE  WInv'
<1>1. Bounded /\ UNCHANGED <<guard, tab, used>> /\ desk.active \in WorkspaceIds
  BY DEF ToggleShowDesktop, WInv, Good
<1>2. /\ \A v \in Open : /\ desk.windows[v] \in Window /\ desk.windows[v].z \in Nat
                         /\ desk.windows[v].z < desk.nextZ
      /\ \A u, v \in Open : desk.windows[u].z = desk.windows[v].z => u = v
      /\ desk.nextZ \in Nat /\ Open \subseteq Windows
  BY DEF WInv, Good, IsLayout, Below, Distinct, Window, Open
<1>3. ASSUME NEW s \in Orders, HideAll(s) PROVE WInv'
  <2> DEFINE f == [w \in Open |-> [desk.windows[w] EXCEPT !.visible = @ /\ w \notin OnScreen(desk)]]
  <2>1. desk' = [desk EXCEPT !.windows = f] /\ stash' = [stash EXCEPT ![desk.active] = s]
    BY <1>3 DEF HideAll
  <2>2. \A w \in Open : f[w] \in Window /\ f[w].z = desk.windows[w].z
    <3> TAKE w \in Open
    <3>1. desk.windows[w] \in Window
      BY <1>2
    <3> QED BY <3>1 DEF Window
  <2>3. f \in [Open -> Window] /\ DOMAIN f = Open
    BY <2>2
  <2> HIDE DEF f
  <2>4. /\ DOMAIN desk' = DOMAIN desk /\ desk'.windows = f
        /\ desk'.active = desk.active /\ desk'.nextZ = desk.nextZ
    BY <2>1 DEF WInv, Good
  <2>5. IsLayout(desk'.windows) /\ Distinct(desk'.windows) /\ Below(desk'.windows, desk'.nextZ)
    BY <1>2, <2>2, <2>3, <2>4 DEF IsLayout, Distinct, Below
  <2>6. SameWindows(desk, desk')
    BY <2>3, <2>4, <2>5 DEF SameWindows, Good, WInv, Open
  <2>7. s \in Seq(Windows)
    BY DEF Orders
  <2>8. stash' \in [WorkspaceIds -> Seq(Windows)]
    BY <2>1, <2>7 DEF WInv
  <2> QED BY <1>1, <2>6, <2>8, DeskStep DEF WInv
<1>4. ASSUME NEW s \in Seq(Windows), BringBack(s) PROVE WInv'
  <2> DEFINE old(w) == CHOOSE i \in DOMAIN s : s[i] = w
             back   == {s[i] : i \in DOMAIN s} \cap Open
             before(w) == {v \in back : old(v) < old(w)}
             rank(w) == Cardinality(before(w))
             f == [w \in Open |->
                    IF w \in back
                    THEN [desk.windows[w] EXCEPT !.visible = TRUE, !.z = desk.nextZ + rank(w)]
                    ELSE desk.windows[w]]
  <2>1. /\ desk' = [desk EXCEPT !.windows = f, !.nextZ = desk.nextZ + Cardinality(back)]
        /\ stash' = [stash EXCEPT ![desk.active] = <<>>]
    BY <1>4 DEF BringBack
  <2>2. \A w \in back : old(w) \in Nat /\ s[old(w)] = w
    <3> SUFFICES ASSUME NEW w \in back PROVE old(w) \in Nat /\ s[old(w)] = w
      OBVIOUS
    <3>1. \E i \in DOMAIN s : s[i] = w
      OBVIOUS
    <3>2. old(w) \in DOMAIN s /\ s[old(w)] = w
      BY <3>1
    <3>3. DOMAIN s \subseteq Nat
      OBVIOUS
    <3> QED BY <3>2, <3>3
  <2> HIDE DEF old
  <2>3. IsFiniteSet(back) /\ Cardinality(back) \in Nat
    <3>1. back \in SUBSET Windows
      BY <1>2
    <3>2. IsFiniteSet(back)
      BY <3>1, FS_Subset, WindowAssumption
    <3> QED BY <3>2, FS_CardinalityType
  <2>4. \A w \in back : /\ IsFiniteSet(before(w)) /\ rank(w) \in Nat
                        /\ rank(w) < Cardinality(back)
    <3> SUFFICES ASSUME NEW w \in back
                 PROVE  IsFiniteSet(before(w)) /\ rank(w) \in Nat /\ rank(w) < Cardinality(back)
      OBVIOUS
    <3>1. before(w) \in SUBSET back /\ w \notin before(w)
      BY <2>2
    <3>2. /\ IsFiniteSet(before(w)) /\ Cardinality(before(w)) <= Cardinality(back)
          /\ Cardinality(back) = Cardinality(before(w)) => back = before(w)
      <4> HIDE DEF before, back
      <4> QED BY <2>3, <3>1, FS_Subset
    <3>3. Cardinality(before(w)) \in Nat
      BY <3>2, FS_CardinalityType
    <3>4. back # before(w)
      BY <3>1
    <3> HIDE DEF before, back
    <3> QED BY <2>3, <3>2, <3>3, <3>4
  <2>5. \A u, v \in back : old(u) < old(v) => rank(u) < rank(v)
    <3> SUFFICES ASSUME NEW u \in back, NEW v \in back, old(u) < old(v)
                 PROVE  rank(u) < rank(v)
      OBVIOUS
    <3>1. before(u) \in SUBSET before(v) /\ u \in before(v) /\ u \notin before(u)
      BY <2>2
    <3>2. IsFiniteSet(before(v)) /\ rank(u) \in Nat /\ rank(v) \in Nat
      BY <2>4
    <3> HIDE DEF before, back
    <3>3. /\ Cardinality(before(u)) <= Cardinality(before(v))
          /\ Cardinality(before(v)) = Cardinality(before(u)) => before(v) = before(u)
      BY <3>1, <3>2, FS_Subset
    <3> QED BY <3>1, <3>2, <3>3
  <2>6. \A u, v \in back : rank(u) = rank(v) => u = v
    <3> SUFFICES ASSUME NEW u \in back, NEW v \in back, rank(u) = rank(v)
                 PROVE  u = v
      OBVIOUS
    <3>1. ~(old(u) < old(v)) /\ ~(old(v) < old(u))
      <4>1. rank(u) \in Nat /\ rank(v) \in Nat
        BY <2>4
      <4> HIDE DEF rank, before, back
      <4> QED BY <2>5, <4>1
    <3>2. old(u) = old(v)
      BY <2>2, <3>1
    <3> QED BY <2>2, <3>2
  <2>7. \A w \in back : rank(w) \in Nat /\ rank(w) < Cardinality(back)
    BY <2>4
  <2> HIDE DEF rank, before
  <2>8. \A w \in Open :
          /\ f[w] \in Window
          /\ f[w].z = IF w \in back THEN desk.nextZ + rank(w) ELSE desk.windows[w].z
    <3> TAKE w \in Open
    <3>1. CASE w \in back
      <4>1. f[w] = [desk.windows[w] EXCEPT !.visible = TRUE, !.z = desk.nextZ + rank(w)]
        BY <3>1
      <4> HIDE DEF f, back
      <4>2. desk.windows[w] \in Window /\ desk.nextZ + rank(w) \in Nat
        BY <1>2, <2>7, <3>1
      <4> QED BY <3>1, <4>1, <4>2 DEF Window
    <3>2. CASE w \notin back
      <4>1. f[w] = desk.windows[w]
        BY <3>2
      <4> HIDE DEF f, back
      <4> QED BY <1>2, <3>2, <4>1
    <3> QED BY <3>1, <3>2
  <2>9. f \in [Open -> Window] /\ DOMAIN f = Open
    <3>1. \A w \in Open : f[w] \in Window
      BY <2>8
    <3>2. f = [w \in Open |-> f[w]]
      OBVIOUS
    <3> HIDE DEF f
    <3> QED BY <3>1, <3>2
  <2> HIDE DEF f, back
  <2>10. /\ DOMAIN desk' = DOMAIN desk /\ desk'.windows = f
         /\ desk'.active = desk.active /\ desk'.nextZ = desk.nextZ + Cardinality(back)
    BY <2>1 DEF WInv, Good
  <2>11. IsLayout(desk'.windows)
    BY <1>2, <2>9, <2>10 DEF IsLayout
  <2>12. Distinct(desk'.windows)
    <3> SUFFICES ASSUME NEW u \in Open, NEW v \in Open, f[u].z = f[v].z
                 PROVE  u = v
      BY <2>9, <2>10 DEF Distinct
    <3>1. CASE u \in back /\ v \in back
      BY <1>2, <2>6, <2>7, <2>8, <3>1
    <3>2. CASE u \in back /\ v \notin back
      BY <1>2, <2>7, <2>8, <3>2
    <3>3. CASE u \notin back /\ v \in back
      BY <1>2, <2>7, <2>8, <3>3
    <3>4. CASE u \notin back /\ v \notin back
      BY <1>2, <2>8, <3>4
    <3> QED BY <3>1, <3>2, <3>3, <3>4
  <2>13. Below(desk'.windows, desk'.nextZ) /\ desk'.nextZ \in Nat
    <3>1. \A w \in Open : f[w].z < desk.nextZ + Cardinality(back)
      BY <1>2, <2>3, <2>7, <2>8
    <3> QED BY <1>2, <2>3, <2>9, <2>10, <3>1 DEF Below
  <2>14. SameWindows(desk, desk')
    BY <2>9, <2>10, <2>11, <2>12, <2>13 DEF SameWindows, Good, WInv, Open
  <2>15. stash' \in [WorkspaceIds -> Seq(Windows)]
    <3>1. <<>> \in Seq(Windows)
      OBVIOUS
    <3>2. stash \in [WorkspaceIds -> Seq(Windows)]
      BY DEF WInv
    <3> QED BY <2>1, <3>1, <3>2
  <2> QED BY <1>1, <2>14, <2>15, DeskStep DEF WInv
<1>5. stash[desk.active] \in Seq(Windows)
  BY <1>1 DEF WInv
<1> QED BY <1>3, <1>4, <1>5 DEF ToggleShowDesktop

-----------------------------------------------------------------------------
(* Closing, and the tab.                                                   *)

LEMMA CloseStep ==
  ASSUME WInv, NEW w \in Windows, Close(w)
  PROVE  WInv' /\ Open' = Open \ {w}
<1> DEFINE f == [v \in Open \ {w} |-> desk.windows[v]]
<1>1. /\ DOMAIN desk' = DOMAIN desk /\ desk'.windows = f
      /\ desk'.active = desk.active /\ desk'.nextZ = desk.nextZ
      /\ pending' = pending \ {w} /\ dialog' = [dialog EXCEPT ![w] = "none"]
      /\ unsaved' = unsaved \ {w} /\ touched' = touched \ {w}
      /\ UNCHANGED <<stash, tab, used>>
  BY DEF Close, WInv, Good
<1>2. DOMAIN f = Open \ {w} /\ \A v \in Open \ {w} : f[v] = desk.windows[v]
  OBVIOUS
<1>3. IsLayout(f)
  <2>1. \A v \in Open \ {w} : desk.windows[v] \in Window
    BY DEF WInv, Good, IsLayout, Open
  <2>2. f \in [Open \ {w} -> Window]
    BY <2>1
  <2> HIDE DEF f
  <2> QED BY <1>2, <2>2 DEF IsLayout, WInv, Good, Open
<1> HIDE DEF f
<1>4. Distinct(f) /\ Below(f, desk.nextZ)
  BY <1>2 DEF WInv, Good, Distinct, Below, Open
<1>5. Good(desk')
  BY <1>1, <1>3, <1>4 DEF WInv, Good
<1>6. Open' = Open \ {w}
  BY <1>1, <1>2 DEF Open
<1>7. Asking'
  BY <1>1, <1>6 DEF WInv, Asking, CloseIsAsked
<1> QED BY <1>1, <1>5, <1>6, <1>7 DEF WInv

\* The guard's steps that leave the desk alone.
LEMMA AskStep ==
  ASSUME WInv, NEW w \in Windows,
         CloseAsks(w) \/ Cancel(w) \/ Save(w) \/ SaveFails(w) \/ Edit(w) \/ Settled(w) \/ Crash(w)
  PROVE  WInv' /\ Open' = Open
<1>1. UNCHANGED <<desk, stash, tab, used>>
  BY DEF CloseAsks, Cancel, Save, SaveFails, Edit, Settled, Crash, Keep
<1>2. Open' = Open
  BY <1>1 DEF Open
<1> USE DEF Asking, CloseIsAsked
<1>3. Asking
  BY DEF WInv
<1>4. CASE CloseAsks(w)
  BY <1>1, <1>2, <1>3, <1>4 DEF CloseAsks, WInv
<1>5. CASE Cancel(w)
  BY <1>1, <1>2, <1>3, <1>5 DEF Cancel, Keep, WInv
<1>6. CASE Save(w)
  <2>1. Asking'
    BY <1>2, <1>3, <1>6 DEF Save
  <2> QED BY <1>1, <1>2, <2>1 DEF WInv
<1>7. CASE SaveFails(w)
  BY <1>1, <1>2, <1>3, <1>7 DEF SaveFails, Keep, WInv
<1>8. CASE Edit(w)
  BY <1>1, <1>2, <1>3, <1>8 DEF Edit, WInv
<1>9. CASE Settled(w)
  BY <1>1, <1>2, <1>3, <1>9 DEF Settled, WInv
<1>10. CASE Crash(w)
  BY <1>1, <1>2, <1>3, <1>10 DEF Crash, Keep, WInv
<1> QED BY <1>4, <1>5, <1>6, <1>7, <1>8, <1>9, <1>10

LEMMA ClosingStep ==
  ASSUME WInv, NEW w \in Windows, Closing(w)
  PROVE  WInv'
<1>1. CASE CloseClean(w) \/ Discard(w) \/ SaveSettles(w)
  BY <1>1, CloseStep DEF CloseClean, Discard, SaveSettles
<1> QED BY <1>1, AskStep DEF Closing

LEMMA Empty ==
  /\ IsLayout(NoWindows) /\ Distinct(NoWindows) /\ DOMAIN NoWindows = {}
  /\ \A n : Below(NoWindows, n)
BY DEF IsLayout, NoWindows, Distinct, Below

LEMMA Quiet ==
  ASSUME NoQuestions
  PROVE  Asking'
BY DEF NoQuestions, Asking, CloseIsAsked

LEMMA TabStep ==
  ASSUME WInv, PersistLayout \/ LogOff \/ \E flushed \in BOOLEAN : Reload(flushed)
  PROVE  WInv'
<1>1. CASE PersistLayout
  <2>1. /\ DOMAIN tab' = DOMAIN tab /\ tab'.layout = desk.windows /\ tab'.active = tab.active
        /\ UNCHANGED <<desk, stash, guard, used>>
    BY <1>1 DEF PersistLayout, WInv, Saved
  <2>2. Below(desk.windows, MaxZ)
    BY WindowAssumption DEF WInv, Good, Below, IsLayout, Window
  <2>3. Saved(tab')
    BY <2>1, <2>2 DEF WInv, Saved, Good
  <2>4. Asking' /\ Open' = Open
    BY <2>1 DEF WInv, Asking, CloseIsAsked, Open, guard
  <2> QED BY <2>1, <2>3, <2>4 DEF WInv
<1>2. CASE LogOff
  <2>1. /\ DOMAIN desk' = DOMAIN desk /\ desk'.windows = NoWindows
        /\ desk'.active = desk.active /\ desk'.nextZ = desk.nextZ
        /\ DOMAIN tab' = DOMAIN tab /\ tab'.layout = NoWindows /\ tab'.active = tab.active
        /\ UNCHANGED <<stash, used>>
    BY <1>2 DEF LogOff, WInv, Good, Saved
  <2>2. Good(desk') /\ Saved(tab')
    BY <2>1, Empty DEF WInv, Good, Saved
  <2>3. Asking'
    BY <1>2, Quiet DEF LogOff
  <2>4. Open' = {}
    BY <2>1, Empty DEF Open
  <2> QED BY <2>1, <2>2, <2>3, <2>4 DEF WInv
<1>3. ASSUME NEW flushed \in BOOLEAN, Reload(flushed) PROVE WInv'
  <2> DEFINE layout == IF flushed THEN desk.windows ELSE tab.layout
  <2>1. /\ tab' = [tab EXCEPT !.layout = layout]
        /\ desk' = IF DOMAIN layout = {}
                   THEN [windows |-> NoWindows, active |-> 1, nextZ |-> 1]
                   ELSE [windows |-> layout, active |-> tab.active, nextZ |-> NextAbove(layout)]
        /\ stash' = [n \in WorkspaceIds |-> <<>>]
        /\ used' = DOMAIN layout
        /\ NoQuestions
    BY <1>3 DEF Reload
  <2>2. IsLayout(layout) /\ Distinct(layout) /\ Below(layout, MaxZ)
    <3>1. Below(desk.windows, MaxZ)
      BY WindowAssumption DEF WInv, Good, Below, IsLayout, Window
    <3> QED BY <3>1 DEF WInv, Good, Saved
  <2> HIDE DEF layout
  <2>3. Saved(tab')
    BY <2>1, <2>2 DEF WInv, Saved
  <2>4. Asking'
    BY <2>1, Quiet
  <2>5. stash' \in [WorkspaceIds -> Seq(Windows)]
    <3>1. <<>> \in Seq(Windows)
      OBVIOUS
    <3> QED BY <2>1, <3>1
  <2>6. Good(desk') /\ desk'.nextZ <= MaxZ /\ Open' = DOMAIN layout
    <3>1. CASE DOMAIN layout = {}
      <4>1. desk' = [windows |-> NoWindows, active |-> 1, nextZ |-> 1]
        BY <2>1, <3>1
      <4>2. 1 \in WorkspaceIds /\ 1 \in Nat /\ 1 <= MaxZ
        BY WindowAssumption DEF WorkspaceIds
      <4> QED BY <3>1, <4>1, <4>2, Empty DEF Good, Open
    <3>2. CASE DOMAIN layout # {}
      <4>1. desk' = [windows |-> layout, active |-> tab.active, nextZ |-> NextAbove(layout)]
        BY <2>1, <3>2
      <4>2. NextAbove(layout) \in 1..MaxZ /\ Below(layout, NextAbove(layout))
        BY <2>2, <3>2, AboveAll
      <4>3. NextAbove(layout) \in Nat /\ NextAbove(layout) <= MaxZ
        BY <4>2, WindowAssumption
      <4>4. tab.active \in WorkspaceIds
        BY DEF WInv, Saved
      <4> QED BY <2>2, <4>1, <4>2, <4>3, <4>4 DEF Good, Open
    <3> QED BY <3>1, <3>2
  <2>7. DOMAIN layout \subseteq Windows
    BY <2>2 DEF IsLayout
  <2> QED BY <2>1, <2>3, <2>4, <2>5, <2>6, <2>7 DEF WInv
<1> QED BY <1>1, <1>2, <1>3

-----------------------------------------------------------------------------
(* The theorems.                                                           *)

LEMMA StoreStep ==
  ASSUME WInv, NEW w \in Windows, Store(w)
  PROVE  WInv'
BY OpenStep, RaisingStep, WorkspaceStep DEF Store

\* The invariant: a strict stack, a saved layout that was one, and a close
\* request for each dialog.
THEOREM WindowInvariant == Spec => []WInv
<1>1. Init => WInv
  <2> SUFFICES ASSUME Init PROVE WInv
    OBVIOUS
  <2>1. 1 \in WorkspaceIds /\ 1 \in Nat /\ 1 <= MaxZ
    BY WindowAssumption DEF WorkspaceIds
  <2>2. Good(desk) /\ desk.nextZ <= MaxZ /\ Saved(tab) /\ Open = {}
    BY <2>1, Empty DEF Init, Good, Saved, Open
  <2>3. <<>> \in Seq(Windows)
    OBVIOUS
  <2>4. stash \in [WorkspaceIds -> Seq(Windows)]
    BY <2>3 DEF Init
  <2>5. Asking
    BY DEF Init, Asking, CloseIsAsked
  <2>6. used = {}
    BY DEF Init
  <2> QED BY <2>2, <2>4, <2>5, <2>6 DEF WInv
<1>2. WInv /\ [Next]_vars => WInv'
  <2> SUFFICES ASSUME WInv, [Next]_vars PROVE WInv'
    OBVIOUS
  <2>1. CASE UNCHANGED vars
    BY <2>1 DEF WInv, Asking, CloseIsAsked, Open, vars, guard
  <2> QED BY <2>1, StoreStep, ClosingStep, WorkspaceStep, DesktopStep, TabStep DEF Next
<1> QED BY <1>1, <1>2, PTL DEF Spec

\* TypeOK of WindowManager.
THEOREM WindowTypes == Spec => []TypeOK
<1>1. WInv => TypeOK
  BY DEF WInv, Asking, Saved, Good, TypeOK
<1> QED BY <1>1, WindowInvariant, PTL

\* "Which window owns global keyboard focus" (windowStore.ts:460) has one
\* answer: no two windows ever share a place in the stack, through show desktop,
\* reloads and layouts saved earlier.
THEOREM OneTop == Spec => []StackIsStrict
<1>1. WInv => StackIsStrict
  BY DEF WInv, Good, Distinct, Below, StackIsStrict, Open
<1> QED BY <1>1, WindowInvariant, PTL

\* The store holds a close open exactly while the application of an open window
\* is asking (systemHooks.tsx:102): no close hangs for ever.
THEOREM ClosesAreAsked == Spec => []CloseIsAsked
<1>1. WInv => CloseIsAsked
  BY DEF WInv, Asking
<1> QED BY <1>1, WindowInvariant, PTL

\* What the taskbar, the switcher, the palette or a move brings up is on screen
\* and on top, in whatever state the desktop was (windowStore.ts, focusWindow
\* and showWindow).
THEOREM RaisedAreSeen == Spec => []RaisedIsSeen
<1>1. WInv => RaisedIsSeen
  BY BroughtUp, LookedUp, Moved DEF WInv, RaisedIsSeen, Open
<1> QED BY <1>1, WindowInvariant, PTL

\* A document with changes is closed only by the user who discards it or leaves
\* (useUnsavedGuard): not by a save that failed or missed the last edit.
THEOREM NothingLostSilently == Spec => NoSilentLoss
<1> DEFINE Told(w) == \/ dialog[w] = "open"
                      \/ dialog[w] = "saving" /\ w \notin touched
                      \/ LogOff \/ Reload(TRUE) \/ Reload(FALSE)
<1>1. WInv /\ [Next]_vars =>
        [\A w \in unsaved : w \notin DOMAIN desk'.windows => Told(w)]_vars
  <2> SUFFICES ASSUME WInv, Next, NEW w \in unsaved, w \notin Open', ~Told(w) PROVE FALSE
    BY DEF Open
  <2>1. w \in Open
    BY DEF WInv, Asking
  <2>2. ASSUME NEW v \in Windows, Closing(v) PROVE FALSE
    <3>1. CASE CloseClean(v)
      BY <2>1, <3>1, CloseStep DEF CloseClean
    <3>2. CASE Discard(v)
      BY <2>1, <3>2, CloseStep DEF Discard
    <3>3. CASE SaveSettles(v)
      BY <2>1, <3>3, CloseStep DEF SaveSettles
    <3> QED BY <2>1, <2>2, <3>1, <3>2, <3>3, AskStep DEF Closing
  <2>3. ASSUME NEW v \in Windows, Store(v) PROVE FALSE
    <3>1. ASSUME NEW a \in Apps, OpenWindow(v, a) PROVE FALSE
      BY <2>1, <3>1 DEF OpenWindow, Open, WInv, Good
    <3>2. CASE OpenApp(v) \/ Palette(v) \/ TaskClick(v) \/ Switch(v) \/ FocusHideShow(v)
      <4>1. SameWindows(desk, desk')
        BY <3>2, Focused, LookedUp, Hidden, BroughtUp, Shown
           DEF OpenApp, Palette, TaskClick, Switch, FocusHideShow, Open, WInv
      <4> QED BY <2>1, <4>1 DEF SameWindows, Open
    <3>3. ASSUME NEW n \in WorkspaceIds, MoveWindowToWorkspace(v, n) PROVE FALSE
      BY <2>1, <3>3, Moved DEF MoveWindowToWorkspace, SameWindows, Open, WInv
    <3> QED BY <2>3, <3>1, <3>2, <3>3 DEF Store
  <2>4. ASSUME NEW n \in WorkspaceIds, SetActiveWorkspace(n) PROVE FALSE
    BY <2>1, <2>4 DEF SetActiveWorkspace, Open, WInv, Good
  <2>5. CASE ToggleShowDesktop
    <3>1. ASSUME NEW s, HideAll(s) PROVE FALSE
      BY <2>1, <3>1 DEF HideAll, Open, WInv, Good
    <3>2. ASSUME NEW s, BringBack(s) PROVE FALSE
      BY <2>1, <3>2 DEF BringBack, Open, WInv, Good
    <3> QED BY <2>5, <3>1, <3>2 DEF ToggleShowDesktop
  <2>6. CASE PersistLayout
    BY <2>1, <2>6 DEF PersistLayout, Open
  <2>7. CASE LogOff \/ \E flushed \in BOOLEAN : Reload(flushed)
    BY <2>7
  <2> QED BY <2>2, <2>3, <2>4, <2>5, <2>6, <2>7 DEF Next
<1> QED BY <1>1, WindowInvariant, PTL DEF Spec, NoSilentLoss
=============================================================================
