----------------------- MODULE ApplicationQuitProofs -----------------------
(***************************************************************************)
(* Theorems about closing panes, tabs and windows and about quitting, for  *)
(* any number of panes and windows and any choice of the panes that close  *)
(* with an animation.                                                      *)
(*                                                                         *)
(* The first part is about the operators of WindowClosing alone: what each *)
(* of them makes of a workspace (Good) and which panes it spares.  The     *)
(* second part is about the controller that calls them.                    *)
(***************************************************************************)
EXTENDS ApplicationQuit, TLAPS

-----------------------------------------------------------------------------
(* What holds of every workspace between two events.                       *)

\* Panes, and the tabs named after them, are not newer than pane n.
NotNewer(v, n) ==
    /\ PanesOf(v) \subseteq 1..n /\ v.waiting \subseteq 1..n
    /\ \A p \in PanesOf(v) : v.panes[p].tab \in 1..n
    /\ v.deferred.kind = "tabs" => v.deferred.targets \subseteq 1..n

\* While a window is open, only panes whose removal waits are shut down.
ShutOK(v) ==
    v.state = "open" =>
      \A p \in PanesOf(v) : v.panes[p].shut =>
        \/ v.deferred.kind = "pane" /\ v.deferred.pane = p
        \/ v.deferred.kind = "tabs" /\ v.panes[p].tab \in v.deferred.targets

\* What waits for animations waits for panes that are shut down and exiting.
RemovalOK(v) ==
    /\ ShutOK(v)
    /\ v.deferred.kind = "pane" =>
         LET p == v.deferred.pane
         IN p \in PanesOf(v) /\ v.panes[p].exiting /\ v.panes[p].shut
    /\ v.deferred.kind = "tabs" =>
         /\ v.deferred.waiting # {}
         /\ \A p \in v.deferred.waiting : p \in PanesOf(v) /\ v.panes[p].exiting
         /\ \A p \in PanesIn(v, v.deferred.targets) : v.panes[p].shut

\* The same of the closing of the window.  X is empty between two events;
\* within one it holds the pane whose animation is being reported.
ClosingOK(v, X) ==
    /\ v.publish => v.state = "committed"
    /\ v.approved => v.state = "published"
    /\ v.state = "committed" =>
         \/ v.publish
         \/ /\ v.waiting # {}
            /\ \A p \in v.waiting \ X : p \in PanesOf(v) => v.panes[p].exiting

DialogOK(v) ==
    /\ v.pending # None => v.state = "open"
    /\ v.pending.kind = "pane" =>
         LET p == v.pending.pane
         IN p \in PanesOf(v) /\ v.panes[p].tab = v.pending.tab /\ ~v.panes[p].shut
    /\ v.pending.kind = "tabs" =>
         v.pending.targets # {} /\ v.pending.targets \subseteq TabsOf(v)

Good(v, n, X) ==
    /\ v \in Workspaces /\ NotNewer(v, n)
    /\ RemovalOK(v) /\ ClosingOK(v, X) /\ DialogOK(v)

\* Panes that ask, but for those in S, are neither shut down nor removed.
Spares(v, u, S) ==
    \A p \in PanesOf(v) \ S :
      v.panes[p].asks /\ ~v.panes[p].shut =>
        p \in PanesOf(u) /\ u.panes[p].asks /\ ~u.panes[p].shut

\* What an event of a workspace leaves to the controller: a window that
\* closes does not open again and is published by Publish alone, and the
\* question of a quit is not forgotten.
Keeps(v, u) ==
    /\ u.quit = v.quit
    /\ u.approved => v.approved \/ (v.quit /\ v.state = "published")
    /\ v.state # "open" => u.state = v.state
    /\ u.state = "published" => v.state = "published"
    /\ v.quit /\ v.pending.kind = "window" =>
         u.pending.kind = "window" \/ u.state = "committed"
    /\ PanesOf(u) \subseteq PanesOf(v)

-----------------------------------------------------------------------------
(* The invariant.                                                          *)

\* The workspaces v of windows that are at stages s, when n panes and o windows
\* have been created.
Stages == {"absent", "shown", "retiring", "gone"}
Apart(v) ==
    \A x, y \in Windows : x # y => PanesOf(v[x]) \cap PanesOf(v[y]) = {}
Houses(v, s, n, o) ==
    /\ v \in [Windows -> Workspaces] /\ s \in [Windows -> Stages]
    /\ Apart(v)
    /\ \A w \in Windows :
         /\ Good(v[w], n, {})
         /\ s[w] = "absent" <=> w > o
         /\ s[w] \in {"absent", "gone"} => v[w] = Vacant
         /\ s[w] = "retiring" => v[w].state = "published"
WindowsOK == Houses(ws, stage, created, opened)

\* A workspace carries the intent to quit only as the host of the question,
\* and has announced it only if the quit has begun.
HostOK ==
    /\ \A w \in Windows : ws[w].quit =>
         \/ quit.state = "closing"
         \/ quit.state = "awaiting" /\ quit.host = w
    /\ \A w \in Windows : ws[w].approved => quit.state = "closing"
    /\ quit.state = "awaiting" =>
         \/ quit.host = NoHost /\ quit.rehost
         \/ /\ quit.host \in Registered /\ ws[quit.host].quit
            /\ \/ ws[quit.host].pending.kind = "window"
               \/ ws[quit.host].state = "committed"

LifetimeOK ==
    /\ ~life.hasOpen => Registered = {}
    /\ life.requested => Registered = {}

IInv == TypeOK /\ WindowsOK /\ HostOK /\ LifetimeOK

-----------------------------------------------------------------------------
(* The fields of a workspace.                                              *)

LEMMA Shape ==
    ASSUME NEW v \in Workspaces
    PROVE  /\ v.panes \in [PanesOf(v) -> PaneRecords] /\ PanesOf(v) \in SUBSET Panes
           /\ v.pending \in Pendings /\ v.deferred \in Deferrals
           /\ v.state \in {"open", "committed", "published"}
           /\ v.waiting \in SUBSET Panes
           /\ v.publish \in BOOLEAN /\ v.quit \in BOOLEAN /\ v.approved \in BOOLEAN
<1>1. PICK S \in SUBSET Panes : v.panes \in [S -> PaneRecords]
  BY DEF Workspaces
<1>2. PanesOf(v) = S
  BY <1>1 DEF PanesOf
<1> QED BY <1>1, <1>2 DEF Workspaces

LEMMA PaneShape ==
    ASSUME NEW v \in Workspaces, NEW p \in PanesOf(v)
    PROVE  /\ p \in Panes /\ v.panes[p] \in PaneRecords
           /\ v.panes[p].tab \in Panes /\ v.panes[p].asks \in BOOLEAN
           /\ v.panes[p].shut \in BOOLEAN /\ v.panes[p].exiting \in BOOLEAN
           /\ v.panes[p].life \in {"running", "posted", "ended"}
BY Shape DEF PaneRecords

\* The same fields, but for the panes.
SameButPanes(v, u) ==
    /\ u.pending = v.pending /\ u.deferred = v.deferred /\ u.state = v.state
    /\ u.waiting = v.waiting /\ u.publish = v.publish /\ u.quit = v.quit
    /\ u.approved = v.approved

LEMMA NewPanes ==
    ASSUME NEW v \in Workspaces, NEW S \in SUBSET Panes,
           NEW f \in [S -> PaneRecords], NEW u, u = [v EXCEPT !.panes = f]
    PROVE  /\ u \in Workspaces /\ u.panes = f /\ PanesOf(u) = S
           /\ SameButPanes(v, u)
<1>1. f \in UNION {[T -> PaneRecords] : T \in SUBSET Panes}
  OBVIOUS
<1>2. u \in Workspaces /\ u.panes = f
  BY <1>1 DEF Workspaces
<1>3. SameButPanes(v, u)
  BY DEF Workspaces, SameButPanes
<1>4. PanesOf(u) = S
  BY <1>2 DEF PanesOf
<1> QED BY <1>2, <1>3, <1>4

LEMMA NewPending ==
    ASSUME NEW v \in Workspaces, NEW d \in Pendings
    PROVE  LET u == [v EXCEPT !.pending = d]
           IN /\ u \in Workspaces /\ u.pending = d
              /\ u.panes = v.panes /\ u.deferred = v.deferred /\ u.state = v.state
              /\ u.waiting = v.waiting /\ u.publish = v.publish /\ u.quit = v.quit
              /\ u.approved = v.approved
BY DEF Workspaces

LEMMA NewDeferred ==
    ASSUME NEW v \in Workspaces, NEW d \in Deferrals
    PROVE  LET u == [v EXCEPT !.deferred = d]
           IN /\ u \in Workspaces /\ u.deferred = d
              /\ u.panes = v.panes /\ u.pending = v.pending /\ u.state = v.state
              /\ u.waiting = v.waiting /\ u.publish = v.publish /\ u.quit = v.quit
              /\ u.approved = v.approved
BY DEF Workspaces

LEMMA ShutFields ==
    ASSUME NEW v \in Workspaces, NEW S
    PROVE  LET u == Shut(v, S)
           IN /\ u \in Workspaces /\ PanesOf(u) = PanesOf(v) /\ SameButPanes(v, u)
              /\ \A p \in PanesOf(v) :
                   /\ u.panes[p].tab = v.panes[p].tab
                   /\ u.panes[p].asks = v.panes[p].asks
                   /\ u.panes[p].life = v.panes[p].life
                   /\ u.panes[p].shut <=> p \in S \/ v.panes[p].shut
                   /\ u.panes[p].exiting <=>
                        v.panes[p].exiting \/ (p \in S /\ p \in Animated)
<1> DEFINE new(p) == [v.panes[p] EXCEPT !.shut = TRUE, !.exiting = @ \/ p \in Animated]
           f == [p \in PanesOf(v) |-> IF p \in S THEN new(p) ELSE v.panes[p]]
<1>1. ASSUME NEW p \in PanesOf(v)
      PROVE  /\ new(p) \in PaneRecords
             /\ new(p).tab = v.panes[p].tab /\ new(p).asks = v.panes[p].asks
             /\ new(p).life = v.panes[p].life
             /\ new(p).shut = TRUE
             /\ new(p).exiting <=> v.panes[p].exiting \/ p \in Animated
  <2>1. v.panes[p] \in PaneRecords
    BY PaneShape
  <2>2. (v.panes[p].exiting \/ p \in Animated) \in BOOLEAN
    OBVIOUS
  <2> QED BY <2>1, <2>2 DEF PaneRecords
<1> HIDE DEF new
<1>2. f \in [PanesOf(v) -> PaneRecords] /\ PanesOf(v) \in SUBSET Panes
  BY <1>1, Shape
<1>3. Shut(v, S) = [v EXCEPT !.panes = f]
  BY DEF Shut, new
<1> HIDE DEF f
<1>4. /\ Shut(v, S) \in Workspaces /\ Shut(v, S).panes = f
      /\ PanesOf(Shut(v, S)) = PanesOf(v) /\ SameButPanes(v, Shut(v, S))
  BY <1>2, <1>3, NewPanes
<1>5. \A p \in PanesOf(v) : f[p] = IF p \in S THEN new(p) ELSE v.panes[p]
  BY DEF f
<1> QED BY <1>1, <1>4, <1>5

LEMMA WithoutFields ==
    ASSUME NEW v \in Workspaces, NEW S
    PROVE  LET u == Without(v, S)
           IN /\ u \in Workspaces /\ PanesOf(u) = PanesOf(v) \ S /\ SameButPanes(v, u)
              /\ \A p \in PanesOf(u) : u.panes[p] = v.panes[p]
<1> DEFINE f == [p \in PanesOf(v) \ S |-> v.panes[p]]
<1>1. f \in [PanesOf(v) \ S -> PaneRecords] /\ PanesOf(v) \ S \in SUBSET Panes
  BY Shape
<1>2. Without(v, S) = [v EXCEPT !.panes = f]
  BY DEF Without
<1> HIDE DEF f
<1>3. /\ Without(v, S) \in Workspaces /\ Without(v, S).panes = f
      /\ PanesOf(Without(v, S)) = PanesOf(v) \ S /\ SameButPanes(v, Without(v, S))
  BY <1>1, <1>2, NewPanes
<1> QED BY <1>3 DEF f

LEMMA SilentFields ==
    ASSUME NEW v \in Workspaces
    PROVE  LET u == Silent(v)
           IN /\ u \in Workspaces /\ PanesOf(u) = PanesOf(v) /\ SameButPanes(v, u)
              /\ \A p \in PanesOf(v) :
                   /\ u.panes[p].tab = v.panes[p].tab
                   /\ u.panes[p].shut = v.panes[p].shut
                   /\ u.panes[p].exiting = v.panes[p].exiting
<1> DEFINE f == [p \in PanesOf(v) |->
                   [v.panes[p] EXCEPT !.asks = FALSE, !.life = "ended"]]
<1>1. ASSUME NEW p \in PanesOf(v)
      PROVE  /\ f[p] \in PaneRecords
             /\ f[p].tab = v.panes[p].tab /\ f[p].shut = v.panes[p].shut
             /\ f[p].exiting = v.panes[p].exiting
  <2>1. v.panes[p] \in PaneRecords
    BY PaneShape
  <2> QED BY <2>1 DEF PaneRecords
<1>2. f \in [PanesOf(v) -> PaneRecords] /\ PanesOf(v) \in SUBSET Panes
  BY <1>1, Shape
<1>3. Silent(v) = [v EXCEPT !.panes = f]
  BY DEF Silent
<1> HIDE DEF f
<1>4. /\ Silent(v) \in Workspaces /\ Silent(v).panes = f
      /\ PanesOf(Silent(v)) = PanesOf(v) /\ SameButPanes(v, Silent(v))
  BY <1>2, <1>3, NewPanes
<1> QED BY <1>1, <1>4

SameButPending(v, u) ==
    /\ u.panes = v.panes /\ u.deferred = v.deferred /\ u.state = v.state
    /\ u.waiting = v.waiting /\ u.publish = v.publish /\ u.quit = v.quit
    /\ u.approved = v.approved

LEMMA WithoutPaneFields ==
    ASSUME NEW v \in Workspaces, NEW S
    PROVE  LET u == WithoutPane(v, S)
           IN /\ u \in Workspaces /\ SameButPending(v, u)
              /\ v.pending.kind = "pane" /\ v.pending.pane \in S => u.pending = None
              /\ ~(v.pending.kind = "pane" /\ v.pending.pane \in S) =>
                   u.pending = v.pending
<1>1. None \in Pendings
  BY DEF Pendings
<1>2. CASE v.pending.kind = "pane" /\ v.pending.pane \in S
  <2>1. WithoutPane(v, S) = [v EXCEPT !.pending = None]
    BY <1>2 DEF WithoutPane
  <2> QED BY <1>1, <1>2, <2>1, NewPending DEF SameButPending
<1>3. CASE ~(v.pending.kind = "pane" /\ v.pending.pane \in S)
  BY <1>3 DEF WithoutPane, SameButPending
<1> QED BY <1>2, <1>3

LEMMA WithoutTabsFields ==
    ASSUME NEW v \in Workspaces, NEW T
    PROVE  LET u == WithoutTabs(v, T)
           IN /\ u \in Workspaces /\ SameButPending(v, u)
              /\ v.pending.kind # "tabs" => u.pending = v.pending
              /\ v.pending.kind = "tabs" =>
                   \/ u.pending = None
                   \/ /\ u.pending.kind = "tabs"
                      /\ u.pending.targets = v.pending.targets \ T
                      /\ u.pending.targets # {}
<1>1. None \in Pendings
  BY DEF Pendings
<1>2. CASE v.pending.kind # "tabs"
  BY <1>2 DEF WithoutTabs, SameButPending
<1>3. CASE v.pending.kind = "tabs" /\ v.pending.targets \subseteq T
  <2>1. WithoutTabs(v, T) = [v EXCEPT !.pending = None]
    BY <1>3 DEF WithoutTabs
  <2> QED BY <1>1, <1>3, <2>1, NewPending DEF SameButPending
<1>4. CASE v.pending.kind = "tabs" /\ ~(v.pending.targets \subseteq T)
  <2> DEFINE d == [v.pending EXCEPT !.targets = @ \ T]
  <2>1. v.pending \in [kind : {"tabs"}, targets : SUBSET Panes]
    BY <1>4, Shape DEF Pendings, None
  <2>2. d \in Pendings /\ d.kind = "tabs" /\ d.targets = v.pending.targets \ T
    BY <2>1 DEF Pendings
  <2>3. WithoutTabs(v, T) = [v EXCEPT !.pending = d]
    BY <1>4 DEF WithoutTabs
  <2> HIDE DEF d
  <2> QED BY <1>4, <2>2, <2>3, NewPending DEF SameButPending
<1> QED BY <1>2, <1>3, <1>4

LEMMA ApproveQuitFields ==
    ASSUME NEW v \in Workspaces
    PROVE  LET u == ApproveQuit(v)
           IN /\ u \in Workspaces /\ u.approved = (v.approved \/ v.quit)
              /\ u.panes = v.panes /\ u.pending = v.pending
              /\ u.deferred = v.deferred /\ u.state = v.state
              /\ u.waiting = v.waiting /\ u.publish = v.publish /\ u.quit = v.quit
BY DEF Workspaces, ApproveQuit

-----------------------------------------------------------------------------
(* What the operators make of a workspace.                                 *)

\* A dialog about tabs may still name those in T.
DialogUpTo(v, T) ==
    /\ v.pending # None => v.state = "open"
    /\ v.pending.kind = "pane" =>
         LET p == v.pending.pane
         IN p \in PanesOf(v) /\ v.panes[p].tab = v.pending.tab /\ ~v.panes[p].shut
    /\ v.pending.kind = "tabs" =>
         v.pending.targets # {} /\ v.pending.targets \subseteq TabsOf(v) \cup T

\* Approve closes a window that no longer asks.
LEMMA ApproveGood ==
    ASSUME NEW n \in Nat, NEW X, NEW v, Good(v, n, X), v.pending = None
    PROVE  LET u == Approve(v)
           IN /\ Good(u, n, X) /\ Keeps(v, u) /\ Spares(v, u, PanesOf(v))
              /\ v.state = "open" => u.state = "committed"
              /\ u.pending = None
<1> DEFINE u == Approve(v)
<1>0. v \in Workspaces
  BY DEF Good
<1>1. CASE v.state = "committed"
  BY <1>1 DEF Approve, Keeps, Spares
<1>2. CASE v.state = "published"
  <2>1. u = ApproveQuit(v)
    BY <1>2 DEF Approve
  <2>2. /\ u \in Workspaces /\ u.approved = (v.approved \/ v.quit)
        /\ u.panes = v.panes /\ u.pending = v.pending
        /\ u.deferred = v.deferred /\ u.state = v.state
        /\ u.waiting = v.waiting /\ u.publish = v.publish /\ u.quit = v.quit
    BY <1>0, <2>1, ApproveQuitFields
  <2> HIDE DEF u
  <2>3. PanesOf(u) = PanesOf(v) /\ u.pending = None
    BY <2>2 DEF PanesOf
  <2>4. NotNewer(u, n) /\ RemovalOK(u) /\ DialogOK(u)
    BY <2>2, <2>3 DEF Good, NotNewer, RemovalOK, ShutOK, DialogOK, PanesIn, TabsOf
  <2>5. ClosingOK(u, X)
    BY <1>2, <2>2, <2>3 DEF Good, ClosingOK
  <2>6. Keeps(v, u) /\ Spares(v, u, PanesOf(v))
    BY <1>2, <2>2, <2>3 DEF Keeps, Spares
  <2> QED BY <1>2, <2>2, <2>3, <2>4, <2>5, <2>6 DEF Good, u
<1>3. CASE v.state = "open"
  <2> DEFINE a == Shut(v, PanesOf(v))
             b == Silent(a)
             W == Exiting(b, PanesOf(b))
  <2>1. /\ a \in Workspaces /\ PanesOf(a) = PanesOf(v) /\ SameButPanes(v, a)
        /\ \A p \in PanesOf(v) :
             /\ a.panes[p].tab = v.panes[p].tab
             /\ a.panes[p].shut
             /\ v.panes[p].exiting => a.panes[p].exiting
    BY <1>0, ShutFields
  <2> HIDE DEF a
  <2>2. /\ b \in Workspaces /\ PanesOf(b) = PanesOf(v) /\ SameButPanes(v, b)
        /\ \A p \in PanesOf(v) :
             /\ b.panes[p].tab = v.panes[p].tab
             /\ b.panes[p].shut
             /\ v.panes[p].exiting => b.panes[p].exiting
    <3>1. /\ b \in Workspaces /\ PanesOf(b) = PanesOf(a) /\ SameButPanes(a, b)
          /\ \A p \in PanesOf(a) :
               /\ b.panes[p].tab = a.panes[p].tab
               /\ b.panes[p].shut = a.panes[p].shut
               /\ b.panes[p].exiting = a.panes[p].exiting
      BY <2>1, SilentFields
    <3> HIDE DEF b
    <3> QED BY <2>1, <3>1 DEF SameButPanes
  <2> HIDE DEF b
  <2>3. u = [b EXCEPT !.state = "committed", !.waiting = W, !.publish = W = {}]
    BY <1>3 DEF Approve, a, b
  <2>4. W \in SUBSET Panes /\ W \subseteq PanesOf(v) /\ \A p \in W : b.panes[p].exiting
    BY <2>2, Shape DEF Exiting
  <2> HIDE DEF W
  <2>5. /\ u \in Workspaces /\ u.panes = b.panes /\ u.pending = b.pending
        /\ u.deferred = b.deferred /\ u.state = "committed" /\ u.waiting = W
        /\ u.publish = (W = {}) /\ u.quit = b.quit /\ u.approved = b.approved
    BY <2>2, <2>3, <2>4 DEF Workspaces
  <2> HIDE DEF u
  <2>6. /\ PanesOf(u) = PanesOf(v) /\ u.pending = None /\ u.deferred = v.deferred
        /\ u.quit = v.quit /\ u.approved = v.approved /\ u.waiting = W
        /\ \A p \in PanesOf(v) :
             /\ u.panes[p].tab = v.panes[p].tab
             /\ u.panes[p].shut
             /\ v.panes[p].exiting => u.panes[p].exiting
    BY <2>2, <2>5 DEF SameButPanes, PanesOf
  <2>7. NotNewer(u, n)
    BY <2>4, <2>6 DEF Good, NotNewer
  <2>8. RemovalOK(u)
    BY <2>5, <2>6 DEF Good, RemovalOK, ShutOK, PanesIn
  <2>9. ClosingOK(u, X)
    BY <1>3, <2>4, <2>5, <2>6 DEF Good, ClosingOK
  <2>10. DialogOK(u)
    BY <2>6 DEF DialogOK, None
  <2>11. Keeps(v, u) /\ Spares(v, u, PanesOf(v))
    BY <1>3, <2>5, <2>6 DEF Keeps, Spares, None
  <2> QED BY <1>3, <2>5, <2>6, <2>7, <2>8, <2>9, <2>10, <2>11 DEF Good, u
<1> QED BY <1>0, <1>1, <1>2, <1>3, Shape

LEMMA KeepsTransitive ==
    ASSUME NEW v, NEW u, NEW t, Keeps(v, u), Keeps(u, t)
    PROVE  Keeps(v, t)
BY DEF Keeps

LEMMA SparesTransitive ==
    ASSUME NEW v, NEW u, NEW t, NEW S, NEW R, Spares(v, u, S), Spares(u, t, R)
    PROVE  Spares(v, t, S \cup R)
BY DEF Spares

\* A change of the dialog alone.
LEMMA DialogChange ==
    ASSUME NEW n \in Nat, NEW X, NEW v \in Workspaces, NEW u \in Workspaces,
           NotNewer(v, n), RemovalOK(v), ClosingOK(v, X), SameButPending(v, u)
    PROVE  /\ NotNewer(u, n) /\ RemovalOK(u) /\ ClosingOK(u, X)
           /\ PanesOf(u) = PanesOf(v) /\ TabsOf(u) = TabsOf(v)
           /\ Spares(v, u, {})
           /\ (v.quit /\ v.pending.kind = "window" => u.pending.kind = "window")
                => Keeps(v, u)
<1>1. PanesOf(u) = PanesOf(v) /\ TabsOf(u) = TabsOf(v)
  BY DEF SameButPending, PanesOf, TabsOf
<1>2. NotNewer(u, n) /\ RemovalOK(u) /\ ClosingOK(u, X)
  BY <1>1 DEF SameButPending, NotNewer, RemovalOK, ClosingOK, PanesIn, ShutOK
<1> QED BY <1>1, <1>2 DEF SameButPending, Keeps, Spares

LEMMA AfterTabsGood ==
    ASSUME NEW n \in Nat, NEW X, NEW T, NEW v \in Workspaces,
           NotNewer(v, n), RemovalOK(v), ClosingOK(v, X), DialogUpTo(v, T)
    PROVE  LET u == AfterTabs(v, T)
           IN Good(u, n, X) /\ Keeps(v, u) /\ Spares(v, u, {})
<1> DEFINE u == AfterTabs(v, T)
<1>1. CASE PanesOf(v) = {}
  <2> DEFINE a == [v EXCEPT !.pending = None]
  <2>1. a \in Workspaces /\ SameButPending(v, a) /\ a.pending = None
    <3>1. None \in Pendings
      BY DEF Pendings
    <3> QED BY <3>1, NewPending DEF SameButPending
  <2>2. u = Approve(a)
    BY <1>1 DEF AfterTabs
  <2> HIDE DEF a, u
  <2>3. Good(a, n, X)
    BY <2>1, DialogChange DEF Good, DialogOK, None
  <2>4. Good(u, n, X) /\ Keeps(a, u) /\ (a.state = "open" => u.state = "committed")
    BY <2>1, <2>2, <2>3, ApproveGood
  <2>5. Keeps(v, u)
    <3>1. v.quit /\ v.pending.kind = "window" => u.state = "committed"
      BY <2>1, <2>4 DEF DialogUpTo, SameButPending, None
    <3>2. PanesOf(a) = PanesOf(v)
      BY <2>1 DEF SameButPending, PanesOf
    <3> QED BY <2>1, <2>4, <3>1, <3>2 DEF Keeps, SameButPending
  <2>6. Spares(v, u, {})
    BY <1>1 DEF Spares
  <2> QED BY <2>4, <2>5, <2>6 DEF u
<1>2. CASE PanesOf(v) # {}
  <2>1. u = WithoutTabs(v, T)
    BY <1>2 DEF AfterTabs
  <2>2. /\ u \in Workspaces /\ SameButPending(v, u)
        /\ v.pending.kind # "tabs" => u.pending = v.pending
        /\ v.pending.kind = "tabs" =>
             \/ u.pending = None
             \/ /\ u.pending.kind = "tabs"
                /\ u.pending.targets = v.pending.targets \ T
                /\ u.pending.targets # {}
    BY <2>1, WithoutTabsFields
  <2> HIDE DEF u
  <2>3. /\ NotNewer(u, n) /\ RemovalOK(u) /\ ClosingOK(u, X)
        /\ PanesOf(u) = PanesOf(v) /\ TabsOf(u) = TabsOf(v)
        /\ Spares(v, u, {}) /\ Keeps(v, u)
    BY <2>2, DialogChange
  <2>4. DialogOK(u)
    <3>1. CASE v.pending.kind # "tabs"
      BY <2>2, <2>3, <3>1 DEF DialogUpTo, DialogOK, SameButPending
    <3>2. CASE v.pending.kind = "tabs"
      <4>1. v.state = "open" /\ u.state = "open"
        BY <2>2, <3>2 DEF DialogUpTo, SameButPending, None
      <4> QED BY <2>2, <2>3, <3>2, <4>1 DEF DialogUpTo, DialogOK, None
    <3> QED BY <3>1, <3>2
  <2> QED BY <2>2, <2>3, <2>4 DEF Good, u
<1> QED BY <1>1, <1>2

\* No removal waits, and only the panes in S are shut down.
Loose(v, n, X, S) ==
    /\ v \in Workspaces /\ NotNewer(v, n) /\ ClosingOK(v, X) /\ DialogOK(v)
    /\ v.deferred = None
    /\ v.state = "open" => \A p \in PanesOf(v) : v.panes[p].shut => p \in S

LosesTabs(v, u, T) == TabsOf(v) \subseteq TabsOf(u) \cup T

\* Panes go, and the dialog about one of them.
LEMMA RemoveGood ==
    ASSUME NEW n \in Nat, NEW X, NEW v, NEW S, NEW T, Loose(v, n, X, S),
           NEW u, u = WithoutPane(Without(v, S), S),
           LosesTabs(v, u, T)
    PROVE  /\ u \in Workspaces /\ NotNewer(u, n) /\ RemovalOK(u) /\ ClosingOK(u, X)
           /\ DialogUpTo(u, T) /\ Keeps(v, u) /\ Spares(v, u, S)
           /\ u.deferred = None /\ u.state = v.state
           /\ PanesOf(u) = PanesOf(v) \ S
           /\ \A p \in PanesOf(u) : u.panes[p] = v.panes[p]
<1> DEFINE a == Without(v, S)
<1>1. /\ a \in Workspaces /\ PanesOf(a) = PanesOf(v) \ S /\ SameButPanes(v, a)
      /\ \A p \in PanesOf(a) : a.panes[p] = v.panes[p]
  BY WithoutFields DEF Loose
<1> HIDE DEF a
<1>2. /\ u \in Workspaces /\ SameButPending(a, u)
      /\ a.pending.kind = "pane" /\ a.pending.pane \in S => u.pending = None
      /\ ~(a.pending.kind = "pane" /\ a.pending.pane \in S) => u.pending = a.pending
  BY <1>1, WithoutPaneFields DEF a
<1>3. /\ PanesOf(u) = PanesOf(v) \ S /\ u.deferred = None /\ u.state = v.state
      /\ \A p \in PanesOf(u) : u.panes[p] = v.panes[p]
      /\ u.waiting = v.waiting /\ u.publish = v.publish /\ u.quit = v.quit
      /\ u.approved = v.approved
  BY <1>1, <1>2 DEF Loose, SameButPanes, SameButPending, PanesOf
<1>4. /\ v.pending.kind = "pane" /\ v.pending.pane \in S => u.pending = None
      /\ ~(v.pending.kind = "pane" /\ v.pending.pane \in S) => u.pending = v.pending
  BY <1>1, <1>2 DEF SameButPanes
<1>5. NotNewer(u, n)
  BY <1>3 DEF Loose, NotNewer, None
<1>6. RemovalOK(u)
  BY <1>3 DEF Loose, RemovalOK, ShutOK, None
<1>7. ClosingOK(u, X)
  BY <1>3 DEF Loose, ClosingOK
<1>8. DialogUpTo(u, T)
  <2>1. CASE v.pending.kind = "pane" /\ v.pending.pane \in S
    BY <1>4, <2>1 DEF DialogUpTo, None
  <2>2. CASE ~(v.pending.kind = "pane" /\ v.pending.pane \in S)
    BY <1>3, <1>4, <2>2 DEF DialogUpTo, Loose, DialogOK, LosesTabs
  <2> QED BY <2>1, <2>2
<1>9. Keeps(v, u) /\ Spares(v, u, S)
  BY <1>3, <1>4 DEF Keeps, Spares
<1> QED BY <1>2, <1>3, <1>5, <1>6, <1>7, <1>8, <1>9

LEMMA CommitTabsGood ==
    ASSUME NEW n \in Nat, NEW X, NEW v, NEW T, Loose(v, n, X, PanesIn(v, T))
    PROVE  LET u == CommitTabs0(v, T)
           IN Good(u, n, X) /\ Keeps(v, u) /\ Spares(v, u, PanesIn(v, T))
<1> DEFINE u == CommitTabs0(v, T)
           S == PanesIn(v, T)
           a == WithoutPane(Without(v, S), S)
<1>1. CASE S = {}
  BY <1>1 DEF CommitTabs0, Keeps, Spares, Loose, Good, RemovalOK, ShutOK, None
<1>2. CASE S # {}
  <2>1. u = AfterTabs(a, T)
    BY <1>2 DEF CommitTabs0
  <2>2. PanesOf(a) = PanesOf(v) \ S /\ \A p \in PanesOf(a) : a.panes[p] = v.panes[p]
    <3> DEFINE b == Without(v, S)
    <3>1. /\ b \in Workspaces /\ PanesOf(b) = PanesOf(v) \ S
          /\ \A p \in PanesOf(b) : b.panes[p] = v.panes[p]
      BY WithoutFields DEF Loose
    <3> HIDE DEF b, S
    <3>2. SameButPending(b, a)
      BY <3>1, WithoutPaneFields DEF b
    <3> QED BY <3>1, <3>2 DEF SameButPending, PanesOf
  <2> HIDE DEF a
  <2>3. LosesTabs(v, a, T)
    BY <2>2 DEF LosesTabs, TabsOf, PanesIn
  <2> HIDE DEF S, u
  <2>4. /\ a \in Workspaces /\ NotNewer(a, n) /\ RemovalOK(a) /\ ClosingOK(a, X)
        /\ DialogUpTo(a, T) /\ Keeps(v, a) /\ Spares(v, a, S)
    <3>1. a = WithoutPane(Without(v, S), S)
      BY DEF a
    <3>2. Loose(v, n, X, S)
      BY DEF S
    <3> QED BY <2>3, <3>1, <3>2, RemoveGood
  <2>5. Good(u, n, X) /\ Keeps(a, u) /\ Spares(a, u, {})
    BY <2>1, <2>4, AfterTabsGood
  <2>6. Keeps(v, u) /\ Spares(v, u, S \cup {})
    BY <2>4, <2>5, KeepsTransitive, SparesTransitive
  <2> QED BY <2>5, <2>6 DEF u, S, Spares
<1> QED BY <1>1, <1>2

LEMMA CommitPaneGood ==
    ASSUME NEW n \in Nat, NEW X, NEW v, NEW p, Loose(v, n, X, {p})
    PROVE  LET u == CommitPane0(v, p)
           IN Good(u, n, X) /\ Keeps(v, u) /\ Spares(v, u, {p})
<1> DEFINE u == CommitPane0(v, p)
           t == v.panes[p].tab
           P == {p}
           a == WithoutPane(Without(v, P), P)
<1>1. CASE p \notin PanesOf(v)
  <2>1. u = v
    BY <1>1 DEF CommitPane0
  <2>2. RemovalOK(v)
    BY <1>1 DEF Loose, RemovalOK, ShutOK, None
  <2>3. Keeps(v, v) /\ Spares(v, v, {p})
    BY DEF Keeps, Spares
  <2> QED BY <2>1, <2>2, <2>3 DEF Loose, Good
<1>2. CASE p \in PanesOf(v)
  <2>1. u = IF t \in TabsOf(a) THEN a ELSE AfterTabs(a, {t})
    BY <1>2 DEF CommitPane0
  <2>2. PanesOf(a) = PanesOf(v) \ P /\ \A q \in PanesOf(a) : a.panes[q] = v.panes[q]
    <3> DEFINE b == Without(v, P)
    <3>1. /\ b \in Workspaces /\ PanesOf(b) = PanesOf(v) \ P
          /\ \A q \in PanesOf(b) : b.panes[q] = v.panes[q]
      BY WithoutFields DEF Loose
    <3> HIDE DEF b
    <3>2. SameButPending(b, a)
      BY <3>1, WithoutPaneFields DEF b
    <3> QED BY <3>1, <3>2 DEF SameButPending, PanesOf
  <2> HIDE DEF a, u
  <2>3. LosesTabs(v, a, {t})
    BY <2>2 DEF LosesTabs, TabsOf
  <2> DEFINE T == {t}
  <2> HIDE DEF t, P, T
  <2>4. /\ a \in Workspaces /\ NotNewer(a, n) /\ RemovalOK(a) /\ ClosingOK(a, X)
        /\ DialogUpTo(a, T) /\ Keeps(v, a) /\ Spares(v, a, P)
    <3>1. a = WithoutPane(Without(v, P), P) /\ LosesTabs(v, a, T)
      BY <2>3 DEF a, T
    <3>2. Loose(v, n, X, P)
      BY DEF P
    <3> QED BY <3>1, <3>2, RemoveGood
  <2>5. CASE t \in TabsOf(a)
    <3>1. DialogOK(a)
      BY <2>4, <2>5 DEF DialogUpTo, DialogOK, T
    <3> QED BY <2>1, <2>4, <2>5, <3>1 DEF u, Good, P
  <2>6. CASE t \notin TabsOf(a)
    <3>1. Good(u, n, X) /\ Keeps(a, u) /\ Spares(a, u, {})
      <4>1. u = AfterTabs(a, T)
        BY <2>1, <2>6 DEF T
      <4> QED BY <2>4, <4>1, AfterTabsGood
    <3>2. Keeps(v, u) /\ Spares(v, u, P \cup {})
      BY <2>4, <3>1, KeepsTransitive, SparesTransitive
    <3> QED BY <3>1, <3>2 DEF u, Spares, P
  <2> QED BY <2>5, <2>6
<1> QED BY <1>1, <1>2

ShutsDown(v, u, S) ==
    /\ u.deferred = None /\ u.state = v.state /\ PanesOf(u) = PanesOf(v)
    /\ \A p \in PanesOf(v) :
         /\ u.panes[p].tab = v.panes[p].tab
         /\ p \in S => u.panes[p].shut

\* Panes are shut down, and the dialog about one of them goes.
LEMMA ShutGood ==
    ASSUME NEW n \in Nat, NEW X, NEW v, NEW S, Good(v, n, X), v.deferred = None,
           NEW u, u = WithoutPane(Shut(v, S), S)
    PROVE  /\ Loose(u, n, X, S) /\ Keeps(v, u) /\ Spares(v, u, S)
           /\ ShutsDown(v, u, S)
<1> DEFINE a == Shut(v, S)
<1>1. /\ a \in Workspaces /\ PanesOf(a) = PanesOf(v) /\ SameButPanes(v, a)
      /\ \A p \in PanesOf(v) :
           /\ a.panes[p].tab = v.panes[p].tab
           /\ a.panes[p].asks = v.panes[p].asks
           /\ a.panes[p].shut <=> p \in S \/ v.panes[p].shut
           /\ v.panes[p].exiting => a.panes[p].exiting
  BY ShutFields DEF Good
<1> HIDE DEF a
<1>2. /\ u \in Workspaces /\ SameButPending(a, u)
      /\ a.pending.kind = "pane" /\ a.pending.pane \in S => u.pending = None
      /\ ~(a.pending.kind = "pane" /\ a.pending.pane \in S) => u.pending = a.pending
  BY <1>1, WithoutPaneFields DEF a
<1>3. /\ PanesOf(u) = PanesOf(v) /\ u.deferred = None /\ u.state = v.state
      /\ u.waiting = v.waiting /\ u.publish = v.publish /\ u.quit = v.quit
      /\ u.approved = v.approved
      /\ \A p \in PanesOf(v) :
           /\ u.panes[p].tab = v.panes[p].tab
           /\ u.panes[p].asks = v.panes[p].asks
           /\ u.panes[p].shut <=> p \in S \/ v.panes[p].shut
           /\ v.panes[p].exiting => u.panes[p].exiting
  BY <1>1, <1>2 DEF SameButPanes, SameButPending, PanesOf
<1>4. /\ v.pending.kind = "pane" /\ v.pending.pane \in S => u.pending = None
      /\ ~(v.pending.kind = "pane" /\ v.pending.pane \in S) => u.pending = v.pending
  BY <1>1, <1>2 DEF SameButPanes
<1>5. NotNewer(u, n)
  BY <1>3 DEF Good, NotNewer, None
<1>10. u.state = "open" => \A p \in PanesOf(u) : u.panes[p].shut => p \in S
  BY <1>3 DEF Good, RemovalOK, ShutOK, None
<1>6. ClosingOK(u, X)
  BY <1>3 DEF Good, ClosingOK
<1>7. TabsOf(u) = TabsOf(v)
  BY <1>3 DEF TabsOf
<1>8. DialogOK(u)
  <2>1. CASE v.pending.kind = "pane" /\ v.pending.pane \in S
    BY <1>4, <2>1 DEF DialogOK, None
  <2>2. CASE ~(v.pending.kind = "pane" /\ v.pending.pane \in S)
    BY <1>3, <1>4, <1>7, <2>2 DEF Good, DialogOK
  <2> QED BY <2>1, <2>2
<1>9. Keeps(v, u) /\ Spares(v, u, S)
  BY <1>3, <1>4 DEF Keeps, Spares
<1> QED BY <1>2, <1>3, <1>5, <1>6, <1>8, <1>9, <1>10 DEF Loose, ShutsDown

\* Only the removal that waits changes.
LEMMA DeferralGood ==
    ASSUME NEW n \in Nat, NEW X, NEW v, NEW S, NEW d \in Deferrals, Loose(v, n, X, S),
           NEW u, u = [v EXCEPT !.deferred = d],
           RemovalOK(u), d.kind = "tabs" => d.targets \subseteq 1..n
    PROVE  Good(u, n, X) /\ Keeps(v, u) /\ Spares(v, u, {}) /\ u.deferred = d
<1>1. /\ u \in Workspaces /\ u.deferred = d
      /\ u.panes = v.panes /\ u.pending = v.pending /\ u.state = v.state
      /\ u.waiting = v.waiting /\ u.publish = v.publish /\ u.quit = v.quit
      /\ u.approved = v.approved
  BY NewDeferred DEF Loose
<1>2. PanesOf(u) = PanesOf(v) /\ TabsOf(u) = TabsOf(v)
  BY <1>1 DEF PanesOf, TabsOf
<1>3. NotNewer(u, n)
  BY <1>1, <1>2 DEF Loose, NotNewer
<1>4. ClosingOK(u, X) /\ DialogOK(u)
  BY <1>1, <1>2 DEF Loose, ClosingOK, DialogOK
<1> QED BY <1>1, <1>2, <1>3, <1>4 DEF Good, Keeps, Spares

LEMMA StartPaneGood ==
    ASSUME NEW n \in Nat, NEW X, NEW v, NEW p \in PanesOf(v), Good(v, n, X),
           v.deferred = None
    PROVE  LET u == StartPane0(v, p)
           IN Good(u, n, X) /\ Keeps(v, u) /\ Spares(v, u, {p})
<1> DEFINE P == {p}
           a == WithoutPane(Shut(v, P), P)
           u == StartPane0(v, p)
<1>0. p \in P
  OBVIOUS
<1>1. a = WithoutPane(Shut(v, P), P)
  OBVIOUS
<1>2. u = IF a.panes[p].exiting
          THEN [a EXCEPT !.deferred = [kind |-> "pane", pane |-> p]]
          ELSE CommitPane0(a, p)
  BY DEF StartPane0
<1> HIDE DEF a, P, u
<1>3. /\ Loose(a, n, X, P) /\ Keeps(v, a) /\ Spares(v, a, P)
      /\ a.deferred = None /\ a.state = v.state /\ PanesOf(a) = PanesOf(v)
      /\ \A q \in PanesOf(v) :
           /\ a.panes[q].tab = v.panes[q].tab
           /\ q \in P => a.panes[q].shut
  <2>1. /\ Loose(a, n, X, P) /\ Keeps(v, a) /\ Spares(v, a, P)
        /\ ShutsDown(v, a, P)
    BY <1>1, ShutGood
  <2> QED BY <2>1 DEF ShutsDown
<1>4. CASE a.panes[p].exiting
  <2> DEFINE d == [kind |-> "pane", pane |-> p]
  <2>1. d \in Deferrals /\ d.kind = "pane" /\ d.pane = p
    <3>1. p \in Panes
      BY Shape DEF Good
    <3> QED BY <3>1 DEF Deferrals
  <2>2. u = [a EXCEPT !.deferred = d]
    BY <1>2, <1>4
  <2> HIDE DEF d
  <2>3. u.deferred = d /\ u.panes = a.panes /\ u.state = a.state
    BY <1>3, <2>1, <2>2, NewDeferred DEF Loose
  <2>4. RemovalOK(u)
    <3>1. PanesOf(u) = PanesOf(v)
      BY <1>3, <2>3 DEF PanesOf
    <3>2. a.state = "open" => \A q \in PanesOf(v) : a.panes[q].shut => q = p
      BY <1>3 DEF Loose, P
    <3>3. ShutOK(u)
      BY <2>1, <2>3, <3>1, <3>2 DEF ShutOK
    <3>4. a.panes[p].shut
      BY <1>0, <1>3
    <3> QED BY <1>4, <2>1, <2>3, <3>1, <3>3, <3>4 DEF RemovalOK
  <2>5. Good(u, n, X) /\ Keeps(a, u) /\ Spares(a, u, {})
    BY <1>3, <2>1, <2>2, <2>4, DeferralGood
  <2>6. Keeps(v, u) /\ Spares(v, u, P \cup {})
    BY <1>3, <2>5, KeepsTransitive, SparesTransitive
  <2> QED BY <2>5, <2>6 DEF u, P, Spares
<1>5. CASE ~a.panes[p].exiting
  <2>1. Good(u, n, X) /\ Keeps(a, u) /\ Spares(a, u, {p})
    <3>1. Loose(a, n, X, {p})
      BY <1>3 DEF P
    <3> QED BY <1>2, <3>1, <1>5, CommitPaneGood
  <2>2. Keeps(v, u) /\ Spares(v, u, P \cup {p})
    BY <1>3, <2>1, KeepsTransitive, SparesTransitive
  <2> QED BY <2>1, <2>2 DEF u, P, Spares
<1> QED BY <1>4, <1>5

AreTabs(T, v) == T \subseteq TabsOf(v)

LEMMA StartTabsGood ==
    ASSUME NEW n \in Nat, NEW X, NEW v, NEW T, Good(v, n, X),
           v.deferred = None, AreTabs(T, v)
    PROVE  LET u == StartTabs0(v, T)
           IN Good(u, n, X) /\ Keeps(v, u) /\ Spares(v, u, PanesIn(v, T))
<1> DEFINE S == PanesIn(v, T)
           a == WithoutPane(Shut(v, S), S)
           W == Exiting(a, S)
           u == StartTabs0(v, T)
<1>1. a = WithoutPane(Shut(v, S), S)
  OBVIOUS
<1>2. u = IF W # {}
          THEN [a EXCEPT !.deferred = [kind |-> "tabs", targets |-> T, waiting |-> W]]
          ELSE CommitTabs0(a, T)
  BY DEF StartTabs0
<1>3. \A q \in S : q \in PanesOf(v) /\ v.panes[q].tab \in T
  BY DEF PanesIn
<1>4. \A q \in PanesOf(v) : v.panes[q].tab \in T => q \in S
  BY DEF PanesIn
<1>5. \A q \in W : q \in S /\ a.panes[q].exiting
  BY DEF Exiting
<1> HIDE DEF a, S, u, W
<1>6. /\ Loose(a, n, X, S) /\ Keeps(v, a) /\ Spares(v, a, S)
      /\ a.deferred = None /\ PanesOf(a) = PanesOf(v)
      /\ \A q \in PanesOf(v) :
           /\ a.panes[q].tab = v.panes[q].tab
           /\ q \in S => a.panes[q].shut
  <2>1. /\ Loose(a, n, X, S) /\ Keeps(v, a) /\ Spares(v, a, S)
        /\ ShutsDown(v, a, S)
    BY <1>1, ShutGood
  <2> QED BY <2>1 DEF ShutsDown
<1>7. CASE W # {}
  <2> DEFINE d == [kind |-> "tabs", targets |-> T, waiting |-> W]
  <2>0. T \subseteq 1..n /\ T \in SUBSET Panes /\ W \in SUBSET Panes
    <3>1. \A t \in TabsOf(v) : t \in 1..n /\ t \in Panes
      BY PaneShape DEF TabsOf, Good, NotNewer
    <3>2. \A q \in PanesOf(v) : q \in Panes
      BY PaneShape DEF Good
    <3> QED BY <1>3, <1>5, <3>1, <3>2 DEF AreTabs
  <2>1. d \in Deferrals /\ d.kind = "tabs" /\ d.targets = T /\ d.waiting = W
    BY <2>0 DEF Deferrals
  <2>2. u = [a EXCEPT !.deferred = d]
    BY <1>2, <1>7
  <2> HIDE DEF d
  <2>3. u.deferred = d /\ u.panes = a.panes
    BY <1>6, <2>1, <2>2, NewDeferred DEF Loose
  <2>4. PanesOf(u) = PanesOf(a) /\ PanesIn(u, T) \subseteq S
    BY <1>4, <1>6, <2>3 DEF PanesOf, PanesIn
  <2>5. RemovalOK(u)
    <3>1. \A q \in PanesOf(u) : u.state = "open" /\ u.panes[q].shut => u.panes[q].tab \in T
      <4>1. u.state = a.state
        BY <1>6, <2>1, <2>2, NewDeferred DEF Loose
      <4> QED BY <1>3, <1>6, <2>3, <2>4, <4>1 DEF Loose
    <3>2. ShutOK(u)
      BY <2>1, <2>3, <3>1 DEF ShutOK
    <3> QED BY <1>3, <1>5, <1>6, <1>7, <2>1, <2>3, <2>4, <3>2 DEF RemovalOK
  <2>6. Good(u, n, X) /\ Keeps(a, u) /\ Spares(a, u, {})
    BY <1>6, <2>0, <2>1, <2>2, <2>5, DeferralGood
  <2>7. Keeps(v, u) /\ Spares(v, u, S \cup {})
    BY <1>6, <2>6, KeepsTransitive, SparesTransitive
  <2> QED BY <2>6, <2>7 DEF u, S, Spares
<1>8. CASE W = {}
  <2>2. PanesIn(a, T) = S
    BY <1>3, <1>4, <1>6 DEF PanesIn
  <2>1. Good(u, n, X) /\ Keeps(a, u) /\ Spares(a, u, PanesIn(a, T))
    <3>1. Loose(a, n, X, PanesIn(a, T))
      BY <1>6, <2>2
    <3> QED BY <1>2, <1>8, <3>1, CommitTabsGood
  <2>3. Keeps(v, u) /\ Spares(v, u, S \cup PanesIn(a, T))
    BY <1>6, <2>1, KeepsTransitive, SparesTransitive
  <2> QED BY <2>1, <2>2, <2>3 DEF u, S, Spares
<1> QED BY <1>7, <1>8

\* A confirmed dialog takes along what it covers, and nothing else.
LEMMA PerformGood ==
    ASSUME NEW n \in Nat, NEW X, NEW v, Good(v, n, X), v.pending # None
    PROVE  LET u == Perform(v)
           IN Good(u, n, X) /\ Keeps(v, u) /\ Spares(v, u, Covered(v))
<1> DEFINE d == v.pending
           a == [v EXCEPT !.pending = None]
           u == Perform(v)
           C == Covered(v)
<1>1. a \in Workspaces /\ SameButPending(v, a) /\ a.pending = None
  <2>1. None \in Pendings
    BY DEF Pendings
  <2> QED BY <2>1, NewPending DEF SameButPending, Good
<1>2. u = CASE d.kind = "window" -> Approve(a)
            [] d.kind = "pane" /\ a.deferred = None
                 /\ d.pane \in PanesOf(a) /\ a.panes[d.pane].tab = d.tab
                 -> StartPane0(a, d.pane)
            [] d.kind = "tabs" /\ a.deferred = None
                 -> StartTabs0(a, d.targets \cap TabsOf(a))
            [] OTHER -> a
  BY DEF Perform
<1> HIDE DEF a, u
<1>3. /\ Good(a, n, X) /\ PanesOf(a) = PanesOf(v) /\ TabsOf(a) = TabsOf(v)
      /\ Spares(v, a, {}) /\ a.panes = v.panes
      /\ d.kind # "window" => Keeps(v, a)
  <2>1. /\ NotNewer(a, n) /\ RemovalOK(a) /\ ClosingOK(a, X)
        /\ PanesOf(a) = PanesOf(v) /\ TabsOf(a) = TabsOf(v) /\ Spares(v, a, {})
        /\ (v.quit /\ v.pending.kind = "window" => a.pending.kind = "window")
                => Keeps(v, a)
    BY <1>1, DialogChange DEF Good
  <2>2. DialogOK(a)
    BY <1>1 DEF DialogOK, None
  <2> QED BY <1>1, <2>1, <2>2 DEF Good, SameButPending
<1>4. v.state = "open"
  BY DEF Good, DialogOK
<1>5. CASE d.kind = "window"
  <2>1. u = Approve(a)
    BY <1>2, <1>5
  <2>2. /\ Good(u, n, X) /\ Keeps(a, u) /\ Spares(a, u, PanesOf(a))
        /\ (a.state = "open" => u.state = "committed")
    BY <1>1, <1>3, <2>1, ApproveGood
  <2>3. C = PanesOf(v)
    BY <1>5 DEF Covered
  <2>4. Keeps(v, u)
    BY <1>1, <1>3, <1>4, <2>2 DEF Keeps, SameButPending
  <2>5. Spares(v, u, {} \cup PanesOf(a))
    BY <1>3, <2>2, SparesTransitive
  <2>6. Spares(v, u, C)
    BY <1>3, <2>3, <2>5 DEF Spares
  <2> QED BY <2>2, <2>4, <2>6 DEF u
<1>6. CASE /\ d.kind = "pane" /\ a.deferred = None
           /\ d.pane \in PanesOf(a) /\ a.panes[d.pane].tab = d.tab
  <2> DEFINE p == d.pane
  <2>1. u = StartPane0(a, p)
    BY <1>2, <1>6
  <2>2. C = {p}
    BY <1>6 DEF Covered
  <2>3. p \in PanesOf(a) /\ a.deferred = None
    BY <1>6
  <2> HIDE DEF p
  <2>4. Good(u, n, X) /\ Keeps(a, u) /\ Spares(a, u, {p})
    BY <1>3, <2>1, <2>3, StartPaneGood
  <2>5. Keeps(v, u) /\ Spares(v, u, {} \cup {p})
    BY <1>3, <1>6, <2>4, KeepsTransitive, SparesTransitive
  <2>6. Spares(v, u, C)
    BY <2>2, <2>5 DEF Spares
  <2> QED BY <2>4, <2>5, <2>6 DEF u
<1>7. CASE d.kind = "tabs" /\ a.deferred = None
  <2> DEFINE T == d.targets \cap TabsOf(a)
  <2>1. u = StartTabs0(a, T)
    BY <1>2, <1>7
  <2>2. AreTabs(T, a)
    BY DEF AreTabs
  <2>3. PanesIn(a, T) \subseteq C
    BY <1>3, <1>7 DEF Covered, PanesIn
  <2> HIDE DEF T
  <2>4. Good(u, n, X) /\ Keeps(a, u) /\ Spares(a, u, PanesIn(a, T))
    BY <1>3, <1>7, <2>1, <2>2, StartTabsGood
  <2>5. Keeps(v, u) /\ Spares(v, u, {} \cup PanesIn(a, T))
    BY <1>3, <1>7, <2>4, KeepsTransitive, SparesTransitive
  <2>6. Spares(v, u, C)
    BY <2>3, <2>5 DEF Spares
  <2> QED BY <2>4, <2>5, <2>6 DEF u
<1>8. CASE /\ d.kind # "window"
           /\ ~(/\ d.kind = "pane" /\ a.deferred = None
                /\ d.pane \in PanesOf(a) /\ a.panes[d.pane].tab = d.tab)
           /\ ~(d.kind = "tabs" /\ a.deferred = None)
  <2>1. u = a
    BY <1>2, <1>8
  <2> QED BY <1>3, <1>8, <2>1 DEF u, Spares
<1> QED BY <1>5, <1>6, <1>7, <1>8

LEMMA ReevaluateGood ==
    ASSUME NEW n \in Nat, NEW X, NEW v, Good(v, n, X)
    PROVE  LET u == Reevaluate(v)
           IN Good(u, n, X) /\ Keeps(v, u) /\ Spares(v, u, {})
<1>1. CASE Answered(v)
  <2>1. Reevaluate(v) = Perform(v)
    BY <1>1 DEF Reevaluate
  <2>2. v.pending # None /\ \A p \in PanesOf(v) : p \in Covered(v) => ~v.panes[p].asks
    BY <1>1 DEF Answered, Asking
  <2>3. /\ Good(Perform(v), n, X) /\ Keeps(v, Perform(v))
        /\ Spares(v, Perform(v), Covered(v))
    BY <2>2, PerformGood
  <2>4. Spares(v, Perform(v), {})
    BY <2>2, <2>3 DEF Spares
  <2> QED BY <2>1, <2>3, <2>4
<1>2. CASE ~Answered(v)
  BY <1>2 DEF Reevaluate, Keeps, Spares
<1> QED BY <1>1, <1>2

\* A removal whose panes are shut down may be finished at any time.
LEMMA FinishGood ==
    ASSUME NEW n \in Nat, NEW X, NEW v \in Workspaces,
           NotNewer(v, n), ClosingOK(v, X), DialogOK(v), ShutOK(v),
           v.deferred.kind = "pane" =>
             \A p \in PanesOf(v) : p = v.deferred.pane => v.panes[p].shut,
           v.deferred.kind = "tabs" =>
             \A p \in PanesIn(v, v.deferred.targets) : v.panes[p].shut
    PROVE  LET u == FinishNow(v)
           IN /\ v.deferred.kind \in {"pane", "tabs"} => Good(u, n, X)
              /\ v.deferred = None => u = v
              /\ Keeps(v, u) /\ Spares(v, u, {})
<1> DEFINE d == v.deferred
           a == [v EXCEPT !.deferred = None]
           u == FinishNow(v)
<1>1. /\ a \in Workspaces /\ a.deferred = None
      /\ a.panes = v.panes /\ a.pending = v.pending /\ a.state = v.state
      /\ a.waiting = v.waiting /\ a.publish = v.publish /\ a.quit = v.quit
      /\ a.approved = v.approved
  <2>1. None \in Deferrals
    BY DEF Deferrals
  <2> QED BY <2>1, NewDeferred
<1>2. u = CASE d.kind = "pane" -> Reevaluate(CommitPane0(a, d.pane))
            [] d.kind = "tabs" -> Reevaluate(CommitTabs0(a, d.targets))
            [] OTHER -> v
  BY DEF FinishNow
<1> HIDE DEF a, u
<1>3. PanesOf(a) = PanesOf(v) /\ TabsOf(a) = TabsOf(v) /\ Keeps(v, a) /\ Spares(v, a, {})
  BY <1>1 DEF PanesOf, TabsOf, Keeps, Spares
<1>4. ASSUME NEW S, \A p \in PanesOf(v) : v.state = "open" /\ v.panes[p].shut => p \in S
      PROVE  Loose(a, n, X, S)
  <2>1. NotNewer(a, n)
    BY <1>1, <1>3 DEF NotNewer, None
  <2>2. a.state = "open" => \A p \in PanesOf(a) : a.panes[p].shut => p \in S
    BY <1>1, <1>3, <1>4
  <2>3. ClosingOK(a, X) /\ DialogOK(a)
    BY <1>1, <1>3 DEF ClosingOK, DialogOK
  <2> QED BY <1>1, <2>1, <2>2, <2>3 DEF Loose
<1>5. CASE d.kind = "pane"
  <2> DEFINE p == d.pane
             b == CommitPane0(a, p)
  <2>1. u = Reevaluate(b)
    BY <1>2, <1>5
  <2>2. \A q \in PanesOf(v) : q = p => v.panes[q].shut
    BY <1>5
  <2> HIDE DEF p
  <2>3. Good(b, n, X) /\ Keeps(a, b) /\ Spares(a, b, {p})
    <3>1. \A q \in PanesOf(v) : v.state = "open" /\ v.panes[q].shut => q \in {p}
      BY <1>5 DEF ShutOK, p
    <3>2. Loose(a, n, X, {p})
      BY <1>4, <3>1
    <3> QED BY <3>2, CommitPaneGood
  <2> HIDE DEF b
  <2>4. Good(u, n, X) /\ Keeps(b, u) /\ Spares(b, u, {})
    BY <2>1, <2>3, ReevaluateGood
  <2>5. Keeps(v, u)
    BY <1>3, <2>3, <2>4, KeepsTransitive
  <2>6. Spares(v, b, {} \cup {p})
    BY <1>3, <2>3, SparesTransitive
  <2>7. Spares(v, b, {})
    BY <2>2, <2>6 DEF Spares
  <2>8. Spares(v, u, {} \cup {})
    BY <2>4, <2>7, SparesTransitive
  <2> QED BY <1>5, <2>4, <2>5, <2>8 DEF u, None
<1>6. CASE d.kind = "tabs"
  <2> DEFINE T == d.targets
             b == CommitTabs0(a, T)
  <2>1. u = Reevaluate(b)
    BY <1>2, <1>6
  <2>2. \A q \in PanesIn(v, T) : v.panes[q].shut
    BY <1>6
  <2>3. PanesIn(a, T) = PanesIn(v, T)
    BY <1>1, <1>3 DEF PanesIn
  <2> HIDE DEF T
  <2>4. Good(b, n, X) /\ Keeps(a, b) /\ Spares(a, b, PanesIn(a, T))
    <3>1. \A q \in PanesOf(v) : v.state = "open" /\ v.panes[q].shut => q \in PanesIn(a, T)
      BY <1>6, <2>3 DEF ShutOK, T, PanesIn
    <3>2. Loose(a, n, X, PanesIn(a, T))
      BY <1>4, <3>1
    <3> QED BY <3>2, CommitTabsGood
  <2> HIDE DEF b
  <2>5. Good(u, n, X) /\ Keeps(b, u) /\ Spares(b, u, {})
    BY <2>1, <2>4, ReevaluateGood
  <2>6. Keeps(v, u)
    BY <1>3, <2>4, <2>5, KeepsTransitive
  <2>7. Spares(v, b, {} \cup PanesIn(a, T))
    BY <1>3, <2>4, SparesTransitive
  <2>8. Spares(v, b, {})
    BY <2>2, <2>3, <2>7 DEF Spares
  <2>9. Spares(v, u, {} \cup {})
    BY <2>5, <2>8, SparesTransitive
  <2> QED BY <1>6, <2>5, <2>6, <2>9 DEF u, None
<1>7. CASE d.kind \notin {"pane", "tabs"}
  BY <1>2, <1>7 DEF u, Keeps, Spares
<1> QED BY <1>5, <1>6, <1>7 DEF None

LEMMA FinishNowGood ==
    ASSUME NEW n \in Nat, NEW X, NEW v, Good(v, n, X)
    PROVE  LET u == FinishNow(v)
           IN Good(u, n, X) /\ Keeps(v, u) /\ Spares(v, u, {})
<1>1. v \in Workspaces /\ NotNewer(v, n) /\ ClosingOK(v, X) /\ DialogOK(v) /\ RemovalOK(v)
  BY DEF Good
<1>2. v.deferred.kind = "pane" =>
        \A p \in PanesOf(v) : p = v.deferred.pane => v.panes[p].shut
  BY <1>1 DEF RemovalOK
<1>3. v.deferred.kind = "tabs" =>
        \A p \in PanesIn(v, v.deferred.targets) : v.panes[p].shut
  BY <1>1 DEF RemovalOK
<1>4. v.deferred.kind \in {"pane", "tabs"} \/ v.deferred = None
  BY <1>1, Shape DEF Deferrals
<1>5. ShutOK(v)
  BY <1>1 DEF RemovalOK
<1> QED BY <1>1, <1>2, <1>3, <1>4, <1>5, FinishGood

\* The animation of p has ended, and what waits has not been told yet.
RemovalUpTo(v, p) ==
    /\ ShutOK(v)
    /\ v.deferred.kind = "pane" =>
         LET q == v.deferred.pane
         IN q \in PanesOf(v) /\ (q # p => v.panes[q].exiting) /\ v.panes[q].shut
    /\ v.deferred.kind = "tabs" =>
         /\ v.deferred.waiting # {}
         /\ \A q \in v.deferred.waiting :
              q \in PanesOf(v) /\ (q # p => v.panes[q].exiting)
         /\ \A q \in PanesIn(v, v.deferred.targets) : v.panes[q].shut

LEMMA FinishedGood ==
    ASSUME NEW n \in Nat, NEW X, NEW v \in Workspaces, NEW p,
           NotNewer(v, n), ClosingOK(v, X), DialogOK(v), RemovalUpTo(v, p)
    PROVE  LET u == Finished(v, p)
           IN Good(u, n, X) /\ Keeps(v, u) /\ Spares(v, u, {})
<1> DEFINE d == v.deferred
           u == Finished(v, p)
<1>0. d \in Deferrals
  BY Shape
<1>1. CASE (d.kind = "pane" /\ d.pane = p) \/ (d.kind = "tabs" /\ d.waiting = {p})
  <2>1. u = FinishNow(v)
    BY <1>1 DEF Finished
  <2>2. v.deferred.kind = "pane" =>
          \A q \in PanesOf(v) : q = v.deferred.pane => v.panes[q].shut
    BY DEF RemovalUpTo
  <2>3. v.deferred.kind = "tabs" =>
          \A q \in PanesIn(v, v.deferred.targets) : v.panes[q].shut
    BY DEF RemovalUpTo
  <2>4. v.deferred.kind \in {"pane", "tabs"}
    BY <1>1
  <2> HIDE DEF u
  <2>5. ShutOK(v)
    BY DEF RemovalUpTo
  <2> QED BY <2>1, <2>2, <2>3, <2>4, <2>5, FinishGood DEF u
<1>2. CASE d.kind = "tabs" /\ p \in d.waiting /\ d.waiting # {p}
  <2> DEFINE e == [d EXCEPT !.waiting = @ \ {p}]
  <2>1. u = [v EXCEPT !.deferred = e]
    BY <1>2 DEF Finished
  <2>2. d \in [kind : {"tabs"}, targets : SUBSET Panes, waiting : SUBSET Panes]
    BY <1>0, <1>2 DEF Deferrals, None
  <2>3. /\ e \in Deferrals /\ e.kind = "tabs" /\ e.targets = d.targets
        /\ e.waiting = d.waiting \ {p}
    BY <2>2 DEF Deferrals
  <2> HIDE DEF e, u
  <2>4. /\ u \in Workspaces /\ u.deferred = e
        /\ u.panes = v.panes /\ u.pending = v.pending /\ u.state = v.state
        /\ u.waiting = v.waiting /\ u.publish = v.publish /\ u.quit = v.quit
        /\ u.approved = v.approved
    BY <2>1, <2>3, NewDeferred
  <2>5. PanesOf(u) = PanesOf(v) /\ TabsOf(u) = TabsOf(v)
    BY <2>4 DEF PanesOf, TabsOf
  <2>6. RemovalOK(u)
    <3>1. \A T : PanesIn(u, T) = PanesIn(v, T)
      BY <2>4, <2>5 DEF PanesIn
    <3>2. e.waiting # {}
      BY <1>2, <2>3
    <3>3. ShutOK(u)
      BY <1>2, <2>3, <2>4, <2>5 DEF ShutOK, RemovalUpTo
    <3> QED BY <1>2, <2>3, <2>4, <2>5, <3>1, <3>2, <3>3 DEF RemovalOK, RemovalUpTo
  <2>7. NotNewer(u, n)
    BY <1>2, <2>3, <2>4, <2>5 DEF NotNewer
  <2>8. ClosingOK(u, X) /\ DialogOK(u)
    BY <2>4, <2>5 DEF ClosingOK, DialogOK
  <2> QED BY <2>4, <2>5, <2>6, <2>7, <2>8 DEF u, Good, Keeps, Spares
<1>3. CASE ~(d.kind = "pane" /\ d.pane = p) /\ ~(d.kind = "tabs" /\ p \in d.waiting)
  <2>1. u = v
    BY <1>3 DEF Finished
  <2>2. RemovalOK(v)
    BY <1>3 DEF RemovalOK, RemovalUpTo
  <2> QED BY <2>1, <2>2 DEF Good, Keeps, Spares
<1> QED BY <1>1, <1>2, <1>3

LEMMA WindowFinishedGood ==
    ASSUME NEW n \in Nat, NEW v, NEW p, Good(v, n, {p})
    PROVE  LET u == WindowFinished(v, p)
           IN /\ Good(u, n, {}) /\ Keeps(v, u) /\ Spares(v, u, {})
              /\ u.panes = v.panes
<1> DEFINE u == WindowFinished(v, p)
<1>0. v \in Workspaces /\ NotNewer(v, n) /\ RemovalOK(v) /\ ClosingOK(v, {p}) /\ DialogOK(v)
  BY DEF Good
<1>1. CASE p \notin v.waiting
  <2>1. u = v
    BY <1>1 DEF WindowFinished
  <2>2. ClosingOK(v, {})
    BY <1>0, <1>1 DEF ClosingOK
  <2> QED BY <1>0, <2>1, <2>2 DEF Good, Keeps, Spares
<1>2. CASE p \in v.waiting
  <2> DEFINE W == v.waiting \ {p}
             b == v.publish \/ (v.waiting = {p} /\ v.state = "committed")
  <2>1. W \in SUBSET Panes /\ b \in BOOLEAN
    BY <1>0, Shape
  <2>2. u = [v EXCEPT !.waiting = W, !.publish = b]
    BY <1>2 DEF WindowFinished
  <2> HIDE DEF u
  <2>3. /\ u \in Workspaces /\ u.waiting = W /\ u.publish = b
        /\ u.panes = v.panes /\ u.pending = v.pending /\ u.state = v.state
        /\ u.deferred = v.deferred /\ u.quit = v.quit /\ u.approved = v.approved
    <3> HIDE DEF W, b
    <3> QED BY <1>0, <2>1, <2>2 DEF Workspaces
  <2>4. PanesOf(u) = PanesOf(v) /\ TabsOf(u) = TabsOf(v)
    BY <2>3 DEF PanesOf, TabsOf
  <2>5. NotNewer(u, n) /\ RemovalOK(u) /\ DialogOK(u)
    BY <1>0, <2>3, <2>4 DEF NotNewer, RemovalOK, DialogOK, PanesIn, ShutOK
  <2>6. ClosingOK(u, {})
    BY <1>0, <1>2, <2>3, <2>4 DEF ClosingOK
  <2> QED BY <2>3, <2>4, <2>5, <2>6 DEF u, Good, Keeps, Spares
<1> QED BY <1>1, <1>2

\* Nobody waits for p any more when its animation has ended.
LEMMA EndTransitionGood ==
    ASSUME NEW n \in Nat, NEW v, NEW p \in PanesOf(v), Good(v, n, {})
    PROVE  LET u == EndTransition(v, p)
           IN Good(u, n, {}) /\ Keeps(v, u) /\ Spares(v, u, {})
<1> DEFINE f == [v.panes EXCEPT ![p].exiting = FALSE]
           a == [v EXCEPT !.panes = f]
           b == Finished(a, p)
           u == EndTransition(v, p)
<1>0. v \in Workspaces /\ NotNewer(v, n) /\ RemovalOK(v) /\ ClosingOK(v, {}) /\ DialogOK(v)
  BY DEF Good
<1>1. u = WindowFinished(b, p)
  BY DEF EndTransition
<1>2. /\ f \in [PanesOf(v) -> PaneRecords] /\ PanesOf(v) \in SUBSET Panes
      /\ \A q \in PanesOf(v) :
           /\ f[q].tab = v.panes[q].tab /\ f[q].asks = v.panes[q].asks
           /\ f[q].shut = v.panes[q].shut
           /\ q # p => f[q].exiting = v.panes[q].exiting
  <2> DEFINE r == [v.panes[p] EXCEPT !.exiting = FALSE]
  <2>1. /\ r \in PaneRecords /\ r.tab = v.panes[p].tab
        /\ r.asks = v.panes[p].asks /\ r.shut = v.panes[p].shut
    <3>1. v.panes[p] \in PaneRecords
      BY <1>0, PaneShape
    <3> QED BY <3>1 DEF PaneRecords
  <2>2. f = [v.panes EXCEPT ![p] = r]
    OBVIOUS
  <2>3. v.panes \in [PanesOf(v) -> PaneRecords] /\ PanesOf(v) \in SUBSET Panes
    BY <1>0, Shape
  <2> HIDE DEF r, f
  <2> QED BY <2>1, <2>2, <2>3
<1> HIDE DEF f
<1>3. /\ a \in Workspaces /\ a.panes = f /\ PanesOf(a) = PanesOf(v)
      /\ SameButPanes(v, a)
  BY <1>0, <1>2, NewPanes
<1> HIDE DEF a, b, u
<1>4. TabsOf(a) = TabsOf(v) /\ \A T : PanesIn(a, T) = PanesIn(v, T)
  BY <1>2, <1>3 DEF TabsOf, PanesIn
<1>5. NotNewer(a, n)
  BY <1>0, <1>2, <1>3 DEF NotNewer, SameButPanes
<1>6. DialogOK(a)
  BY <1>0, <1>2, <1>3, <1>4 DEF DialogOK, SameButPanes
<1>7. ClosingOK(a, {p})
  BY <1>0, <1>2, <1>3 DEF ClosingOK, SameButPanes
<1>8. RemovalUpTo(a, p)
  <2>1. \A q \in PanesOf(v) : a.panes[q].shut = v.panes[q].shut
    BY <1>2, <1>3
  <2>2. \A q \in PanesOf(v) : q # p => a.panes[q].exiting = v.panes[q].exiting
    BY <1>2, <1>3
  <2>3. a.deferred = v.deferred
    BY <1>3 DEF SameButPanes
  <2>4. \A q, T : q \in PanesIn(v, T) => q \in PanesOf(v)
    BY DEF PanesIn
  <2>5. \A q \in PanesOf(v) : a.panes[q].tab = v.panes[q].tab
    BY <1>2, <1>3
  <2>6. ShutOK(a)
    BY <1>0, <1>3, <2>1, <2>3, <2>5 DEF RemovalOK, ShutOK, SameButPanes
  <2> QED BY <1>0, <1>3, <1>4, <2>1, <2>2, <2>3, <2>4, <2>6 DEF RemovalOK, RemovalUpTo
<1>9. Keeps(v, a) /\ Spares(v, a, {})
  BY <1>2, <1>3 DEF Keeps, Spares, SameButPanes
<1> DEFINE P == {p}
<1> HIDE DEF P
<1>10. Good(b, n, P) /\ Keeps(a, b) /\ Spares(a, b, {})
  <2>1. ClosingOK(a, P)
    BY <1>7 DEF P
  <2> QED BY <1>3, <1>5, <1>6, <1>8, <2>1, FinishedGood DEF b
<1>11. Good(u, n, {}) /\ Keeps(b, u) /\ Spares(b, u, {})
  BY <1>1, <1>10, WindowFinishedGood DEF P
<1>12. Keeps(v, u)
  BY <1>9, <1>10, <1>11, KeepsTransitive
<1>13. Spares(v, b, {} \cup {})
  BY <1>9, <1>10, SparesTransitive
<1>14. Spares(v, u, {} \cup {})
  <2>1. Spares(v, b, {})
    BY <1>13
  <2> QED BY <1>11, <2>1, SparesTransitive
<1> QED BY <1>11, <1>12, <1>14 DEF u

\* Of pane p only what it reports, r, is new.
Reported(v, u, p, r) ==
    /\ r.asks = v.panes[p].asks => Spares(v, u, {})
    /\ PanesOf(u) = PanesOf(v) /\ SameButPanes(v, u)

\* A pane reports something: whether it asks, or how far its session is.
LEMMA PaneReports ==
    ASSUME NEW n \in Nat, NEW v, NEW p \in PanesOf(v), Good(v, n, {}),
           NEW r \in PaneRecords,
           r.tab = v.panes[p].tab, r.shut = v.panes[p].shut,
           r.exiting = v.panes[p].exiting,
           NEW u, u = [v EXCEPT !.panes = [v.panes EXCEPT ![p] = r]]
    PROVE  /\ Good(u, n, {}) /\ Keeps(v, u) /\ Spares(v, u, {p})
           /\ Reported(v, u, p, r)
<1> DEFINE f == [v.panes EXCEPT ![p] = r]
<1>0. v \in Workspaces /\ NotNewer(v, n) /\ RemovalOK(v) /\ ClosingOK(v, {}) /\ DialogOK(v)
  BY DEF Good
<1>1. /\ f \in [PanesOf(v) -> PaneRecords] /\ PanesOf(v) \in SUBSET Panes
      /\ f[p] = r /\ \A q \in PanesOf(v) \ {p} : f[q] = v.panes[q]
  BY <1>0, Shape
<1> HIDE DEF f
<1>2. u \in Workspaces /\ u.panes = f /\ PanesOf(u) = PanesOf(v) /\ SameButPanes(v, u)
  <2>1. u = [v EXCEPT !.panes = f]
    BY DEF f
  <2> QED BY <1>0, <1>1, <2>1, NewPanes
<1>3. \A q \in PanesOf(v) :
        /\ u.panes[q].tab = v.panes[q].tab /\ u.panes[q].shut = v.panes[q].shut
        /\ u.panes[q].exiting = v.panes[q].exiting
        /\ q # p => u.panes[q].asks = v.panes[q].asks
  BY <1>1, <1>2
<1>4. TabsOf(u) = TabsOf(v) /\ \A T : PanesIn(u, T) = PanesIn(v, T)
  BY <1>2, <1>3 DEF TabsOf, PanesIn
<1>5. NotNewer(u, n)
  BY <1>0, <1>2, <1>3 DEF NotNewer, SameButPanes
<1>6. DialogOK(u)
  BY <1>0, <1>2, <1>3, <1>4 DEF DialogOK, SameButPanes
<1>7. ClosingOK(u, {})
  BY <1>0, <1>2, <1>3 DEF ClosingOK, SameButPanes
<1>8. RemovalOK(u)
  <2>1. u.deferred = v.deferred
    BY <1>2 DEF SameButPanes
  <2>2. \A q, T : q \in PanesIn(v, T) => q \in PanesOf(v)
    BY DEF PanesIn
  <2>3. ShutOK(u)
    BY <1>0, <1>2, <1>3, <2>1 DEF RemovalOK, ShutOK, SameButPanes
  <2> QED BY <1>0, <1>2, <1>3, <1>4, <2>1, <2>2, <2>3 DEF RemovalOK
<1>9. Keeps(v, u)
  BY <1>2 DEF Keeps, SameButPanes
<1>10. Spares(v, u, {p}) /\ (r.asks = v.panes[p].asks => Spares(v, u, {}))
  <2>1. \A q \in PanesOf(v) : (q # p \/ r.asks = v.panes[p].asks) => u.panes[q].asks = v.panes[q].asks
    BY <1>1, <1>2, <1>3
  <2> QED BY <1>2, <1>3, <2>1 DEF Spares
<1> QED BY <1>1, <1>2, <1>4, <1>5, <1>6, <1>7, <1>8, <1>9, <1>10 DEF Good, Reported

\* A dialog about p is shown, or p is closed without one.
LEMMA ClosePaneGood ==
    ASSUME NEW n \in Nat, NEW v, NEW p \in PanesOf(v), Good(v, n, {}),
           v.state = "open", v.deferred = None
    PROVE  LET u == ClosePane(v, p)
           IN Good(u, n, {}) /\ Keeps(v, u) /\ Spares(v, u, {})
<1> DEFINE u == ClosePane(v, p)
<1>0. v \in Workspaces /\ NotNewer(v, n) /\ RemovalOK(v) /\ ClosingOK(v, {}) /\ DialogOK(v)
  BY DEF Good
<1>1. CASE v.panes[p].asks /\ v.pending # None
  BY <1>1 DEF ClosePane, Keeps, Spares
<1>2. CASE v.panes[p].asks /\ v.pending = None /\ ~v.panes[p].shut
  <2> DEFINE d == [kind |-> "pane", pane |-> p, tab |-> v.panes[p].tab]
  <2>1. d \in Pendings /\ d.kind = "pane" /\ d.pane = p /\ d.tab = v.panes[p].tab
    BY <1>0, PaneShape DEF Pendings
  <2>2. u = [v EXCEPT !.pending = d]
    BY <1>2 DEF ClosePane
  <2> HIDE DEF d, u
  <2>3. u \in Workspaces /\ SameButPending(v, u) /\ u.pending = d
    BY <1>0, <2>1, <2>2, NewPending DEF SameButPending
  <2>4. /\ NotNewer(u, n) /\ RemovalOK(u) /\ ClosingOK(u, {})
        /\ PanesOf(u) = PanesOf(v) /\ Spares(v, u, {}) /\ Keeps(v, u)
    BY <1>0, <1>2, <2>3, DialogChange DEF None
  <2>5. DialogOK(u)
    BY <1>2, <2>1, <2>3, <2>4 DEF DialogOK, SameButPending
  <2> QED BY <2>3, <2>4, <2>5 DEF u, Good
<1>3. CASE ~v.panes[p].asks
  <2> DEFINE a == StartPane0(v, p)
  <2>1. Good(a, n, {}) /\ Keeps(v, a) /\ Spares(v, a, {p})
    BY StartPaneGood
  <2>2. Spares(v, a, {})
    BY <1>3, <2>1 DEF Spares
  <2>3. u = IF a.deferred # None THEN a ELSE Reevaluate(a)
    BY <1>3 DEF ClosePane
  <2> HIDE DEF a, u
  <2>4. /\ Good(Reevaluate(a), n, {}) /\ Keeps(a, Reevaluate(a))
        /\ Spares(a, Reevaluate(a), {})
    BY <2>1, ReevaluateGood
  <2>5. Keeps(v, Reevaluate(a)) /\ Spares(v, Reevaluate(a), {} \cup {})
    BY <2>1, <2>2, <2>4, KeepsTransitive, SparesTransitive
  <2> QED BY <2>1, <2>2, <2>3, <2>4, <2>5 DEF u
<1>4. ~v.panes[p].shut
  BY <1>0 DEF RemovalOK, ShutOK, None
<1> QED BY <1>1, <1>2, <1>3, <1>4
LEMMA CloseTabsGood ==
    ASSUME NEW n \in Nat, NEW v, NEW t \in TabsOf(v), NEW mode \in Modes,
           Good(v, n, {}), v.state = "open", v.deferred = None
    PROVE  LET u == CloseTabs(v, t, mode)
           IN Good(u, n, {}) /\ Keeps(v, u) /\ Spares(v, u, {})
<1> DEFINE T == TabTargets(v, t, mode)
           u == CloseTabs(v, t, mode)
<1>0. v \in Workspaces /\ NotNewer(v, n) /\ RemovalOK(v) /\ ClosingOK(v, {}) /\ DialogOK(v)
  BY DEF Good
<1>1. AreTabs(T, v)
  BY DEF AreTabs, TabTargets, Modes
<1>2. u = IF Asking(v, PanesIn(v, T))
          THEN IF v.pending # None THEN v
               ELSE [v EXCEPT !.pending = [kind |-> "tabs", targets |-> T]]
          ELSE LET a == StartTabs0(v, T)
               IN IF T = {} \/ a.deferred # None THEN a ELSE Reevaluate(a)
  BY DEF CloseTabs
<1> HIDE DEF T, u
<1>3. CASE Asking(v, PanesIn(v, T)) /\ v.pending # None
  BY <1>2, <1>3 DEF u, Keeps, Spares
<1>4. CASE Asking(v, PanesIn(v, T)) /\ v.pending = None
  <2> DEFINE d == [kind |-> "tabs", targets |-> T]
  <2>1. T # {}
    BY <1>4 DEF Asking, PanesIn
  <2>2. T \in SUBSET Panes
    <3>1. \A x \in TabsOf(v) : x \in Panes
      BY <1>0, PaneShape DEF TabsOf
    <3> QED BY <1>1, <3>1 DEF AreTabs
  <2>3. d \in Pendings /\ d.kind = "tabs" /\ d.targets = T
    BY <2>2 DEF Pendings
  <2>4. u = [v EXCEPT !.pending = d]
    BY <1>2, <1>4
  <2> HIDE DEF d
  <2>5. u \in Workspaces /\ SameButPending(v, u) /\ u.pending = d
    BY <1>0, <2>3, <2>4, NewPending DEF SameButPending
  <2>6. /\ NotNewer(u, n) /\ RemovalOK(u) /\ ClosingOK(u, {})
        /\ PanesOf(u) = PanesOf(v) /\ TabsOf(u) = TabsOf(v)
        /\ Spares(v, u, {}) /\ Keeps(v, u)
    BY <1>0, <1>4, <2>5, DialogChange DEF None
  <2>7. DialogOK(u)
    BY <1>1, <2>1, <2>3, <2>5, <2>6 DEF DialogOK, SameButPending, AreTabs
  <2> QED BY <2>5, <2>6, <2>7 DEF u, Good
<1>5. CASE ~Asking(v, PanesIn(v, T))
  <2> DEFINE a == StartTabs0(v, T)
  <2>1. Good(a, n, {}) /\ Keeps(v, a) /\ Spares(v, a, PanesIn(v, T))
    BY <1>1, StartTabsGood
  <2>2. Spares(v, a, {})
    BY <1>5, <2>1 DEF Spares, Asking
  <2>3. u = IF T = {} \/ a.deferred # None THEN a ELSE Reevaluate(a)
    BY <1>2, <1>5
  <2> HIDE DEF a
  <2>4. /\ Good(Reevaluate(a), n, {}) /\ Keeps(a, Reevaluate(a))
        /\ Spares(a, Reevaluate(a), {})
    BY <2>1, ReevaluateGood
  <2>5. Keeps(v, Reevaluate(a)) /\ Spares(v, Reevaluate(a), {} \cup {})
    BY <2>1, <2>2, <2>4, KeepsTransitive, SparesTransitive
  <2> QED BY <2>1, <2>2, <2>3, <2>4, <2>5 DEF u
<1> QED BY <1>3, <1>4, <1>5

\* The intent to quit changes nothing by itself.
LEMMA IntentGood ==
    ASSUME NEW n \in Nat, NEW v, Good(v, n, {}), NEW b \in BOOLEAN,
           NEW u, u = [v EXCEPT !.quit = b]
    PROVE  /\ Good(u, n, {}) /\ Spares(v, u, {}) /\ u.quit = b
           /\ u.panes = v.panes /\ PanesOf(u) = PanesOf(v) /\ u.state = v.state
           /\ u.approved = v.approved /\ u.pending = v.pending
<1>1. /\ u \in Workspaces /\ u.quit = b
      /\ u.panes = v.panes /\ u.pending = v.pending /\ u.state = v.state
      /\ u.deferred = v.deferred
      /\ u.waiting = v.waiting /\ u.publish = v.publish /\ u.approved = v.approved
  BY DEF Workspaces, Good
<1>2. PanesOf(u) = PanesOf(v) /\ TabsOf(u) = TabsOf(v)
  BY <1>1 DEF PanesOf, TabsOf
<1>3. NotNewer(u, n) /\ RemovalOK(u)
  BY <1>1, <1>2 DEF Good, NotNewer, RemovalOK, ShutOK, PanesIn
<1>4. ClosingOK(u, {}) /\ DialogOK(u)
  BY <1>1, <1>2 DEF Good, ClosingOK, DialogOK
<1> QED BY <1>1, <1>2, <1>3, <1>4 DEF Good, Spares

\* A dialog about the window takes the place of another one.
AskWindow(v) == [v EXCEPT !.pending = [kind |-> "window"]]

LEMMA AskWindowGood ==
    ASSUME NEW n \in Nat, NEW v, Good(v, n, {}), v.state = "open",
           NEW u, u = AskWindow(v)
    PROVE  /\ Good(u, n, {}) /\ Keeps(v, u) /\ Spares(v, u, {})
           /\ u.pending.kind = "window"
<1> DEFINE d == [kind |-> "window"]
           a == [v EXCEPT !.pending = d]
<1>1. d \in Pendings /\ d.kind = "window"
  BY DEF Pendings
<1>2. u = a /\ v \in Workspaces
  BY DEF Good, AskWindow
<1> HIDE DEF d
<1>6. a \in Workspaces /\ SameButPending(v, a) /\ a.pending = d
  BY <1>1, <1>2, NewPending DEF SameButPending
<1> HIDE DEF a
<1>3. u \in Workspaces /\ SameButPending(v, u) /\ u.pending = d
  BY <1>2, <1>6
<1>4. /\ NotNewer(u, n) /\ RemovalOK(u) /\ ClosingOK(u, {})
      /\ PanesOf(u) = PanesOf(v) /\ Spares(v, u, {}) /\ Keeps(v, u)
  <2>1. v \in Workspaces /\ NotNewer(v, n) /\ RemovalOK(v) /\ ClosingOK(v, {})
    BY DEF Good
  <2>2. /\ NotNewer(u, n) /\ RemovalOK(u) /\ ClosingOK(u, {})
        /\ PanesOf(u) = PanesOf(v) /\ TabsOf(u) = TabsOf(v) /\ Spares(v, u, {})
        /\ (v.quit /\ v.pending.kind = "window" => u.pending.kind = "window")
                => Keeps(v, u)
    BY <1>3, <2>1, DialogChange
  <2> QED BY <1>1, <1>3, <2>2
<1>5. DialogOK(u)
  BY <1>1, <1>3 DEF DialogOK, SameButPending, Good
<1> QED BY <1>1, <1>3, <1>4, <1>5 DEF Good

\* A dialog is dropped.
LEMMA NoDialogGood ==
    ASSUME NEW n \in Nat, NEW v, Good(v, n, {}),
           NEW u, u = [v EXCEPT !.pending = None]
    PROVE  /\ Good(u, n, {}) /\ Spares(v, u, {}) /\ u.pending = None
           /\ SameButPending(v, u) /\ PanesOf(u) = PanesOf(v)
           /\ v.pending.kind # "window" => Keeps(v, u)
<1>1. None \in Pendings /\ v \in Workspaces
  BY DEF Pendings, Good
<1>2. u \in Workspaces /\ SameButPending(v, u) /\ u.pending = None
  BY <1>1, NewPending DEF SameButPending
<1>3. /\ NotNewer(u, n) /\ RemovalOK(u) /\ ClosingOK(u, {})
      /\ PanesOf(u) = PanesOf(v) /\ Spares(v, u, {})
      /\ v.pending.kind # "window" => Keeps(v, u)
  BY <1>1, <1>2, DialogChange DEF Good
<1>4. DialogOK(u)
  BY <1>2 DEF DialogOK, None
<1> QED BY <1>2, <1>3, <1>4 DEF Good

\* The window is asked to close, or to host the question of a quit.
LEMMA RequestCloseGood ==
    ASSUME NEW n \in Nat, NEW v, Good(v, n, {}), NEW quitting \in BOOLEAN, NEW needs
    PROVE  LET u == RequestClose(v, quitting, needs)
           IN /\ Good(u, n, {}) /\ PanesOf(u) \subseteq PanesOf(v)
              /\ u.state = "published" <=> v.state = "published"
              /\ ~quitting => Keeps(v, u)
              /\ quitting => /\ u.quit
                             /\ v.state = "published" => u.approved
                             /\ \/ u.pending.kind = "window"
                                \/ u.state \in {"committed", "published"}
              /\ ~quitting \/ needs => Spares(v, u, {})
<1> DEFINE b == v.quit \/ quitting
           q == [v EXCEPT !.quit = b]
           f == FinishNow(q)
           asks == IF quitting THEN needs ELSE Asking(f, PanesOf(f))
           u == RequestClose(v, quitting, needs)
<1>0. v \in Workspaces /\ b \in BOOLEAN /\ (~quitting => b = v.quit) /\ (quitting => b)
  BY Shape DEF Good
<1>1. u = CASE q.state = "published" -> ApproveQuit(q)
            [] q.state = "committed" -> q
            [] q.state = "open" /\ (f.state # "open"
                  \/ (f.pending # None /\ (~quitting \/ f.pending.kind = "window")))
                 -> f
            [] OTHER -> IF asks THEN [f EXCEPT !.pending = [kind |-> "window"]]
                        ELSE Approve([f EXCEPT !.pending = None])
  BY DEF RequestClose
<1>2. q = [v EXCEPT !.quit = b] /\ f = FinishNow(q)
  OBVIOUS
<1> HIDE DEF b, q, f, u
<1>3. /\ Good(q, n, {}) /\ Spares(v, q, {}) /\ q.quit = b
      /\ q.panes = v.panes /\ PanesOf(q) = PanesOf(v) /\ q.state = v.state
      /\ q.approved = v.approved /\ q.pending = v.pending
  BY <1>0, <1>2, IntentGood
<1>4. ~quitting => Keeps(v, q)
  BY <1>0, <1>3 DEF Keeps
<1>5. Good(f, n, {}) /\ Keeps(q, f) /\ Spares(q, f, {})
  BY <1>2, <1>3, FinishNowGood
<1>6. Spares(v, f, {})
  <2>1. Spares(v, f, {} \cup {})
    BY <1>3, <1>5, SparesTransitive
  <2> QED BY <2>1
<1>7. v.state \in {"open", "committed", "published"}
  BY <1>0, Shape
<1>8. ASSUME Good(u, n, {}), Keeps(q, u), (~quitting \/ needs) => Spares(v, u, {}),
             quitting => /\ v.state = "published" => u.approved
                         /\ \/ u.pending.kind = "window"
                            \/ u.state \in {"committed", "published"}
      PROVE  /\ Good(u, n, {}) /\ PanesOf(u) \subseteq PanesOf(v)
             /\ u.state = "published" <=> v.state = "published"
             /\ ~quitting => Keeps(v, u)
             /\ quitting => /\ u.quit
                            /\ v.state = "published" => u.approved
                            /\ \/ u.pending.kind = "window"
                               \/ u.state \in {"committed", "published"}
             /\ ~quitting \/ needs => Spares(v, u, {})
  <2>1. ~quitting => Keeps(v, u)
    BY <1>4, <1>8, KeepsTransitive
  <2>2. PanesOf(u) \subseteq PanesOf(v) /\ u.quit = b
    BY <1>3, <1>8 DEF Keeps
  <2>3. u.state = "published" <=> v.state = "published"
    BY <1>3, <1>8 DEF Keeps
  <2> QED BY <1>0, <1>8, <2>1, <2>2, <2>3
<1>9. CASE v.state = "published"
  <2>1. u = ApproveQuit(q) /\ q \in Workspaces
    BY <1>1, <1>3, <1>9 DEF Good
  <2>2. /\ u \in Workspaces /\ u.approved = (q.approved \/ q.quit)
        /\ u.panes = q.panes /\ u.pending = q.pending
        /\ u.deferred = q.deferred /\ u.state = q.state
        /\ u.waiting = q.waiting /\ u.publish = q.publish /\ u.quit = q.quit
    BY <2>1, ApproveQuitFields
  <2>3. PanesOf(u) = PanesOf(q) /\ TabsOf(u) = TabsOf(q)
    BY <2>2 DEF PanesOf, TabsOf
  <2>4. Good(u, n, {})
    <3>1. NotNewer(u, n) /\ RemovalOK(u) /\ DialogOK(u)
      BY <1>3, <2>2, <2>3 DEF Good, NotNewer, RemovalOK, ShutOK, DialogOK, PanesIn
    <3>2. ClosingOK(u, {})
      BY <1>3, <1>9, <2>2, <2>3 DEF Good, ClosingOK
    <3> QED BY <2>2, <3>1, <3>2 DEF Good
  <2>5. Keeps(q, u)
    BY <1>3, <1>9, <2>2, <2>3 DEF Keeps
  <2>6. Spares(v, u, {})
    BY <1>3, <2>2, <2>3 DEF Spares
  <2>7. quitting => u.approved
    BY <1>0, <1>3, <2>2
  <2> QED BY <1>3, <1>8, <1>9, <2>2, <2>4, <2>5, <2>6, <2>7 DEF u
<1>10. CASE v.state = "committed"
  <2>1. u = q
    BY <1>1, <1>3, <1>10
  <2>2. Keeps(q, q)
    BY DEF Keeps
  <2> QED BY <1>3, <1>8, <1>10, <2>1, <2>2 DEF u
<1>11. CASE v.state = "open" /\ (f.state # "open"
               \/ (f.pending # None /\ (~quitting \/ f.pending.kind = "window")))
  <2>1. u = f
    BY <1>1, <1>3, <1>11
  <2>2. f.state # "open" => f.state = "committed"
    <3>1. f.state \in {"open", "committed", "published"}
      BY <1>5, Shape DEF Good
    <3>2. f.state # "published"
      BY <1>3, <1>5, <1>11 DEF Keeps
    <3> QED BY <3>1, <3>2
  <2> QED BY <1>5, <1>6, <1>8, <1>11, <2>1, <2>2 DEF u
<1>12. CASE v.state = "open" /\ ~(f.state # "open"
               \/ (f.pending # None /\ (~quitting \/ f.pending.kind = "window")))
  <2>1. u = IF asks THEN [f EXCEPT !.pending = [kind |-> "window"]]
            ELSE Approve([f EXCEPT !.pending = None])
    BY <1>1, <1>3, <1>12
  <2>2. CASE asks
    <3>1. u = AskWindow(f) /\ f.state = "open"
      BY <1>12, <2>1, <2>2 DEF AskWindow
    <3>2. /\ Good(u, n, {}) /\ Keeps(f, u) /\ Spares(f, u, {})
          /\ u.pending.kind = "window"
      BY <1>5, <3>1, AskWindowGood
    <3>3. Keeps(q, u) /\ Spares(v, u, {} \cup {})
      BY <1>5, <1>6, <3>2, KeepsTransitive, SparesTransitive
    <3> QED BY <1>8, <1>12, <3>2, <3>3 DEF u
  <2>3. CASE ~asks
    <3> DEFINE c == [f EXCEPT !.pending = None]
    <3>1. u = Approve(c)
      BY <2>1, <2>3
    <3>2. c = [f EXCEPT !.pending = None]
      OBVIOUS
    <3> HIDE DEF c
    <3>3. /\ Good(c, n, {}) /\ Spares(f, c, {}) /\ c.pending = None
          /\ SameButPending(f, c) /\ PanesOf(c) = PanesOf(f)
          /\ f.pending.kind # "window" => Keeps(f, c)
      BY <1>5, <3>2, NoDialogGood
    <3>4. /\ Good(u, n, {}) /\ Keeps(c, u) /\ Spares(c, u, PanesOf(c))
          /\ c.state = "open" => u.state = "committed"
      BY <3>1, <3>3, ApproveGood
    <3>5. f.pending.kind # "window" /\ u.state = "committed"
      BY <1>12, <3>3, <3>4 DEF None, SameButPending
    <3>6. Keeps(q, u)
      BY <1>5, <3>3, <3>4, <3>5, KeepsTransitive
    <3>7. ~quitting \/ needs => Spares(v, u, {})
      <4>1. Spares(f, u, {} \cup PanesOf(c))
        BY <3>3, <3>4, SparesTransitive
      <4>2. ~quitting \/ needs => \A p \in PanesOf(f) : ~f.panes[p].asks
        BY <2>3 DEF Asking
      <4>3. ~quitting \/ needs => Spares(f, u, {})
        BY <4>2 DEF Spares
      <4>4. ~quitting \/ needs => Spares(v, u, {} \cup {})
        BY <1>6, <4>3, SparesTransitive
      <4> QED BY <4>4
    <3> QED BY <1>8, <1>12, <3>4, <3>5, <3>6, <3>7 DEF u
  <2> QED BY <2>2, <2>3
<1> QED BY <1>7, <1>9, <1>10, <1>11, <1>12

\* The application has decided to quit, and the window closes.
LEMMA ForceShutdownGood ==
    ASSUME NEW n \in Nat, NEW v, Good(v, n, {})
    PROVE  LET u == ForceShutdown(v)
           IN /\ Good(u, n, {}) /\ PanesOf(u) \subseteq PanesOf(v)
              /\ u.state = "published" <=> v.state = "published"
              /\ u.state # "open"
<1> DEFINE f == FinishNow(v)
           no == FALSE
           c == [f EXCEPT !.quit = no]
           d == [c EXCEPT !.pending = None]
           u == ForceShutdown(v)
<1>1. /\ v.state \in {"open", "committed", "published"}
      /\ f.state \in {"open", "committed", "published"}
      /\ Good(f, n, {}) /\ Keeps(v, f)
  BY Shape, FinishNowGood DEF Good
<1>2. u = IF v.state # "open" THEN v ELSE IF f.state # "open" THEN f ELSE Approve(d)
  BY DEF ForceShutdown
<1>3. c = [f EXCEPT !.quit = no] /\ no \in BOOLEAN
  OBVIOUS
<1>7. d = [c EXCEPT !.pending = None]
  OBVIOUS
<1> HIDE DEF f, c, d, no, u
<1>4. Good(c, n, {}) /\ PanesOf(c) = PanesOf(f) /\ c.state = f.state
  BY <1>1, <1>3, IntentGood
<1>5. /\ Good(d, n, {}) /\ d.pending = None /\ PanesOf(d) = PanesOf(c)
      /\ d.state = c.state
  <2>1. /\ Good(d, n, {}) /\ Spares(c, d, {}) /\ d.pending = None
        /\ SameButPending(c, d) /\ PanesOf(d) = PanesOf(c)
    BY <1>4, <1>7, NoDialogGood
  <2> QED BY <2>1 DEF SameButPending
<1>6. /\ Good(Approve(d), n, {}) /\ Keeps(d, Approve(d))
      /\ d.state = "open" => Approve(d).state = "committed"
  BY <1>5, ApproveGood
<1> QED BY <1>1, <1>2, <1>4, <1>5, <1>6 DEF u, Keeps

\* The closing of the window is made public, and the quit it agreed to.
LEMMA PublishGood ==
    ASSUME NEW n \in Nat, NEW v, Good(v, n, {}), v.publish
    PROVE  LET u == ApproveQuit([v EXCEPT !.state = "published", !.publish = FALSE])
           IN /\ Good(u, n, {}) /\ u.panes = v.panes /\ PanesOf(u) = PanesOf(v)
              /\ u.state = "published" /\ u.quit = v.quit
              /\ v.state = "committed"
              /\ u.approved => v.quit
              /\ v.quit => u.approved
<1> DEFINE a == [v EXCEPT !.state = "published", !.publish = FALSE]
           u == ApproveQuit(a)
<1>1. v.state = "committed" /\ ~v.approved
  BY DEF Good, ClosingOK
<1>2. /\ a \in Workspaces /\ a.panes = v.panes /\ a.pending = v.pending
      /\ a.deferred = v.deferred /\ a.state = "published" /\ a.publish = FALSE
      /\ a.waiting = v.waiting /\ a.quit = v.quit /\ a.approved = v.approved
  BY DEF Workspaces, Good
<1> HIDE DEF a
<1>3. /\ u \in Workspaces /\ u.approved = (v.approved \/ v.quit)
      /\ u.panes = v.panes /\ u.pending = v.pending
      /\ u.deferred = v.deferred /\ u.state = "published" /\ u.publish = FALSE
      /\ u.waiting = v.waiting /\ u.quit = v.quit
  BY <1>2, ApproveQuitFields
<1> HIDE DEF u
<1>4. PanesOf(u) = PanesOf(v) /\ TabsOf(u) = TabsOf(v)
  BY <1>3 DEF PanesOf, TabsOf
<1>5. NotNewer(u, n)
  BY <1>3, <1>4 DEF Good, NotNewer
<1>6. RemovalOK(u)
  BY <1>3, <1>4 DEF Good, RemovalOK, ShutOK, PanesIn
<1>7. ClosingOK(u, {}) /\ DialogOK(u)
  BY <1>1, <1>3, <1>4 DEF Good, ClosingOK, DialogOK
<1> QED BY <1>1, <1>3, <1>4, <1>5, <1>6, <1>7 DEF Good, a, u

LEMMA GoodLater ==
    ASSUME NEW n \in Nat, NEW v, Good(v, n, {})
    PROVE  Good(v, n + 1, {})
<1>1. \A x : x \in 1..n => x \in 1..(n + 1)
  OBVIOUS
<1>2. NotNewer(v, n)
  BY DEF Good
<1>3. NotNewer(v, n + 1)
  BY <1>1, <1>2 DEF NotNewer
<1> QED BY <1>3 DEF Good

LEMMA VacantGood ==
    ASSUME NEW n \in Nat
    PROVE  /\ Good(Vacant, n, {}) /\ PanesOf(Vacant) = {}
           /\ Vacant.state = "open" /\ Vacant.deferred = None
           /\ ~Vacant.quit /\ ~Vacant.approved
<1> DEFINE f == [p \in {} |-> 0]
<1>1. f \in [{} -> PaneRecords] /\ {} \in SUBSET Panes /\ DOMAIN f = {}
  OBVIOUS
<1>2. f \in UNION {[S -> PaneRecords] : S \in SUBSET Panes}
  BY <1>1
<1>3. Vacant = [panes |-> f,
           pending |-> None, deferred |-> None, state |-> "open",
           waiting |-> {}, publish |-> FALSE, quit |-> FALSE,
           approved |-> FALSE]
  BY DEF Vacant
<1> HIDE DEF f
<1>4. None \in Pendings /\ None \in Deferrals
  BY DEF Pendings, Deferrals
<1>5. Vacant \in Workspaces
  BY <1>2, <1>3, <1>4 DEF Workspaces
<1>6. /\ Vacant.panes = f /\ Vacant.pending = None /\ Vacant.deferred = None
      /\ Vacant.state = "open" /\ Vacant.waiting = {} /\ ~Vacant.publish
      /\ ~Vacant.quit /\ ~Vacant.approved
  BY <1>3
<1>7. PanesOf(Vacant) = {}
  BY <1>1, <1>6 DEF PanesOf
<1> QED BY <1>5, <1>6, <1>7
     DEF Good, NotNewer, RemovalOK, ShutOK, ClosingOK, DialogOK, None

\* A pane is created, in a tab that is not about to be removed.
LEMMA WithPaneGood ==
    ASSUME NEW n \in Nat, n + 1 \in Panes, NEW v, Good(v, n, {}),
           NEW t \in 1..(n + 1),
           v.deferred.kind = "tabs" => t \notin v.deferred.targets
    PROVE  LET u == WithPane(v, n + 1, t)
           IN /\ Good(u, n + 1, {}) /\ PanesOf(u) = PanesOf(v) \cup {n + 1}
              /\ Spares(v, u, {}) /\ SameButPanes(v, u)
<1> DEFINE p == n + 1
           S == PanesOf(v) \cup {p}
           r == [tab |-> t, asks |-> FALSE, shut |-> FALSE, exiting |-> FALSE,
                 life |-> "running"]
           f == [q \in S |-> IF q \in PanesOf(v) THEN v.panes[q] ELSE r]
           u == WithPane(v, p, t)
<1>0. v \in Workspaces /\ NotNewer(v, n) /\ RemovalOK(v) /\ ClosingOK(v, {}) /\ DialogOK(v)
  BY DEF Good
<1>1. /\ p \notin 1..n /\ p \in Panes /\ t \in Panes /\ t \in 1..p /\ p \in 1..p
      /\ \A x \in 1..n : x \in 1..p
  BY WindowAssumption DEF Panes
<1>2. r \in PaneRecords /\ r.tab = t /\ ~r.shut /\ ~r.asks
  BY <1>1 DEF PaneRecords
<1> HIDE DEF r
<1>3. f \in [S -> PaneRecords] /\ S \in SUBSET Panes
  <2>1. \A q \in PanesOf(v) : q \in Panes /\ v.panes[q] \in PaneRecords
    BY <1>0, PaneShape
  <2> HIDE DEF p
  <2> QED BY <1>1, <1>2, <2>1
<1>4. u = [v EXCEPT !.panes = f]
  BY DEF WithPane, r
<1>5. /\ p \notin PanesOf(v) /\ p \notin v.waiting
      /\ f[p] = r /\ \A q \in PanesOf(v) : f[q] = v.panes[q]
  <2>1. p \notin PanesOf(v) /\ p \notin v.waiting
    BY <1>0, <1>1 DEF NotNewer
  <2> HIDE DEF p
  <2> QED BY <2>1
<1>6. p \in S /\ S = PanesOf(v) \cup {p}
  OBVIOUS
<1> HIDE DEF f, u, p, S
<1>7. u \in Workspaces /\ u.panes = f /\ PanesOf(u) = S /\ SameButPanes(v, u)
  BY <1>0, <1>3, <1>4, NewPanes
<1>8. NotNewer(u, p)
  <2>1. \A q \in S : q \in 1..p /\ u.panes[q].tab \in 1..p
    BY <1>0, <1>1, <1>2, <1>5, <1>6, <1>7 DEF NotNewer
  <2>2. \A x \in u.waiting : x \in 1..p
    BY <1>0, <1>1, <1>7 DEF NotNewer, SameButPanes
  <2>3. u.deferred.kind = "tabs" => \A x \in u.deferred.targets : x \in 1..p
    BY <1>0, <1>1, <1>7 DEF NotNewer, SameButPanes
  <2> QED BY <1>7, <2>1, <2>2, <2>3 DEF NotNewer
<1>9. RemovalOK(u)
  <2>1. u.deferred = v.deferred /\ u.state = v.state
    BY <1>7 DEF SameButPanes
  <2>2. \A q \in S : q = p \/ (q \in PanesOf(v) /\ u.panes[q] = v.panes[q])
    BY <1>5, <1>6, <1>7
  <2>3. ~u.panes[p].shut /\ u.panes[p].tab = t
    BY <1>2, <1>5, <1>7
  <2>4. ShutOK(u)
    BY <1>0, <1>7, <2>1, <2>2, <2>3 DEF RemovalOK, ShutOK
  <2>5. v.deferred.kind = "pane" =>
          LET q == v.deferred.pane
          IN q \in PanesOf(u) /\ u.panes[q].exiting /\ u.panes[q].shut
    BY <1>0, <1>5, <1>6, <1>7 DEF RemovalOK
  <2>6. v.deferred.kind = "tabs" =>
          /\ \A q \in v.deferred.waiting : q \in PanesOf(u) /\ u.panes[q].exiting
          /\ \A q \in PanesIn(u, v.deferred.targets) : u.panes[q].shut
    <3>1. ASSUME v.deferred.kind = "tabs", NEW q \in PanesIn(u, v.deferred.targets)
          PROVE  u.panes[q].shut
      <4>1. q \in S /\ u.panes[q].tab \in v.deferred.targets
        BY <1>7 DEF PanesIn
      <4>2. q \in PanesIn(v, v.deferred.targets) /\ u.panes[q] = v.panes[q]
        BY <2>2, <2>3, <3>1, <4>1 DEF PanesIn
      <4> QED BY <1>0, <3>1, <4>2 DEF RemovalOK
    <3>2. v.deferred.kind = "tabs" =>
            \A q \in v.deferred.waiting : q \in PanesOf(u) /\ u.panes[q].exiting
      BY <1>0, <1>5, <1>6, <1>7 DEF RemovalOK
    <3> QED BY <3>1, <3>2
  <2>7. v.deferred.kind = "tabs" => v.deferred.waiting # {}
    BY <1>0 DEF RemovalOK
  <2> QED BY <2>1, <2>4, <2>5, <2>6, <2>7 DEF RemovalOK
<1>10. ClosingOK(u, {})
  <2>1. \A q \in v.waiting : q \in PanesOf(u) => q \in PanesOf(v) /\ u.panes[q] = v.panes[q]
    BY <1>5, <1>6, <1>7
  <2> QED BY <1>0, <1>7, <2>1 DEF ClosingOK, SameButPanes
<1>11. DialogOK(u)
  <2>1. \A x \in TabsOf(v) : x \in TabsOf(u)
    BY <1>5, <1>6, <1>7 DEF TabsOf
  <2> QED BY <1>0, <1>5, <1>6, <1>7, <2>1 DEF DialogOK, SameButPanes
<1>12. Spares(v, u, {})
  BY <1>5, <1>6, <1>7 DEF Spares
<1> QED BY <1>6, <1>7, <1>8, <1>9, <1>10, <1>11, <1>12 DEF Good, u, p

\* A tab leaves with its panes, and another one stays.
LEMMA ReleasedGood ==
    ASSUME NEW n \in Nat, NEW v, Good(v, n, {}), v.state = "open", v.deferred = None,
           NEW t \in TabsOf(v), TabsOf(v) # {t}
    PROVE  LET S == PanesIn(v, {t})
               u == Released(v, S, t)
           IN /\ Good(u, n, {}) /\ Keeps(v, u) /\ Spares(v, u, S)
              /\ PanesOf(u) = PanesOf(v) \ S
<1> DEFINE T == {t}
           S == PanesIn(v, T)
           a == WithoutPane(Without(v, S), S)
           u == WithoutTabs(a, T)
<1>0. v \in Workspaces /\ NotNewer(v, n) /\ RemovalOK(v) /\ ClosingOK(v, {}) /\ DialogOK(v)
  BY DEF Good
<1>1. Released(v, PanesIn(v, {t}), t) = u
  BY DEF Released
<1>2. \A q \in PanesOf(v) : q \in S <=> v.panes[q].tab = t
  BY DEF PanesIn
<1>3. a = WithoutPane(Without(v, S), S)
  OBVIOUS
<1>4. \E q \in PanesOf(v) : v.panes[q].tab # t
  BY DEF TabsOf
<1>5. T = {t} /\ u = WithoutTabs(a, T)
  OBVIOUS
<1>6. S = PanesIn(v, {t})
  OBVIOUS
<1> HIDE DEF S, T, a, u
<1>7. Loose(v, n, {}, S)
  BY <1>0 DEF Loose, RemovalOK, ShutOK, None
<1>8. PanesOf(a) = PanesOf(v) \ S /\ \A q \in PanesOf(a) : a.panes[q] = v.panes[q]
  <2> DEFINE b == Without(v, S)
  <2>1. /\ b \in Workspaces /\ PanesOf(b) = PanesOf(v) \ S
        /\ \A q \in PanesOf(b) : b.panes[q] = v.panes[q]
    BY <1>0, WithoutFields
  <2>2. a = WithoutPane(b, S)
    BY <1>3
  <2> HIDE DEF b
  <2>3. SameButPending(b, a)
    BY <2>1, <2>2, WithoutPaneFields
  <2> QED BY <2>1, <2>3 DEF SameButPending, PanesOf
<1>9. LosesTabs(v, a, T)
  BY <1>2, <1>5, <1>8 DEF LosesTabs, TabsOf
<1>10. /\ a \in Workspaces /\ NotNewer(a, n) /\ RemovalOK(a) /\ ClosingOK(a, {})
       /\ DialogUpTo(a, T) /\ Keeps(v, a) /\ Spares(v, a, S)
  BY <1>3, <1>7, <1>9, RemoveGood
<1>11. PanesOf(a) # {}
  BY <1>2, <1>4, <1>8
<1>12. u = AfterTabs(a, T)
  BY <1>5, <1>11 DEF AfterTabs
<1>13. Good(u, n, {}) /\ Keeps(a, u) /\ Spares(a, u, {})
  BY <1>10, <1>12, AfterTabsGood
<1>14. SameButPending(a, u)
  BY <1>5, <1>10, WithoutTabsFields
<1>15. PanesOf(u) = PanesOf(v) \ S
  BY <1>8, <1>14 DEF SameButPending, PanesOf
<1>16. Keeps(v, u) /\ Spares(v, u, S \cup {})
  BY <1>10, <1>13, KeepsTransitive, SparesTransitive
<1>17. Spares(v, u, S)
  BY <1>16 DEF Spares
<1> QED BY <1>1, <1>6, <1>13, <1>15, <1>16, <1>17

\* The window the panes move to.
ArePanes(S, v) == S \subseteq PanesOf(v)
Received(v, S) == [Vacant EXCEPT !.panes = [p \in S |-> v.panes[p]]]

LEMMA ReceivedGood ==
    ASSUME NEW n \in Nat, NEW v, Good(v, n, {}), v.state = "open", v.deferred = None,
           NEW S, ArePanes(S, v), NEW u, u = Received(v, S)
    PROVE  /\ Good(u, n, {}) /\ PanesOf(u) = S
           /\ ~u.quit /\ ~u.approved /\ u.state = "open"
           /\ \A p \in S : u.panes[p] = v.panes[p]
<1> DEFINE f == [p \in S |-> v.panes[p]]
<1>0. v \in Workspaces /\ NotNewer(v, n) /\ RemovalOK(v)
  BY DEF Good
<1>1. \A p \in S : p \in PanesOf(v) /\ p \in Panes /\ v.panes[p] \in PaneRecords
  BY <1>0, PaneShape DEF ArePanes
<1>2. /\ f \in [S -> PaneRecords] /\ S \in SUBSET Panes
      /\ \A p \in S : f[p] = v.panes[p]
  BY <1>1
<1>3. u = [Vacant EXCEPT !.panes = f]
  BY DEF Received
<1> HIDE DEF f
<1>4. Good(Vacant, n, {})
  BY VacantGood
<1>5. u \in Workspaces /\ u.panes = f /\ PanesOf(u) = S /\ SameButPanes(Vacant, u)
  <2>1. Vacant \in Workspaces
    BY <1>4 DEF Good
  <2> QED BY <1>2, <1>3, <2>1, NewPanes
<1>6. /\ u.pending = None /\ u.deferred = None /\ u.state = "open"
      /\ u.waiting = {} /\ ~u.publish /\ ~u.quit /\ ~u.approved
  BY <1>5 DEF SameButPanes, Vacant
<1>7. \A p \in PanesOf(v) : ~v.panes[p].shut
  BY <1>0 DEF RemovalOK, ShutOK, None
<1>8. NotNewer(u, n)
  BY <1>0, <1>1, <1>2, <1>5, <1>6 DEF NotNewer, None
<1>9. RemovalOK(u)
  BY <1>1, <1>2, <1>5, <1>6, <1>7 DEF RemovalOK, ShutOK, None
<1>10. ClosingOK(u, {}) /\ DialogOK(u)
  BY <1>6 DEF ClosingOK, DialogOK, None
<1> QED BY <1>2, <1>5, <1>6, <1>8, <1>9, <1>10 DEF Good

-----------------------------------------------------------------------------
(* The invariant holds.                                                    *)

QuitTypes ==
    [state : {"idle", "awaiting", "closing"}, host : 0..MaxWindows,
     awaiting : SUBSET Windows, rehost : BOOLEAN]
LifeTypes == [timer : BOOLEAN, hasOpen : BOOLEAN, requested : BOOLEAN]
Counted ==
    created \in 0..MaxPanes /\ opened \in 0..MaxWindows /\ lost \in 0..MaxLost

LEMMA Parts ==
    IInv <=> /\ WindowsOK /\ quit \in QuitTypes /\ life \in LifeTypes /\ Counted
             /\ HostOK /\ LifetimeOK
BY DEF IInv, TypeOK, WindowsOK, Houses, Apart, QuitTypes, LifeTypes, Counted, Stages

LEMMA PartsNext ==
    ASSUME WindowsOK', quit' \in QuitTypes, life' \in LifeTypes, Counted',
           HostOK', LifetimeOK'
    PROVE  IInv'
BY DEF IInv, TypeOK, WindowsOK, Houses, Apart, QuitTypes, LifeTypes, Counted, Stages

\* A workspace that is there is replaced by one with no other panes.
LEMMA OneHouse ==
    ASSUME NEW v, NEW s, NEW n, NEW o, Houses(v, s, n, o), NEW w \in Windows,
           s[w] \in {"shown", "retiring"},
           NEW u, Good(u, n, {}), PanesOf(u) \subseteq PanesOf(v[w]),
           v[w].state = "published" => u.state = "published",
           NEW t, t = [v EXCEPT ![w] = u]
    PROVE  Houses(t, s, n, o)
<1>1. /\ t \in [Windows -> Workspaces] /\ t[w] = u
      /\ \A x \in Windows \ {w} : t[x] = v[x]
  BY DEF Houses, Good
<1>2. \A x \in Windows : PanesOf(t[x]) \subseteq PanesOf(v[x])
  BY <1>1
<1>3. Apart(t)
  BY <1>2 DEF Apart, Houses
<1> QED BY <1>1, <1>3 DEF Houses

\* Every window is forced to close.
LEMMA ForcedHouses ==
    ASSUME NEW v, NEW s, NEW n \in Nat, NEW o, Houses(v, s, n, o), NEW R,
           \A w \in R : s[w] \in {"shown", "retiring"},
           NEW t, t = [w \in Windows |-> IF w \in R /\ ~Published(v, w)
                                         THEN ForceShutdown(v[w]) ELSE v[w]]
    PROVE  Houses(t, s, n, o)
<1>1. ASSUME NEW w \in Windows
      PROVE  /\ t[w] \in Workspaces /\ Good(t[w], n, {})
             /\ PanesOf(t[w]) \subseteq PanesOf(v[w])
             /\ v[w].state = "published" => t[w].state = "published"
             /\ w \notin R => t[w] = v[w]
  <2>1. Good(v[w], n, {})
    BY DEF Houses
  <2>2. /\ Good(ForceShutdown(v[w]), n, {})
        /\ PanesOf(ForceShutdown(v[w])) \subseteq PanesOf(v[w])
        /\ ForceShutdown(v[w]).state = "published" <=> v[w].state = "published"
    BY <2>1, ForceShutdownGood
  <2>3. Good(t[w], n, {}) => t[w] \in Workspaces
    BY DEF Good
  <2>4. t[w] = IF w \in R /\ ~Published(v, w) THEN ForceShutdown(v[w]) ELSE v[w]
    OBVIOUS
  <2> QED BY <2>1, <2>2, <2>3, <2>4
<1>2. t \in [Windows -> Workspaces]
  <2>1. t = [w \in Windows |-> t[w]]
    OBVIOUS
  <2> QED BY <1>1, <2>1
<1>3. Apart(t)
  BY <1>1 DEF Apart, Houses
<1>4. ASSUME NEW w \in Windows
      PROVE  /\ Good(t[w], n, {})
             /\ s[w] = "absent" <=> w > o
             /\ s[w] \in {"absent", "gone"} => t[w] = Vacant
             /\ s[w] = "retiring" => t[w].state = "published"
  BY <1>1 DEF Houses
<1> QED BY <1>2, <1>3, <1>4 DEF Houses

LEMMA RegisteredStage ==
    ASSUME NEW w \in Registered
    PROVE  w \in Windows /\ stage[w] \in {"shown", "retiring"} /\ w # NoHost
BY QuitAssumption DEF Registered, Windows, NoHost

LEMMA ShutdownInvariant ==
    ASSUME IInv, NEW v, NEW q \in QuitTypes, BeginShutdown(q, v),
           Houses(v, stage', created, opened), Registered' = Registered,
           UNCHANGED counters
    PROVE  IInv'
<1>1. UNCHANGED <<created, opened, lost>>
  BY DEF counters
<1>2. created \in Nat /\ Counted'
  BY <1>1, Parts DEF Counted
<1>3. WindowsOK'
  <2>1. \A w \in Registered : stage'[w] \in {"shown", "retiring"}
    BY DEF Registered
  <2>2. ws' = [w \in Windows |-> IF w \in Registered /\ ~Published(v, w)
                                 THEN ForceShutdown(v[w]) ELSE v[w]]
    BY DEF BeginShutdown
  <2>3. Houses(ws', stage', created, opened)
    BY <1>2, <2>1, <2>2, ForcedHouses
  <2> QED BY <1>1, <2>3 DEF WindowsOK
<1>4. quit' \in QuitTypes /\ quit'.state = "closing"
  <2>1. Awaited(v) \in SUBSET Windows
    BY DEF Awaited, Registered
  <2>2. quit' = [q EXCEPT !.state = "closing", !.host = NoHost, !.awaiting = Awaited(v)]
    BY DEF BeginShutdown
  <2>3. NoHost \in 0..MaxWindows
    BY QuitAssumption DEF NoHost
  <2> QED BY <2>1, <2>2, <2>3 DEF QuitTypes
<1>5. life' \in LifeTypes /\ LifetimeOK'
  <2>1. /\ life' = life
        \/ /\ life' = [life EXCEPT !.requested = TRUE, !.timer = FALSE]
           /\ Registered = {}
    BY DEF BeginShutdown, FinishIfReady, RequestedNow
  <2>2. life \in LifeTypes /\ LifetimeOK
    BY Parts
  <2> QED BY <2>1, <2>2 DEF LifeTypes, LifetimeOK
<1>6. HostOK'
  BY <1>4 DEF HostOK
<1> QED BY <1>2, <1>3, <1>4, <1>5, <1>6, PartsNext

LEMMA EventInvariant ==
    ASSUME IInv, NEW w \in Registered, NEW v, Event(w, v),
           Good(v, created, {}), Keeps(ws[w], v)
    PROVE  IInv'
<1> DEFINE t == [ws EXCEPT ![w] = v]
<1>1. UNCHANGED <<stage, created, opened, lost>> /\ UNCHANGED counters
  BY DEF Event, counters
<1>2. /\ w \in Windows /\ stage[w] \in {"shown", "retiring"}
      /\ Registered' = Registered
  BY <1>1, RegisteredStage DEF Registered
<1>3. /\ WindowsOK /\ quit \in QuitTypes /\ life \in LifeTypes /\ Counted
      /\ HostOK /\ LifetimeOK
  BY Parts
<1>4. t[w] = v /\ \A x \in Windows \ {w} : t[x] = ws[x]
  BY <1>2, <1>3 DEF WindowsOK, Houses
<1>5. Houses(t, stage, created, opened)
  <2>1. /\ Houses(ws, stage, created, opened)
        /\ PanesOf(v) \subseteq PanesOf(ws[w])
        /\ ws[w].state = "published" => v.state = "published"
    BY <1>3 DEF WindowsOK, Keeps
  <2>2. t = [ws EXCEPT ![w] = v]
    OBVIOUS
  <2> HIDE DEF t
  <2> QED BY <1>2, <2>1, <2>2, OneHouse
<1>6. CASE /\ t[w].approved /\ ~ws[w].approved
           /\ quit.state = "awaiting" /\ quit.host = w
  <2>1. BeginShutdown(quit, t)
    BY <1>6 DEF Event, Settle
  <2>2. Houses(t, stage', created, opened)
    BY <1>1, <1>5
  <2> HIDE DEF t
  <2> QED BY <1>1, <1>2, <1>3, <2>1, <2>2, ShutdownInvariant
<1>7. CASE ~(/\ t[w].approved /\ ~ws[w].approved
             /\ quit.state = "awaiting" /\ quit.host = w)
  <2>1. ws' = t /\ UNCHANGED <<quit, life>>
    BY <1>7 DEF Event, Settle
  <2> HIDE DEF t
  <2>2. WindowsOK'
    BY <1>1, <1>5, <2>1 DEF WindowsOK
  <2>3. Counted' /\ LifetimeOK'
    BY <1>1, <1>2, <1>3, <2>1 DEF Counted, LifetimeOK
  <2>4. HostOK'
    <3>1. ASSUME NEW x \in Windows, ws'[x].quit
          PROVE  quit.state = "closing" \/ (quit.state = "awaiting" /\ quit.host = x)
      BY <1>3, <1>4, <2>1, <3>1 DEF HostOK, Keeps
    <3>2. ASSUME NEW x \in Windows, ws'[x].approved
          PROVE  quit.state = "closing"
      BY <1>2, <1>3, <1>4, <1>7, <2>1, <3>2 DEF HostOK, Keeps
    <3>3. ASSUME quit.state = "awaiting", ~(quit.host = NoHost /\ quit.rehost)
          PROVE  /\ quit.host \in Registered /\ ws'[quit.host].quit
                 /\ \/ ws'[quit.host].pending.kind = "window"
                    \/ ws'[quit.host].state = "committed"
      <4>1. /\ quit.host \in Registered /\ ws[quit.host].quit
            /\ \/ ws[quit.host].pending.kind = "window"
               \/ ws[quit.host].state = "committed"
        BY <1>3, <3>3 DEF HostOK
      <4>2. quit.host \in Windows
        BY <4>1, RegisteredStage
      <4> QED BY <1>4, <2>1, <4>1, <4>2 DEF Keeps
    <3> QED BY <1>2, <2>1, <3>1, <3>2, <3>3 DEF HostOK
  <2> QED BY <1>3, <2>1, <2>2, <2>3, <2>4, PartsNext
<1> QED BY <1>6, <1>7

\* The workspace of a window that is registered, and the pane of one.
LEMMA Workspace ==
    ASSUME IInv, NEW w \in Registered
    PROVE  /\ w \in Windows /\ created \in Nat /\ Good(ws[w], created, {})
           /\ ws[w] \in Workspaces
BY Parts, RegisteredStage DEF WindowsOK, Houses, Counted, Good

\* Requests and reports that are events of one workspace: what they make of it.
LEMMA ClosePaneEvent ==
    ASSUME IInv, NEW w, NEW p, RequestClosePane(w, p)
    PROVE  \E v : /\ Event(w, v) /\ w \in Registered /\ Good(v, created, {})
                  /\ Keeps(ws[w], v) /\ Spares(ws[w], v, {})
<1>1. /\ w \in Registered /\ ws[w].state = "open" /\ ws[w].deferred = None
      /\ p \in PanesOf(ws[w]) /\ Event(w, ClosePane(ws[w], p))
  BY DEF RequestClosePane, Accepts
<1>2. created \in Nat /\ Good(ws[w], created, {})
  BY <1>1, Workspace
<1>3. /\ Good(ClosePane(ws[w], p), created, {}) /\ Keeps(ws[w], ClosePane(ws[w], p))
      /\ Spares(ws[w], ClosePane(ws[w], p), {})
  BY <1>1, <1>2, ClosePaneGood
<1> QED BY <1>1, <1>3

LEMMA CloseTabsEvent ==
    ASSUME IInv, NEW w, NEW t, NEW mode \in Modes, RequestCloseTabs(w, t, mode)
    PROVE  \E v : /\ Event(w, v) /\ w \in Registered /\ Good(v, created, {})
                  /\ Keeps(ws[w], v) /\ Spares(ws[w], v, {})
<1>1. /\ w \in Registered /\ ws[w].state = "open" /\ ws[w].deferred = None
      /\ t \in TabsOf(ws[w]) /\ Event(w, CloseTabs(ws[w], t, mode))
  BY DEF RequestCloseTabs, Accepts
<1>2. created \in Nat /\ Good(ws[w], created, {})
  BY <1>1, Workspace
<1>3. /\ Good(CloseTabs(ws[w], t, mode), created, {})
      /\ Keeps(ws[w], CloseTabs(ws[w], t, mode))
      /\ Spares(ws[w], CloseTabs(ws[w], t, mode), {})
  BY <1>1, <1>2, CloseTabsGood
<1> QED BY <1>1, <1>3

LEMMA CloseWindowEvent ==
    ASSUME IInv, NEW w, RequestCloseWindow(w)
    PROVE  \E v : /\ Event(w, v) /\ w \in Registered /\ Good(v, created, {})
                  /\ Keeps(ws[w], v) /\ Spares(ws[w], v, {})
<1> DEFINE no == FALSE
           u == RequestClose(ws[w], no, no)
<1>1. w \in Registered /\ Event(w, u) /\ no \in BOOLEAN /\ ~no
  BY DEF RequestCloseWindow
<1>2. created \in Nat /\ Good(ws[w], created, {})
  BY <1>1, Workspace
<1> HIDE DEF no
<1>3. /\ Good(u, created, {}) /\ (~no => Keeps(ws[w], u))
      /\ (~no \/ no => Spares(ws[w], u, {}))
  BY <1>1, <1>2, RequestCloseGood
<1> HIDE DEF u
<1> QED BY <1>1, <1>3

LEMMA TransitionEvent ==
    ASSUME IInv, NEW w, NEW p, TransitionEnds(w, p)
    PROVE  \E v : /\ Event(w, v) /\ w \in Registered /\ Good(v, created, {})
                  /\ Keeps(ws[w], v) /\ Spares(ws[w], v, {})
<1>1. /\ w \in Registered /\ p \in PanesOf(ws[w])
      /\ Event(w, EndTransition(ws[w], p))
  BY DEF TransitionEnds
<1>2. created \in Nat /\ Good(ws[w], created, {})
  BY <1>1, Workspace
<1>3. /\ Good(EndTransition(ws[w], p), created, {})
      /\ Keeps(ws[w], EndTransition(ws[w], p))
      /\ Spares(ws[w], EndTransition(ws[w], p), {})
  BY <1>1, <1>2, EndTransitionGood
<1> QED BY <1>1, <1>3

LEMMA ConfirmEvent ==
    ASSUME IInv, NEW w, Confirm(w)
    PROVE  \E v : /\ Event(w, v) /\ w \in Registered /\ Good(v, created, {})
                  /\ Keeps(ws[w], v) /\ Spares(ws[w], v, Covered(ws[w]))
<1>1. w \in Registered /\ ws[w].pending # None /\ Event(w, Perform(ws[w]))
  BY DEF Confirm
<1>2. created \in Nat /\ Good(ws[w], created, {})
  BY <1>1, Workspace
<1>3. /\ Good(Perform(ws[w]), created, {}) /\ Keeps(ws[w], Perform(ws[w]))
      /\ Spares(ws[w], Perform(ws[w]), Covered(ws[w]))
  BY <1>1, <1>2, PerformGood
<1> QED BY <1>1, <1>3

LEMMA ChangesEvent ==
    ASSUME IInv, NEW w, NEW p, Changes(w, p)
    PROVE  \E v : /\ Event(w, v) /\ w \in Registered /\ Good(v, created, {})
                  /\ Keeps(ws[w], v) /\ Spares(ws[w], v, {p})
<1> DEFINE o == ws[w]
           r == [o.panes[p] EXCEPT !.asks = ~@]
           a == [o EXCEPT !.panes = [o.panes EXCEPT ![p] = r]]
           u == Reevaluate(a)
<1>1. w \in Registered /\ p \in PanesOf(o) /\ Event(w, u)
  BY DEF Changes
<1>2. created \in Nat /\ Good(o, created, {}) /\ o \in Workspaces
  BY <1>1, Workspace
<1>3. /\ r \in PaneRecords /\ r.tab = o.panes[p].tab /\ r.shut = o.panes[p].shut
      /\ r.exiting = o.panes[p].exiting
  <2>1. o.panes[p] \in PaneRecords
    BY <1>1, <1>2, PaneShape
  <2> QED BY <2>1 DEF PaneRecords
<1> HIDE DEF o, r
<1>4. Good(a, created, {}) /\ Keeps(o, a) /\ Spares(o, a, {p})
  BY <1>1, <1>2, <1>3, PaneReports
<1> HIDE DEF a
<1>5. Good(u, created, {}) /\ Keeps(a, u) /\ Spares(a, u, {})
  BY <1>2, <1>4, ReevaluateGood
<1> HIDE DEF u
<1>6. Keeps(o, u) /\ Spares(o, u, {p} \cup {})
  BY <1>4, <1>5, KeepsTransitive, SparesTransitive
<1>7. Spares(o, u, {p})
  BY <1>6 DEF Spares
<1> QED BY <1>1, <1>5, <1>6, <1>7 DEF o

LEMMA ExitsEvent ==
    ASSUME IInv, NEW w, NEW p, Exits(w, p)
    PROVE  \E v : /\ Event(w, v) /\ w \in Registered /\ Good(v, created, {})
                  /\ Keeps(ws[w], v) /\ Spares(ws[w], v, {p})
<1> DEFINE o == ws[w]
<1>1. PICK asks \in {FALSE, o.panes[p].asks} :
        Event(w, Reevaluate([o EXCEPT !.panes[p].asks = asks,
                                      !.panes[p].life = "posted"]))
  BY DEF Exits
<1>2. w \in Registered /\ p \in PanesOf(o)
  BY DEF Exits
<1>3. created \in Nat /\ Good(o, created, {}) /\ o \in Workspaces
  BY <1>2, Workspace
<1> DEFINE r == [o.panes[p] EXCEPT !.asks = asks, !.life = "posted"]
           a == [o EXCEPT !.panes = [o.panes EXCEPT ![p] = r]]
           b == [o EXCEPT !.panes[p].asks = asks, !.panes[p].life = "posted"]
           u == Reevaluate(a)
<1>4. o.panes[p] \in PaneRecords /\ o.panes \in [PanesOf(o) -> PaneRecords]
  BY <1>2, <1>3, PaneShape, Shape
<1>5. asks \in BOOLEAN
  BY <1>4 DEF PaneRecords
<1>6. /\ r \in PaneRecords /\ r.tab = o.panes[p].tab /\ r.shut = o.panes[p].shut
      /\ r.exiting = o.panes[p].exiting
  BY <1>4, <1>5 DEF PaneRecords
<1>7. a = b
  <2> HIDE DEF o
  <2>1. o \in Workspaces
    BY <1>3
  <2>2. o = [o EXCEPT !.panes = @]
    BY <2>1 DEF Workspaces
  <2> QED BY <1>2, <1>4, <2>1 DEF Workspaces, PaneRecords
<1>8. Event(w, u)
  BY <1>1, <1>7
<1> HIDE DEF o, r
<1>9. Good(a, created, {}) /\ Keeps(o, a) /\ Spares(o, a, {p})
  BY <1>2, <1>3, <1>6, PaneReports
<1> HIDE DEF a
<1>10. Good(u, created, {}) /\ Keeps(a, u) /\ Spares(a, u, {})
  BY <1>3, <1>9, ReevaluateGood
<1> HIDE DEF u
<1>11. Keeps(o, u) /\ Spares(o, u, {p} \cup {})
  BY <1>9, <1>10, KeepsTransitive, SparesTransitive
<1>12. Spares(o, u, {p})
  BY <1>11 DEF Spares
<1> QED BY <1>2, <1>8, <1>10, <1>11, <1>12 DEF o

LEMMA PostedCloseEvent ==
    ASSUME IInv, NEW w, NEW p, PostedClose(w, p)
    PROVE  \E v : /\ Event(w, v) /\ w \in Registered /\ Good(v, created, {})
                  /\ Keeps(ws[w], v) /\ Spares(ws[w], v, {})
<1> DEFINE o == ws[w]
           r == [o.panes[p] EXCEPT !.life = "ended"]
           a == [o EXCEPT !.panes = [o.panes EXCEPT ![p] = r]]
<1>1. /\ w \in Registered /\ p \in PanesOf(o)
      /\ Event(w, IF Accepts(w) THEN ClosePane(a, p) ELSE a)
  BY DEF PostedClose
<1>2. created \in Nat /\ Good(o, created, {}) /\ o \in Workspaces
  BY <1>1, Workspace
<1>3. /\ r \in PaneRecords /\ r.tab = o.panes[p].tab /\ r.shut = o.panes[p].shut
      /\ r.exiting = o.panes[p].exiting
  <2>1. o.panes[p] \in PaneRecords
    BY <1>1, <1>2, PaneShape
  <2> QED BY <2>1 DEF PaneRecords
<1>8. r.asks = o.panes[p].asks
  <2>1. o.panes[p] \in PaneRecords
    BY <1>1, <1>2, PaneShape
  <2> QED BY <2>1 DEF PaneRecords
<1>4. Accepts(w) => o.state = "open" /\ o.deferred = None
  BY DEF Accepts
<1> HIDE DEF o, r
<1>5. /\ Good(a, created, {}) /\ Keeps(o, a) /\ Spares(o, a, {})
      /\ PanesOf(a) = PanesOf(o) /\ SameButPanes(o, a)
  <2>1. Good(a, created, {}) /\ Keeps(o, a) /\ Spares(o, a, {p}) /\ Reported(o, a, p, r)
    BY <1>1, <1>2, <1>3, PaneReports
  <2> QED BY <1>8, <2>1 DEF Reported
<1> HIDE DEF a
<1>6. CASE Accepts(w)
  <2> DEFINE u == ClosePane(a, p)
  <2>1. p \in PanesOf(a) /\ a.state = "open" /\ a.deferred = None
    BY <1>1, <1>4, <1>5, <1>6 DEF SameButPanes
  <2>2. Good(u, created, {}) /\ Keeps(a, u) /\ Spares(a, u, {})
    BY <1>2, <1>5, <2>1, ClosePaneGood
  <2>3. Event(w, u)
    BY <1>1, <1>6
  <2> HIDE DEF u
  <2>4. Keeps(o, u) /\ Spares(o, u, {} \cup {})
    BY <1>5, <2>2, KeepsTransitive, SparesTransitive
  <2>5. Spares(o, u, {})
    BY <2>4
  <2> QED BY <1>1, <2>2, <2>3, <2>4, <2>5 DEF o
<1>7. CASE ~Accepts(w)
  BY <1>1, <1>5, <1>7 DEF o
<1> QED BY <1>6, <1>7

\* The steps that change one workspace otherwise.
LEMMA FreshPane ==
    ASSUME IInv, NEW w \in Registered, CanCreatePane, NEW t \in 1..(created + 1),
           ws[w].deferred.kind = "tabs" => t \notin ws[w].deferred.targets,
           ws' = [ws EXCEPT ![w] = WithPane(@, created + 1, t)],
           created' = created + 1, UNCHANGED <<quit, life, stage, opened, lost>>
    PROVE  /\ IInv'
           /\ \A x \in Windows : Spares(ws[x], ws'[x], {})
<1> DEFINE u == WithPane(ws[w], created + 1, t)
<1>1. /\ w \in Windows /\ created \in Nat /\ Good(ws[w], created, {})
      /\ Registered' = Registered /\ stage[w] \in {"shown", "retiring"}
  BY Workspace, RegisteredStage DEF Registered
<1>2. /\ WindowsOK /\ quit \in QuitTypes /\ life \in LifeTypes /\ Counted
      /\ HostOK /\ LifetimeOK
  BY Parts
<1>3. created + 1 \in Panes
  BY <1>1, WindowAssumption DEF Panes, CanCreatePane
<1>4. /\ Good(u, created + 1, {}) /\ PanesOf(u) = PanesOf(ws[w]) \cup {created + 1}
      /\ Spares(ws[w], u, {}) /\ SameButPanes(ws[w], u)
  BY <1>1, <1>3, WithPaneGood
<1>5. ws' = [ws EXCEPT ![w] = u]
  OBVIOUS
<1> HIDE DEF u
<1>6. ws'[w] = u /\ \A x \in Windows \ {w} : ws'[x] = ws[x]
  BY <1>1, <1>2, <1>5 DEF WindowsOK, Houses
<1>7. WindowsOK'
  <2>1. \A x \in Windows : Good(ws'[x], created + 1, {})
    <3>1. \A x \in Windows : Good(ws[x], created + 1, {})
      BY <1>1, <1>2, GoodLater DEF WindowsOK, Houses
    <3> QED BY <1>4, <1>6, <3>1
  <2>2. ws' \in [Windows -> Workspaces]
    BY <1>2, <1>4, <1>5 DEF WindowsOK, Houses, Good
  <2>3. Apart(ws')
    <3>1. \A x \in Windows : created + 1 \notin PanesOf(ws[x])
      <4>1. \A x \in Windows : PanesOf(ws[x]) \subseteq 1..created
        BY <1>2 DEF WindowsOK, Houses, Good, NotNewer
      <4>2. created + 1 \notin 1..created
        BY <1>1
      <4> QED BY <4>1, <4>2
    <3>2. \A x, y \in Windows : x # y => PanesOf(ws[x]) \cap PanesOf(ws[y]) = {}
      BY <1>2 DEF WindowsOK, Houses, Apart
    <3>3. PanesOf(ws'[w]) = PanesOf(ws[w]) \cup {created + 1}
      BY <1>4, <1>6
    <3>4. ASSUME NEW x \in Windows, NEW y \in Windows, x # y
          PROVE  PanesOf(ws'[x]) \cap PanesOf(ws'[y]) = {}
      <4>1. CASE x = w
        BY <1>6, <3>1, <3>2, <3>3, <3>4, <4>1
      <4>2. CASE y = w
        BY <1>6, <3>1, <3>2, <3>3, <3>4, <4>2
      <4>3. CASE x # w /\ y # w
        BY <1>6, <3>2, <3>4, <4>3
      <4> QED BY <4>1, <4>2, <4>3
    <3> QED BY <3>4 DEF Apart
  <2>4. \A x \in Windows : /\ stage[x] = "absent" <=> x > opened
                           /\ stage[x] \in {"absent", "gone"} => ws'[x] = Vacant
                           /\ stage[x] = "retiring" => ws'[x].state = "published"
    BY <1>1, <1>2, <1>4, <1>6 DEF WindowsOK, Houses, SameButPanes
  <2> QED BY <1>2, <2>1, <2>2, <2>3, <2>4 DEF WindowsOK, Houses
<1>8. Counted' /\ LifetimeOK'
  BY <1>1, <1>2, <1>3 DEF Counted, LifetimeOK, CanCreatePane, Panes
<1>9. HostOK'
  <2>1. \A x \in Windows : /\ ws'[x].quit = ws[x].quit
                           /\ ws'[x].approved = ws[x].approved
                           /\ ws'[x].pending = ws[x].pending
                           /\ ws'[x].state = ws[x].state
    BY <1>4, <1>6 DEF SameButPanes
  <2>2. \A x \in Registered : x \in Windows
    BY RegisteredStage
  <2> QED BY <1>1, <1>2, <2>1, <2>2 DEF HostOK
<1>10. \A x \in Windows : Spares(ws[x], ws'[x], {})
  BY <1>4, <1>6 DEF Spares
<1> QED BY <1>2, <1>7, <1>8, <1>9, <1>10, PartsNext

LEMMA OpenTabInvariant ==
    ASSUME IInv, NEW w, OpenTab(w) \/ OpenTabRemotely(w)
    PROVE  IInv' /\ \A x \in Windows : Spares(ws[x], ws'[x], {})
<1>1. /\ w \in Registered /\ CanCreatePane /\ created' = created + 1
      /\ ws' = [ws EXCEPT ![w] = WithPane(@, created + 1, created + 1)]
      /\ UNCHANGED <<quit, life, stage, opened, lost>>
  BY DEF OpenTab, OpenTabRemotely, Accepts, Unchanged, NewTab
<1>2. created \in Nat /\ Good(ws[w], created, {})
  BY <1>1, Workspace
<1>3. /\ created + 1 \in 1..(created + 1)
      /\ ws[w].deferred.kind = "tabs" => created + 1 \notin ws[w].deferred.targets
  BY <1>2 DEF Good, NotNewer
<1> QED BY <1>1, <1>3, FreshPane

LEMMA SplitInvariant ==
    ASSUME IInv, NEW w, NEW p, SplitPane(w, p)
    PROVE  IInv' /\ \A x \in Windows : Spares(ws[x], ws'[x], {})
<1> DEFINE t == ws[w].panes[p].tab
<1>1. /\ w \in Registered /\ CanCreatePane /\ created' = created + 1
      /\ ws' = [ws EXCEPT ![w] = WithPane(@, created + 1, t)]
      /\ UNCHANGED <<quit, life, stage, opened, lost>>
      /\ p \in PanesOf(ws[w]) /\ ws[w].deferred = None
  BY DEF SplitPane, Accepts, Unchanged, Split
<1>2. created \in Nat /\ Good(ws[w], created, {})
  BY <1>1, Workspace
<1>3. t \in 1..(created + 1) /\ ws[w].deferred.kind # "tabs"
  <2>1. t \in 1..created
    BY <1>1, <1>2 DEF Good, NotNewer
  <2> QED BY <1>1, <1>2, <2>1 DEF None
<1> HIDE DEF t
<1> QED BY <1>1, <1>3, FreshPane

LEMMA CancelInvariant ==
    ASSUME IInv, NEW w, Cancel(w)
    PROVE  IInv' /\ \A x \in Windows : Spares(ws[x], ws'[x], {})
<1> DEFINE o == ws[w]
           window == o.pending.kind = "window"
           b == o.quit /\ ~window
           a == [o EXCEPT !.pending = None]
           u == [a EXCEPT !.quit = b]
<1>1. /\ w \in Registered /\ o.pending # None
      /\ UNCHANGED <<stage, life, created, opened, lost>>
      /\ quit' = IF window /\ o.quit /\ quit.state = "awaiting" /\ quit.host = w
                 THEN [quit EXCEPT !.state = "idle", !.host = NoHost] ELSE quit
  BY DEF Cancel, counters
<1>2. /\ w \in Windows /\ created \in Nat /\ Good(o, created, {}) /\ o \in Workspaces
      /\ Registered' = Registered /\ stage[w] \in {"shown", "retiring"}
  BY <1>1, Workspace, RegisteredStage DEF Registered
<1>3. /\ WindowsOK /\ quit \in QuitTypes /\ life \in LifeTypes /\ Counted
      /\ HostOK /\ LifetimeOK
  BY Parts
<1>4. ws' = [ws EXCEPT ![w] = u]
  <2>1. ws' = [ws EXCEPT ![w].pending = None, ![w].quit = @ /\ ~window]
    BY DEF Cancel
  <2>2. ws \in [Windows -> Workspaces]
    BY <1>3 DEF WindowsOK, Houses
  <2> QED BY <1>2, <2>1, <2>2
<1>5. b \in BOOLEAN
  BY <1>2, Shape
<1>6. a = [o EXCEPT !.pending = None]
  OBVIOUS
<1>21. u = [a EXCEPT !.quit = b]
  OBVIOUS
<1> HIDE DEF a, u
<1>7. /\ Good(a, created, {}) /\ Spares(o, a, {}) /\ a.pending = None
      /\ SameButPending(o, a) /\ PanesOf(a) = PanesOf(o)
  BY <1>2, <1>6, NoDialogGood
<1>8. b <=> o.quit /\ ~window
  OBVIOUS
<1>9. window => o.pending.kind = "window"
  OBVIOUS
<1>10. ~window => o.pending.kind # "window"
  OBVIOUS
<1> HIDE DEF b, window
<1>11. /\ Good(u, created, {}) /\ Spares(a, u, {}) /\ u.quit = b
       /\ PanesOf(u) = PanesOf(a) /\ u.state = a.state
       /\ u.approved = a.approved
  BY <1>2, <1>5, <1>7, <1>21, IntentGood
<1>12. /\ PanesOf(u) \subseteq PanesOf(o) /\ u.state = o.state
       /\ u.approved = o.approved
  BY <1>7, <1>11 DEF SameButPending
<1>13. Spares(o, u, {})
  <2>1. Spares(o, u, {} \cup {})
    BY <1>7, <1>11, SparesTransitive
  <2> QED BY <2>1
<1>14. o.state = "open"
  BY <1>1, <1>2 DEF Good, DialogOK
<1> HIDE DEF o
<1>15. ws'[w] = u /\ \A x \in Windows \ {w} : ws'[x] = ws[x]
  BY <1>2, <1>3, <1>4 DEF WindowsOK, Houses
<1>16. WindowsOK'
  <2>1. /\ Houses(ws, stage, created, opened) /\ PanesOf(u) \subseteq PanesOf(ws[w])
        /\ ws[w].state = "published" => u.state = "published"
    BY <1>3, <1>12 DEF WindowsOK, o
  <2>2. Houses(ws', stage, created, opened)
    BY <1>2, <1>4, <1>11, <2>1, OneHouse
  <2> QED BY <1>1, <2>2 DEF WindowsOK
<1>17. quit' \in QuitTypes
  <2>1. NoHost \in 0..MaxWindows
    BY QuitAssumption DEF NoHost
  <2> QED BY <1>1, <1>3, <2>1 DEF QuitTypes
<1>18. Counted' /\ LifetimeOK' /\ life' \in LifeTypes
  BY <1>1, <1>2, <1>3 DEF Counted, LifetimeOK
<1>19. HostOK'
  <2>1. CASE window /\ o.quit /\ quit.state = "awaiting" /\ quit.host = w
    <3>1. quit'.state = "idle"
      BY <1>1, <1>3, <2>1 DEF QuitTypes
    <3>2. \A x \in Windows : ~ws'[x].quit
      BY <1>3, <1>8, <1>11, <1>15, <2>1 DEF HostOK
    <3>3. \A x \in Windows : ~ws'[x].approved
      BY <1>2, <1>3, <1>12, <1>15, <2>1 DEF HostOK, o
    <3> QED BY <3>1, <3>2, <3>3 DEF HostOK
  <2>2. CASE ~(window /\ o.quit /\ quit.state = "awaiting" /\ quit.host = w)
    <3>1. quit' = quit
      BY <1>1, <2>2
    <3>2. \A x \in Windows : /\ ws'[x].quit => ws[x].quit
                             /\ ws'[x].approved => ws[x].approved
      BY <1>8, <1>11, <1>12, <1>15 DEF o
    <3>3. quit.state = "awaiting" => quit.host # w
      BY <1>1, <1>3, <1>9, <1>10, <1>14, <2>2, RegisteredStage DEF HostOK, o
    <3>4. \A x \in Registered : x \in Windows
      BY RegisteredStage
    <3> QED BY <1>2, <1>3, <1>15, <3>1, <3>2, <3>3, <3>4 DEF HostOK
  <2> QED BY <2>1, <2>2
<1>20. \A x \in Windows : Spares(ws[x], ws'[x], {})
  BY <1>13, <1>15 DEF Spares, o
<1> QED BY <1>16, <1>17, <1>18, <1>19, <1>20, PartsNext

LEMMA PaneDestroyedInvariant ==
    ASSUME IInv, NEW w, NEW p, PaneDestroyed(w, p)
    PROVE  IInv' /\ \A x \in Windows : Spares(ws[x], ws'[x], {})
<1> DEFINE o == ws[w]
           u == WindowFinished(o, p)
<1>1. /\ w \in Registered /\ p \notin PanesOf(o)
      /\ UNCHANGED <<stage, quit, life, created, opened, lost>>
      /\ ws' = [ws EXCEPT ![w] = u]
  BY DEF PaneDestroyed, counters
<1>2. /\ w \in Windows /\ created \in Nat /\ Good(o, created, {}) /\ o \in Workspaces
      /\ Registered' = Registered /\ stage[w] \in {"shown", "retiring"}
  BY <1>1, Workspace, RegisteredStage DEF Registered
<1>3. /\ WindowsOK /\ quit \in QuitTypes /\ life \in LifeTypes /\ Counted
      /\ HostOK /\ LifetimeOK
  BY Parts
<1>4. Good(o, created, {p})
  BY <1>2 DEF Good, ClosingOK
<1>5. Good(u, created, {}) /\ Keeps(o, u) /\ Spares(o, u, {}) /\ u.panes = o.panes
  BY <1>2, <1>4, WindowFinishedGood
<1>6. u.pending = o.pending /\ u.state = o.state /\ u.quit = o.quit /\ u.approved = o.approved
  BY <1>2 DEF WindowFinished, Workspaces
<1> HIDE DEF u, o
<1>7. ws'[w] = u /\ \A x \in Windows \ {w} : ws'[x] = ws[x]
  BY <1>1, <1>2, <1>3 DEF WindowsOK, Houses
<1>8. WindowsOK'
  <2>1. /\ Houses(ws, stage, created, opened) /\ PanesOf(u) \subseteq PanesOf(ws[w])
        /\ ws[w].state = "published" => u.state = "published"
    BY <1>3, <1>5, <1>6 DEF WindowsOK, o, Keeps
  <2>2. Houses(ws', stage, created, opened)
    BY <1>1, <1>2, <1>5, <2>1, OneHouse
  <2> QED BY <1>1, <2>2 DEF WindowsOK
<1>9. Counted' /\ LifetimeOK' /\ life' \in LifeTypes /\ quit' \in QuitTypes
  BY <1>1, <1>2, <1>3 DEF Counted, LifetimeOK
<1>10. HostOK'
  <2>1. \A x \in Windows : /\ ws'[x].quit = ws[x].quit
                           /\ ws'[x].approved = ws[x].approved
                           /\ ws'[x].pending = ws[x].pending
                           /\ ws'[x].state = ws[x].state
    BY <1>6, <1>7 DEF o
  <2>2. \A x \in Registered : x \in Windows
    BY RegisteredStage
  <2> QED BY <1>1, <1>2, <1>3, <2>1, <2>2 DEF HostOK
<1>11. \A x \in Windows : Spares(ws[x], ws'[x], {})
  BY <1>5, <1>7 DEF Spares, o
<1> QED BY <1>8, <1>9, <1>10, <1>11, PartsNext

\* The steps that add a window, and those that take one away.
LEMMA NewWindow ==
    ASSUME IInv, quit.state = "idle", ~life.requested, opened < MaxWindows,
           NEW new, new = opened + 1,
           ws' \in [Windows -> Workspaces], Apart(ws'),
           \A x \in Windows : Good(ws'[x], created', {}),
           \A x \in Windows \ {new} :
             /\ ws'[x].state = ws[x].state /\ ws'[x].quit = ws[x].quit
             /\ ws'[x].approved = ws[x].approved
             /\ x \notin Registered => ws'[x] = ws[x],
           ~ws'[new].quit, ~ws'[new].approved,
           created' \in 0..MaxPanes, stage' = [stage EXCEPT ![new] = "shown"],
           life' = [life EXCEPT !.hasOpen = TRUE, !.timer = FALSE],
           opened' = new, UNCHANGED <<quit, lost>>
    PROVE  IInv'
<1>1. /\ WindowsOK /\ quit \in QuitTypes /\ life \in LifeTypes /\ Counted
      /\ HostOK /\ LifetimeOK
  BY Parts
<1>2. opened \in Nat /\ new \in Windows /\ \A x \in Windows : x > new <=> x > opened /\ x # new
  BY <1>1, QuitAssumption DEF Counted, Windows
<1>3. /\ stage' \in [Windows -> Stages] /\ stage'[new] = "shown"
      /\ \A x \in Windows \ {new} : stage'[x] = stage[x]
  BY <1>1, <1>2 DEF WindowsOK, Houses, Stages
<1>4. \A x \in Windows : /\ stage'[x] = "absent" <=> x > new
                         /\ stage'[x] \in {"absent", "gone"} => ws'[x] = Vacant
                         /\ stage'[x] = "retiring" => ws'[x].state = "published"
  BY <1>1, <1>2, <1>3 DEF WindowsOK, Houses, Registered
<1>5. WindowsOK'
  BY <1>3, <1>4 DEF WindowsOK, Houses
<1>6. life' \in LifeTypes /\ LifetimeOK'
  BY <1>1 DEF LifeTypes, LifetimeOK
<1>7. Counted'
  BY <1>1, <1>2 DEF Counted, Windows
<1>8. HostOK'
  BY <1>1 DEF HostOK
<1> QED BY <1>1, <1>5, <1>6, <1>7, <1>8, PartsNext

LEMMA NewIsVacant ==
    ASSUME IInv, opened < MaxWindows
    PROVE  /\ opened + 1 \in Windows /\ opened + 1 \notin Registered
           /\ ws[opened + 1] = Vacant /\ created \in Nat
<1>1. WindowsOK /\ Counted
  BY Parts
<1>2. opened \in Nat /\ opened + 1 \in Windows /\ opened + 1 > opened
  BY <1>1, QuitAssumption DEF Counted, Windows
<1>3. stage[opened + 1] = "absent"
  BY <1>1, <1>2 DEF WindowsOK, Houses
<1> QED BY <1>1, <1>2, <1>3 DEF WindowsOK, Houses, Registered, Counted

LEMMA OpenWindowInvariant ==
    ASSUME IInv, OpenWindow
    PROVE  IInv' /\ \A x \in Windows : Spares(ws[x], ws'[x], {})
<1> DEFINE new == opened + 1
           u == WithPane(Vacant, created + 1, created + 1)
<1>1. /\ quit.state = "idle" /\ ~life.requested /\ opened < MaxWindows
      /\ CanCreatePane /\ ws' = [ws EXCEPT ![new] = u]
      /\ stage' = [stage EXCEPT ![new] = "shown"]
      /\ life' = [life EXCEPT !.hasOpen = TRUE, !.timer = FALSE]
      /\ opened' = new /\ created' = created + 1 /\ UNCHANGED <<quit, lost>>
  BY DEF OpenWindow, NewTab
<1>2. WindowsOK /\ Counted
  BY Parts
<1>3. new \in Windows /\ new \notin Registered /\ ws[new] = Vacant /\ created \in Nat
  BY <1>1, NewIsVacant
<1>4. /\ created + 1 \in Panes /\ created + 1 \in 1..(created + 1)
      /\ created' \in 0..MaxPanes
  BY <1>1, <1>2, <1>3, WindowAssumption DEF Panes, CanCreatePane, Counted
<1>5. /\ Good(u, created + 1, {}) /\ PanesOf(u) = {created + 1}
      /\ ~u.quit /\ ~u.approved
  <2>1. /\ Good(Vacant, created, {}) /\ PanesOf(Vacant) = {}
        /\ Vacant.deferred = None /\ ~Vacant.quit /\ ~Vacant.approved
    BY <1>3, VacantGood
  <2>2. Vacant.deferred.kind # "tabs"
    BY <2>1 DEF None
  <2>3. /\ Good(u, created + 1, {}) /\ PanesOf(u) = PanesOf(Vacant) \cup {created + 1}
        /\ Spares(Vacant, u, {}) /\ SameButPanes(Vacant, u)
    BY <1>3, <1>4, <2>1, <2>2, WithPaneGood
  <2> QED BY <2>1, <2>3 DEF SameButPanes
<1> HIDE DEF new, u
<1>6. ws'[new] = u /\ \A x \in Windows \ {new} : ws'[x] = ws[x]
  BY <1>1, <1>2, <1>3 DEF WindowsOK, Houses
<1>7. ws' \in [Windows -> Workspaces]
  BY <1>1, <1>2, <1>5 DEF WindowsOK, Houses, Good
<1>8. Apart(ws')
  <2>1. \A x \in Windows : PanesOf(ws[x]) \subseteq 1..created
    BY <1>2 DEF WindowsOK, Houses, Good, NotNewer
  <2>2. created + 1 \notin 1..created
    BY <1>3
  <2>3. \A x \in Windows : created + 1 \notin PanesOf(ws[x])
    BY <2>1, <2>2
  <2>4. \A x, y \in Windows : x # y => PanesOf(ws[x]) \cap PanesOf(ws[y]) = {}
    BY <1>2 DEF WindowsOK, Houses, Apart
  <2>5. ASSUME NEW x \in Windows, NEW y \in Windows, x # y
        PROVE  PanesOf(ws'[x]) \cap PanesOf(ws'[y]) = {}
    <3>1. CASE x = new
      BY <1>5, <1>6, <2>3, <2>5, <3>1
    <3>2. CASE y = new
      BY <1>5, <1>6, <2>3, <2>5, <3>2
    <3>3. CASE x # new /\ y # new
      BY <1>6, <2>4, <2>5, <3>3
    <3> QED BY <3>1, <3>2, <3>3
  <2> QED BY <2>5 DEF Apart
<1>9. \A x \in Windows : Good(ws'[x], created', {})
  <2>1. \A x \in Windows : Good(ws[x], created + 1, {})
    BY <1>2, <1>3, GoodLater DEF WindowsOK, Houses
  <2> QED BY <1>1, <1>5, <1>6, <2>1
<1>10. IInv'
  <2>1. \A x \in Windows \ {new} :
          /\ ws'[x].state = ws[x].state /\ ws'[x].quit = ws[x].quit
          /\ ws'[x].approved = ws[x].approved
          /\ x \notin Registered => ws'[x] = ws[x]
    BY <1>6
  <2>2. ~ws'[new].quit /\ ~ws'[new].approved
    BY <1>5, <1>6
  <2> QED BY <1>1, <1>4, <1>7, <1>8, <1>9, <2>1, <2>2, NewWindow DEF new
<1>11. \A x \in Windows : Spares(ws[x], ws'[x], {})
  <2>1. PanesOf(ws[new]) = {}
    BY <1>3, VacantGood
  <2> QED BY <1>6, <2>1 DEF Spares
<1> QED BY <1>10, <1>11

LEMMA MoveTabInvariant ==
    ASSUME IInv, NEW w, NEW t, MoveTab(w, t)
    PROVE  /\ IInv'
           /\ \A x \in Windows, p \in Panes : ~Terminated(x, p)
<1> DEFINE o == ws[w]
           S == PanesIn(o, {t})
           new == opened + 1
           u == Released(o, S, t)
           f == [p \in S |-> o.panes[p]]
           r == [Vacant EXCEPT !.panes = f]
<1>1. /\ quit.state = "idle" /\ ~life.requested /\ opened < MaxWindows
      /\ w \in Registered /\ o.state = "open" /\ o.deferred = None
      /\ t \in TabsOf(o) /\ TabsOf(o) # {t}
      /\ ws' = [ws EXCEPT ![w] = u, ![new].panes = f]
      /\ stage' = [stage EXCEPT ![new] = "shown"]
      /\ life' = [life EXCEPT !.hasOpen = TRUE, !.timer = FALSE]
      /\ opened' = new /\ created' = created /\ UNCHANGED <<quit, lost>>
  BY DEF MoveTab, Accepts
<1>2. WindowsOK /\ Counted
  BY Parts
<1>3. new \in Windows /\ new \notin Registered /\ ws[new] = Vacant /\ created \in Nat
  BY <1>1, NewIsVacant
<1>4. w \in Windows /\ w # new /\ Good(o, created, {})
  BY <1>1, <1>3, Workspace
<1>5. /\ Good(u, created, {}) /\ Keeps(o, u) /\ Spares(o, u, S)
      /\ PanesOf(u) = PanesOf(o) \ S
  BY <1>1, <1>3, <1>4, ReleasedGood
<1>6. \A p \in S : p \in PanesOf(o)
  BY DEF PanesIn
<1>7. r = Received(o, S)
  BY DEF Received
<1>8. ws' = [ws EXCEPT ![w] = u, ![new] = r]
  <2> HIDE DEF u, f
  <2> QED BY <1>1, <1>2, <1>3, <1>4 DEF WindowsOK, Houses
<1> HIDE DEF S, new, u, f, r
<1>9. /\ Good(r, created, {}) /\ PanesOf(r) = S
      /\ ~r.quit /\ ~r.approved /\ r.state = "open"
      /\ \A p \in S : r.panes[p] = o.panes[p]
  <2>1. ArePanes(S, o)
    BY <1>6 DEF ArePanes
  <2> QED BY <1>1, <1>3, <1>4, <1>7, <2>1, ReceivedGood
<1> HIDE DEF o
<1>10. /\ ws'[w] = u /\ ws'[new] = r
       /\ \A x \in Windows \ {w, new} : ws'[x] = ws[x]
  BY <1>2, <1>3, <1>4, <1>8 DEF WindowsOK, Houses
<1>11. ws' \in [Windows -> Workspaces]
  BY <1>2, <1>5, <1>8, <1>9 DEF WindowsOK, Houses, Good
<1>12. Apart(ws')
  <2>1. \A x, y \in Windows : x # y => PanesOf(ws[x]) \cap PanesOf(ws[y]) = {}
    BY <1>2 DEF WindowsOK, Houses, Apart
  <2>2. /\ \A x \in Windows \ {new} : PanesOf(ws'[x]) \subseteq PanesOf(ws[x])
        /\ PanesOf(ws'[w]) \cap S = {} /\ PanesOf(ws'[new]) = S
        /\ S \subseteq PanesOf(ws[w])
    BY <1>5, <1>6, <1>9, <1>10 DEF o
  <2>3. ASSUME NEW x \in Windows, NEW y \in Windows, x # y
        PROVE  PanesOf(ws'[x]) \cap PanesOf(ws'[y]) = {}
    <3>1. CASE x = new /\ y = w
      BY <2>2, <3>1
    <3>2. CASE x = new /\ y # w
      BY <1>4, <2>1, <2>2, <2>3, <3>2
    <3>3. CASE y = new /\ x = w
      BY <2>2, <3>3
    <3>4. CASE y = new /\ x # w
      BY <1>4, <2>1, <2>2, <2>3, <3>4
    <3>5. CASE x # new /\ y # new
      BY <2>1, <2>2, <2>3, <3>5
    <3> QED BY <3>1, <3>2, <3>3, <3>4, <3>5
  <2> QED BY <2>3 DEF Apart
<1>13. \A x \in Windows : Good(ws'[x], created', {})
  BY <1>1, <1>2, <1>5, <1>9, <1>10 DEF WindowsOK, Houses
<1>14. IInv'
  <2>1. /\ u.state = "open" /\ u.quit = o.quit /\ u.approved = o.approved
        /\ o.state = "open"
    <3>1. u.state = o.state /\ u.approved = o.approved
      <4>1. u = WithoutTabs(WithoutPane(Without(o, S), S), {t})
        BY DEF u, Released
      <4> DEFINE a == Without(o, S)
                 b == WithoutPane(a, S)
                 c == WithoutTabs(b, {t})
      <4>2. a \in Workspaces /\ SameButPanes(o, a)
        BY <1>4, WithoutFields DEF Good
      <4> HIDE DEF a
      <4>3. b \in Workspaces /\ SameButPending(a, b)
        BY <4>2, WithoutPaneFields
      <4> HIDE DEF b
      <4>4. SameButPending(b, c)
        BY <4>3, WithoutTabsFields
      <4>5. u = c
        BY <4>1 DEF a, b
      <4> HIDE DEF c
      <4> QED BY <4>2, <4>3, <4>4, <4>5 DEF SameButPanes, SameButPending
    <3> QED BY <1>1, <1>5, <3>1 DEF Keeps
  <2>2. \A x \in Windows \ {new} :
          /\ ws'[x].state = ws[x].state /\ ws'[x].quit = ws[x].quit
          /\ ws'[x].approved = ws[x].approved
          /\ x \notin Registered => ws'[x] = ws[x]
    BY <1>1, <1>10, <2>1 DEF o
  <2>3. ~ws'[new].quit /\ ~ws'[new].approved
    BY <1>9, <1>10
  <2>4. created' \in 0..MaxPanes
    BY <1>1, <1>2 DEF Counted
  <2> QED BY <1>1, <1>11, <1>12, <1>13, <2>2, <2>3, <2>4, NewWindow DEF new
<1>15. ASSUME NEW x \in Windows, NEW p \in Panes, Terminated(x, p)
       PROVE  FALSE
  <2>1. /\ x \in Registered /\ p \in PanesOf(ws[x]) /\ ws[x].panes[p].asks
        /\ ~ws[x].panes[p].shut
        /\ \A y \in Windows : p \in PanesOf(ws'[y]) => ws'[y].panes[p].shut
    BY <1>15 DEF Terminated
  <2>2. CASE x # w
    BY <1>3, <1>10, <2>1, <2>2
  <2>3. CASE x = w /\ p \in S
    BY <1>3, <1>9, <1>10, <2>1, <2>3 DEF o
  <2>4. CASE x = w /\ p \notin S
    BY <1>4, <1>5, <1>10, <2>1, <2>4 DEF Spares, o
  <2> QED BY <2>2, <2>3, <2>4
<1> QED BY <1>14, <1>15

LEMMA RetireInvariant ==
    ASSUME IInv, NEW w \in Registered, Retire(w), UNCHANGED <<created, opened>>,
           lost' \in 0..MaxLost
    PROVE  IInv' /\ Registered' = Registered \ {w} /\ quit' = WithoutHost(quit, w)
<1> DEFINE left == Registered \ {w}
<1>1. /\ ws' = [ws EXCEPT ![w] = Vacant] /\ stage' = [stage EXCEPT ![w] = "gone"]
      /\ quit' = WithoutHost(quit, w)
      /\ life' = FinishIfReady(quit', LastClosed(life, left), left)
  BY DEF Retire
<1>2. /\ WindowsOK /\ quit \in QuitTypes /\ life \in LifeTypes /\ Counted
      /\ HostOK /\ LifetimeOK
  BY Parts
<1>3. w \in Windows /\ w # NoHost /\ stage[w] \in {"shown", "retiring"} /\ created \in Nat
  BY RegisteredStage, Workspace
<1>4. /\ ws'[w] = Vacant /\ \A x \in Windows \ {w} : ws'[x] = ws[x]
      /\ stage'[w] = "gone" /\ \A x \in Windows \ {w} : stage'[x] = stage[x]
  BY <1>1, <1>2, <1>3 DEF WindowsOK, Houses
<1>5. Registered' = left
  BY <1>4 DEF Registered
<1>6. /\ Good(Vacant, created, {}) /\ PanesOf(Vacant) = {} /\ Vacant.state = "open"
      /\ ~Vacant.quit /\ ~Vacant.approved
  BY <1>3, VacantGood
<1>7. WindowsOK'
  <2>1. ws' \in [Windows -> Workspaces] /\ stage' \in [Windows -> Stages]
    BY <1>1, <1>2, <1>6 DEF WindowsOK, Houses, Stages, Good
  <2>2. Apart(ws')
    <3>1. \A x \in Windows : PanesOf(ws'[x]) \subseteq PanesOf(ws[x])
      BY <1>4, <1>6
    <3> QED BY <1>2, <3>1 DEF WindowsOK, Houses, Apart
  <2>3. \A x \in Windows : /\ Good(ws'[x], created, {})
                           /\ stage'[x] = "absent" <=> x > opened
                           /\ stage'[x] \in {"absent", "gone"} => ws'[x] = Vacant
                           /\ stage'[x] = "retiring" => ws'[x].state = "published"
    BY <1>2, <1>3, <1>4, <1>6 DEF WindowsOK, Houses
  <2> QED BY <2>1, <2>2, <2>3 DEF WindowsOK, Houses
<1>8. /\ quit' \in QuitTypes /\ quit'.state = quit.state
      /\ quit.state = "awaiting" /\ quit.host = w => quit'.host = NoHost /\ quit'.rehost
      /\ ~(quit.state = "awaiting" /\ quit.host = w) =>
           quit'.host = quit.host /\ quit'.rehost = quit.rehost
  <2>1. NoHost \in 0..MaxWindows
    BY QuitAssumption DEF NoHost
  <2> QED BY <1>1, <1>2, <2>1 DEF QuitTypes, WithoutHost
<1>9. life' \in LifeTypes /\ LifetimeOK'
  <2>1. life.hasOpen /\ ~life.requested
    BY <1>2 DEF LifetimeOK, LifeTypes
  <2>2. CASE left # {}
    <3>1. life' = life
      BY <1>1, <2>2 DEF FinishIfReady, LastClosed
    <3> QED BY <1>2, <2>1, <3>1 DEF LifetimeOK
  <2>3. CASE left = {}
    <3> DEFINE l == LastClosed(life, left)
    <3>1. l \in LifeTypes
      BY <1>2, QuitAssumption DEF LastClosed, LifeTypes
    <3>2. life' = FinishIfReady(quit', l, left)
      BY <1>1
    <3> HIDE DEF l
    <3>3. life' \in LifeTypes
      BY <3>1, <3>2 DEF FinishIfReady, RequestedNow, LifeTypes
    <3> QED BY <1>5, <2>3, <3>3 DEF LifetimeOK
  <2> QED BY <2>2, <2>3
<1>10. Counted'
  BY <1>2 DEF Counted
<1>11. HostOK'
  <2>1. \A x \in Windows : ws'[x].quit => ws[x].quit /\ x # w
    BY <1>4, <1>6
  <2>2. \A x \in Windows : ws'[x].approved => ws[x].approved
    BY <1>4, <1>6
  <2>3. quit'.state = "awaiting" =>
          \/ quit'.host = NoHost /\ quit'.rehost
          \/ /\ quit'.host \in Registered' /\ ws'[quit'.host].quit
             /\ \/ ws'[quit'.host].pending.kind = "window"
                \/ ws'[quit'.host].state = "committed"
    <3>1. \A x \in Registered : x \in Windows
      BY RegisteredStage
    <3> QED BY <1>2, <1>4, <1>5, <1>8, <3>1 DEF HostOK
  <2> QED BY <1>2, <1>8, <2>1, <2>2, <2>3 DEF HostOK
<1> QED BY <1>1, <1>2, <1>5, <1>7, <1>8, <1>9, <1>10, <1>11, PartsNext

LEMMA DrainedInvariant ==
    ASSUME IInv, NEW w \in Windows, Drained(w)
    PROVE  IInv' /\ w \in Registered /\ Retire(w) /\ ws[w].state = "published"
<1>1. Retire(w) /\ UNCHANGED <<created, opened, lost>> /\ stage[w] = "retiring"
  BY DEF Drained, counters
<1>2. w \in Registered
  BY <1>1 DEF Registered
<1>3. lost' \in 0..MaxLost /\ ws[w].state = "published"
  BY <1>1, Parts DEF Counted, WindowsOK, Houses
<1> QED BY <1>1, <1>2, <1>3, RetireInvariant

LEMMA DestroyedInvariant ==
    ASSUME IInv, NEW w \in Windows, Destroyed(w)
    PROVE  IInv' /\ w \in Registered /\ Retire(w) /\ lost' # lost
<1>1. /\ w \in Registered /\ Retire(w) /\ lost < MaxLost /\ lost' = lost + 1
      /\ UNCHANGED <<created, opened>>
  BY DEF Destroyed
<1>2. lost' \in 0..MaxLost /\ lost' # lost
  BY <1>1, Parts, QuitAssumption DEF Counted
<1> QED BY <1>1, <1>2, RetireInvariant

LEMMA PublishInvariant ==
    ASSUME IInv, NEW w \in Windows, Publish(w)
    PROVE  /\ IInv' /\ Registered' = Registered
           /\ quit'.state # "closing" => \A x \in Windows : Spares(ws[x], ws'[x], {})
<1> DEFINE u == ApproveQuit([ws[w] EXCEPT !.state = "published", !.publish = FALSE])
           v == [ws EXCEPT ![w] = u]
           q == [quit EXCEPT !.awaiting = @ \ {w}]
<1>1. /\ w \in Registered /\ ws[w].publish /\ UNCHANGED <<created, opened, lost>>
      /\ UNCHANGED counters
      /\ stage' = [stage EXCEPT ![w] = IF @ = "shown" THEN "retiring" ELSE @]
      /\ IF v[w].approved /\ ~ws[w].approved
            /\ quit.state = "awaiting" /\ quit.host = w
         THEN BeginShutdown(quit, v)
         ELSE /\ ws' = v /\ quit' = q /\ life' = FinishIfReady(q, life, Registered)
  BY DEF Publish, counters
<1>2. /\ WindowsOK /\ quit \in QuitTypes /\ life \in LifeTypes /\ Counted
      /\ HostOK /\ LifetimeOK
  BY Parts
<1>3. created \in Nat /\ Good(ws[w], created, {}) /\ stage[w] \in {"shown", "retiring"}
  BY <1>1, Workspace, RegisteredStage
<1>4. /\ Good(u, created, {}) /\ u.panes = ws[w].panes /\ PanesOf(u) = PanesOf(ws[w])
      /\ u.state = "published" /\ u.quit = ws[w].quit /\ ws[w].state = "committed"
      /\ u.approved => ws[w].quit
      /\ ws[w].quit => u.approved
  BY <1>1, <1>3, PublishGood
<1> HIDE DEF u
<1>5. v[w] = u /\ \A x \in Windows \ {w} : v[x] = ws[x]
  BY <1>2 DEF WindowsOK, Houses
<1>6. /\ stage' \in [Windows -> Stages]
      /\ stage'[w] = "retiring" /\ \A x \in Windows \ {w} : stage'[x] = stage[x]
  BY <1>1, <1>2, <1>3 DEF WindowsOK, Houses, Stages
<1>7. Registered' = Registered
  BY <1>3, <1>6 DEF Registered
<1>8. Houses(v, stage', created, opened)
  <2>1. Houses(v, stage, created, opened)
    <3>1. /\ Houses(ws, stage, created, opened) /\ PanesOf(u) \subseteq PanesOf(ws[w])
          /\ ws[w].state = "published" => u.state = "published"
      BY <1>2, <1>4 DEF WindowsOK
    <3>2. v = [ws EXCEPT ![w] = u]
      OBVIOUS
    <3> HIDE DEF v
    <3> QED BY <1>3, <1>4, <3>1, <3>2, OneHouse
  <2>2. \A x \in Windows : /\ stage'[x] = "absent" <=> stage[x] = "absent"
                           /\ stage'[x] = "gone" => stage[x] = "gone"
                           /\ stage'[x] = "retiring" => x = w \/ stage[x] = "retiring"
    BY <1>3, <1>6
  <2>3. v[w].state = "published"
    BY <1>4, <1>5
  <2> HIDE DEF v
  <2> QED BY <1>6, <2>1, <2>2, <2>3 DEF Houses
<1>9. \A x \in Windows : Spares(ws[x], v[x], {})
  BY <1>4, <1>5 DEF Spares
<1> HIDE DEF v
<1>10. CASE /\ v[w].approved /\ ~ws[w].approved
            /\ quit.state = "awaiting" /\ quit.host = w
  <2>1. BeginShutdown(quit, v)
    BY <1>1, <1>10
  <2>2. quit'.state = "closing"
    BY <1>2, <2>1 DEF BeginShutdown, QuitTypes
  <2>3. IInv'
    BY <1>1, <1>2, <1>7, <1>8, <2>1, ShutdownInvariant
  <2> QED BY <1>7, <2>2, <2>3
<1>11. CASE ~(/\ v[w].approved /\ ~ws[w].approved
              /\ quit.state = "awaiting" /\ quit.host = w)
  <2>1. ws' = v /\ quit' = q /\ life' = FinishIfReady(q, life, Registered)
    BY <1>1, <1>11
  <2>2. WindowsOK'
    BY <1>1, <1>8, <2>1 DEF WindowsOK
  <2>3. /\ quit' \in QuitTypes /\ quit'.state = quit.state /\ quit'.host = quit.host
        /\ quit'.rehost = quit.rehost
    BY <1>2, <2>1 DEF QuitTypes
  <2>4. life' \in LifeTypes /\ LifetimeOK' /\ Counted'
    BY <1>1, <1>2, <1>7, <2>1
       DEF FinishIfReady, RequestedNow, LifeTypes, LifetimeOK, Counted
  <2>5. HostOK'
    <3>1. ws[w].quit => quit.state = "closing"
      <4>1. ws[w].quit => v[w].approved
        BY <1>4, <1>5
      <4>2. ~ws[w].approved
        BY <1>3, <1>4 DEF Good, ClosingOK
      <4> QED BY <1>2, <1>11, <4>1, <4>2 DEF HostOK
    <3>2. quit.state = "awaiting" => quit.host # w
      BY <1>1, <1>2, <3>1, RegisteredStage DEF HostOK
    <3>3. \A x \in Windows : ws'[x].quit = ws[x].quit
      BY <1>4, <1>5, <2>1
    <3>4. \A x \in Windows : ws'[x].approved => ws[x].approved \/ (x = w /\ ws[w].quit)
      BY <1>4, <1>5, <2>1
    <3>5. \A x \in Registered : x \in Windows
      BY RegisteredStage
    <3> QED BY <1>2, <1>5, <1>7, <2>1, <2>3, <3>1, <3>2, <3>3, <3>4, <3>5 DEF HostOK
  <2>6. \A x \in Windows : Spares(ws[x], ws'[x], {})
    BY <1>9, <2>1
  <2> QED BY <1>7, <2>2, <2>3, <2>4, <2>5, <2>6, PartsNext
<1> QED BY <1>10, <1>11

\* A question is asked while nobody else is asked: none of the windows carries
\* the intent to quit.
LEMMA AskInvariant ==
    ASSUME IInv, NEW q0 \in QuitTypes, AskToQuit(q0), UNCHANGED <<stage, counters>>,
           \A x \in Windows : ~ws[x].quit /\ ~ws[x].approved
    PROVE  /\ IInv' /\ Registered' = Registered
           /\ quit'.state # "closing" => \A x \in Windows, p \in Panes : ~Terminated(x, p)
<1> DEFINE hosts == {w \in Registered : ws[w].state = "open"}
           needs == \E w \in hosts : Asking(ws[w], PanesOf(ws[w]))
<1>1. UNCHANGED <<stage, created, opened, lost>> /\ UNCHANGED counters
  BY DEF counters
<1>2. /\ WindowsOK /\ quit \in QuitTypes /\ life \in LifeTypes /\ Counted
      /\ HostOK /\ LifetimeOK
  BY Parts
<1>3. Registered' = Registered
  BY <1>1 DEF Registered
<1>4. ASSUME NEW v, BeginShutdown(q0, v) PROVE quit'.state = "closing"
  BY <1>4 DEF BeginShutdown, QuitTypes
<1>5. CASE Registered = {}
  <2>1. BeginShutdown(q0, ws)
    BY <1>5 DEF AskToQuit
  <2>2. Houses(ws, stage', created, opened)
    BY <1>1, <1>2 DEF WindowsOK
  <2>3. IInv'
    BY <1>1, <1>3, <2>1, <2>2, ShutdownInvariant
  <2> QED BY <1>3, <1>4, <2>1, <2>3
<1>6. CASE Registered # {}
  <2>1. PICK h \in IF hosts # {} THEN hosts ELSE Registered :
          LET v == [ws EXCEPT ![h] = RequestClose(@, TRUE, needs)]
              q == [q0 EXCEPT !.state = "awaiting", !.host = h]
          IN IF v[h].approved /\ ~ws[h].approved
             THEN BeginShutdown(q0, v)
             ELSE ws' = v /\ quit' = q /\ UNCHANGED life
    BY <1>6 DEF AskToQuit
  <2> DEFINE yes == TRUE
             u == RequestClose(ws[h], yes, needs)
             v == [ws EXCEPT ![h] = u]
             q == [q0 EXCEPT !.state = "awaiting", !.host = h]
  <2>2. h \in Registered
    BY <2>1
  <2>3. /\ h \in Windows /\ stage[h] \in {"shown", "retiring"} /\ created \in Nat
        /\ Good(ws[h], created, {})
    BY <2>2, Workspace, RegisteredStage
  <2>4. IF v[h].approved /\ ~ws[h].approved
        THEN BeginShutdown(q0, v)
        ELSE ws' = v /\ quit' = q /\ UNCHANGED life
    BY <2>1
  <2>5. yes \in BOOLEAN /\ yes
    OBVIOUS
  <2>6. needs <=> \E w \in hosts : Asking(ws[w], PanesOf(ws[w]))
    OBVIOUS
  <2>7. u = RequestClose(ws[h], yes, needs) /\ v = [ws EXCEPT ![h] = u]
    OBVIOUS
  <2> HIDE DEF yes, hosts, needs, u, v
  <2>8. /\ Good(u, created, {}) /\ PanesOf(u) \subseteq PanesOf(ws[h])
        /\ u.state = "published" <=> ws[h].state = "published"
        /\ u.quit /\ (ws[h].state = "published" => u.approved)
        /\ \/ u.pending.kind = "window"
           \/ u.state \in {"committed", "published"}
        /\ needs => Spares(ws[h], u, {})
    <3> DEFINE e == RequestClose(ws[h], yes, needs)
    <3>1. /\ Good(e, created, {}) /\ PanesOf(e) \subseteq PanesOf(ws[h])
          /\ e.state = "published" <=> ws[h].state = "published"
          /\ ~yes => Keeps(ws[h], e)
          /\ yes => /\ e.quit
                    /\ ws[h].state = "published" => e.approved
                    /\ \/ e.pending.kind = "window"
                       \/ e.state \in {"committed", "published"}
          /\ ~yes \/ needs => Spares(ws[h], e, {})
      <4>1. yes \in BOOLEAN /\ created \in Nat /\ Good(ws[h], created, {})
        BY <2>3, <2>5
      <4> QED BY <4>1, RequestCloseGood
    <3> HIDE DEF e
    <3>2. u = e
      BY <2>7 DEF e
    <3> QED BY <2>5, <3>1, <3>2
  <2>9. v[h] = u /\ \A x \in Windows \ {h} : v[x] = ws[x]
    BY <1>2, <2>3, <2>7 DEF WindowsOK, Houses
  <2>10. Houses(v, stage', created, opened)
    <3>1. /\ Houses(ws, stage, created, opened)
          /\ ws[h].state = "published" => u.state = "published"
      BY <1>2, <2>8 DEF WindowsOK
    <3>2. v = [ws EXCEPT ![h] = u]
      BY <2>7
    <3>3. Houses(v, stage, created, opened)
      BY <2>3, <2>8, <3>1, <3>2, OneHouse
    <3> QED BY <1>1, <3>3
  <2>11. CASE v[h].approved /\ ~ws[h].approved
    <3>1. BeginShutdown(q0, v)
      BY <2>4, <2>11
    <3>2. IInv'
      BY <1>1, <1>3, <2>10, <3>1, ShutdownInvariant
    <3> QED BY <1>3, <1>4, <3>1, <3>2
  <2>12. CASE ~(v[h].approved /\ ~ws[h].approved)
    <3>1. ws' = v /\ quit' = q /\ UNCHANGED life
      BY <2>4, <2>12
    <3>2. ~u.approved /\ u.state # "published"
      BY <2>3, <2>8, <2>9, <2>12
    <3>3. WindowsOK'
      BY <1>1, <2>10, <3>1 DEF WindowsOK
    <3>4. quit' \in QuitTypes /\ quit'.state = "awaiting" /\ quit'.host = h
      <4>1. h \in 0..MaxWindows
        BY <2>3, QuitAssumption DEF Windows
      <4> QED BY <3>1, <4>1 DEF QuitTypes
    <3>5. life' \in LifeTypes /\ LifetimeOK' /\ Counted'
      BY <1>1, <1>2, <1>3, <3>1 DEF LifetimeOK, Counted
    <3>6. HostOK'
      <4>1. \A x \in Windows : (ws'[x].quit => x = h) /\ ~ws'[x].approved
        BY <2>9, <3>1, <3>2
      <4>2. ws'[h].quit /\ (ws'[h].pending.kind = "window" \/ ws'[h].state = "committed")
        BY <2>8, <2>9, <2>3, <3>1, <3>2
      <4> QED BY <1>3, <2>2, <3>4, <4>1, <4>2 DEF HostOK
    <3>7. ASSUME NEW x \in Windows, NEW p \in Panes, Terminated(x, p)
          PROVE  FALSE
      <4>1. /\ x \in Registered /\ ws[x].state = "open" /\ p \in PanesOf(ws[x])
            /\ ws[x].panes[p].asks /\ ~ws[x].panes[p].shut
            /\ \A y \in Windows : p \in PanesOf(ws'[y]) => ws'[y].panes[p].shut
        BY <3>7 DEF Terminated
      <4>2. needs
        BY <2>6, <4>1 DEF Asking, hosts
      <4>3. CASE x = h
        BY <2>8, <2>9, <2>3, <3>1, <4>1, <4>2, <4>3 DEF Spares
      <4>4. CASE x # h
        BY <2>9, <3>1, <4>1, <4>4
      <4> QED BY <4>3, <4>4
    <3> QED BY <1>3, <3>3, <3>4, <3>5, <3>6, <3>7, PartsNext
  <2> QED BY <2>11, <2>12
<1> QED BY <1>5, <1>6

LEMMA RequestQuitInvariant ==
    ASSUME IInv, RequestQuit
    PROVE  /\ IInv' /\ Registered' = Registered
           /\ quit'.state # "closing" => \A x \in Windows, p \in Panes : ~Terminated(x, p)
<1>1. quit.state = "idle" /\ AskToQuit(quit) /\ UNCHANGED <<stage, counters>>
  BY DEF RequestQuit
<1>2. quit \in QuitTypes /\ \A x \in Windows : ~ws[x].quit /\ ~ws[x].approved
  BY <1>1, Parts DEF HostOK
<1> QED BY <1>1, <1>2, AskInvariant

LEMMA RehostInvariant ==
    ASSUME IInv, Rehost
    PROVE  /\ IInv' /\ Registered' = Registered
           /\ quit'.state # "closing" => \A x \in Windows, p \in Panes : ~Terminated(x, p)
<1> DEFINE again == quit.state = "awaiting" /\ quit.host = NoHost
           q == [quit EXCEPT !.rehost = FALSE, !.state = IF again THEN "idle" ELSE @]
<1>1. /\ UNCHANGED <<stage, counters>>
      /\ IF again /\ ~life.requested THEN AskToQuit(q)
         ELSE quit' = q /\ UNCHANGED <<ws, life>>
  BY DEF Rehost
<1>2. /\ WindowsOK /\ quit \in QuitTypes /\ life \in LifeTypes /\ Counted
      /\ HostOK /\ LifetimeOK
  BY Parts
<1>3. q \in QuitTypes /\ q.host = quit.host /\ q.state = IF again THEN "idle" ELSE quit.state
  BY <1>2 DEF QuitTypes
<1>4. again => \A x \in Windows : ~ws[x].quit /\ ~ws[x].approved
  BY <1>2 DEF HostOK, NoHost, Windows
<1>5. CASE again /\ ~life.requested
  <2>1. AskToQuit(q)
    BY <1>1, <1>5
  <2> HIDE DEF q
  <2> QED BY <1>1, <1>3, <1>4, <1>5, <2>1, AskInvariant
<1>6. CASE ~(again /\ ~life.requested)
  <2>1. quit' = q /\ UNCHANGED <<ws, life, stage, created, opened, lost>>
    BY <1>1, <1>6 DEF counters
  <2>2. Registered' = Registered
    BY <2>1 DEF Registered
  <2>3. WindowsOK' /\ life' \in LifeTypes /\ LifetimeOK' /\ Counted'
    BY <1>2, <2>1, <2>2 DEF WindowsOK, LifetimeOK, Counted
  <2>4. HostOK'
    BY <1>2, <1>3, <1>4, <2>1, <2>2 DEF HostOK
  <2>5. \A x \in Windows, p \in Panes : ~Terminated(x, p)
    BY <2>1 DEF Terminated
  <2> QED BY <1>3, <2>1, <2>2, <2>3, <2>4, <2>5, PartsNext
<1> QED BY <1>5, <1>6

LEMMA QuitTimerInvariant ==
    ASSUME IInv, QuitTimer
    PROVE  IInv' /\ UNCHANGED <<ws, stage, quit, counters>>
<1>1. /\ UNCHANGED <<ws, stage, quit, counters>>
      /\ UNCHANGED <<ws, stage, quit, created, opened, lost>>
      /\ life' = IF QuitDue(life) THEN RequestedNow(life) ELSE [life EXCEPT !.timer = FALSE]
  BY DEF QuitTimer, counters
<1>2. /\ WindowsOK /\ quit \in QuitTypes /\ life \in LifeTypes /\ Counted
      /\ HostOK /\ LifetimeOK
  BY Parts
<1>3. Registered' = Registered
  BY <1>1 DEF Registered
<1>4. life' \in LifeTypes /\ LifetimeOK'
  BY <1>1, <1>2, <1>3 DEF LifeTypes, LifetimeOK, QuitDue, RequestedNow
<1>5. WindowsOK' /\ Counted' /\ HostOK'
  BY <1>1, <1>2, <1>3 DEF WindowsOK, Counted, HostOK
<1> QED BY <1>1, <1>2, <1>4, <1>5, PartsNext

LEMMA InitInvariant == Init => IInv
<1> SUFFICES ASSUME Init PROVE IInv
  OBVIOUS
<1> DEFINE u == WithPane(Vacant, 0 + 1, 1)
<1>1. 1 \in Windows /\ 1 \in Panes /\ 0 + 1 = 1 /\ 1 \in 1..(0 + 1)
  BY WindowAssumption, QuitAssumption DEF Windows, Panes
<1>2. /\ Good(u, 1, {}) /\ PanesOf(u) = {1}
      /\ ~u.quit /\ ~u.approved /\ u.state = "open"
  <2>1. /\ Good(Vacant, 0, {}) /\ PanesOf(Vacant) = {} /\ Vacant.state = "open"
        /\ Vacant.deferred = None /\ ~Vacant.quit /\ ~Vacant.approved
    BY VacantGood
  <2>2. Vacant.deferred.kind # "tabs"
    BY <2>1 DEF None
  <2>3. /\ Good(u, 0 + 1, {}) /\ PanesOf(u) = PanesOf(Vacant) \cup {0 + 1}
        /\ Spares(Vacant, u, {}) /\ SameButPanes(Vacant, u)
    BY <1>1, <2>1, <2>2, WithPaneGood
  <2> HIDE DEF u
  <2> QED BY <1>1, <2>1, <2>3 DEF SameButPanes
<1>3. ws = [w \in Windows |-> IF w = 1 THEN u ELSE Vacant]
  BY DEF Init, NewTab
<1> HIDE DEF u
<1>4. ws[1] = u /\ \A x \in Windows \ {1} : ws[x] = Vacant
  BY <1>1, <1>3
<1>5. /\ Good(Vacant, 1, {}) /\ PanesOf(Vacant) = {} /\ ~Vacant.quit /\ ~Vacant.approved
  BY VacantGood
<1>6. ws \in [Windows -> Workspaces] /\ Apart(ws)
  <2>1. \A x \in Windows : ws[x] \in Workspaces
    BY <1>2, <1>4, <1>5 DEF Good
  <2>2. \A x \in Windows : x # 1 => PanesOf(ws[x]) = {}
    BY <1>4, <1>5
  <2> QED BY <1>3, <2>1, <2>2 DEF Apart
<1>7. /\ stage \in [Windows -> Stages] /\ created = 1 /\ opened = 1
      /\ stage[1] = "shown" /\ \A x \in Windows \ {1} : stage[x] = "absent"
  BY <1>1 DEF Init, Stages
<1>8. WindowsOK
  <2>1. \A x \in Windows : x > 1 <=> x # 1
    BY QuitAssumption DEF Windows
  <2>2. \A x \in Windows : /\ Good(ws[x], 1, {})
                           /\ stage[x] = "absent" <=> x > 1
                           /\ stage[x] \in {"absent", "gone"} => ws[x] = Vacant
                           /\ stage[x] = "retiring" => ws[x].state = "published"
    BY <1>2, <1>4, <1>5, <1>7, <2>1
  <2> QED BY <1>6, <1>7, <2>2 DEF WindowsOK, Houses
<1>9. quit \in QuitTypes /\ quit.state = "idle"
  BY QuitAssumption DEF Init, QuitTypes, RunningQuit, NoHost
<1>10. life \in LifeTypes /\ LifetimeOK
  BY DEF Init, LifeTypes, LifetimeOK
<1>11. Counted
  BY WindowAssumption, QuitAssumption DEF Init, Counted
<1>12. HostOK
  BY <1>2, <1>4, <1>5, <1>9 DEF HostOK
<1> QED BY <1>8, <1>9, <1>10, <1>11, <1>12, Parts

LEMMA NextInvariant == IInv /\ [Next]_vars => IInv'
<1> SUFFICES ASSUME IInv, [Next]_vars PROVE IInv'
  OBVIOUS
<1>1. ASSUME NEW w \in Windows, TopologyStep(w) PROVE IInv'
  <2>1. CASE OpenTab(w) \/ OpenTabRemotely(w)
    BY <2>1, OpenTabInvariant
  <2>2. ASSUME NEW p \in Panes, SplitPane(w, p) PROVE IInv'
    BY <2>2, SplitInvariant
  <2>3. ASSUME NEW p \in Panes, MoveTab(w, p) PROVE IInv'
    BY <2>3, MoveTabInvariant
  <2> QED BY <1>1, <2>1, <2>2, <2>3 DEF TopologyStep
<1>2. ASSUME NEW w \in Windows, UserStep(w) PROVE IInv'
  <2>1. ASSUME NEW p \in Panes, RequestClosePane(w, p) PROVE IInv'
    BY <2>1, ClosePaneEvent, EventInvariant
  <2>2. ASSUME NEW t \in Panes, NEW mode \in Modes, RequestCloseTabs(w, t, mode)
        PROVE  IInv'
    BY <2>2, CloseTabsEvent, EventInvariant
  <2>3. CASE RequestCloseWindow(w)
    BY <2>3, CloseWindowEvent, EventInvariant
  <2>4. CASE Confirm(w)
    BY <2>4, ConfirmEvent, EventInvariant
  <2> QED BY <1>2, <2>1, <2>2, <2>3, <2>4 DEF UserStep
<1>3. ASSUME NEW w \in Windows, NEW p \in Panes, PaneStep(w, p) PROVE IInv'
  <2>1. CASE Changes(w, p)
    BY <2>1, ChangesEvent, EventInvariant
  <2>2. CASE Exits(w, p)
    BY <2>2, ExitsEvent, EventInvariant
  <2>3. CASE PostedClose(w, p)
    BY <2>3, PostedCloseEvent, EventInvariant
  <2> QED BY <1>3, <2>1, <2>2, <2>3 DEF PaneStep
<1>4. ASSUME NEW w \in Windows, Cancel(w) \/ Destroyed(w) PROVE IInv'
  BY <1>4, CancelInvariant, DestroyedInvariant
<1>5. CASE DueStep
  <2>1. ASSUME NEW w \in Windows, NEW p \in Panes, TransitionEnds(w, p) PROVE IInv'
    BY <2>1, TransitionEvent, EventInvariant
  <2>2. ASSUME NEW w \in Windows, NEW p \in Panes, PaneDestroyed(w, p) PROVE IInv'
    BY <2>2, PaneDestroyedInvariant
  <2>3. ASSUME NEW w \in Windows, Publish(w) \/ Drained(w) PROVE IInv'
    BY <2>3, PublishInvariant, DrainedInvariant
  <2>4. CASE Rehost
    BY <2>4, RehostInvariant
  <2>5. CASE QuitTimer
    BY <2>5, QuitTimerInvariant
  <2> QED BY <1>5, <2>1, <2>2, <2>3, <2>4, <2>5 DEF DueStep
<1>6. CASE RequestQuit
  BY <1>6, RequestQuitInvariant
<1>7. CASE OpenWindow
  BY <1>7, OpenWindowInvariant
<1>8. CASE UNCHANGED vars
  <2>1. UNCHANGED <<ws, stage, quit, life, created, opened, lost>>
    BY <1>8 DEF vars, counters
  <2>2. Registered' = Registered
    BY <2>1 DEF Registered
  <2> QED BY <2>1, <2>2, Parts, PartsNext DEF WindowsOK, HostOK, LifetimeOK, Counted
<1> QED BY <1>1, <1>2, <1>3, <1>4, <1>5, <1>6, <1>7, <1>8 DEF Next

\* Workspaces, controller and policy agree after every event.
THEOREM InvariantHolds == Spec => []IInv
BY InitInvariant, NextInvariant, PTL DEF Spec

\* The variables keep their types, and no pane is ever in two windows.
THEOREM TypeOKHolds == Spec => []TypeOK
<1>1. IInv => TypeOK
  BY DEF IInv
<1> QED BY <1>1, InvariantHolds, PTL

\* A removal, and the closing of a window, always wait for an animation that
\* runs (finishDeferredPaneTransition(), finishWindowPaneTransition()).
THEOREM WaitsAreLiveHolds == Spec => []WaitsAreLive
<1>1. IInv => WaitsAreLive
  <2> SUFFICES ASSUME IInv, NEW w \in Registered
               PROVE  LET v == ws[w]
                          Runs(p) == p \in PanesOf(v) /\ v.panes[p].exiting
                      IN /\ v.deferred.kind = "pane" => Runs(v.deferred.pane)
                         /\ v.deferred.kind = "tabs" =>
                              v.deferred.waiting # {} /\ \A p \in v.deferred.waiting : Runs(p)
                         /\ v.state = "committed" =>
                              \/ v.publish
                              \/ v.waiting # {} /\ \A p \in v.waiting :
                                                      p \notin PanesOf(v) \/ Runs(p)
    BY DEF WaitsAreLive
  <2>1. RemovalOK(ws[w]) /\ ClosingOK(ws[w], {})
    BY Workspace DEF Good
  <2> QED BY <2>1 DEF RemovalOK, ClosingOK
<1> QED BY <1>1, InvariantHolds, PTL

\* A dialog asks about what is still there (resolvePendingPaneRemoval(),
\* resolvePendingTabRemoval(), transferTabTo()).
THEOREM DialogsAreLiveHolds == Spec => []DialogsAreLive
<1>1. IInv => DialogsAreLive
  <2> SUFFICES ASSUME IInv, NEW w \in Registered
               PROVE  LET v == ws[w] d == ws[w].pending
                      IN /\ d # None => v.state = "open"
                         /\ d.kind = "pane" => /\ d.pane \in PanesOf(v)
                                               /\ v.panes[d.pane].tab = d.tab
                                               /\ ~v.panes[d.pane].shut
                         /\ d.kind = "tabs" => d.targets # {} /\ d.targets \subseteq TabsOf(v)
    BY DEF DialogsAreLive
  <2>1. DialogOK(ws[w])
    BY Workspace DEF Good
  <2> QED BY <2>1 DEF DialogOK
<1> QED BY <1>1, InvariantHolds, PTL

\* A quit that waits for its answer can get one (requestApplicationQuit(),
\* rehostApplicationQuit()).
THEOREM QuitIsAnswerableHolds == Spec => []QuitIsAnswerable
<1>1. IInv => QuitIsAnswerable
  BY DEF IInv, HostOK, QuitIsAnswerable
<1> QED BY <1>1, InvariantHolds, PTL

-----------------------------------------------------------------------------
(* Panes that need a confirmation.                                         *)

LEMMA NoneTerminated ==
    ASSUME \A x \in Windows : Spares(ws[x], ws'[x], {})
    PROVE  \A x \in Windows, p \in Panes : ~Terminated(x, p)
BY DEF Spares, Terminated

LEMMA EventTerminates ==
    ASSUME IInv, NEW w \in Registered, NEW v, NEW S, Event(w, v),
           quit'.state # "closing", Spares(ws[w], v, S)
    PROVE  \A x \in Windows, p \in Panes : Terminated(x, p) => x = w /\ p \in S
<1> DEFINE t == [ws EXCEPT ![w] = v]
<1>1. WindowsOK /\ quit \in QuitTypes /\ w \in Windows
  BY Parts, RegisteredStage
<1>2. t[w] = v /\ \A x \in Windows \ {w} : t[x] = ws[x]
  BY <1>1 DEF WindowsOK, Houses
<1>3. ~BeginShutdown(quit, t)
  BY <1>1 DEF BeginShutdown, QuitTypes
<1>4. ws' = t
  BY <1>3 DEF Event, Settle
<1> QED BY <1>1, <1>2, <1>4 DEF Terminated, Spares

ConsentStep ==
    quit'.state # "closing" /\ lost' = lost /\ ws' # ws =>
      \A w \in Windows, p \in Panes :
        Terminated(w, p) =>
          \/ Confirm(w) /\ p \in Covered(ws[w])
          \/ Changes(w, p) \/ Exits(w, p)

LEMMA NextConsent == IInv /\ [Next]_vars => ConsentStep
<1> SUFFICES ASSUME IInv, Next, quit'.state # "closing", lost' = lost,
                    NEW x \in Windows, NEW q \in Panes, Terminated(x, q)
             PROVE  \/ Confirm(x) /\ q \in Covered(ws[x])
                    \/ Changes(x, q) \/ Exits(x, q)
  BY DEF ConsentStep, vars
<1>0. ~\A y \in Windows, p \in Panes : ~Terminated(y, p)
  OBVIOUS
<1>9. ~\A y \in Windows : Spares(ws[y], ws'[y], {})
  BY <1>0, NoneTerminated
<1>10. ASSUME NEW w, NEW v, Event(w, v), w \in Registered, Spares(ws[w], v, {})
       PROVE  FALSE
  BY <1>10, EventTerminates
<1>1. ASSUME NEW w \in Windows, TopologyStep(w) PROVE FALSE
  BY <1>0, <1>1, <1>9, OpenTabInvariant, SplitInvariant, MoveTabInvariant DEF TopologyStep
<1>2. ASSUME NEW w \in Windows, UserStep(w)
      PROVE  Confirm(x) /\ q \in Covered(ws[x])
  <2>1. ASSUME NEW p \in Panes, RequestClosePane(w, p) PROVE FALSE
    BY <1>10, <2>1, ClosePaneEvent
  <2>2. ASSUME NEW t \in Panes, NEW mode \in Modes, RequestCloseTabs(w, t, mode)
        PROVE  FALSE
    BY <1>10, <2>2, CloseTabsEvent
  <2>3. ASSUME RequestCloseWindow(w) PROVE FALSE
    BY <1>10, <2>3, CloseWindowEvent
  <2>4. ASSUME Confirm(w) PROVE x = w /\ q \in Covered(ws[w])
    BY <2>4, ConfirmEvent, EventTerminates
  <2> QED BY <1>2, <2>1, <2>2, <2>3, <2>4 DEF UserStep
<1>3. ASSUME NEW w \in Windows, NEW p \in Panes, PaneStep(w, p)
      PROVE  Changes(x, q) \/ Exits(x, q)
  <2>1. ASSUME Changes(w, p) PROVE x = w /\ q = p
    <3>1. x = w /\ q \in {p}
      BY <2>1, ChangesEvent, EventTerminates
    <3> QED BY <3>1
  <2>2. ASSUME Exits(w, p) PROVE x = w /\ q = p
    <3>1. x = w /\ q \in {p}
      BY <2>2, ExitsEvent, EventTerminates
    <3> QED BY <3>1
  <2>3. ASSUME PostedClose(w, p) PROVE FALSE
    BY <1>10, <2>3, PostedCloseEvent
  <2> QED BY <1>3, <2>1, <2>2, <2>3 DEF PaneStep
<1>4. ASSUME NEW w \in Windows, Cancel(w) \/ Destroyed(w) PROVE FALSE
  BY <1>4, <1>9, CancelInvariant, DestroyedInvariant
<1>5. ASSUME DueStep PROVE FALSE
  <2>1. ASSUME NEW w \in Windows, NEW p \in Panes, TransitionEnds(w, p) PROVE FALSE
    BY <1>10, <2>1, TransitionEvent
  <2>2. ASSUME NEW w \in Windows, NEW p \in Panes, PaneDestroyed(w, p) PROVE FALSE
    BY <1>9, <2>2, PaneDestroyedInvariant
  <2>3. ASSUME NEW w \in Windows, Publish(w) PROVE FALSE
    BY <1>9, <2>3, PublishInvariant
  <2>4. ASSUME NEW w \in Windows, Drained(w) PROVE FALSE
    <3>1. /\ ws[w].state = "published" /\ ws' = [ws EXCEPT ![w] = Vacant]
          /\ ws \in [Windows -> Workspaces]
      BY <2>4, DrainedInvariant, Parts DEF Retire, WindowsOK, Houses
    <3> QED BY <3>1 DEF Terminated
  <2>5. ASSUME Rehost PROVE FALSE
    BY <1>0, <2>5, RehostInvariant
  <2>6. ASSUME QuitTimer PROVE FALSE
    BY <2>6, QuitTimerInvariant DEF Terminated
  <2> QED BY <1>5, <2>1, <2>2, <2>3, <2>4, <2>5, <2>6 DEF DueStep
<1>6. ASSUME RequestQuit PROVE FALSE
  BY <1>0, <1>6, RequestQuitInvariant
<1>7. ASSUME OpenWindow PROVE FALSE
  BY <1>7, <1>9, OpenWindowInvariant
<1> QED BY <1>1, <1>2, <1>3, <1>4, <1>5, <1>6, <1>7 DEF Next

\* Until the application quits, a pane that needs a confirmation is closed
\* only by the answer to a dialog that covers it, or because it has just
\* stopped needing one (reevaluatePendingClose(), finishDeferredRemovalNow()).
THEOREM ClosedWithConsentHolds == Spec => ClosedWithConsent
<1>1. IInv /\ [Next]_vars =>
        [quit'.state # "closing" /\ lost' = lost /\ ws' # ws =>
           \A w \in Windows, p \in Panes :
             Terminated(w, p) =>
               \/ Confirm(w) /\ p \in Covered(ws[w])
               \/ Changes(w, p) \/ Exits(w, p)]_vars
  BY NextConsent DEF ConsentStep
<1> QED BY <1>1, InvariantHolds, PTL DEF Spec, ClosedWithConsent

-----------------------------------------------------------------------------
(* The refinement of QuitProtocol.                                         *)

Phase == IF life.requested THEN "quit"
         ELSE CASE quit.state = "idle" -> "running"
                [] quit.state = "awaiting" -> "asking"
                [] OTHER -> "closing"

\* What a step may do to the phase and to the windows.
Mapped ==
    \/ Phase' = Phase /\ Registered' = Registered
    \/ \E w \in Windows :
         /\ Phase = "running" /\ w \notin Registered
         /\ Registered' = Registered \cup {w} /\ Phase' = Phase
    \/ \E w \in Registered :
         /\ Registered' = Registered \ {w}
         /\ \/ Phase' = Phase
            \/ Phase = "closing" /\ Registered = {w} /\ Phase' = "quit"
    \/ Registered' = Registered /\ Phase = "running" /\ Phase' = "asking"
    \/ Registered' = Registered /\ Phase = "asking" /\ Phase' = "running"
    \/ Registered' = Registered /\ Phase \in {"running", "asking"} /\ Phase' = "closing"
    \/ /\ Registered' = Registered /\ Registered = {} /\ Phase # "quit"
       /\ Phase' = "quit"

LEMMA MappedStep ==
    ASSUME Mapped
    PROVE  [Protocol!Next]_<<Phase, Registered>>
<1>1. Registered \subseteq Windows
  BY DEF Registered
<1>2. CASE Phase' = Phase /\ Registered' = Registered
  BY <1>2
<1>3. CASE \E w \in Windows :
             /\ Phase = "running" /\ w \notin Registered
             /\ Registered' = Registered \cup {w} /\ Phase' = Phase
  BY <1>3 DEF Phase, Protocol!Next, Protocol!OpenWindow
<1>4. CASE \E w \in Registered : Registered' = Registered \ {w} /\ Phase' = Phase
  BY <1>1, <1>4 DEF Phase, Protocol!Next, Protocol!CloseWindow
<1>5. CASE \E w \in Registered :
             /\ Registered' = Registered \ {w}
             /\ Phase = "closing" /\ Registered = {w} /\ Phase' = "quit"
  <2>1. PICK w \in Windows : /\ Registered = {w} /\ Registered' = {}
                             /\ Phase = "closing" /\ Phase' = "quit"
    BY <1>1, <1>5
  <2>2. Protocol!CloseLast(w)
    BY <2>1 DEF Phase, Protocol!CloseLast
  <2> QED BY <2>2 DEF Protocol!Next
<1>6. CASE Registered' = Registered /\ Phase = "running" /\ Phase' = "asking"
  BY <1>6 DEF Phase, Protocol!Next, Protocol!Ask
<1>7. CASE Registered' = Registered /\ Phase = "asking" /\ Phase' = "running"
  BY <1>7 DEF Phase, Protocol!Next, Protocol!Withdraw
<1>8. CASE /\ Registered' = Registered /\ Phase \in {"running", "asking"}
           /\ Phase' = "closing"
  BY <1>8 DEF Phase, Protocol!Next, Protocol!Accept
<1>9. CASE /\ Registered' = Registered /\ Registered = {} /\ Phase # "quit"
           /\ Phase' = "quit"
  BY <1>9 DEF Phase, Protocol!Next, Protocol!Finish
<1> QED BY <1>2, <1>3, <1>4, <1>5, <1>6, <1>7, <1>8, <1>9 DEF Mapped

LEMMA ShutdownMapped ==
    ASSUME NEW q \in QuitTypes, NEW v, BeginShutdown(q, v), Registered' = Registered,
           ~life.requested, quit.state \in {"idle", "awaiting"}, life \in LifeTypes
    PROVE  Mapped
<1>1. quit'.state = "closing"
  BY DEF BeginShutdown, QuitTypes
<1>2. Phase \in {"running", "asking"}
  BY DEF Phase
<1>3. CASE life' = life
  BY <1>1, <1>2, <1>3 DEF Mapped, Phase
<1>4. CASE life'.requested /\ Registered = {}
  <2>1. Phase' = "quit"
    BY <1>4 DEF Phase
  <2> QED BY <1>2, <1>4, <2>1 DEF Mapped
<1>5. life' = life \/ (life'.requested /\ Registered = {})
  BY DEF BeginShutdown, FinishIfReady, RequestedNow, LifeTypes
<1> QED BY <1>3, <1>4, <1>5

LEMMA SameMapped ==
    ASSUME UNCHANGED <<stage, quit, life>>
    PROVE  Mapped
BY DEF Mapped, Phase, Registered

\* While a window is registered the application has not quit.
LEMMA Running ==
    ASSUME IInv, NEW w \in Registered
    PROVE  /\ ~life.requested /\ life.hasOpen /\ quit \in QuitTypes /\ life \in LifeTypes
           /\ quit.state = "idle" => Phase = "running"
           /\ quit.state = "awaiting" => Phase = "asking"
           /\ quit.state = "closing" => Phase = "closing"
BY Parts DEF LifetimeOK, Phase

LEMMA EventMapped ==
    ASSUME IInv, NEW w \in Registered, NEW v, Event(w, v)
    PROVE  Mapped
<1> DEFINE t == [ws EXCEPT ![w] = v]
<1>1. UNCHANGED stage /\ Registered' = Registered
  BY DEF Event, Registered
<1>2. CASE /\ t[w].approved /\ ~ws[w].approved
           /\ quit.state = "awaiting" /\ quit.host = w
  <2>1. BeginShutdown(quit, t)
    BY <1>2 DEF Event, Settle
  <2> HIDE DEF t
  <2> QED BY <1>1, <1>2, <2>1, Running, ShutdownMapped
<1>3. CASE ~(/\ t[w].approved /\ ~ws[w].approved
             /\ quit.state = "awaiting" /\ quit.host = w)
  <2>1. UNCHANGED <<quit, life>>
    BY <1>3 DEF Event, Settle
  <2> QED BY <1>1, <2>1, SameMapped
<1> QED BY <1>2, <1>3

LEMMA RetireMapped ==
    ASSUME IInv, NEW w \in Registered, Retire(w), Registered' = Registered \ {w},
           quit' = WithoutHost(quit, w)
    PROVE  Mapped
<1>1. quit'.state = quit.state
  BY Running DEF WithoutHost, QuitTypes
<1>2. ~life.requested /\ life \in LifeTypes
  BY Running
<1>3. life' = FinishIfReady(quit', LastClosed(life, Registered \ {w}), Registered \ {w})
  BY DEF Retire
<1>4. \/ life'.requested = life.requested
      \/ life'.requested /\ quit.state = "closing" /\ Registered \ {w} = {}
  BY <1>1, <1>2, <1>3 DEF FinishIfReady, LastClosed, RequestedNow, LifeTypes
<1>5. CASE life'.requested = life.requested
  <2>1. Phase' = Phase
    BY <1>1, <1>5 DEF Phase
  <2> QED BY <2>1 DEF Mapped
<1>6. CASE life'.requested /\ quit.state = "closing" /\ Registered \ {w} = {}
  <2>1. Phase' = "quit" /\ Phase = "closing" /\ Registered = {w}
    BY <1>2, <1>6 DEF Phase
  <2> QED BY <2>1 DEF Mapped
<1> QED BY <1>4, <1>5, <1>6

LEMMA NewWindowMapped ==
    ASSUME NEW w \in Windows, w \notin Registered, quit.state = "idle", ~life.requested,
           stage \in [Windows -> Stages], stage' = [stage EXCEPT ![w] = "shown"],
           life \in LifeTypes, life' = [life EXCEPT !.hasOpen = TRUE, !.timer = FALSE],
           UNCHANGED quit
    PROVE  Mapped
<1>1. Registered' = Registered \cup {w}
  BY DEF Registered
<1>2. Phase = "running" /\ Phase' = "running"
  BY DEF Phase, LifeTypes
<1> QED BY <1>1, <1>2 DEF Mapped

LEMMA AskMapped ==
    ASSUME NEW q0 \in QuitTypes, AskToQuit(q0), Registered' = Registered,
           ~life.requested, quit.state \in {"idle", "awaiting"}, life \in LifeTypes
    PROVE  Mapped
<1>1. CASE \E v : BeginShutdown(q0, v)
  BY <1>1, ShutdownMapped
<1>2. CASE UNCHANGED life /\ quit'.state = "awaiting"
  <2>1. Phase' = "asking" /\ Phase \in {"running", "asking"}
    BY <1>2 DEF Phase
  <2> QED BY <2>1 DEF Mapped
<1> DEFINE hosts == {w \in Registered : ws[w].state = "open"}
           needs == \E w \in hosts : Asking(ws[w], PanesOf(ws[w]))
<1>3. CASE Registered = {}
  BY <1>1, <1>3 DEF AskToQuit
<1>4. CASE Registered # {}
  <2>1. PICK h \in IF hosts # {} THEN hosts ELSE Registered :
          LET v == [ws EXCEPT ![h] = RequestClose(@, TRUE, needs)]
              q == [q0 EXCEPT !.state = "awaiting", !.host = h]
          IN IF v[h].approved /\ ~ws[h].approved
             THEN BeginShutdown(q0, v)
             ELSE ws' = v /\ quit' = q /\ UNCHANGED life
    BY <1>4 DEF AskToQuit
  <2> DEFINE t == [ws EXCEPT ![h] = RequestClose(@, TRUE, needs)]
  <2>2. \/ BeginShutdown(q0, t)
        \/ quit' = [q0 EXCEPT !.state = "awaiting", !.host = h] /\ UNCHANGED life
    BY <2>1
  <2> HIDE DEF t
  <2>3. CASE BeginShutdown(q0, t)
    BY <1>1, <2>3
  <2>4. CASE quit' = [q0 EXCEPT !.state = "awaiting", !.host = h] /\ UNCHANGED life
    BY <1>2, <2>4 DEF QuitTypes
  <2> QED BY <2>2, <2>3, <2>4
<1> QED BY <1>3, <1>4

LEMMA NextMapped == IInv /\ [Next]_vars => Mapped
<1> SUFFICES ASSUME IInv, [Next]_vars PROVE Mapped
  OBVIOUS
<1>0. /\ WindowsOK /\ quit \in QuitTypes /\ life \in LifeTypes /\ LifetimeOK /\ Counted
      /\ stage \in [Windows -> Stages]
  BY Parts DEF WindowsOK, Houses
<1>1. ASSUME NEW w \in Windows, TopologyStep(w) PROVE Mapped
  <2>1. CASE OpenTab(w) \/ OpenTabRemotely(w)
    BY <2>1, SameMapped DEF OpenTab, OpenTabRemotely, Unchanged
  <2>2. ASSUME NEW p \in Panes, SplitPane(w, p) PROVE Mapped
    BY <2>2, SameMapped DEF SplitPane, Unchanged
  <2>3. ASSUME NEW p \in Panes, MoveTab(w, p) PROVE Mapped
    <3>1. /\ quit.state = "idle" /\ ~life.requested /\ opened < MaxWindows
          /\ stage' = [stage EXCEPT ![opened + 1] = "shown"]
          /\ life' = [life EXCEPT !.hasOpen = TRUE, !.timer = FALSE]
          /\ UNCHANGED quit
      BY <2>3 DEF MoveTab
    <3> QED BY <1>0, <3>1, NewIsVacant, NewWindowMapped
  <2> QED BY <1>1, <2>1, <2>2, <2>3 DEF TopologyStep
<1>2. ASSUME NEW w \in Windows, UserStep(w) PROVE Mapped
  <2>1. ASSUME NEW p \in Panes, RequestClosePane(w, p) PROVE Mapped
    BY <2>1, ClosePaneEvent, EventMapped
  <2>2. ASSUME NEW t \in Panes, NEW mode \in Modes, RequestCloseTabs(w, t, mode)
        PROVE  Mapped
    BY <2>2, CloseTabsEvent, EventMapped
  <2>3. CASE RequestCloseWindow(w)
    BY <2>3, CloseWindowEvent, EventMapped
  <2>4. CASE Confirm(w)
    BY <2>4, ConfirmEvent, EventMapped
  <2> QED BY <1>2, <2>1, <2>2, <2>3, <2>4 DEF UserStep
<1>3. ASSUME NEW w \in Windows, NEW p \in Panes, PaneStep(w, p) PROVE Mapped
  <2>1. CASE Changes(w, p)
    BY <2>1, ChangesEvent, EventMapped
  <2>2. CASE Exits(w, p)
    BY <2>2, ExitsEvent, EventMapped
  <2>3. CASE PostedClose(w, p)
    BY <2>3, PostedCloseEvent, EventMapped
  <2> QED BY <1>3, <2>1, <2>2, <2>3 DEF PaneStep
<1>4. ASSUME NEW w \in Windows, Cancel(w) PROVE Mapped
  <2>1. /\ w \in Registered /\ UNCHANGED <<stage, life>>
        /\ \/ quit' = quit
           \/ /\ quit.state = "awaiting"
              /\ quit' = [quit EXCEPT !.state = "idle", !.host = NoHost]
    BY <1>4 DEF Cancel
  <2>2. Registered' = Registered /\ ~life.requested
    BY <2>1, Running DEF Registered
  <2>3. CASE quit' = quit
    BY <2>1, <2>3, SameMapped
  <2>4. CASE /\ quit.state = "awaiting"
             /\ quit' = [quit EXCEPT !.state = "idle", !.host = NoHost]
    <3>1. quit'.state = "idle"
      BY <1>0, <2>4 DEF QuitTypes
    <3>2. Phase = "asking" /\ Phase' = "running"
      BY <2>1, <2>2, <2>4, <3>1 DEF Phase
    <3> QED BY <2>2, <3>2 DEF Mapped
  <2> QED BY <2>1, <2>3, <2>4
<1>5. ASSUME NEW w \in Windows, Drained(w) \/ Destroyed(w) PROVE Mapped
  <2>1. /\ w \in Registered /\ Retire(w) /\ UNCHANGED <<created, opened>>
        /\ lost' \in 0..MaxLost
    <3>1. CASE Drained(w)
      BY <1>0, <3>1, DrainedInvariant DEF Drained, counters, Counted
    <3>2. CASE Destroyed(w)
      BY <1>0, <3>2, QuitAssumption DEF Destroyed, Counted
    <3> QED BY <1>5, <3>1, <3>2
  <2> QED BY <2>1, RetireInvariant, RetireMapped
<1>6. CASE DueStep
  <2>1. ASSUME NEW w \in Windows, NEW p \in Panes, TransitionEnds(w, p) PROVE Mapped
    BY <2>1, TransitionEvent, EventMapped
  <2>2. ASSUME NEW w \in Windows, NEW p \in Panes, PaneDestroyed(w, p) PROVE Mapped
    BY <2>2, SameMapped DEF PaneDestroyed
  <2>3. ASSUME NEW w \in Windows, Publish(w) PROVE Mapped
    <3>1. /\ w \in Registered
          /\ \/ quit.state = "awaiting" /\ \E v : BeginShutdown(quit, v)
             \/ /\ quit' = [quit EXCEPT !.awaiting = @ \ {w}]
                /\ life' = FinishIfReady(quit', life, Registered)
      BY <2>3 DEF Publish
    <3>2. Registered' = Registered
      BY <2>3, PublishInvariant
    <3>3. CASE quit.state = "awaiting" /\ \E v : BeginShutdown(quit, v)
      BY <3>1, <3>2, <3>3, Running, ShutdownMapped
    <3>4. CASE /\ quit' = [quit EXCEPT !.awaiting = @ \ {w}]
               /\ life' = FinishIfReady(quit', life, Registered)
      <4>1. life' = life /\ quit'.state = quit.state
        BY <1>0, <3>1, <3>4 DEF FinishIfReady, QuitTypes
      <4> QED BY <3>2, <4>1 DEF Mapped, Phase
    <3> QED BY <3>1, <3>3, <3>4
  <2>4. CASE Rehost
    <3> DEFINE again == quit.state = "awaiting" /\ quit.host = NoHost
               q == [quit EXCEPT !.rehost = FALSE,
                                 !.state = IF again THEN "idle" ELSE @]
    <3>1. /\ IF again /\ ~life.requested THEN AskToQuit(q)
             ELSE quit' = q /\ UNCHANGED <<ws, life>>
          /\ UNCHANGED stage /\ Registered' = Registered
      BY <2>4, RehostInvariant DEF Rehost
    <3>2. q \in QuitTypes /\ (~again => q.state = quit.state)
      BY <1>0 DEF QuitTypes
    <3> HIDE DEF q
    <3>3. CASE again /\ ~life.requested
      BY <1>0, <3>1, <3>2, <3>3, AskMapped
    <3>4. CASE again /\ life.requested
      BY <3>1, <3>4 DEF Mapped, Phase
    <3>5. CASE ~again
      BY <3>1, <3>2, <3>5 DEF Mapped, Phase
    <3> QED BY <3>3, <3>4, <3>5
  <2>5. CASE QuitTimer
    <3>1. /\ UNCHANGED <<stage, quit>>
          /\ life' = IF QuitDue(life) THEN RequestedNow(life)
                     ELSE [life EXCEPT !.timer = FALSE]
      BY <2>5 DEF QuitTimer
    <3>2. Registered' = Registered
      BY <3>1 DEF Registered
    <3>3. CASE QuitDue(life)
      <4>1. life'.requested /\ ~life.requested /\ Registered = {}
        BY <1>0, <3>1, <3>3 DEF QuitDue, RequestedNow, LifeTypes, LifetimeOK
      <4>2. Phase' = "quit" /\ Phase # "quit"
        BY <1>0, <4>1 DEF Phase
      <4> QED BY <3>2, <4>1, <4>2 DEF Mapped
    <3>4. CASE ~QuitDue(life)
      <4>1. life'.requested = life.requested
        BY <1>0, <3>1, <3>4 DEF LifeTypes
      <4> QED BY <3>1, <3>2, <4>1 DEF Mapped, Phase
    <3> QED BY <3>3, <3>4
  <2> QED BY <1>5, <1>6, <2>1, <2>2, <2>3, <2>4, <2>5 DEF DueStep
<1>7. CASE RequestQuit
  <2>1. /\ quit.state = "idle" /\ ~life.requested /\ AskToQuit(quit)
        /\ Registered' = Registered
    BY <1>7, RequestQuitInvariant DEF RequestQuit
  <2> QED BY <1>0, <2>1, AskMapped
<1>8. CASE OpenWindow
  <2>1. /\ quit.state = "idle" /\ ~life.requested /\ opened < MaxWindows
        /\ stage' = [stage EXCEPT ![opened + 1] = "shown"]
        /\ life' = [life EXCEPT !.hasOpen = TRUE, !.timer = FALSE]
        /\ UNCHANGED quit
    BY <1>8 DEF OpenWindow
  <2> QED BY <1>0, <2>1, NewIsVacant, NewWindowMapped
<1>9. CASE UNCHANGED vars
  BY <1>9, SameMapped DEF vars
<1> QED BY <1>1, <1>2, <1>3, <1>4, <1>5, <1>6, <1>7, <1>8, <1>9 DEF Next

\* The controller, the workspaces and the lifetime policy implement
\* QuitProtocol: windows open only while nobody has asked to quit, an accepted
\* quit is not taken back, and the event loop ends without a window.
THEOREM ImplementsQuitHolds == Spec => ImplementsQuit
<1>1. Init => Protocol!Init
  <2> SUFFICES ASSUME Init PROVE Protocol!Init
    OBVIOUS
  <2>1. Phase = "running" /\ Registered \in SUBSET Windows
    BY DEF Init, Phase, RunningQuit, Registered
  <2> QED BY <2>1 DEF Protocol!Init, Phase
<1>2. IInv /\ [Next]_vars => [Protocol!Next]_<<Phase, Registered>>
  BY NextMapped, MappedStep
<1> QED BY <1>1, <1>2, InvariantHolds, PTL DEF Spec, ImplementsQuit, Protocol!Spec, Phase
=============================================================================
