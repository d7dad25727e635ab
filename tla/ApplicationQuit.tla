--------------------------- MODULE ApplicationQuit ---------------------------
(***************************************************************************)
(* Closing panes, tabs and windows and quitting the application: the       *)
(* workspaces of WindowClosing under the controller that owns the windows  *)
(* (app/application_controller.cpp) and the policy that ends the event     *)
(* loop (app/application_lifetime.cpp).                                    *)
(*                                                                         *)
(* All of it runs on the GUI thread: an action is one event (a request of  *)
(* the user or of another process, a signal of a pane, a timer that fires) *)
(* with everything its slots do synchronously.                             *)
(***************************************************************************)
EXTENDS WindowClosing

CONSTANTS
    MaxWindows, \* bound: windows ever created
    MaxLost,    \* bound: windows destroyed without having been closed
    QuitAfterLastWindow \* quit-after-last-window-closed

ASSUME QuitAssumption ==
    /\ MaxWindows \in Nat \ {0} /\ MaxLost \in Nat
    /\ QuitAfterLastWindow \in BOOLEAN

Windows == 1..MaxWindows
NoHost == 0

VARIABLES
    ws,      \* the workspace of each window
    stage,   \* how far the life of each window is
    quit,    \* quitState_, quitDialogHost_, awaitingShutdown_ and whether
             \* the quit is to be asked in another window
    life,    \* ApplicationLifetimeController
    created, \* panes created so far
    opened,  \* windows created so far
    lost     \* windows destroyed unasked so far

counters == <<created, opened, lost>>
vars == <<ws, stage, quit, life, counters>>

Registered == {w \in Windows : stage[w] \in {"shown", "retiring"}}
RunningQuit == [state |-> "idle", host |-> NoHost, awaiting |-> {},
                rehost |-> FALSE]

Init ==
    /\ ws = [w \in Windows |->
               IF w = 1 THEN NewTab(Vacant, 1) ELSE Vacant]
    /\ stage = [w \in Windows |-> IF w = 1 THEN "shown" ELSE "absent"]
    /\ quit = RunningQuit
    /\ life = [timer |-> FALSE, hasOpen |-> TRUE, requested |-> FALSE]
    /\ created = 1 /\ opened = 1 /\ lost = 0

-----------------------------------------------------------------------------
(* The controller.                                                         *)

Published(v, w) == v[w].state = "published"
RequestedNow(l) == [l EXCEPT !.requested = TRUE, !.timer = FALSE]
\* Mutant: the application ends as soon as every workspace has agreed.
FinishEarly(q, l, registered) ==
    IF q.state = "closing" /\ q.awaiting = {} THEN RequestedNow(l) ELSE l
\* finishApplicationQuitIfReady().
FinishIfReady(q, l, registered) ==
    IF q.state = "closing" /\ q.awaiting = {} /\ registered = {}
    THEN RequestedNow(l) ELSE l

\* Whom beginApplicationShutdown() waits for: approval once published does
\* not come again.
Awaited(v) == {w \in Registered : ~Published(v, w)}

\* beginApplicationShutdown(): every window closes, asked or not.
BeginShutdown(q0, v) ==
    LET q == [q0 EXCEPT !.state = "closing", !.host = NoHost,
                          !.awaiting = Awaited(v)]
    IN /\ ws' = [w \in Windows |->
                   IF w \in Registered /\ ~Published(v, w)
                   THEN ForceShutdown(v[w]) ELSE v[w]]
       /\ quit' = q
       /\ life' = FinishIfReady(q, life, Registered)

\* The slots of applicationQuitApproved: the first announcement of a
\* workspace commits the quit if it hosts the question.
Settle(v, w) ==
    IF v[w].approved /\ ~ws[w].approved
       /\ quit.state = "awaiting" /\ quit.host = w
    THEN BeginShutdown(quit, v)
    ELSE ws' = v /\ UNCHANGED <<quit, life>>

\* An event of window w makes its workspace v.
Event(w, v) ==
    /\ Settle([ws EXCEPT ![w] = v], w)
    /\ UNCHANGED <<stage, counters>>

\* requestApplicationQuit(), past its guards: the question goes to the active
\* window, or to another one that can still ask; when all of them are closing
\* already, to one that carries the intent.
AskToQuit(q0) ==
    LET hosts == {w \in Registered : ws[w].state = "open"}
        needs == \E w \in hosts : Asking(ws[w], PanesOf(ws[w]))
    IN IF Registered = {}
       THEN BeginShutdown(q0, ws)
       ELSE \E h \in IF hosts # {} THEN hosts ELSE Registered :
              LET v == [ws EXCEPT ![h] = RequestClose(@, TRUE, needs)]
                  q == [q0 EXCEPT !.state = "awaiting", !.host = h]
              IN IF v[h].approved /\ ~ws[h].approved
                 THEN BeginShutdown(q0, v)
                 ELSE ws' = v /\ quit' = q /\ UNCHANGED life

-----------------------------------------------------------------------------
(* Requests to a workspace.  executeAction() refuses all of them while a    *)
(* removal waits and once the window is closing.                           *)

Accepts(w) ==
    w \in Registered /\ ws[w].state = "open" /\ ws[w].deferred = None
CanCreatePane == created < MaxPanes
Unchanged == UNCHANGED <<stage, opened, lost>>

OpenTab(w) ==
    /\ Accepts(w) /\ CanCreatePane
    /\ ws' = [ws EXCEPT ![w] = NewTab(@, created + 1)]
    /\ created' = created + 1 /\ UNCHANGED <<quit, life>> /\ Unchanged

\* createApplicationTab(), for another process: it does not ask whether the
\* window is closing.
OpenTabRemotely(w) ==
    /\ w \in Registered /\ CanCreatePane
    /\ ws' = [ws EXCEPT ![w] = NewTab(@, created + 1)]
    /\ created' = created + 1 /\ UNCHANGED <<quit, life>> /\ Unchanged

SplitPane(w, p) ==
    /\ Accepts(w) /\ CanCreatePane /\ p \in PanesOf(ws[w])
    /\ ws' = [ws EXCEPT ![w] = Split(@, p, created + 1)]
    /\ created' = created + 1 /\ UNCHANGED <<quit, life>> /\ Unchanged

RequestClosePane(w, p) ==
    /\ Accepts(w) /\ p \in PanesOf(ws[w])
    /\ Event(w, ClosePane(ws[w], p))
RequestCloseTabs(w, t, mode) ==
    /\ Accepts(w) /\ t \in TabsOf(ws[w])
    /\ Event(w, CloseTabs(ws[w], t, mode))

Released(w, moved, t) == WithoutTabs(WithoutPane(Without(w, moved), moved), {t})

\* moveTabToNewWindow() and transferTabTo(): the tab takes its panes to a new
\* window, and what was asked about them is dropped.
MoveTab(w, t) ==
    LET moved == PanesIn(ws[w], {t})
        new == opened + 1
    IN /\ Accepts(w) /\ t \in TabsOf(ws[w]) /\ TabsOf(ws[w]) # {t}
       /\ quit.state = "idle" /\ ~life.requested /\ opened < MaxWindows
       /\ ws' = [ws EXCEPT
            ![w] = Released(@, moved, t),
            ![new].panes = [p \in moved |-> ws[w].panes[p]]]
       /\ stage' = [stage EXCEPT ![new] = "shown"]
       /\ life' = [life EXCEPT !.hasOpen = TRUE, !.timer = FALSE]
       /\ opened' = new /\ UNCHANGED <<quit, created, lost>>

RequestCloseWindow(w) ==
    /\ w \in Registered
    /\ Event(w, RequestClose(ws[w], FALSE, FALSE))

Confirm(w) ==
    /\ w \in Registered /\ ws[w].pending # None
    /\ Event(w, Perform(ws[w]))

\* cancelClose(), and applicationQuitCancelled() of the controller.
Cancel(w) ==
    LET window == ws[w].pending.kind = "window"
    IN /\ w \in Registered /\ ws[w].pending # None
       /\ ws' = [ws EXCEPT ![w].pending = None,
                           ![w].quit = @ /\ ~window]
       /\ quit' = IF window /\ ws[w].quit
                     /\ quit.state = "awaiting" /\ quit.host = w
                  THEN [quit EXCEPT !.state = "idle", !.host = NoHost]
                  ELSE quit
       /\ UNCHANGED <<stage, life, counters>>

-----------------------------------------------------------------------------
(* Panes.                                                                  *)

\* processStateChanged, readOnlyChanged: of interest while the window is open.
Changes(w, p) ==
    /\ w \in Registered /\ ws[w].state = "open" /\ p \in PanesOf(ws[w])
    /\ Event(w, Reevaluate([ws[w] EXCEPT !.panes[p].asks = ~@]))

\* The session ends, a read-only pane still asks, and the pane requests its
\* close from a timer.  (One that stays to be read is closed by its user.)
Exits(w, p) ==
    /\ w \in Registered /\ ws[w].state = "open" /\ p \in PanesOf(ws[w])
    /\ ws[w].panes[p].life = "running" /\ ~ws[w].panes[p].shut
    /\ \E asks \in {FALSE, ws[w].panes[p].asks} :
         Event(w, Reevaluate([ws[w] EXCEPT !.panes[p].asks = asks,
                                           !.panes[p].life = "posted"]))

\* The timer of an ended pane.
PostedClose(w, p) ==
    LET v == [ws[w] EXCEPT !.panes[p].life = "ended"]
    IN /\ w \in Registered /\ p \in PanesOf(ws[w])
       /\ ws[w].panes[p].life = "posted"
       /\ Event(w, IF Accepts(w) THEN ClosePane(v, p) ELSE v)

TransitionEnds(w, p) ==
    /\ w \in Registered /\ p \in PanesOf(ws[w]) /\ ws[w].panes[p].exiting
    /\ Event(w, EndTransition(ws[w], p))

\* A removed pane is deleted, which counts as the end of its animation.
PaneDestroyed(w, p) ==
    /\ w \in Registered /\ p \in ws[w].waiting \ PanesOf(ws[w])
    /\ ws' = [ws EXCEPT ![w] = WindowFinished(@, p)]
    /\ UNCHANGED <<stage, quit, life, counters>>

-----------------------------------------------------------------------------
(* Windows and the application.                                            *)

\* publishWindowCloseApproval(): the controller stops waiting for the
\* workspace and queues the retirement of its window before the workspace
\* announces a quit.
Publish(w) ==
    LET v == [ws EXCEPT ![w] = ApproveQuit([@ EXCEPT !.state = "published",
                                                     !.publish = FALSE])]
        q == [quit EXCEPT !.awaiting = @ \ {w}]
    IN /\ w \in Registered /\ ws[w].publish
       /\ stage' = [stage EXCEPT ![w] = IF @ = "shown" THEN "retiring" ELSE @]
       /\ IF v[w].approved /\ ~ws[w].approved
             /\ quit.state = "awaiting" /\ quit.host = w
          THEN BeginShutdown(quit, v)
          ELSE /\ ws' = v /\ quit' = q
               /\ life' = FinishIfReady(q, life, Registered)
       /\ UNCHANGED counters

\* Mutant: a quit whose host has gone is not asked again.
NotRehosted(q, w) == [q EXCEPT !.awaiting = @ \ {w}]
\* workspaceDestroyed().
WithoutHost(q, w) ==
    IF q.state = "awaiting" /\ q.host = w
    THEN [q EXCEPT !.awaiting = @ \ {w}, !.host = NoHost, !.rehost = TRUE]
    ELSE [q EXCEPT !.awaiting = @ \ {w}]

\* lastWindowClosed() and reconcile().
LastClosed(l, registered) ==
    IF registered # {} \/ l.requested THEN l
    ELSE [l EXCEPT !.hasOpen = FALSE, !.timer = QuitAfterLastWindow]

\* The window goes, its workspace first: retireWindow().
Retire(w) ==
    LET q == WithoutHost(quit, w)
        left == Registered \ {w}
    IN /\ ws' = [ws EXCEPT ![w] = Vacant]
       /\ stage' = [stage EXCEPT ![w] = "gone"]
       /\ quit' = q
       /\ life' = FinishIfReady(q, LastClosed(life, left), left)

\* unmapAndRetireWindow() and the end of its wait: the focus has left the
\* unmapped window, or the wait timed out.
Drained(w) == stage[w] = "retiring" /\ Retire(w) /\ UNCHANGED counters
\* The window is destroyed without having been closed.
Destroyed(w) ==
    /\ w \in Registered /\ lost < MaxLost
    /\ Retire(w)
    /\ lost' = lost + 1 /\ UNCHANGED <<created, opened>>

OpenWindow ==
    LET new == opened + 1
    IN /\ quit.state = "idle" /\ ~life.requested
       /\ opened < MaxWindows /\ CanCreatePane
       /\ ws' = [ws EXCEPT ![new] = NewTab(Vacant, created + 1)]
       /\ stage' = [stage EXCEPT ![new] = "shown"]
       /\ life' = [life EXCEPT !.hasOpen = TRUE, !.timer = FALSE]
       /\ opened' = new /\ created' = created + 1 /\ UNCHANGED <<quit, lost>>

RequestQuit ==
    /\ quit.state = "idle" /\ ~life.requested
    /\ AskToQuit(quit) /\ UNCHANGED <<stage, counters>>

\* The timer of rehostApplicationQuit().
Rehost ==
    LET again == quit.state = "awaiting" /\ quit.host = NoHost
        q == [quit EXCEPT !.rehost = FALSE,
                          !.state = IF again THEN "idle" ELSE @]
    IN /\ quit.rehost
       /\ IF again /\ ~life.requested
          THEN AskToQuit(q)
          ELSE quit' = q /\ UNCHANGED <<ws, life>>
       /\ UNCHANGED <<stage, counters>>

\* The policy's timer looks again at everything when it fires.
QuitDue(l) == QuitAfterLastWindow /\ ~l.hasOpen /\ ~l.requested
QuitTimer ==
    /\ life.timer
    /\ life' = IF QuitDue(life) THEN RequestedNow(life)
               ELSE [life EXCEPT !.timer = FALSE]
    /\ UNCHANGED <<ws, stage, quit, counters>>

-----------------------------------------------------------------------------
Modes == {"this", "other", "right"}

UserStep(w) ==
    \/ \E p \in Panes : RequestClosePane(w, p)
    \/ \E t \in Panes, mode \in Modes : RequestCloseTabs(w, t, mode)
    \/ RequestCloseWindow(w)
    \/ Confirm(w)
TopologyStep(w) ==
    \/ OpenTab(w)
    \/ OpenTabRemotely(w)
    \/ \E p \in Panes : SplitPane(w, p) \/ MoveTab(w, p)
PaneStep(w, p) ==
    \/ Changes(w, p)
    \/ Exits(w, p)
    \/ PostedClose(w, p)
\* What the event loop owes: ends of animations, deferred deletions, timers.
DueStep ==
    \/ \E w \in Windows :
         \/ \E p \in Panes : TransitionEnds(w, p) \/ PaneDestroyed(w, p)
         \/ Publish(w)
         \/ Drained(w)
    \/ Rehost
    \/ QuitTimer
Next ==
    \/ \E w \in Windows :
         \/ TopologyStep(w)
         \/ UserStep(w)
         \/ Cancel(w)
         \/ \E p \in Panes : PaneStep(w, p)
         \/ Destroyed(w)
    \/ RequestQuit
    \/ OpenWindow
    \/ DueStep

Spec == Init /\ [][Next]_vars

\* What the event loop owes is there until it is discharged; every DueStep
\* discharges something, and so may a step that overtakes it.
Due ==
    \/ \E w \in Registered :
         \/ Exiting(ws[w], PanesOf(ws[w])) # {}
         \/ ws[w].waiting \ PanesOf(ws[w]) # {}
         \/ ws[w].publish \/ stage[w] = "retiring"
    \/ quit.rehost \/ life.timer
Discharge ==
    \/ \E w \in Registered :
         \/ \E p \in PanesOf(ws[w]) :
              /\ ws[w].panes[p].exiting
              /\ p \in PanesOf(ws'[w]) => ~ws'[w].panes[p].exiting
         \/ ~(ws[w].waiting \ PanesOf(ws[w]) \subseteq ws'[w].waiting)
         \/ ws[w].publish /\ ~ws'[w].publish
         \/ stage[w] = "retiring" /\ stage'[w] = "gone"
    \/ quit.rehost /\ ~quit'.rehost
    \/ life.timer /\ ~life'.timer
\* The event loop does not stop while something is due (less than weak
\* fairness of DueStep): animations end by their timer, deferred deletions and
\* timers are delivered, an unmapped window is deleted at the latest when its
\* wait times out.  Nobody has to answer a dialog, and no process has to exit.
FairSpec == Spec /\ ([]<>~Due \/ []<><<Discharge>>_vars)

-----------------------------------------------------------------------------
(* Properties.                                                             *)

\* The types of the variables; a pane is in one window.
TypeOK ==
    /\ ws \in [Windows -> Workspaces]
    /\ stage \in [Windows -> {"absent", "shown", "retiring", "gone"}]
    /\ quit \in [state : {"idle", "awaiting", "closing"}, host : 0..MaxWindows,
                 awaiting : SUBSET Windows, rehost : BOOLEAN]
    /\ life \in [timer : BOOLEAN, hasOpen : BOOLEAN, requested : BOOLEAN]
    /\ created \in 0..MaxPanes /\ opened \in 0..MaxWindows /\ lost \in 0..MaxLost
    /\ \A v, w \in Windows : v # w => PanesOf(ws[v]) \cap PanesOf(ws[w]) = {}

\* Whoever waits for an animation waits for one that runs (or for a pane that
\* is being deleted): a removal and the closing of a window, however they
\* overtake one another, never wait for an event that will not come
\* (finishDeferredPaneTransition(), finishWindowPaneTransition()).
WaitsAreLive ==
    \A w \in Registered :
      LET v == ws[w]
          Runs(p) == p \in PanesOf(v) /\ v.panes[p].exiting
      IN /\ v.deferred.kind = "pane" => Runs(v.deferred.pane)
         /\ v.deferred.kind = "tabs" =>
              v.deferred.waiting # {} /\ \A p \in v.deferred.waiting : Runs(p)
         /\ v.state = "committed" =>
              \/ v.publish
              \/ v.waiting # {} /\ \A p \in v.waiting :
                                      p \notin PanesOf(v) \/ Runs(p)

\* A dialog asks about what is still there and still to be asked about: a
\* pane in the tab it was in, tabs of this window, an open window
\* (resolvePendingPaneRemoval(), resolvePendingTabRemoval(), transferTabTo()).
DialogsAreLive ==
    \A w \in Registered :
      LET v == ws[w] d == ws[w].pending
      IN /\ d # None => v.state = "open"
         /\ d.kind = "pane" => /\ d.pane \in PanesOf(v)
                               /\ v.panes[d.pane].tab = d.tab
                               /\ ~v.panes[d.pane].shut
         /\ d.kind = "tabs" => d.targets # {} /\ d.targets \subseteq TabsOf(v)

\* While the controller waits for the answer to a quit, the host shows the
\* dialog or is closing, or the question is about to be asked elsewhere:
\* every further request to quit is swallowed in this state
\* (requestApplicationQuit(), rehostApplicationQuit()).
QuitIsAnswerable ==
    quit.state = "awaiting" =>
      \/ quit.rehost
      \/ /\ quit.host \in Registered /\ ws[quit.host].quit
         /\ \/ ws[quit.host].pending.kind = "window"
            \/ ws[quit.host].state = "committed"

\* Pane p of an open window, which asks, is shut down or removed.
Terminated(w, p) ==
    /\ w \in Registered /\ ws[w].state = "open" /\ p \in PanesOf(ws[w])
    /\ ws[w].panes[p].asks /\ ~ws[w].panes[p].shut
    /\ \A x \in Windows : p \in PanesOf(ws'[x]) => ws'[x].panes[p].shut
\* Until the application quits, a pane that needs a confirmation is closed
\* only by the user's answer to a dialog that covers it, or because it has
\* stopped needing one in this very event: no closing that overtakes another
\* (reevaluatePendingClose(), finishDeferredRemovalNow()) takes it along.
ClosedWithConsent ==
    [][quit'.state # "closing" /\ lost' = lost /\ ws' # ws =>
         \A w \in Windows, p \in Panes :
           Terminated(w, p) =>
             \/ Confirm(w) /\ p \in Covered(ws[w])
             \/ Changes(w, p) \/ Exits(w, p)]_vars

\* The controller, the workspaces and the lifetime policy together keep the
\* promises of QuitProtocol.
Protocol == INSTANCE QuitProtocol WITH
    phase <- IF life.requested THEN "quit"
             ELSE CASE quit.state = "idle" -> "running"
                    [] quit.state = "awaiting" -> "asking"
                    [] OTHER -> "closing",
    open <- Registered
ImplementsQuit == Protocol!Spec

\* A window that has started to close goes away, and an application that has
\* started to quit ends, whatever animations, removals and processes do: both
\* are for good, so it is enough that again and again none is on its way.
ClosingEnds ==
    []<>(/\ \A w \in Registered : ws[w].state = "open"
         /\ quit.state = "closing" => life.requested)

\* Documented for reevaluatePendingClose(): the change of one window never
\* decides for the whole application, so a quit begins with the confirmation
\* of its dialog, or when nothing needs one.
QuitNeedsConsent ==
    [][quit.state # "closing" /\ quit'.state = "closing" =>
         \/ \E w \in Windows : Confirm(w)
         \/ \A w \in Registered : ws[w].state = "open" =>
              ~\E p \in PanesOf(ws[w]) : ws[w].panes[p].asks]_vars
=============================================================================
