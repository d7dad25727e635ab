---------------------------- MODULE WindowClosing ----------------------------
(***************************************************************************)
(* The tabs of one window and how they are closed                          *)
(* (workspace/terminal_workspace.cpp), as operators on the record of a     *)
(* workspace.  Closing asks for confirmation, shuts sessions down, waits   *)
(* for exit animations and only then changes the topology; every one of    *)
(* these waits can be overtaken by another request.                        *)
(*                                                                         *)
(* topologyMutation_ is TRUE only inside one event, where it keeps a       *)
(* confirmed close from resolving another; the operators below are split   *)
(* along it: what ends in 0 runs under it.                                 *)
(*                                                                         *)
(* A tab is named after the pane it was created with, and new tabs go to   *)
(* the end (window-new-tab-position = end), so their names are in order.   *)
(***************************************************************************)
EXTENDS Naturals

CONSTANTS
    MaxPanes, \* bound: panes ever created
    Animated  \* the panes that close with an animation: the shader, its
              \* duration and the renderer decide (beginExitTransition())

ASSUME WindowAssumption ==
    MaxPanes \in Nat \ {0} /\ Animated \subseteq 1..MaxPanes

Panes == 1..MaxPanes
None == [kind |-> "none"]

PaneRecords ==
    [tab : Panes,
     asks : BOOLEAN,    \* read-only, or its process needs a confirmation
     shut : BOOLEAN,    \* shuttingDown_
     exiting : BOOLEAN, \* the exit animation runs
     life : {"running", "posted", "ended"}] \* posted: requestClose is queued
Pendings ==
    {None, [kind |-> "window"]}
    \cup [kind : {"pane"}, pane : Panes, tab : Panes]
    \cup [kind : {"tabs"}, targets : SUBSET Panes]
Deferrals ==
    {None}
    \cup [kind : {"pane"}, pane : Panes]
    \cup [kind : {"tabs"}, targets : SUBSET Panes, waiting : SUBSET Panes]

\* A workspace: its panes, the dialog it shows, the removal that waits for
\* animations, and how far the closing of its window is.
Workspaces ==
    [panes : UNION {[S -> PaneRecords] : S \in SUBSET Panes},
     pending : Pendings,
     deferred : Deferrals,
     state : {"open", "committed", "published"},
     waiting : SUBSET Panes,  \* pendingWindowExitPaneIds_
     publish : BOOLEAN,       \* the publication is queued
     quit : BOOLEAN,          \* applicationQuitRequested_
     approved : BOOLEAN]      \* applicationQuitApprovedEmitted_

Vacant == [panes |-> [p \in {} |-> 0],
           pending |-> None, deferred |-> None, state |-> "open",
           waiting |-> {}, publish |-> FALSE, quit |-> FALSE,
           approved |-> FALSE]

PanesOf(w) == DOMAIN w.panes
TabsOf(w) == {w.panes[p].tab : p \in PanesOf(w)}
PanesIn(w, T) == {p \in PanesOf(w) : w.panes[p].tab \in T}
Asking(w, S) == \E p \in S \cap PanesOf(w) : w.panes[p].asks

\* createPane(), in tab t of the window.
WithPane(w, p, t) ==
    [w EXCEPT !.panes = [q \in PanesOf(w) \cup {p} |->
        IF q \in PanesOf(w) THEN w.panes[q]
        ELSE [tab |-> t, asks |-> FALSE, shut |-> FALSE, exiting |-> FALSE,
              life |-> "running"]]]
NewTab(w, p) == WithPane(w, p, p)
Split(w, source, p) == WithPane(w, p, w.panes[source].tab)

-----------------------------------------------------------------------------
(* Dialogs.                                                                *)

\* Mutant: the dialog of a pane outlives it.
KeepDialog(w, S) == w
\* resolvePendingPaneRemoval() and resolvePendingTabRemoval(): what goes away
\* is no longer asked about.
WithoutPane(w, S) ==
    IF w.pending.kind = "pane" /\ w.pending.pane \in S
    THEN [w EXCEPT !.pending = None] ELSE w
WithoutTabs(w, T) ==
    IF w.pending.kind # "tabs" THEN w
    ELSE IF w.pending.targets \subseteq T THEN [w EXCEPT !.pending = None]
    ELSE [w EXCEPT !.pending.targets = @ \ T]

\* What the dialog of the window asks about.
Covered(w) ==
    CASE w.pending.kind = "pane" -> {w.pending.pane}
      [] w.pending.kind = "tabs" -> PanesIn(w, w.pending.targets)
      [] w.pending.kind = "window" -> PanesOf(w)
      [] OTHER -> {}
\* Mutant: the first target that stopped asking answers for the others.
AnsweredByOne(w) ==
    /\ w.pending # None
    /\ w.pending.kind = "window" => ~w.quit
    /\ \E p \in Covered(w) : ~w.panes[p].asks
\* reevaluatePendingClose(): nothing the dialog covers asks any more.
Answered(w) ==
    /\ w.pending # None
    /\ w.pending.kind = "window" => ~w.quit
    /\ ~Asking(w, Covered(w))

-----------------------------------------------------------------------------
(* Closing.                                                                *)

\* beginShutdown() and beginExitTransition() of the panes in S.
Shut(w, S) ==
    [w EXCEPT !.panes =
        [p \in PanesOf(w) |->
            IF p \in S
            THEN [w.panes[p] EXCEPT !.shut = TRUE, !.exiting = @ \/ p \in Animated]
            ELSE w.panes[p]]]
Exiting(w, S) == {p \in S : w.panes[p].exiting}
Without(w, S) ==
    [w EXCEPT !.panes = [p \in PanesOf(w) \ S |-> w.panes[p]]]

\* approveApplicationQuit(): announced once.
ApproveQuit(w) == [w EXCEPT !.approved = @ \/ w.quit]

\* Once the window closes nothing reads what its panes report.
Silent(w) ==
    [w EXCEPT !.panes = [p \in PanesOf(w) |->
        [w.panes[p] EXCEPT !.asks = FALSE, !.life = "ended"]]]

\* approveWindowClose().
Approve(w) ==
    IF w.state # "open"
    THEN IF w.state = "published" THEN ApproveQuit(w) ELSE w
    ELSE LET v == Silent(Shut(w, PanesOf(w)))
             waiting == Exiting(v, PanesOf(v))
         IN [v EXCEPT !.state = "committed", !.waiting = waiting,
                      !.publish = waiting = {}]

\* The tabs in T are gone: what was asked about them is dropped, and a window
\* without tabs closes, whatever it was asking.
AfterTabs(w, T) ==
    IF PanesOf(w) = {} THEN Approve([w EXCEPT !.pending = None])
    ELSE WithoutTabs(w, T)

\* commitTabRemoval() up to its last step, which looks at the dialog again.
CommitTabs0(w, T) ==
    LET gone == PanesIn(w, T)
    IN IF gone = {} THEN w
       ELSE AfterTabs(WithoutPane(Without(w, gone), gone), T)

\* commitPaneRemoval(), likewise: the last pane of a tab takes the tab along.
CommitPane0(w, p) ==
    IF p \notin PanesOf(w) THEN w
    ELSE LET t == w.panes[p].tab
             v == WithoutPane(Without(w, {p}), {p})
         IN IF t \in TabsOf(v) THEN v ELSE AfterTabs(v, {t})

\* closePane() once nothing is left to confirm.
StartPane0(w, p) ==
    LET v == WithoutPane(Shut(w, {p}), {p})
    IN IF v.panes[p].exiting
       THEN [v EXCEPT !.deferred = [kind |-> "pane", pane |-> p]]
       ELSE CommitPane0(v, p)

\* Mutant: panes without an animation are waited for as well.
StartTabsWaitAll(w, T) ==
    LET gone == PanesIn(w, T)
    IN IF gone = {} THEN w
       ELSE [WithoutPane(Shut(w, gone), gone) EXCEPT
               !.deferred = [kind |-> "tabs", targets |-> T, waiting |-> gone]]
\* removeTabs().
StartTabs0(w, T) ==
    LET gone == PanesIn(w, T)
        v == WithoutPane(Shut(w, gone), gone)
        waiting == Exiting(v, gone)
    IN IF waiting # {}
       THEN [v EXCEPT !.deferred = [kind |-> "tabs", targets |-> T,
                                    waiting |-> waiting]]
       ELSE CommitTabs0(v, T)

\* commitPendingClose() and performPendingClose(): the dialog goes away and
\* what it asked about is closed, unless another removal is waiting.
Perform(w) ==
    LET d == w.pending
        v == [w EXCEPT !.pending = None]
    IN CASE d.kind = "window" -> Approve(v)
         [] d.kind = "pane" /\ v.deferred = None
              /\ d.pane \in PanesOf(v) /\ v.panes[d.pane].tab = d.tab
              -> StartPane0(v, d.pane)
         [] d.kind = "tabs" /\ v.deferred = None
              -> StartTabs0(v, d.targets \cap TabsOf(v))
         [] OTHER -> v
Reevaluate(w) == IF Answered(w) THEN Perform(w) ELSE w

\* closePane(): executeAction() has checked that the window is open and that
\* no removal waits.
ClosePane(w, p) ==
    IF w.panes[p].asks
    THEN IF w.pending # None THEN w
         ELSE [w EXCEPT !.pending = [kind |-> "pane", pane |-> p,
                                     tab |-> w.panes[p].tab]]
    ELSE LET v == StartPane0(w, p)
         IN IF v.deferred # None THEN v ELSE Reevaluate(v)

\* closeTabTargets() and closeTabs().
TabTargets(w, t, mode) ==
    CASE mode = "this" -> {t}
      [] mode = "other" -> TabsOf(w) \ {t}
      [] mode = "right" -> {u \in TabsOf(w) : u > t}
CloseTabs(w, t, mode) ==
    LET T == TabTargets(w, t, mode)
    IN IF Asking(w, PanesIn(w, T))
       THEN IF w.pending # None THEN w
            ELSE [w EXCEPT !.pending = [kind |-> "tabs", targets |-> T]]
       ELSE LET v == StartTabs0(w, T)
            IN IF T = {} \/ v.deferred # None THEN v ELSE Reevaluate(v)

-----------------------------------------------------------------------------
(* The ends of animations, and the closing of the window.                  *)

\* finishDeferredRemovalNow().
FinishNow(w) ==
    LET d == w.deferred
        v == [w EXCEPT !.deferred = None]
    IN CASE d.kind = "pane" -> Reevaluate(CommitPane0(v, d.pane))
         [] d.kind = "tabs" -> Reevaluate(CommitTabs0(v, d.targets))
         [] OTHER -> w

\* finishDeferredPaneTransition().
Finished(w, p) ==
    LET d == w.deferred
    IN CASE d.kind = "pane" /\ d.pane = p -> FinishNow(w)
         [] d.kind = "tabs" /\ p \in d.waiting ->
              IF d.waiting = {p} THEN FinishNow(w)
              ELSE [w EXCEPT !.deferred.waiting = @ \ {p}]
         [] OTHER -> w

\* finishWindowPaneTransition(): the last one queues the publication.
WindowFinished(w, p) ==
    IF p \notin w.waiting THEN w
    ELSE [w EXCEPT !.waiting = @ \ {p},
                   !.publish = @ \/ (w.waiting = {p} /\ w.state = "committed")]

\* exitTransitionFinished of p, to the slots in the order they connected.
EndTransition(w, p) ==
    WindowFinished(Finished([w EXCEPT !.panes[p].exiting = FALSE], p), p)

\* requestWindowCloseImpl().  `quitting`: the whole application is to quit,
\* and `needs` is what all its windows together answered.
RequestClose(w, quitting, needs) ==
    LET q == [w EXCEPT !.quit = @ \/ quitting]
        f == FinishNow(q)
    IN CASE q.state = "published" -> ApproveQuit(q)
         [] q.state = "committed" -> q
         [] q.state = "open" /\ (f.state # "open"
               \/ (f.pending # None /\ (~quitting \/ f.pending.kind = "window")))
              -> f
         [] OTHER ->
              IF IF quitting THEN needs ELSE Asking(f, PanesOf(f))
              THEN [f EXCEPT !.pending = [kind |-> "window"]]
              ELSE Approve([f EXCEPT !.pending = None])

\* Mutant: a window that shows a dialog is left to its user.
ForceLate(w) ==
    IF w.state # "open" \/ w.pending # None THEN w ELSE Approve(w)
\* forceShutdownForApplicationQuit().
ForceShutdown(w) ==
    LET f == FinishNow(w)
    IN IF w.state # "open" THEN w
       ELSE IF f.state # "open" THEN f
       ELSE Approve([f EXCEPT !.quit = FALSE, !.pending = None])
=============================================================================
