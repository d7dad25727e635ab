------------------------- MODULE ClipboardRequests -------------------------
(***************************************************************************)
(* Clipboard requests of the applications in the terminals.  A session     *)
(* worker blocks inside its parser until the GUI thread has answered       *)
(* (session/terminal_clipboard_bridge.h, the callbacks of                  *)
(* session/session_worker.cpp); the workspace queues the requests that     *)
(* need the user, writes and reads apart, and shows one dialog for each of *)
(* the two at a time (workspace/terminal_workspace.cpp, qml/Main.qml).     *)
(* Panes are closed, the window is closed and controllers are destroyed,   *)
(* which blocks the GUI thread on a worker, while requests are pending.    *)
(*                                                                         *)
(* Every slot of the GUI thread is one action.  A worker has one request   *)
(* at a time, since it waits for it.  Contents are left out: only sizes    *)
(* count, against the queue's limit.  Reads and writes are kinds.  A       *)
(* confirmation is named by the request it is about, <<pane, id>>, instead *)
(* of a number of its own.                                                 *)
(***************************************************************************)
EXTENDS Naturals, Sequences, FiniteSets, SequencesExt, Subsequences

CONSTANTS
    Panes,
    NoPane,      \* the GUI thread is not blocked on a pane
    MaxEntries,  \* kMaximumPendingClipboardWrites, kMaximumPendingClipboardReads
    MaxBytes,    \* kMaximumPendingClipboardWriteBytes, ...ReadBytes
    Sizes,       \* per pane: the sizes its requests can have
    MaxRequests  \* bound, per pane: requests its worker makes

ASSUME ClipboardAssumption ==
    /\ NoPane \notin Panes
    /\ MaxEntries \in Nat \ {0} /\ MaxBytes \in Nat
    /\ Sizes \in [Panes -> SUBSET Nat] /\ MaxRequests \in [Panes -> Nat]

Kinds == {"write", "read"}
None == <<>>
NoRequest == [kind |-> "read", ask |-> FALSE, size |-> 0]

VARIABLES
    \* per pane: its worker, its bridge and the request that is on its way
    worker,    \* "running", "waiting", "stopped"
    stop,      \* shutdown() has been posted to the worker
    serial,    \* nextRequestId_ of the bridge
    closed,    \* closed_ of the bridge
    request,   \* the kind and policy of request serial
    reply,     \* its reply, "none" until it is resolved
    outcome,   \* what the worker was given last
    inTransit, \* the signal of request serial is queued for the GUI thread
    pane,      \* "live", "retiring", "removed", "deleting", "gone"
    \* the workspace, per kind
    queue,     \* pendingClipboardWrites_, pendingClipboardReads_
    bytes,     \* pendingClipboardWriteBytes_, pendingClipboardReadBytes_
    active,    \* the confirmation that waits for an answer
    timer,     \* the zero timer of a drain is armed
    dialog,    \* the confirmation the QML dialog is open for
    \* the window and the GUI thread
    window,    \* "open", "committed", "destroyed"
    blockedOn, \* the pane whose destructor waits for its worker
    agreed     \* history: the panes whose current request the user agreed to

bridge == <<worker, stop, serial, closed, request, outcome, inTransit>>
workspace == <<queue, bytes, active, timer, dialog>>
vars == <<bridge, reply, pane, workspace, window, blockedOn, agreed>>

Init ==
    /\ worker = [p \in Panes |-> "running"]
    /\ stop = [p \in Panes |-> FALSE]
    /\ serial = [p \in Panes |-> 0]
    /\ closed = [p \in Panes |-> FALSE]
    /\ request = [p \in Panes |-> NoRequest]
    /\ reply = [p \in Panes |-> "none"]
    /\ outcome = [p \in Panes |-> "none"]
    /\ inTransit = [p \in Panes |-> FALSE]
    /\ pane = [p \in Panes |-> "live"]
    /\ queue = [k \in Kinds |-> <<>>]
    /\ bytes = [k \in Kinds |-> 0]
    /\ active = [k \in Kinds |-> None]
    /\ timer = [k \in Kinds |-> FALSE]
    /\ dialog = [k \in Kinds |-> None]
    /\ window = "open"
    /\ blockedOn = NoPane
    /\ agreed = {}

-----------------------------------------------------------------------------
(* The bridge *)

\* The worker waits for the request that an entry of a queue stands for.
Unresolved(e) ==
    /\ ~closed[e.pane] /\ worker[e.pane] = "waiting"
    /\ serial[e.pane] = e.id /\ reply[e.pane] = "none"

\* resolveRead() and resolveWrite() for the entries of a set: what their panes'
\* workers are given.
Resolve(entries, r) ==
    [p \in Panes |->
        IF \E e \in entries : e.pane = p /\ Unresolved(e) THEN r ELSE reply[p]]

\* The terminal's clipboard callbacks, up to the wait.
Ask(p, k, ask, size) ==
    /\ worker[p] = "running" /\ ~closed[p]
    /\ serial[p] < MaxRequests[p]
    /\ serial' = [serial EXCEPT ![p] = @ + 1]
    /\ request' = [request EXCEPT ![p] = [kind |-> k, ask |-> ask, size |-> size]]
    /\ outcome' = [outcome EXCEPT ![p] = "none"]
    /\ inTransit' = [inTransit EXCEPT ![p] = TRUE]
    /\ worker' = [worker EXCEPT ![p] = "waiting"]
    /\ UNCHANGED <<stop, closed, reply, pane, workspace, window, blockedOn, agreed>>

\* The request is known to the worker while it waits, and to the signal.
KeepWhileCarried(p) ==
    request' = [request EXCEPT ![p] =
                  IF worker'[p] = "waiting" \/ inTransit'[p] THEN @ ELSE NoRequest]

\* wait() returns: the reply, or nothing when the bridge was closed before it.
Wake(p) ==
    /\ worker[p] = "waiting"
    /\ closed[p] \/ reply[p] # "none"
    /\ worker' = [worker EXCEPT ![p] = "running"]
    /\ outcome' = [outcome EXCEPT ![p] =
                     IF reply[p] # "none" THEN reply[p] ELSE "cancelled"]
    /\ reply' = [reply EXCEPT ![p] = "none"]
    /\ agreed' = agreed \ {p}
    /\ UNCHANGED <<stop, serial, closed, inTransit, pane, workspace, window, blockedOn>>
    /\ KeepWhileCarried(p)

\* The worker reaches the shutdown() that was posted to it.
Shutdown(p) ==
    /\ worker[p] = "running" /\ stop[p]
    /\ worker' = [worker EXCEPT ![p] = "stopped"]
    /\ UNCHANGED <<stop, serial, closed, request, reply, outcome, inTransit, pane,
                   workspace, window, blockedOn, agreed>>

-----------------------------------------------------------------------------
(* The workspace's queues *)

\* paneForId() still finds the pane.
Live(p) == pane[p] = "live" /\ window # "destroyed"

Name(e) == <<e.pane, e.id>>
Total(entries) ==
    LET sum[n \in 0..Len(entries)] ==
            IF n = 0 THEN 0 ELSE sum[n - 1] + entries[n].size
    IN  sum[Len(entries)]

\* drainPendingClipboardWrites() and drainPendingClipboardReads() on the queue
\* q of a kind, when no confirmation of it is shown: entries of panes that are
\* gone are denied, writes that need no confirmation are committed (the
\* clipboard may fail: ok), and the first of the others is shown.
\* Mutant: a queued read is not asked about.
NeedsForWrites(k, e) == Live(e.pane) /\ k = "write" /\ e.ask
Needs(k, e) == Live(e.pane) /\ (k = "read" \/ e.ask)
FirstAsked(k, q) ==
    LET A == {i \in DOMAIN q : Needs(k, q[i])}
    IN  IF A = {} THEN Len(q) + 1 ELSE CHOOSE i \in A : \A j \in A : i <= j

Drained(k, q, ok) ==
    LET n == FirstAsked(k, q)
        rest == SubSeq(q, n, Len(q))
        done == {q[i] : i \in 1..(n - 1)}
        result(p) == IF ~Live(p) THEN "denied" ELSE IF ok THEN "success" ELSE "failed"
    IN  /\ queue' = [queue EXCEPT ![k] = rest]
        /\ bytes' = [bytes EXCEPT ![k] = Total(rest)]
        /\ reply' = [p \in Panes |->
                       Resolve(done, result(p))[p]]
        /\ IF rest = <<>>
           THEN UNCHANGED <<active, dialog>>
           ELSE /\ active' = [active EXCEPT ![k] = Name(Head(rest))]
                /\ dialog' = [dialog EXCEPT ![k] = Name(Head(rest))]

Drain(k, q, ok) ==
    IF active[k] # None
    THEN /\ queue' = [queue EXCEPT ![k] = q]
         /\ bytes' = [bytes EXCEPT ![k] = Total(q)]
         /\ UNCHANGED <<active, dialog, reply>>
    ELSE Drained(k, q, ok)

\* The limits of a queue; a single oversized write is let in when it is alone.
Fits(k, size) ==
    /\ Len(queue[k]) < MaxEntries
    /\ IF k = "write" /\ size > MaxBytes
       THEN queue[k] = <<>>
       ELSE bytes[k] + size <= MaxBytes

\* Mutant: a request that does not fit is dropped without a reply.
NoReply(e) == reply
Busy(e) == Resolve({e}, "busy")

\* beginTerminalClipboardWrite() and beginTerminalClipboardRead().  ok: the
\* clipboard can be read, or written if it comes to that.
Begin(p, ok) ==
    LET k == request[p].kind
        e == [pane |-> p, id |-> serial[p], ask |-> request[p].ask,
              size |-> request[p].size]
        answer(r) == /\ reply' = r
                     /\ UNCHANGED <<queue, bytes, active, dialog>>
    IN  IF ~Live(p) THEN answer(Resolve({e}, "denied"))
        ELSE IF k = "read" /\ ~ok THEN answer(Resolve({e}, "failed"))
        ELSE IF k = "read" /\ ~e.ask THEN answer(Resolve({e}, "success"))
        ELSE IF ~Fits(k, e.size) THEN answer(Busy(e))
        ELSE Drain(k, Append(queue[k], e), ok)

Deliver(p, ok) ==
    /\ blockedOn = NoPane /\ inTransit[p]
    /\ pane[p] \in {"live", "retiring", "removed"} /\ window # "destroyed"
    /\ inTransit' = [inTransit EXCEPT ![p] = FALSE]
    /\ Begin(p, ok)
    /\ UNCHANGED <<worker, stop, serial, closed, outcome, pane, timer,
                   window, blockedOn, agreed>>
    /\ KeepWhileCarried(p)

\* The zero timer of schedulePendingClipboardWriteDrain().
DrainTimer(k, ok) ==
    /\ blockedOn = NoPane /\ timer[k] /\ window # "destroyed"
    /\ timer' = [timer EXCEPT ![k] = FALSE]
    /\ Drain(k, queue[k], ok)
    /\ UNCHANGED <<bridge, pane, window, blockedOn, agreed>>

\* An answer leaves others to be asked about.
DrainNeeded(rest) == rest # <<>>

Charge(e) == e.size

\* The dialog is accepted or rejected: finishTerminalClipboardWrite() and
\* finishTerminalClipboardRead().
Answer(k, confirmed, ok) ==
    LET e == Head(queue[k])
        rest == Tail(queue[k])
    IN  /\ blockedOn = NoPane /\ window # "destroyed"
        /\ dialog[k] # None
        /\ dialog' = [dialog EXCEPT ![k] = None]
        /\ IF dialog[k] # active[k] \/ queue[k] = <<>>
           THEN UNCHANGED <<queue, bytes, active, timer, reply, agreed>>
           ELSE /\ active' = [active EXCEPT ![k] = None]
                /\ queue' = [queue EXCEPT ![k] = rest]
                /\ bytes' = [bytes EXCEPT ![k] = @ - Charge(e)]
                /\ timer' = [timer EXCEPT ![k] = @ \/ DrainNeeded(rest)]
                /\ agreed' = IF confirmed /\ Unresolved(e) THEN agreed \cup {e.pane}
                             ELSE agreed
                /\ reply' = Resolve({e}, IF ~confirmed \/ ~Live(e.pane) THEN "denied"
                                         ELSE IF k = "write" /\ ~ok THEN "failed"
                                         ELSE "success")
        /\ UNCHANGED <<bridge, pane, window, blockedOn>>

\* Mutant: the dialog of a removed request stays.
RemovalKeepsDialog(k, p) == FALSE
\* The request that the user is asked about is one of the closing pane's.
RemovesActive(k, p) == active[k] # None /\ Head(queue[k]).pane = p

\* removePendingClipboardWritesForPane() and ...ReadsForPane().
RemovePending(p) ==
    LET kept(k) ==
            Subsequence(queue[k], {i \in DOMAIN queue[k] : queue[k][i].pane # p})
        removed == {e \in UNION {Range(queue[k]) : k \in Kinds} : e.pane = p}
    IN  /\ queue' = [k \in Kinds |-> kept(k)]
        /\ bytes' = [k \in Kinds |-> Total(kept(k))]
        /\ reply' = Resolve(removed, "denied")
        /\ active' = [k \in Kinds |-> IF RemovesActive(k, p) THEN None ELSE active[k]]
        /\ dialog' = [k \in Kinds |-> IF RemovesActive(k, p) /\ dialog[k] = active[k]
                                      THEN None ELSE dialog[k]]
        /\ timer' = [k \in Kinds |-> timer[k] \/ (kept(k) # <<>> /\ active'[k] = None)]

-----------------------------------------------------------------------------
(* Closing *)

\* Mutant: the shutdown waits for the worker's queue like any request.
BeginShutdownQueued(P) ==
    /\ stop' = [p \in Panes |-> stop[p] \/ p \in P]
    /\ UNCHANGED closed

\* beginShutdown() of the controllers of a set of panes.
BeginShutdown(P) ==
    /\ closed' = [p \in Panes |-> closed[p] \/ p \in P]
    /\ stop' = [p \in Panes |-> stop[p] \/ p \in P]

\* closePane() and closeTab(), up to the exit transition.
Retire(p) ==
    /\ blockedOn = NoPane /\ window = "open" /\ pane[p] = "live"
    /\ pane' = [pane EXCEPT ![p] = "retiring"]
    /\ RemovePending(p)
    /\ BeginShutdown({p})
    /\ UNCHANGED <<worker, serial, request, outcome, inTransit, window,
                   blockedOn, agreed>>

\* commitPaneRemoval() and commitTabRemoval().
CommitRemoval(p) ==
    /\ blockedOn = NoPane /\ window # "destroyed" /\ pane[p] = "retiring"
    /\ pane' = [pane EXCEPT ![p] = "removed"]
    /\ RemovePending(p)
    /\ UNCHANGED <<bridge, window, blockedOn, agreed>>

\* commitWindowClose(): every pane's shutdown begins, and nothing is removed.
CommitWindowClose ==
    /\ blockedOn = NoPane /\ window = "open"
    /\ window' = "committed"
    /\ BeginShutdown({p \in Panes : pane[p] \in {"live", "retiring"}})
    /\ UNCHANGED <<worker, serial, request, reply, outcome, inTransit, pane,
                   workspace, blockedOn, agreed>>

\* The workspace goes away, with its queues and dialogs.
DestroyWorkspace ==
    /\ blockedOn = NoPane /\ window = "committed"
    /\ window' = "destroyed"
    /\ queue' = [k \in Kinds |-> <<>>]
    /\ bytes' = [k \in Kinds |-> 0]
    /\ active' = [k \in Kinds |-> None]
    /\ dialog' = [k \in Kinds |-> None]
    /\ timer' = [k \in Kinds |-> FALSE]
    /\ UNCHANGED <<bridge, reply, pane, blockedOn, agreed>>

\* ~TerminalController(), which blocks the GUI thread on the worker.
DestroyBegins(p) ==
    /\ blockedOn = NoPane
    /\ pane[p] = "removed" \/ (window = "destroyed" /\ pane[p] \in {"live", "retiring"})
    /\ pane' = [pane EXCEPT ![p] = "deleting"]
    /\ blockedOn' = p
    /\ inTransit' = [inTransit EXCEPT ![p] = FALSE]
    /\ BeginShutdown({p})
    /\ UNCHANGED <<worker, serial, reply, outcome, workspace, window, agreed>>
    /\ KeepWhileCarried(p)

DestroyEnds(p) ==
    /\ blockedOn = p /\ worker[p] = "stopped"
    /\ blockedOn' = NoPane
    /\ pane' = [pane EXCEPT ![p] = "gone"]
    /\ UNCHANGED <<bridge, reply, workspace, window, agreed>>

-----------------------------------------------------------------------------
Next ==
    \/ \E p \in Panes, k \in Kinds, ask \in BOOLEAN : \E s \in Sizes[p] :
          Ask(p, k, ask, s)
    \/ \E p \in Panes, ok \in BOOLEAN : Deliver(p, ok)
    \/ \E p \in Panes :
          \/ Wake(p) \/ Shutdown(p) \/ Retire(p) \/ CommitRemoval(p)
          \/ DestroyBegins(p) \/ DestroyEnds(p)
    \/ \E k \in Kinds, ok \in BOOLEAN : DrainTimer(k, ok)
    \/ \E k \in Kinds, confirmed, ok \in BOOLEAN : Answer(k, confirmed, ok)
    \/ CommitWindowClose \/ DestroyWorkspace

Spec == Init /\ [][Next]_vars

\* Threads run, queued signals, timers and deferred deletions are delivered,
\* and an exit transition ends; nobody has to answer or close anything.
Fairness ==
    /\ \A p \in Panes :
          /\ WF_vars(Wake(p)) /\ WF_vars(Shutdown(p))
          /\ WF_vars(\E ok \in BOOLEAN : Deliver(p, ok))
          /\ WF_vars(CommitRemoval(p)) /\ WF_vars(DestroyEnds(p))
          /\ SF_vars(DestroyBegins(p))
    /\ \A k \in Kinds : WF_vars(\E ok \in BOOLEAN : DrainTimer(k, ok))

FairSpec == Spec /\ Fairness

-----------------------------------------------------------------------------
Requests == [kind : Kinds, ask : BOOLEAN, size : Nat]
Entries == [pane : Panes, id : Nat \ {0}, ask : BOOLEAN, size : Nat]
Outcomes == {"none", "success", "denied", "failed", "busy", "cancelled"}

TypeOK ==
    /\ worker \in [Panes -> {"running", "waiting", "stopped"}]
    /\ stop \in [Panes -> BOOLEAN] /\ closed \in [Panes -> BOOLEAN]
    /\ serial \in [Panes -> Nat]
    /\ request \in [Panes -> Requests]
    /\ reply \in [Panes -> Outcomes \ {"cancelled"}]
    /\ outcome \in [Panes -> Outcomes]
    /\ inTransit \in [Panes -> BOOLEAN]
    /\ pane \in [Panes -> {"live", "retiring", "removed", "deleting", "gone"}]
    /\ queue \in [Kinds -> Seq(Entries)]
    /\ bytes \in [Kinds -> Nat]
    /\ active \in [Kinds -> {None} \cup Panes \X Nat]
    /\ dialog \in [Kinds -> {None} \cup Panes \X Nat]
    /\ timer \in [Kinds -> BOOLEAN]
    /\ window \in {"open", "committed", "destroyed"}
    /\ blockedOn \in Panes \cup {NoPane}
    /\ agreed \subseteq Panes

\* The limits of a queue hold, and its account is what is queued, although it is
\* kept by subtracting what an answer takes out.
AccountsExact ==
    \A k \in Kinds :
        /\ bytes[k] = Total(queue[k])
        /\ Len(queue[k]) <= MaxEntries
        /\ bytes[k] > MaxBytes => k = "write" /\ Len(queue[k]) = 1

Pending == UNION {Range(queue[k]) : k \in Kinds}

\* A worker that waits will be answered: its request is on its way, queued, or
\* resolved, or its bridge was closed.
RequestNeverLost ==
    \A p \in Panes :
        worker[p] = "waiting" /\ ~closed[p] /\ reply[p] = "none" =>
            inTransit[p] \/ \E e \in Pending : e.pane = p /\ e.id = serial[p]

\* A queue never stalls and no answer is taken for another request's: either its
\* head needs the user and is what the open dialog asks about, or no dialog is
\* open and a drain is coming for whatever is queued.
DialogFollowsQueue ==
    \A k \in Kinds :
        IF active[k] = None
        THEN dialog[k] = None /\ (queue[k] # <<>> => timer[k])
        ELSE /\ dialog[k] = active[k] /\ queue[k] # <<>>
             /\ active[k] = Name(Head(queue[k])) /\ Head(queue[k]).ask

\* What applications and the user are promised.
Consent == INSTANCE ClipboardConsent WITH
    asking <- {p \in Panes : worker[p] = "waiting"},
    free <- {p \in Panes : worker[p] = "waiting" /\ ~request[p].ask},
    agreed <- agreed,
    closing <- {p \in Panes : closed[p]}

ImplementsConsent == Consent!Spec

\* An application is kept waiting by nobody but the user: it is answered, or
\* some dialog is open.  And a worker that is to shut down does so even while the
\* user ignores its dialog, so the GUI thread, which blocks on it in the
\* destructor, goes on.
NobodyIsStuck ==
    \A p \in Panes :
        /\ worker[p] = "waiting"
              ~> (worker[p] # "waiting" \/ \E k \in Kinds : dialog[k] # None)
        /\ stop[p] ~> worker[p] = "stopped"
=============================================================================
