----------------------------- MODULE KeyStaging -----------------------------
(***************************************************************************)
(* The worker's side of keyboard input (session/session_worker.cpp): keys  *)
(* and committed text it writes to the child, the leaders of a key         *)
(* sequence it holds back until the pane has resolved the sequence, and    *)
(* the actions of a binding it answers, at once or when a file is written. *)
(*                                                                         *)
(* An input is a press, a release or a commit. Presses and commits are     *)
(* numbered as they are typed, and a release has the number of its press.  *)
(* A sequence's token is the number of its first leader: like the tokens   *)
(* of the controller, which counts, a later sequence has a larger one.     *)
(***************************************************************************)
EXTENDS Naturals, Sequences

VARIABLES
    down,   \* the worker's queue
    up,     \* the GUI's queue: answers to actions, and the end of the child
    worker, \* phase, token, newest, staged: see WorkerInit; jobs: actions
            \* whose file is being written
    sent,   \* history: presses and commits queued for the child, in order,
    released \* and releases; both while it runs

history == <<sent, released>>
worker_vars == <<down, up, worker, history>>

\* The worker does not exist yet, the child runs, or it ended and the terminal
\* is kept, or the worker has shut down, or it will never exist.
Phases == {"absent", "running", "ended", "down", "never"}

WorkerInit ==
    /\ down = <<>> /\ up = <<>> /\ sent = <<>> /\ released = {}
    /\ worker = [phase |-> "absent", token |-> 0, newest |-> 0,
                 staged |-> <<>>, jobs |-> {}]

Key(i) == [kind |-> "key", item |-> i]
Stage(t, i) == [kind |-> "stage", token |-> t, item |-> i]
Resolve(t, flush, current) ==
    [kind |-> "resolve", token |-> t, flush |-> flush, current |-> current]
Action(id) == [kind |-> "action", id |-> id]
Shutdown == [kind |-> "shutdown"]
Answer(id) == [kind |-> "answer", id |-> id]
Exited == [kind |-> "exited"]

\* While there is no worker its queue is pendingWorkerRequests_; once there
\* will be none, nothing is kept.
Post(messages) ==
    down' = IF worker.phase = "never" THEN down ELSE down \o messages

\* createWorkerRuntime(): the worker gets what was kept for it, in order.
SessionStarts ==
    /\ worker.phase = "absent"
    /\ worker' = [worker EXCEPT !.phase = "running"]
    /\ UNCHANGED <<down, up, history>>

\* Shut down, also before the session has started.
CancelStart ==
    IF worker.phase = "absent"
    THEN worker' = [worker EXCEPT !.phase = "never"] /\ down' = <<>>
    ELSE Post(<<Shutdown>>) /\ UNCHANGED worker

\* What is left to say of a press or a commit once it is written.
Written(i) == [kind |-> i.kind, n |-> i.n, late |-> i.late]

Write(items) ==
    IF worker.phase # "running" THEN UNCHANGED history
    ELSE /\ sent' = sent \o [k \in DOMAIN items |-> Written(items[k])]
         /\ UNCHANGED released

\* A release is not numbered of its own: it is known by its press.
WriteRelease(i) ==
    IF worker.phase # "running" THEN UNCHANGED history
    ELSE released' = released \cup {i.n} /\ UNCHANGED sent

Received(kind) ==
    /\ worker.phase # "absent"
    /\ down # <<>> /\ Head(down).kind = kind
    /\ down' = Tail(down)

SendKey ==
    LET i == Head(down).item IN
    /\ Received("key")
    /\ IF i.kind = "release" THEN WriteRelease(i) ELSE Write(<<i>>)
    /\ UNCHANGED <<up, worker>>

\* A leader is held back. One of a sequence that is neither the current one
\* nor newer than every other is ignored; a newer sequence takes over.
StageKey ==
    LET m == Head(down)
        held == IF m.token = worker.token THEN worker.staged ELSE <<>>
    IN
    /\ Received("stage")
    /\ worker' =
         IF m.token # worker.token /\ m.token <= worker.newest THEN worker
         ELSE [worker EXCEPT !.token = m.token,
                             !.newest = IF m.token = worker.token
                                        THEN worker.newest ELSE m.token,
                             !.staged = IF worker.phase = "down" THEN held
                                        ELSE Append(held, m.item)]
    /\ UNCHANGED <<up, history>>

\* The leaders, and the key that ended the sequence, are written in one go;
\* or the leaders are dropped.
ResolveSequence ==
    LET m == Head(down)
        items == (IF m.flush THEN worker.staged ELSE <<>>) \o m.current
    IN
    /\ Received("resolve")
    /\ IF m.token # worker.token THEN UNCHANGED <<worker, history>>
       ELSE /\ Write(items)
            /\ worker' = [worker EXCEPT !.token = 0, !.staged = <<>>]
    /\ UNCHANGED up

\* An action is answered, at once or, when it writes a file, later.
StartAction ==
    /\ Received("action")
    /\ worker' = [worker EXCEPT !.jobs = @ \cup {Head(down).id}]
    /\ UNCHANGED <<up, history>>

Answers(id) ==
    /\ id \in worker.jobs
    /\ worker' = [worker EXCEPT !.jobs = @ \ {id}]
    /\ up' = Append(up, Answer(id))
    /\ UNCHANGED <<down, history>>

\* A terminal that is to be dismissed by a key keeps its staged leaders, as
\* they are such keys; otherwise they are forgotten.
ChildExits ==
    /\ worker.phase = "running"
    /\ \/ worker' = [worker EXCEPT !.phase = "ended"]
       \/ worker' = [worker EXCEPT !.phase = "ended", !.token = 0,
                                   !.staged = <<>>]
    /\ up' = Append(up, Exited)
    /\ sent' = <<>> /\ released' = {}
    /\ UNCHANGED down

\* The actions whose files are being written are never answered.
WorkerShutdown ==
    /\ Received("shutdown")
    /\ worker' = [worker EXCEPT !.phase = "down", !.token = 0,
                                !.staged = <<>>, !.jobs = {}]
    /\ sent' = <<>> /\ released' = {}
    /\ UNCHANGED up

WorkerStep ==
    SendKey \/ StageKey \/ ResolveSequence \/ StartAction \/ WorkerShutdown
=============================================================================
