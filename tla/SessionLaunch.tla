---------------------------- MODULE SessionLaunch ----------------------------
(***************************************************************************)
(* SessionWorker::spawnChild (session/session_worker.cpp), run by several  *)
(* worker threads of one process at once: the preparation of the shell     *)
(* integration (ShellIntegrationCache), the pipes, forkpty, the handshake  *)
(* with the child and the gate that holds it back until it has been moved  *)
(* to a control group (desktop/linux_cgroup.cpp).                          *)
(*                                                                         *)
(* Every fork copies every descriptor the process has at that moment, so a *)
(* child holds ends of the pipes and PTYs of other launches until it runs  *)
(* its program; an end of file is seen only when the last copy is closed.  *)
(***************************************************************************)
EXTENDS ShellIntegrationCache

CONSTANT
    GoesOnPrepared  \* bound: if FALSE, a launch that prepared an integration
                    \* is followed only until it has the result: its pipes fail

VARIABLES
    holds,     \* the descriptors each process has: the application, the children
    gate,      \* gateChild and linuxCgroup.hardFail: "none", "soft" or "hard"
    ready,     \* a byte waits in childReadyPipe
    decision,  \* what waits in cgroupGate: "none", "go" or "stop"
    move,      \* what came of moving the child: "untried", "moved", "refused"
    child,     \* the child of each launch
    appUp      \* the application has not crashed

launchVars == <<holds, gate, ready, decision, move, child, appUp>>
vars == <<files, edits, cache, pending, flight, stage, prep, seen,
          holds, gate, ready, decision, move, child, appUp>>

App == "application"
Processes == {App} \cup Sessions

ASSUME SessionLaunchAssumption == App \notin Sessions

\* The write end of childReadyPipe, cgroupGate[0] and [1], and the PTY master
\* before and after FD_CLOEXEC is set on it.
Ends == {"ready", "gate", "peer", "bareMaster", "master"}
Own(s, ends) == {<<e, s>> : e \in ends}

Init ==
    /\ CacheInit
    /\ stage = [s \in Sessions |-> "new"]
    /\ holds = [p \in Processes |-> {}]
    /\ gate = [s \in Sessions |-> "none"]
    /\ ready = [s \in Sessions |-> FALSE]
    /\ decision = [s \in Sessions |-> "none"]
    /\ move = [s \in Sessions |-> "untried"]
    /\ child = [s \in Sessions |-> "none"]
    /\ appUp = TRUE

Set(f, s, v) == [f EXCEPT ![s] = v]
Opens(p, ends) == holds' = [holds EXCEPT ![p] = @ \cup ends]
Closes(p, ends) == holds' = [holds EXCEPT ![p] = @ \ ends]
HeldByNobody(end) == \A p \in Processes : end \notin holds[p]

-----------------------------------------------------------------------------
(* The worker threads *)

\* The initial input, the working directory, TERM, the environment and argv are
\* checked before anything is created; the shell integration may be unavailable.
Begin(s) ==
    /\ stage[s] = "new"
    /\ Goes(s, "failed") \/ Goes(s, "prepared")
    /\ UNCHANGED <<cacheVars, launchVars>>

\* socketpair for a child that linux-cgroup gates; without one a soft policy
\* goes on ungated.  Then pipe2(childReadyPipe).
CreatePipes(s) ==
    LET Create(kind) ==
            /\ GoesOnPrepared \/ prep[s] = NoPrep
            /\ gate' = Set(gate, s, kind)
            /\ Opens(App, Own(s, {"ready"} \cup
                                 IF kind = "none" THEN {} ELSE {"gate", "peer"}))
            /\ Goes(s, "pipe")
    IN  /\ stage[s] = "prepared"
        /\ Taken(s)
        /\ \/ \E kind \in {"none", "soft", "hard"} : Create(kind)
           \/ Goes(s, "failed") /\ UNCHANGED <<holds, gate>>
        /\ UNCHANGED <<ready, decision, move, child, appUp>>

\* forkpty opens the PTY, whose master is inherited by whatever is forked and
\* executed before spawnChild sets FD_CLOEXEC ...
OpenPty(s) ==
    /\ stage[s] = "pipe"
    /\ \/ Opens(App, Own(s, {"bareMaster"})) /\ Goes(s, "pty")
       \/ Closes(App, Own(s, Ends)) /\ Goes(s, "failed")
    /\ UNCHANGED <<cacheVars, gate, ready, decision, move, child, appUp>>

\* ... and forks.  The child gets a copy of everything but its own master.
Fork(s) ==
    /\ stage[s] = "pty"
    /\ \/ /\ child' = Set(child, s, "setup")
          /\ holds' = [holds EXCEPT ![s] = holds[App] \ Own(s, {"bareMaster"})]
          /\ Goes(s, "forked")
       \/ /\ Closes(App, Own(s, Ends))
          /\ Goes(s, "failed")
          /\ UNCHANGED child
    /\ UNCHANGED <<cacheVars, gate, ready, decision, move, appUp>>

\* Mutant: the parent keeps its write end of the pipe it reads from.
ParentKeepsEnds(s) ==
    /\ stage[s] = "forked"
    /\ Closes(App, Own(s, {"peer"}))
    /\ Goes(s, "await")
    /\ UNCHANGED <<cacheVars, gate, ready, decision, move, child, appUp>>

\* The parent closes the child's ends.
ParentCloses(s) ==
    /\ stage[s] = "forked"
    /\ Closes(App, Own(s, {"ready", "peer"}))
    /\ Goes(s, "await")
    /\ UNCHANGED <<cacheVars, gate, ready, decision, move, child, appUp>>

\* The blocking read of childReadyPipe: a byte, or the end of file.
AwaitReady(s) ==
    /\ stage[s] = "await"
    /\ \/ /\ ready[s]
          /\ ready' = Set(ready, s, FALSE)
          /\ Goes(s, IF gate[s] # "none" THEN "move" ELSE "launched")
          /\ UNCHANGED holds
       \/ /\ ~ready[s] /\ HeldByNobody(<<"ready", s>>)
          /\ Closes(App, Own(s, Ends))
          /\ Goes(s, "reap")
          /\ UNCHANGED ready
    /\ UNCHANGED <<cacheVars, gate, decision, move, child, appUp>>

\* moveProcessToLinuxCgroup: the scope is created and the child seen in it, or
\* systemd refuses, does not answer, or is too slow.
Move(s) ==
    /\ stage[s] = "move"
    /\ \E result \in {"moved", "refused"} : move' = Set(move, s, result)
    /\ Goes(s, "release")
    /\ UNCHANGED <<cacheVars, holds, gate, ready, decision, child, appUp>>

PermitLaunch(s) == move[s] = "moved" \/ gate[s] # "hard"

\* Mutant: the launch is given up as soon as it is not permitted, without the
\* decision, the close of the PTY and the wait for the child.
ReleaseForgets(s) ==
    /\ stage[s] = "release"
    /\ IF ~PermitLaunch(s)
       THEN Goes(s, "failed") /\ UNCHANGED <<holds, decision>>
       ELSE /\ decision' = Set(decision, s, "go")
            /\ Closes(App, Own(s, {"gate"}))
            /\ Goes(s, "launched")
    /\ UNCHANGED <<cacheVars, gate, ready, move, child, appUp>>

\* The decision is sent, unless nobody has the other end any more, and the
\* gate closed; without permission, or a reader, the PTY is closed too.
Release(s) ==
    LET sent == ~HeldByNobody(<<"peer", s>>)
        on == sent /\ PermitLaunch(s)
    IN  /\ stage[s] = "release"
        /\ decision' = IF sent
                       THEN Set(decision, s, IF PermitLaunch(s) THEN "go" ELSE "stop")
                       ELSE decision
        /\ Closes(App, Own(s, IF on THEN {"gate"} ELSE Ends))
        /\ Goes(s, IF on THEN "launched" ELSE "reap")
        /\ UNCHANGED <<cacheVars, gate, ready, move, child, appUp>>

\* waitpid, which blocks until the child of a launch that failed has ended.
Reap(s) ==
    /\ stage[s] = "reap" /\ child[s] = "dead"
    /\ child' = Set(child, s, "reaped")
    /\ Goes(s, "failed")
    /\ UNCHANGED <<cacheVars, holds, gate, ready, decision, move, appUp>>

\* The descriptor and the pid are published, and FD_CLOEXEC is set.
Started(s) ==
    /\ stage[s] = "launched"
    /\ holds' = [holds EXCEPT ![App] =
                    (@ \ Own(s, {"bareMaster"})) \cup Own(s, {"master"})]
    /\ Goes(s, "started")
    /\ UNCHANGED <<cacheVars, gate, ready, decision, move, child, appUp>>

LaunchStep(s) ==
    \/ Begin(s) \/ CreatePipes(s) \/ OpenPty(s) \/ Fork(s)
    \/ ParentCloses(s) \/ AwaitReady(s) \/ Move(s) \/ Release(s) \/ Reap(s)
    \/ Started(s)

WorkerStep(s) ==
    /\ appUp
    /\ LaunchStep(s) \/ (PrepareStep(s) /\ UNCHANGED launchVars)

-----------------------------------------------------------------------------
(* The children *)

ChildDoes(s, to) ==
    /\ child' = Set(child, s, to)
    /\ UNCHANGED <<cacheVars, stage, gate, move, appUp>>

\* SIGHUP has its default action again: say so, and wait at the gate.
ChildReady(s) ==
    /\ child[s] = "setup"
    /\ ready' = Set(ready, s, TRUE)
    /\ Closes(s, Own(s, {"ready", "gate"}))
    /\ UNCHANGED decision
    /\ ChildDoes(s, IF gate[s] # "none" THEN "gated" ELSE "released")

\* Mutant: only an explicit refusal keeps the child from going on.
ChildGoesUnlessStopped(s) ==
    /\ child[s] = "gated"
    /\ decision[s] # "none" \/ HeldByNobody(<<"gate", s>>)
    /\ \/ /\ decision[s] # "stop"
          /\ Closes(s, Own(s, {"peer"}))
          /\ ChildDoes(s, "released")
       \/ /\ decision[s] = "stop"
          /\ holds' = [holds EXCEPT ![s] = {}]
          /\ ChildDoes(s, "dead")
    /\ decision' = Set(decision, s, "none")
    /\ UNCHANGED ready

\* The blocking read of the gate: anything but permission ends the child.
ChildDecides(s) ==
    /\ child[s] = "gated"
    /\ decision[s] # "none" \/ HeldByNobody(<<"gate", s>>)
    /\ \/ /\ decision[s] = "go"
          /\ Closes(s, Own(s, {"peer"}))
          /\ ChildDoes(s, "released")
       \/ /\ decision[s] # "go"
          /\ holds' = [holds EXCEPT ![s] = {}]
          /\ ChildDoes(s, "dead")
    /\ decision' = Set(decision, s, "none")
    /\ UNCHANGED ready

\* execve closes all but the masters that were not closed on exec yet.
ChildExecs(s) ==
    /\ child[s] = "released"
    /\ holds' = [holds EXCEPT ![s] = {h \in @ : h[1] = "bareMaster"}]
    /\ ChildDoes(s, "running")
    /\ UNCHANGED <<ready, decision>>

\* A call fails, no candidate can be executed, or the child is killed.
ChildEnds(s) ==
    /\ child[s] \in {"setup", "gated", "released"}
    /\ holds' = [holds EXCEPT ![s] = {}]
    /\ ChildDoes(s, "dead")
    /\ UNCHANGED <<ready, decision>>

ChildStep(s) == ChildReady(s) \/ ChildDecides(s) \/ ChildExecs(s)

\* The application is killed: every descriptor of its is closed.
AppCrashes ==
    /\ appUp
    /\ appUp' = FALSE
    /\ holds' = [holds EXCEPT ![App] = {}]
    /\ UNCHANGED <<cacheVars, stage, gate, ready, decision, move, child>>

Next ==
    \/ \E s \in Sessions : WorkerStep(s) \/ ChildStep(s) \/ ChildEnds(s)
    \/ appUp /\ FilesChange /\ UNCHANGED launchVars
    \/ AppCrashes

Spec == Init /\ [][Next]_vars

\* Threads and children are scheduled; the helper is killed when its deadline
\* has passed, and the calls to systemd have timeouts of their own.
Fairness ==
    \A s \in Sessions : WF_vars(WorkerStep(s)) /\ WF_vars(ChildStep(s))

FairSpec == Spec /\ Fairness

-----------------------------------------------------------------------------
Stages == Preparing \cup {"new", "prepared", "pipe", "pty",
    "forked", "await", "move", "release", "launched", "reap", "started", "failed"}

TypeOK ==
    /\ CacheTypeOK
    /\ stage \in [Sessions -> Stages]
    /\ holds \in [Processes -> SUBSET (Ends \X Sessions)]
    /\ gate \in [Sessions -> {"none", "soft", "hard"}]
    /\ ready \in [Sessions -> BOOLEAN]
    /\ decision \in [Sessions -> {"none", "go", "stop"}]
    /\ move \in [Sessions -> {"untried", "moved", "refused"}]
    /\ child \in [Sessions -> {"none", "setup", "gated", "released", "running",
                               "dead", "reaped"}]
    /\ appUp \in BOOLEAN

\* "every waiter already holding it observes this exact outcome": whatever path
\* a preparation takes, its result answers its own request and comes from files
\* that were in place while it was prepared (unless they were changed back and
\* forth under one helper, which no identity can tell).
PreparedFresh ==
    \A s \in Sessions :
        LET result == prep[s].result
        IN  stage[s] \notin Preparing /\ result.kind = "success" =>
                /\ result.request = prep[s].request
                /\ result.files \in seen[s] \/ result.swapped

\* "hard failure terminates it before user code runs": under a hard policy no
\* child executes its program unless it was moved, even if the application
\* dies; under any policy a gated child waits for the attempt.
GateHolds ==
    \A s \in Sessions :
        child[s] \in {"released", "running"} =>
            /\ gate[s] = "hard" => move[s] = "moved"
            /\ gate[s] = "soft" => move[s] # "untried"

\* A launch that failed leaves nothing behind: no child, running or zombie, and
\* no descriptor in the application.
FailedLeavesNothing ==
    \A s \in Sessions :
        stage[s] = "failed" /\ appUp =>
            /\ child[s] \in {"none", "reaped"}
            /\ \A e \in Ends : <<e, s>> \notin holds[App]

\* Every launch ends, whatever the children of the other launches hold and
\* whoever waits for whose flight, unless the application dies.
LaunchEnds ==
    \A s \in Sessions : []<>(stage[s] \in {"started", "failed"} \/ ~appUp)
=============================================================================
