-------------------------- MODULE SessionLifecycle --------------------------
(***************************************************************************)
(* One SessionWorker from initialize() to destroyTerminal(): the bounded   *)
(* reads from the PTY and the gating of the read notifier, the observation *)
(* of the child's exit and the final drain, the wait for a key, key        *)
(* sequences that straddle the exit, and shutdown()                        *)
(* (session/session_worker.cpp).                                           *)
(*                                                                         *)
(* The worker's slots run to completion on its thread, one action each;    *)
(* shutdown() blocks that thread, so the child acts between its steps.     *)
(* The kernel and the child are the environment: the PTY holds at most     *)
(* Capacity chunks, the child may close its terminal and open it again,    *)
(* and a job it left behind may keep writing after it has exited.  Output  *)
(* is counted in chunks, which the PTY keeps in order.                     *)
(***************************************************************************)
EXTENDS Naturals, Sequences

CONSTANTS
    Capacity,    \* chunks the kernel buffers between child and worker
    ReadBudget,  \* kMaximumReadPerActivation
    FinalLimit,  \* kMaximumFinalRead
    MaxProduced  \* bound: chunks ever written

\* The final read limit (8 MiB) exceeds what a PTY buffers.
ASSUME LifecycleAssumption ==
    /\ Capacity \in Nat \ {0} /\ ReadBudget \in Nat \ {0}
    /\ FinalLimit \in Nat /\ Capacity <= FinalLimit
    /\ MaxProduced \in Nat

VARIABLES
    pc,           \* where the worker is: see TypeOK
    child,        \* "none", "running", "zombie", "reaped"
    slave,        \* somebody has the terminal side of the PTY open
    produced,     \* chunks written to it
    atExit,       \* history: chunks written when the child exited
    shown,        \* chunks parsed by the terminal
    fd,           \* masterFd_ >= 0
    pid,          \* childPid_ > 0
    readOn,       \* the read notifier exists and is enabled
    hungUp,       \* history: the notifier was disabled by EOF or EIO
    continuation, \* the zero timer of a read that ran out of budget is armed
    waiting,      \* waitingForExitKey_
    staged,       \* the staged key sequence: "none", "empty" or "bytes"
    leader,       \* the pane has staged a key and not resolved it
    requested,    \* the pane has asked for the shutdown
    kernelReaps,  \* SIGCHLD is ignored: children are reaped unseen
    signals       \* what the pane was told

kernel == <<child, slave, produced, atExit, kernelReaps>>
keys == <<staged, leader>>
vars == <<pc, child, slave, produced, atExit, shown, fd, pid, readOn, hungUp,
          continuation, waiting, staged, leader, requested,
          kernelReaps, signals>>

Init ==
    /\ pc = "new"
    /\ child = "none"
    /\ slave = FALSE
    /\ produced = 0 /\ atExit = 0 /\ shown = 0
    /\ fd = FALSE /\ pid = FALSE
    /\ readOn = FALSE /\ hungUp = FALSE /\ continuation = FALSE
    /\ waiting = FALSE
    /\ staged = "none" /\ leader = FALSE
    /\ requested = FALSE
    /\ kernelReaps \in BOOLEAN
    /\ signals = <<>>

Unread == produced - shown
Least(m, n) == IF m <= n THEN m ELSE n

-----------------------------------------------------------------------------
(* The child and the kernel *)

\* The child, or a job it left behind, writes into the terminal.
Write ==
    /\ slave /\ fd
    /\ Unread < Capacity /\ produced < MaxProduced
    /\ produced' = produced + 1
    /\ UNCHANGED <<pc, child, slave, atExit, shown, fd, pid, readOn, hungUp,
                   continuation, waiting, keys, requested, kernelReaps, signals>>

\* The child closes its last descriptor of the terminal, or opens it again.
SetSlave(open) ==
    /\ child = "running" /\ slave # open
    /\ slave' = open
    /\ UNCHANGED <<pc, child, produced, atExit, shown, fd, pid, readOn, hungUp,
                   continuation, waiting, keys, requested, kernelReaps, signals>>

\* The child exits; a job may keep the terminal open.
Exit ==
    /\ child = "running"
    /\ child' = IF kernelReaps THEN "reaped" ELSE "zombie"
    /\ atExit' = produced
    /\ slave' \in {FALSE, slave}
    /\ UNCHANGED <<pc, produced, shown, fd, pid, readOn, hungUp, continuation,
                   waiting, keys, requested, kernelReaps, signals>>

JobsEnd ==
    /\ child \in {"zombie", "reaped"} /\ slave
    /\ slave' = FALSE
    /\ UNCHANGED <<pc, child, produced, atExit, shown, fd, pid, readOn, hungUp,
                   continuation, waiting, keys, requested, kernelReaps, signals>>

-----------------------------------------------------------------------------
(* Steps of the worker's slots *)

\* Mutant: the last read keeps to the interactive budget.
DrainsLittle == shown' = shown + Least(Unread, ReadBudget)

\* drainPty(true): everything the PTY holds, up to the final limit.
FinalDrain == shown' = shown + Least(Unread, FinalLimit)

\* closePty(), called with waitingForExitKey_ = wait.
ClosePty(wait) ==
    /\ fd' = FALSE
    /\ readOn' = FALSE
    /\ waiting' = wait
    /\ IF wait
       THEN UNCHANGED keys
       ELSE staged' = "none" /\ UNCHANGED leader

Announce == signals' = Append(signals, "exited")

\* Mutant: the interrupted read relies on the disabled notifier.
DrainForgets(on, pending) ==
    \E n \in 0..Least(Unread, ReadBudget) :
        /\ shown' = shown + n
        /\ readOn' = (on /\ slave /\ n = Unread)
        /\ hungUp' = (hungUp \/ ~slave)
        /\ continuation' = pending

\* drainPty(false), entered with the notifier in state on: it reads until the
\* PTY is empty, the other side is gone, or a budget of bytes or of time is
\* spent.  pending: a continuation is queued already.
Drain(on, pending) ==
    \E n \in 0..Least(Unread, ReadBudget) :
        /\ shown' = shown + n
        /\ \/ /\ n > 0
              /\ readOn' = FALSE
              /\ continuation' = TRUE
              /\ UNCHANGED hungUp
           \/ /\ n = Unread /\ n < ReadBudget
              /\ readOn' = (on /\ slave)
              /\ hungUp' = (hungUp \/ ~slave)
              /\ continuation' = pending

-----------------------------------------------------------------------------
(* The worker's slots *)

\* initialize() and spawnChild(): either may fail, and both failures are
\* announced as an exit.
Initialize(ok) ==
    /\ pc = "new"
    /\ IF ok
       THEN /\ pc' = "up"
            /\ child' = "running" /\ slave' = TRUE
            /\ fd' = TRUE /\ pid' = TRUE /\ readOn' = TRUE
            /\ UNCHANGED signals
       ELSE /\ pc' = "closed"
            /\ Announce
            /\ UNCHANGED <<child, slave, fd, pid, readOn>>
    /\ UNCHANGED <<produced, atExit, shown, hungUp, continuation, waiting, keys,
                   requested, kernelReaps>>

\* readFromPty(): the notifier reports data or the end of it.
ReadFromPty ==
    /\ pc = "up" /\ readOn
    /\ Unread > 0 \/ ~slave
    /\ Drain(readOn, continuation)
    /\ UNCHANGED <<pc, kernel, fd, pid, waiting, keys, requested, signals>>

\* The queued continuation of an interrupted read.
Continue ==
    /\ pc \in {"up", "closed"} /\ continuation
    /\ IF fd
       THEN Drain(TRUE, FALSE)
       ELSE /\ continuation' = FALSE
            /\ UNCHANGED <<shown, readOn, hungUp>>
    /\ UNCHANGED <<pc, kernel, fd, pid, waiting, keys, requested, signals>>

\* waitpid has the status, or finds that the child was reaped by somebody else;
\* only the first may leave the session waiting for a key.
Exited(wait) == child = "zombie" \/ (child = "reaped" /\ ~wait)

\* Mutant: the reaped child's pid is kept.
KeepPid == UNCHANGED pid
ForgetPid == pid' = FALSE

\* checkChild() finds that the child has ended.
CheckChild(wait) ==
    /\ pc = "up" /\ pid
    /\ Exited(wait)
    /\ FinalDrain
    /\ child' = "reaped"
    /\ pc' = "closed"
    /\ ForgetPid
    /\ ClosePty(wait)
    /\ Announce
    /\ UNCHANGED <<slave, produced, atExit, kernelReaps, hungUp, continuation,
                   requested>>

\* A key press or a committed text that encodes to bytes.
SendKey ==
    /\ pc \in {"up", "closed"} /\ waiting
    /\ waiting' = FALSE
    /\ signals' = Append(signals, "dismissed")
    /\ UNCHANGED <<pc, kernel, shown, fd, pid, readOn, hungUp, continuation,
                   keys, requested>>

\* stageSequenceKey(): the leader of a key sequence, which may encode to
\* nothing.
StageSequenceKey(bytes) ==
    /\ pc \in {"up", "closed"}
    /\ staged' = IF bytes THEN "bytes" ELSE IF staged = "none" THEN "empty" ELSE staged
    /\ leader' = TRUE
    /\ UNCHANGED <<pc, kernel, shown, fd, pid, readOn, hungUp, continuation,
                   waiting, requested, signals>>

\* Mutant: a flushed sequence leaves the session waiting.
ResolveKeepsWaiting(flush, current) ==
    /\ pc \in {"up", "closed"} /\ leader
    /\ leader' = FALSE
    /\ staged' = "none"
    /\ signals' = IF (flush /\ (staged = "bytes" \/ current)) /\ waiting
                  THEN Append(signals, "dismissed") ELSE signals
    /\ UNCHANGED <<pc, kernel, shown, fd, pid, readOn, hungUp, continuation,
                   waiting, requested>>

\* resolveSequence(): flush or drop the staged keys, and send the current one.
\* A sequence that was cleared meanwhile is stale and resolves to nothing.
ResolveSequence(flush, current) ==
    /\ pc \in {"up", "closed"} /\ leader
    /\ leader' = FALSE
    /\ staged' = "none"
    /\ IF staged # "none" /\ flush /\ (staged = "bytes" \/ current) /\ waiting
       THEN waiting' = FALSE /\ signals' = Append(signals, "dismissed")
       ELSE UNCHANGED <<waiting, signals>>
    /\ UNCHANGED <<pc, kernel, shown, fd, pid, readOn, hungUp, continuation,
                   requested>>

-----------------------------------------------------------------------------
(* Shutdown *)

\* beginShutdown() or the destructor posts it.
RequestShutdown ==
    /\ ~requested
    /\ requested' = TRUE
    /\ UNCHANGED <<pc, kernel, shown, fd, pid, readOn, hungUp, continuation,
                   waiting, keys, signals>>

\* shutdown() hangs up the child's process group and waits for it.
Shutdown ==
    /\ requested /\ pc \in {"up", "closed"}
    /\ waiting' = FALSE
    /\ pc' = IF pid THEN "grace" ELSE "closing"
    /\ UNCHANGED <<kernel, shown, fd, pid, readOn, hungUp, continuation, keys,
                   requested, signals>>

\* The child was reaped within the grace, or after SIGKILL.
ShutdownReaps ==
    /\ pc \in {"grace", "killing"}
    /\ child \in {"zombie", "reaped"}
    /\ child' = "reaped"
    /\ FinalDrain
    /\ pid' = FALSE
    /\ pc' = "closing"
    /\ UNCHANGED <<slave, produced, atExit, kernelReaps, fd, readOn, hungUp,
                   continuation, waiting, keys, requested, signals>>

\* Mutant: the grace has no deadline.
GraceNeverExpires ==
    /\ pc = "grace" /\ child = "running"
    /\ UNCHANGED vars

\* kShutdownGraceMilliseconds have passed: SIGKILL, then an unbounded wait.
GraceExpires ==
    /\ pc = "grace" /\ child = "running"
    /\ pc' = "killing"
    /\ UNCHANGED <<kernel, shown, fd, pid, readOn, hungUp, continuation,
                   waiting, keys, requested, signals>>

\* closePty() and destroyTerminal().
ShutdownEnds ==
    /\ pc = "closing"
    /\ ClosePty(FALSE)
    /\ pc' = "torn"
    /\ UNCHANGED <<kernel, shown, pid, hungUp, continuation, requested, signals>>

-----------------------------------------------------------------------------
Worker ==
    \/ \E ok \in BOOLEAN : Initialize(ok)
    \/ ReadFromPty \/ Continue
    \/ \E wait \in BOOLEAN : CheckChild(wait)
    \/ SendKey
    \/ \E bytes \in BOOLEAN : StageSequenceKey(bytes)
    \/ \E flush, current \in BOOLEAN : ResolveSequence(flush, current)
    \/ Shutdown \/ GraceExpires \/ ShutdownReaps \/ ShutdownEnds

Environment ==
    \/ Write \/ Exit \/ JobsEnd
    \/ \E open \in BOOLEAN : SetSlave(open)
    \/ RequestShutdown

Next == Worker \/ Environment

Spec == Init /\ [][Next]_vars

\* The worker's event loop serves every ready slot in turn (a read that keeps
\* finding data yields to the others), and SIGKILL ends the child.
Fairness ==
    /\ WF_vars(\E ok \in BOOLEAN : Initialize(ok))
    /\ WF_vars(ReadFromPty)
    /\ WF_vars(Continue)
    /\ WF_vars(\E wait \in BOOLEAN : CheckChild(wait))
    /\ WF_vars(Shutdown)
    /\ WF_vars(GraceExpires)
    /\ WF_vars(ShutdownReaps)
    /\ WF_vars(ShutdownEnds)
    /\ WF_vars(pc = "killing" /\ Exit)

FairSpec == Spec /\ Fairness

-----------------------------------------------------------------------------
TypeOK ==
    /\ pc \in {"new", "up", "closed", "grace", "killing", "closing", "torn"}
    /\ child \in {"none", "running", "zombie", "reaped"}
    /\ slave \in BOOLEAN
    /\ produced \in Nat /\ atExit \in 0..produced /\ shown \in 0..produced
    /\ fd \in BOOLEAN /\ pid \in BOOLEAN
    /\ readOn \in BOOLEAN /\ hungUp \in BOOLEAN /\ continuation \in BOOLEAN
    /\ waiting \in BOOLEAN
    /\ staged \in {"none", "empty", "bytes"} /\ leader \in BOOLEAN
    /\ requested \in BOOLEAN /\ kernelReaps \in BOOLEAN
    /\ signals \in Seq({"exited", "dismissed"})

\* "Child exit triggers a final PTY drain before the terminal is marked
\* complete": when the exit is announced, everything the child wrote before it
\* exited has been parsed, however much of it the notifier never delivered.
FinalOutputShown ==
    pc = "closed" => shown >= atExit

\* Reading never stops by accident: while the PTY is open and nobody has hung
\* up, either the notifier is on or a continuation will turn it on, and never
\* both, so an interrupted read yields to the other slots.
ReadStaysArmed ==
    /\ fd /\ pc = "up" => readOn \/ continuation \/ hungUp
    /\ ~(readOn /\ continuation)

\* The process group that shutdown hangs up and kills is its child's: a pid
\* that was reaped, and may be somebody else's by now, is never kept.
PidIsOurs ==
    pid /\ ~kernelReaps => child \in {"running", "zombie"}

\* No child is left as a zombie or running once its session is over.
ChildrenReaped ==
    pc \in {"closed", "closing", "torn"} => child \in {"none", "reaped"}

\* A key sequence begun before the exit still belongs to the pane's leader
\* while the session waits for a key, so that resolving it can dismiss it.
LeaderOutlivesExit ==
    waiting /\ leader => staged # "none"

\* The worker implements what the pane is promised.
Session == INSTANCE TerminalSession WITH
    phase <- CASE pc = "new" -> "starting"
               [] pc = "up" -> "running"
               [] pc = "closed" ->
                    IF waiting THEN "waiting"
                    ELSE IF Len(signals) = 2 THEN "dismissed" ELSE "ended"
               [] OTHER -> "gone"

ImplementsSession == Session!Spec

\* A shutdown ends, even when the child ignores SIGHUP: the destructor, which
\* blocks the GUI thread on it, returns.
ShutdownCompletes == requested ~> pc = "torn"

\* Nothing the child does goes unnoticed: its output reaches the terminal while
\* the PTY has not been hung up, and its exit is announced, unless the session
\* is shut down first.
ChildObserved ==
    /\ \A n \in 1..MaxProduced :
          (pc = "up" /\ produced >= n) ~> (shown >= n \/ hungUp \/ pc # "up")
    /\ (pc = "up" /\ child \in {"zombie", "reaped"})
          ~> (signals # <<>> \/ pc # "up")
=============================================================================
