------------------------------ MODULE KeyInput ------------------------------
(***************************************************************************)
(* How a pane routes keyboard input (workspace/terminal_pane.cpp, with the *)
(* tokens and the requests of session/terminal_controller.cpp): a press is *)
(* looked up in the bindings, a leader waits with the worker for the rest  *)
(* of its sequence, and a binding runs its chain of actions.               *)
(* An action may be the worker's to do; until it has answered, everything  *)
(* typed is deferred, and then replayed in order.                          *)
(*                                                                         *)
(* What the bindings are is left open: a lookup may find whatever the      *)
(* state of the sequence allows, and an action does what it likes. The GUI *)
(* thread handles one event at a time; an event that runs a chain or       *)
(* replays input takes several steps here, between which the worker may    *)
(* run and other events may not (Busy).                                    *)
(***************************************************************************)
EXTENDS KeyStaging, FiniteSets, FiniteSetsExt

CONSTANTS
    Keys,
    MaxTyped,  \* bound: presses and commits
    MaxAsked,  \* bound: actions of a binding that are the worker's
    MaxQueued, \* bound: messages in the worker's queue when a key is typed
    MaxLosses, \* bound: losses of the focus
    MaxTypedAtEnd \* bound: the same, when the child or the pane ends

ASSUME InputAssumption ==
    /\ {MaxTyped, MaxAsked, MaxQueued, MaxLosses, MaxTypedAtEnd} \subseteq Nat
    /\ MaxTypedAtEnd <= MaxTyped

VARIABLES
    typed,    \* presses and commits so far
    held,     \* per key: its press while it is down, or 0
    focus,    \* keyFocusEpoch_
    deferred, \* deferredInputs_
    consumed, \* consumedKeys_: presses, of which the code keeps the keys
    leaders,  \* the presses of the active sequence, see TokenOf
    chain,    \* the binding whose actions run, or NoChain
    life,     \* open; exiting, once the controller has handled the child's
              \* end, and exited, once the pane has; closing
    eaten     \* history: presses and releases that must not be written

bindings == <<consumed, leaders, eaten>>
pane == <<typed, held, focus, deferred, bindings, chain, life>>
vars == <<pane, worker_vars>>

NoChain == [phase |-> "none"]
Running == chain.phase = "running"
Locked == chain # NoChain \/ deferred # <<>>

\* An event is being handled: nothing else reaches the pane.
Busy == Running \/ (chain = NoChain /\ deferred # <<>>) \/ life = "exiting"

Press(i) == [kind |-> "press", n |-> i.n]
Release(i) == [kind |-> "release", n |-> i.n]

\* activeSequenceToken_ of the pane, or sequenceToken of a chain.
TokenOf(presses) ==
    IF presses = {} THEN 0 ELSE Min({p.n : p \in presses})

Init ==
    /\ typed = 0 /\ held = [k \in Keys |-> 0] /\ focus = 0
    /\ deferred = <<>> /\ consumed = {} /\ leaders = {} /\ eaten = {}
    /\ chain = NoChain /\ life = "open"
    /\ WorkerInit

-----------------------------------------------------------------------------
\* Sequences.

\* Mutant: the worker is not told.
DroppedHere(presses) == <<>>

\* The sequence is resolved as Drop: its leaders must not be written.
Dropped(presses) ==
    IF presses = {} THEN <<>> ELSE <<Resolve(TokenOf(presses), FALSE, <<>>)>>

CancelSequence ==
    /\ leaders' = {}
    /\ eaten' = eaten \cup {Press(p) : p \in leaders}

\* resolveSequenceToken() with the current key or, without a sequence, the
\* key alone.
Through(presses, press) ==
    IF presses = {} THEN <<Key(press)>>
    ELSE <<Resolve(TokenOf(presses), TRUE, <<press>>)>>

-----------------------------------------------------------------------------
\* A press, a release or a commit that is not deferred.

PressUnmatched(i) ==
    /\ leaders = {}
    /\ Post(<<Key(i)>>)
    /\ UNCHANGED <<bindings, chain>>

PressLeads(i) ==
    /\ leaders' = leaders \cup {i}
    /\ Post(<<Stage(TokenOf(leaders'), i)>>)
    /\ UNCHANGED <<consumed, eaten, chain>>

PressInvalid(i) ==
    /\ leaders # {}
    /\ leaders' = {}
    /\ Post(Through(leaders, i))
    /\ UNCHANGED <<consumed, eaten, chain>>

\* A catch-all binding ignores what it does not know.
PressIgnored(i) ==
    /\ leaders # {}
    /\ leaders' = {}
    /\ eaten' = eaten \cup {Press(p) : p \in leaders \cup {i}}
    /\ Post(Dropped(leaders))
    /\ UNCHANGED <<consumed, chain>>

\* The sequence passes to the chain of the binding.
PressBinds(i) ==
    /\ chain' = [phase |-> "running", press |-> i, focus |-> focus,
                 leaders |-> leaders, left |-> MaxAsked,
                 performed |-> FALSE, delayed |-> FALSE]
    /\ leaders' = {}
    /\ UNCHANGED <<consumed, eaten, down>>

HandlePress(i) ==
    \/ PressUnmatched(i) \/ PressLeads(i) \/ PressInvalid(i)
    \/ PressIgnored(i) \/ PressBinds(i)

HandleRelease(i) ==
    LET same == {c \in consumed : c.key = i.key} IN
    /\ consumed' = consumed \ same
    /\ Post(IF same = {} THEN <<Key(i)>> ELSE <<>>)
    /\ UNCHANGED <<leaders, eaten, chain>>

Commit(i) == Post(<<Key(i)>>) /\ UNCHANGED <<bindings, chain>>

-----------------------------------------------------------------------------
\* Input events.

Item(kind, key, n) ==
    [kind |-> kind, key |-> key, n |-> n, focus |-> focus,
     late |-> chain # NoChain]

\* Bounds on what is explored: nothing is typed into a pane that knows its
\* child or itself to end; and an end comes early.
Handles == ~Busy /\ life = "open" /\ Len(down) <= MaxQueued
MayEnd == life # "closing" /\ typed <= MaxTypedAtEnd
MayType ==
    /\ Handles
    /\ typed < (IF worker.phase = "running" THEN MaxTyped ELSE MaxTypedAtEnd)

\* While an action is out, an input is deferred.
Defer(i) ==
    /\ chain # NoChain
    /\ deferred' = Append(deferred, i)
    /\ UNCHANGED <<bindings, chain, down>>

KeyPressed(k) ==
    /\ MayType /\ held[k] = 0
    /\ typed' = typed + 1
    /\ held' = [held EXCEPT ![k] = typed']
    /\ LET i == Item("press", k, typed') IN
       \/ Defer(i)
       \/ chain = NoChain /\ HandlePress(i) /\ UNCHANGED deferred
    /\ UNCHANGED <<focus, life, up, worker, history>>

KeyReleased(k) ==
    /\ Handles /\ held[k] # 0
    /\ held' = [held EXCEPT ![k] = 0]
    /\ LET i == Item("release", k, held[k]) IN
       \/ Defer(i)
       \/ chain = NoChain /\ HandleRelease(i) /\ UNCHANGED deferred
    /\ UNCHANGED <<typed, focus, life, up, worker, history>>

\* Mutant: a commit does not wait for the action.
TextCommittedAtOnce ==
    /\ MayType
    /\ typed' = typed + 1
    /\ CancelSequence
    /\ Post(Append(Dropped(leaders), Key(Item("commit", "none", typed'))))
    /\ UNCHANGED <<held, focus, deferred, consumed, chain, life, up,
                   worker, history>>

\* An input method cancels the sequence at once, even when what it commits
\* is deferred.
TextCommitted ==
    /\ MayType
    /\ typed' = typed + 1
    /\ CancelSequence
    /\ LET i == Item("commit", "none", typed') IN
       IF chain # NoChain
       THEN deferred' = Append(deferred, i) /\ Post(Dropped(leaders))
       ELSE Post(Append(Dropped(leaders), Key(i))) /\ UNCHANGED deferred
    /\ UNCHANGED <<held, focus, consumed, chain, life, up, worker, history>>

\* New bindings or modifier mappings; likewise text an input method composes.
BindingsReplaced ==
    /\ Handles /\ leaders # {}
    /\ CancelSequence
    /\ Post(Dropped(leaders))
    /\ UNCHANGED <<typed, held, focus, deferred, consumed, chain, life,
                   up, worker, history>>

\* The action end_key_sequence asked for from outside a chain.
SequenceEnded ==
    /\ Handles /\ leaders # {}
    /\ leaders' = {}
    /\ Post(<<Resolve(TokenOf(leaders), TRUE, <<>>)>>)
    /\ UNCHANGED <<typed, held, focus, deferred, consumed, eaten, chain,
                   life, up, worker, history>>

\* The focus leaves and, before anything else is typed, returns. The
\* releases of the keys that are down go elsewhere; those that wait to be
\* replayed lose the mark that their press was consumed.
FocusLost ==
    /\ Handles /\ focus < MaxLosses
    /\ focus' = focus + 1
    /\ held' = [k \in Keys |-> 0]
    /\ consumed' = {}
    /\ eaten' = eaten \ {Release(c) : c \in consumed}
    /\ UNCHANGED <<typed, deferred, leaders, chain, life, worker_vars>>

-----------------------------------------------------------------------------
\* The chain of actions of a binding.

RunsChain == UNCHANGED <<typed, held, focus, deferred, up, worker, history>>

\* An action of the pane, the workspace or the application that does
\* something. One that does nothing leaves no trace.
ChainPerforms ==
    /\ Running /\ ~chain.performed
    /\ chain' = [chain EXCEPT !.performed = TRUE]
    /\ RunsChain /\ UNCHANGED <<bindings, life, down>>

\* The action end_key_sequence: the leaders are input after all.
ChainEndsSequence ==
    /\ Running /\ chain.leaders # {}
    /\ Post(<<Resolve(TokenOf(chain.leaders), TRUE, <<>>)>>)
    /\ chain' = [chain EXCEPT !.performed = TRUE, !.leaders = {}]
    /\ RunsChain /\ UNCHANGED <<bindings, life>>

Request == <<chain.press.n, chain.left>>

\* An action of the worker. Input waits from here to the end of the chain.
ChainAsks ==
    /\ Running /\ chain.left > 0 /\ life # "closing"
    /\ Post(<<Action(Request)>>)
    /\ chain' = [chain EXCEPT !.left = @ - 1, !.phase = "pending",
                              !.delayed = TRUE]
    /\ RunsChain /\ UNCHANGED <<bindings, life>>

\* What becomes of the key: consumed with its release (a closing action, or
\* a binding that is not unconsumed:), alone (the action ignore), or passed
\* on (unconsumed:, or performable: and nothing was performed).
Handlings(performed) ==
    {"both", "through"} \cup (IF performed THEN {"press"} ELSE {})

\* Mutant: after a loss of the focus the release is not looked for.
ReleaseComesInFocus == ~chain.delayed \/ chain.focus = focus

\* A release is coming that is for the pane to swallow.
ReleaseComes ==
    \/ ~chain.delayed
    \/ chain.focus = focus
    \/ \E k \in DOMAIN deferred :
         /\ deferred[k].kind = "release"
         /\ deferred[k].focus = chain.focus
         /\ deferred[k].key = chain.press.key

ChainFinishes ==
    LET press == chain.press
        dropped == {Press(p) : p \in chain.leaders \cup {press}}
        release == IF chain.focus = press.focus THEN {Release(press)} ELSE {}
    IN
    /\ Running
    /\ \E handling \in Handlings(chain.performed) :
         /\ Post(IF handling = "through" THEN Through(chain.leaders, press)
                 ELSE Dropped(chain.leaders))
         /\ eaten' = CASE handling = "both" -> eaten \cup dropped \cup release
                       [] handling = "press" -> eaten \cup dropped
                       [] OTHER -> eaten
         /\ consumed' = IF handling = "both" /\ ReleaseComes
                        THEN consumed \cup {press} ELSE consumed
    /\ chain' = NoChain
    /\ RunsChain /\ UNCHANGED <<leaders, life>>

\* When the chain is done the deferred inputs are replayed. One of them may
\* start a chain, and the rest then waits on.
Replay ==
    LET i == Head(deferred) IN
    /\ chain = NoChain /\ deferred # <<>>
    /\ deferred' = Tail(deferred)
    /\ CASE i.kind = "press" -> HandlePress(i)
         [] i.kind = "release" -> HandleRelease(i)
         [] OTHER -> Commit(i)
    /\ UNCHANGED <<typed, held, focus, life, up, worker, history>>

-----------------------------------------------------------------------------
\* Answers, the end of the child and the end of the pane.

Resumed == [chain EXCEPT !.phase = "running"]

Waits(id) ==
    chain.phase = "pending" /\ id = <<chain.press.n, chain.left + 1>>

AnswerArrives ==
    /\ ~Busy /\ up # <<>> /\ Head(up).kind = "answer"
    /\ up' = Tail(up)
    /\ IF Waits(Head(up).id)
       THEN \E done \in {chain.performed, TRUE} :
              chain' = [Resumed EXCEPT !.performed = done]
       ELSE UNCHANGED chain
    /\ UNCHANGED <<typed, held, focus, deferred, bindings, life, down,
                   worker, history>>

\* The controller fails every request, which may let the chain go on ...
ExitArrives ==
    /\ ~Busy /\ up # <<>> /\ Head(up).kind = "exited"
    /\ up' = Tail(up)
    /\ life' = IF life = "open" THEN "exiting" ELSE life
    /\ chain' = IF chain.phase = "pending" THEN Resumed ELSE chain
    /\ UNCHANGED <<typed, held, focus, deferred, bindings, down,
                   worker, history>>

\* Mutant: the pane waits for the worker's answer.
KeepWaiting == UNCHANGED chain

\* failStaleTerminalActionCompletions(), after the epoch has moved on.
FailStale ==
    chain' = IF chain.phase = "pending" THEN Resumed ELSE chain

\* ... then the pane moves to the next epoch.
ExitHandled ==
    /\ life = "exiting" /\ ~Running /\ (chain = NoChain => deferred = <<>>)
    /\ life' = "exited"
    /\ FailStale
    /\ UNCHANGED <<typed, held, focus, deferred, bindings, worker_vars>>

\* The worker is told to stop before the chain goes on, so that what is
\* replayed then reaches no child.
BeginShutdown ==
    /\ ~Busy /\ MayEnd
    /\ life = "open" => worker.phase \in {"absent", "running"}
    /\ life' = "closing"
    /\ CancelStart
    /\ FailStale
    /\ UNCHANGED <<typed, held, focus, deferred, bindings, up, history>>

-----------------------------------------------------------------------------
User ==
    \/ \E k \in Keys : KeyPressed(k) \/ KeyReleased(k)
    \/ TextCommitted \/ FocusLost
    \/ BindingsReplaced \/ SequenceEnded \/ BeginShutdown

\* What the GUI thread's event loop goes on to do by itself.
Gui ==
    \/ ChainPerforms \/ ChainEndsSequence \/ ChainAsks \/ ChainFinishes
    \/ Replay \/ AnswerArrives \/ ExitArrives \/ ExitHandled
    \/ ~Busy /\ SessionStarts /\ UNCHANGED pane

Worker == ~Busy /\ WorkerStep /\ UNCHANGED pane
Files == ~Busy /\ (\E id \in worker.jobs : Answers(id)) /\ UNCHANGED pane
Child == ~Busy /\ MayEnd /\ ChildExits /\ UNCHANGED pane

Next == User \/ Gui \/ Worker \/ Files \/ Child

Spec == Init /\ [][Next]_vars

\* Both threads run their event loops, and a file is written or fails.
FairSpec == Spec /\ WF_vars(Gui) /\ WF_vars(Worker) /\ WF_vars(Files)

-----------------------------------------------------------------------------
Inputs == [kind : {"press", "release", "commit"}, key : Keys \cup {"none"},
           n : 1..MaxTyped, focus : 0..MaxLosses, late : BOOLEAN]

TypeOK ==
    /\ typed \in 0..MaxTyped /\ held \in [Keys -> 0..MaxTyped]
    /\ focus \in 0..MaxLosses
    /\ deferred \in Seq(Inputs)
    /\ consumed \subseteq Inputs /\ leaders \subseteq Inputs
    /\ eaten \subseteq [kind : {"press", "release"}, n : 1..MaxTyped]
    /\ life \in {"open", "exiting", "exited", "closing"}
    /\ worker.phase \in Phases /\ worker.token \in 0..MaxTyped

\* Every input on its way to the child, of the messages of the queue.
Carried(m) ==
    CASE m.kind = "key" -> {m.item}
      [] m.kind = "stage" -> {m.item}
      [] m.kind = "resolve" -> {m.current[k] : k \in DOMAIN m.current}
      [] OTHER -> {}

Posted == UNION {Carried(down[k]) : k \in DOMAIN down}

\* What is typed reaches the child in the order it was typed in, leaders
\* that were held back included; and while a chain of actions is not done,
\* nothing typed after its key has left the pane, so that no input overtakes
\* the effect of an action. The exception: text an input method commits
\* cancels the sequence that is active when it arrives, so a commit that
\* itself was deferred overtakes leaders that are replayed before it.
InputInOrder ==
    /\ \A j, k \in DOMAIN sent :
         j < k => \/ sent[j].n < sent[k].n
                  \/ sent[j].kind = "commit" /\ sent[j].late /\ sent[k].late
    /\ chain # NoChain =>
         \A i \in Posted \cup {sent[k] : k \in DOMAIN sent} :
           i.n <= chain.press.n

\* A press that a binding consumed, the leaders of its sequence, and the
\* leaders of a sequence that was cancelled never reach the child; nor does
\* the release of a press that was consumed, unless the pane has lost the
\* focus before the release was seen to.
ConsumedStaysConsumed ==
    /\ \A k \in DOMAIN sent : Press(sent[k]) \notin eaten
    /\ \A n \in released : [kind |-> "release", n |-> n] \notin eaten

Owners ==
    {TokenOf(leaders)} \cup
    (IF chain # NoChain THEN {TokenOf(chain.leaders)} ELSE {})

\* Leaders the worker holds back are never forgotten: as long as it holds
\* some, the pane's sequence or a chain can resolve them, or a message that
\* ends the sequence is on its way.
StagedOwned ==
    worker.token # 0 =>
      \/ worker.token \in Owners
      \/ \E k \in DOMAIN down :
           \/ down[k].kind = "shutdown"
           \/ down[k].kind = "resolve" /\ down[k].token = worker.token

\* Input is never deferred for good: the chain ends, also when the child or
\* the pane does before its action was answered, and what was deferred is
\* replayed.
KeyboardUnlocks == Locked ~> ~Locked

\* "Draining the new epoch must forward both ordinary events without
\* manufacturing a stale consumed-key identity for either release"
\* (tests/test_terminal_pane.cpp:12095-12097): a press marked as consumed is
\* one whose release the pane will see, because the focus was not lost since
\* or the release waits to be replayed.
NoStaleIdentity ==
    \A c \in consumed :
      \/ c.focus = focus
      \/ \E k \in DOMAIN deferred :
           deferred[k].kind = "release" /\ deferred[k].n = c.n
=============================================================================
