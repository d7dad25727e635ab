--------------------------- MODULE OrderedEffects ---------------------------
(***************************************************************************)
(* Terminal-file actions of one session: SessionWorker's ordered effect    *)
(* queue, the persistence jobs on the shared pool, and what user input     *)
(* does while a file is being written (session_worker.cpp).                *)
(*                                                                         *)
(* Three kinds of actors interleave.  The worker thread runs one handler   *)
(* at a time.  Pool threads run persistTerminalFile, which looks at the    *)
(* lifetime's receiver (under its mutex) between file-system steps.  A     *)
(* finished job posts an event that the worker handles later.  Shutdown    *)
(* clears the receiver and never waits for a job.                          *)
(*                                                                         *)
(* Submissions (inputs, file requests) are numbered in the order the       *)
(* worker accepts them.  A file on disk is the number of its request.      *)
(***************************************************************************)
EXTENDS Naturals, Sequences, FiniteSets, Subsequences

CONSTANTS
    MaxItems,    \* bound: submissions in a behaviour
    PoolThreads  \* kTerminalFileWriterThreads

ASSUME OrderedEffectsAssumption ==
    /\ MaxItems \in Nat
    /\ PoolThreads \in Nat \ {0}

VARIABLES
    life,      \* "live"; "stopping" (in shutdown, receiver cleared); "gone"
    pty,       \* masterFd_ >= 0
    readOnly,  \* readOnly_
    next,      \* submissions accepted so far
    queue,     \* terminalFileState_->orderedEffects
    job,       \* the persistence job of each request
    events,    \* completions posted to the worker and not handled yet
    disk,      \* requests whose private directory exists
    saved,     \* requests whose job returned a path
    kept,      \* requests whose directory is no longer removed with its owner
    written,   \* history: what the worker handed to queuePtyWrite with a PTY
    results,   \* history: requests answered by terminalActionFinished
    succeeded, \* history: requests answered with Success
    barred,    \* history: pastes requested while the terminal was read-only
    held       \* the press lastTerminalKey_ and heldTerminalModifiers_ stand for, or 0

vars == <<life, pty, readOnly, next, queue, job, events, disk, saved, kept,
          written, results, succeeded, barred, held>>

Items == 1..MaxItems

\* Where a persistence job is: before its first check, before and after the
\* directory is made, finished and about to post, or without a job.
JobStates == {"none", "queued", "checked", "made", "finished"}

Input(i) == [id |-> i, kind |-> "input", ready |-> TRUE, ok |-> FALSE, paste |-> FALSE]
File(i, p) == [id |-> i, kind |-> "file", ready |-> FALSE, ok |-> FALSE, paste |-> p]

Cancelled == life # "live"

Init ==
    /\ life = "live"
    /\ pty = TRUE
    /\ readOnly \in BOOLEAN
    /\ next = 0
    /\ queue = <<>>
    /\ job = [i \in Items |-> "none"]
    /\ events = <<>>
    /\ disk = {}
    /\ saved = {}
    /\ kept = {}
    /\ written = <<>>
    /\ results = <<>>
    /\ succeeded = {}
    /\ barred = {}
    /\ held = 0

-----------------------------------------------------------------------------
(* Worker thread *)

Byte(i) == [kind |-> "bytes", of |-> i]

\* queuePtyWrite drops everything once the PTY is closed.
Writes(items) == IF pty THEN written \o items ELSE written

\* Mutant: only the effect in front is looked at.
DrainsOne(q) == IF q # <<>> /\ q[1].ready THEN 1 ELSE 0

StopsAt(q, n) ==
    /\ \A i \in 1..n : q[i].ready
    /\ n < Len(q) => ~q[n + 1].ready

\* How many effects drainTerminalFileEffects takes: all before the first file
\* that is not ready.
Drainable(q) == CHOOSE n \in 0..Len(q) : StopsAt(q, n)

\* An effect that ends as PTY input: typed bytes, or the path of a paste.
Publishes(e) == e.kind = "input" \/ (e.ok /\ e.paste)

Ids(q) == [i \in DOMAIN q |-> q[i].id]

\* The file effects, the ones that become PTY input, and the ones that
\* succeeded, among the first n.
FilesIn(q, n) == Subsequence(q, {i \in 1..n : q[i].kind = "file"})
PublishedIn(q, n) == Subsequence(q, {i \in 1..n : Publishes(q[i])})
SuccessesIn(q, n) == {q[i].id : i \in {j \in 1..n : q[j].kind = "file" /\ q[j].ok}}

BytesOf(q) == [i \in DOMAIN q |-> Byte(q[i].id)]

\* Mutant: every artifact is kept, a failed one too.
DrainKeepsAll(q) ==
    LET n == Drainable(q)
        done == FilesIn(q, n)
    IN  /\ queue' = SubSeq(q, n + 1, Len(q))
        /\ written' = Writes(BytesOf(PublishedIn(q, n)))
        /\ results' = results \o Ids(done)
        /\ succeeded' = succeeded \union SuccessesIn(q, n)
        /\ kept' = kept \union {done[i].id : i \in DOMAIN done}

\* drainTerminalFileEffects over q; the directories of requests that failed go
\* with their owners.
Drain(q) ==
    LET n == Drainable(q)
    IN  /\ queue' = SubSeq(q, n + 1, Len(q))
        /\ written' = Writes(BytesOf(PublishedIn(q, n)))
        /\ results' = results \o Ids(FilesIn(q, n))
        /\ succeeded' = succeeded \union SuccessesIn(q, n)
        /\ kept' = kept \union SuccessesIn(q, n)

\* Directories whose owning effect left the queue without being kept.
Reclaim(d) ==
    disk' = {i \in d : i \in kept' \/ job[i] # "none" \/
                       (\E e \in DOMAIN queue' : queue'[e].id = i) \/
                       (\E e \in DOMAIN events' : events'[e] = i)}

Completed(q, i, success) ==
    [e \in DOMAIN q |-> IF q[e].id = i THEN [q[e] EXCEPT !.ready = TRUE, !.ok = success]
                                      ELSE q[e]]

\* completeTerminalFileEffect: fill in the request's effect, then drain.
CompleteEffect(q, i, success) == Drain(Completed(q, i, success))

\* Mutant: read-only is not looked at when the file is requested.
PasteAlways(paste) == paste

\* effect.pasteAllowed, decided when the file is requested.
PasteAllowed(paste) == paste /\ ~readOnly

\* writeTerminalFile.  A failure that is known at once still queues behind
\* earlier effects; a snapshot starts a persistence job.
WriteTerminalFile(paste, ready) ==
    LET i == next + 1
        q == Append(queue, File(i, PasteAllowed(paste)))
    IN  /\ life = "live"
        /\ next < MaxItems
        /\ next' = i
        /\ barred' = IF paste /\ readOnly THEN barred \union {i} ELSE barred
        /\ IF ready
           THEN /\ queue' = q
                /\ job' = [job EXCEPT ![i] = "queued"]
                /\ UNCHANGED <<written, results, succeeded, kept>>
           ELSE CompleteEffect(q, i, FALSE) /\ UNCHANGED job
        /\ UNCHANGED <<life, pty, readOnly, events, disk, saved, held>>

\* lastTerminalKey_ and heldTerminalModifiers_ after an encoded key.
HeldAfter(what) ==
    CASE what = "down" -> next + 1 [] what = "up" -> 0 [] OTHER -> held

\* Mutant: input never waits for a file in front of it.
InputBypasses(what) ==
    /\ life = "live" /\ next < MaxItems /\ ~readOnly
    /\ next' = next + 1
    /\ held' = HeldAfter(what)
    /\ written' = Writes(<<Byte(next + 1)>>)
    /\ UNCHANGED <<life, pty, readOnly, queue, job, events, disk, saved, kept,
                   results, succeeded, barred>>

\* User input through queueInputWrite: a key going down or up (sendKey, which
\* wants a PTY) or anything else (text, CSI, wheel, paste).  Read-only input is
\* dropped, and a dropped key is not remembered as held.
SendInput(what) ==
    /\ life = "live" /\ next < MaxItems /\ ~readOnly
    /\ what # "other" => pty
    /\ next' = next + 1
    /\ held' = HeldAfter(what)
    /\ IF queue # <<>>
       THEN queue' = Append(queue, Input(next + 1)) /\ UNCHANGED written
       ELSE written' = Writes(<<Byte(next + 1)>>) /\ UNCHANGED queue
    /\ UNCHANGED <<life, pty, readOnly, job, events, disk, saved, kept,
                   results, succeeded, barred>>

\* setFocused(false) releases held modifiers with queuePtyWrite itself.
FocusLost ==
    /\ life = "live"
    /\ held # 0
    /\ held' = 0
    /\ written' = Writes(<<[kind |-> "release", of |-> held]>>)
    /\ UNCHANGED <<life, pty, readOnly, next, queue, job, events, disk, saved,
                   kept, results, succeeded, barred>>

\* setReadOnly
SetReadOnly ==
    /\ life = "live"
    /\ readOnly' = ~readOnly
    /\ UNCHANGED <<life, pty, next, queue, job, events, disk, saved, kept,
                   written, results, succeeded, barred, held>>

\* The queued lambda of a finished job, run by the worker's event loop.  After
\* shutdown it is discarded, and with it the directory it owns.
Completion ==
    LET i == Head(events)
    IN  /\ events # <<>>
        /\ life # "stopping"
        /\ events' = Tail(events)
        /\ IF Cancelled
           THEN UNCHANGED <<queue, written, results, succeeded, kept>>
           ELSE CompleteEffect(queue, i, i \in saved)
        /\ Reclaim(disk)
        /\ UNCHANGED <<life, pty, readOnly, next, job, saved, barred, held>>

\* The child exited: closePty, which leaves the effects queued.
ChildExit ==
    /\ life = "live" /\ pty
    /\ pty' = FALSE
    /\ held' = 0
    /\ UNCHANGED <<life, readOnly, next, queue, job, events, disk, saved, kept,
                   written, results, succeeded, barred>>

\* shutdown up to the wait for the child: cancelTerminalFileEffects.
Shutdown ==
    /\ life = "live"
    /\ life' = "stopping"
    /\ queue' = <<>>
    /\ UNCHANGED <<kept, events>>
    /\ Reclaim(disk)
    /\ UNCHANGED <<pty, readOnly, next, job, saved, written, results, succeeded,
                   barred, held>>

\* The rest of shutdown, after up to two seconds: closePty, destroyTerminal.
ShutdownEnds ==
    /\ life = "stopping"
    /\ life' = "gone"
    /\ pty' = FALSE
    /\ held' = 0
    /\ UNCHANGED <<readOnly, next, queue, job, events, disk, saved, kept,
                   written, results, succeeded, barred>>

-----------------------------------------------------------------------------
(* Pool threads: persistTerminalFile, cut where it looks at the receiver *)

OnlyJob(i, state) == job' = [job EXCEPT ![i] = state]

Busy == {i \in Items : job[i] \in {"checked", "made", "finished"}}

\* The pool starts jobs in the order they were submitted.
JobStarts(i) ==
    /\ job[i] = "queued"
    /\ \A j \in Items : job[j] = "queued" => i <= j
    /\ Cardinality(Busy) < PoolThreads
    /\ OnlyJob(i, IF Cancelled THEN "finished" ELSE "checked")
    /\ UNCHANGED <<life, pty, readOnly, next, queue, events, disk, saved, kept,
                   written, results, succeeded, barred, held>>

\* The private directory is made, or cannot be.
JobMakesDirectory(i) ==
    /\ job[i] = "checked"
    /\ \/ OnlyJob(i, "made") /\ disk' = disk \union {i}
       \/ OnlyJob(i, "finished") /\ UNCHANGED disk
    /\ UNCHANGED <<life, pty, readOnly, next, queue, events, saved, kept,
                   written, results, succeeded, barred, held>>

\* The file is written (a path is returned), some step fails, or a check finds
\* the session gone and drops the directory on the way out.
JobWrites(i) ==
    /\ job[i] = "made"
    /\ OnlyJob(i, "finished")
    /\ \/ ~Cancelled /\ saved' = saved \union {i} /\ UNCHANGED disk
       \/ UNCHANGED <<saved, disk>>
       \/ Cancelled /\ disk' = disk \ {i} /\ UNCHANGED saved
    /\ UNCHANGED <<life, pty, readOnly, next, queue, events, kept, written,
                   results, succeeded, barred, held>>

\* Under the lifetime's mutex: post the completion, or drop the result.
JobPosts(i) ==
    /\ job[i] = "finished"
    /\ OnlyJob(i, "none")
    /\ IF Cancelled
       THEN disk' = disk \ {i} /\ UNCHANGED events
       ELSE events' = Append(events, i) /\ UNCHANGED disk
    /\ UNCHANGED <<life, pty, readOnly, next, queue, saved, kept, written,
                   results, succeeded, barred, held>>

JobStep(i) == JobStarts(i) \/ JobMakesDirectory(i) \/ JobWrites(i) \/ JobPosts(i)

Next ==
    \/ \E paste, ready \in BOOLEAN : WriteTerminalFile(paste, ready)
    \/ \E what \in {"down", "up", "other"} : SendInput(what)
    \/ FocusLost
    \/ SetReadOnly
    \/ Completion
    \/ ChildExit
    \/ Shutdown
    \/ ShutdownEnds
    \/ \E i \in Items : JobStep(i)

Spec == Init /\ [][Next]_vars

\* Pool threads run, the worker's event loop turns, and shutdown's wait for
\* the child is bounded (SIGKILL after the grace period).
Fairness ==
    /\ \A i \in Items : WF_vars(JobStep(i))
    /\ WF_vars(Completion)
    /\ WF_vars(ShutdownEnds)

FairSpec == Spec /\ Fairness

-----------------------------------------------------------------------------
Effects == [id : Items, kind : {"input", "file"}, ready : BOOLEAN, ok : BOOLEAN,
            paste : BOOLEAN]

Outputs == [kind : {"bytes", "release"}, of : Items]

TypeOK ==
    /\ life \in {"live", "stopping", "gone"}
    /\ pty \in BOOLEAN
    /\ readOnly \in BOOLEAN
    /\ next \in 0..MaxItems
    /\ queue \in Seq(Effects)
    /\ job \in [Items -> JobStates]
    /\ events \in Seq(Items)
    /\ disk \subseteq Items
    /\ saved \subseteq Items
    /\ kept \subseteq Items
    /\ written \in Seq(Outputs)
    /\ results \in Seq(Items)
    /\ succeeded \subseteq Items
    /\ barred \subseteq Items
    /\ held \in 0..MaxItems

Answered == {results[i] : i \in DOMAIN results}
Queued == {queue[i].id : i \in DOMAIN queue}

\* "rejoins completion before publishing ... and before releasing later user
\* input or file completions": typed bytes, pasted paths and results come out in
\* the order they were submitted, whatever order the jobs finish in, and none
\* comes out while something submitted before it still waits.
InSubmissionOrder ==
    /\ \A i, j \in DOMAIN written :
          i < j /\ written[i].kind = "bytes" /\ written[j].kind = "bytes"
              => written[i].of < written[j].of
    /\ \A i, j \in DOMAIN results : i < j => results[i] < results[j]
    /\ \A i \in DOMAIN written, q \in Queued :
          written[i].kind = "bytes" => written[i].of < q
    /\ \A a \in Answered, q \in Queued : a < q

\* A paste requested while the terminal was read-only never becomes input,
\* even if the terminal is writable when the file is finished.
ReadOnlyHonoured == \A i \in DOMAIN written : written[i].of \notin barred

\* "its still-owned temporary directory removes any unclaimed artifact": what
\* was reported as a success is on disk and stays there, and when the session is
\* gone and its jobs have ended nothing else remains.
FilesAccountedFor ==
    /\ succeeded \subseteq disk \intersect kept
    /\ life = "gone" /\ events = <<>> /\ (\A i \in Items : job[i] = "none")
           => disk = succeeded

\* A modifier is never released before the press that holds it is written.
\* (Checked on its own: see the README.)
ReleaseFollowsPress ==
    \A i \in DOMAIN written :
        written[i].kind = "release" =>
            \E j \in 1..(i - 1) : written[j] = Byte(written[i].of)

\* Every file request is answered, and the input held behind it is released,
\* unless the session is shut down first: the queue empties again and again.
EveryRequestAnswered == []<>(queue = <<>>)
=============================================================================
