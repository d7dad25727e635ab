------------------------ MODULE ShellIntegrationCache ------------------------
(***************************************************************************)
(* prepareCachedGhosttyShellIntegration (session/ghostty_shell_            *)
(* integration.cpp): the process-wide cache that the worker threads share. *)
(* A preparation is identified by its request and by the identity of the   *)
(* files it depends on; one thread runs the helper for it, the threads     *)
(* that want the same one wait for that flight, and a success is kept only *)
(* if the files did not change meanwhile.  Files may change, and change    *)
(* back (a symbolic link is moved), at any time.                           *)
(***************************************************************************)
EXTENDS Naturals, Sequences, FiniteSets, SequencesExt, Subsequences

CONSTANTS
    Sessions,      \* the worker threads
    Requests,      \* what GhosttyShellIntegrationRequests can ask for
    Versions,      \* what the helper and its resources can be
    MaxEntries,    \* kMaximumCachedEntries (every result costs the same)
    MaxInFlight,   \* kMaximumInFlightPreparations
    MaxEdits       \* bound: changes of the files in a behaviour

ASSUME ShellIntegrationAssumption ==
    /\ Versions # {}
    /\ MaxEntries \in Nat \ {0}
    /\ MaxInFlight \in Nat
    /\ MaxEdits \in Nat

VARIABLES
    files,    \* what the helper and its resources are now
    edits,    \* how often they have changed
    cache,    \* successful: the results kept, the least recently used first
    pending,  \* the sessions whose flights are in the pending table
    flight,   \* the outcome of the flight each session leads, once finished
    stage,    \* where each worker is in its launch
    prep,     \* what its preparation knows
    seen      \* history: what the files were while the session prepared

cacheVars == <<files, edits, cache, pending, flight, prep, seen>>

NoOutcome == [kind |-> "none"]
Failure == [kind |-> "failure"]

\* What the helper makes of a request and of the files it found; "swapped":
\* the files changed at least twice while a flight depended on them.
Success(r, v, swapped) ==
    [kind |-> "success", request |-> r, files |-> v, swapped |-> swapped]

\* The locals of prepareCachedGhosttyShellIntegration.
Locals(r) ==
    [request |-> r, identity |-> 0, since |-> 0, attempt |-> 0, joined |-> {},
     read |-> {}, stable |-> FALSE, result |-> NoOutcome]

NoPrep == Locals("nothing")

CacheInit ==
    /\ files = CHOOSE v \in Versions : TRUE
    /\ edits = 0
    /\ cache = <<>>
    /\ pending = {}
    /\ flight = [s \in Sessions |-> NoOutcome]
    /\ prep = [s \in Sessions |-> NoPrep]
    /\ seen = [s \in Sessions |-> {}]

Preparing == {"identify", "lookup", "verify", "wait", "lead", "bypass", "judged"}

Goes(s, to) == stage' = [stage EXCEPT ![s] = to]

\* The helper, its libraries or its resources are replaced; of no interest any
\* more once every launch has been prepared.
FilesChange ==
    /\ edits < MaxEdits
    /\ \E s \in Sessions : stage[s] \in Preparing \cup {"new"}
    /\ edits' = edits + 1
    /\ \E v \in Versions \ {files} :
          /\ files' = v
          /\ seen' = [s \in Sessions |->
                         IF stage[s] \in Preparing THEN seen[s] \cup {v} ELSE seen[s]]
    /\ UNCHANGED <<cache, pending, flight, stage, prep>>

\* prepareCachedGhosttyShellIntegration is called.
Prepare(s) ==
    /\ stage[s] = "new"
    /\ Goes(s, "identify")
    /\ \E r \in Requests : prep' = [prep EXCEPT ![s] = Locals(r)]
    /\ seen' = [seen EXCEPT ![s] = {files}]
    /\ UNCHANGED <<files, edits, cache, pending, flight>>

\* The caller takes the command and the environment it was given.
Taken(s) ==
    /\ prep' = [prep EXCEPT ![s] = NoPrep]
    /\ seen' = [seen EXCEPT ![s] = {}]
    /\ UNCHANGED <<files, edits, cache, pending, flight>>

\* makeCacheIdentity; a preparation without an identity is not shared.
Identify(s) ==
    /\ stage[s] = "identify"
    /\ prep' = [prep EXCEPT ![s].identity = files, ![s].since = edits]
    /\ Goes(s, "lookup") \/ Goes(s, "bypass")
    /\ UNCHANGED <<files, edits, cache, pending, flight, seen>>

\* cacheKey
Key(s) == <<prep[s].request, prep[s].identity>>

Entry(key) == {i \in DOMAIN cache : cache[i].key = key}

\* The session whose pending flight has this key, if any.
Flying(key) == {l \in pending : Key(l) = key}

\* The lookup under the mutex: a hit, which becomes the most recently used; a
\* flight to join; no room for another flight; or a flight of its own.
Lookup(s) ==
    /\ stage[s] = "lookup"
    /\ \/ \E i \in Entry(Key(s)) :
             /\ cache' = Append(RemoveAt(cache, i), cache[i])
             /\ prep' = [prep EXCEPT ![s].result = cache[i].result]
             /\ Goes(s, "verify")
             /\ UNCHANGED pending
       \/ /\ Entry(Key(s)) = {} /\ Flying(Key(s)) # {}
          /\ prep' = [prep EXCEPT ![s].joined = Flying(Key(s))]
          /\ Goes(s, "wait")
          /\ UNCHANGED <<cache, pending>>
       \/ /\ Entry(Key(s)) = {} /\ Flying(Key(s)) = {}
          /\ IF Cardinality(pending) >= MaxInFlight
             THEN Goes(s, "bypass") /\ UNCHANGED pending
             ELSE Goes(s, "lead") /\ pending' = pending \cup {s}
          /\ UNCHANGED <<cache, prep>>
    /\ UNCHANGED <<files, edits, flight, seen>>

Forgotten(key) == Subsequence(cache, {i \in DOMAIN cache : cache[i].key # key})

\* A hit counts only if the files are still what its key says; otherwise it is
\* dropped and looked up once more, then prepared without the cache.
Verify(s) ==
    /\ stage[s] = "verify"
    /\ \/ /\ files = prep[s].identity
          /\ Goes(s, "prepared")
          /\ UNCHANGED <<cache, prep>>
       \/ /\ cache' = Forgotten(Key(s))
          /\ prep' = [prep EXCEPT ![s].result = NoOutcome, ![s].attempt = 1]
          /\ Goes(s, IF prep[s].attempt = 0 THEN "identify" ELSE "bypass")
    /\ UNCHANGED <<files, edits, pending, flight, seen>>

\* The flight outlives its place in the table while somebody waits for it.
Joined(l, by) == {s \in by : stage[s] = "wait" /\ l \in prep[s].joined}

\* flight->ready: the waiter takes the outcome of the flight it joined.
Landed(s) ==
    /\ stage[s] = "wait"
    /\ \E l \in prep[s].joined :
          /\ flight[l] # NoOutcome
          /\ prep' = [prep EXCEPT ![s].result = flight[l]]
          /\ flight' = IF Joined(l, Sessions \ {s}) = {}
                       THEN [flight EXCEPT ![l] = NoOutcome] ELSE flight
    /\ Goes(s, "prepared")
    /\ UNCHANGED <<files, edits, cache, pending, seen>>

\* runGhosttyShellIntegrationHelper: the helper reads its files ...
HelperReads(s) ==
    /\ stage[s] \in {"lead", "bypass"} /\ prep[s].read = {}
    /\ prep' = [prep EXCEPT ![s].read = {files}]
    /\ UNCHANGED <<files, edits, cache, pending, flight, stage, seen>>

\* ... and answers, fails or times out.
Swapped(s) == edits >= prep[s].since + 2

Outcomes(s) ==
    {Failure} \cup {Success(prep[s].request, v, Swapped(s)) : v \in prep[s].read}

HelperEnds(s) ==
    /\ stage[s] \in {"lead", "bypass"}
    /\ \E o \in Outcomes(s), stable \in {FALSE, files = prep[s].identity} :
          prep' = [prep EXCEPT ![s].result = o,
                               ![s].stable = stage[s] = "lead" /\ stable]
    /\ Goes(s, IF stage[s] = "lead" THEN "judged" ELSE "prepared")
    /\ UNCHANGED <<files, edits, cache, pending, flight, seen>>

\* Mutant: the result is kept even if the files changed meanwhile.
KeptAnyway(s) == prep[s].result.kind = "success"

Kept(s) == prep[s].stable /\ prep[s].result.kind = "success"

\* retainSuccessfulPreparation; a result that is too large is not kept.
Retained(s) ==
    LET others == Forgotten(Key(s))
        room == IF Len(others) >= MaxEntries THEN Tail(others) ELSE others
    IN  {Append(room, [key |-> Key(s), result |-> prep[s].result]), cache}

Outcome(s) ==
    LET result == prep[s].result
    IN  IF Joined(s, Sessions) = {} THEN NoOutcome
        ELSE IF result = Failure THEN Failure
        ELSE [result EXCEPT !.swapped = Swapped(s)]

\* The end of a flight, under the mutex: keep, publish, leave the table, wake.
Publish(s) ==
    /\ stage[s] = "judged"
    /\ IF Kept(s) THEN cache' \in Retained(s) ELSE UNCHANGED cache
    /\ flight' = [flight EXCEPT ![s] = Outcome(s)]
    /\ pending' = pending \ {s}
    /\ Goes(s, "prepared")
    /\ UNCHANGED <<files, edits, prep, seen>>

PrepareStep(s) ==
    \/ Prepare(s) \/ Identify(s) \/ Lookup(s) \/ Verify(s) \/ Landed(s)
    \/ HelperReads(s) \/ HelperEnds(s) \/ Publish(s)

Results ==
    {NoOutcome, Failure} \cup
    [kind : {"success"}, request : Requests, files : Versions, swapped : BOOLEAN]

Cached == [key : Requests \X Versions, result : Results]

Preps ==
    [request : Requests \cup {"nothing"}, identity : Versions \cup {0}, since : 0..MaxEdits,
     attempt : {0, 1}, joined : SUBSET Sessions, read : SUBSET Versions,
     stable : BOOLEAN, result : Results]

CacheTypeOK ==
    /\ files \in Versions /\ edits \in 0..MaxEdits
    /\ cache \in Seq(Cached) /\ Len(cache) <= MaxEntries
    /\ pending \subseteq Sessions
    /\ IsFiniteSet(pending) /\ Cardinality(pending) <= MaxInFlight
    /\ flight \in [Sessions -> Results]
    /\ prep \in [Sessions -> Preps]
    /\ seen \in [Sessions -> SUBSET Versions]
=============================================================================
