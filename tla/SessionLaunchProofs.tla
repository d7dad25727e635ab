------------------------ MODULE SessionLaunchProofs ------------------------
(***************************************************************************)
(* Proofs about SessionLaunch, for any number of workers that launch at    *)
(* once and any bounds of the cache.  The invariant has two parts that     *)
(* share only the stages: what a launch has opened, forked and decided at  *)
(* each of its stages, and what a preparation, the cache and the flights   *)
(* know about the files.                                                   *)
(***************************************************************************)
EXTENDS SessionLaunch, SequenceFacts

Clean(s) == \A e \in Ends : <<e, s>> \notin holds[App]

\* Nothing is opened before the pipes, and no child forked before the PTY.
Before == Preparing \cup {"new", "prepared"}

ResourcesOK(s) ==
    /\ stage[s] \in Before \cup {"reap", "failed"} => Clean(s)
    /\ stage[s] \in Before \cup {"pipe", "pty"} => child[s] = "none"
    /\ stage[s] = "failed" => child[s] \in {"none", "reaped"}

\* The decision is taken once the move was tried; until then a child with a gate
\* is not released.
Permitted(s) ==
    /\ gate[s] = "hard" => move[s] = "moved"
    /\ gate[s] = "soft" => move[s] # "untried"

Undecided == Before \cup {"pipe", "pty", "forked", "await", "move"}

GateOK(s) ==
    /\ stage[s] \in Undecided => move[s] = "untried" /\ decision[s] = "none"
    /\ stage[s] = "release" => move[s] # "untried" /\ decision[s] = "none"
    /\ decision[s] = "go" => Permitted(s)
    /\ child[s] \in {"released", "running"} => Permitted(s)

LaunchOK == \A s \in Sessions : ResourcesOK(s) /\ GateOK(s)

\* A result answers its request, from files with a property.
Answers(result, request) == result.kind = "success" /\ result.request = request

\* Where a preparation has an identity.
Sharing == {"lookup", "verify", "wait", "lead", "bypass", "judged"}

\* What a preparation knows: its request, the identity it looked up and the files
\* its helper read, against what the files have been.
PrepOK(s) ==
    /\ stage[s] = "new" => prep[s] = NoPrep
    /\ stage[s] \in Preparing => prep[s].request \in Requests /\ files \in seen[s]
    /\ stage[s] \in Sharing =>
          /\ prep[s].identity \in seen[s]
          /\ prep[s].since <= edits
          /\ edits = prep[s].since => files = prep[s].identity
    /\ stage[s] \in {"identify", "lookup", "verify", "wait"} => prep[s].read = {}
    /\ stage[s] \in {"lead", "bypass", "judged"} =>
          \A v \in prep[s].read :
              /\ v \in seen[s]
              /\ \/ v = prep[s].identity
                 \/ edits = prep[s].since + 1 /\ files = v
                 \/ edits >= prep[s].since + 2

ResultOK(s) ==
    /\ stage[s] = "verify" =>
          /\ Answers(prep[s].result, prep[s].request)
          /\ prep[s].result.files = prep[s].identity \/ prep[s].result.swapped
    /\ stage[s] = "judged" =>
          \/ prep[s].result = Failure
          \/ /\ Answers(prep[s].result, prep[s].request)
             /\ prep[s].result.files \in prep[s].read
             /\ prep[s].stable =>
                   prep[s].result.files = prep[s].identity \/ prep[s].result.swapped
    /\ stage[s] \notin Preparing /\ prep[s].result.kind = "success" =>
          /\ Answers(prep[s].result, prep[s].request)
          /\ prep[s].result.files \in seen[s] \/ prep[s].result.swapped

\* A flight is in the table while its leader works on it, and has no outcome
\* before its leader has published one.
PendingOK(l) ==
    /\ l \in pending <=> stage[l] \in {"lead", "judged"}
    /\ stage[l] \in Preparing \cup {"new"} => flight[l] = NoOutcome

\* What session s, which joined flight l, will find.
JoinOK(s, l) ==
    IF flight[l] = NoOutcome
    THEN /\ l \in pending
         /\ Key(l) = Key(s)
         /\ \A v \in prep[l].read : v \in seen[s] \/ edits >= prep[l].since + 2
    ELSE flight[l].kind = "success" =>
         /\ Answers(flight[l], prep[s].request)
         /\ flight[l].files \in seen[s] \/ flight[l].swapped

WaitOK(s) == stage[s] = "wait" => \A l \in prep[s].joined : JoinOK(s, l)

\* What the cache holds is what its key says.
EntryOK(entry) ==
    /\ Answers(entry.result, entry.key[1])
    /\ entry.result.files = entry.key[2] \/ entry.result.swapped

CacheOK == \A i \in DOMAIN cache : EntryOK(cache[i])

SessionOK(s) == PrepOK(s) /\ ResultOK(s) /\ PendingOK(s) /\ WaitOK(s)

PreparationOK == (\A s \in Sessions : SessionOK(s)) /\ CacheOK

IInv == TypeOK /\ LaunchOK /\ PreparationOK
-----------------------------------------------------------------------------
(* What a launch has opened, forked and decided *)

LaunchTypes ==
    /\ stage \in [Sessions -> Stages]
    /\ holds \in [Processes -> SUBSET (Ends \X Sessions)]
    /\ gate \in [Sessions -> {"none", "soft", "hard"}]
    /\ ready \in [Sessions -> BOOLEAN]
    /\ decision \in [Sessions -> {"none", "go", "stop"}]
    /\ move \in [Sessions -> {"untried", "moved", "refused"}]
    /\ child \in [Sessions -> {"none", "setup", "gated", "released", "running",
                               "dead", "reaped"}]
    /\ appUp \in BOOLEAN

LEMMA AppIsAProcess ==
    /\ App \in Processes
    /\ \A s \in Sessions : s \in Processes /\ s # App
BY SessionLaunchAssumption DEF Processes

\* A function changed at one place.
LEMMA SetAt ==
    ASSUME NEW D, NEW R, NEW f \in [D -> R], NEW s \in D, NEW v \in R
    PROVE  /\ [f EXCEPT ![s] = v] \in [D -> R]
           /\ [f EXCEPT ![s] = v][s] = v
           /\ \A t \in D : t # s => [f EXCEPT ![s] = v][t] = f[t]
OBVIOUS

LEMMA OwnEnds ==
    ASSUME NEW s \in Sessions, NEW ends \in SUBSET Ends
    PROVE  /\ Own(s, ends) \subseteq Ends \X Sessions
           /\ \A e, t : <<e, t>> \in Own(s, ends) <=> t = s /\ e \in ends
BY DEF Own

\* What opening and closing ends of one launch does to the descriptors.
LEMMA ClosesEnds ==
    ASSUME LaunchTypes, NEW p \in Processes, NEW s \in Sessions, NEW ends \in SUBSET Ends,
           Closes(p, Own(s, ends))
    PROVE  /\ holds' \in [Processes -> SUBSET (Ends \X Sessions)]
           /\ \A t \in Sessions : Clean(t) => Clean(t)'
           /\ p = App /\ ends = Ends => Clean(s)'
<1>1. holds' = [holds EXCEPT ![p] = holds[p] \ Own(s, ends)]
  BY DEF Closes
<1>2. holds \in [Processes -> SUBSET (Ends \X Sessions)] /\ App \in Processes
  BY AppIsAProcess DEF LaunchTypes
<1>3. holds' \in [Processes -> SUBSET (Ends \X Sessions)]
  BY <1>1, <1>2
<1>4. holds'[App] \subseteq holds[App]
  BY <1>1, <1>2
<1>5. p = App => holds'[App] = holds[App] \ Own(s, ends)
  BY <1>1, <1>2
<1>6. \A t \in Sessions : Clean(t) => Clean(t)'
  BY <1>4 DEF Clean
<1>7. p = App /\ ends = Ends => Clean(s)'
  <2>1. \A e \in Ends : <<e, s>> \in Own(s, Ends)
    BY DEF Own
  <2> QED BY <1>5, <2>1 DEF Clean
<1> QED BY <1>3, <1>6, <1>7

LEMMA OpensEnds ==
    ASSUME LaunchTypes, NEW s \in Sessions, NEW ends \in SUBSET Ends,
           Opens(App, Own(s, ends))
    PROVE  /\ holds' \in [Processes -> SUBSET (Ends \X Sessions)]
           /\ \A t \in Sessions \ {s} : Clean(t) => Clean(t)'
<1>1. holds' = [holds EXCEPT ![App] = holds[App] \cup Own(s, ends)]
  BY DEF Opens
<1>2. /\ holds \in [Processes -> SUBSET (Ends \X Sessions)] /\ App \in Processes
      /\ Own(s, ends) \subseteq Ends \X Sessions
      /\ \A e, t : <<e, t>> \in Own(s, ends) <=> t = s /\ e \in ends
  BY AppIsAProcess, OwnEnds DEF LaunchTypes
<1>3. holds' \in [Processes -> SUBSET (Ends \X Sessions)]
  BY <1>1, <1>2
<1>4. holds'[App] = holds[App] \cup Own(s, ends)
  BY <1>1, <1>2
<1>5. \A t \in Sessions \ {s} : Clean(t) => Clean(t)'
  BY <1>2, <1>4 DEF Clean
<1> QED BY <1>3, <1>5

\* Nothing of launch t changes for the worse.
Untouched(t) ==
    /\ stage'[t] = stage[t] /\ gate'[t] = gate[t] /\ decision'[t] = decision[t]
    /\ move'[t] = move[t] /\ child'[t] = child[t]
    /\ Clean(t) => Clean(t)'

LEMMA OthersOK ==
    ASSUME LaunchOK, NEW s \in Sessions, \A t \in Sessions \ {s} : Untouched(t),
           ResourcesOK(s)', GateOK(s)'
    PROVE  LaunchOK'
<1>1. ASSUME NEW t \in Sessions, t # s PROVE ResourcesOK(t)' /\ GateOK(t)'
  BY <1>1 DEF LaunchOK, Untouched, ResourcesOK, GateOK, Permitted
<1> QED BY <1>1 DEF LaunchOK

\* The worker of s goes on; what it opened or closed is its own.
LEMMA WorkerMoves ==
    ASSUME LaunchTypes, LaunchOK, NEW s \in Sessions, NEW to \in Stages, Goes(s, to),
           \A t \in Sessions \ {s} : Clean(t) => Clean(t)',
           holds' \in [Processes -> SUBSET (Ends \X Sessions)],
           UNCHANGED <<ready, appUp>>,
           NEW g \in {"none", "soft", "hard"}, gate' = [gate EXCEPT ![s] = g],
           NEW d \in {"none", "go", "stop"}, decision' = [decision EXCEPT ![s] = d],
           NEW m \in {"untried", "moved", "refused"}, move' = [move EXCEPT ![s] = m],
           NEW c \in {"none", "setup", "gated", "released", "running", "dead", "reaped"},
           child' = [child EXCEPT ![s] = c],
           to \in Before \cup {"reap", "failed"} => Clean(s)',
           to \in Before \cup {"pipe", "pty"} => c = "none",
           to = "failed" => c \in {"none", "reaped"},
           to \in Undecided => m = "untried" /\ d = "none",
           to = "release" => m # "untried" /\ d = "none",
           d = "go" \/ c \in {"released", "running"} =>
               (g = "hard" => m = "moved") /\ (g = "soft" => m # "untried")
    PROVE  LaunchOK' /\ LaunchTypes'
<1>1. /\ stage' = [stage EXCEPT ![s] = to]
      /\ stage \in [Sessions -> Stages]
      /\ gate \in [Sessions -> {"none", "soft", "hard"}]
      /\ decision \in [Sessions -> {"none", "go", "stop"}]
      /\ move \in [Sessions -> {"untried", "moved", "refused"}]
      /\ child \in [Sessions -> {"none", "setup", "gated", "released", "running",
                                 "dead", "reaped"}]
  BY DEF Goes, LaunchTypes
<1>2. LaunchTypes'
  BY <1>1 DEF LaunchTypes
<1>3. stage'[s] = to /\ gate'[s] = g /\ decision'[s] = d /\ move'[s] = m /\ child'[s] = c
  BY <1>1
<1>4. \A t \in Sessions \ {s} : Untouched(t)
  BY <1>1 DEF Untouched
<1>5. ResourcesOK(s)' /\ GateOK(s)'
  BY <1>3 DEF ResourcesOK, GateOK, Permitted
<1> QED BY <1>2, <1>4, <1>5, OthersOK
LEMMA LaunchStepKeeps ==
    ASSUME LaunchTypes, LaunchOK, NEW s \in Sessions, LaunchStep(s)
    PROVE  LaunchOK' /\ LaunchTypes'
<1>1. /\ gate = [gate EXCEPT ![s] = gate[s]] /\ gate[s] \in {"none", "soft", "hard"}
      /\ decision = [decision EXCEPT ![s] = decision[s]]
      /\ decision[s] \in {"none", "go", "stop"}
      /\ move = [move EXCEPT ![s] = move[s]] /\ move[s] \in {"untried", "moved", "refused"}
      /\ child = [child EXCEPT ![s] = child[s]]
      /\ child[s] \in {"none", "setup", "gated", "released", "running", "dead", "reaped"}
      /\ holds \in [Processes -> SUBSET (Ends \X Sessions)]
      /\ ready \in [Sessions -> BOOLEAN]
  BY DEF LaunchTypes
<1>2. ResourcesOK(s) /\ GateOK(s)
  BY DEF LaunchOK
<1>3. UNCHANGED holds => \A t \in Sessions : Clean(t) => Clean(t)'
  BY DEF Clean
<1>4. \A x \in {"new", "prepared", "pipe", "pty", "forked", "await", "move", "release",
                 "launched", "reap", "started", "failed"} : x \in Stages
  BY DEF Stages, Preparing
<1>5. CASE Begin(s)
  <2>1. PICK to \in {"failed", "prepared"} : Goes(s, to)
    BY <1>5 DEF Begin
  <2>2. stage[s] = "new" /\ UNCHANGED launchVars
    BY <1>5 DEF Begin
  <2>3. UNCHANGED <<holds, gate, ready, decision, move, child, appUp>>
    BY <2>2 DEF launchVars
  <2>4. Clean(s) /\ child[s] = "none" /\ move[s] = "untried" /\ decision[s] = "none"
    BY <1>2, <2>2 DEF ResourcesOK, GateOK, Before, Undecided
  <2>5. to \in Stages /\ to # "release"
    BY <1>4, <2>1
  <2> QED BY <1>1, <1>3, <2>1, <2>3, <2>4, <2>5, WorkerMoves
<1>6. CASE CreatePipes(s)
  <2>1. stage[s] = "prepared" /\ UNCHANGED <<ready, decision, move, child, appUp>>
    BY <1>6 DEF CreatePipes
  <2>2. Clean(s) /\ child[s] = "none" /\ move[s] = "untried" /\ decision[s] = "none"
    BY <1>2, <2>1 DEF ResourcesOK, GateOK, Before, Undecided
  <2>3. ASSUME NEW kind \in {"none", "soft", "hard"},
               gate' = Set(gate, s, kind), Goes(s, "pipe"),
               Opens(App, Own(s, {"ready"} \cup
                             IF kind = "none" THEN {} ELSE {"gate", "peer"}))
        PROVE  LaunchOK' /\ LaunchTypes'
    <3>1. {"ready"} \cup (IF kind = "none" THEN {} ELSE {"gate", "peer"}) \in SUBSET Ends
      BY DEF Ends
    <3>2. /\ holds' \in [Processes -> SUBSET (Ends \X Sessions)]
          /\ \A t \in Sessions \ {s} : Clean(t) => Clean(t)'
      BY <2>3, <3>1, OpensEnds
    <3>3. "pipe" \in Stages /\ "pipe" \notin Before \cup {"reap", "failed"}
      BY <1>4 DEF Before, Preparing
    <3>4. gate' = [gate EXCEPT ![s] = kind]
      BY <2>3 DEF Set
    <3>5. /\ decision' = [decision EXCEPT ![s] = decision[s]]
          /\ move' = [move EXCEPT ![s] = move[s]] /\ child' = [child EXCEPT ![s] = child[s]]
          /\ UNCHANGED <<ready, appUp>>
      BY <1>1, <2>1
    <3>6. /\ decision[s] \in {"none", "go", "stop"}
          /\ move[s] \in {"untried", "moved", "refused"}
          /\ child[s] \in {"none", "setup", "gated", "released", "running", "dead", "reaped"}
      BY <1>1
    <3> QED BY <2>2, <2>3, <3>2, <3>3, <3>4, <3>5, <3>6, WorkerMoves
  <2>4. CASE Goes(s, "failed") /\ UNCHANGED <<holds, gate>>
    <3>1. "failed" \in Stages
      BY <1>4
    <3> QED BY <1>1, <1>3, <2>1, <2>2, <2>4, <3>1, WorkerMoves
  <2> QED BY <1>6, <2>3, <2>4 DEF CreatePipes
<1>7. CASE OpenPty(s)
  <2>1. stage[s] = "pipe" /\ UNCHANGED <<gate, ready, decision, move, child, appUp>>
    BY <1>7 DEF OpenPty
  <2>2. child[s] = "none" /\ move[s] = "untried" /\ decision[s] = "none"
    BY <1>2, <2>1 DEF ResourcesOK, GateOK, Undecided
  <2>3. CASE Opens(App, Own(s, {"bareMaster"})) /\ Goes(s, "pty")
    <3>1. {"bareMaster"} \in SUBSET Ends
      BY DEF Ends
    <3>2. /\ holds' \in [Processes -> SUBSET (Ends \X Sessions)]
          /\ \A t \in Sessions \ {s} : Clean(t) => Clean(t)'
      BY <2>3, <3>1, OpensEnds
    <3>3. "pty" \in Stages /\ "pty" \notin Before \cup {"reap", "failed"}
      BY <1>4 DEF Before, Preparing
    <3> QED BY <1>1, <2>1, <2>2, <2>3, <3>2, <3>3, WorkerMoves
  <2>4. CASE Closes(App, Own(s, Ends)) /\ Goes(s, "failed")
    <3>1. "failed" \in Stages
      BY <1>4
    <3>2. /\ holds' \in [Processes -> SUBSET (Ends \X Sessions)]
          /\ \A t \in Sessions : Clean(t) => Clean(t)'
          /\ Clean(s)'
      BY <2>4, AppIsAProcess, ClosesEnds
    <3> QED BY <1>1, <2>1, <2>2, <2>4, <3>1, <3>2, WorkerMoves
  <2> QED BY <1>7, <2>3, <2>4 DEF OpenPty
<1>8. CASE Fork(s)
  <2>1. stage[s] = "pty" /\ UNCHANGED <<gate, ready, decision, move, appUp>>
    BY <1>8 DEF Fork
  <2>2. child[s] = "none" /\ move[s] = "untried" /\ decision[s] = "none"
    BY <1>2, <2>1 DEF ResourcesOK, GateOK, Undecided
  <2>3. CASE /\ child' = Set(child, s, "setup")
             /\ holds' = [holds EXCEPT ![s] = holds[App] \ Own(s, {"bareMaster"})]
             /\ Goes(s, "forked")
    <3>1. /\ holds' \in [Processes -> SUBSET (Ends \X Sessions)]
          /\ holds'[App] = holds[App]
      BY <1>1, <2>3, AppIsAProcess
    <3>2. \A t \in Sessions \ {s} : Clean(t) => Clean(t)'
      BY <3>1 DEF Clean
    <3>3. "forked" \in Stages /\ "forked" \notin Before \cup {"reap", "failed", "pipe", "pty"}
      BY <1>4 DEF Before, Preparing
    <3>4. child' = [child EXCEPT ![s] = "setup"]
      BY <2>3 DEF Set
    <3>5. /\ gate' = [gate EXCEPT ![s] = gate[s]]
          /\ decision' = [decision EXCEPT ![s] = decision[s]]
          /\ move' = [move EXCEPT ![s] = move[s]]
          /\ UNCHANGED <<ready, appUp>>
      BY <1>1, <2>1
    <3>6. /\ gate[s] \in {"none", "soft", "hard"}
          /\ decision[s] \in {"none", "go", "stop"}
          /\ move[s] \in {"untried", "moved", "refused"}
      BY <1>1
    <3>7. Goes(s, "forked")
      BY <2>3
    <3> QED BY <2>2, <3>1, <3>2, <3>3, <3>4, <3>5, <3>6, <3>7, WorkerMoves
  <2>4. CASE Closes(App, Own(s, Ends)) /\ Goes(s, "failed") /\ UNCHANGED child
    <3>1. "failed" \in Stages
      BY <1>4
    <3>2. /\ holds' \in [Processes -> SUBSET (Ends \X Sessions)]
          /\ \A t \in Sessions : Clean(t) => Clean(t)'
          /\ Clean(s)'
      BY <2>4, AppIsAProcess, ClosesEnds
    <3> QED BY <1>1, <2>1, <2>2, <2>4, <3>1, <3>2, WorkerMoves
  <2> QED BY <1>8, <2>3, <2>4 DEF Fork
<1>9. CASE ParentCloses(s)
  <2>1. /\ stage[s] = "forked" /\ UNCHANGED <<gate, ready, decision, move, child, appUp>>
        /\ Closes(App, Own(s, {"ready", "peer"})) /\ Goes(s, "await")
    BY <1>9 DEF ParentCloses
  <2>2. move[s] = "untried" /\ decision[s] = "none"
        /\ (child[s] \in {"released", "running"} => Permitted(s))
    BY <1>2, <2>1 DEF GateOK, Undecided
  <2>3. {"ready", "peer"} \in SUBSET Ends
    BY DEF Ends
  <2>4. /\ holds' \in [Processes -> SUBSET (Ends \X Sessions)]
        /\ \A t \in Sessions : Clean(t) => Clean(t)'
    BY <2>1, <2>3, AppIsAProcess, ClosesEnds
  <2>5. "await" \in Stages /\ "await" \notin Before \cup {"reap", "failed", "pipe", "pty"}
    BY <1>4 DEF Before, Preparing
  <2> QED BY <1>1, <2>1, <2>2, <2>4, <2>5, WorkerMoves DEF Permitted
<1>10. CASE AwaitReady(s)
  <2>1. stage[s] = "await" /\ UNCHANGED <<gate, decision, move, child, appUp>>
    BY <1>10 DEF AwaitReady
  <2>2. /\ move[s] = "untried" /\ decision[s] = "none"
        /\ (child[s] \in {"released", "running"} => Permitted(s))
    BY <1>2, <2>1 DEF GateOK, Undecided
  <2>3. CASE /\ ready' = Set(ready, s, FALSE)
             /\ Goes(s, IF gate[s] # "none" THEN "move" ELSE "launched")
             /\ UNCHANGED holds
    <3>1. PICK to \in {"move", "launched"} : Goes(s, to)
      BY <2>3
    <3>2. to \in Stages /\ to \notin Before \cup {"reap", "failed", "pipe", "pty", "release"}
      BY <1>4, <3>1 DEF Before, Preparing
    <3>3. stage' = [stage EXCEPT ![s] = to] /\ ready' \in [Sessions -> BOOLEAN]
      BY <1>1, <2>3, <3>1 DEF Goes, Set
    <3>4. LaunchTypes'
      BY <2>1, <2>3, <3>2, <3>3 DEF LaunchTypes
    <3>5. /\ stage'[s] = to /\ \A t \in Sessions \ {s} : stage'[t] = stage[t]
      BY <3>3 DEF LaunchTypes
    <3>6. \A t \in Sessions \ {s} : Untouched(t)
      BY <1>3, <2>1, <2>3, <3>5 DEF Untouched
    <3>7. ResourcesOK(s)' /\ GateOK(s)'
      BY <2>1, <2>2, <3>2, <3>5 DEF ResourcesOK, GateOK, Permitted
    <3> QED BY <3>4, <3>6, <3>7, OthersOK
  <2>4. CASE /\ Closes(App, Own(s, Ends)) /\ Goes(s, "reap") /\ UNCHANGED ready
    <3>1. "reap" \in Stages /\ "reap" \notin Before \cup Undecided \cup {"pipe", "pty", "release"}
      BY <1>4 DEF Before, Preparing, Undecided
    <3>2. /\ holds' \in [Processes -> SUBSET (Ends \X Sessions)]
          /\ \A t \in Sessions : Clean(t) => Clean(t)'
          /\ Clean(s)'
      BY <2>4, AppIsAProcess, ClosesEnds
    <3> QED BY <1>1, <2>1, <2>2, <2>4, <3>1, <3>2, WorkerMoves DEF Permitted
  <2> QED BY <1>10, <2>3, <2>4 DEF AwaitReady
<1>11. CASE Move(s)
  <2>1. /\ stage[s] = "move" /\ Goes(s, "release")
        /\ UNCHANGED <<holds, gate, ready, decision, child, appUp>>
    BY <1>11 DEF Move
  <2>2. PICK m \in {"moved", "refused"} : move' = [move EXCEPT ![s] = m]
    BY <1>11 DEF Move, Set
  <2>3. /\ move[s] = "untried" /\ decision[s] = "none"
        /\ (child[s] \in {"released", "running"} => Permitted(s))
    BY <1>2, <2>1 DEF GateOK, Undecided
  <2>4. "release" \in Stages /\ "release" \notin Before \cup Undecided \cup {"reap", "failed", "pipe", "pty"}
    BY <1>4 DEF Before, Preparing, Undecided
  <2>5. stage' = [stage EXCEPT ![s] = "release"]
    BY <2>1 DEF Goes
  <2>6. LaunchTypes'
    BY <2>1, <2>2, <2>4, <2>5 DEF LaunchTypes
  <2>7. /\ stage'[s] = "release" /\ move'[s] = m
        /\ \A t \in Sessions \ {s} : stage'[t] = stage[t] /\ move'[t] = move[t]
    BY <2>2, <2>5 DEF LaunchTypes
  <2>8. \A t \in Sessions \ {s} : Untouched(t)
    BY <1>3, <2>1, <2>7 DEF Untouched
  <2>9. ResourcesOK(s)' /\ GateOK(s)'
    BY <2>1, <2>3, <2>4, <2>7 DEF ResourcesOK, GateOK, Permitted
  <2> QED BY <2>6, <2>8, <2>9, OthersOK
<1>12. CASE Release(s)
  <2> DEFINE sent == ~HeldByNobody(<<"peer", s>>)
             on == sent /\ PermitLaunch(s)
  <2>1. /\ stage[s] = "release" /\ UNCHANGED <<gate, ready, move, child, appUp>>
        /\ Closes(App, Own(s, IF on THEN {"gate"} ELSE Ends))
        /\ Goes(s, IF on THEN "launched" ELSE "reap")
    BY <1>12 DEF Release
  <2>2. PICK d \in {"none", "go", "stop"} :
            decision' = [decision EXCEPT ![s] = d] /\ (d = "go" => PermitLaunch(s))
    <3>1. decision[s] = "none"
      BY <1>2, <2>1 DEF GateOK
    <3> QED BY <1>1, <1>12, <3>1 DEF Release, Set
  <2>3. /\ move[s] # "untried" /\ (child[s] \in {"released", "running"} => Permitted(s))
        /\ d = "go" => Permitted(s)
    BY <1>1, <1>2, <2>1, <2>2 DEF GateOK, PermitLaunch, Permitted
  <2>4. /\ holds' \in [Processes -> SUBSET (Ends \X Sessions)]
        /\ \A t \in Sessions : Clean(t) => Clean(t)'
        /\ ~on => Clean(s)'
    <3>1. {"gate"} \in SUBSET Ends
      BY DEF Ends
    <3> HIDE DEF on
    <3>2. CASE on
      BY <2>1, <3>1, <3>2, AppIsAProcess, ClosesEnds
    <3>3. CASE ~on
      BY <2>1, <3>3, AppIsAProcess, ClosesEnds
    <3> QED BY <3>2, <3>3
  <2> HIDE DEF on
  <2>5. PICK to \in {"launched", "reap"} : Goes(s, to) /\ (to = "reap" <=> ~on)
    BY <2>1
  <2>6. to \in Stages /\ to \notin Before \cup Undecided \cup {"failed", "pipe", "pty", "release"}
    BY <1>4, <2>5 DEF Before, Preparing, Undecided
  <2>7. stage' = [stage EXCEPT ![s] = to]
    BY <2>5 DEF Goes
  <2>8. LaunchTypes'
    BY <2>1, <2>2, <2>4, <2>6, <2>7 DEF LaunchTypes
  <2>9. /\ stage'[s] = to /\ decision'[s] = d
        /\ \A t \in Sessions \ {s} : stage'[t] = stage[t] /\ decision'[t] = decision[t]
    BY <2>2, <2>7 DEF LaunchTypes
  <2>10. \A t \in Sessions \ {s} : Untouched(t)
    BY <2>1, <2>4, <2>9 DEF Untouched
  <2>11. ResourcesOK(s)' /\ GateOK(s)'
    BY <2>1, <2>3, <2>4, <2>5, <2>6, <2>9 DEF ResourcesOK, GateOK, Permitted
  <2> QED BY <2>8, <2>10, <2>11, OthersOK
<1>13. CASE Reap(s)
  <2>1. /\ stage[s] = "reap" /\ Goes(s, "failed") /\ child' = [child EXCEPT ![s] = "reaped"]
        /\ UNCHANGED <<holds, gate, ready, decision, move, appUp>>
    BY <1>13 DEF Reap, Set
  <2>2. Clean(s) /\ (decision[s] = "go" => Permitted(s))
    BY <1>2, <2>1 DEF ResourcesOK, GateOK
  <2>3. /\ "failed" \in Stages /\ "failed" \notin Undecided
        /\ "failed" \notin Before \cup {"pipe", "pty"}
    BY <1>4 DEF Before, Preparing, Undecided
  <2>4. stage' = [stage EXCEPT ![s] = "failed"]
    BY <2>1 DEF Goes
  <2>5. LaunchTypes'
    BY <2>1, <2>3, <2>4 DEF LaunchTypes
  <2>6. /\ stage'[s] = "failed" /\ child'[s] = "reaped"
        /\ \A t \in Sessions \ {s} : stage'[t] = stage[t] /\ child'[t] = child[t]
    BY <2>1, <2>4 DEF LaunchTypes
  <2>7. \A t \in Sessions \ {s} : Untouched(t)
    BY <1>3, <2>1, <2>6 DEF Untouched
  <2>8. ResourcesOK(s)' /\ GateOK(s)'
    BY <1>3, <2>1, <2>2, <2>3, <2>6 DEF ResourcesOK, GateOK, Permitted
  <2> QED BY <2>5, <2>7, <2>8, OthersOK
<1>14. CASE Started(s)
  <2>1. /\ stage[s] = "launched" /\ Goes(s, "started")
        /\ holds' = [holds EXCEPT ![App] =
                        (holds[App] \ Own(s, {"bareMaster"})) \cup Own(s, {"master"})]
        /\ UNCHANGED <<gate, ready, decision, move, child, appUp>>
    BY <1>14 DEF Started
  <2>2. /\ Own(s, {"master"}) \subseteq Ends \X Sessions
        /\ \A e, t : <<e, t>> \in Own(s, {"master"}) => t = s
    BY OwnEnds DEF Ends, Own
  <2>3. /\ holds' \in [Processes -> SUBSET (Ends \X Sessions)]
        /\ holds'[App] \subseteq holds[App] \cup Own(s, {"master"})
    BY <1>1, <2>1, <2>2, AppIsAProcess
  <2>4. \A t \in Sessions \ {s} : Clean(t) => Clean(t)'
    BY <2>2, <2>3 DEF Clean
  <2>5. /\ decision[s] = "go" => Permitted(s)
        /\ child[s] \in {"released", "running"} => Permitted(s)
    BY <1>2 DEF GateOK
  <2>6. "started" \in Stages
        /\ "started" \notin Before \cup Undecided \cup {"reap", "failed", "pipe", "pty", "release"}
    BY <1>4 DEF Before, Preparing, Undecided
  <2> QED BY <1>1, <2>1, <2>3, <2>4, <2>5, <2>6, WorkerMoves DEF Permitted
<1> QED
  BY <1>5, <1>6, <1>7, <1>8, <1>9, <1>10, <1>11, <1>12, <1>13, <1>14 DEF LaunchStep

\* Nothing that a child does changes what the application has open.
LEMMA ChildKeeps ==
    ASSUME LaunchTypes, LaunchOK, NEW s \in Sessions, ChildStep(s) \/ ChildEnds(s)
    PROVE  LaunchOK' /\ LaunchTypes'
<1>1. ResourcesOK(s) /\ GateOK(s)
  BY DEF LaunchOK
<1>2. /\ child[s] \in {"setup", "gated", "released"}
      /\ UNCHANGED <<stage, gate, move, appUp>>
  BY DEF ChildStep, ChildReady, ChildDecides, ChildExecs, ChildEnds, ChildDoes
<1>3. stage[s] \notin Before \cup {"pipe", "pty", "failed"}
  BY <1>1, <1>2 DEF ResourcesOK
<1>4. PICK c \in {"gated", "released", "running", "dead"} :
          /\ child' = [child EXCEPT ![s] = c]
          /\ c \in {"released", "running"} =>
                gate[s] = "none" \/ decision[s] = "go" \/ child[s] = "released"
  BY DEF ChildStep, ChildReady, ChildDecides, ChildExecs, ChildEnds, ChildDoes, Set
<1>5. PICK d \in {"none", decision[s]} : decision' = [decision EXCEPT ![s] = d]
  <2>1. decision = [decision EXCEPT ![s] = decision[s]]
    BY DEF LaunchTypes
  <2> QED
    BY <2>1 DEF ChildStep, ChildReady, ChildDecides, ChildExecs, ChildEnds, Set
<1>6. /\ ready' \in [Sessions -> BOOLEAN]
      /\ \E own \in SUBSET (Ends \X Sessions) : holds' = [holds EXCEPT ![s] = own]
  <2>1. /\ holds[s] \in SUBSET (Ends \X Sessions)
        /\ ready \in [Sessions -> BOOLEAN]
    BY AppIsAProcess DEF LaunchTypes
  <2>2. CASE ChildReady(s)
    <3>1. holds' = [holds EXCEPT ![s] = holds[s] \ Own(s, {"ready", "gate"})]
      BY <2>2 DEF ChildReady, Closes
    <3> QED BY <2>1, <2>2, <3>1 DEF ChildReady, Set
  <2>3. CASE ChildDecides(s)
    <3>1. \/ holds' = [holds EXCEPT ![s] = holds[s] \ Own(s, {"peer"})]
          \/ holds' = [holds EXCEPT ![s] = {}]
      BY <2>3 DEF ChildDecides, Closes
    <3> QED BY <2>1, <2>3, <3>1 DEF ChildDecides
  <2>4. CASE ChildExecs(s)
    <3>1. holds' = [holds EXCEPT ![s] = {h \in holds[s] : h[1] = "bareMaster"}]
      BY <2>4 DEF ChildExecs
    <3>2. {h \in holds[s] : h[1] = "bareMaster"} \in SUBSET (Ends \X Sessions)
      BY <2>1
    <3> QED BY <2>1, <2>4, <3>1, <3>2 DEF ChildExecs
  <2>5. CASE ChildEnds(s)
    BY <2>1, <2>5 DEF ChildEnds
  <2> QED BY <2>2, <2>3, <2>4, <2>5 DEF ChildStep
<1>7. /\ holds' \in [Processes -> SUBSET (Ends \X Sessions)]
      /\ holds'[App] = holds[App]
  BY <1>6, AppIsAProcess DEF LaunchTypes
<1>8. \A t \in Sessions : Clean(t) => Clean(t)'
  BY <1>7 DEF Clean
<1>9. LaunchTypes'
  BY <1>2, <1>4, <1>5, <1>6, <1>7 DEF LaunchTypes
<1>10. /\ child'[s] = c /\ decision'[s] = d
       /\ \A t \in Sessions \ {s} : child'[t] = child[t] /\ decision'[t] = decision[t]
  BY <1>4, <1>5 DEF LaunchTypes
<1>11. \A t \in Sessions \ {s} : Untouched(t)
  BY <1>2, <1>8, <1>10 DEF Untouched
<1>12. ResourcesOK(s)'
  BY <1>1, <1>2, <1>3, <1>8, <1>10 DEF ResourcesOK
<1>13. GateOK(s)'
  <2>1. decision'[s] = "go" => decision[s] = "go"
    BY <1>5, <1>10
  <2>2. decision[s] = "none" => decision'[s] = "none"
    BY <1>5, <1>10
  <2>3. child'[s] \in {"released", "running"} => Permitted(s)
    BY <1>1, <1>4, <1>10 DEF GateOK, Permitted
  <2> QED BY <1>1, <1>2, <2>1, <2>2, <2>3 DEF GateOK, Permitted
<1> QED BY <1>9, <1>11, <1>12, <1>13, OthersOK

\* A preparation opens nothing and forks nothing.
Prepares(s) ==
    /\ UNCHANGED launchVars
    /\ \/ UNCHANGED stage
       \/ \E to \in Preparing \cup {"prepared"} :
             stage[s] \in Preparing \cup {"new"} /\ Goes(s, to)

LEMMA PreparesKeeps ==
    ASSUME LaunchTypes, LaunchOK, NEW s \in Sessions, Prepares(s)
    PROVE  LaunchOK' /\ LaunchTypes'
<1>1. UNCHANGED <<holds, gate, ready, decision, move, child, appUp>>
  BY DEF Prepares, launchVars
<1>2. \A t \in Sessions : Clean(t) => Clean(t)'
  BY <1>1 DEF Clean
<1>3. CASE UNCHANGED stage
  <2>1. \A t \in Sessions : Untouched(t)
    BY <1>1, <1>2, <1>3 DEF Untouched
  <2>2. ResourcesOK(s)' /\ GateOK(s)'
    BY <1>1, <1>2, <1>3 DEF LaunchOK, ResourcesOK, GateOK, Permitted
  <2>3. LaunchTypes'
    BY <1>1, <1>3 DEF LaunchTypes
  <2> QED BY <2>1, <2>2, <2>3, OthersOK
<1>4. ASSUME NEW to \in Preparing \cup {"prepared"}, Goes(s, to),
             stage[s] \in Preparing \cup {"new"}
      PROVE  LaunchOK' /\ LaunchTypes'
  <2>1. stage' = [stage EXCEPT ![s] = to]
    BY <1>4 DEF Goes
  <2>2. to \in Stages
    BY DEF Stages
  <2>3. LaunchTypes'
    BY <1>1, <2>1, <2>2 DEF LaunchTypes
  <2>4. stage'[s] = to /\ \A t \in Sessions \ {s} : stage'[t] = stage[t]
    BY <2>1 DEF LaunchTypes
  <2>5. \A t \in Sessions \ {s} : Untouched(t)
    BY <1>1, <1>2, <2>4 DEF Untouched
  <2>6. ResourcesOK(s) /\ GateOK(s) /\ stage[s] \in Before /\ stage[s] \in Undecided
    BY <1>4 DEF LaunchOK, Before, Undecided
  <2>7. to \in Before /\ to \in Undecided /\ to \notin {"release", "failed", "reap", "pipe", "pty"}
    BY DEF Before, Undecided, Preparing
  <2>8. ResourcesOK(s)' /\ GateOK(s)'
    BY <1>1, <1>2, <2>4, <2>6, <2>7 DEF ResourcesOK, GateOK, Permitted
  <2> QED BY <2>3, <2>5, <2>8, OthersOK
<1> QED BY <1>3, <1>4 DEF Prepares

LEMMA PrepareStepPrepares ==
    ASSUME NEW s \in Sessions, PrepareStep(s), UNCHANGED launchVars
    PROVE  Prepares(s)
<1> USE DEF Prepares, Preparing
<1>1. CASE Prepare(s)
  BY <1>1 DEF Prepare
<1>2. CASE Identify(s)
  BY <1>2 DEF Identify
<1>3. CASE Lookup(s)
  <2>1. Goes(s, "verify") \/ Goes(s, "wait") \/ Goes(s, "bypass") \/ Goes(s, "lead")
    BY <1>3, Zenon DEF Lookup
  <2>2. stage[s] = "lookup"
    BY <1>3 DEF Lookup
  <2> QED BY <2>1, <2>2
<1>4. CASE Verify(s)
  BY <1>4 DEF Verify
<1>5. CASE Landed(s)
  BY <1>5 DEF Landed
<1>6. CASE HelperReads(s)
  BY <1>6 DEF HelperReads
<1>7. CASE HelperEnds(s)
  BY <1>7 DEF HelperEnds
<1>8. CASE Publish(s)
  BY <1>8 DEF Publish
<1> QED BY <1>1, <1>2, <1>3, <1>4, <1>5, <1>6, <1>7, <1>8 DEF PrepareStep

LEMMA LaunchKept ==
    ASSUME LaunchTypes, LaunchOK, [Next]_vars
    PROVE  LaunchOK' /\ LaunchTypes'
<1>1. ASSUME NEW s \in Sessions, LaunchStep(s) PROVE LaunchOK' /\ LaunchTypes'
  BY <1>1, LaunchStepKeeps
<1>2. ASSUME NEW s \in Sessions, PrepareStep(s), UNCHANGED launchVars
      PROVE  LaunchOK' /\ LaunchTypes'
  BY <1>2, PrepareStepPrepares, PreparesKeeps
<1>3. ASSUME NEW s \in Sessions, ChildStep(s) \/ ChildEnds(s)
      PROVE  LaunchOK' /\ LaunchTypes'
  BY <1>3, ChildKeeps
<1>4. ASSUME UNCHANGED <<stage, holds, gate, ready, decision, move, child, appUp>>
      PROVE  LaunchOK' /\ LaunchTypes'
  BY <1>4 DEF LaunchOK, ResourcesOK, GateOK, Permitted, Clean, LaunchTypes
<1>5. CASE AppCrashes
  <2>1. /\ holds' = [holds EXCEPT ![App] = {}] /\ appUp' = FALSE
        /\ UNCHANGED <<stage, gate, ready, decision, move, child>>
    BY <1>5 DEF AppCrashes
  <2>2. holds' \in [Processes -> SUBSET (Ends \X Sessions)] /\ holds'[App] = {}
    BY <2>1, AppIsAProcess DEF LaunchTypes
  <2>3. \A s \in Sessions : Clean(s)'
    BY <2>2 DEF Clean
  <2> QED BY <2>1, <2>2, <2>3 DEF LaunchOK, ResourcesOK, GateOK, Permitted, LaunchTypes
<1>6. CASE FilesChange /\ UNCHANGED launchVars
  BY <1>4, <1>6 DEF FilesChange, launchVars
<1>7. CASE UNCHANGED vars
  BY <1>4, <1>7 DEF vars
<1>8. ASSUME NEW s \in Sessions, WorkerStep(s) PROVE LaunchOK' /\ LaunchTypes'
  BY <1>1, <1>2, <1>8 DEF WorkerStep
<1> QED BY <1>3, <1>5, <1>6, <1>7, <1>8 DEF Next

-----------------------------------------------------------------------------
(* What the cache holds *)

Holds(c) ==
    /\ c \in Seq(Cached) /\ Len(c) <= MaxEntries
    /\ \A i \in 1..Len(c) : EntryOK(c[i])

LEMMA CacheHolds ==
    ASSUME CacheTypeOK
    PROVE  CacheOK <=> Holds(cache)
<1>1. cache \in Seq(Cached) /\ Len(cache) <= MaxEntries
  BY DEF CacheTypeOK
<1>2. DOMAIN cache = 1..Len(cache)
  BY <1>1
<1> QED BY <1>1, <1>2 DEF CacheOK, Holds

LEMMA ForgottenHolds ==
    ASSUME Holds(cache), NEW key
    PROVE  Holds(Forgotten(key))
<1> DEFINE I == {i \in DOMAIN cache : cache[i].key # key}
           t == Subsequence(cache, I)
<1>1. cache \in Seq(Cached) /\ DOMAIN cache = 1..Len(cache)
  BY DEF Holds
<1>2. I \in SUBSET (1..Len(cache))
  BY <1>1
<1> HIDE DEF I
<1>3. /\ t \in Seq(Cached) /\ Len(t) <= Len(cache)
      /\ \A k \in 1..Len(t) : \E i \in I : t[k] = cache[i]
  BY <1>1, <1>2, SubsequenceElements
<1> HIDE DEF t
<1>4. \A k \in 1..Len(t) : EntryOK(t[k])
  BY <1>2, <1>3 DEF Holds
<1>5. Len(t) <= MaxEntries
  BY <1>1, <1>3, ShellIntegrationAssumption DEF Holds
<1>6. Forgotten(key) = t
  BY DEF Forgotten, t, I
<1> QED BY <1>3, <1>4, <1>5, <1>6 DEF Holds

\* An entry at the end.
LEMMA AppendHolds ==
    ASSUME NEW c, Holds(c), Len(c) < MaxEntries, NEW e \in Cached, EntryOK(e)
    PROVE  Holds(Append(c, e))
<1>1. c \in Seq(Cached) /\ Len(c) \in Nat /\ \A i \in 1..Len(c) : EntryOK(c[i])
  BY DEF Holds
<1>2. /\ Append(c, e) \in Seq(Cached) /\ Len(Append(c, e)) = Len(c) + 1
      /\ \A i \in 1..Len(c) : Append(c, e)[i] = c[i]
      /\ Append(c, e)[Len(c) + 1] = e
  BY <1>1
<1>3. \A i \in 1..(Len(c) + 1) : i \in 1..Len(c) \/ i = Len(c) + 1
  BY <1>1
<1>4. \A i \in 1..(Len(c) + 1) : EntryOK(Append(c, e)[i])
  BY <1>1, <1>2, <1>3
<1>5. Len(c) + 1 <= MaxEntries
  BY <1>1, ShellIntegrationAssumption
<1> QED BY <1>2, <1>4, <1>5 DEF Holds

LEMMA TouchedHolds ==
    ASSUME Holds(cache), NEW i \in DOMAIN cache
    PROVE  /\ Holds(Append(RemoveAt(cache, i), cache[i]))
           /\ cache[i] \in Cached /\ EntryOK(cache[i])
<1> DEFINE r == RemoveAt(cache, i)
<1>1. /\ cache \in Seq(Cached) /\ Len(cache) \in Nat /\ Len(cache) <= MaxEntries
      /\ i \in 1..Len(cache)
  BY DEF Holds
<1>2. cache[i] \in Cached /\ EntryOK(cache[i])
  BY <1>1 DEF Holds
<1>3. Holds(r) /\ Len(r) = Len(cache) - 1
  <2> DEFINE a == SubSeq(cache, 1, i - 1)
             b == SubSeq(cache, i + 1, Len(cache))
  <2>1. /\ a \in Seq(Cached) /\ Len(a) = i - 1
        /\ \A k \in 1..(i - 1) : a[k] = cache[k]
    BY <1>1
  <2>2. /\ b \in Seq(Cached) /\ Len(b) = Len(cache) - i
        /\ \A k \in 1..(Len(cache) - i) : b[k] = cache[i + k]
    BY <1>1, Halves
  <2>3. r = a \o b
    BY DEF RemoveAt
  <2> HIDE DEF a, b, r
  <2>4. /\ r \in Seq(Cached) /\ Len(r) = Len(a) + Len(b)
        /\ \A k \in 1..Len(a) : r[k] = a[k]
        /\ \A k \in (Len(a) + 1)..Len(r) : k - Len(a) \in 1..Len(b) /\ r[k] = b[k - Len(a)]
    <3>1. a \in Seq(Cached) /\ b \in Seq(Cached)
      BY <2>1, <2>2
    <3>2. Len(r) = Len(a) + Len(b)
      BY <2>3, <3>1, Concatenation
    <3> QED BY <2>3, <3>1, <3>2, Extension
  <2>5. Len(r) = Len(cache) - 1
    BY <1>1, <2>1, <2>2, <2>4
  <2>6. ASSUME NEW k \in 1..Len(r) PROVE EntryOK(r[k])
    <3>1. CASE k <= i - 1
      <4>1. k \in 1..Len(a) /\ k \in 1..(i - 1) /\ k \in 1..Len(cache)
        BY <1>1, <2>1, <2>5, <3>1
      <4> QED BY <2>1, <2>4, <4>1 DEF Holds
    <3>2. CASE k > i - 1
      <4>1. k \in (Len(a) + 1)..Len(r)
        BY <1>1, <2>1, <2>5, <3>2
      <4>2. k - Len(a) \in 1..(Len(cache) - i) /\ i + (k - Len(a)) \in 1..Len(cache)
        <5>1. k - Len(a) \in 1..Len(b)
          BY <2>4, <4>1
        <5>2. k - Len(a) \in 1..(Len(cache) - i)
          BY <2>2, <5>1
        <5>3. \A j \in 1..(Len(cache) - i) : i + j \in 1..Len(cache)
          BY <1>1
        <5> QED BY <5>2, <5>3
      <4> QED BY <2>2, <2>4, <4>1, <4>2 DEF Holds
    <3> QED BY <1>1, <2>5, <3>1, <3>2
  <2>7. Len(r) <= MaxEntries
    BY <1>1, <2>5, ShellIntegrationAssumption
  <2> QED BY <2>4, <2>5, <2>6, <2>7 DEF Holds
<1> HIDE DEF r
<1>4. Len(r) < MaxEntries
  BY <1>1, <1>3, ShellIntegrationAssumption
<1> QED BY <1>2, <1>3, <1>4, AppendHolds DEF r

LEMMA RetainedHolds ==
    ASSUME Holds(cache), NEW s \in Sessions, NEW c \in Retained(s),
           NEW e \in Cached, e = [key |-> Key(s), result |-> prep[s].result], EntryOK(e)
    PROVE  Holds(c)
<1> DEFINE others == Forgotten(Key(s))
           room == IF Len(others) >= MaxEntries THEN Tail(others) ELSE others
<1>1. Holds(others)
  BY ForgottenHolds
<1>2. c = Append(room, e) \/ c = cache
  BY DEF Retained
<1> HIDE DEF others
<1>3. others \in Seq(Cached) /\ Len(others) \in Nat /\ Len(others) <= MaxEntries
  BY <1>1 DEF Holds
<1>4. Holds(room) /\ Len(room) < MaxEntries
  <2>1. CASE Len(others) >= MaxEntries
    <3>1. Len(others) > 0
      BY <1>3, <2>1, ShellIntegrationAssumption
    <3>2. /\ Tail(others) \in Seq(Cached) /\ Len(Tail(others)) = Len(others) - 1
          /\ \A k \in 1..(Len(others) - 1) : Tail(others)[k] = others[k + 1]
      BY <1>3, <3>1
    <3>3. \A k \in 1..(Len(others) - 1) : k + 1 \in 1..Len(others)
      BY <1>3
    <3>4. \A k \in 1..Len(Tail(others)) : EntryOK(Tail(others)[k])
      BY <1>1, <3>2, <3>3 DEF Holds
    <3>5. Len(Tail(others)) < MaxEntries /\ Len(Tail(others)) <= MaxEntries
      BY <1>3, <3>2, ShellIntegrationAssumption
    <3>6. room = Tail(others)
      BY <2>1
    <3> QED BY <3>2, <3>4, <3>5, <3>6 DEF Holds
  <2>2. CASE ~(Len(others) >= MaxEntries)
    BY <1>1, <1>3, <2>2, ShellIntegrationAssumption
  <2> QED BY <2>1, <2>2
<1> HIDE DEF room
<1>5. Holds(Append(room, e))
  BY <1>4, AppendHolds
<1> QED BY <1>2, <1>5

-----------------------------------------------------------------------------
(* What the preparations know *)

\* Nothing of what the other sessions know or lead changes.
OnlyMoves(s) ==
    /\ UNCHANGED <<files, edits>>
    /\ \A t \in Sessions \ {s} :
          /\ stage'[t] = stage[t] /\ prep'[t] = prep[t] /\ seen'[t] = seen[t]
          /\ t \in pending' <=> t \in pending

LEMMA OthersPrepared ==
    ASSUME CacheTypeOK, PreparationOK, NEW s \in Sessions, OnlyMoves(s),
           \A t \in Sessions \ {s} :
               \/ flight'[t] = flight[t]
               \/ flight'[t] = NoOutcome /\ Joined(t, Sessions \ {s}) = {},
           \A t \in Sessions \ {s} :
               stage[t] = "wait" /\ s \in prep[t].joined => JoinOK(t, s)',
           SessionOK(s)', CacheOK'
    PROVE  PreparationOK'
<1>1. ASSUME NEW t \in Sessions, t # s PROVE SessionOK(t)'
  <2>1. /\ stage'[t] = stage[t] /\ prep'[t] = prep[t] /\ seen'[t] = seen[t]
        /\ t \in pending' <=> t \in pending
        /\ UNCHANGED <<files, edits>>
    BY <1>1 DEF OnlyMoves
  <2>2. SessionOK(t)
    BY DEF PreparationOK
  <2>3. PrepOK(t)'
    BY <2>1, <2>2 DEF SessionOK, PrepOK
  <2>4. ResultOK(t)'
    BY <2>1, <2>2 DEF SessionOK, ResultOK, Answers
  <2>5. PendingOK(t)'
    BY <1>1, <2>1, <2>2 DEF SessionOK, PendingOK
  <2>6. ASSUME stage[t] = "wait", NEW l \in prep[t].joined PROVE JoinOK(t, l)'
    <3>1. CASE l = s
      BY <1>1, <2>6, <3>1
    <3>2. CASE l # s
      <4>1. l \in Sessions
        BY <2>6 DEF CacheTypeOK, Preps
      <4>2. t \in Joined(l, Sessions \ {s})
        BY <1>1, <2>6 DEF Joined
      <4>3. flight'[l] = flight[l]
        BY <3>2, <4>1, <4>2
      <4>4. prep'[l] = prep[l] /\ (l \in pending' <=> l \in pending)
        BY <3>2, <4>1 DEF OnlyMoves
      <4>5. JoinOK(t, l)
        BY <2>2, <2>6 DEF SessionOK, WaitOK
      <4> QED BY <2>1, <4>3, <4>4, <4>5 DEF JoinOK, Key, Answers
    <3> QED BY <3>1, <3>2
  <2>7. WaitOK(t)'
    BY <2>1, <2>6 DEF WaitOK
  <2> QED BY <2>3, <2>4, <2>5, <2>7 DEF SessionOK
<1> QED BY <1>1 DEF PreparationOK

\* A session whose flight is not in the table may do as it likes: who still waits
\* for its flight waits for an outcome that is there.
LEMMA AloneMoves ==
    ASSUME CacheTypeOK, PreparationOK, NEW s \in Sessions, OnlyMoves(s),
           s \notin pending, UNCHANGED flight, SessionOK(s)', CacheOK'
    PROVE  PreparationOK'
<1>1. ASSUME NEW t \in Sessions \ {s}, stage[t] = "wait", s \in prep[t].joined
      PROVE  JoinOK(t, s)'
  <2>1. JoinOK(t, s)
    BY <1>1 DEF PreparationOK, SessionOK, WaitOK
  <2>2. flight[s] # NoOutcome /\ flight'[s] = flight[s]
    BY <2>1 DEF JoinOK
  <2>3. prep'[t] = prep[t] /\ seen'[t] = seen[t]
    BY DEF OnlyMoves
  <2> QED BY <2>1, <2>2, <2>3 DEF JoinOK, Answers
<1> QED BY <1>1, OthersPrepared

\* A launch that is not preparing: nothing it does concerns the cache.
Launches(s) ==
    /\ \E to \in Stages \ (Preparing \cup {"new"}) :
          stage[s] \notin Preparing /\ stage' = [stage EXCEPT ![s] = to]
    /\ UNCHANGED <<files, edits, cache, pending, flight>>
    /\ \/ UNCHANGED <<prep, seen>>
       \/ /\ prep' = [prep EXCEPT ![s] = NoPrep]
          /\ seen' = [seen EXCEPT ![s] = {}]

LEMMA LaunchStepLaunches ==
    ASSUME NEW s \in Sessions, LaunchStep(s)
    PROVE  Launches(s)
<1> DEFINE Later == {"prepared", "pipe", "pty", "forked", "await", "move", "release",
                     "launched", "reap", "started", "failed"}
<1>1. Later \subseteq Stages \ (Preparing \cup {"new"})
  BY DEF Stages, Preparing
<1>2. stage[s] \in Later \cup {"new"}
  BY DEF LaunchStep, Begin, CreatePipes, OpenPty, Fork, ParentCloses, AwaitReady, Move,
         Release, Reap, Started
<1>3. stage[s] \notin Preparing
  BY <1>2 DEF Preparing
<1>4. \E to \in Later : Goes(s, to)
  <2>1. CASE Begin(s)
    BY <2>1 DEF Begin
  <2>2. CASE CreatePipes(s)
    BY <2>2, Zenon DEF CreatePipes
  <2>3. CASE OpenPty(s) \/ Fork(s)
    BY <2>3 DEF OpenPty, Fork
  <2>4. CASE ParentCloses(s) \/ AwaitReady(s) \/ Move(s)
    BY <2>4 DEF ParentCloses, AwaitReady, Move
  <2>5. CASE Release(s)
    BY <2>5 DEF Release
  <2>6. CASE Reap(s) \/ Started(s)
    BY <2>6 DEF Reap, Started
  <2> QED BY <2>1, <2>2, <2>3, <2>4, <2>5, <2>6 DEF LaunchStep
<1>5. \/ UNCHANGED cacheVars
      \/ /\ prep' = [prep EXCEPT ![s] = NoPrep] /\ seen' = [seen EXCEPT ![s] = {}]
         /\ UNCHANGED <<files, edits, cache, pending, flight>>
  BY DEF LaunchStep, Begin, CreatePipes, OpenPty, Fork, ParentCloses, AwaitReady, Move,
         Release, Reap, Started, Taken
<1> QED BY <1>1, <1>3, <1>4, <1>5 DEF Launches, Goes, cacheVars

LEMMA NoPrepTyped ==
    /\ NoPrep \in Preps
    /\ NoPrep.result = NoOutcome
    /\ NoOutcome.kind # "success" /\ Failure.kind # "success"
    /\ NoOutcome # Failure
  BY ShellIntegrationAssumption DEF NoPrep, Locals, Preps, Results, NoOutcome, Failure

LEMMA LaunchesKeep ==
    ASSUME CacheTypeOK, stage \in [Sessions -> Stages], PreparationOK,
           NEW s \in Sessions, Launches(s)
    PROVE  PreparationOK' /\ CacheTypeOK'
<1>1. PICK to \in Stages \ (Preparing \cup {"new"}) : stage' = [stage EXCEPT ![s] = to]
  BY DEF Launches
<1>2. /\ stage'[s] = to /\ stage[s] \notin Preparing
      /\ UNCHANGED <<files, edits, cache, pending, flight>>
  BY <1>1 DEF Launches
<1>3. /\ \/ prep'[s] = prep[s] /\ seen'[s] = seen[s]
         \/ prep'[s] = NoPrep
      /\ \A t \in Sessions \ {s} : prep'[t] = prep[t] /\ seen'[t] = seen[t]
      /\ prep' \in [Sessions -> Preps] /\ seen' \in [Sessions -> SUBSET Versions]
  BY NoPrepTyped DEF Launches, CacheTypeOK
<1>4. OnlyMoves(s)
  BY <1>1, <1>2, <1>3 DEF OnlyMoves
<1>5. SessionOK(s)
  BY DEF PreparationOK
<1>6. PrepOK(s)' /\ WaitOK(s)'
  BY <1>2 DEF PrepOK, WaitOK, Preparing, Sharing
<1>7. PendingOK(s)' /\ s \notin pending
  BY <1>2, <1>5 DEF SessionOK, PendingOK, Preparing
<1>8. ResultOK(s)'
  <2>1. prep'[s].result.kind = "success" => prep'[s] = prep[s] /\ seen'[s] = seen[s]
    BY <1>3, NoPrepTyped
  <2> QED BY <1>2, <1>5, <2>1 DEF SessionOK, ResultOK, Preparing, Answers
<1>9. CacheOK'
  BY <1>2 DEF PreparationOK, CacheOK, EntryOK, Answers
<1>10. CacheTypeOK'
  BY <1>2, <1>3 DEF CacheTypeOK
<1> QED BY <1>2, <1>4, <1>6, <1>7, <1>8, <1>9, <1>10, AloneMoves DEF SessionOK

LEMMA FilesChangeKeeps ==
    ASSUME CacheTypeOK, PreparationOK, FilesChange
    PROVE  PreparationOK' /\ CacheTypeOK'
<1>1. PICK v \in Versions \ {files} :
          /\ files' = v
          /\ seen' = [s \in Sessions |->
                         IF stage[s] \in Preparing THEN seen[s] \cup {v} ELSE seen[s]]
  BY DEF FilesChange
<1>2. edits' = edits + 1 /\ edits' \in 0..MaxEdits /\ edits \in Nat
  BY ShellIntegrationAssumption DEF FilesChange, CacheTypeOK
<1>3. UNCHANGED <<cache, pending, flight, stage, prep>>
  BY DEF FilesChange
<1>4. CacheTypeOK'
  BY <1>1, <1>2, <1>3 DEF CacheTypeOK
<1>5. ASSUME NEW s \in Sessions PROVE SessionOK(s)'
  <2>1. /\ seen[s] \subseteq seen'[s]
        /\ stage[s] \in Preparing => v \in seen'[s]
        /\ stage[s] \notin Preparing => seen'[s] = seen[s]
    BY <1>1
  <2>2. SessionOK(s) /\ prep[s] \in Preps
    BY DEF PreparationOK, CacheTypeOK
  <2>3. prep[s].since \in Nat
    BY <2>2, ShellIntegrationAssumption DEF Preps
  <2>4. PrepOK(s)'
    <3>1. prep[s].since <= edits => prep[s].since <= edits' /\ edits' # prep[s].since
      BY <1>2, <2>3
    <3>2. stage[s] \in {"lead", "bypass", "judged"} =>
              \A w \in prep[s].read :
                  /\ w \in seen'[s]
                  /\ \/ w = prep[s].identity
                     \/ edits' >= prep[s].since + 2
      BY <1>2, <2>1, <2>2, <2>3 DEF SessionOK, PrepOK
    <3>3. Sharing \subseteq Preparing
      BY DEF Sharing, Preparing
    <3> QED
      BY <1>1, <1>3, <2>1, <2>2, <3>1, <3>2, <3>3 DEF SessionOK, PrepOK
  <2>5. ResultOK(s)'
    BY <1>3, <2>1, <2>2 DEF SessionOK, ResultOK, Answers
  <2>6. PendingOK(s)'
    BY <1>3, <2>2 DEF SessionOK, PendingOK
  <2>7. ASSUME stage[s] = "wait", NEW l \in prep[s].joined PROVE JoinOK(s, l)'
    <3>1. l \in Sessions /\ JoinOK(s, l)
      BY <2>2, <2>7 DEF SessionOK, WaitOK, Preps
    <3>2. prep[l].since \in Nat
      BY <3>1, ShellIntegrationAssumption DEF CacheTypeOK, Preps
    <3>3. edits >= prep[l].since + 2 => edits' >= prep[l].since + 2
      BY <1>2, <3>2
    <3> QED BY <1>3, <2>1, <3>1, <3>3 DEF JoinOK, Key, Answers
  <2> QED BY <1>3, <2>4, <2>5, <2>6, <2>7 DEF SessionOK, WaitOK
<1>6. CacheOK'
  BY <1>3 DEF PreparationOK, CacheOK, EntryOK, Answers
<1> QED BY <1>4, <1>5, <1>6 DEF PreparationOK

\* The step of a preparation, told by what it makes of its stage and its locals.
LEMMA StepsOnly ==
    ASSUME CacheTypeOK, stage \in [Sessions -> Stages], NEW s \in Sessions, NEW to,
           Goes(s, to), UNCHANGED <<files, edits>>,
           NEW q \in Preps, prep' = [prep EXCEPT ![s] = q],
           seen' \in [Sessions -> SUBSET Versions],
           \A t \in Sessions \ {s} : seen'[t] = seen[t],
           \A t \in Sessions \ {s} : t \in pending' <=> t \in pending
    PROVE  /\ OnlyMoves(s)
           /\ stage'[s] = to /\ prep'[s] = q
           /\ prep' \in [Sessions -> Preps]
<1>1. stage' = [stage EXCEPT ![s] = to]
  BY DEF Goes
<1>2. stage'[s] = to /\ \A t \in Sessions \ {s} : stage'[t] = stage[t]
  BY <1>1
<1>3. /\ prep'[s] = q /\ prep' \in [Sessions -> Preps]
      /\ \A t \in Sessions \ {s} : prep'[t] = prep[t]
  BY DEF CacheTypeOK
<1> QED BY <1>2, <1>3 DEF OnlyMoves

LEMMA PrepareKeeps ==
    ASSUME CacheTypeOK, stage \in [Sessions -> Stages], PreparationOK,
           NEW s \in Sessions, Prepare(s)
    PROVE  PreparationOK' /\ CacheTypeOK'
<1>1. PICK r \in Requests : prep' = [prep EXCEPT ![s] = Locals(r)]
  BY DEF Prepare
<1>2. /\ stage[s] = "new" /\ Goes(s, "identify")
      /\ seen' = [seen EXCEPT ![s] = {files}]
      /\ UNCHANGED <<files, edits, cache, pending, flight>>
  BY DEF Prepare
<1>3. /\ Locals(r) \in Preps /\ Locals(r).request = r /\ Locals(r).read = {}
      /\ Locals(r).result = NoOutcome
  BY ShellIntegrationAssumption DEF Locals, Preps, Results
<1>4. /\ seen' \in [Sessions -> SUBSET Versions] /\ seen'[s] = {files}
      /\ \A t \in Sessions \ {s} : seen'[t] = seen[t]
  BY <1>2 DEF CacheTypeOK
<1>5. /\ OnlyMoves(s) /\ stage'[s] = "identify" /\ prep'[s] = Locals(r)
      /\ prep' \in [Sessions -> Preps]
  BY <1>1, <1>2, <1>3, <1>4, StepsOnly
<1>6. SessionOK(s)
  BY DEF PreparationOK
<1>7. PrepOK(s)' /\ ResultOK(s)' /\ WaitOK(s)'
  BY <1>2, <1>3, <1>4, <1>5 DEF PrepOK, ResultOK, WaitOK, Sharing, Preparing
<1>8. PendingOK(s)' /\ s \notin pending
  BY <1>2, <1>5, <1>6 DEF SessionOK, PendingOK, Preparing
<1>9. CacheOK'
  BY <1>2 DEF PreparationOK, CacheOK, EntryOK, Answers
<1>10. CacheTypeOK'
  BY <1>2, <1>4, <1>5 DEF CacheTypeOK
<1> QED BY <1>2, <1>5, <1>7, <1>8, <1>9, <1>10, AloneMoves DEF SessionOK

LEMMA IdentifyKeeps ==
    ASSUME CacheTypeOK, stage \in [Sessions -> Stages], PreparationOK,
           NEW s \in Sessions, Identify(s)
    PROVE  PreparationOK' /\ CacheTypeOK'
<1>1. /\ stage[s] = "identify"
      /\ UNCHANGED <<files, edits, cache, pending, flight, seen>>
  BY DEF Identify
<1>2. PICK to \in {"lookup", "bypass"} : Goes(s, to)
  BY DEF Identify
<1>3. PICK q : q = [prep[s] EXCEPT !.identity = files, !.since = edits]
  OBVIOUS
<1>4. prep' = [prep EXCEPT ![s] = q]
  BY <1>3 DEF Identify
<1>5. prep[s] \in Preps /\ files \in Versions /\ edits \in 0..MaxEdits
  BY DEF CacheTypeOK
<1>6. /\ q \in Preps /\ q.identity = files /\ q.since = edits /\ q.request = prep[s].request
      /\ q.read = prep[s].read
  BY <1>3, <1>5 DEF Preps
<1>7. /\ seen' \in [Sessions -> SUBSET Versions] /\ seen'[s] = seen[s]
      /\ \A t \in Sessions \ {s} : seen'[t] = seen[t]
      /\ \A t \in Sessions \ {s} : t \in pending' <=> t \in pending
  BY <1>1 DEF CacheTypeOK
<1>8. OnlyMoves(s) /\ stage'[s] = to /\ prep'[s] = q /\ prep' \in [Sessions -> Preps]
  BY <1>1, <1>2, <1>4, <1>6, <1>7, StepsOnly
<1>9. SessionOK(s)
  BY DEF PreparationOK
<1>10. prep[s].request \in Requests /\ files \in seen[s] /\ prep[s].read = {}
  BY <1>1, <1>9 DEF SessionOK, PrepOK, Preparing
<1>11. PrepOK(s)' /\ ResultOK(s)' /\ WaitOK(s)'
  <2>1. edits <= edits
    BY <1>5, ShellIntegrationAssumption
  <2> QED
    BY <1>1, <1>2, <1>6, <1>8, <1>10, <2>1 DEF PrepOK, ResultOK, WaitOK, Sharing, Preparing
<1>12. PendingOK(s)' /\ s \notin pending
  BY <1>1, <1>2, <1>8, <1>9 DEF SessionOK, PendingOK, Preparing
<1>13. CacheOK'
  BY <1>1 DEF PreparationOK, CacheOK, EntryOK, Answers
<1>14. CacheTypeOK'
  BY <1>1, <1>8 DEF CacheTypeOK
<1> QED BY <1>1, <1>8, <1>11, <1>12, <1>13, <1>14, AloneMoves DEF SessionOK

\* What a session with an identity looks up, and what is known of its key.
LEMMA KeyTyped ==
    ASSUME CacheTypeOK, PreparationOK, NEW s \in Sessions, stage[s] \in Sharing
    PROVE  /\ Key(s) = <<prep[s].request, prep[s].identity>>
           /\ Key(s) \in Requests \X Versions
           /\ prep[s].identity \in seen[s] /\ files \in seen[s]
           /\ prep[s].since \in Nat /\ edits \in Nat
<1>1. PrepOK(s) /\ stage[s] \in Preparing
  BY DEF PreparationOK, SessionOK, Sharing, Preparing
<1>2. /\ prep[s].request \in Requests /\ prep[s].identity \in seen[s] /\ files \in seen[s]
      /\ seen[s] \in SUBSET Versions /\ prep[s] \in Preps /\ edits \in Nat
  BY <1>1, ShellIntegrationAssumption DEF PrepOK, CacheTypeOK
<1>3. prep[s].since \in Nat
  BY <1>2, ShellIntegrationAssumption DEF Preps
<1> QED BY <1>2, <1>3 DEF Key

LEMMA LookupKeeps ==
    ASSUME CacheTypeOK, stage \in [Sessions -> Stages], PreparationOK,
           NEW s \in Sessions, Lookup(s)
    PROVE  PreparationOK' /\ CacheTypeOK'
<1>1. stage[s] = "lookup" /\ UNCHANGED <<files, edits, flight, seen>>
  BY DEF Lookup
<1>2. /\ Key(s) = <<prep[s].request, prep[s].identity>>
      /\ Key(s) \in Requests \X Versions
      /\ prep[s].identity \in seen[s] /\ files \in seen[s]
  BY <1>1, KeyTyped DEF Sharing
<1>3. SessionOK(s) /\ prep[s] \in Preps
  BY DEF PreparationOK, CacheTypeOK
<1>4. s \notin pending /\ flight[s] = NoOutcome /\ prep[s].read = {}
  BY <1>1, <1>3 DEF SessionOK, PendingOK, PrepOK, Preparing
<1>5. /\ seen' \in [Sessions -> SUBSET Versions] /\ seen'[s] = seen[s]
      /\ \A t \in Sessions \ {s} : seen'[t] = seen[t]
  BY <1>1 DEF CacheTypeOK
<1>6. ASSUME NEW i \in Entry(Key(s)),
             cache' = Append(RemoveAt(cache, i), cache[i]),
             prep' = [prep EXCEPT ![s].result = cache[i].result],
             Goes(s, "verify"), UNCHANGED pending
      PROVE  PreparationOK' /\ CacheTypeOK'
  <2>1. i \in DOMAIN cache /\ cache[i].key = Key(s)
    BY DEF Entry
  <2>2. Holds(cache') /\ cache[i] \in Cached /\ EntryOK(cache[i])
    BY <1>6, <2>1, CacheHolds, TouchedHolds DEF PreparationOK
  <2>3. PICK q : q = [prep[s] EXCEPT !.result = cache[i].result]
    OBVIOUS
  <2>4. prep' = [prep EXCEPT ![s] = q]
    BY <1>6, <2>3
  <2>5. /\ q \in Preps /\ q.result = cache[i].result /\ q.request = prep[s].request
        /\ q.identity = prep[s].identity /\ q.since = prep[s].since /\ q.read = {}
    BY <1>3, <1>4, <2>2, <2>3 DEF Preps, Cached
  <2>6. OnlyMoves(s) /\ stage'[s] = "verify" /\ prep'[s] = q /\ prep' \in [Sessions -> Preps]
    <3>1. \A t \in Sessions \ {s} : t \in pending' <=> t \in pending
      BY <1>6
    <3>2. Goes(s, "verify") /\ UNCHANGED <<files, edits>> /\ q \in Preps
      BY <1>1, <1>6, <2>5
    <3> QED BY <1>5, <2>4, <3>1, <3>2, StepsOnly
  <2>7. PrepOK(s)' /\ WaitOK(s)'
    BY <1>1, <1>3, <1>5, <2>5, <2>6 DEF SessionOK, PrepOK, WaitOK, Sharing, Preparing
  <2>8. ResultOK(s)'
    <3>1. Answers(q.result, q.request) /\ (q.result.files = q.identity \/ q.result.swapped)
      BY <1>2, <2>1, <2>2, <2>5 DEF EntryOK, Answers
    <3> QED BY <2>6, <3>1 DEF ResultOK, Preparing
  <2>9. PendingOK(s)'
    BY <1>1, <1>4, <1>6, <2>6 DEF PendingOK
  <2>10. CacheTypeOK'
    BY <1>1, <1>6, <2>2, <2>6 DEF CacheTypeOK, Holds
  <2>11. CacheOK'
    <3>1. cache' \in Seq(Cached) /\ \A k \in 1..Len(cache') : EntryOK(cache'[k])
      BY <2>2 DEF Holds
    <3>2. DOMAIN cache' = 1..Len(cache')
      BY <3>1
    <3> QED BY <3>1, <3>2 DEF CacheOK, EntryOK, Answers
  <2> QED
    BY <1>1, <1>4, <2>6, <2>7, <2>8, <2>9, <2>10, <2>11, AloneMoves DEF SessionOK
<1>7. ASSUME prep' = [prep EXCEPT ![s].joined = Flying(Key(s))], Goes(s, "wait"),
             UNCHANGED <<cache, pending>>
      PROVE  PreparationOK' /\ CacheTypeOK'
  <2>1. PICK q : q = [prep[s] EXCEPT !.joined = Flying(Key(s))]
    OBVIOUS
  <2>2. prep' = [prep EXCEPT ![s] = q]
    BY <1>7, <2>1
  <2>3. Flying(Key(s)) \in SUBSET Sessions
    BY DEF Flying, CacheTypeOK
  <2>4. /\ q \in Preps /\ q.joined = Flying(Key(s)) /\ q.request = prep[s].request
        /\ q.identity = prep[s].identity /\ q.since = prep[s].since /\ q.read = {}
        /\ q.result = prep[s].result
    BY <1>3, <1>4, <2>1, <2>3 DEF Preps
  <2>5. OnlyMoves(s) /\ stage'[s] = "wait" /\ prep'[s] = q /\ prep' \in [Sessions -> Preps]
    <3>1. \A t \in Sessions \ {s} : t \in pending' <=> t \in pending
      BY <1>7
    <3>2. Goes(s, "wait") /\ UNCHANGED <<files, edits>> /\ q \in Preps
      BY <1>1, <1>7, <2>4
    <3> QED BY <1>5, <2>2, <3>1, <3>2, StepsOnly
  <2>6. PrepOK(s)' /\ ResultOK(s)'
    BY <1>1, <1>3, <1>5, <2>4, <2>5 DEF SessionOK, PrepOK, ResultOK, Sharing, Preparing
  <2>7. PendingOK(s)'
    BY <1>1, <1>4, <1>7, <2>5 DEF PendingOK
  <2>8. ASSUME NEW l \in q.joined PROVE JoinOK(s, l)'
    <3>1. l \in pending /\ Key(l) = Key(s) /\ l \in Sessions /\ l # s
      BY <1>4, <2>3, <2>4 DEF Flying
    <3>2. SessionOK(l) /\ stage[l] \in {"lead", "judged"}
      BY <3>1 DEF PreparationOK, SessionOK, PendingOK
    <3>3. flight[l] = NoOutcome /\ Key(l) = <<prep[l].request, prep[l].identity>>
      BY <3>2 DEF SessionOK, PendingOK, Preparing, Key
    <3>4. prep'[l] = prep[l]
      BY <2>5, <3>1 DEF OnlyMoves
    <3>5. prep[l].identity \in seen[s]
      BY <1>2, <3>1, <3>3
    <3>6. \A v \in prep[l].read : v \in seen[s] \/ edits >= prep[l].since + 2
      BY <1>2, <3>2, <3>5 DEF SessionOK, PrepOK
    <3>7. Key(l)' = Key(s)'
      BY <1>2, <2>4, <2>5, <3>1, <3>4 DEF Key
    <3> QED BY <1>1, <1>5, <1>7, <3>1, <3>3, <3>4, <3>6, <3>7 DEF JoinOK
  <2>9. WaitOK(s)'
    BY <2>5, <2>8 DEF WaitOK
  <2>10. CacheTypeOK'
    BY <1>1, <1>7, <2>5 DEF CacheTypeOK
  <2>11. CacheOK'
    BY <1>7 DEF PreparationOK, CacheOK, EntryOK, Answers
  <2> QED
    BY <1>1, <1>4, <2>5, <2>6, <2>7, <2>9, <2>10, <2>11, AloneMoves DEF SessionOK
<1>8. ASSUME NEW to \in {"bypass", "lead"}, Goes(s, to), UNCHANGED <<cache, prep>>,
             to = "bypass" => pending' = pending,
             to = "lead" => pending' = pending \cup {s} /\ ~(Cardinality(pending) >= MaxInFlight)
      PROVE  PreparationOK' /\ CacheTypeOK'
  <2>1. prep' = [prep EXCEPT ![s] = prep[s]]
    BY <1>8 DEF CacheTypeOK
  <2>2. \A t \in Sessions \ {s} : t \in pending' <=> t \in pending
    BY <1>8
  <2>3. OnlyMoves(s) /\ stage'[s] = to /\ prep'[s] = prep[s]
    <3>1. PICK q \in Preps : q = prep[s]
      BY <1>3
    <3>2. prep' = [prep EXCEPT ![s] = q]
      BY <2>1, <3>1
    <3>3. UNCHANGED <<files, edits>>
      BY <1>1
    <3>4. Goes(s, to)
      BY <1>8
    <3> QED BY <1>5, <2>2, <3>1, <3>2, <3>3, <3>4, StepsOnly
  <2>4. PrepOK(s)' /\ ResultOK(s)' /\ WaitOK(s)'
    BY <1>1, <1>3, <1>4, <1>5, <1>8, <2>3
    DEF SessionOK, PrepOK, ResultOK, WaitOK, Sharing, Preparing
  <2>5. PendingOK(s)'
    BY <1>1, <1>4, <1>8, <2>3 DEF PendingOK
  <2>6. pending' \subseteq Sessions /\ IsFiniteSet(pending') /\ Cardinality(pending') <= MaxInFlight
    <3>1. IsFiniteSet(pending) /\ Cardinality(pending) \in Nat
      BY FS_CardinalityType DEF CacheTypeOK
    <3>2. /\ IsFiniteSet(pending \cup {s})
          /\ Cardinality(pending \cup {s}) = Cardinality(pending) + 1
      BY <1>4, <3>1, FS_AddElement
    <3>3. ~(Cardinality(pending) >= MaxInFlight) => Cardinality(pending) + 1 <= MaxInFlight
      BY <3>1, ShellIntegrationAssumption
    <3> QED BY <1>8, <3>1, <3>2, <3>3 DEF CacheTypeOK
  <2>7. CacheTypeOK'
    BY <1>1, <1>8, <2>6 DEF CacheTypeOK
  <2>8. CacheOK'
    BY <1>8 DEF PreparationOK, CacheOK, EntryOK, Answers
  <2> QED
    BY <1>1, <1>4, <2>3, <2>4, <2>5, <2>7, <2>8, AloneMoves DEF SessionOK
<1>9. \/ \E i \in Entry(Key(s)) :
            /\ cache' = Append(RemoveAt(cache, i), cache[i])
            /\ prep' = [prep EXCEPT ![s].result = cache[i].result]
            /\ Goes(s, "verify")
            /\ UNCHANGED pending
      \/ /\ prep' = [prep EXCEPT ![s].joined = Flying(Key(s))]
         /\ Goes(s, "wait")
         /\ UNCHANGED <<cache, pending>>
      \/ /\ Goes(s, "bypass") /\ UNCHANGED pending /\ UNCHANGED <<cache, prep>>
      \/ /\ Goes(s, "lead") /\ pending' = pending \cup {s} /\ UNCHANGED <<cache, prep>>
         /\ ~(Cardinality(pending) >= MaxInFlight)
  BY Zenon DEF Lookup
<1>10. CASE /\ Goes(s, "bypass") /\ UNCHANGED pending /\ UNCHANGED <<cache, prep>>
  BY <1>8, <1>10
<1>11. CASE /\ Goes(s, "lead") /\ pending' = pending \cup {s} /\ UNCHANGED <<cache, prep>>
            /\ ~(Cardinality(pending) >= MaxInFlight)
  BY <1>8, <1>11
<1> QED BY <1>6, <1>7, <1>9, <1>10, <1>11

LEMMA VerifyKeeps ==
    ASSUME CacheTypeOK, stage \in [Sessions -> Stages], PreparationOK,
           NEW s \in Sessions, Verify(s)
    PROVE  PreparationOK' /\ CacheTypeOK'
<1>1. stage[s] = "verify" /\ UNCHANGED <<files, edits, pending, flight, seen>>
  BY DEF Verify
<1>2. SessionOK(s) /\ prep[s] \in Preps
  BY DEF PreparationOK, CacheTypeOK
<1>3. /\ s \notin pending /\ flight[s] = NoOutcome /\ prep[s].read = {}
      /\ prep[s].request \in Requests /\ files \in seen[s]
  BY <1>1, <1>2 DEF SessionOK, PendingOK, PrepOK, Preparing
<1>4. /\ seen' \in [Sessions -> SUBSET Versions] /\ seen'[s] = seen[s]
      /\ \A t \in Sessions \ {s} : seen'[t] = seen[t]
      /\ \A t \in Sessions \ {s} : t \in pending' <=> t \in pending
  BY <1>1 DEF CacheTypeOK
<1>5. CASE files = prep[s].identity /\ Goes(s, "prepared") /\ UNCHANGED <<cache, prep>>
  <2>1. OnlyMoves(s) /\ stage'[s] = "prepared" /\ prep'[s] = prep[s]
    <3>1. PICK q \in Preps : q = prep[s]
      BY <1>2
    <3>2. prep' = [prep EXCEPT ![s] = q]
      BY <1>5, <3>1 DEF CacheTypeOK
    <3>3. UNCHANGED <<files, edits>>
      BY <1>1
    <3>4. Goes(s, "prepared")
      BY <1>5
    <3> QED BY <1>4, <3>1, <3>2, <3>3, <3>4, StepsOnly
  <2>2. PrepOK(s)' /\ WaitOK(s)'
    BY <2>1 DEF PrepOK, WaitOK, Sharing, Preparing
  <2>3. ResultOK(s)'
    BY <1>1, <1>2, <1>3, <1>4, <1>5, <2>1 DEF SessionOK, ResultOK, Answers
  <2>4. PendingOK(s)'
    BY <1>1, <1>3, <2>1 DEF PendingOK, Preparing
  <2>5. CacheTypeOK'
    BY <1>1, <1>5 DEF CacheTypeOK
  <2>6. CacheOK'
    BY <1>5 DEF PreparationOK, CacheOK, EntryOK, Answers
  <2> QED BY <1>1, <1>3, <2>1, <2>2, <2>3, <2>4, <2>5, <2>6, AloneMoves DEF SessionOK
<1>6. CASE /\ cache' = Forgotten(Key(s))
           /\ prep' = [prep EXCEPT ![s].result = NoOutcome, ![s].attempt = 1]
           /\ Goes(s, IF prep[s].attempt = 0 THEN "identify" ELSE "bypass")
  <2>1. PICK to \in {"identify", "bypass"} : Goes(s, to)
    BY <1>6
  <2>2. PICK q : q = [prep[s] EXCEPT !.result = NoOutcome, !.attempt = 1]
    OBVIOUS
  <2>3. prep' = [prep EXCEPT ![s] = q]
    BY <1>6, <2>2
  <2>4. /\ q \in Preps /\ q.request = prep[s].request /\ q.identity = prep[s].identity
        /\ q.since = prep[s].since /\ q.read = prep[s].read
    BY <1>2, <2>2 DEF Preps, Results
  <2>5. OnlyMoves(s) /\ stage'[s] = to /\ prep'[s] = q /\ prep' \in [Sessions -> Preps]
    <3>1. UNCHANGED <<files, edits>>
      BY <1>1
    <3> QED BY <1>4, <2>1, <2>3, <2>4, <3>1, StepsOnly
  <2>6. PrepOK(s)'
    BY <1>1, <1>2, <1>3, <1>4, <2>4, <2>5 DEF SessionOK, PrepOK, Sharing, Preparing
  <2>7. ResultOK(s)' /\ WaitOK(s)'
    BY <2>5 DEF ResultOK, WaitOK, Preparing
  <2>8. PendingOK(s)'
    BY <1>1, <1>3, <2>5 DEF PendingOK
  <2>9. Holds(cache')
    BY <1>6, CacheHolds, ForgottenHolds DEF PreparationOK
  <2>10. CacheTypeOK'
    BY <1>1, <2>5, <2>9 DEF CacheTypeOK, Holds
  <2>11. CacheOK'
    <3>1. cache' \in Seq(Cached) /\ \A k \in 1..Len(cache') : EntryOK(cache'[k])
      BY <2>9 DEF Holds
    <3>2. DOMAIN cache' = 1..Len(cache')
      BY <3>1
    <3> QED BY <3>1, <3>2 DEF CacheOK, EntryOK, Answers
  <2> QED BY <1>1, <1>3, <2>5, <2>6, <2>7, <2>8, <2>10, <2>11, AloneMoves DEF SessionOK
<1> QED BY <1>5, <1>6 DEF Verify

\* A preparation under way reads at most the files that are there now, which
\* whoever waits for its flight sees too.
LEMMA HelperMoves ==
    ASSUME CacheTypeOK, PreparationOK, NEW s \in Sessions, OnlyMoves(s),
           stage[s] \in Preparing, UNCHANGED <<pending, flight>>,
           prep'[s].request = prep[s].request, prep'[s].identity = prep[s].identity,
           prep'[s].since = prep[s].since,
           \A v \in prep'[s].read : v \in prep[s].read \/ v = files,
           SessionOK(s)', CacheOK'
    PROVE  PreparationOK'
<1>1. flight[s] = NoOutcome
  BY DEF PreparationOK, SessionOK, PendingOK
<1>2. ASSUME NEW t \in Sessions \ {s}, stage[t] = "wait", s \in prep[t].joined
      PROVE  JoinOK(t, s)'
  <2>1. JoinOK(t, s) /\ files \in seen[t]
    BY <1>2 DEF PreparationOK, SessionOK, WaitOK, PrepOK, Preparing
  <2>2. prep'[t] = prep[t] /\ seen'[t] = seen[t] /\ UNCHANGED edits
    BY DEF OnlyMoves
  <2> QED BY <1>1, <2>1, <2>2 DEF JoinOK, Key
<1> QED BY <1>2, OthersPrepared

LEMMA HelperReadsKeeps ==
    ASSUME CacheTypeOK, stage \in [Sessions -> Stages], PreparationOK,
           NEW s \in Sessions, HelperReads(s)
    PROVE  PreparationOK' /\ CacheTypeOK'
<1>1. /\ stage[s] \in {"lead", "bypass"}
      /\ UNCHANGED <<files, edits, cache, pending, flight, stage, seen>>
  BY DEF HelperReads
<1>2. SessionOK(s) /\ prep[s] \in Preps /\ files \in Versions
  BY DEF PreparationOK, CacheTypeOK
<1>3. PICK q : q = [prep[s] EXCEPT !.read = {files}]
  OBVIOUS
<1>4. prep' = [prep EXCEPT ![s] = q]
  BY <1>3 DEF HelperReads
<1>5. /\ q \in Preps /\ q.read = {files} /\ q.request = prep[s].request
      /\ q.identity = prep[s].identity /\ q.since = prep[s].since
  BY <1>2, <1>3 DEF Preps
<1>6. OnlyMoves(s) /\ stage'[s] = stage[s] /\ prep'[s] = q /\ prep' \in [Sessions -> Preps]
  <2>1. prep'[s] = q /\ prep' \in [Sessions -> Preps]
        /\ \A t \in Sessions \ {s} : prep'[t] = prep[t]
    BY <1>4, <1>5 DEF CacheTypeOK
  <2> QED BY <1>1, <2>1 DEF OnlyMoves
<1>7. /\ files \in seen[s] /\ prep[s].since \in Nat /\ edits \in Nat
  BY <1>1, KeyTyped DEF Sharing
<1>8. PrepOK(s)'
  <2>1. /\ prep[s].since <= edits
        /\ edits = prep[s].since => files = prep[s].identity
    BY <1>1, <1>2 DEF SessionOK, PrepOK, Sharing
  <2>2. \/ files = prep[s].identity \/ edits = prep[s].since + 1 \/ edits >= prep[s].since + 2
    BY <1>7, <2>1
  <2> QED
    BY <1>1, <1>2, <1>5, <1>6, <1>7, <2>2 DEF SessionOK, PrepOK, Sharing, Preparing
<1>9. ResultOK(s)' /\ WaitOK(s)'
  BY <1>1 DEF ResultOK, WaitOK, Preparing
<1>10. PendingOK(s)'
  BY <1>1, <1>2 DEF SessionOK, PendingOK
<1>11. CacheTypeOK'
  BY <1>1, <1>6 DEF CacheTypeOK
<1>12. CacheOK'
  BY <1>1 DEF PreparationOK, CacheOK, EntryOK, Answers
<1>13. SessionOK(s)' /\ stage[s] \in Preparing
  BY <1>1, <1>8, <1>9, <1>10 DEF SessionOK, Preparing
<1> QED BY <1>1, <1>5, <1>6, <1>11, <1>12, <1>13, HelperMoves

LEMMA HelperEndsKeeps ==
    ASSUME CacheTypeOK, stage \in [Sessions -> Stages], PreparationOK,
           NEW s \in Sessions, HelperEnds(s)
    PROVE  PreparationOK' /\ CacheTypeOK'
<1>1. /\ stage[s] \in {"lead", "bypass"}
      /\ UNCHANGED <<files, edits, cache, pending, flight, seen>>
      /\ Goes(s, IF stage[s] = "lead" THEN "judged" ELSE "prepared")
  BY DEF HelperEnds
<1>2. PICK o \in Outcomes(s), stable \in {FALSE, files = prep[s].identity} :
          prep' = [prep EXCEPT ![s].result = o, ![s].stable = stage[s] = "lead" /\ stable]
  BY DEF HelperEnds
<1>3. SessionOK(s) /\ prep[s] \in Preps /\ edits \in Nat /\ prep[s].since \in Nat
  BY <1>1, KeyTyped DEF PreparationOK, CacheTypeOK, Sharing
<1>4. /\ prep[s].request \in Requests
      /\ \A v \in prep[s].read :
             /\ v \in seen[s] /\ v \in Versions
             /\ v = files \/ v = prep[s].identity \/ edits >= prep[s].since + 2
  BY <1>1, <1>3 DEF SessionOK, PrepOK, Preparing, Preps
<1>5. /\ o \in Results
      /\ \/ o = Failure
         \/ /\ Answers(o, prep[s].request) /\ o.files \in prep[s].read
            /\ o.swapped = (edits >= prep[s].since + 2)
  <2>1. CASE o = Failure
    BY <2>1 DEF Results
  <2>2. ASSUME NEW v \in prep[s].read, o = Success(prep[s].request, v, Swapped(s))
        PROVE  /\ o \in Results
               /\ Answers(o, prep[s].request) /\ o.files \in prep[s].read
               /\ o.swapped = (edits >= prep[s].since + 2)
    <3>1. PICK b \in BOOLEAN : b = Swapped(s)
      <4>1. Swapped(s) \in BOOLEAN
        BY DEF Swapped
      <4> QED BY <4>1, Zenon
    <3>2. o = [kind |-> "success", request |-> prep[s].request, files |-> v, swapped |-> b]
      BY <2>2, <3>1 DEF Success
    <3>3. /\ o.kind = "success" /\ o.request = prep[s].request /\ o.files = v
          /\ o.swapped = b
      BY <3>2
    <3>4. o \in Results
      BY <1>4, <3>2 DEF Results
    <3>5. b = (edits >= prep[s].since + 2)
      BY <3>1 DEF Swapped
    <3> QED BY <3>3, <3>4, <3>5 DEF Answers
  <2> QED BY <1>2, <2>1, <2>2 DEF Outcomes
<1>6. PICK q : q = [prep[s] EXCEPT !.result = o, !.stable = stage[s] = "lead" /\ stable]
  OBVIOUS
<1>7. prep' = [prep EXCEPT ![s] = q]
  BY <1>2, <1>6
<1>8. /\ q \in Preps /\ q.result = o /\ q.request = prep[s].request
      /\ q.identity = prep[s].identity /\ q.since = prep[s].since /\ q.read = prep[s].read
      /\ q.stable => files = prep[s].identity
  BY <1>2, <1>3, <1>5, <1>6 DEF Preps
<1>9. /\ seen' \in [Sessions -> SUBSET Versions] /\ seen'[s] = seen[s]
      /\ \A t \in Sessions \ {s} : seen'[t] = seen[t]
      /\ \A t \in Sessions \ {s} : t \in pending' <=> t \in pending
  BY <1>1 DEF CacheTypeOK
<1>10. PICK to \in {"judged", "prepared"} :
           Goes(s, to) /\ (to = "judged" <=> stage[s] = "lead")
  BY <1>1
<1>11. OnlyMoves(s) /\ stage'[s] = to /\ prep'[s] = q /\ prep' \in [Sessions -> Preps]
  <2>1. UNCHANGED <<files, edits>> /\ Goes(s, to)
    BY <1>1, <1>10
  <2> QED BY <1>7, <1>8, <1>9, <2>1, StepsOnly
<1>12. PrepOK(s)'
  BY <1>1, <1>3, <1>8, <1>9, <1>10, <1>11 DEF SessionOK, PrepOK, Sharing, Preparing
<1>13. ResultOK(s)'
  <2>1. CASE o = Failure
    BY <1>8, <1>10, <1>11, <2>1, NoPrepTyped DEF ResultOK, Preparing
  <2>2. CASE /\ Answers(o, prep[s].request) /\ o.files \in prep[s].read
             /\ o.swapped = (edits >= prep[s].since + 2)
    <3>1. o.files \in seen[s]
      BY <1>4, <2>2
    <3>2. q.stable => o.files = prep[s].identity \/ o.swapped
      BY <1>4, <1>8, <2>2
    <3> QED
      BY <1>8, <1>9, <1>10, <1>11, <2>2, <3>1, <3>2 DEF ResultOK, Preparing, Answers
  <2> QED BY <1>5, <2>1, <2>2
<1>14. PendingOK(s)' /\ WaitOK(s)'
  BY <1>1, <1>3, <1>10, <1>11 DEF SessionOK, PendingOK, WaitOK, Preparing
<1>15. CacheTypeOK'
  BY <1>1, <1>9, <1>11 DEF CacheTypeOK
<1>16. CacheOK'
  BY <1>1 DEF PreparationOK, CacheOK, EntryOK, Answers
<1>17. SessionOK(s)' /\ stage[s] \in Preparing
  BY <1>1, <1>12, <1>13, <1>14 DEF SessionOK, Preparing
<1> QED BY <1>1, <1>8, <1>11, <1>15, <1>16, <1>17, HelperMoves

LEMMA LandedKeeps ==
    ASSUME CacheTypeOK, stage \in [Sessions -> Stages], PreparationOK,
           NEW s \in Sessions, Landed(s)
    PROVE  PreparationOK' /\ CacheTypeOK'
<1>1. /\ stage[s] = "wait" /\ Goes(s, "prepared")
      /\ UNCHANGED <<files, edits, cache, pending, seen>>
  BY DEF Landed
<1>2. PICK l \in prep[s].joined :
          /\ flight[l] # NoOutcome
          /\ prep' = [prep EXCEPT ![s].result = flight[l]]
          /\ flight' = IF Joined(l, Sessions \ {s}) = {}
                       THEN [flight EXCEPT ![l] = NoOutcome] ELSE flight
  BY DEF Landed
<1>3. SessionOK(s) /\ prep[s] \in Preps
  BY DEF PreparationOK, CacheTypeOK
<1>4. /\ flight[s] = NoOutcome /\ s \notin pending /\ JoinOK(s, l)
  BY <1>1, <1>3 DEF SessionOK, PendingOK, WaitOK, Preparing
<1>5. l \in Sessions /\ l # s /\ flight[l] \in Results /\ NoOutcome \in Results
  BY <1>2, <1>3, <1>4 DEF Preps, CacheTypeOK, Results
<1>6. /\ flight' \in [Sessions -> Results] /\ flight'[s] = NoOutcome
      /\ \A t \in Sessions \ {s} :
             \/ flight'[t] = flight[t]
             \/ flight'[t] = NoOutcome /\ Joined(t, Sessions \ {s}) = {}
  BY <1>2, <1>4, <1>5 DEF CacheTypeOK
<1>7. PICK q : q = [prep[s] EXCEPT !.result = flight[l]]
  OBVIOUS
<1>8. prep' = [prep EXCEPT ![s] = q]
  BY <1>2, <1>7
<1>9. q \in Preps /\ q.result = flight[l] /\ q.request = prep[s].request
  BY <1>3, <1>5, <1>7 DEF Preps
<1>10. /\ seen' \in [Sessions -> SUBSET Versions] /\ seen'[s] = seen[s]
       /\ \A t \in Sessions \ {s} : seen'[t] = seen[t]
       /\ \A t \in Sessions \ {s} : t \in pending' <=> t \in pending
  BY <1>1 DEF CacheTypeOK
<1>11. OnlyMoves(s) /\ stage'[s] = "prepared" /\ prep'[s] = q /\ prep' \in [Sessions -> Preps]
  <2>1. UNCHANGED <<files, edits>> /\ Goes(s, "prepared")
    BY <1>1
  <2> QED BY <1>8, <1>9, <1>10, <2>1, StepsOnly
<1>12. PrepOK(s)' /\ WaitOK(s)'
  BY <1>11 DEF PrepOK, WaitOK, Sharing, Preparing
<1>13. ResultOK(s)'
  BY <1>2, <1>4, <1>9, <1>10, <1>11 DEF ResultOK, JoinOK, Answers, Preparing
<1>14. PendingOK(s)'
  BY <1>1, <1>4, <1>11 DEF PendingOK, Preparing
<1>15. \A t \in Sessions \ {s} : ~(stage[t] = "wait" /\ s \in prep[t].joined)
  BY <1>4 DEF PreparationOK, SessionOK, WaitOK, JoinOK
<1>16. CacheTypeOK'
  BY <1>1, <1>6, <1>10, <1>11 DEF CacheTypeOK
<1>17. CacheOK'
  BY <1>1 DEF PreparationOK, CacheOK, EntryOK, Answers
<1>18. SessionOK(s)'
  BY <1>12, <1>13, <1>14 DEF SessionOK
<1> QED BY <1>6, <1>11, <1>15, <1>16, <1>17, <1>18, OthersPrepared

\* What the leader publishes: nothing if nobody waits, or its result, marked if
\* the files changed twice.
LEMMA OutcomeOf ==
    ASSUME NEW s \in Sessions, prep[s].result \in Results, prep[s].result # NoOutcome
    PROVE  /\ Outcome(s) \in Results
           /\ Joined(s, Sessions) # {} =>
                 /\ Outcome(s) # NoOutcome
                 /\ Outcome(s).kind = "success" =>
                       /\ prep[s].result.kind = "success"
                       /\ Outcome(s).request = prep[s].result.request
                       /\ Outcome(s).files = prep[s].result.files
                       /\ Swapped(s) => Outcome(s).swapped
<1>1. CASE Joined(s, Sessions) = {}
  BY <1>1 DEF Outcome, Results
<1>2. CASE Joined(s, Sessions) # {} /\ prep[s].result = Failure
  <2>1. Outcome(s) = Failure
    BY <1>2 DEF Outcome
  <2> QED BY <1>2, <2>1, NoPrepTyped DEF Results
<1>3. CASE Joined(s, Sessions) # {} /\ prep[s].result # Failure
  <2>1. Outcome(s) = [prep[s].result EXCEPT !.swapped = Swapped(s)]
    BY <1>3 DEF Outcome
  <2>2. PICK b \in BOOLEAN : b = Swapped(s)
    <3>1. Swapped(s) \in BOOLEAN
      BY DEF Swapped
    <3> QED BY <3>1, Zenon
  <2>3. prep[s].result \in
            [kind : {"success"}, request : Requests, files : Versions, swapped : BOOLEAN]
    BY <1>3 DEF Results
  <2>4. Outcome(s) = [prep[s].result EXCEPT !.swapped = b]
    BY <2>1, <2>2
  <2>5. /\ Outcome(s) \in
               [kind : {"success"}, request : Requests, files : Versions, swapped : BOOLEAN]
        /\ Outcome(s).kind = "success" /\ Outcome(s).request = prep[s].result.request
        /\ Outcome(s).files = prep[s].result.files /\ Outcome(s).swapped = b
    BY <2>3, <2>4
  <2>6. prep[s].result.kind = "success"
    BY <2>3
  <2>7. Swapped(s) => Outcome(s).swapped
    BY <2>2, <2>5
  <2>8. Outcome(s) \in Results /\ Outcome(s) # NoOutcome
    BY <2>5 DEF Results, NoOutcome
  <2> QED BY <2>5, <2>6, <2>7, <2>8
<1> QED BY <1>1, <1>2, <1>3

LEMMA PublishKeeps ==
    ASSUME CacheTypeOK, stage \in [Sessions -> Stages], PreparationOK,
           NEW s \in Sessions, Publish(s)
    PROVE  PreparationOK' /\ CacheTypeOK'
<1>1. /\ stage[s] = "judged" /\ Goes(s, "prepared")
      /\ flight' = [flight EXCEPT ![s] = Outcome(s)]
      /\ pending' = pending \ {s}
      /\ UNCHANGED <<files, edits, prep, seen>>
  BY DEF Publish
<1>2. SessionOK(s) /\ prep[s] \in Preps /\ prep[s].result \in Results
  BY DEF PreparationOK, CacheTypeOK, Preps
<1>3. /\ flight[s] = NoOutcome /\ s \in pending
      /\ Key(s) \in Requests \X Versions /\ Key(s) = <<prep[s].request, prep[s].identity>>
  BY <1>1, <1>2, KeyTyped DEF SessionOK, PendingOK, Preparing, Sharing
<1>4. \/ prep[s].result = Failure
      \/ /\ Answers(prep[s].result, prep[s].request)
         /\ prep[s].result.files \in prep[s].read
         /\ prep[s].stable => prep[s].result.files = prep[s].identity \/ prep[s].result.swapped
  BY <1>1, <1>2 DEF SessionOK, ResultOK
<1>5. /\ Outcome(s) \in Results
      /\ Joined(s, Sessions) # {} =>
            /\ Outcome(s) # NoOutcome
            /\ Outcome(s).kind = "success" =>
                  /\ prep[s].result.kind = "success"
                  /\ Outcome(s).request = prep[s].result.request
                  /\ Outcome(s).files = prep[s].result.files
                  /\ Swapped(s) => Outcome(s).swapped
  <2>1. prep[s].result # NoOutcome
    BY <1>4, NoPrepTyped DEF Answers
  <2> QED BY <1>2, <2>1, OutcomeOf
<1>6. /\ flight' \in [Sessions -> Results] /\ flight'[s] = Outcome(s)
      /\ \A t \in Sessions \ {s} : flight'[t] = flight[t]
  BY <1>1, <1>5 DEF CacheTypeOK
<1>7. OnlyMoves(s) /\ stage'[s] = "prepared" /\ prep'[s] = prep[s]
  <2>1. stage' = [stage EXCEPT ![s] = "prepared"]
    BY <1>1 DEF Goes
  <2>2. stage'[s] = "prepared" /\ \A t \in Sessions \ {s} : stage'[t] = stage[t]
    BY <2>1
  <2> QED BY <1>1, <2>2 DEF OnlyMoves
<1>8. Holds(cache')
  <2>1. CASE Kept(s)
    <3>1. cache' \in Retained(s)
      BY <2>1 DEF Publish
    <3>2. PICK e : e = [key |-> Key(s), result |-> prep[s].result]
      OBVIOUS
    <3>3. e \in Cached /\ e.key = Key(s) /\ e.result = prep[s].result
      BY <1>2, <1>3, <3>2 DEF Cached
    <3>4. EntryOK(e)
      <4>1. prep[s].result # Failure /\ prep[s].stable
        BY <2>1, NoPrepTyped DEF Kept
      <4> QED BY <1>3, <1>4, <3>3, <4>1 DEF EntryOK, Answers
    <3> QED BY <3>1, <3>2, <3>3, <3>4, CacheHolds, RetainedHolds DEF PreparationOK
  <2>2. CASE ~Kept(s)
    <3>1. cache' = cache
      BY <2>2 DEF Publish
    <3> QED BY <3>1, CacheHolds DEF PreparationOK
  <2> QED BY <2>1, <2>2
<1>9. PrepOK(s)' /\ WaitOK(s)'
  BY <1>7 DEF PrepOK, WaitOK, Sharing, Preparing
<1>10. ResultOK(s)'
  <2>1. \A v \in prep[s].read : v \in seen[s]
    BY <1>1, <1>2 DEF SessionOK, PrepOK
  <2> QED BY <1>1, <1>4, <1>7, <2>1, NoPrepTyped DEF ResultOK, Preparing, Answers
<1>11. PendingOK(s)'
  BY <1>1, <1>7 DEF PendingOK, Preparing
<1>12. ASSUME NEW t \in Sessions \ {s}, stage[t] = "wait", s \in prep[t].joined
       PROVE  JoinOK(t, s)'
  <2>1. JoinOK(t, s)
    BY <1>12 DEF PreparationOK, SessionOK, WaitOK
  <2>2. /\ Key(s) = Key(t)
        /\ \A v \in prep[s].read : v \in seen[t] \/ Swapped(s)
    BY <1>3, <2>1 DEF JoinOK, Swapped
  <2>3. prep[s].request = prep[t].request
    BY <2>2 DEF Key
  <2>4. t \in Joined(s, Sessions)
    BY <1>12 DEF Joined
  <2>5. ASSUME Outcome(s).kind = "success"
        PROVE  /\ Answers(Outcome(s), prep[t].request)
               /\ Outcome(s).files \in seen[t] \/ Outcome(s).swapped
    <3>1. /\ Answers(prep[s].result, prep[s].request)
          /\ prep[s].result.files \in prep[s].read
      BY <1>4, <1>5, <2>4, <2>5, NoPrepTyped
    <3> QED BY <1>5, <2>2, <2>3, <2>4, <2>5, <3>1 DEF Answers
  <2> QED BY <1>1, <1>5, <1>6, <2>4, <2>5 DEF JoinOK, Answers
<1>13. CacheTypeOK'
  <2>1. /\ IsFiniteSet(pending) /\ pending \subseteq Sessions
        /\ Cardinality(pending) <= MaxInFlight
    BY DEF CacheTypeOK
  <2>2. /\ Cardinality(pending) \in Nat /\ IsFiniteSet(pending \ {s})
        /\ Cardinality(pending \ {s}) = Cardinality(pending) - 1
    BY <1>3, <2>1, FS_CardinalityType, FS_RemoveElement
  <2>3. Cardinality(pending \ {s}) <= MaxInFlight
    BY <2>1, <2>2, ShellIntegrationAssumption
  <2> QED BY <1>1, <1>6, <1>8, <2>1, <2>2, <2>3 DEF CacheTypeOK, Holds
<1>14. CacheOK'
  <2>1. cache' \in Seq(Cached) /\ \A k \in 1..Len(cache') : EntryOK(cache'[k])
    BY <1>8 DEF Holds
  <2>2. DOMAIN cache' = 1..Len(cache')
    BY <2>1
  <2> QED BY <2>1, <2>2 DEF CacheOK, EntryOK, Answers
<1>15. SessionOK(s)'
  BY <1>9, <1>10, <1>11 DEF SessionOK
<1> QED BY <1>6, <1>7, <1>12, <1>13, <1>14, <1>15, OthersPrepared

LEMMA PreparationKept ==
    ASSUME CacheTypeOK, stage \in [Sessions -> Stages], PreparationOK, [Next]_vars
    PROVE  PreparationOK' /\ CacheTypeOK'
<1>1. ASSUME NEW s \in Sessions, LaunchStep(s) PROVE PreparationOK' /\ CacheTypeOK'
  BY <1>1, LaunchStepLaunches, LaunchesKeep
<1>2. ASSUME NEW s \in Sessions, PrepareStep(s) PROVE PreparationOK' /\ CacheTypeOK'
  BY <1>2, PrepareKeeps, IdentifyKeeps, LookupKeeps, VerifyKeeps, LandedKeeps,
     HelperReadsKeeps, HelperEndsKeeps, PublishKeeps
  DEF PrepareStep
<1>3. ASSUME UNCHANGED <<cacheVars, stage>> PROVE PreparationOK' /\ CacheTypeOK'
  <2>1. UNCHANGED <<files, edits, cache, pending, flight, stage, prep, seen>>
    BY <1>3 DEF cacheVars
  <2>2. CacheTypeOK'
    BY <2>1 DEF CacheTypeOK
  <2>3. ASSUME NEW s \in Sessions PROVE SessionOK(s)'
    <3>1. SessionOK(s)
      BY DEF PreparationOK
    <3>2. PrepOK(s)' /\ ResultOK(s)' /\ PendingOK(s)'
      BY <2>1, <3>1 DEF SessionOK, PrepOK, ResultOK, PendingOK, Answers
    <3>3. WaitOK(s)'
      BY <2>1, <3>1 DEF SessionOK, WaitOK, JoinOK, Key, Answers
    <3> QED BY <3>2, <3>3 DEF SessionOK
  <2>4. CacheOK'
    BY <2>1 DEF PreparationOK, CacheOK, EntryOK, Answers
  <2> QED BY <2>2, <2>3, <2>4 DEF PreparationOK
<1>4. ASSUME NEW s \in Sessions, ChildStep(s) \/ ChildEnds(s)
      PROVE  PreparationOK' /\ CacheTypeOK'
  BY <1>3, <1>4
  DEF ChildStep, ChildReady, ChildDecides, ChildExecs, ChildEnds, ChildDoes
<1>5. CASE AppCrashes
  BY <1>3, <1>5 DEF AppCrashes
<1>6. CASE FilesChange
  BY <1>6, FilesChangeKeeps
<1>7. CASE UNCHANGED vars
  BY <1>3, <1>7 DEF vars, cacheVars
<1> QED BY <1>1, <1>2, <1>4, <1>5, <1>6, <1>7 DEF Next, WorkerStep

-----------------------------------------------------------------------------
(* The invariant, and what follows from it *)

LEMMA TypesInTwoParts == TypeOK <=> CacheTypeOK /\ LaunchTypes
BY DEF TypeOK, LaunchTypes

LEMMA InitIInv == Init => IInv
<1> SUFFICES ASSUME Init PROVE IInv
  OBVIOUS
<1>1. /\ files \in Versions /\ edits = 0 /\ cache = <<>> /\ pending = {}
      /\ flight = [s \in Sessions |-> NoOutcome]
      /\ prep = [s \in Sessions |-> NoPrep]
      /\ seen = [s \in Sessions |-> {}]
  BY ShellIntegrationAssumption DEF Init, CacheInit
<1>2. /\ stage = [s \in Sessions |-> "new"]
      /\ holds = [p \in Processes |-> {}]
      /\ gate = [s \in Sessions |-> "none"]
      /\ ready = [s \in Sessions |-> FALSE]
      /\ decision = [s \in Sessions |-> "none"]
      /\ move = [s \in Sessions |-> "untried"]
      /\ child = [s \in Sessions |-> "none"]
      /\ appUp = TRUE
  BY DEF Init
<1>3. CacheTypeOK
  <2>1. IsFiniteSet({}) /\ Cardinality({}) = 0
    BY FS_EmptySet
  <2>2. 0 \in 0..MaxEdits /\ 0 <= MaxInFlight /\ 0 <= MaxEntries
    BY ShellIntegrationAssumption
  <2>3. cache \in Seq(Cached) /\ Len(cache) = 0
    BY <1>1
  <2>4. NoOutcome \in Results
    BY DEF Results
  <2> QED BY <1>1, <2>1, <2>2, <2>3, <2>4, NoPrepTyped DEF CacheTypeOK
<1>4. LaunchTypes
  <2>1. "new" \in Stages
    BY DEF Stages
  <2> QED BY <1>2, <2>1 DEF LaunchTypes
<1>5. LaunchOK
  BY <1>2, AppIsAProcess
  DEF LaunchOK, ResourcesOK, GateOK, Clean, Before, Undecided, Preparing
<1>6. PreparationOK
  <2>1. CacheOK
    BY <1>1 DEF CacheOK
  <2>2. ASSUME NEW s \in Sessions PROVE SessionOK(s)
    BY <1>1, <1>2, NoPrepTyped
    DEF SessionOK, PrepOK, ResultOK, PendingOK, WaitOK, Preparing, Sharing
  <2> QED BY <2>1, <2>2 DEF PreparationOK
<1> QED BY <1>3, <1>4, <1>5, <1>6, TypesInTwoParts DEF IInv

LEMMA NextIInv == IInv /\ [Next]_vars => IInv'
<1> SUFFICES ASSUME IInv, [Next]_vars PROVE IInv'
  OBVIOUS
<1>1. CacheTypeOK /\ LaunchTypes /\ LaunchOK /\ PreparationOK
  BY TypesInTwoParts DEF IInv
<1>2. LaunchOK' /\ LaunchTypes'
  BY <1>1, LaunchKept
<1>3. stage \in [Sessions -> Stages]
  BY <1>1 DEF LaunchTypes
<1>4. PreparationOK' /\ CacheTypeOK'
  BY <1>1, <1>3, PreparationKept
<1>5. TypeOK'
  BY <1>2, <1>4 DEF TypeOK, LaunchTypes
<1> QED BY <1>2, <1>4, <1>5 DEF IInv

LEMMA Invariance == Spec => []IInv
BY InitIInv, NextIInv, PTL DEF Spec

\* Every variable of SessionLaunch and of the cache stays in its range; the table
\* of flights and the cache keep their limits.
THEOREM TypeCorrect == Spec => []TypeOK
<1>1. IInv => TypeOK
  BY DEF IInv
<1> QED BY <1>1, Invariance, PTL

\* Under a hard policy no child runs its program without having been moved
\* (SessionWorker::spawnChild's gate), whoever dies in between.
THEOREM NobodyPassesTheGate == Spec => []GateHolds
<1>1. IInv => GateHolds
  BY DEF IInv, LaunchOK, GateOK, Permitted, GateHolds
<1> QED BY <1>1, Invariance, PTL

\* spawnChild's error paths leave no child and no descriptor of the launch.
THEOREM FailureCleansUp == Spec => []FailedLeavesNothing
<1>1. IInv => FailedLeavesNothing
  BY DEF IInv, LaunchOK, ResourcesOK, Clean, FailedLeavesNothing
<1> QED BY <1>1, Invariance, PTL

\* Whatever path prepareCachedGhosttyShellIntegration takes, the result answers
\* the request, from files in place while it was prepared.
THEOREM PreparationsAreFresh == Spec => []PreparedFresh
<1>1. IInv => PreparedFresh
  BY DEF IInv, PreparationOK, SessionOK, ResultOK, Answers, PreparedFresh
<1> QED BY <1>1, Invariance, PTL
=============================================================================
