-------------------------- MODULE ConfigReloadProofs --------------------------
(***************************************************************************)
(* Proofs about ConfigReload, for any contents of the files and any number *)
(* of edits and requests.                                                  *)
(***************************************************************************)
EXTENDS ConfigReload, TLAPS

SchemesOf(s) == IF s = Ghostty THEN Schemes ELSE {"any"}

\* A load is of the newest request exactly if nothing was requested since, and
\* then it was not dropped; what is not dropped is for the scheme asked for.
LoadOK(s) ==
    /\ svc[s].again => load[s].phase # "none"
    /\ load[s].phase # "none" =>
          /\ load[s].scheme \in SchemesOf(s)
          /\ load[s].newest <=> ~(svc[s].debounce \/ svc[s].again)
          /\ load[s].newest => load[s].fresh
          /\ load[s].fresh => load[s].scheme = SchemeFor(s)

\* What a load has read is for its scheme, and current unless the service is
\* about to learn of a change, or cannot.
ResultOK(s) ==
    load[s].phase \in {"read", "done"} /\ load[s].result # NoSnapshot =>
        /\ s = Ghostty => load[s].result.scheme = load[s].scheme
        /\ load[s].newest =>
              load[s].result = View(s, SchemeFor(s)) \/ changed[s] \/ unseen[s] # {}

FailureOK(s) ==
    /\ failure[s] => svc[s].retry \/ Unsettled(s)
    /\ svc[s].retry => failure[s] /\ ~Unsettled(s)

CurrentOK(s) == Quiet(s) => Current(s)

ServiceOK(s) == LoadOK(s) /\ ResultOK(s) /\ FailureOK(s) /\ CurrentOK(s)

\* The lifecycle waits for exactly the services that are not settled.
LifeOK ==
    /\ \A s \in Services : s \in life.pending <=> Unsettled(s)
    /\ life.announced <=> said = "RELOADING"

\* The windows follow the snapshot, and so does the service except where startup
\* gave up.
SchemeOK ==
    /\ scheme = Resolved(LookOf(snapshot[Ghostty]), system)
    /\ asked # scheme => snapshot[Ghostty] # NoSnapshot /\ ~Settles(snapshot[Ghostty].base)

IInv == TypeOK /\ SchemeOK /\ LifeOK /\ \A s \in Services : ServiceOK(s)
-----------------------------------------------------------------------------
(* What the operators of ConfigReload yield *)

Flags == [debounce : BOOLEAN, retry : BOOLEAN, again : BOOLEAN]

Loads == [phase : {"none", "running", "read", "done"}, newest : BOOLEAN, fresh : BOOLEAN,
          scheme : Schemes \cup {"any"}, result : AllSnapshots]

Lives == [pending : SUBSET Services, announced : BOOLEAN, completing : BOOLEAN]

LEMMA SnapshotTypes ==
    ASSUME NEW s \in Services
    PROVE  /\ Snapshots(s) \subseteq AllSnapshots
           /\ NoSnapshot \in Snapshots(s)
           /\ \A x \in Snapshots(Ghostty) \ {NoSnapshot} :
                 x.scheme \in Schemes /\ x.base.looks \in [Schemes -> Looks]
BY ConfigAssumption DEF AllSnapshots, Snapshots, Services

LEMMA ViewTyped ==
    ASSUME TypeOK, NEW s \in Services, NEW c \in SchemesOf(s)
    PROVE  /\ View(s, c) \in Snapshots(s)
           /\ s = Ghostty => View(s, c).scheme = c
<1>1. disk \in [base : BaseContents, include : {1, 2}, mixed : {1, 2}]
  BY DEF TypeOK
<1>2. CASE s = Ghostty
  <2>1. disk.include \in 0..2 /\ 0 \in 0..2
    BY <1>1
  <2>2. (IF disk.base.includes THEN disk.include ELSE 0) \in 0..2
    BY <2>1
  <2>3. View(s, c) = [base |-> disk.base, mixed |-> disk.mixed, scheme |-> c,
                      include |-> IF disk.base.includes THEN disk.include ELSE 0]
    BY <1>2 DEF View
  <2>4. c \in Schemes
    BY <1>2 DEF SchemesOf
  <2> QED BY <1>1, <1>2, <2>2, <2>3, <2>4 DEF Snapshots
<1>3. CASE s # Ghostty
  BY <1>1, <1>3 DEF View, Snapshots, SchemesOf
<1> QED BY <1>2, <1>3

LEMMA SchemeTyped ==
    ASSUME TypeOK, NEW s \in Services
    PROVE  SchemeFor(s) \in SchemesOf(s)
BY DEF TypeOK, SchemeFor, SchemesOf

LEMMA LookTyped ==
    ASSUME NEW x \in Snapshots(Ghostty), NEW c \in Schemes
    PROVE  LookOf(x) \in Looks /\ Resolved(LookOf(x), c) \in Schemes
<1>1. PICK k : k = LookOf(x)
  OBVIOUS
<1>2. k \in Looks
  <2>1. CASE x = NoSnapshot
    BY <1>1, <2>1 DEF LookOf, Builtin, Looks, Themes, Schemes
  <2>2. CASE x # NoSnapshot
    <3>1. x.scheme \in Schemes /\ x.base.looks \in [Schemes -> Looks]
      BY <2>2, SnapshotTypes DEF Services
    <3> QED BY <1>1, <2>2, <3>1 DEF LookOf
  <2> QED BY <2>1, <2>2
<1>3. Resolved(k, c) \in Schemes
  BY <1>2 DEF Resolved, Looks, Themes, Schemes
<1> QED BY <1>1, <1>2, <1>3

LEMMA NewLoads ==
    ASSUME NEW s \in Services, NEW c \in SchemesOf(s)
    PROVE  /\ NewLoad(c) \in Loads /\ NoLoad \in Loads
           /\ NewLoad(c).phase = "running" /\ NewLoad(c).newest /\ NewLoad(c).fresh
           /\ NewLoad(c).scheme = c /\ NewLoad(c).result = NoSnapshot
           /\ NoLoad.phase = "none" /\ NoLoad.result = NoSnapshot
<1>1. NoSnapshot \in AllSnapshots
  BY SnapshotTypes
<1>2. c \in Schemes \cup {"any"}
  BY DEF SchemesOf
<1> QED BY <1>1, <1>2 DEF NewLoad, NoLoad, Loads

LEMMA SchemeStays ==
    ASSUME SchemeOK, UNCHANGED <<snapshot, system, scheme, asked>>
    PROVE  SchemeOK'
BY DEF SchemeOK

\* What a service that nothing happens to keeps.
Untouched(t) ==
    /\ svc'[t] = svc[t] /\ load'[t] = load[t] /\ snapshot'[t] = snapshot[t]
    /\ failure'[t] = failure[t] /\ unseen'[t] = unseen[t] /\ changed'[t] = changed[t]
    /\ SchemeFor(t)' = SchemeFor(t)
    /\ UNCHANGED disk

LEMMA UntouchedOK ==
    ASSUME NEW t \in Services, ServiceOK(t), Untouched(t)
    PROVE  ServiceOK(t)' /\ (Unsettled(t)' <=> Unsettled(t))
<1>1. View(t, SchemeFor(t))' = View(t, SchemeFor(t))
  BY DEF Untouched, View
<1>2. Unsettled(t)' <=> Unsettled(t)
  BY DEF Untouched, Unsettled
<1>3. LoadOK(t)' /\ ResultOK(t)'
  BY <1>1 DEF ServiceOK, LoadOK, ResultOK, Untouched
<1>4. FailureOK(t)' /\ CurrentOK(t)'
  BY <1>1, <1>2 DEF ServiceOK, FailureOK, CurrentOK, Quiet, Current, Untouched
<1> QED BY <1>2, <1>3, <1>4 DEF ServiceOK

\* The lifecycle waits for whoever was asked to reload.
LEMMA ScheduledEffect ==
    ASSUME NEW l \in Lives, NEW S \in SUBSET Services
    PROVE  /\ AfterScheduled(l, S) \in Lives
           /\ AfterScheduled(l, S).pending = l.pending \cup S
           /\ AfterScheduled(l, S).announced <=> l.announced \/ S # {}
<1>1. PICK b \in BOOLEAN, d \in BOOLEAN :
          b = (l.completing /\ S = {}) /\ d = (l.announced \/ S # {})
  <2>1. l.completing \in BOOLEAN /\ l.announced \in BOOLEAN
    BY DEF Lives
  <2> QED BY <2>1, Zenon
<1>2. AfterScheduled(l, S) =
          [l EXCEPT !.completing = b, !.pending = l.pending \cup S, !.announced = d]
  BY <1>1 DEF AfterScheduled
<1>3. l.pending \cup S \in SUBSET Services
  BY DEF Lives
<1>4. /\ AfterScheduled(l, S) \in Lives
      /\ AfterScheduled(l, S).pending = l.pending \cup S
      /\ AfterScheduled(l, S).announced = d
  BY <1>2, <1>3 DEF Lives
<1> QED BY <1>1, <1>4

\* What a request leaves of the flags and loads.
LEMMA RequestParts ==
    ASSUME TypeOK, NEW S \in SUBSET Services, NEW R \in SUBSET Services,
           NEW q, q = AfterRequest(S), NEW m, m = Superseded(S, R)
    PROVE  /\ q \in [Services -> Flags] /\ m \in [Services -> Loads]
           /\ \A s \in Services \ S : q[s] = svc[s] /\ m[s] = load[s]
           /\ \A s \in S :
                 /\ q[s].debounce /\ ~q[s].retry /\ q[s].again = svc[s].again
                 /\ m[s].phase = load[s].phase /\ ~m[s].newest
                 /\ m[s].fresh => load[s].fresh /\ s \notin R
                 /\ m[s].scheme = load[s].scheme /\ m[s].result = load[s].result
<1>1. svc \in [Services -> Flags] /\ load \in [Services -> Loads]
  BY DEF TypeOK, Flags, Loads
<1>2. ASSUME NEW s \in S
      PROVE  /\ q[s] = [svc[s] EXCEPT !.debounce = TRUE, !.retry = FALSE]
             /\ m[s] = [load[s] EXCEPT !.newest = FALSE,
                                      !.fresh = load[s].fresh /\ s \notin R]
    BY DEF AfterRequest, Superseded, Requested
<1>3. ASSUME NEW s \in Services \ S PROVE q[s] = svc[s] /\ m[s] = load[s]
  BY DEF AfterRequest, Superseded
<1>4. ASSUME NEW s \in S
      PROVE  /\ q[s] \in Flags /\ m[s] \in Loads
             /\ q[s].debounce /\ ~q[s].retry /\ q[s].again = svc[s].again
             /\ m[s].phase = load[s].phase /\ ~m[s].newest
             /\ m[s].fresh => load[s].fresh /\ s \notin R
             /\ m[s].scheme = load[s].scheme /\ m[s].result = load[s].result
  <2>1. svc[s] \in Flags /\ load[s] \in Loads
    BY <1>1
  <2>2. PICK b \in BOOLEAN : b = (load[s].fresh /\ s \notin R)
    BY Zenon
  <2>3. m[s] = [load[s] EXCEPT !.newest = FALSE, !.fresh = b]
    BY <1>2, <2>2
  <2>4. b => load[s].fresh /\ s \notin R
    BY <2>2
  <2>5. /\ q[s] \in Flags /\ q[s].debounce /\ ~q[s].retry /\ q[s].again = svc[s].again
    BY <1>2, <2>1 DEF Flags
  <2>6. /\ m[s] \in Loads /\ m[s].phase = load[s].phase /\ m[s].newest = FALSE
        /\ m[s].fresh = b
        /\ m[s].scheme = load[s].scheme /\ m[s].result = load[s].result
    BY <2>1, <2>3 DEF Loads
  <2> QED BY <2>4, <2>5, <2>6
<1>5. q \in [Services -> Flags] /\ m \in [Services -> Loads]
  <2>1. q = [s \in Services |-> q[s]] /\ m = [s \in Services |-> m[s]]
    BY DEF AfterRequest, Superseded
  <2>2. \A s \in Services : q[s] \in Flags /\ m[s] \in Loads
    BY <1>1, <1>3, <1>4
  <2> QED BY <2>1, <2>2
<1> QED BY <1>3, <1>4, <1>5

\* A request: its services are unsettled, and a load that runs is not of the newest.
LEMMA RequestEffect ==
    ASSUME TypeOK, NEW S \in SUBSET Services, NEW R \in SUBSET S, Request(S, R)
    PROVE  /\ svc' \in [Services -> Flags] /\ load' \in [Services -> Loads]
           /\ life' \in Lives /\ said' \in {"READY", "RELOADING"}
           /\ \A s \in Services \ S : svc'[s] = svc[s] /\ load'[s] = load[s]
           /\ \A s \in S :
                 /\ svc'[s].debounce /\ ~svc'[s].retry /\ svc'[s].again = svc[s].again
                 /\ load'[s].phase = load[s].phase /\ ~load'[s].newest
                 /\ load'[s].fresh => load[s].fresh /\ s \notin R
                 /\ load'[s].scheme = load[s].scheme /\ load'[s].result = load[s].result
           /\ life'.pending = life.pending \cup S
           /\ life'.announced <=> life.announced \/ S # {}
           /\ said' = IF S = {} \/ life.announced THEN said ELSE "RELOADING"
<1>1. PICK q, m : q = AfterRequest(S) /\ m = Superseded(S, R)
  OBVIOUS
<1>2. svc' = q /\ load' = m /\ R \in SUBSET Services
  BY <1>1 DEF Request
<1>3. /\ q \in [Services -> Flags] /\ m \in [Services -> Loads]
      /\ \A s \in Services \ S : q[s] = svc[s] /\ m[s] = load[s]
      /\ \A s \in S :
            /\ q[s].debounce /\ ~q[s].retry /\ q[s].again = svc[s].again
            /\ m[s].phase = load[s].phase /\ ~m[s].newest
            /\ m[s].fresh => load[s].fresh /\ s \notin R
            /\ m[s].scheme = load[s].scheme /\ m[s].result = load[s].result
  BY <1>1, <1>2, RequestParts
<1>4. life \in Lives /\ said \in {"READY", "RELOADING"}
  BY DEF TypeOK, Lives
<1>5. /\ life' \in Lives
      /\ life'.pending = life.pending \cup S
      /\ life'.announced <=> life.announced \/ S # {}
  BY <1>4, ScheduledEffect DEF Request
<1>6. said' = IF S = {} \/ life.announced THEN said ELSE "RELOADING"
  BY DEF Request, Announce
<1> QED BY <1>2, <1>3, <1>4, <1>5, <1>6

-----------------------------------------------------------------------------
(* Every step keeps the invariant *)

\* A service that was asked to reload, and dropped its load if that is for a
\* scheme that is not asked for any more.
AskedAgain(t) ==
    /\ svc'[t].debounce /\ ~svc'[t].retry /\ svc'[t].again = svc[t].again
    /\ load'[t].phase = load[t].phase /\ ~load'[t].newest
    /\ load'[t].fresh => load[t].fresh /\ SchemeFor(t)' = SchemeFor(t)
    /\ load'[t].scheme = load[t].scheme /\ load'[t].result = load[t].result

LEMMA AskedAgainOK ==
    ASSUME NEW t \in Services, ServiceOK(t), AskedAgain(t)
    PROVE  ServiceOK(t)' /\ Unsettled(t)'
<1>1. Unsettled(t)'
  BY DEF AskedAgain, Unsettled
<1>2. LoadOK(t)' /\ ResultOK(t)'
  BY DEF ServiceOK, LoadOK, ResultOK, AskedAgain, SchemesOf
<1>3. FailureOK(t)' /\ CurrentOK(t)'
  BY <1>1 DEF FailureOK, CurrentOK, Quiet, AskedAgain
<1> QED BY <1>1, <1>2, <1>3 DEF ServiceOK

\* What a request finds: S is asked to reload, and nothing else happens to the
\* others; a change of the scheme drops the load of Ghostty.
LEMMA RequestsKeep ==
    ASSUME IInv, NEW S \in SUBSET Services, NEW R \in SUBSET S, Request(S, R),
           UNCHANGED <<disk, snapshot, failure, unseen>>,
           changed' \in [Services -> BOOLEAN],
           \A s \in Services \ S : changed'[s] = changed[s],
           SchemeOK', scheme' \in Schemes, asked' \in Schemes, system' \in Schemes,
           asked' # asked => Ghostty \in R,
           edits' \in 0..MaxEdits, requests' \in 0..MaxRequests
    PROVE  IInv'
<1>1. TypeOK /\ LifeOK /\ \A s \in Services : ServiceOK(s)
  BY DEF IInv
<1>2. /\ svc' \in [Services -> Flags] /\ load' \in [Services -> Loads]
      /\ life' \in Lives /\ said' \in {"READY", "RELOADING"}
      /\ \A s \in Services \ S : svc'[s] = svc[s] /\ load'[s] = load[s]
      /\ \A s \in S :
            /\ svc'[s].debounce /\ ~svc'[s].retry /\ svc'[s].again = svc[s].again
            /\ load'[s].phase = load[s].phase /\ ~load'[s].newest
            /\ load'[s].fresh => load[s].fresh /\ s \notin R
            /\ load'[s].scheme = load[s].scheme /\ load'[s].result = load[s].result
      /\ life'.pending = life.pending \cup S
      /\ life'.announced <=> life.announced \/ S # {}
      /\ said' = IF S = {} \/ life.announced THEN said ELSE "RELOADING"
  BY <1>1, RequestEffect
<1>3. \A s \in Services : load'[s].result = load[s].result
  BY <1>2
<1>4. TypeOK'
  BY <1>1, <1>2, <1>3 DEF TypeOK, Flags, Loads, Lives
<1>5. \A s \in Services \ R : SchemeFor(s)' = SchemeFor(s)
  BY DEF SchemeFor
<1>6. ASSUME NEW s \in Services \ S PROVE ServiceOK(s)' /\ (Unsettled(s)' <=> Unsettled(s))
  <2>1. Untouched(s)
    BY <1>2, <1>5 DEF Untouched
  <2> QED BY <1>1, <2>1, UntouchedOK
<1>7. ASSUME NEW s \in S PROVE ServiceOK(s)' /\ Unsettled(s)'
  <2>1. AskedAgain(s)
    BY <1>2, <1>5 DEF AskedAgain
  <2> QED BY <1>1, <2>1, AskedAgainOK
<1>8. LifeOK'
  <2>1. \A s \in Services : s \in life'.pending <=> Unsettled(s)'
    BY <1>1, <1>2, <1>6, <1>7 DEF LifeOK
  <2>2. life'.announced <=> said' = "RELOADING"
    BY <1>1, <1>2 DEF LifeOK
  <2> QED BY <2>1, <2>2 DEF LifeOK
<1> QED BY <1>4, <1>6, <1>7, <1>8 DEF IInv

LEMMA FileChangedKeeps ==
    ASSUME IInv, NEW s \in Services, FileChanged(s)
    PROVE  IInv'
<1>1. /\ Request({s}, {}) /\ changed' = [changed EXCEPT ![s] = FALSE]
      /\ UNCHANGED <<disk, snapshot, failure, system, scheme, asked, unseen, edits, requests>>
  BY DEF FileChanged, look
<1>2. /\ changed \in [Services -> BOOLEAN] /\ asked \in Schemes /\ system \in Schemes
      /\ scheme \in Schemes /\ edits \in 0..MaxEdits /\ requests \in 0..MaxRequests
      /\ SchemeOK'
  BY <1>1, SchemeStays DEF IInv, TypeOK
<1>3. changed' \in [Services -> BOOLEAN] /\ \A t \in Services \ {s} : changed'[t] = changed[t]
  BY <1>1, <1>2
<1>4. {s} \in SUBSET Services /\ {} \in SUBSET {s}
  OBVIOUS
<1> QED BY <1>1, <1>2, <1>3, <1>4, RequestsKeep

LEMMA RetryDueKeeps ==
    ASSUME IInv, NEW s \in Services, RetryDue(s)
    PROVE  IInv'
<1>1. /\ Request({s}, {})
      /\ UNCHANGED <<disk, changed, snapshot, failure, system, scheme, asked, unseen,
                     edits, requests>>
  BY DEF RetryDue, look
<1>2. /\ changed \in [Services -> BOOLEAN] /\ asked \in Schemes /\ system \in Schemes
      /\ scheme \in Schemes /\ edits \in 0..MaxEdits /\ requests \in 0..MaxRequests
      /\ SchemeOK'
  BY <1>1, SchemeStays DEF IInv, TypeOK
<1>3. {s} \in SUBSET Services /\ {} \in SUBSET {s}
  OBVIOUS
<1> QED BY <1>1, <1>2, <1>3, RequestsKeep

LEMMA ReloadRequestedKeeps ==
    ASSUME IInv, ReloadRequested
    PROVE  IInv'
<1>1. /\ Request(Services, {})
      /\ UNCHANGED <<disk, changed, snapshot, failure, system, scheme, asked, unseen, edits>>
      /\ requests < MaxRequests /\ requests' = requests + 1
  BY DEF ReloadRequested, look
<1>2. /\ changed \in [Services -> BOOLEAN] /\ asked \in Schemes /\ system \in Schemes
      /\ scheme \in Schemes /\ edits \in 0..MaxEdits /\ requests \in 0..MaxRequests
      /\ SchemeOK'
  BY <1>1, SchemeStays DEF IInv, TypeOK
<1>3. requests' \in 0..MaxRequests
  BY <1>1, <1>2, ConfigAssumption
<1> QED BY <1>1, <1>2, <1>3, RequestsKeep

LEMMA SystemSchemeChangedKeeps ==
    ASSUME IInv, SystemSchemeChanged
    PROVE  IInv'
<1>1. PICK c \in Schemes \ {system} :
          LET new  == Resolved(LookOf(snapshot[Ghostty]), c)
              next == IF new # scheme THEN new ELSE asked
          IN
          /\ system' = c
          /\ scheme' = new
          /\ asked' = next
          /\ Request(IF next # asked THEN {Ghostty} ELSE {}, Dropped(next))
  BY DEF SystemSchemeChanged
<1>2. /\ requests < MaxRequests /\ requests' = requests + 1
      /\ UNCHANGED <<disk, changed, snapshot, failure, unseen, edits>>
  BY DEF SystemSchemeChanged
<1>3. /\ changed \in [Services -> BOOLEAN] /\ asked \in Schemes /\ system \in Schemes
      /\ SchemeOK /\ edits \in 0..MaxEdits /\ requests \in 0..MaxRequests
      /\ snapshot[Ghostty] \in Snapshots(Ghostty)
  BY DEF IInv, TypeOK, Services
<1>4. PICK new : new = Resolved(LookOf(snapshot[Ghostty]), c)
  OBVIOUS
<1>5. PICK next : next = IF new # scheme THEN new ELSE asked
  OBVIOUS
<1>6. PICK S : S = IF next # asked THEN {Ghostty} ELSE {}
  OBVIOUS
<1>7. new \in Schemes /\ next \in Schemes
  BY <1>3, <1>4, <1>5, LookTyped
<1>8. system' = c /\ scheme' = new /\ asked' = next /\ Request(S, S)
  BY <1>1, <1>4, <1>5, <1>6 DEF Dropped
<1>9. S \in SUBSET Services /\ S \in SUBSET S /\ (asked' # asked => Ghostty \in S)
  BY <1>6, <1>8 DEF Services
<1>10. SchemeOK'
  <2>1. scheme' = Resolved(LookOf(snapshot'[Ghostty]), system')
    BY <1>2, <1>4, <1>8
  <2>2. asked' # scheme' => asked # scheme
    BY <1>5, <1>8
  <2> QED BY <1>2, <1>3, <2>1, <2>2 DEF SchemeOK
<1>11. requests' \in 0..MaxRequests
  BY <1>2, <1>3, ConfigAssumption
<1> QED BY <1>2, <1>3, <1>7, <1>8, <1>9, <1>10, <1>11, RequestsKeep

LEMMA EditKeeps ==
    ASSUME IInv, NEW f \in Files, Edit(f)
    PROVE  IInv'
<1>1. /\ edits < MaxEdits /\ edits' = edits + 1
      /\ changed' = [s \in Services |-> changed[s] \/ f \in Watched(s)]
      /\ unseen' = [s \in Services |->
                      IF f \in Watched(s) THEN unseen[s] ELSE unseen[s] \cup {f}]
      /\ UNCHANGED <<svc, load, snapshot, failure, system, scheme, asked, life, said,
                     requests>>
  BY DEF Edit, config, look
<1>2. disk' \in [base : BaseContents, include : {1, 2}, mixed : {1, 2}]
  <2>1. PICK v \in (IF f = "base" THEN BaseContents ELSE {1, 2}) \ {disk[f]} :
            disk' = [disk EXCEPT ![f] = v]
    BY DEF Edit
  <2>2. disk \in [base : BaseContents, include : {1, 2}, mixed : {1, 2}]
    BY DEF IInv, TypeOK
  <2>3. CASE f = "base"
    <3>1. disk' = [disk EXCEPT !.base = v] /\ v \in BaseContents
      BY <2>1, <2>3
    <3> QED BY <2>2, <3>1
  <2>4. CASE f = "include"
    <3>1. disk' = [disk EXCEPT !.include = v] /\ v \in {1, 2}
      BY <2>1, <2>4
    <3> QED BY <2>2, <3>1
  <2>5. CASE f = "mixed"
    <3>1. disk' = [disk EXCEPT !.mixed = v] /\ v \in {1, 2}
      BY <2>1, <2>5
    <3> QED BY <2>2, <3>1
  <2> QED BY <2>3, <2>4, <2>5 DEF Files
<1>3. TypeOK /\ LifeOK /\ SchemeOK' /\ \A s \in Services : ServiceOK(s)
  BY <1>1, SchemeStays DEF IInv
<1>4. /\ changed' \in [Services -> BOOLEAN] /\ unseen' \in [Services -> SUBSET Files]
      /\ \A s \in Services :
            /\ changed[s] => changed'[s]
            /\ unseen[s] # {} => unseen'[s] # {}
            /\ changed'[s] \/ unseen'[s] # {}
  <2>1. changed' \in [Services -> BOOLEAN]
    BY <1>1
  <2>2. \A s \in Services : changed'[s] <=> changed[s] \/ f \in Watched(s)
    BY <1>1
  <2>3. unseen' \in [Services -> SUBSET Files]
    BY <1>1, <1>3 DEF TypeOK
  <2>4. \A s \in Services :
            unseen'[s] = IF f \in Watched(s) THEN unseen[s] ELSE unseen[s] \cup {f}
    BY <1>1
  <2> QED BY <2>1, <2>2, <2>3, <2>4
<1>5. edits' \in 0..MaxEdits
  BY <1>1, <1>3, ConfigAssumption DEF TypeOK
<1>6. TypeOK'
  BY <1>1, <1>2, <1>3, <1>4, <1>5 DEF TypeOK
<1>7. ASSUME NEW s \in Services PROVE ServiceOK(s)' /\ (Unsettled(s)' <=> Unsettled(s))
  <2>1. Unsettled(s)' <=> Unsettled(s)
    BY <1>1 DEF Unsettled
  <2>2. LoadOK(s)' /\ ResultOK(s)'
    BY <1>1, <1>3, <1>4 DEF ServiceOK, LoadOK, ResultOK, SchemeFor, SchemesOf
  <2>3. FailureOK(s)' /\ CurrentOK(s)'
    BY <1>1, <1>3, <1>4, <2>1 DEF ServiceOK, FailureOK, CurrentOK, Quiet, Current
  <2> QED BY <2>1, <2>2, <2>3 DEF ServiceOK
<1>8. LifeOK'
  BY <1>1, <1>3, <1>7 DEF LifeOK
<1> QED BY <1>1, <1>3, <1>6, <1>7, <1>8 DEF IInv

\* A step of one service.
LEMMA OneServiceKeeps ==
    ASSUME IInv, NEW s \in Services, \A t \in Services \ {s} : Untouched(t),
           TypeOK', ServiceOK(s)', SchemeOK',
           \A t \in Services \ {s} : t \in life'.pending <=> t \in life.pending,
           s \in life'.pending <=> Unsettled(s)',
           life'.announced <=> said' = "RELOADING"
    PROVE  IInv'
<1>1. ASSUME NEW t \in Services, t # s
      PROVE  ServiceOK(t)' /\ (t \in life'.pending <=> Unsettled(t)')
  <2>1. ServiceOK(t)' /\ (Unsettled(t)' <=> Unsettled(t))
    BY <1>1, UntouchedOK DEF IInv
  <2>2. t \in life.pending <=> Unsettled(t)
    BY DEF IInv, LifeOK
  <2> QED BY <1>1, <2>1, <2>2
<1> QED BY <1>1 DEF IInv, LifeOK

\* A load that runs keeps its service unsettled.
LEMMA LoadingIsUnsettled ==
    ASSUME NEW s \in Services, LoadOK(s), load[s].phase # "none"
    PROVE  Unsettled(s)
BY DEF LoadOK, Unsettled

LEMMA CompletionDueKeeps ==
    ASSUME IInv, CompletionDue
    PROVE  IInv'
<1>1. UNCHANGED <<disk, changed, svc, load, snapshot, failure, system, scheme, asked, unseen,
                  edits, requests>>
  BY DEF CompletionDue, config, look
<1>2. life \in Lives /\ said \in {"READY", "RELOADING"} /\ LifeOK
  BY DEF IInv, TypeOK, Lives
<1>3. /\ life' \in Lives /\ said' \in {"READY", "RELOADING"}
      /\ life'.pending = life.pending
      /\ life'.announced <=> said' = "RELOADING"
  <2>1. CASE life.pending = {} /\ life.announced
    <3>1. said' = "READY" /\ life' = [life EXCEPT !.completing = FALSE, !.announced = FALSE]
      BY <2>1 DEF CompletionDue
    <3> QED BY <1>2, <3>1 DEF Lives
  <2>2. CASE ~(life.pending = {} /\ life.announced)
    <3>1. said' = said /\ life' = [life EXCEPT !.completing = FALSE]
      BY <2>2 DEF CompletionDue
    <3>2. life'.announced = life.announced /\ life'.pending = life.pending /\ life' \in Lives
      BY <1>2, <3>1 DEF Lives
    <3> QED BY <1>2, <3>1, <3>2 DEF LifeOK
  <2> QED BY <2>1, <2>2
<1>4. TypeOK'
  BY <1>1, <1>3 DEF IInv, TypeOK, Lives
<1>5. ASSUME NEW s \in Services PROVE ServiceOK(s)' /\ (Unsettled(s)' <=> Unsettled(s))
  <2>1. Untouched(s)
    BY <1>1 DEF Untouched, SchemeFor
  <2> QED BY <2>1, UntouchedOK DEF IInv
<1>6. LifeOK'
  BY <1>2, <1>3, <1>5 DEF LifeOK
<1>7. SchemeOK'
  BY <1>1, SchemeStays DEF IInv
<1> QED BY <1>4, <1>5, <1>6, <1>7 DEF IInv

\* The worker of a load goes on.
LEMMA WorkerKeeps ==
    ASSUME IInv, NEW s \in Services, NEW q \in Loads, load' = [load EXCEPT ![s] = q],
           load[s].phase # "none", q.phase # "none", q.newest = load[s].newest,
           q.fresh = load[s].fresh, q.scheme = load[s].scheme, q.result \in Snapshots(s),
           UNCHANGED <<disk, changed, svc, snapshot, failure, system, scheme, asked, life, said,
                       edits, requests>>,
           unseen' \in [Services -> SUBSET Files],
           \A t \in Services \ {s} : unseen'[t] = unseen[t],
           ResultOK(s)'
    PROVE  IInv'
<1>1. TypeOK /\ LifeOK /\ ServiceOK(s) /\ SchemeOK'
  BY SchemeStays DEF IInv
<1>2. /\ load' \in [Services -> Loads] /\ load'[s] = q
      /\ \A t \in Services \ {s} : load'[t] = load[t]
  BY <1>1 DEF TypeOK, Loads
<1>3. \A t \in Services : load'[t].result \in Snapshots(t)
  BY <1>1, <1>2 DEF TypeOK
<1>4. TypeOK'
  BY <1>1, <1>2, <1>3 DEF TypeOK, Loads
<1>5. \A t \in Services \ {s} : Untouched(t)
  BY <1>2 DEF Untouched, SchemeFor
<1>6. Unsettled(s)' /\ Unsettled(s)
  BY <1>1, <1>2, LoadingIsUnsettled DEF ServiceOK, Unsettled
<1>7. LoadOK(s)'
  BY <1>1, <1>2 DEF ServiceOK, LoadOK, SchemeFor, SchemesOf
<1>8. FailureOK(s)' /\ CurrentOK(s)'
  BY <1>1, <1>6 DEF ServiceOK, FailureOK, CurrentOK, Quiet
<1>9. \A t \in Services : t \in life'.pending <=> t \in life.pending
  OBVIOUS
<1>10. s \in life'.pending <=> Unsettled(s)'
  BY <1>1, <1>6 DEF LifeOK
<1>11. life'.announced <=> said' = "RELOADING"
  BY <1>1 DEF LifeOK
<1>12. ServiceOK(s)' /\ SchemeOK'
  BY <1>1, <1>7, <1>8 DEF ServiceOK
<1> QED BY <1>4, <1>5, <1>9, <1>10, <1>11, <1>12, OneServiceKeeps

LEMMA ReadKeeps ==
    ASSUME IInv, NEW s \in Services, Read(s)
    PROVE  IInv'
<1>1. /\ load[s].phase = "running" /\ unseen' = [unseen EXCEPT ![s] = {}]
      /\ UNCHANGED <<disk, changed, svc, snapshot, failure, system, scheme, asked, life, said,
                     edits, requests>>
  BY DEF Read, look
<1>2. TypeOK /\ LoadOK(s) /\ load[s] \in Loads /\ load[s].scheme \in SchemesOf(s)
  BY <1>1 DEF IInv, ServiceOK, LoadOK, TypeOK, Loads
<1>3. PICK p \in {"read", "done"} : p = IF s = Ghostty THEN "read" ELSE "done"
  OBVIOUS
<1>4. PICK v : v = View(s, load[s].scheme)
  OBVIOUS
<1>5. v \in Snapshots(s) /\ (s = Ghostty => v.scheme = load[s].scheme)
  BY <1>2, <1>4, ViewTyped
<1>6. v \in AllSnapshots
  BY <1>5, SnapshotTypes
<1>7. PICK q : q = [load[s] EXCEPT !.phase = p, !.result = v]
  OBVIOUS
<1>8. load' = [load EXCEPT ![s] = q]
  BY <1>3, <1>4, <1>7 DEF Read
<1>9. /\ q \in Loads /\ q.phase = p /\ q.newest = load[s].newest /\ q.fresh = load[s].fresh
      /\ q.scheme = load[s].scheme /\ q.result = v
  BY <1>2, <1>6, <1>7 DEF Loads
<1>10. load'[s] = q
  BY <1>2, <1>8 DEF TypeOK
<1>11. ResultOK(s)'
  <2>1. load[s].newest => load[s].scheme = SchemeFor(s)
    BY <1>1, <1>2 DEF LoadOK
  <2>2. load[s].newest => v = View(s, SchemeFor(s))'
    BY <1>1, <1>4, <2>1 DEF View, SchemeFor
  <2> QED BY <1>5, <1>9, <1>10, <2>2 DEF ResultOK
<1>12. /\ unseen' \in [Services -> SUBSET Files]
       /\ \A t \in Services \ {s} : unseen'[t] = unseen[t]
  BY <1>1, <1>2 DEF TypeOK
<1>13. load[s].phase # "none" /\ q.phase # "none" /\ q.result \in Snapshots(s)
  BY <1>1, <1>5, <1>9
<1> QED BY <1>1, <1>8, <1>9, <1>11, <1>12, <1>13, WorkerKeeps

\* A worker ends with what it has, or with nothing.
LEMMA WorkerEnds ==
    ASSUME IInv, NEW s \in Services, load[s].phase \in {"running", "read"},
           NEW x, x = NoSnapshot \/ (load[s].phase = "read" /\ x = load[s].result),
           load' = [load EXCEPT ![s].phase = "done", ![s].result = x],
           UNCHANGED <<disk, changed, svc, snapshot, failure, system, scheme, asked, life, said,
                       unseen, edits, requests>>
    PROVE  IInv'
<1>1. /\ TypeOK /\ ServiceOK(s) /\ load[s] \in Loads /\ x \in Snapshots(s) /\ x \in AllSnapshots
  BY SnapshotTypes DEF IInv, TypeOK, Loads
<1>2. PICK q : q = [load[s] EXCEPT !.phase = "done", !.result = x]
  OBVIOUS
<1>3. load' = [load EXCEPT ![s] = q]
  BY <1>2
<1>4. /\ q \in Loads /\ q.phase = "done" /\ q.newest = load[s].newest /\ q.fresh = load[s].fresh
      /\ q.scheme = load[s].scheme /\ q.result = x
  BY <1>1, <1>2 DEF Loads
<1>5. load'[s] = q
  BY <1>1, <1>3 DEF TypeOK
<1>6. ResultOK(s)'
  <2>1. View(s, SchemeFor(s))' = View(s, SchemeFor(s))
    BY DEF View, SchemeFor
  <2> QED BY <1>1, <1>4, <1>5, <2>1 DEF ServiceOK, ResultOK
<1>7. /\ unseen' \in [Services -> SUBSET Files]
      /\ \A t \in Services \ {s} : unseen'[t] = unseen[t]
  BY <1>1 DEF TypeOK
<1>8. load[s].phase # "none" /\ q.phase # "none" /\ q.result \in Snapshots(s)
  BY <1>1, <1>4
<1> QED BY <1>3, <1>4, <1>6, <1>7, <1>8, WorkerKeeps

LEMMA VerifyKeeps ==
    ASSUME IInv, Verify
    PROVE  IInv'
<1>1. /\ load[Ghostty].phase = "read" /\ Ghostty \in Services
      /\ load' = [load EXCEPT ![Ghostty].phase = "done",
                              ![Ghostty].result = Verified(load[Ghostty])]
      /\ UNCHANGED <<disk, changed, svc, snapshot, failure, system, scheme, asked, life, said,
                     unseen, edits, requests>>
  BY DEF Verify, look, Services
<1>2. PICK x : x = Verified(load[Ghostty])
  OBVIOUS
<1>3. x = NoSnapshot \/ (load[Ghostty].phase = "read" /\ x = load[Ghostty].result)
  BY <1>1, <1>2 DEF Verified
<1>4. load' = [load EXCEPT ![Ghostty].phase = "done", ![Ghostty].result = x]
  BY <1>1, <1>2
<1>5. Ghostty \in Services /\ load[Ghostty].phase \in {"running", "read"}
  BY <1>1
<1>6. UNCHANGED <<disk, changed, svc, snapshot, failure, system, scheme, asked, life, said,
                  unseen, edits, requests>>
  BY <1>1
<1> QED BY <1>3, <1>4, <1>5, <1>6, WorkerEnds

LEMMA FailsKeeps ==
    ASSUME IInv, NEW s \in Services, Fails(s)
    PROVE  IInv'
<1>1. /\ load[s].phase \in {"running", "read"}
      /\ load' = [load EXCEPT ![s].phase = "done", ![s].result = NoSnapshot]
      /\ UNCHANGED <<disk, changed, svc, snapshot, failure, system, scheme, asked, life, said,
                     unseen, edits, requests>>
  BY DEF Fails, look
<1>2. PICK x : x = NoSnapshot
  OBVIOUS
<1>3. load' = [load EXCEPT ![s].phase = "done", ![s].result = x]
  BY <1>1, <1>2
<1> QED BY <1>1, <1>2, <1>3, WorkerEnds

LEMMA DebouncedKeeps ==
    ASSUME IInv, NEW s \in Services, Debounced(s)
    PROVE  IInv'
<1>1. /\ svc[s].debounce
      /\ UNCHANGED <<disk, changed, snapshot, failure, system, scheme, asked, life, said, unseen,
                     edits, requests>>
  BY DEF Debounced, look
<1>2. /\ TypeOK /\ ServiceOK(s) /\ LifeOK /\ SchemeOK'
      /\ svc \in [Services -> Flags] /\ load \in [Services -> Loads]
  BY <1>1, SchemeStays DEF IInv, TypeOK, Flags, Loads
<1>3. Unsettled(s)
  BY <1>1 DEF Unsettled
<1>4. /\ svc' \in [Services -> Flags] /\ load' \in [Services -> Loads]
      /\ \A t \in Services \ {s} : svc'[t] = svc[t] /\ load'[t] = load[t]
      /\ svc'[s].retry = svc[s].retry
      /\ load'[s].result = load[s].result \/ load'[s].result = NoSnapshot
      /\ Unsettled(s)' /\ LoadOK(s)' /\ ResultOK(s)'
  <2>1. CASE load[s].phase = "none"
    <3>1. PICK q : q = [svc[s] EXCEPT !.debounce = FALSE]
      OBVIOUS
    <3>2. PICK n : n = NewLoad(SchemeFor(s))
      OBVIOUS
    <3>3. svc' = [svc EXCEPT ![s] = q] /\ load' = [load EXCEPT ![s] = n]
      BY <2>1, <3>1, <3>2 DEF Debounced
    <3>4. q \in Flags /\ q.retry = svc[s].retry /\ ~q.debounce /\ q.again = svc[s].again
      BY <1>2, <3>1 DEF Flags
    <3>5. SchemeFor(s) \in SchemesOf(s) /\ SchemeFor(s)' = SchemeFor(s)
      BY <1>1, <1>2, SchemeTyped DEF SchemeFor
    <3>6. /\ n \in Loads /\ n.phase = "running" /\ n.newest /\ n.fresh
          /\ n.scheme = SchemeFor(s) /\ n.result = NoSnapshot
      BY <3>2, <3>5, NewLoads
    <3>7. /\ svc'[s] = q /\ load'[s] = n /\ svc' \in [Services -> Flags]
          /\ load' \in [Services -> Loads]
          /\ \A t \in Services \ {s} : svc'[t] = svc[t] /\ load'[t] = load[t]
      BY <1>2, <3>3, <3>4, <3>6
    <3>8. ~svc[s].again
      BY <1>2, <2>1 DEF ServiceOK, LoadOK
    <3>9. Unsettled(s)' /\ LoadOK(s)' /\ ResultOK(s)'
      BY <3>4, <3>5, <3>6, <3>7, <3>8 DEF Unsettled, LoadOK, ResultOK, SchemesOf
    <3> QED BY <3>4, <3>6, <3>7, <3>9
  <2>2. CASE load[s].phase # "none"
    <3>1. PICK q : q = [svc[s] EXCEPT !.debounce = FALSE, !.again = TRUE]
      OBVIOUS
    <3>2. svc' = [svc EXCEPT ![s] = q] /\ load' = load
      BY <2>2, <3>1 DEF Debounced, Deferred
    <3>3. q \in Flags /\ q.retry = svc[s].retry /\ ~q.debounce /\ q.again
      BY <1>2, <3>1 DEF Flags
    <3>4. /\ svc'[s] = q /\ svc' \in [Services -> Flags]
          /\ \A t \in Services \ {s} : svc'[t] = svc[t]
      BY <1>2, <3>2, <3>3
    <3>5. ~load[s].newest
      BY <1>1, <1>2, <2>2 DEF ServiceOK, LoadOK
    <3>6. LoadOK(s)'
      BY <1>1, <1>2, <2>2, <3>2, <3>3, <3>4, <3>5 DEF ServiceOK, LoadOK, SchemeFor, SchemesOf
    <3>7. ResultOK(s)' /\ Unsettled(s)'
      BY <1>2, <3>2, <3>3, <3>4, <3>5 DEF ServiceOK, ResultOK, Unsettled
    <3> QED BY <1>2, <3>2, <3>3, <3>4, <3>6, <3>7
  <2> QED BY <2>1, <2>2
<1>5. \A t \in Services : load'[t].result \in Snapshots(t)
  BY <1>2, <1>4, SnapshotTypes DEF TypeOK
<1>6. TypeOK'
  BY <1>1, <1>2, <1>4, <1>5 DEF TypeOK, Flags, Loads
<1>7. \A t \in Services \ {s} : Untouched(t)
  BY <1>1, <1>4 DEF Untouched, SchemeFor
<1>8. FailureOK(s)' /\ CurrentOK(s)'
  BY <1>1, <1>2, <1>3, <1>4 DEF ServiceOK, FailureOK, CurrentOK, Quiet
<1>9. s \in life'.pending <=> Unsettled(s)'
  BY <1>1, <1>2, <1>3, <1>4 DEF LifeOK
<1>10. /\ \A t \in Services \ {s} : t \in life'.pending <=> t \in life.pending
       /\ life'.announced <=> said' = "RELOADING"
  BY <1>1, <1>2 DEF LifeOK
<1>11. ServiceOK(s)' /\ SchemeOK'
  BY <1>1, <1>2, <1>4, <1>8 DEF ServiceOK
<1> QED BY <1>6, <1>7, <1>9, <1>10, <1>11, OneServiceKeeps

\* Once a result is handled, no load runs but one for a request that waited.
LEMMA BeginAgainEffect ==
    ASSUME NEW s \in Services, NEW R \in [Services -> Flags], NEW L \in [Services -> Loads],
           NEW c \in SchemesOf(s), BeginAgain(s, R, L, c), SchemeFor(s)' = c
    PROVE  /\ svc' \in [Services -> Flags] /\ load' \in [Services -> Loads]
           /\ \A t \in Services \ {s} : svc'[t] = R[t] /\ load'[t] = L[t]
           /\ svc'[s].retry = R[s].retry /\ load'[s].result = NoSnapshot
           /\ Unsettled(s)' <=> R[s].debounce \/ R[s].again
           /\ LoadOK(s)' /\ ResultOK(s)'
<1>1. R[s] \in Flags
  OBVIOUS
<1>2. CASE R[s].again
  <2>1. PICK q : q = [R[s] EXCEPT !.again = FALSE, !.debounce = FALSE]
    OBVIOUS
  <2>2. PICK n : n = NewLoad(c)
    OBVIOUS
  <2>3. svc' = [R EXCEPT ![s] = q] /\ load' = [L EXCEPT ![s] = n]
    BY <1>2, <2>1, <2>2 DEF BeginAgain
  <2>4. q \in Flags /\ q.retry = R[s].retry /\ ~q.debounce /\ ~q.again
    BY <1>1, <2>1 DEF Flags
  <2>5. /\ n \in Loads /\ n.phase = "running" /\ n.newest /\ n.fresh
        /\ n.scheme = c /\ n.result = NoSnapshot
    BY <2>2, NewLoads
  <2>6. /\ svc'[s] = q /\ load'[s] = n /\ svc' \in [Services -> Flags]
        /\ load' \in [Services -> Loads]
        /\ \A t \in Services \ {s} : svc'[t] = R[t] /\ load'[t] = L[t]
    BY <2>3, <2>4, <2>5
  <2>7. Unsettled(s)' /\ LoadOK(s)' /\ ResultOK(s)'
    BY <2>4, <2>5, <2>6 DEF Unsettled, LoadOK, ResultOK, SchemesOf
  <2> QED BY <1>2, <2>4, <2>5, <2>6, <2>7
<1>3. CASE ~R[s].again
  <2>1. PICK n : n = NoLoad
    OBVIOUS
  <2>2. svc' = R /\ load' = [L EXCEPT ![s] = n]
    BY <1>3, <2>1 DEF BeginAgain
  <2>3. n \in Loads /\ n.phase = "none" /\ n.result = NoSnapshot
    BY <2>1, NewLoads
  <2>4. /\ svc'[s] = R[s] /\ load'[s] = n /\ svc' \in [Services -> Flags]
        /\ load' \in [Services -> Loads]
        /\ \A t \in Services \ {s} : svc'[t] = R[t] /\ load'[t] = L[t]
    BY <2>2, <2>3
  <2>5. (Unsettled(s)' <=> R[s].debounce \/ R[s].again) /\ LoadOK(s)' /\ ResultOK(s)'
    BY <1>3, <2>3, <2>4 DEF Unsettled, LoadOK, ResultOK, SchemesOf
  <2> QED BY <2>3, <2>4, <2>5
<1> QED BY <1>2, <1>3

\* A settled load takes its service out of those the lifecycle waits for.
LEMMA SettledEffect ==
    ASSUME NEW l \in Lives, NEW s \in Services, NEW newest \in BOOLEAN,
           newest => s \in l.pending
    PROVE  /\ AfterSettled(l, s, newest) \in Lives
           /\ AfterSettled(l, s, newest).pending =
                 IF newest THEN l.pending \ {s} ELSE l.pending
           /\ AfterSettled(l, s, newest).announced = l.announced
<1>1. CASE newest
  <2>1. PICK b \in BOOLEAN : b = (l.completing \/ (l.pending = {s} /\ l.announced))
    <3>1. l.completing \in BOOLEAN
      BY DEF Lives
    <3> QED BY <3>1, Zenon
  <2>2. AfterSettled(l, s, newest) = [l EXCEPT !.pending = l.pending \ {s}, !.completing = b]
    BY <1>1, <2>1 DEF AfterSettled
  <2> QED BY <1>1, <2>2 DEF Lives
<1>2. CASE ~newest
  BY <1>2 DEF AfterSettled
<1> QED BY <1>1, <1>2

\* The other service, if the callback of a load leaves it alone.
LEMMA OthersKeep ==
    ASSUME IInv, NEW s \in Services,
           NEW R \in [Services -> Flags], NEW L \in [Services -> Loads], NEW c \in SchemesOf(s),
           BeginAgain(s, R, L, c), SchemeFor(s)' = c, UNCHANGED <<disk, changed, unseen>>,
           NEW t \in Services, t # s, R[t] = svc[t], L[t] = load[t],
           snapshot'[t] = snapshot[t], failure'[t] = failure[t],
           SchemeFor(t)' = SchemeFor(t), t \in life'.pending <=> t \in life.pending
    PROVE  ServiceOK(t)' /\ (t \in life'.pending <=> Unsettled(t)')
<1>1. svc'[t] = svc[t] /\ load'[t] = load[t]
  BY BeginAgainEffect
<1>2. Untouched(t)
  BY <1>1 DEF Untouched
<1>3. ServiceOK(t)' /\ (Unsettled(t)' <=> Unsettled(t))
  BY <1>2, UntouchedOK DEF IInv
<1>4. t \in life.pending <=> Unsettled(t)
  BY DEF IInv, LifeOK
<1> QED BY <1>3, <1>4

\* The callback of a load, by what it leaves of the flags and loads.
LEMMA CallbackKeeps ==
    ASSUME IInv, NEW s \in Services,
           NEW R \in [Services -> Flags], NEW L \in [Services -> Loads], NEW c \in SchemesOf(s),
           BeginAgain(s, R, L, c), SchemeFor(s)' = c,
           UNCHANGED <<disk, changed, system, unseen, edits, requests>>,
           snapshot' \in [Services -> AllSnapshots],
           \A t \in Services : L[t].result \in Snapshots(t) /\ snapshot'[t] \in Snapshots(t),
           failure' \in [Services -> BOOLEAN],
           SchemeOK', scheme' \in Schemes, asked' \in Schemes,
           life' \in Lives, said' \in {"READY", "RELOADING"},
           \A t \in Services \ {s} : ServiceOK(t)' /\ (t \in life'.pending <=> Unsettled(t)'),
           s \in life'.pending <=> R[s].debounce \/ R[s].again,
           life'.announced <=> said' = "RELOADING",
           failure'[s] => R[s].retry \/ R[s].debounce \/ R[s].again,
           R[s].retry => failure'[s] /\ ~(R[s].debounce \/ R[s].again),
           ~(changed[s] \/ R[s].retry \/ R[s].debounce \/ R[s].again) => Current(s)'
    PROVE  IInv'
<1>1. /\ svc' \in [Services -> Flags] /\ load' \in [Services -> Loads]
      /\ \A t \in Services \ {s} : svc'[t] = R[t] /\ load'[t] = L[t]
      /\ svc'[s].retry = R[s].retry /\ load'[s].result = NoSnapshot
      /\ Unsettled(s)' <=> R[s].debounce \/ R[s].again
      /\ LoadOK(s)' /\ ResultOK(s)'
  BY BeginAgainEffect
<1>2. \A t \in Services : load'[t].result \in Snapshots(t) /\ snapshot'[t] \in Snapshots(t)
  BY <1>1, SnapshotTypes
<1>3. TypeOK'
  BY <1>1, <1>2 DEF IInv, TypeOK, Flags, Loads, Lives
<1>4. FailureOK(s)' /\ CurrentOK(s)'
  BY <1>1 DEF FailureOK, CurrentOK, Quiet
<1>5. ServiceOK(s)'
  BY <1>1, <1>4 DEF ServiceOK
<1>6. s \in life'.pending <=> Unsettled(s)'
  BY <1>1
<1> QED BY <1>3, <1>5, <1>6 DEF IInv, LifeOK

\* What the callback of a load finds.
LEMMA CallbackFinds ==
    ASSUME IInv, NEW s \in Services, load[s].phase = "done"
    PROVE  /\ svc[s] \in Flags /\ load[s] \in Loads /\ life \in Lives
           /\ load[s].newest <=> ~(svc[s].debounce \/ svc[s].again)
           /\ load[s].newest => load[s].fresh
           /\ load[s].fresh => load[s].scheme = SchemeFor(s)
           /\ ~svc[s].retry /\ s \in life.pending
           /\ life.announced <=> said = "RELOADING"
           /\ SchemeFor(s) \in SchemesOf(s)
<1>1. /\ svc[s] \in Flags /\ load[s] \in Loads /\ life \in Lives
      /\ LoadOK(s) /\ FailureOK(s) /\ LifeOK /\ TypeOK
  BY DEF IInv, ServiceOK, TypeOK, Flags, Loads, Lives
<1>2. Unsettled(s)
  BY <1>1, LoadingIsUnsettled
<1>3. ~svc[s].retry /\ s \in life.pending /\ (life.announced <=> said = "RELOADING")
  BY <1>1, <1>2 DEF FailureOK, LifeOK
<1>4. SchemeFor(s) \in SchemesOf(s)
  BY <1>1, SchemeTyped
<1> QED BY <1>1, <1>3, <1>4 DEF LoadOK

LEMMA LoadDroppedKeeps ==
    ASSUME IInv, NEW s \in Services, LoadDropped(s)
    PROVE  IInv'
<1>1. /\ load[s].phase = "done" /\ ~load[s].fresh
      /\ life' = AfterSettled(life, s, load[s].newest)
      /\ BeginAgain(s, svc, load, SchemeFor(s))
      /\ UNCHANGED <<disk, changed, snapshot, failure, system, scheme, asked, said, unseen,
                     edits, requests>>
  BY DEF LoadDropped, look
<1>2. /\ svc[s] \in Flags /\ life \in Lives /\ ~svc[s].retry /\ s \in life.pending
      /\ svc[s].debounce \/ svc[s].again
      /\ life.announced <=> said = "RELOADING"
      /\ SchemeFor(s) \in SchemesOf(s) /\ ~load[s].newest
  BY <1>1, CallbackFinds
<1>3. life' = life
  BY <1>1, <1>2 DEF AfterSettled
<1>4. \A t \in Services : SchemeFor(t)' = SchemeFor(t)
  BY <1>1 DEF SchemeFor
<1>5. PICK R \in [Services -> Flags] : R = svc
  BY DEF IInv, TypeOK, Flags
<1>6. PICK L \in [Services -> Loads] : L = load
  BY DEF IInv, TypeOK, Loads
<1>7. PICK c \in SchemesOf(s) : c = SchemeFor(s)
  BY <1>2
<1>8. BeginAgain(s, R, L, c) /\ SchemeFor(s)' = c
  BY <1>1, <1>4, <1>5, <1>6, <1>7
<1>9. \A t \in Services \ {s} : ServiceOK(t)' /\ (t \in life'.pending <=> Unsettled(t)')
  BY <1>1, <1>3, <1>4, <1>5, <1>6, <1>8, OthersKeep
<1>10. /\ snapshot' \in [Services -> AllSnapshots] /\ failure' \in [Services -> BOOLEAN]
       /\ \A t \in Services : L[t].result \in Snapshots(t) /\ snapshot'[t] \in Snapshots(t)
       /\ SchemeOK' /\ scheme' \in Schemes /\ asked' \in Schemes
       /\ said' \in {"READY", "RELOADING"}
  BY <1>1, <1>6, SchemeStays DEF IInv, TypeOK
<1>11. /\ ~R[s].retry /\ (R[s].debounce \/ R[s].again)
       /\ life' \in Lives /\ s \in life'.pending
       /\ life'.announced <=> said' = "RELOADING"
  BY <1>1, <1>2, <1>3, <1>5
<1> QED BY <1>1, <1>8, <1>9, <1>10, <1>11, CallbackKeeps

LEMMA LoadFailedKeeps ==
    ASSUME IInv, NEW s \in Services, LoadFailed(s)
    PROVE  IInv'
<1>1. /\ load[s].phase = "done"
      /\ failure' = [failure EXCEPT ![s] = TRUE]
      /\ life' = AfterSettled(life, s, load[s].newest)
      /\ BeginAgain(s, [svc EXCEPT ![s] = AfterFailure(svc[s], load[s].newest)], load,
                    SchemeFor(s))
      /\ UNCHANGED <<disk, changed, snapshot, system, scheme, asked, said, unseen,
                     edits, requests>>
  BY DEF LoadFailed, look
<1>2. /\ svc[s] \in Flags /\ load[s] \in Loads /\ life \in Lives
      /\ ~svc[s].retry /\ s \in life.pending
      /\ load[s].newest <=> ~(svc[s].debounce \/ svc[s].again)
      /\ life.announced <=> said = "RELOADING"
      /\ SchemeFor(s) \in SchemesOf(s)
  BY <1>1, CallbackFinds
<1>3. PICK newest \in BOOLEAN : newest = load[s].newest
  BY <1>2 DEF Loads
<1>4. /\ life' \in Lives /\ life'.announced = life.announced
      /\ life'.pending = IF newest THEN life.pending \ {s} ELSE life.pending
  BY <1>1, <1>2, <1>3, SettledEffect
<1>5. PICK r : r = AfterFailure(svc[s], newest)
  OBVIOUS
<1>6. r \in Flags /\ r.retry = newest /\ r.debounce = svc[s].debounce /\ r.again = svc[s].again
  <2>1. r = [svc[s] EXCEPT !.retry = newest]
    <3>1. (svc[s].retry \/ newest) = newest
      BY <1>2, <1>3
    <3> QED BY <1>5, <3>1 DEF AfterFailure
  <2> QED BY <1>2, <2>1 DEF Flags
<1>7. PICK c \in SchemesOf(s) : c = SchemeFor(s)
  BY <1>2
<1>8. \A t \in Services : SchemeFor(t)' = SchemeFor(t)
  BY <1>1 DEF SchemeFor
<1>9. svc \in [Services -> Flags] /\ load \in [Services -> Loads]
  BY DEF IInv, TypeOK, Flags, Loads
<1>10. PICK R \in [Services -> Flags] : R = [svc EXCEPT ![s] = r]
  BY <1>6, <1>9
<1>11. PICK L \in [Services -> Loads] : L = load
  BY <1>9
<1>12. R[s] = r /\ \A t \in Services \ {s} : R[t] = svc[t]
  BY <1>9, <1>10
<1>13. BeginAgain(s, R, L, c) /\ SchemeFor(s)' = c
  BY <1>1, <1>3, <1>5, <1>7, <1>8, <1>10, <1>11
<1>14. /\ snapshot' \in [Services -> AllSnapshots]
       /\ \A t \in Services : L[t].result \in Snapshots(t) /\ snapshot'[t] \in Snapshots(t)
       /\ failure' \in [Services -> BOOLEAN] /\ failure'[s]
       /\ \A t \in Services \ {s} : snapshot'[t] = snapshot[t] /\ failure'[t] = failure[t]
       /\ SchemeOK' /\ scheme' \in Schemes /\ asked' \in Schemes
       /\ said' \in {"READY", "RELOADING"}
  BY <1>1, <1>11, SchemeStays DEF IInv, TypeOK
<1>15. ASSUME NEW t \in Services, t # s
       PROVE  ServiceOK(t)' /\ (t \in life'.pending <=> Unsettled(t)')
  <2>1. R[t] = svc[t] /\ L[t] = load[t] /\ (t \in life'.pending <=> t \in life.pending)
    BY <1>4, <1>11, <1>12, <1>15
  <2>2. UNCHANGED <<disk, changed, unseen>>
    BY <1>1
  <2>3. snapshot'[t] = snapshot[t] /\ failure'[t] = failure[t] /\ SchemeFor(t)' = SchemeFor(t)
    BY <1>8, <1>14, <1>15
  <2> QED BY <1>13, <1>15, <2>1, <2>2, <2>3, OthersKeep
<1>16. R[s].retry = newest /\ (newest <=> ~(R[s].debounce \/ R[s].again))
  BY <1>2, <1>3, <1>6, <1>12
<1>17. /\ s \in life'.pending <=> R[s].debounce \/ R[s].again
       /\ life'.announced <=> said' = "RELOADING"
  BY <1>1, <1>2, <1>4, <1>16
<1> QED
  BY <1>1, <1>4, <1>13, <1>14, <1>15, <1>16, <1>17, CallbackKeeps

\* A success leaves Ghostty asked for the scheme that the new look wants; the
\* service that loaded, and Ghostty if that is another, may have to load again.
LEMMA LoadSucceededEffect ==
    ASSUME IInv, NEW s \in Services, LoadSucceeded(s)
    PROVE  \E new \in Schemes, more \in SUBSET {Ghostty} :
              /\ more = IF new # asked THEN {Ghostty} ELSE {}
              /\ new = Resolved(LookOf(snapshot'[Ghostty]), system)
              /\ load[s].phase = "done" /\ load[s].fresh /\ load[s].result # NoSnapshot
              /\ snapshot' = [snapshot EXCEPT ![s] = load[s].result]
              /\ failure' = [failure EXCEPT ![s] = FALSE]
              /\ scheme' = new /\ asked' = new
              /\ life' = AfterScheduled(AfterSettled(life, s, load[s].newest), more)
              /\ Announce(more)
              /\ BeginAgain(s, [AfterRequest(more) EXCEPT ![s].retry = FALSE],
                            Superseded(more, more), IF s = Ghostty THEN new ELSE "any")
              /\ UNCHANGED <<disk, changed, system, unseen, edits, requests>>
<1>1. PICK loaded : loaded = [snapshot EXCEPT ![s] = load[s].result]
  OBVIOUS
<1>2. PICK new : new = Resolved(LookOf(loaded[Ghostty]), system)
  OBVIOUS
<1>3. PICK more : more = IF new # asked THEN {Ghostty} ELSE {}
  OBVIOUS
<1>4. /\ load[s].phase = "done" /\ load[s].fresh /\ load[s].result # NoSnapshot
      /\ snapshot' = loaded
      /\ failure' = [failure EXCEPT ![s] = FALSE]
      /\ scheme' = new /\ asked' = new
      /\ life' = AfterScheduled(AfterSettled(life, s, load[s].newest), more)
      /\ Announce(more)
      /\ BeginAgain(s, [AfterRequest(more) EXCEPT ![s].retry = FALSE],
                    Superseded(more, Dropped(new)), IF s = Ghostty THEN new ELSE "any")
      /\ UNCHANGED <<disk, changed, system, unseen, edits, requests>>
  BY <1>1, <1>2, <1>3 DEF LoadSucceeded
<1>5. more = Dropped(new) /\ more \in SUBSET {Ghostty}
  BY <1>3 DEF Dropped
<1>6. new \in Schemes
  <2>1. loaded[Ghostty] \in Snapshots(Ghostty) /\ system \in Schemes
    BY <1>1 DEF IInv, TypeOK, Services
  <2> QED BY <1>2, <2>1, LookTyped
<1> QED BY <1>1, <1>2, <1>3, <1>4, <1>5, <1>6

LEMMA LoadSucceededKeeps ==
    ASSUME IInv, NEW s \in Services, LoadSucceeded(s)
    PROVE  IInv'
<1>1. PICK new \in Schemes, more \in SUBSET {Ghostty} :
          /\ more = IF new # asked THEN {Ghostty} ELSE {}
          /\ new = Resolved(LookOf(snapshot'[Ghostty]), system)
          /\ load[s].phase = "done" /\ load[s].fresh /\ load[s].result # NoSnapshot
          /\ snapshot' = [snapshot EXCEPT ![s] = load[s].result]
          /\ failure' = [failure EXCEPT ![s] = FALSE]
          /\ scheme' = new /\ asked' = new
          /\ life' = AfterScheduled(AfterSettled(life, s, load[s].newest), more)
          /\ Announce(more)
          /\ BeginAgain(s, [AfterRequest(more) EXCEPT ![s].retry = FALSE],
                        Superseded(more, more), IF s = Ghostty THEN new ELSE "any")
          /\ UNCHANGED <<disk, changed, system, unseen, edits, requests>>
  BY LoadSucceededEffect
<1>2. /\ svc[s] \in Flags /\ load[s] \in Loads /\ life \in Lives
      /\ s \in life.pending /\ ~svc[s].retry
      /\ load[s].newest <=> ~(svc[s].debounce \/ svc[s].again)
      /\ life.announced <=> said = "RELOADING"
  BY <1>1, CallbackFinds
<1>3. /\ TypeOK /\ ServiceOK(s) /\ load[s].result \in Snapshots(s)
      /\ said \in {"READY", "RELOADING"} /\ more \in SUBSET Services
  BY DEF IInv, TypeOK, Services
<1>4. PICK c : c = IF s = Ghostty THEN new ELSE "any"
  OBVIOUS
<1>5. /\ SchemeFor(s)' = c /\ c \in SchemesOf(s)
      /\ \A t \in Services \ more : SchemeFor(t)' = SchemeFor(t)
  <2>1. asked' = new /\ (Ghostty \notin more => new = asked)
    BY <1>1
  <2>2. SchemeFor(s)' = c /\ c \in SchemesOf(s)
    BY <1>4, <2>1 DEF SchemeFor, SchemesOf
  <2>3. \A t \in Services \ more : SchemeFor(t)' = SchemeFor(t)
    BY <2>1 DEF SchemeFor
  <2> QED BY <2>2, <2>3
<1>6. PICK Q, L : Q = AfterRequest(more) /\ L = Superseded(more, more)
  OBVIOUS
<1>7. /\ Q \in [Services -> Flags] /\ L \in [Services -> Loads]
      /\ \A t \in Services \ more : Q[t] = svc[t] /\ L[t] = load[t]
      /\ \A t \in more :
            /\ Q[t].debounce /\ ~Q[t].retry /\ Q[t].again = svc[t].again
            /\ L[t].phase = load[t].phase /\ ~L[t].newest
            /\ L[t].fresh => load[t].fresh /\ t \notin more
            /\ L[t].scheme = load[t].scheme /\ L[t].result = load[t].result
  BY <1>3, <1>6, RequestParts
<1>8. PICK R : R = [Q EXCEPT ![s].retry = FALSE]
  OBVIOUS
<1>9. /\ R \in [Services -> Flags] /\ \A t \in Services \ {s} : R[t] = Q[t]
      /\ ~R[s].retry /\ R[s].again = svc[s].again
      /\ R[s].debounce <=> svc[s].debounce \/ s \in more
  <2>1. PICK r : r = [Q[s] EXCEPT !.retry = FALSE]
    OBVIOUS
  <2>2. Q[s] \in Flags
    BY <1>7
  <2>3. r \in Flags /\ ~r.retry /\ r.again = Q[s].again /\ r.debounce = Q[s].debounce
    BY <2>1, <2>2 DEF Flags
  <2>4. R = [Q EXCEPT ![s] = r]
    BY <1>8, <2>1
  <2>5. R \in [Services -> Flags] /\ R[s] = r /\ \A t \in Services \ {s} : R[t] = Q[t]
    BY <1>7, <2>3, <2>4
  <2>6. s \in more => Q[s].debounce /\ Q[s].again = svc[s].again
    BY <1>7
  <2>7. s \notin more => Q[s] = svc[s]
    BY <1>7
  <2> QED BY <2>3, <2>5, <2>6, <2>7
<1>10. BeginAgain(s, R, L, c)
  BY <1>1, <1>4, <1>6, <1>8
<1>11. PICK newest \in BOOLEAN : newest = load[s].newest
  BY <1>2 DEF Loads
<1>12. PICK l : l = AfterSettled(life, s, newest)
  OBVIOUS
<1>13. /\ l \in Lives /\ l.announced = life.announced
       /\ l.pending = IF newest THEN life.pending \ {s} ELSE life.pending
  <2>1. life \in Lives /\ newest \in BOOLEAN /\ (newest => s \in life.pending)
    BY <1>2, <1>11
  <2>2. /\ AfterSettled(life, s, newest) \in Lives
        /\ AfterSettled(life, s, newest).pending =
              IF newest THEN life.pending \ {s} ELSE life.pending
        /\ AfterSettled(life, s, newest).announced = life.announced
    BY ONLY <2>1, s \in Services, SettledEffect
  <2> QED BY ONLY <1>12, <2>2
<1>14. life' = AfterScheduled(l, more)
  BY <1>1, <1>11, <1>12
<1>15. /\ life' \in Lives /\ life'.pending = l.pending \cup more
       /\ life'.announced <=> l.announced \/ more # {}
  BY <1>3, <1>13, <1>14, ScheduledEffect
<1>16. /\ said' = IF more = {} \/ life.announced THEN said ELSE "RELOADING"
       /\ life'.announced <=> said' = "RELOADING"
       /\ said' \in {"READY", "RELOADING"}
  <2>1. said' = IF more = {} \/ life.announced THEN said ELSE "RELOADING"
    BY <1>1 DEF Announce
  <2> QED BY <1>2, <1>3, <1>13, <1>15, <2>1
<1>17. Current(s)' \/ changed[s] \/ R[s].debounce \/ R[s].again
  <2>1. CASE newest /\ s \notin more
    <3>1. SchemeFor(s)' = SchemeFor(s)
      BY <1>5, <2>1
    <3>2. load[s].result = View(s, SchemeFor(s)) \/ changed[s] \/ unseen[s] # {}
      BY <1>1, <1>3, <1>11, <2>1 DEF ServiceOK, ResultOK
    <3>3. snapshot'[s] = load[s].result
      BY <1>1, <1>3 DEF TypeOK
    <3>4. View(s, SchemeFor(s))' = View(s, SchemeFor(s))
      BY <1>1, <3>1 DEF View
    <3> QED BY <1>1, <3>2, <3>3, <3>4 DEF Current
  <2>2. CASE ~(newest /\ s \notin more)
    BY <1>2, <1>9, <1>11, <2>2
  <2> QED BY <2>1, <2>2
<1>18. s \in life'.pending <=> R[s].debounce \/ R[s].again
  BY <1>2, <1>9, <1>11, <1>13, <1>15
<1>19. /\ snapshot' \in [Services -> AllSnapshots]
       /\ \A t \in Services : L[t].result \in Snapshots(t) /\ snapshot'[t] \in Snapshots(t)
       /\ failure' \in [Services -> BOOLEAN] /\ ~failure'[s]
       /\ \A t \in Services \ {s} : snapshot'[t] = snapshot[t] /\ failure'[t] = failure[t]
  <2>1. \A t \in Services : L[t].result = load[t].result
    BY <1>7
  <2> QED BY <1>1, <1>3, <2>1, SnapshotTypes DEF TypeOK
<1>20. SchemeOK' /\ scheme' \in Schemes /\ asked' \in Schemes
  BY <1>1 DEF SchemeOK
<1>21. ASSUME NEW t \in Services, t # s
       PROVE  ServiceOK(t)' /\ (t \in life'.pending <=> Unsettled(t)')
  <2>1. CASE t \in more
    <3>1. svc'[t] = Q[t] /\ load'[t] = L[t]
      BY <1>5, <1>7, <1>9, <1>10, <1>21, BeginAgainEffect
    <3>2. AskedAgain(t)
      BY <1>7, <2>1, <3>1 DEF AskedAgain
    <3>3. ServiceOK(t)' /\ Unsettled(t)'
      BY <3>2, AskedAgainOK DEF IInv
    <3>4. t \in life'.pending
      BY <1>15, <2>1
    <3> QED BY <3>3, <3>4
  <2>2. CASE t \notin more
    <3>1. R[t] = svc[t] /\ L[t] = load[t] /\ SchemeFor(t)' = SchemeFor(t)
      BY <1>5, <1>7, <1>9, <1>21, <2>2
    <3>2. t \in life'.pending <=> t \in life.pending
      BY <1>13, <1>15, <1>21, <2>2
    <3>3. /\ UNCHANGED <<disk, changed, unseen>>
          /\ snapshot'[t] = snapshot[t] /\ failure'[t] = failure[t]
      BY <1>1, <1>19, <1>21
    <3>4. /\ R \in [Services -> Flags] /\ L \in [Services -> Loads]
          /\ c \in SchemesOf(s) /\ BeginAgain(s, R, L, c) /\ SchemeFor(s)' = c
      BY <1>5, <1>7, <1>9, <1>10
    <3> QED
      BY ONLY IInv, s \in Services, t \in Services, <1>21, <3>1, <3>2, <3>3, <3>4,
              OthersKeep
  <2> QED BY <2>1, <2>2
<1>22. UNCHANGED <<disk, changed, system, unseen, edits, requests>>
  BY <1>1
<1> QED
  BY <1>5, <1>7, <1>9, <1>10, <1>15, <1>16, <1>17, <1>18, <1>19, <1>20, <1>21, <1>22,
     CallbackKeeps

-----------------------------------------------------------------------------
(* The invariant, and what follows from it *)

\* What a round of startup finds and leaves: the last load read the file for the
\* scheme the service is asked for, unless it failed.
RoundOK(u) ==
    /\ u.asked \in Schemes /\ u.snapshot \in Snapshots(Ghostty) /\ u.ok \in BOOLEAN
    /\ u.ok => u.snapshot = View(Ghostty, u.asked)

Wants(u) == Resolved(LookOf(u.snapshot), system)

DiskOK == disk \in [base : BaseContents, include : {1, 2}, mixed : {1, 2}]

LEMMA Viewed ==
    ASSUME DiskOK, NEW c \in Schemes
    PROVE  /\ View(Ghostty, c) \in Snapshots(Ghostty) /\ View(Ghostty, c) # NoSnapshot
           /\ View(Ghostty, c).base = disk.base
           /\ LookOf(View(Ghostty, c)) = disk.base.looks[c]
<1>1. PICK v : v = View(Ghostty, c)
  OBVIOUS
<1>2. PICK i \in 0..2 : i = IF disk.base.includes THEN disk.include ELSE 0
  BY DEF DiskOK
<1>3. v = [base |-> disk.base, mixed |-> disk.mixed, scheme |-> c, include |-> i]
  BY <1>1, <1>2 DEF View
<1>4. v \in Snapshots(Ghostty) /\ v.base = disk.base /\ v.scheme = c
  BY <1>3 DEF DiskOK, Snapshots
<1>5. v # NoSnapshot
  BY <1>4 DEF NoSnapshot, Schemes
<1>6. LookOf(v) = disk.base.looks[c]
  BY <1>4, <1>5 DEF LookOf
<1> QED BY <1>1, <1>4, <1>5, <1>6

LEMMA StartedOK ==
    ASSUME DiskOK, system \in Schemes, NEW ok \in BOOLEAN, NEW u, u = Started(ok)
    PROVE  RoundOK(u)
<1>1. PICK v : v = View(Ghostty, system)
  OBVIOUS
<1>2. v \in Snapshots(Ghostty) /\ NoSnapshot \in Snapshots(Ghostty)
  BY <1>1, Viewed, SnapshotTypes DEF Services
<1>3. u = [snapshot |-> IF ok THEN v ELSE NoSnapshot, asked |-> system, ok |-> ok]
  BY <1>1 DEF Started
<1>4. u.asked = system /\ u.ok = ok /\ u.snapshot = IF ok THEN v ELSE NoSnapshot
  BY <1>3
<1> QED BY <1>1, <1>2, <1>4 DEF RoundOK

\* A round that leaves the look at odds with the scheme asked for has loaded the
\* file for that scheme, and was at odds before.
LEMMA AttemptOK ==
    ASSUME DiskOK, system \in Schemes, NEW u, RoundOK(u), NEW ok \in BOOLEAN,
           NEW v, v = Attempt(u, ok)
    PROVE  /\ RoundOK(v)
           /\ Wants(v) # v.asked =>
                 /\ Wants(u) # u.asked /\ v.asked = Wants(u)
                 /\ v.snapshot = View(Ghostty, v.asked)
<1>1. PICK c : c = Wants(u)
  OBVIOUS
<1>2. c \in Schemes
  BY <1>1, LookTyped DEF RoundOK, Wants
<1>3. CASE c = u.asked
  <2>1. v = u
    BY <1>1, <1>3 DEF Attempt, Wants
  <2> QED BY <1>1, <1>3, <2>1
<1>4. CASE c # u.asked
  <2>1. PICK w : w = View(Ghostty, c)
    OBVIOUS
  <2>2. w \in Snapshots(Ghostty)
    BY <1>2, <2>1, Viewed
  <2>3. v = [snapshot |-> IF ok THEN w ELSE u.snapshot, asked |-> c, ok |-> ok]
    BY <1>1, <1>4, <2>1 DEF Attempt, Wants
  <2>4. v.asked = c /\ v.ok = ok /\ v.snapshot = IF ok THEN w ELSE u.snapshot
    BY <2>3
  <2>5. RoundOK(v)
    BY <1>2, <2>1, <2>2, <2>4 DEF RoundOK
  <2>6. CASE ok
    BY <1>1, <1>4, <2>1, <2>4, <2>5, <2>6
  <2>7. CASE ~ok
    <3>1. Wants(v) = c
      BY <1>1, <2>4, <2>7 DEF Wants
    <3> QED BY <2>4, <2>5, <3>1
  <2> QED BY <2>6, <2>7
<1> QED BY <1>3, <1>4

\* Startup gives up only on a file that oscillates.
LEMMA GivesUp ==
    ASSUME DiskOK, system \in Schemes, NEW ok \in [0..3 -> BOOLEAN],
           NEW u, u = Attempt(Attempt(Attempt(Started(ok[0]), ok[1]), ok[2]), ok[3])
    PROVE  /\ RoundOK(u)
           /\ Wants(u) # u.asked => u.snapshot # NoSnapshot /\ ~Settles(u.snapshot.base)
<1>1. PICK u0, u1, u2 :
          u0 = Started(ok[0]) /\ u1 = Attempt(u0, ok[1]) /\ u2 = Attempt(u1, ok[2])
  OBVIOUS
<1>2. u = Attempt(u2, ok[3])
  BY <1>1
<1>3. ok[0] \in BOOLEAN /\ ok[1] \in BOOLEAN /\ ok[2] \in BOOLEAN /\ ok[3] \in BOOLEAN
  OBVIOUS
<1>4. RoundOK(u0)
  BY <1>1, <1>3, StartedOK
<1>5. RoundOK(u1)
  BY <1>1, <1>3, <1>4, AttemptOK
<1>6. /\ RoundOK(u2)
      /\ Wants(u2) # u2.asked => u2.snapshot = View(Ghostty, u2.asked)
  BY <1>1, <1>3, <1>5, AttemptOK
<1>7. /\ RoundOK(u)
      /\ Wants(u) # u.asked =>
            /\ Wants(u2) # u2.asked /\ u.asked = Wants(u2)
            /\ u.snapshot = View(Ghostty, u.asked)
  <2>1. PICK b \in BOOLEAN : b = ok[3]
    BY <1>3
  <2>2. RoundOK(u2) /\ u = Attempt(u2, b)
    BY <1>2, <1>6, <2>1
  <2> QED BY ONLY DiskOK, system \in Schemes, b \in BOOLEAN, <2>2, AttemptOK
<1>8. ASSUME Wants(u) # u.asked PROVE u.snapshot # NoSnapshot /\ ~Settles(u.snapshot.base)
  <2>1. PICK a \in Schemes, b \in Schemes : a = u.asked /\ b = u2.asked
    BY <1>6, <1>7 DEF RoundOK
  <2>2. u.snapshot = View(Ghostty, a) /\ u2.snapshot = View(Ghostty, b) /\ a # b
    BY <1>6, <1>7, <1>8, <2>1
  <2>3. /\ u.snapshot # NoSnapshot /\ u.snapshot.base = disk.base
        /\ LookOf(u.snapshot) = disk.base.looks[a] /\ LookOf(u2.snapshot) = disk.base.looks[b]
    BY <2>1, <2>2, Viewed
  <2>4. Resolved(disk.base.looks[a], system) # a /\ Resolved(disk.base.looks[b], system) # b
    BY <1>7, <1>8, <2>1, <2>2, <2>3 DEF Wants
  <2>5. Oscillates(disk.base, system)
    BY <2>1, <2>2, <2>4 DEF Oscillates, Schemes
  <2> QED BY <2>3, <2>5 DEF Settles
<1> QED BY <1>7, <1>8

LEMMA InitIInv == Init => IInv
<1> SUFFICES ASSUME Init PROVE IInv
  OBVIOUS
<1>0. PICK ok \in [0..3 -> BOOLEAN], frontend \in BOOLEAN :
          LET u == Attempt(Attempt(Attempt(Started(ok[0]), ok[1]), ok[2]), ok[3]) IN
          /\ asked = u.asked
          /\ scheme = Resolved(LookOf(u.snapshot), system)
          /\ snapshot = [s \in Services |->
                           IF s = Ghostty THEN u.snapshot
                           ELSE IF frontend THEN View(s, "any") ELSE NoSnapshot]
          /\ failure = [s \in Services |-> IF s = Ghostty THEN ~u.ok ELSE ~frontend]
  BY DEF Init
<1>1. PICK u :
          /\ u = Attempt(Attempt(Attempt(Started(ok[0]), ok[1]), ok[2]), ok[3])
          /\ asked = u.asked
          /\ scheme = Resolved(LookOf(u.snapshot), system)
          /\ snapshot = [s \in Services |->
                           IF s = Ghostty THEN u.snapshot
                           ELSE IF frontend THEN View(s, "any") ELSE NoSnapshot]
          /\ failure = [s \in Services |-> IF s = Ghostty THEN ~u.ok ELSE ~frontend]
  BY <1>0
<1>2. /\ disk \in [base : BaseContents, include : {1}, mixed : {1}]
      /\ changed = [s \in Services |-> FALSE]
      /\ system \in Schemes
      /\ load = [s \in Services |-> NoLoad]
      /\ svc = [s \in Services |-> [Idle EXCEPT !.retry = failure[s]]]
      /\ life = [pending |-> {}, announced |-> FALSE, completing |-> FALSE]
      /\ said = "READY"
      /\ unseen = [s \in Services |-> {}]
      /\ edits = 0 /\ requests = 0
  BY DEF Init
<1>3. DiskOK
  BY <1>2 DEF DiskOK
<1>4. RoundOK(u) /\ (scheme # asked => u.snapshot # NoSnapshot /\ ~Settles(u.snapshot.base))
  BY <1>1, <1>2, <1>3, GivesUp DEF Wants
<1>5. Ghostty \in Services /\ snapshot[Ghostty] = u.snapshot
  BY <1>1 DEF Services
<1>6. asked \in Schemes /\ scheme \in Schemes
  BY <1>1, <1>2, <1>4, LookTyped DEF RoundOK
<1>7. ASSUME NEW s \in Services
      PROVE  /\ snapshot[s] \in Snapshots(s) /\ failure[s] \in BOOLEAN
             /\ failure[s] \/ snapshot[s] = View(s, SchemeFor(s))
  <2>1. CASE s = Ghostty
    <3>1. failure[s] = ~u.ok /\ snapshot[s] = u.snapshot
      BY <1>1, <2>1
    <3>2. u.ok => u.snapshot = View(s, SchemeFor(s))
      BY <1>1, <1>4, <2>1 DEF RoundOK, SchemeFor
    <3> QED BY <1>4, <2>1, <3>1, <3>2 DEF RoundOK
  <2>2. CASE s # Ghostty
    <3>1. PICK v : v = View(s, "any")
      OBVIOUS
    <3>2. v \in Snapshots(s)
      BY <1>3, <2>2, <3>1 DEF DiskOK, View, Snapshots
    <3>3. failure[s] = ~frontend /\ snapshot[s] = IF frontend THEN v ELSE NoSnapshot
      BY <1>1, <2>2, <3>1
    <3>4. v = View(s, SchemeFor(s))
      BY <2>2, <3>1 DEF SchemeFor
    <3> QED BY <3>2, <3>3, <3>4, SnapshotTypes
  <2> QED BY <2>1, <2>2
<1>8. ASSUME NEW s \in Services
      PROVE  /\ svc[s] \in Flags /\ ~svc[s].debounce /\ ~svc[s].again
             /\ svc[s].retry = failure[s]
  <2>1. PICK b \in BOOLEAN : b = failure[s]
    BY <1>7
  <2>2. svc[s] = [Idle EXCEPT !.retry = b]
    BY <1>2, <2>1
  <2> QED BY <2>1, <2>2 DEF Idle, Flags
<1>9. ASSUME NEW s \in Services
      PROVE  /\ load[s] \in Loads /\ load[s].phase = "none" /\ load[s].result = NoSnapshot
             /\ load[s].result \in Snapshots(s)
  <2>1. SchemeFor(s) \in SchemesOf(s)
    BY <1>6 DEF SchemeFor, SchemesOf
  <2> QED BY <1>2, <2>1, NewLoads, SnapshotTypes
<1>10. TypeOK
  <2>1. svc \in [Services -> Flags] /\ load \in [Services -> Loads]
    BY <1>2, <1>8, <1>9
  <2>2. snapshot \in [Services -> AllSnapshots] /\ failure \in [Services -> BOOLEAN]
    BY <1>1, <1>7, SnapshotTypes
  <2>3. 0 \in 0..MaxEdits /\ 0 \in 0..MaxRequests
    BY ConfigAssumption
  <2>4. /\ changed \in [Services -> BOOLEAN] /\ unseen \in [Services -> SUBSET Files]
        /\ life \in Lives /\ said \in {"READY", "RELOADING"}
    BY <1>2 DEF Lives
  <2> QED BY <1>2, <1>3, <1>6, <1>7, <1>9, <2>1, <2>2, <2>3, <2>4
          DEF DiskOK, TypeOK, Flags, Loads, Lives
<1>11. ASSUME NEW s \in Services PROVE ServiceOK(s) /\ ~Unsettled(s)
  <2>1. ~Unsettled(s)
    BY <1>8, <1>9 DEF Unsettled
  <2>2. LoadOK(s) /\ ResultOK(s)
    BY <1>8, <1>9 DEF LoadOK, ResultOK
  <2>3. FailureOK(s) /\ CurrentOK(s)
    BY <1>7, <1>8, <2>1 DEF FailureOK, CurrentOK, Quiet, Current
  <2> QED BY <2>1, <2>2, <2>3 DEF ServiceOK
<1>12. LifeOK
  BY <1>2, <1>11 DEF LifeOK
<1>13. SchemeOK
  BY <1>1, <1>4, <1>5 DEF SchemeOK
<1> QED BY <1>10, <1>11, <1>12, <1>13 DEF IInv

LEMMA NextIInv == IInv /\ [Next]_vars => IInv'
<1> SUFFICES ASSUME IInv, [Next]_vars PROVE IInv'
  OBVIOUS
<1>1. CASE UNCHANGED vars
  <2>1. UNCHANGED <<disk, changed, svc, load, snapshot, failure, system, scheme, asked, life,
                    said, unseen, edits, requests>>
    BY <1>1 DEF vars, config, look
  <2>2. TypeOK'
    BY <2>1 DEF IInv, TypeOK
  <2>3. ASSUME NEW s \in Services PROVE ServiceOK(s)' /\ (Unsettled(s)' <=> Unsettled(s))
    <3>1. Untouched(s)
      BY <2>1 DEF Untouched, SchemeFor
    <3> QED BY <3>1, UntouchedOK DEF IInv
  <2>4. SchemeOK'
    BY <2>1, SchemeStays DEF IInv
  <2> QED BY <2>1, <2>2, <2>3, <2>4 DEF IInv, LifeOK
<1>2. CASE Next
  <2>1. ASSUME NEW f \in Files, Edit(f) PROVE IInv'
    BY <2>1, EditKeeps
  <2>2. ASSUME NEW s \in Services,
               FileChanged(s) \/ RetryDue(s) \/ Debounced(s) \/ Read(s) \/ Fails(s)
        PROVE  IInv'
    BY <2>2, FileChangedKeeps, RetryDueKeeps, DebouncedKeeps, ReadKeeps, FailsKeeps
  <2>3. ASSUME NEW s \in Services, LoadDropped(s) \/ LoadFailed(s) \/ LoadSucceeded(s)
        PROVE  IInv'
    BY <2>3, LoadDroppedKeeps, LoadFailedKeeps, LoadSucceededKeeps
  <2> QED
    BY <1>2, <2>1, <2>2, <2>3, ReloadRequestedKeeps, SystemSchemeChangedKeeps, VerifyKeeps,
       CompletionDueKeeps
    DEF Next
<1> QED BY <1>1, <1>2

LEMMA Invariance == Spec => []IInv
BY InitIInv, NextIInv, PTL DEF Spec

\* The services, their loads, the lifecycle and the appearance keep their types.
THEOREM TypeCorrect == Spec => []TypeOK
<1>1. IInv => TypeOK
  BY DEF IInv
<1> QED BY <1>1, Invariance, PTL

\* No change of the files or of the colour scheme is missed: a service without a
\* timer, a request or a load holds what a query would read for the scheme it is
\* asked for, unless nothing told it of the change; every failure shown has its
\* retry or a newer request.  The scheme in use is what the snapshot in use wants,
\* and the one asked for, but after startup gave up on a file that wants the other
\* scheme whichever it is loaded for (reconcileAppearance in app/main.cpp).
THEOREM NoChangeMissed == Spec => []QuietIsCurrent
<1>1. IInv => QuietIsCurrent
  BY DEF IInv, ServiceOK, FailureOK, CurrentOK, SchemeOK, QuietIsCurrent
<1> QED BY <1>1, Invariance, PTL

\* A load never publishes a snapshot for a colour scheme that is no longer asked
\* for (GhosttyConfigService::setColorScheme drops the one that runs).
THEOREM SchemesAreCurrent == Spec => NeverStaleScheme
<1>1. IInv /\ [Next]_vars =>
          [snapshot'[Ghostty] # snapshot[Ghostty] => snapshot'[Ghostty].scheme = asked]_vars
  <2> SUFFICES ASSUME IInv, [Next]_vars, snapshot'[Ghostty] # snapshot[Ghostty]
               PROVE  snapshot'[Ghostty].scheme = asked
    OBVIOUS
  <2>1. PICK s \in Services : LoadSucceeded(s)
    BY DEF Next, vars, config, Edit, FileChanged, ReloadRequested, SystemSchemeChanged, RetryDue,
           Debounced, Read, Verify, Fails, LoadDropped, LoadFailed, CompletionDue
  <2>2. /\ load[s].phase = "done" /\ load[s].fresh /\ load[s].result # NoSnapshot
        /\ snapshot' = [snapshot EXCEPT ![s] = load[s].result]
    BY <2>1 DEF LoadSucceeded
  <2>3. s = Ghostty /\ snapshot'[Ghostty] = load[Ghostty].result
    BY <2>2 DEF IInv, TypeOK
  <2>4. load[Ghostty].result.scheme = load[Ghostty].scheme
        /\ load[Ghostty].scheme = SchemeFor(Ghostty)
    BY <2>2, <2>3 DEF IInv, ServiceOK, LoadOK, ResultOK
  <2> QED BY <2>3, <2>4 DEF SchemeFor
<1> QED BY <1>1, Invariance, PTL DEF Spec, NeverStaleScheme

-----------------------------------------------------------------------------
(* The promise to the service manager *)

\* What the lifecycle waits for is what the abstract specification counts.
LEMMA Outstanding ==
    ASSUME IInv, IInv'
    PROVE  /\ {s \in Services : Unsettled(s)} = life.pending
           /\ {s \in Services : Unsettled(s)}' = life'.pending
           /\ life.announced <=> said = "RELOADING"
           /\ life'.announced <=> said' = "RELOADING"
           /\ said \in {"READY", "RELOADING"} /\ said' \in {"READY", "RELOADING"}
           /\ life \in Lives /\ life' \in Lives
<1>1. life \in Lives /\ life' \in Lives
  BY DEF IInv, TypeOK, Lives
<1>2. /\ {s \in Services : Unsettled(s)} = life.pending
      /\ {s \in Services : Unsettled(s)}' = life'.pending
  BY <1>1 DEF IInv, LifeOK, Lives
<1> QED BY <1>1, <1>2 DEF IInv, LifeOK, TypeOK

\* A step whose effect on what is outstanding and on the last message is that of
\* a request, of a settled load or of none of them.
Promised ==
    \/ \E S, settled \in SUBSET Services :
          /\ S # {} /\ life'.pending = (life.pending \ settled) \cup S
          /\ said' = "RELOADING"
    \/ \E s \in Services : life'.pending = life.pending \ {s} /\ said' = said
    \/ said = "RELOADING" /\ life.pending = {} /\ said' = "READY" /\ life'.pending = {}
    \/ life'.pending = life.pending /\ said' = said

LEMMA PromisedStep ==
    ASSUME IInv, IInv', Promised
    PROVE  [Service!Next]_Service!vars
BY Outstanding DEF Promised, Service!Next, Service!Request, Service!Settle, Service!Complete,
                   Service!vars

LEMMA RequestPromised ==
    ASSUME IInv, NEW S \in SUBSET Services, NEW R \in SUBSET S, Request(S, R)
    PROVE  Promised
<1>1. /\ life'.pending = life.pending \cup S
      /\ said' = IF S = {} \/ life.announced THEN said ELSE "RELOADING"
      /\ life.announced <=> said = "RELOADING"
  BY RequestEffect DEF IInv, LifeOK
<1>2. CASE S = {}
  BY <1>1, <1>2 DEF Promised
<1>3. CASE S # {}
  <2>1. life'.pending = (life.pending \ {}) \cup S /\ said' = "RELOADING"
    BY <1>1, <1>3
  <2>2. {} \in SUBSET Services
    OBVIOUS
  <2> QED BY <1>3, <2>1, <2>2 DEF Promised
<1> QED BY <1>2, <1>3

\* The callback of a load settles its service if it is of the newest request, and
\* a success whose look wants another scheme requests Ghostty's in the same event.
LEMMA CallbackPromised ==
    ASSUME IInv, NEW s \in Services,
           LoadDropped(s) \/ LoadFailed(s) \/ LoadSucceeded(s)
    PROVE  Promised
<1>1. load[s].phase = "done"
  BY DEF LoadDropped, LoadFailed, LoadSucceeded
<1>2. /\ load[s] \in Loads /\ life \in Lives /\ s \in life.pending
      /\ life.announced <=> said = "RELOADING"
  BY <1>1, CallbackFinds
<1>3. PICK newest \in BOOLEAN : newest = load[s].newest
  BY <1>2 DEF Loads
<1>4. PICK l : l = AfterSettled(life, s, newest)
  OBVIOUS
<1>5. /\ l \in Lives /\ l.announced = life.announced
      /\ l.pending = IF newest THEN life.pending \ {s} ELSE life.pending
  BY <1>2, <1>4, SettledEffect
<1>6. CASE LoadDropped(s) \/ LoadFailed(s)
  <2>1. life' = l /\ said' = said
    BY <1>3, <1>4, <1>6 DEF LoadDropped, LoadFailed
  <2> QED BY <1>5, <2>1 DEF Promised
<1>7. CASE LoadSucceeded(s)
  <2>1. PICK more \in SUBSET {Ghostty} :
            /\ life' = AfterScheduled(AfterSettled(life, s, load[s].newest), more)
            /\ Announce(more)
    BY <1>7, LoadSucceededEffect
  <2>2. more \in SUBSET Services
    BY DEF Services
  <2>3. life' = AfterScheduled(l, more)
    BY <1>3, <1>4, <2>1
  <2>4. /\ life'.pending = l.pending \cup more
        /\ said' = IF more = {} \/ life.announced THEN said ELSE "RELOADING"
    BY <1>5, <2>1, <2>2, <2>3, ScheduledEffect DEF Announce
  <2>5. CASE more = {}
    BY <1>5, <2>4, <2>5 DEF Promised
  <2>6. CASE more # {}
    <3>1. PICK settled \in SUBSET Services : settled = IF newest THEN {s} ELSE {}
      OBVIOUS
    <3>2. life'.pending = (life.pending \ settled) \cup more /\ said' = "RELOADING"
      BY <1>2, <1>5, <2>4, <2>6, <3>1
    <3> QED BY <2>2, <2>6, <3>2 DEF Promised
  <2> QED BY <2>5, <2>6
<1> QED BY <1>6, <1>7

\* systemd is told RELOADING with the first request and READY only when the newest
\* request of both services is settled: the messages that SystemdApplicationLifecycle
\* derives from the signals of the services are those of Readiness.
THEOREM ImplementsReadiness == Spec => ReadyIsTrue
<1>1. Init => Service!Init
  <2> SUFFICES ASSUME Init PROVE Service!Init
    OBVIOUS
  <2>1. IInv
    BY InitIInv
  <2>2. said = "READY" /\ life.pending = {}
    BY DEF Init
  <2>3. {s \in Services : Unsettled(s)} = {}
    BY <2>1, <2>2 DEF IInv, LifeOK
  <2> QED BY <2>2, <2>3 DEF Service!Init
<1>2. IInv /\ IInv' /\ [Next]_vars => [Service!Next]_Service!vars
  <2> SUFFICES ASSUME IInv, IInv', [Next]_vars PROVE Promised
    BY PromisedStep
  <2>1. CASE UNCHANGED vars
    BY <2>1 DEF vars, Promised
  <2>2. ASSUME NEW f \in Files, Edit(f) PROVE Promised
    BY <2>2 DEF Edit, Promised
  <2>3. ASSUME NEW s \in Services, FileChanged(s) \/ RetryDue(s) PROVE Promised
    <3>1. Request({s}, {}) /\ {s} \in SUBSET Services /\ {} \in SUBSET {s}
      BY <2>3 DEF FileChanged, RetryDue
    <3> QED BY <3>1, RequestPromised
  <2>4. ASSUME ReloadRequested PROVE Promised
    <3>1. Request(Services, {})
      BY <2>4 DEF ReloadRequested
    <3> QED BY <3>1, RequestPromised
  <2>5. ASSUME SystemSchemeChanged PROVE Promised
    <3>1. PICK next : Request(IF next # asked THEN {Ghostty} ELSE {}, Dropped(next))
      BY <2>5 DEF SystemSchemeChanged
    <3>2. PICK S : S = IF next # asked THEN {Ghostty} ELSE {}
      OBVIOUS
    <3>3. Request(S, S) /\ S \in SUBSET Services
      BY <3>1, <3>2 DEF Dropped, Services
    <3> QED BY <3>3, RequestPromised
  <2>6. ASSUME NEW s \in Services, Debounced(s) \/ Read(s) \/ Fails(s) PROVE Promised
    BY <2>6 DEF Debounced, Read, Fails, Promised
  <2>7. ASSUME Verify PROVE Promised
    BY <2>7 DEF Verify, Promised
  <2>8. ASSUME CompletionDue PROVE Promised
    <3>1. life \in Lives /\ (life.announced <=> said = "RELOADING")
      BY Outstanding
    <3>2. life'.pending = life.pending
      BY <2>8, <3>1 DEF CompletionDue, Lives
    <3>3. said' = said \/ (life.announced /\ life.pending = {} /\ said' = "READY")
      BY <2>8 DEF CompletionDue
    <3> QED BY <3>1, <3>2, <3>3 DEF Promised
  <2> QED BY <2>1, <2>2, <2>3, <2>4, <2>5, <2>6, <2>7, <2>8, CallbackPromised DEF Next
<1> QED BY <1>1, <1>2, Invariance, PTL DEF Spec, ReadyIsTrue, Service!Spec
=============================================================================
