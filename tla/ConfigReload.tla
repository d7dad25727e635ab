---------------------------- MODULE ConfigReload ----------------------------
(***************************************************************************)
(* Live reload of the configuration: the two services that watch and load  *)
(* their files (config/ghostty_config_service.cpp and                      *)
(* config/frontend_config_service.cpp, one protocol written twice), the    *)
(* loader that queries its helper twice                                    *)
(* (config/ghostty_config_process_loader.cpp), the appearance that chooses *)
(* the colour scheme the configuration is loaded for                       *)
(* (app/application_appearance.cpp), the notifications to systemd          *)
(* (desktop/systemd_notify.cpp) and their connections (app/main.cpp).      *)
(*                                                                         *)
(* Everything but the worker of a load runs on the GUI thread; one action  *)
(* is one event it handles, the slots connected to its signals included.   *)
(* Request epochs and load generations are only ever compared with the     *)
(* newest one, so a load records whether it still is of the newest epoch   *)
(* and of the newest generation.                                           *)
(***************************************************************************)
EXTENDS Naturals

CONSTANTS
    Ghostty, Frontend, \* the services
    BaseContents,      \* contents of the standard Ghostty file: the look it
                       \* yields when it is loaded for either scheme, and
                       \* whether it names an included file
    MaxEdits,          \* bound: edits of the files
    MaxRequests        \* bound: explicit reloads and changes of the system's
                       \* colour scheme

Services == {Ghostty, Frontend}
Schemes == {"light", "dark"}
\* window-theme; "auto" stands for "ghostty" too, which differs in how the
\* windows are drawn.  The background is light or dark by its luminance.
Themes == {"auto", "system", "light", "dark"}
Looks == [theme : Themes, background : Schemes]
Files == {"base", "include", "mixed"}
NoSnapshot == [scheme |-> "none"]

ASSUME ConfigAssumption ==
    /\ Ghostty # Frontend
    /\ BaseContents \subseteq [looks : [Schemes -> Looks], includes : BOOLEAN]
    /\ MaxEdits \in Nat /\ MaxRequests \in Nat

VARIABLES
    disk,     \* the contents of the files
    changed,  \* per service: its watcher has an event in the queue
    svc,      \* per service: its timers and flags, see Idle
    load,     \* per service: the load of its worker, see NoLoad
    snapshot, \* per service: snapshot_
    failure,  \* per service: the failure the windows show
    system,   \* systemScheme_ of the appearance
    scheme,   \* colorScheme_ of the appearance
    asked,    \* colorScheme_ of the Ghostty service
    life,     \* SystemdApplicationLifecycle
    said,     \* the last message sent to systemd
    unseen,   \* history: files changed unwatched since the service last read
    edits, requests

config == <<svc, load, snapshot, failure>>
look == <<system, scheme, asked>>
vars == <<disk, changed, config, look, life, said, unseen, edits, requests>>

Idle == [debounce |-> FALSE, retry |-> FALSE, again |-> FALSE]
NoLoad == [phase |-> "none", newest |-> FALSE, fresh |-> FALSE,
           scheme |-> "any", result |-> NoSnapshot]

\* What a query reads of the files, and for which scheme.
View(s, c) ==
    IF s = Ghostty
    THEN [base |-> disk.base, mixed |-> disk.mixed, scheme |-> c,
          include |-> IF disk.base.includes THEN disk.include ELSE 0]
    ELSE [mixed |-> disk.mixed, scheme |-> c]

\* The files refreshWatchPaths() watches: the candidates, and once there is
\* a snapshot what it was read from.
Watched(s) ==
    IF s = Frontend THEN {"mixed"}
    ELSE {"base"} \cup
         (IF snapshot[s] = NoSnapshot THEN {}
          ELSE {"mixed"} \cup
               (IF snapshot[s].base.includes THEN {"include"} ELSE {}))

\* The look of a configuration, which may be another one for either scheme
\* (theme = light:...,dark:...), and the one without a configuration.
Builtin == [theme |-> "auto", background |-> "dark"]
LookOf(snap) == IF snap = NoSnapshot THEN Builtin ELSE snap.base.looks[snap.scheme]

\* The scheme a look asks for while the system's is sys.
Resolved(wanted, sys) ==
    CASE wanted.theme = "system" -> sys
      [] wanted.theme = "auto"   -> wanted.background
      [] OTHER                 -> wanted.theme

-----------------------------------------------------------------------------
(* Requests, and the lifecycle that is told about them.                    *)

SchemeFor(s) == IF s = Ghostty THEN asked ELSE "any"

\* requestReload(): a new epoch, the debounce timer and no retry any more.
\* The timer of a retry calls scheduleReload(), with the same effect.
Requested(r) == [r EXCEPT !.debounce = TRUE, !.retry = FALSE]

AfterScheduled(l, S) ==
    [l EXCEPT !.completing = @ /\ S = {},
              !.pending = @ \cup S,
              !.announced = @ \/ S # {}]

\* Mutant: a load settles its source whatever was requested since.
SettledByAny(l, s, newest) ==
    [l EXCEPT !.pending = @ \ {s},
              !.completing = @ \/ (l.pending \ {s} = {} /\ l.announced)]
AfterSettled(l, s, newest) ==
    IF s \in l.pending /\ newest
    THEN [l EXCEPT !.pending = @ \ {s},
                   !.completing = @ \/ (l.pending = {s} /\ l.announced)]
    ELSE l

Announce(S) == said' = IF S = {} \/ life.announced THEN said ELSE "RELOADING"

\* The services in S are asked to reload; those in R also drop the load that
\* runs, by its generation.
AfterRequest(S) ==
    [s \in Services |-> IF s \in S THEN Requested(svc[s]) ELSE svc[s]]
Superseded(S, R) ==
    [s \in Services |->
        IF s \in S THEN [load[s] EXCEPT !.newest = FALSE, !.fresh = @ /\ s \notin R]
        ELSE load[s]]

Request(S, R) ==
    /\ svc' = AfterRequest(S)
    /\ load' = Superseded(S, R)
    /\ life' = AfterScheduled(life, S)
    /\ Announce(S)

-----------------------------------------------------------------------------
(* Startup.                                                                *)

\* The service is made for the system's scheme and loads at once.
Started(ok) ==
    [snapshot |-> IF ok THEN View(Ghostty, system) ELSE NoSnapshot,
     asked |-> system, ok |-> ok]

\* One round of reconcileAppearance(true): when the look asks for another
\* scheme, the file is loaded again for that one, or that load fails.
Attempt(u, ok) ==
    LET c == Resolved(LookOf(u.snapshot), system) IN
    IF c = u.asked THEN u
    ELSE [snapshot |-> IF ok THEN View(Ghostty, c) ELSE u.snapshot,
          asked |-> c, ok |-> ok]

\* Startup gives up after three rounds, and applies the last look once more.
\* The application has then told systemd that it is ready.  (The files do not
\* change meanwhile.)
Init ==
    /\ disk \in [base : BaseContents, include : {1}, mixed : {1}]
    /\ changed = [s \in Services |-> FALSE]
    /\ system \in Schemes
    /\ load = [s \in Services |-> NoLoad]
    /\ \E ok \in [0..3 -> BOOLEAN], frontend \in BOOLEAN :
          LET u == Attempt(Attempt(Attempt(Started(ok[0]), ok[1]), ok[2]), ok[3]) IN
          /\ asked = u.asked
          /\ scheme = Resolved(LookOf(u.snapshot), system)
          /\ snapshot = [s \in Services |->
                           IF s = Ghostty THEN u.snapshot
                           ELSE IF frontend THEN View(s, "any") ELSE NoSnapshot]
          /\ failure = [s \in Services |-> IF s = Ghostty THEN ~u.ok ELSE ~frontend]
    /\ svc = [s \in Services |-> [Idle EXCEPT !.retry = failure[s]]]
    /\ life = [pending |-> {}, announced |-> FALSE, completing |-> FALSE]
    /\ said = "READY"
    /\ unseen = [s \in Services |-> {}]
    /\ edits = 0 /\ requests = 0

-----------------------------------------------------------------------------
(* What asks for a reload.                                                 *)

\* Somebody writes a file.  A service that watches it is told later on.
Edit(f) ==
    /\ edits < MaxEdits
    /\ edits' = edits + 1
    /\ \E v \in (IF f = "base" THEN BaseContents ELSE {1, 2}) \ {disk[f]} :
          disk' = [disk EXCEPT ![f] = v]
    /\ changed' = [s \in Services |-> changed[s] \/ f \in Watched(s)]
    /\ unseen' = [s \in Services |->
                    IF f \in Watched(s) THEN unseen[s] ELSE unseen[s] \cup {f}]
    /\ UNCHANGED <<config, look, life, said, requests>>

\* watchedPathChanged()
FileChanged(s) ==
    /\ changed[s]
    /\ changed' = [changed EXCEPT ![s] = FALSE]
    /\ Request({s}, {})
    /\ UNCHANGED <<disk, snapshot, failure, look, unseen, edits, requests>>

\* reload_config, SIGUSR2 or Retry in the diagnostics: both services.
ReloadRequested ==
    /\ requests < MaxRequests
    /\ requests' = requests + 1
    /\ Request(Services, {})
    /\ UNCHANGED <<disk, changed, snapshot, failure, look, unseen, edits>>

\* Mutant: the load that runs for the old scheme is kept.
KeepsLoad(c) == {}
\* setColorScheme() drops the load that runs at once.
Dropped(c) == IF c # asked THEN {Ghostty} ELSE {}

\* The desktop's colour scheme changes; nothing follows if the look in use does
\* not depend on it.
SystemSchemeChanged ==
    /\ requests < MaxRequests
    /\ requests' = requests + 1
    /\ \E c \in Schemes \ {system} :
          LET new  == Resolved(LookOf(snapshot[Ghostty]), c)
              next == IF new # scheme THEN new ELSE asked
          IN
          /\ system' = c
          /\ scheme' = new
          /\ asked' = next
          /\ Request(IF next # asked THEN {Ghostty} ELSE {}, Dropped(next))
    /\ UNCHANGED <<disk, changed, snapshot, failure, unseen, edits>>

\* The timer of a failed load: scheduleReload().
RetryDue(s) ==
    /\ svc[s].retry
    /\ Request({s}, {})
    /\ UNCHANGED <<disk, changed, snapshot, failure, look, unseen, edits, requests>>

-----------------------------------------------------------------------------
(* Loads.                                                                  *)

NewLoad(c) == [phase |-> "running", newest |-> TRUE, fresh |-> TRUE,
               scheme |-> c, result |-> NoSnapshot]

\* Mutant: a request that comes while a load runs is left to that load.
LeftToLoad(r) == [r EXCEPT !.debounce = FALSE]
Deferred(r) == [r EXCEPT !.debounce = FALSE, !.again = TRUE]

\* The debounce timer: beginAsyncReload().
Debounced(s) ==
    /\ svc[s].debounce
    /\ IF load[s].phase = "none"
       THEN /\ load' = [load EXCEPT ![s] = NewLoad(SchemeFor(s))]
            /\ svc' = [svc EXCEPT ![s].debounce = FALSE]
       ELSE /\ svc' = [svc EXCEPT ![s] = Deferred(@)]
            /\ UNCHANGED load
    /\ UNCHANGED <<disk, changed, snapshot, failure, look, life, said, unseen,
                   edits, requests>>

\* The worker reads the files.
Read(s) ==
    /\ load[s].phase = "running"
    /\ load' = [load EXCEPT ![s].phase = IF s = Ghostty THEN "read" ELSE "done",
                            ![s].result = View(s, load[s].scheme)]
    /\ unseen' = [unseen EXCEPT ![s] = {}]
    /\ UNCHANGED <<disk, changed, svc, snapshot, failure, look, life, said,
                   edits, requests>>

Verified(l) == IF View(Ghostty, l.scheme) = l.result THEN l.result ELSE NoSnapshot

\* It queries its helper a second time and compares the answers.
Verify ==
    /\ load[Ghostty].phase = "read"
    /\ load' = [load EXCEPT ![Ghostty].phase = "done",
                            ![Ghostty].result = Verified(load[Ghostty])]
    /\ UNCHANGED <<disk, changed, svc, snapshot, failure, look, life, said,
                   unseen, edits, requests>>

\* A file or an answer is malformed, or a query fails or times out.
Fails(s) ==
    /\ load[s].phase \in {"running", "read"}
    /\ load' = [load EXCEPT ![s].phase = "done", ![s].result = NoSnapshot]
    /\ UNCHANGED <<disk, changed, svc, snapshot, failure, look, life, said,
                   unseen, edits, requests>>

\* Mutant: no failure arms a retry.
NoRetry(r, newest) == r
AfterFailure(r, newest) == [r EXCEPT !.retry = @ \/ newest]

\* Once the result is handled, a request that waited is started at once.
\* R and L: the flags and loads as that handling leaves them.
BeginAgain(s, R, L, c) ==
    IF R[s].again
    THEN /\ svc' = [R EXCEPT ![s].again = FALSE, ![s].debounce = FALSE]
         /\ load' = [L EXCEPT ![s] = NewLoad(c)]
    ELSE /\ svc' = R
         /\ load' = [L EXCEPT ![s] = NoLoad]

\* The queued callback of a load of a generation that was superseded.
LoadDropped(s) ==
    /\ load[s].phase = "done" /\ ~load[s].fresh
    /\ life' = AfterSettled(life, s, load[s].newest)
    /\ BeginAgain(s, svc, load, SchemeFor(s))
    /\ UNCHANGED <<disk, changed, snapshot, failure, look, said, unseen, edits,
                   requests>>

\* ... of a load that failed: the snapshot stays.
LoadFailed(s) ==
    /\ load[s].phase = "done" /\ load[s].fresh
    /\ load[s].result = NoSnapshot
    /\ failure' = [failure EXCEPT ![s] = TRUE]
    /\ life' = AfterSettled(life, s, load[s].newest)
    /\ BeginAgain(s, [svc EXCEPT ![s] = AfterFailure(@, load[s].newest)], load,
                  SchemeFor(s))
    /\ UNCHANGED <<disk, changed, snapshot, look, said, unseen, edits, requests>>

\* ... of a load that succeeded.  The application applies the options of both
\* services; when their look asks for another colour scheme than Ghostty's
\* configuration was loaded for, that is loaded again.
LoadSucceeded(s) ==
    LET loaded == [snapshot EXCEPT ![s] = load[s].result]
        new    == Resolved(LookOf(loaded[Ghostty]), system)
        more   == IF new # asked THEN {Ghostty} ELSE {}
    IN
    /\ load[s].phase = "done" /\ load[s].fresh
    /\ load[s].result # NoSnapshot
    /\ snapshot' = loaded
    /\ failure' = [failure EXCEPT ![s] = FALSE]
    /\ scheme' = new /\ asked' = new
    /\ life' = AfterScheduled(AfterSettled(life, s, load[s].newest), more)
    /\ Announce(more)
    /\ BeginAgain(s, [AfterRequest(more) EXCEPT ![s].retry = FALSE],
                  Superseded(more, Dropped(new)), IF s = Ghostty THEN new ELSE "any")
    /\ UNCHANGED <<disk, changed, system, unseen, edits, requests>>

\* The zero timer that ends an announced reload.
CompletionDue ==
    /\ life.completing
    /\ IF life.pending = {} /\ life.announced
       THEN /\ said' = "READY"
            /\ life' = [life EXCEPT !.completing = FALSE, !.announced = FALSE]
       ELSE /\ life' = [life EXCEPT !.completing = FALSE]
            /\ UNCHANGED said
    /\ UNCHANGED <<disk, changed, config, look, unseen, edits, requests>>

Next ==
    \/ \E f \in Files : Edit(f)
    \/ ReloadRequested \/ SystemSchemeChanged
    \/ \E s \in Services :
          \/ FileChanged(s) \/ RetryDue(s) \/ Debounced(s)
          \/ Read(s) \/ Fails(s)
          \/ LoadDropped(s) \/ LoadFailed(s) \/ LoadSucceeded(s)
    \/ Verify
    \/ CompletionDue

Spec == Init /\ [][Next]_vars

\* The GUI thread handles its events and timers, and workers go on.  Loads do
\* not fail for good.  A retry comes seconds or minutes later, so it does not
\* always come before the completion that is due at once.
FairSpec ==
    /\ Spec
    /\ \A s \in Services :
          /\ WF_vars(FileChanged(s)) /\ WF_vars(RetryDue(s))
          /\ WF_vars(Debounced(s)) /\ SF_vars(Read(s))
          /\ WF_vars(LoadDropped(s)) /\ WF_vars(LoadFailed(s))
          /\ WF_vars(LoadSucceeded(s))
    /\ SF_vars(Verify)
    /\ SF_vars(CompletionDue)

-----------------------------------------------------------------------------
Snapshots(s) ==
    {NoSnapshot} \cup
    (IF s = Ghostty
     THEN [base : BaseContents, mixed : {1, 2}, include : 0..2, scheme : Schemes]
     ELSE [mixed : {1, 2}, scheme : {"any"}])

AllSnapshots == UNION {Snapshots(s) : s \in Services}

TypeOK ==
    /\ disk \in [base : BaseContents, include : {1, 2}, mixed : {1, 2}]
    /\ changed \in [Services -> BOOLEAN]
    /\ svc \in [Services -> [debounce : BOOLEAN, retry : BOOLEAN, again : BOOLEAN]]
    /\ load \in [Services -> [phase : {"none", "running", "read", "done"},
                              newest : BOOLEAN, fresh : BOOLEAN,
                              scheme : Schemes \cup {"any"}, result : AllSnapshots]]
    /\ snapshot \in [Services -> AllSnapshots]
    /\ \A s \in Services : {load[s].result, snapshot[s]} \subseteq Snapshots(s)
    /\ failure \in [Services -> BOOLEAN]
    /\ system \in Schemes /\ scheme \in Schemes /\ asked \in Schemes
    /\ life \in [pending : SUBSET Services, announced : BOOLEAN,
                 completing : BOOLEAN]
    /\ said \in {"READY", "RELOADING"}
    /\ unseen \in [Services -> SUBSET Files]
    /\ edits \in 0..MaxEdits /\ requests \in 0..MaxRequests

\* The newest request of a service is not settled yet.
Unsettled(s) ==
    svc[s].debounce \/ svc[s].again \/ (load[s].phase # "none" /\ load[s].newest)

\* The snapshot is what a query would read now, unless a file changed that
\* the service did not know of yet.
Current(s) == snapshot[s] = View(s, SchemeFor(s)) \/ unseen[s] # {}

\* A file that asks for the other scheme whichever it is loaded for: each load
\* of it requests the next one.
Oscillates(base, sys) == \A c \in Schemes : Resolved(base.looks[c], sys) # c
Settles(base) == \A sys \in Schemes : ~Oscillates(base, sys)

Quiet(s) == ~(changed[s] \/ svc[s].retry \/ Unsettled(s))

\* A service that has nothing left to do holds the current contents of the
\* files for the scheme it is asked for, whatever was edited, requested or
\* superseded while it loaded.  A failure the windows show is about to be
\* retried, by the timer or by a newer request but not by both.  The windows
\* use the scheme that the snapshot in use asks for; the service was asked for
\* another one only where startup gave up on a file that oscillates.
QuietIsCurrent ==
    /\ \A s \in Services :
          /\ failure[s] => svc[s].retry \/ Unsettled(s)
          /\ svc[s].retry => failure[s] /\ ~Unsettled(s)
          /\ Quiet(s) => Current(s)
    /\ scheme = Resolved(LookOf(snapshot[Ghostty]), system)
    /\ asked # scheme => snapshot[Ghostty] # NoSnapshot /\ ~Settles(snapshot[Ghostty].base)

\* "A blocked load must never publish a snapshot for a color scheme that is
\* no longer current": what a load publishes was read for the scheme that
\* the service is asked for when it publishes it.
NeverStaleScheme ==
    [][snapshot'[Ghostty] # snapshot[Ghostty] =>
         snapshot'[Ghostty].scheme = asked]_vars

\* systemd is told RELOADING with the first request, and READY only when the
\* newest request of both services is settled, although the lifecycle sees
\* nothing but the signals of requests and results.
Service == INSTANCE Readiness WITH
    Sources <- Services,
    outstanding <- {s \in Services : Unsettled(s)}
ReadyIsTrue == Service!Spec

\* When nothing changes any more and the standard file does not oscillate, the
\* configuration in use becomes that of the files for the scheme the windows use,
\* and systemd is told that the reload is over.
Converges ==
    <>[]Settles(disk.base) =>
        <>[](/\ said = "READY" /\ asked = scheme
             /\ \A s \in Services : Current(s) /\ ~failure[s])
=============================================================================
