--------------------------- MODULE InitialSession ---------------------------
(***************************************************************************)
(* The first terminal session of the application: InitialSessionCoordina-  *)
(* tor (session/initial_session_coordinator.cpp) and the part of every     *)
(* TerminalController that asks it whether its session runs the launch     *)
(* command (session/terminal_controller.cpp).                              *)
(*                                                                         *)
(* The coordinator is shared under a mutex: controllers call it on the GUI *)
(* thread, their workers commit or release from the worker threads.  Its   *)
(* requestsChanged signal is queued and coalesced, and is relayed to every *)
(* controller by a second queued event, so a controller polls its own      *)
(* ticket some time after the state it depends on has changed.             *)
(*                                                                         *)
(* A controller asks for at most one ticket in its life, so a ticket is    *)
(* its controller; `ticket' is the number the ticket was issued with, and  *)
(* the deque of waiters is the set of them, oldest ticket first.           *)
(* The specification is LeaseSpec: SessionProofs extends this module and   *)
(* SessionLifecycle together.                                              *)
(***************************************************************************)
EXTENDS Naturals, FiniteSets

CONSTANTS
    Controllers,  \* every controller the application ever creates
    Payloads,     \* launch payloads (program, command, hold)
    NoPayload     \* an empty std::optional<Payload>

ASSUME InitialSessionAssumption == NoPayload \notin Payloads

VARIABLES
    state,          \* state_
    holder,         \* holder_: a set of at most one controller
    holderPayload,  \* holderPayload_
    payload,        \* payload_
    waiters,        \* waiters_
    ticket,         \* the number of each controller's ticket, 0 for none
    lastTicket,     \* lastTicketValue_
    resolved,       \* consumedTicketValues_
    notifying,      \* notificationPending_: requestsChanged is queued
    polls,          \* controllers with a queued tryStartSession
    start,          \* sessionStartState_
    claim,          \* initialSessionTicket_.has_value()
    worker,         \* the worker: not made, initialising, up or failed
    launch          \* what the controller launched with, NoPayload otherwise

lease == <<state, holder, holderPayload, waiters, resolved, notifying>>
lease_vars ==
    <<state, holder, holderPayload, payload, waiters, ticket, lastTicket,
      resolved, notifying, polls, start, claim, worker, launch>>

LeaseInit ==
    /\ state = "Available"
    /\ holder = {}
    /\ holderPayload = NoPayload
    /\ payload \in Payloads
    /\ waiters = {}
    /\ ticket = [c \in Controllers |-> 0]
    /\ lastTicket = 0
    /\ resolved = {}
    /\ notifying = FALSE
    /\ polls = {}
    /\ start = [c \in Controllers |-> "Idle"]
    /\ claim = [c \in Controllers |-> FALSE]
    /\ worker = [c \in Controllers |-> "none"]
    /\ launch = [c \in Controllers |-> NoPayload]

-----------------------------------------------------------------------------
(* The coordinator, each operation under its mutex *)

\* Mutant: any waiter may be promoted.
AnyWaiter(c) == c \in waiters

\* The waiter at the front of the deque.
Oldest(c) == c \in waiters /\ \A d \in waiters : ticket[c] <= ticket[d]

\* Mutant: promotion is not announced.
RemoveSilently(c) ==
    /\ c \in holder \union waiters
    /\ IF c \in holder
       THEN \/ /\ waiters = {}
               /\ state' = "Available" /\ holder' = {} /\ holderPayload' = NoPayload
               /\ UNCHANGED waiters
            \/ \E w \in waiters :
                  /\ Oldest(w)
                  /\ holder' = {w} /\ holderPayload' = payload
                  /\ waiters' = waiters \ {w}
                  /\ UNCHANGED state
       ELSE /\ waiters' = waiters \ {c}
            /\ UNCHANGED <<state, holder, holderPayload>>
    /\ UNCHANGED <<resolved, notifying>>

\* release() and cancel(): remove() of a known ticket.  Losing the holder
\* promotes the oldest waiter with the payload of the moment.
Remove(c) ==
    /\ c \in holder \union waiters
    /\ IF c \in holder
       THEN /\ \/ /\ waiters = {}
                  /\ state' = "Available"
                  /\ holder' = {}
                  /\ holderPayload' = NoPayload
                  /\ UNCHANGED waiters
               \/ \E w \in waiters :
                     /\ Oldest(w)
                     /\ holder' = {w}
                     /\ holderPayload' = payload
                     /\ waiters' = waiters \ {w}
                     /\ UNCHANGED state
            /\ notifying' = TRUE
       ELSE /\ waiters' = waiters \ {c}
            /\ UNCHANGED <<state, holder, holderPayload, notifying>>
    /\ UNCHANGED resolved

\* commit(), which resolves every waiter.
Commit(c) ==
    /\ state = "Reserved" /\ c \in holder
    /\ state' = "Consumed"
    /\ resolved' = resolved \union holder \union waiters
    /\ holder' = {}
    /\ holderPayload' = NoPayload
    /\ waiters' = {}
    /\ notifying' = TRUE

\* cancelInitialSessionRequest() of a controller; a ticket that is already
\* resolved is only forgotten.
Withdraw(c) ==
    /\ claim' = [claim EXCEPT ![c] = FALSE]
    /\ IF claim[c] /\ state # "Consumed" /\ c \in holder \union waiters
       THEN Remove(c)
       ELSE UNCHANGED lease

-----------------------------------------------------------------------------
(* A controller, on the GUI thread *)

\* tryStartSession goes on to create the worker, with the launch payload p or
\* with the controller's own command.
Launch(c, p) ==
    /\ start' = [start EXCEPT ![c] = "Started"]
    /\ worker' = [worker EXCEPT ![c] = "starting"]
    /\ launch' = [launch EXCEPT ![c] = p]

\* request() with no ticket yet.
FirstRequest(c) ==
    /\ ~claim[c]
    /\ \/ /\ state = "Consumed"
          /\ Launch(c, NoPayload)
          /\ UNCHANGED <<lease, ticket, lastTicket, claim>>
       \/ /\ state # "Consumed"
          /\ lastTicket' = lastTicket + 1
          /\ ticket' = [ticket EXCEPT ![c] = lastTicket + 1]
          /\ claim' = [claim EXCEPT ![c] = TRUE]
          /\ \/ /\ state = "Available"
                /\ state' = "Reserved"
                /\ holder' = {c}
                /\ holderPayload' = payload
                /\ Launch(c, payload)
                /\ UNCHANGED <<waiters, resolved, notifying>>
             \/ /\ state = "Reserved"
                /\ waiters' = waiters \union {c}
                /\ start' = [start EXCEPT ![c] = "WaitingForLease"]
                /\ UNCHANGED <<state, holder, holderPayload, resolved,
                               notifying, worker, launch>>

\* Mutant: a waiter that polls after the lease was spent keeps waiting.
PollIgnoresConsumed(c) ==
    /\ claim[c]
    /\ \/ /\ c \in holder /\ holderPayload # NoPayload
          /\ Launch(c, holderPayload)
          /\ UNCHANGED <<lease, claim>>
       \/ /\ c \notin holder
          /\ UNCHANGED <<lease, claim, start, worker, launch>>
    /\ UNCHANGED <<ticket, lastTicket>>

\* request() with a ticket: granted, still waiting, consumed, or invalid.  A
\* grant without a payload and an invalid ticket end in an error.
Poll(c) ==
    /\ claim[c]
    /\ \/ /\ c \in holder /\ holderPayload # NoPayload
          /\ Launch(c, holderPayload)
          /\ UNCHANGED <<lease, claim>>
       \/ /\ c \in holder /\ holderPayload = NoPayload
          /\ start' = [start EXCEPT ![c] = "Broken"]
          /\ Withdraw(c)
          /\ UNCHANGED <<worker, launch>>
       \/ /\ c \in waiters
          /\ UNCHANGED <<lease, claim, start, worker, launch>>
       \/ /\ c \notin holder \union waiters
          /\ state = "Consumed" /\ c \in resolved
          /\ Launch(c, NoPayload)
          /\ claim' = [claim EXCEPT ![c] = FALSE]
          /\ UNCHANGED lease
       \/ /\ c \notin holder \union waiters
          /\ ~(state = "Consumed" /\ c \in resolved)
          /\ start' = [start EXCEPT ![c] = "Broken"]
          /\ Withdraw(c)
          /\ UNCHANGED <<worker, launch>>
    /\ UNCHANGED <<ticket, lastTicket>>

\* startSession, which runs tryStartSession at once.
StartSession(c) ==
    /\ start[c] = "Idle"
    /\ FirstRequest(c)
    /\ UNCHANGED <<payload, polls>>

\* The queued requestsChanged: clear the flag, relay to every controller.
RequestsChanged ==
    /\ notifying
    /\ notifying' = FALSE
    /\ polls' = polls \union {c \in Controllers : start[c] # "Destroyed"}
    /\ UNCHANGED <<state, holder, holderPayload, payload, waiters, ticket,
                   lastTicket, resolved, start, claim, worker, launch>>

\* The relayed tryStartSession; it returns at once unless the controller waits.
TryStartSession(c) ==
    /\ c \in polls
    /\ polls' = polls \ {c}
    /\ IF start[c] = "WaitingForLease"
       THEN Poll(c)
       ELSE UNCHANGED <<lease, ticket, lastTicket, start, claim, worker, launch>>
    /\ UNCHANGED payload

\* beginShutdown of a controller that has not started.
BeginShutdown(c) ==
    /\ start[c] \in {"Idle", "WaitingForLease"}
    /\ start' = [start EXCEPT ![c] = "Cancelled"]
    /\ Withdraw(c)
    /\ UNCHANGED <<payload, ticket, lastTicket, polls, worker, launch>>

\* The destructor: it blocks until a started worker has initialised.
Destroy(c) ==
    /\ start[c] # "Destroyed"
    /\ worker[c] # "starting"
    /\ start' = [start EXCEPT ![c] = "Destroyed"]
    /\ polls' = polls \ {c}
    /\ Withdraw(c)
    /\ UNCHANGED <<payload, ticket, lastTicket, worker, launch>>

\* A configuration reload: updatePayload() refuses only a consumed state.
UpdatePayload(p) ==
    /\ state # "Consumed" /\ p # payload
    /\ payload' = p
    /\ UNCHANGED <<state, holder, holderPayload, waiters, ticket, lastTicket,
                   resolved, notifying, polls, start, claim, worker, launch>>

-----------------------------------------------------------------------------
(* A worker, on its thread *)

\* Mutant: a failed initialisation keeps its reservation.
InitializeKeepsLease(c, ok) ==
    /\ worker[c] = "starting"
    /\ worker' = [worker EXCEPT ![c] = IF ok THEN "up" ELSE "failed"]
    /\ IF claim[c] /\ ok THEN Commit(c) ELSE UNCHANGED lease
    /\ UNCHANGED <<payload, ticket, lastTicket, polls, start, claim, launch>>

\* Mutant: the lease is spent whether or not the terminal came up.
InitializeCommits(c, ok) ==
    /\ worker[c] = "starting"
    /\ worker' = [worker EXCEPT ![c] = IF ok THEN "up" ELSE "failed"]
    /\ IF claim[c] THEN Commit(c) ELSE UNCHANGED lease
    /\ UNCHANGED <<payload, ticket, lastTicket, polls, start, claim, launch>>

\* initialize() reports whether the terminal came up; the observer commits or
\* releases the ticket the controller was created with.
InitializeWorker(c, ok) ==
    /\ worker[c] = "starting"
    /\ worker' = [worker EXCEPT ![c] = IF ok THEN "up" ELSE "failed"]
    /\ IF claim[c]
       THEN IF ok THEN Commit(c) ELSE Remove(c)
       ELSE UNCHANGED lease
    /\ UNCHANGED <<payload, ticket, lastTicket, polls, start, claim, launch>>

LeaseNext ==
    \/ RequestsChanged
    \/ \E p \in Payloads : UpdatePayload(p)
    \/ \E c \in Controllers :
          \/ StartSession(c) \/ TryStartSession(c)
          \/ BeginShutdown(c) \/ Destroy(c)
          \/ \E ok \in BOOLEAN : InitializeWorker(c, ok)

LeaseSpec == LeaseInit /\ [][LeaseNext]_lease_vars

\* Both event loops turn and terminal initialisation returns.
LeaseFairness ==
    /\ WF_lease_vars(RequestsChanged)
    /\ \A c \in Controllers : WF_lease_vars(TryStartSession(c))
    /\ \A c \in Controllers : WF_lease_vars(\E ok \in BOOLEAN : InitializeWorker(c, ok))

LeaseFairSpec == LeaseSpec /\ LeaseFairness

-----------------------------------------------------------------------------
LeaseTypeOK ==
    /\ state \in {"Available", "Reserved", "Consumed"}
    /\ holder \in SUBSET Controllers /\ \A c, d \in holder : c = d
    /\ holderPayload \in Payloads \union {NoPayload}
    /\ payload \in Payloads
    /\ waiters \in SUBSET Controllers
    /\ ticket \in [Controllers -> Nat]
    /\ lastTicket \in Nat
    /\ resolved \in SUBSET Controllers
    /\ notifying \in BOOLEAN
    /\ polls \in SUBSET Controllers
    /\ start \in [Controllers -> {"Idle", "WaitingForLease", "Started",
                                  "Cancelled", "Broken", "Destroyed"}]
    /\ claim \in [Controllers -> BOOLEAN]
    /\ worker \in [Controllers -> {"none", "starting", "up", "failed"}]
    /\ launch \in [Controllers -> Payloads \union {NoPayload}]

\* Controllers that run the launch command in a terminal that came up.
Users == {c \in Controllers : launch[c] # NoPayload /\ worker[c] = "up"}

\* "concurrent or deferred panes cannot consume the same initial command": two
\* sessions never run the launch command, not even while one initialises.
OneConsumer ==
    \A c, d \in Controllers :
        /\ launch[c] # NoPayload /\ worker[c] \in {"starting", "up"}
        /\ launch[d] # NoPayload /\ worker[d] \in {"starting", "up"}
        => c = d

\* A controller that waits for a ticket which has become granted or consumed
\* is about to be told: the coalesced notification is never lost.
NoLostNotification ==
    \A c \in Controllers :
        start[c] = "WaitingForLease" /\ c \notin waiters
            => notifying \/ c \in polls

\* The worker's commit or release always finds its ticket (the assertion in
\* TerminalController::createWorkerRuntime), and no ticket becomes invalid or
\* is granted without a payload.
LeaseNeverBroken ==
    \A c \in Controllers :
        /\ start[c] # "Broken"
        /\ worker[c] = "starting" /\ claim[c] => state = "Reserved" /\ c \in holder

\* The lease is not leaked: a reservation has a controller that is starting or
\* about to start, so nobody waits behind a holder that is gone.
ReservationLive ==
    \A c \in holder :
        \/ worker[c] = "starting"
        \/ start[c] = "WaitingForLease" /\ (notifying \/ c \in polls)

\* The lease is neither broken nor leaked.
LeaseSafe == LeaseNeverBroken /\ ReservationLive

\* A granted holder keeps its snapshot: what it launches with is the payload
\* at the moment it became the holder, whatever is reloaded meanwhile; and
\* while nobody has been granted the lease nobody launches anything with it.
SnapshotImmutable ==
    [][\A c \in Controllers :
          launch[c] # launch'[c] =>
              launch'[c] = IF c \in holder THEN holderPayload ELSE payload]_lease_vars

\* The promoted waiter gets the payload of the moment of its promotion.
PromotionIsCurrent ==
    [][\A c \in Controllers :
          c \in holder' /\ c \notin holder => holderPayload' = payload]_lease_vars

\* FIFO: a grant never overtakes an older waiter.
GrantsInOrder ==
    [][\A c \in Controllers :
          c \in holder' /\ c \notin holder =>
              \A w \in waiters : ticket'[c] <= ticket[w]]_lease_vars

\* What is granted, and to whom, does not depend on when the configuration is
\* reloaded or who else comes and goes.
GrantsSound == SnapshotImmutable /\ PromotionIsCurrent /\ GrantsInOrder

\* The protocol implements the one-shot lease.
Lease == INSTANCE OneShotLease WITH
             lease <- CASE state = "Available" -> "free"
                        [] state = "Reserved" -> "held"
                        [] OTHER -> "spent",
             owner <- IF state = "Consumed" THEN Users ELSE holder,
             user <- Users

ImplementsLease == Lease!Spec

\* Every deferred session eventually starts, unless it is closed first.
WaitersResolved ==
    \A c \in Controllers :
        (start[c] = "WaitingForLease") ~> (start[c] # "WaitingForLease")
=============================================================================
