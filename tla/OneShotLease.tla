---------------------------- MODULE OneShotLease ----------------------------
(***************************************************************************)
(* What the initial-session coordinator promises the application: the      *)
(* launch command is one lease.  A claimant holds it while its terminal    *)
(* initialises; success spends it for good, failure or withdrawal returns  *)
(* it for another claimant.  No queue, ticket or notification appears.     *)
(***************************************************************************)
CONSTANT Controllers

VARIABLES
    lease,  \* "free", "held" or "spent"
    owner,  \* who holds it, or who spent it
    user    \* who runs the launch command: a set of at most one controller

vars == <<lease, owner, user>>

Init ==
    /\ lease = "free"
    /\ owner = {}
    /\ user = {}

\* A claimant takes a free lease.
Take(c) ==
    /\ lease = "free"
    /\ lease' = "held"
    /\ owner' = {c}
    /\ UNCHANGED user

\* The holder returns it; the next claimant may take it in the same step.
Return ==
    /\ lease = "held"
    /\ \/ lease' = "free" /\ owner' = {}
       \/ lease' = "held" /\ \E c \in Controllers : owner' = {c}
    /\ UNCHANGED user

\* The holder's terminal is up: the lease is spent for good.
Spend(c) ==
    /\ lease = "held" /\ owner = {c}
    /\ lease' = "spent"
    /\ user' = {c}
    /\ UNCHANGED owner

Next ==
    \/ Return
    \/ \E c \in Controllers : Take(c) \/ Spend(c)

Spec == Init /\ [][Next]_vars
=============================================================================
