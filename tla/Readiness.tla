----------------------------- MODULE Readiness -----------------------------
(***************************************************************************)
(* What the service manager is told about reloads: RELOADING as soon as    *)
(* one is requested, and READY again only when the newest request of every *)
(* source has been settled.                                                *)
(***************************************************************************)
CONSTANT Sources

VARIABLES
    said,        \* the last message, "READY" or "RELOADING"
    outstanding  \* the sources whose newest request is not settled

vars == <<said, outstanding>>

Init == said = "READY" /\ outstanding = {}

\* One event may settle some sources and request others.
Request(S, settled) ==
    /\ S # {}
    /\ outstanding' = (outstanding \ settled) \cup S
    /\ said' = "RELOADING"

Settle(s) ==
    /\ outstanding' = outstanding \ {s}
    /\ UNCHANGED said

Complete ==
    /\ said = "RELOADING" /\ outstanding = {}
    /\ said' = "READY"
    /\ UNCHANGED outstanding

Next ==
    \/ \E S, settled \in SUBSET Sources : Request(S, settled)
    \/ \E s \in Sources : Settle(s)
    \/ Complete

Spec == Init /\ [][Next]_vars
=============================================================================
