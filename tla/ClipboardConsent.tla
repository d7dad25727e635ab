-------------------------- MODULE ClipboardConsent --------------------------
(***************************************************************************)
(* What an application running in a terminal is promised about its         *)
(* clipboard requests, and the user about theirs: a request ends once; it  *)
(* succeeds only when the pane's policy allows it without asking or the    *)
(* user agreed to it; and a pane that is being torn down is never left     *)
(* waiting.                                                                *)
(***************************************************************************)
CONSTANT Panes

VARIABLES
    asking,  \* the panes whose terminal waits for the end of a request
    free,    \* of these, the ones whose policy does not ask the user
    agreed,  \* of these, the ones whose request the user agreed to
    closing, \* the panes that are being torn down
    outcome  \* how each pane's last request ended

vars == <<asking, free, agreed, closing, outcome>>

Init ==
    /\ asking = {} /\ free = {} /\ agreed = {} /\ closing = {}
    /\ outcome = [p \in Panes |-> "none"]

Ask(p) ==
    /\ p \notin asking \cup closing
    /\ asking' = asking \cup {p}
    /\ free' \in {free, free \cup {p}}
    /\ outcome' = [outcome EXCEPT ![p] = "none"]
    /\ UNCHANGED <<agreed, closing>>

Agree(p) ==
    /\ p \in asking
    /\ agreed' = agreed \cup {p}
    /\ UNCHANGED <<asking, free, closing, outcome>>

\* Refusals need nobody's consent; "cancelled" is for the panes that close.
End(p, o) ==
    /\ p \in asking
    /\ o = "success" => p \in free \cup agreed
    /\ o = "cancelled" => p \in closing
    /\ asking' = asking \ {p}
    /\ free' = free \ {p}
    /\ agreed' = agreed \ {p}
    /\ outcome' = [outcome EXCEPT ![p] = o]
    /\ UNCHANGED closing

Close(P) ==
    /\ closing' = closing \cup P
    /\ UNCHANGED <<asking, free, agreed, outcome>>

Outcomes == {"success", "denied", "failed", "busy", "cancelled"}

Next ==
    \/ \E p \in Panes : Ask(p) \/ Agree(p)
    \/ \E p \in Panes, o \in Outcomes : End(p, o)
    \/ \E P \in SUBSET Panes : Close(P)

Spec == Init /\ [][Next]_vars
=============================================================================
