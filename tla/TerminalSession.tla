--------------------------- MODULE TerminalSession ---------------------------
(***************************************************************************)
(* What a terminal session promises the pane that shows it, without        *)
(* threads, descriptors or notifiers: the child's output is shown in       *)
(* order, one end is announced after everything the child itself wrote has *)
(* been shown, a session that waits for a key is dismissed once, and       *)
(* nothing is announced once it has been torn down.                        *)
(***************************************************************************)
EXTENDS Naturals, Sequences

VARIABLES
    phase,    \* "starting", "running", "waiting", "ended", "dismissed", "gone"
    produced, \* chunks of output written to the terminal so far
    shown,    \* chunks of it the terminal has parsed
    signals   \* what the pane was told, in order: "exited", "dismissed"

vars == <<phase, produced, shown, signals>>

Init ==
    /\ phase = "starting"
    /\ produced = 0
    /\ shown = 0
    /\ signals = <<>>

\* The child is launched.
Launch ==
    /\ phase = "starting"
    /\ phase' = "running"
    /\ UNCHANGED <<produced, shown, signals>>

\* The child, or a job it left behind, writes.
Produce ==
    /\ produced' = produced + 1
    /\ UNCHANGED <<phase, shown, signals>>

\* Output is parsed: while the child runs, and unseen during teardown.
Show ==
    /\ phase \in {"running", "gone"}
    /\ shown' \in (shown + 1)..produced
    /\ UNCHANGED <<phase, produced, signals>>

\* A session that never launched ends at once.
Fail ==
    /\ phase = "starting"
    /\ phase' = "ended"
    /\ signals' = Append(signals, "exited")
    /\ UNCHANGED <<produced, shown>>

\* The child has exited: the rest of its output is shown with the announcement.
End ==
    /\ phase = "running"
    /\ phase' \in {"ended", "waiting"}
    /\ shown' = produced
    /\ signals' = Append(signals, "exited")
    /\ UNCHANGED produced

\* A key press dismisses a session that waits for one.
Dismiss ==
    /\ phase = "waiting"
    /\ phase' = "dismissed"
    /\ signals' = Append(signals, "dismissed")
    /\ UNCHANGED <<produced, shown>>

\* The pane is closed, or the application is gone.
TearDown ==
    /\ phase # "gone"
    /\ phase' = "gone"
    /\ UNCHANGED <<produced, shown, signals>>

Next ==
    \/ Launch \/ Produce \/ Show \/ Fail \/ End \/ Dismiss \/ TearDown

Spec == Init /\ [][Next]_vars
=============================================================================
