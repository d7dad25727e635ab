---------------------------- MODULE QuitProtocol ----------------------------
(***************************************************************************)
(* What quitting promises to the rest of the application: windows open     *)
(* only while nobody has asked to quit, an accepted quit is never taken    *)
(* back, and the event loop ends only when no window is left.              *)
(***************************************************************************)
CONSTANT Windows
VARIABLES phase, open

Init == phase = "running" /\ open \in SUBSET Windows

OpenWindow(w) ==
    /\ phase = "running" /\ w \notin open
    /\ open' = open \cup {w} /\ UNCHANGED phase
CloseWindow(w) == w \in open /\ open' = open \ {w} /\ UNCHANGED phase
Ask == phase = "running" /\ phase' = "asking" /\ UNCHANGED open
Withdraw == phase = "asking" /\ phase' = "running" /\ UNCHANGED open
Accept == phase \in {"running", "asking"} /\ phase' = "closing" /\ UNCHANGED open
Finish == open = {} /\ phase # "quit" /\ phase' = "quit" /\ UNCHANGED open
\* The last window goes and the application with it, in one event.
CloseLast(w) == phase = "closing" /\ open = {w} /\ open' = {} /\ phase' = "quit"

Next == \/ \E w \in Windows : OpenWindow(w) \/ CloseWindow(w) \/ CloseLast(w)
        \/ Ask \/ Withdraw \/ Accept \/ Finish
Spec == Init /\ [][Next]_<<phase, open>>
=============================================================================
