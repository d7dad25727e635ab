------------------------ MODULE MCClipboardRequests ------------------------
(* Values for TLC: one pane makes two small requests, the others make one  *)
(* that may be larger than a queue takes.                                  *)
EXTENDS ClipboardRequests

Busiest == CHOOSE p \in Panes : TRUE

MCSizes == [p \in Panes |-> IF p = Busiest THEN {1} ELSE {1, 3}]
MCMaxRequests == [p \in Panes |-> IF p = Busiest THEN 2 ELSE 1]
=============================================================================
