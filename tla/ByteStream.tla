----------------------------- MODULE ByteStream -----------------------------
(***************************************************************************)
(* What the session worker promises of the byte path to the child: one     *)
(* stream.  Bytes are numbered 1, 2, 3, ... in the order the worker hands  *)
(* them over; the child sees a growing sequence of them; what is handed    *)
(* over and not yet seen is `inflight'.  The only losses are the tail that *)
(* a hard write error discards and what is still in flight when the PTY is *)
(* closed.  No buffer, notifier or retry appears here.                     *)
(***************************************************************************)
EXTENDS Naturals, Sequences

CONSTANT MaxSent  \* bound: bytes handed over in a behaviour

VARIABLES
    phase,      \* "none" before the PTY exists, then "open", then "closed"
    sent,       \* how many bytes have been handed over
    delivered,  \* the bytes the kernel has accepted for the child, in order
    inflight,   \* handed over, not accepted yet
    failed      \* a hard write error has discarded bytes

vars == <<phase, sent, delivered, inflight, failed>>

\* The n bytes handed over next.
Fresh(n) == [i \in 1..n |-> sent + i]

Init ==
    /\ phase = "none"
    /\ sent = 0
    /\ delivered = <<>>
    /\ inflight = <<>>
    /\ failed = FALSE

Open ==
    /\ phase = "none"
    /\ phase' = "open"
    /\ UNCHANGED <<sent, delivered, inflight, failed>>

\* n more bytes are handed over (n = 0 for a retry) and the first k bytes of
\* what is then in flight reach the child.
Transfer(n, k) ==
    LET pipe == inflight \o Fresh(n)
    IN  /\ phase = "open"
        /\ k <= Len(pipe)
        /\ sent' = sent + n
        /\ delivered' = delivered \o SubSeq(pipe, 1, k)
        /\ inflight' = SubSeq(pipe, k + 1, Len(pipe))
        /\ UNCHANGED <<phase, failed>>

\* The same step ends in a hard error, which discards the rest.
Break(n, k) ==
    LET pipe == inflight \o Fresh(n)
    IN  /\ phase = "open"
        /\ k < Len(pipe)
        /\ sent' = sent + n
        /\ delivered' = delivered \o SubSeq(pipe, 1, k)
        /\ inflight' = <<>>
        /\ failed' = TRUE
        /\ UNCHANGED phase

Close ==
    /\ phase' = "closed"
    /\ inflight' = <<>>
    /\ UNCHANGED <<sent, delivered, failed>>

Next ==
    \/ Open
    \/ \E n, k \in 0..MaxSent : Transfer(n, k) \/ Break(n, k)
    \/ Close

Spec == Init /\ [][Next]_vars

-----------------------------------------------------------------------------
TypeOK ==
    /\ phase \in {"none", "open", "closed"}
    /\ sent \in Nat
    /\ delivered \in Seq(Nat)
    /\ inflight \in Seq(Nat)
    /\ failed \in BOOLEAN

Stream == delivered \o inflight

\* No byte is reordered, repeated or invented, whatever failed on the way.
InOrder ==
    /\ \A i, j \in DOMAIN Stream : i < j => Stream[i] < Stream[j]
    /\ \A i \in DOMAIN Stream : Stream[i] \in 1..sent

\* Until a hard error the child sees a gapless prefix of what was handed over,
\* and while the PTY is open the missing rest is exactly what is in flight.
Gapless ==
    ~failed =>
        /\ \A i \in DOMAIN Stream : Stream[i] = i
        /\ phase = "open" => Len(Stream) = sent
=============================================================================
