----------------------------- MODULE PtyWriter ------------------------------
(***************************************************************************)
(* The session worker's non-blocking write path to the PTY:                *)
(* PtyWriteBuffer (session/pty_write_buffer.cpp) and SessionWorker's       *)
(* queuePtyWrite, flushPtyWrites and closePty (session_worker.cpp).        *)
(*                                                                         *)
(* All of it runs on the worker thread, so every handler is one action.    *)
(* What a handler cannot control is how much each ::write() accepts: the   *)
(* outcome of a whole write loop is the number k of bytes the kernel took  *)
(* and how the loop ended ("done", EAGAIN, or a hard error).  EINTR is     *)
(* retried by the loop and leaves no trace.                                *)
(*                                                                         *)
(* Bytes are numbered in the order queuePtyWrite receives them, so a byte  *)
(* is its number. The specification is WriterSpec: SessionProofs extends   *)
(* this module and SessionLifecycle together.                              *)
(***************************************************************************)
EXTENDS Naturals, Sequences

CONSTANTS
    CompactionThreshold,  \* PtyWriteBuffer::kCompactionThreshold
    MaxChunk,             \* bound: bytes of one submission
    MaxSent               \* bound: bytes submitted in a behaviour

ASSUME PtyWriterAssumption ==
    /\ CompactionThreshold \in Nat \ {0}
    /\ MaxChunk \in Nat
    /\ MaxSent \in Nat

VARIABLES
    directWrites,  \* directPtyWrites_: the default path, or the legacy one
    phase,     \* "none"; "launching" (spawnChild's tail); "open"; "closed"
    storage,   \* PtyWriteBuffer::storage_
    consumed,  \* PtyWriteBuffer::consumed_
    notifier,  \* writeNotifier_ exists and is enabled
    sent,      \* how many bytes queuePtyWrite has accepted so far
    written,   \* what ::write() has taken, in order
    failed,    \* a write has ended in a hard error
    peak       \* history: the most bytes that ever waited in the buffer

writer_vars == <<directWrites, phase, storage, consumed, notifier, sent, written, failed, peak>>

\* masterFd_ >= 0
HasPty == phase \in {"launching", "open"}

-----------------------------------------------------------------------------
(* PtyWriteBuffer *)

Remaining == Len(storage) - consumed

\* bytes(): the live suffix.
Pending == SubSeq(storage, consumed + 1, Len(storage))

IsEmpty == consumed = Len(storage)

\* Mutant: the consumed prefix is never reclaimed.
NeverCompacts == FALSE

\* compactBeforeAppend() reclaims a consumed prefix that is large and dominant.
Compacts == consumed >= CompactionThreshold /\ consumed >= Remaining

Larger(a, b) == IF a >= b THEN a ELSE b

\* append(data)
AppendToBuffer(data) ==
    /\ peak' = Larger(peak, Remaining + Len(data))
    /\ storage' = IF Compacts THEN Pending \o data ELSE storage \o data
    /\ consumed' = IF Compacts THEN 0 ELSE consumed

ClearBuffer == storage' = <<>> /\ consumed' = 0

\* consume(k), which clears the buffer once everything is consumed.
Consume(k) ==
    IF consumed + k = Len(storage)
    THEN ClearBuffer
    ELSE consumed' = consumed + k /\ UNCHANGED storage

-----------------------------------------------------------------------------
(* SessionWorker *)

Bytes(n) == [i \in 1..n |-> sent + i]

WriterInit ==
    /\ directWrites \in BOOLEAN
    /\ phase = "none"
    /\ storage = <<>>
    /\ consumed = 0
    /\ notifier = FALSE
    /\ sent = 0
    /\ written = <<>>
    /\ failed = FALSE
    /\ peak = 0

\* spawnChild publishes masterFd_ and creates the notifier disabled.
OpenPty ==
    /\ phase = "none"
    /\ phase' = "launching"
    /\ notifier' = FALSE
    /\ UNCHANGED <<storage, consumed, sent, written, failed, peak>>

\* Mutant: EAGAIN keeps the whole submission, the accepted prefix included.
DirectWriteKeepsAll(n, k) ==
    /\ directWrites /\ IsEmpty
    /\ written' = written \o SubSeq(Bytes(n), 1, k)
    /\ IF k = n THEN UNCHANGED <<storage, consumed, peak>>
                ELSE AppendToBuffer(Bytes(n))
    /\ notifier' = (k < n)
    /\ UNCHANGED failed

\* The direct loop of queuePtyWrite: the kernel takes k of the n bytes.
DirectWrite(n, k) ==
    /\ directWrites /\ IsEmpty
    /\ written' = written \o SubSeq(Bytes(n), 1, k)
    /\ \/ /\ k = n
          /\ UNCHANGED <<storage, consumed, failed, peak>>
          /\ notifier' = FALSE
       \/ /\ k < n                                     \* EAGAIN keeps the rest
          /\ AppendToBuffer(SubSeq(Bytes(n), k + 1, n))
          /\ notifier' = TRUE
          /\ UNCHANGED failed
       \/ /\ k < n                                     \* a hard error drops it
          /\ failed' = TRUE
          /\ notifier' = FALSE
          /\ UNCHANGED <<storage, consumed, peak>>

\* Backpressured: append behind what waits, leave the retry to the notifier.
BufferWrite(n) ==
    /\ directWrites /\ ~IsEmpty
    /\ AppendToBuffer(Bytes(n))
    /\ UNCHANGED <<notifier, written, failed>>

\* Legacy path: bufferPtyWrite, then flushPtyWrites at once.
LegacyWrite(n, k) ==
    LET all == Pending \o Bytes(n)
    IN  /\ ~directWrites
        /\ k <= Len(all)
        /\ written' = written \o SubSeq(all, 1, k)
        /\ peak' = Larger(peak, Len(all))
        /\ \/ /\ k = Len(all)
              /\ ClearBuffer
              /\ notifier' = FALSE
              /\ UNCHANGED failed
           \/ /\ k < Len(all)                          \* EAGAIN
              /\ storage' = IF Compacts THEN all ELSE storage \o Bytes(n)
              /\ consumed' = k + IF Compacts THEN 0 ELSE consumed
              /\ notifier' = TRUE
              /\ UNCHANGED failed
           \/ /\ k < Len(all)                          \* hard error
              /\ ClearBuffer
              /\ notifier' = FALSE
              /\ failed' = TRUE

\* queuePtyWrite(data) with n = data.size() > 0.  While spawnChild runs its
\* callers are the launch input only; afterwards every input and every reply.
QueuePtyWrite(n, k) ==
    /\ HasPty
    /\ sent + n <= MaxSent
    /\ sent' = sent + n
    /\ \/ k <= n /\ DirectWrite(n, k)
       \/ k = 0 /\ BufferWrite(n)
       \/ LegacyWrite(n, k)
    /\ UNCHANGED phase

\* spawnChild returns to the event loop.
Started ==
    /\ phase = "launching"
    /\ phase' = "open"
    /\ UNCHANGED <<storage, consumed, notifier, sent, written, failed, peak>>

\* Mutant: the notifier is disabled after every flush.
WriterReadyDisarms(k) ==
    /\ phase = "open" /\ notifier /\ k <= Remaining
    /\ written' = written \o SubSeq(Pending, 1, k)
    /\ Consume(k)
    /\ notifier' = FALSE
    /\ UNCHANGED <<phase, sent, failed, peak>>

\* flushPtyWrites, run by the enabled notifier; the kernel takes k bytes.
WriterReady(k) ==
    /\ phase = "open"
    /\ notifier
    /\ k <= Remaining
    /\ written' = written \o SubSeq(Pending, 1, k)
    /\ \/ Consume(k)
          /\ notifier' = (k < Remaining)
          /\ UNCHANGED failed
       \/ /\ k < Remaining                             \* hard error
          /\ ClearBuffer
          /\ notifier' = FALSE
          /\ failed' = TRUE
    /\ UNCHANGED <<phase, sent, peak>>

\* closePty: after the child's exit, at shutdown, or with no PTY at all.
CloseWriter ==
    /\ phase \in {"none", "open"}
    /\ phase' = "closed"
    /\ ClearBuffer
    /\ notifier' = FALSE
    /\ UNCHANGED <<sent, written, failed, peak>>

Step ==
    \/ OpenPty
    \/ Started
    \/ \E n \in 1..MaxChunk, k \in 0..MaxSent : QueuePtyWrite(n, k)
    \/ \E k \in 0..MaxSent : WriterReady(k)
    \/ CloseWriter

\* The write mode is fixed when the worker is constructed.
WriterNext == Step /\ UNCHANGED directWrites

\* The child keeps reading its terminal, so an enabled notifier keeps firing
\* and a firing notifier can write at least one byte; spawnChild returns.
WriterFairness ==
    /\ WF_writer_vars(Started /\ UNCHANGED directWrites)
    /\ WF_writer_vars((\E k \in 1..MaxSent : WriterReady(k)) /\ UNCHANGED directWrites)

WriterSpec == WriterInit /\ [][WriterNext]_writer_vars

WriterFairSpec == WriterSpec /\ WriterFairness

-----------------------------------------------------------------------------
WriterOK ==
    /\ phase \in {"none", "launching", "open", "closed"}
    /\ storage \in Seq(Nat)
    /\ consumed \in 0..Len(storage)
    /\ notifier \in BOOLEAN
    /\ sent \in Nat
    /\ written \in Seq(Nat)
    /\ failed \in BOOLEAN
    /\ peak \in Nat

WriterTypeOK == directWrites \in BOOLEAN /\ WriterOK

\* No lost wakeup.  queuePtyWrite leaves the notifier alone while bytes wait,
\* so bytes that wait must always have an enabled notifier; and a notifier
\* with nothing to write would spin the event loop.
NoLostWakeup == notifier <=> ~IsEmpty

\* "preventing stale prefixes from growing without bound while writes continue"
\* (pty_write_buffer.h): the buffer never holds more than the most that ever
\* waited plus the larger of that and the compaction threshold.
StorageBounded == Len(storage) <= peak + Larger(CompactionThreshold, peak)

\* The module is the byte stream it promises to be.
Pipe == INSTANCE ByteStream WITH
            phase <- IF phase = "launching" THEN "open" ELSE phase,
            delivered <- written,
            inflight <- Pending

\* No byte is reordered, repeated or invented (FIFO under backpressure).
InOrder == Pipe!InOrder

\* Before a hard error nothing that was submitted is missing.
Gapless == Pipe!Gapless

\* The write path implements the byte stream: backpressure, retries and
\* compaction are invisible to the child.
RefinesByteStream == Pipe!Spec

\* Every submitted byte reaches the child, unless a hard error or the close of
\* the PTY cut the stream.
Taken(b) == \E i \in DOMAIN written : written[i] = b
AllDelivered ==
    \A b \in 1..MaxSent :
        (sent >= b) ~> (Taken(b) \/ failed \/ phase = "closed")
=============================================================================
