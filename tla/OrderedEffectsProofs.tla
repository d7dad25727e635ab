------------------------ MODULE OrderedEffectsProofs ------------------------
(***************************************************************************)
(* Proofs about OrderedEffects, for any number of submissions and any size *)
(* of the pool.  The inductive invariant numbers everything by its         *)
(* submission, keeps the queue sorted behind what was published, and says  *)
(* of every directory who still owns it.                                   *)
(***************************************************************************)
EXTENDS OrderedEffects, SequenceFacts

\* Nothing is known of a submission before it was accepted.
Numbered ==
    /\ held <= next
    /\ \A i \in Items : job[i] # "none" => i <= next
    /\ \A i \in disk \union saved \union kept \union barred : i <= next
    /\ \A k \in DOMAIN events : events[k] <= next
    /\ \A k \in DOMAIN queue : queue[k].id <= next
    /\ \A k \in DOMAIN written : written[k].of <= next
    /\ \A k \in DOMAIN results : results[k] <= next

\* The queue is in submission order, its head is a file that is not ready, and
\* it is empty once the session shuts down.
QueueOrdered ==
    /\ \A j, k \in DOMAIN queue : j < k => queue[j].id < queue[k].id
    /\ queue # <<>> => ~queue[1].ready
    /\ life # "live" => queue = <<>>

\* What a read-only terminal refused is nowhere on the way to the child.
Refused ==
    /\ held \notin barred
    /\ \A k \in DOMAIN queue :
          queue[k].kind = "input" \/ queue[k].paste => queue[k].id \notin barred

\* Each directory has an owner: its job, the completion on its way, or the effect
\* that waits; what will be reported as a success is on disk; and no job works on a
\* request that was completed.
Owned ==
    /\ kept = succeeded
    /\ \A i \in Items : job[i] = "made" => i \in disk
    /\ \A i \in saved :
          /\ job[i] \in {"none", "finished"}
          /\ job[i] = "finished" \/ (\E k \in DOMAIN events : events[k] = i) => i \in disk
    /\ \A k \in DOMAIN events : job[events[k]] = "none"
    /\ \A k \in DOMAIN queue :
          queue[k].ok => queue[k].id \in disk /\ job[queue[k].id] = "none"
    /\ \A i \in succeeded : i \in disk /\ job[i] = "none"
    /\ \A i \in disk : i \in kept \/ job[i] # "none" \/ i \in Queued
                         \/ (\E k \in DOMAIN events : events[k] = i)

IInv ==
    /\ TypeOK
    /\ Numbered
    /\ QueueOrdered
    /\ InSubmissionOrder
    /\ Refused
    /\ ReadOnlyHonoured
    /\ Owned

-----------------------------------------------------------------------------
(* What draining does *)

LEMMA DrainableOf ==
    ASSUME NEW q \in Seq(Effects)
    PROVE  /\ Drainable(q) \in 0..Len(q)
           /\ \A k \in 1..Drainable(q) : q[k].ready
           /\ Drainable(q) < Len(q) => ~q[Drainable(q) + 1].ready
<1>1. \E n \in 0..Len(q) : StopsAt(q, n)
  <2>1. Len(q) \in Nat
    OBVIOUS
  <2>2. CASE \A k \in 1..Len(q) : q[k].ready
    <3>1. StopsAt(q, Len(q))
      BY <2>1, <2>2 DEF StopsAt
    <3> QED BY <2>1, <3>1
  <2>3. CASE \E k \in 1..Len(q) : ~q[k].ready
    <3> DEFINE Late == {k \in 1..Len(q) : ~q[k].ready}
    <3>1. PICK m \in Late : \A k \in Late : m <= k
      <4>1. Late \in SUBSET Nat /\ Late # {}
        BY <2>1, <2>3
      <4> HIDE DEF Late
      <4> QED BY <4>1, LeastElement
    <3>2. m \in 1..Len(q) /\ m - 1 \in 0..Len(q) /\ m - 1 < Len(q) /\ (m - 1) + 1 = m
      BY <2>1, <3>1
    <3>3. \A k \in 1..(m - 1) : q[k].ready
      BY <2>1, <3>1, <3>2
    <3>4. ~q[(m - 1) + 1].ready
      BY <3>1, <3>2
    <3>5. StopsAt(q, m - 1)
      BY <3>3, <3>4 DEF StopsAt
    <3> QED BY <3>2, <3>5
  <2> QED BY <2>2, <2>3
<1>2. Drainable(q) \in 0..Len(q) /\ StopsAt(q, Drainable(q))
  BY <1>1 DEF Drainable
<1> QED BY <1>2 DEF StopsAt

Sorted(q) == \A j, k \in DOMAIN q : j < k => q[j].id < q[k].id

\* t holds elements of q at positions in I, in their order.
PartOf(t, q, I) ==
    /\ t \in Seq(Effects)
    /\ \A k \in 1..Len(t) : \E i \in I : t[k] = q[i]
    /\ \A k, l \in 1..Len(t) : k < l => t[k].id < t[l].id

LEMMA PartIsSorted ==
    ASSUME NEW q \in Seq(Effects), Sorted(q), NEW I \in SUBSET (1..Len(q))
    PROVE  PartOf(Subsequence(q, I), q, I)
<1> DEFINE t == Subsequence(q, I)
<1>2. /\ t \in Seq(Effects)
      /\ \A k \in 1..Len(t) : \E i \in I : t[k] = q[i]
      /\ \A k, l \in 1..Len(t) :
            k < l => \E i, j \in I : i < j /\ t[k] = q[i] /\ t[l] = q[j]
  BY SubsequenceElements
<1> HIDE DEF t
<1>3. ASSUME NEW k \in 1..Len(t), NEW l \in 1..Len(t), k < l
      PROVE  t[k].id < t[l].id
  <2>1. PICK i \in I : \E j \in I : i < j /\ t[k] = q[i] /\ t[l] = q[j]
    BY <1>2, <1>3
  <2>2. PICK j \in I : i < j /\ t[k] = q[i] /\ t[l] = q[j]
    BY <2>1
  <2>3. i \in DOMAIN q /\ j \in DOMAIN q
    OBVIOUS
  <2> QED BY <2>2, <2>3 DEF Sorted
<1>4. t = Subsequence(q, I)
  BY DEF t
<1> QED BY <1>2, <1>3, <1>4 DEF PartOf
\* What is written grows by effects among the first n of q, in their order.
WrittenFrom(q, n) ==
    /\ written' \in Seq(Outputs)
    /\ Len(written) <= Len(written')
    /\ \A k \in 1..Len(written) : written'[k] = written[k]
    /\ \A k \in (Len(written) + 1)..Len(written') :
          \E i \in 1..n : written'[k] = Byte(q[i].id) /\ Publishes(q[i])
    /\ \A k, l \in (Len(written) + 1)..Len(written') :
          k < l => written'[k].of < written'[l].of

\* The same for the results.
ResultsFrom(q, n) ==
    /\ results' \in Seq(Items)
    /\ Len(results) <= Len(results')
    /\ \A k \in 1..Len(results) : results'[k] = results[k]
    /\ \A k \in (Len(results) + 1)..Len(results') : \E i \in 1..n : results'[k] = q[i].id
    /\ \A k, l \in (Len(results) + 1)..Len(results') :
          k < l => results'[k] < results'[l]

\* The queue is what remains of q after its first n.
QueueFrom(q, n) ==
    /\ queue' \in Seq(Effects)
    /\ Len(queue') = Len(q) - n
    /\ \A k \in 1..(Len(q) - n) : queue'[k] = q[n + k]

LEMMA WritesPart ==
    ASSUME TypeOK, NEW q \in Seq(Effects), Sorted(q), NEW n \in 0..Len(q),
           written' = Writes(BytesOf(PublishedIn(q, n)))
    PROVE  WrittenFrom(q, n)
<1> DEFINE I == {i \in 1..n : Publishes(q[i])}
           t == Subsequence(q, I)
           b == [i \in DOMAIN t |-> Byte(t[i].id)]
<1>0. Len(q) \in Nat /\ written \in Seq(Outputs) /\ Len(written) \in Nat
  BY DEF TypeOK
<1>1. PartOf(t, q, I)
  <2>1. I \in SUBSET (1..Len(q))
    BY <1>0
  <2> HIDE DEF I
  <2> QED BY <2>1, PartIsSorted
<1>2. written' = IF pty THEN written \o b ELSE written
  BY DEF Writes, BytesOf, PublishedIn
<1>3. \A i \in I : i \in 1..n /\ Publishes(q[i])
  OBVIOUS
<1> HIDE DEF t, I
<1>4. t \in Seq(Effects) /\ Len(t) \in Nat /\ DOMAIN t = 1..Len(t)
  BY <1>1 DEF PartOf
<1>5. /\ \A k \in 1..Len(t) : b[k] = Byte(t[k].id) /\ t[k].id \in Items /\ t[k].id \in Int
      /\ b \in Seq(Outputs) /\ Len(b) = Len(t)
  <2>1. \A k \in 1..Len(t) : t[k] \in Effects
    BY <1>4
  <2>2. \A k \in 1..Len(t) : t[k].id \in Items /\ t[k].id \in Int
    BY <2>1 DEF Effects, Items
  <2>3. \A k \in 1..Len(t) : b[k] \in Outputs
    BY <1>4, <2>2 DEF Byte, Outputs
  <2> QED BY <1>4, <2>2, <2>3
<1> HIDE DEF b
<1>6. CASE ~pty
  BY <1>0, <1>2, <1>6 DEF WrittenFrom
<1>7. CASE pty
  <2>1. PICK w : w = written'
    OBVIOUS
  <2>2. w = written \o b
    BY <1>2, <1>7, <2>1
  <2>3. /\ w \in Seq(Outputs)
        /\ Len(written) <= Len(w)
        /\ \A k \in 1..Len(written) : w[k] = written[k]
        /\ \A k \in (Len(written) + 1)..Len(w) :
              k - Len(written) \in 1..Len(t) /\ w[k] = b[k - Len(written)]
    <3>1. \A k \in (Len(written) + 1)..Len(w) :
              k - Len(written) \in 1..Len(b) /\ w[k] = b[k - Len(written)]
      BY <1>0, <1>5, <2>2, Extension
    <3>2. w \in Seq(Outputs) /\ Len(written) <= Len(w)
             /\ \A k \in 1..Len(written) : w[k] = written[k]
      BY <1>0, <1>5, <2>2, Extension
    <3> QED BY <1>5, <3>1, <3>2
  <2>4. ASSUME NEW k \in (Len(written) + 1)..Len(w)
        PROVE  \E i \in 1..n : w[k] = Byte(q[i].id) /\ Publishes(q[i])
    <3>1. PICK j \in 1..Len(t) : w[k] = b[j]
      BY <2>3
    <3>2. PICK i \in I : t[j] = q[i]
      BY <1>1 DEF PartOf
    <3> QED BY <1>3, <1>5, <3>1, <3>2
  <2>5. ASSUME NEW k \in (Len(written) + 1)..Len(w),
               NEW l \in (Len(written) + 1)..Len(w), k < l
        PROVE  w[k].of < w[l].of
    <3>1. PICK i \in 1..Len(t) : i = k - Len(written) /\ w[k] = b[i]
      BY <2>3
    <3>2. PICK j \in 1..Len(t) : j = l - Len(written) /\ w[l] = b[j]
      BY <2>3
    <3>3. i < j
      <4>1. k \in Int /\ l \in Int
        BY <1>0
      <4> QED BY <1>0, <2>5, <3>1, <3>2, <4>1
    <3>4. t[i].id < t[j].id
      BY <1>1, <3>3 DEF PartOf
    <3>5. w[k] = Byte(t[i].id) /\ w[l] = Byte(t[j].id)
      BY <1>5, <3>1, <3>2
    <3> QED BY <3>4, <3>5 DEF Byte
  <2> HIDE DEF b
  <2> QED BY <2>1, <2>3, <2>4, <2>5 DEF WrittenFrom
<1> QED BY <1>6, <1>7

LEMMA ResultsPart ==
    ASSUME TypeOK, NEW q \in Seq(Effects), Sorted(q), NEW n \in 0..Len(q),
           results' = results \o Ids(FilesIn(q, n))
    PROVE  ResultsFrom(q, n)
<1> DEFINE I == {i \in 1..n : q[i].kind = "file"}
           t == Subsequence(q, I)
           b == [i \in DOMAIN t |-> t[i].id]
<1>0. Len(q) \in Nat /\ results \in Seq(Items) /\ Len(results) \in Nat
  BY DEF TypeOK
<1>1. PartOf(t, q, I)
  <2>1. I \in SUBSET (1..Len(q))
    BY <1>0
  <2> HIDE DEF I
  <2> QED BY <2>1, PartIsSorted
<1>2. results' = results \o b
  BY DEF Ids, FilesIn
<1>3. \A i \in I : i \in 1..n
  OBVIOUS
<1> HIDE DEF t, I
<1>4. t \in Seq(Effects) /\ Len(t) \in Nat /\ DOMAIN t = 1..Len(t)
  BY <1>1 DEF PartOf
<1>5. /\ \A k \in 1..Len(t) : b[k] = t[k].id /\ t[k].id \in Int
      /\ b \in Seq(Items) /\ Len(b) = Len(t)
  <2>1. \A k \in 1..Len(t) : t[k] \in Effects
    BY <1>4
  <2>2. \A k \in 1..Len(t) : t[k].id \in Items /\ t[k].id \in Int
    BY <2>1 DEF Effects, Items
  <2> QED BY <1>4, <2>2
<1> HIDE DEF b
<1>6. PICK w : w = results'
  OBVIOUS
<1>7. w = results \o b
  BY <1>2, <1>6
<1>8. /\ w \in Seq(Items)
      /\ Len(results) <= Len(w)
      /\ \A k \in 1..Len(results) : w[k] = results[k]
      /\ \A k \in (Len(results) + 1)..Len(w) :
            k - Len(results) \in 1..Len(t) /\ w[k] = b[k - Len(results)]
  <2>1. \A k \in (Len(results) + 1)..Len(w) :
            k - Len(results) \in 1..Len(b) /\ w[k] = b[k - Len(results)]
    BY <1>0, <1>5, <1>7, Extension
  <2>2. w \in Seq(Items) /\ Len(results) <= Len(w)
           /\ \A k \in 1..Len(results) : w[k] = results[k]
    BY <1>0, <1>5, <1>7, Extension
  <2> QED BY <1>5, <2>1, <2>2
<1>9. ASSUME NEW k \in (Len(results) + 1)..Len(w)
      PROVE  \E i \in 1..n : w[k] = q[i].id
  <2>1. PICK j \in 1..Len(t) : w[k] = b[j]
    BY <1>8
  <2>2. PICK i \in I : t[j] = q[i]
    BY <1>1 DEF PartOf
  <2> QED BY <1>3, <1>5, <2>1, <2>2
<1>10. ASSUME NEW k \in (Len(results) + 1)..Len(w),
              NEW l \in (Len(results) + 1)..Len(w), k < l
       PROVE  w[k] < w[l]
  <2>1. PICK i \in 1..Len(t) : i = k - Len(results) /\ w[k] = b[i]
    BY <1>8
  <2>2. PICK j \in 1..Len(t) : j = l - Len(results) /\ w[l] = b[j]
    BY <1>8
  <2>3. i < j
    <3>1. k \in Int /\ l \in Int
      BY <1>0
    <3> QED BY <1>0, <1>10, <2>1, <2>2, <3>1
  <2>4. t[i].id < t[j].id
    BY <1>1, <2>3 DEF PartOf
  <2> QED BY <1>5, <2>1, <2>2, <2>4
<1> QED BY <1>6, <1>8, <1>9, <1>10 DEF ResultsFrom

Drained(q, n) ==
    /\ n \in 0..Len(q)
    /\ \A k \in 1..n : q[k].ready
    /\ n < Len(q) => ~q[n + 1].ready
    /\ QueueFrom(q, n)
    /\ WrittenFrom(q, n)
    /\ ResultsFrom(q, n)
    /\ succeeded' = succeeded \union SuccessesIn(q, n)
    /\ kept' = kept \union SuccessesIn(q, n)

LEMMA DrainDrains ==
    ASSUME TypeOK, NEW q \in Seq(Effects), Sorted(q), Drain(q)
    PROVE  \E n \in 0..Len(q) : Drained(q, n)
<1>1. PICK n : n = Drainable(q)
  OBVIOUS
<1>2. n \in 0..Len(q) /\ (\A k \in 1..n : q[k].ready) /\ (n < Len(q) => ~q[n + 1].ready)
  BY <1>1, DrainableOf
<1>3. /\ queue' = SubSeq(q, n + 1, Len(q))
      /\ written' = Writes(BytesOf(PublishedIn(q, n)))
      /\ results' = results \o Ids(FilesIn(q, n))
      /\ succeeded' = succeeded \union SuccessesIn(q, n)
      /\ kept' = kept \union SuccessesIn(q, n)
  BY <1>1 DEF Drain
<1>4. WrittenFrom(q, n)
  BY <1>2, <1>3, WritesPart
<1>5. ResultsFrom(q, n)
  BY <1>2, <1>3, ResultsPart
<1>6. QueueFrom(q, n)
  BY <1>2, <1>3, Halves DEF QueueFrom
<1> QED BY <1>2, <1>3, <1>4, <1>5, <1>6 DEF Drained
\* q can be drained: it is behind what was published, numbered up to m, and holds
\* nothing of B for the child.
Drains(q, m, B) ==
    /\ q \in Seq(Effects)
    /\ Sorted(q)
    /\ m \in Nat /\ next <= m
    /\ \A k \in DOMAIN q : q[k].id <= m
    /\ \A k \in DOMAIN q : q[k].kind = "input" \/ q[k].paste => q[k].id \notin B
    /\ \A k \in DOMAIN written : written[k].of \notin B
    /\ \A k \in DOMAIN written, l \in DOMAIN q :
          written[k].kind = "bytes" => written[k].of < q[l].id
    /\ \A k \in DOMAIN results, l \in DOMAIN q : results[k] < q[l].id

\* What then holds of the queue, the bytes and the results.
DrainedWell(m, B) ==
    /\ queue' \in Seq(Effects)
    /\ written' \in Seq(Outputs)
    /\ results' \in Seq(Items)
    /\ Sorted(queue')
    /\ queue' # <<>> => ~queue'[1].ready
    /\ InSubmissionOrder'
    /\ \A k \in DOMAIN queue' : queue'[k].id <= m
    /\ \A k \in DOMAIN written' : written'[k].of <= m
    /\ \A k \in DOMAIN results' : results'[k] <= m
    /\ \A k \in DOMAIN queue' :
          queue'[k].kind = "input" \/ queue'[k].paste => queue'[k].id \notin B
    /\ \A k \in DOMAIN written' : written'[k].of \notin B

LEMMA DrainsWell ==
    ASSUME TypeOK, Numbered, InSubmissionOrder, NEW q, NEW m, NEW B, Drains(q, m, B),
           NEW n, Drained(q, n)
    PROVE  DrainedWell(m, B)
<1>1. PICK w : w = written'
  OBVIOUS
<1>2. PICK r : r = results'
  OBVIOUS
<1>3. PICK u : u = queue'
  OBVIOUS
<1>4. /\ n \in 0..Len(q) /\ Len(q) \in Nat /\ q \in Seq(Effects) /\ DOMAIN q = 1..Len(q)
      /\ m \in Nat /\ next <= m /\ next \in Nat
      /\ written \in Seq(Outputs) /\ Len(written) \in Nat /\ DOMAIN written = 1..Len(written)
      /\ results \in Seq(Items) /\ Len(results) \in Nat /\ DOMAIN results = 1..Len(results)
  BY DEF TypeOK, Drains, Drained
<1>5. /\ \A k \in 1..Len(q) : q[k].id \in Int
      /\ \A k \in 1..Len(written) : written[k].of \in Int /\ written[k].kind \in {"bytes", "release"}
      /\ \A k \in 1..Len(results) : results[k] \in Int
  <2>1. \A k \in 1..Len(q) : q[k] \in Effects
    BY <1>4
  <2>2. \A k \in 1..Len(written) : written[k] \in Outputs
    BY <1>4
  <2>3. \A k \in 1..Len(results) : results[k] \in Items
    BY <1>4
  <2> QED BY <2>1, <2>2, <2>3 DEF Effects, Outputs, Items
<1>6. /\ w \in Seq(Outputs) /\ Len(w) \in Nat /\ DOMAIN w = 1..Len(w)
      /\ Len(written) <= Len(w)
      /\ \A k \in 1..Len(written) : w[k] = written[k]
      /\ \A k \in (Len(written) + 1)..Len(w) :
            \E i \in 1..n : w[k] = Byte(q[i].id) /\ Publishes(q[i])
      /\ \A k, l \in (Len(written) + 1)..Len(w) : k < l => w[k].of < w[l].of
  <2>1. /\ w \in Seq(Outputs) /\ Len(written) <= Len(w)
        /\ \A k \in 1..Len(written) : w[k] = written[k]
    BY <1>1 DEF Drained, WrittenFrom
  <2>2. \A k \in (Len(written) + 1)..Len(w) :
            \E i \in 1..n : w[k] = Byte(q[i].id) /\ Publishes(q[i])
    BY <1>1, Zenon DEF Drained, WrittenFrom
  <2>3. \A k, l \in (Len(written) + 1)..Len(w) : k < l => w[k].of < w[l].of
    BY <1>1, Zenon DEF Drained, WrittenFrom
  <2> QED BY <2>1, <2>2, <2>3
<1>7. /\ r \in Seq(Items) /\ Len(r) \in Nat /\ DOMAIN r = 1..Len(r)
      /\ Len(results) <= Len(r)
      /\ \A k \in 1..Len(results) : r[k] = results[k]
      /\ \A k \in (Len(results) + 1)..Len(r) : \E i \in 1..n : r[k] = q[i].id
      /\ \A k, l \in (Len(results) + 1)..Len(r) : k < l => r[k] < r[l]
  BY <1>2 DEF Drained, ResultsFrom
<1>8. /\ u \in Seq(Effects) /\ Len(u) = Len(q) - n /\ DOMAIN u = 1..(Len(q) - n)
      /\ \A k \in 1..(Len(q) - n) : u[k] = q[n + k]
  BY <1>3 DEF Drained, QueueFrom
<1>9. /\ \A k \in 1..(Len(q) - n) : n + k \in 1..Len(q) /\ k \in Int
      /\ \A i \in 1..n : i \in 1..Len(q)
      /\ \A k \in 1..Len(w) : k \in 1..Len(written) \/ k \in (Len(written) + 1)..Len(w)
      /\ \A k \in 1..Len(r) : k \in 1..Len(results) \/ k \in (Len(results) + 1)..Len(r)
  BY <1>4, <1>6, <1>7
<1>10. Sorted(u)
  <2>1. ASSUME NEW j \in DOMAIN u, NEW k \in DOMAIN u, j < k PROVE u[j].id < u[k].id
    <3>1. n + j \in DOMAIN q /\ n + k \in DOMAIN q /\ n + j < n + k
      BY <1>4, <1>8, <1>9, <2>1
    <3> QED BY <1>8, <3>1 DEF Drains, Sorted
  <2> QED BY <2>1 DEF Sorted
<1>11. u # <<>> => ~u[1].ready
  <2>1. SUFFICES ASSUME u # <<>> PROVE ~u[1].ready
    OBVIOUS
  <2>2. 1 \in 1..(Len(q) - n)
    BY <1>4, <1>8, <2>1
  <2>3. u[1] = q[n + 1] /\ n < Len(q)
    BY <1>4, <1>8, <2>2
  <2> QED BY <2>3 DEF Drained
<1>12. \A k \in DOMAIN u : \E i \in DOMAIN q : n < i /\ u[k] = q[i]
  <2>1. ASSUME NEW k \in DOMAIN u PROVE n + k \in DOMAIN q /\ n < n + k /\ u[k] = q[n + k]
    BY <1>4, <1>8, <1>9
  <2> QED BY <2>1
<1>13. \A k \in (Len(written) + 1)..Len(w) :
          \E i \in DOMAIN q : i <= n /\ w[k] = Byte(q[i].id) /\ Publishes(q[i])
  <2>1. \A i \in 1..n : i \in DOMAIN q /\ i <= n
    BY <1>4, <1>9
  <2> QED BY <1>6, <2>1, Zenon
<1>14. \A k \in (Len(results) + 1)..Len(r) : \E i \in DOMAIN q : i <= n /\ r[k] = q[i].id
  <2>1. \A i \in 1..n : i \in DOMAIN q /\ i <= n
    BY <1>4, <1>9
  <2> QED BY <1>7, <2>1, Zenon
<1>15. ASSUME NEW i \in DOMAIN q, NEW j \in DOMAIN q, i <= n, n < j PROVE q[i].id < q[j].id
  <2>1. i < j
    BY <1>4, <1>15
  <2> QED BY <2>1 DEF Drains, Sorted
<1>16. \A i, j \in DOMAIN w :
          i < j /\ w[i].kind = "bytes" /\ w[j].kind = "bytes" => w[i].of < w[j].of
  <2>1. SUFFICES ASSUME NEW i \in 1..Len(w), NEW j \in 1..Len(w), i < j,
                        w[i].kind = "bytes", w[j].kind = "bytes"
                 PROVE  w[i].of < w[j].of
    BY <1>6
  <2>2. CASE j \in 1..Len(written)
    <3>1. i \in 1..Len(written)
      BY <1>4, <2>1, <2>2
    <3> QED BY <1>4, <1>6, <2>1, <2>2, <3>1 DEF InSubmissionOrder
  <2>3. CASE i \in 1..Len(written) /\ j \in (Len(written) + 1)..Len(w)
    <3>1. PICK l \in DOMAIN q : w[j] = Byte(q[l].id)
      BY <1>13, <2>3
    <3>2. written[i].of < q[l].id
      BY <1>4, <1>6, <2>1, <2>3 DEF Drains
    <3> QED BY <1>6, <2>3, <3>1, <3>2 DEF Byte
  <2>4. CASE i \in (Len(written) + 1)..Len(w) /\ j \in (Len(written) + 1)..Len(w)
    BY <1>6, <2>1, <2>4
  <2>5. i \in (Len(written) + 1)..Len(w) => j \notin 1..Len(written)
    BY <1>4, <2>1
  <2> QED BY <1>9, <2>2, <2>3, <2>4, <2>5
<1>17. \A i, j \in DOMAIN r : i < j => r[i] < r[j]
  <2>1. SUFFICES ASSUME NEW i \in 1..Len(r), NEW j \in 1..Len(r), i < j PROVE r[i] < r[j]
    BY <1>7
  <2>2. CASE j \in 1..Len(results)
    <3>1. i \in 1..Len(results)
      BY <1>4, <2>1, <2>2
    <3> QED BY <1>4, <1>7, <2>1, <2>2, <3>1 DEF InSubmissionOrder
  <2>3. CASE i \in 1..Len(results) /\ j \in (Len(results) + 1)..Len(r)
    <3>1. PICK l \in DOMAIN q : r[j] = q[l].id
      BY <1>14, <2>3
    <3>2. results[i] < q[l].id
      BY <1>4, <2>3 DEF Drains
    <3> QED BY <1>7, <2>3, <3>1, <3>2
  <2>4. CASE i \in (Len(results) + 1)..Len(r) /\ j \in (Len(results) + 1)..Len(r)
    BY <1>7, <2>1, <2>4
  <2>5. i \in (Len(results) + 1)..Len(r) => j \notin 1..Len(results)
    BY <1>4, <2>1
  <2> QED BY <1>9, <2>2, <2>3, <2>4, <2>5
<1>18. \A i \in DOMAIN w, k \in DOMAIN u : w[i].kind = "bytes" => w[i].of < u[k].id
  <2>1. SUFFICES ASSUME NEW i \in 1..Len(w), NEW k \in DOMAIN u, w[i].kind = "bytes"
                 PROVE  w[i].of < u[k].id
    BY <1>6
  <2>2. PICK j \in DOMAIN q : n < j /\ u[k] = q[j]
    BY <1>12
  <2>3. CASE i \in 1..Len(written)
    BY <1>4, <1>6, <2>1, <2>2, <2>3 DEF Drains
  <2>4. CASE i \in (Len(written) + 1)..Len(w)
    <3>1. PICK l \in DOMAIN q : l <= n /\ w[i] = Byte(q[l].id)
      BY <1>13, <2>4
    <3>2. q[l].id < q[j].id
      BY <1>15, <2>2, <3>1
    <3> QED BY <2>2, <3>1, <3>2 DEF Byte
  <2> QED BY <1>9, <2>3, <2>4
<1>19. \A i \in DOMAIN r, k \in DOMAIN u : r[i] < u[k].id
  <2>1. SUFFICES ASSUME NEW i \in 1..Len(r), NEW k \in DOMAIN u PROVE r[i] < u[k].id
    BY <1>7
  <2>2. PICK j \in DOMAIN q : n < j /\ u[k] = q[j]
    BY <1>12
  <2>3. CASE i \in 1..Len(results)
    BY <1>4, <1>7, <2>1, <2>2, <2>3 DEF Drains
  <2>4. CASE i \in (Len(results) + 1)..Len(r)
    <3>1. PICK l \in DOMAIN q : l <= n /\ r[i] = q[l].id
      BY <1>14, <2>4
    <3>2. q[l].id < q[j].id
      BY <1>15, <2>2, <3>1
    <3> QED BY <2>2, <3>1, <3>2
  <2> QED BY <1>9, <2>3, <2>4
<1>20. InSubmissionOrder'
  BY <1>1, <1>2, <1>3, <1>16, <1>17, <1>18, <1>19 DEF InSubmissionOrder, Answered, Queued
<1>21. \A k \in DOMAIN u : u[k].id <= m
  BY <1>12 DEF Drains
<1>22. \A k \in DOMAIN w : w[k].of <= m /\ w[k].of \notin B
  <2>1. SUFFICES ASSUME NEW k \in 1..Len(w) PROVE w[k].of <= m /\ w[k].of \notin B
    BY <1>6
  <2>2. CASE k \in 1..Len(written)
    <3>1. w[k].of \notin B
      BY <1>4, <1>6, <2>2 DEF Drains
    <3>2. written[k].of <= next
      BY <1>4, <2>2 DEF Numbered
    <3> QED BY <1>4, <1>5, <1>6, <2>2, <3>1, <3>2
  <2>3. CASE k \in (Len(written) + 1)..Len(w)
    <3>1. PICK l \in DOMAIN q : w[k] = Byte(q[l].id) /\ Publishes(q[l])
      BY <1>13, <2>3
    <3> QED BY <3>1 DEF Drains, Byte, Publishes
  <2> QED BY <1>9, <2>2, <2>3
<1>23. \A k \in DOMAIN r : r[k] <= m
  <2>1. SUFFICES ASSUME NEW k \in 1..Len(r) PROVE r[k] <= m
    BY <1>7
  <2>2. CASE k \in 1..Len(results)
    <3>1. results[k] <= next
      BY <1>4, <2>2 DEF Numbered
    <3> QED BY <1>4, <1>5, <1>7, <2>2, <3>1
  <2>3. CASE k \in (Len(results) + 1)..Len(r)
    BY <1>14, <2>3 DEF Drains
  <2> QED BY <1>9, <2>2, <2>3
<1>24. \A k \in DOMAIN u : u[k].kind = "input" \/ u[k].paste => u[k].id \notin B
  BY <1>12 DEF Drains
<1> QED
  BY <1>1, <1>2, <1>3, <1>6, <1>7, <1>8, <1>10, <1>11, <1>20, <1>21, <1>22, <1>23, <1>24
     DEF DrainedWell
\* c is q with the effect of submission i completed.
Completes(c, q, i, b) ==
    /\ c \in Seq(Effects)
    /\ Len(c) = Len(q)
    /\ DOMAIN c = DOMAIN q
    /\ \A k \in DOMAIN q :
          /\ c[k].id = q[k].id /\ c[k].kind = q[k].kind /\ c[k].paste = q[k].paste
          /\ q[k].id = i => c[k].ready = TRUE /\ c[k].ok = b
          /\ q[k].id # i => c[k] = q[k]

LEMMA CompletedOf ==
    ASSUME NEW q \in Seq(Effects), NEW i, NEW b \in BOOLEAN
    PROVE  Completes(Completed(q, i, b), q, i, b)
<1> DEFINE c == Completed(q, i, b)
<1>1. \A k \in DOMAIN q : q[k] \in Effects
  OBVIOUS
<1>2. /\ DOMAIN c = DOMAIN q
      /\ \A k \in DOMAIN q :
            c[k] = IF q[k].id = i THEN [q[k] EXCEPT !.ready = TRUE, !.ok = b] ELSE q[k]
  BY DEF Completed
<1> HIDE DEF c
<1>3. ASSUME NEW k \in DOMAIN q
      PROVE  /\ c[k] \in Effects
             /\ c[k].id = q[k].id /\ c[k].kind = q[k].kind /\ c[k].paste = q[k].paste
             /\ q[k].id = i => c[k].ready = TRUE /\ c[k].ok = b
             /\ q[k].id # i => c[k] = q[k]
  <2>1. q[k] \in Effects
    BY <1>1
  <2>2. c[k] = IF q[k].id = i THEN [q[k] EXCEPT !.ready = TRUE, !.ok = b] ELSE q[k]
    BY <1>2
  <2> QED BY <2>1, <2>2 DEF Effects
<1>4. c \in Seq(Effects) /\ Len(c) = Len(q)
  <2>1. c = [k \in 1..Len(q) |-> c[k]] /\ Len(q) \in Nat
    BY <1>2 DEF c, Completed
  <2>2. \A k \in 1..Len(q) : c[k] \in Effects
    <3>1. DOMAIN q = 1..Len(q)
      OBVIOUS
    <3> QED BY <1>3, <3>1
  <2> QED BY <2>1, <2>2
<1>5. c = Completed(q, i, b)
  BY DEF c
<1> QED BY <1>2, <1>3, <1>4, <1>5 DEF Completes

LEMMA CompletedDrains ==
    ASSUME NEW q, NEW m, NEW B, Drains(q, m, B), NEW i, NEW b \in BOOLEAN
    PROVE  Drains(Completed(q, i, b), m, B)
<1> DEFINE c == Completed(q, i, b)
<1>0. q \in Seq(Effects)
  BY DEF Drains
<1>1. /\ c \in Seq(Effects)
      /\ DOMAIN c = DOMAIN q
      /\ \A k \in DOMAIN q :
            c[k].id = q[k].id /\ c[k].kind = q[k].kind /\ c[k].paste = q[k].paste
  <2>1. Completes(c, q, i, b)
    BY <1>0, CompletedOf
  <2> HIDE DEF c
  <2> QED BY <2>1 DEF Completes
<1> HIDE DEF c
<1>2. Sorted(c)
  BY <1>1 DEF Drains, Sorted
<1>3. Drains(c, m, B)
  BY <1>1, <1>2 DEF Drains
<1> QED BY <1>3 DEF c

LEMMA QueueDrains ==
    ASSUME IInv
    PROVE  Drains(queue, next, barred)
<1>1. /\ queue \in Seq(Effects) /\ next \in Nat
      /\ Sorted(queue)
  BY DEF IInv, TypeOK, QueueOrdered, Sorted
<1>2. /\ \A k \in DOMAIN queue : queue[k].id <= next
      /\ \A k \in DOMAIN queue :
            queue[k].kind = "input" \/ queue[k].paste => queue[k].id \notin barred
      /\ \A k \in DOMAIN written : written[k].of \notin barred
  BY DEF IInv, Numbered, Refused, ReadOnlyHonoured
<1>3. /\ \A k \in DOMAIN written, l \in DOMAIN queue :
            written[k].kind = "bytes" => written[k].of < queue[l].id
      /\ \A k \in DOMAIN results, l \in DOMAIN queue : results[k] < queue[l].id
  BY DEF IInv, InSubmissionOrder, Answered, Queued
<1> QED BY <1>1, <1>2, <1>3 DEF Drains

\* Appending the next submission.
LEMMA AppendDrains ==
    ASSUME IInv, NEW e \in Effects, e.id = next + 1, NEW B,
           \A i \in 0..next : i \in B => i \in barred,
           e.kind = "input" \/ e.paste => e.id \notin B
    PROVE  Drains(Append(queue, e), next + 1, B)
<1>1. Drains(queue, next, barred)
  BY QueueDrains
<1>2. PICK q : q = Append(queue, e)
  OBVIOUS
<1>3. /\ queue \in Seq(Effects) /\ Len(queue) \in Nat /\ DOMAIN queue = 1..Len(queue)
      /\ q \in Seq(Effects) /\ Len(q) = Len(queue) + 1 /\ DOMAIN q = 1..(Len(queue) + 1)
      /\ \A k \in DOMAIN queue : q[k] = queue[k]
      /\ q[Len(queue) + 1] = e
  BY <1>1, <1>2 DEF Drains
<1>4. \A k \in DOMAIN q : k \in DOMAIN queue \/ k = Len(queue) + 1
  BY <1>3
<1>5. /\ next \in Nat
      /\ \A k \in DOMAIN queue : queue[k].id \in 0..next
      /\ \A k \in DOMAIN written : written[k].of \in 0..next
      /\ \A k \in DOMAIN results : results[k] \in 0..next
  <2>1. /\ next \in Nat
        /\ \A k \in DOMAIN queue : queue[k] \in Effects
        /\ \A k \in DOMAIN written : written[k] \in Outputs
        /\ \A k \in DOMAIN results : results[k] \in Items
    BY DEF IInv, TypeOK
  <2>2. /\ \A k \in DOMAIN queue : queue[k].id \in Nat
        /\ \A k \in DOMAIN written : written[k].of \in Nat
        /\ \A k \in DOMAIN results : results[k] \in Nat
    BY <2>1 DEF Effects, Outputs, Items
  <2>3. /\ \A k \in DOMAIN queue : queue[k].id <= next
        /\ \A k \in DOMAIN written : written[k].of <= next
        /\ \A k \in DOMAIN results : results[k] <= next
    BY DEF IInv, Numbered
  <2> QED BY <2>1, <2>2, <2>3
<1>6. Sorted(q)
  <2>1. ASSUME NEW j \in DOMAIN q, NEW k \in DOMAIN q, j < k PROVE q[j].id < q[k].id
    <3>1. j \in DOMAIN queue
      BY <1>3, <1>4, <2>1
    <3>2. CASE k \in DOMAIN queue
      BY <1>1, <1>3, <2>1, <3>1, <3>2 DEF Drains, Sorted
    <3>3. CASE k = Len(queue) + 1
      <4>1. q[k].id = next + 1 /\ q[j].id \in 0..next
        BY <1>3, <1>5, <3>1, <3>3
      <4> QED BY <1>5, <4>1
    <3> QED BY <1>4, <3>2, <3>3
  <2> QED BY <2>1 DEF Sorted
<1>7. \A k \in DOMAIN q : q[k].id <= next + 1
  BY <1>3, <1>4, <1>5
<1>8. \A k \in DOMAIN q : q[k].kind = "input" \/ q[k].paste => q[k].id \notin B
  <2>1. ASSUME NEW k \in DOMAIN queue, q[k].kind = "input" \/ q[k].paste
        PROVE  q[k].id \notin B
    BY <1>1, <1>3, <1>5, <2>1 DEF Drains
  <2> QED BY <1>3, <1>4, <2>1
<1>9. \A k \in DOMAIN written : written[k].of \notin B
  BY <1>1, <1>5 DEF Drains
<1>10. \A k \in DOMAIN written, l \in DOMAIN q : written[k].kind = "bytes" => written[k].of < q[l].id
  <2>1. ASSUME NEW k \in DOMAIN written, NEW l \in DOMAIN q, written[k].kind = "bytes"
        PROVE  written[k].of < q[l].id
    <3>1. CASE l \in DOMAIN queue
      BY <1>1, <1>3, <2>1, <3>1 DEF Drains
    <3>2. CASE l = Len(queue) + 1
      BY <1>3, <1>5, <3>2
    <3> QED BY <1>4, <3>1, <3>2
  <2> QED BY <2>1
<1>11. \A k \in DOMAIN results, l \in DOMAIN q : results[k] < q[l].id
  <2>1. ASSUME NEW k \in DOMAIN results, NEW l \in DOMAIN q PROVE results[k] < q[l].id
    <3>1. CASE l \in DOMAIN queue
      BY <1>1, <1>3, <3>1 DEF Drains
    <3>2. CASE l = Len(queue) + 1
      BY <1>3, <1>5, <3>2
    <3> QED BY <1>4, <3>1, <3>2
  <2> QED BY <2>1
<1>12. next + 1 \in Nat /\ next <= next + 1
  BY <1>5
<1> QED BY <1>2, <1>3, <1>6, <1>7, <1>8, <1>9, <1>10, <1>11, <1>12 DEF Drains
-----------------------------------------------------------------------------
(* The steps *)

\* What a submission's number is.
LEMMA NextItem ==
    ASSUME TypeOK, next < MaxItems
    PROVE  next + 1 \in Items /\ next \in Nat /\ next + 1 \in 0..MaxItems
BY OrderedEffectsAssumption DEF TypeOK, Items

LEMMA BarredSubmission ==
    ASSUME IInv, next < MaxItems
    PROVE  /\ next + 1 \notin barred \union disk \union saved \union kept
           /\ job[next + 1] = "none"
           /\ \A k \in DOMAIN queue : queue[k].id # next + 1
           /\ \A k \in DOMAIN events : events[k] # next + 1
<1>1. next + 1 \in Items /\ next \in Nat /\ ~(next + 1 <= next)
  BY NextItem DEF IInv
<1>2. /\ \A i \in Items : job[i] # "none" => i <= next
      /\ \A i \in disk \union saved \union kept \union barred : i <= next
      /\ \A k \in DOMAIN events : events[k] <= next
      /\ \A k \in DOMAIN queue : queue[k].id <= next
  BY DEF IInv, Numbered
<1> QED BY <1>1, <1>2

\* Nothing is published: the queue is drained down to q.
LEMMA QueueGrows ==
    ASSUME IInv, NEW q, Drains(q, next', barred'), q # <<>> => ~q[1].ready,
           queue' = q, UNCHANGED <<written, results>>
    PROVE  DrainedWell(next', barred')
<1>1. /\ q \in Seq(Effects) /\ Sorted(q) /\ next' \in Nat /\ next <= next'
      /\ \A k \in DOMAIN q : q[k].id <= next'
      /\ \A k \in DOMAIN q : q[k].kind = "input" \/ q[k].paste => q[k].id \notin barred'
      /\ \A k \in DOMAIN written : written[k].of \notin barred'
      /\ \A k \in DOMAIN written, l \in DOMAIN q :
            written[k].kind = "bytes" => written[k].of < q[l].id
      /\ \A k \in DOMAIN results, l \in DOMAIN q : results[k] < q[l].id
  BY DEF Drains
<1>2. /\ written \in Seq(Outputs) /\ results \in Seq(Items) /\ next \in Nat
      /\ \A k \in DOMAIN written : written[k].of <= next
      /\ \A k \in DOMAIN results : results[k] <= next
  BY DEF IInv, TypeOK, Numbered
<1>3. /\ \A k \in DOMAIN written : written[k].of \in Nat
      /\ \A k \in DOMAIN results : results[k] \in Nat
  <2>1. /\ \A k \in DOMAIN written : written[k] \in Outputs
        /\ \A k \in DOMAIN results : results[k] \in Items
    BY <1>2
  <2> QED BY <2>1 DEF Outputs, Items
<1>4. InSubmissionOrder'
  <2>1. InSubmissionOrder
    BY DEF IInv
  <2> QED BY <1>1, <2>1 DEF InSubmissionOrder, Answered, Queued
<1>5. /\ \A k \in DOMAIN written : written[k].of <= next'
      /\ \A k \in DOMAIN results : results[k] <= next'
  BY <1>1, <1>2, <1>3
<1> QED BY <1>1, <1>2, <1>4, <1>5 DEF DrainedWell

\* The parts of the invariant that are about the queue and what was published.
LEMMA WellKeeps ==
    ASSUME IInv, DrainedWell(next', barred'), life' = "live", next <= next',
           next' \in 0..MaxItems,
           held' <= next', held' \notin barred',
           \A i \in Items : job'[i] # "none" => i <= next',
           \A i \in disk' \union saved' \union kept' \union barred' : i <= next',
           \A k \in DOMAIN events' : events'[k] <= next'
    PROVE  Numbered' /\ QueueOrdered' /\ InSubmissionOrder' /\ Refused' /\ ReadOnlyHonoured'
<1>1. Numbered'
  BY DEF DrainedWell, Numbered
<1>2. QueueOrdered'
  BY DEF DrainedWell, QueueOrdered, Sorted
<1>3. InSubmissionOrder'
  BY DEF DrainedWell
<1>4. Refused' /\ ReadOnlyHonoured'
  BY DEF DrainedWell, Refused, ReadOnlyHonoured
<1> QED BY <1>1, <1>2, <1>3, <1>4

\* Directories whose owner is gone are reclaimed.
LEMMA ReclaimKeepsOwned ==
    ASSUME IInv, Reclaim(disk), kept' = succeeded', UNCHANGED <<job, saved>>,
           \A k \in DOMAIN events' : \E l \in DOMAIN events : events'[k] = events[l],
           \A k \in DOMAIN queue' :
               queue'[k].ok => queue'[k].id \in disk /\ job[queue'[k].id] = "none",
           \A i \in succeeded' : i \in disk /\ job[i] = "none"
    PROVE  Owned' /\ disk' \subseteq disk
<1>1. Owned
  BY DEF IInv
<1>2. disk' = {i \in disk : i \in kept' \/ job[i] # "none"
                          \/ (\E k \in DOMAIN queue' : queue'[k].id = i)
                          \/ (\E k \in DOMAIN events' : events'[k] = i)}
  BY DEF Reclaim
<1>3. \A i \in Items : job'[i] = "made" => i \in disk'
  BY <1>1, <1>2 DEF Owned
<1>4. \A i \in saved' :
          /\ job'[i] \in {"none", "finished"}
          /\ job'[i] = "finished" \/ (\E k \in DOMAIN events' : events'[k] = i) => i \in disk'
  <2>1. ASSUME NEW i \in saved
        PROVE  /\ job[i] \in {"none", "finished"}
               /\ job[i] = "finished" \/ (\E k \in DOMAIN events : events[k] = i) => i \in disk
    BY <1>1 DEF Owned
  <2>2. ASSUME NEW i \in saved, \E k \in DOMAIN events' : events'[k] = i PROVE i \in disk'
    <3>1. \E k \in DOMAIN events : events[k] = i
      BY <2>2
    <3> QED BY <1>2, <2>1, <2>2, <3>1
  <2>3. ASSUME NEW i \in saved, job[i] = "finished" PROVE i \in disk'
    BY <1>2, <2>1, <2>3
  <2> QED BY <2>1, <2>2, <2>3
<1>5. \A k \in DOMAIN events' : job'[events'[k]] = "none"
  BY <1>1 DEF Owned
<1>6. \A k \in DOMAIN queue' :
          queue'[k].ok => queue'[k].id \in disk' /\ job'[queue'[k].id] = "none"
  BY <1>2
<1>7. \A i \in succeeded' : i \in disk' /\ job'[i] = "none"
  BY <1>2
<1>8. \A i \in disk' : i \in kept' \/ job'[i] # "none" \/ i \in Queued'
                          \/ (\E k \in DOMAIN events' : events'[k] = i)
  BY <1>2 DEF Queued
<1> QED BY <1>2, <1>3, <1>4, <1>5, <1>6, <1>7, <1>8 DEF Owned
\* The rest of the invariant after a file was requested: in both cases the
\* request is a new one, and nothing else is published or dropped.
LEMMA RequestKeeps ==
    ASSUME IInv, next < MaxItems, next' = next + 1, life = "live", UNCHANGED life,
           barred' \in {barred, barred \union {next + 1}},
           UNCHANGED <<events, disk, saved, held>>,
           job' \in {job, [job EXCEPT ![next + 1] = "queued"]},
           DrainedWell(next', barred'),
           kept' = succeeded', succeeded' = succeeded,
           \A k \in DOMAIN queue' : queue'[k].ok =>
               \E l \in DOMAIN queue : queue[l].ok /\ queue'[k].id = queue[l].id,
           \A l \in DOMAIN queue : \E k \in DOMAIN queue' : queue'[k].id = queue[l].id
    PROVE  Numbered' /\ QueueOrdered' /\ InSubmissionOrder' /\ Refused' /\ ReadOnlyHonoured'
           /\ Owned'
<1>1. next + 1 \in Items /\ next \in Nat /\ next + 1 \in 0..MaxItems
  BY NextItem DEF IInv
<1>2. /\ held \in 0..MaxItems /\ disk \subseteq Items /\ saved \subseteq Items
      /\ kept \subseteq Items /\ barred \subseteq Items /\ succeeded \subseteq Items
      /\ events \in Seq(Items) /\ job \in [Items -> JobStates]
  BY DEF IInv, TypeOK
<1>3. Numbered
  BY DEF IInv
<1>4. Owned
  BY DEF IInv
<1>5. \A i \in Int : i <= next => i <= next'
  BY <1>1
<1>6. held' <= next' /\ held' \notin barred'
  <2>1. held \in Int /\ held <= next /\ held # next + 1
    BY <1>1, <1>2, <1>3 DEF Numbered
  <2>2. held \notin barred
    BY DEF IInv, Refused
  <2> QED BY <1>5, <2>1, <2>2
<1>7. \A i \in Items : job'[i] # job[i] => i = next + 1 /\ job'[i] = "queued"
  BY <1>1, <1>2
<1>8. \A i \in Items : job'[i] # "none" => i <= next'
  <2>1. \A i \in Items : i \in Int
    BY DEF Items
  <2> QED BY <1>1, <1>3, <1>5, <1>7, <2>1 DEF Numbered
<1>9. \A i \in disk' \union saved' \union kept' \union barred' : i <= next'
  <2>1. kept' = kept
    BY <1>4 DEF Owned
  <2>2. \A i \in disk \union saved \union kept \union barred : i \in Int /\ i <= next
    BY <1>2, <1>3 DEF Numbered, Items
  <2>3. next' \in Int /\ next' <= next'
    BY <1>1
  <2> QED BY <1>5, <2>1, <2>2, <2>3
<1>10. \A k \in DOMAIN events' : events'[k] <= next'
  <2>1. \A k \in DOMAIN events : events[k] \in Items
    BY <1>2
  <2> QED BY <1>3, <1>5, <2>1 DEF Numbered, Items
<1>11. Numbered' /\ QueueOrdered' /\ InSubmissionOrder' /\ Refused' /\ ReadOnlyHonoured'
  <2>1. life' = "live" /\ next <= next' /\ next' \in 0..MaxItems
    BY <1>1
  <2> QED BY <1>6, <1>8, <1>9, <1>10, <2>1, WellKeeps
<1>12. /\ next + 1 \notin barred \union disk \union saved \union kept
       /\ job[next + 1] = "none"
       /\ \A k \in DOMAIN queue : queue[k].id # next + 1
       /\ \A k \in DOMAIN events : events[k] # next + 1
  BY BarredSubmission
<1>13. Owned'
  <2>1. kept' = succeeded' /\ kept = succeeded
    BY <1>4 DEF Owned
  <2>2. \A i \in Items : job'[i] = "made" => i \in disk'
    BY <1>4, <1>7 DEF Owned
  <2>3. \A i \in saved' : job'[i] = job[i]
    BY <1>2, <1>7, <1>12
  <2>4. \A i \in saved' :
            /\ job'[i] \in {"none", "finished"}
            /\ job'[i] = "finished" \/ (\E k \in DOMAIN events' : events'[k] = i) => i \in disk'
    BY <1>4, <2>3 DEF Owned
  <2>5. \A k \in DOMAIN events' : job'[events'[k]] = "none"
    <3>1. \A k \in DOMAIN events : events[k] \in Items
      BY <1>2
    <3> QED BY <1>4, <1>7, <1>12, <3>1 DEF Owned
  <2>6. \A k \in DOMAIN queue' :
            queue'[k].ok => queue'[k].id \in disk' /\ job'[queue'[k].id] = "none"
    <3>1. ASSUME NEW l \in DOMAIN queue, queue[l].ok
          PROVE  queue[l].id \in disk /\ job'[queue[l].id] = "none"
      <4>1. queue[l].id \in disk /\ job[queue[l].id] = "none" /\ queue[l].id # next + 1
        BY <1>4, <1>12, <3>1 DEF Owned
      <4> QED BY <1>2, <1>7, <4>1
    <3> QED BY <3>1
  <2>7. \A i \in succeeded' : i \in disk' /\ job'[i] = "none"
    BY <1>2, <1>4, <1>7, <1>12, <2>1 DEF Owned
  <2>8. \A i \in disk' : i \in kept' \/ job'[i] # "none" \/ i \in Queued'
                            \/ (\E k \in DOMAIN events' : events'[k] = i)
    <3>1. SUFFICES ASSUME NEW i \in disk
                   PROVE  i \in kept' \/ job'[i] # "none" \/ i \in Queued'
                            \/ (\E k \in DOMAIN events' : events'[k] = i)
      OBVIOUS
    <3>2. job'[i] = job[i]
      BY <1>2, <1>7, <1>12
    <3>3. ASSUME i \in Queued PROVE i \in Queued'
      BY <3>3 DEF Queued
    <3> QED BY <1>4, <2>1, <3>2, <3>3 DEF Owned
  <2> QED BY <2>1, <2>2, <2>4, <2>5, <2>6, <2>7, <2>8 DEF Owned
<1> QED BY <1>11, <1>13

LEMMA WriteTerminalFileKeeps ==
    ASSUME IInv, NEW paste \in BOOLEAN, NEW ready \in BOOLEAN, WriteTerminalFile(paste, ready)
    PROVE  IInv'
<1> DEFINE e == File(next + 1, PasteAllowed(paste))
           q == Append(queue, e)
<1>1. /\ life = "live" /\ next < MaxItems /\ next' = next + 1
      /\ barred' = IF paste /\ readOnly THEN barred \union {next + 1} ELSE barred
      /\ UNCHANGED <<life, pty, readOnly, events, disk, saved, held>>
  BY DEF WriteTerminalFile
<1>2. /\ TypeOK /\ next + 1 \in Items /\ next \in Nat /\ next + 1 \in 0..MaxItems
      /\ barred \subseteq Items /\ readOnly \in BOOLEAN
      /\ queue \in Seq(Effects) /\ Len(queue) \in Nat /\ DOMAIN queue = 1..Len(queue)
      /\ job \in [Items -> JobStates]
  BY <1>1, NextItem DEF IInv, TypeOK
<1>3. /\ e \in Effects /\ e.id = next + 1 /\ e.kind = "file" /\ e.ready = FALSE /\ e.ok = FALSE
      /\ e.paste = (paste /\ ~readOnly)
  BY <1>2 DEF File, PasteAllowed, Effects
<1>4. Drains(q, next', barred')
  <2>1. \A i \in 0..next : i \in barred' => i \in barred
    BY <1>1, <1>2
  <2>2. e.kind = "input" \/ e.paste => e.id \notin barred'
    <3>1. SUFFICES ASSUME paste /\ ~readOnly PROVE next + 1 \notin barred'
      BY <1>3
    <3>2. barred' = barred
      BY <1>1, <3>1
    <3> QED BY <1>1, <3>2, BarredSubmission
  <2>3. Drains(q, next + 1, barred')
    <3> HIDE DEF e
    <3>1. PICK b : b = barred'
      OBVIOUS
    <3> QED BY <1>3, <2>1, <2>2, <3>1, AppendDrains
  <2> QED BY <1>1, <2>3
<1> HIDE DEF e
<1>5. /\ q \in Seq(Effects) /\ Len(q) = Len(queue) + 1 /\ DOMAIN q = 1..(Len(queue) + 1)
      /\ \A k \in DOMAIN queue : q[k] = queue[k]
      /\ q[Len(queue) + 1] = e
      /\ \A k \in DOMAIN q : k \in DOMAIN queue \/ k = Len(queue) + 1
      /\ DOMAIN queue \subseteq DOMAIN q
  BY <1>2, <1>3
<1>6. barred' \in {barred, barred \union {next + 1}}
  BY <1>1
<1>7. Owned /\ QueueOrdered
  BY DEF IInv
<1> HIDE DEF q
<1>8. CASE ready
  <2>1. /\ queue' = q
        /\ job' = [job EXCEPT ![next + 1] = "queued"]
        /\ UNCHANGED <<written, results, succeeded, kept>>
    BY <1>8 DEF WriteTerminalFile, q, e
  <2>2. DrainedWell(next', barred')
    <3>1. q # <<>> => ~q[1].ready
      <4>1. CASE queue = <<>>
        BY <1>2, <1>3, <1>5, <4>1
      <4>2. CASE queue # <<>>
        <5>1. 1 \in DOMAIN queue
          BY <1>2, <4>2
        <5> QED BY <1>5, <1>7, <4>2, <5>1 DEF QueueOrdered
      <4> QED BY <4>1, <4>2
    <3> QED BY <1>4, <2>1, <3>1, QueueGrows
  <2>3. \A k \in DOMAIN q : q[k].ok =>
            \E l \in DOMAIN queue : queue[l].ok /\ q[k].id = queue[l].id
    BY <1>3, <1>5
  <2>4. \A l \in DOMAIN queue : \E k \in DOMAIN q : q[k].id = queue[l].id
    BY <1>5
  <2>5. Numbered' /\ QueueOrdered' /\ InSubmissionOrder' /\ Refused' /\ ReadOnlyHonoured' /\ Owned'
    <3>1. kept' = succeeded' /\ succeeded' = succeeded
      BY <1>7, <2>1 DEF Owned
    <3> QED BY <1>1, <1>6, <2>1, <2>2, <2>3, <2>4, <3>1, RequestKeeps
  <2>6. TypeOK'
    BY <1>1, <1>2, <1>5, <2>1 DEF TypeOK, JobStates
  <2> QED BY <2>5, <2>6 DEF IInv
<1>9. CASE ~ready
  <2> DEFINE c == Completed(q, next + 1, FALSE)
  <2>1. Drain(c) /\ UNCHANGED job
    BY <1>9 DEF WriteTerminalFile, CompleteEffect, q, e
  <2>2. Completes(c, q, next + 1, FALSE)
    BY <1>5, CompletedOf
  <2>3. Drains(c, next', barred')
    <3>1. PICK m : m = next'
      OBVIOUS
    <3>2. PICK b : b = barred'
      OBVIOUS
    <3> QED BY <1>4, <3>1, <3>2, CompletedDrains
  <2> HIDE DEF c
  <2>4. PICK n \in 0..Len(c) : Drained(c, n)
    BY <1>2, <2>1, <2>3, DrainDrains DEF Drains
  <2>5. /\ c \in Seq(Effects) /\ Len(c) = Len(queue) + 1 /\ DOMAIN c = 1..(Len(queue) + 1)
        /\ \A k \in DOMAIN queue : c[k] = queue[k]
        /\ c[Len(queue) + 1].id = next + 1 /\ c[Len(queue) + 1].ok = FALSE
        /\ c[Len(queue) + 1].ready = TRUE
    <3>1. \A k \in DOMAIN queue : queue[k].id # next + 1
      BY <1>1, BarredSubmission
    <3>2. Len(queue) + 1 \in DOMAIN q
      BY <1>2, <1>5
    <3> QED BY <1>3, <1>5, <2>2, <3>1, <3>2 DEF Completes
  <2>6. queue # <<>> => n = 0
    <3>1. SUFFICES ASSUME queue # <<>>, n # 0 PROVE FALSE
      OBVIOUS
    <3>2. 1 \in DOMAIN queue /\ 1 \in 1..n
      BY <1>2, <2>4, <2>5, <3>1
    <3>3. c[1].ready /\ c[1] = queue[1]
      BY <2>4, <2>5, <3>2 DEF Drained
    <3> QED BY <1>7, <3>1, <3>3 DEF QueueOrdered
  <2>7. SuccessesIn(c, n) = {}
    <3>1. SUFFICES ASSUME NEW k \in 1..n, c[k].ok PROVE FALSE
      BY DEF SuccessesIn
    <3>2. n \in Nat /\ n # 0
      BY <1>2, <2>4, <2>5
    <3>3. queue = <<>> /\ n <= Len(queue) + 1
      BY <1>2, <2>4, <2>5, <2>6, <3>2
    <3>4. k = Len(queue) + 1
      BY <1>2, <3>2, <3>3
    <3> QED BY <2>5, <3>1, <3>4
  <2>8. /\ succeeded' = succeeded /\ kept' = succeeded' /\ kept' = kept
        /\ QueueFrom(c, n)
    BY <1>7, <2>4, <2>7 DEF Drained, Owned
  <2>9. DrainedWell(next', barred')
    <3>1. PICK m : m = next'
      OBVIOUS
    <3>2. PICK b : b = barred'
      OBVIOUS
    <3>3. DrainedWell(m, b)
      BY <2>3, <2>4, <3>1, <3>2, DrainsWell DEF IInv
    <3> QED BY <3>1, <3>2, <3>3
  <2>10. PICK u : u = queue'
    OBVIOUS
  <2>11. /\ DOMAIN u = 1..(Len(queue) + 1 - n)
         /\ \A k \in 1..(Len(queue) + 1 - n) : u[k] = c[n + k]
    <3>1. /\ u \in Seq(Effects) /\ Len(u) = Len(c) - n
          /\ \A k \in 1..(Len(c) - n) : u[k] = c[n + k]
      BY <2>8, <2>10 DEF QueueFrom
    <3>2. DOMAIN u = 1..Len(u)
      BY <3>1
    <3> QED BY <2>5, <3>1, <3>2
  <2>12. \A k \in DOMAIN u : u[k].ok =>
             \E l \in DOMAIN queue : queue[l].ok /\ u[k].id = queue[l].id
    <3>1. SUFFICES ASSUME NEW k \in DOMAIN u, u[k].ok
                   PROVE  \E l \in DOMAIN queue : queue[l].ok /\ u[k].id = queue[l].id
      OBVIOUS
    <3>2. n + k \in DOMAIN c /\ u[k] = c[n + k]
      BY <1>2, <2>4, <2>5, <2>11
    <3>3. n + k # Len(queue) + 1
      BY <2>5, <3>1, <3>2
    <3>4. n + k \in DOMAIN queue
      BY <1>2, <2>5, <3>2, <3>3
    <3> QED BY <2>5, <3>1, <3>2, <3>4
  <2>13. \A l \in DOMAIN queue : \E k \in DOMAIN u : u[k].id = queue[l].id
    <3>1. SUFFICES ASSUME NEW l \in DOMAIN queue PROVE \E k \in DOMAIN u : u[k].id = queue[l].id
      OBVIOUS
    <3>2. n = 0 /\ l \in Nat
      BY <1>2, <2>6
    <3>3. l \in DOMAIN u /\ u[l] = c[l]
      BY <1>2, <2>11, <3>2
    <3> QED BY <2>5, <3>3
  <2>14. Numbered' /\ QueueOrdered' /\ InSubmissionOrder' /\ Refused' /\ ReadOnlyHonoured' /\ Owned'
    BY <1>1, <1>6, <2>1, <2>8, <2>9, <2>10, <2>12, <2>13, RequestKeeps
  <2>15. TypeOK'
    <3>1. queue' \in Seq(Effects) /\ written' \in Seq(Outputs) /\ results' \in Seq(Items)
      BY <2>9 DEF DrainedWell
    <3> QED BY <1>1, <1>2, <2>1, <2>8, <3>1 DEF TypeOK
  <2> QED BY <2>14, <2>15 DEF IInv
<1> QED BY <1>8, <1>9
\* One output: it is the last of what is written, unless the PTY is closed.
LEMMA WritesOne ==
    ASSUME TypeOK, NEW x \in Outputs, written' = Writes(<<x>>)
    PROVE  /\ written' \in Seq(Outputs)
           /\ \/ written' = written
              \/ written' = Append(written, x)
<1>1. written \in Seq(Outputs)
  BY DEF TypeOK
<1>2. written \o <<x>> = Append(written, x) /\ written \o <<x>> \in Seq(Outputs)
      /\ written \o <<>> = written
  BY <1>1
<1>3. written' = IF pty THEN written \o <<x>> ELSE written
  BY DEF Writes
<1> QED BY <1>1, <1>2, <1>3

\* Nothing is published.
LEMMA SameOrder ==
    ASSUME InSubmissionOrder, UNCHANGED <<queue, results, written>>
    PROVE  /\ InSubmissionOrder'
           /\ \A k \in DOMAIN written' : \E l \in DOMAIN written : written'[k] = written[l]
<1>1. InSubmissionOrder'
  BY DEF InSubmissionOrder, Answered, Queued
<1> QED BY <1>1

\* What appending one output does to the order and to the policy.
LEMMA AppendKeeps ==
    ASSUME IInv, NEW x \in Outputs, written' = Append(written, x),
           UNCHANGED <<queue, results>>,
           x.kind = "bytes" => queue = <<>> /\ next < x.of
    PROVE  /\ InSubmissionOrder'
           /\ \A k \in DOMAIN written' :
                 (\E l \in DOMAIN written : written'[k] = written[l]) \/ written'[k] = x
<1>1. /\ written \in Seq(Outputs) /\ Len(written) \in Nat /\ DOMAIN written = 1..Len(written)
      /\ next \in Nat /\ InSubmissionOrder /\ queue \in Seq(Effects)
      /\ \A k \in DOMAIN written : written[k].of <= next
  BY DEF IInv, TypeOK, Numbered
<1>2. PICK w : w = written'
  OBVIOUS
<1>3. /\ DOMAIN w = 1..(Len(written) + 1)
      /\ \A k \in DOMAIN written : w[k] = written[k]
      /\ w[Len(written) + 1] = x
  BY <1>1, <1>2
<1>4. \A k \in DOMAIN w : k \in DOMAIN written \/ k = Len(written) + 1
  BY <1>1, <1>3
<1>5. \A k \in DOMAIN written : written[k].of \in Nat
  <2>1. \A k \in DOMAIN written : written[k] \in Outputs
    BY <1>1
  <2> QED BY <2>1 DEF Outputs, Items
<1>6. x.of \in Nat
  BY DEF Outputs, Items
<1>7. \A i, j \in DOMAIN w :
          i < j /\ w[i].kind = "bytes" /\ w[j].kind = "bytes" => w[i].of < w[j].of
  <2>1. SUFFICES ASSUME NEW i \in DOMAIN w, NEW j \in DOMAIN w, i < j,
                        w[i].kind = "bytes", w[j].kind = "bytes"
                 PROVE  w[i].of < w[j].of
    OBVIOUS
  <2>2. i \in DOMAIN written
    BY <1>1, <1>3, <2>1
  <2>3. CASE j \in DOMAIN written
    BY <1>1, <1>3, <2>1, <2>2, <2>3 DEF InSubmissionOrder
  <2>4. CASE j = Len(written) + 1
    <3>1. written[i].of <= next /\ w[i] = written[i] /\ w[j] = x /\ next < x.of
      BY <1>1, <1>3, <2>1, <2>2, <2>4
    <3> QED BY <1>1, <1>5, <1>6, <2>2, <3>1
  <2> QED BY <1>4, <2>3, <2>4
<1>8. \A i \in DOMAIN w, k \in DOMAIN queue : w[i].kind = "bytes" => w[i].of < queue[k].id
  <2>1. SUFFICES ASSUME NEW i \in DOMAIN w, NEW k \in DOMAIN queue, w[i].kind = "bytes"
                 PROVE  w[i].of < queue[k].id
    OBVIOUS
  <2>2. CASE i \in DOMAIN written
    BY <1>1, <1>3, <2>1, <2>2 DEF InSubmissionOrder, Queued
  <2>3. CASE i = Len(written) + 1
    BY <1>3, <2>1, <2>3
  <2> QED BY <1>4, <2>2, <2>3
<1>9. InSubmissionOrder'
  BY <1>1, <1>2, <1>7, <1>8 DEF InSubmissionOrder, Answered, Queued
<1>10. \A k \in DOMAIN w : (\E l \in DOMAIN written : w[k] = written[l]) \/ w[k] = x
  BY <1>3, <1>4
<1> QED BY <1>2, <1>9, <1>10

\* Ownership is about the requests and what the queue holds of them.
LEMMA SameOwned ==
    ASSUME Owned, UNCHANGED <<job, events, disk, saved, kept, succeeded>>,
           \A k \in DOMAIN queue' : queue'[k].ok =>
               \E l \in DOMAIN queue : queue[l].ok /\ queue'[k].id = queue[l].id,
           \A l \in DOMAIN queue : \E k \in DOMAIN queue' : queue'[k].id = queue[l].id
    PROVE  Owned'
<1>1. Queued \subseteq Queued'
  BY DEF Queued
<1>2. \A k \in DOMAIN queue' :
          queue'[k].ok => queue'[k].id \in disk' /\ job'[queue'[k].id] = "none"
  BY DEF Owned
<1> QED BY <1>1, <1>2 DEF Owned

LEMMA SendInputKeeps ==
    ASSUME IInv, NEW what \in {"down", "up", "other"}, SendInput(what)
    PROVE  IInv'
<1> DEFINE e == Input(next + 1)
<1>1. /\ life = "live" /\ next < MaxItems /\ next' = next + 1
      /\ held' \in {next + 1, 0, held}
      /\ UNCHANGED <<life, pty, readOnly, job, events, disk, saved, kept, results,
                     succeeded, barred>>
  BY DEF SendInput, HeldAfter
<1>2. /\ TypeOK /\ next + 1 \in Items /\ next \in Nat /\ next + 1 \in 0..MaxItems
      /\ held \in 0..MaxItems /\ barred \subseteq Items
      /\ queue \in Seq(Effects) /\ Len(queue) \in Nat /\ DOMAIN queue = 1..Len(queue)
  BY <1>1, NextItem DEF IInv, TypeOK
<1>3. e \in Effects /\ e.id = next + 1 /\ e.kind = "input" /\ e.ok = FALSE
  BY <1>2 DEF Input, Effects
<1>4. next + 1 \notin barred
  BY <1>1, BarredSubmission
<1>5. held' \in 0..MaxItems /\ held' <= next' /\ held' \notin barred'
  <2>1. held <= next /\ held \notin barred /\ 0 \notin barred
    BY <1>2 DEF IInv, Numbered, Refused, Items
  <2>2. 0 \in 0..MaxItems /\ 0 <= next + 1 /\ held <= next + 1 /\ next + 1 <= next + 1
    BY <1>2, <2>1, OrderedEffectsAssumption
  <2>3. \A h \in {next + 1, 0, held} : h \in 0..MaxItems /\ h <= next + 1 /\ h \notin barred
    BY <1>2, <1>4, <2>1, <2>2
  <2> QED BY <1>1, <2>3
<1>6. Numbered /\ Owned /\ QueueOrdered /\ Refused /\ ReadOnlyHonoured
  BY DEF IInv
<1>7. /\ \A i \in Items : job'[i] # "none" => i <= next'
      /\ \A i \in disk' \union saved' \union kept' \union barred' : i <= next'
      /\ \A k \in DOMAIN events' : events'[k] <= next'
  <2>1. \A i \in Int : i <= next => i <= next'
    BY <1>1, <1>2
  <2>2. /\ \A i \in disk \union saved \union kept \union barred : i \in Int
        /\ \A k \in DOMAIN events : events[k] \in Int
        /\ \A i \in Items : i \in Int
    <3>1. \A k \in DOMAIN events : events[k] \in Items
      BY DEF IInv, TypeOK
    <3>2. disk \subseteq Items /\ saved \subseteq Items /\ kept \subseteq Items
      BY DEF IInv, TypeOK
    <3> QED BY <1>2, <3>1, <3>2 DEF Items
  <2> QED BY <1>1, <1>6, <2>1, <2>2 DEF Numbered
<1>8. CASE queue # <<>>
  <2> DEFINE q == Append(queue, e)
  <2>1. queue' = q /\ UNCHANGED written
    BY <1>8 DEF SendInput
  <2>2. Drains(q, next', barred')
    <3>1. Drains(q, next + 1, barred)
      <4> HIDE DEF e
      <4> QED BY <1>3, <1>4, AppendDrains
    <3> QED BY <1>1, <3>1
  <2> HIDE DEF e
  <2>3. /\ q \in Seq(Effects) /\ DOMAIN q = 1..(Len(queue) + 1)
        /\ \A k \in DOMAIN queue : q[k] = queue[k]
        /\ q[Len(queue) + 1] = e
        /\ \A k \in DOMAIN q : k \in DOMAIN queue \/ k = Len(queue) + 1
        /\ DOMAIN queue \subseteq DOMAIN q
        /\ 1 \in DOMAIN queue
    BY <1>2, <1>3, <1>8
  <2> HIDE DEF q
  <2>4. ~q[1].ready
    BY <1>6, <1>8, <2>3 DEF QueueOrdered
  <2>5. DrainedWell(next', barred')
    BY <1>1, <2>1, <2>2, <2>4, QueueGrows
  <2>6. Numbered' /\ QueueOrdered' /\ InSubmissionOrder' /\ Refused' /\ ReadOnlyHonoured'
    <3>1. life' = "live" /\ next <= next' /\ next' \in 0..MaxItems
      BY <1>1, <1>2
    <3> QED BY <1>5, <1>7, <2>5, <3>1, WellKeeps
  <2>7. /\ \A k \in DOMAIN q : q[k].ok =>
              \E l \in DOMAIN queue : queue[l].ok /\ q[k].id = queue[l].id
        /\ \A l \in DOMAIN queue : \E k \in DOMAIN q : q[k].id = queue[l].id
    BY <1>3, <2>3
  <2>8. Owned'
    BY <1>1, <1>6, <2>1, <2>7, SameOwned
  <2>9. TypeOK'
    BY <1>1, <1>2, <1>5, <2>1, <2>3 DEF TypeOK
  <2> QED BY <2>6, <2>8, <2>9 DEF IInv
<1>9. CASE queue = <<>>
  <2>1. written' = Writes(<<Byte(next + 1)>>) /\ UNCHANGED queue
    BY <1>9 DEF SendInput
  <2>2. Byte(next + 1) \in Outputs /\ Byte(next + 1).of = next + 1
    BY <1>2 DEF Byte, Outputs
  <2>3. PICK x \in Outputs : x = Byte(next + 1)
    BY <2>2
  <2>4. /\ written' \in Seq(Outputs)
        /\ written' = written \/ written' = Append(written, x)
    BY <1>2, <2>1, <2>3, WritesOne
  <2>5. /\ InSubmissionOrder'
        /\ \A k \in DOMAIN written' :
              (\E l \in DOMAIN written : written'[k] = written[l]) \/ written'[k] = x
    <3>1. CASE written' = written
      <4>1. InSubmissionOrder /\ UNCHANGED <<queue, results, written>>
        BY <1>1, <2>1, <3>1 DEF IInv
      <4> QED BY <4>1, SameOrder
    <3>2. CASE written' = Append(written, x)
      <4>1. x.kind = "bytes" => queue = <<>> /\ next < x.of
        BY <1>2, <1>9, <2>2, <2>3
      <4>2. UNCHANGED <<queue, results>>
        BY <1>1, <2>1
      <4> QED BY <3>2, <4>1, <4>2, AppendKeeps
    <3> QED BY <2>4, <3>1, <3>2
  <2>6. \A k \in DOMAIN written' : written'[k].of <= next' /\ written'[k].of \notin barred'
    <3>1. \A k \in DOMAIN written :
              written[k].of \in Nat /\ written[k].of <= next /\ written[k].of \notin barred
      <4>1. \A k \in DOMAIN written : written[k] \in Outputs
        BY <1>2 DEF TypeOK
      <4> QED BY <1>6, <4>1 DEF Numbered, ReadOnlyHonoured, Outputs, Items
    <3>2. \A k \in DOMAIN written :
              written[k].of <= next' /\ written[k].of \notin barred'
      BY <1>1, <1>2, <3>1
    <3>3. x.of <= next' /\ x.of \notin barred'
      BY <1>1, <1>2, <1>4, <2>2, <2>3
    <3> QED BY <2>5, <3>2, <3>3
  <2>7. \A k \in DOMAIN results' : results'[k] <= next'
    <3>1. \A k \in DOMAIN results : results[k] \in Items
      BY DEF IInv, TypeOK
    <3> QED BY <1>1, <1>2, <1>6, <3>1 DEF Numbered, Items
  <2>8. Numbered' /\ QueueOrdered' /\ Refused' /\ ReadOnlyHonoured'
    BY <1>1, <1>5, <1>6, <1>7, <1>9, <2>1, <2>6, <2>7
       DEF Numbered, QueueOrdered, Refused, ReadOnlyHonoured
  <2>9. Owned'
    BY <1>1, <1>6, <2>1, SameOwned
  <2>10. TypeOK'
    BY <1>1, <1>2, <1>5, <2>1, <2>4 DEF TypeOK
  <2> QED BY <2>5, <2>8, <2>9, <2>10 DEF IInv
<1> QED BY <1>8, <1>9

LEMMA FocusLostKeeps ==
    ASSUME IInv, FocusLost
    PROVE  IInv'
<1>1. /\ held # 0 /\ held' = 0
      /\ written' = Writes(<<[kind |-> "release", of |-> held]>>)
      /\ UNCHANGED <<life, pty, readOnly, next, queue, job, events, disk, saved,
                     kept, results, succeeded, barred>>
  BY DEF FocusLost
<1>2. TypeOK /\ held \in 0..MaxItems /\ next \in Nat /\ barred \subseteq Items
  BY DEF IInv, TypeOK
<1>3. Numbered /\ Owned /\ QueueOrdered /\ Refused /\ ReadOnlyHonoured /\ InSubmissionOrder
  BY DEF IInv
<1>4. PICK x \in Outputs : x = [kind |-> "release", of |-> held]
  BY <1>1, <1>2 DEF Outputs, Items
<1>5. x.kind = "release" /\ x.of = held
  BY <1>4
<1>6. /\ written' \in Seq(Outputs)
      /\ written' = written \/ written' = Append(written, x)
  BY <1>1, <1>2, <1>4, WritesOne
<1>7. /\ InSubmissionOrder'
      /\ \A k \in DOMAIN written' :
            (\E l \in DOMAIN written : written'[k] = written[l]) \/ written'[k] = x
  <2>1. CASE written' = written
    <3>1. UNCHANGED <<queue, results, written>>
      BY <1>1, <2>1
    <3> QED BY <1>3, <3>1, SameOrder
  <2>2. CASE written' = Append(written, x)
    <3>1. x.kind = "bytes" => queue = <<>> /\ next < x.of
      BY <1>5
    <3>2. UNCHANGED <<queue, results>>
      BY <1>1
    <3> QED BY <2>2, <3>1, <3>2, AppendKeeps
  <2> QED BY <1>6, <2>1, <2>2
<1>8. \A k \in DOMAIN written' : written'[k].of <= next' /\ written'[k].of \notin barred'
  BY <1>1, <1>3, <1>5, <1>7 DEF Numbered, ReadOnlyHonoured, Refused
<1>9. Numbered' /\ QueueOrdered' /\ Refused' /\ ReadOnlyHonoured'
  <2>1. 0 <= next /\ 0 \notin barred
    BY <1>2 DEF Items
  <2> QED BY <1>1, <1>3, <1>8, <2>1 DEF Numbered, QueueOrdered, Refused, ReadOnlyHonoured
<1>10. Owned'
  BY <1>1, <1>3, SameOwned
<1>11. TypeOK'
  BY <1>1, <1>2, <1>6, OrderedEffectsAssumption DEF TypeOK
<1> QED BY <1>7, <1>9, <1>10, <1>11 DEF IInv
\* Steps that leave the queue and what was published alone, or empty the queue at
\* the end of the session.
LEMMA QuietKeeps ==
    ASSUME IInv, UNCHANGED <<next, written, results, barred>>,
           queue' = queue \/ queue' = <<>>,
           life' # "live" => queue' = <<>>,
           held' \in {held, 0},
           \A i \in Items : job'[i] # "none" => job[i] # "none",
           \A i \in disk' \union saved' \union kept' : i <= next,
           \A k \in DOMAIN events' : events'[k] <= next
    PROVE  Numbered' /\ QueueOrdered' /\ InSubmissionOrder' /\ Refused' /\ ReadOnlyHonoured'
<1>1. Numbered /\ QueueOrdered /\ InSubmissionOrder /\ Refused /\ ReadOnlyHonoured
      /\ next \in Nat /\ barred \subseteq Items
  BY DEF IInv, TypeOK
<1>2. held' <= next /\ held' \notin barred
  <2>1. 0 <= next /\ 0 \notin barred
    BY <1>1 DEF Items
  <2> QED BY <1>1, <2>1 DEF Numbered, Refused
<1>3. Numbered'
  <2>1. \A k \in DOMAIN queue' : queue'[k].id <= next'
    BY <1>1 DEF Numbered
  <2>2. \A i \in Items : job'[i] # "none" => i <= next'
    BY <1>1 DEF Numbered
  <2>3. \A i \in disk' \union saved' \union kept' \union barred' : i <= next'
    BY <1>1 DEF Numbered
  <2> QED BY <1>1, <1>2, <2>1, <2>2, <2>3 DEF Numbered
<1>4. QueueOrdered'
  BY <1>1 DEF QueueOrdered
<1>5. InSubmissionOrder'
  <2>1. Queued' \subseteq Queued /\ Answered' = Answered
    BY DEF Queued, Answered
  <2> QED BY <1>1, <2>1 DEF InSubmissionOrder
<1>6. Refused' /\ ReadOnlyHonoured'
  BY <1>1, <1>2 DEF Refused, ReadOnlyHonoured
<1> QED BY <1>3, <1>4, <1>5, <1>6

LEMMA PlainKeeps ==
    ASSUME IInv, SetReadOnly \/ ChildExit \/ ShutdownEnds
    PROVE  IInv'
<1>1. /\ UNCHANGED <<next, queue, job, events, disk, saved, kept, written, results,
                     succeeded, barred>>
      /\ held' \in {held, 0} /\ pty' \in BOOLEAN /\ readOnly' \in BOOLEAN
      /\ life' = life \/ (life = "stopping" /\ life' = "gone")
  BY DEF SetReadOnly, ChildExit, ShutdownEnds, IInv, TypeOK
<1>2. /\ TypeOK /\ Owned /\ QueueOrdered
      /\ \A i \in disk \union saved \union kept : i <= next
      /\ \A k \in DOMAIN events : events[k] <= next
  BY DEF IInv, Numbered
<1>3. life' # "live" => queue' = <<>>
  BY <1>1, <1>2 DEF QueueOrdered
<1>4. Numbered' /\ QueueOrdered' /\ InSubmissionOrder' /\ Refused' /\ ReadOnlyHonoured'
  BY <1>1, <1>2, <1>3, QuietKeeps
<1>5. Owned'
  BY <1>1, <1>2, SameOwned
<1>6. TypeOK'
  BY <1>1, <1>2, OrderedEffectsAssumption DEF TypeOK
<1> QED BY <1>4, <1>5, <1>6 DEF IInv

LEMMA ShutdownKeeps ==
    ASSUME IInv, Shutdown
    PROVE  IInv'
<1>1. /\ life' = "stopping" /\ queue' = <<>> /\ Reclaim(disk)
      /\ UNCHANGED <<pty, readOnly, next, job, saved, written, results, succeeded,
                     barred, held, kept, events>>
  BY DEF Shutdown
<1>2. /\ TypeOK /\ Owned /\ disk \subseteq Items
      /\ \A i \in disk \union saved \union kept : i <= next
      /\ \A k \in DOMAIN events : events[k] <= next
  BY DEF IInv, Numbered, TypeOK
<1>3. Owned' /\ disk' \subseteq disk
  <2>1. \A i \in succeeded' : i \in disk /\ job[i] = "none"
    BY <1>1, <1>2 DEF Owned
  <2>2. kept' = succeeded'
    BY <1>1, <1>2 DEF Owned
  <2>3. DOMAIN queue' = {}
    BY <1>1
  <2> QED BY <1>1, <2>1, <2>2, <2>3, ReclaimKeepsOwned
<1>4. Numbered' /\ QueueOrdered' /\ InSubmissionOrder' /\ Refused' /\ ReadOnlyHonoured'
  BY <1>1, <1>2, <1>3, QuietKeeps
<1>5. TypeOK'
  BY <1>1, <1>2, <1>3 DEF TypeOK
<1> QED BY <1>3, <1>4, <1>5 DEF IInv

LEMMA CompletionKeeps ==
    ASSUME IInv, Completion
    PROVE  IInv'
<1> DEFINE i == Head(events)
           c == Completed(queue, i, i \in saved)
<1>1. /\ events # <<>> /\ events' = Tail(events) /\ Reclaim(disk)
      /\ UNCHANGED <<life, pty, readOnly, next, job, saved, barred, held>>
  BY DEF Completion
<1>2. /\ TypeOK /\ Owned /\ QueueOrdered /\ disk \subseteq Items /\ next \in Nat
      /\ events \in Seq(Items) /\ queue \in Seq(Effects)
      /\ saved \subseteq Items /\ kept \subseteq Items /\ barred \subseteq Items
      /\ \A d \in disk \union saved \union kept : d <= next
      /\ \A k \in DOMAIN events : events[k] <= next
      /\ held <= next /\ held \notin barred
  BY DEF IInv, Numbered, TypeOK, Refused
<1>3. /\ i \in Items /\ events' \in Seq(Items) /\ 1 \in DOMAIN events /\ events[1] = i
      /\ \A k \in DOMAIN events' : \E l \in DOMAIN events : events'[k] = events[l]
  <2>1. PICK v : v = events'
    OBVIOUS
  <2>2. /\ Len(events) \in Nat /\ DOMAIN events = 1..Len(events) /\ Len(events) # 0
        /\ i = events[1] /\ v \in Seq(Items) /\ DOMAIN v = 1..(Len(events) - 1)
        /\ \A k \in DOMAIN v : v[k] = events[k + 1]
    BY <1>1, <1>2, <2>1
  <2>3. \A k \in DOMAIN v : k + 1 \in DOMAIN events
    BY <2>2
  <2>4. 1 \in DOMAIN events /\ events[1] \in Items
    BY <1>2, <2>2
  <2> QED BY <2>1, <2>2, <2>3, <2>4
<1> HIDE DEF i
<1>4. \A k \in DOMAIN events' : events'[k] <= next
  BY <1>2, <1>3
<1>5. i \in saved => i \in disk /\ job[i] = "none"
  BY <1>2, <1>3 DEF Owned
<1>6. CASE life = "live"
  <2>1. Drain(c)
    BY <1>6 DEF Completion, Cancelled, CompleteEffect, c, i
  <2>2. Completes(c, queue, i, i \in saved)
    <3>1. (i \in saved) \in BOOLEAN
      OBVIOUS
    <3> QED BY <1>2, <3>1, CompletedOf
  <2>3. Drains(c, next', barred')
    <3>1. Drains(queue, next', barred')
      BY <1>1, QueueDrains
    <3>2. PICK m : m = next'
      OBVIOUS
    <3>3. PICK b : b = barred'
      OBVIOUS
    <3>4. (i \in saved) \in BOOLEAN
      OBVIOUS
    <3> QED BY <3>1, <3>2, <3>3, <3>4, CompletedDrains
  <2> HIDE DEF c
  <2>4. PICK n \in 0..Len(c) : Drained(c, n)
    BY <1>2, <2>1, <2>3, DrainDrains DEF Drains
  <2>5. DrainedWell(next', barred')
    <3>1. PICK m : m = next'
      OBVIOUS
    <3>2. PICK b : b = barred'
      OBVIOUS
    <3>3. DrainedWell(m, b)
      BY <2>3, <2>4, <3>1, <3>2, DrainsWell DEF IInv
    <3> QED BY <3>1, <3>2, <3>3
  <2>6. \A k \in DOMAIN c : c[k].ok => c[k].id \in disk /\ job[c[k].id] = "none"
    <3>1. SUFFICES ASSUME NEW k \in DOMAIN c, c[k].ok
                   PROVE  c[k].id \in disk /\ job[c[k].id] = "none"
      OBVIOUS
    <3>2. k \in DOMAIN queue
      BY <2>2 DEF Completes
    <3>3. CASE queue[k].id = i
      BY <1>5, <2>2, <3>1, <3>2, <3>3 DEF Completes
    <3>4. CASE queue[k].id # i
      BY <1>2, <2>2, <3>1, <3>2, <3>4 DEF Completes, Owned
    <3> QED BY <3>3, <3>4
  <2>7. /\ c \in Seq(Effects) /\ Len(c) \in Nat /\ n \in 0..Len(c) /\ DOMAIN c = 1..Len(c)
    BY <2>2, <2>4 DEF Completes
  <2>8. \A k \in DOMAIN queue' :
            queue'[k].ok => queue'[k].id \in disk /\ job[queue'[k].id] = "none"
    <3>1. PICK u : u = queue'
      OBVIOUS
    <3>2. /\ DOMAIN u = 1..(Len(c) - n)
          /\ \A k \in 1..(Len(c) - n) : u[k] = c[n + k]
      BY <2>4, <2>7, <3>1 DEF Drained, QueueFrom
    <3>3. \A k \in 1..(Len(c) - n) : n + k \in DOMAIN c
      BY <2>7
    <3> QED BY <2>6, <3>1, <3>2, <3>3
  <2>9. \A d \in SuccessesIn(c, n) : d \in disk /\ job[d] = "none"
    <3>1. \A k \in 1..n : k \in DOMAIN c
      BY <2>7
    <3> QED BY <2>6, <3>1 DEF SuccessesIn
  <2>10. kept' = succeeded' /\ \A d \in succeeded' : d \in disk /\ job[d] = "none"
    BY <1>2, <2>4, <2>9 DEF Drained, Owned
  <2>11. Owned' /\ disk' \subseteq disk
    BY <1>1, <1>3, <2>8, <2>10, ReclaimKeepsOwned
  <2>12. Numbered' /\ QueueOrdered' /\ InSubmissionOrder' /\ Refused' /\ ReadOnlyHonoured'
    <3>1. next' = next /\ barred' = barred /\ life' = "live" /\ next <= next'
          /\ next' \in 0..MaxItems
      BY <1>1, <1>2, <1>6 DEF TypeOK
    <3>2. \A d \in Items : job'[d] # "none" => d <= next'
      BY <1>1 DEF IInv, Numbered
    <3>3. \A d \in disk' \union saved' \union kept' \union barred' : d <= next'
      <4>1. kept' \subseteq disk
        BY <2>10
      <4>2. \A d \in barred : d <= next
        BY DEF IInv, Numbered
      <4> QED BY <1>1, <1>2, <2>11, <4>1, <4>2
    <3>4. held' <= next' /\ held' \notin barred'
      BY <1>1, <1>2
    <3>5. \A k \in DOMAIN events' : events'[k] <= next'
      BY <1>1, <1>4
    <3> QED BY <2>5, <3>1, <3>2, <3>3, <3>4, <3>5, WellKeeps
  <2>13. TypeOK'
    <3>1. queue' \in Seq(Effects) /\ written' \in Seq(Outputs) /\ results' \in Seq(Items)
      BY <2>5 DEF DrainedWell
    <3>2. kept' \subseteq Items /\ succeeded' \subseteq Items /\ disk' \subseteq Items
      BY <1>2, <2>10, <2>11
    <3> QED BY <1>1, <1>2, <1>3, <3>1, <3>2 DEF TypeOK
  <2> QED BY <2>11, <2>12, <2>13 DEF IInv
<1>7. CASE life # "live"
  <2>1. UNCHANGED <<queue, written, results, succeeded, kept>>
    BY <1>7 DEF Completion, Cancelled
  <2>2. queue = <<>> /\ DOMAIN queue' = {}
    BY <1>2, <1>7, <2>1 DEF QueueOrdered
  <2>3. kept' = succeeded' /\ \A d \in succeeded' : d \in disk /\ job[d] = "none"
    BY <1>2, <2>1 DEF Owned
  <2>4. Owned' /\ disk' \subseteq disk
    BY <1>1, <1>3, <2>2, <2>3, ReclaimKeepsOwned
  <2>5. Numbered' /\ QueueOrdered' /\ InSubmissionOrder' /\ Refused' /\ ReadOnlyHonoured'
    BY <1>1, <1>2, <1>4, <2>1, <2>2, <2>4, QuietKeeps
  <2>6. TypeOK'
    BY <1>1, <1>2, <1>3, <2>1, <2>4 DEF TypeOK
  <2> QED BY <2>4, <2>5, <2>6 DEF IInv
<1> QED BY <1>6, <1>7
\* A job's step changes only its own state, directory and completion.
LEMMA JobFrame ==
    ASSUME IInv, NEW i \in Items, job[i] # "none",
           NEW state \in JobStates, OnlyJob(i, state),
           UNCHANGED <<life, pty, readOnly, next, queue, kept, written, results,
                       succeeded, barred, held>>,
           disk' \in {disk, disk \union {i}, disk \ {i}},
           saved' \in {saved, saved \union {i}},
           events' \in {events, Append(events, i)},
           Owned'
    PROVE  IInv'
<1>1. /\ TypeOK /\ Numbered /\ QueueOrdered
      /\ events \in Seq(Items) /\ job \in [Items -> JobStates]
      /\ disk \subseteq Items /\ saved \subseteq Items
  BY DEF IInv, TypeOK
<1>2. i <= next
  BY <1>1 DEF Numbered
<1>3. \A j \in Items : job'[j] # "none" => job[j] # "none"
  BY <1>1 DEF OnlyJob
<1>4. \A j \in disk' \union saved' \union kept' : j <= next
  BY <1>1, <1>2 DEF Numbered
<1>5. events' \in Seq(Items) /\ \A k \in DOMAIN events' : events'[k] <= next
  <2>1. CASE events' = events
    BY <1>1, <2>1 DEF Numbered
  <2>2. CASE events' = Append(events, i)
    <3>1. PICK v : v = events'
      OBVIOUS
    <3>2. /\ v \in Seq(Items) /\ DOMAIN events = 1..Len(events) /\ Len(events) \in Nat
          /\ DOMAIN v = 1..(Len(events) + 1)
          /\ \A k \in DOMAIN events : v[k] = events[k]
          /\ v[Len(events) + 1] = i
      BY <1>1, <2>2, <3>1
    <3>3. \A k \in DOMAIN v : k \in DOMAIN events \/ k = Len(events) + 1
      BY <3>2
    <3> QED BY <1>1, <1>2, <3>1, <3>2, <3>3 DEF Numbered
  <2> QED BY <2>1, <2>2
<1>6. Numbered' /\ QueueOrdered' /\ InSubmissionOrder' /\ Refused' /\ ReadOnlyHonoured'
  <2>1. life' # "live" => queue' = <<>>
    BY <1>1 DEF QueueOrdered
  <2> QED BY <1>3, <1>4, <1>5, <2>1, QuietKeeps
<1>7. TypeOK'
  <2>1. job' \in [Items -> JobStates] /\ disk' \subseteq Items /\ saved' \subseteq Items
    BY <1>1 DEF OnlyJob
  <2> QED BY <1>1, <1>5, <2>1 DEF TypeOK
<1> QED BY <1>6, <1>7 DEF IInv

\* What is known of a request whose job is not done.
LEMMA Working ==
    ASSUME IInv, NEW i \in Items, job[i] # "none"
    PROVE  /\ i \notin succeeded
           /\ \A k \in DOMAIN events : events[k] # i
           /\ \A k \in DOMAIN queue : queue[k].ok => queue[k].id # i
BY DEF IInv, Owned

LEMMA JobKeeps ==
    ASSUME IInv, NEW i \in Items, JobStep(i)
    PROVE  IInv'
<1>1. /\ Owned /\ job \in [Items -> JobStates] /\ disk \subseteq Items /\ saved \subseteq Items
      /\ events \in Seq(Items) /\ queue \in Seq(Effects) /\ succeeded \subseteq Items
      /\ \A k \in DOMAIN queue : queue[k].id \in Items
      /\ \A k \in DOMAIN events : events[k] \in Items
  <2>1. queue \in Seq(Effects) /\ events \in Seq(Items)
    BY DEF IInv, TypeOK
  <2>2. \A k \in DOMAIN queue : queue[k] \in Effects
    BY <2>1
  <2>3. \A k \in DOMAIN queue : queue[k].id \in Items
    BY <2>2 DEF Effects
  <2> QED BY <2>1, <2>3 DEF IInv, TypeOK
<1>2. ASSUME job[i] # "none"
      PROVE  /\ i \notin succeeded
             /\ \A k \in DOMAIN events : events[k] # i
             /\ \A k \in DOMAIN queue : queue[k].ok => queue[k].id # i
  BY <1>2, Working
<1>3. ASSUME NEW state, OnlyJob(i, state)
      PROVE  job'[i] = state /\ \A j \in Items : j # i => job'[j] = job[j]
  BY <1>1, <1>3 DEF OnlyJob
<1>4. CASE JobStarts(i)
  <2>1. PICK state \in {"finished", "checked"} : OnlyJob(i, state)
    BY <1>4 DEF JobStarts
  <2>2. /\ job[i] = "queued" /\ state \in JobStates
        /\ UNCHANGED <<life, pty, readOnly, next, queue, events, disk, saved, kept,
                       written, results, succeeded, barred, held>>
    BY <1>4 DEF JobStarts, JobStates
  <2>3. i \notin saved
    BY <1>1, <2>2 DEF Owned
  <2>4. job'[i] = state /\ \A j \in Items : j # i => job'[j] = job[j]
    BY <1>3, <2>1
  <2>5. Owned'
    <3>1. \A k \in DOMAIN events' : job'[events'[k]] = "none"
      BY <1>1, <1>2, <2>2, <2>4 DEF Owned
    <3>2. \A k \in DOMAIN queue' :
              queue'[k].ok => queue'[k].id \in disk' /\ job'[queue'[k].id] = "none"
      BY <1>1, <1>2, <2>2, <2>4 DEF Owned
    <3>3. \A j \in succeeded' : j \in disk' /\ job'[j] = "none"
      BY <1>1, <1>2, <2>2, <2>4 DEF Owned
    <3>4. \A j \in disk' : j \in kept' \/ job'[j] # "none" \/ j \in Queued'
                             \/ (\E k \in DOMAIN events' : events'[k] = j)
      BY <1>1, <2>2, <2>4 DEF Owned, Queued
    <3>5. \A j \in saved' :
            /\ job'[j] \in {"none", "finished"}
            /\ job'[j] = "finished" \/ (\E k \in DOMAIN events' : events'[k] = j) => j \in disk'
      BY <1>1, <2>2, <2>3, <2>4 DEF Owned
    <3> QED BY <1>1, <2>2, <2>4, <3>1, <3>2, <3>3, <3>4, <3>5 DEF Owned
  <2> QED BY <2>1, <2>2, <2>5, JobFrame
<1>5. CASE JobMakesDirectory(i)
  <2>1. PICK state \in {"finished", "made"} :
            /\ OnlyJob(i, state)
            /\ disk' = IF state = "made" THEN disk \union {i} ELSE disk
    BY <1>5 DEF JobMakesDirectory
  <2>2. /\ job[i] = "checked" /\ state \in JobStates
        /\ UNCHANGED <<life, pty, readOnly, next, queue, events, saved, kept,
                       written, results, succeeded, barred, held>>
        /\ disk \subseteq disk' /\ disk' \subseteq disk \union {i}
        /\ disk' \in {disk, disk \union {i}, disk \ {i}}
    BY <1>5, <2>1 DEF JobMakesDirectory, JobStates
  <2>3. i \notin saved
    BY <1>1, <2>2 DEF Owned
  <2>4. job'[i] = state /\ \A j \in Items : j # i => job'[j] = job[j]
    BY <1>3, <2>1
  <2>5. Owned'
    <3>1. \A k \in DOMAIN events' : job'[events'[k]] = "none"
      BY <1>1, <1>2, <2>2, <2>4 DEF Owned
    <3>2. \A k \in DOMAIN queue' :
              queue'[k].ok => queue'[k].id \in disk' /\ job'[queue'[k].id] = "none"
      BY <1>1, <1>2, <2>2, <2>4 DEF Owned
    <3>3. \A j \in succeeded' : j \in disk' /\ job'[j] = "none"
      BY <1>1, <1>2, <2>2, <2>4 DEF Owned
    <3>4. \A j \in disk' : j \in kept' \/ job'[j] # "none" \/ j \in Queued'
                             \/ (\E k \in DOMAIN events' : events'[k] = j)
      BY <1>1, <2>2, <2>4 DEF Owned, Queued
    <3>5. \A j \in saved' :
            /\ job'[j] \in {"none", "finished"}
            /\ job'[j] = "finished" \/ (\E k \in DOMAIN events' : events'[k] = j) => j \in disk'
      BY <1>1, <2>2, <2>3, <2>4 DEF Owned
    <3>6. \A j \in Items : job'[j] = "made" => j \in disk'
      BY <1>1, <2>1, <2>2, <2>4 DEF Owned
    <3> QED BY <1>1, <2>2, <3>1, <3>2, <3>3, <3>4, <3>5, <3>6 DEF Owned
  <2>6. saved' \in {saved, saved \union {i}} /\ events' \in {events, Append(events, i)}
    BY <2>2
  <2> QED BY <2>1, <2>2, <2>5, <2>6, JobFrame
<1>6. CASE JobWrites(i)
  <2>1. /\ job[i] = "made" /\ OnlyJob(i, "finished") /\ "finished" \in JobStates
        /\ UNCHANGED <<life, pty, readOnly, next, queue, events, kept, written,
                       results, succeeded, barred, held>>
    BY <1>6 DEF JobWrites, JobStates
  <2>2. \/ saved' = saved \union {i} /\ disk' = disk
        \/ saved' = saved /\ disk' \in {disk, disk \ {i}}
    BY <1>6 DEF JobWrites
  <2>3. i \notin saved /\ i \in disk
    BY <1>1, <2>1 DEF Owned
  <2>4. job'[i] = "finished" /\ \A j \in Items : j # i => job'[j] = job[j]
    BY <1>3, <2>1
  <2>5. \A j \in Items : j # i => (j \in disk' <=> j \in disk) /\ (j \in saved' <=> j \in saved)
    BY <2>2
  <2>6. disk' \subseteq Items /\ saved' \subseteq Items /\ (i \in saved' => i \in disk')
    BY <1>1, <2>2, <2>3
  <2>7. Owned'
    <3>1. \A k \in DOMAIN events' : job'[events'[k]] = "none"
      BY <1>1, <1>2, <2>1, <2>4 DEF Owned
    <3>2. \A k \in DOMAIN queue' :
              queue'[k].ok => queue'[k].id \in disk' /\ job'[queue'[k].id] = "none"
      BY <1>1, <1>2, <2>1, <2>4, <2>5 DEF Owned
    <3>3. \A j \in succeeded' : j \in disk' /\ job'[j] = "none"
      BY <1>1, <1>2, <2>1, <2>4, <2>5 DEF Owned
    <3>4. \A j \in disk' : j \in kept' \/ job'[j] # "none" \/ j \in Queued'
                             \/ (\E k \in DOMAIN events' : events'[k] = j)
      <4>1. SUFFICES ASSUME NEW j \in disk', j # i
                     PROVE  j \in kept' \/ job'[j] # "none" \/ j \in Queued'
                             \/ (\E k \in DOMAIN events' : events'[k] = j)
        BY <2>4
      <4>2. j \in disk /\ job'[j] = job[j]
        BY <2>4, <2>5, <2>6, <4>1
      <4> QED BY <1>1, <2>1, <4>2 DEF Owned, Queued
    <3>5. \A j \in saved' :
            /\ job'[j] \in {"none", "finished"}
            /\ job'[j] = "finished" \/ (\E k \in DOMAIN events' : events'[k] = j) => j \in disk'
      <4>1. ASSUME NEW j \in saved', j # i
            PROVE  j \in saved /\ job'[j] = job[j] /\ (j \in disk <=> j \in disk')
        BY <2>4, <2>5, <2>6, <4>1
      <4> QED BY <1>1, <2>1, <2>4, <2>6, <4>1 DEF Owned
    <3>6. \A j \in Items : job'[j] = "made" => j \in disk'
      BY <1>1, <2>4, <2>5 DEF Owned
    <3> QED BY <1>1, <2>1, <3>1, <3>2, <3>3, <3>4, <3>5, <3>6 DEF Owned
  <2>8. /\ disk' \in {disk, disk \union {i}, disk \ {i}}
        /\ saved' \in {saved, saved \union {i}} /\ events' \in {events, Append(events, i)}
    BY <2>1, <2>2
  <2> QED BY <2>1, <2>7, <2>8, JobFrame
<1>7. CASE JobPosts(i)
  <2>1. /\ job[i] = "finished" /\ OnlyJob(i, "none") /\ "none" \in JobStates
        /\ UNCHANGED <<life, pty, readOnly, next, queue, saved, kept, written,
                       results, succeeded, barred, held>>
    BY <1>7 DEF JobPosts, JobStates
  <2>2. \/ events' = events /\ disk' = disk \ {i}
        \/ events' = Append(events, i) /\ disk' = disk
    BY <1>7 DEF JobPosts
  <2>3. i \in saved => i \in disk
    BY <1>1, <2>1 DEF Owned
  <2>4. job'[i] = "none" /\ \A j \in Items : j # i => job'[j] = job[j]
    BY <1>3, <2>1
  <2>5. \A j \in Items : j # i => (j \in disk' <=> j \in disk)
    BY <2>2
  <2>6. /\ \A k \in DOMAIN events : \E l \in DOMAIN events' : events'[l] = events[k]
        /\ \A k \in DOMAIN events' : events'[k] = i \/ \E l \in DOMAIN events : events'[k] = events[l]
        /\ i \in disk' => \E l \in DOMAIN events' : events'[l] = i
        /\ (\E l \in DOMAIN events' : events'[l] = i) => disk' = disk
    <3>1. CASE events' = events /\ disk' = disk \ {i}
      BY <1>2, <2>1, <3>1
    <3>2. CASE events' = Append(events, i) /\ disk' = disk
      <4>1. PICK v : v = events'
        OBVIOUS
      <4>2. /\ DOMAIN events = 1..Len(events) /\ Len(events) \in Nat
            /\ DOMAIN v = 1..(Len(events) + 1)
            /\ \A k \in DOMAIN events : v[k] = events[k]
            /\ v[Len(events) + 1] = i
        BY <1>1, <3>2, <4>1
      <4>3. /\ \A k \in DOMAIN v : k \in DOMAIN events \/ k = Len(events) + 1
            /\ \A k \in DOMAIN events : k \in DOMAIN v
            /\ Len(events) + 1 \in DOMAIN v
        BY <4>2
      <4> QED BY <3>2, <4>1, <4>2, <4>3
    <3> QED BY <2>2, <3>1, <3>2
  <2>7. disk' \subseteq disk
    BY <2>2
  <2>8. Owned'
    <3>1. \A k \in DOMAIN events' : job'[events'[k]] = "none"
      BY <1>1, <2>4, <2>6 DEF Owned
    <3>2. \A k \in DOMAIN queue' :
              queue'[k].ok => queue'[k].id \in disk' /\ job'[queue'[k].id] = "none"
      BY <1>1, <1>2, <2>1, <2>4, <2>5 DEF Owned
    <3>3. \A j \in succeeded' : j \in disk' /\ job'[j] = "none"
      BY <1>1, <1>2, <2>1, <2>4, <2>5 DEF Owned
    <3>4. \A j \in disk' : j \in kept' \/ job'[j] # "none" \/ j \in Queued'
                             \/ (\E k \in DOMAIN events' : events'[k] = j)
      <4>1. SUFFICES ASSUME NEW j \in disk', j # i
                     PROVE  j \in kept' \/ job'[j] # "none" \/ j \in Queued'
                             \/ (\E k \in DOMAIN events' : events'[k] = j)
        BY <2>6
      <4>2. j \in disk /\ job'[j] = job[j] /\ Queued' = Queued
        BY <1>1, <2>1, <2>4, <2>7, <4>1 DEF Queued
      <4>3. (\E k \in DOMAIN events : events[k] = j) => \E k \in DOMAIN events' : events'[k] = j
        BY <2>6
      <4> QED BY <1>1, <2>1, <4>2, <4>3 DEF Owned
    <3>5. \A j \in saved' :
            /\ job'[j] \in {"none", "finished"}
            /\ job'[j] = "finished" \/ (\E k \in DOMAIN events' : events'[k] = j) => j \in disk'
      <4>1. SUFFICES ASSUME NEW j \in saved
                     PROVE  /\ job'[j] \in {"none", "finished"}
                            /\ job'[j] = "finished" \/ (\E k \in DOMAIN events' : events'[k] = j)
                                   => j \in disk'
        BY <2>1
      <4>2. CASE j = i
        BY <2>3, <2>4, <2>6, <4>1, <4>2
      <4>3. CASE j # i
        <5>1. job'[j] = job[j] /\ (j \in disk' <=> j \in disk)
          BY <1>1, <2>4, <2>5, <4>1, <4>3
        <5>2. (\E k \in DOMAIN events' : events'[k] = j) => \E k \in DOMAIN events : events[k] = j
          BY <2>6, <4>3
        <5> QED BY <1>1, <4>1, <5>1, <5>2 DEF Owned
      <4> QED BY <4>2, <4>3
    <3>6. \A j \in Items : job'[j] = "made" => j \in disk'
      BY <1>1, <2>4, <2>5 DEF Owned
    <3> QED BY <1>1, <2>1, <3>1, <3>2, <3>3, <3>4, <3>5, <3>6 DEF Owned
  <2>9. /\ disk' \in {disk, disk \union {i}, disk \ {i}}
        /\ saved' \in {saved, saved \union {i}} /\ events' \in {events, Append(events, i)}
    BY <2>1, <2>2
  <2> QED BY <2>1, <2>8, <2>9, JobFrame
<1> QED BY <1>4, <1>5, <1>6, <1>7 DEF JobStep

-----------------------------------------------------------------------------
(* The invariant and the theorems *)

LEMMA InitIInv == Init => IInv
<1>1. SUFFICES ASSUME Init PROVE IInv
  OBVIOUS
<1>2. TypeOK
  BY <1>1, OrderedEffectsAssumption DEF Init, TypeOK, JobStates
<1>3. Numbered /\ QueueOrdered /\ Refused /\ ReadOnlyHonoured
  BY <1>1 DEF Init, Numbered, QueueOrdered, Refused, ReadOnlyHonoured
<1>4. InSubmissionOrder
  BY <1>1 DEF Init, InSubmissionOrder, Answered, Queued
<1>5. Owned
  BY <1>1 DEF Init, Owned
<1> QED BY <1>2, <1>3, <1>4, <1>5 DEF IInv

LEMMA NextIInv == IInv /\ [Next]_vars => IInv'
<1>1. SUFFICES ASSUME IInv, [Next]_vars PROVE IInv'
  OBVIOUS
<1>2. CASE UNCHANGED vars
  BY <1>1, <1>2 DEF vars, IInv, TypeOK, Numbered, QueueOrdered, InSubmissionOrder, Answered,
                    Queued, Refused, ReadOnlyHonoured, Owned
<1>3. ASSUME NEW paste \in BOOLEAN, NEW ready \in BOOLEAN, WriteTerminalFile(paste, ready)
      PROVE  IInv'
  BY <1>1, <1>3, WriteTerminalFileKeeps
<1>4. ASSUME NEW what \in {"down", "up", "other"}, SendInput(what)
      PROVE  IInv'
  BY <1>1, <1>4, SendInputKeeps
<1>5. CASE FocusLost
  BY <1>1, <1>5, FocusLostKeeps
<1>6. CASE SetReadOnly \/ ChildExit \/ ShutdownEnds
  BY <1>1, <1>6, PlainKeeps
<1>7. CASE Completion
  BY <1>1, <1>7, CompletionKeeps
<1>8. CASE Shutdown
  BY <1>1, <1>8, ShutdownKeeps
<1>9. ASSUME NEW i \in Items, JobStep(i) PROVE IInv'
  BY <1>1, <1>9, JobKeeps
<1> QED BY <1>1, <1>2, <1>3, <1>4, <1>5, <1>6, <1>7, <1>8, <1>9 DEF Next

LEMMA Invariance == Spec => []IInv
BY InitIInv, NextIInv, PTL DEF Spec

\* The variables keep their types.
THEOREM TypeCorrect == Spec => []TypeOK
<1>1. IInv => TypeOK
  BY DEF IInv
<1> QED BY <1>1, Invariance, PTL

\* Typed bytes, pasted paths and results come out in submission order, in whatever
\* order the jobs finish, and nothing overtakes what still waits.
THEOREM PublishedInOrder == Spec => []InSubmissionOrder
<1>1. IInv => InSubmissionOrder
  BY DEF IInv
<1> QED BY <1>1, Invariance, PTL

\* A paste that was refused when it was requested never becomes input.
THEOREM RefusedStaysOut == Spec => []ReadOnlyHonoured
<1>1. IInv => ReadOnlyHonoured
  BY DEF IInv
<1> QED BY <1>1, Invariance, PTL

\* A reported file is on disk and kept; when the session is gone and its jobs have
\* ended, nothing else is left.
THEOREM FilesHaveOwners == Spec => []FilesAccountedFor
<1>1. IInv => FilesAccountedFor
  <2>1. SUFFICES ASSUME IInv PROVE FilesAccountedFor
    OBVIOUS
  <2>2. Owned /\ QueueOrdered /\ disk \subseteq Items
    BY <2>1 DEF IInv, TypeOK
  <2>3. succeeded \subseteq disk \intersect kept
    BY <2>2 DEF Owned
  <2>4. ASSUME life = "gone", events = <<>>, \A i \in Items : job[i] = "none"
        PROVE  disk = succeeded
    <3>1. queue = <<>> /\ Queued = {}
      BY <2>2, <2>4 DEF QueueOrdered, Queued
    <3>2. ~\E k \in DOMAIN events : TRUE
      BY <2>4
    <3> QED BY <2>2, <2>3, <2>4, <3>1, <3>2 DEF Owned
  <2> QED BY <2>3, <2>4 DEF FilesAccountedFor
<1> QED BY <1>1, Invariance, PTL
=============================================================================
