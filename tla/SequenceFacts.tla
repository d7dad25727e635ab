--------------------------- MODULE SequenceFacts ----------------------------
(***************************************************************************)
(* Facts about cutting and joining sequences that the proofs of the queue  *)
(* and buffer modules cite.                                                *)
(***************************************************************************)
EXTENDS Integers, Sequences, Subsequences, FunctionTheorems, FiniteSetTheorems,
        WellFoundedInduction, TLAPS

\* Two sequences with the same elements are equal.
LEMMA Extensional ==
    ASSUME NEW S, NEW s \in Seq(S), NEW t \in Seq(S), Len(s) = Len(t),
           \A i \in 1..Len(s) : s[i] = t[i]
    PROVE  s = t
OBVIOUS

\* What concatenation contains, and where.
LEMMA Concatenation ==
    ASSUME NEW S, NEW s \in Seq(S), NEW t \in Seq(S)
    PROVE  /\ s \o t \in Seq(S)
           /\ Len(s \o t) = Len(s) + Len(t)
           /\ \A i \in 1..Len(s) : (s \o t)[i] = s[i]
           /\ \A i \in 1..Len(t) : (s \o t)[Len(s) + i] = t[i]
OBVIOUS

\* The same, with the positions of the second part counted from the front.
LEMMA Extension ==
    ASSUME NEW S, NEW s \in Seq(S), NEW t \in Seq(S), NEW u, u = s \o t
    PROVE  /\ u \in Seq(S)
           /\ Len(s) <= Len(u)
           /\ \A i \in 1..Len(s) : u[i] = s[i]
           /\ \A i \in (Len(s) + 1)..Len(u) : i - Len(s) \in 1..Len(t) /\ u[i] = t[i - Len(s)]
OBVIOUS

\* Concatenation is associative and has the empty sequence as its unit.
LEMMA ConcatenationLaws ==
    ASSUME NEW S, NEW s \in Seq(S), NEW t \in Seq(S), NEW u \in Seq(S)
    PROVE  /\ (s \o t) \o u = s \o (t \o u)
           /\ <<>> \o s = s
           /\ s \o <<>> = s
OBVIOUS

\* A cut at the end keeps everything.
LEMMA WholeSequence ==
    ASSUME NEW S, NEW s \in Seq(S)
    PROVE  SubSeq(s, 1, Len(s)) = s
OBVIOUS

\* The two halves of a sequence cut after position k.
LEMMA Halves ==
    ASSUME NEW S, NEW s \in Seq(S), NEW k \in 0..Len(s)
    PROVE  /\ SubSeq(s, 1, k) \in Seq(S)
           /\ Len(SubSeq(s, 1, k)) = k
           /\ \A i \in 1..k : SubSeq(s, 1, k)[i] = s[i]
           /\ SubSeq(s, k + 1, Len(s)) \in Seq(S)
           /\ Len(SubSeq(s, k + 1, Len(s))) = Len(s) - k
           /\ \A i \in 1..(Len(s) - k) : SubSeq(s, k + 1, Len(s))[i] = s[k + i]
OBVIOUS

\* A sequence that agrees with a up to k and with b beyond is their join.
LEMMA Join ==
    ASSUME NEW S, NEW s \in Seq(S), NEW a \in Seq(S), NEW b \in Seq(S),
           NEW k \in 0..Len(s),
           Len(a) = k, \A i \in 1..k : a[i] = s[i],
           Len(b) = Len(s) - k, \A i \in 1..(Len(s) - k) : b[i] = s[k + i]
    PROVE  a \o b = s
<1>1. /\ Len(a \o b) = Len(s)
      /\ a \o b \in Seq(S)
  <2>1. Len(s) = Len(a) + Len(b)
    OBVIOUS
  <2> QED BY <2>1, Concatenation
<1>2. ASSUME NEW i \in 1..Len(s) PROVE (a \o b)[i] = s[i]
  <2>1. CASE i <= k
    <3>1. i \in 1..Len(a) /\ a[i] = s[i]
      BY <2>1
    <3> QED BY <3>1, Concatenation
  <2>2. CASE i > k
    <3>1. /\ i - k \in 1..(Len(s) - k)
          /\ i = k + (i - k)
      BY <2>2
    <3>2. PICK j \in 1..(Len(s) - k) : i = k + j
      BY <3>1
    <3>3. j \in 1..Len(b)
      OBVIOUS
    <3>4. (a \o b)[Len(a) + j] = b[j]
      BY <3>3, Concatenation
    <3>5. b[j] = s[k + j]
      OBVIOUS
    <3>6. (a \o b)[k + j] = b[j]
      BY <3>4
    <3> QED BY <3>2, <3>5, <3>6
  <2> QED BY <2>1, <2>2
<1> QED BY <1>1, <1>2, Extensional

\* Cutting and joining again changes nothing.
LEMMA CutAndJoin ==
    ASSUME NEW S, NEW s \in Seq(S), NEW k \in 0..Len(s)
    PROVE  SubSeq(s, 1, k) \o SubSeq(s, k + 1, Len(s)) = s
<1> DEFINE a == SubSeq(s, 1, k)
           b == SubSeq(s, k + 1, Len(s))
<1>1. a \in Seq(S) /\ Len(a) = k /\ \A i \in 1..k : a[i] = s[i]
  OBVIOUS
<1>2. /\ b \in Seq(S) /\ Len(b) = Len(s) - k
      /\ \A i \in 1..(Len(s) - k) : b[i] = s[k + i]
  OBVIOUS
<1> HIDE DEF a, b
<1>3. a \o b = s
  BY <1>1, <1>2, Join
<1> QED BY <1>3 DEF a, b

\* Cutting a concatenation where it was joined gives the parts back.
LEMMA CutConcatenation ==
    ASSUME NEW S, NEW p \in Seq(S), NEW q \in Seq(S)
    PROVE  /\ SubSeq(p \o q, 1, Len(p)) = p
           /\ SubSeq(p \o q, Len(p) + 1, Len(p \o q)) = q
OBVIOUS

\* What lies beyond position c of s is extended by what is appended to s.
LEMMA SuffixOfAppend ==
    ASSUME NEW S, NEW s \in Seq(S), NEW t \in Seq(S), NEW c \in 0..Len(s)
    PROVE  SubSeq(s \o t, c + 1, Len(s \o t)) = SubSeq(s, c + 1, Len(s)) \o t
<1>1. ASSUME NEW p \in Seq(S), NEW q \in Seq(S), Len(p) = c, s = p \o q
      PROVE  SubSeq(s \o t, c + 1, Len(s \o t)) = q \o t
  <2>1. q \o t \in Seq(S)
    OBVIOUS
  <2>2. SubSeq(p \o (q \o t), Len(p) + 1, Len(p \o (q \o t))) = q \o t
    BY <2>1, CutConcatenation
  <2>3. s \o t = p \o (q \o t)
    BY <1>1, ConcatenationLaws
  <2> QED BY <1>1, <2>2, <2>3
<1>2. /\ SubSeq(s, 1, c) \in Seq(S)
      /\ SubSeq(s, c + 1, Len(s)) \in Seq(S)
      /\ Len(SubSeq(s, 1, c)) = c
  OBVIOUS
<1>3. SubSeq(s, 1, c) \o SubSeq(s, c + 1, Len(s)) = s
  BY CutAndJoin
<1> QED BY <1>1, <1>2, <1>3

\* Beyond position c, what lies beyond position k more is what lies beyond
\* position c + k.
LEMMA SuffixOfSuffix ==
    ASSUME NEW S, NEW s \in Seq(S), NEW c \in 0..Len(s),
           NEW k \in 0..(Len(s) - c)
    PROVE  LET t == SubSeq(s, c + 1, Len(s))
           IN  SubSeq(t, k + 1, Len(t)) = SubSeq(s, c + k + 1, Len(s))
<1>1. ASSUME NEW t \in Seq(S), Len(t) = Len(s) - c,
             \A i \in 1..(Len(s) - c) : t[i] = s[c + i]
      PROVE  SubSeq(t, k + 1, Len(t)) = SubSeq(s, c + k + 1, Len(s))
  <2>1. k \in 0..Len(t) /\ c + k \in 0..Len(s)
    BY <1>1
  <2>2. /\ SubSeq(t, k + 1, Len(t)) \in Seq(S)
        /\ Len(SubSeq(t, k + 1, Len(t))) = Len(t) - k
        /\ \A i \in 1..(Len(t) - k) : SubSeq(t, k + 1, Len(t))[i] = t[k + i]
    BY <2>1, Halves
  <2>3. /\ SubSeq(s, c + k + 1, Len(s)) \in Seq(S)
        /\ Len(SubSeq(s, c + k + 1, Len(s))) = Len(s) - (c + k)
        /\ \A i \in 1..(Len(s) - (c + k)) :
               SubSeq(s, c + k + 1, Len(s))[i] = s[c + k + i]
    BY <2>1, Halves
  <2>4. Len(SubSeq(t, k + 1, Len(t))) = Len(SubSeq(s, c + k + 1, Len(s)))
    BY <1>1, <2>2, <2>3
  <2>5. ASSUME NEW i \in 1..(Len(t) - k)
        PROVE  SubSeq(t, k + 1, Len(t))[i] = SubSeq(s, c + k + 1, Len(s))[i]
    <3>1. k + i \in 1..(Len(s) - c) /\ i \in 1..(Len(s) - (c + k))
      BY <1>1
    <3>2. t[k + i] = s[c + (k + i)]
      BY <1>1, <3>1
    <3>3. c + (k + i) = c + k + i
      OBVIOUS
    <3> QED BY <2>2, <2>3, <3>1, <3>2, <3>3
  <2> QED BY <2>2, <2>3, <2>4, <2>5, Extensional
<1>2. /\ SubSeq(s, c + 1, Len(s)) \in Seq(S)
      /\ Len(SubSeq(s, c + 1, Len(s))) = Len(s) - c
      /\ \A i \in 1..(Len(s) - c) : SubSeq(s, c + 1, Len(s))[i] = s[c + i]
  OBVIOUS
<1> QED BY <1>1, <1>2

-----------------------------------------------------------------------------
\* Every non-empty set of natural numbers has a least element: induction in
\* the form the provers can use.
LEMMA LeastElement ==
    ASSUME NEW S \in SUBSET Nat, S # {}
    PROVE  \E m \in S : \A n \in S : m <= n
<1> DEFINE R == OpToRel(<, Nat)
<1>1. IsWellFoundedOn(R, Nat)
  BY NatLessThanWellFounded
<1>2. \A x, y \in Nat : <<y, x>> \in R <=> y < x
  BY DEF OpToRel
<1> HIDE DEF R
<1>3. PICK m \in S : \A n \in S : <<n, m>> \notin R
  BY <1>1, WFMin
<1>4. ASSUME NEW n \in S PROVE m <= n
  <2>1. m \in Nat /\ n \in Nat
    OBVIOUS
  <2>2. ~(n < m)
    BY <1>2, <1>3, <2>1
  <2> QED BY <2>1, <2>2
<1> QED BY <1>4

\* A non-empty set of positions has a last one.
LEMMA LastElement ==
    ASSUME NEW n \in Nat, NEW I \in SUBSET (1..n), I # {}
    PROVE  \E m \in I : \A i \in I : i <= m
<1> DEFINE S == {n - i : i \in I}
<1>1. S \in SUBSET Nat /\ S # {}
  <2>1. \A i \in I : i \in Int /\ n - i \in Nat
    OBVIOUS
  <2> QED BY <2>1
<1>2. PICK d \in S : \A e \in S : d <= e
  BY <1>1, LeastElement
<1>3. PICK m \in I : d = n - m
  OBVIOUS
<1>4. ASSUME NEW i \in I PROVE i <= m
  <2>1. n - i \in S /\ i \in Int /\ m \in Int
    OBVIOUS
  <2>2. n - m <= n - i
    BY <1>2, <1>3, <2>1
  <2> QED BY <2>1, <2>2
<1> QED BY <1>4

Increasing(f, I) ==
    /\ f \in [1..Cardinality(I) -> I]
    /\ \A i, j \in 1..Cardinality(I) : i < j => f[i] < f[j]

LEMMA EnumerationExists ==
    ASSUME NEW n \in Nat
    PROVE  \A I \in SUBSET (1..n) : \E f : Increasing(f, I)
<1> DEFINE Bad == {c \in Nat : \E I \in SUBSET (1..n) :
                       Cardinality(I) = c /\ ~\E f : Increasing(f, I)}
<1>0. ASSUME NEW I \in SUBSET (1..n) PROVE IsFiniteSet(I) /\ Cardinality(I) \in Nat
  <2>1. IsFiniteSet(1..n)
    BY FS_Interval
  <2>2. IsFiniteSet(I)
    BY <2>1, FS_Subset
  <2> QED BY <2>2, FS_CardinalityType
<1>1. SUFFICES Bad = {}
  BY <1>0
<1>2. SUFFICES ASSUME Bad # {} PROVE FALSE
  OBVIOUS
<1>3. PICK c \in Bad : \A d \in Bad : c <= d
  BY <1>2, LeastElement
<1>4. PICK I \in SUBSET (1..n) : Cardinality(I) = c /\ ~\E f : Increasing(f, I)
  BY <1>3
<1>5. I # {}
  <2>1. SUFFICES ASSUME I = {} PROVE FALSE
    OBVIOUS
  <2>2. Cardinality(I) = 0
    BY <2>1, FS_EmptySet
  <2>3. Increasing([k \in {} |-> 0], I)
    <3>1. 1..Cardinality(I) = {}
      BY <2>2
    <3> QED BY <2>1, <3>1 DEF Increasing
  <2> QED BY <2>3, <1>4
<1>6. PICK m \in I : \A i \in I : i <= m
  BY <1>5, LastElement
<1> DEFINE J == I \ {m}
<1>7. J \in SUBSET (1..n) /\ Cardinality(J) = c - 1 /\ c \in Nat /\ c - 1 \in Nat
  <2>1. IsFiniteSet(I) /\ Cardinality(J) = Cardinality(I) - 1
    BY <1>0, FS_RemoveElement
  <2>2. J \in SUBSET (1..n) /\ c \in Nat
    BY <1>4
  <2>3. Cardinality(J) \in Nat
    BY <1>0, <2>2
  <2> QED BY <1>4, <2>1, <2>2, <2>3
<1>8. PICK g : Increasing(g, J)
  <2>1. c - 1 \notin Bad
    BY <1>3, <1>7
  <2> QED BY <1>7, <2>1
<1> DEFINE f == [k \in 1..c |-> IF k = c THEN m ELSE g[k]]
<1>9. Increasing(f, I)
  <2>1. g \in [1..(c - 1) -> J] /\ \A i, j \in 1..(c - 1) : i < j => g[i] < g[j]
    BY <1>7, <1>8 DEF Increasing
  <2>2. \A k \in 1..c : k # c => k \in 1..(c - 1)
    BY <1>7
  <2>3. f \in [1..c -> I]
    BY <2>1, <2>2
  <2>4. ASSUME NEW i \in 1..c, NEW j \in 1..c, i < j PROVE f[i] < f[j]
    <3>0. i \in 1..(c - 1) /\ i # c
      BY <1>7, <2>4
    <3>1. f[i] = g[i] /\ g[i] \in J /\ g[i] \in Int /\ m \in Int
      <4>1. f[i] = g[i]
        BY <3>0
      <4>2. g[i] \in J
        BY <2>1, <3>0
      <4>3. J \subseteq Int /\ m \in Int
        OBVIOUS
      <4>4. g[i] \in Int
        BY <4>2, <4>3
      <4> QED BY <4>1, <4>2, <4>3, <4>4
    <3>2. CASE j = c
      <4>1. g[i] <= m /\ g[i] # m
        BY <1>6, <3>1
      <4> QED BY <3>1, <3>2, <4>1
    <3>3. CASE j # c
      BY <2>1, <2>2, <3>0, <3>1, <3>3, <2>4
    <3> QED BY <3>2, <3>3
  <2> QED BY <1>4, <2>3, <2>4 DEF Increasing
<1> QED BY <1>4, <1>9

\* What Enumeration is: increasing, and onto.
LEMMA EnumerationOf ==
    ASSUME NEW n \in Nat, NEW I \in SUBSET (1..n)
    PROVE  /\ Cardinality(I) \in Nat
           /\ Increasing(Enumeration(I), I)
           /\ \A i \in I : \E k \in 1..Cardinality(I) : Enumeration(I)[k] = i
<1> DEFINE c == Cardinality(I)
           f == Enumeration(I)
<1>1. IsFiniteSet(I) /\ c \in Nat
  <2>1. IsFiniteSet(1..n)
    BY FS_Interval
  <2>2. IsFiniteSet(I)
    BY <2>1, FS_Subset
  <2> QED BY <2>2, FS_CardinalityType
<1>2. Increasing(f, I)
  <2>1. \A g \in [1..c -> I] : DOMAIN g = 1..c
    OBVIOUS
  <2>2. \E g \in [1..c -> I] : \A i, j \in DOMAIN g : i < j => g[i] < g[j]
    BY <2>1, EnumerationExists DEF Increasing
  <2>3. /\ f \in [1..c -> I]
        /\ \A i, j \in DOMAIN f : i < j => f[i] < f[j]
    BY <2>2 DEF Enumeration
  <2> HIDE DEF f
  <2> QED BY <2>1, <2>3 DEF Increasing
<1> HIDE DEF f
<1>3. f \in Injection(1..c, I)
  <2>1. f \in [1..c -> I]
    BY <1>2 DEF Increasing
  <2>2. ASSUME NEW i \in 1..c, NEW j \in 1..c, f[i] = f[j] PROVE i = j
    <3>0. f[i] \in I /\ f[j] \in I
      BY <2>1
    <3>1. \A k \in I : k \in Int
      OBVIOUS
    <3> HIDE DEF c
    <3>2. ~(f[i] < f[j]) /\ ~(f[j] < f[i])
      <4>1. f[i] \in Int /\ f[j] \in Int
        BY <3>0, <3>1
      <4> QED BY <2>2, <4>1
    <3>3. ~(i < j) /\ ~(j < i)
      BY <1>2, <3>2 DEF Increasing, c
    <3> QED BY <1>1, <3>3
  <2> QED BY <2>1, <2>2 DEF Injection, IsInjective
<1>4. Cardinality(1..c) = c
  BY <1>1, FS_Interval
<1>5. f \in Surjection(1..c, I)
  BY <1>1, <1>3, <1>4, FS_Injection
<1> QED BY <1>1, <1>2, <1>5 DEF Surjection, f

\* A subsequence: its elements are those at the positions of I, in the same order.
LEMMA SubsequenceOf ==
    ASSUME NEW S, NEW s \in Seq(S), NEW I \in SUBSET (1..Len(s))
    PROVE  /\ Subsequence(s, I) \in Seq(S)
           /\ Len(Subsequence(s, I)) = Cardinality(I)
           /\ Increasing(Enumeration(I), I)
           /\ \A i \in I : \E k \in 1..Cardinality(I) : Enumeration(I)[k] = i
           /\ \A k \in 1..Cardinality(I) : Subsequence(s, I)[k] = s[Enumeration(I)[k]]
<1> DEFINE c == Cardinality(I)
           f == Enumeration(I)
<1>1. /\ c \in Nat /\ Increasing(f, I)
      /\ \A i \in I : \E k \in 1..c : f[k] = i
  <2>1. Len(s) \in Nat
    OBVIOUS
  <2> QED BY <2>1, EnumerationOf
<1> HIDE DEF c, f
<1>2. Subsequence(s, I) = [k \in 1..c |-> s[f[k]]]
  BY DEF Subsequence, c, f
<1>3. ASSUME NEW k \in 1..c PROVE s[f[k]] \in S
  <2>1. f[k] \in 1..Len(s)
    <3>1. f[k] \in I
      BY <1>1 DEF Increasing, c
    <3> QED BY <3>1
  <2> QED BY <2>1
<1>4. Subsequence(s, I) \in Seq(S) /\ Len(Subsequence(s, I)) = c
  BY <1>1, <1>2, <1>3
<1> QED BY <1>1, <1>2, <1>4 DEF c, f

\* What is in a subsequence, from where, and how it begins.
LEMMA SubsequenceElements ==
    ASSUME NEW S, NEW s \in Seq(S), NEW I \in SUBSET (1..Len(s))
    PROVE  LET t == Subsequence(s, I) IN
           /\ t \in Seq(S)
           /\ Len(t) <= Len(s)
           /\ \A k \in 1..Len(t) : \E i \in I : t[k] = s[i]
           /\ \A i \in I : \E k \in 1..Len(t) : t[k] = s[i]
           /\ \A k, l \in 1..Len(t) :
                 k < l => \E i, j \in I : i < j /\ t[k] = s[i] /\ t[l] = s[j]
           /\ 1 \in I => t # <<>> /\ t[1] = s[1]
           /\ I = {} => t = <<>>
<1> DEFINE c == Cardinality(I)
           f == Enumeration(I)
           t == Subsequence(s, I)
<1>0. Len(s) \in Nat
  OBVIOUS
<1>1. /\ t \in Seq(S) /\ Len(t) = c
      /\ f \in [1..c -> I]
      /\ \A k, l \in 1..c : k < l => f[k] < f[l]
      /\ \A i \in I : \E k \in 1..c : f[k] = i
      /\ \A k \in 1..c : t[k] = s[f[k]]
  BY SubsequenceOf DEF Increasing
<1>2. c \in Nat /\ c <= Len(s)
  <2>1. \A n \in Nat : IsFiniteSet(1..n) /\ Cardinality(1..n) = n
    BY FS_Interval
  <2>2. IsFiniteSet(1..Len(s)) /\ Cardinality(1..Len(s)) = Len(s)
    BY <2>1, <1>0
  <2>3. c <= Cardinality(1..Len(s)) /\ IsFiniteSet(I)
    BY <2>2, FS_Subset
  <2> QED BY <2>2, <2>3, <1>0, FS_CardinalityType
<1>3. I = {} => c = 0
  BY FS_EmptySet
<1> HIDE DEF c, f, t
<1>4. /\ \A k \in 1..c : \E i \in I : t[k] = s[i]
      /\ \A i \in I : \E k \in 1..c : t[k] = s[i]
      /\ \A k, l \in 1..c :
             k < l => \E i, j \in I : i < j /\ t[k] = s[i] /\ t[l] = s[j]
  <2>1. \A k \in 1..c : f[k] \in I /\ t[k] = s[f[k]]
    BY <1>1
  <2>2. ASSUME NEW i \in I PROVE \E k \in 1..c : t[k] = s[i]
    <3>1. PICK k \in 1..c : f[k] = i
      BY <1>1
    <3> QED BY <2>1, <3>1
  <2>3. \A k, l \in 1..c : k < l => f[k] < f[l]
    BY <1>1
  <2> QED BY <2>1, <2>2, <2>3
<1>5. ASSUME 1 \in I PROVE t # <<>> /\ t[1] = s[1]
  <2>1. PICK k \in 1..c : f[k] = 1
    BY <1>1, <1>5
  <2>2. 1 \in 1..c /\ k \in Nat /\ k >= 1
    BY <1>2, <2>1
  <2>3. f[1] \in I /\ f[1] \in Int /\ f[1] >= 1
    <3>1. f[1] \in I
      BY <1>1, <2>2
    <3>2. \A i \in I : i \in Int /\ i >= 1
      OBVIOUS
    <3> QED BY <3>1, <3>2
  <2>4. k = 1
    <3>1. ~(1 < k)
      BY <1>1, <2>1, <2>2, <2>3
    <3> QED BY <2>2, <3>1
  <2>5. c >= 1
    BY <2>2
  <2> QED BY <1>1, <1>2, <2>1, <2>2, <2>4, <2>5
<1>6. I = {} => t = <<>>
  BY <1>1, <1>3
<1> QED BY <1>1, <1>2, <1>4, <1>5, <1>6 DEF t
=============================================================================
