---------------------- MODULE ClipboardRequestsProofs ----------------------
(***************************************************************************)
(* Proofs about ClipboardRequests, for every set of panes, every set of    *)
(* requests and every limit.  The account of a queue is a recursive sum:   *)
(* what the proofs need of it is shown by a minimal counterexample, on the *)
(* functions that add a queue up.  Then the inductive invariant, which     *)
(* says for each pane where its one request is, one lemma per action, and  *)
(* the theorems.                                                           *)
(***************************************************************************)
EXTENDS ClipboardRequests, SequenceFacts

\* f is the account of s: what its first n entries add up to, for each n.
Account(f, s) ==
    /\ f \in [0..Len(s) -> Nat]
    /\ f[0] = 0
    /\ \A n \in 1..Len(s) : f[n] = f[n - 1] + s[n].size

\* There is an account, by induction on how far it reaches.
LEMMA AccountExists ==
    ASSUME NEW s \in Seq(Entries)
    PROVE  \E f : Account(f, s)
<1> DEFINE Upto(f, m) == /\ f \in [0..m -> Nat]
                         /\ f[0] = 0
                         /\ \A n \in 1..m : f[n] = f[n - 1] + s[n].size
           Bad == {m \in 0..Len(s) : ~\E f : Upto(f, m)}
<1>0. Len(s) \in Nat /\ \A n \in 1..Len(s) : s[n].size \in Nat
  <2>1. Len(s) \in Nat /\ \A n \in 1..Len(s) : s[n] \in Entries
    OBVIOUS
  <2> QED BY <2>1 DEF Entries
<1>1. SUFFICES ASSUME Bad # {} PROVE FALSE
  <2>0. \A n \in Nat : n \in 0..n
    OBVIOUS
  <2>1. Len(s) \in 0..Len(s)
    BY <1>0, <2>0
  <2>2. \E f : Upto(f, Len(s))
    BY <2>1, Zenon
  <2> QED BY <2>2 DEF Account
<1>2. PICK m \in Bad : \A n \in Bad : m <= n
  <2>1. Bad \in SUBSET Nat
    OBVIOUS
  <2> QED BY <1>1, <2>1, LeastElement
<1>3. m # 0
  <2>1. Upto([n \in 0..0 |-> 0], 0)
    OBVIOUS
  <2> QED BY <2>1, <1>2
<1>4. m \in 1..Len(s) /\ m - 1 \in 0..Len(s) /\ m - 1 \notin Bad
  <2>1. m \in 1..Len(s) /\ m - 1 \in 0..Len(s)
    BY <1>0, <1>3
  <2>2. ~(m <= m - 1)
    BY <2>1
  <2> QED BY <1>2, <2>1, <2>2
<1>5. PICK g : Upto(g, m - 1)
  BY <1>4
<1> DEFINE f == [n \in 0..m |-> IF n = m THEN g[m - 1] + s[m].size ELSE g[n]]
<1>6. Upto(f, m)
  <2>1. /\ \A n \in 0..m : n # m => n \in 0..(m - 1)
        /\ \A n \in 1..m : n - 1 \in 0..(m - 1) /\ n - 1 \in 0..m /\ n - 1 # m
        /\ m - 1 \in 0..(m - 1) /\ m \in 0..m /\ 0 \in 0..m /\ 0 # m
        /\ \A n \in 1..m : n # m => n \in 1..(m - 1)
    BY <1>0, <1>4
  <2>2. g \in [0..(m - 1) -> Nat] /\ s[m].size \in Nat
    BY <1>0, <1>4, <1>5
  <2>3. f \in [0..m -> Nat]
    BY <2>1, <2>2
  <2>4. f[0] = 0
    BY <1>5, <2>1
  <2>5. ASSUME NEW n \in 1..m PROVE f[n] = f[n - 1] + s[n].size
    BY <1>5, <2>1
  <2> QED BY <2>3, <2>4, <2>5
<1> QED BY <1>2, <1>6

\* An account is what the recursion in Total defines, and the only one.
Summed(f, s) == [n \in 0..Len(s) |-> IF n = 0 THEN 0 ELSE f[n - 1] + s[n].size]

LEMMA AccountUnique ==
    ASSUME NEW s \in Seq(Entries), NEW f, NEW g, f = Summed(f, s), g = Summed(g, s)
    PROVE  \A n \in 0..Len(s) : f[n] = g[n]
<1> DEFINE Bad == {n \in 0..Len(s) : f[n] # g[n]}
<1>1. SUFFICES ASSUME Bad # {} PROVE FALSE
  OBVIOUS
<1>2. PICK m \in Bad : \A n \in Bad : m <= n
  <2>1. Bad \in SUBSET Nat
    OBVIOUS
  <2> QED BY <1>1, <2>1, LeastElement
<1>3. \A n \in 0..Len(s) :
         /\ f[n] = IF n = 0 THEN 0 ELSE f[n - 1] + s[n].size
         /\ g[n] = IF n = 0 THEN 0 ELSE g[n - 1] + s[n].size
  <2>1. /\ \A n \in 0..Len(s) : Summed(f, s)[n] = IF n = 0 THEN 0 ELSE f[n - 1] + s[n].size
        /\ \A n \in 0..Len(s) : Summed(g, s)[n] = IF n = 0 THEN 0 ELSE g[n - 1] + s[n].size
    BY DEF Summed
  <2> QED BY <2>1
<1>4. m # 0
  BY <1>2, <1>3
<1>5. m \in 1..Len(s) /\ m - 1 \in 0..Len(s) /\ ~(m <= m - 1)
  BY <1>4
<1>6. f[m - 1] = g[m - 1]
  BY <1>2, <1>5
<1> QED BY <1>2, <1>3, <1>4, <1>6

LEMMA TotalOf ==
    ASSUME NEW s \in Seq(Entries), NEW g, Account(g, s)
    PROVE  Total(s) = g[Len(s)] /\ Total(s) \in Nat
<1> DEFINE sum == CHOOSE f : f = Summed(f, s)
<1>1. Len(s) \in Nat
  OBVIOUS
<1>2. g = Summed(g, s)
  BY <1>1 DEF Account, Summed
<1>3. sum = Summed(sum, s)
  <2>1. \E f : f = Summed(f, s)
    BY <1>2
  <2> QED BY <2>1
<1>4. Total(s) = sum[Len(s)]
  BY DEF Total, Summed
<1> HIDE DEF sum
<1>5. g[Len(s)] = sum[Len(s)]
  BY <1>1, <1>2, <1>3, AccountUnique
<1> QED BY <1>1, <1>4, <1>5 DEF Account

LEMMA TotalOfEmpty == Total(<<>>) = 0
<1>1. <<>> \in Seq(Entries) /\ Len(<<>>) = 0
  OBVIOUS
<1>2. Account([n \in 0..0 |-> 0], <<>>)
  BY <1>1 DEF Account
<1> QED BY <1>1, <1>2, TotalOf

LEMMA TotalOfAppend ==
    ASSUME NEW s \in Seq(Entries), NEW e \in Entries
    PROVE  Total(Append(s, e)) = Total(s) + e.size
<1>1. PICK f : Account(f, s)
  BY AccountExists
<1> DEFINE t == Append(s, e)
           l == Len(s)
           g == [n \in 0..(l + 1) |-> IF n = l + 1 THEN f[l] + e.size ELSE f[n]]
<1>2. /\ t \in Seq(Entries) /\ Len(t) = l + 1 /\ l \in Nat /\ e.size \in Nat
      /\ t[l + 1] = e
      /\ \A n \in 1..l : t[n] = s[n]
  BY DEF Entries
<1>3. /\ f \in [0..l -> Nat] /\ f[0] = 0
      /\ \A n \in 1..l : f[n] = f[n - 1] + s[n].size
  BY <1>1 DEF Account
<1> HIDE DEF t, l
<1>4. /\ \A n \in 0..(l + 1) : n # l + 1 => n \in 0..l
      /\ \A n \in 1..(l + 1) : n # l + 1 => n \in 1..l
      /\ \A n \in 1..(l + 1) : n - 1 \in 0..(l + 1) /\ n - 1 # l + 1 /\ n \in 0..(l + 1)
      /\ l + 1 \in 0..(l + 1) /\ 0 \in 0..(l + 1) /\ 0 # l + 1 /\ l + 1 - 1 = l
  BY <1>2
<1>5. g \in [0..(l + 1) -> Nat] /\ g[0] = 0
  BY <1>2, <1>3, <1>4
<1>6. ASSUME NEW n \in 1..(l + 1) PROVE g[n] = g[n - 1] + t[n].size
  <2>1. g[n - 1] = f[n - 1]
    BY <1>4
  <2>2. CASE n = l + 1
    <3>1. g[n] = f[l] + e.size /\ t[n] = e /\ n - 1 = l
      BY <1>2, <1>4, <2>2
    <3> QED BY <2>1, <3>1
  <2>3. CASE n # l + 1
    <3>1. g[n] = f[n] /\ t[n] = s[n] /\ f[n] = f[n - 1] + s[n].size
      BY <1>2, <1>3, <1>4, <2>3
    <3> QED BY <2>1, <3>1
  <2> QED BY <2>2, <2>3
<1>7. Account(g, t)
  BY <1>2, <1>5, <1>6 DEF Account
<1>8. Total(t) = g[l + 1] /\ g[l + 1] = f[l] + e.size
  BY <1>2, <1>4, <1>7, TotalOf
<1>9. Total(s) = f[l]
  BY <1>1, TotalOf DEF l
<1> QED BY <1>8, <1>9 DEF t

LEMMA TotalOfTail ==
    ASSUME NEW s \in Seq(Entries), s # <<>>
    PROVE  Total(Tail(s)) = Total(s) - Head(s).size
<1>1. PICK f : Account(f, s)
  BY AccountExists
<1> DEFINE t == Tail(s)
           l == Len(s)
           g == [n \in 0..(l - 1) |-> f[n + 1] - f[1]]
<1>2. /\ t \in Seq(Entries) /\ Len(t) = l - 1 /\ l \in Nat /\ l >= 1
      /\ Head(s) = s[1]
      /\ \A n \in 1..(l - 1) : t[n] = s[n + 1]
  OBVIOUS
<1>3. /\ f \in [0..l -> Nat] /\ f[0] = 0
      /\ \A n \in 1..l : f[n] = f[n - 1] + s[n].size
      /\ \A n \in 1..l : s[n].size \in Nat
  <2>1. \A n \in 1..l : s[n] \in Entries
    OBVIOUS
  <2> QED BY <1>1, <2>1 DEF Account, Entries
<1> HIDE DEF t, l
<1>4. ASSUME NEW n \in 0..(l - 1) PROVE f[n + 1] >= f[1]
  <2> DEFINE Bad == {m \in 0..(l - 1) : ~(f[m + 1] >= f[1])}
  <2>1. SUFFICES ASSUME Bad # {} PROVE FALSE
    BY Zenon
  <2>2. PICK m \in Bad : \A i \in Bad : m <= i
    <3>1. Bad \in SUBSET Nat
      BY <1>2
    <3> QED BY <2>1, <3>1, LeastElement
  <2>3. m # 0
    <3>1. 1 \in 0..l
      BY <1>2
    <3> QED BY <1>3, <2>2, <3>1
  <2>4. /\ m - 1 \in 0..(l - 1) /\ ~(m <= m - 1) /\ m + 1 \in 1..l /\ m - 1 + 1 = m
        /\ m \in 0..l /\ m + 1 - 1 = m /\ m + 1 \in 0..l /\ 1 \in 0..l
    BY <1>2, <2>3
  <2>5. f[m] >= f[1]
    BY <2>2, <2>4
  <2>6. f[m + 1] = f[m] + s[m + 1].size /\ s[m + 1].size \in Nat
    BY <1>3, <2>4
  <2>7. f[m] \in Nat /\ f[1] \in Nat
    BY <1>3, <2>4
  <2> QED BY <2>2, <2>5, <2>6, <2>7
<1>5. g \in [0..(l - 1) -> Nat] /\ g[0] = 0
  <2>1. \A n \in 0..(l - 1) : n + 1 \in 0..l /\ 1 \in 0..l
    BY <1>2
  <2>2. ASSUME NEW n \in 0..(l - 1) PROVE f[n + 1] - f[1] \in Nat
    <3>1. f[n + 1] \in Nat /\ f[1] \in Nat
      BY <1>3, <2>1
    <3> QED BY <1>4, <3>1
  <2>3. 0 \in 0..(l - 1) /\ f[1] \in Nat
    BY <1>2, <1>3
  <2> QED BY <2>2, <2>3
<1>6. ASSUME NEW n \in 1..(l - 1) PROVE g[n] = g[n - 1] + t[n].size
  <2>1. /\ n \in 0..(l - 1) /\ n - 1 \in 0..(l - 1) /\ n - 1 + 1 = n /\ n + 1 \in 1..l
        /\ n + 1 - 1 = n /\ n \in 0..l /\ 1 \in 0..l
    BY <1>2
  <2>2. g[n] = f[n + 1] - f[1] /\ g[n - 1] = f[n] - f[1]
    BY <2>1
  <2>3. f[n + 1] = f[n] + s[n + 1].size /\ t[n] = s[n + 1] /\ s[n + 1].size \in Nat
    <3>1. f[n + 1] = f[n + 1 - 1] + s[n + 1].size /\ s[n + 1].size \in Nat
      BY <1>3, <2>1
    <3>2. t[n] = s[n + 1]
      BY <1>2
    <3> QED BY <2>1, <3>1, <3>2
  <2>4. f[n] \in Nat /\ f[1] \in Nat
    BY <1>3, <2>1
  <2> QED BY <2>2, <2>3, <2>4
<1>7. Account(g, t)
  BY <1>2, <1>5, <1>6 DEF Account
<1>8. Total(t) = g[l - 1] /\ g[l - 1] = f[l] - f[1]
  <2>1. l - 1 \in 0..(l - 1) /\ l - 1 + 1 = l
    BY <1>2
  <2> QED BY <1>2, <1>7, <2>1, TotalOf
<1>9. Total(s) = f[l]
  BY <1>1, TotalOf DEF l
<1>10. f[1] = s[1].size
  <2>1. 1 \in 1..l /\ 1 - 1 = 0 /\ s[1].size \in Nat
    BY <1>2, <1>3
  <2> QED BY <1>3, <2>1
<1> QED BY <1>2, <1>8, <1>9, <1>10 DEF t

\* Entries that are left out are not counted: t has the entries of s at the
\* positions e[1], e[2], ...
LEMMA TotalOfPart ==
    ASSUME NEW s \in Seq(Entries), NEW t \in Seq(Entries),
           NEW e \in [1..Len(t) -> 1..Len(s)],
           \A i, j \in 1..Len(t) : i < j => e[i] < e[j],
           \A i \in 1..Len(t) : t[i] = s[e[i]]
    PROVE  Total(t) <= Total(s)
<1>1. PICK f : Account(f, s)
  BY AccountExists
<1>2. PICK g : Account(g, t)
  BY AccountExists
<1> DEFINE l == Len(s)
           k == Len(t)
<1>3. /\ l \in Nat /\ k \in Nat
      /\ f \in [0..l -> Nat] /\ f[0] = 0
      /\ \A n \in 1..l : f[n] = f[n - 1] + s[n].size
      /\ \A n \in 1..l : s[n].size \in Nat
      /\ g \in [0..k -> Nat] /\ g[0] = 0
      /\ \A n \in 1..k : g[n] = g[n - 1] + t[n].size
  <2>1. \A n \in 1..l : s[n] \in Entries
    OBVIOUS
  <2> QED BY <1>1, <1>2, <2>1 DEF Account, Entries
<1>4. /\ e \in [1..k -> 1..l]
      /\ \A i, j \in 1..k : i < j => e[i] < e[j]
      /\ \A i \in 1..k : t[i] = s[e[i]]
  OBVIOUS
<1>5. Total(s) = f[l] /\ Total(t) = g[k]
  BY <1>1, <1>2, TotalOf
<1> HIDE DEF l, k
<1>6. ASSUME NEW i \in 0..l PROVE \A j \in 0..l : i <= j => f[i] <= f[j]
  <2> DEFINE Bad == {j \in 0..l : i <= j /\ ~(f[i] <= f[j])}
  <2>1. SUFFICES ASSUME Bad # {} PROVE FALSE
    BY Zenon
  <2>2. PICK m \in Bad : \A j \in Bad : m <= j
    <3>1. Bad \in SUBSET Nat
      BY <1>3
    <3> QED BY <2>1, <3>1, LeastElement
  <2>3. m # i
    BY <1>3, <2>2
  <2>4. /\ m - 1 \in 0..l /\ m \in 1..l /\ i <= m - 1 /\ ~(m <= m - 1)
    BY <1>3, <2>2, <2>3
  <2>5. f[i] <= f[m - 1]
    BY <2>2, <2>4
  <2>6. f[m] = f[m - 1] + s[m].size /\ s[m].size \in Nat
    BY <1>3, <2>4
  <2>7. f[m] \in Nat /\ f[m - 1] \in Nat /\ f[i] \in Nat
    BY <1>3, <2>4
  <2> QED BY <2>2, <2>5, <2>6, <2>7
<1>7. ASSUME NEW n \in 1..k PROVE g[n] <= f[e[n]]
  <2> DEFINE Bad == {j \in 1..k : ~(g[j] <= f[e[j]])}
  <2>1. SUFFICES ASSUME Bad # {} PROVE FALSE
    BY Zenon
  <2>2. PICK m \in Bad : \A j \in Bad : m <= j
    <3>1. Bad \in SUBSET Nat
      BY <1>3
    <3> QED BY <2>1, <3>1, LeastElement
  <2>3. m \in 1..k /\ e[m] \in 1..l
    BY <1>4
  <2>4. /\ g[m] = g[m - 1] + s[e[m]].size
        /\ f[e[m]] = f[e[m] - 1] + s[e[m]].size
        /\ s[e[m]].size \in Nat
    BY <1>3, <1>4, <2>3
  <2>5. /\ m - 1 \in 0..k /\ m \in 0..k /\ e[m] - 1 \in 0..l /\ e[m] \in 0..l
        /\ m # 1 => m - 1 \in 1..k /\ ~(m <= m - 1) /\ m - 1 < m
        /\ m \in Int
    <3>1. /\ m - 1 \in 0..k /\ m \in 0..k /\ m \in Int
          /\ m # 1 => m - 1 \in 1..k /\ ~(m <= m - 1) /\ m - 1 < m
      BY <1>3, <2>3
    <3>2. \A i \in 1..l : i - 1 \in 0..l /\ i \in 0..l
      BY <1>3
    <3> QED BY <2>3, <3>1, <3>2
  <2>6. g[m] \in Nat /\ g[m - 1] \in Nat /\ f[e[m]] \in Nat /\ f[e[m] - 1] \in Nat
    BY <1>3, <2>5
  <2>7. g[m - 1] <= f[e[m] - 1]
    <3>1. CASE m = 1
      <4>1. g[m - 1] = 0
        BY <1>3, <3>1
      <4> QED BY <2>6, <4>1
    <3>2. CASE m # 1
      <4>1. m - 1 \in 1..k /\ m - 1 \notin Bad
        BY <2>2, <2>5, <3>2
      <4>2. g[m - 1] <= f[e[m - 1]]
        BY <4>1
      <4>3. e[m - 1] < e[m] /\ e[m - 1] \in 1..l
        BY <1>4, <2>3, <2>5, <3>2
      <4>4. e[m - 1] \in 0..l /\ e[m - 1] <= e[m] - 1
        BY <2>3, <4>3
      <4>5. f[e[m - 1]] <= f[e[m] - 1] /\ f[e[m - 1]] \in Nat
        BY <1>3, <1>6, <2>5, <4>4
      <4> QED BY <2>6, <4>2, <4>5
    <3> QED BY <3>1, <3>2
  <2>8. ~(g[m] <= f[e[m]])
    BY <2>2
  <2>9. \A a, b, c \in Nat : a <= b => a + c <= b + c
    OBVIOUS
  <2>10. g[m - 1] + s[e[m]].size <= f[e[m] - 1] + s[e[m]].size
    BY <2>4, <2>6, <2>7, <2>9
  <2> QED BY <2>4, <2>8, <2>10
<1>8. CASE k = 0
  <2>1. 0 \in 0..l /\ l \in 0..l
    BY <1>3
  <2> QED BY <1>3, <1>5, <1>8, <2>1
<1>9. CASE k # 0
  <2>1. k \in 1..k /\ l \in 0..l /\ e[k] \in 1..l
    BY <1>3, <1>4, <1>9
  <2>2. e[k] \in 0..l /\ e[k] <= l
    BY <2>1, <1>3
  <2>3. g[k] <= f[e[k]] /\ f[e[k]] <= f[l]
    BY <1>6, <1>7, <2>1, <2>2
  <2>4. g[k] \in Nat /\ f[e[k]] \in Nat /\ f[l] \in Nat
    <3>1. k \in 0..k
      BY <1>3
    <3> QED BY <1>3, <2>1, <2>2, <3>1
  <2> QED BY <1>5, <2>3, <2>4
<1> QED BY <1>8, <1>9
-----------------------------------------------------------------------------
(* Cutting a queue *)

\* t has the entries of s at the positions in I, in their order.
Kept(t, s, I) ==
    /\ t \in Seq(Entries) /\ Len(t) <= Len(s) /\ Total(t) <= Total(s)
    /\ \A k \in 1..Len(t) : \E i \in I : t[k] = s[i]
    /\ \A i \in I : \E k \in 1..Len(t) : t[k] = s[i]
    /\ \A k, l \in 1..Len(t) :
          k < l => \E i, j \in I : i < j /\ t[k] = s[i] /\ t[l] = s[j]

Positions(t, s, I) ==
    /\ t \in Seq(Entries) /\ DOMAIN t = 1..Len(t)
    /\ \A a \in DOMAIN t : \E i \in I : t[a] = s[i]
    /\ \A i \in I : \E a \in DOMAIN t : t[a] = s[i]
    /\ \A a, b \in DOMAIN t :
          a < b => \E i, j \in I : i < j /\ t[a] = s[i] /\ t[b] = s[j]

LEMMA KeptPositions ==
    ASSUME NEW t, NEW s, NEW I, Kept(t, s, I)
    PROVE  Positions(t, s, I)
<1>1. t \in Seq(Entries)
  BY DEF Kept
<1>2. DOMAIN t = 1..Len(t)
  BY <1>1
<1>3. ASSUME NEW a \in DOMAIN t PROVE \E i \in I : t[a] = s[i]
  <2>1. a \in 1..Len(t)
    BY <1>2
  <2> QED BY <2>1 DEF Kept
<1>4. ASSUME NEW i \in I PROVE \E a \in DOMAIN t : t[a] = s[i]
  <2>1. PICK a \in 1..Len(t) : t[a] = s[i]
    BY DEF Kept
  <2>2. a \in DOMAIN t
    BY <1>2, <2>1
  <2> QED BY <2>1, <2>2
<1>5. ASSUME NEW a \in DOMAIN t, NEW b \in DOMAIN t, a < b
      PROVE  \E i, j \in I : i < j /\ t[a] = s[i] /\ t[b] = s[j]
  <2>1. a \in 1..Len(t) /\ b \in 1..Len(t)
    BY <1>2
  <2> QED BY <1>5, <2>1 DEF Kept
<1> QED BY <1>1, <1>2, <1>3, <1>4, <1>5, Zenon DEF Positions

LEMMA SubsequenceKept ==
    ASSUME NEW s \in Seq(Entries), NEW I \in SUBSET (1..Len(s))
    PROVE  Kept(Subsequence(s, I), s, I)
<1> DEFINE t == Subsequence(s, I)
           e == Enumeration(I)
<1>1. /\ t \in Seq(Entries) /\ Len(t) <= Len(s)
      /\ \A k \in 1..Len(t) : \E i \in I : t[k] = s[i]
      /\ \A i \in I : \E k \in 1..Len(t) : t[k] = s[i]
      /\ \A k, l \in 1..Len(t) :
            k < l => \E i, j \in I : i < j /\ t[k] = s[i] /\ t[l] = s[j]
  BY SubsequenceElements
<1>2. /\ e \in [1..Len(t) -> I]
      /\ \A i, j \in 1..Len(t) : i < j => e[i] < e[j]
      /\ \A i \in 1..Len(t) : t[i] = s[e[i]]
  BY SubsequenceOf DEF Increasing
<1> HIDE DEF t, e
<1>3. e \in [1..Len(t) -> 1..Len(s)]
  BY <1>2
<1>4. Total(t) <= Total(s)
  BY <1>1, <1>2, <1>3, TotalOfPart
<1>5. Kept(t, s, I)
  BY <1>1, <1>4 DEF Kept
<1> QED BY <1>5 DEF t

LEMMA SuffixKept ==
    ASSUME NEW s \in Seq(Entries), NEW n \in 0..Len(s)
    PROVE  Kept(SubSeq(s, n + 1, Len(s)), s, (n + 1)..Len(s))
<1> DEFINE t == SubSeq(s, n + 1, Len(s))
           e == [i \in 1..Len(t) |-> n + i]
           I == (n + 1)..Len(s)
<1>1. /\ t \in Seq(Entries) /\ Len(t) = Len(s) - n
      /\ \A i \in 1..(Len(s) - n) : t[i] = s[n + i]
  BY Halves
<1>2. Len(s) \in Nat /\ n \in Nat /\ n <= Len(s)
  OBVIOUS
<1> HIDE DEF t
<1>3. /\ e \in [1..Len(t) -> 1..Len(s)]
      /\ \A i, j \in 1..Len(t) : i < j => e[i] < e[j]
      /\ \A i \in 1..Len(t) : t[i] = s[e[i]]
  <2>1. \A i \in 1..Len(t) : e[i] = n + i /\ n + i \in 1..Len(s) /\ t[i] = s[n + i]
    BY <1>1, <1>2
  <2>2. e \in [1..Len(t) -> 1..Len(s)]
    BY <2>1
  <2>3. \A i, j \in 1..Len(t) : i < j => n + i < n + j
    BY <1>1, <1>2
  <2> QED BY <2>1, <2>2, <2>3
<1>4. Total(t) <= Total(s)
  <2> HIDE DEF e
  <2> QED BY <1>1, <1>3, TotalOfPart
<1>5. \A k \in 1..Len(t) : n + k \in I /\ t[k] = s[n + k]
  BY <1>1, <1>2
<1>6. ASSUME NEW i \in I PROVE \E k \in 1..Len(t) : t[k] = s[i]
  <2>1. i - n \in 1..Len(t) /\ n + (i - n) = i
    BY <1>1, <1>2
  <2> QED BY <1>5, <2>1
<1>7. ASSUME NEW k \in 1..Len(t), NEW l \in 1..Len(t), k < l
      PROVE  \E i, j \in I : i < j /\ t[k] = s[i] /\ t[l] = s[j]
  <2>1. n + k < n + l
    BY <1>1, <1>2, <1>7
  <2> QED BY <1>5, <2>1
<1>8. Kept(t, s, I)
  <2>1. Len(t) <= Len(s)
    BY <1>1, <1>2
  <2> HIDE DEF I
  <2> QED BY <2>1, <1>1, <1>4, <1>5, <1>6, <1>7 DEF Kept
<1> QED BY <1>8 DEF t

LEMMA TailKept ==
    ASSUME NEW s \in Seq(Entries), s # <<>>
    PROVE  Kept(Tail(s), s, 2..Len(s))
<1>1. 1 \in 0..Len(s) /\ Tail(s) = SubSeq(s, 1 + 1, Len(s)) /\ 1 + 1 = 2
  OBVIOUS
<1> QED BY <1>1, SuffixKept

LEMMA AllKept ==
    ASSUME NEW s \in Seq(Entries)
    PROVE  Kept(s, s, 1..Len(s))
<1>1. 0 \in 0..Len(s) /\ s = SubSeq(s, 0 + 1, Len(s)) /\ 0 + 1 = 1
  OBVIOUS
<1> QED BY <1>1, SuffixKept

LEMMA NothingKept ==
    ASSUME NEW s \in Seq(Entries)
    PROVE  Kept(<<>>, s, {})
<1>1. <<>> \in Seq(Entries) /\ Len(<<>>) = 0 /\ Len(s) \in Nat
  OBVIOUS
<1>2. PICK f : Account(f, s)
  BY AccountExists
<1>3. Total(<<>>) <= Total(s)
  BY <1>2, TotalOf, TotalOfEmpty
<1> QED BY <1>1, <1>3 DEF Kept

LEMMA AllButTheLastKept ==
    ASSUME NEW s \in Seq(Entries), NEW e \in Entries
    PROVE  /\ Kept(s, Append(s, e), 1..Len(s))
           /\ DOMAIN Append(s, e) = 1..(Len(s) + 1)
           /\ Append(s, e)[Len(s) + 1] = e
<1> DEFINE t == Append(s, e)
           l == Len(s)
<1>1. /\ l \in Nat /\ s \in Seq(Entries) /\ Len(s) = l
      /\ t \in Seq(Entries) /\ Len(t) = l + 1 /\ DOMAIN t = 1..(l + 1)
      /\ \A i \in 1..l : t[i] = s[i]
      /\ t[l + 1] = e
  OBVIOUS
<1>2. Total(s) <= Total(t)
  <2>1. Total(t) = Total(s) + e.size
    BY TotalOfAppend
  <2>2. Total(s) \in Nat /\ e.size \in Nat
    BY AccountExists, TotalOf DEF Entries
  <2> HIDE DEF t
  <2> QED BY <2>1, <2>2
<1> HIDE DEF t, l
<1>3. Kept(s, t, 1..l)
  <2>1. Len(s) <= Len(t)
    BY <1>1
  <2> QED BY <1>1, <1>2, <2>1 DEF Kept
<1> QED BY <1>1, <1>3 DEF t, l

LEMMA TotalType == ASSUME NEW s \in Seq(Entries) PROVE Total(s) \in Nat
BY AccountExists, TotalOf

-----------------------------------------------------------------------------
(* Types *)

Replies == Outcomes \ {"cancelled"}
Names == {None} \cup Panes \X Nat

LEMMA ResolveType ==
    ASSUME TypeOK, NEW entries, NEW r \in Replies
    PROVE  Resolve(entries, r) \in [Panes -> Replies]
BY DEF TypeOK, Resolve, Replies

\* The first entry the user is asked about, or the end of the queue.
LEMMA FirstAskedIs ==
    ASSUME NEW k, NEW q \in Seq(Entries), NEW n, n = FirstAsked(k, q)
    PROVE  /\ n \in 1..(Len(q) + 1)
           /\ \A i \in 1..Len(q) : i < n => ~Needs(k, q[i])
           /\ n <= Len(q) => Needs(k, q[n])
<1> DEFINE A == {i \in DOMAIN q : Needs(k, q[i])}
<1>1. Len(q) \in Nat /\ DOMAIN q = 1..Len(q)
  OBVIOUS
<1>2. CASE A = {}
  <2>1. n = Len(q) + 1
    BY <1>2 DEF FirstAsked
  <2> QED BY <1>1, <1>2, <2>1
<1>3. CASE A # {}
  <2>1. n = CHOOSE i \in A : \A j \in A : i <= j
    BY <1>3 DEF FirstAsked
  <2>2. A \in SUBSET Nat
    BY <1>1
  <2>3. \E i \in A : \A j \in A : i <= j
    <3> HIDE DEF A
    <3> QED BY <1>3, <2>2, LeastElement
  <2>4. n \in A /\ \A j \in A : n <= j
    <3> HIDE DEF A
    <3> QED BY <2>1, <2>3
  <2>5. n \in 1..Len(q) /\ Needs(k, q[n])
    BY <1>1, <2>4
  <2>6. ASSUME NEW i \in 1..Len(q), i < n, Needs(k, q[i]) PROVE FALSE
    <3>1. n <= i
      BY <1>1, <2>4, <2>6
    <3> QED BY <2>5, <2>6, <3>1
  <2> QED BY <1>1, <2>5, <2>6
<1> QED BY <1>2, <1>3

LEMMA NameType == ASSUME NEW e \in Entries PROVE Name(e) \in Names
BY DEF Entries, Name, Names

\* The part of the state that the slots of the workspace write.
QueuesTyped ==
    /\ queue \in [Kinds -> Seq(Entries)] /\ bytes \in [Kinds -> Nat]
    /\ reply \in [Panes -> Replies]
    /\ active \in [Kinds -> Names] /\ dialog \in [Kinds -> Names]

LEMMA DrainedType ==
    ASSUME TypeOK, NEW k \in Kinds, NEW q \in Seq(Entries), NEW ok \in BOOLEAN,
           Drained(k, q, ok)
    PROVE  QueuesTyped'
<1> DEFINE n == FirstAsked(k, q)
           rest == SubSeq(q, n, Len(q))
           done == {q[i] : i \in 1..(n - 1)}
           result(p) == IF ~Live(p) THEN "denied" ELSE IF ok THEN "success" ELSE "failed"
<1>1. /\ queue' = [queue EXCEPT ![k] = rest]
      /\ bytes' = [bytes EXCEPT ![k] = Total(rest)]
      /\ reply' = [p \in Panes |-> Resolve(done, result(p))[p]]
      /\ IF rest = <<>>
           THEN UNCHANGED <<active, dialog>>
           ELSE /\ active' = [active EXCEPT ![k] = Name(Head(rest))]
                /\ dialog' = [dialog EXCEPT ![k] = Name(Head(rest))]
  BY DEF Drained
<1>2. rest \in Seq(Entries) /\ (rest # <<>> => Head(rest) \in Entries)
  <2>1. n \in 1..(Len(q) + 1)
    BY FirstAskedIs
  <2> HIDE DEF n
  <2>2. rest \in Seq(Entries)
    BY <2>1
  <2> HIDE DEF rest
  <2> QED BY <2>2
<1>3. Total(rest) \in Nat
  BY <1>2, TotalType
<1>4. reply' \in [Panes -> Replies]
  <2>1. ASSUME NEW p \in Panes PROVE Resolve(done, result(p))[p] \in Replies
    <3>1. result(p) \in Replies
      BY DEF Replies, Outcomes
    <3> HIDE DEF result, done
    <3> QED BY <3>1, ResolveType
  <2> HIDE DEF result, done
  <2> QED BY <1>1, <2>1
<1>5. rest # <<>> => Name(Head(rest)) \in Names
  BY <1>2, NameType
<1> HIDE DEF n, rest, done, result
<1>6. queue' \in [Kinds -> Seq(Entries)] /\ bytes' \in [Kinds -> Nat]
  BY <1>1, <1>2, <1>3 DEF TypeOK
<1>7. active' \in [Kinds -> Names] /\ dialog' \in [Kinds -> Names]
  <2>1. active \in [Kinds -> Names] /\ dialog \in [Kinds -> Names]
    BY DEF TypeOK, Names
  <2>2. CASE rest = <<>>
    BY <1>1, <2>1, <2>2
  <2>3. CASE rest # <<>>
    <3>1. PICK e \in Names : e = Name(Head(rest))
      BY <1>5, <2>3
    <3>2. active' = [active EXCEPT ![k] = e] /\ dialog' = [dialog EXCEPT ![k] = e]
      BY <1>1, <2>3, <3>1
    <3> QED BY <2>1, <3>2
  <2> QED BY <2>2, <2>3
<1> QED BY <1>4, <1>6, <1>7 DEF QueuesTyped

LEMMA DrainType ==
    ASSUME TypeOK, NEW k \in Kinds, NEW q \in Seq(Entries), NEW ok \in BOOLEAN,
           Drain(k, q, ok)
    PROVE  QueuesTyped'
<1>1. CASE active[k] # None
  <2>1. /\ queue' = [queue EXCEPT ![k] = q]
        /\ bytes' = [bytes EXCEPT ![k] = Total(q)]
        /\ UNCHANGED <<active, dialog, reply>>
    BY <1>1 DEF Drain
  <2> QED BY <2>1, TotalType DEF TypeOK, QueuesTyped, Names, Replies
<1>2. CASE active[k] = None
  BY <1>2, DrainedType DEF Drain
<1> QED BY <1>1, <1>2

\* The entry of a request that arrives.
Arrived(p) ==
    [pane |-> p, id |-> serial[p], ask |-> request[p].ask, size |-> request[p].size]

\* What beginTerminalClipboardWrite() and ...Read() come to.
LEMMA BeginCases ==
    ASSUME NEW p, NEW ok, Begin(p, ok)
    PROVE  LET k == request[p].kind
               e == Arrived(p)
           IN  \/ /\ \E r \in Replies \ {"none"} :
                        /\ r = "success" => ~e.ask
                        /\ reply' = Resolve({e}, r)
                  /\ UNCHANGED <<queue, bytes, active, dialog>>
               \/ /\ k = "read" => e.ask
                  /\ Fits(k, e.size)
                  /\ Drain(k, Append(queue[k], e), ok)
BY DEF Begin, Arrived, Busy, Replies, Outcomes

-----------------------------------------------------------------------------
(* The inductive invariant *)

\* An entry e of the queue of kind k, when the signals in transit are those of
\* transit: its worker waits for it unless its bridge was closed, it is the
\* pane's current request, and it says of the policy what the request does.
EntryOK(e, k, transit) ==
    /\ closed[e.pane] \/ Unresolved(e)
    /\ e.id = serial[e.pane]
    /\ ~transit[e.pane]
    /\ ~closed[e.pane] => request[e.pane].ask = e.ask
    /\ k = "read" => e.ask

\* No pane has two entries, in one queue or in the two.
QueuesOK(q, transit) ==
    /\ \A k \in Kinds : \A i \in DOMAIN q[k] : EntryOK(q[k][i], k, transit)
    /\ \A k, l \in Kinds : \A i \in DOMAIN q[k], j \in DOMAIN q[l] :
          q[k][i].pane = q[l][j].pane => k = l /\ i = j

\* A worker whose reply is to come has a signal on its way or an entry.
Known(q, transit) ==
    \A p \in Panes :
        worker[p] = "waiting" /\ ~closed[p] /\ reply[p] = "none" =>
            transit[p] \/ \E k \in Kinds : \E i \in DOMAIN q[k] : q[k][i].pane = p

Limits(q) ==
    \A k \in Kinds :
        /\ Len(q[k]) <= MaxEntries
        /\ Total(q[k]) > MaxBytes => k = "write" /\ Len(q[k]) = 1

\* A reply waits for a worker that waits for it; so does the user's consent; a
\* success has its consent; and a pane is on its way out only with its bridge
\* closed.
PaneOK(p) ==
    /\ reply[p] # "none" => worker[p] = "waiting"
    /\ p \in agreed => worker[p] = "waiting"
    /\ inTransit[p] => serial[p] # 0
    /\ inTransit[p] /\ ~closed[p] => worker[p] = "waiting" /\ reply[p] = "none"
    /\ reply[p] = "success" => ~request[p].ask \/ p \in agreed
    /\ pane[p] # "live" => closed[p]
    /\ window # "open" => closed[p]
    /\ blockedOn = p => closed[p]

IInv ==
    /\ TypeOK
    /\ \A p \in Panes : PaneOK(p)
    /\ QueuesOK(queue, inTransit)
    /\ Known(queue, inTransit)
    /\ DialogFollowsQueue
    /\ AccountsExact

LEMMA ArrivedType ==
    ASSUME TypeOK, NEW p \in Panes, PaneOK(p), inTransit[p]
    PROVE  Arrived(p) \in Entries /\ request[p].kind \in Kinds
BY DEF TypeOK, PaneOK, Arrived, Entries, Requests

LEMMA BeginType ==
    ASSUME TypeOK, NEW p \in Panes, PaneOK(p), inTransit[p], NEW ok \in BOOLEAN,
           Begin(p, ok)
    PROVE  QueuesTyped'
<1> DEFINE k == request[p].kind
           e == Arrived(p)
<1>1. e \in Entries /\ k \in Kinds
  BY ArrivedType
<1>2. ASSUME NEW r \in Replies, reply' = Resolve({e}, r),
             UNCHANGED <<queue, bytes, active, dialog>>
      PROVE  QueuesTyped'
  <2>1. reply' \in [Panes -> Replies]
    BY <1>2, ResolveType
  <2> QED BY <1>2, <2>1 DEF TypeOK, QueuesTyped, Names
<1>3. CASE Drain(k, Append(queue[k], e), ok)
  <2>1. Append(queue[k], e) \in Seq(Entries)
    BY <1>1 DEF TypeOK
  <2> QED BY <1>1, <1>3, <2>1, DrainType
<1> QED BY <1>2, <1>3, BeginCases

\* removePendingClipboardWritesForPane() and ...ReadsForPane(), kind by kind.
LEMMA RemovePendingType ==
    ASSUME TypeOK, NEW p \in Panes, RemovePending(p)
    PROVE  QueuesTyped' /\ timer' \in [Kinds -> BOOLEAN]
<1> DEFINE I(k) == {i \in DOMAIN queue[k] : queue[k][i].pane # p}
           kept(k) == Subsequence(queue[k], I(k))
           removed == {e \in UNION {Range(queue[k]) : k \in Kinds} : e.pane = p}
<1>1. /\ queue' = [k \in Kinds |-> kept(k)]
      /\ bytes' = [k \in Kinds |-> Total(kept(k))]
      /\ reply' = Resolve(removed, "denied")
      /\ active' = [k \in Kinds |-> IF RemovesActive(k, p) THEN None ELSE active[k]]
      /\ dialog' = [k \in Kinds |-> IF RemovesActive(k, p) /\ dialog[k] = active[k]
                                    THEN None ELSE dialog[k]]
      /\ timer' = [k \in Kinds |-> timer[k] \/ (kept(k) # <<>> /\ active'[k] = None)]
  BY DEF RemovePending
<1>2. ASSUME NEW k \in Kinds PROVE kept(k) \in Seq(Entries) /\ Total(kept(k)) \in Nat
  <2>1. queue[k] \in Seq(Entries)
    BY DEF TypeOK
  <2>2. I(k) \in SUBSET (1..Len(queue[k]))
    BY <2>1
  <2>3. kept(k) \in Seq(Entries)
    BY <2>1, <2>2, SubsequenceKept DEF Kept
  <2> QED BY <2>3, TotalType
<1>3. reply' \in [Panes -> Replies]
  <2>1. "denied" \in Replies
    BY DEF Replies, Outcomes
  <2> QED BY <1>1, <2>1, ResolveType
<1> HIDE DEF kept, removed
<1>4. queue' \in [Kinds -> Seq(Entries)] /\ bytes' \in [Kinds -> Nat]
  BY <1>1, <1>2
<1>5. active' \in [Kinds -> Names] /\ dialog' \in [Kinds -> Names]
  BY <1>1 DEF TypeOK, Names
<1>6. timer' \in [Kinds -> BOOLEAN]
  BY <1>1 DEF TypeOK
<1> QED BY <1>3, <1>4, <1>5, <1>6 DEF QueuesTyped

LEMMA BeginShutdownType ==
    ASSUME TypeOK, NEW P, BeginShutdown(P)
    PROVE  stop' \in [Panes -> BOOLEAN] /\ closed' \in [Panes -> BOOLEAN]
BY DEF TypeOK, BeginShutdown

LEMMA KeepWhileCarriedType ==
    ASSUME TypeOK, NEW p \in Panes, KeepWhileCarried(p)
    PROVE  request' \in [Panes -> Requests]
<1>1. NoRequest \in Requests
  BY DEF NoRequest, Requests, Kinds
<1> QED BY <1>1 DEF TypeOK, KeepWhileCarried

\* An answer is about the head of its queue, and takes it out.
LEMMA AnswerIs ==
    ASSUME IInv, NEW k \in Kinds, NEW confirmed \in BOOLEAN, NEW ok \in BOOLEAN,
           Answer(k, confirmed, ok)
    PROVE  LET e == Head(queue[k])
               rest == Tail(queue[k])
           IN  /\ queue[k] # <<>> /\ queue[k] \in Seq(Entries) /\ e \in Entries
               /\ active[k] # None
               /\ queue' = [queue EXCEPT ![k] = rest]
               /\ bytes' = [bytes EXCEPT ![k] = Total(rest)]
               /\ active' = [active EXCEPT ![k] = None]
               /\ dialog' = [dialog EXCEPT ![k] = None]
               /\ timer' = [timer EXCEPT ![k] = @ \/ rest # <<>>]
               /\ agreed' = IF confirmed /\ Unresolved(e) THEN agreed \cup {e.pane}
                            ELSE agreed
               /\ \E r \in Replies \ {"none"} :
                     /\ reply' = Resolve({e}, r)
                     /\ r = "success" => confirmed
<1>1. dialog[k] = active[k] /\ queue[k] # <<>> /\ active[k] # None
  BY DEF IInv, DialogFollowsQueue, Answer
<1>2. queue[k] \in Seq(Entries) /\ Head(queue[k]) \in Entries
  <2>1. queue[k] \in Seq(Entries)
    BY DEF IInv, TypeOK
  <2> QED BY <1>1, <2>1
<1>3. bytes[k] - Charge(Head(queue[k])) = Total(Tail(queue[k]))
  BY <1>1, <1>2, TotalOfTail DEF Charge, IInv, AccountsExact
<1>4. /\ queue' = [queue EXCEPT ![k] = Tail(queue[k])]
      /\ bytes' = [bytes EXCEPT ![k] = @ - Charge(Head(queue[k]))]
      /\ active' = [active EXCEPT ![k] = None]
      /\ dialog' = [dialog EXCEPT ![k] = None]
      /\ timer' = [timer EXCEPT ![k] = @ \/ DrainNeeded(Tail(queue[k]))]
      /\ agreed' = IF confirmed /\ Unresolved(Head(queue[k]))
                   THEN agreed \cup {Head(queue[k]).pane} ELSE agreed
      /\ reply' = Resolve({Head(queue[k])},
                          IF ~confirmed \/ ~Live(Head(queue[k]).pane) THEN "denied"
                          ELSE IF k = "write" /\ ~ok THEN "failed" ELSE "success")
  BY <1>1 DEF Answer
<1>5. bytes' = [bytes EXCEPT ![k] = Total(Tail(queue[k]))]
  BY <1>3, <1>4 DEF IInv, TypeOK
<1>6. \E r \in Replies \ {"none"} :
         reply' = Resolve({Head(queue[k])}, r) /\ (r = "success" => confirmed)
  BY <1>4 DEF Replies, Outcomes
<1>7. timer' = [timer EXCEPT ![k] = @ \/ Tail(queue[k]) # <<>>]
  BY <1>4 DEF DrainNeeded
<1> QED BY <1>1, <1>2, <1>4, <1>5, <1>6, <1>7

LEMMA TypeStep ==
    ASSUME IInv, [Next]_vars
    PROVE  TypeOK'
<1> TypeOK /\ \A p \in Panes : PaneOK(p)
  BY DEF IInv
<1>0. ASSUME QueuesTyped',
             /\ worker' \in [Panes -> {"running", "waiting", "stopped"}]
             /\ stop' \in [Panes -> BOOLEAN] /\ closed' \in [Panes -> BOOLEAN]
             /\ serial' \in [Panes -> Nat]
             /\ request' \in [Panes -> Requests]
             /\ outcome' \in [Panes -> Outcomes]
             /\ inTransit' \in [Panes -> BOOLEAN]
             /\ pane' \in [Panes -> {"live", "retiring", "removed", "deleting", "gone"}]
             /\ timer' \in [Kinds -> BOOLEAN]
             /\ window' \in {"open", "committed", "destroyed"}
             /\ blockedOn' \in Panes \cup {NoPane}
             /\ agreed' \subseteq Panes
      PROVE  TypeOK'
  BY <1>0 DEF TypeOK, QueuesTyped, Replies, Names
<1>00. UNCHANGED <<queue, bytes, active, dialog, reply>> => QueuesTyped'
  BY DEF TypeOK, QueuesTyped, Replies, Names
<1>1. ASSUME NEW p \in Panes, NEW k \in Kinds, NEW ask \in BOOLEAN, NEW s \in Sizes[p],
             Ask(p, k, ask, s)
      PROVE  TypeOK'
  <2>1. s \in Nat
    BY ClipboardAssumption
  <2>2. request' \in [Panes -> Requests]
    BY <1>1, <2>1 DEF Ask, TypeOK, Requests
  <2>3. /\ serial' \in [Panes -> Nat] /\ outcome' \in [Panes -> Outcomes]
        /\ inTransit' \in [Panes -> BOOLEAN]
        /\ worker' \in [Panes -> {"running", "waiting", "stopped"}]
    BY <1>1 DEF Ask, TypeOK, Outcomes
  <2> QED BY <1>0, <1>00, <1>1, <2>2, <2>3 DEF Ask, TypeOK, workspace
<1>2. ASSUME NEW p \in Panes, NEW ok \in BOOLEAN, Deliver(p, ok) PROVE TypeOK'
  <2>1. QueuesTyped' /\ request' \in [Panes -> Requests]
    BY <1>2, BeginType, KeepWhileCarriedType DEF Deliver
  <2> QED BY <1>0, <1>2, <2>1 DEF Deliver, TypeOK
<1>3. ASSUME NEW p \in Panes, Wake(p) PROVE TypeOK'
  <2>1. request' \in [Panes -> Requests]
    BY <1>3, KeepWhileCarriedType DEF Wake
  <2>2. reply' \in [Panes -> Replies]
    BY <1>3 DEF Wake, TypeOK, Replies, Outcomes
  <2>3. QueuesTyped'
    BY <1>3, <2>2 DEF Wake, workspace, TypeOK, QueuesTyped, Names
  <2>4. outcome' \in [Panes -> Outcomes]
    BY <1>3 DEF Wake, TypeOK, Outcomes
  <2> QED BY <1>0, <1>3, <2>1, <2>3, <2>4 DEF Wake, TypeOK, workspace
<1>4. ASSUME NEW p \in Panes, Shutdown(p) PROVE TypeOK'
  BY <1>0, <1>00, <1>4 DEF Shutdown, TypeOK, workspace
<1>5. ASSUME NEW p \in Panes, Retire(p) PROVE TypeOK'
  <2>1. /\ QueuesTyped' /\ timer' \in [Kinds -> BOOLEAN]
        /\ stop' \in [Panes -> BOOLEAN] /\ closed' \in [Panes -> BOOLEAN]
    BY <1>5, RemovePendingType, BeginShutdownType DEF Retire
  <2> QED BY <1>0, <1>5, <2>1 DEF Retire, TypeOK
<1>6. ASSUME NEW p \in Panes, CommitRemoval(p) PROVE TypeOK'
  <2>1. QueuesTyped' /\ timer' \in [Kinds -> BOOLEAN]
    BY <1>6, RemovePendingType DEF CommitRemoval
  <2> QED BY <1>0, <1>6, <2>1 DEF CommitRemoval, TypeOK, bridge
<1>7. ASSUME NEW p \in Panes, DestroyBegins(p) PROVE TypeOK'
  <2>1. /\ request' \in [Panes -> Requests]
        /\ stop' \in [Panes -> BOOLEAN] /\ closed' \in [Panes -> BOOLEAN]
    BY <1>7, BeginShutdownType, KeepWhileCarriedType DEF DestroyBegins
  <2> QED BY <1>0, <1>00, <1>7, <2>1 DEF DestroyBegins, TypeOK, workspace
<1>8. ASSUME NEW p \in Panes, DestroyEnds(p) PROVE TypeOK'
  BY <1>0, <1>00, <1>8 DEF DestroyEnds, TypeOK, workspace, bridge
<1>9. ASSUME NEW k \in Kinds, NEW ok \in BOOLEAN, DrainTimer(k, ok) PROVE TypeOK'
  <2>1. queue[k] \in Seq(Entries)
    BY DEF TypeOK
  <2>2. QueuesTyped'
    BY <1>9, <2>1, DrainType DEF DrainTimer
  <2>3. timer' \in [Kinds -> BOOLEAN]
    BY <1>9 DEF DrainTimer, TypeOK
  <2> QED BY <1>0, <1>9, <2>2, <2>3 DEF DrainTimer, TypeOK, bridge
<1>10. ASSUME NEW k \in Kinds, NEW confirmed \in BOOLEAN, NEW ok \in BOOLEAN,
              Answer(k, confirmed, ok)
       PROVE  TypeOK'
  <2> DEFINE e == Head(queue[k])
             rest == Tail(queue[k])
  <2>1. queue[k] # <<>> /\ queue[k] \in Seq(Entries) /\ e \in Entries
    BY <1>10, AnswerIs
  <2>2. rest \in Seq(Entries) /\ Total(rest) \in Nat
    <3>1. rest \in Seq(Entries)
      BY <2>1
    <3> QED BY <3>1, TotalType
  <2>3. /\ queue' = [queue EXCEPT ![k] = rest]
        /\ bytes' = [bytes EXCEPT ![k] = Total(rest)]
        /\ active' = [active EXCEPT ![k] = None]
        /\ dialog' = [dialog EXCEPT ![k] = None]
        /\ timer' = [timer EXCEPT ![k] = @ \/ rest # <<>>]
    BY <1>10, AnswerIs
  <2>4. reply' \in [Panes -> Replies]
    <3>1. PICK r \in Replies : reply' = Resolve({e}, r)
      BY <1>10, AnswerIs
    <3> QED BY <3>1, ResolveType
  <2>5. agreed' \subseteq Panes
    <3>1. e.pane \in Panes
      BY <2>1 DEF Entries
    <3>2. agreed' \subseteq agreed \cup {e.pane}
      BY <1>10, AnswerIs
    <3> QED BY <3>1, <3>2 DEF TypeOK
  <2> HIDE DEF e, rest
  <2>6. QueuesTyped' /\ timer' \in [Kinds -> BOOLEAN]
    BY <2>2, <2>3, <2>4 DEF QueuesTyped, TypeOK, Names
  <2> QED BY <1>0, <1>10, <2>5, <2>6 DEF Answer, TypeOK, bridge
<1>11. CASE CommitWindowClose
  BY <1>0, <1>00, <1>11, BeginShutdownType DEF CommitWindowClose, TypeOK, workspace
<1>12. CASE DestroyWorkspace
  <2>1. <<>> \in Seq(Entries)
    OBVIOUS
  <2>2. QueuesTyped' /\ timer' \in [Kinds -> BOOLEAN]
    BY <1>12, <2>1 DEF DestroyWorkspace, QueuesTyped, TypeOK, Replies, Names
  <2> QED BY <1>0, <1>12, <2>2 DEF DestroyWorkspace, TypeOK, bridge
<1>13. CASE UNCHANGED vars
  BY <1>0, <1>00, <1>13 DEF TypeOK, vars, bridge, workspace
<1> QED
  BY <1>1, <1>2, <1>3, <1>4, <1>5, <1>6, <1>7, <1>8, <1>9, <1>10, <1>11, <1>12, <1>13
  DEF Next

-----------------------------------------------------------------------------
(* What every slot does to the queues *)

\* A slot leaves the workers alone, but for the signals in transit.
Frame(transit) ==
    /\ worker' = worker /\ serial' = serial /\ inTransit' = transit
    /\ \A p \in Panes : closed[p] => closed'[p]
    /\ \A p \in Panes : worker[p] = "waiting" => request'[p] = request[p]
    /\ agreed \subseteq agreed'
    /\ \A p \in agreed' : p \in agreed \/ worker[p] = "waiting"
    /\ \A p \in Panes : pane'[p] # "live" \/ window' # "open" \/ blockedOn' = p => closed'[p]

\* It keeps the positions in I[k] of the queue q[k].  What it takes out is replied
\* to, unless its pane's bridge is closed, and nothing else gets a reply.
Leaving(q, I) ==
    /\ \A k \in Kinds : I[k] \subseteq DOMAIN q[k]
    /\ \A k \in Kinds : Kept(queue'[k], q[k], I[k])
    /\ \A p \in Panes :
          \/ reply'[p] = reply[p]
          \/ \E k \in Kinds : \E i \in (DOMAIN q[k]) \ I[k] :
                /\ q[k][i].pane = p /\ ~closed[p]
                /\ reply'[p] = "success" => ~q[k][i].ask \/ p \in agreed'
    /\ \A k \in Kinds : \A i \in (DOMAIN q[k]) \ I[k] :
          closed'[q[k][i].pane] \/ reply'[q[k][i].pane] # "none"

LEMMA LeavingKeeps ==
    ASSUME TypeOK, NEW q \in [Kinds -> Seq(Entries)], NEW transit, NEW I,
           \A p \in Panes : transit[p] => inTransit[p],
           \A p \in Panes : PaneOK(p),
           QueuesOK(q, transit), Known(q, transit),
           Frame(transit), Leaving(q, I)
    PROVE  /\ \A p \in Panes : PaneOK(p)'
           /\ QueuesOK(queue, inTransit)'
           /\ Known(queue, inTransit)'
<1> \A k \in Kinds : I[k] \subseteq DOMAIN q[k]
  BY DEF Leaving
<1>1. \A k \in Kinds : Positions(queue'[k], q[k], I[k])
  BY KeptPositions, Zenon DEF Leaving, Frame
<1>2. ASSUME NEW k \in Kinds, NEW i \in DOMAIN q[k]
      PROVE  q[k][i] \in Entries /\ q[k][i].pane \in Panes /\ EntryOK(q[k][i], k, transit)
  <2>1. q[k] \in Seq(Entries)
    OBVIOUS
  <2>2. q[k][i] \in Entries
    BY <2>1
  <2> QED BY <2>2 DEF Entries, QueuesOK
\* A reply is only given to a pane whose entry leaves, and it waits for it.
<1>3. ASSUME NEW p \in Panes, reply'[p] # reply[p]
      PROVE  \E k \in Kinds : \E i \in (DOMAIN q[k]) \ I[k] :
                /\ q[k][i].pane = p /\ ~closed[p] /\ Unresolved(q[k][i])
                /\ worker[p] = "waiting" /\ ~transit[p]
                /\ reply'[p] = "success" => ~request[p].ask \/ p \in agreed'
  <2>0. PICK k \in Kinds : \E i \in (DOMAIN q[k]) \ I[k] :
                /\ q[k][i].pane = p /\ ~closed[p]
                /\ reply'[p] = "success" => ~q[k][i].ask \/ p \in agreed'
    BY <1>3 DEF Leaving, Frame
  <2>1. PICK i \in (DOMAIN q[k]) \ I[k] :
                /\ q[k][i].pane = p /\ ~closed[p]
                /\ reply'[p] = "success" => ~q[k][i].ask \/ p \in agreed'
    BY <2>0
  <2>2. EntryOK(q[k][i], k, transit)
    BY <1>2
  <2> QED BY <2>1, <2>2 DEF EntryOK, Unresolved
<1>4. ASSUME NEW p \in Panes PROVE PaneOK(p)'
  <2>1. PaneOK(p) /\ worker' = worker /\ serial' = serial /\ inTransit' = transit
    BY DEF Leaving, Frame
  <2>2. /\ (reply[p] # "none" => worker[p] = "waiting")'
        /\ (p \in agreed => worker[p] = "waiting")'
    BY <1>3, <2>1 DEF PaneOK, Leaving, Frame
  <2>3. /\ (inTransit[p] => serial[p] # 0)'
        /\ (inTransit[p] /\ ~closed[p] => worker[p] = "waiting" /\ reply[p] = "none")'
    BY <1>3, <2>1 DEF PaneOK, Leaving, Frame
  <2>4. (reply[p] = "success" => ~request[p].ask \/ p \in agreed)'
    <3>1. ASSUME reply'[p] = "success" PROVE worker[p] = "waiting"
      BY <1>3, <2>1, <3>1 DEF PaneOK
    <3>2. worker[p] = "waiting" => request'[p] = request[p]
      BY DEF Leaving, Frame
    <3>3. agreed \subseteq agreed'
      BY DEF Leaving, Frame
    <3> QED BY <1>3, <2>1, <3>1, <3>2, <3>3 DEF PaneOK
  <2>5. /\ (pane[p] # "live" => closed[p])' /\ (window # "open" => closed[p])'
        /\ (blockedOn = p => closed[p])'
    BY DEF Leaving, Frame
  <2> QED BY <2>2, <2>3, <2>4, <2>5 DEF PaneOK
<1>5. ASSUME NEW k \in Kinds, NEW a \in DOMAIN queue'[k]
      PROVE  EntryOK(queue[k][a], k, inTransit)'
  <2>1. PICK i \in I[k] : queue'[k][a] = q[k][i]
    BY <1>1 DEF Positions
  <2> DEFINE e == q[k][i]
  <2>2. i \in DOMAIN q[k] /\ e.pane \in Panes /\ EntryOK(e, k, transit)
    BY <1>2
  <2>3. closed'[e.pane] \/ reply'[e.pane] = reply[e.pane]
    <3>1. ASSUME reply'[e.pane] # reply[e.pane] PROVE FALSE
      <4>0. PICK l \in Kinds : \E j \in (DOMAIN q[l]) \ I[l] : q[l][j].pane = e.pane
        BY <1>3, <2>2, <3>1
      <4>1. PICK j \in (DOMAIN q[l]) \ I[l] : q[l][j].pane = e.pane
        BY <4>0
      <4>2. l = k /\ j = i
        BY <2>2, <4>1 DEF QueuesOK
      <4> QED BY <4>1, <4>2
    <3> QED BY <3>1
  <2>4. /\ worker' = worker /\ serial' = serial /\ inTransit' = transit
        /\ closed[e.pane] => closed'[e.pane]
        /\ worker[e.pane] = "waiting" => request'[e.pane] = request[e.pane]
    BY <2>2 DEF Leaving, Frame
  <2> HIDE DEF e
  <2>5. (closed[e.pane] \/ Unresolved(e))'
    BY <2>2, <2>3, <2>4 DEF EntryOK, Unresolved
  <2>6. (~closed[e.pane] => request[e.pane].ask = e.ask)'
    BY <2>2, <2>4 DEF EntryOK, Unresolved
  <2>7. EntryOK(e, k, inTransit)'
    BY <2>2, <2>4, <2>5, <2>6 DEF EntryOK
  <2> QED BY <2>1, <2>7 DEF EntryOK, Unresolved, e
<1>6. ASSUME NEW k \in Kinds, NEW l \in Kinds,
             NEW a \in DOMAIN queue'[k], NEW b \in DOMAIN queue'[l],
             queue'[k][a].pane = queue'[l][b].pane
      PROVE  k = l /\ a = b
  <2>1. PICK i \in I[k] : queue'[k][a] = q[k][i]
    BY <1>1 DEF Positions
  <2>2. PICK j \in I[l] : queue'[l][b] = q[l][j]
    BY <1>1 DEF Positions
  <2>3. k = l
    BY <1>6, <2>1, <2>2 DEF QueuesOK
  <2>4. a \in Int /\ b \in Int
    <3>1. a \in 1..Len(queue'[k]) /\ b \in 1..Len(queue'[l])
      BY <1>1 DEF Positions
    <3> QED BY <3>1
  <2>5. ASSUME NEW c \in DOMAIN queue'[k], NEW d \in DOMAIN queue'[k], c < d,
               queue'[k][c].pane = queue'[k][d].pane
        PROVE  FALSE
    <3>1. PICK m \in I[k], n \in I[k] :
             m < n /\ queue'[k][c] = q[k][m] /\ queue'[k][d] = q[k][n]
      BY <1>1, <2>5 DEF Positions
    <3>2. m = n
      BY <2>5, <3>1 DEF QueuesOK
    <3>3. m \in Int /\ n \in Int
      <4>1. q[k] \in Seq(Entries) /\ m \in DOMAIN q[k] /\ n \in DOMAIN q[k]
        OBVIOUS
      <4> QED BY <4>1
    <3> QED BY <3>1, <3>2, <3>3
  <2>6. ~(a < b) /\ ~(b < a)
    BY <1>6, <2>3, <2>5
  <2> QED BY <2>3, <2>4, <2>6
<1>7. QueuesOK(queue, inTransit)'
  BY <1>5, <1>6 DEF QueuesOK
<1>8. Known(queue, inTransit)'
  <2>1. SUFFICES ASSUME NEW p \in Panes,
                        worker'[p] = "waiting", ~closed'[p], reply'[p] = "none"
                 PROVE  \/ inTransit'[p]
                        \/ \E k \in Kinds : \E a \in DOMAIN queue'[k] :
                              queue'[k][a].pane = p
    BY DEF Known
  <2>2. worker[p] = "waiting" /\ ~closed[p] /\ inTransit' = transit
    BY <2>1 DEF Leaving, Frame
  <2>3. reply[p] = "none"
    <3>1. ASSUME reply'[p] # reply[p] PROVE FALSE
      <4>0. PICK k \in Kinds : \E i \in (DOMAIN q[k]) \ I[k] : q[k][i].pane = p
        BY <1>3, <3>1
      <4>1. PICK i \in (DOMAIN q[k]) \ I[k] : q[k][i].pane = p
        BY <4>0
      <4>2. closed'[p] \/ reply'[p] # "none"
        BY <4>1 DEF Leaving, Frame
      <4> QED BY <2>1, <4>2
    <3> QED BY <2>1, <3>1
  <2>4. CASE transit[p]
    BY <2>2, <2>4
  <2>5. CASE ~transit[p]
    <3>0. PICK k \in Kinds : \E i \in DOMAIN q[k] : q[k][i].pane = p
      BY <2>2, <2>3, <2>5 DEF Known
    <3>1. PICK i \in DOMAIN q[k] : q[k][i].pane = p
      BY <3>0
    <3>2. i \in I[k]
      BY <2>1, <3>1 DEF Leaving, Frame
    <3> QED BY <1>1, <3>1, <3>2 DEF Positions
  <2> QED BY <2>4, <2>5
<1> QED BY <1>4, <1>7, <1>8

LEMMA LeavingAccounts ==
    ASSUME NEW q \in [Kinds -> Seq(Entries)], NEW I, Limits(q), Leaving(q, I),
           \A k \in Kinds : bytes'[k] = Total(queue'[k])
    PROVE  AccountsExact'
<1> SUFFICES ASSUME NEW k \in Kinds
             PROVE  /\ bytes'[k] = Total(queue'[k])
                    /\ Len(queue'[k]) <= MaxEntries
                    /\ bytes'[k] > MaxBytes => k = "write" /\ Len(queue'[k]) = 1
  BY DEF AccountsExact
<1> DEFINE t == queue'[k]
           s == q[k]
<1>1. bytes'[k] = Total(t) /\ Kept(t, s, I[k])
  BY DEF Leaving
<1>2. s \in Seq(Entries) /\ t \in Seq(Entries)
  BY <1>1 DEF Kept
<1>3. /\ Total(t) \in Nat /\ Total(s) \in Nat /\ Len(t) \in Nat /\ Len(s) \in Nat
      /\ MaxEntries \in Nat /\ MaxBytes \in Nat
  BY <1>2, TotalType, ClipboardAssumption
<1>4. Len(s) <= MaxEntries /\ (Total(s) > MaxBytes => k = "write" /\ Len(s) = 1)
  BY DEF Limits
<1>5. Len(t) <= Len(s) /\ Total(t) <= Total(s)
  BY <1>1 DEF Kept
<1>6. Len(t) = 0 => Total(t) = 0
  <2>1. Len(t) = 0 => t = <<>>
    BY <1>2
  <2> QED BY <2>1, TotalOfEmpty
<1> HIDE DEF t, s
<1>7. /\ Len(t) <= MaxEntries
      /\ Total(t) > MaxBytes => k = "write" /\ Len(t) = 1
  <2>1. Len(t) <= MaxEntries
    BY <1>3, <1>4, <1>5
  <2>2. ASSUME Total(t) > MaxBytes PROVE k = "write" /\ Len(t) = 1
    <3>1. Total(s) > MaxBytes /\ Len(t) # 0
      BY <1>3, <1>5, <1>6, <2>2
    <3>2. k = "write" /\ Len(s) = 1
      BY <1>4, <3>1
    <3>3. Len(t) = 1
      <4>1. Len(s) = 1
        BY <3>2
      <4>2. Len(t) <= Len(s) /\ Len(t) \in Nat /\ Len(t) # 0
        BY <1>3, <1>5, <3>1
      <4>3. \A i, j \in Nat : i <= j /\ i # 0 /\ j = 1 => i = 1
        OBVIOUS
      <4> QED BY <1>3, <4>1, <4>2, <4>3
    <3> QED BY <3>2, <3>3
  <2> QED BY <2>1, <2>2
<1> QED BY <1>1, <1>7 DEF t

\* A step that leaves the queues and the replies alone.
LEMMA NothingLeaves ==
    ASSUME TypeOK, UNCHANGED <<queue, reply>>
    PROVE  /\ queue \in [Kinds -> Seq(Entries)]
           /\ Leaving(queue, [k \in Kinds |-> DOMAIN queue[k]])
<1>1. queue \in [Kinds -> Seq(Entries)]
  BY DEF TypeOK
<1>2. ASSUME NEW k \in Kinds PROVE Kept(queue'[k], queue[k], DOMAIN queue[k])
  <2>1. queue[k] \in Seq(Entries)
    BY <1>1
  <2>2. DOMAIN queue[k] = 1..Len(queue[k])
    BY <2>1
  <2> QED BY <2>1, <2>2, AllKept
<1> QED BY <1>1, <1>2 DEF Leaving

\* The entries that Drained takes out are in front of the first that asks.
LEMMA DrainedLeaves ==
    ASSUME TypeOK, NEW q \in [Kinds -> Seq(Entries)], NEW transit, NEW k \in Kinds,
           \A l \in Kinds : l # k => q[l] = queue[l],
           QueuesOK(q, transit), UNCHANGED <<agreed, closed>>,
           NEW ok \in BOOLEAN, Drained(k, q[k], ok)
    PROVE  \E I : Leaving(q, I)
<1> DEFINE n == FirstAsked(k, q[k])
           rest == SubSeq(q[k], n, Len(q[k]))
           done == {q[k][i] : i \in 1..(n - 1)}
           result(p) == IF ~Live(p) THEN "denied" ELSE IF ok THEN "success" ELSE "failed"
           I == [l \in Kinds |-> IF l = k THEN n..Len(q[k]) ELSE DOMAIN q[l]]
<1>0. q[k] \in Seq(Entries) /\ DOMAIN q[k] = 1..Len(q[k]) /\ Len(q[k]) \in Nat
  <2>1. q[k] \in Seq(Entries)
    OBVIOUS
  <2> QED BY <2>1
<1>1. /\ queue' = [queue EXCEPT ![k] = rest]
      /\ reply' = [p \in Panes |-> Resolve(done, result(p))[p]]
  BY DEF Drained
<1>2. /\ n \in 1..(Len(q[k]) + 1)
      /\ \A i \in 1..Len(q[k]) : i < n => ~Needs(k, q[k][i])
  BY <1>0, FirstAskedIs
<1> HIDE DEF n
<1>3. \A i \in DOMAIN q[k] : i \notin n..Len(q[k]) => i \in 1..(n - 1)
  BY <1>0, <1>2
<1>4. \A i \in 1..(n - 1) : /\ i \in DOMAIN q[k] /\ i \notin n..Len(q[k])
                            /\ ~Needs(k, q[k][i])
  BY <1>0, <1>2
<1>5. Kept(rest, q[k], n..Len(q[k]))
  <2>1. n - 1 \in 0..Len(q[k]) /\ n - 1 + 1 = n
    BY <1>0, <1>2
  <2> QED BY <1>0, <2>1, SuffixKept
<1>6. ASSUME NEW l \in Kinds
      PROVE  I[l] \subseteq DOMAIN q[l] /\ Kept(queue'[l], q[l], I[l])
  <2>1. CASE l = k
    <3>1. queue'[l] = rest /\ I[l] = n..Len(q[k])
      BY <1>1, <2>1 DEF TypeOK
    <3>2. n..Len(q[k]) \subseteq DOMAIN q[k]
      BY <1>0, <1>2
    <3> QED BY <1>5, <2>1, <3>1, <3>2
  <2>2. CASE l # k
    <3>1. queue'[l] = q[l] /\ I[l] = DOMAIN q[l]
      BY <1>1, <2>2 DEF TypeOK
    <3>2. q[l] \in Seq(Entries)
      OBVIOUS
    <3>3. DOMAIN q[l] = 1..Len(q[l])
      BY <3>2
    <3> QED BY <3>1, <3>2, <3>3, AllKept
  <2> QED BY <2>1, <2>2
<1>7. ASSUME NEW l \in Kinds, NEW i \in (DOMAIN q[l]) \ I[l]
      PROVE  l = k /\ i \in 1..(n - 1)
  <2>1. l = k
    BY <1>7
  <2> QED BY <1>3, <1>7, <2>1
<1>8. ASSUME NEW p \in Panes, reply'[p] # reply[p]
      PROVE  \E l \in Kinds : \E i \in (DOMAIN q[l]) \ I[l] :
                /\ q[l][i].pane = p /\ ~closed[p]
                /\ reply'[p] = "success" => ~q[l][i].ask \/ p \in agreed'
  <2>1. /\ \E e \in done : e.pane = p /\ Unresolved(e)
        /\ reply'[p] = result(p)
    BY <1>1, <1>8 DEF Resolve
  <2>2. PICK i \in 1..(n - 1) : q[k][i].pane = p /\ Unresolved(q[k][i])
    BY <2>1
  <2>3. i \in (DOMAIN q[k]) \ I[k] /\ ~Needs(k, q[k][i])
    BY <1>4
  <2>4. reply'[p] = "success" => ~q[k][i].ask
    BY <2>1, <2>2, <2>3 DEF Needs
  <2> QED BY <2>2, <2>3, <2>4 DEF Unresolved
<1>9. ASSUME NEW l \in Kinds, NEW i \in (DOMAIN q[l]) \ I[l]
      PROVE  closed'[q[l][i].pane] \/ reply'[q[l][i].pane] # "none"
  <2>1. l = k /\ i \in 1..(n - 1) /\ i \in DOMAIN q[k]
    BY <1>7
  <2> DEFINE e == q[k][i]
  <2>2. e \in Entries /\ e.pane \in Panes /\ EntryOK(e, k, transit)
    <3>1. e \in Entries
      BY <1>0, <2>1
    <3> QED BY <2>1, <3>1 DEF Entries, QueuesOK
  <2>3. e \in done
    BY <2>1
  <2>4. Unresolved(e) => reply'[e.pane] = result(e.pane)
    <3> HIDE DEF e, done, result
    <3> QED BY <1>1, <2>2, <2>3 DEF Resolve
  <2>5. result(e.pane) # "none"
    OBVIOUS
  <2> HIDE DEF e, result, done
  <2>6. closed[e.pane] \/ reply'[e.pane] # "none"
    BY <2>2, <2>4, <2>5 DEF EntryOK
  <2> QED BY <2>1, <2>6 DEF e
<1> HIDE DEF I
<1> QED BY <1>6, <1>8, <1>9 DEF Leaving

LEMMA DrainLeaves ==
    ASSUME TypeOK, NEW q \in [Kinds -> Seq(Entries)], NEW transit, NEW k \in Kinds,
           \A l \in Kinds : l # k => q[l] = queue[l],
           QueuesOK(q, transit), UNCHANGED <<agreed, closed>>,
           NEW ok \in BOOLEAN, Drain(k, q[k], ok)
    PROVE  \E I : Leaving(q, I)
<1>1. CASE active[k] = None
  BY <1>1, DrainedLeaves DEF Drain
<1>2. CASE active[k] # None
  <2>1. queue' = [queue EXCEPT ![k] = q[k]] /\ UNCHANGED reply
    BY <1>2 DEF Drain
  <2> DEFINE I == [l \in Kinds |-> DOMAIN q[l]]
  <2>2. ASSUME NEW l \in Kinds PROVE Kept(queue'[l], q[l], I[l])
    <3>1. queue'[l] = q[l]
      BY <2>1 DEF TypeOK
    <3>2. q[l] \in Seq(Entries)
      OBVIOUS
    <3>3. I[l] = 1..Len(q[l])
      BY <3>2
    <3> QED BY <3>1, <3>2, <3>3, AllKept
  <2>3. \A l \in Kinds : I[l] = DOMAIN q[l]
    OBVIOUS
  <2> HIDE DEF I
  <2>4. Leaving(q, I)
    BY <2>1, <2>2, <2>3 DEF Leaving
  <2> QED BY <2>4
<1> QED BY <1>1, <1>2

LEMMA DrainAccounts ==
    ASSUME TypeOK, AccountsExact, NEW k \in Kinds, NEW s, NEW ok, Drain(k, s, ok)
    PROVE  \A l \in Kinds : bytes'[l] = Total(queue'[l])
<1>1. ASSUME NEW t, queue' = [queue EXCEPT ![k] = t], bytes' = [bytes EXCEPT ![k] = Total(t)]
      PROVE  \A l \in Kinds : bytes'[l] = Total(queue'[l])
  BY <1>1 DEF TypeOK, AccountsExact
<1>2. \E t : queue' = [queue EXCEPT ![k] = t] /\ bytes' = [bytes EXCEPT ![k] = Total(t)]
  BY DEF Drain, Drained
<1> QED BY <1>1, <1>2

\* A signal that arrives can be taken for an entry of its pane.
LEMMA ArrivedOK ==
    ASSUME TypeOK, \A p \in Panes : PaneOK(p),
           QueuesOK(queue, inTransit), Known(queue, inTransit),
           NEW p \in Panes, inTransit[p],
           NEW k \in Kinds, k = "read" => Arrived(p).ask,
           NEW q, q = [queue EXCEPT ![k] = Append(@, Arrived(p))],
           NEW transit, transit = [inTransit EXCEPT ![p] = FALSE]
    PROVE  /\ q \in [Kinds -> Seq(Entries)]
           /\ \A r \in Panes : transit[r] => inTransit[r]
           /\ QueuesOK(q, transit) /\ Known(q, transit)
<1> DEFINE e == Arrived(p)
<1>1. e \in Entries /\ e.pane = p /\ e.id = serial[p] /\ e.ask = request[p].ask
  BY ArrivedType DEF Arrived
<1> HIDE DEF e
<1>2. /\ queue[k] \in Seq(Entries) /\ Len(queue[k]) \in Nat
      /\ DOMAIN queue[k] = 1..Len(queue[k])
  <2>1. queue[k] \in Seq(Entries)
    BY DEF TypeOK
  <2> QED BY <2>1
<1>3. /\ q \in [Kinds -> Seq(Entries)]
      /\ q[k] = Append(queue[k], e)
      /\ \A l \in Kinds : l # k => q[l] = queue[l]
  BY <1>1, <1>2 DEF TypeOK, e
<1>4. \A r \in Panes : transit[r] = (inTransit[r] /\ r # p)
  BY DEF TypeOK
\* Every position of q is an old one or that of e.
<1>5. /\ DOMAIN q[k] = 1..(Len(queue[k]) + 1)
      /\ q[k][Len(queue[k]) + 1] = e
      /\ \A i \in DOMAIN queue[k] : i \in DOMAIN q[k] /\ q[k][i] = queue[k][i]
      /\ \A i \in DOMAIN q[k] : i \in DOMAIN queue[k] \/ i = Len(queue[k]) + 1
  BY <1>1, <1>2, <1>3
<1>6. ASSUME NEW l \in Kinds, NEW i \in DOMAIN q[l]
      PROVE  \/ i \in DOMAIN queue[l] /\ q[l][i] = queue[l][i]
             \/ l = k /\ i = Len(queue[k]) + 1 /\ q[l][i] = e
  <2>1. CASE l = k
    BY <1>5, <2>1
  <2>2. CASE l # k
    BY <1>3, <2>2
  <2> QED BY <2>1, <2>2
<1>7. ASSUME NEW l \in Kinds, NEW i \in DOMAIN queue[l]
      PROVE  queue[l][i].pane \in Panes /\ queue[l][i].pane # p
  <2>1. queue[l] \in Seq(Entries)
    BY DEF TypeOK
  <2>2. queue[l][i] \in Entries
    BY <2>1
  <2>3. EntryOK(queue[l][i], l, inTransit)
    BY DEF QueuesOK
  <2> QED BY <2>2, <2>3 DEF Entries, EntryOK
<1>8. EntryOK(e, k, transit)
  <2>1. closed[p] \/ Unresolved(e)
    BY <1>1 DEF PaneOK, Unresolved
  <2> QED BY <1>1, <1>4, <2>1 DEF EntryOK, e
<1>9. ASSUME NEW l \in Kinds, NEW i \in DOMAIN q[l] PROVE EntryOK(q[l][i], l, transit)
  <2>1. CASE i \in DOMAIN queue[l] /\ q[l][i] = queue[l][i]
    <3>1. EntryOK(queue[l][i], l, inTransit)
      BY <2>1 DEF QueuesOK
    <3> QED BY <1>4, <1>7, <2>1, <3>1 DEF EntryOK
  <2>2. CASE l = k /\ q[l][i] = e
    BY <1>8, <2>2
  <2> QED BY <1>6, <2>1, <2>2
<1>10. ASSUME NEW l \in Kinds, NEW m \in Kinds, NEW i \in DOMAIN q[l], NEW j \in DOMAIN q[m],
              q[l][i].pane = q[m][j].pane
       PROVE  l = m /\ i = j
  <2>1. CASE i \in DOMAIN queue[l] /\ q[l][i] = queue[l][i]
             /\ j \in DOMAIN queue[m] /\ q[m][j] = queue[m][j]
    BY <1>10, <2>1 DEF QueuesOK
  <2>2. CASE i \in DOMAIN queue[l] /\ q[l][i] = queue[l][i] /\ q[m][j] = e
    BY <1>1, <1>7, <1>10, <2>2
  <2>3. CASE q[l][i] = e /\ j \in DOMAIN queue[m] /\ q[m][j] = queue[m][j]
    BY <1>1, <1>7, <1>10, <2>3
  <2>4. CASE l = k /\ i = Len(queue[k]) + 1 /\ m = k /\ j = Len(queue[k]) + 1
    BY <2>4
  <2> QED BY <1>6, <2>1, <2>2, <2>3, <2>4
<1>11. ASSUME NEW r \in Panes, worker[r] = "waiting", ~closed[r], reply[r] = "none", ~transit[r]
       PROVE  \E l \in Kinds : \E i \in DOMAIN q[l] : q[l][i].pane = r
  <2>1. CASE r = p
    <3>1. Len(queue[k]) + 1 \in DOMAIN q[k] /\ q[k][Len(queue[k]) + 1].pane = p
      BY <1>1, <1>2, <1>5
    <3> QED BY <2>1, <3>1
  <2>2. CASE r # p
    <3>1. PICK l \in Kinds : \E i \in DOMAIN queue[l] : queue[l][i].pane = r
      BY <1>4, <1>11, <2>2 DEF Known
    <3>2. PICK i \in DOMAIN queue[l] : queue[l][i].pane = r
      BY <3>1
    <3>3. i \in DOMAIN q[l] /\ q[l][i] = queue[l][i]
      <4>1. CASE l = k
        BY <1>5, <4>1
      <4>2. CASE l # k
        BY <1>3, <4>2
      <4> QED BY <4>1, <4>2
    <3> QED BY <3>2, <3>3
  <2> QED BY <2>1, <2>2
<1> QED BY <1>3, <1>4, <1>9, <1>10, <1>11 DEF QueuesOK, Known

-----------------------------------------------------------------------------
(* Every action keeps the requests and the accounts *)

Core ==
    /\ \A p \in Panes : PaneOK(p)
    /\ QueuesOK(queue, inTransit)
    /\ Known(queue, inTransit)
    /\ AccountsExact

\* A slot that goes by the two rules.
LEMMA SlotKeepsCore ==
    ASSUME IInv, NEW I, Frame(inTransit), Leaving(queue, I),
           \A k \in Kinds : bytes'[k] = Total(queue'[k])
    PROVE  Core'
<1>1. TypeOK /\ queue \in [Kinds -> Seq(Entries)]
  BY DEF IInv, TypeOK
<1>2. Limits(queue)
  BY DEF IInv, AccountsExact, Limits
<1>3. AccountsExact'
  BY <1>1, <1>2, LeavingAccounts
<1>4. /\ \A p \in Panes : PaneOK(p)
      /\ QueuesOK(queue, inTransit) /\ Known(queue, inTransit)
  BY DEF IInv
<1>5. /\ \A p \in Panes : PaneOK(p)'
      /\ QueuesOK(queue, inTransit)'
      /\ Known(queue, inTransit)'
  BY <1>1, <1>4, LeavingKeeps
<1> QED BY <1>3, <1>5 DEF Core

LEMMA DeliverCore ==
    ASSUME IInv, NEW p \in Panes, NEW ok \in BOOLEAN, Deliver(p, ok)
    PROVE  Core'
<1> DEFINE e == Arrived(p)
           kind == request[p].kind
           transit == [inTransit EXCEPT ![p] = FALSE]
           q(k) == [queue EXCEPT ![k] = Append(@, e)]
<1>1. /\ inTransit[p] /\ inTransit' = transit
      /\ Begin(p, ok) /\ KeepWhileCarried(p)
      /\ UNCHANGED <<worker, serial, closed, pane, window, blockedOn, agreed>>
  BY DEF Deliver
<1>2. /\ TypeOK /\ \A r \in Panes : PaneOK(r)
      /\ QueuesOK(queue, inTransit) /\ Known(queue, inTransit) /\ AccountsExact
  BY DEF IInv
<1>3. e \in Entries /\ kind \in Kinds
  BY <1>1, <1>2, ArrivedType
<1>4. Frame(transit)
  <2>1. \A r \in Panes : worker[r] = "waiting" => request'[r] = request[r]
    BY <1>1, <1>2 DEF KeepWhileCarried, TypeOK
  <2>2. \A r \in Panes : pane[r] # "live" \/ window # "open" \/ blockedOn = r => closed[r]
    BY <1>2 DEF PaneOK
  <2> QED BY <1>1, <2>1, <2>2 DEF Frame
<1>5. ASSUME NEW k \in Kinds, k = "read" => e.ask
      PROVE  /\ q(k) \in [Kinds -> Seq(Entries)]
             /\ \A r \in Panes : transit[r] => inTransit[r]
             /\ QueuesOK(q(k), transit) /\ Known(q(k), transit)
  BY <1>1, <1>2, <1>5, ArrivedOK
<1> HIDE DEF e, kind, transit
<1>6. ASSUME NEW k \in Kinds, k = "read" => e.ask, NEW I, Leaving(q(k), I)
      PROVE  \A r \in Panes : PaneOK(r)' /\ QueuesOK(queue, inTransit)'
                /\ Known(queue, inTransit)'
  <2> HIDE DEF q
  <2> QED BY <1>2, <1>4, <1>5, <1>6, LeavingKeeps
\* It is replied to at once.
<1>7. ASSUME NEW r \in Replies \ {"none"}, r = "success" => ~e.ask,
             reply' = Resolve({e}, r), UNCHANGED <<queue, bytes>>
      PROVE  Core'
  <2> DEFINE k == "write"
             I == [l \in Kinds |-> DOMAIN queue[l]]
  <2>1. AccountsExact'
    BY <1>2, <1>7 DEF AccountsExact
  <2>2. queue[k] \in Seq(Entries) /\ k \in Kinds
    BY <1>2 DEF TypeOK, Kinds
  <2> DEFINE n == Len(queue[k]) + 1
  <2>3. /\ q(k)[k] = Append(queue[k], e)
        /\ \A l \in Kinds : l # k => q(k)[l] = queue[l]
    BY <1>2, <2>2 DEF TypeOK
  <2>4. /\ Kept(queue[k], q(k)[k], I[k])
        /\ DOMAIN q(k)[k] = 1..n /\ q(k)[k][n] = e
        /\ I[k] = 1..Len(queue[k]) /\ n \in Nat
    <3>1. I[k] = 1..Len(queue[k]) /\ Len(queue[k]) \in Nat
      BY <2>2
    <3>2. /\ Kept(queue[k], Append(queue[k], e), 1..Len(queue[k]))
          /\ DOMAIN Append(queue[k], e) = 1..(Len(queue[k]) + 1)
          /\ Append(queue[k], e)[Len(queue[k]) + 1] = e
      BY <1>3, <2>2, AllButTheLastKept
    <3>3. n \in Nat
      BY <3>1
    <3> HIDE DEF q, I, k
    <3> QED BY <2>3, <3>1, <3>2, <3>3, Zenon
  <2>5. ASSUME NEW l \in Kinds
        PROVE  I[l] \subseteq DOMAIN q(k)[l] /\ Kept(queue'[l], q(k)[l], I[l])
    <3>1. CASE l = k
      <4>1. 1..Len(queue[k]) \subseteq 1..n
        BY <2>2
      <4> QED BY <1>7, <2>4, <3>1, <4>1
    <3>2. CASE l # k
      <4>1. queue[l] \in Seq(Entries) /\ DOMAIN queue[l] = 1..Len(queue[l])
        <5>1. queue[l] \in Seq(Entries)
          BY <1>2 DEF TypeOK
        <5> QED BY <5>1
      <4>2. Kept(queue[l], queue[l], DOMAIN queue[l])
        BY <4>1, AllKept
      <4> QED BY <1>7, <2>3, <3>2, <4>2
    <3> QED BY <3>1, <3>2
  <2>6. ASSUME NEW l \in Kinds, NEW i \in (DOMAIN q(k)[l]) \ I[l]
        PROVE  l = k /\ i = n
    <3>1. l = k
      BY <2>3, <2>6
    <3>2. \A j \in 1..n : j \in 1..Len(queue[k]) \/ j = n
      BY <2>2
    <3> QED BY <2>4, <2>6, <3>1, <3>2
  <2>7. n \in (DOMAIN q(k)[k]) \ I[k]
    <3>1. n \in 1..n /\ n \notin 1..Len(queue[k])
      BY <2>2
    <3> QED BY <2>4, <3>1
  <2>8. EntryOK(e, k, transit) /\ e.pane \in Panes
    <3>1. QueuesOK(q(k), transit)
      BY <1>5, <2>2
    <3> HIDE DEF q
    <3> QED BY <1>3, <2>2, <2>4, <2>7, <3>1 DEF QueuesOK, Entries
  <2> HIDE DEF q, I, n, k
  <2>9. \A x \in Panes : reply'[x] # reply[x] =>
           e.pane = x /\ ~closed[x] /\ (reply'[x] = "success" => ~e.ask)
    BY <1>7 DEF Resolve, Unresolved
  <2>10. closed'[e.pane] \/ reply'[e.pane] # "none"
    BY <1>1, <1>7, <2>8 DEF Resolve, EntryOK
  <2>11. Leaving(q(k), I)
    <3>1. ASSUME NEW l \in Kinds, NEW i \in (DOMAIN q(k)[l]) \ I[l]
          PROVE  q(k)[l][i] = e
      BY <2>4, <2>6
    <3>2. \A x \in Panes :
             \/ reply'[x] = reply[x]
             \/ \E l \in Kinds : \E i \in (DOMAIN q(k)[l]) \ I[l] :
                   /\ q(k)[l][i].pane = x /\ ~closed[x]
                   /\ reply'[x] = "success" => ~q(k)[l][i].ask \/ x \in agreed'
      BY <2>2, <2>4, <2>7, <2>9
    <3>3. \A l \in Kinds : \A i \in (DOMAIN q(k)[l]) \ I[l] :
             closed'[q(k)[l][i].pane] \/ reply'[q(k)[l][i].pane] # "none"
      BY <2>10, <3>1
    <3> QED BY <2>5, <3>2, <3>3 DEF Leaving
  <2> QED BY <1>6, <2>1, <2>2, <2>11 DEF Core, k
\* It is queued.
<1>8. ASSUME kind = "read" => e.ask, Fits(kind, e.size),
             Drain(kind, Append(queue[kind], e), ok)
      PROVE  Core'
  <2>1. /\ q(kind)[kind] = Append(queue[kind], e)
        /\ \A l \in Kinds : l # kind => q(kind)[l] = queue[l]
    BY <1>2, <1>3 DEF TypeOK
  <2>2. q(kind) \in [Kinds -> Seq(Entries)] /\ QueuesOK(q(kind), transit)
    BY <1>3, <1>5, <1>8
  <2>3. Limits(q(kind))
    <3>1. queue[kind] \in Seq(Entries) /\ Len(queue[kind]) \in Nat
      <4>1. queue[kind] \in Seq(Entries)
        BY <1>2, <1>3 DEF TypeOK
      <4> QED BY <4>1
    <3>2. /\ Len(queue[kind]) < MaxEntries
          /\ IF kind = "write" /\ e.size > MaxBytes
             THEN queue[kind] = <<>>
             ELSE bytes[kind] + e.size <= MaxBytes
          /\ bytes[kind] = Total(queue[kind])
      BY <1>2, <1>3, <1>8 DEF Fits, AccountsExact
    <3> DEFINE t == Append(queue[kind], e)
    <3>3. /\ Len(t) = Len(queue[kind]) + 1
          /\ Total(t) = Total(queue[kind]) + e.size
          /\ Total(queue[kind]) \in Nat /\ e.size \in Nat
          /\ MaxEntries \in Nat /\ MaxBytes \in Nat
      <4>1. Len(t) = Len(queue[kind]) + 1
        BY <3>1
      <4>2. Total(t) = Total(queue[kind]) + e.size /\ Total(queue[kind]) \in Nat
        BY <1>3, <3>1, TotalOfAppend, TotalType
      <4>3. e.size \in Nat
        BY <1>3 DEF Entries
      <4> QED BY <4>1, <4>2, <4>3, ClipboardAssumption
    <3>4. queue[kind] = <<>> => Len(queue[kind]) = 0
      OBVIOUS
    <3> HIDE DEF t
    <3>5. Len(t) <= MaxEntries /\ (Total(t) > MaxBytes => kind = "write" /\ Len(t) = 1)
      BY <3>1, <3>2, <3>3, <3>4
    <3>6. \A l \in Kinds : Len(queue[l]) <= MaxEntries
                           /\ (Total(queue[l]) > MaxBytes => l = "write" /\ Len(queue[l]) = 1)
      BY <1>2 DEF AccountsExact
    <3> HIDE DEF q
    <3> QED BY <2>1, <3>5, <3>6 DEF Limits, t
  <2>4. \A l \in Kinds : bytes'[l] = Total(queue'[l])
    BY <1>2, <1>3, <1>8, DrainAccounts
  <2> HIDE DEF q
  <2>5. PICK I : Leaving(q(kind), I)
    BY <1>1, <1>2, <1>3, <1>8, <2>1, <2>2, DrainLeaves
  <2>6. AccountsExact'
    BY <2>2, <2>3, <2>4, <2>5, LeavingAccounts
  <2> QED BY <1>3, <1>6, <1>8, <2>5, <2>6 DEF Core
<1> QED BY <1>1, <1>7, <1>8, BeginCases DEF e, kind

LEMMA DrainTimerCore ==
    ASSUME IInv, NEW k \in Kinds, NEW ok \in BOOLEAN, DrainTimer(k, ok)
    PROVE  Core'
<1>1. /\ TypeOK /\ QueuesOK(queue, inTransit) /\ AccountsExact
      /\ \A p \in Panes : PaneOK(p)
  BY DEF IInv
<1>2. Drain(k, queue[k], ok) /\ UNCHANGED <<bridge, pane, window, blockedOn, agreed>>
  BY DEF DrainTimer
<1>3. queue \in [Kinds -> Seq(Entries)]
  BY <1>1 DEF TypeOK
<1>4. PICK I : Leaving(queue, I)
  BY <1>1, <1>2, <1>3, DrainLeaves DEF bridge
<1>5. Frame(inTransit)
  BY <1>1, <1>2 DEF Frame, bridge, PaneOK
<1>6. \A l \in Kinds : bytes'[l] = Total(queue'[l])
  BY <1>1, <1>2, DrainAccounts
<1> QED BY <1>4, <1>5, <1>6, SlotKeepsCore

\* When entries leave, the others' positions are kept and those are replied to.
LEMMA RepliedLeaves ==
    ASSUME IInv, NEW I, \A k \in Kinds : I[k] \subseteq DOMAIN queue[k],
           \A k \in Kinds : Kept(queue'[k], queue[k], I[k]),
           NEW r \in Replies \ {"none"}, NEW out, reply' = Resolve(out, r),
           \A e \in out : \E k \in Kinds : \E i \in (DOMAIN queue[k]) \ I[k] : e = queue[k][i],
           \A k \in Kinds : \A i \in (DOMAIN queue[k]) \ I[k] : queue[k][i] \in out,
           \A e \in out : Unresolved(e) /\ r = "success" => e.pane \in agreed',
           \A p \in Panes : closed[p] => closed'[p]
    PROVE  Leaving(queue, I)
<1>1. ASSUME NEW p \in Panes, reply'[p] # reply[p]
      PROVE  \E k \in Kinds : \E i \in (DOMAIN queue[k]) \ I[k] :
                /\ queue[k][i].pane = p /\ ~closed[p]
                /\ reply'[p] = "success" => ~queue[k][i].ask \/ p \in agreed'
  <2>1. PICK e \in out : e.pane = p /\ Unresolved(e)
    BY <1>1 DEF Resolve
  <2>2. reply'[p] = r
    BY <1>1 DEF Resolve
  <2>3. PICK k \in Kinds : \E i \in (DOMAIN queue[k]) \ I[k] : e = queue[k][i]
    BY <2>1
  <2>4. PICK i \in (DOMAIN queue[k]) \ I[k] : e = queue[k][i]
    BY <2>3
  <2>5. ~closed[p] /\ (reply'[p] = "success" => p \in agreed')
    BY <2>1, <2>2 DEF Unresolved
  <2> QED BY <2>1, <2>4, <2>5
<1>2. ASSUME NEW k \in Kinds, NEW i \in (DOMAIN queue[k]) \ I[k]
      PROVE  closed'[queue[k][i].pane] \/ reply'[queue[k][i].pane] # "none"
  <2> DEFINE e == queue[k][i]
  <2>1. e \in Entries
    <3>1. queue[k] \in Seq(Entries)
      BY DEF IInv, TypeOK
    <3> QED BY <3>1
  <2>2. EntryOK(e, k, inTransit) /\ e \in out
    BY DEF IInv, QueuesOK
  <2> HIDE DEF e
  <2>3. e.pane \in Panes
    BY <2>1 DEF Entries
  <2>4. Unresolved(e) => reply'[e.pane] = r
    BY <2>2, <2>3 DEF Resolve
  <2>5. closed'[e.pane] \/ reply'[e.pane] # "none"
    BY <2>2, <2>3, <2>4 DEF EntryOK
  <2> QED BY <2>5 DEF e
<1> QED BY <1>1, <1>2 DEF Leaving

LEMMA AnswerCore ==
    ASSUME IInv, NEW k \in Kinds, NEW confirmed \in BOOLEAN, NEW ok \in BOOLEAN,
           Answer(k, confirmed, ok)
    PROVE  Core'
<1> DEFINE e == Head(queue[k])
           rest == Tail(queue[k])
           I == [l \in Kinds |-> IF l = k THEN 2..Len(queue[k]) ELSE DOMAIN queue[l]]
<1>1. /\ TypeOK /\ AccountsExact /\ \A p \in Panes : PaneOK(p)
  BY DEF IInv
<1>2. /\ queue[k] # <<>> /\ queue[k] \in Seq(Entries) /\ e \in Entries
      /\ queue' = [queue EXCEPT ![k] = rest]
      /\ bytes' = [bytes EXCEPT ![k] = Total(rest)]
      /\ agreed' = IF confirmed /\ Unresolved(e) THEN agreed \cup {e.pane} ELSE agreed
  BY AnswerIs
<1>3. PICK r \in Replies \ {"none"} :
         reply' = Resolve({e}, r) /\ (r = "success" => confirmed)
  BY AnswerIs
<1>4. UNCHANGED <<bridge, pane, window, blockedOn>>
  BY DEF Answer
<1>5. /\ DOMAIN queue[k] = 1..Len(queue[k]) /\ Len(queue[k]) \in Nat
      /\ 2..Len(queue[k]) \subseteq DOMAIN queue[k]
      /\ 1 \in DOMAIN queue[k] /\ 1 \notin 2..Len(queue[k]) /\ e = queue[k][1]
      /\ \A i \in 1..Len(queue[k]) : i \in 2..Len(queue[k]) \/ i = 1
  BY <1>2
<1>6. ASSUME NEW l \in Kinds
      PROVE  I[l] \subseteq DOMAIN queue[l] /\ Kept(queue'[l], queue[l], I[l])
  <2>1. CASE l = k
    <3>1. queue'[l] = rest
      BY <1>1, <1>2, <2>1 DEF TypeOK
    <3>2. Kept(Tail(queue[k]), queue[k], 2..Len(queue[k]))
      BY <1>2, TailKept
    <3> QED BY <1>5, <2>1, <3>1, <3>2
  <2>2. CASE l # k
    <3>1. queue'[l] = queue[l] /\ queue[l] \in Seq(Entries)
      BY <1>1, <1>2, <2>2 DEF TypeOK
    <3>2. DOMAIN queue[l] = 1..Len(queue[l])
      BY <3>1
    <3>3. Kept(queue[l], queue[l], DOMAIN queue[l])
      BY <3>1, <3>2, AllKept
    <3> QED BY <2>2, <3>1, <3>3
  <2> QED BY <2>1, <2>2
<1>7. ASSUME NEW l \in Kinds, NEW i \in (DOMAIN queue[l]) \ I[l]
      PROVE  queue[l][i] = e
  <2>1. l = k
    BY <1>7
  <2>2. i \in 1..Len(queue[k]) /\ i \notin 2..Len(queue[k])
    BY <1>5, <1>7, <2>1
  <2> QED BY <1>5, <2>1, <2>2
<1>8. 1 \in (DOMAIN queue[k]) \ I[k] /\ queue[k][1] = e
  BY <1>5
<1>9. Unresolved(e) /\ r = "success" => e.pane \in agreed'
  BY <1>2, <1>3
<1>10. Frame(inTransit)
  <2>1. \A p \in agreed' : p \in agreed \/ worker[p] = "waiting"
    <3> HIDE DEF e
    <3> QED BY <1>2 DEF Unresolved
  <2>2. agreed \subseteq agreed'
    <3> HIDE DEF e
    <3> QED BY <1>2
  <2>3. \A p \in Panes : pane'[p] # "live" \/ window' # "open" \/ blockedOn' = p => closed'[p]
    BY <1>1, <1>4 DEF bridge, PaneOK
  <2> QED BY <1>4, <2>1, <2>2, <2>3 DEF Frame, bridge
<1>11. \A l \in Kinds : bytes'[l] = Total(queue'[l])
  <2> HIDE DEF rest
  <2> QED BY <1>1, <1>2 DEF TypeOK, AccountsExact
<1>12. Leaving(queue, I)
  <2>1. /\ \A d \in {e} : \E l \in Kinds : \E i \in (DOMAIN queue[l]) \ I[l] : d = queue[l][i]
        /\ \A l \in Kinds : \A i \in (DOMAIN queue[l]) \ I[l] : queue[l][i] \in {e}
        /\ \A d \in {e} : Unresolved(d) /\ r = "success" => d.pane \in agreed'
    <3> HIDE DEF I, e
    <3> QED BY <1>7, <1>8, <1>9
  <2>2. \A p \in Panes : closed[p] => closed'[p]
    BY <1>4 DEF bridge
  <2> HIDE DEF I, e
  <2> QED BY <1>3, <1>6, <2>1, <2>2, RepliedLeaves
<1> HIDE DEF I
<1> QED BY <1>10, <1>11, <1>12, SlotKeepsCore

\* The positions of the other panes' entries.
Others(p) == [k \in Kinds |-> {i \in DOMAIN queue[k] : queue[k][i].pane # p}]

LEMMA RemovePendingLeaves ==
    ASSUME IInv, NEW p \in Panes, RemovePending(p), UNCHANGED agreed,
           \A x \in Panes : closed[x] => closed'[x]
    PROVE  /\ Leaving(queue, Others(p))
           /\ \A k \in Kinds : bytes'[k] = Total(queue'[k])
<1> DEFINE removed == {e \in UNION {Range(queue[k]) : k \in Kinds} : e.pane = p}
           I == Others(p)
<1>1. /\ queue' = [k \in Kinds |-> Subsequence(queue[k], I[k])]
      /\ bytes' = [k \in Kinds |-> Total(Subsequence(queue[k], I[k]))]
      /\ reply' = Resolve(removed, "denied")
  <2>1. \A k \in Kinds : I[k] = {i \in DOMAIN queue[k] : queue[k][i].pane # p}
    BY DEF Others
  <2>2. /\ queue' = [k \in Kinds |->
                Subsequence(queue[k], {i \in DOMAIN queue[k] : queue[k][i].pane # p})]
        /\ bytes' = [k \in Kinds |->
                Total(Subsequence(queue[k], {i \in DOMAIN queue[k] : queue[k][i].pane # p}))]
        /\ reply' = Resolve(removed, "denied")
    BY DEF RemovePending
  <2> HIDE DEF I, removed
  <2> QED BY <2>1, <2>2
<1>2. ASSUME NEW k \in Kinds
      PROVE  /\ queue[k] \in Seq(Entries)
             /\ DOMAIN queue[k] = 1..Len(queue[k])
             /\ \A i \in DOMAIN queue[k] : i \in I[k] <=> queue[k][i].pane # p
             /\ I[k] \subseteq DOMAIN queue[k]
  <2>1. queue[k] \in Seq(Entries)
    BY DEF IInv, TypeOK
  <2>2. DOMAIN queue[k] = 1..Len(queue[k])
    BY <2>1
  <2> QED BY <2>1, <2>2 DEF Others
<1>3. ASSUME NEW k \in Kinds PROVE Kept(queue'[k], queue[k], I[k])
  <2>1. I[k] \in SUBSET (1..Len(queue[k]))
    BY <1>2
  <2>2. Kept(Subsequence(queue[k], I[k]), queue[k], I[k])
    BY <1>2, <2>1, SubsequenceKept
  <2> QED BY <1>1, <2>2
<1>4. \A k \in Kinds : \A i \in (DOMAIN queue[k]) \ I[k] : queue[k][i] \in removed
  BY <1>2 DEF Range
<1>5. \A e \in removed : \E k \in Kinds : \E i \in (DOMAIN queue[k]) \ I[k] : e = queue[k][i]
  <2>1. SUFFICES ASSUME NEW e \in removed
                 PROVE  \E k \in Kinds : \E i \in (DOMAIN queue[k]) \ I[k] : e = queue[k][i]
    OBVIOUS
  <2>2. PICK k \in Kinds : e \in Range(queue[k])
    OBVIOUS
  <2>3. PICK i \in DOMAIN queue[k] : e = queue[k][i]
    BY <2>2 DEF Range
  <2> QED BY <1>2, <2>3
<1>6. "denied" \in Replies \ {"none"}
  BY DEF Replies, Outcomes
<1> HIDE DEF I, removed
<1>7. Leaving(queue, I)
  BY <1>1, <1>2, <1>3, <1>4, <1>5, <1>6, RepliedLeaves
<1>8. \A k \in Kinds : bytes'[k] = Total(queue'[k])
  BY <1>1
<1> QED BY <1>7, <1>8 DEF I

LEMMA RetireCore ==
    ASSUME IInv, NEW p \in Panes, Retire(p)
    PROVE  Core'
<1>1. /\ TypeOK /\ \A x \in Panes : PaneOK(x)
  BY DEF IInv
<1>2. /\ RemovePending(p) /\ BeginShutdown({p}) /\ pane' = [pane EXCEPT ![p] = "retiring"]
      /\ UNCHANGED <<worker, serial, request, inTransit, window, blockedOn, agreed>>
  BY DEF Retire
<1>3. \A x \in Panes : closed'[x] = (closed[x] \/ x = p)
  BY <1>2 DEF BeginShutdown
<1>4. Frame(inTransit)
  <2>1. \A x \in Panes : pane'[x] # "live" \/ window' # "open" \/ blockedOn' = x => closed'[x]
    BY <1>1, <1>2, <1>3 DEF TypeOK, PaneOK
  <2> QED BY <1>2, <1>3, <2>1 DEF Frame
<1>5. /\ Leaving(queue, Others(p))
      /\ \A k \in Kinds : bytes'[k] = Total(queue'[k])
  BY <1>2, <1>3, RemovePendingLeaves
<1> QED BY <1>4, <1>5, SlotKeepsCore

LEMMA CommitRemovalCore ==
    ASSUME IInv, NEW p \in Panes, CommitRemoval(p)
    PROVE  Core'
<1>1. /\ TypeOK /\ \A x \in Panes : PaneOK(x)
  BY DEF IInv
<1>2. /\ RemovePending(p) /\ pane[p] = "retiring" /\ pane' = [pane EXCEPT ![p] = "removed"]
      /\ UNCHANGED <<worker, serial, request, inTransit, closed, window, blockedOn,
                     agreed>>
  BY DEF CommitRemoval, bridge
<1>3. Frame(inTransit)
  <2>1. \A x \in Panes : pane'[x] # "live" \/ window' # "open" \/ blockedOn' = x => closed'[x]
    BY <1>1, <1>2 DEF TypeOK, PaneOK
  <2> QED BY <1>2, <2>1 DEF Frame
<1>4. /\ Leaving(queue, Others(p))
      /\ \A k \in Kinds : bytes'[k] = Total(queue'[k])
  BY <1>2, RemovePendingLeaves
<1> QED BY <1>3, <1>4, SlotKeepsCore

\* Slots that leave the queues alone.
LEMMA QuietSlotCore ==
    ASSUME IInv, NEW transit, Frame(transit), UNCHANGED <<queue, bytes, reply>>,
           \A p \in Panes : transit[p] => inTransit[p],
           \A p \in Panes : inTransit[p] /\ ~transit[p] => closed[p]
    PROVE  Core'
<1>1. /\ TypeOK /\ \A p \in Panes : PaneOK(p)
      /\ QueuesOK(queue, inTransit) /\ Known(queue, inTransit) /\ AccountsExact
  BY DEF IInv
<1>2. Known(queue, transit)
  BY <1>1 DEF Known
<1>3. QueuesOK(queue, transit)
  <2>1. ASSUME NEW k \in Kinds, NEW i \in DOMAIN queue[k] PROVE EntryOK(queue[k][i], k, transit)
    <3>1. queue[k] \in Seq(Entries)
      BY <1>1 DEF TypeOK
    <3>2. queue[k][i] \in Entries
      BY <3>1
    <3>3. EntryOK(queue[k][i], k, inTransit) /\ queue[k][i].pane \in Panes
      BY <1>1, <3>2 DEF QueuesOK, Entries
    <3> QED BY <3>3 DEF EntryOK
  <2> QED BY <1>1, <2>1 DEF QueuesOK
<1>4. /\ \A p \in Panes : PaneOK(p)'
      /\ QueuesOK(queue, inTransit)' /\ Known(queue, inTransit)'
  BY <1>1, <1>2, <1>3, NothingLeaves, LeavingKeeps
<1>5. AccountsExact'
  BY <1>1 DEF AccountsExact
<1> QED BY <1>4, <1>5 DEF Core

LEMMA CommitWindowCloseCore ==
    ASSUME IInv, CommitWindowClose
    PROVE  Core'
<1>1. /\ TypeOK /\ \A x \in Panes : PaneOK(x)
  BY DEF IInv
<1>2. /\ BeginShutdown({p \in Panes : pane[p] \in {"live", "retiring"}})
      /\ UNCHANGED <<worker, serial, request, inTransit, pane, blockedOn, agreed,
                     queue, bytes, reply>>
  BY DEF CommitWindowClose, workspace
<1>3. \A p \in Panes : closed'[p] = (closed[p] \/ pane[p] \in {"live", "retiring"})
  BY <1>2 DEF BeginShutdown
<1>4. Frame(inTransit)
  <2>1. \A p \in Panes : closed'[p]
    BY <1>1, <1>3 DEF PaneOK
  <2> QED BY <1>2, <2>1 DEF Frame
<1> QED BY <1>2, <1>4, QuietSlotCore

LEMMA DestroyBeginsCore ==
    ASSUME IInv, NEW p \in Panes, DestroyBegins(p)
    PROVE  Core'
<1>1. /\ TypeOK /\ \A x \in Panes : PaneOK(x)
  BY DEF IInv
<1> DEFINE transit == [inTransit EXCEPT ![p] = FALSE]
<1>2. /\ BeginShutdown({p}) /\ KeepWhileCarried(p) /\ inTransit' = transit
      /\ UNCHANGED <<worker, serial, window, agreed, queue, bytes, reply>>
      /\ pane' = [pane EXCEPT ![p] = "deleting"] /\ blockedOn' = p
  BY DEF DestroyBegins, workspace
<1>3. closed[p]
  BY <1>1 DEF DestroyBegins, PaneOK
<1>4. \A x \in Panes : closed'[x] = closed[x]
  BY <1>1, <1>2, <1>3 DEF BeginShutdown, TypeOK
<1>5. \A x \in Panes : worker[x] = "waiting" => request'[x] = request[x]
  BY <1>1, <1>2 DEF KeepWhileCarried, TypeOK
<1>6. Frame(transit)
  <2>1. \A x \in Panes : pane'[x] # "live" \/ window' # "open" \/ blockedOn' = x => closed'[x]
    BY <1>1, <1>2, <1>3, <1>4 DEF PaneOK, TypeOK
  <2> QED BY <1>2, <1>4, <1>5, <2>1 DEF Frame
<1>7. \A x \in Panes : /\ transit[x] => inTransit[x]
                       /\ inTransit[x] /\ ~transit[x] => closed[x]
  BY <1>1, <1>3 DEF TypeOK
<1> HIDE DEF transit
<1> QED BY <1>2, <1>6, <1>7, QuietSlotCore

LEMMA DestroyEndsCore ==
    ASSUME IInv, NEW p \in Panes, DestroyEnds(p)
    PROVE  Core'
<1>1. /\ TypeOK /\ \A x \in Panes : PaneOK(x)
  BY DEF IInv
<1>2. UNCHANGED <<bridge, window, agreed, queue, bytes, reply>>
  BY DEF DestroyEnds, workspace
<1>3. Frame(inTransit)
  <2>1. pane' = [pane EXCEPT ![p] = "gone"] /\ blockedOn = p /\ blockedOn' = NoPane
    BY DEF DestroyEnds
  <2>2. \A x \in Panes : x # NoPane
    BY ClipboardAssumption
  <2>3. \A x \in Panes : pane'[x] # "live" \/ window' # "open" \/ blockedOn' = x => closed'[x]
    BY <1>1, <1>2, <2>1, <2>2 DEF PaneOK, TypeOK, bridge
  <2> QED BY <1>2, <2>3 DEF Frame, bridge
<1> QED BY <1>2, <1>3, QuietSlotCore

LEMMA DestroyWorkspaceCore ==
    ASSUME IInv, DestroyWorkspace
    PROVE  Core'
<1>1. /\ TypeOK /\ \A x \in Panes : PaneOK(x)
  BY DEF IInv
<1>2. /\ UNCHANGED <<bridge, pane, blockedOn, agreed, reply>>
      /\ window = "committed"
      /\ queue' = [k \in Kinds |-> <<>>] /\ bytes' = [k \in Kinds |-> 0]
  BY DEF DestroyWorkspace
<1>3. \A p \in Panes : closed[p]
  BY <1>1, <1>2 DEF PaneOK
<1>4. Frame(inTransit)
  BY <1>2, <1>3 DEF Frame, bridge
<1> DEFINE I == [k \in Kinds |-> {}]
<1>5. ASSUME NEW k \in Kinds
      PROVE  /\ queue[k] \in Seq(Entries) /\ I[k] = {} /\ queue'[k] = <<>>
             /\ Kept(queue'[k], queue[k], I[k])
             /\ bytes'[k] = Total(queue'[k])
  <2>1. queue[k] \in Seq(Entries)
    BY <1>1 DEF TypeOK
  <2>2. queue'[k] = <<>> /\ I[k] = {} /\ bytes'[k] = 0
    BY <1>2
  <2> QED BY <2>1, <2>2, NothingKept, TotalOfEmpty
<1>6. ASSUME NEW k \in Kinds, NEW i \in DOMAIN queue[k] PROVE closed'[queue[k][i].pane]
  <2>1. queue[k][i] \in Entries
    BY <1>5
  <2> QED BY <1>2, <1>3, <2>1 DEF Entries, bridge
<1>7. reply' = reply
  BY <1>2
<1> HIDE DEF I
<1>8. Leaving(queue, I)
  BY <1>5, <1>6, <1>7 DEF Leaving
<1> QED BY <1>4, <1>5, <1>8, SlotKeepsCore

\* The steps of a worker leave the queues alone.
LEMMA AskCore ==
    ASSUME IInv, NEW p \in Panes, NEW k \in Kinds, NEW ask \in BOOLEAN, NEW s \in Sizes[p],
           Ask(p, k, ask, s)
    PROVE  Core'
<1>1. /\ TypeOK /\ (\A x \in Panes : PaneOK(x)) /\ AccountsExact
      /\ QueuesOK(queue, inTransit) /\ Known(queue, inTransit)
  BY DEF IInv
<1>2. /\ worker[p] = "running" /\ ~closed[p]
      /\ serial' = [serial EXCEPT ![p] = @ + 1]
      /\ request' = [request EXCEPT ![p] = [kind |-> k, ask |-> ask, size |-> s]]
      /\ inTransit' = [inTransit EXCEPT ![p] = TRUE]
      /\ worker' = [worker EXCEPT ![p] = "waiting"]
      /\ UNCHANGED <<closed, reply, pane, queue, bytes, window, blockedOn, agreed>>
  BY DEF Ask, workspace
<1>3. reply[p] = "none" /\ p \notin agreed /\ serial'[p] # 0
  BY <1>1, <1>2 DEF PaneOK, TypeOK
<1>4. \A x \in Panes : x # p => /\ worker'[x] = worker[x] /\ serial'[x] = serial[x]
                                /\ request'[x] = request[x] /\ inTransit'[x] = inTransit[x]
  BY <1>1, <1>2 DEF TypeOK
<1>5. worker'[p] = "waiting" /\ inTransit'[p]
  BY <1>1, <1>2 DEF TypeOK
<1>6. ASSUME NEW x \in Panes PROVE PaneOK(x)'
  <2>1. CASE x = p
    BY <1>1, <1>2, <1>3, <1>5, <2>1 DEF PaneOK
  <2>2. CASE x # p
    BY <1>1, <1>2, <1>4, <2>2 DEF PaneOK
  <2> QED BY <2>1, <2>2
<1>7. ASSUME NEW l \in Kinds, NEW i \in DOMAIN queue[l]
      PROVE  EntryOK(queue[l][i], l, inTransit)'
  <2>0. PICK e : e = queue[l][i]
    OBVIOUS
  <2>1. e \in Entries
    <3>1. queue[l] \in Seq(Entries)
      BY <1>1 DEF TypeOK
    <3> QED BY <2>0, <3>1
  <2>2. EntryOK(e, l, inTransit) /\ e.pane \in Panes
    BY <1>1, <2>0, <2>1 DEF QueuesOK, Entries
  <2>3. e.pane # p
    BY <1>2, <2>2 DEF EntryOK, Unresolved
  <2>4. EntryOK(e, l, inTransit)'
    BY <1>2, <1>4, <2>2, <2>3 DEF EntryOK, Unresolved
  <2> QED BY <1>2, <2>0, <2>4 DEF EntryOK, Unresolved
<1>8. QueuesOK(queue, inTransit)'
  <2>1. queue' = queue
    BY <1>2
  <2>2. \A l, m \in Kinds : \A i \in DOMAIN queue[l], j \in DOMAIN queue[m] :
           queue[l][i].pane = queue[m][j].pane => l = m /\ i = j
    BY <1>1 DEF QueuesOK
  <2>3. (\A l, m \in Kinds : \A i \in DOMAIN queue[l], j \in DOMAIN queue[m] :
           queue[l][i].pane = queue[m][j].pane => l = m /\ i = j)'
    BY <2>1, <2>2
  <2>4. (\A l \in Kinds : \A i \in DOMAIN queue[l] : EntryOK(queue[l][i], l, inTransit))'
    BY <1>7, <2>1
  <2> QED BY <2>3, <2>4 DEF QueuesOK
<1>9. Known(queue, inTransit)'
  <2>1. \A x \in Panes : x # p =>
           (worker'[x] = "waiting" /\ ~closed'[x] /\ reply'[x] = "none" =>
              inTransit'[x] \/ \E l \in Kinds : \E i \in DOMAIN queue'[l] : queue'[l][i].pane = x)
    BY <1>1, <1>2, <1>4 DEF Known
  <2> QED BY <1>5, <2>1 DEF Known
<1>10. AccountsExact'
  BY <1>1, <1>2 DEF AccountsExact
<1> QED BY <1>6, <1>8, <1>9, <1>10 DEF Core

LEMMA WakeCore ==
    ASSUME IInv, NEW p \in Panes, Wake(p)
    PROVE  Core'
<1>1. /\ TypeOK /\ (\A x \in Panes : PaneOK(x)) /\ AccountsExact
      /\ QueuesOK(queue, inTransit) /\ Known(queue, inTransit)
  BY DEF IInv
<1>2. /\ worker[p] = "waiting" /\ (closed[p] \/ reply[p] # "none")
      /\ worker' = [worker EXCEPT ![p] = "running"]
      /\ reply' = [reply EXCEPT ![p] = "none"]
      /\ agreed' = agreed \ {p}
      /\ UNCHANGED <<serial, closed, inTransit, pane, queue, bytes, window, blockedOn>>
      /\ KeepWhileCarried(p)
  BY DEF Wake, workspace
<1>3. \A x \in Panes : x # p => /\ worker'[x] = worker[x] /\ reply'[x] = reply[x]
                                /\ request'[x] = request[x]
  BY <1>1, <1>2 DEF TypeOK, KeepWhileCarried
<1>4. worker'[p] = "running" /\ reply'[p] = "none"
  BY <1>1, <1>2 DEF TypeOK
<1>5. ASSUME NEW x \in Panes PROVE PaneOK(x)'
  <2>1. CASE x = p
    <3>1. inTransit[p] => closed[p]
      BY <1>1, <1>2 DEF PaneOK
    <3> QED BY <1>1, <1>2, <1>4, <2>1, <3>1 DEF PaneOK
  <2>2. CASE x # p
    <3>1. x \in agreed' <=> x \in agreed
      BY <1>2, <2>2
    <3> QED BY <1>1, <1>2, <1>3, <2>2, <3>1 DEF PaneOK
  <2> QED BY <2>1, <2>2
<1>6. ASSUME NEW l \in Kinds, NEW i \in DOMAIN queue[l]
      PROVE  EntryOK(queue[l][i], l, inTransit)'
  <2>0. PICK e : e = queue[l][i]
    OBVIOUS
  <2>1. e \in Entries
    <3>1. queue[l] \in Seq(Entries)
      BY <1>1 DEF TypeOK
    <3> QED BY <2>0, <3>1
  <2>2. EntryOK(e, l, inTransit) /\ e.pane \in Panes
    BY <1>1, <2>0, <2>1 DEF QueuesOK, Entries
  <2>3. EntryOK(e, l, inTransit)'
    <3>1. CASE e.pane = p
      <4>1. closed[p]
        BY <1>2, <2>2, <3>1 DEF EntryOK, Unresolved
      <4> QED BY <1>2, <2>2, <3>1, <4>1 DEF EntryOK
    <3>2. CASE e.pane # p
      BY <1>2, <1>3, <2>2, <3>2 DEF EntryOK, Unresolved
    <3> QED BY <3>1, <3>2
  <2> QED BY <1>2, <2>0, <2>3 DEF EntryOK, Unresolved
<1>7. QueuesOK(queue, inTransit)'
  BY <1>1, <1>2, <1>6 DEF QueuesOK
<1>8. Known(queue, inTransit)'
  <2>1. \A x \in Panes : x # p =>
           (worker'[x] = "waiting" /\ ~closed'[x] /\ reply'[x] = "none" =>
              inTransit'[x] \/ \E l \in Kinds : \E i \in DOMAIN queue'[l] : queue'[l][i].pane = x)
    BY <1>1, <1>2, <1>3 DEF Known
  <2> QED BY <1>4, <2>1 DEF Known
<1>9. AccountsExact'
  BY <1>1, <1>2 DEF AccountsExact
<1> QED BY <1>5, <1>7, <1>8, <1>9 DEF Core

LEMMA ShutdownCore ==
    ASSUME IInv, NEW p \in Panes, Shutdown(p)
    PROVE  Core'
<1>1. /\ TypeOK /\ (\A x \in Panes : PaneOK(x)) /\ AccountsExact
      /\ QueuesOK(queue, inTransit) /\ Known(queue, inTransit)
  BY DEF IInv
<1>2. /\ worker[p] = "running" /\ worker' = [worker EXCEPT ![p] = "stopped"]
      /\ UNCHANGED <<serial, closed, request, reply, inTransit, pane, queue, bytes,
                     window, blockedOn, agreed>>
  BY DEF Shutdown, workspace
<1>3. \A x \in Panes : worker'[x] = "waiting" <=> worker[x] = "waiting"
  BY <1>1, <1>2 DEF TypeOK
<1>4. \A x \in Panes : PaneOK(x)'
  BY <1>1, <1>2, <1>3 DEF PaneOK
<1>5. ASSUME NEW l \in Kinds, NEW i \in DOMAIN queue[l]
      PROVE  EntryOK(queue[l][i], l, inTransit)'
  <2>0. PICK e : e = queue[l][i]
    OBVIOUS
  <2>1. e \in Entries
    <3>1. queue[l] \in Seq(Entries)
      BY <1>1 DEF TypeOK
    <3> QED BY <2>0, <3>1
  <2>2. EntryOK(e, l, inTransit) /\ e.pane \in Panes
    BY <1>1, <2>0, <2>1 DEF QueuesOK, Entries
  <2>3. EntryOK(e, l, inTransit)'
    BY <1>2, <1>3, <2>2 DEF EntryOK, Unresolved
  <2> QED BY <1>2, <2>0, <2>3 DEF EntryOK, Unresolved
<1>6. QueuesOK(queue, inTransit)'
  BY <1>1, <1>2, <1>5 DEF QueuesOK
<1>7. Known(queue, inTransit)'
  BY <1>1, <1>2, <1>3 DEF Known
<1>8. AccountsExact'
  BY <1>1, <1>2 DEF AccountsExact
<1> QED BY <1>4, <1>6, <1>7, <1>8 DEF Core

LEMMA CoreStep ==
    ASSUME IInv, [Next]_vars
    PROVE  Core'
<1>1. CASE UNCHANGED vars
  <2>1. /\ UNCHANGED <<worker, serial, closed, request, reply, inTransit, pane, queue, bytes,
                       window, blockedOn, agreed>>
    BY <1>1 DEF vars, bridge, workspace
  <2>2. \A p \in Panes : PaneOK(p)
    BY DEF IInv
  <2>3. Frame(inTransit)
    BY <2>1, <2>2 DEF Frame, PaneOK
  <2> QED BY <2>1, <2>3, QuietSlotCore
<1> QED
  BY <1>1, AskCore, DeliverCore, WakeCore, ShutdownCore, RetireCore, CommitRemovalCore,
     DestroyBeginsCore, DestroyEndsCore, DrainTimerCore, AnswerCore,
     CommitWindowCloseCore, DestroyWorkspaceCore
  DEF Next

-----------------------------------------------------------------------------
(* The dialogs *)

\* DialogFollowsQueue of one kind.
DialogOK(k) ==
    IF active[k] = None
    THEN dialog[k] = None /\ (queue[k] # <<>> => timer[k])
    ELSE /\ dialog[k] = active[k] /\ queue[k] # <<>>
         /\ active[k] = Name(Head(queue[k])) /\ Head(queue[k]).ask

LEMMA SameDialog ==
    ASSUME NEW k, DialogOK(k), queue'[k] = queue[k], active'[k] = active[k],
           dialog'[k] = dialog[k], timer[k] => timer'[k]
    PROVE  DialogOK(k)'
BY DEF DialogOK

LEMMA NamesAreSomebody == ASSUME NEW e PROVE Name(e) # None
BY DEF Name, None

\* A drain shows the first entry that asks, or empties the queue.
LEMMA DrainedDialog ==
    ASSUME TypeOK, NEW k \in Kinds, NEW s \in Seq(Entries), NEW ok,
           \A i \in 1..Len(s) : k = "read" => s[i].ask,
           active[k] = None, dialog[k] = None, Drained(k, s, ok)
    PROVE  DialogOK(k)'
<1> DEFINE n == FirstAsked(k, s)
           rest == SubSeq(s, n, Len(s))
<1>1. /\ queue' = [queue EXCEPT ![k] = rest]
      /\ IF rest = <<>>
         THEN UNCHANGED <<active, dialog>>
         ELSE /\ active' = [active EXCEPT ![k] = Name(Head(rest))]
              /\ dialog' = [dialog EXCEPT ![k] = Name(Head(rest))]
  BY DEF Drained
<1>2. n \in 1..(Len(s) + 1) /\ (n <= Len(s) => Needs(k, s[n]))
  BY FirstAskedIs
<1> HIDE DEF n
<1>3. rest # <<>> => n <= Len(s) /\ n \in 1..Len(s) /\ Head(rest) = s[n]
  BY <1>2
<1> HIDE DEF rest
<1>4. queue'[k] = rest
  BY <1>1 DEF TypeOK
<1>5. CASE rest = <<>>
  BY <1>1, <1>4, <1>5 DEF DialogOK
<1>6. CASE rest # <<>>
  <2>1. active'[k] = Name(Head(rest)) /\ dialog'[k] = Name(Head(rest))
    BY <1>1, <1>6 DEF TypeOK
  <2>2. Head(rest).ask
    BY <1>2, <1>3, <1>6 DEF Needs
  <2> QED BY <1>4, <1>6, <2>1, <2>2, NamesAreSomebody DEF DialogOK
<1> QED BY <1>5, <1>6

LEMMA DrainDialog ==
    ASSUME TypeOK, NEW k \in Kinds, DialogOK(k), NEW s \in Seq(Entries), NEW ok,
           queue[k] # <<>> => s # <<>> /\ Head(s) = Head(queue[k]),
           \A i \in 1..Len(s) : k = "read" => s[i].ask,
           Drain(k, s, ok)
    PROVE  /\ DialogOK(k)'
           /\ \A l \in Kinds : l # k => /\ queue'[l] = queue[l] /\ active'[l] = active[l]
                                        /\ dialog'[l] = dialog[l]
<1>1. CASE active[k] = None
  <2>1. DialogOK(k)'
    BY <1>1, DrainedDialog DEF Drain, DialogOK
  <2>2. \A l \in Kinds : l # k => /\ queue'[l] = queue[l] /\ active'[l] = active[l]
                                  /\ dialog'[l] = dialog[l]
    BY <1>1 DEF Drain, Drained, TypeOK
  <2> QED BY <2>1, <2>2
<1>2. CASE active[k] # None
  <2>1. queue' = [queue EXCEPT ![k] = s] /\ UNCHANGED <<active, dialog>>
    BY <1>2 DEF Drain
  <2>2. queue'[k] = s /\ \A l \in Kinds : l # k => queue'[l] = queue[l]
    BY <2>1 DEF TypeOK
  <2> QED BY <1>2, <2>1, <2>2 DEF DialogOK
<1> QED BY <1>1, <1>2

LEMMA RemovePendingDialog ==
    ASSUME IInv, NEW p \in Panes, RemovePending(p), NEW k \in Kinds
    PROVE  DialogOK(k)'
<1> DEFINE I == {i \in DOMAIN queue[k] : queue[k][i].pane # p}
           t == Subsequence(queue[k], I)
<1>1. /\ queue'[k] = t
      /\ active'[k] = IF RemovesActive(k, p) THEN None ELSE active[k]
      /\ dialog'[k] = IF RemovesActive(k, p) /\ dialog[k] = active[k] THEN None ELSE dialog[k]
      /\ timer'[k] = (timer[k] \/ (t # <<>> /\ active'[k] = None))
  BY DEF RemovePending
<1>2. DialogOK(k) /\ queue[k] \in Seq(Entries)
  BY DEF IInv, DialogFollowsQueue, DialogOK, TypeOK
<1>3. I \in SUBSET (1..Len(queue[k])) /\ (queue[k] # <<>> => Head(queue[k]) = queue[k][1])
  BY <1>2
<1>4. t \in Seq(Entries) /\ (1 \in I => t # <<>> /\ t[1] = queue[k][1])
  BY <1>2, <1>3, SubsequenceElements
<1>5. CASE active[k] = None
  <2>1. ~RemovesActive(k, p)
    BY <1>5 DEF RemovesActive
  <2> HIDE DEF t
  <2> QED BY <1>1, <1>2, <1>5, <2>1 DEF DialogOK
<1>6. CASE RemovesActive(k, p)
  <2> HIDE DEF t
  <2> QED BY <1>1, <1>2, <1>6 DEF DialogOK, RemovesActive
<1>7. CASE active[k] # None /\ ~RemovesActive(k, p)
  <2>1. queue[k] # <<>> /\ Head(queue[k]).pane # p
    BY <1>2, <1>7 DEF DialogOK, RemovesActive
  <2>2. 1 \in I
    BY <1>2, <1>3, <2>1
  <2>3. t # <<>> /\ Head(t) = Head(queue[k])
    <3>1. t # <<>> /\ t[1] = queue[k][1]
      BY <1>4, <2>2
    <3> HIDE DEF t
    <3> QED BY <1>3, <1>4, <2>1, <3>1
  <2> HIDE DEF t
  <2> QED BY <1>1, <1>2, <1>7, <2>3 DEF DialogOK
<1> QED BY <1>5, <1>6, <1>7

LEMMA DialogStep ==
    ASSUME IInv, [Next]_vars
    PROVE  DialogFollowsQueue'
<1>1. TypeOK /\ \A k \in Kinds : DialogOK(k)
  BY DEF IInv, DialogFollowsQueue, DialogOK
<1>2. SUFFICES \A k \in Kinds : DialogOK(k)'
  BY DEF DialogFollowsQueue, DialogOK
<1>3. ASSUME NEW k \in Kinds
      PROVE  queue[k] \in Seq(Entries) /\ \A i \in 1..Len(queue[k]) : k = "read" => queue[k][i].ask
  <2>1. queue[k] \in Seq(Entries)
    BY <1>1 DEF TypeOK
  <2>2. DOMAIN queue[k] = 1..Len(queue[k])
    BY <2>1
  <2> QED BY <2>1, <2>2 DEF IInv, QueuesOK, EntryOK
<1>4. ASSUME UNCHANGED workspace PROVE \A k \in Kinds : DialogOK(k)'
  BY <1>1, <1>4, SameDialog DEF workspace
<1>5. ASSUME NEW k \in Kinds, NEW ok \in BOOLEAN, DrainTimer(k, ok)
      PROVE  \A l \in Kinds : DialogOK(l)'
  <2>1. Drain(k, queue[k], ok) /\ timer' = [timer EXCEPT ![k] = FALSE]
    BY <1>5 DEF DrainTimer
  <2>2. /\ DialogOK(k)'
        /\ \A l \in Kinds : l # k => /\ queue'[l] = queue[l] /\ active'[l] = active[l]
                                     /\ dialog'[l] = dialog[l]
    BY <1>1, <1>3, <2>1, DrainDialog
  <2>3. ASSUME NEW l \in Kinds, l # k PROVE DialogOK(l)'
    <3>1. timer'[l] = timer[l]
      BY <1>1, <2>1, <2>3 DEF TypeOK
    <3> QED BY <1>1, <2>2, <2>3, <3>1, SameDialog
  <2> QED BY <2>2, <2>3
<1>6. ASSUME NEW p \in Panes, NEW ok \in BOOLEAN, Deliver(p, ok)
      PROVE  \A l \in Kinds : DialogOK(l)'
  <2>1. Begin(p, ok) /\ UNCHANGED timer /\ inTransit[p]
    BY <1>6 DEF Deliver
  <2>2. PICK e \in Entries, k \in Kinds : e = Arrived(p) /\ k = request[p].kind
    BY <1>1, <2>1, ArrivedType DEF IInv
  <2>5. PICK s : s = Append(queue[k], e)
    OBVIOUS
  <2>3. CASE UNCHANGED <<queue, active, dialog>>
    BY <1>1, <2>1, <2>3, SameDialog
  <2>4. CASE (k = "read" => e.ask) /\ Drain(k, s, ok)
    <3>1. queue[k] \in Seq(Entries) /\ \A i \in 1..Len(queue[k]) : k = "read" => queue[k][i].ask
      BY <1>3, <2>2
    <3>2. /\ s \in Seq(Entries)
          /\ queue[k] # <<>> => s # <<>> /\ Head(s) = Head(queue[k])
          /\ DOMAIN s = 1..Len(s) /\ Len(s) = Len(queue[k]) + 1
      BY <2>2, <2>5, <3>1
    <3>3. ASSUME NEW i \in 1..Len(s), k = "read" PROVE s[i].ask
      <4>1. CASE i = Len(queue[k]) + 1
        <5>1. s[i] = e
          BY <2>2, <2>5, <3>1, <4>1
        <5> QED BY <2>4, <3>3, <5>1
      <4>2. CASE i # Len(queue[k]) + 1
        <5>1. i \in 1..Len(queue[k]) /\ s[i] = queue[k][i]
          BY <2>2, <2>5, <3>1, <3>2, <4>2
        <5> QED BY <3>1, <3>3, <5>1
      <4> QED BY <4>1, <4>2
    <3>4. /\ DialogOK(k)'
          /\ \A l \in Kinds : l # k => /\ queue'[l] = queue[l] /\ active'[l] = active[l]
                                       /\ dialog'[l] = dialog[l]
      BY <1>1, <2>2, <2>4, <3>2, <3>3, DrainDialog
    <3> QED BY <1>1, <2>1, <2>2, <3>4, SameDialog
  <2> QED BY <2>1, <2>2, <2>3, <2>4, <2>5, BeginCases
<1>7. ASSUME NEW k \in Kinds, NEW confirmed \in BOOLEAN, NEW ok \in BOOLEAN,
             Answer(k, confirmed, ok)
      PROVE  \A l \in Kinds : DialogOK(l)'
  <2> DEFINE rest == Tail(queue[k])
  <2>1. /\ queue' = [queue EXCEPT ![k] = rest]
        /\ active' = [active EXCEPT ![k] = None]
        /\ dialog' = [dialog EXCEPT ![k] = None]
        /\ timer' = [timer EXCEPT ![k] = @ \/ rest # <<>>]
    BY <1>7, AnswerIs
  <2> HIDE DEF rest
  <2>2. DialogOK(k)'
    BY <1>1, <2>1 DEF DialogOK, TypeOK
  <2>3. ASSUME NEW l \in Kinds, l # k PROVE DialogOK(l)'
    <3>1. /\ queue'[l] = queue[l] /\ active'[l] = active[l]
          /\ dialog'[l] = dialog[l] /\ timer'[l] = timer[l]
      BY <1>1, <2>1, <2>3 DEF TypeOK
    <3> QED BY <1>1, <3>1, SameDialog
  <2> QED BY <2>2, <2>3
<1>8. ASSUME DestroyWorkspace PROVE \A l \in Kinds : DialogOK(l)'
  BY <1>8 DEF DestroyWorkspace, DialogOK
<1>9. ASSUME NEW p \in Panes, Retire(p) \/ CommitRemoval(p)
      PROVE  \A l \in Kinds : DialogOK(l)'
  BY <1>9, RemovePendingDialog DEF Retire, CommitRemoval
<1>10. ASSUME \/ \E p \in Panes, k \in Kinds, ask \in BOOLEAN : \E s \in Sizes[p] :
                    Ask(p, k, ask, s)
              \/ \E p \in Panes : Wake(p) \/ Shutdown(p) \/ DestroyBegins(p) \/ DestroyEnds(p)
              \/ CommitWindowClose \/ UNCHANGED vars
       PROVE  UNCHANGED workspace
  BY <1>10 DEF Ask, Wake, Shutdown, DestroyBegins, DestroyEnds, CommitWindowClose, vars
<1> QED BY <1>4, <1>5, <1>6, <1>7, <1>8, <1>9, <1>10 DEF Next

-----------------------------------------------------------------------------
(* The theorems *)

LEMMA InitIInv == Init => IInv
<1> SUFFICES ASSUME Init PROVE IInv
  OBVIOUS
<1>1. <<>> \in Seq(Entries) /\ Len(<<>>) = 0 /\ DOMAIN <<>> = {}
  OBVIOUS
<1>2. /\ queue = [k \in Kinds |-> <<>>] /\ bytes = [k \in Kinds |-> 0]
      /\ NoRequest \in Requests
  BY DEF Init, NoRequest, Requests, Kinds
<1>3. TypeOK
  BY <1>1, <1>2 DEF Init, TypeOK, Outcomes
<1>4. \A p \in Panes : PaneOK(p)
  BY ClipboardAssumption DEF Init, PaneOK
<1>5. QueuesOK(queue, inTransit)
  BY <1>1, <1>2 DEF QueuesOK
<1>6. Known(queue, inTransit)
  BY DEF Init, Known
<1>7. DialogFollowsQueue
  BY DEF Init, DialogFollowsQueue
<1>8. AccountsExact
  <2>1. MaxEntries >= 0 /\ ~(0 > MaxBytes)
    BY ClipboardAssumption
  <2> QED BY <1>1, <1>2, <2>1, TotalOfEmpty DEF AccountsExact
<1> QED BY <1>3, <1>4, <1>5, <1>6, <1>7, <1>8 DEF IInv

LEMMA NextIInv == IInv /\ [Next]_vars => IInv'
BY TypeStep, CoreStep, DialogStep DEF IInv, Core

LEMMA Invariance == Spec => []IInv
BY InitIInv, NextIInv, PTL DEF Spec

\* The variables keep their types.
THEOREM TypeCorrect == Spec => []TypeOK
<1>1. IInv => TypeOK
  BY DEF IInv
<1> QED BY <1>1, Invariance, PTL

\* The account of a queue is what it holds, whatever was answered, drained or
\* removed, and the limits hold: a single write may exceed the limit of bytes,
\* when it is alone.
THEOREM LimitsHold == Spec => []AccountsExact
<1>1. IInv => AccountsExact
  BY DEF IInv
<1> QED BY <1>1, Invariance, PTL

\* A worker that waits, and whose bridge is open, will be answered: its request is
\* on its way or queued, or its reply is there.
THEOREM NeverLost == Spec => []RequestNeverLost
<1>1. IInv => RequestNeverLost
  <2> SUFFICES ASSUME IInv, NEW p \in Panes, worker[p] = "waiting", ~closed[p],
                      reply[p] = "none", ~inTransit[p]
               PROVE  \E e \in Pending : e.pane = p /\ e.id = serial[p]
    BY DEF RequestNeverLost
  <2>1. PICK k \in Kinds : \E i \in DOMAIN queue[k] : queue[k][i].pane = p
    BY DEF IInv, Known
  <2>2. PICK i \in DOMAIN queue[k] : queue[k][i].pane = p
    BY <2>1
  <2>3. EntryOK(queue[k][i], k, inTransit)
    BY DEF IInv, QueuesOK
  <2>4. queue[k][i] \in Pending
    BY DEF Pending, Range
  <2> QED BY <2>2, <2>3, <2>4 DEF EntryOK
<1> QED BY <1>1, Invariance, PTL

\* No queue stalls, and the open dialog of a kind asks about its queue's head.
THEOREM DialogsFollow == Spec => []DialogFollowsQueue
<1>1. IInv => DialogFollowsQueue
  BY DEF IInv
<1> QED BY <1>1, Invariance, PTL

-----------------------------------------------------------------------------
(* What the applications and the user are promised *)

Asking == {p \in Panes : worker[p] = "waiting"}
Free == {p \in Panes : worker[p] = "waiting" /\ ~request[p].ask}
Closing == {p \in Panes : closed[p]}

LEMMA ConsentVars ==
    ASSUME Asking' = Asking, Free' = Free, agreed' = agreed, Closing' = Closing,
           outcome' = outcome
    PROVE  UNCHANGED Consent!vars
BY DEF Consent!vars, Asking, Free, Closing

LEMMA RequestKept ==
    ASSUME TypeOK, NEW p \in Panes, KeepWhileCarried(p), UNCHANGED worker
    PROVE  Free' = Free /\ Asking' = Asking
<1>1. \A x \in Panes : worker[x] = "waiting" => request'[x] = request[x]
  BY DEF KeepWhileCarried, TypeOK
<1> QED BY <1>1 DEF Free, Asking

LEMMA CloseMaps ==
    ASSUME NEW P, P \subseteq Panes, BeginShutdown(P), TypeOK,
           Asking' = Asking, Free' = Free, UNCHANGED <<agreed, outcome>>
    PROVE  Consent!Next
<1>1. Closing' = Closing \cup P
  BY DEF BeginShutdown, Closing
<1>2. Consent!Close(P)
  BY <1>1 DEF Consent!Close, Closing, Asking, Free
<1>3. P \in SUBSET Panes
  OBVIOUS
<1> QED BY <1>2, <1>3, Zenon DEF Consent!Next

LEMMA AskMaps ==
    ASSUME IInv, NEW p \in Panes, NEW k \in Kinds, NEW ask \in BOOLEAN, NEW s \in Sizes[p],
           Ask(p, k, ask, s)
    PROVE  Consent!Next
<1>1. TypeOK
  BY DEF IInv
<1>2. /\ worker[p] = "running" /\ ~closed[p]
      /\ request' = [request EXCEPT ![p] = [kind |-> k, ask |-> ask, size |-> s]]
      /\ worker' = [worker EXCEPT ![p] = "waiting"]
      /\ outcome' = [outcome EXCEPT ![p] = "none"]
      /\ UNCHANGED <<closed, agreed>>
  BY DEF Ask
<1>3. Asking' = Asking \cup {p} /\ p \notin Asking \cup Closing /\ Closing' = Closing
  BY <1>1, <1>2 DEF TypeOK, Asking, Closing
<1>4. /\ worker'[p] = "waiting" /\ request'[p].ask = ask
      /\ \A x \in Panes : x # p => worker'[x] = worker[x] /\ request'[x] = request[x]
  BY <1>1, <1>2 DEF TypeOK
<1>5. Free' = IF ask THEN Free ELSE Free \cup {p}
  BY <1>2, <1>4 DEF Free
<1>6. Consent!Ask(p)
  BY <1>2, <1>3, <1>5 DEF Consent!Ask, Asking, Free, Closing
<1> QED BY <1>6 DEF Consent!Next

LEMMA WakeMaps ==
    ASSUME IInv, NEW p \in Panes, Wake(p)
    PROVE  Consent!Next
<1>1. TypeOK /\ PaneOK(p)
  BY DEF IInv
<1>0. PICK o : o = IF reply[p] # "none" THEN reply[p] ELSE "cancelled"
  OBVIOUS
<1>2. /\ worker[p] = "waiting" /\ (closed[p] \/ reply[p] # "none")
      /\ worker' = [worker EXCEPT ![p] = "running"]
      /\ outcome' = [outcome EXCEPT ![p] = o]
      /\ agreed' = agreed \ {p} /\ closed' = closed /\ KeepWhileCarried(p)
  BY <1>0 DEF Wake
<1>3. Asking' = Asking \ {p} /\ p \in Asking /\ Closing' = Closing
  BY <1>1, <1>2 DEF TypeOK, Asking, Closing
<1>4. /\ worker'[p] # "waiting"
      /\ \A x \in Panes : x # p => worker'[x] = worker[x] /\ request'[x] = request[x]
  BY <1>1, <1>2 DEF TypeOK, KeepWhileCarried
<1>5. Free' = Free \ {p}
  BY <1>4 DEF Free
<1>6. o = "success" => p \in Free \cup agreed
  BY <1>0, <1>1, <1>2 DEF PaneOK, Free
<1>7. o = "cancelled" => p \in Closing
  BY <1>0, <1>1, <1>2 DEF TypeOK, Closing
<1>8. o \in Consent!Outcomes
  BY <1>0, <1>1 DEF TypeOK, Outcomes, Consent!Outcomes
<1>9. Consent!End(p, o)
  BY <1>2, <1>3, <1>5, <1>6, <1>7 DEF Consent!End, Asking, Free, Closing
<1> QED BY <1>8, <1>9 DEF Consent!Next

LEMMA AnswerMaps ==
    ASSUME IInv, NEW k \in Kinds, NEW confirmed \in BOOLEAN, NEW ok \in BOOLEAN,
           Answer(k, confirmed, ok)
    PROVE  [Consent!Next]_(Consent!vars)
<1>1. PICK e \in Entries :
         agreed' = IF confirmed /\ Unresolved(e) THEN agreed \cup {e.pane} ELSE agreed
  BY AnswerIs
<1>2. UNCHANGED <<worker, request, closed, outcome>>
  BY DEF Answer, bridge
<1>3. Asking' = Asking /\ Free' = Free /\ Closing' = Closing
  BY <1>2 DEF Asking, Free, Closing
<1>4. CASE confirmed /\ Unresolved(e)
  <2>1. e.pane \in Panes /\ e.pane \in Asking
    BY <1>4 DEF Entries, Unresolved, Asking
  <2>2. Consent!Agree(e.pane)
    BY <1>1, <1>2, <1>3, <1>4, <2>1 DEF Consent!Agree, Asking, Free, Closing
  <2> QED BY <2>1, <2>2 DEF Consent!Next
<1>5. CASE ~(confirmed /\ Unresolved(e))
  BY <1>1, <1>2, <1>3, <1>5, ConsentVars
<1> QED BY <1>4, <1>5

\* The clipboard requests implement the promise about consent.
THEOREM RefinesConsent == Spec => ImplementsConsent
<1>1. Init => Consent!Init
  BY DEF Init, Consent!Init
<1>2. IInv /\ [Next]_vars => [Consent!Next]_(Consent!vars)
  <2> SUFFICES ASSUME IInv, [Next]_vars PROVE [Consent!Next]_(Consent!vars)
    OBVIOUS
  <2>0. TypeOK
    BY DEF IInv
  <2>1. CASE UNCHANGED <<worker, request, closed, outcome, agreed>>
    <3>1. Asking' = Asking /\ Free' = Free /\ Closing' = Closing
      BY <2>1 DEF Asking, Free, Closing
    <3> QED BY <2>1, <3>1, ConsentVars
  <2>2. ASSUME NEW p \in Panes, NEW k \in Kinds, NEW ask \in BOOLEAN, NEW s \in Sizes[p],
               Ask(p, k, ask, s)
        PROVE  Consent!Next
    BY <2>2, AskMaps
  <2>3. ASSUME NEW p \in Panes, NEW ok \in BOOLEAN, Deliver(p, ok)
        PROVE  UNCHANGED Consent!vars
    <3>1. /\ UNCHANGED <<worker, closed, outcome, agreed>>
          /\ KeepWhileCarried(p)
      BY <2>3 DEF Deliver
    <3>2. Asking' = Asking /\ Free' = Free /\ Closing' = Closing
      BY <2>0, <3>1, RequestKept DEF Closing
    <3> QED BY <3>1, <3>2, ConsentVars
  <2>4. ASSUME NEW p \in Panes, Wake(p) PROVE Consent!Next
    BY <2>4, WakeMaps
  <2>5. ASSUME NEW p \in Panes, Retire(p) PROVE Consent!Next
    <3>1. BeginShutdown({p}) /\ UNCHANGED <<worker, request, agreed, outcome>>
      BY <2>5 DEF Retire
    <3>2. Asking' = Asking /\ Free' = Free
      BY <3>1 DEF Asking, Free
    <3> QED BY <2>0, <3>1, <3>2, CloseMaps
  <2>6. ASSUME NEW p \in Panes, DestroyBegins(p) PROVE Consent!Next
    <3>1. /\ BeginShutdown({p}) /\ KeepWhileCarried(p)
          /\ UNCHANGED <<worker, agreed, outcome>>
      BY <2>6 DEF DestroyBegins
    <3> QED BY <2>0, <3>1, RequestKept, CloseMaps
  <2>7. CASE CommitWindowClose
    <3>1. PICK P \in SUBSET Panes : P = {p \in Panes : pane[p] \in {"live", "retiring"}}
      OBVIOUS
    <3>2. BeginShutdown(P) /\ UNCHANGED <<worker, request, agreed, outcome>>
      BY <2>7, <3>1 DEF CommitWindowClose
    <3>3. Asking' = Asking /\ Free' = Free
      BY <3>2 DEF Asking, Free
    <3> QED BY <2>0, <3>2, <3>3, CloseMaps
  <2>8. ASSUME NEW k \in Kinds, NEW confirmed \in BOOLEAN, NEW ok \in BOOLEAN,
               Answer(k, confirmed, ok)
        PROVE  [Consent!Next]_(Consent!vars)
    BY <2>8, AnswerMaps
  <2>9. ASSUME \/ \E p \in Panes : Shutdown(p) \/ CommitRemoval(p) \/ DestroyEnds(p)
               \/ \E k \in Kinds, ok \in BOOLEAN : DrainTimer(k, ok)
               \/ DestroyWorkspace \/ UNCHANGED vars
        PROVE  UNCHANGED <<worker, request, closed, outcome, agreed>> \/ \E p \in Panes : Shutdown(p)
    BY <2>9 DEF CommitRemoval, DestroyEnds, DrainTimer, DestroyWorkspace, vars, bridge
  <2>10. ASSUME NEW p \in Panes, Shutdown(p) PROVE UNCHANGED Consent!vars
    <3>1. /\ worker[p] = "running" /\ worker' = [worker EXCEPT ![p] = "stopped"]
          /\ UNCHANGED <<request, closed, outcome, agreed>>
      BY <2>10 DEF Shutdown
    <3>2. \A x \in Panes : worker'[x] = "waiting" <=> worker[x] = "waiting"
      BY <2>0, <3>1 DEF TypeOK
    <3>3. Asking' = Asking /\ Free' = Free /\ Closing' = Closing
      BY <3>1, <3>2 DEF Asking, Free, Closing
    <3> QED BY <3>1, <3>3, ConsentVars
  <2> QED
    BY <2>1, <2>2, <2>3, <2>4, <2>5, <2>6, <2>7, <2>8, <2>9, <2>10 DEF Next
<1> QED BY <1>1, <1>2, Invariance, PTL DEF Spec, ImplementsConsent, Consent!Spec
=============================================================================
