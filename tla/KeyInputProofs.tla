---------------------------- MODULE KeyInputProofs ----------------------------
(***************************************************************************)
(* Theorems about keyboard input, for any keys and any amount of typing,   *)
(* any number of actions and any loss of the focus.                        *)
(*                                                                         *)
(* What is on its way to the child is one sequence of messages, the flow:  *)
(* the leaders the worker holds back, as if they were yet to be staged,    *)
(* and then the worker's queue. The first part says what holds of a flow   *)
(* and how it changes; the second part is about the pane that feeds it.    *)
(***************************************************************************)
EXTENDS KeyInput, SequenceFacts

-----------------------------------------------------------------------------
(* Types.                                                                  *)

Presses == {i \in Inputs : i.kind = "press"}
Tokens == 1..MaxTyped
Sent == [kind : {"press", "commit"}, n : Tokens, late : BOOLEAN]
Eaten == [kind : {"press", "release"}, n : Tokens]
Chains ==
    [phase : {"running", "pending"}, press : Presses, focus : 0..MaxLosses,
     leaders : SUBSET Presses, left : 0..MaxAsked,
     performed : BOOLEAN, delayed : BOOLEAN]

KeyMessages == [kind : {"key"}, item : Inputs]
StageMessages == [kind : {"stage"}, token : Tokens, item : Presses]
ResolveMessages ==
    [kind : {"resolve"}, token : Tokens, flush : BOOLEAN,
     current : {<<>>} \cup {<<p>> : p \in Presses}]
ActionMessages == [kind : {"action"}, id : Tokens \X (0..MaxAsked)]
Messages ==
    KeyMessages \cup StageMessages \cup ResolveMessages \cup ActionMessages
    \cup {Shutdown}

-----------------------------------------------------------------------------
(* The flow.                                                               *)

IsTyped(i) == i.kind # "release"
IsStage(m) == m.kind = "stage"
IsResolve(m, t) == m.kind = "resolve" /\ m.token = t

\* Presses and commits of a message; those it writes by itself.
Sits(m) == {i \in Carried(m) : IsTyped(i)}
Direct(m) == IF m.kind = "stage" THEN {} ELSE Sits(m)

\* The exception of InputInOrder.
Overtakes(y, x) == y.kind = "commit" /\ y.late /\ x.late
Before(y, x) == y.n < x.n \/ Overtakes(y, x)

\* The sequence t is resolved by a message between positions a and b.
Resolved(v, t, a, b) ==
    \E c \in DOMAIN v : a < c /\ c < b /\ IsResolve(v[c], t)
Ends(v, t, a) == \E c \in DOMAIN v : a < c /\ IsResolve(v[c], t)

\* Of the flow v alone: messages are in the order of typing, and only a
\* commit that may overtake a leader follows it before it is resolved.
Sorted(v) ==
    \A a, b \in DOMAIN v : a < b =>
      \A x \in Sits(v[a]), y \in Sits(v[b]) : x.n < y.n
NoneOvertaken(v) ==
    \A a, b \in DOMAIN v :
      a < b /\ IsStage(v[a]) /\ v[b].kind = "key" /\ IsTyped(v[b].item) =>
        Overtakes(v[b].item, v[a].item) \/ Resolved(v, v[a].token, a, b)

\* Leaders in the flow are in the pane's hands (h) or will be resolved; the
\* pane's leaders are other inputs than those that are written or resolved.
Staged(v, h) ==
    \A a \in DOMAIN v : IsStage(v[a]) =>
      \/ Ends(v, v[a].token, a)
      \/ v[a].token = TokenOf(h) /\ v[a].item \in h
Distinct(v, h) ==
    \A l \in h :
      /\ \A a \in DOMAIN v : IsStage(v[a]) /\ Ends(v, v[a].token, a) =>
           v[a].item.n # l.n
      /\ \A b \in DOMAIN v : \A y \in Direct(v[b]) : y.n # l.n
      /\ \A c \in DOMAIN v : v[c].kind = "resolve" => v[c].token < l.n

\* What is eaten (e) is not written: not by a message, not with its sequence.
Uneaten(v, e) ==
    /\ \A b \in DOMAIN v : \A y \in Direct(v[b]) : Press(y) \notin e
    /\ \A a, c \in DOMAIN v :
         a < c /\ IsStage(v[a]) /\ IsResolve(v[c], v[a].token) /\ v[c].flush =>
           Press(v[a].item) \notin e

FlowOK(v, h, e) ==
    /\ v \in Seq(Messages) /\ h \subseteq Presses /\ e \subseteq Eaten
    /\ Sorted(v) /\ NoneOvertaken(v)
    /\ Staged(v, h) /\ Distinct(v, h) /\ Uneaten(v, e)

\* Of what has been sent (s), before the flow v.
SentOK(s, v, h, e) ==
    /\ s \in Seq(Sent)
    /\ \A j, k \in DOMAIN s : j < k => Before(s[j], s[k])
    /\ \A j \in DOMAIN s, b \in DOMAIN v : \A x \in Sits(v[b]) : Before(s[j], x)
    /\ \A j \in DOMAIN s : Press(s[j]) \notin e /\ \A l \in h : s[j].n # l.n

\* Every press and commit that has been handled was typed before n.
Below(n, v, h, e, s) ==
    /\ \A b \in DOMAIN v : \A x \in Sits(v[b]) : x.n < n
    /\ \A b \in DOMAIN v : v[b].kind = "resolve" => v[b].token < n
    /\ \A j \in DOMAIN s : s[j].n < n
    /\ \A l \in h : l.n < n
    /\ \A x \in e : x.kind = "press" => x.n < n

-----------------------------------------------------------------------------
(* Messages.                                                               *)

\* What a message of each kind carries: a key,
LEMMA SitsOfKey ==
    ASSUME NEW i \in Inputs
    PROVE  /\ Key(i) \in Messages
           /\ IsTyped(i) => Sits(Key(i)) = {i} /\ Direct(Key(i)) = {i}
           /\ ~IsTyped(i) => Sits(Key(i)) = {} /\ Direct(Key(i)) = {}
           /\ ~IsStage(Key(i)) /\ Key(i).kind = "key" /\ Key(i).item = i
BY DEF Key, Messages, KeyMessages, Sits, Direct, Carried, IsTyped, IsStage

\* a leader,
LEMMA SitsOfStage ==
    ASSUME NEW t \in Tokens, NEW x \in Presses
    PROVE  /\ Stage(t, x) \in Messages
           /\ Sits(Stage(t, x)) = {x} /\ Direct(Stage(t, x)) = {}
           /\ Stage(t, x).kind = "stage"
           /\ Stage(t, x).token = t /\ Stage(t, x).item = x
BY DEF Stage, Messages, StageMessages, Sits, Direct, Carried, IsTyped, Presses

\* the end of a sequence, which may write its last press itself,
LEMMA SitsOfResolve ==
    ASSUME NEW t \in Tokens, NEW f \in BOOLEAN
    PROVE  /\ Resolve(t, f, <<>>) \in Messages
           /\ Sits(Resolve(t, f, <<>>)) = {} /\ Direct(Resolve(t, f, <<>>)) = {}
           /\ \A p \in Presses :
                /\ Resolve(t, f, <<p>>) \in Messages
                /\ Sits(Resolve(t, f, <<p>>)) = {p}
                /\ Direct(Resolve(t, f, <<p>>)) = {p}
<1>1. Resolve(t, f, <<>>) \in Messages
  BY DEF Resolve, Messages, ResolveMessages
<1>2. Sits(Resolve(t, f, <<>>)) = {} /\ Direct(Resolve(t, f, <<>>)) = {}
  BY DEF Resolve, Sits, Direct, Carried
<1>3. ASSUME NEW p \in Presses
      PROVE  /\ Resolve(t, f, <<p>>) \in Messages
             /\ Sits(Resolve(t, f, <<p>>)) = {p} /\ Direct(Resolve(t, f, <<p>>)) = {p}
  <2>1. Resolve(t, f, <<p>>) \in Messages
    BY DEF Resolve, Messages, ResolveMessages
  <2>2. Carried(Resolve(t, f, <<p>>)) = {p}
    BY DEF Resolve, Carried
  <2>3. Resolve(t, f, <<p>>).kind = "resolve" /\ IsTyped(p)
    BY DEF Resolve, IsTyped, Presses
  <2> QED BY <2>1, <2>2, <2>3 DEF Sits, Direct
<1> QED BY <1>1, <1>2, <1>3

\* and the messages that carry no input.
LEMMA SitsOfAction ==
    ASSUME NEW m, m.kind \in {"action", "shutdown"}
    PROVE  Sits(m) = {} /\ Direct(m) = {} /\ ~IsStage(m) /\ m.kind # "resolve"
BY DEF Sits, Direct, Carried, IsStage

\* The inputs that a message carries are presses and commits.
LEMMA SitsType ==
    ASSUME NEW m \in Messages
    PROVE  /\ Direct(m) \subseteq Sits(m)
           /\ \A x \in Sits(m) : x \in Inputs /\ IsTyped(x) /\ x.n \in Tokens
           /\ IsStage(m) => Sits(m) = {m.item} /\ m.item \in Presses /\ m.token \in Tokens
           /\ m.kind = "resolve" => m.token \in Tokens /\ m.flush \in BOOLEAN
           /\ m.kind = "key" => m.item \in Inputs
<1>1. CASE m \in KeyMessages
  BY <1>1 DEF KeyMessages, Sits, Direct, Carried, IsTyped, Inputs, Tokens, IsStage
<1>2. CASE m \in StageMessages
  BY <1>2 DEF StageMessages, Sits, Direct, Carried, IsTyped, Inputs, Tokens, IsStage, Presses
<1>3. CASE m \in ResolveMessages
  <2>1. /\ m.current \in {<<>>} \cup {<<p>> : p \in Presses}
        /\ Carried(m) = {m.current[k] : k \in DOMAIN m.current}
        /\ m.kind = "resolve" /\ m.token \in Tokens /\ m.flush \in BOOLEAN
    BY <1>3 DEF ResolveMessages, Carried
  <2>2. \A x \in Carried(m) : x \in Presses
    BY <2>1
  <2> QED BY <2>1, <2>2 DEF Sits, Direct, IsStage, Presses, Inputs, IsTyped, Tokens
<1>4. CASE m \in ActionMessages \cup {Shutdown}
  BY <1>4, SitsOfAction DEF ActionMessages, Shutdown, IsStage
<1> QED BY <1>1, <1>2, <1>3, <1>4 DEF Messages

-----------------------------------------------------------------------------
(* Appending a message to the flow.                                        *)

\* The flow w is v and then m.
Plus(w, v, m) ==
    /\ w \in Seq(Messages) /\ Len(w) = Len(v) + 1 /\ w[Len(v) + 1] = m
    /\ \A i \in 1..Len(v) : w[i] = v[i]

\* What has to hold of the message m after the flow v, for the parts of
\* FlowOK in their order.
SortedWith(v, m) ==
    \A a \in DOMAIN v : \A x \in Sits(v[a]), y \in Sits(m) : x.n < y.n
NotOvertakenBy(v, m) ==
    m.kind = "key" /\ IsTyped(m.item) =>
      \A a \in DOMAIN v : IsStage(v[a]) =>
        Ends(v, v[a].token, a) \/ Overtakes(m.item, v[a].item)
StagedWith(v, m, h) ==
    /\ \A a \in DOMAIN v : IsStage(v[a]) =>
         \/ Ends(v, v[a].token, a)
         \/ IsResolve(m, v[a].token)
         \/ v[a].token = TokenOf(h) /\ v[a].item \in h
    /\ IsStage(m) => m.token = TokenOf(h) /\ m.item \in h
DistinctWith(v, m, h) ==
    /\ Distinct(v, h)
    /\ \A l \in h :
         /\ \A a \in DOMAIN v : IsStage(v[a]) /\ IsResolve(m, v[a].token) =>
              v[a].item.n # l.n
         /\ \A y \in Direct(m) : y.n # l.n
         /\ m.kind = "resolve" => m.token < l.n
UneatenWith(v, m, e) ==
    /\ Uneaten(v, e)
    /\ \A y \in Direct(m) : Press(y) \notin e
    /\ \A a \in DOMAIN v :
         IsStage(v[a]) /\ IsResolve(m, v[a].token) /\ m.flush =>
           Press(v[a].item) \notin e

\* Only a message that ends the sequence t changes what is resolved.
LEMMA EndsAppended ==
    ASSUME NEW v \in Seq(Messages), NEW m \in Messages, NEW w, Plus(w, v, m), NEW t
    PROVE  /\ \A a \in DOMAIN v : Ends(w, t, a) <=> Ends(v, t, a) \/ IsResolve(m, t)
           /\ \A a \in DOMAIN v : Resolved(w, t, a, Len(v) + 1) <=> Ends(v, t, a)
           /\ \A a, b \in DOMAIN v : Resolved(w, t, a, b) <=> Resolved(v, t, a, b)
           /\ ~Ends(w, t, Len(v) + 1)
<1>1. DOMAIN v = 1..Len(v) /\ DOMAIN w = 1..(Len(v) + 1) /\ Len(v) \in Nat
  BY DEF Plus
<1>2. w[Len(v) + 1] = m /\ \A i \in 1..Len(v) : w[i] = v[i]
  BY DEF Plus
<1>3. ASSUME NEW a \in DOMAIN v
      PROVE  Ends(w, t, a) <=> Ends(v, t, a) \/ IsResolve(m, t)
  BY <1>1, <1>2, <1>3 DEF Ends
<1>4. ASSUME NEW a \in DOMAIN v
      PROVE  Resolved(w, t, a, Len(v) + 1) <=> Ends(v, t, a)
  BY <1>1, <1>2, <1>4 DEF Ends, Resolved
<1>5. ASSUME NEW a \in DOMAIN v, NEW b \in DOMAIN v
      PROVE  Resolved(w, t, a, b) <=> Resolved(v, t, a, b)
  BY <1>1, <1>2, <1>5 DEF Resolved
<1>6. ~Ends(w, t, Len(v) + 1)
  BY <1>1 DEF Ends
<1> QED BY <1>3, <1>4, <1>5, <1>6

\* The flow stays in order when a message that fits is appended to it.
LEMMA AppendToFlow ==
    ASSUME NEW v, NEW h, NEW e, FlowOK(v, h, e),
           NEW m \in Messages, NEW w, Plus(w, v, m),
           NEW h2, h2 \subseteq Presses, NEW e2, e2 \subseteq Eaten,
           SortedWith(v, m), NotOvertakenBy(v, m), StagedWith(v, m, h2),
           DistinctWith(v, m, h2), UneatenWith(v, m, e2)
    PROVE  FlowOK(w, h2, e2)
<1> DEFINE z == Len(v) + 1
<1>1. /\ v \in Seq(Messages) /\ Sorted(v) /\ NoneOvertaken(v)
  BY DEF FlowOK
<1>2. /\ DOMAIN v = 1..Len(v) /\ DOMAIN w = 1..z /\ Len(v) \in Nat
      /\ w[z] = m /\ \A i \in DOMAIN v : w[i] = v[i]
  BY <1>1 DEF Plus
<1>3. \A a \in DOMAIN w : a \in DOMAIN v \/ a = z
  BY <1>2
<1>4. \A a, b \in DOMAIN w : a < b => a \in DOMAIN v
  BY <1>2
<1>5. \A a \in DOMAIN v : a < z
  BY <1>2
<1>6. \A t : /\ \A a \in DOMAIN v : Ends(w, t, a) <=> Ends(v, t, a) \/ IsResolve(m, t)
             /\ \A a \in DOMAIN v : Resolved(w, t, a, z) <=> Ends(v, t, a)
             /\ \A a, b \in DOMAIN v : Resolved(w, t, a, b) <=> Resolved(v, t, a, b)
             /\ ~Ends(w, t, z)
  BY <1>1, EndsAppended
<1> HIDE DEF z
<1>7. Sorted(w)
  <2> SUFFICES ASSUME NEW a \in DOMAIN w, NEW b \in DOMAIN w, a < b,
                      NEW x \in Sits(w[a]), NEW y \in Sits(w[b])
               PROVE  x.n < y.n
    BY DEF Sorted
  <2>1. a \in DOMAIN v /\ w[a] = v[a]
    BY <1>2, <1>4
  <2>2. CASE b \in DOMAIN v
    BY <2>1, <2>2, <1>1, <1>2 DEF Sorted
  <2>3. CASE b = z
    BY <2>1, <2>3, <1>2 DEF SortedWith
  <2> QED BY <1>3, <2>2, <2>3
<1>8. NoneOvertaken(w)
  <2> SUFFICES ASSUME NEW a \in DOMAIN w, NEW b \in DOMAIN w, a < b,
                      IsStage(w[a]), w[b].kind = "key", IsTyped(w[b].item)
               PROVE  Overtakes(w[b].item, w[a].item) \/ Resolved(w, w[a].token, a, b)
    BY DEF NoneOvertaken
  <2>1. a \in DOMAIN v /\ w[a] = v[a]
    BY <1>2, <1>4
  <2>2. CASE b \in DOMAIN v
    BY <2>1, <2>2, <1>1, <1>2, <1>6 DEF NoneOvertaken
  <2>3. CASE b = z
    BY <2>1, <2>3, <1>2, <1>6 DEF NotOvertakenBy
  <2> QED BY <1>3, <2>2, <2>3
<1>9. Staged(w, h2)
  BY <1>2, <1>3, <1>6 DEF StagedWith, Staged
<1>10. Distinct(w, h2)
  <2> SUFFICES ASSUME NEW l \in h2, NEW a \in DOMAIN w
               PROVE  /\ IsStage(w[a]) /\ Ends(w, w[a].token, a) => w[a].item.n # l.n
                      /\ \A y \in Direct(w[a]) : y.n # l.n
                      /\ w[a].kind = "resolve" => w[a].token < l.n
    BY DEF Distinct
  <2>1. CASE a \in DOMAIN v
    BY <2>1, <1>2, <1>6 DEF DistinctWith, Distinct
  <2>2. CASE a = z
    BY <2>2, <1>2, <1>6 DEF DistinctWith
  <2> QED BY <1>3, <2>1, <2>2
<1>11. Uneaten(w, e2)
  <2>1. ASSUME NEW b \in DOMAIN w, NEW y \in Direct(w[b]) PROVE Press(y) \notin e2
    BY <2>1, <1>2, <1>3 DEF UneatenWith, Uneaten
  <2>2. ASSUME NEW a \in DOMAIN w, NEW c \in DOMAIN w, a < c, IsStage(w[a]),
               IsResolve(w[c], w[a].token), w[c].flush
        PROVE  Press(w[a].item) \notin e2
    <3>1. a \in DOMAIN v /\ w[a] = v[a]
      BY <2>2, <1>2, <1>4
    <3>2. CASE c \in DOMAIN v
      BY <2>2, <3>1, <3>2, <1>2 DEF UneatenWith, Uneaten
    <3>3. CASE c = z
      BY <2>2, <3>1, <3>3, <1>2 DEF UneatenWith
    <3> QED BY <1>3, <3>2, <3>3
  <2> QED BY <2>1, <2>2 DEF Uneaten
<1>12. w \in Seq(Messages)
  BY DEF Plus
<1> QED BY <1>7, <1>8, <1>9, <1>10, <1>11, <1>12 DEF FlowOK

\* What was sent stays before the flow when a message is appended to it.
LEMMA AppendToSent ==
    ASSUME NEW v \in Seq(Messages), NEW h, NEW e, NEW s, SentOK(s, v, h, e),
           NEW m, NEW w, Plus(w, v, m), NEW h2, NEW e2,
           \A j \in DOMAIN s : \A x \in Sits(m) : Before(s[j], x),
           \A j \in DOMAIN s : Press(s[j]) \notin e2 /\ \A l \in h2 : s[j].n # l.n
    PROVE  SentOK(s, w, h2, e2)
<1>1. /\ DOMAIN v = 1..Len(v) /\ DOMAIN w = 1..(Len(v) + 1) /\ Len(v) \in Nat
      /\ w[Len(v) + 1] = m /\ \A i \in DOMAIN v : w[i] = v[i]
  BY DEF Plus
<1>2. ASSUME NEW j \in DOMAIN s, NEW b \in DOMAIN w, NEW x \in Sits(w[b])
      PROVE  Before(s[j], x)
  <2>1. CASE b \in DOMAIN v
    BY <2>1, <1>1, <1>2 DEF SentOK
  <2>2. CASE b = Len(v) + 1
    BY <2>2, <1>1, <1>2
  <2> QED BY <1>1, <2>1, <2>2
<1> QED BY <1>2 DEF SentOK

\* What was handled stays below n when a message below n is appended.
LEMMA AppendBelow ==
    ASSUME NEW v \in Seq(Messages), NEW h, NEW e, NEW s, NEW n, Below(n, v, h, e, s),
           NEW m, NEW w, Plus(w, v, m), NEW h2, NEW e2,
           \A x \in Sits(m) : x.n < n, m.kind = "resolve" => m.token < n,
           \A l \in h2 : l.n < n, \A x \in e2 : x.kind = "press" => x.n < n
    PROVE  Below(n, w, h2, e2, s)
<1>1. /\ DOMAIN v = 1..Len(v) /\ DOMAIN w = 1..(Len(v) + 1) /\ Len(v) \in Nat
      /\ w[Len(v) + 1] = m /\ \A i \in DOMAIN v : w[i] = v[i]
  BY DEF Plus
<1>2. ASSUME NEW b \in DOMAIN w
      PROVE  (\A x \in Sits(w[b]) : x.n < n) /\ (w[b].kind = "resolve" => w[b].token < n)
  <2>1. CASE b \in DOMAIN v
    BY <2>1, <1>1, <1>2 DEF Below
  <2>2. CASE b = Len(v) + 1
    BY <2>2, <1>1, <1>2
  <2> QED BY <1>1, <2>1, <2>2
<1> QED BY <1>2 DEF Below

-----------------------------------------------------------------------------
(* What the pane sends, and what it holds or has eaten from then on.       *)

Good(s, v, h, e) == FlowOK(v, h, e) /\ SentOK(s, v, h, e)

\* What is eaten besides e: leaders of h, or what was not yet handled.
EatenMore(e2, s, v, h, e) ==
    /\ e2 \subseteq Eaten
    /\ \A x \in e2 : x.kind = "press" =>
         \/ x \in e
         \/ \E l \in h : x.n = l.n
         \/ Below(x.n, v, h, e, s)

\* What was eaten was typed before the leaders of h.
EatenBefore(e, h) == \A x \in e, l \in h : x.kind = "press" => x.n < l.n

\* The token of a sequence is the number of its first leader (beginSequence).
LEMMA TokenFacts ==
    ASSUME NEW h, h \subseteq Presses
    PROVE  /\ h = {} => TokenOf(h) = 0
           /\ h # {} => /\ \E l \in h : TokenOf(h) = l.n
                        /\ \A l \in h : TokenOf(h) <= l.n
                        /\ TokenOf(h) \in Tokens
<1> DEFINE N == {p.n : p \in h}
<1>1. N \in SUBSET Nat /\ \A l \in h : l.n \in Tokens
  BY DEF Presses, Inputs, Tokens
<1>2. ASSUME h # {}
      PROVE  /\ TokenOf(h) \in N
             /\ \A n \in N : TokenOf(h) <= n
  <2>1. \E m \in N : \A n \in N : m <= n
    <3>1. N # {}
      BY <1>2
    <3> HIDE DEF N
    <3> QED BY <1>1, <3>1, LeastElement
  <2>2. TokenOf(h) = Min(N)
    BY <1>2 DEF TokenOf
  <2> HIDE DEF N
  <2> QED BY <2>1, <2>2 DEF Min
<1> QED BY <1>1, <1>2 DEF TokenOf, Tokens

\* A sequence that gets a later leader keeps its token.
LEMMA TokenOfMore ==
    ASSUME NEW h, h \subseteq Presses, NEW x \in Presses, \A l \in h : l.n < x.n
    PROVE  /\ TokenOf(h \cup {x}) \in Tokens
           /\ h = {} => TokenOf(h \cup {x}) = x.n
           /\ h # {} => TokenOf(h \cup {x}) = TokenOf(h)
<1> DEFINE g == h \cup {x}
<1>1. g \subseteq Presses /\ g # {}
  OBVIOUS
<1>2. \A l \in g : l.n \in Nat
  BY <1>1 DEF Presses, Inputs
<1> HIDE DEF g
<1>3. /\ \E l \in g : TokenOf(g) = l.n
      /\ \A l \in g : TokenOf(g) <= l.n
      /\ TokenOf(g) \in Tokens
  BY <1>1, TokenFacts
<1>4. h # {} => /\ \E l \in h : TokenOf(h) = l.n
                /\ \A l \in h : TokenOf(h) <= l.n
  BY TokenFacts
<1>5. h = {} => TokenOf(g) = x.n
  BY <1>3 DEF g
<1>6. ASSUME h # {} PROVE TokenOf(g) = TokenOf(h)
  <2>1. PICK a \in h : TokenOf(h) = a.n
    BY <1>4, <1>6
  <2>2. PICK b \in g : TokenOf(g) = b.n
    BY <1>3
  <2>3. a \in g /\ a.n \in Nat /\ b.n \in Nat
    BY <1>2 DEF g
  <2>4. b.n <= a.n /\ a.n < x.n
    BY <1>3, <2>2, <2>3
  <2>5. b # x
    BY <2>3, <2>4
  <2>6. b \in h
    BY <2>5 DEF g
  <2>7. a.n <= b.n
    BY <1>4, <1>6, <2>1, <2>6
  <2> QED BY <2>1, <2>2, <2>3, <2>4, <2>7
<1> QED BY <1>3, <1>5, <1>6 DEF g

\* The press of an input has its number.
LEMMA EatenType ==
    ASSUME NEW i \in Inputs
    PROVE  Press(i).kind = "press" /\ Press(i).n = i.n /\ i.n \in Nat
BY DEF Press, Inputs

\* The types of a flow and of what belongs to it.
LEMMA FlowType ==
    ASSUME NEW s, NEW v, NEW h, NEW e, Good(s, v, h, e)
    PROVE  /\ v \in Seq(Messages) /\ DOMAIN v = 1..Len(v) /\ Len(v) \in Nat
           /\ s \in Seq(Sent) /\ h \subseteq Presses /\ e \subseteq Eaten
           /\ \A b \in DOMAIN v : v[b] \in Messages
           /\ \A j \in DOMAIN s : s[j] \in Sent /\ s[j].n \in Nat
           /\ \A l \in h : l \in Presses /\ l \in Inputs /\ l.n \in Nat /\ l.n \in Tokens
<1>1. /\ v \in Seq(Messages) /\ s \in Seq(Sent) /\ h \subseteq Presses /\ e \subseteq Eaten
  BY DEF Good, FlowOK, SentOK
<1>2. /\ DOMAIN v = 1..Len(v) /\ Len(v) \in Nat
      /\ \A b \in DOMAIN v : v[b] \in Messages
  BY <1>1
<1>3. \A j \in DOMAIN s : s[j] \in Sent
  BY <1>1
<1>4. \A x \in Sent : x.n \in Nat
  BY DEF Sent, Tokens
<1>5. \A l \in Presses : l \in Inputs /\ l.n \in Nat /\ l.n \in Tokens
  BY DEF Presses, Inputs, Tokens
<1> QED BY <1>1, <1>2, <1>3, <1>4, <1>5

\* The pane sends an input that is no leader (sendKey, sendText).
LEMMA FeedKey ==
    ASSUME NEW s, NEW v, NEW h, NEW e, Good(s, v, h, e), NEW y \in Inputs,
           IsTyped(y) => Below(y.n, v, h, e, s) /\ \A l \in h : Overtakes(y, l),
           NEW w, Plus(w, v, Key(y))
    PROVE  Good(s, w, h, e)
<1> DEFINE m == Key(y)
<1>1. /\ v \in Seq(Messages) /\ h \subseteq Presses /\ e \subseteq Eaten
      /\ \A b \in DOMAIN v : v[b] \in Messages
      /\ \A l \in h : l.n \in Nat
      /\ \A j \in DOMAIN s : s[j].n \in Nat
  BY FlowType
<1>2. /\ m \in Messages /\ m.kind = "key" /\ m.item = y /\ ~IsStage(m)
      /\ IsTyped(y) => Sits(m) = {y} /\ Direct(m) = {y}
      /\ ~IsTyped(y) => Sits(m) = {} /\ Direct(m) = {}
  BY SitsOfKey
<1>3. y.n \in Nat /\ Press(y).kind = "press" /\ Press(y).n = y.n
  BY EatenType
<1> HIDE DEF m
<1>4. SortedWith(v, m)
  BY <1>2 DEF SortedWith, Below
<1>5. NotOvertakenBy(v, m)
  BY <1>2 DEF NotOvertakenBy, Good, FlowOK, Staged
<1>6. StagedWith(v, m, h)
  BY <1>2 DEF StagedWith, Good, FlowOK, Staged
<1>7. DistinctWith(v, m, h)
  <2>1. \A l \in h : \A x \in Direct(m) : x.n # l.n
    BY <1>1, <1>2, <1>3 DEF Below
  <2> QED BY <1>2, <2>1 DEF DistinctWith, Good, FlowOK, IsResolve
<1>8. UneatenWith(v, m, e)
  <2>1. \A x \in Direct(m) : Press(x) \notin e
    BY <1>2, <1>3 DEF Below
  <2> QED BY <1>2, <2>1 DEF UneatenWith, Good, FlowOK, IsResolve
<1>9. FlowOK(w, h, e)
  <2>1. FlowOK(v, h, e) /\ Plus(w, v, m)
    BY DEF Good, m
  <2> QED BY <1>1, <1>2, <1>4, <1>5, <1>6, <1>7, <1>8, <2>1, AppendToFlow
<1>10. SentOK(s, w, h, e)
  <2>1. SentOK(s, v, h, e) /\ Plus(w, v, m)
    BY DEF Good, m
  <2>2. \A j \in DOMAIN s : \A x \in Sits(m) : Before(s[j], x)
    BY <1>2 DEF Below, Before
  <2>3. \A j \in DOMAIN s : Press(s[j]) \notin e /\ \A l \in h : s[j].n # l.n
    BY <2>1 DEF SentOK
  <2> QED BY <1>1, <2>1, <2>2, <2>3, AppendToSent
<1> QED BY <1>9, <1>10 DEF Good

\* The pane sends a message that is no input.
LEMMA FeedIdle ==
    ASSUME NEW s, NEW v, NEW h, NEW e, Good(s, v, h, e),
           NEW m \in Messages, m.kind \in {"action", "shutdown"}, NEW w, Plus(w, v, m)
    PROVE  Good(s, w, h, e)
<1>1. /\ v \in Seq(Messages) /\ h \subseteq Presses /\ e \subseteq Eaten
  BY FlowType
<1>2. Sits(m) = {} /\ Direct(m) = {} /\ ~IsStage(m) /\ m.kind # "resolve" /\ m.kind # "key"
  BY SitsOfAction
<1>3. /\ SortedWith(v, m) /\ NotOvertakenBy(v, m) /\ StagedWith(v, m, h)
      /\ DistinctWith(v, m, h) /\ UneatenWith(v, m, e)
  BY <1>2 DEF SortedWith, NotOvertakenBy, StagedWith, DistinctWith, UneatenWith, IsResolve,
              Good, FlowOK, Staged
<1>4. FlowOK(w, h, e)
  <2>1. FlowOK(v, h, e)
    BY DEF Good
  <2> QED BY <1>1, <1>3, <2>1, AppendToFlow
<1>5. SentOK(s, w, h, e)
  <2>1. SentOK(s, v, h, e)
    BY DEF Good
  <2>2. \A j \in DOMAIN s : \A x \in Sits(m) : Before(s[j], x)
    BY <1>2
  <2>3. \A j \in DOMAIN s : Press(s[j]) \notin e /\ \A l \in h : s[j].n # l.n
    BY <2>1 DEF SentOK
  <2> QED BY <1>1, <2>1, <2>2, <2>3, AppendToSent
<1> QED BY <1>4, <1>5 DEF Good

\* The pane sends a leader, which it keeps in its sequence.
LEMMA FeedStage ==
    ASSUME NEW s, NEW v, NEW h, NEW e, Good(s, v, h, e), NEW x \in Presses,
           Below(x.n, v, h, e, s), NEW w, Plus(w, v, Stage(TokenOf(h \cup {x}), x))
    PROVE  Good(s, w, h \cup {x}, e)
<1> DEFINE g == h \cup {x}
           t == TokenOf(g)
           m == Stage(t, x)
<1>1. /\ v \in Seq(Messages) /\ h \subseteq Presses /\ e \subseteq Eaten
      /\ \A b \in DOMAIN v : v[b] \in Messages
      /\ \A l \in h : l.n \in Nat
      /\ \A j \in DOMAIN s : s[j].n \in Nat
  BY FlowType
<1>2. /\ x.n \in Nat /\ x \in Inputs /\ g \subseteq Presses /\ \A l \in h : l.n < x.n
      /\ Press(x).kind = "press" /\ Press(x).n = x.n
      /\ \A l \in g : l \in h \/ l = x
  BY <1>1, EatenType DEF Presses, Inputs, Below
<1>3. t \in Tokens /\ (h # {} => t = TokenOf(h))
  BY <1>1, <1>2, TokenOfMore
<1> HIDE DEF t
<1>4. /\ m \in Messages /\ Sits(m) = {x} /\ Direct(m) = {}
      /\ m.kind = "stage" /\ m.token = t /\ m.item = x
  BY <1>3, SitsOfStage
<1>5. x \in g /\ h \subseteq g
  OBVIOUS
<1> HIDE DEF m, g
<1>6. \A b \in DOMAIN v : \A y \in Sits(v[b]) : y.n \in Nat /\ y.n < x.n
  BY <1>1, SitsType DEF Below, Tokens
<1>7. SortedWith(v, m)
  BY <1>4, <1>6 DEF SortedWith
<1>8. NotOvertakenBy(v, m)
  BY <1>4 DEF NotOvertakenBy
<1>9. StagedWith(v, m, g)
  <2>1. ASSUME NEW a \in DOMAIN v, IsStage(v[a]), ~Ends(v, v[a].token, a)
        PROVE  v[a].token = TokenOf(g) /\ v[a].item \in g
    <3>1. v[a].token = TokenOf(h) /\ v[a].item \in h
      BY <2>1 DEF Good, FlowOK, Staged
    <3> QED BY <3>1, <1>3, <1>5 DEF t
  <2>2. m.token = TokenOf(g) /\ m.item \in g
    BY <1>4, <1>5 DEF t
  <2> QED BY <2>1, <2>2 DEF StagedWith
<1>10. DistinctWith(v, m, g)
  <2>1. Distinct(v, h)
    BY DEF Good, FlowOK
  <2>2. ASSUME NEW a \in DOMAIN v
        PROVE  /\ IsStage(v[a]) => v[a].item.n # x.n
               /\ \A y \in Direct(v[a]) : y.n # x.n
               /\ v[a].kind = "resolve" => v[a].token < x.n
    <3>1. v[a] \in Messages
      BY <1>1
    <3>2. IsStage(v[a]) => v[a].item \in Sits(v[a])
      BY <3>1, SitsType
    <3>3. Direct(v[a]) \subseteq Sits(v[a])
      BY <3>1, SitsType
    <3>4. v[a].kind = "resolve" => v[a].token < x.n
      BY DEF Below
    <3> QED BY <3>2, <3>3, <3>4, <1>2, <1>6
  <2>3. Distinct(v, g)
    BY <2>1, <2>2, <1>2 DEF Distinct
  <2> QED BY <2>3, <1>4 DEF DistinctWith, IsResolve
<1>11. UneatenWith(v, m, e)
  BY <1>4 DEF UneatenWith, IsResolve, Good, FlowOK
<1>12. Plus(w, v, m)
  BY DEF m, t, g
<1>13. FlowOK(w, g, e)
  <2>1. FlowOK(v, h, e)
    BY DEF Good
  <2> QED BY <1>1, <1>2, <1>4, <1>7, <1>8, <1>9, <1>10, <1>11, <1>12, <2>1, AppendToFlow
<1>14. SentOK(s, w, g, e)
  <2>1. SentOK(s, v, h, e)
    BY DEF Good
  <2>2. \A j \in DOMAIN s : \A y \in Sits(m) : Before(s[j], y)
    BY <1>4 DEF Below, Before
  <2>3. \A j \in DOMAIN s : Press(s[j]) \notin e /\ \A l \in g : s[j].n # l.n
    BY <2>1, <1>1, <1>2 DEF SentOK, Below
  <2> QED BY <1>1, <1>12, <2>1, <2>2, <2>3, AppendToSent
<1>15. Good(s, w, g, e)
  BY <1>13, <1>14 DEF Good
<1> QED BY <1>15 DEF g

\* Leaders in the flow that are not resolved yet are leaders of h.
LEMMA UnresolvedAreHeld ==
    ASSUME NEW v, NEW h, NEW e, FlowOK(v, h, e), h # {},
           NEW a \in DOMAIN v, IsStage(v[a]), v[a].token = TokenOf(h)
    PROVE  v[a].item \in h
<1>1. h \subseteq Presses
  BY DEF FlowOK
<1>2. PICK l \in h : TokenOf(h) = l.n
  BY <1>1, TokenFacts
<1>3. l.n \in Nat
  BY <1>1 DEF Presses, Inputs
<1>4. ~Ends(v, v[a].token, a)
  BY <1>2, <1>3 DEF FlowOK, Distinct, Ends, IsResolve
<1> QED BY <1>4 DEF FlowOK, Staged

\* The pane ends its sequence and has the leaders written, and perhaps c.
LEMMA FeedFlush ==
    ASSUME NEW s, NEW v, NEW h, NEW e, Good(s, v, h, e), h # {}, EatenBefore(e, h),
           NEW c, c = <<>> \/ \E p \in Presses : c = <<p>> /\ Below(p.n, v, h, e, s),
           NEW w, Plus(w, v, Resolve(TokenOf(h), TRUE, c))
    PROVE  Good(s, w, {}, e)
<1> DEFINE t == TokenOf(h)
           m == Resolve(t, TRUE, c)
<1>1. /\ v \in Seq(Messages) /\ h \subseteq Presses /\ e \subseteq Eaten
      /\ \A b \in DOMAIN v : v[b] \in Messages
  BY FlowType
<1>2. t \in Tokens
  BY <1>1, TokenFacts
<1> HIDE DEF t
<1>3. /\ m \in Messages /\ m.kind = "resolve" /\ m.token = t /\ m.flush = TRUE
      /\ \A y \in Sits(m) : y \in Presses /\ Below(y.n, v, h, e, s)
      /\ Direct(m) = Sits(m)
  <2>1. m.kind = "resolve" /\ m.token = t /\ m.flush = TRUE
    BY DEF Resolve
  <2>2. CASE c = <<>>
    <3>1. Resolve(t, TRUE, <<>>) \in Messages /\ Sits(Resolve(t, TRUE, <<>>)) = {}
          /\ Direct(Resolve(t, TRUE, <<>>)) = {}
      BY <1>2, SitsOfResolve
    <3> QED BY <2>1, <2>2, <3>1
  <2>3. CASE \E p \in Presses : c = <<p>> /\ Below(p.n, v, h, e, s)
    <3>1. PICK p \in Presses : c = <<p>> /\ Below(p.n, v, h, e, s)
      BY <2>3
    <3>2. Resolve(t, TRUE, <<p>>) \in Messages /\ Sits(Resolve(t, TRUE, <<p>>)) = {p}
          /\ Direct(Resolve(t, TRUE, <<p>>)) = {p}
      BY <1>2, SitsOfResolve
    <3> QED BY <2>1, <3>1, <3>2
  <2> QED BY <2>2, <2>3
<1> HIDE DEF m
<1>4. SortedWith(v, m)
  BY <1>3 DEF SortedWith, Below
<1>5. NotOvertakenBy(v, m)
  BY <1>3 DEF NotOvertakenBy
<1>6. StagedWith(v, m, {})
  BY <1>3 DEF StagedWith, Good, FlowOK, Staged, IsResolve, IsStage, t
<1>7. DistinctWith(v, m, {})
  BY DEF DistinctWith, Distinct
<1>8. UneatenWith(v, m, e)
  <2>1. \A y \in Direct(m) : Press(y) \notin e
    <3>1. \A y \in Presses : Press(y).kind = "press" /\ Press(y).n = y.n /\ y.n \in Nat
      BY EatenType DEF Presses
    <3> QED BY <1>3, <3>1 DEF Below
  <2>2. ASSUME NEW a \in DOMAIN v, IsStage(v[a]), IsResolve(m, v[a].token)
        PROVE  Press(v[a].item) \notin e
    <3>1. v[a].item \in h
      <4>1. v[a].token = TokenOf(h)
        BY <2>2, <1>3 DEF IsResolve, t
      <4>2. FlowOK(v, h, e)
        BY DEF Good
      <4> QED BY <2>2, <4>1, <4>2, UnresolvedAreHeld
    <3>2. v[a].item \in Inputs
      BY <3>1, <1>1 DEF Presses
    <3> QED BY <3>1, <3>2, EatenType DEF EatenBefore
  <2> QED BY <2>1, <2>2 DEF UneatenWith, Good, FlowOK
<1>9. Plus(w, v, m)
  BY DEF m, t
<1> DEFINE g == {}
<1>10. g \subseteq Presses /\ g = {}
  OBVIOUS
<1> HIDE DEF g
<1>11. FlowOK(w, g, e)
  <2>1. FlowOK(v, h, e) /\ StagedWith(v, m, g) /\ DistinctWith(v, m, g)
    BY <1>6, <1>7, <1>10 DEF Good
  <2> QED BY <1>1, <1>3, <1>4, <1>5, <1>8, <1>9, <1>10, <2>1, AppendToFlow
<1>12. SentOK(s, w, g, e)
  <2>1. SentOK(s, v, h, e)
    BY DEF Good
  <2>2. \A j \in DOMAIN s : \A y \in Sits(m) : Before(s[j], y)
    BY <1>3 DEF Below, Before
  <2>3. \A j \in DOMAIN s : Press(s[j]) \notin e /\ \A l \in g : s[j].n # l.n
    BY <2>1, <1>10 DEF SentOK
  <2> QED BY <1>1, <1>9, <2>1, <2>2, <2>3, AppendToSent
<1>13. Good(s, w, g, e)
  BY <1>11, <1>12 DEF Good
<1> QED BY <1>13 DEF g

\* What is eaten in addition is neither written nor on its way.
LEMMA EatenMoreFacts ==
    ASSUME NEW s, NEW v, NEW h, NEW e, Good(s, v, h, e), NEW e2, EatenMore(e2, s, v, h, e)
    PROVE  /\ UneatenWith(v, [kind |-> "none"], e2)
           /\ \A j \in DOMAIN s : Press(s[j]) \notin e2
<1>1. /\ v \in Seq(Messages) /\ DOMAIN v = 1..Len(v)
      /\ \A b \in DOMAIN v : v[b] \in Messages
      /\ \A j \in DOMAIN s : s[j].n \in Nat
      /\ \A l \in h : l.n \in Nat
  BY FlowType
<1>2. \A b \in DOMAIN v : \A y \in Sits(v[b]) : y \in Inputs /\ y.n \in Nat
  BY <1>1, SitsType DEF Inputs
<1>3. \A i : Press(i).kind = "press" /\ Press(i).n = i.n
  BY DEF Press
<1>4. ASSUME NEW i, i.n \in Nat, Press(i) \in e2, Press(i) \notin e,
             \A l \in h : i.n # l.n
      PROVE  \/ \A b \in DOMAIN v : \A y \in Sits(v[b]) : y.n # i.n
             \/ FALSE
  <2>1. Below(i.n, v, h, e, s)
    BY <1>3, <1>4 DEF EatenMore
  <2> QED BY <2>1, <1>2, <1>4 DEF Below
<1>5. ASSUME NEW b \in DOMAIN v, NEW y \in Direct(v[b]) PROVE Press(y) \notin e2
  <2>1. y \in Sits(v[b]) /\ y.n \in Nat
    BY <1>1, <1>2, <1>5, SitsType
  <2>2. Press(y) \notin e /\ \A l \in h : y.n # l.n
    BY <1>5 DEF Good, FlowOK, Uneaten, Distinct
  <2> QED BY <2>1, <2>2, <1>4
<1>6. ASSUME NEW a \in DOMAIN v, NEW c \in DOMAIN v, a < c, IsStage(v[a]),
             IsResolve(v[c], v[a].token), v[c].flush
      PROVE  Press(v[a].item) \notin e2
  <2>1. v[a].item \in Sits(v[a]) /\ v[a].item.n \in Nat
    BY <1>1, <1>2, <1>6, SitsType
  <2>2. Press(v[a].item) \notin e /\ \A l \in h : v[a].item.n # l.n
    BY <1>6 DEF Good, FlowOK, Uneaten, Distinct, Ends
  <2> QED BY <2>1, <2>2, <1>4
<1>7. ASSUME NEW j \in DOMAIN s PROVE Press(s[j]) \notin e2
  <2>1. Press(s[j]) \notin e /\ (\A l \in h : s[j].n # l.n) /\ s[j].n \in Nat
    BY <1>1, <1>7 DEF Good, SentOK
  <2>2. ~Below(s[j].n, v, h, e, s)
    BY <1>7, <2>1 DEF Below
  <2> QED BY <2>1, <2>2, <1>3 DEF EatenMore
<1>8. Direct([kind |-> "none"]) = {} /\ ~\E t : IsResolve([kind |-> "none"], t)
  BY DEF Direct, Sits, Carried, IsResolve
<1> QED BY <1>5, <1>6, <1>7, <1>8 DEF UneatenWith, Uneaten

\* The pane ends its sequence and has the leaders dropped.
LEMMA FeedDrop ==
    ASSUME NEW s, NEW v, NEW h, NEW e, Good(s, v, h, e), h # {},
           NEW e2, EatenMore(e2, s, v, h, e),
           NEW w, Plus(w, v, Resolve(TokenOf(h), FALSE, <<>>))
    PROVE  Good(s, w, {}, e2)
<1> DEFINE t == TokenOf(h)
           f == FALSE
           m == Resolve(t, f, <<>>)
<1>1. /\ v \in Seq(Messages) /\ h \subseteq Presses
      /\ \A b \in DOMAIN v : v[b] \in Messages
  BY FlowType
<1>2. t \in Tokens /\ f \in BOOLEAN
  BY <1>1, TokenFacts
<1>0. m.kind = "resolve" /\ m.token = t /\ ~m.flush
  BY DEF Resolve
<1> HIDE DEF t, f
<1>3. m \in Messages /\ Direct(m) = {} /\ Sits(m) = {}
  BY <1>2, SitsOfResolve
<1> HIDE DEF m
<1>4. SortedWith(v, m) /\ NotOvertakenBy(v, m)
  BY <1>0, <1>3 DEF SortedWith, NotOvertakenBy
<1>6. StagedWith(v, m, {})
  BY <1>0 DEF StagedWith, Good, FlowOK, Staged, IsResolve, IsStage, t
<1>7. DistinctWith(v, m, {})
  BY DEF DistinctWith, Distinct
<1>8. UneatenWith(v, m, e2) /\ \A j \in DOMAIN s : Press(s[j]) \notin e2
  BY <1>0, <1>3, EatenMoreFacts DEF UneatenWith
<1>9. Plus(w, v, m)
  BY DEF m, t, f
<1> DEFINE g == {}
<1>10. g \subseteq Presses /\ g = {} /\ e2 \subseteq Eaten
  BY DEF EatenMore
<1> HIDE DEF g
<1>11. FlowOK(w, g, e2)
  <2>1. FlowOK(v, h, e) /\ StagedWith(v, m, g) /\ DistinctWith(v, m, g)
    BY <1>6, <1>7, <1>10 DEF Good
  <2> QED BY <1>1, <1>3, <1>4, <1>8, <1>9, <1>10, <2>1, AppendToFlow
<1>12. SentOK(s, w, g, e2)
  <2>1. SentOK(s, v, h, e)
    BY DEF Good
  <2>2. \A j \in DOMAIN s : \A y \in Sits(m) : Before(s[j], y)
    BY <1>3
  <2>3. \A j \in DOMAIN s : Press(s[j]) \notin e2 /\ \A l \in g : s[j].n # l.n
    BY <1>8, <1>10
  <2> QED BY <1>1, <1>9, <2>1, <2>2, <2>3, AppendToSent
<1>13. Good(s, w, g, e2)
  BY <1>11, <1>12 DEF Good
<1> QED BY <1>13 DEF g

\* Without leaders, an input that was not handled yet can be eaten at once.
LEMMA EatMore ==
    ASSUME NEW s, NEW v, NEW e, Good(s, v, {}, e), NEW e2, EatenMore(e2, s, v, {}, e)
    PROVE  Good(s, v, {}, e2)
<1> DEFINE g == {}
<1>1. Good(s, v, g, e) /\ EatenMore(e2, s, v, g, e) /\ g = {}
  OBVIOUS
<1> HIDE DEF g
<1>2. /\ UneatenWith(v, [kind |-> "none"], e2)
      /\ \A j \in DOMAIN s : Press(s[j]) \notin e2
  BY <1>1, EatenMoreFacts
<1>3. e2 \subseteq Eaten
  BY DEF EatenMore
<1> QED BY <1>2, <1>3 DEF Good, FlowOK, SentOK, UneatenWith

\* The eaten may be forgotten.
LEMMA EatLess ==
    ASSUME NEW s, NEW v, NEW h, NEW e, Good(s, v, h, e), NEW e2, e2 \subseteq e
    PROVE  Good(s, v, h, e2)
BY DEF Good, FlowOK, SentOK, Uneaten

\* Nothing is wrong with an empty flow.
LEMMA NothingInFlow ==
    ASSUME NEW h, h \subseteq Presses, NEW e, e \subseteq Eaten
    PROVE  Good(<<>>, <<>>, h, e)
BY DEF Good, FlowOK, SentOK, Sorted, NoneOvertaken, Staged, Distinct, Uneaten

-----------------------------------------------------------------------------
(* What the worker takes from the flow.                                    *)

\* The flow u is v without the d messages after position p.
IsCut(u, v, p, d) ==
    /\ u \in Seq(Messages) /\ Len(u) = Len(v) - d
    /\ \A k \in 1..Len(u) : u[k] = v[IF k <= p THEN k ELSE k + d]

\* None of these ends a sequence of which a leader is before them.
Droppable(v, p, d) ==
    \A c \in (p + 1)..(p + d) : v[c].kind = "resolve" =>
      \A a \in 1..p : IsStage(v[a]) => v[a].token # v[c].token

\* Each position of a cut flow was a position of the flow, in the same order.
LEMMA CutPositions ==
    ASSUME NEW v \in Seq(Messages), NEW p \in Nat, NEW d \in Nat, p + d <= Len(v),
           NEW u, IsCut(u, v, p, d)
    PROVE  LET To(k) == IF k <= p THEN k ELSE k + d IN
           /\ DOMAIN u = 1..Len(u) /\ Len(u) \in Nat
           /\ \A k \in DOMAIN u : To(k) \in DOMAIN v /\ u[k] = v[To(k)]
           /\ \A j, k \in DOMAIN u : j < k <=> To(j) < To(k)
           /\ \A c \in DOMAIN v : c \in (p + 1)..(p + d) \/ \E k \in DOMAIN u : To(k) = c
<1> DEFINE To(k) == IF k <= p THEN k ELSE k + d
<1>1. /\ DOMAIN u = 1..Len(u) /\ DOMAIN v = 1..Len(v) /\ Len(u) = Len(v) - d
      /\ Len(v) \in Nat
  BY DEF IsCut
<1>2. ASSUME NEW c \in DOMAIN v, c \notin (p + 1)..(p + d)
      PROVE  \E k \in DOMAIN u : To(k) = c
  <2>1. CASE c <= p
    BY <1>1, <2>1
  <2>2. CASE c > p + d
    <3>1. c - d \in DOMAIN u /\ To(c - d) = c
      BY <1>1, <2>2
    <3> QED BY <3>1
  <2> QED BY <1>1, <1>2, <2>1, <2>2
<1>3. \A k \in DOMAIN u : To(k) \in DOMAIN v /\ u[k] = v[To(k)]
  BY <1>1 DEF IsCut
<1>4. \A j, k \in DOMAIN u : j < k <=> To(j) < To(k)
  BY <1>1
<1>5. Len(u) \in Nat
  BY <1>1
<1> QED BY <1>1, <1>2, <1>3, <1>4, <1>5

\* A flow stays in order when a droppable part of it is cut.
LEMMA CutFlow ==
    ASSUME NEW v, NEW h, NEW e, FlowOK(v, h, e),
           NEW p \in Nat, NEW d \in Nat, p + d <= Len(v), Droppable(v, p, d),
           NEW u, IsCut(u, v, p, d)
    PROVE  FlowOK(u, h, e)
<1> DEFINE To(k) == IF k <= p THEN k ELSE k + d
<1>1. v \in Seq(Messages) /\ Sorted(v) /\ NoneOvertaken(v) /\ Staged(v, h)
      /\ Distinct(v, h) /\ Uneaten(v, e)
  BY DEF FlowOK
<1>2. /\ \A k \in DOMAIN u : To(k) \in DOMAIN v /\ u[k] = v[To(k)]
      /\ \A j, k \in DOMAIN u : j < k <=> To(j) < To(k)
      /\ \A c \in DOMAIN v : c \in (p + 1)..(p + d) \/ \E k \in DOMAIN u : To(k) = c
  BY <1>1, CutPositions
<1>3. ASSUME NEW a \in DOMAIN u, IsStage(u[a]), NEW c \in DOMAIN v, To(a) < c,
             IsResolve(v[c], u[a].token)
      PROVE  \E k \in DOMAIN u : To(k) = c /\ a < k
  <2>1. c \notin (p + 1)..(p + d)
    <3>1. SUFFICES ASSUME c \in (p + 1)..(p + d) PROVE FALSE
      OBVIOUS
    <3>2. To(a) \in 1..p
      <4>1. DOMAIN u = 1..Len(u) /\ Len(u) \in Nat
        BY <1>1, CutPositions
      <4> QED BY <1>3, <3>1, <4>1
    <3>3. v[To(a)] = u[a]
      BY <1>2
    <3> QED BY <1>3, <3>1, <3>2, <3>3 DEF Droppable, IsResolve
  <2>2. PICK k \in DOMAIN u : To(k) = c
    BY <1>2, <2>1
  <2> QED BY <1>2, <1>3, <2>2
<1> HIDE DEF To
<1>4. Sorted(u)
  BY <1>1, <1>2 DEF Sorted
<1>5. NoneOvertaken(u)
  <2> SUFFICES ASSUME NEW a \in DOMAIN u, NEW b \in DOMAIN u, a < b,
                      IsStage(u[a]), u[b].kind = "key", IsTyped(u[b].item),
                      ~Overtakes(u[b].item, u[a].item)
               PROVE  Resolved(u, u[a].token, a, b)
    BY DEF NoneOvertaken
  <2>1. Resolved(v, u[a].token, To(a), To(b))
    BY <1>1, <1>2 DEF NoneOvertaken
  <2>2. PICK c \in DOMAIN v : To(a) < c /\ c < To(b) /\ IsResolve(v[c], u[a].token)
    BY <2>1 DEF Resolved
  <2>3. PICK k \in DOMAIN u : To(k) = c /\ a < k
    BY <1>3, <2>2
  <2> QED BY <1>2, <2>2, <2>3 DEF Resolved
<1>6. ASSUME NEW a \in DOMAIN u, IsStage(u[a])
      PROVE  Ends(u, u[a].token, a) <=> Ends(v, u[a].token, To(a))
  <2>1. ASSUME Ends(u, u[a].token, a) PROVE Ends(v, u[a].token, To(a))
    <3>1. PICK c \in DOMAIN u : a < c /\ IsResolve(u[c], u[a].token)
      BY <2>1 DEF Ends
    <3> QED BY <3>1, <1>2 DEF Ends
  <2>2. ASSUME Ends(v, u[a].token, To(a)) PROVE Ends(u, u[a].token, a)
    <3>1. PICK c \in DOMAIN v : To(a) < c /\ IsResolve(v[c], u[a].token)
      BY <2>2 DEF Ends
    <3>2. PICK k \in DOMAIN u : To(k) = c /\ a < k
      BY <1>3, <1>6, <3>1
    <3> QED BY <1>2, <3>1, <3>2 DEF Ends
  <2> QED BY <2>1, <2>2
<1>7. Staged(u, h)
  BY <1>1, <1>2, <1>6 DEF Staged
<1>8. Distinct(u, h)
  BY <1>1, <1>2, <1>6 DEF Distinct
<1>9. Uneaten(u, e)
  BY <1>1, <1>2 DEF Uneaten
<1> QED BY <1>4, <1>5, <1>7, <1>8, <1>9 DEF FlowOK, IsCut

\* Messages u that were in v.
From(u, v) == \A b \in DOMAIN u : \E c \in DOMAIN v : u[b] = v[c]

\* A cut flow has only messages of the flow.
LEMMA CutIsFrom ==
    ASSUME NEW v \in Seq(Messages), NEW p \in Nat, NEW d \in Nat, p + d <= Len(v),
           NEW u, IsCut(u, v, p, d)
    PROVE  From(u, v)
BY CutPositions DEF From

\* What holds of all messages of a flow holds of messages taken from it.
LEMMA BelowFrom ==
    ASSUME NEW v, NEW h, NEW e, NEW s, NEW n, Below(n, v, h, e, s),
           NEW u, From(u, v), NEW z, \A j \in DOMAIN z : z[j].n < n
    PROVE  Below(n, u, h, e, z)
BY DEF Below, From

\* The worker has moved on from v, with s sent, to u, with z sent.
Later(z, u, s, v, h, e) ==
    /\ Good(z, u, h, e)
    /\ \A n : Below(n, v, h, e, s) => Below(n, u, h, e, z)

\* The flow has shrunk, and nothing was sent.
LEMMA SentFrom ==
    ASSUME NEW s, NEW v, NEW h, NEW e, Good(s, v, h, e),
           NEW u, FlowOK(u, h, e), From(u, v)
    PROVE  Later(s, u, s, v, h, e) /\ Later(<<>>, u, s, v, h, e)
<1>1. SentOK(s, u, h, e)
  BY DEF Good, SentOK, From
<1>2. SentOK(<<>>, u, h, e)
  BY DEF SentOK
<1>3. \A n : Below(n, v, h, e, s) => Below(n, u, h, e, s)
  BY DEF Below, From
<1>4. \A n : Below(n, v, h, e, s) => Below(n, u, h, e, <<>>)
  BY DEF Below, From
<1> QED BY <1>1, <1>2, <1>3, <1>4 DEF Good, Later

\* What is written (x) was in the flow, is in order, and goes before the rest.
Writes(x, u, v, h, e) ==
    /\ x \in Seq(Sent)
    /\ \A k \in DOMAIN x : \E b \in DOMAIN v : \E y \in Sits(v[b]) : x[k] = Written(y)
    /\ \A j, k \in DOMAIN x : j < k => x[j].n < x[k].n
    /\ \A k \in DOMAIN x, b \in DOMAIN u : \A y \in Sits(u[b]) : Before(x[k], y)
    /\ \A k \in DOMAIN x : Press(x[k]) \notin e /\ \A l \in h : x[k].n # l.n

\* The flow has shrunk, and what was written is sent.
LEMMA SentGrows ==
    ASSUME NEW s, NEW v, NEW h, NEW e, Good(s, v, h, e),
           NEW u, FlowOK(u, h, e), From(u, v), NEW x, Writes(x, u, v, h, e)
    PROVE  Later(s \o x, u, s, v, h, e)
<1> DEFINE z == s \o x
<1>1. s \in Seq(Sent) /\ x \in Seq(Sent)
  BY DEF Good, SentOK, Writes
<1>2. /\ z \in Seq(Sent) /\ DOMAIN z = 1..Len(z) /\ Len(s) \in Nat /\ Len(z) \in Nat
      /\ DOMAIN s = 1..Len(s) /\ DOMAIN x = 1..Len(x)
      /\ \A i \in 1..Len(s) : z[i] = s[i]
      /\ \A i \in (Len(s) + 1)..Len(z) : i - Len(s) \in 1..Len(x) /\ z[i] = x[i - Len(s)]
  BY <1>1, Extension
<1> HIDE DEF z
<1>3. ASSUME NEW i \in DOMAIN z
      PROVE  \/ i \in DOMAIN s /\ z[i] = s[i]
             \/ i - Len(s) \in DOMAIN x /\ z[i] = x[i - Len(s)] /\ i > Len(s)
  BY <1>2
<1>4. ASSUME NEW j \in DOMAIN s, NEW k \in DOMAIN x PROVE Before(s[j], x[k])
  <2>0. PICK b \in DOMAIN v : \E y \in Sits(v[b]) : x[k] = Written(y)
    BY DEF Writes
  <2>1. PICK y \in Sits(v[b]) : x[k] = Written(y)
    BY <2>0
  <2>2. Before(s[j], y)
    BY <2>1 DEF Good, SentOK
  <2> QED BY <2>1, <2>2 DEF Before, Overtakes, Written
<1>5. ASSUME NEW j \in DOMAIN z, NEW k \in DOMAIN z, j < k PROVE Before(z[j], z[k])
  <2>1. CASE k \in DOMAIN s
    <3>1. j \in DOMAIN s
      BY <1>2, <1>5, <2>1
    <3> QED BY <1>2, <1>5, <2>1, <3>1 DEF Good, SentOK
  <2>2. CASE j \in DOMAIN s /\ k \notin DOMAIN s
    BY <2>2, <1>2, <1>3, <1>4
  <2>3. CASE j \notin DOMAIN s /\ k \notin DOMAIN s
    <3>1. /\ j - Len(s) \in DOMAIN x /\ z[j] = x[j - Len(s)]
          /\ k - Len(s) \in DOMAIN x /\ z[k] = x[k - Len(s)]
      BY <2>3, <1>3
    <3>2. j - Len(s) < k - Len(s)
      BY <1>2, <1>5
    <3> QED BY <3>1, <3>2 DEF Writes, Before
  <2> QED BY <2>1, <2>2, <2>3
<1>6. ASSUME NEW j \in DOMAIN z, NEW b \in DOMAIN u, NEW y \in Sits(u[b])
      PROVE  Before(z[j], y)
  BY <1>3, <1>6 DEF Good, SentOK, Writes, From
<1>7. ASSUME NEW j \in DOMAIN z PROVE Press(z[j]) \notin e /\ \A l \in h : z[j].n # l.n
  BY <1>3, <1>7 DEF Good, SentOK, Writes
<1>8. Good(z, u, h, e)
  BY <1>2, <1>5, <1>6, <1>7 DEF Good, SentOK
<1>9. ASSUME NEW n, Below(n, v, h, e, s) PROVE Below(n, u, h, e, z)
  <2>1. ASSUME NEW j \in DOMAIN z PROVE z[j].n < n
    <3>1. CASE j \in DOMAIN s
      BY <3>1, <1>2, <1>9 DEF Below
    <3>2. CASE j \notin DOMAIN s
      <4>1. j - Len(s) \in DOMAIN x /\ z[j] = x[j - Len(s)]
        BY <1>3, <3>2, <2>1
      <4>2. PICK b \in DOMAIN v : \E y \in Sits(v[b]) : x[j - Len(s)] = Written(y)
        BY <4>1 DEF Writes
      <4> QED BY <4>1, <4>2, <1>9 DEF Below, Written
    <3> QED BY <3>1, <3>2
  <2> QED BY <2>1, <1>9, BelowFrom
<1> QED BY <1>8, <1>9 DEF Later, z

-----------------------------------------------------------------------------
(* The worker's steps on the flow.                                         *)

\* The flow of a worker that holds back the leaders st of the sequence t and
\* has the queue q.
Ahead(t, st) == [k \in DOMAIN st |-> Stage(t, st[k])]
FlowOf(t, st, q) == Ahead(t, st) \o q

Holds(t, st, q) ==
    /\ t \in 0..MaxTyped /\ st \in Seq(Presses) /\ q \in Seq(Messages)
    /\ t = 0 => st = <<>>

\* The positions of a worker's flow: first the leaders, then the queue.
LEMMA FlowOfFacts ==
    ASSUME NEW t, NEW st, NEW q, Holds(t, st, q), NEW v, v = FlowOf(t, st, q)
    PROVE  /\ v \in Seq(Messages) /\ Len(v) = Len(st) + Len(q)
           /\ Len(st) \in Nat /\ Len(q) \in Nat
           /\ \A k \in 1..Len(st) : v[k] = Stage(t, st[k]) /\ st[k] \in Presses /\ t \in Tokens
           /\ \A k \in 1..Len(q) : v[Len(st) + k] = q[k]
<1> DEFINE a == Ahead(t, st)
<1>1. st \in Seq(Presses) /\ DOMAIN st = 1..Len(st) /\ q \in Seq(Messages)
      /\ Len(st) \in Nat /\ Len(q) \in Nat
  BY DEF Holds
<1>2. ASSUME NEW k \in DOMAIN st PROVE st[k] \in Presses /\ t \in Tokens
  BY <1>1, <1>2 DEF Holds, Tokens
<1>3. \A k \in DOMAIN st : Stage(t, st[k]) \in Messages
  BY <1>2, SitsOfStage
<1>4. a \in Seq(Messages) /\ Len(a) = Len(st) /\ \A k \in DOMAIN st : a[k] = Stage(t, st[k])
  BY <1>1, <1>3 DEF Ahead
<1>5. v = a \o q
  BY DEF FlowOf
<1> HIDE DEF a
<1>6. /\ v \in Seq(Messages)
      /\ Len(v) = Len(a) + Len(q)
      /\ \A i \in 1..Len(a) : v[i] = a[i]
      /\ \A i \in 1..Len(q) : v[Len(a) + i] = q[i]
  <2> DEFINE M == Messages
  <2>1. a \in Seq(M) /\ q \in Seq(M)
    BY <1>1, <1>4
  <2> HIDE DEF M
  <2>2. /\ a \o q \in Seq(M)
        /\ Len(a \o q) = Len(a) + Len(q)
        /\ \A i \in 1..Len(a) : (a \o q)[i] = a[i]
        /\ \A i \in 1..Len(q) : (a \o q)[Len(a) + i] = q[i]
    BY <2>1, Concatenation
  <2> QED BY <2>2, <1>5 DEF M
<1> QED BY <1>1, <1>2, <1>4, <1>6

\* The head and the tail of a queue.
LEMMA QueueParts ==
    ASSUME NEW q \in Seq(Messages), q # <<>>
    PROVE  /\ Head(q) = q[1] /\ Head(q) \in Messages
           /\ Tail(q) \in Seq(Messages) /\ Len(Tail(q)) = Len(q) - 1 /\ Len(q) \in Nat
           /\ Len(q) >= 1
           /\ \A k \in 1..(Len(q) - 1) : Tail(q)[k] = q[k + 1]
           /\ q = <<Head(q)>> \o Tail(q)
OBVIOUS

\* The flow without the head of the queue is the flow with one message cut.
LEMMA SkipHead ==
    ASSUME NEW t, NEW st, NEW q, Holds(t, st, q), q # <<>>
    PROVE  /\ Holds(t, st, Tail(q))
           /\ IsCut(FlowOf(t, st, Tail(q)), FlowOf(t, st, q), Len(st), 1)
           /\ Len(st) \in Nat /\ Len(st) + 1 <= Len(FlowOf(t, st, q))
<1> DEFINE v == FlowOf(t, st, q)
           w == FlowOf(t, st, Tail(q))
<1>1. q \in Seq(Messages)
  BY DEF Holds
<1>2. /\ Tail(q) \in Seq(Messages) /\ Len(Tail(q)) = Len(q) - 1 /\ Len(q) \in Nat /\ Len(q) >= 1
      /\ \A k \in 1..(Len(q) - 1) : Tail(q)[k] = q[k + 1]
  BY <1>1, QueueParts
<1>3. Holds(t, st, Tail(q))
  BY <1>2 DEF Holds
<1>4. /\ v \in Seq(Messages) /\ Len(v) = Len(st) + Len(q) /\ Len(st) \in Nat
      /\ \A k \in 1..Len(st) : v[k] = Stage(t, st[k])
      /\ \A k \in 1..Len(q) : v[Len(st) + k] = q[k]
  BY FlowOfFacts
<1>5. /\ w \in Seq(Messages) /\ Len(w) = Len(st) + Len(Tail(q))
      /\ \A k \in 1..Len(st) : w[k] = Stage(t, st[k])
      /\ \A k \in 1..Len(Tail(q)) : w[Len(st) + k] = Tail(q)[k]
  <2> DEFINE r == Tail(q)
  <2>1. Holds(t, st, r) /\ w = FlowOf(t, st, r)
    BY <1>3
  <2> HIDE DEF w, r
  <2>2. /\ w \in Seq(Messages) /\ Len(w) = Len(st) + Len(r)
        /\ \A k \in 1..Len(st) : w[k] = Stage(t, st[k])
        /\ \A k \in 1..Len(r) : w[Len(st) + k] = r[k]
    BY <2>1, FlowOfFacts
  <2> QED BY <2>2 DEF r
<1> HIDE DEF v, w
<1>6. ASSUME NEW k \in 1..Len(w) PROVE w[k] = v[IF k <= Len(st) THEN k ELSE k + 1]
  <2>1. CASE k <= Len(st)
    BY <2>1, <1>4, <1>5
  <2>2. CASE k > Len(st)
    <3>1. k - Len(st) \in 1..(Len(q) - 1) /\ k = Len(st) + (k - Len(st))
          /\ k + 1 = Len(st) + ((k - Len(st)) + 1) /\ (k - Len(st)) + 1 \in 1..Len(q)
      BY <2>2, <1>2, <1>4, <1>5
    <3>2. w[k] = Tail(q)[k - Len(st)]
      BY <3>1, <1>2, <1>5
    <3>3. v[k + 1] = q[(k - Len(st)) + 1]
      BY <3>1, <1>4
    <3> QED BY <3>1, <3>2, <3>3, <1>2, <1>4, <2>2
  <2> QED BY <1>4, <1>5, <2>1, <2>2
<1>7. IsCut(w, v, Len(st), 1)
  BY <1>2, <1>4, <1>5, <1>6 DEF IsCut
<1> QED BY <1>2, <1>3, <1>4, <1>7 DEF v, w

\* The worker handles the head of its queue, and neither writes nor resolves.
LEMMA HeadHandled ==
    ASSUME NEW s, NEW h, NEW e, NEW t, NEW st, NEW q, Holds(t, st, q), q # <<>>,
           Good(s, FlowOf(t, st, q), h, e), ~IsResolve(Head(q), t)
    PROVE  /\ Later(s, FlowOf(t, st, Tail(q)), s, FlowOf(t, st, q), h, e)
           /\ Later(<<>>, FlowOf(t, st, Tail(q)), s, FlowOf(t, st, q), h, e)
           /\ FlowOK(FlowOf(t, st, Tail(q)), h, e)
           /\ From(FlowOf(t, st, Tail(q)), FlowOf(t, st, q))
<1> DEFINE v == FlowOf(t, st, q)
           w == FlowOf(t, st, Tail(q))
           p == Len(st)
           d == 1
<1>1. IsCut(w, v, p, d) /\ p \in Nat /\ d \in Nat /\ p + d <= Len(v) /\ v \in Seq(Messages)
  BY SkipHead, FlowOfFacts
<1>2. Droppable(v, p, d)
  <2> SUFFICES ASSUME NEW c \in (p + 1)..(p + d), v[c].kind = "resolve",
                      NEW a \in 1..p, IsStage(v[a])
               PROVE  v[a].token # v[c].token
    BY DEF Droppable
  <2>1. c = p + 1 /\ v[c] = q[1] /\ v[a] = Stage(t, st[a])
    <3>1. Len(q) \in Nat /\ Len(q) >= 1
      BY QueueParts DEF Holds
    <3>2. \A k \in 1..Len(q) : v[Len(st) + k] = q[k]
      BY FlowOfFacts
    <3>3. \A k \in 1..Len(st) : v[k] = Stage(t, st[k])
      BY FlowOfFacts
    <3> QED BY <3>1, <3>2, <3>3, <1>1
  <2>2. q[1] = Head(q)
    BY QueueParts DEF Holds
  <2>3. v[a].token = t
    BY <2>1 DEF Stage
  <2> QED BY <2>1, <2>2, <2>3 DEF IsResolve
<1>3. FlowOK(v, h, e)
  BY DEF Good
<1> HIDE DEF v, w, p, d
<1>4. FlowOK(w, h, e) /\ From(w, v)
  BY <1>1, <1>2, <1>3, CutFlow, CutIsFrom
<1>5. Good(s, v, h, e)
  BY DEF v
<1>6. Later(s, w, s, v, h, e) /\ Later(<<>>, w, s, v, h, e)
  BY <1>4, <1>5, SentFrom
<1> QED BY <1>4, <1>6 DEF v, w

\* Without leaders the flow is the queue.
LEMMA QueueAlone ==
    ASSUME NEW t, NEW q \in Seq(Messages)
    PROVE  FlowOf(t, <<>>, q) = q
BY DEF FlowOf, Ahead

\* The leaders held back are dropped, and the head of the queue with them.
LEMMA LeadersDropped ==
    ASSUME NEW s, NEW h, NEW e, NEW t, NEW st, NEW q, Holds(t, st, q),
           Good(s, FlowOf(t, st, q), h, e)
    PROVE  /\ Later(s, q, s, FlowOf(t, st, q), h, e)
           /\ Later(<<>>, q, s, FlowOf(t, st, q), h, e)
           /\ FlowOK(q, h, e) /\ From(q, FlowOf(t, st, q))
           /\ q # <<>> => /\ Later(s, Tail(q), s, FlowOf(t, st, q), h, e)
                          /\ Later(<<>>, Tail(q), s, FlowOf(t, st, q), h, e)
                          /\ FlowOK(Tail(q), h, e) /\ From(Tail(q), FlowOf(t, st, q))
                          /\ IsCut(Tail(q), FlowOf(t, st, q), 0, Len(st) + 1)
<1> DEFINE v == FlowOf(t, st, q)
           z == 0
<1>1. /\ v \in Seq(Messages) /\ Len(v) = Len(st) + Len(q) /\ Len(st) \in Nat /\ Len(q) \in Nat
      /\ \A k \in 1..Len(q) : v[Len(st) + k] = q[k]
  BY FlowOfFacts
<1>2. FlowOK(v, h, e) /\ Good(s, v, h, e)
  BY DEF Good
<1>3. q \in Seq(Messages)
  BY DEF Holds
<1> HIDE DEF v
<1>4. ASSUME NEW d \in Nat, d <= Len(v), NEW w, IsCut(w, v, z, d)
      PROVE  FlowOK(w, h, e) /\ From(w, v) /\ Later(s, w, s, v, h, e) /\ Later(<<>>, w, s, v, h, e)
  <2>1. z \in Nat /\ z + d <= Len(v) /\ Droppable(v, z, d)
    BY <1>4 DEF Droppable
  <2> HIDE DEF z
  <2>2. FlowOK(w, h, e) /\ From(w, v)
    BY <1>1, <1>2, <1>4, <2>1, CutFlow, CutIsFrom
  <2> QED BY <1>2, <2>2, SentFrom
<1>5. IsCut(q, v, z, Len(st))
  <2>1. \A k \in 1..Len(q) : ~(k <= 0) /\ v[k + Len(st)] = q[k]
    BY <1>1
  <2> QED BY <1>1, <1>3, <2>1 DEF IsCut
<1>6. ASSUME q # <<>> PROVE IsCut(Tail(q), v, z, Len(st) + 1) /\ Len(st) + 1 <= Len(v)
  <2>1. /\ Tail(q) \in Seq(Messages) /\ Len(Tail(q)) = Len(q) - 1 /\ Len(q) >= 1
        /\ \A k \in 1..(Len(q) - 1) : Tail(q)[k] = q[k + 1]
    BY <1>3, <1>6, QueueParts
  <2>2. ASSUME NEW k \in 1..Len(Tail(q)) PROVE ~(k <= 0) /\ Tail(q)[k] = v[k + (Len(st) + 1)]
    <3>1. k + 1 \in 1..Len(q) /\ k + (Len(st) + 1) = Len(st) + (k + 1) /\ k \in 1..(Len(q) - 1)
      BY <1>1, <2>1, <2>2
    <3> QED BY <3>1, <2>1, <1>1
  <2> QED BY <1>1, <2>1, <2>2 DEF IsCut
<1>7. FlowOK(q, h, e) /\ From(q, v) /\ Later(s, q, s, v, h, e) /\ Later(<<>>, q, s, v, h, e)
  BY <1>1, <1>4, <1>5
<1>8. q # <<>> => /\ FlowOK(Tail(q), h, e) /\ From(Tail(q), v)
                  /\ Later(s, Tail(q), s, v, h, e) /\ Later(<<>>, Tail(q), s, v, h, e)
  BY <1>1, <1>4, <1>6
<1> QED BY <1>6, <1>7, <1>8 DEF v

\* A message that stages is a leader with its token.
LEMMA StageMessage ==
    ASSUME NEW m \in Messages, IsStage(m)
    PROVE  m = Stage(m.token, m.item) /\ m.token \in Tokens /\ m.item \in Presses
BY DEF Messages, KeyMessages, StageMessages, ResolveMessages, ActionMessages, Shutdown,
       IsStage, Stage

\* A leader of the worker's sequence is held back: the flow is the same.
LEMMA StageJoins ==
    ASSUME NEW t, NEW st, NEW q, Holds(t, st, q), q # <<>>, IsStage(Head(q)),
           Head(q).token = t
    PROVE  /\ Holds(t, Append(st, Head(q).item), Tail(q))
           /\ FlowOf(t, Append(st, Head(q).item), Tail(q)) = FlowOf(t, st, q)
<1> DEFINE x == Head(q).item
           r == Tail(q)
           st2 == Append(st, x)
           v == FlowOf(t, st, q)
           w == FlowOf(t, st2, r)
<1>1. q \in Seq(Messages) /\ st \in Seq(Presses) /\ t \in 0..MaxTyped
  BY DEF Holds
<1>2. /\ Head(q) = q[1] /\ Head(q) \in Messages /\ r \in Seq(Messages)
      /\ Len(r) = Len(q) - 1 /\ Len(q) \in Nat /\ Len(q) >= 1
      /\ \A k \in 1..(Len(q) - 1) : r[k] = q[k + 1]
  BY <1>1, QueueParts
<1>3. q[1] = Stage(t, x) /\ t \in Tokens /\ x \in Presses
  BY <1>2, StageMessage
<1> HIDE DEF x, r
<1>4. /\ st2 \in Seq(Presses) /\ Len(st2) = Len(st) + 1 /\ st2[Len(st) + 1] = x
      /\ \A k \in 1..Len(st) : st2[k] = st[k]
  BY <1>1, <1>3
<1> HIDE DEF st2
<1>5. Holds(t, st2, r)
  <2>1. t # 0
    BY <1>3 DEF Tokens
  <2> QED BY <1>1, <1>2, <1>4, <2>1 DEF Holds
<1>6. /\ v \in Seq(Messages) /\ Len(v) = Len(st) + Len(q) /\ Len(st) \in Nat
      /\ \A k \in 1..Len(st) : v[k] = Stage(t, st[k])
      /\ \A k \in 1..Len(q) : v[Len(st) + k] = q[k]
  BY FlowOfFacts
<1>7. /\ w \in Seq(Messages) /\ Len(w) = Len(st2) + Len(r)
      /\ \A k \in 1..Len(st2) : w[k] = Stage(t, st2[k])
      /\ \A k \in 1..Len(r) : w[Len(st2) + k] = r[k]
  BY <1>5, FlowOfFacts
<1> HIDE DEF v, w
<1>8. Len(v) = Len(w)
  BY <1>2, <1>4, <1>6, <1>7
<1>9. ASSUME NEW k \in 1..Len(v) PROVE w[k] = v[k]
  <2>1. CASE k <= Len(st)
    <3>1. k \in 1..Len(st) /\ k \in 1..Len(st2)
      BY <2>1, <1>4, <1>6
    <3> QED BY <3>1, <1>4, <1>6, <1>7
  <2>2. CASE k = Len(st) + 1
    <3>1. w[k] = Stage(t, x)
      <4>1. k \in 1..Len(st2)
        BY <2>2, <1>4, <1>6
      <4> QED BY <4>1, <2>2, <1>4, <1>7
    <3>2. v[k] = q[1]
      BY <2>2, <1>2, <1>6
    <3> QED BY <3>1, <3>2, <1>3
  <2>3. CASE k > Len(st) + 1
    <3>1. Len(st) \in Nat /\ Len(q) \in Nat /\ k \in Nat /\ k <= Len(st) + Len(q)
      BY <1>2, <1>6
    <3>2. PICK i \in Nat : i = k - (Len(st) + 1)
      <4>1. k - (Len(st) + 1) \in Nat
        BY <3>1, <2>3
      <4> QED BY <4>1
    <3>3. i \in 1..(Len(q) - 1) /\ i + 1 \in 1..Len(q)
      BY <3>1, <3>2, <2>3
    <3>4. k = Len(st) + (i + 1) /\ k = (Len(st) + 1) + i
      BY <3>1, <3>2
    <3>5. w[k] = r[i]
      <4>1. i \in 1..Len(r) /\ k = Len(st2) + i
        BY <3>3, <3>4, <1>2, <1>4
      <4> QED BY <4>1, <1>7
    <3>6. v[k] = q[i + 1]
      BY <3>3, <3>4, <1>6
    <3> QED BY <3>3, <3>5, <3>6, <1>2
  <2> QED BY <1>6, <2>1, <2>2, <2>3
<1>10. w = v
  <2> DEFINE M == Messages
  <2>1. w \in Seq(M) /\ v \in Seq(M)
    BY <1>6, <1>7
  <2> HIDE DEF M
  <2> QED BY <2>1, <1>8, <1>9, Extensional
<1> QED BY <1>5, <1>10 DEF v, w, st2, x, r

\* A leader of another sequence is held back alone.
LEMMA StageTakesOver ==
    ASSUME NEW q \in Seq(Messages), q # <<>>, IsStage(Head(q))
    PROVE  /\ Holds(Head(q).token, <<Head(q).item>>, Tail(q))
           /\ Holds(Head(q).token, <<>>, Tail(q))
           /\ FlowOf(Head(q).token, <<Head(q).item>>, Tail(q)) = q
<1> DEFINE x == Head(q).item
           t == Head(q).token
<1>1. /\ Head(q) \in Messages /\ Tail(q) \in Seq(Messages)
      /\ q = <<Head(q)>> \o Tail(q)
  BY QueueParts
<1>2. Head(q) = Stage(t, x) /\ t \in Tokens /\ x \in Presses
  BY <1>1, StageMessage
<1> HIDE DEF x, t
<1>3. Holds(t, <<x>>, Tail(q)) /\ Holds(t, <<>>, Tail(q))
  BY <1>1, <1>2 DEF Holds, Tokens
<1>4. Ahead(t, <<x>>) = <<Head(q)>>
  BY <1>2 DEF Ahead
<1> QED BY <1>1, <1>3, <1>4 DEF FlowOf, x, t

\* What is written is known by the number of its input.
LEMMA WrittenType ==
    ASSUME NEW y \in Inputs, IsTyped(y)
    PROVE  /\ Written(y) \in Sent /\ Written(y).n = y.n
           /\ Press(Written(y)) = Press(y)
           /\ \A x : Before(Written(y), x) <=> Before(y, x)
BY DEF Inputs, IsTyped, Written, Sent, Tokens, Press, Before, Overtakes

\* The worker writes the press or the commit at the head of its queue.
LEMMA KeyWritten ==
    ASSUME NEW s, NEW h, NEW e, NEW t, NEW st, NEW q, Holds(t, st, q), q # <<>>,
           Good(s, FlowOf(t, st, q), h, e),
           Head(q).kind = "key", IsTyped(Head(q).item)
    PROVE  Later(s \o [k \in DOMAIN <<Head(q).item>> |-> Written(<<Head(q).item>>[k])],
                 FlowOf(t, st, Tail(q)), s, FlowOf(t, st, q), h, e)
<1> DEFINE i == Head(q).item
           x == [k \in DOMAIN <<i>> |-> Written(<<i>>[k])]
           v == FlowOf(t, st, q)
           u == FlowOf(t, st, Tail(q))
           n == Len(st) + 1
<1>1. q \in Seq(Messages)
  BY DEF Holds
<1>2. Head(q) = q[1] /\ Head(q) \in Messages /\ Len(q) \in Nat /\ Len(q) >= 1
  BY <1>1, QueueParts
<1>3. i \in Inputs /\ Sits(Head(q)) = {i} /\ Direct(Head(q)) = {i} /\ i.n \in Nat
  BY <1>2, SitsType DEF Sits, Direct, Carried, Inputs
<1>4. FlowOK(u, h, e) /\ From(u, v)
  BY HeadHandled DEF IsResolve
<1>5. /\ v \in Seq(Messages) /\ DOMAIN v = 1..Len(v) /\ n \in DOMAIN v /\ v[n] = Head(q)
      /\ n \in Nat
      /\ \A k \in 1..Len(st) : v[k].kind = "stage" /\ v[k].kind # "resolve"
  <2>1. /\ v \in Seq(Messages) /\ Len(v) = Len(st) + Len(q) /\ Len(st) \in Nat
        /\ \A k \in 1..Len(st) : v[k] = Stage(t, st[k])
        /\ \A k \in 1..Len(q) : v[Len(st) + k] = q[k]
    BY FlowOfFacts
  <2> HIDE DEF v
  <2>2. \A k \in 1..Len(st) : v[k].kind = "stage" /\ v[k].kind # "resolve"
    <3>1. \A y : Stage(t, y).kind = "stage"
      BY DEF Stage
    <3> QED BY <2>1, <3>1
  <2>3. n \in Nat /\ DOMAIN v = 1..Len(v) /\ n \in 1..Len(v) /\ v[n] = q[1]
    BY <2>1, <1>2
  <2> QED BY <2>1, <2>2, <2>3, <1>2
<1>6. IsCut(u, v, Len(st), 1) /\ Len(st) \in Nat
  BY SkipHead
<1>7. FlowOK(v, h, e) /\ Good(s, v, h, e)
  BY DEF Good
<1>8. IsTyped(i)
  OBVIOUS
<1> HIDE DEF v, u, i
<1>9. ASSUME NEW b \in DOMAIN u, NEW y \in Sits(u[b]) PROVE Before(i, y)
  <2>1. CASE b <= Len(st)
    <3>1. b \in DOMAIN v /\ u[b] = v[b] /\ b \in 1..Len(st) /\ b < n
      BY <1>5, <1>6, <1>9, <2>1 DEF IsCut
    <3>2. ~Resolved(v, v[b].token, b, n)
      BY <1>5, <3>1 DEF Resolved, IsResolve
    <3>3. Overtakes(i, v[b].item)
      <4>1. IsStage(v[b]) /\ v[n].kind = "key" /\ v[n].item = i
        BY <1>5, <3>1 DEF IsStage, i
      <4> QED BY <1>5, <1>7, <1>8, <3>1, <3>2, <4>1 DEF FlowOK, NoneOvertaken
    <3>4. y = v[b].item
      <4>1. v[b] \in Messages /\ IsStage(v[b])
        BY <1>5, <3>1 DEF IsStage
      <4> QED BY <1>9, <3>1, <4>1, SitsType
    <3> QED BY <3>3, <3>4 DEF Before
  <2>2. CASE b > Len(st)
    <3>1. b + 1 \in DOMAIN v /\ u[b] = v[b + 1] /\ n < b + 1
      <4>1. DOMAIN u = 1..Len(u) /\ Len(u) = Len(v) - 1 /\ Len(v) \in Nat
        BY <1>5, <1>6 DEF IsCut
      <4>2. u[b] = v[b + 1]
        BY <1>6, <1>9, <2>2, <4>1 DEF IsCut
      <4> QED BY <1>5, <1>6, <1>9, <2>2, <4>1, <4>2
    <3>2. i.n < y.n
      BY <1>3, <1>5, <1>7, <1>9, <3>1 DEF FlowOK, Sorted
    <3> QED BY <3>2 DEF Before
  <2> QED BY <1>6, <1>9, <2>1, <2>2 DEF IsCut
<1>10. Press(i) \notin e /\ \A l \in h : i.n # l.n
  BY <1>3, <1>5, <1>7 DEF FlowOK, Uneaten, Distinct
<1>11. Writes(x, u, v, h, e)
  <2>1. DOMAIN x = {1} /\ x[1] = Written(i)
    OBVIOUS
  <2>2. /\ Written(i) \in Sent /\ Written(i).n = i.n /\ Press(Written(i)) = Press(i)
        /\ \A y : Before(Written(i), y) <=> Before(i, y)
    BY <1>3, <1>8, WrittenType
  <2>3. x \in Seq(Sent)
    BY <2>2
  <2>4. i \in Sits(v[n])
    BY <1>3, <1>5
  <2> HIDE DEF x
  <2> QED BY <1>5, <1>9, <1>10, <2>1, <2>2, <2>3, <2>4 DEF Writes
<1> HIDE DEF x
<1>12. Later(s \o x, u, s, v, h, e)
  BY <1>4, <1>7, <1>11, SentGrows
<1> QED BY <1>12 DEF x, u, v, i

\* The positions of a concatenation.
LEMMA Joined ==
    ASSUME NEW S, NEW s \in Seq(S), NEW t \in Seq(S), NEW u, u = s \o t
    PROVE  /\ u \in Seq(S) /\ DOMAIN u = 1..Len(u)
           /\ Len(u) = Len(s) + Len(t)
           /\ \A k \in 1..Len(s) : u[k] = s[k]
           /\ \A k \in 1..Len(t) : u[Len(s) + k] = t[k]
OBVIOUS

\* A message that ends a sequence carries at most one press.
LEMMA CurrentOf ==
    ASSUME NEW m \in ResolveMessages, NEW cur, cur = m.current
    PROVE  /\ cur \in Seq(Presses) /\ Len(cur) <= 1 /\ Len(cur) \in Nat
           /\ \A k \in 1..Len(cur) : k = 1 /\ cur[k] \in Sits(m) /\ cur[k] \in Direct(m)
<1>1. cur \in {<<>>} \cup {<<p>> : p \in Presses} /\ m.kind = "resolve"
  BY DEF ResolveMessages
<1>2. CASE cur = <<>>
  BY <1>2
<1>3. ASSUME NEW p \in Presses, cur = <<p>>
      PROVE  /\ cur \in Seq(Presses) /\ Len(cur) = 1 /\ cur[1] = p
             /\ p \in Sits(m) /\ p \in Direct(m)
  <2>1. cur \in Seq(Presses) /\ Len(cur) = 1 /\ cur[1] = p /\ DOMAIN cur = {1}
    BY <1>3
  <2>2. Carried(m) = {p}
    BY <1>1, <2>1 DEF Carried
  <2>3. IsTyped(p)
    BY DEF Presses, IsTyped
  <2> QED BY <1>1, <2>1, <2>2, <2>3 DEF Sits, Direct
<1>4. CASE \E p \in Presses : cur = <<p>>
  <2>1. PICK p \in Presses : cur = <<p>>
    BY <1>4
  <2>2. /\ cur \in Seq(Presses) /\ Len(cur) = 1 /\ cur[1] = p
        /\ p \in Sits(m) /\ p \in Direct(m)
    BY <2>1, <1>3
  <2> QED BY <2>2
<1> QED BY <1>1, <1>2, <1>4

\* What the message m, when it ends the sequence of the leaders st, writes.
ItemsOf(items, m, st) == items = (IF m.flush THEN st ELSE <<>>) \o m.current

\* The worker ends its sequence: it writes the leaders, or drops them, and
\* then the press that comes with the end.
LEMMA SequenceWritten ==
    ASSUME NEW s, NEW h, NEW e, NEW t, NEW st, NEW q, Holds(t, st, q), q # <<>>,
           Good(s, FlowOf(t, st, q), h, e), IsResolve(Head(q), t),
           NEW items, ItemsOf(items, Head(q), st)
    PROVE  Later(s \o [k \in DOMAIN items |-> Written(items[k])], Tail(q),
                 s, FlowOf(t, st, q), h, e)
<1> DEFINE m == Head(q)
           f == m.flush
           cur == m.current
           x == [k \in DOMAIN items |-> Written(items[k])]
           v == FlowOf(t, st, q)
           u == Tail(q)
           n == Len(st) + 1
           lead == IF f THEN st ELSE <<>>
           At(k) == IF k <= Len(lead) THEN k ELSE n
<1>1. q \in Seq(Messages) /\ st \in Seq(Presses)
  BY DEF Holds
<1>2. m = q[1] /\ m \in Messages /\ Len(q) \in Nat /\ Len(q) >= 1
  BY <1>1, QueueParts
<1>3. m \in ResolveMessages /\ f \in BOOLEAN
  <2>1. m \in ResolveMessages
    BY <1>2 DEF IsResolve, Messages, KeyMessages, StageMessages, ActionMessages, Shutdown
  <2> QED BY <2>1 DEF ResolveMessages
<1>4. /\ cur \in Seq(Presses) /\ Len(cur) <= 1 /\ Len(cur) \in Nat
      /\ \A k \in 1..Len(cur) : k = 1 /\ cur[k] \in Sits(m) /\ cur[k] \in Direct(m)
  <2>1. cur = m.current
    OBVIOUS
  <2> HIDE DEF cur, m
  <2> QED BY <1>3, <2>1, CurrentOf
<1>5. lead \in Seq(Presses) /\ Len(lead) <= Len(st) /\ Len(lead) \in Nat /\ Len(st) \in Nat
      /\ \A k \in 1..Len(lead) : f /\ lead[k] = st[k] /\ k \in 1..Len(st)
  BY <1>1
<1>6. items = lead \o cur
  BY DEF ItemsOf
<1>7. /\ v \in Seq(Messages) /\ DOMAIN v = 1..Len(v) /\ n \in DOMAIN v /\ v[n] = m
      /\ n \in Nat
      /\ \A k \in 1..Len(st) : /\ v[k].kind = "stage" /\ v[k].token = t
                               /\ v[k].item = st[k] /\ k \in DOMAIN v
                               /\ st[k] \in Sits(v[k])
  <2>1. /\ v \in Seq(Messages) /\ Len(v) = Len(st) + Len(q) /\ Len(st) \in Nat
        /\ \A k \in 1..Len(st) : v[k] = Stage(t, st[k]) /\ st[k] \in Presses /\ t \in Tokens
        /\ \A k \in 1..Len(q) : v[Len(st) + k] = q[k]
    BY FlowOfFacts
  <2> HIDE DEF v
  <2>2. \A k \in 1..Len(st) : /\ v[k].kind = "stage" /\ v[k].token = t
                              /\ v[k].item = st[k] /\ st[k] \in Sits(v[k])
    BY <2>1, SitsOfStage
  <2> QED BY <2>1, <2>2, <1>2
<1>8. FlowOK(u, h, e) /\ From(u, v) /\ IsCut(u, v, 0, Len(st) + 1)
  BY LeadersDropped
<1>9. FlowOK(v, h, e) /\ Good(s, v, h, e)
  BY DEF Good
<1>10. m.kind = "resolve" /\ m.token = t
  BY DEF IsResolve
<1> HIDE DEF v, u, m, f, cur, lead
<1>11. /\ items \in Seq(Presses) /\ DOMAIN items = 1..Len(items)
       /\ Len(items) = Len(lead) + Len(cur)
       /\ \A k \in 1..Len(lead) : items[k] = lead[k]
       /\ \A k \in 1..Len(cur) : items[Len(lead) + k] = cur[k]
  <2> DEFINE M == Presses
  <2>1. lead \in Seq(M) /\ cur \in Seq(M)
    BY <1>4, <1>5
  <2> HIDE DEF M
  <2>2. /\ items \in Seq(M) /\ DOMAIN items = 1..Len(items)
        /\ Len(items) = Len(lead) + Len(cur)
        /\ \A k \in 1..Len(lead) : items[k] = lead[k]
        /\ \A k \in 1..Len(cur) : items[Len(lead) + k] = cur[k]
    BY <2>1, <1>6, Joined
  <2> QED BY <2>2 DEF M
<1>12. ASSUME NEW k \in DOMAIN items
       PROVE  /\ At(k) \in DOMAIN v /\ At(k) <= n /\ items[k] \in Sits(v[At(k)])
              /\ Press(items[k]) \notin e /\ \A l \in h : items[k].n # l.n
  <2>1. CASE k <= Len(lead)
    <3>1. k \in 1..Len(lead) /\ At(k) = k
      BY <1>11, <1>12, <2>1
    <3>2. items[k] = v[k].item /\ k \in DOMAIN v /\ k < n /\ f /\ IsStage(v[k])
          /\ v[k].token = t /\ items[k] \in Sits(v[k])
      BY <3>1, <1>5, <1>7, <1>11 DEF IsStage
    <3>3. Press(v[k].item) \notin e
      <4>1. IsResolve(v[n], v[k].token) /\ v[n].flush
        BY <3>2, <1>7, <1>10 DEF IsResolve, f
      <4> QED BY <4>1, <3>2, <1>7, <1>9 DEF FlowOK, Uneaten
    <3>4. \A l \in h : v[k].item.n # l.n
      <4>1. Ends(v, v[k].token, k)
        BY <3>2, <1>7, <1>10 DEF Ends, IsResolve
      <4> QED BY <4>1, <3>2, <1>9 DEF FlowOK, Distinct
    <3> QED BY <3>1, <3>2, <3>3, <3>4, <1>7
  <2>2. CASE k > Len(lead)
    <3>1. k - Len(lead) \in 1..Len(cur) /\ k = Len(lead) + (k - Len(lead)) /\ At(k) = n
      BY <1>4, <1>5, <1>11, <1>12, <2>2
    <3>2. items[k] \in Sits(m) /\ items[k] \in Direct(m)
      BY <3>1, <1>4, <1>11
    <3>3. Press(items[k]) \notin e /\ \A l \in h : items[k].n # l.n
      BY <3>2, <1>7, <1>9 DEF FlowOK, Uneaten, Distinct
    <3> QED BY <3>1, <3>2, <3>3, <1>7
  <2> QED BY <1>5, <1>11, <2>1, <2>2
<1>13. \A j, k \in DOMAIN items : j < k => At(j) < At(k)
  <2> SUFFICES ASSUME NEW j \in DOMAIN items, NEW k \in DOMAIN items, j < k
               PROVE  At(j) < At(k)
    OBVIOUS
  <2>1. j <= Len(lead)
    BY <1>4, <1>5, <1>11
  <2> QED BY <2>1, <1>5, <1>11
<1> HIDE DEF At
<1>14. /\ DOMAIN x = DOMAIN items
       /\ \A k \in DOMAIN x : /\ x[k] = Written(items[k]) /\ x[k] \in Sent
                              /\ x[k].n = items[k].n /\ Press(x[k]) = Press(items[k])
                              /\ \A y : Before(x[k], y) <=> Before(items[k], y)
  <2>1. \A k \in DOMAIN items : items[k] \in Inputs /\ IsTyped(items[k])
    BY <1>11 DEF Presses, IsTyped
  <2> QED BY <2>1, WrittenType
<1>15. x \in Seq(Sent)
  <2>1. DOMAIN x = 1..Len(items) /\ Len(items) \in Nat /\ \A k \in 1..Len(items) : x[k] \in Sent
    BY <1>11, <1>14
  <2>2. x = [k \in 1..Len(items) |-> Written(items[k])]
    BY <1>11
  <2> QED BY <2>1, <2>2
<1> HIDE DEF x
<1>16. ASSUME NEW k \in DOMAIN x, NEW b \in DOMAIN u, NEW y \in Sits(u[b])
       PROVE  Before(x[k], y)
  <2>1. b + n \in DOMAIN v /\ u[b] = v[b + n] /\ At(k) < b + n
    <3>1. DOMAIN u = 1..Len(u) /\ Len(u) = Len(v) - n /\ Len(v) \in Nat
      BY <1>7, <1>8 DEF IsCut
    <3>2. u[b] = v[b + n]
      BY <1>8, <1>16, <3>1 DEF IsCut
    <3>3. At(k) \in DOMAIN v /\ At(k) <= n
      BY <1>12, <1>14
    <3> QED BY <1>7, <3>1, <3>2, <3>3
  <2>2. items[k].n < y.n
    BY <1>9, <1>12, <1>14, <1>16, <2>1 DEF FlowOK, Sorted
  <2> QED BY <1>14, <2>2 DEF Before
<1>17. ASSUME NEW j \in DOMAIN x, NEW k \in DOMAIN x, j < k PROVE x[j].n < x[k].n
  BY <1>9, <1>12, <1>13, <1>14, <1>17 DEF FlowOK, Sorted
<1>18. Writes(x, u, v, h, e)
  BY <1>12, <1>14, <1>15, <1>16, <1>17 DEF Writes
<1>19. Later(s \o x, u, s, v, h, e)
  BY <1>8, <1>9, <1>18, SentGrows
<1> QED BY <1>19 DEF x, u, v

-----------------------------------------------------------------------------
(* Several messages at once.                                               *)

\* After the flow v, the messages ms leave the pane with the leaders h2 and
\* have it eat e2; the last input they are about, if any, has the number y.
Sends(ms, h2, e2, y, s, v, h, e) ==
    /\ ms \in Seq(Messages)
    /\ Good(s, v \o ms, h2, e2)
    /\ \A n \in Nat : y < n /\ Below(n, v, h, e, s) => Below(n, v \o ms, h2, e2, s)

\* A message is appended.
LEMMA PlusOne ==
    ASSUME NEW v \in Seq(Messages), NEW m \in Messages
    PROVE  /\ <<m>> \in Seq(Messages) /\ Plus(v \o <<m>>, v, m)
BY DEF Plus

\* One message leaves the pane: it suffices that it can be appended.
LEMMA SendsOne ==
    ASSUME NEW s, NEW v, NEW h, NEW e, Good(s, v, h, e), NEW m \in Messages,
           NEW h2, NEW e2, NEW y,
           \A w : Plus(w, v, m) => Good(s, w, h2, e2),
           \A n \in Nat : y < n /\ Below(n, v, h, e, s) =>
             /\ \A x \in Sits(m) : x.n < n
             /\ m.kind = "resolve" => m.token < n
             /\ \A l \in h2 : l.n < n
             /\ \A x \in e2 : x.kind = "press" => x.n < n
    PROVE  Sends(<<m>>, h2, e2, y, s, v, h, e)
<1> DEFINE w == v \o <<m>>
<1>1. v \in Seq(Messages)
  BY FlowType
<1>2. <<m>> \in Seq(Messages) /\ Plus(w, v, m)
  BY <1>1, PlusOne
<1> HIDE DEF w
<1>3. Good(s, w, h2, e2)
  BY <1>2
<1>4. ASSUME NEW n \in Nat, y < n, Below(n, v, h, e, s) PROVE Below(n, w, h2, e2, s)
  <2>1. /\ \A x \in Sits(m) : x.n < n
        /\ m.kind = "resolve" => m.token < n
        /\ \A l \in h2 : l.n < n
        /\ \A x \in e2 : x.kind = "press" => x.n < n
    BY <1>4
  <2> QED BY <1>1, <1>2, <1>4, <2>1, AppendBelow
<1> QED BY <1>2, <1>3, <1>4 DEF Sends, w

\* No message leaves the pane.
LEMMA SendsNothing ==
    ASSUME NEW s, NEW v, NEW h, NEW e, Good(s, v, h, e), NEW e2, e2 \subseteq e, NEW y
    PROVE  Sends(<<>>, h, e2, y, s, v, h, e)
<1>1. v \in Seq(Messages)
  BY FlowType
<1>2. v \o <<>> = v /\ <<>> \in Seq(Messages)
  BY <1>1
<1>3. Good(s, v, h, e2)
  BY EatLess
<1> QED BY <1>2, <1>3 DEF Sends, Below

\* The messages of the pane, one kind each (see FeedKey and what follows it).
LEMMA SendsKey ==
    ASSUME NEW s, NEW v, NEW h, NEW e, Good(s, v, h, e), NEW i \in Inputs,
           IsTyped(i) => Below(i.n, v, h, e, s) /\ \A l \in h : Overtakes(i, l),
           NEW y, IsTyped(i) => y = i.n
    PROVE  Sends(<<Key(i)>>, h, e, y, s, v, h, e)
<1> DEFINE m == Key(i)
<1>1. /\ m \in Messages /\ m.kind = "key"
      /\ IsTyped(i) => Sits(m) = {i}
      /\ ~IsTyped(i) => Sits(m) = {}
  BY SitsOfKey
<1>2. \A w : Plus(w, v, m) => Good(s, w, h, e)
  BY FeedKey
<1> HIDE DEF m
<1>3. ASSUME NEW n \in Nat, y < n, Below(n, v, h, e, s)
      PROVE  /\ \A x \in Sits(m) : x.n < n
             /\ m.kind = "resolve" => m.token < n
             /\ \A l \in h : l.n < n
             /\ \A x \in e : x.kind = "press" => x.n < n
  BY <1>1, <1>3 DEF Below
<1>4. Sends(<<m>>, h, e, y, s, v, h, e)
  BY <1>1, <1>2, <1>3, SendsOne
<1> QED BY <1>4 DEF m

\* A request, or the end of the worker.
LEMMA SendsIdle ==
    ASSUME NEW s, NEW v, NEW h, NEW e, Good(s, v, h, e),
           NEW m \in Messages, m.kind \in {"action", "shutdown"}, NEW y
    PROVE  Sends(<<m>>, h, e, y, s, v, h, e)
<1>1. Sits(m) = {} /\ m.kind # "resolve"
  BY SitsOfAction
<1>2. \A w : Plus(w, v, m) => Good(s, w, h, e)
  BY FeedIdle
<1>3. ASSUME NEW n \in Nat, y < n, Below(n, v, h, e, s)
      PROVE  /\ \A x \in Sits(m) : x.n < n
             /\ m.kind = "resolve" => m.token < n
             /\ \A l \in h : l.n < n
             /\ \A x \in e : x.kind = "press" => x.n < n
  BY <1>1, <1>3 DEF Below
<1> QED BY <1>1, <1>2, <1>3, SendsOne

\* A leader.
LEMMA SendsLeader ==
    ASSUME NEW s, NEW v, NEW h, NEW e, Good(s, v, h, e), NEW x \in Presses,
           Below(x.n, v, h, e, s), NEW y, y = x.n
    PROVE  Sends(<<Stage(TokenOf(h \cup {x}), x)>>, h \cup {x}, e, y, s, v, h, e)
<1> DEFINE g == h \cup {x}
           t == TokenOf(g)
           m == Stage(t, x)
<1>1. /\ h \subseteq Presses /\ \A l \in h : l.n \in Nat
  BY FlowType
<1>2. t \in Tokens
  BY <1>1, TokenOfMore DEF Below
<1> HIDE DEF t
<1>3. /\ m \in Messages /\ m.kind = "stage" /\ Sits(m) = {x}
  BY <1>2, SitsOfStage
<1>4. \A w : Plus(w, v, m) => Good(s, w, g, e)
  BY FeedStage DEF t
<1> HIDE DEF m
<1>5. ASSUME NEW n \in Nat, y < n, Below(n, v, h, e, s)
      PROVE  /\ \A i \in Sits(m) : i.n < n
             /\ m.kind = "resolve" => m.token < n
             /\ \A l \in g : l.n < n
             /\ \A i \in e : i.kind = "press" => i.n < n
  BY <1>3, <1>5 DEF Below
<1> HIDE DEF g
<1>6. Sends(<<m>>, g, e, y, s, v, h, e)
  BY <1>3, <1>4, <1>5, SendsOne
<1> QED BY <1>6 DEF m, t, g

\* The end of a sequence that is written.
LEMMA SendsFlush ==
    ASSUME NEW s, NEW v, NEW h, NEW e, Good(s, v, h, e), h # {}, EatenBefore(e, h),
           NEW c, c = <<>> \/ \E p \in Presses : c = <<p>> /\ Below(p.n, v, h, e, s),
           NEW y, \A p \in Presses : c = <<p>> => y = p.n
    PROVE  Sends(<<Resolve(TokenOf(h), TRUE, c)>>, {}, e, y, s, v, h, e)
<1> DEFINE t == TokenOf(h)
           f == TRUE
           m == Resolve(t, f, c)
           g == {}
<1>1. /\ h \subseteq Presses /\ \A l \in h : l.n \in Nat
  BY FlowType
<1>2. t \in Tokens /\ f \in BOOLEAN
  BY <1>1, TokenFacts
<1>3. m.kind = "resolve" /\ m.token = t
  BY DEF Resolve
<1>4. \A w : Plus(w, v, m) => Good(s, w, g, e)
  BY FeedFlush
<1> HIDE DEF t, f
<1>5. m \in Messages /\ \A x \in Sits(m) : x \in Presses /\ c = <<x>>
  <2>1. CASE c = <<>>
    BY <2>1, <1>2, SitsOfResolve
  <2>2. ASSUME NEW p \in Presses, c = <<p>>
        PROVE  m \in Messages /\ Sits(m) = {p}
    BY <2>2, <1>2, SitsOfResolve
  <2> QED BY <2>1, <2>2
<1> HIDE DEF m
<1>6. ASSUME NEW n \in Nat, y < n, Below(n, v, h, e, s)
      PROVE  /\ \A x \in Sits(m) : x.n < n
             /\ m.kind = "resolve" => m.token < n
             /\ \A l \in g : l.n < n
             /\ \A x \in e : x.kind = "press" => x.n < n
  <2>1. \A x \in Sits(m) : x.n < n
    BY <1>5, <1>6
  <2>2. m.token < n
    <3>1. PICK l \in h : t = l.n
      BY <1>1, TokenFacts DEF t
    <3> QED BY <1>3, <1>6, <3>1 DEF Below
  <2> QED BY <2>1, <2>2, <1>6 DEF Below
<1> HIDE DEF g
<1>7. Sends(<<m>>, g, e, y, s, v, h, e)
  BY <1>4, <1>5, <1>6, SendsOne
<1> QED BY <1>7 DEF m, t, f, g

\* What is eaten besides e: the leaders h, or the input y.
EatenToo(e2, y, s, v, h, e) ==
    /\ e2 \subseteq Eaten
    /\ \A x \in e2 : x.kind = "press" =>
         \/ x \in e
         \/ \E l \in h : x.n = l.n
         \/ x.n = y /\ Below(y, v, h, e, s)

\* The end of a sequence that is dropped, if there is one.
LEMMA SendsDropped ==
    ASSUME NEW s, NEW v, NEW h, NEW e, Good(s, v, h, e),
           NEW e2, NEW y, EatenToo(e2, y, s, v, h, e)
    PROVE  Sends(Dropped(h), {}, e2, y, s, v, h, e)
<1> DEFINE t == TokenOf(h)
           f == FALSE
           m == Resolve(t, f, <<>>)
           g == {}
<1>1. /\ h \subseteq Presses /\ v \in Seq(Messages) /\ \A l \in h : l.n \in Nat
  BY FlowType
<1>2. EatenMore(e2, s, v, h, e)
  BY DEF EatenMore, EatenToo
<1>3. ASSUME NEW n \in Nat, y < n, Below(n, v, h, e, s)
      PROVE  \A x \in e2 : x.kind = "press" => x.n < n
  BY <1>3 DEF Below, EatenToo
<1>4. CASE h = {}
  <2>1. Dropped(h) = <<>>
    BY <1>4 DEF Dropped
  <2>2. Good(s, v, g, e) /\ EatenMore(e2, s, v, g, e)
    BY <1>2, <1>4
  <2>3. Good(s, v, g, e2)
    BY <2>2, EatMore
  <2>4. v \o <<>> = v /\ <<>> \in Seq(Messages)
    BY <1>1
  <2>5. \A n \in Nat : y < n /\ Below(n, v, h, e, s) => Below(n, v, g, e2, s)
    BY <1>3 DEF Below
  <2> QED BY <2>1, <2>3, <2>4, <2>5 DEF Sends
<1>5. CASE h # {}
  <2>0. Dropped(h) = <<m>>
    BY <1>5 DEF Dropped
  <2>1. t \in Tokens /\ f \in BOOLEAN
    BY <1>1, <1>5, TokenFacts
  <2>2. m.kind = "resolve" /\ m.token = t
    BY DEF Resolve
  <2>3. \A w : Plus(w, v, m) => Good(s, w, g, e2)
    BY <1>2, <1>5, FeedDrop
  <2>4. PICK l \in h : t = l.n
    BY <1>1, <1>5, TokenFacts
  <2> HIDE DEF t, f
  <2>5. m \in Messages /\ Sits(m) = {}
    BY <2>1, SitsOfResolve
  <2> HIDE DEF m
  <2>6. ASSUME NEW n \in Nat, y < n, Below(n, v, h, e, s)
        PROVE  /\ \A x \in Sits(m) : x.n < n
               /\ m.kind = "resolve" => m.token < n
               /\ \A k \in g : k.n < n
               /\ \A x \in e2 : x.kind = "press" => x.n < n
    BY <2>2, <2>4, <2>5, <2>6, <1>3 DEF Below
  <2> HIDE DEF g
  <2>7. Sends(<<m>>, g, e2, y, s, v, h, e)
    BY <2>3, <2>5, <2>6, SendsOne
  <2> QED BY <2>0, <2>7 DEF g
<1> QED BY <1>4, <1>5

\* Messages that leave the pane one after the other.
LEMMA SendsBoth ==
    ASSUME NEW s, NEW v, NEW h, NEW e, v \in Seq(Messages),
           NEW ms, NEW h1, NEW e1, NEW y1 \in Nat, Sends(ms, h1, e1, y1, s, v, h, e),
           NEW ns, NEW h2, NEW e2, NEW y \in Nat, y1 <= y,
           Sends(ns, h2, e2, y, s, v \o ms, h1, e1)
    PROVE  Sends(ms \o ns, h2, e2, y, s, v, h, e)
<1>1. ms \in Seq(Messages) /\ ns \in Seq(Messages)
  BY DEF Sends
<1>2. ms \o ns \in Seq(Messages) /\ (v \o ms) \o ns = v \o (ms \o ns)
  <2> DEFINE M == Messages
  <2>1. v \in Seq(M) /\ ms \in Seq(M) /\ ns \in Seq(M)
    BY <1>1
  <2> HIDE DEF M
  <2>2. (v \o ms) \o ns = v \o (ms \o ns)
    BY <2>1, ConcatenationLaws
  <2>3. ms \o ns \in Seq(M)
    BY <2>1
  <2> QED BY <2>2, <2>3 DEF M
<1> QED BY <1>2 DEF Sends

\* A press goes to the child behind the leaders of its sequence.
LEMMA SendsThrough ==
    ASSUME NEW s, NEW v, NEW h, NEW e, Good(s, v, h, e), EatenBefore(e, h),
           NEW p \in Presses, Below(p.n, v, h, e, s), NEW y, y = p.n
    PROVE  Sends(Through(h, p), {}, e, y, s, v, h, e)
<1>1. p \in Inputs /\ IsTyped(p)
  BY DEF Presses, IsTyped
<1>2. CASE h = {}
  <2> DEFINE g == {}
  <2>1. Good(s, v, g, e) /\ Below(p.n, v, g, e, s) /\ \A l \in g : Overtakes(p, l)
    BY <1>2
  <2> HIDE DEF g
  <2>2. Sends(<<Key(p)>>, g, e, y, s, v, g, e)
    BY <1>1, <2>1, SendsKey
  <2> QED BY <1>2, <2>2 DEF Through, g
<1>3. CASE h # {}
  <2> DEFINE c == <<p>>
  <2>1. c = <<>> \/ \E q \in Presses : c = <<q>> /\ Below(q.n, v, h, e, s)
    OBVIOUS
  <2>2. \A q \in Presses : c = <<q>> => y = q.n
    OBVIOUS
  <2> HIDE DEF c
  <2>3. Sends(<<Resolve(TokenOf(h), TRUE, c)>>, {}, e, y, s, v, h, e)
    BY <1>3, <2>1, <2>2, SendsFlush
  <2> QED BY <1>3, <2>3 DEF Through, c
<1> QED BY <1>2, <1>3

-----------------------------------------------------------------------------
(* The inductive invariant.                                                *)

Requests == Tokens \X (0..MaxAsked)
Workers ==
    [phase : Phases, token : 0..MaxTyped, newest : 0..MaxTyped,
     staged : Seq(Presses), jobs : SUBSET Requests]

PaneTyped ==
    /\ typed \in 0..MaxTyped /\ held \in [Keys -> 0..MaxTyped]
    /\ focus \in 0..MaxLosses
    /\ deferred \in Seq(Inputs)
    /\ consumed \subseteq Presses /\ leaders \subseteq Presses
    /\ eaten \subseteq Eaten
    /\ chain = NoChain \/ chain \in Chains
    /\ life \in {"open", "exiting", "exited", "closing"}

\* A worker that does not exist yet, or never will, has nothing.
WorkerTyped ==
    /\ worker \in Workers
    /\ down \in Seq(Messages) /\ sent \in Seq(Sent) /\ released \subseteq Tokens
    /\ worker.token = 0 => worker.staged = <<>>
    /\ worker.phase \in {"absent", "never"} =>
         worker.token = 0 /\ sent = <<>> /\ released = {}
    /\ worker.phase = "never" => down = <<>>

\* The leaders in the pane's hands, and the flow as it is.
Held == IF chain = NoChain THEN leaders ELSE chain.leaders
FlowNow == FlowOf(worker.token, worker.staged, down)

FlowsOK == Good(sent, FlowNow, Held, eaten)

Ended(t) == \E c \in DOMAIN down : IsResolve(down[c], t)
Owned ==
    worker.token # 0 => Ended(worker.token) \/ worker.token = TokenOf(Held)

\* Releases on their way, or written.
IsRelease(m, n) == m.kind = "key" /\ ~IsTyped(m.item) /\ m.item.n = n
LetGo == released \cup {n \in Tokens : \E c \in DOMAIN down : IsRelease(down[c], n)}

\* All that was handled was typed before what is typed next, what is deferred,
\* and the press that runs a chain.
Limited(n) ==
    /\ Below(n, FlowNow, Held, eaten, sent)
    /\ \A r \in LetGo : r < n
Limits ==
    {typed + 1}
    \cup (IF chain = NoChain THEN {} ELSE {chain.press.n})
    \cup {deferred[k].n : k \in {j \in DOMAIN deferred : IsTyped(deferred[j])}}
AllLimited == \A n \in Limits : Limited(n)

\* A pane that runs a chain has no sequence; what waits is in order and was
\* typed during a chain; what was eaten was typed before the leaders.
PaneOrdered ==
    /\ chain # NoChain =>
         /\ leaders = {} /\ chain.press.n <= typed
         /\ \A b \in DOMAIN deferred :
              IsTyped(deferred[b]) => chain.press.n < deferred[b].n
    /\ \A a, b \in DOMAIN deferred :
         a < b /\ IsTyped(deferred[b]) => deferred[a].n < deferred[b].n
    /\ \A b \in DOMAIN deferred : deferred[b].n <= typed /\ deferred[b].late
    /\ chain = NoChain /\ deferred # <<>> => \A l \in leaders : l.late
    /\ EatenBefore(eaten, Held)
    /\ \A c \in consumed : c.n <= typed
    /\ \A x \in eaten : x.n <= typed

-----------------------------------------------------------------------------
(* Posting messages.                                                       *)

\* The types of the chain.
LEMMA ChainType ==
    ASSUME PaneTyped
    PROVE  /\ chain # NoChain =>
                /\ chain \in Chains /\ chain.press \in Presses /\ chain.press \in Inputs
                /\ chain.leaders \subseteq Presses /\ chain.press.n \in Tokens
                /\ chain.press.n \in Nat /\ chain.left \in 0..MaxAsked
                /\ chain.phase \in {"running", "pending"}
           /\ chain = NoChain => chain.phase = "none"
           /\ Running => chain # NoChain
           /\ chain.phase = "pending" => chain # NoChain
           /\ Held \subseteq Presses
BY DEF PaneTyped, Chains, Presses, Inputs, Tokens, NoChain, Running, Held

\* The types of the worker and of the flow.
LEMMA WorkerType ==
    ASSUME WorkerTyped
    PROVE  /\ Holds(worker.token, worker.staged, down)
           /\ FlowNow \in Seq(Messages)
           /\ worker.phase \in {"absent", "never"} => worker.staged = <<>>
           /\ worker.phase = "never" => FlowNow = <<>>
           /\ worker.phase \in Phases /\ worker.token \in 0..MaxTyped
           /\ worker.newest \in 0..MaxTyped
<1>1. Holds(worker.token, worker.staged, down)
  BY DEF WorkerTyped, Workers, Holds
<1>2. FlowNow \in Seq(Messages)
  BY <1>1, FlowOfFacts DEF FlowNow
<1>3. worker.phase = "never" => FlowNow = <<>>
  <2>1. <<>> \in Seq(Messages)
    OBVIOUS
  <2> QED BY <2>1, QueueAlone DEF WorkerTyped, FlowNow
<1> QED BY <1>1, <1>2, <1>3 DEF WorkerTyped, Workers

\* What is appended to the queue is appended to the flow.
LEMMA FlowPosted ==
    ASSUME NEW t, NEW st, NEW q, Holds(t, st, q), NEW ms \in Seq(Messages)
    PROVE  FlowOf(t, st, q \o ms) = FlowOf(t, st, q) \o ms
<1> DEFINE a == Ahead(t, st)
           M == Messages
<1>1. a \in Seq(M) /\ q \in Seq(M) /\ ms \in Seq(M)
  <2>1. \A k \in DOMAIN st : Stage(t, st[k]) \in Messages
    BY SitsOfStage DEF Holds, Tokens
  <2> QED BY <2>1 DEF Holds, Ahead
<1> HIDE DEF a, M
<1>2. (a \o q) \o ms = a \o (q \o ms)
  BY <1>1, ConcatenationLaws
<1> QED BY <1>2 DEF FlowOf, a

\* What is posted: the flow gets it or, without a worker ever, stays empty.
LEMMA PostedFlow ==
    ASSUME WorkerTyped, NEW ms \in Seq(Messages), Post(ms), UNCHANGED <<worker, history>>
    PROVE  /\ worker' = worker /\ sent' = sent /\ released' = released
           /\ worker.phase # "never" => down' = down \o ms /\ FlowNow' = FlowNow \o ms
           /\ worker.phase = "never" =>
                /\ down = <<>> /\ down' = <<>> /\ sent = <<>>
                /\ worker.token = 0 /\ FlowNow = <<>> /\ FlowNow' = <<>>
<1>1. worker' = worker /\ sent' = sent /\ released' = released
  BY DEF history
<1>2. CASE worker.phase # "never"
  <2>1. down' = down \o ms
    BY <1>2 DEF Post
  <2>2. Holds(worker.token, worker.staged, down)
    BY WorkerType
  <2>3. FlowNow' = FlowOf(worker.token, worker.staged, down \o ms)
    BY <1>1, <2>1 DEF FlowNow
  <2> QED BY <1>1, <1>2, <2>1, <2>2, <2>3, FlowPosted DEF FlowNow
<1>3. CASE worker.phase = "never"
  <2>1. down' = down
    BY <1>3 DEF Post
  <2>2. FlowNow = <<>>
    BY <1>3, WorkerType
  <2>3. FlowNow' = FlowNow
    BY <1>1, <2>1 DEF FlowNow
  <2> QED BY <1>1, <1>3, <2>1, <2>2, <2>3 DEF WorkerTyped
<1> QED BY <1>1, <1>2, <1>3

\* What posting changes of the queue's types, ends of sequences and releases.
LEMMA PostedMessages ==
    ASSUME WorkerTyped, NEW ms \in Seq(Messages), Post(ms), UNCHANGED <<worker, history>>
    PROVE  /\ WorkerTyped'
           /\ \A t : Ended(t) => Ended(t)'
           /\ \A k \in DOMAIN ms : \A t \in Tokens :
                IsResolve(ms[k], t) /\ worker.token = t => Ended(t)'
           /\ \A n \in LetGo' : n \in LetGo \/ \E k \in DOMAIN ms : IsRelease(ms[k], n)
<1>1. /\ worker' = worker /\ sent' = sent /\ released' = released
      /\ worker.phase # "never" => down' = down \o ms
      /\ worker.phase = "never" => down = <<>> /\ down' = <<>> /\ worker.token = 0
  BY PostedFlow
<1>2. down \in Seq(Messages)
  BY DEF WorkerTyped
<1>3. worker.phase # "never" =>
        /\ down' \in Seq(Messages) /\ DOMAIN down' = 1..Len(down')
        /\ Len(down') = Len(down) + Len(ms)
        /\ \A k \in 1..Len(down) : down'[k] = down[k]
        /\ \A k \in 1..Len(ms) : down'[Len(down) + k] = ms[k]
  <2> DEFINE M == Messages
             d == down'
  <2> SUFFICES ASSUME worker.phase # "never"
               PROVE  /\ d \in Seq(Messages) /\ DOMAIN d = 1..Len(d)
                      /\ Len(d) = Len(down) + Len(ms)
                      /\ \A k \in 1..Len(down) : d[k] = down[k]
                      /\ \A k \in 1..Len(ms) : d[Len(down) + k] = ms[k]
    OBVIOUS
  <2>1. down \in Seq(M) /\ ms \in Seq(M) /\ d = down \o ms
    BY <1>1, <1>2
  <2> HIDE DEF M, d
  <2>2. /\ d \in Seq(M) /\ DOMAIN d = 1..Len(d)
        /\ Len(d) = Len(down) + Len(ms)
        /\ \A k \in 1..Len(down) : d[k] = down[k]
        /\ \A k \in 1..Len(ms) : d[Len(down) + k] = ms[k]
    BY <2>1, Joined
  <2> QED BY <2>2 DEF M
<1>4. DOMAIN down = 1..Len(down) /\ Len(down) \in Nat /\ DOMAIN ms = 1..Len(ms) /\ Len(ms) \in Nat
  BY <1>2
<1>5. WorkerTyped'
  BY <1>1, <1>2, <1>3 DEF WorkerTyped, Workers
<1>6. ASSUME worker.phase # "never", NEW k \in DOMAIN down
      PROVE  k \in DOMAIN down' /\ down'[k] = down[k]
  BY <1>3, <1>4, <1>6
<1>7. ASSUME worker.phase # "never", NEW k \in DOMAIN ms
      PROVE  Len(down) + k \in DOMAIN down' /\ down'[Len(down) + k] = ms[k]
  BY <1>3, <1>4, <1>7
<1>8. ASSUME NEW t, Ended(t) PROVE Ended(t)'
  BY <1>1, <1>6, <1>8 DEF Ended
<1>9. ASSUME NEW k \in DOMAIN ms, NEW t \in Tokens, IsResolve(ms[k], t), worker.token = t
      PROVE  Ended(t)'
  BY <1>1, <1>7, <1>9 DEF Ended, Tokens
<1>10. ASSUME NEW n \in LetGo' PROVE n \in LetGo \/ \E k \in DOMAIN ms : IsRelease(ms[k], n)
  <2>1. CASE n \in released
    BY <2>1 DEF LetGo
  <2>2. CASE n \notin released
    <3>1. n \in Tokens /\ \E c \in DOMAIN down' : IsRelease(down'[c], n)
      BY <1>1, <1>10, <2>2 DEF LetGo
    <3>2. PICK c \in DOMAIN down' : IsRelease(down'[c], n)
      BY <3>1
    <3>3. worker.phase # "never"
      BY <1>1, <3>2
    <3>4. CASE c \in DOMAIN down
      BY <3>1, <3>2, <3>3, <3>4, <1>6 DEF LetGo
    <3>5. CASE c \notin DOMAIN down
      <4>1. c - Len(down) \in DOMAIN ms /\ c = Len(down) + (c - Len(down))
        BY <1>3, <1>4, <3>2, <3>3, <3>5
      <4>2. down'[c] = ms[c - Len(down)]
        BY <1>3, <1>4, <3>3, <4>1
      <4> QED BY <4>1, <4>2, <3>2
    <3> QED BY <3>4, <3>5
  <2> QED BY <2>1, <2>2
<1> QED BY <1>5, <1>8, <1>9, <1>10

\* A step of the pane keeps the flow in order.
LEMMA StepOfFlow ==
    ASSUME WorkerTyped, NEW ms, NEW y, Post(ms), UNCHANGED <<worker, history>>,
           Sends(ms, Held', eaten', y, sent, FlowNow, Held, eaten)
    PROVE  /\ FlowsOK'
           /\ \A n \in Nat : y < n /\ Below(n, FlowNow, Held, eaten, sent) =>
                Below(n, FlowNow', Held', eaten', sent')
<1> DEFINE h == Held'
           e == eaten'
           v == FlowNow \o ms
<1>1. ms \in Seq(Messages) /\ Good(sent, v, h, e)
  BY DEF Sends
<1>2. /\ sent' = sent
      /\ worker.phase # "never" => FlowNow' = v
      /\ worker.phase = "never" => FlowNow' = <<>> /\ sent' = <<>>
  BY <1>1, PostedFlow
<1>3. \A n \in Nat : y < n /\ Below(n, FlowNow, Held, eaten, sent) => Below(n, v, h, e, sent)
  BY DEF Sends
<1> HIDE DEF h, e, v
<1>4. Good(sent', FlowNow', h, e)
  <2>1. CASE worker.phase # "never"
    BY <2>1, <1>1, <1>2
  <2>2. CASE worker.phase = "never"
    <3>1. h \subseteq Presses /\ e \subseteq Eaten
      BY <1>1 DEF Good, FlowOK
    <3>2. Good(<<>>, <<>>, h, e)
      BY <3>1, NothingInFlow
    <3> QED BY <3>2, <2>2, <1>2
  <2> QED BY <2>1, <2>2
<1>5. ASSUME NEW n \in Nat, y < n, Below(n, FlowNow, Held, eaten, sent)
      PROVE  Below(n, FlowNow', h, e, sent')
  <2>1. Below(n, v, h, e, sent)
    BY <1>3, <1>5
  <2>2. CASE worker.phase # "never"
    BY <2>1, <2>2, <1>2
  <2>3. CASE worker.phase = "never"
    BY <2>1, <2>3, <1>2 DEF Below
  <2> QED BY <2>2, <2>3
<1> QED BY <1>4, <1>5 DEF FlowsOK, h, e

-----------------------------------------------------------------------------
(* Inputs that are handled.                                                *)

\* The outcome of a step of the pane about an input of the number y, or 0.
Fed(y) ==
    /\ WorkerTyped' /\ FlowsOK' /\ Owned'
    /\ \A n \in Nat : y < n /\ Below(n, FlowNow, Held, eaten, sent) =>
         Below(n, FlowNow', Held', eaten', sent')

\* Whatever sequence the pane had goes on, or the messages ms resolve it.
HandsOver(ms, h, h2) ==
    TokenOf(h) # 0 /\ TokenOf(h2) # TokenOf(h) =>
      \E k \in DOMAIN ms : IsResolve(ms[k], TokenOf(h))

\* The messages ms of a pane's step are sent and change nothing else.
LEMMA FedBy ==
    ASSUME WorkerTyped, Owned, NEW ms, NEW y, Post(ms), UNCHANGED <<worker, history>>,
           Sends(ms, Held', eaten', y, sent, FlowNow, Held, eaten),
           HandsOver(ms, Held, Held')
    PROVE  /\ Fed(y)
           /\ \A n \in LetGo' : n \in LetGo \/ \E k \in DOMAIN ms : IsRelease(ms[k], n)
<1>1. ms \in Seq(Messages)
  BY DEF Sends
<1>2. /\ WorkerTyped'
      /\ \A t : Ended(t) => Ended(t)'
      /\ \A k \in DOMAIN ms : \A t \in Tokens :
           IsResolve(ms[k], t) /\ worker.token = t => Ended(t)'
      /\ \A n \in LetGo' : n \in LetGo \/ \E k \in DOMAIN ms : IsRelease(ms[k], n)
  BY <1>1, PostedMessages
<1>3. /\ FlowsOK'
      /\ \A n \in Nat : y < n /\ Below(n, FlowNow, Held, eaten, sent) =>
           Below(n, FlowNow', Held', eaten', sent')
  BY StepOfFlow
<1>4. Owned'
  <2> SUFFICES ASSUME worker.token # 0, worker.token # TokenOf(Held')
               PROVE  Ended(worker.token)'
    <3>1. worker' = worker
      OBVIOUS
    <3> QED BY <3>1 DEF Owned, Ended
  <2>1. CASE Ended(worker.token)
    BY <2>1, <1>2
  <2>2. CASE ~Ended(worker.token)
    <3>1. worker.token = TokenOf(Held)
      BY <2>2 DEF Owned
    <3>2. PICK k \in DOMAIN ms : IsResolve(ms[k], worker.token)
      BY <3>1 DEF HandsOver
    <3>3. worker.token \in Tokens
      BY WorkerType DEF Tokens
    <3> QED BY <3>2, <3>3, <1>2
  <2> QED BY <2>1, <2>2
<1> QED BY <1>2, <1>3, <1>4 DEF Fed

\* To post nothing is to leave the queue alone.
LEMMA PostsNothing ==
    ASSUME WorkerTyped, UNCHANGED down
    PROVE  Post(<<>>)
BY DEF Post, WorkerTyped

\* What handling the press i comes to.
PressDone(i) ==
    /\ Fed(i.n)
    /\ LetGo' \subseteq LetGo
    /\ consumed' = consumed
    /\ \/ /\ chain' = NoChain
          /\ leaders' = {} \/ leaders' = leaders \cup {i}
       \/ /\ chain' \in Chains /\ chain' # NoChain /\ chain'.press = i
          /\ leaders' = {} /\ Held' = Held
    /\ leaders' \subseteq Presses
    /\ \A x \in eaten' : x \in eaten \/ (x.kind = "press" /\ x.n <= i.n)
    /\ EatenBefore(eaten', Held')
    /\ \A n \in Limits' : n = typed' + 1 \/ n = i.n
         \/ \E k \in DOMAIN deferred' : IsTyped(deferred'[k]) /\ n = deferred'[k].n
    /\ chain' # NoChain => Below(i.n, FlowNow', Held', eaten', sent')

\* Messages without a key carry no release.
LEMMA NoReleases ==
    ASSUME NEW m, m.kind # "key"
    PROVE  \A k \in DOMAIN <<m>> : \A n : ~IsRelease(<<m>>[k], n)
BY DEF IsRelease

\* Without a chain the leaders in the pane's hands are those of its sequence.
LEMMA HeldOpen ==
    ASSUME PaneTyped, chain = NoChain
    PROVE  Held = leaders /\ leaders \subseteq Presses /\ \A l \in leaders : l.n \in Tokens
BY DEF PaneTyped, Held, Presses, Inputs, Tokens

\* A press that is not deferred is handled (handleConfiguredShortcut).
LEMMA PressIsDone ==
    ASSUME PaneTyped, WorkerTyped, FlowsOK, Owned, EatenBefore(eaten, Held),
           chain = NoChain, NEW i \in Presses, Below(i.n, FlowNow, Held, eaten, sent),
           HandlePress(i), UNCHANGED <<worker, history>>,
           UNCHANGED focus, i.focus \in 0..MaxLosses
    PROVE  PressDone(i)
<1> DEFINE h == Held
           e == eaten
           v == FlowNow
           s == sent
           y == i.n
           h2 == Held'
           e2 == eaten'
<1>1. /\ Good(s, v, h, e) /\ Below(y, v, h, e, s) /\ EatenBefore(e, h)
      /\ h = leaders /\ h \subseteq Presses /\ \A l \in h : l.n \in Tokens
  BY HeldOpen DEF FlowsOK
<1>2. /\ i \in Inputs /\ IsTyped(i) /\ y \in Nat /\ y \in Tokens
  BY DEF Presses, Inputs, IsTyped, Tokens
<1>3. Limits' = {typed' + 1} \cup (IF chain' = NoChain THEN {} ELSE {chain'.press.n})
                \cup {deferred'[k].n : k \in {j \in DOMAIN deferred' : IsTyped(deferred'[j])}}
  BY DEF Limits
<1>4. ASSUME chain' = NoChain \/ chain'.press = i
      PROVE  \A n \in Limits' : n = typed' + 1 \/ n = i.n
               \/ \E k \in DOMAIN deferred' : IsTyped(deferred'[k]) /\ n = deferred'[k].n
  BY <1>3, <1>4
<1>5. ASSUME chain' = NoChain PROVE h2 = leaders'
  BY <1>5 DEF Held
<1>6. \A x \in e, l \in h : x.kind = "press" => x.n < l.n
  BY <1>1 DEF EatenBefore
<1>7. \A x \in e : x.kind = "press" => x.n < y
  BY <1>1 DEF Below
<1> HIDE DEF h, e, v, s, h2, e2
<1>10. CASE PressUnmatched(i)
  <2> DEFINE ms == <<Key(i)>>
  <2>1. Post(ms) /\ chain' = NoChain /\ leaders' = {} /\ e2 = e /\ consumed' = consumed /\ h = {}
    BY <1>1, <1>10 DEF PressUnmatched, bindings, e, e2
  <2>2. h2 = h
    BY <2>1, <1>5
  <2>3. Sends(ms, h, e, y, s, v, h, e)
    <3>1. \A l \in h : Overtakes(i, l)
      BY <2>1
    <3> HIDE DEF y
    <3>2. IsTyped(i) => Below(i.n, v, h, e, s) /\ \A l \in h : Overtakes(i, l)
      BY <1>1, <3>1 DEF y
    <3>3. IsTyped(i) => y = i.n
      BY DEF y
    <3> QED BY <1>1, <1>2, <3>2, <3>3, SendsKey
  <2>4. HandsOver(ms, h, h2)
    BY <2>2 DEF HandsOver
  <2>5. \A k \in DOMAIN ms : \A n : ~IsRelease(ms[k], n)
    <3>1. \A k \in DOMAIN ms : ms[k] = Key(i)
      OBVIOUS
    <3> QED BY <3>1, <1>2, SitsOfKey DEF IsRelease
  <2> HIDE DEF ms
  <2>6. Fed(y) /\ LetGo' \subseteq LetGo
    <3>1. Sends(ms, Held', eaten', y, sent, FlowNow, Held, eaten) /\ HandsOver(ms, Held, Held')
      BY <2>1, <2>2, <2>3, <2>4 DEF h, e, v, s, h2, e2
    <3> HIDE DEF y
    <3> QED BY <2>1, <2>5, <3>1, FedBy
  <2>7. EatenBefore(e2, h2)
    BY <2>1, <2>2, <1>1
  <2> QED BY <2>1, <2>6, <2>7, <1>1, <1>4 DEF PressDone, h2, e2, e
<1>11. CASE PressLeads(i)
  <2> DEFINE g == h \cup {i}
             ms == <<Stage(TokenOf(g), i)>>
  <2>1. /\ Post(ms) /\ chain' = NoChain /\ leaders' = leaders \cup {i} /\ e2 = e
        /\ consumed' = consumed
    BY <1>1, <1>11 DEF PressLeads, e, e2
  <2>2. h2 = g
    BY <2>1, <1>1, <1>5
  <2>3. Sends(ms, g, e, y, s, v, h, e)
    BY <1>1, SendsLeader
  <2>4. HandsOver(ms, h, h2)
    <3>1. \A l \in h : l.n < i.n
      BY <1>1 DEF Below
    <3>2. h = {} => TokenOf(h) = 0
      BY <1>1, TokenFacts
    <3>3. h # {} => TokenOf(g) = TokenOf(h)
      BY <1>1, <3>1, TokenOfMore
    <3> QED BY <2>2, <3>2, <3>3 DEF HandsOver
  <2>5. \A k \in DOMAIN ms : \A n : ~IsRelease(ms[k], n)
    BY DEF IsRelease, Stage
  <2> HIDE DEF ms, g
  <2>6. Fed(y) /\ LetGo' \subseteq LetGo
    <3>1. Sends(ms, Held', eaten', y, sent, FlowNow, Held, eaten) /\ HandsOver(ms, Held, Held')
      BY <2>1, <2>2, <2>3, <2>4 DEF h, e, v, s, h2, e2
    <3> HIDE DEF y
    <3> QED BY <2>1, <2>5, <3>1, FedBy
  <2>7. EatenBefore(e2, h2)
    BY <2>1, <2>2, <1>6, <1>7 DEF EatenBefore, g
  <2>8. leaders' \subseteq Presses
    BY <2>1, <1>1
  <2> QED BY <2>1, <2>6, <2>7, <2>8, <1>4 DEF PressDone, h2, e2, e
<1>12. CASE PressInvalid(i)
  <2> DEFINE ms == Through(h, i)
  <2>1. /\ Post(ms) /\ chain' = NoChain /\ leaders' = {} /\ e2 = e
        /\ consumed' = consumed /\ h # {}
    BY <1>1, <1>12 DEF PressInvalid, e, e2
  <2>2. h2 = {}
    BY <2>1, <1>5
  <2>3. Sends(ms, {}, e, y, s, v, h, e)
    BY <1>1, SendsThrough
  <2>4. /\ HandsOver(ms, h, h2)
        /\ \A k \in DOMAIN ms : \A n : ~IsRelease(ms[k], n)
    <3> DEFINE r == Resolve(TokenOf(h), TRUE, <<i>>)
    <3>1. ms = <<r>>
      BY <2>1 DEF Through
    <3>2. IsResolve(r, TokenOf(h))
      BY DEF Resolve, IsResolve
    <3> HIDE DEF r, ms
    <3>3. DOMAIN ms = {1} /\ IsResolve(ms[1], TokenOf(h))
      BY <3>1, <3>2
    <3> QED BY <3>3 DEF HandsOver, IsResolve, IsRelease
  <2> HIDE DEF ms
  <2>6. Fed(y) /\ LetGo' \subseteq LetGo
    <3>1. Sends(ms, Held', eaten', y, sent, FlowNow, Held, eaten) /\ HandsOver(ms, Held, Held')
      BY <2>1, <2>2, <2>3, <2>4 DEF h, e, v, s, h2, e2
    <3> HIDE DEF y
    <3> QED BY <2>1, <2>4, <3>1, FedBy
  <2>7. EatenBefore(e2, h2)
    BY <2>2 DEF EatenBefore
  <2> QED BY <2>1, <2>6, <2>7, <1>4 DEF PressDone, h2, e2, e
<1>13. CASE PressIgnored(i)
  <2> DEFINE ms == Dropped(h)
  <2>1. /\ Post(ms) /\ chain' = NoChain /\ leaders' = {}
        /\ e2 = e \cup {Press(p) : p \in h \cup {i}}
        /\ consumed' = consumed /\ h # {}
    BY <1>1, <1>13 DEF PressIgnored, e, e2
  <2>2. h2 = {}
    BY <2>1, <1>5
  <2>0. \A p \in h \cup {i} : /\ Press(p) \in Eaten /\ Press(p).kind = "press"
                              /\ Press(p).n = p.n /\ p.n <= y
    <3>1. \A l \in h : l.n < y
      BY <1>1 DEF Below
    <3> QED BY <3>1, <1>1, <1>2 DEF Press, Eaten, Tokens
  <2>3. Sends(ms, {}, e2, y, s, v, h, e)
    <3>1. EatenToo(e2, y, s, v, h, e)
      <4>1. e \subseteq Eaten
        BY <1>1, FlowType
      <4>2. e2 \subseteq Eaten
        BY <4>1, <2>0, <2>1
      <4>3. ASSUME NEW x \in e2, x.kind = "press"
            PROVE  x \in e \/ (\E l \in h : x.n = l.n) \/ (x.n = y /\ Below(y, v, h, e, s))
        BY <4>3, <2>0, <2>1, <1>1
      <4> QED BY <4>2, <4>3 DEF EatenToo
    <3> QED BY <1>1, <3>1, SendsDropped
  <2>4. /\ HandsOver(ms, h, h2)
        /\ \A k \in DOMAIN ms : \A n : ~IsRelease(ms[k], n)
    <3> DEFINE r == Resolve(TokenOf(h), FALSE, <<>>)
    <3>1. ms = <<r>>
      BY <2>1 DEF Dropped
    <3>2. IsResolve(r, TokenOf(h))
      BY DEF Resolve, IsResolve
    <3> HIDE DEF r, ms
    <3>3. DOMAIN ms = {1} /\ IsResolve(ms[1], TokenOf(h))
      BY <3>1, <3>2
    <3> QED BY <3>3 DEF HandsOver, IsResolve, IsRelease
  <2> HIDE DEF ms
  <2>6. Fed(y) /\ LetGo' \subseteq LetGo
    <3>1. Sends(ms, Held', eaten', y, sent, FlowNow, Held, eaten) /\ HandsOver(ms, Held, Held')
      BY <2>2, <2>3, <2>4 DEF h, e, v, s, h2, e2
    <3> HIDE DEF y
    <3> QED BY <2>1, <2>4, <3>1, FedBy
  <2>7. EatenBefore(e2, h2)
    BY <2>2 DEF EatenBefore
  <2>8. \A x \in e2 : x \in e \/ (x.kind = "press" /\ x.n <= i.n)
    BY <2>0, <2>1
  <2> QED BY <2>1, <2>6, <2>7, <2>8, <1>4 DEF PressDone, h2, e2, e
<1>14. CASE PressBinds(i)
  <2> DEFINE ms == <<>>
  <2>1. /\ leaders' = {} /\ e2 = e /\ consumed' = consumed /\ down' = down
        /\ chain' = [phase |-> "running", press |-> i, focus |-> focus,
                     leaders |-> leaders, left |-> MaxAsked,
                     performed |-> FALSE, delayed |-> FALSE]
    BY <1>14 DEF PressBinds, e, e2
  <2>2. /\ chain' # NoChain /\ chain'.press = i /\ chain'.leaders = leaders
    BY <2>1 DEF NoChain
  <2>3. chain' \in Chains
    <3>1. MaxAsked \in 0..MaxAsked
      BY InputAssumption
    <3> QED BY <2>1, <3>1, <1>1 DEF Chains, PaneTyped
  <2>4. h2 = h
    BY <2>2, <1>1 DEF Held, h2
  <2>5. Post(ms)
    BY <2>1, PostsNothing
  <2>6. Sends(ms, h, e, y, s, v, h, e)
    BY <1>1, SendsNothing
  <2>7. HandsOver(ms, h, h2)
    BY <2>4 DEF HandsOver
  <2>8. \A k \in DOMAIN ms : \A n : ~IsRelease(ms[k], n)
    OBVIOUS
  <2> HIDE DEF ms
  <2>9. Fed(y) /\ LetGo' \subseteq LetGo
    <3>1. Sends(ms, Held', eaten', y, sent, FlowNow, Held, eaten) /\ HandsOver(ms, Held, Held')
      BY <2>1, <2>4, <2>6, <2>7 DEF h, e, v, s, h2, e2
    <3> HIDE DEF y
    <3> QED BY <2>5, <2>8, <3>1, FedBy
  <2>10. EatenBefore(e2, h2)
    BY <2>1, <2>4, <1>1
  <2>11. Below(y, FlowNow', h2, e2, sent')
    <3>1. FlowNow' = v /\ sent' = s
      BY <2>1 DEF FlowNow, v, s, history
    <3> QED BY <3>1, <2>1, <2>4, <1>1
  <2>12. h2 = h
    BY <2>4
  <2> QED BY <2>1, <2>2, <2>3, <2>9, <2>10, <2>11, <2>12, <1>4 DEF PressDone, h2, e2, e, h
<1> QED BY <1>10, <1>11, <1>12, <1>13, <1>14 DEF HandlePress

\* A release that is not deferred is handled (keyReleaseEvent).
LEMMA ReleaseIsDone ==
    ASSUME PaneTyped, WorkerTyped, FlowsOK, Owned, chain = NoChain,
           NEW i \in Inputs, i.kind = "release",
           HandleRelease(i), UNCHANGED <<worker, history>>
    PROVE  /\ Fed(0)
           /\ leaders' = leaders /\ eaten' = eaten /\ chain' = chain /\ Held' = Held
           /\ consumed' = {c \in consumed : c.key # i.key}
           /\ \A n \in LetGo' : n \in LetGo \/ n = i.n
           /\ (\E c \in consumed : c.key = i.key) => LetGo' \subseteq LetGo
<1> DEFINE ms == IF {c \in consumed : c.key = i.key} = {} THEN <<Key(i)>> ELSE <<>>
           y == 0
<1>1. /\ leaders' = leaders /\ eaten' = eaten /\ chain' = chain /\ Post(ms)
      /\ consumed' = {c \in consumed : c.key # i.key}
  BY DEF HandleRelease
<1>2. Held' = Held
  BY <1>1 DEF Held
<1>3. Good(sent, FlowNow, Held, eaten) /\ ~IsTyped(i)
  BY DEF FlowsOK, IsTyped
<1>4. (\E c \in consumed : c.key = i.key) => ms = <<>>
  OBVIOUS
<1>5. ms = <<Key(i)>> \/ ms = <<>>
  OBVIOUS
<1> HIDE DEF ms, y
<1>6. Sends(ms, Held, eaten, y, sent, FlowNow, Held, eaten)
  <2>1. CASE ms = <<Key(i)>>
    <3>1. Sends(<<Key(i)>>, Held, eaten, y, sent, FlowNow, Held, eaten)
      BY <1>3, SendsKey
    <3> QED BY <2>1, <3>1
  <2>2. CASE ms = <<>>
    <3>1. Sends(<<>>, Held, eaten, y, sent, FlowNow, Held, eaten)
      BY <1>3, SendsNothing
    <3> QED BY <2>2, <3>1
  <2> QED BY <1>5, <2>1, <2>2
<1>7. Sends(ms, Held', eaten', y, sent, FlowNow, Held, eaten) /\ HandsOver(ms, Held, Held')
  BY <1>1, <1>2, <1>6 DEF HandsOver
<1>8. /\ Fed(y)
      /\ \A n \in LetGo' : n \in LetGo \/ \E k \in DOMAIN ms : IsRelease(ms[k], n)
  BY <1>1, <1>7, FedBy
<1>9. \A k \in DOMAIN ms : \A n : IsRelease(ms[k], n) => n = i.n
  <2>1. CASE ms = <<>>
    BY <2>1
  <2>2. CASE ms = <<Key(i)>>
    <3>1. Key(i).item = i
      BY DEF Key
    <3> QED BY <2>2, <3>1 DEF IsRelease
  <2> QED BY <1>5, <2>1, <2>2
<1> QED BY <1>1, <1>2, <1>4, <1>8, <1>9 DEF y

\* A press or a commit is no release.
LEMMA KeyIsNoRelease ==
    ASSUME NEW i \in Inputs, IsTyped(i)
    PROVE  \A n : ~IsRelease(Key(i), n)
BY SitsOfKey DEF IsRelease

\* A commit that was deferred is handled (drainDeferredKeyEvents).
LEMMA CommitIsDone ==
    ASSUME PaneTyped, WorkerTyped, FlowsOK, Owned, chain = NoChain,
           NEW i \in Inputs, i.kind = "commit", i.late, \A l \in leaders : l.late,
           Below(i.n, FlowNow, Held, eaten, sent),
           Commit(i), UNCHANGED <<worker, history>>
    PROVE  /\ Fed(i.n)
           /\ leaders' = leaders /\ eaten' = eaten /\ chain' = chain /\ Held' = Held
           /\ consumed' = consumed
           /\ LetGo' \subseteq LetGo
<1> DEFINE ms == <<Key(i)>>
           y == i.n
<1>1. /\ leaders' = leaders /\ eaten' = eaten /\ chain' = chain /\ Post(ms)
      /\ consumed' = consumed
  BY DEF Commit, bindings
<1>2. Held' = Held /\ Held = leaders
  BY <1>1, HeldOpen DEF Held
<1>3. Good(sent, FlowNow, Held, eaten) /\ IsTyped(i)
  BY DEF FlowsOK, IsTyped
<1>4. IsTyped(i) => Below(i.n, FlowNow, Held, eaten, sent) /\ \A l \in Held : Overtakes(i, l)
  BY <1>2 DEF Overtakes
<1>5. IsTyped(i) => y = i.n
  OBVIOUS
<1> HIDE DEF y
<1>6. Sends(ms, Held, eaten, y, sent, FlowNow, Held, eaten)
  BY <1>3, <1>4, <1>5, SendsKey
<1>7. Sends(ms, Held', eaten', y, sent, FlowNow, Held, eaten) /\ HandsOver(ms, Held, Held')
  BY <1>1, <1>2, <1>6 DEF HandsOver
<1>9. \A k \in DOMAIN ms : \A n : ~IsRelease(ms[k], n)
  <2>1. \A k \in DOMAIN ms : ms[k] = Key(i)
    OBVIOUS
  <2> QED BY <2>1, <1>3, KeyIsNoRelease
<1> HIDE DEF ms
<1>8. /\ Fed(y)
      /\ \A n \in LetGo' : n \in LetGo \/ \E k \in DOMAIN ms : IsRelease(ms[k], n)
  BY <1>1, <1>7, FedBy
<1> QED BY <1>1, <1>2, <1>8, <1>9 DEF y

\* The message that drops a sequence, if there is one, ends it.
LEMMA DroppedMessages ==
    ASSUME NEW h
    PROVE  /\ \A k \in DOMAIN Dropped(h) : \A n : ~IsRelease(Dropped(h)[k], n)
           /\ h # {} => Len(Dropped(h)) = 1 /\ IsResolve(Dropped(h)[1], TokenOf(h))
           /\ h = {} => Dropped(h) = <<>>
           /\ \A S : Dropped(h) \in Seq(S) => Len(Dropped(h)) \in Nat
                       /\ DOMAIN Dropped(h) = 1..Len(Dropped(h))
<1> DEFINE r == Resolve(TokenOf(h), FALSE, <<>>)
           ms == Dropped(h)
<1>1. IsResolve(r, TokenOf(h)) /\ \A n : ~IsRelease(r, n)
  BY DEF Resolve, IsResolve, IsRelease
<1>2. ms = IF h = {} THEN <<>> ELSE <<r>>
  BY DEF Dropped
<1> HIDE DEF r, ms
<1>3. CASE h = {}
  BY <1>2, <1>3 DEF ms
<1>4. CASE h # {}
  <2>1. ms = <<r>> /\ DOMAIN ms = {1} /\ ms[1] = r /\ Len(ms) = 1
    BY <1>2, <1>4
  <2> QED BY <1>1, <1>4, <2>1 DEF ms
<1> QED BY <1>3, <1>4

\* A sequence that is cancelled adds its leaders to the eaten.
LEMMA EatenByCancel ==
    ASSUME PaneTyped
    PROVE  LET e == eaten \cup {Press(p) : p \in leaders} IN
           /\ e \subseteq Eaten
           /\ \A x \in e : x \in eaten \/ (x.kind = "press" /\ \E l \in leaders : x.n = l.n)
<1>1. \A p \in leaders : p.n \in Tokens
  BY DEF PaneTyped, Presses, Inputs, Tokens
<1> QED BY <1>1 DEF Press, Eaten, Tokens, PaneTyped

\* The sequence is cancelled; while a chain runs there is none.
LEMMA CancelIsDone ==
    ASSUME PaneTyped, WorkerTyped, FlowsOK, Owned, chain # NoChain => leaders = {},
           EatenBefore(eaten, Held),
           CancelSequence, Post(Dropped(leaders)), UNCHANGED <<chain, worker, history>>
    PROVE  /\ Fed(0)
           /\ eaten' \subseteq Eaten /\ EatenBefore(eaten', Held')
           /\ LetGo' \subseteq LetGo
<1> DEFINE ms == Dropped(leaders)
           y == 0
           h == Held
           h2 == Held'
           e2 == eaten'
<1>1. /\ leaders' = {} /\ e2 = eaten \cup {Press(p) : p \in leaders} /\ chain' = chain
  BY DEF CancelSequence
<1>2. Good(sent, FlowNow, h, eaten)
  BY DEF FlowsOK
<1>3. /\ e2 \subseteq Eaten
      /\ \A x \in e2 : x \in eaten \/ (x.kind = "press" /\ \E l \in leaders : x.n = l.n)
  BY <1>1, EatenByCancel
<1>4. /\ chain = NoChain => h = leaders /\ h2 = {}
      /\ chain # NoChain => h2 = h /\ leaders = {} /\ e2 = eaten
  BY <1>1 DEF Held
<1>5. EatenBefore(eaten, h)
  OBVIOUS
<1> HIDE DEF h, h2, e2, y
<1>6. Sends(ms, h2, e2, y, sent, FlowNow, h, eaten) /\ HandsOver(ms, h, h2)
  <2>1. CASE chain = NoChain
    <3>1. EatenToo(e2, y, sent, FlowNow, h, eaten)
      BY <1>3, <1>4, <2>1 DEF EatenToo
    <3>2. Sends(Dropped(h), {}, e2, y, sent, FlowNow, h, eaten)
      BY <1>2, <3>1, SendsDropped
    <3>3. HandsOver(ms, h, h2)
      <4>1. h = {} => TokenOf(h) = 0
        BY DEF TokenOf
      <4>2. h # {} => 1 \in DOMAIN Dropped(h) /\ IsResolve(Dropped(h)[1], TokenOf(h))
        <5>1. Dropped(h) \in Seq(Messages)
          BY <3>2 DEF Sends
        <5> QED BY <5>1, DroppedMessages
      <4> QED BY <4>1, <4>2, <1>4, <2>1 DEF HandsOver
    <3> QED BY <3>2, <3>3, <1>4, <2>1
  <2>2. CASE chain # NoChain
    <3>1. ms = <<>>
      BY <1>4, <2>2, DroppedMessages
    <3>2. Sends(<<>>, h, eaten, y, sent, FlowNow, h, eaten)
      BY <1>2, SendsNothing
    <3> QED BY <3>1, <3>2, <1>4, <2>2 DEF HandsOver
  <2> QED BY <2>1, <2>2
<1>7. \A k \in DOMAIN ms : \A n : ~IsRelease(ms[k], n)
  BY DroppedMessages
<1>8. EatenBefore(e2, h2)
  BY <1>4, <1>5 DEF EatenBefore
<1>9. Post(ms)
  OBVIOUS
<1> HIDE DEF ms
<1>10. /\ Fed(y)
       /\ \A n \in LetGo' : n \in LetGo \/ \E k \in DOMAIN ms : IsRelease(ms[k], n)
  <2>1. Sends(ms, Held', eaten', y, sent, FlowNow, Held, eaten) /\ HandsOver(ms, Held, Held')
    BY <1>6 DEF h, h2, e2
  <2> QED BY <2>1, <1>9, FedBy
<1> QED BY <1>3, <1>7, <1>8, <1>10 DEF h2, e2, y

\* ... and text is committed.
LEMMA CancelAndCommitIsDone ==
    ASSUME PaneTyped, WorkerTyped, FlowsOK, Owned, chain = NoChain,
           NEW i \in Inputs, i.kind = "commit", Below(i.n, FlowNow, Held, eaten, sent),
           CancelSequence, Post(Append(Dropped(leaders), Key(i))),
           UNCHANGED <<chain, worker, history>>
    PROVE  /\ Fed(i.n)
           /\ eaten' \subseteq Eaten /\ EatenBefore(eaten', Held')
           /\ LetGo' \subseteq LetGo
<1> DEFINE d == Dropped(leaders)
           k1 == <<Key(i)>>
           ms == d \o k1
           y == i.n
           z == 0
           h == Held
           h2 == Held'
           e2 == eaten'
           v == FlowNow
<1>1. /\ h2 = {} /\ e2 = eaten \cup {Press(p) : p \in leaders}
  BY DEF CancelSequence, Held
<1>2. Good(sent, v, h, eaten) /\ h = leaders /\ v \in Seq(Messages)
  BY HeldOpen, WorkerType DEF FlowsOK
<1>3. /\ e2 \subseteq Eaten
      /\ \A x \in e2 : x \in eaten \/ (x.kind = "press" /\ \E l \in leaders : x.n = l.n)
  BY <1>1, EatenByCancel
<1>4. IsTyped(i) /\ y \in Nat /\ z <= y /\ z < y /\ z \in Nat
  BY DEF IsTyped, Inputs
<1>5. Below(i.n, v, h, eaten, sent)
  OBVIOUS
<1>6. d = Dropped(h)
  BY <1>2
<1>0. i.n \in Nat /\ z < i.n
  BY <1>4
<1>7. Key(i) \in Messages
  BY SitsOfKey
<1> HIDE DEF h, h2, e2, y, z, v
<1>8. Sends(d, {}, e2, z, sent, v, h, eaten)
  <2>1. EatenToo(e2, z, sent, v, h, eaten)
    BY <1>2, <1>3 DEF EatenToo
  <2> QED BY <1>2, <1>6, <2>1, SendsDropped
<1>9. d \in Seq(Messages)
  BY <1>8 DEF Sends
<1>10. Sends(k1, {}, e2, y, sent, v \o d, {}, e2)
  <2> DEFINE g == {}
             w == v \o d
  <2>1. Good(sent, w, g, e2)
    BY <1>8 DEF Sends
  <2>2. Below(i.n, w, g, e2, sent)
    BY <1>0, <1>5, <1>8 DEF Sends
  <2>3. \A l \in g : Overtakes(i, l)
    OBVIOUS
  <2>4. IsTyped(i) => y = i.n
    BY DEF y
  <2> HIDE DEF g, w
  <2>5. Sends(<<Key(i)>>, g, e2, y, sent, w, g, e2)
    BY <2>1, <2>2, <2>3, <2>4, SendsKey
  <2> QED BY <2>5 DEF g, w
<1>11. Sends(ms, h2, e2, y, sent, v, h, eaten)
  <2> DEFINE g == {}
  <2>1. Sends(d, g, e2, z, sent, v, h, eaten) /\ Sends(k1, g, e2, y, sent, v \o d, g, e2)
    BY <1>8, <1>10
  <2> HIDE DEF g, d, k1
  <2>2. Sends(d \o k1, g, e2, y, sent, v, h, eaten)
    BY <1>2, <1>4, <2>1, SendsBoth
  <2> QED BY <2>2, <1>1 DEF g
<1>12. /\ DOMAIN ms = 1..(Len(d) + 1) /\ Len(d) \in Nat
       /\ \A k \in 1..Len(d) : ms[k] = d[k]
       /\ ms[Len(d) + 1] = Key(i)
       /\ ms = Append(d, Key(i))
  <2> HIDE DEF d
  <2> QED BY <1>7, <1>9
<1>13. HandsOver(ms, h, h2)
  <2>1. h = {} => TokenOf(h) = 0
    BY DEF TokenOf
  <2>2. h # {} => Len(d) = 1 /\ IsResolve(d[1], TokenOf(h))
    BY <1>6, DroppedMessages
  <2> HIDE DEF ms, d
  <2>3. h # {} => 1 \in DOMAIN ms /\ IsResolve(ms[1], TokenOf(h))
    BY <1>12, <2>2
  <2> QED BY <2>1, <2>3 DEF HandsOver
<1>14. \A k \in DOMAIN ms : \A n : ~IsRelease(ms[k], n)
  <2>1. \A k \in DOMAIN d : \A n : ~IsRelease(d[k], n)
    BY DroppedMessages
  <2>2. \A n : ~IsRelease(Key(i), n)
    BY <1>4, KeyIsNoRelease
  <2>3. DOMAIN d = 1..Len(d)
    BY <1>9
  <2> HIDE DEF ms, d
  <2>4. \A k \in DOMAIN ms : k \in DOMAIN d \/ k = Len(d) + 1
    BY <1>12, <2>3
  <2> QED BY <1>12, <2>1, <2>2, <2>3, <2>4
<1>15. Post(ms)
  BY <1>12
<1> HIDE DEF ms
<1>16. /\ Fed(y)
       /\ \A n \in LetGo' : n \in LetGo \/ \E k \in DOMAIN ms : IsRelease(ms[k], n)
  <2>1. Sends(ms, Held', eaten', y, sent, FlowNow, Held, eaten) /\ HandsOver(ms, Held, Held')
    BY <1>11, <1>13 DEF h, h2, e2, v
  <2> QED BY <2>1, <1>15, FedBy
<1>17. EatenBefore(e2, h2)
  BY <1>1 DEF EatenBefore
<1> QED BY <1>3, <1>14, <1>16, <1>17 DEF h2, e2, y

\* The sequence is let through.
LEMMA EndIsDone ==
    ASSUME WorkerTyped, FlowsOK, Owned, EatenBefore(eaten, Held), Held # {}, Held' = {},
           eaten' = eaten, Post(<<Resolve(TokenOf(Held), TRUE, <<>>)>>),
           UNCHANGED <<worker, history>>
    PROVE  Fed(0) /\ LetGo' \subseteq LetGo /\ EatenBefore(eaten', Held')
<1> DEFINE h == Held
           h2 == Held'
           c == <<>>
           r == Resolve(TokenOf(h), TRUE, c)
           ms == <<r>>
           y == 0
<1>1. Good(sent, FlowNow, h, eaten) /\ h # {} /\ h2 = {} /\ EatenBefore(eaten, h) /\ Post(ms)
  BY DEF FlowsOK
<1>2. /\ c = <<>> \/ \E p \in Presses : c = <<p>> /\ Below(p.n, FlowNow, h, eaten, sent)
      /\ \A p \in Presses : c = <<p>> => y = p.n
  OBVIOUS
<1> HIDE DEF h, h2, c, y
<1>3. Sends(ms, {}, eaten, y, sent, FlowNow, h, eaten)
  BY <1>1, <1>2, SendsFlush
<1>4. IsResolve(r, TokenOf(h)) /\ \A n : ~IsRelease(r, n)
  BY DEF Resolve, IsResolve, IsRelease
<1> HIDE DEF r
<1>5. HandsOver(ms, h, h2) /\ \A k \in DOMAIN ms : \A n : ~IsRelease(ms[k], n)
  <2>1. DOMAIN ms = {1} /\ ms[1] = r
    OBVIOUS
  <2> HIDE DEF ms
  <2> QED BY <2>1, <1>4 DEF HandsOver
<1> HIDE DEF ms
<1>6. Sends(ms, Held', eaten', y, sent, FlowNow, Held, eaten) /\ HandsOver(ms, Held, Held')
  BY <1>1, <1>3, <1>5 DEF h, h2
<1>7. /\ Fed(y)
      /\ \A n \in LetGo' : n \in LetGo \/ \E k \in DOMAIN ms : IsRelease(ms[k], n)
  BY <1>1, <1>6, FedBy
<1> QED BY <1>5, <1>7 DEF EatenBefore, y

\* A message that is no input, or none.
LEMMA IdleIsDone ==
    ASSUME WorkerTyped, FlowsOK, Owned, Held' = Held, eaten' \subseteq eaten,
           EatenBefore(eaten, Held), UNCHANGED <<worker, history>>,
           \/ UNCHANGED down
           \/ /\ eaten' = eaten
              /\ \E m \in Messages : m.kind \in {"action", "shutdown"} /\ Post(<<m>>)
    PROVE  Fed(0) /\ LetGo' \subseteq LetGo /\ EatenBefore(eaten', Held')
<1> DEFINE y == 0
           e2 == eaten'
<1>1. Good(sent, FlowNow, Held, eaten) /\ e2 \subseteq eaten
  BY DEF FlowsOK
<1>2. EatenBefore(eaten', Held')
  BY DEF EatenBefore
<1> HIDE DEF y, e2
<1>3. CASE UNCHANGED down
  <2>1. Sends(<<>>, Held, e2, y, sent, FlowNow, Held, eaten)
    BY <1>1, SendsNothing
  <2> DEFINE ms == <<>>
  <2>2. \A k \in DOMAIN ms : \A n : ~IsRelease(ms[k], n)
    OBVIOUS
  <2>3. Post(ms)
    BY <1>3, PostsNothing
  <2>4. Sends(ms, Held', eaten', y, sent, FlowNow, Held, eaten) /\ HandsOver(ms, Held, Held')
    BY <2>1 DEF HandsOver, e2
  <2> HIDE DEF ms
  <2>5. /\ Fed(y)
        /\ \A n \in LetGo' : n \in LetGo \/ \E k \in DOMAIN ms : IsRelease(ms[k], n)
    BY <2>3, <2>4, FedBy
  <2> QED BY <1>2, <2>2, <2>5 DEF y
<1>4. ASSUME NEW m \in Messages, m.kind \in {"action", "shutdown"}, Post(<<m>>), eaten' = eaten
      PROVE  Fed(y) /\ LetGo' \subseteq LetGo
  <2> DEFINE ms == <<m>>
  <2>1. Sends(ms, Held, eaten, y, sent, FlowNow, Held, eaten)
    BY <1>1, <1>4, SendsIdle
  <2>2. \A k \in DOMAIN ms : \A n : ~IsRelease(ms[k], n)
    BY <1>4 DEF IsRelease
  <2>3. Sends(ms, Held', eaten', y, sent, FlowNow, Held, eaten) /\ HandsOver(ms, Held, Held')
    BY <2>1, <1>4 DEF HandsOver
  <2>4. Post(ms)
    BY <1>4
  <2> HIDE DEF ms
  <2>5. /\ Fed(y)
        /\ \A n \in LetGo' : n \in LetGo \/ \E k \in DOMAIN ms : IsRelease(ms[k], n)
    BY <2>3, <2>4, FedBy
  <2> QED BY <2>2, <2>5
<1> QED BY <1>2, <1>3, <1>4 DEF y

-----------------------------------------------------------------------------
(* Keys and their releases.                                                *)

\* Presses that a binding has taken, or may yet take.
Taken == consumed \cup (IF chain = NoChain THEN {} ELSE {chain.press})
IsKey(i) == i.kind # "commit"
IsKnown(p) ==
    p \in Taken \/ \E k \in DOMAIN deferred : deferred[k].kind = "press" /\ deferred[k] = p

\* The release of the press n is yet to be seen to.
Coming(n) ==
    \/ \E k \in Keys : held[k] = n
    \/ \E j \in DOMAIN deferred : deferred[j].kind = "release" /\ deferred[j].n = n

HeldDistinct ==
    /\ \A k \in Keys : held[k] <= typed
    /\ \A k, j \in Keys : held[k] = held[j] /\ held[k] # 0 => k = j
PressOfHeld ==
    \A k \in Keys : \A p : held[k] # 0 /\ IsKnown(p) /\ p.n = held[k] =>
      p.key = k /\ p.focus = focus
PressOfRelease ==
    \A j \in DOMAIN deferred : \A p :
      deferred[j].kind = "release" /\ IsKnown(p) /\ p.n = deferred[j].n =>
        p.key = deferred[j].key /\ p.focus = deferred[j].focus
\* Of two inputs with the same key, the second is of a later press, or it is
\* the release of the first.
Follows(x, y) == x.n < y.n \/ (x.n = y.n /\ x.kind = "press" /\ y.kind = "release")
DeferredFollow ==
    \A a, b \in DOMAIN deferred :
      /\ a < b /\ deferred[a].key = deferred[b].key
      /\ IsKey(deferred[a]) /\ IsKey(deferred[b])
      => Follows(deferred[a], deferred[b])
HeldFollow ==
    \A k \in Keys, a \in DOMAIN deferred :
      held[k] # 0 /\ deferred[a].key = k /\ IsKey(deferred[a]) =>
        deferred[a].n < held[k] \/ (deferred[a].n = held[k] /\ deferred[a].kind = "press")
ReleasesFollow ==
    /\ \A j \in DOMAIN deferred, c \in Taken :
         deferred[j].kind = "release" /\ c.key = deferred[j].key => c.n <= deferred[j].n
    /\ \A k \in Keys, c \in Taken : held[k] # 0 /\ c.key = k => c.n <= held[k]
\* A release that is to be swallowed has not been let go, and its press is
\* still marked as consumed.
EatenReleases ==
    \A x \in eaten : x.kind = "release" =>
      /\ x.n \notin LetGo
      /\ Coming(x.n) => \E c \in consumed : c.n = x.n

KeysOK ==
    /\ HeldDistinct /\ PressOfHeld /\ PressOfRelease
    /\ DeferredFollow /\ HeldFollow /\ ReleasesFollow
    /\ EatenReleases

IInv ==
    /\ PaneTyped /\ WorkerTyped
    /\ FlowsOK /\ Owned /\ AllLimited
    /\ PaneOrdered /\ KeysOK

\* The steps that leave what is typed, held, deferred and consumed alone.
LEMMA KeysKept ==
    ASSUME KeysOK, UNCHANGED <<typed, held, focus, deferred>>,
           consumed' = consumed, Taken' \subseteq Taken,
           \A x \in eaten' : x \in eaten \/ x.kind = "press", LetGo' \subseteq LetGo
    PROVE  KeysOK'
<1>1. \A p : IsKnown(p)' => IsKnown(p)
  BY DEF IsKnown
<1>2. \A n : Coming(n)' => Coming(n)
  BY DEF Coming
<1>3. HeldDistinct' /\ DeferredFollow' /\ HeldFollow'
  BY DEF KeysOK, HeldDistinct, DeferredFollow, HeldFollow
<1>4. PressOfHeld' /\ PressOfRelease'
  BY <1>1 DEF KeysOK, PressOfHeld, PressOfRelease
<1>5. ReleasesFollow'
  BY DEF KeysOK, ReleasesFollow
<1>6. EatenReleases'
  BY <1>2 DEF KeysOK, EatenReleases
<1> QED BY <1>3, <1>4, <1>5, <1>6 DEF KeysOK

\* A step about the input y leaves limits above y.
LEMMA LimitedByFed ==
    ASSUME NEW y, Fed(y), NEW n \in Nat, y < n, Limited(n),
           \A r \in LetGo' : r \in LetGo \/ r < n
    PROVE  Limited(n)'
BY DEF Fed, Limited

\* The limits are numbers, and where each comes from.
LEMMA LimitsType ==
    ASSUME PaneTyped
    PROVE  /\ Limits \subseteq Nat
           /\ typed \in Nat /\ typed + 1 \in Limits
           /\ chain # NoChain => chain.press.n \in Limits
           /\ \A k \in DOMAIN deferred : IsTyped(deferred[k]) => deferred[k].n \in Limits
           /\ \A k \in DOMAIN deferred : deferred[k] \in Inputs /\ deferred[k].n \in Nat
           /\ \A n \in Limits : 0 < n
           /\ \A n \in Limits : \/ n = typed + 1
                                \/ chain # NoChain /\ n = chain.press.n
                                \/ \E k \in DOMAIN deferred : IsTyped(deferred[k]) /\ n = deferred[k].n
<1>1. typed \in Nat
  BY DEF PaneTyped
<1>2. \A k \in DOMAIN deferred : deferred[k] \in Inputs
  BY DEF PaneTyped
<1>3. \A i \in Inputs : i.n \in Nat /\ 0 < i.n
  BY DEF Inputs
<1>4. chain # NoChain => chain.press \in Inputs
  BY ChainType
<1>5. \A n \in Limits : \/ n = typed + 1
                        \/ chain # NoChain /\ n = chain.press.n
                        \/ \E k \in DOMAIN deferred : IsTyped(deferred[k]) /\ n = deferred[k].n
  BY DEF Limits
<1>6. /\ typed + 1 \in Limits
      /\ chain # NoChain => chain.press.n \in Limits
      /\ \A k \in DOMAIN deferred : IsTyped(deferred[k]) => deferred[k].n \in Limits
  BY DEF Limits
<1>7. \A n \in Limits : n \in Nat /\ 0 < n
  BY <1>1, <1>2, <1>3, <1>4, <1>5
<1> QED BY <1>1, <1>2, <1>3, <1>5, <1>6, <1>7

-----------------------------------------------------------------------------
(* The worker.                                                             *)

\* A step of the worker keeps the invariant if it keeps the flow in order.
LEMMA WorkerMoves ==
    ASSUME IInv, UNCHANGED pane, WorkerTyped', Owned', LetGo' \subseteq LetGo,
           Later(sent', FlowNow', sent, FlowNow, Held, eaten)
    PROVE  IInv'
<1>1. /\ Held' = Held /\ eaten' = eaten /\ Limits' = Limits /\ consumed' = consumed
      /\ Taken' = Taken /\ UNCHANGED <<typed, held, focus, deferred>>
  BY DEF pane, bindings, Held, Limits, Taken
<1>2. PaneTyped' /\ PaneOrdered'
  BY <1>1 DEF IInv, PaneTyped, PaneOrdered, pane, bindings
<1>3. FlowsOK'
  BY <1>1 DEF Later, FlowsOK
<1>4. AllLimited'
  BY <1>1 DEF IInv, Later, AllLimited, Limited
<1>5. KeysOK'
  BY <1>1, KeysKept DEF IInv
<1> QED BY <1>2, <1>3, <1>4, <1>5 DEF IInv

\* The worker takes the head of its queue.
LEMMA TailOfDown ==
    ASSUME WorkerTyped, down # <<>>, down' = Tail(down)
    PROVE  /\ down' \in Seq(Messages)
           /\ Head(down) \in Messages
           /\ worker.phase # "never"
           /\ \A t : Ended(t) /\ ~IsResolve(Head(down), t) => Ended(t)'
           /\ (\A n \in released' : n \in released \/ IsRelease(Head(down), n)) =>
                LetGo' \subseteq LetGo \cup released'
<1>1. /\ Head(down) = down[1] /\ Head(down) \in Messages
      /\ down' \in Seq(Messages) /\ Len(down') = Len(down) - 1 /\ Len(down) \in Nat
      /\ Len(down) >= 1
      /\ \A k \in 1..(Len(down) - 1) : down'[k] = down[k + 1]
      /\ down \in Seq(Messages)
  BY QueueParts DEF WorkerTyped
<1>2. DOMAIN down = 1..Len(down) /\ DOMAIN down' = 1..Len(down')
  BY <1>1
<1>3. ASSUME NEW c \in DOMAIN down, c # 1 PROVE c - 1 \in DOMAIN down' /\ down'[c - 1] = down[c]
  BY <1>1, <1>2, <1>3
<1>4. ASSUME NEW c \in DOMAIN down' PROVE c + 1 \in DOMAIN down /\ down'[c] = down[c + 1]
  BY <1>1, <1>2, <1>4
<1>5. ASSUME NEW t, Ended(t), ~IsResolve(Head(down), t) PROVE Ended(t)'
  BY <1>1, <1>3, <1>5 DEF Ended
<1>6. LetGo' \subseteq LetGo \cup released'
  BY <1>4 DEF LetGo
<1>7. worker.phase # "never"
  BY DEF WorkerTyped
<1> QED BY <1>1, <1>5, <1>6, <1>7

\* The same, for a message of the kind k.
LEMMA ReceivedFacts ==
    ASSUME WorkerTyped, NEW k, Received(k)
    PROVE  /\ down # <<>> /\ down' = Tail(down) /\ Head(down) \in Messages
           /\ Head(down).kind = k /\ down' \in Seq(Messages)
           /\ worker.phase \notin {"absent", "never"}
           /\ \A t : Ended(t) /\ ~IsResolve(Head(down), t) => Ended(t)'
           /\ (\A n \in released' : n \in released \/ IsRelease(Head(down), n)) =>
                LetGo' \subseteq LetGo
<1>1. down # <<>> /\ down' = Tail(down) /\ worker.phase # "absent" /\ Head(down).kind = k
  BY DEF Received
<1>2. /\ down' \in Seq(Messages)
      /\ Head(down) \in Messages
      /\ worker.phase # "never"
      /\ \A t : Ended(t) /\ ~IsResolve(Head(down), t) => Ended(t)'
      /\ (\A n \in released' : n \in released \/ IsRelease(Head(down), n)) =>
           LetGo' \subseteq LetGo \cup released'
  BY <1>1, TailOfDown
<1>3. ASSUME NEW n \in Tokens, IsRelease(Head(down), n) PROVE n \in LetGo
  <2>1. 1 \in DOMAIN down /\ Head(down) = down[1]
    BY <1>1, QueueParts DEF WorkerTyped
  <2> QED BY <2>1, <1>3 DEF LetGo
<1>4. ASSUME NEW n, IsRelease(Head(down), n) PROVE n \in Tokens
  BY <1>2, <1>4, SitsType DEF IsRelease, Inputs, Tokens
<1>5. ASSUME \A n \in released' : n \in released \/ IsRelease(Head(down), n)
      PROVE  LetGo' \subseteq LetGo
  BY <1>2, <1>3, <1>4, <1>5 DEF LetGo
<1> QED BY <1>1, <1>2, <1>5

\* The head of the queue is handled and nothing is written or forgotten.
LEMMA HeadSkipped ==
    ASSUME IInv, down # <<>>, down' = Tail(down), ~IsResolve(Head(down), worker.token),
           worker'.token = worker.token, worker'.staged = worker.staged,
           sent' = sent
    PROVE  Later(sent', FlowNow', sent, FlowNow, Held, eaten)
<1>1. FlowNow' = FlowOf(worker.token, worker.staged, Tail(down))
  BY DEF FlowNow
<1>2. Holds(worker.token, worker.staged, down) /\ Good(sent, FlowNow, Held, eaten)
  BY WorkerType DEF IInv, FlowsOK
<1> QED BY <1>1, <1>2, HeadHandled DEF FlowNow

\* The steps of the worker (SessionWorker), one by one.
LEMMA SendKeyStep ==
    ASSUME IInv, UNCHANGED pane, SendKey
    PROVE  IInv'
<1> DEFINE i == Head(down).item
<1>1. /\ down # <<>> /\ down' = Tail(down) /\ Head(down) \in Messages
      /\ Head(down).kind = "key" /\ down' \in Seq(Messages)
      /\ worker.phase \notin {"absent", "never"}
      /\ \A t : Ended(t) /\ ~IsResolve(Head(down), t) => Ended(t)'
      /\ (\A n \in released' : n \in released \/ IsRelease(Head(down), n)) =>
           LetGo' \subseteq LetGo
  <2> DEFINE k == "key"
  <2>1. WorkerTyped /\ Received(k)
    BY DEF IInv, SendKey
  <2> HIDE DEF k
  <2>2. /\ down # <<>> /\ down' = Tail(down) /\ Head(down) \in Messages
        /\ Head(down).kind = k /\ down' \in Seq(Messages)
        /\ worker.phase \notin {"absent", "never"}
        /\ \A t : Ended(t) /\ ~IsResolve(Head(down), t) => Ended(t)'
        /\ (\A n \in released' : n \in released \/ IsRelease(Head(down), n)) =>
             LetGo' \subseteq LetGo
    BY <2>1, ReceivedFacts
  <2> QED BY <2>2 DEF k
<1>2. i \in Inputs /\ ~IsResolve(Head(down), worker.token)
      /\ \A t : ~IsResolve(Head(down), t)
  BY <1>1, SitsType DEF IsResolve
<1>3. worker' = worker
  BY DEF SendKey
<1>4. Owned'
  <2>1. Held' = Held
    BY DEF pane, bindings, Held
  <2>2. \A t : Ended(t) => Ended(t)'
    BY <1>1, <1>2
  <2> QED BY <1>3, <2>1, <2>2 DEF IInv, Owned, Ended
<1>5. CASE UNCHANGED history
  <2>1. sent' = sent /\ released' = released
    BY <1>5 DEF history
  <2>2. Later(sent', FlowNow', sent, FlowNow, Held, eaten)
    BY <1>1, <1>2, <1>3, <2>1, HeadSkipped
  <2>3. WorkerTyped' /\ LetGo' \subseteq LetGo
    BY <1>1, <1>3, <2>1 DEF IInv, WorkerTyped
  <2> QED BY <1>4, <2>2, <2>3, WorkerMoves
<1>6. CASE worker.phase = "running" /\ i.kind = "release"
  <2>1. sent' = sent /\ released' = released \cup {i.n}
    BY <1>6 DEF SendKey, WriteRelease
  <2>2. IsRelease(Head(down), i.n) /\ i.n \in Tokens
    BY <1>1, <1>2, <1>6 DEF IsRelease, IsTyped, Inputs, Tokens
  <2>3. Later(sent', FlowNow', sent, FlowNow, Held, eaten)
    BY <1>1, <1>2, <1>3, <2>1, HeadSkipped
  <2>4. WorkerTyped' /\ LetGo' \subseteq LetGo
    BY <1>1, <1>3, <1>6, <2>1, <2>2 DEF IInv, WorkerTyped
  <2> QED BY <1>4, <2>3, <2>4, WorkerMoves
<1>7. CASE worker.phase = "running" /\ i.kind # "release"
  <2> DEFINE z == sent \o [k \in DOMAIN <<i>> |-> Written(<<i>>[k])]
  <2>1. sent' = z /\ released' = released
    BY <1>7 DEF SendKey, Write
  <2>2. Holds(worker.token, worker.staged, down) /\ Good(sent, FlowNow, Held, eaten)
    BY WorkerType DEF IInv, FlowsOK
  <2>3. IsTyped(i)
    BY <1>7 DEF IsTyped
  <2>4. Later(z, FlowOf(worker.token, worker.staged, Tail(down)), sent, FlowNow, Held, eaten)
    BY <1>1, <2>2, <2>3, KeyWritten DEF FlowNow
  <2> HIDE DEF z
  <2>5. Later(sent', FlowNow', sent, FlowNow, Held, eaten)
    BY <1>1, <1>3, <2>1, <2>4 DEF FlowNow
  <2>6. sent' \in Seq(Sent)
    BY <2>1, <2>4 DEF Later, Good, SentOK
  <2>7. WorkerTyped' /\ LetGo' \subseteq LetGo
    BY <1>1, <1>3, <1>7, <2>1, <2>6 DEF IInv, WorkerTyped
  <2> QED BY <1>4, <2>5, <2>7, WorkerMoves
<1> QED BY <1>5, <1>6, <1>7 DEF SendKey, Write, WriteRelease

\* Where the head of the queue, and what is behind it, is in the flow.
LEMMA FlowNowFacts ==
    ASSUME WorkerTyped, down # <<>>, NEW p, p = Len(worker.staged) + 1
    PROVE  /\ FlowNow \in Seq(Messages) /\ p \in DOMAIN FlowNow /\ FlowNow[p] = Head(down)
           /\ \A c \in DOMAIN FlowNow : p < c =>
                c - p \in DOMAIN Tail(down) /\ FlowNow[c] = Tail(down)[c - p]
<1> DEFINE v == FlowNow
           n == Len(worker.staged)
           d == Len(down)
           r == Tail(down)
<1>1. /\ Head(down) = down[1] /\ d \in Nat /\ d >= 1
      /\ r \in Seq(Messages) /\ Len(r) = d - 1 /\ DOMAIN r = 1..Len(r)
      /\ \A k \in 1..(d - 1) : r[k] = down[k + 1]
  BY QueueParts DEF WorkerTyped
<1>2. /\ v \in Seq(Messages) /\ DOMAIN v = 1..Len(v) /\ Len(v) = n + d
      /\ n \in Nat
      /\ \A k \in 1..d : v[n + k] = down[k]
  <2>1. Holds(worker.token, worker.staged, down) /\ v = FlowOf(worker.token, worker.staged, down)
    BY WorkerType DEF FlowNow
  <2> HIDE DEF v
  <2> QED BY SMTT(30), <2>1, FlowOfFacts
<1> HIDE DEF v, n, d, r
<1>3. p = n + 1
  BY DEF n
<1>4. p \in DOMAIN v /\ v[p] = Head(down)
  BY <1>1, <1>2, <1>3
<1>5. ASSUME NEW c \in DOMAIN v, p < c PROVE c - p \in DOMAIN r /\ v[c] = r[c - p]
  <2>1. /\ c - p \in 1..(d - 1) /\ c = n + ((c - p) + 1) /\ (c - p) + 1 \in 1..d
    <3>1. c \in 1..(n + d) /\ n \in Nat /\ d \in Nat
      BY <1>1, <1>2, <1>5
    <3>2. c \in Int /\ n + 1 < c /\ c <= n + d
      BY <3>1, <1>3, <1>5
    <3>3. PICK e \in Nat : e = c - p /\ c = n + (e + 1) /\ e >= 1 /\ e <= d - 1
      BY <3>1, <3>2, <1>3
    <3>4. e \in 1..(d - 1) /\ e + 1 \in 1..d
      <4>1. d \in Nat
        BY <1>1
      <4> QED BY <4>1, <3>3
    <3> QED BY <3>3, <3>4
  <2> QED BY <1>1, <1>2, <2>1
<1> QED BY <1>2, <1>4, <1>5 DEF v, r

\* A leader that the worker is about to hold back is in the pane's hands, or
\* the end of its sequence is on its way.
LEMMA StagedIsOwned ==
    ASSUME WorkerTyped, FlowsOK, down # <<>>, IsStage(Head(down)), down' = Tail(down),
           worker'.token = Head(down).token, Held' = Held
    PROVE  Owned'
<1> DEFINE p == Len(worker.staged) + 1
<1>1. /\ p \in DOMAIN FlowNow /\ FlowNow[p] = Head(down)
      /\ \A c \in DOMAIN FlowNow : p < c =>
           c - p \in DOMAIN Tail(down) /\ FlowNow[c] = Tail(down)[c - p]
  BY FlowNowFacts
<1>2. Staged(FlowNow, Held)
  BY DEF FlowsOK, Good, FlowOK
<1> HIDE DEF p
<1>3. Ends(FlowNow, Head(down).token, p) \/ Head(down).token = TokenOf(Held)
  BY <1>1, <1>2 DEF Staged
<1>4. ASSUME Ends(FlowNow, Head(down).token, p)
      PROVE  \E c \in DOMAIN down' : IsResolve(down'[c], worker'.token)
  <2>1. PICK c \in DOMAIN FlowNow : p < c /\ IsResolve(FlowNow[c], Head(down).token)
    BY <1>4 DEF Ends
  <2> QED BY <1>1, <2>1
<1> QED BY <1>3, <1>4 DEF Owned, Ended

\* The worker's steps leave the leaders in the pane's hands.
LEMMA PaneStays ==
    ASSUME UNCHANGED pane
    PROVE  Held' = Held
BY DEF pane, bindings, Held

LEMMA StageKeyStep ==
    ASSUME IInv, UNCHANGED pane, StageKey
    PROVE  IInv'
<1> DEFINE m == Head(down)
           st == worker.staged
           t == worker.token
<1>1. /\ down # <<>> /\ down' = Tail(down) /\ m \in Messages
      /\ m.kind = "stage" /\ down' \in Seq(Messages)
      /\ worker.phase \notin {"absent", "never"}
      /\ \A x : Ended(x) /\ ~IsResolve(m, x) => Ended(x)'
      /\ (\A n \in released' : n \in released \/ IsRelease(m, n)) =>
           LetGo' \subseteq LetGo
  <2> DEFINE k == "stage"
  <2>1. WorkerTyped /\ Received(k)
    BY DEF IInv, StageKey
  <2> HIDE DEF k
  <2>2. /\ down # <<>> /\ down' = Tail(down) /\ Head(down) \in Messages
        /\ Head(down).kind = k /\ down' \in Seq(Messages)
        /\ worker.phase \notin {"absent", "never"}
        /\ \A x : Ended(x) /\ ~IsResolve(Head(down), x) => Ended(x)'
        /\ (\A n \in released' : n \in released \/ IsRelease(Head(down), n)) =>
             LetGo' \subseteq LetGo
    BY <2>1, ReceivedFacts
  <2> QED BY <2>2 DEF k
<1>2. IsStage(m) /\ m.token \in Tokens /\ m.item \in Presses /\ \A x : ~IsResolve(m, x)
  BY <1>1, StageMessage DEF IsStage, IsResolve
<1>3. sent' = sent /\ released' = released /\ LetGo' \subseteq LetGo
  <2>1. sent' = sent /\ released' = released
    BY DEF StageKey, history
  <2> QED BY <1>1, <2>1
<1>4. Held' = Held
  BY PaneStays
<1>5. /\ WorkerTyped /\ worker \in Workers /\ st \in Seq(Presses) /\ (t = 0 => st = <<>>)
      /\ Holds(t, st, down) /\ Good(sent, FlowNow, Held, eaten) /\ Owned
      /\ FlowNow = FlowOf(t, st, down)
      /\ down \in Seq(Messages)
  BY WorkerType DEF IInv, WorkerTyped, Workers, FlowsOK, FlowNow
<1>6. ASSUME worker'.token = t, worker'.staged = st, worker' \in Workers, worker'.phase = worker.phase
      PROVE  IInv'
  <2>1. Later(sent', FlowNow', sent, FlowNow, Held, eaten)
    BY <1>1, <1>2, <1>3, <1>6, HeadSkipped
  <2>2. WorkerTyped'
    BY <1>1, <1>3, <1>5, <1>6 DEF WorkerTyped
  <2>3. Owned'
    <3>1. \A x : Ended(x) => Ended(x)'
      BY <1>1, <1>2
    <3> QED BY <1>4, <1>5, <1>6, <3>1 DEF Owned, Ended
  <2> QED BY <1>3, <2>1, <2>2, <2>3, WorkerMoves
<1>7. CASE t # m.token /\ m.token <= worker.newest
  <2>1. worker' = worker
    BY <1>7 DEF StageKey
  <2> QED BY <1>5, <1>6, <2>1
<1>8. CASE t = m.token /\ worker.phase = "down"
  <2>1. worker' = [worker EXCEPT !.token = m.token, !.newest = worker.newest, !.staged = st]
    BY <1>8 DEF StageKey
  <2>2. worker' = worker
    BY <2>1, <1>5, <1>8 DEF Workers
  <2> QED BY <1>5, <1>6, <2>2
<1>9. CASE t = m.token /\ worker.phase # "down"
  <2> DEFINE st2 == Append(st, m.item)
  <2>1. worker' = [worker EXCEPT !.token = m.token, !.newest = worker.newest, !.staged = st2]
    BY <1>9 DEF StageKey
  <2>2. st2 \in Seq(Presses)
    BY <1>2, <1>5
  <2> HIDE DEF st2
  <2>3. /\ worker'.token = t /\ worker'.staged = st2 /\ worker'.phase = worker.phase
        /\ worker' \in Workers
    BY <2>1, <2>2, <1>2, <1>5, <1>9 DEF Workers
  <2>4. FlowNow' = FlowNow
    <3>1. FlowOf(t, Append(st, Head(down).item), Tail(down)) = FlowOf(t, st, down)
      BY <1>1, <1>2, <1>5, <1>9, StageJoins
    <3>2. FlowNow' = FlowOf(t, st2, Tail(down))
      BY <1>1, <2>3 DEF FlowNow
    <3> QED BY <3>1, <3>2, <1>5 DEF st2
  <2>5. Later(sent', FlowNow', sent, FlowNow, Held, eaten)
    BY <2>4, <1>3, <1>5 DEF Later
  <2>6. WorkerTyped'
    <3>1. t # 0
      BY <1>2, <1>9 DEF Tokens
    <3> QED BY <1>1, <1>3, <1>5, <2>3, <3>1 DEF WorkerTyped
  <2>7. Owned'
    BY <1>1, <1>2, <1>4, <1>9, <2>3, StagedIsOwned DEF IInv
  <2> QED BY <1>3, <2>5, <2>6, <2>7, WorkerMoves
<1>10. CASE t # m.token /\ ~(m.token <= worker.newest)
  <2> DEFINE e == <<>>
             one == Append(e, m.item)
             st2 == IF worker.phase = "down" THEN e ELSE one
  <2>1. worker' = [worker EXCEPT !.token = m.token, !.newest = m.token, !.staged = st2]
    BY <1>10 DEF StageKey
  <2>2. st2 \in Seq(Presses) /\ (st2 = <<>> \/ st2 = <<m.item>>)
    BY <1>2
  <2> HIDE DEF st2, e, one
  <2>3. /\ worker'.token = m.token /\ worker'.staged = st2 /\ worker'.phase = worker.phase
        /\ worker' \in Workers
    <3>1. m.token \in 0..MaxTyped
      BY <1>2, InputAssumption DEF Tokens
    <3> HIDE DEF m
    <3> QED BY <2>1, <2>2, <1>5, <3>1 DEF Workers
  <2>4. /\ Later(sent, down, sent, FlowOf(t, st, down), Held, eaten)
        /\ Later(sent, Tail(down), sent, FlowOf(t, st, down), Held, eaten)
    BY <1>1, <1>5, LeadersDropped
  <2>5. FlowNow' = down \/ FlowNow' = Tail(down)
    <3>1. FlowNow' = FlowOf(m.token, st2, Tail(down))
      BY <1>1, <2>3 DEF FlowNow
    <3>2. FlowOf(m.token, <<m.item>>, Tail(down)) = down
      BY <1>1, <1>2, <1>5, StageTakesOver
    <3>3. FlowOf(m.token, <<>>, Tail(down)) = Tail(down)
      BY <1>1, QueueAlone
    <3> QED BY <2>2, <3>1, <3>2, <3>3
  <2>6. Later(sent', FlowNow', sent, FlowNow, Held, eaten)
    BY <2>4, <2>5, <1>3, <1>5
  <2>7. WorkerTyped'
    <3>1. m.token # 0
      BY <1>2 DEF Tokens
    <3> QED BY <1>1, <1>3, <1>5, <2>3, <3>1 DEF WorkerTyped
  <2>8. Owned'
    BY <1>1, <1>2, <1>4, <2>3, StagedIsOwned DEF IInv
  <2> QED BY <1>3, <2>6, <2>7, <2>8, WorkerMoves
<1> QED BY <1>7, <1>8, <1>9, <1>10

LEMMA ResolveSequenceStep ==
    ASSUME IInv, UNCHANGED pane, ResolveSequence
    PROVE  IInv'
<1> DEFINE m == Head(down)
           st == worker.staged
           t == worker.token
           items == (IF m.flush THEN worker.staged ELSE <<>>) \o m.current
           z == sent \o [k \in DOMAIN items |-> Written(items[k])]
<1>1. /\ down # <<>> /\ down' = Tail(down) /\ m \in Messages
      /\ m.kind = "resolve" /\ down' \in Seq(Messages)
      /\ worker.phase \notin {"absent", "never"}
      /\ \A x : Ended(x) /\ ~IsResolve(m, x) => Ended(x)'
      /\ (\A n \in released' : n \in released \/ IsRelease(m, n)) =>
           LetGo' \subseteq LetGo
  <2> DEFINE k == "resolve"
  <2>1. WorkerTyped /\ Received(k)
    BY DEF IInv, ResolveSequence
  <2> HIDE DEF k
  <2>2. /\ down # <<>> /\ down' = Tail(down) /\ Head(down) \in Messages
        /\ Head(down).kind = k /\ down' \in Seq(Messages)
        /\ worker.phase \notin {"absent", "never"}
        /\ \A x : Ended(x) /\ ~IsResolve(Head(down), x) => Ended(x)'
        /\ (\A n \in released' : n \in released \/ IsRelease(Head(down), n)) =>
             LetGo' \subseteq LetGo
    BY <2>1, ReceivedFacts
  <2> QED BY <2>2 DEF k
<1>2. Held' = Held
  BY PaneStays
<1>3. /\ WorkerTyped /\ worker \in Workers /\ st \in Seq(Presses) /\ (t = 0 => st = <<>>)
      /\ Holds(t, st, down) /\ Good(sent, FlowNow, Held, eaten) /\ Owned
      /\ FlowNow = FlowOf(t, st, down)
      /\ down \in Seq(Messages)
  BY WorkerType DEF IInv, WorkerTyped, Workers, FlowsOK, FlowNow
<1>4. CASE m.token # t
  <2>1. worker' = worker /\ sent' = sent /\ released' = released /\ ~IsResolve(m, t)
    BY <1>4 DEF ResolveSequence, history, IsResolve
  <2>2. Later(sent', FlowNow', sent, FlowNow, Held, eaten)
    BY <1>1, <2>1, HeadSkipped
  <2>3. WorkerTyped'
    BY <1>1, <1>3, <2>1 DEF WorkerTyped
  <2>4. Owned'
    <3>1. Ended(t) => Ended(t)'
      BY <1>1, <2>1
    <3> QED BY <1>2, <1>3, <2>1, <3>1 DEF Owned, Ended
  <2> QED BY <1>1, <2>1, <2>2, <2>3, <2>4, WorkerMoves
<1>5. CASE m.token = t
  <2>0. IsResolve(m, t) /\ ItemsOf(items, Head(down), st)
    BY <1>1, <1>5 DEF IsResolve, ItemsOf
  <2> HIDE DEF items
  <2>1. worker' = [worker EXCEPT !.token = 0, !.staged = <<>>] /\ Write(items)
    BY <1>5 DEF ResolveSequence, items
  <2>2. /\ worker'.token = 0 /\ worker'.staged = <<>> /\ worker'.phase = worker.phase
        /\ worker' \in Workers
    <3>1. 0 \in 0..MaxTyped /\ <<>> \in Seq(Presses)
      BY InputAssumption
    <3> QED BY <2>1, <1>3, <3>1 DEF Workers
  <2>3. FlowNow' = Tail(down)
    <3>1. FlowNow' = FlowOf(worker'.token, <<>>, Tail(down))
      BY <1>1, <2>2 DEF FlowNow
    <3> QED BY <1>1, <3>1, QueueAlone
  <2>4. Owned'
    BY <2>2 DEF Owned
  <2>5. Later(sent', FlowNow', sent, FlowNow, Held, eaten) /\ released' = released
    <3>1. CASE worker.phase = "running"
      <4>1. sent' = z /\ released' = released
        BY <3>1, <2>1 DEF Write
      <4>2. Later(z, Tail(down), sent, FlowOf(t, st, down), Held, eaten)
        BY <1>1, <1>3, <2>0, SequenceWritten
      <4> QED BY <4>1, <4>2, <2>3, <1>3
    <3>2. CASE worker.phase # "running"
      <4>1. sent' = sent /\ released' = released
        BY <3>2, <2>1 DEF Write, history
      <4>2. Later(sent, Tail(down), sent, FlowOf(t, st, down), Held, eaten)
        BY <1>1, <1>3, LeadersDropped
      <4> QED BY <4>1, <4>2, <2>3, <1>3
    <3> QED BY <3>1, <3>2
  <2>6. WorkerTyped'
    <3>1. sent' \in Seq(Sent)
      BY <2>5 DEF Later, Good, SentOK
    <3> QED BY <1>1, <1>3, <2>2, <2>5, <3>1 DEF WorkerTyped
  <2> QED BY <1>1, <2>4, <2>5, <2>6, WorkerMoves
<1> QED BY <1>4, <1>5

\* The parts of the invariant about the worker.
LEMMA WorkerFacts ==
    ASSUME IInv
    PROVE  /\ WorkerTyped /\ worker \in Workers
           /\ Holds(worker.token, worker.staged, down) /\ Good(sent, FlowNow, Held, eaten)
           /\ Owned /\ FlowNow = FlowOf(worker.token, worker.staged, down)
           /\ down \in Seq(Messages)
BY WorkerType DEF IInv, WorkerTyped, Workers, FlowsOK, FlowNow

\* The history of what is written starts anew.
LEMMA SentAnew ==
    ASSUME NEW s, NEW v, NEW h, NEW e, Good(s, v, h, e), NEW z, z = <<>>
    PROVE  Later(z, v, s, v, h, e)
<1>1. z \in Seq(Sent) /\ DOMAIN z = {}
  OBVIOUS
<1>2. Good(z, v, h, e)
  BY <1>1 DEF Good, SentOK
<1> QED BY <1>1, <1>2 DEF Later, Below

\* The worker goes on with the same leaders and the same queue.
LEMMA WorkerKeeps ==
    ASSUME IInv, UNCHANGED <<pane, down>>, worker' \in Workers,
           worker'.token = worker.token, worker'.staged = worker.staged,
           worker'.phase \notin {"absent", "never"},
           \/ UNCHANGED history
           \/ sent' = <<>> /\ released' = {}
    PROVE  IInv'
<1>1. /\ WorkerTyped /\ Good(sent, FlowNow, Held, eaten) /\ Owned
      /\ down \in Seq(Messages)
  BY WorkerFacts
<1>2. Held' = Held
  BY PaneStays
<1>3. FlowNow' = FlowNow
  BY DEF FlowNow
<1>4. Owned'
  BY <1>1, <1>2 DEF Owned, Ended
<1>5. CASE UNCHANGED history
  <2>1. sent' = sent /\ released' = released
    BY <1>5 DEF history
  <2>2. Later(sent', FlowNow', sent, FlowNow, Held, eaten)
    BY <1>1, <1>3, <2>1 DEF Later
  <2>3. LetGo' \subseteq LetGo
    BY <2>1 DEF LetGo
  <2>4. WorkerTyped'
    BY <1>1, <2>1 DEF WorkerTyped
  <2> QED BY <1>4, <2>2, <2>3, <2>4, WorkerMoves
<1>6. CASE sent' = <<>> /\ released' = {}
  <2>1. Later(sent', FlowNow', sent, FlowNow, Held, eaten)
    BY <1>1, <1>3, <1>6, SentAnew
  <2>2. LetGo' \subseteq LetGo
    BY <1>6 DEF LetGo
  <2>3. WorkerTyped'
    <3>1. sent' \in Seq(Sent)
      BY <1>6
    <3> QED BY <1>1, <1>6, <3>1 DEF WorkerTyped
  <2> QED BY <1>4, <2>1, <2>2, <2>3, WorkerMoves
<1> QED BY <1>5, <1>6

\* Requests start and end, the child exits, the worker stops or starts.
LEMMA StartActionStep ==
    ASSUME IInv, UNCHANGED pane, StartAction
    PROVE  IInv'
<1> DEFINE m == Head(down)
<1>1. /\ down # <<>> /\ down' = Tail(down) /\ m \in Messages
      /\ m.kind = "action" /\ down' \in Seq(Messages)
      /\ worker.phase \notin {"absent", "never"}
      /\ \A x : Ended(x) /\ ~IsResolve(m, x) => Ended(x)'
      /\ (\A n \in released' : n \in released \/ IsRelease(m, n)) =>
           LetGo' \subseteq LetGo
  <2> DEFINE k == "action"
  <2>1. WorkerTyped /\ Received(k)
    BY DEF IInv, StartAction
  <2> HIDE DEF k
  <2>2. /\ down # <<>> /\ down' = Tail(down) /\ Head(down) \in Messages
        /\ Head(down).kind = k /\ down' \in Seq(Messages)
        /\ worker.phase \notin {"absent", "never"}
        /\ \A x : Ended(x) /\ ~IsResolve(Head(down), x) => Ended(x)'
        /\ (\A n \in released' : n \in released \/ IsRelease(Head(down), n)) =>
             LetGo' \subseteq LetGo
    BY <2>1, ReceivedFacts
  <2> QED BY <2>2 DEF k
<1>2. m.id \in Requests /\ \A x : ~IsResolve(m, x)
  <2>1. m \in ActionMessages
    BY <1>1 DEF Messages, KeyMessages, StageMessages, ResolveMessages, Shutdown
  <2> HIDE DEF m
  <2> QED BY <1>1, <2>1 DEF ActionMessages, Requests, IsResolve
<1>3. WorkerTyped /\ worker \in Workers /\ Owned
  BY WorkerFacts
<1>4. sent' = sent /\ released' = released /\ LetGo' \subseteq LetGo
  <2>1. sent' = sent /\ released' = released
    BY DEF StartAction, history
  <2> QED BY <1>1, <2>1
<1>5. /\ worker'.token = worker.token /\ worker'.staged = worker.staged
      /\ worker'.phase = worker.phase /\ worker' \in Workers
  <2>1. worker' = [worker EXCEPT !.jobs = worker.jobs \cup {m.id}]
    BY DEF StartAction
  <2> HIDE DEF m
  <2> QED BY <2>1, <1>2, <1>3 DEF Workers
<1>6. Later(sent', FlowNow', sent, FlowNow, Held, eaten)
  BY <1>1, <1>2, <1>4, <1>5, HeadSkipped
<1>7. WorkerTyped'
  BY <1>1, <1>3, <1>4, <1>5 DEF WorkerTyped
<1>8. Owned'
  <2>1. \A x : Ended(x) => Ended(x)'
    BY <1>1, <1>2
  <2> QED BY <1>3, <1>5, <2>1, PaneStays DEF Owned, Ended
<1> QED BY <1>4, <1>6, <1>7, <1>8, WorkerMoves

LEMMA WorkerShutdownStep ==
    ASSUME IInv, UNCHANGED pane, WorkerShutdown
    PROVE  IInv'
<1> DEFINE k == "shutdown"
<1>1. WorkerTyped /\ Received(k) /\ worker \in Workers /\ down \in Seq(Messages)
  BY WorkerFacts DEF WorkerShutdown
<1> HIDE DEF k
<1>2. /\ down # <<>> /\ down' = Tail(down) /\ down' \in Seq(Messages)
      /\ worker.phase \notin {"absent", "never"}
      /\ (\A n \in released' : n \in released \/ IsRelease(Head(down), n)) =>
           LetGo' \subseteq LetGo
  BY <1>1, ReceivedFacts
<1>3. sent' = <<>> /\ released' = {} /\ LetGo' \subseteq LetGo
  BY <1>2 DEF WorkerShutdown
<1>4. /\ worker'.token = 0 /\ worker'.staged = <<>> /\ worker'.phase = "down"
      /\ worker' \in Workers
  <2>1. 0 \in 0..MaxTyped /\ <<>> \in Seq(Presses) /\ "down" \in Phases
    BY InputAssumption DEF Phases
  <2>2. worker' = [worker EXCEPT !.phase = "down", !.token = 0, !.staged = <<>>, !.jobs = {}]
    BY DEF WorkerShutdown
  <2> QED BY <1>1, <2>1, <2>2 DEF Workers
<1>5. FlowNow' = Tail(down)
  <2>1. FlowNow' = FlowOf(worker'.token, <<>>, Tail(down))
    BY <1>2, <1>4 DEF FlowNow
  <2> QED BY <1>2, <2>1, QueueAlone
<1>6. Later(sent', FlowNow', sent, FlowNow, Held, eaten)
  <2>1. Later(<<>>, Tail(down), sent, FlowOf(worker.token, worker.staged, down), Held, eaten)
    BY <1>2, WorkerFacts, LeadersDropped
  <2> QED BY <2>1, <1>3, <1>5 DEF FlowNow
<1>7. WorkerTyped'
  <2>1. sent' \in Seq(Sent)
    BY <1>3
  <2> QED BY <1>2, <1>3, <1>4, <2>1 DEF WorkerTyped
<1>8. Owned'
  BY <1>4 DEF Owned
<1> QED BY <1>3, <1>6, <1>7, <1>8, WorkerMoves

LEMMA WorkerStepKeeps ==
    ASSUME IInv, UNCHANGED pane, WorkerStep
    PROVE  IInv'
BY SendKeyStep, StageKeyStep, ResolveSequenceStep, StartActionStep, WorkerShutdownStep
   DEF WorkerStep

LEMMA AnswersStep ==
    ASSUME IInv, UNCHANGED pane, NEW id \in worker.jobs, Answers(id)
    PROVE  IInv'
<1>1. WorkerTyped /\ worker \in Workers /\ Owned /\ Good(sent, FlowNow, Held, eaten)
  BY WorkerFacts
<1>2. /\ worker'.token = worker.token /\ worker'.staged = worker.staged
      /\ worker'.phase = worker.phase /\ worker' \in Workers
  BY <1>1 DEF Answers, Workers
<1>3. down' = down /\ sent' = sent /\ released' = released
  BY DEF Answers, history
<1>4. FlowNow' = FlowNow /\ LetGo' = LetGo
  BY <1>2, <1>3 DEF FlowNow, LetGo
<1>5. Later(sent', FlowNow', sent, FlowNow, Held, eaten)
  BY <1>1, <1>3, <1>4 DEF Later
<1>6. WorkerTyped'
  BY <1>1, <1>2, <1>3 DEF WorkerTyped
<1>7. Owned'
  BY <1>1, <1>2, <1>3, PaneStays DEF Owned, Ended
<1> QED BY <1>4, <1>5, <1>6, <1>7, WorkerMoves

LEMMA ChildExitsStep ==
    ASSUME IInv, UNCHANGED pane, ChildExits
    PROVE  IInv'
<1>1. WorkerTyped /\ worker \in Workers /\ down \in Seq(Messages)
  BY WorkerFacts
<1>2. down' = down /\ sent' = <<>> /\ released' = {} /\ "ended" \in Phases
  BY DEF ChildExits, Phases
<1>3. CASE worker' = [worker EXCEPT !.phase = "ended"]
  <2>1. /\ worker'.token = worker.token /\ worker'.staged = worker.staged
        /\ worker'.phase = "ended" /\ worker' \in Workers
    BY <1>1, <1>2, <1>3 DEF Workers
  <2> QED BY <1>2, <2>1, WorkerKeeps
<1>4. CASE worker' = [worker EXCEPT !.phase = "ended", !.token = 0, !.staged = <<>>]
  <2>1. /\ worker'.token = 0 /\ worker'.staged = <<>> /\ worker'.phase = "ended"
        /\ worker' \in Workers
    <3>1. 0 \in 0..MaxTyped /\ <<>> \in Seq(Presses)
      BY InputAssumption
    <3> QED BY <1>1, <1>2, <1>4, <3>1 DEF Workers
  <2>2. FlowNow' = down
    <3>1. FlowNow' = FlowOf(worker'.token, <<>>, down)
      BY <1>2, <2>1 DEF FlowNow
    <3> QED BY <1>1, <3>1, QueueAlone
  <2>3. Later(sent', FlowNow', sent, FlowNow, Held, eaten)
    <3>1. Later(<<>>, down, sent, FlowOf(worker.token, worker.staged, down), Held, eaten)
      BY WorkerFacts, LeadersDropped
    <3> QED BY <3>1, <1>2, <2>2 DEF FlowNow
  <2>4. WorkerTyped'
    <3>1. sent' \in Seq(Sent)
      BY <1>2
    <3> QED BY <1>1, <1>2, <2>1, <3>1 DEF WorkerTyped
  <2>5. Owned' /\ LetGo' \subseteq LetGo
    BY <1>2, <2>1 DEF Owned, LetGo
  <2> QED BY <2>3, <2>4, <2>5, WorkerMoves
<1> QED BY <1>3, <1>4 DEF ChildExits

LEMMA SessionStartsStep ==
    ASSUME IInv, UNCHANGED pane, SessionStarts
    PROVE  IInv'
<1>1. WorkerTyped /\ worker \in Workers /\ "running" \in Phases
  BY WorkerFacts DEF Phases
<1>2. /\ worker'.token = worker.token /\ worker'.staged = worker.staged
      /\ worker'.phase = "running" /\ worker' \in Workers
  BY <1>1 DEF SessionStarts, Workers
<1>3. down' = down /\ UNCHANGED history
  BY DEF SessionStarts
<1> QED BY <1>2, <1>3, WorkerKeeps

-----------------------------------------------------------------------------
(* The pane.                                                               *)

\* A step without an input keeps the limits.
LEMMA LimitsKept ==
    ASSUME IInv, Fed(0), LetGo' \subseteq LetGo, Limits' \subseteq Limits
    PROVE  AllLimited'
<1> DEFINE y == 0
<1>1. ASSUME NEW n \in Limits' PROVE Limited(n)'
  <2>1. n \in Limits /\ n \in Nat /\ 0 < n
    BY LimitsType DEF IInv
  <2>2. Limited(n) /\ Fed(y) /\ y < n
    BY <2>1 DEF IInv, AllLimited
  <2>3. \A r \in LetGo' : r \in LetGo \/ r < n
    OBVIOUS
  <2> HIDE DEF y
  <2> QED BY <2>1, <2>2, <2>3, LimitedByFed
<1> QED BY <1>1 DEF AllLimited

\* The chain of a binding goes on with its press and its sequence, or there is
\* none.
GoesOn ==
    \/ chain' = chain
    \/ /\ chain # NoChain /\ chain' \in Chains
       /\ chain'.press = chain.press /\ chain'.leaders = chain.leaders

\* A chain has a press, and perhaps leaders.
LEMMA ChainOfChains ==
    ASSUME NEW c \in Chains
    PROVE  c # NoChain /\ c.press \in Presses /\ c.leaders \subseteq Presses
BY DEF Chains, NoChain

\* A chain that goes on changes neither leaders nor limits nor what is taken.
LEMMA GoesOnFacts ==
    ASSUME PaneTyped, GoesOn, UNCHANGED <<deferred, bindings, typed>>
    PROVE  /\ (chain' = NoChain) <=> (chain = NoChain)
           /\ chain # NoChain => chain'.press = chain.press
           /\ Held' = Held /\ Limits' = Limits /\ Taken' = Taken
           /\ chain' = NoChain \/ chain' \in Chains
<1>1. /\ (chain' = NoChain) <=> (chain = NoChain)
      /\ chain # NoChain => chain'.press = chain.press /\ chain'.leaders = chain.leaders
      /\ chain' = NoChain \/ chain' \in Chains
  BY ChainOfChains DEF GoesOn, PaneTyped
<1>2. deferred' = deferred /\ leaders' = leaders /\ consumed' = consumed /\ typed' = typed
  BY DEF bindings
<1>3. Held' = Held
  BY <1>1, <1>2 DEF Held
<1>4. Limits' = Limits
  <2>1. CASE chain = NoChain
    BY <2>1, <1>1, <1>2 DEF Limits
  <2>2. CASE chain # NoChain
    BY <2>2, <1>1, <1>2 DEF Limits
  <2> QED BY <2>1, <2>2
<1>5. Taken' = Taken
  <2>1. CASE chain = NoChain
    BY <2>1, <1>1, <1>2 DEF Taken
  <2>2. CASE chain # NoChain
    BY <2>2, <1>1, <1>2 DEF Taken
  <2> QED BY <2>1, <2>2
<1> QED BY <1>1, <1>3, <1>4, <1>5

\* A step in which the chain goes on keeps the invariant;
LEMMA PaneGoesOn ==
    ASSUME IInv, GoesOn, UNCHANGED <<typed, held, focus, deferred, bindings>>,
           life' \in {"open", "exiting", "exited", "closing"},
           Fed(0), LetGo' \subseteq LetGo
    PROVE  IInv'
<1>1. /\ (chain' = NoChain) <=> (chain = NoChain)
      /\ chain # NoChain => chain'.press = chain.press
      /\ Held' = Held /\ Limits' = Limits /\ Taken' = Taken
      /\ chain' = NoChain \/ chain' \in Chains
  BY GoesOnFacts DEF IInv
<1>2. /\ typed' = typed /\ held' = held /\ focus' = focus /\ deferred' = deferred
      /\ leaders' = leaders /\ consumed' = consumed /\ eaten' = eaten
  BY DEF bindings
<1>3. PaneTyped'
  BY <1>1, <1>2 DEF IInv, PaneTyped
<1>4. AllLimited'
  BY <1>1, LimitsKept
<1>5. PaneOrdered'
  BY <1>1, <1>2 DEF IInv, PaneOrdered
<1>6. KeysOK'
  BY <1>1, <1>2, KeysKept DEF IInv
<1> QED BY <1>3, <1>4, <1>5, <1>6 DEF IInv, Fed

\* among them are those that send a request, the end, or nothing.
LEMMA IdleStep ==
    ASSUME IInv, GoesOn, UNCHANGED <<typed, held, focus, deferred, bindings>>,
           life' \in {"open", "exiting", "exited", "closing"},
           UNCHANGED <<worker, history>>,
           \/ UNCHANGED down
           \/ \E m \in Messages : m.kind \in {"action", "shutdown"} /\ Post(<<m>>)
    PROVE  IInv'
<1>1. Held' = Held
  BY GoesOnFacts DEF IInv
<1>2. eaten' = eaten
  BY DEF bindings
<1>3. Fed(0) /\ LetGo' \subseteq LetGo
  BY <1>1, <1>2, IdleIsDone DEF IInv, PaneOrdered
<1> QED BY <1>3, PaneGoesOn

\* The steps of a chain, of its answers, of the exit and of the shutdown.
LEMMA ChainPerformsStep ==
    ASSUME IInv, ChainPerforms
    PROVE  IInv'
<1>1. chain \in Chains /\ chain # NoChain
  BY ChainType DEF IInv, ChainPerforms
<1>2. GoesOn
  BY <1>1 DEF GoesOn, ChainPerforms, Chains
<1>3. /\ UNCHANGED <<typed, held, focus, deferred, bindings, worker, history, down>>
      /\ life' \in {"open", "exiting", "exited", "closing"}
  BY DEF ChainPerforms, RunsChain, IInv, PaneTyped
<1> QED BY <1>2, <1>3, IdleStep

LEMMA ChainAsksStep ==
    ASSUME IInv, ChainAsks
    PROVE  IInv'
<1>1. /\ chain \in Chains /\ chain # NoChain /\ chain.press.n \in Tokens
      /\ chain.left \in 0..MaxAsked /\ chain.left > 0
  BY ChainType DEF IInv, ChainAsks
<1>2. GoesOn
  <2>1. chain.left - 1 \in 0..MaxAsked
    BY <1>1, InputAssumption
  <2>2. chain' = [chain EXCEPT !.left = chain.left - 1, !.phase = "pending", !.delayed = TRUE]
    BY DEF ChainAsks
  <2>3. chain' \in Chains /\ chain'.press = chain.press /\ chain'.leaders = chain.leaders
    BY <1>1, <2>1, <2>2 DEF Chains
  <2> QED BY <1>1, <2>3 DEF GoesOn
<1>3. /\ UNCHANGED <<typed, held, focus, deferred, bindings, worker, history>>
      /\ life' \in {"open", "exiting", "exited", "closing"}
  BY DEF ChainAsks, RunsChain, IInv, PaneTyped
<1>4. \E m \in Messages : m.kind \in {"action", "shutdown"} /\ Post(<<m>>)
  <2> DEFINE m == Action(Request)
  <2>1. m \in ActionMessages /\ m.kind = "action"
    BY <1>1 DEF Action, Request, ActionMessages
  <2>2. Post(<<m>>)
    BY DEF ChainAsks
  <2> HIDE DEF m
  <2> QED BY <2>1, <2>2 DEF Messages
<1> QED BY <1>2, <1>3, <1>4, IdleStep

\* A chain that is resumed goes on.
LEMMA ResumedGoesOn ==
    ASSUME PaneTyped, chain' = Resumed \/ (\E d \in BOOLEAN : chain' = [Resumed EXCEPT !.performed = d]),
           chain.phase = "pending"
    PROVE  GoesOn
<1>1. chain \in Chains /\ chain # NoChain
  BY ChainType
<1>2. Resumed \in Chains /\ Resumed.press = chain.press /\ Resumed.leaders = chain.leaders
  BY <1>1 DEF Resumed, Chains
<1> QED BY <1>1, <1>2 DEF GoesOn, Chains

LEMMA AnswerArrivesStep ==
    ASSUME IInv, AnswerArrives
    PROVE  IInv'
<1>1. GoesOn
  <2>1. CASE chain' = chain
    BY <2>1 DEF GoesOn
  <2>2. CASE chain' # chain
    <3>1. chain.phase = "pending" /\ \E d \in {chain.performed, TRUE} :
            chain' = [Resumed EXCEPT !.performed = d]
      BY <2>2 DEF AnswerArrives, Waits
    <3>2. chain.performed \in BOOLEAN
      <4>1. chain \in Chains
        BY <3>1, ChainType DEF IInv
      <4> QED BY <4>1 DEF Chains
    <3> QED BY <3>1, <3>2, ResumedGoesOn DEF IInv
  <2> QED BY <2>1, <2>2
<1>2. /\ UNCHANGED <<typed, held, focus, deferred, bindings, worker, history, down>>
      /\ life' \in {"open", "exiting", "exited", "closing"}
  BY DEF AnswerArrives, IInv, PaneTyped
<1> QED BY <1>1, <1>2, IdleStep

\* A chain whose request has failed goes on.
LEMMA FailsGoesOn ==
    ASSUME PaneTyped, chain' = (IF chain.phase = "pending" THEN Resumed ELSE chain)
    PROVE  GoesOn
<1>1. CASE chain.phase = "pending"
  BY <1>1, ResumedGoesOn
<1>2. CASE chain.phase # "pending"
  BY <1>2 DEF GoesOn
<1> QED BY <1>1, <1>2

LEMMA ExitArrivesStep ==
    ASSUME IInv, ExitArrives
    PROVE  IInv'
<1>1. GoesOn
  BY FailsGoesOn DEF ExitArrives, IInv
<1>2. /\ UNCHANGED <<typed, held, focus, deferred, bindings, worker, history, down>>
      /\ life' \in {"open", "exiting", "exited", "closing"}
  BY DEF ExitArrives, IInv, PaneTyped
<1> QED BY <1>1, <1>2, IdleStep

LEMMA ExitHandledStep ==
    ASSUME IInv, ExitHandled
    PROVE  IInv'
<1>1. GoesOn
  BY FailsGoesOn DEF ExitHandled, FailStale, IInv
<1>2. /\ UNCHANGED <<typed, held, focus, deferred, bindings, worker, history, down>>
      /\ life' \in {"open", "exiting", "exited", "closing"}
  BY DEF ExitHandled, worker_vars
<1> QED BY <1>1, <1>2, IdleStep

LEMMA BeginShutdownStep ==
    ASSUME IInv, BeginShutdown
    PROVE  IInv'
<1>1. GoesOn
  BY FailsGoesOn DEF BeginShutdown, FailStale, IInv
<1>2. /\ UNCHANGED <<typed, held, focus, deferred, bindings, history>>
      /\ life' \in {"open", "exiting", "exited", "closing"}
  BY DEF BeginShutdown
<1>3. CASE worker.phase # "absent"
  <2>1. UNCHANGED worker /\ Post(<<Shutdown>>)
    BY <1>3 DEF BeginShutdown, CancelStart
  <2>2. \E m \in Messages : m.kind \in {"action", "shutdown"} /\ Post(<<m>>)
    <3> DEFINE m == Shutdown
    <3>1. m \in Messages /\ m.kind = "shutdown" /\ Post(<<m>>)
      BY <2>1 DEF Messages, Shutdown
    <3> HIDE DEF m
    <3> QED BY <3>1
  <2> QED BY <1>1, <1>2, <2>1, <2>2, IdleStep
<1>4. CASE worker.phase = "absent"
  <2>1. worker' = [worker EXCEPT !.phase = "never"] /\ down' = <<>>
    BY <1>4 DEF BeginShutdown, CancelStart
  <2>2. /\ WorkerTyped /\ worker \in Workers /\ worker.token = 0 /\ worker.staged = <<>>
        /\ sent = <<>> /\ released = {} /\ Good(sent, FlowNow, Held, eaten)
    BY <1>4, WorkerFacts DEF WorkerTyped
  <2>3. /\ worker'.token = 0 /\ worker'.staged = <<>> /\ worker'.phase = "never"
        /\ worker' \in Workers /\ sent' = <<>> /\ released' = {}
    BY <2>1, <2>2, <1>2 DEF Workers, Phases, history
  <2>4. WorkerTyped'
    <3>1. sent' \in Seq(Sent) /\ down' \in Seq(Messages)
      BY <2>1, <2>3
    <3> QED BY <2>1, <2>3, <3>1 DEF WorkerTyped
  <2>5. FlowNow' = <<>>
    <3>1. FlowNow' = FlowOf(worker'.token, <<>>, down') /\ down' \in Seq(Messages)
      BY <2>1, <2>3 DEF FlowNow
    <3> QED BY <3>1, <2>1, QueueAlone
  <2>6. Held' = Held /\ eaten' = eaten
    BY <1>1, <1>2, GoesOnFacts DEF IInv, bindings
  <2>7. FlowsOK'
    <3>1. Held \subseteq Presses /\ eaten \subseteq Eaten
      BY <2>2 DEF Good, FlowOK
    <3> QED BY <3>1, <2>3, <2>5, <2>6, NothingInFlow DEF FlowsOK
  <2>8. Owned' /\ LetGo' \subseteq LetGo
    BY <2>1, <2>3 DEF Owned, LetGo
  <2>9. \A n \in Nat : Below(n, FlowNow, Held, eaten, sent) =>
          Below(n, FlowNow', Held', eaten', sent')
    BY <2>3, <2>5, <2>6 DEF Below
  <2>10. Fed(0)
    BY <2>4, <2>7, <2>8, <2>9 DEF Fed
  <2> QED BY <1>1, <1>2, <2>8, <2>10, PaneGoesOn
<1> QED BY <1>3, <1>4

\* The leaders in the pane's hands have been typed.
LEMMA HeldTyped ==
    ASSUME IInv
    PROVE  /\ \A l \in Held : l.n <= typed /\ l.n \in Nat
           /\ leaders # {} => chain = NoChain /\ Held = leaders
           /\ typed \in Nat
<1>1. typed + 1 \in Limits /\ typed \in Nat
  BY LimitsType DEF IInv
<1>2. Limited(typed + 1)
  BY <1>1 DEF IInv, AllLimited
<1>3. \A l \in Held : l.n < typed + 1 /\ l.n \in Nat
  <2>1. Held \subseteq Presses
    BY ChainType DEF IInv
  <2> QED BY <1>2, <2>1 DEF Limited, Below, Presses, Inputs
<1>4. leaders # {} => chain = NoChain
  BY DEF IInv, PaneOrdered
<1> QED BY <1>1, <1>3, <1>4 DEF Held

\* The limits change only with the chain, what is deferred and what is typed.
LEMMA LimitsSame ==
    ASSUME UNCHANGED <<typed, deferred>>,
           \/ chain' = chain
           \/ chain # NoChain /\ chain' # NoChain /\ chain'.press = chain.press
           \/ chain' = NoChain
    PROVE  /\ Limits' \subseteq Limits
           /\ chain' # NoChain \/ chain' = chain => Limits' = Limits
<1>1. CASE chain' = chain
  BY <1>1 DEF Limits
<1>2. CASE chain # NoChain /\ chain' # NoChain /\ chain'.press = chain.press
  BY <1>2 DEF Limits
<1>3. CASE chain' = NoChain
  BY <1>3 DEF Limits
<1> QED BY <1>1, <1>2, <1>3

\* A sequence is cancelled and nothing else happens.
LEMMA BindingsReplacedStep ==
    ASSUME IInv, BindingsReplaced
    PROVE  IInv'
<1>1. /\ UNCHANGED <<typed, held, focus, deferred, consumed, chain, life, worker, history>>
      /\ leaders # {} /\ CancelSequence /\ Post(Dropped(leaders))
  BY DEF BindingsReplaced
<1>2. chain = NoChain /\ \A l \in leaders : l.n <= typed
  BY <1>1, HeldTyped
<1>3. leaders' = {} /\ eaten' = eaten \cup {Press(p) : p \in leaders}
  BY <1>1 DEF CancelSequence
<1>4. Fed(0) /\ eaten' \subseteq Eaten /\ EatenBefore(eaten', Held') /\ LetGo' \subseteq LetGo
  BY <1>1, <1>2, CancelIsDone DEF IInv, PaneOrdered
<1>5. \A x \in eaten' : (x \in eaten \/ x.kind = "press") /\ x.n <= typed
  BY <1>2, <1>3 DEF Press, IInv, PaneOrdered
<1>6. PaneTyped'
  BY <1>1, <1>3, <1>4 DEF IInv, PaneTyped
<1>7. AllLimited'
  BY <1>1, <1>4, LimitsSame, LimitsKept
<1>8. PaneOrdered'
  <2>1. PaneOrdered
    BY DEF IInv
  <2> QED BY <2>1, <1>1, <1>2, <1>3, <1>4, <1>5 DEF PaneOrdered
<1>9. KeysOK'
  <2>1. Taken' = Taken
    BY <1>1 DEF Taken
  <2> QED BY <2>1, <1>1, <1>4, <1>5, KeysKept DEF IInv
<1> QED BY <1>4, <1>6, <1>7, <1>8, <1>9 DEF IInv, Fed

\* The sequence ends, by an action or by a chain, or with the focus.
LEMMA SequenceEndedStep ==
    ASSUME IInv, SequenceEnded
    PROVE  IInv'
<1>1. /\ UNCHANGED <<typed, held, focus, deferred, consumed, eaten, chain, life, worker, history>>
      /\ leaders # {} /\ leaders' = {}
      /\ Post(<<Resolve(TokenOf(leaders), TRUE, <<>>)>>)
  BY DEF SequenceEnded
<1>2. chain = NoChain /\ Held = leaders /\ Held' = {}
  <2>1. chain = NoChain /\ Held = leaders
    BY <1>1, HeldTyped
  <2> QED BY <2>1, <1>1 DEF Held
<1>3. Fed(0) /\ EatenBefore(eaten', Held') /\ LetGo' \subseteq LetGo
  BY <1>1, <1>2, EndIsDone DEF IInv, PaneOrdered
<1>4. PaneTyped'
  BY <1>1 DEF IInv, PaneTyped
<1>5. AllLimited'
  BY <1>1, <1>3, LimitsSame, LimitsKept
<1>6. PaneOrdered'
  <2>1. PaneOrdered
    BY DEF IInv
  <2> QED BY <2>1, <1>1, <1>2, <1>3 DEF PaneOrdered
<1>7. KeysOK'
  <2>1. Taken' = Taken
    BY <1>1 DEF Taken
  <2> QED BY <2>1, <1>1, <1>3, KeysKept DEF IInv
<1> QED BY <1>3, <1>4, <1>5, <1>6, <1>7 DEF IInv, Fed

LEMMA ChainEndsSequenceStep ==
    ASSUME IInv, ChainEndsSequence
    PROVE  IInv'
<1>1. /\ UNCHANGED <<typed, held, focus, deferred, bindings, life, worker, history>>
      /\ Post(<<Resolve(TokenOf(chain.leaders), TRUE, <<>>)>>)
      /\ chain.leaders # {} /\ chain \in Chains /\ chain # NoChain
      /\ chain' = [chain EXCEPT !.performed = TRUE, !.leaders = {}]
  BY ChainType DEF ChainEndsSequence, RunsChain, IInv
<1>2. chain' \in Chains /\ chain'.press = chain.press /\ chain'.leaders = {}
  BY <1>1 DEF Chains
<1>3. chain' # NoChain
  BY <1>2, ChainOfChains
<1>4. Held = chain.leaders /\ Held' = {}
  BY <1>1, <1>2, <1>3 DEF Held
<1>5. leaders' = leaders /\ consumed' = consumed /\ eaten' = eaten
  BY <1>1 DEF bindings
<1>6. Fed(0) /\ EatenBefore(eaten', Held') /\ LetGo' \subseteq LetGo
  BY <1>1, <1>4, <1>5, EndIsDone DEF IInv, PaneOrdered
<1>7. PaneTyped'
  BY <1>1, <1>2, <1>5 DEF IInv, PaneTyped
<1>8. AllLimited'
  BY <1>1, <1>2, <1>3, <1>6, LimitsSame, LimitsKept
<1>9. PaneOrdered'
  <2>1. PaneOrdered
    BY DEF IInv
  <2> QED BY <2>1, <1>1, <1>2, <1>3, <1>5, <1>6 DEF PaneOrdered
<1>10. KeysOK'
  <2>1. Taken' = Taken
    BY <1>1, <1>2, <1>3, <1>5 DEF Taken
  <2> QED BY <2>1, <1>1, <1>5, <1>6, KeysKept DEF IInv
<1> QED BY <1>6, <1>7, <1>8, <1>9, <1>10 DEF IInv, Fed

LEMMA FocusLostStep ==
    ASSUME IInv, FocusLost
    PROVE  IInv'
<1>1. /\ typed' = typed /\ deferred' = deferred /\ leaders' = leaders /\ chain' = chain
      /\ life' = life /\ worker' = worker /\ down' = down /\ UNCHANGED history
      /\ focus < MaxLosses /\ focus' = focus + 1
      /\ held' = [k \in Keys |-> 0] /\ consumed' = {}
      /\ eaten' = eaten \ {Release(c) : c \in consumed}
  BY DEF FocusLost, worker_vars
<1>2. Held' = Held
  BY <1>1 DEF Held
<1>3. Fed(0) /\ EatenBefore(eaten', Held') /\ LetGo' \subseteq LetGo
  BY <1>1, <1>2, IdleIsDone DEF IInv, PaneOrdered
<1>4. PaneTyped /\ typed \in Nat /\ 0 \in 0..MaxTyped /\ eaten \subseteq Eaten
  BY LimitsType, InputAssumption DEF IInv, PaneTyped
<1>5. PaneTyped'
  <2>1. focus' \in 0..MaxLosses
    BY <1>1, <1>4, InputAssumption DEF PaneTyped
  <2>2. held' \in [Keys -> 0..MaxTyped]
    BY <1>1, <1>4
  <2> QED BY <1>1, <1>4, <2>1, <2>2 DEF PaneTyped
<1>6. AllLimited'
  BY <1>1, <1>3, LimitsSame, LimitsKept
<1>7. PaneOrdered'
  <2>1. PaneOrdered
    BY DEF IInv
  <2> QED BY <2>1, <1>1, <1>3 DEF PaneOrdered
<1>8. KeysOK'
  <2>1. Taken' \subseteq Taken
    BY <1>1 DEF Taken
  <2>2. \A p : IsKnown(p)' => IsKnown(p)
    BY <1>1, <2>1 DEF IsKnown
  <2>3. \A k \in Keys : held'[k] = 0
    BY <1>1
  <2>4. HeldDistinct' /\ PressOfHeld' /\ HeldFollow'
    BY <1>1, <1>4, <2>3 DEF HeldDistinct, PressOfHeld, HeldFollow
  <2>5. DeferredFollow'
    BY <1>1 DEF IInv, KeysOK, DeferredFollow
  <2>6. PressOfRelease'
    BY <1>1, <2>2 DEF IInv, KeysOK, PressOfRelease
  <2>7. ReleasesFollow'
    BY <1>1, <2>1, <2>3 DEF IInv, KeysOK, ReleasesFollow
  <2>8. EatenReleases'
    <3> SUFFICES ASSUME NEW x \in eaten', x.kind = "release"
                 PROVE  x.n \notin LetGo' /\ ~Coming(x.n)'
      BY DEF EatenReleases
    <3>1. x \in eaten /\ x \in Eaten /\ x \notin {Release(c) : c \in consumed}
      BY <1>1, <1>4
    <3>2. x.n \notin LetGo'
      BY <1>3, <3>1 DEF IInv, KeysOK, EatenReleases
    <3>3. ASSUME Coming(x.n)' PROVE FALSE
      <4>1. x.n # 0
        BY <3>1 DEF Eaten, Tokens
      <4>2. Coming(x.n)
        BY <1>1, <2>3, <3>3, <4>1 DEF Coming
      <4>3. PICK c \in consumed : c.n = x.n
        BY <3>1, <4>2 DEF IInv, KeysOK, EatenReleases
      <4>4. x = Release(c)
        BY <3>1, <4>3 DEF Eaten, Release
      <4> QED BY <3>1, <4>4
    <3> QED BY <3>2, <3>3
  <2> QED BY <2>4, <2>5, <2>6, <2>7, <2>8 DEF KeysOK
<1> QED BY <1>3, <1>5, <1>6, <1>7, <1>8 DEF IInv, Fed

-----------------------------------------------------------------------------
(* What is typed, and the release of a key.                                *)

\* What is typed is an input; during a chain it is late.
LEMMA ItemFacts ==
    ASSUME PaneTyped, NEW kd \in {"press", "release", "commit"},
           NEW k \in Keys \cup {"none"}, NEW n \in Tokens
    PROVE  LET i == Item(kd, k, n) IN
           /\ i \in Inputs /\ i.kind = kd /\ i.key = k /\ i.n = n /\ i.focus = focus
           /\ i.focus \in 0..MaxLosses
           /\ chain # NoChain => i.late
           /\ kd = "press" => i \in Presses
BY DEF PaneTyped, Item, Inputs, Presses, Tokens

\* There is a next number, and the GUI thread is idle.
LEMMA TypesNext ==
    ASSUME PaneTyped, MayType
    PROVE  typed + 1 \in Tokens /\ typed \in Nat /\ ~Busy
BY InputAssumption DEF PaneTyped, MayType, Handles, Tokens

\* What is limited by n is limited by more.
LEMMA LimitedMore ==
    ASSUME IInv, NEW n \in Nat, NEW m \in Nat, n <= m, Limited(n)
    PROVE  Limited(m)
<1>1. /\ \A b \in DOMAIN FlowNow : \A x \in Sits(FlowNow[b]) : x.n \in Nat
      /\ \A b \in DOMAIN FlowNow : FlowNow[b].kind = "resolve" => FlowNow[b].token \in Nat
  <2>1. FlowNow \in Seq(Messages)
    BY WorkerFacts, FlowType
  <2>2. \A b \in DOMAIN FlowNow : FlowNow[b] \in Messages
    BY <2>1
  <2>3. \A x \in Messages : \A i \in Sits(x) : i.n \in Nat
    BY SitsType DEF Inputs
  <2>4. \A x \in Messages : x.kind = "resolve" => x.token \in Nat
    BY DEF Messages, KeyMessages, StageMessages, ResolveMessages, ActionMessages, Shutdown, Tokens
  <2> QED BY <2>2, <2>3, <2>4
<1>2. \A j \in DOMAIN sent : sent[j].n \in Nat
  <2>1. \A j \in DOMAIN sent : sent[j] \in Sent
    BY DEF IInv, WorkerTyped
  <2> QED BY <2>1 DEF Sent, Tokens
<1>3. \A l \in Held : l.n \in Nat
  BY HeldTyped
<1>4. \A x \in eaten : x.n \in Nat
  BY DEF IInv, PaneTyped, Eaten, Tokens
<1>5. \A r \in LetGo : r \in Nat
  <2>1. LetGo \subseteq Tokens
    BY DEF IInv, WorkerTyped, LetGo
  <2> QED BY <2>1 DEF Tokens
<1>6. Below(m, FlowNow, Held, eaten, sent)
  BY <1>1, <1>2, <1>3, <1>4 DEF Limited, Below
<1> QED BY <1>5, <1>6 DEF Limited

\* A new input is the last, and what was below the old limits stays there.
LEMMA LimitsGrown ==
    ASSUME IInv, NEW y \in Nat, Fed(y), y <= typed + 1, LetGo' \subseteq LetGo,
           \A n \in Limits' : n = typed + 2 \/ (n \in Limits /\ y < n)
    PROVE  AllLimited'
<1>1. typed \in Nat /\ typed + 1 \in Limits /\ Limits \subseteq Nat
  BY LimitsType DEF IInv
<1>2. ASSUME NEW n \in Nat, y < n, Limited(n) PROVE Limited(n)'
  <2>1. \A r \in LetGo' : r \in LetGo \/ r < n
    OBVIOUS
  <2> QED BY <1>2, <2>1, LimitedByFed
<1>3. Limited(typed + 2) /\ typed + 2 \in Nat /\ y < typed + 2
  <2>1. Limited(typed + 1)
    BY <1>1 DEF IInv, AllLimited
  <2>2. typed + 1 \in Nat /\ typed + 2 \in Nat /\ typed + 1 <= typed + 2 /\ y < typed + 2
    BY <1>1
  <2> QED BY <2>1, <2>2, LimitedMore
<1>4. ASSUME NEW n \in Limits' PROVE Limited(n)'
  <2>1. CASE n = typed + 2
    <3> DEFINE m == typed + 2
    <3>1. m \in Nat /\ y < m /\ Limited(m) /\ n = m
      BY <1>3, <2>1
    <3> HIDE DEF m
    <3>2. n \in Nat /\ y < n /\ Limited(n)
      BY <3>1
    <3> QED BY <3>2, <1>2
  <2>2. CASE n \in Limits /\ y < n
    BY <2>2, <1>1, <1>2 DEF IInv, AllLimited
  <2> QED BY <2>1, <2>2
<1> QED BY <1>4 DEF AllLimited

\* The input i may have joined what is deferred.
DeferredMore(i) ==
    \A a \in DOMAIN deferred' :
      \/ a \in DOMAIN deferred /\ deferred'[a] = deferred[a]
      \/ deferred'[a] = i /\ \A b \in DOMAIN deferred' : b <= a

\* To defer an input is to append it.
LEMMA Deferring ==
    ASSUME PaneTyped, NEW i \in Inputs,
           deferred' = Append(deferred, i) \/ deferred' = deferred
    PROVE  DeferredMore(i) /\ deferred' \in Seq(Inputs)
           /\ DOMAIN deferred = 1..Len(deferred) /\ DOMAIN deferred' \subseteq Nat
           /\ DOMAIN deferred \subseteq Nat
<1>1. deferred \in Seq(Inputs) /\ DOMAIN deferred = 1..Len(deferred) /\ Len(deferred) \in Nat
  BY DEF PaneTyped
<1>2. CASE deferred' = deferred
  BY <1>1, <1>2 DEF DeferredMore
<1>3. CASE deferred' = Append(deferred, i)
  <2>1. /\ deferred' \in Seq(Inputs) /\ DOMAIN deferred' = 1..(Len(deferred) + 1)
        /\ \A a \in 1..Len(deferred) : deferred'[a] = deferred[a]
        /\ deferred'[Len(deferred) + 1] = i
    BY <1>1, <1>3
  <2>2. DeferredMore(i)
    <3> SUFFICES ASSUME NEW a \in DOMAIN deferred'
                 PROVE  \/ a \in DOMAIN deferred /\ deferred'[a] = deferred[a]
                        \/ deferred'[a] = i /\ \A b \in DOMAIN deferred' : b <= a
      BY DEF DeferredMore
    <3>1. CASE a = Len(deferred) + 1
      BY <3>1, <2>1, <1>1
    <3>2. CASE a # Len(deferred) + 1
      BY <3>2, <2>1, <1>1
    <3> QED BY <3>1, <3>2
  <2> QED BY <1>1, <2>1, <2>2
<1> QED BY <1>2, <1>3

\* All that is known to the pane has been typed.
LEMMA KnownTyped ==
    ASSUME PaneTyped, PaneOrdered
    PROVE  /\ \A p : IsKnown(p) => p.n <= typed /\ p.n \in Nat
           /\ \A c \in Taken : c.n <= typed /\ c.n \in Nat
           /\ \A a \in DOMAIN deferred : deferred[a].n <= typed /\ deferred[a].n \in Nat
           /\ \A x \in eaten : x.n <= typed /\ x.n \in Nat /\ x.n # 0
           /\ typed \in Nat
<1>1. \A a \in DOMAIN deferred : deferred[a].n <= typed /\ deferred[a].n \in Nat
  <2>1. \A a \in DOMAIN deferred : deferred[a] \in Inputs
    BY DEF PaneTyped
  <2> QED BY <2>1 DEF PaneOrdered, Inputs
<1>2. \A c \in Taken : c.n <= typed /\ c.n \in Nat
  <2>1. \A c \in consumed : c.n <= typed /\ c.n \in Nat
    BY DEF PaneTyped, PaneOrdered, Presses, Inputs
  <2>2. chain # NoChain => chain.press.n <= typed /\ chain.press.n \in Nat
    BY ChainType DEF PaneOrdered
  <2> QED BY <2>1, <2>2 DEF Taken
<1>3. \A p : IsKnown(p) => p.n <= typed /\ p.n \in Nat
  BY <1>1, <1>2 DEF IsKnown
<1>4. \A x \in eaten : x.n <= typed /\ x.n \in Nat /\ x.n # 0
  BY DEF PaneTyped, PaneOrdered, Eaten, Tokens
<1>5. typed \in Nat
  BY DEF PaneTyped
<1> QED BY <1>1, <1>2, <1>3, <1>4, <1>5

\* A key is pressed; the press is deferred, or handled and possibly bound.
LEMMA KeysPressed ==
    ASSUME PaneTyped, PaneOrdered, KeysOK, NEW k \in Keys, held[k] = 0,
           NEW i \in Presses, i.key = k, i.focus = focus, i.n = typed + 1,
           typed' = typed + 1, held' = [held EXCEPT ![k] = typed + 1],
           focus' = focus, consumed' = consumed,
           \A x \in eaten' : x \in eaten \/ x.kind = "press", LetGo' \subseteq LetGo,
           DeferredMore(i), DOMAIN deferred' \subseteq Nat, DOMAIN deferred \subseteq Nat,
           \/ Taken' \subseteq Taken
           \/ Taken' \subseteq Taken \cup {i} /\ deferred' = <<>>
    PROVE  KeysOK'
<1>1. /\ \A p : IsKnown(p) => p.n <= typed /\ p.n \in Nat
      /\ \A c \in Taken : c.n <= typed /\ c.n \in Nat
      /\ \A a \in DOMAIN deferred : deferred[a].n <= typed /\ deferred[a].n \in Nat
      /\ \A x \in eaten : x.n <= typed /\ x.n \in Nat /\ x.n # 0
      /\ typed \in Nat
  BY KnownTyped
<1>2. /\ held'[k] = typed + 1
      /\ \A j \in Keys : j # k => held'[j] = held[j]
      /\ \A j \in Keys : held[j] \in Nat /\ held[j] <= typed
  BY DEF PaneTyped, KeysOK, HeldDistinct
<1>3. i.kind = "press"
  BY DEF Presses
<1>4. \A a \in DOMAIN deferred' :
        \/ a \in DOMAIN deferred /\ deferred'[a] = deferred[a]
        \/ deferred'[a] = i /\ \A b \in DOMAIN deferred' : b <= a
  BY DEF DeferredMore
<1>5. \A a \in DOMAIN deferred' : deferred'[a].kind = "release" =>
        a \in DOMAIN deferred /\ deferred'[a] = deferred[a]
  BY <1>3, <1>4
<1>6. Taken' \subseteq Taken \cup {i}
  OBVIOUS
<1>7. \A p : IsKnown(p)' => IsKnown(p) \/ p = i
  BY <1>4, <1>6 DEF IsKnown
<1>8. \A n : Coming(n)' => Coming(n) \/ n = typed + 1
  BY <1>2, <1>5 DEF Coming
<1>9. HeldDistinct'
  BY <1>1, <1>2 DEF KeysOK, HeldDistinct
<1>10. PressOfHeld'
  <2> SUFFICES ASSUME NEW j \in Keys, NEW p, held'[j] # 0, IsKnown(p)', p.n = held'[j]
               PROVE  p.key = j /\ p.focus = focus
    BY DEF PressOfHeld
  <2>1. CASE j = k
    BY <2>1, <1>1, <1>2, <1>7
  <2>2. CASE j # k
    <3>1. p # i /\ p.n = held[j] /\ held[j] # 0
      BY <2>2, <1>1, <1>2
    <3> QED BY <3>1, <1>7 DEF KeysOK, PressOfHeld
  <2> QED BY <2>1, <2>2
<1>11. PressOfRelease'
  <2> SUFFICES ASSUME NEW j \in DOMAIN deferred', NEW p, deferred'[j].kind = "release",
                      IsKnown(p)', p.n = deferred'[j].n
               PROVE  p.key = deferred'[j].key /\ p.focus = deferred'[j].focus
    BY DEF PressOfRelease
  <2>1. j \in DOMAIN deferred /\ deferred'[j] = deferred[j]
    BY <1>5
  <2>2. p # i
    BY <2>1, <1>1
  <2> QED BY <2>1, <2>2, <1>7 DEF KeysOK, PressOfRelease
<1>12. DeferredFollow'
  <2> SUFFICES ASSUME NEW a \in DOMAIN deferred', NEW b \in DOMAIN deferred',
                      a < b, deferred'[a].key = deferred'[b].key,
                      IsKey(deferred'[a]), IsKey(deferred'[b])
               PROVE  Follows(deferred'[a], deferred'[b])
    BY DEF DeferredFollow
  <2>1. a \in DOMAIN deferred /\ deferred'[a] = deferred[a]
    <3>1. ~(b <= a)
      OBVIOUS
    <3> QED BY <3>1, <1>4
  <2>2. CASE deferred'[b] = i
    BY <2>1, <2>2, <1>1 DEF Follows
  <2>3. CASE deferred'[b] # i
    <3>1. b \in DOMAIN deferred /\ deferred'[b] = deferred[b]
      BY <2>3, <1>4
    <3> QED BY <2>1, <3>1 DEF KeysOK, DeferredFollow
  <2> QED BY <2>2, <2>3
<1>13. HeldFollow'
  <2> SUFFICES ASSUME NEW j \in Keys, NEW a \in DOMAIN deferred', held'[j] # 0,
                      deferred'[a].key = j, IsKey(deferred'[a])
               PROVE  \/ deferred'[a].n < held'[j]
                      \/ deferred'[a].n = held'[j] /\ deferred'[a].kind = "press"
    BY DEF HeldFollow
  <2>1. CASE deferred'[a] = i
    BY <2>1, <1>2, <1>3
  <2>2. CASE deferred'[a] # i
    <3>1. a \in DOMAIN deferred /\ deferred'[a] = deferred[a]
      BY <2>2, <1>4
    <3>2. CASE j = k
      BY <3>1, <3>2, <1>1, <1>2
    <3>3. CASE j # k
      BY <3>1, <3>3, <1>2 DEF KeysOK, HeldFollow
    <3> QED BY <3>2, <3>3
  <2> QED BY <2>1, <2>2
<1>14. ReleasesFollow'
  <2>1. ASSUME NEW j \in DOMAIN deferred', NEW c \in Taken',
               deferred'[j].kind = "release", c.key = deferred'[j].key
        PROVE  c.n <= deferred'[j].n
    <3>1. j \in DOMAIN deferred /\ deferred'[j] = deferred[j] /\ deferred' # <<>>
      BY <1>5, <2>1
    <3> QED BY <3>1, <2>1 DEF KeysOK, ReleasesFollow
  <2>2. ASSUME NEW j \in Keys, NEW c \in Taken', held'[j] # 0, c.key = j
        PROVE  c.n <= held'[j]
    <3>1. CASE j = k
      BY <2>2, <3>1, <1>1, <1>2, <1>6
    <3>2. CASE j # k
      BY <2>2, <3>2, <1>2, <1>6 DEF KeysOK, ReleasesFollow
    <3> QED BY <3>1, <3>2
  <2> QED BY <2>1, <2>2 DEF ReleasesFollow
<1>15. EatenReleases'
  <2> SUFFICES ASSUME NEW x \in eaten', x.kind = "release"
               PROVE  /\ x.n \notin LetGo'
                      /\ Coming(x.n)' => \E c \in consumed : c.n = x.n
    BY DEF EatenReleases
  <2>1. x \in eaten /\ x.n # typed + 1
    BY <1>1
  <2> QED BY <2>1, <1>8 DEF KeysOK, EatenReleases
<1> QED BY <1>9, <1>10, <1>11, <1>12, <1>13, <1>14, <1>15 DEF KeysOK

\* The input i was the first of the deferred ones, or nothing is deferred.
Drawn(i) ==
    \/ deferred = <<>> /\ deferred' = <<>>
    \/ deferred # <<>> /\ deferred' = Tail(deferred) /\ i = Head(deferred)

\* The positions of what is left when the first deferred input is drawn.
LEMMA DrawnFacts ==
    ASSUME PaneTyped, NEW i, Drawn(i)
    PROVE  /\ deferred' \in Seq(Inputs) /\ DOMAIN deferred' \subseteq Nat
           /\ DOMAIN deferred \subseteq Nat
           /\ \A a \in DOMAIN deferred' :
                /\ a + 1 \in DOMAIN deferred /\ deferred'[a] = deferred[a + 1]
                /\ 1 \in DOMAIN deferred /\ 1 < a + 1
           /\ deferred' # <<>> => deferred # <<>>
           /\ deferred # <<>> => 1 \in DOMAIN deferred /\ deferred[1] = i
<1>1. deferred \in Seq(Inputs)
  BY DEF PaneTyped
<1>2. CASE deferred = <<>> /\ deferred' = <<>>
  BY <1>1, <1>2
<1>3. CASE deferred # <<>> /\ deferred' = Tail(deferred) /\ i = Head(deferred)
  <2>1. /\ Len(deferred) \in Nat /\ Len(deferred) >= 1 /\ DOMAIN deferred = 1..Len(deferred)
        /\ deferred' \in Seq(Inputs) /\ DOMAIN deferred' = 1..(Len(deferred) - 1)
        /\ \A a \in 1..(Len(deferred) - 1) : deferred'[a] = deferred[a + 1]
        /\ i = deferred[1]
    BY <1>1, <1>3
  <2>2. \A a \in 1..(Len(deferred) - 1) : a + 1 \in 1..Len(deferred) /\ 1 < a + 1
    BY <2>1
  <2> QED BY <2>1, <2>2
<1> QED BY <1>2, <1>3 DEF Drawn

\* A handled press keeps the limits,
LEMMA PressLimits ==
    ASSUME IInv, chain = NoChain, NEW i \in Presses, PressDone(i), Limited(i.n),
           typed' = typed \/ typed' = typed + 1, i.n <= typed',
           \A k \in DOMAIN deferred' : IsTyped(deferred'[k]) =>
             deferred'[k].n \in Limits /\ i.n < deferred'[k].n
    PROVE  AllLimited'
<1>1. typed \in Nat /\ typed + 1 \in Limits /\ Limits \subseteq Nat /\ i.n \in Nat
  BY LimitsType DEF IInv, Presses, Inputs
<1>2. Fed(i.n) /\ LetGo' \subseteq LetGo
  BY DEF PressDone
<1>3. ASSUME NEW y, y = i.n, NEW n \in Nat, y < n, Limited(n) PROVE Limited(n)'
  <2>1. \A r \in LetGo' : r \in LetGo \/ r < n
    BY <1>2
  <2>2. Fed(y)
    BY <1>2, <1>3
  <2> QED BY <1>3, <2>1, <2>2, LimitedByFed
<1>4. ASSUME NEW n \in Nat, i.n < n, Limited(n) PROVE Limited(n)'
  BY <1>3, <1>4
<1>5. ASSUME NEW n, n = typed' + 1 PROVE Limited(n)'
  <2>1. Limited(typed + 1)
    BY <1>1 DEF IInv, AllLimited
  <2>2. n \in Nat /\ typed + 1 \in Nat /\ typed + 1 <= n /\ i.n < n
    BY <1>1, <1>5
  <2>3. Limited(n)
    BY <2>1, <2>2, LimitedMore
  <2> QED BY <2>2, <2>3, <1>4
<1>6. ASSUME chain' # NoChain PROVE Limited(i.n)'
  <2>1. Below(i.n, FlowNow', Held', eaten', sent')
    BY <1>6 DEF PressDone
  <2>2. \A r \in LetGo' : r < i.n
    BY <1>2 DEF Limited
  <2>3. ASSUME NEW n, n = i.n PROVE Limited(n)'
    BY <2>1, <2>2, <2>3 DEF Limited
  <2> QED BY <2>3
<1>7. ASSUME NEW k \in DOMAIN deferred', IsTyped(deferred'[k]), NEW n, n = deferred'[k].n
      PROVE  Limited(n)'
  <2>1. n \in Limits /\ n \in Nat /\ i.n < n
    BY <1>1, <1>7
  <2> QED BY <2>1, <1>4 DEF IInv, AllLimited
<1>8. ASSUME NEW n \in Limits' PROVE Limited(n)'
  <2>1. \/ n = typed' + 1
        \/ chain' # NoChain /\ n = chain'.press.n
        \/ \E k \in DOMAIN deferred' : IsTyped(deferred'[k]) /\ n = deferred'[k].n
    BY <1>8 DEF Limits
  <2>2. chain' # NoChain => chain'.press = i
    BY DEF PressDone
  <2> QED BY <2>1, <2>2, <1>5, <1>6, <1>7
<1> QED BY <1>8 DEF AllLimited

\* the order of what the pane has,
LEMMA PressOrdered ==
    ASSUME IInv, chain = NoChain, NEW i \in Presses, PressDone(i),
           typed' = typed \/ typed' = typed + 1, i.n <= typed',
           Drawn(i), deferred' # <<>> => i.late
    PROVE  PaneOrdered'
<1>1. /\ PaneOrdered /\ PaneTyped
  BY DEF IInv
<1>2. /\ deferred' \in Seq(Inputs) /\ DOMAIN deferred' \subseteq Nat
      /\ DOMAIN deferred \subseteq Nat
      /\ \A a \in DOMAIN deferred' :
           /\ a + 1 \in DOMAIN deferred /\ deferred'[a] = deferred[a + 1]
           /\ 1 \in DOMAIN deferred /\ 1 < a + 1
      /\ deferred' # <<>> => deferred # <<>>
      /\ deferred # <<>> => 1 \in DOMAIN deferred /\ deferred[1] = i
  BY <1>1, DrawnFacts
<1>3. /\ \A c \in Taken : c.n <= typed /\ c.n \in Nat
      /\ \A a \in DOMAIN deferred : deferred[a].n <= typed /\ deferred[a].n \in Nat
      /\ \A x \in eaten : x.n <= typed /\ x.n \in Nat
      /\ typed \in Nat /\ i.n \in Nat
  BY <1>1, KnownTyped DEF Presses, Inputs
<1>4. /\ consumed' = consumed
      /\ \/ /\ chain' = NoChain
            /\ leaders' = {} \/ leaders' = leaders \cup {i}
         \/ /\ chain' # NoChain /\ chain'.press = i
            /\ leaders' = {}
      /\ \A x \in eaten' : x \in eaten \/ (x.kind = "press" /\ x.n <= i.n)
      /\ EatenBefore(eaten', Held')
  BY DEF PressDone
<1>5. \A a, b \in DOMAIN deferred' :
        a < b /\ IsTyped(deferred'[b]) => deferred'[a].n < deferred'[b].n
  <2> SUFFICES ASSUME NEW a \in DOMAIN deferred', NEW b \in DOMAIN deferred', a < b,
                      IsTyped(deferred'[b])
               PROVE  deferred'[a].n < deferred'[b].n
    OBVIOUS
  <2>1. a + 1 < b + 1
    BY <1>2
  <2> QED BY <2>1, <1>1, <1>2 DEF PaneOrdered
<1>6. \A b \in DOMAIN deferred' : IsTyped(deferred'[b]) => i.n < deferred'[b].n
  BY <1>1, <1>2 DEF PaneOrdered
<1>7. \A b \in DOMAIN deferred' : deferred'[b].n <= typed' /\ deferred'[b].late
  <2> SUFFICES ASSUME NEW b \in DOMAIN deferred'
               PROVE  deferred'[b].n <= typed' /\ deferred'[b].late
    OBVIOUS
  <2>1. deferred[b + 1].n <= typed /\ deferred[b + 1].late /\ deferred[b + 1].n \in Nat
    BY <1>1, <1>2, <1>3 DEF PaneOrdered
  <2> QED BY <2>1, <1>2, <1>3
<1>8. chain' # NoChain => leaders' = {} /\ chain'.press.n <= typed'
        /\ \A b \in DOMAIN deferred' : IsTyped(deferred'[b]) => chain'.press.n < deferred'[b].n
  BY <1>4, <1>6
<1>9. deferred' # <<>> => \A l \in leaders' : l.late
  BY <1>1, <1>2, <1>4 DEF PaneOrdered
<1>10. \A c \in consumed' : c.n <= typed'
  BY <1>3, <1>4 DEF Taken
<1>11. \A x \in eaten' : x.n <= typed'
  <2> SUFFICES ASSUME NEW x \in eaten' PROVE x.n <= typed'
    OBVIOUS
  <2>1. CASE x \in eaten
    BY <2>1, <1>3
  <2>2. CASE x.n <= i.n /\ x \notin eaten
    <3>1. x \in Eaten
      BY DEF PressDone, Fed, FlowsOK, Good, FlowOK
    <3>2. x.n \in Nat
      BY <3>1 DEF Eaten, Tokens
    <3> QED BY <2>2, <3>2, <1>3
  <2> QED BY <2>1, <2>2, <1>4
<1> QED BY <1>4, <1>5, <1>7, <1>8, <1>9, <1>10, <1>11 DEF PaneOrdered

\* and the types.
LEMMA PressTyped ==
    ASSUME PaneTyped, NEW i, PressDone(i),
           typed' \in 0..MaxTyped, held' \in [Keys -> 0..MaxTyped],
           UNCHANGED <<focus, life>>, deferred' \in Seq(Inputs)
    PROVE  PaneTyped'
<1>1. eaten' \subseteq Eaten
  BY DEF PressDone, Fed, FlowsOK, Good, FlowOK
<1> QED BY <1>1 DEF PaneTyped, PressDone

LEMMA KeyPressedStep ==
    ASSUME IInv, NEW k \in Keys, KeyPressed(k)
    PROVE  IInv'
<1> DEFINE i == Item("press", k, typed + 1)
<1>1. /\ typed' = typed + 1 /\ held[k] = 0 /\ held' = [held EXCEPT ![k] = typed + 1]
      /\ focus' = focus /\ life' = life /\ worker' = worker /\ UNCHANGED history
      /\ MayType
  BY DEF KeyPressed
<1>2. Defer(i) \/ (chain = NoChain /\ HandlePress(i) /\ UNCHANGED deferred)
  BY <1>1 DEF KeyPressed
<1>3. /\ PaneTyped /\ PaneOrdered /\ KeysOK /\ WorkerTyped /\ FlowsOK /\ Owned
      /\ EatenBefore(eaten, Held)
  BY DEF IInv, PaneOrdered
<1>4. typed + 1 \in Tokens /\ typed \in Nat /\ ~Busy
  BY <1>1, <1>3, TypesNext
<1>5. /\ i \in Inputs /\ i.kind = "press" /\ i.key = k /\ i.n = typed + 1 /\ i.focus = focus
      /\ i.focus \in 0..MaxLosses
      /\ chain # NoChain => i.late
      /\ i \in Presses
  <2> DEFINE kd == "press"
             n == typed + 1
             x == Item(kd, k, n)
  <2>1. kd \in {"press", "release", "commit"} /\ k \in Keys \cup {"none"} /\ n \in Tokens
    BY <1>4
  <2> HIDE DEF kd, n
  <2>2. /\ x \in Inputs /\ x.kind = kd /\ x.key = k /\ x.n = n /\ x.focus = focus
        /\ x.focus \in 0..MaxLosses
        /\ chain # NoChain => x.late
        /\ kd = "press" => x \in Presses
    BY <1>3, <2>1, ItemFacts
  <2> QED BY <2>2 DEF kd, n
<1>6. typed' \in 0..MaxTyped /\ held' \in [Keys -> 0..MaxTyped]
  BY <1>1, <1>3, <1>4 DEF PaneTyped, Tokens
<1> HIDE DEF i
<1>7. CASE Defer(i)
  <2>1. /\ chain # NoChain /\ deferred' = Append(deferred, i)
        /\ UNCHANGED <<bindings, chain, down>>
    BY <1>7 DEF Defer
  <2>2. leaders' = leaders /\ consumed' = consumed /\ eaten' = eaten /\ chain' = chain /\ down' = down
    BY <2>1 DEF bindings
  <2>3. Held' = Held /\ Taken' = Taken
    BY <2>2 DEF Held, Taken
  <2>4. Fed(0) /\ LetGo' \subseteq LetGo /\ EatenBefore(eaten', Held')
    BY <1>1, <1>3, <2>2, <2>3, IdleIsDone
  <2>5. /\ DeferredMore(i) /\ deferred' \in Seq(Inputs) /\ DOMAIN deferred = 1..Len(deferred)
        /\ DOMAIN deferred' \subseteq Nat /\ DOMAIN deferred \subseteq Nat
    BY <1>3, <1>5, <2>1, Deferring
  <2>6. PaneTyped'
    BY <1>1, <1>3, <1>6, <2>2, <2>5 DEF PaneTyped
  <2>7. AllLimited'
    <3> DEFINE y == 0
    <3>1. \A n \in Limits' : n = typed + 2 \/ n \in Limits
      <4> SUFFICES ASSUME NEW n \in Limits' PROVE n = typed + 2 \/ n \in Limits
        OBVIOUS
      <4>1. \/ n = typed' + 1
            \/ chain' # NoChain /\ n = chain'.press.n
            \/ \E j \in DOMAIN deferred' : IsTyped(deferred'[j]) /\ n = deferred'[j].n
        BY DEF Limits
      <4>2. CASE n = typed' + 1
        BY <4>2, <1>1, <1>4
      <4>3. CASE chain' # NoChain /\ n = chain'.press.n
        BY <4>3, <1>3, <2>2, LimitsType
      <4>4. ASSUME NEW j \in DOMAIN deferred', IsTyped(deferred'[j]), n = deferred'[j].n
            PROVE  n \in Limits
        <5>1. CASE deferred'[j] = i
          BY <4>4, <5>1, <1>3, <1>5, LimitsType
        <5>2. CASE deferred'[j] # i
          BY <4>4, <5>2, <1>3, <2>5, LimitsType DEF DeferredMore
        <5> QED BY <5>1, <5>2
      <4> QED BY <4>1, <4>2, <4>3, <4>4
    <3>2. \A n \in Limits : y < n
      BY <1>3, LimitsType
    <3>3. y \in Nat /\ y <= typed + 1
      BY <1>4
    <3>4. Fed(y)
      BY <2>4
    <3> HIDE DEF y
    <3> QED BY <3>1, <3>2, <3>3, <3>4, <2>4, LimitsGrown
  <2>8. PaneOrdered'
    <3>1. /\ \A a \in DOMAIN deferred : deferred[a].n <= typed /\ deferred[a].n \in Nat
          /\ chain.press.n <= typed /\ chain.press.n \in Nat
          /\ \A c \in consumed : c.n <= typed /\ c.n \in Nat
          /\ \A x \in eaten : x.n <= typed /\ x.n \in Nat
      BY <1>3, <2>1, KnownTyped, ChainType DEF PaneOrdered, Taken
    <3>2. \A b \in DOMAIN deferred' : IsTyped(deferred'[b]) => chain.press.n < deferred'[b].n
      BY <1>3, <1>4, <1>5, <2>1, <2>5, <3>1 DEF PaneOrdered, DeferredMore
    <3>3. \A a, b \in DOMAIN deferred' :
            a < b /\ IsTyped(deferred'[b]) => deferred'[a].n < deferred'[b].n
      <4> SUFFICES ASSUME NEW a \in DOMAIN deferred', NEW b \in DOMAIN deferred', a < b,
                          IsTyped(deferred'[b])
                   PROVE  deferred'[a].n < deferred'[b].n
        OBVIOUS
      <4>1. a \in DOMAIN deferred /\ deferred'[a] = deferred[a]
        <5>1. ~(b <= a)
          BY <2>5
        <5> QED BY <5>1, <2>5 DEF DeferredMore
      <4>2. CASE deferred'[b] = i
        BY <4>1, <4>2, <3>1, <1>4, <1>5
      <4>3. CASE deferred'[b] # i
        BY <4>1, <4>3, <1>3, <2>5 DEF PaneOrdered, DeferredMore
      <4> QED BY <4>2, <4>3
    <3>4. \A b \in DOMAIN deferred' : deferred'[b].n <= typed' /\ deferred'[b].late
      BY <1>1, <1>3, <1>4, <1>5, <2>1, <2>5, <3>1 DEF PaneOrdered, DeferredMore
    <3>5. /\ leaders' = {} /\ chain'.press.n <= typed'
          /\ \A c \in consumed' : c.n <= typed'
          /\ \A x \in eaten' : x.n <= typed'
      BY <1>1, <1>3, <1>4, <2>1, <2>2, <3>1 DEF PaneOrdered
    <3> QED BY <2>1, <2>2, <2>4, <3>2, <3>3, <3>4, <3>5 DEF PaneOrdered
  <2>9. KeysOK'
    BY <1>1, <1>3, <1>5, <2>2, <2>3, <2>4, <2>5, KeysPressed
  <2> QED BY <2>4, <2>6, <2>7, <2>8, <2>9 DEF IInv, Fed
<1>8. CASE chain = NoChain /\ HandlePress(i) /\ UNCHANGED deferred
  <2>1. deferred = <<>> /\ deferred' = <<>> /\ Drawn(i)
    BY <1>4, <1>8 DEF Busy, Drawn
  <2>2. Limited(i.n)
    BY <1>3, <1>5, LimitsType DEF IInv, AllLimited
  <2>3. PressDone(i)
    BY <1>1, <1>3, <1>5, <1>8, <2>2, PressIsDone DEF Limited
  <2>4. i.n <= typed' /\ typed' = typed + 1
    BY <1>1, <1>4, <1>5
  <2>5. PaneTyped'
    <3>1. deferred' \in Seq(Inputs)
      BY <2>1
    <3> QED BY <1>1, <1>3, <1>6, <2>3, <3>1, PressTyped
  <2>6. AllLimited'
    <3>1. \A j \in DOMAIN deferred' : IsTyped(deferred'[j]) =>
            deferred'[j].n \in Limits /\ i.n < deferred'[j].n
      BY <2>1
    <3> QED BY <1>5, <1>8, <2>2, <2>3, <2>4, <3>1, PressLimits
  <2>7. PaneOrdered'
    BY <1>5, <1>8, <2>1, <2>3, <2>4, PressOrdered
  <2>8. KeysOK'
    <3>1. /\ consumed' = consumed /\ LetGo' \subseteq LetGo
          /\ chain' = NoChain \/ chain'.press = i
          /\ \A x \in eaten' : x \in eaten \/ x.kind = "press"
      BY <2>3 DEF PressDone
    <3>2. Taken' \subseteq Taken \cup {i}
      BY <3>1 DEF Taken
    <3>3. /\ DeferredMore(i) /\ DOMAIN deferred' \subseteq Nat /\ DOMAIN deferred \subseteq Nat
      BY <2>1 DEF DeferredMore
    <3> QED BY <1>1, <1>3, <1>5, <2>1, <3>1, <3>2, <3>3, KeysPressed
  <2>9. Fed(i.n)
    BY <2>3 DEF PressDone
  <2> QED BY <2>5, <2>6, <2>7, <2>8, <2>9 DEF IInv, Fed
<1> QED BY <1>2, <1>7, <1>8

\* The release of a key is deferred.
LEMMA ReleaseDeferred ==
    ASSUME PaneTyped, PaneOrdered, KeysOK, NEW k \in Keys, held[k] # 0,
           NEW i \in Inputs, i.kind = "release", i.key = k, i.focus = focus, i.n = held[k],
           typed' = typed, held' = [held EXCEPT ![k] = 0], focus' = focus,
           consumed' = consumed, eaten' = eaten, Taken' = Taken, LetGo' \subseteq LetGo,
           DeferredMore(i), DOMAIN deferred' \subseteq Nat, DOMAIN deferred \subseteq Nat
    PROVE  KeysOK'
<1>1. /\ held'[k] = 0 /\ held[k] \in Nat
      /\ \A j \in Keys : j # k => held'[j] = held[j]
      /\ \A j \in Keys : held[j] \in Nat /\ held[j] <= typed
      /\ \A x \in eaten : x.n # 0
      /\ typed \in Nat
  BY KnownTyped DEF PaneTyped, KeysOK, HeldDistinct
<1>2. \A a \in DOMAIN deferred' :
        \/ a \in DOMAIN deferred /\ deferred'[a] = deferred[a]
        \/ deferred'[a] = i /\ \A b \in DOMAIN deferred' : b <= a
  BY DEF DeferredMore
<1>3. \A p : IsKnown(p)' => IsKnown(p)
  BY <1>2 DEF IsKnown
<1>4. \A n : n # 0 /\ Coming(n)' => Coming(n)
  BY <1>1, <1>2 DEF Coming
<1>5. HeldDistinct'
  BY <1>1 DEF KeysOK, HeldDistinct
<1>6. PressOfHeld'
  BY <1>1, <1>3 DEF KeysOK, PressOfHeld
<1>7. PressOfRelease'
  <2> SUFFICES ASSUME NEW j \in DOMAIN deferred', NEW p, deferred'[j].kind = "release",
                      IsKnown(p)', p.n = deferred'[j].n
               PROVE  p.key = deferred'[j].key /\ p.focus = deferred'[j].focus
    BY DEF PressOfRelease
  <2>1. CASE deferred'[j] = i
    BY <2>1, <1>3 DEF KeysOK, PressOfHeld
  <2>2. CASE deferred'[j] # i
    BY <2>2, <1>2, <1>3 DEF KeysOK, PressOfRelease
  <2> QED BY <2>1, <2>2
<1>8. DeferredFollow'
  <2> SUFFICES ASSUME NEW a \in DOMAIN deferred', NEW b \in DOMAIN deferred',
                      a < b, deferred'[a].key = deferred'[b].key,
                      IsKey(deferred'[a]), IsKey(deferred'[b])
               PROVE  Follows(deferred'[a], deferred'[b])
    BY DEF DeferredFollow
  <2>1. a \in DOMAIN deferred /\ deferred'[a] = deferred[a]
    <3>1. ~(b <= a)
      OBVIOUS
    <3> QED BY <3>1, <1>2
  <2>2. CASE deferred'[b] = i
    <3>1. deferred[a].n < held[k] \/ (deferred[a].n = held[k] /\ deferred[a].kind = "press")
      BY <2>1, <2>2 DEF KeysOK, HeldFollow
    <3> QED BY <2>1, <2>2, <3>1 DEF Follows
  <2>3. CASE deferred'[b] # i
    BY <2>1, <2>3, <1>2 DEF KeysOK, DeferredFollow
  <2> QED BY <2>2, <2>3
<1>9. HeldFollow'
  <2> SUFFICES ASSUME NEW j \in Keys, NEW a \in DOMAIN deferred', held'[j] # 0,
                      deferred'[a].key = j, IsKey(deferred'[a])
               PROVE  \/ deferred'[a].n < held'[j]
                      \/ deferred'[a].n = held'[j] /\ deferred'[a].kind = "press"
    BY DEF HeldFollow
  <2>1. j # k /\ deferred'[a] # i
    BY <1>1
  <2> QED BY <2>1, <1>1, <1>2 DEF KeysOK, HeldFollow
<1>10. ReleasesFollow'
  <2>1. ASSUME NEW j \in DOMAIN deferred', NEW c \in Taken',
               deferred'[j].kind = "release", c.key = deferred'[j].key
        PROVE  c.n <= deferred'[j].n
    BY <1>2, <2>1 DEF KeysOK, ReleasesFollow
  <2>2. ASSUME NEW j \in Keys, NEW c \in Taken', held'[j] # 0, c.key = j
        PROVE  c.n <= held'[j]
    BY <1>1, <2>2 DEF KeysOK, ReleasesFollow
  <2> QED BY <2>1, <2>2 DEF ReleasesFollow
<1>11. EatenReleases'
  BY <1>1, <1>4 DEF KeysOK, EatenReleases
<1> QED BY <1>5, <1>6, <1>7, <1>8, <1>9, <1>10, <1>11 DEF KeysOK

\* The release of a key goes to the child, or with the press that was consumed.
LEMMA ReleaseGoes ==
    ASSUME PaneTyped, PaneOrdered, KeysOK, chain = NoChain, chain' = NoChain,
           deferred = <<>>, deferred' = <<>>, NEW k \in Keys, held[k] # 0,
           typed' = typed, held' = [held EXCEPT ![k] = 0], focus' = focus,
           consumed' = {c \in consumed : c.key # k}, eaten' = eaten,
           \A n \in LetGo' : n \in LetGo \/ n = held[k],
           (\E c \in consumed : c.key = k) => LetGo' \subseteq LetGo
    PROVE  KeysOK'
<1>1. /\ held'[k] = 0
      /\ \A j \in Keys : j # k => held'[j] = held[j]
      /\ \A j \in Keys : held[j] \in Nat /\ held[j] <= typed
      /\ \A x \in eaten : x.n # 0
      /\ typed \in Nat
  BY KnownTyped DEF PaneTyped, KeysOK, HeldDistinct
<1>2. /\ Taken' = consumed' /\ Taken = consumed
      /\ \A p : IsKnown(p)' => IsKnown(p)
      /\ \A p \in consumed : IsKnown(p)
  BY DEF Taken, IsKnown
<1>3. HeldDistinct'
  BY <1>1 DEF KeysOK, HeldDistinct
<1>4. PressOfHeld'
  BY <1>1, <1>2 DEF KeysOK, PressOfHeld
<1>5. PressOfRelease' /\ DeferredFollow' /\ HeldFollow'
  BY DEF PressOfRelease, DeferredFollow, HeldFollow
<1>6. ReleasesFollow'
  BY <1>1, <1>2 DEF KeysOK, ReleasesFollow
<1>7. EatenReleases'
  <2> SUFFICES ASSUME NEW x \in eaten, x.kind = "release"
               PROVE  /\ x.n \notin LetGo'
                      /\ Coming(x.n)' => \E c \in consumed' : c.n = x.n
    BY DEF EatenReleases
  <2>1. x.n \notin LetGo /\ (Coming(x.n) => \E c \in consumed : c.n = x.n)
    BY DEF KeysOK, EatenReleases
  <2>2. ASSUME NEW j \in Keys, held[j] = x.n
        PROVE  \E c \in consumed : c.n = x.n /\ c.key = j
    <3>1. PICK c \in consumed : c.n = x.n
      BY <2>1, <2>2 DEF Coming
    <3>2. c.key = j
      BY <1>1, <1>2, <2>2, <3>1 DEF KeysOK, PressOfHeld
    <3> QED BY <3>1, <3>2
  <2>3. x.n \notin LetGo'
    BY <2>1, <2>2
  <2>4. ASSUME Coming(x.n)' PROVE \E c \in consumed' : c.n = x.n
    <3>1. PICK j \in Keys : held'[j] = x.n
      BY <2>4 DEF Coming
    <3>2. j # k /\ held[j] = x.n
      BY <1>1, <3>1
    <3> QED BY <2>2, <3>2
  <2> QED BY <2>3, <2>4
<1> QED BY <1>3, <1>4, <1>5, <1>6, <1>7 DEF KeysOK

LEMMA KeyReleasedStep ==
    ASSUME IInv, NEW k \in Keys, KeyReleased(k)
    PROVE  IInv'
<1> DEFINE i == Item("release", k, held[k])
<1>1. /\ typed' = typed /\ held[k] # 0 /\ held' = [held EXCEPT ![k] = 0]
      /\ focus' = focus /\ life' = life /\ worker' = worker /\ UNCHANGED history
      /\ ~Busy
  BY DEF KeyReleased, Handles
<1>2. Defer(i) \/ (chain = NoChain /\ HandleRelease(i) /\ UNCHANGED deferred)
  BY DEF KeyReleased
<1>3. /\ PaneTyped /\ PaneOrdered /\ KeysOK /\ WorkerTyped /\ FlowsOK /\ Owned
      /\ EatenBefore(eaten, Held)
  BY DEF IInv, PaneOrdered
<1>4. held[k] \in Tokens /\ held[k] <= typed /\ typed \in Nat /\ held[k] \in Nat
  BY <1>1, <1>3, InputAssumption DEF PaneTyped, KeysOK, HeldDistinct, Tokens
<1>5. /\ i \in Inputs /\ i.kind = "release" /\ i.key = k /\ i.n = held[k] /\ i.focus = focus
      /\ chain # NoChain => i.late
      /\ ~IsTyped(i)
  <2> DEFINE kd == "release"
             n == held[k]
             x == Item(kd, k, n)
  <2>1. kd \in {"press", "release", "commit"} /\ k \in Keys \cup {"none"} /\ n \in Tokens
    BY <1>4
  <2> HIDE DEF kd, n
  <2>2. /\ x \in Inputs /\ x.kind = kd /\ x.key = k /\ x.n = n /\ x.focus = focus
        /\ x.focus \in 0..MaxLosses
        /\ chain # NoChain => x.late
        /\ kd = "press" => x \in Presses
    BY <1>3, <2>1, ItemFacts
  <2> QED BY <2>2 DEF kd, n, IsTyped
<1>6. held' \in [Keys -> 0..MaxTyped]
  <2>1. 0 \in 0..MaxTyped
    BY InputAssumption
  <2> QED BY <1>1, <1>3, <2>1 DEF PaneTyped
<1> HIDE DEF i
<1>7. CASE Defer(i)
  <2>1. /\ chain # NoChain /\ deferred' = Append(deferred, i)
        /\ UNCHANGED <<bindings, chain, down>>
    BY <1>7 DEF Defer
  <2>2. leaders' = leaders /\ consumed' = consumed /\ eaten' = eaten /\ chain' = chain /\ down' = down
    BY <2>1 DEF bindings
  <2>3. Held' = Held /\ Taken' = Taken
    BY <2>2 DEF Held, Taken
  <2>4. Fed(0) /\ LetGo' \subseteq LetGo /\ EatenBefore(eaten', Held')
    BY <1>1, <1>3, <2>2, <2>3, IdleIsDone
  <2>5. /\ DeferredMore(i) /\ deferred' \in Seq(Inputs) /\ DOMAIN deferred = 1..Len(deferred)
        /\ DOMAIN deferred' \subseteq Nat /\ DOMAIN deferred \subseteq Nat
    BY <1>3, <1>5, <2>1, Deferring
  <2>6. PaneTyped'
    BY <1>1, <1>3, <1>6, <2>2, <2>5 DEF PaneTyped
  <2>7. AllLimited'
    <3>1. Limits' \subseteq Limits
      <4> SUFFICES ASSUME NEW n \in Limits' PROVE n \in Limits
        OBVIOUS
      <4>1. \/ n = typed + 1
            \/ chain # NoChain /\ n = chain.press.n
            \/ \E j \in DOMAIN deferred' : IsTyped(deferred'[j]) /\ n = deferred'[j].n
        BY <1>1, <2>2 DEF Limits
      <4>2. ASSUME NEW j \in DOMAIN deferred', IsTyped(deferred'[j]), n = deferred'[j].n
            PROVE  n \in Limits
        BY <4>2, <1>3, <1>5, <2>5, LimitsType DEF DeferredMore
      <4> QED BY <4>1, <4>2, <1>3, LimitsType
    <3> QED BY <3>1, <2>4, LimitsKept
  <2>8. PaneOrdered'
    <3>1. \A b \in DOMAIN deferred' : IsTyped(deferred'[b]) =>
            b \in DOMAIN deferred /\ deferred'[b] = deferred[b]
      BY <1>5, <2>5 DEF DeferredMore
    <3>2. \A b \in DOMAIN deferred' : IsTyped(deferred'[b]) => chain.press.n < deferred'[b].n
      BY <1>3, <2>1, <3>1 DEF PaneOrdered
    <3>3. \A a, b \in DOMAIN deferred' :
            a < b /\ IsTyped(deferred'[b]) => deferred'[a].n < deferred'[b].n
      <4> SUFFICES ASSUME NEW a \in DOMAIN deferred', NEW b \in DOMAIN deferred', a < b,
                          IsTyped(deferred'[b])
                   PROVE  deferred'[a].n < deferred'[b].n
        OBVIOUS
      <4>1. a \in DOMAIN deferred /\ deferred'[a] = deferred[a]
        <5>1. ~(b <= a)
          BY <2>5
        <5> QED BY <5>1, <2>5 DEF DeferredMore
      <4> QED BY <4>1, <3>1, <1>3 DEF PaneOrdered
    <3>4. \A b \in DOMAIN deferred' : deferred'[b].n <= typed' /\ deferred'[b].late
      BY <1>1, <1>3, <1>4, <1>5, <2>1, <2>5 DEF PaneOrdered, DeferredMore
    <3> QED BY <1>1, <1>3, <2>1, <2>2, <2>4, <3>2, <3>3, <3>4 DEF PaneOrdered
  <2>9. KeysOK'
    BY <1>1, <1>3, <1>5, <2>2, <2>3, <2>4, <2>5, ReleaseDeferred
  <2> QED BY <2>4, <2>6, <2>7, <2>8, <2>9 DEF IInv, Fed
<1>8. CASE chain = NoChain /\ HandleRelease(i) /\ UNCHANGED deferred
  <2>1. deferred = <<>> /\ deferred' = <<>>
    BY <1>1, <1>8 DEF Busy
  <2>2. /\ Fed(0)
        /\ leaders' = leaders /\ eaten' = eaten /\ chain' = chain /\ Held' = Held
        /\ consumed' = {c \in consumed : c.key # i.key}
        /\ \A n \in LetGo' : n \in LetGo \/ n = i.n
        /\ (\E c \in consumed : c.key = i.key) => LetGo' \subseteq LetGo
    BY <1>1, <1>3, <1>5, <1>8, ReleaseIsDone
  <2>3. PaneTyped'
    BY <1>1, <1>3, <1>6, <2>1, <2>2 DEF PaneTyped
  <2>4. AllLimited'
    <3> DEFINE y == 0
    <3>1. /\ typed + 1 \in Nat /\ y < typed + 1 /\ held[k] < typed + 1 /\ Limited(typed + 1)
      BY <1>3, <1>4, LimitsType DEF IInv, AllLimited
    <3>2. Fed(y)
      BY <2>2
    <3> HIDE DEF y
    <3>3. ASSUME NEW n, n = typed + 1 PROVE Limited(n)'
      <4>1. \A r \in LetGo' : r \in LetGo \/ r < n
        BY <3>1, <3>3, <2>2, <1>5
      <4> QED BY <3>1, <3>2, <3>3, <4>1, LimitedByFed
    <3>4. Limits' = {typed + 1}
      BY <1>1, <1>8, <2>1, <2>2 DEF Limits
    <3> QED BY <3>3, <3>4 DEF AllLimited
  <2>5. PaneOrdered'
    BY <1>1, <1>3, <1>8, <2>1, <2>2 DEF PaneOrdered
  <2>6. KeysOK'
    BY <1>1, <1>3, <1>5, <1>8, <2>1, <2>2, ReleaseGoes
  <2> QED BY <2>2, <2>3, <2>4, <2>5, <2>6 DEF IInv, Fed
<1> QED BY <1>2, <1>7, <1>8

\* Text is committed: no key changes.
LEMMA KeysTyped ==
    ASSUME KeysOK, NEW i, i.kind = "commit", DeferredMore(i),
           HeldDistinct', held' = held, focus' = focus, consumed' = consumed,
           Taken' \subseteq Taken,
           \A x \in eaten' : x \in eaten \/ x.kind = "press", LetGo' \subseteq LetGo
    PROVE  KeysOK'
<1>1. \A a \in DOMAIN deferred' : deferred'[a].kind # "commit" =>
        a \in DOMAIN deferred /\ deferred'[a] = deferred[a]
  BY DEF DeferredMore
<1>2. \A p : IsKnown(p)' => IsKnown(p)
  BY <1>1 DEF IsKnown
<1>3. \A n : Coming(n)' => Coming(n)
  BY <1>1 DEF Coming
<1>4. PressOfHeld' /\ PressOfRelease'
  BY <1>1, <1>2 DEF KeysOK, PressOfHeld, PressOfRelease
<1>5. DeferredFollow' /\ HeldFollow'
  BY <1>1 DEF KeysOK, DeferredFollow, HeldFollow, IsKey
<1>6. ReleasesFollow'
  BY <1>1 DEF KeysOK, ReleasesFollow
<1>7. EatenReleases'
  BY <1>3 DEF KeysOK, EatenReleases
<1> QED BY <1>4, <1>5, <1>6, <1>7 DEF KeysOK

LEMMA TextCommittedStep ==
    ASSUME IInv, TextCommitted
    PROVE  IInv'
<1> DEFINE i == Item("commit", "none", typed + 1)
<1>1. /\ typed' = typed + 1 /\ held' = held /\ focus' = focus /\ consumed' = consumed
      /\ chain' = chain /\ life' = life /\ worker' = worker /\ UNCHANGED history
      /\ MayType /\ CancelSequence
  BY DEF TextCommitted
<1>2. IF chain # NoChain
      THEN deferred' = Append(deferred, i) /\ Post(Dropped(leaders))
      ELSE Post(Append(Dropped(leaders), Key(i))) /\ UNCHANGED deferred
  BY <1>1 DEF TextCommitted
<1>3. /\ PaneTyped /\ PaneOrdered /\ KeysOK /\ WorkerTyped /\ FlowsOK /\ Owned
      /\ EatenBefore(eaten, Held) /\ (chain # NoChain => leaders = {})
  BY DEF IInv, PaneOrdered
<1>4. typed + 1 \in Tokens /\ typed \in Nat /\ ~Busy
  BY <1>1, <1>3, TypesNext
<1>5. /\ i \in Inputs /\ i.kind = "commit" /\ i.n = typed + 1
      /\ chain # NoChain => i.late
  <2> DEFINE kd == "commit"
             k == "none"
             n == typed + 1
             x == Item(kd, k, n)
  <2>1. kd \in {"press", "release", "commit"} /\ k \in Keys \cup {"none"} /\ n \in Tokens
    BY <1>4
  <2> HIDE DEF kd, n, k
  <2>2. /\ x \in Inputs /\ x.kind = kd /\ x.key = k /\ x.n = n /\ x.focus = focus
        /\ x.focus \in 0..MaxLosses
        /\ chain # NoChain => x.late
        /\ kd = "press" => x \in Presses
    BY <1>3, <2>1, ItemFacts
  <2> QED BY <2>2 DEF kd, n, k
<1>6. /\ typed' \in 0..MaxTyped /\ HeldDistinct'
  <2>1. \A k \in Keys : held[k] \in Nat
    BY <1>3 DEF PaneTyped
  <2> QED BY <1>1, <1>3, <1>4, <2>1 DEF Tokens, KeysOK, HeldDistinct
<1>7. leaders' = {} /\ eaten' = eaten \cup {Press(p) : p \in leaders} /\ Taken' = Taken
  BY <1>1 DEF CancelSequence, Taken
<1>8. \A x \in eaten' : (x \in eaten \/ x.kind = "press") /\ x.n <= typed'
  <2>1. \A l \in leaders : l.n <= typed /\ l.n \in Nat
    BY HeldTyped
  <2>2. \A x \in eaten : x.n <= typed /\ x.n \in Nat
    BY <1>3, KnownTyped
  <2> QED BY <2>1, <2>2, <1>1, <1>4, <1>7 DEF Press
<1>9. /\ \A a \in DOMAIN deferred : deferred[a].n <= typed /\ deferred[a].n \in Nat
      /\ \A c \in consumed : c.n <= typed /\ c.n \in Nat
      /\ chain # NoChain => chain.press.n <= typed /\ chain.press.n \in Nat
  BY <1>3, KnownTyped, ChainType DEF PaneOrdered, Taken
<1> HIDE DEF i
<1>10. CASE chain # NoChain
  <2>1. deferred' = Append(deferred, i) /\ Post(Dropped(leaders))
    BY <1>2, <1>10
  <2>2. Fed(0) /\ eaten' \subseteq Eaten /\ EatenBefore(eaten', Held') /\ LetGo' \subseteq LetGo
    BY <1>1, <1>3, <2>1, CancelIsDone
  <2>3. /\ DeferredMore(i) /\ deferred' \in Seq(Inputs) /\ DOMAIN deferred = 1..Len(deferred)
        /\ DOMAIN deferred' \subseteq Nat /\ DOMAIN deferred \subseteq Nat
    BY <1>3, <1>5, <2>1, Deferring
  <2>4. PaneTyped'
    BY <1>1, <1>3, <1>6, <1>7, <2>2, <2>3 DEF PaneTyped
  <2>5. AllLimited'
    <3> DEFINE y == 0
    <3>1. \A n \in Limits' : n = typed + 2 \/ n \in Limits
      <4> SUFFICES ASSUME NEW n \in Limits' PROVE n = typed + 2 \/ n \in Limits
        OBVIOUS
      <4>1. \/ n = typed' + 1
            \/ chain # NoChain /\ n = chain.press.n
            \/ \E j \in DOMAIN deferred' : IsTyped(deferred'[j]) /\ n = deferred'[j].n
        BY <1>1 DEF Limits
      <4>2. CASE n = typed' + 1
        BY <4>2, <1>1, <1>4
      <4>3. CASE chain # NoChain /\ n = chain.press.n
        BY <4>3, <1>3, LimitsType
      <4>4. ASSUME NEW j \in DOMAIN deferred', IsTyped(deferred'[j]), n = deferred'[j].n
            PROVE  n \in Limits
        <5>1. CASE deferred'[j] = i
          BY <4>4, <5>1, <1>3, <1>5, LimitsType
        <5>2. CASE deferred'[j] # i
          BY <4>4, <5>2, <1>3, <2>3, LimitsType DEF DeferredMore
        <5> QED BY <5>1, <5>2
      <4> QED BY <4>1, <4>2, <4>3, <4>4
    <3>2. \A n \in Limits : y < n
      BY <1>3, LimitsType
    <3>3. y \in Nat /\ y <= typed + 1
      BY <1>4
    <3>4. Fed(y)
      BY <2>2
    <3> HIDE DEF y
    <3> QED BY <3>1, <3>2, <3>3, <3>4, <2>2, LimitsGrown
  <2>6. PaneOrdered'
    <3>1. \A b \in DOMAIN deferred' : IsTyped(deferred'[b]) => chain.press.n < deferred'[b].n
      BY <1>3, <1>4, <1>5, <1>9, <1>10, <2>3 DEF PaneOrdered, DeferredMore
    <3>2. \A a, b \in DOMAIN deferred' :
            a < b /\ IsTyped(deferred'[b]) => deferred'[a].n < deferred'[b].n
      <4> SUFFICES ASSUME NEW a \in DOMAIN deferred', NEW b \in DOMAIN deferred', a < b,
                          IsTyped(deferred'[b])
                   PROVE  deferred'[a].n < deferred'[b].n
        OBVIOUS
      <4>1. a \in DOMAIN deferred /\ deferred'[a] = deferred[a]
        <5>1. ~(b <= a)
          BY <2>3
        <5> QED BY <5>1, <2>3 DEF DeferredMore
      <4>2. CASE deferred'[b] = i
        BY <4>1, <4>2, <1>4, <1>5, <1>9
      <4>3. CASE deferred'[b] # i
        BY <4>1, <4>3, <1>3, <2>3 DEF PaneOrdered, DeferredMore
      <4> QED BY <4>2, <4>3
    <3>3. \A b \in DOMAIN deferred' : deferred'[b].n <= typed' /\ deferred'[b].late
      BY <1>1, <1>3, <1>4, <1>5, <1>9, <1>10, <2>3 DEF PaneOrdered, DeferredMore
    <3>4. chain'.press.n <= typed' /\ \A c \in consumed' : c.n <= typed'
      BY <1>1, <1>4, <1>9, <1>10
    <3> QED BY <1>1, <1>7, <1>8, <1>10, <2>2, <3>1, <3>2, <3>3, <3>4 DEF PaneOrdered
  <2>7. KeysOK'
    BY <1>1, <1>3, <1>5, <1>6, <1>7, <1>8, <2>2, <2>3, KeysTyped
  <2> QED BY <2>2, <2>4, <2>5, <2>6, <2>7 DEF IInv, Fed
<1>11. CASE chain = NoChain
  <2>1. deferred = <<>> /\ deferred' = <<>> /\ Post(Append(Dropped(leaders), Key(i)))
    BY <1>2, <1>4, <1>11 DEF Busy
  <2>2. Limited(i.n)
    BY <1>3, <1>5, LimitsType DEF IInv, AllLimited
  <2>3. Fed(i.n) /\ eaten' \subseteq Eaten /\ EatenBefore(eaten', Held') /\ LetGo' \subseteq LetGo
    BY <1>1, <1>3, <1>5, <1>11, <2>1, <2>2, CancelAndCommitIsDone DEF Limited
  <2>4. PaneTyped'
    BY <1>1, <1>3, <1>6, <1>7, <2>1, <2>3 DEF PaneTyped
  <2>5. AllLimited'
    <3> DEFINE y == i.n
    <3>1. \A n \in Limits' : n = typed + 2
      BY <1>1, <1>4, <1>11, <2>1 DEF Limits
    <3>2. y \in Nat /\ y <= typed + 1 /\ Fed(y)
      BY <1>4, <1>5, <2>3
    <3> HIDE DEF y
    <3> QED BY <3>1, <3>2, <2>3, LimitsGrown
  <2>6. PaneOrdered'
    <3>1. \A c \in consumed' : c.n <= typed'
      BY <1>1, <1>4, <1>9
    <3> QED BY <1>1, <1>8, <1>11, <2>1, <2>3, <3>1 DEF PaneOrdered
  <2>7. KeysOK'
    <3>1. DeferredMore(i)
      BY <2>1 DEF DeferredMore
    <3> QED BY <1>1, <1>3, <1>5, <1>6, <1>7, <1>8, <2>3, <3>1, KeysTyped
  <2> QED BY <2>3, <2>4, <2>5, <2>6, <2>7 DEF IInv, Fed
<1> QED BY <1>10, <1>11

-----------------------------------------------------------------------------
(* The end of a chain.                                                     *)

\* A press that goes through carries no release and ends its sequence.
LEMMA ThroughMessages ==
    ASSUME NEW h, NEW p \in Presses
    PROVE  /\ \A k \in DOMAIN Through(h, p) : \A n : ~IsRelease(Through(h, p)[k], n)
           /\ h # {} => \E k \in DOMAIN Through(h, p) : IsResolve(Through(h, p)[k], TokenOf(h))
<1> DEFINE c == <<p>>
           r == Resolve(TokenOf(h), TRUE, c)
           q == Key(p)
           ms == Through(h, p)
<1>1. IsResolve(r, TokenOf(h)) /\ \A n : ~IsRelease(r, n)
  BY DEF Resolve, IsResolve, IsRelease
<1>2. \A n : ~IsRelease(q, n)
  BY KeyIsNoRelease DEF Presses, IsTyped
<1>3. ms = IF h = {} THEN <<q>> ELSE <<r>>
  BY DEF Through
<1> HIDE DEF r, q, ms
<1>4. CASE h = {}
  <2>1. DOMAIN ms = {1} /\ ms[1] = q
    BY <1>3, <1>4
  <2> QED BY <2>1, <1>2, <1>4 DEF ms
<1>5. CASE h # {}
  <2>1. DOMAIN ms = {1} /\ ms[1] = r
    BY <1>3, <1>5
  <2> QED BY <2>1, <1>1 DEF ms
<1> QED BY <1>4, <1>5

\* What becomes of the press, its release and its sequence.
Finishes(press, handling) ==
    LET dropped == {Press(p) : p \in chain.leaders \cup {press}}
        release == IF chain.focus = press.focus THEN {Release(press)} ELSE {}
    IN
    /\ handling \in {"both", "through", "press"}
    /\ Post(IF handling = "through" THEN Through(chain.leaders, press)
            ELSE Dropped(chain.leaders))
    /\ eaten' = CASE handling = "both" -> eaten \cup dropped \cup release
                  [] handling = "press" -> eaten \cup dropped
                  [] OTHER -> eaten
    /\ consumed' = IF handling = "both" /\ ReleaseComes
                   THEN consumed \cup {press} ELSE consumed

\* The end of a chain is a step about its press.
LEMMA FinishedFlow ==
    ASSUME IInv, chain # NoChain, NEW press \in Presses, press = chain.press, NEW handling,
           Finishes(press, handling), Held' = {}, UNCHANGED <<worker, history>>
    PROVE  /\ Fed(press.n) /\ LetGo' \subseteq LetGo
           /\ \A x \in eaten' :
                \/ x \in eaten
                \/ x.kind = "press" /\ (x.n = press.n \/ \E l \in Held : x.n = l.n)
                \/ /\ x.kind = "release" /\ x.n = press.n
                   /\ handling = "both" /\ chain.focus = press.focus
<1> DEFINE h == Held
           e == eaten
           v == FlowNow
           s == sent
           y == press.n
           g == {}
<1>1. /\ Good(s, v, h, e) /\ EatenBefore(e, h) /\ h = chain.leaders
      /\ WorkerTyped /\ Owned
  BY DEF IInv, FlowsOK, PaneOrdered, Held
<1>2. Below(press.n, v, h, e, s)
  BY LimitsType DEF IInv, AllLimited, Limited
<1>3. /\ eaten \subseteq Eaten /\ press.n \in Tokens /\ \A l \in h : l.n \in Tokens
  <2>1. h \subseteq Presses
    BY ChainType DEF IInv
  <2> QED BY <2>1 DEF IInv, PaneTyped, Presses, Inputs, Tokens
<1> HIDE DEF h, e, v, s
<1>4. CASE handling = "through"
  <2> DEFINE ms == Through(h, press)
  <2>1. Post(ms) /\ eaten' = e
    BY <1>1, <1>4 DEF Finishes, e
  <2> HIDE DEF y
  <2>2. y = press.n
    BY DEF y
  <2>3. Sends(ms, {}, e, y, s, v, h, e)
    BY <1>1, <1>2, <2>2, SendsThrough
  <2>4. /\ \A k \in DOMAIN ms : \A n : ~IsRelease(ms[k], n)
        /\ h # {} => \E k \in DOMAIN ms : IsResolve(ms[k], TokenOf(h))
    BY ThroughMessages
  <2> HIDE DEF ms, g
  <2>5. HandsOver(ms, h, {})
    <3>1. h = {} => TokenOf(h) = 0
      BY DEF TokenOf
    <3> QED BY <3>1, <2>4 DEF HandsOver
  <2>6. Sends(ms, Held', eaten', y, sent, FlowNow, Held, eaten) /\ HandsOver(ms, Held, Held')
    BY <2>1, <2>3, <2>5 DEF h, e, v, s
  <2>7. /\ Fed(y)
        /\ \A n \in LetGo' : n \in LetGo \/ \E k \in DOMAIN ms : IsRelease(ms[k], n)
    BY <1>1, <2>1, <2>6, FedBy
  <2> QED BY <2>1, <2>2, <2>4, <2>7 DEF e
<1>5. CASE handling # "through"
  <2> DEFINE ms == Dropped(h)
             e2 == eaten'
  <2>1. Post(ms)
    BY <1>1, <1>5 DEF Finishes
  <2>2. \A x \in e2 :
          \/ x \in e
          \/ x.kind = "press" /\ (x.n = y \/ \E l \in h : x.n = l.n) /\ x \in Eaten
          \/ /\ x.kind = "release" /\ x.n = y /\ x \in Eaten
             /\ handling = "both" /\ chain.focus = press.focus
    <3>1. \A p \in h \cup {press} : /\ Press(p) \in Eaten /\ Press(p).kind = "press"
                                    /\ Press(p).n = y \/ \E l \in h : Press(p).n = l.n
      BY <1>3 DEF Press, Eaten
    <3>2. Release(press) \in Eaten /\ Release(press).kind = "release" /\ Release(press).n = y
      BY <1>3 DEF Release, Eaten
    <3>3. CASE handling = "both"
      <4>1. \A x \in e2 : \/ x \in e
                          \/ \E p \in h \cup {press} : x = Press(p)
                          \/ x = Release(press) /\ chain.focus = press.focus
        BY <1>1, <3>3 DEF Finishes, e
      <4> QED BY <4>1, <3>1, <3>2, <3>3
    <3>4. CASE handling = "press"
      <4>1. \A x \in e2 : x \in e \/ \E p \in h \cup {press} : x = Press(p)
        BY <1>1, <3>4 DEF Finishes, e
      <4> QED BY <4>1, <3>1
    <3> QED BY <1>5, <3>3, <3>4 DEF Finishes
  <2>3. EatenToo(e2, y, s, v, h, e)
    BY <1>2, <1>3, <2>2 DEF EatenToo, e
  <2> HIDE DEF e2, y
  <2>4. Sends(ms, {}, e2, y, s, v, h, e)
    BY <1>1, <2>3, SendsDropped
  <2>5. /\ \A k \in DOMAIN ms : \A n : ~IsRelease(ms[k], n)
        /\ h # {} => Len(ms) = 1 /\ IsResolve(ms[1], TokenOf(h))
    BY DroppedMessages
  <2>6. ms \in Seq(Messages)
    BY <2>4 DEF Sends
  <2> HIDE DEF ms, g
  <2>7. HandsOver(ms, h, {})
    <3>1. h = {} => TokenOf(h) = 0
      BY DEF TokenOf
    <3>2. h # {} => 1 \in DOMAIN ms
      BY <2>5, <2>6
    <3> QED BY <3>1, <3>2, <2>5 DEF HandsOver
  <2>8. Sends(ms, Held', eaten', y, sent, FlowNow, Held, eaten) /\ HandsOver(ms, Held, Held')
    BY <2>4, <2>7 DEF h, e, v, s, e2
  <2>9. /\ Fed(y)
        /\ \A n \in LetGo' : n \in LetGo \/ \E k \in DOMAIN ms : IsRelease(ms[k], n)
    BY <1>1, <2>1, <2>8, FedBy
  <2> QED BY <2>2, <2>5, <2>9 DEF e, e2, h, y
<1> QED BY <1>4, <1>5

LEMMA ChainFinishesStep ==
    ASSUME IInv, ChainFinishes
    PROVE  IInv'
<1> DEFINE press == chain.press
<1>1. /\ chain # NoChain /\ press \in Presses /\ press.n \in Tokens /\ press.n \in Nat
      /\ UNCHANGED <<typed, held, focus, deferred, worker, history, leaders, life>>
      /\ chain' = NoChain
  BY ChainType DEF ChainFinishes, RunsChain, IInv
<1>2. PICK handling \in Handlings(chain.performed) : Finishes(press, handling)
  BY DEF ChainFinishes, Finishes, Handlings
<1>3. PaneTyped /\ PaneOrdered /\ KeysOK /\ leaders = {} /\ press.n <= typed /\ typed \in Nat
  BY <1>1, KnownTyped DEF IInv, PaneOrdered
<1>4. Held' = {}
  BY <1>1, <1>3 DEF Held
<1>5. /\ Fed(press.n) /\ LetGo' \subseteq LetGo
      /\ \A x \in eaten' :
           \/ x \in eaten
           \/ x.kind = "press" /\ (x.n = press.n \/ \E l \in Held : x.n = l.n)
           \/ /\ x.kind = "release" /\ x.n = press.n
              /\ handling = "both" /\ chain.focus = press.focus
  BY <1>1, <1>2, <1>4, FinishedFlow
<1>6. /\ consumed \subseteq consumed' /\ consumed' \subseteq consumed \cup {press}
      /\ handling = "both" /\ ReleaseComes => press \in consumed'
  BY <1>2 DEF Finishes
<1> HIDE DEF press
<1>7. PaneTyped'
  <2>1. eaten' \subseteq Eaten
    BY <1>5 DEF Fed, FlowsOK, Good, FlowOK
  <2> QED BY <2>1, <1>1, <1>3, <1>6 DEF PaneTyped
<1>8. AllLimited'
  <2>1. ASSUME NEW y, y = press.n, NEW n \in Nat, y < n, Limited(n) PROVE Limited(n)'
    <3>1. \A r \in LetGo' : r \in LetGo \/ r < n
      BY <1>5
    <3>2. Fed(y)
      BY <1>5, <2>1
    <3> QED BY <2>1, <3>1, <3>2, LimitedByFed
  <2>2. ASSUME NEW n \in Limits' PROVE n \in Limits /\ n \in Nat /\ press.n < n
    <3>1. n = typed + 1 \/ \E j \in DOMAIN deferred : IsTyped(deferred[j]) /\ n = deferred[j].n
      BY <1>1, <2>2 DEF Limits
    <3>2. \A j \in DOMAIN deferred : IsTyped(deferred[j]) => press.n < deferred[j].n
      BY <1>1, <1>3 DEF PaneOrdered, press
    <3> QED BY <1>1, <1>3, <3>1, <3>2, LimitsType
  <2> QED BY <2>1, <2>2 DEF IInv, AllLimited
<1>9. PaneOrdered'
  <2>1. \A c \in consumed' : c.n <= typed'
    BY <1>1, <1>3, <1>6 DEF PaneOrdered
  <2>2. \A x \in eaten' : x.n <= typed'
    BY <1>1, <1>3, <1>5, HeldTyped DEF PaneOrdered
  <2>3. EatenBefore(eaten', Held')
    BY <1>4 DEF EatenBefore
  <2> QED BY <1>1, <1>3, <2>1, <2>2, <2>3 DEF PaneOrdered
<1>10. KeysOK'
  <2>1. Taken' \subseteq Taken /\ press \in Taken
    BY <1>1, <1>6 DEF Taken, press
  <2>2. IsKnown(press) /\ \A p : IsKnown(p)' => IsKnown(p)
    BY <1>1, <2>1 DEF IsKnown
  <2>3. \A n : Coming(n)' => Coming(n)
    BY <1>1 DEF Coming
  <2>4. HeldDistinct' /\ DeferredFollow' /\ HeldFollow'
    BY <1>1, <1>3 DEF KeysOK, HeldDistinct, DeferredFollow, HeldFollow
  <2>5. PressOfHeld' /\ PressOfRelease'
    BY <1>1, <1>3, <2>2 DEF KeysOK, PressOfHeld, PressOfRelease
  <2>6. ReleasesFollow'
    BY <1>1, <1>3, <2>1 DEF KeysOK, ReleasesFollow
  <2>7. EatenReleases'
    <3> SUFFICES ASSUME NEW x \in eaten', x.kind = "release"
                 PROVE  /\ x.n \notin LetGo'
                        /\ Coming(x.n)' => \E c \in consumed' : c.n = x.n
      BY DEF EatenReleases
    <3>1. CASE x \in eaten
      BY <3>1, <1>3, <1>5, <1>6, <2>3 DEF KeysOK, EatenReleases
    <3>2. CASE x \notin eaten
      <4>1. x.n = press.n /\ handling = "both" /\ chain.focus = press.focus
        BY <3>2, <1>5
      <4>2. \A r \in LetGo : r < press.n
        BY <1>1, <1>3, LimitsType DEF IInv, AllLimited, Limited, press
      <4>3. press.n \notin LetGo'
        BY <4>2, <1>1, <1>5
      <4>4. ASSUME Coming(press.n) PROVE ReleaseComes
        <5>1. ASSUME NEW k \in Keys, held[k] = press.n PROVE press.focus = focus
          <6>1. held[k] # 0
            BY <1>1, <5>1 DEF Tokens
          <6> QED BY <6>1, <5>1, <1>3, <2>2 DEF KeysOK, PressOfHeld
        <5>2. ASSUME NEW j \in DOMAIN deferred, deferred[j].kind = "release",
                     deferred[j].n = press.n
              PROVE  press.key = deferred[j].key /\ press.focus = deferred[j].focus
          BY <5>2, <1>3, <2>2 DEF KeysOK, PressOfRelease
        <5>3. CASE \E k \in Keys : held[k] = press.n
          BY <5>1, <5>3, <4>1 DEF ReleaseComes
        <5>4. CASE \E j \in DOMAIN deferred : deferred[j].kind = "release" /\ deferred[j].n = press.n
          BY <5>2, <5>4, <4>1 DEF ReleaseComes, press
        <5> QED BY <4>4, <5>3, <5>4 DEF Coming
      <4> QED BY <4>1, <4>3, <4>4, <2>3, <1>6
    <3> QED BY <3>1, <3>2
  <2> QED BY <2>4, <2>5, <2>6, <2>7 DEF KeysOK
<1> QED BY <1>5, <1>7, <1>8, <1>9, <1>10 DEF IInv, Fed

-----------------------------------------------------------------------------
(* Replaying what was deferred.                                            *)

\* All of KeysOK but EatenReleases, when the first of the deferred inputs is
\* handled.
KeysInOrder ==
    /\ HeldDistinct /\ PressOfHeld /\ PressOfRelease
    /\ DeferredFollow /\ HeldFollow /\ ReleasesFollow

\* The first of the deferred inputs is handled: keys stay in order.
LEMMA KeysDrawn ==
    ASSUME KeysOK, PaneTyped, NEW i, Drawn(i), deferred # <<>>,
           UNCHANGED <<typed, held, focus>>,
           \/ Taken' \subseteq Taken
           \/ i.kind = "press" /\ Taken' \subseteq Taken \cup {i}
    PROVE  /\ KeysInOrder'
           /\ \A n : Coming(n)' => Coming(n)
<1>1. /\ DOMAIN deferred' \subseteq Nat
      /\ \A a \in DOMAIN deferred' :
           /\ a + 1 \in DOMAIN deferred /\ deferred'[a] = deferred[a + 1]
           /\ 1 \in DOMAIN deferred /\ 1 < a + 1
      /\ 1 \in DOMAIN deferred /\ deferred[1] = i
  BY DrawnFacts
<1>2. \A a, b \in DOMAIN deferred' : a < b => a + 1 < b + 1
  BY <1>1
<1>3. \A p : IsKnown(p)' => IsKnown(p)
  BY <1>1 DEF IsKnown
<1>4. \A n : Coming(n)' => Coming(n)
  BY <1>1 DEF Coming
<1>5. HeldDistinct'
  BY DEF KeysOK, HeldDistinct
<1>6. PressOfHeld'
  BY <1>3 DEF KeysOK, PressOfHeld
<1>7. PressOfRelease'
  BY <1>1, <1>3 DEF KeysOK, PressOfRelease
<1>8. DeferredFollow'
  BY <1>1, <1>2 DEF KeysOK, DeferredFollow
<1>9. HeldFollow'
  BY <1>1 DEF KeysOK, HeldFollow
<1>10. ReleasesFollow'
  <2>1. ASSUME NEW j \in DOMAIN deferred', NEW c \in Taken',
               deferred'[j].kind = "release", c.key = deferred'[j].key
        PROVE  c.n <= deferred'[j].n
    <3>1. CASE c \in Taken
      BY <1>1, <2>1, <3>1 DEF KeysOK, ReleasesFollow
    <3>2. CASE c \notin Taken
      <4>1. c = i /\ i.kind = "press"
        BY <2>1, <3>2
      <4>2. Follows(i, deferred[j + 1])
        BY <1>1, <2>1, <4>1 DEF KeysOK, DeferredFollow, IsKey
      <4>3. i.n \in Nat /\ deferred[j + 1].n \in Nat
        <5>1. deferred[1] \in Inputs /\ deferred[j + 1] \in Inputs
          BY <1>1, <2>1 DEF PaneTyped
        <5> QED BY <5>1, <1>1 DEF Inputs
      <4> QED BY <1>1, <2>1, <4>1, <4>2, <4>3 DEF Follows
    <3> QED BY <3>1, <3>2
  <2>2. ASSUME NEW k \in Keys, NEW c \in Taken', held'[k] # 0, c.key = k
        PROVE  c.n <= held'[k]
    <3>1. CASE c \in Taken
      BY <2>2, <3>1 DEF KeysOK, ReleasesFollow
    <3>2. CASE c \notin Taken
      <4>1. c = i /\ i.kind = "press"
        BY <2>2, <3>2
      <4>2. i.n < held[k] \/ i.n = held[k]
        BY <1>1, <2>2, <4>1 DEF KeysOK, HeldFollow, IsKey
      <4>3. i.n \in Nat /\ held[k] \in Nat
        <5>1. deferred[1] \in Inputs
          BY <1>1 DEF PaneTyped
        <5> QED BY <5>1, <1>1 DEF Inputs, PaneTyped
      <4> QED BY <4>1, <4>2, <4>3
    <3> QED BY <3>1, <3>2
  <2> QED BY <2>1, <2>2 DEF ReleasesFollow
<1> QED BY <1>4, <1>5, <1>6, <1>7, <1>8, <1>9, <1>10 DEF KeysInOrder

\* A release that was deferred goes to the child, or with its press.
LEMMA ReleaseDrawn ==
    ASSUME KeysOK, PaneTyped, NEW i, Drawn(i), deferred # <<>>, chain = NoChain,
           i.kind = "release", UNCHANGED <<typed, held, focus>>,
           consumed' = {c \in consumed : c.key # i.key}, eaten' = eaten,
           \A n \in LetGo' : n \in LetGo \/ n = i.n,
           (\E c \in consumed : c.key = i.key) => LetGo' \subseteq LetGo
    PROVE  EatenReleases'
<1>1. /\ DOMAIN deferred' \subseteq Nat
      /\ \A a \in DOMAIN deferred' :
           /\ a + 1 \in DOMAIN deferred /\ deferred'[a] = deferred[a + 1]
           /\ 1 \in DOMAIN deferred /\ 1 < a + 1
      /\ 1 \in DOMAIN deferred /\ deferred[1] = i
  BY DrawnFacts
<1>2. \A p \in consumed : IsKnown(p) /\ p \in Taken /\ p.n \in Nat
  BY DEF IsKnown, Taken, PaneTyped, Presses, Inputs
<1>3. i.n \in Nat /\ \A k \in Keys : held[k] \in Nat
  <2>1. deferred[1] \in Inputs
    BY <1>1 DEF PaneTyped
  <2> QED BY <2>1, <1>1 DEF Inputs, PaneTyped
<1>4. \A c \in consumed : c.key = i.key => c.n <= i.n
  BY <1>1, <1>2 DEF KeysOK, ReleasesFollow
<1> SUFFICES ASSUME NEW x \in eaten, x.kind = "release"
             PROVE  /\ x.n \notin LetGo'
                    /\ Coming(x.n)' => \E c \in consumed' : c.n = x.n
  BY DEF EatenReleases
<1>5. x.n \notin LetGo /\ (Coming(x.n) => \E c \in consumed : c.n = x.n)
  BY DEF KeysOK, EatenReleases
<1>6. x.n # 0
  BY DEF PaneTyped, Eaten, Tokens
<1>7. x.n \notin LetGo'
  <2>1. CASE x.n = i.n
    <3>1. PICK c \in consumed : c.n = x.n
      BY <1>1, <1>5, <2>1 DEF Coming
    <3>2. c.key = i.key
      BY <1>1, <1>2, <2>1, <3>1 DEF KeysOK, PressOfRelease
    <3> QED BY <1>5, <3>2
  <2>2. CASE x.n # i.n
    BY <1>5, <2>2
  <2> QED BY <2>1, <2>2
<1>8. ASSUME NEW k \in Keys, held[k] = x.n PROVE \E c \in consumed' : c.n = x.n
  <2>1. PICK c \in consumed : c.n = x.n
    BY <1>5, <1>8 DEF Coming
  <2>2. c.key = k
    BY <1>2, <1>6, <1>8, <2>1 DEF KeysOK, PressOfHeld
  <2>3. k # i.key
    <3> SUFFICES ASSUME k = i.key PROVE FALSE
      OBVIOUS
    <3>1. i.n < held[k]
      BY <1>1, <1>6, <1>8 DEF KeysOK, HeldFollow, IsKey
    <3>2. c.n <= i.n
      BY <1>4, <2>2
    <3> QED BY <3>1, <3>2, <1>2, <1>3, <1>8, <2>1
  <2> QED BY <2>1, <2>2, <2>3
<1>9. ASSUME NEW j \in DOMAIN deferred', deferred'[j].kind = "release", deferred'[j].n = x.n
      PROVE  \E c \in consumed' : c.n = x.n
  <2>1. j + 1 \in DOMAIN deferred /\ deferred[j + 1].kind = "release" /\ deferred[j + 1].n = x.n
        /\ 1 < j + 1
    BY <1>1, <1>9
  <2>2. PICK c \in consumed : c.n = x.n
    BY <1>5, <2>1 DEF Coming
  <2>3. c.key = deferred[j + 1].key
    BY <1>2, <2>1, <2>2 DEF KeysOK, PressOfRelease
  <2>4. c.key # i.key
    <3> SUFFICES ASSUME c.key = i.key PROVE FALSE
      OBVIOUS
    <3>1. Follows(i, deferred[j + 1])
      BY <1>1, <2>1, <2>3 DEF KeysOK, DeferredFollow, IsKey
    <3>2. i.n < x.n
      BY <2>1, <3>1 DEF Follows
    <3> QED BY <3>2, <1>2, <1>3, <1>4, <2>2
  <2> QED BY <2>2, <2>4
<1> QED BY <1>7, <1>8, <1>9 DEF Coming

LEMMA ReplayStep ==
    ASSUME IInv, Replay
    PROVE  IInv'
<1> DEFINE i == Head(deferred)
<1>1. /\ chain = NoChain /\ deferred # <<>> /\ deferred' = Tail(deferred)
      /\ typed' = typed /\ held' = held /\ focus' = focus /\ life' = life
      /\ worker' = worker /\ UNCHANGED history
      /\ i.kind = "press" => HandlePress(i)
      /\ i.kind = "release" => HandleRelease(i)
      /\ i.kind \notin {"press", "release"} => Commit(i)
  BY DEF Replay
<1>2. /\ PaneTyped /\ PaneOrdered /\ KeysOK /\ WorkerTyped /\ FlowsOK /\ Owned
      /\ EatenBefore(eaten, Held) /\ typed \in Nat
  BY LimitsType DEF IInv, PaneOrdered
<1>3. Drawn(i)
  BY <1>1 DEF Drawn
<1> HIDE DEF i
<1>4. /\ deferred' \in Seq(Inputs) /\ DOMAIN deferred' \subseteq Nat
      /\ \A a \in DOMAIN deferred' :
           /\ a + 1 \in DOMAIN deferred /\ deferred'[a] = deferred[a + 1]
           /\ 1 \in DOMAIN deferred /\ 1 < a + 1
      /\ 1 \in DOMAIN deferred /\ deferred[1] = i
  BY <1>1, <1>2, <1>3, DrawnFacts
<1>5. /\ i \in Inputs /\ i.late /\ i.n <= typed /\ i.n \in Nat
      /\ i.kind \in {"press", "release", "commit"} /\ i.focus \in 0..MaxLosses
      /\ IsTyped(i) => i.n \in Limits /\ Limited(i.n)
      /\ \A l \in leaders : l.late
  <2>1. i \in Inputs
    BY <1>2, <1>4, LimitsType
  <2>2. IsTyped(i) => i.n \in Limits /\ Limited(i.n)
    BY <1>2, <1>4, LimitsType DEF IInv, AllLimited
  <2> QED BY <1>1, <1>2, <1>4, <2>1, <2>2 DEF Inputs, PaneOrdered
<1>6. \A k \in DOMAIN deferred' : IsTyped(deferred'[k]) =>
        deferred'[k].n \in Limits /\ i.n < deferred'[k].n
  BY <1>2, <1>4, LimitsType DEF PaneOrdered
<1>7. CASE i.kind = "press"
  <2>1. i \in Presses /\ IsTyped(i) /\ HandlePress(i)
    BY <1>1, <1>5, <1>7 DEF Presses, IsTyped
  <2>2. PressDone(i)
    BY <1>1, <1>2, <1>5, <2>1, PressIsDone DEF Limited
  <2>3. PaneTyped'
    BY <1>1, <1>2, <1>4, <2>2, PressTyped DEF PaneTyped
  <2>4. AllLimited'
    BY <1>1, <1>5, <1>6, <2>1, <2>2, PressLimits
  <2>5. PaneOrdered'
    BY <1>1, <1>3, <1>5, <2>1, <2>2, PressOrdered
  <2>6. KeysOK'
    <3>1. /\ consumed' = consumed /\ LetGo' \subseteq LetGo
          /\ chain' = NoChain \/ chain'.press = i
          /\ \A x \in eaten' : x \in eaten \/ x.kind = "press"
      BY <2>2 DEF PressDone
    <3>2. Taken' \subseteq Taken \cup {i}
      BY <3>1 DEF Taken
    <3>3. KeysInOrder' /\ \A n : Coming(n)' => Coming(n)
      BY <1>1, <1>2, <1>3, <1>7, <3>2, KeysDrawn
    <3>4. EatenReleases'
      BY <1>2, <3>1, <3>3 DEF KeysOK, EatenReleases
    <3> QED BY <3>3, <3>4 DEF KeysInOrder, KeysOK
  <2>7. Fed(i.n)
    BY <2>2 DEF PressDone
  <2> QED BY <2>3, <2>4, <2>5, <2>6, <2>7 DEF IInv, Fed
<1>8. ASSUME chain' = chain, leaders' = leaders, eaten' = eaten, Held' = Held,
             consumed' \subseteq consumed, Taken' \subseteq Taken,
             \A n \in LetGo' : n \in LetGo \/ n = i.n,
             NEW y \in Nat, y <= i.n, Fed(y), EatenReleases'
      PROVE  IInv'
  <2>1. PaneTyped'
    BY <1>1, <1>2, <1>4, <1>8 DEF PaneTyped
  <2>2. AllLimited'
    <3>1. ASSUME NEW n \in Limits' PROVE Limited(n)'
      <4>1. n = typed + 1 \/ \E j \in DOMAIN deferred' : IsTyped(deferred'[j]) /\ n = deferred'[j].n
        BY <1>1, <1>8, <3>1 DEF Limits
      <4>2. n \in Limits /\ i.n < n /\ n \in Nat
        BY <1>2, <1>5, <1>6, <4>1, LimitsType
      <4>3. y < n /\ Limited(n)
        BY <1>5, <1>8, <4>2 DEF IInv, AllLimited
      <4>4. \A r \in LetGo' : r \in LetGo \/ r < n
        BY <1>8, <4>2
      <4> QED BY <4>2, <4>3, <4>4, <1>8, LimitedByFed
    <3> QED BY <3>1 DEF AllLimited
  <2>3. PaneOrdered'
    <3>1. \A a, b \in DOMAIN deferred' :
            a < b /\ IsTyped(deferred'[b]) => deferred'[a].n < deferred'[b].n
      <4> SUFFICES ASSUME NEW a \in DOMAIN deferred', NEW b \in DOMAIN deferred', a < b,
                          IsTyped(deferred'[b])
                   PROVE  deferred'[a].n < deferred'[b].n
        OBVIOUS
      <4>1. a + 1 < b + 1
        BY <1>4
      <4> QED BY <4>1, <1>2, <1>4 DEF PaneOrdered
    <3>2. \A b \in DOMAIN deferred' : deferred'[b].n <= typed' /\ deferred'[b].late
      BY <1>1, <1>2, <1>4 DEF PaneOrdered
    <3> QED BY <3>1, <3>2, <1>1, <1>2, <1>5, <1>8 DEF PaneOrdered
  <2>4. KeysOK'
    <3>1. KeysInOrder'
      BY <1>1, <1>2, <1>3, <1>8, KeysDrawn
    <3> QED BY <3>1, <1>8 DEF KeysInOrder, KeysOK
  <2> QED BY <2>1, <2>2, <2>3, <2>4, <1>8 DEF IInv, Fed
<1>9. CASE i.kind = "release"
  <2> DEFINE y == 0
  <2>1. /\ Fed(y)
        /\ leaders' = leaders /\ eaten' = eaten /\ chain' = chain /\ Held' = Held
        /\ consumed' = {c \in consumed : c.key # i.key}
        /\ \A n \in LetGo' : n \in LetGo \/ n = i.n
        /\ (\E c \in consumed : c.key = i.key) => LetGo' \subseteq LetGo
    BY <1>1, <1>2, <1>5, <1>9, ReleaseIsDone
  <2>2. EatenReleases'
    BY <1>1, <1>2, <1>3, <1>9, <2>1, ReleaseDrawn
  <2>3. consumed' \subseteq consumed /\ Taken' \subseteq Taken
    BY <1>1, <2>1 DEF Taken
  <2>4. y \in Nat /\ y <= i.n
    BY <1>5
  <2> HIDE DEF y
  <2> QED BY <1>8, <2>1, <2>2, <2>3, <2>4
<1>10. CASE i.kind = "commit"
  <2> DEFINE y == i.n
  <2>1. /\ Fed(y)
        /\ leaders' = leaders /\ eaten' = eaten /\ chain' = chain /\ Held' = Held
        /\ consumed' = consumed
        /\ LetGo' \subseteq LetGo
    <3>1. Below(i.n, FlowNow, Held, eaten, sent) /\ Commit(i)
      BY <1>1, <1>5, <1>10 DEF IsTyped, Limited
    <3> QED BY <1>1, <1>2, <1>5, <1>10, <3>1, CommitIsDone
  <2>2. consumed' \subseteq consumed /\ Taken' \subseteq Taken
    BY <1>1, <2>1 DEF Taken
  <2>3. EatenReleases'
    <3>1. \A n : Coming(n)' => Coming(n)
      BY <1>1, <1>2, <1>3, <2>2, KeysDrawn
    <3> QED BY <3>1, <1>2, <2>1 DEF KeysOK, EatenReleases
  <2>4. y \in Nat /\ y <= i.n
    BY <1>5
  <2> HIDE DEF y
  <2> QED BY <1>8, <2>1, <2>2, <2>3, <2>4
<1> QED BY <1>5, <1>7, <1>9, <1>10

-----------------------------------------------------------------------------
(* The invariant, and what follows from it.                                *)

\* The invariant holds at first,
LEMMA IInvInit ==
    ASSUME Init
    PROVE  IInv
<1>1. /\ typed = 0 /\ held = [k \in Keys |-> 0] /\ focus = 0
      /\ deferred = <<>> /\ consumed = {} /\ leaders = {} /\ eaten = {}
      /\ chain = NoChain /\ life = "open"
      /\ down = <<>> /\ sent = <<>> /\ released = {}
      /\ worker = [phase |-> "absent", token |-> 0, newest |-> 0,
                   staged |-> <<>>, jobs |-> {}]
  BY DEF Init, WorkerInit
<1>2. 0 \in 0..MaxTyped /\ 0 \in 0..MaxLosses /\ \A k \in Keys : held[k] = 0
  BY <1>1, InputAssumption
<1>3. PaneTyped
  <2>1. deferred \in Seq(Inputs)
    BY <1>1
  <2>2. held \in [Keys -> 0..MaxTyped]
    BY <1>1, <1>2
  <2> QED BY <1>1, <1>2, <2>1, <2>2 DEF PaneTyped
<1>4. worker.token = 0 /\ worker.staged = <<>>
  BY <1>1
<1>5. WorkerTyped
  <2>1. down \in Seq(Messages) /\ sent \in Seq(Sent) /\ <<>> \in Seq(Presses)
    BY <1>1
  <2>2. worker \in Workers
    BY <1>1, <1>2, <2>1 DEF Workers, Phases
  <2> QED BY <1>1, <1>4, <2>1, <2>2 DEF WorkerTyped
<1>6. FlowNow = <<>> /\ Held = {}
  <2>1. FlowNow = FlowOf(worker.token, <<>>, down) /\ down \in Seq(Messages)
    BY <1>1, <1>4 DEF FlowNow
  <2> QED BY <2>1, <1>1, QueueAlone DEF Held
<1>7. FlowsOK
  <2>1. Held \subseteq Presses /\ eaten \subseteq Eaten
    BY <1>1, <1>6
  <2> QED BY <2>1, <1>1, <1>6, NothingInFlow DEF FlowsOK
<1>8. Owned
  BY <1>4 DEF Owned
<1>9. AllLimited
  BY <1>1, <1>6 DEF AllLimited, Limited, Below, LetGo
<1>10. PaneOrdered
  BY <1>1 DEF PaneOrdered, EatenBefore
<1>11. KeysOK
  BY <1>1, <1>2 DEF KeysOK, HeldDistinct, PressOfHeld, PressOfRelease, DeferredFollow,
                    HeldFollow, ReleasesFollow, EatenReleases
<1> QED BY <1>3, <1>5, <1>7, <1>8, <1>9, <1>10, <1>11 DEF IInv

\* and every step keeps it.
LEMMA IInvStep ==
    ASSUME IInv, [Next]_vars
    PROVE  IInv'
<1>1. CASE User
  BY <1>1, KeyPressedStep, KeyReleasedStep, TextCommittedStep, FocusLostStep,
     BindingsReplacedStep, SequenceEndedStep, BeginShutdownStep DEF User
<1>2. CASE Gui
  BY <1>2, ChainPerformsStep, ChainEndsSequenceStep, ChainAsksStep, ChainFinishesStep,
     ReplayStep, AnswerArrivesStep, ExitArrivesStep, ExitHandledStep, SessionStartsStep
     DEF Gui
<1>3. CASE Worker
  BY <1>3, WorkerStepKeeps DEF Worker
<1>4. CASE Files
  BY <1>4, AnswersStep DEF Files
<1>5. CASE Child
  BY <1>5, ChildExitsStep DEF Child
<1>6. CASE UNCHANGED vars
  <2>1. /\ UNCHANGED <<typed, held, focus, deferred, bindings, worker, history, down>>
        /\ chain' = chain /\ life' \in {"open", "exiting", "exited", "closing"}
    BY <1>6 DEF vars, pane, worker_vars, IInv, PaneTyped
  <2>2. GoesOn
    BY <2>1 DEF GoesOn
  <2> QED BY <2>1, <2>2, IdleStep
<1> QED BY <1>1, <1>2, <1>3, <1>4, <1>5, <1>6 DEF Next

\* The inductive invariant holds in every state.
THEOREM Invariance == Spec => []IInv
<1>1. Init => IInv
  BY IInvInit
<1>2. IInv /\ [Next]_vars => IInv'
  BY IInvStep
<1> QED BY <1>1, <1>2, PTL DEF Spec

\* TypeOK: the variables of the pane, the controller and the worker keep their
\* types.
THEOREM TypeCorrect == Spec => []TypeOK
<1>1. IInv => TypeOK
  BY DEF IInv, PaneTyped, WorkerTyped, Workers, TypeOK, Presses, Eaten, Tokens
<1> QED BY <1>1, Invariance, PTL

\* A message of the queue is in the flow.
LEMMA QueueIsInFlow ==
    ASSUME WorkerTyped, NEW k \in DOMAIN down
    PROVE  \E b \in DOMAIN FlowNow : FlowNow[b] = down[k]
<1> DEFINE v == FlowNow
           n == Len(worker.staged)
           d == Len(down)
<1>1. /\ v \in Seq(Messages) /\ Len(v) = n + d /\ n \in Nat /\ d \in Nat
      /\ \A j \in 1..d : v[n + j] = down[j]
  <2>1. Holds(worker.token, worker.staged, down) /\ v = FlowOf(worker.token, worker.staged, down)
    BY WorkerType DEF FlowNow
  <2> HIDE DEF v
  <2> QED BY <2>1, FlowOfFacts
<1>2. k \in 1..d
  BY DEF WorkerTyped
<1> HIDE DEF v, n, d
<1>3. n + k \in DOMAIN v
  BY <1>1, <1>2
<1> QED BY <1>1, <1>2, <1>3 DEF v

\* InputInOrder: what is typed reaches the child in the order it was typed in,
\* and nothing that was typed after the press of a running chain has left the
\* pane. It covers presses, the leaders of sequences that the worker held back
\* and commits, also those that were deferred (keyPressEvent, inputMethodEvent,
\* drainDeferredKeyEvents); the one exception is the late commit of the
\* definition.
THEOREM InOrder == Spec => []InputInOrder
<1>1. IInv => InputInOrder
  <2> SUFFICES ASSUME IInv PROVE InputInOrder
    OBVIOUS
  <2>1. \A j, k \in DOMAIN sent :
          j < k => \/ sent[j].n < sent[k].n
                   \/ sent[j].kind = "commit" /\ sent[j].late /\ sent[k].late
    BY DEF IInv, FlowsOK, Good, SentOK, Before, Overtakes
  <2>2. ASSUME chain # NoChain, NEW i \in Posted \cup {sent[k] : k \in DOMAIN sent}
        PROVE  i.n <= chain.press.n
    <3>1. Limited(chain.press.n) /\ chain.press.n \in Nat
      BY <2>2, LimitsType DEF IInv, AllLimited
    <3>2. CASE i \in Posted
      <4>1. PICK k \in DOMAIN down : i \in Carried(down[k])
        BY <3>2 DEF Posted
      <4>2. down[k] \in Messages
        BY DEF IInv, WorkerTyped
      <4>3. CASE IsTyped(i)
        <5>1. i \in Sits(down[k])
          BY <4>1, <4>3 DEF Sits
        <5>2. i \in Inputs
          BY <4>2, <5>1, SitsType
        <5>3. PICK b \in DOMAIN FlowNow : FlowNow[b] = down[k]
          BY QueueIsInFlow DEF IInv
        <5>4. i.n < chain.press.n
          BY <3>1, <5>1, <5>3 DEF Limited, Below
        <5> QED BY <3>1, <5>2, <5>4 DEF Inputs
      <4>4. CASE ~IsTyped(i)
        <5>1. IsRelease(down[k], i.n) /\ i.n \in Tokens
          <6> DEFINE m == down[k]
          <6>1. m \in Messages /\ i \in Carried(m)
            BY <4>1, <4>2
          <6> HIDE DEF m
          <6>2. m.kind = "key" /\ m.item = i /\ i \in Inputs
            <7>1. CASE m \in KeyMessages
              BY <6>1, <7>1 DEF KeyMessages, Carried
            <7>2. CASE m \in StageMessages
              BY <6>1, <7>2, <4>4 DEF StageMessages, Carried, Presses, IsTyped
            <7>3. CASE m \in ResolveMessages
              <8> DEFINE cur == m.current
              <8>1. cur = m.current /\ m.kind = "resolve"
                BY <7>3 DEF ResolveMessages
              <8> HIDE DEF cur
              <8>2. cur \in Seq(Presses)
                BY <7>3, <8>1, CurrentOf
              <8>3. i \in {cur[c] : c \in DOMAIN cur}
                BY <6>1, <8>1 DEF Carried
              <8> QED BY <8>2, <8>3, <4>4 DEF Presses, IsTyped
            <7>4. CASE m \in ActionMessages
              BY <6>1, <7>4 DEF ActionMessages, Carried
            <7>5. CASE m = Shutdown
              BY <6>1, <7>5 DEF Shutdown, Carried
            <7> QED BY <6>1, <7>1, <7>2, <7>3, <7>4, <7>5 DEF Messages
          <6> QED BY <6>2, <4>4 DEF IsRelease, Inputs, Tokens, m
        <5>2. i.n \in LetGo
          BY <5>1 DEF LetGo
        <5> QED BY <3>1, <5>1, <5>2 DEF Limited, Tokens
      <4> QED BY <4>3, <4>4
    <3>3. CASE i \in {sent[k] : k \in DOMAIN sent}
      <4>1. PICK k \in DOMAIN sent : i = sent[k]
        BY <3>3
      <4>2. i.n < chain.press.n
        BY <3>1, <4>1 DEF Limited, Below
      <4>3. i \in Sent
        BY <4>1 DEF IInv, WorkerTyped
      <4> QED BY <3>1, <4>2, <4>3 DEF Sent, Tokens
    <3> QED BY <2>2, <3>2, <3>3
  <2> QED BY <2>1, <2>2 DEF InputInOrder
<1> QED BY <1>1, Invariance, PTL

\* ConsumedStaysConsumed: neither a press that a binding consumed, nor the
\* leaders of a sequence that was bound, ignored or cancelled, nor the release
\* of a consumed press (consumedKeys_) is ever written to the child.
THEOREM NeverWritten == Spec => []ConsumedStaysConsumed
<1>1. IInv => ConsumedStaysConsumed
  <2> SUFFICES ASSUME IInv PROVE ConsumedStaysConsumed
    OBVIOUS
  <2>1. \A k \in DOMAIN sent : Press(sent[k]) \notin eaten
    BY DEF IInv, FlowsOK, Good, SentOK
  <2>2. ASSUME NEW n \in released PROVE [kind |-> "release", n |-> n] \notin eaten
    <3> DEFINE x == [kind |-> "release", n |-> n]
    <3>1. n \in LetGo /\ x.kind = "release" /\ x.n = n
      BY <2>2 DEF LetGo
    <3> HIDE DEF x
    <3>2. x \notin eaten
      BY <3>1 DEF IInv, KeysOK, EatenReleases
    <3> QED BY <3>2 DEF x
  <2> QED BY <2>1, <2>2 DEF ConsumedStaysConsumed
<1> QED BY <1>1, Invariance, PTL

\* StagedOwned: the leaders the worker holds back always have an owner that
\* will resolve them, or the message that ends them is on its way; whatever
\* the order of the pane's and the worker's steps, no leader is left behind.
THEOREM LeadersOwned == Spec => []StagedOwned
<1>1. IInv => StagedOwned
  <2> SUFFICES ASSUME IInv, worker.token # 0
               PROVE  \/ worker.token \in Owners
                      \/ \E k \in DOMAIN down :
                           down[k].kind = "resolve" /\ down[k].token = worker.token
    BY DEF StagedOwned
  <2>1. Ended(worker.token) \/ worker.token = TokenOf(Held)
    BY DEF IInv, Owned
  <2>2. TokenOf(Held) \in Owners
    BY DEF Held, Owners
  <2> QED BY <2>1, <2>2 DEF Ended, IsResolve
<1> QED BY <1>1, Invariance, PTL
=============================================================================
