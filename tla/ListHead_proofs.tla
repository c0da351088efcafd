--------------------------- MODULE ListHead_proofs ---------------------------
(***************************************************************************)
(* For any set of heads and any finite set of nodes, ListHead keeps its    *)
(* links and counts consistent.                                            *)
(***************************************************************************)
EXTENDS MCListHead, DataLemmas, FiniteSetTheorems, TLAPS

(* What the steps preserve together: list_del counts down only because     *)
(* CountOK says the count was positive, and CountOK needs the links.       *)
IInv == TypeOK /\ LinksOK /\ CountOK /\ SweepOK

(* The two halves of TypeOK that the list operations write. *)
HeadsTypeOK ==
    /\ first \in [Heads -> NodeOrNull] /\ last \in [Heads -> NodeOrNull]
    /\ count \in [Heads -> Nat]

NodesTypeOK ==
    /\ next \in [Nodes -> NodeOrNull] /\ prev \in [Nodes -> NodeOrNull]
    /\ head \in [Nodes -> Heads \cup {NULL}]

On(h) == {n \in Nodes : head[n] = h}

-----------------------------------------------------------------------------
(* Counting *)

(* One more node names h: the count grows by one. *)
LEMMA CountAfterAdd ==
    ASSUME TypeOK, CountOK, NEW h \in Heads, NEW n \in Nodes, Fresh(n),
           head' = [head EXCEPT ![n] = h],
           count' = [count EXCEPT ![h] = @ + 1]
    PROVE  CountOK'
<1> SUFFICES ASSUME NEW g \in Heads
             PROVE  count'[g] = Cardinality(On(g)')
  BY DEF CountOK, On
<1>1. IsFiniteSet(On(g))
  BY NodesAssumption, FS_Subset DEF On
<1>2. CASE g = h
  <2>1. On(g)' = On(g) \cup {n}
    BY <1>2 DEF On, TypeOK
  <2>2. n \notin On(g)
    BY NullAssumption DEF On, Fresh
  <2>3. Cardinality(On(g)') = Cardinality(On(g)) + 1
    BY <1>1, <2>1, <2>2, FS_AddElement
  <2>. QED
    BY <1>2, <2>3 DEF CountOK, On, TypeOK
<1>3. CASE g # h
  <2>1. On(g)' = On(g)
    BY <1>3, NullAssumption DEF On, TypeOK, Fresh
  <2>. QED
    BY <1>3, <2>1 DEF CountOK, On, TypeOK
<1>. QED
  BY <1>2, <1>3

(* A head that a node names has a positive count. *)
LEMMA CountPositive ==
    ASSUME TypeOK, CountOK, NEW n \in Nodes, head[n] # NULL
    PROVE  head[n] \in Heads /\ count[head[n]] \in Nat \ {0}
<1>1. head[n] \in Heads
  BY DEF TypeOK
<1>2. IsFiniteSet(On(head[n]))
  BY NodesAssumption, FS_Subset DEF On
<1>3. On(head[n]) # {}
  BY DEF On
<1>4. Cardinality(On(head[n])) # 0
  BY <1>2, <1>3, FS_EmptySet
<1>. QED
  BY <1>1, <1>4 DEF CountOK, On, TypeOK

(* One node less names h: the count falls by one. *)
LEMMA CountAfterUnlink ==
    ASSUME TypeOK, CountOK, NEW n \in Nodes, head[n] # NULL,
           head' = [head EXCEPT ![n] = NULL],
           count' = [count EXCEPT ![head[n]] = @ - 1]
    PROVE  CountOK'
<1> SUFFICES ASSUME NEW g \in Heads
             PROVE  count'[g] = Cardinality(On(g)')
  BY DEF CountOK, On
<1>1. IsFiniteSet(On(g))
  BY NodesAssumption, FS_Subset DEF On
<1>2. CASE g = head[n]
  <2>1. On(g)' = On(g) \ {n} /\ n \in On(g)
    BY <1>2, NullAssumption DEF On, TypeOK
  <2>2. Cardinality(On(g)') = Cardinality(On(g)) - 1
    BY <1>1, <2>1, FS_RemoveElement
  <2>. QED
    BY <1>2, <2>2 DEF CountOK, On, TypeOK
<1>3. CASE g # head[n]
  <2>1. On(g)' = On(g)
    BY <1>3, NullAssumption DEF On, TypeOK
  <2>. QED
    BY <1>3, <2>1 DEF CountOK, On, TypeOK
<1>. QED
  BY <1>2, <1>3

-----------------------------------------------------------------------------
(* list_del, on its own and as the body of the `clear' loop *)

LEMMA UnlinkStep ==
    ASSUME TypeOK, LinksOK, CountOK, NEW n \in Nodes, Unlink(n)
    PROVE  LinksOK' /\ CountOK' /\ HeadsTypeOK' /\ NodesTypeOK'
<1> USE NullAssumption
<1>1. CASE head[n] = NULL
  BY <1>1 DEF Unlink, links, TypeOK, LinksOK, CountOK, HeadsTypeOK, NodesTypeOK
<1>2. CASE head[n] # NULL
  <2>1. head[n] \in Heads /\ count[head[n]] \in Nat \ {0}
    BY <1>2, CountPositive
  <2>2. CountOK'
    BY <1>2, CountAfterUnlink DEF Unlink
  <2>3. count' \in [Heads -> Nat]
    BY <1>2, <2>1 DEF Unlink, TypeOK
  <2>4. HeadsTypeOK' /\ NodesTypeOK'
    BY <1>2, <2>3 DEF Unlink, TypeOK, SetLink, NodeOrNull, HeadsTypeOK, NodesTypeOK
  <2>5. LinksOK'
    BY <1>2, <2>1 DEF Unlink, TypeOK, SetLink, NodeOrNull, LinksOK
  <2>. QED
    BY <2>2, <2>4, <2>5
<1>. QED
  BY <1>1, <1>2

-----------------------------------------------------------------------------
(* The four ways to add a node *)

AddStep(h, n) == AddHead(h, n) \/ AddBottom(h, n)

AddNextTo(base, n) == AddAfter(base, n) \/ AddBefore(base, n)

LEMMA AddTypeOK ==
    ASSUME TypeOK, NEW n \in Nodes,
           \/ \E h \in Heads : AddStep(h, n)
           \/ \E base \in Nodes : AddNextTo(base, n)
    PROVE  TypeOK'
<1>1. ASSUME NEW h \in Heads, AddHead(h, n) PROVE HeadsTypeOK' /\ NodesTypeOK'
  BY <1>1, NullAssumption DEF AddHead, HeadsTypeOK, NodesTypeOK, TypeOK, NodeOrNull, SetLink
<1>2. ASSUME NEW h \in Heads, AddBottom(h, n) PROVE HeadsTypeOK' /\ NodesTypeOK'
  BY <1>2, NullAssumption DEF AddBottom, HeadsTypeOK, NodesTypeOK, TypeOK, NodeOrNull, SetLink
<1>3. ASSUME NEW base \in Nodes, AddAfter(base, n) PROVE HeadsTypeOK' /\ NodesTypeOK'
  BY <1>3, NullAssumption DEF AddAfter, HeadsTypeOK, NodesTypeOK, TypeOK, NodeOrNull, SetLink
<1>4. ASSUME NEW base \in Nodes, AddBefore(base, n) PROVE HeadsTypeOK' /\ NodesTypeOK'
  BY <1>4, NullAssumption DEF AddBefore, HeadsTypeOK, NodesTypeOK, TypeOK, NodeOrNull, SetLink
<1>5. UNCHANGED <<sweep, pos, tn>>
  BY DEF AddStep, AddNextTo, AddHead, AddBottom, AddAfter, AddBefore, loop
<1>. QED
  BY <1>1, <1>2, <1>3, <1>4, <1>5
  DEF AddStep, AddNextTo, HeadsTypeOK, NodesTypeOK, TypeOK

LEMMA AddCountOK ==
    ASSUME TypeOK, CountOK, NEW n \in Nodes,
           \/ \E h \in Heads : AddStep(h, n)
           \/ \E base \in Nodes : AddNextTo(base, n)
    PROVE  CountOK'
<1>1. \E h \in Heads : /\ Fresh(n)
                       /\ head' = [head EXCEPT ![n] = h]
                       /\ count' = [count EXCEPT ![h] = @ + 1]
  BY DEF TypeOK, AddStep, AddNextTo, AddHead, AddBottom, AddAfter, AddBefore
<1>. QED
  BY <1>1, CountAfterAdd

LEMMA AddLinksOK ==
    ASSUME TypeOK, LinksOK, NEW n \in Nodes,
           \/ \E h \in Heads : AddStep(h, n)
           \/ \E base \in Nodes : AddNextTo(base, n)
    PROVE  LinksOK'
<1> USE NullAssumption DEF TypeOK, NodeOrNull, SetLink, Fresh, LinksOK
<1>1. ASSUME NEW h \in Heads, AddHead(h, n) PROVE LinksOK'
  BY <1>1 DEF AddHead
<1>2. ASSUME NEW h \in Heads, AddBottom(h, n) PROVE LinksOK'
  BY <1>2 DEF AddBottom
<1>3. ASSUME NEW base \in Nodes, AddAfter(base, n) PROVE LinksOK'
  BY <1>3 DEF AddAfter
<1>4. ASSUME NEW base \in Nodes, AddBefore(base, n) PROVE LinksOK'
  BY <1>4 DEF AddBefore
<1>. QED
  BY <1>1, <1>2, <1>3, <1>4 DEF AddStep, AddNextTo

-----------------------------------------------------------------------------
(* The loop *)

LEMMA SweepDelStep ==
    ASSUME IInv, SweepDel
    PROVE  IInv'
<1> USE NullAssumption DEF IInv
<1>1. pos \in Nodes /\ sweep \in Heads /\ Unlink(pos) /\ sweep' = sweep
  BY DEF TypeOK, NodeOrNull, SweepDel
<1>2. pos' = tn /\ tn' = SuccOrNull(tn, next')
  BY DEF SweepDel
<1>3. LinksOK' /\ CountOK'
  BY <1>1, UnlinkStep
<1>4. TypeOK'
  <2>1. HeadsTypeOK' /\ NodesTypeOK'
    BY <1>1, UnlinkStep
  <2>. QED
    BY <1>1, <1>2, <2>1
    DEF TypeOK, HeadsTypeOK, NodesTypeOK, NodeOrNull, SuccOrNull
(* pos was the first node, so its successor is the new first. *)
<1>5. first'[sweep] = tn
  <2>1. pos = first[sweep] /\ tn = next[pos]
    BY <1>1 DEF SweepOK, SuccOrNull
  <2>2. head[pos] = sweep /\ prev[pos] = NULL
    BY <1>1, <2>1 DEF LinksOK
  <2>. QED
    BY <1>1, <2>1, <2>2 DEF Unlink, TypeOK
<1>6. SweepOK'
  BY <1>1, <1>2, <1>5 DEF SweepOK, SuccOrNull
<1>. QED
  BY <1>3, <1>4, <1>6

-----------------------------------------------------------------------------
(* What the walks meet *)

(* A walk along links that connect the elements of a sequence meets them. *)
LEMMA WalkIs ==
    ASSUME NEW S, NEW s \in Seq(S), NEW n, NEW link,
           Len(s) # 0 => n = s[1],
           \A i \in 1 .. Len(s) : i # Len(s) => link[s[i]] = s[i + 1]
    PROVE  Walk(Len(s), n, link) = s
<1>1. Len(s) \in Nat /\ s = [i \in 1 .. Len(s) |-> s[i]]
  OBVIOUS
<1>2. \A i \in 1 .. Len(s) : s[i] = IF i = 1 THEN n ELSE link[s[i - 1]]
  <2> SUFFICES ASSUME NEW i \in 1 .. Len(s) PROVE s[i] = IF i = 1 THEN n ELSE link[s[i - 1]]
    OBVIOUS
  <2>1. CASE i = 1
    BY <1>1, <2>1
  <2>2. CASE i # 1
    <3>1. i - 1 \in 1 .. Len(s) /\ i - 1 # Len(s) /\ (i - 1) + 1 = i
      BY <1>1, <2>2
    <3>. QED
      BY <2>2, <3>1
  <2>. QED
    BY <2>1, <2>2
<1>3. s = [i \in 1 .. Len(s) |-> IF i = 1 THEN n ELSE link[s[i - 1]]]
  BY <1>1, <1>2
<1>4. PICK w : w = Walk(Len(s), n, link)
  OBVIOUS
<1>5. w = [i \in 1 .. Len(s) |-> IF i = 1 THEN n ELSE link[w[i - 1]]]
  BY <1>3, <1>4 DEF Walk
<1> DEFINE T == {i \in 1 .. Len(s) : w[i] # s[i]}
<1>6. T = {}
  <2> SUFFICES ASSUME T # {} PROVE FALSE
    OBVIOUS
  <2>1. T \in SUBSET Nat
    BY <1>1
  <2>2. PICK m \in T : \A y \in T : m <= y
    <3> HIDE DEF T
    <3>. QED
      BY <2>1, MinFacts
  <2>3. m \in 1 .. Len(s) /\ w[m] # s[m] /\ w[m] = IF m = 1 THEN n ELSE link[w[m - 1]]
    BY <1>5
  <2>4. m # 1
    BY <1>2, <2>3
  <2>5. m - 1 \in 1 .. Len(s) /\ ~(m <= m - 1)
    BY <1>1, <2>3, <2>4
  <2>6. w[m - 1] = s[m - 1]
    BY <2>2, <2>5
  <2>. QED
    BY <1>2, <2>3, <2>4, <2>6
<1>7. w = [i \in 1 .. Len(s) |-> w[i]]
  BY <1>5
<1>. QED
  BY <1>1, <1>4, <1>6, <1>7

(* The i-th node, or the NULL beyond either end. *)
At(s, i) == IF i \in 1 .. Len(s) THEN s[i] ELSE NULL

(* The list of h is the sequence s. *)
Chain(s, h) ==
    /\ s \in Seq(Nodes) /\ count[h] = Len(s)
    /\ \A i, j \in 1 .. Len(s) : s[i] = s[j] => i = j
    /\ \A n \in Nodes : head[n] = h <=> \E i \in 1 .. Len(s) : s[i] = n
    /\ first[h] = At(s, 1) /\ last[h] = At(s, Len(s))
    /\ \A i \in 1 .. Len(s) : next[s[i]] = At(s, i + 1) /\ prev[s[i]] = At(s, i - 1)

(* Every head has one. *)
Chained == \A h \in Heads : \E s \in Seq(Nodes) : Chain(s, h)

LEMMA AtFacts ==
    ASSUME NEW s \in Seq(Nodes)
    PROVE  /\ Len(s) \in Nat
           /\ \A i : At(s, i) = NULL <=> i \notin 1 .. Len(s)
           /\ \A i \in 1 .. Len(s) : s[i] \in Nodes /\ At(s, i) = s[i]
<1>1. Len(s) \in Nat /\ \A i \in 1 .. Len(s) : s[i] \in Nodes
  OBVIOUS
<1>. QED
  BY <1>1, NullAssumption DEF At

LEMMA ForwardIs ==
    ASSUME NEW h \in Heads, NEW s
    PROVE  /\ Chain(s, h) => Forward(h) = s
           /\ Chain(s, h)' => Forward(h)' = s
<1>1. ASSUME Chain(s, h) PROVE Forward(h) = s
  <2>1. s \in Seq(Nodes) /\ count[h] = Len(s) /\ Len(s) \in Nat
    BY <1>1 DEF Chain
  <2>2. Len(s) # 0 => first[h] = s[1]
    BY <1>1, <2>1 DEF Chain, At
  <2>3. \A i \in 1 .. Len(s) : i # Len(s) => next[s[i]] = s[i + 1]
    BY <1>1, <2>1 DEF Chain, At
  <2>. QED
    BY <2>1, <2>2, <2>3, WalkIs DEF Forward
<1>2. ASSUME Chain(s, h)' PROVE Forward(h)' = s
  <2>1. s \in Seq(Nodes) /\ count'[h] = Len(s) /\ Len(s) \in Nat
    BY <1>2 DEF Chain
  <2>2. Len(s) # 0 => first'[h] = s[1]
    BY <1>2, <2>1 DEF Chain, At
  <2>3. \A i \in 1 .. Len(s) : i # Len(s) => next'[s[i]] = s[i + 1]
    BY <1>2, <2>1 DEF Chain, At
  <2>4. Walk(Len(s), first'[h], next') = s
    BY <2>1, <2>2, <2>3, WalkIs
  <2>5. Forward(h)' = Walk(count'[h], first'[h], next')
    BY DEF Forward, Walk
  <2>. QED
    BY <2>1, <2>4, <2>5
<1>. QED
  BY <1>1, <1>2

(* Walking back meets the reversed sequence. *)
LEMMA BackwardIs ==
    ASSUME NEW h \in Heads, NEW s, Chain(s, h)
    PROVE  Backward(h) = [i \in 1 .. Len(s) |-> s[(Len(s) - i) + 1]]
<1>1. s \in Seq(Nodes) /\ count[h] = Len(s) /\ Len(s) \in Nat
  BY DEF Chain
<1>2. PICK t : t = [i \in 1 .. Len(s) |-> s[(Len(s) - i) + 1]]
  OBVIOUS
<1>3. \A i \in 1 .. Len(s) : (Len(s) - i) + 1 \in 1 .. Len(s)
  BY <1>1
<1>4. \A i \in 1 .. Len(s) : s[i] \in Nodes
  BY <1>1
<1>5. t \in Seq(Nodes) /\ Len(t) = Len(s)
  BY <1>1, <1>2, <1>3, <1>4
<1>6. Len(s) # 0 => last[h] = t[1]
  BY <1>1, <1>2 DEF Chain, At
<1>7. ASSUME NEW i \in 1 .. Len(s), i # Len(s) PROVE prev[t[i]] = t[i + 1]
  <2>1. PICK j \in 1 .. Len(s) : j = (Len(s) - i) + 1
    BY <1>3
  <2>2. j - 1 \in 1 .. Len(s) /\ i + 1 \in 1 .. Len(s) /\ (Len(s) - (i + 1)) + 1 = j - 1
    BY <1>1, <1>7, <2>1
  <2>3. t[i] = s[j] /\ t[i + 1] = s[j - 1]
    BY <1>2, <2>1, <2>2
  <2>. QED
    BY <2>2, <2>3 DEF Chain, At
<1>8. Walk(Len(t), last[h], prev) = t
  <2>1. \A i \in 1 .. Len(t) : i # Len(t) => prev[t[i]] = t[i + 1]
    BY <1>5, <1>7
  <2>. QED
    BY <1>5, <1>6, <2>1, WalkIs
<1>. QED
  BY <1>1, <1>2, <1>5, <1>8 DEF Backward

LEMMA ChainedHolds == Chained => WalksAgree
<1> SUFFICES ASSUME Chained, NEW h \in Heads, NEW i \in 1 .. count[h]
             PROVE  Forward(h)[i] = Backward(h)[count[h] + 1 - i]
  BY DEF WalksAgree
<1>1. PICK s \in Seq(Nodes) : Chain(s, h)
  BY DEF Chained
<1>2. count[h] = Len(s) /\ Len(s) \in Nat
  BY <1>1 DEF Chain
<1>3. PICK j : j = count[h] + 1 - i
  OBVIOUS
<1>4. j \in 1 .. Len(s) /\ (Len(s) - j) + 1 = i
  BY <1>2, <1>3
<1>5. Forward(h) = s /\ Backward(h)[j] = s[(Len(s) - j) + 1]
  BY <1>1, <1>4, ForwardIs, BackwardIs
<1>. QED
  BY <1>3, <1>4, <1>5

(* A list that has a first node is not empty. *)
LEMMA EmptyHolds == IInv /\ Chained => SweepEmpties
<1> SUFFICES ASSUME IInv, Chained, sweep # NULL, pos = NULL
             PROVE  count[sweep] = 0 /\ last[sweep] = NULL
  BY DEF SweepEmpties
<1>1. sweep \in Heads /\ first[sweep] = NULL
  BY DEF IInv, TypeOK, SweepOK
<1>2. PICK s \in Seq(Nodes) : Chain(s, sweep)
  BY <1>1 DEF Chained
<1>3. At(s, 1) = NULL
  BY <1>1, <1>2 DEF Chain
<1>4. Len(s) \in Nat /\ 1 \notin 1 .. Len(s)
  BY <1>3, AtFacts
<1>5. Len(s) = 0 /\ At(s, Len(s)) = NULL
  BY <1>4 DEF At
<1>. QED
  BY <1>2, <1>5 DEF Chain

-----------------------------------------------------------------------------
(* Inserting and deleting *)

(* n goes between p and q of the list of h. *)
Inserts(h, n, p, q) ==
    /\ next'[n] = q /\ prev'[n] = p
    /\ \A m \in Nodes \ {n} : /\ next'[m] = IF m = p THEN n ELSE next[m]
                              /\ prev'[m] = IF m = q THEN n ELSE prev[m]
    /\ \A g \in Heads : /\ first'[g] = IF g = h /\ p = NULL THEN n ELSE first[g]
                        /\ last'[g] = IF g = h /\ q = NULL THEN n ELSE last[g]
                        /\ count'[g] = IF g = h THEN count[g] + 1 ELSE count[g]
    /\ \A m \in Nodes : head'[m] = IF m = n THEN h ELSE head[m]

LEMMA InsertsHere ==
    ASSUME NEW h \in Heads, NEW s, Chain(s, h), NEW n \in Nodes, head[n] = NULL,
           NEW i \in 1 .. Len(s) + 1, Inserts(h, n, At(s, i - 1), At(s, i))
    PROVE  Chain(InsertAt(s, i, n), h)'
<1>1. s \in Seq(Nodes) /\ Len(s) \in Nat
  BY DEF Chain
<1>2. PICK t \in Seq(Nodes) : t = InsertAt(s, i, n)
  BY <1>1, InsertAtFacts
<1>3. /\ Len(t) = Len(s) + 1 /\ t[i] = n
      /\ \A j \in 1 .. Len(s) : t[IF j < i THEN j ELSE j + 1] = s[j]
  BY <1>1, <1>2, InsertAtFacts
<1>4. \A j \in 1 .. Len(s) : s[j] \in Nodes /\ s[j] # n
  BY <1>1, NullAssumption, SMTT(30) DEF Chain
<1>5. \A j \in 1 .. Len(t) : \/ j = i
                             \/ j < i /\ j \in 1 .. Len(s) /\ t[j] = s[j]
                             \/ j > i /\ j - 1 \in 1 .. Len(s) /\ t[j] = s[j - 1]
  <2> SUFFICES ASSUME NEW j \in 1 .. Len(t), j # i
               PROVE  \/ j < i /\ j \in 1 .. Len(s) /\ t[j] = s[j]
                      \/ j > i /\ j - 1 \in 1 .. Len(s) /\ t[j] = s[j - 1]
    OBVIOUS
  <2>1. CASE j < i
    <3>1. j \in 1 .. Len(s)
      BY <1>1, <1>3, <2>1
    <3>. QED
      BY <1>3, <2>1, <3>1
  <2>2. CASE j > i
    <3>1. j - 1 \in 1 .. Len(s) /\ ~(j - 1 < i) /\ (j - 1) + 1 = j
      BY <1>1, <1>3, <2>2
    <3>. QED
      BY <1>3, <2>2, <3>1
  <2>. QED
    BY <1>1, <1>3, <2>1, <2>2
<1>6. \A j, k \in 1 .. Len(s) : s[j] = s[k] => j = k
  BY DEF Chain
<1>7. \A j, k \in 1 .. Len(t) : t[j] = t[k] => j = k
  <2> SUFFICES ASSUME NEW j \in 1 .. Len(t), NEW k \in 1 .. Len(t), t[j] = t[k], j # k
               PROVE  FALSE
    OBVIOUS
  <2>1. j # i /\ k # i
    BY <1>3, <1>4, <1>5
  <2>2. ASSUME NEW l \in 1 .. Len(t), l # i
        PROVE  \E a \in 1 .. Len(s) : t[l] = s[a] /\ l = IF a < i THEN a ELSE a + 1
    <3>1. CASE l < i /\ l \in 1 .. Len(s) /\ t[l] = s[l]
      BY <3>1
    <3>2. CASE l > i /\ l - 1 \in 1 .. Len(s) /\ t[l] = s[l - 1]
      <4>1. l = IF l - 1 < i THEN l - 1 ELSE (l - 1) + 1
        BY <3>2
      <4>. QED
        BY <3>2, <4>1
    <3>. QED
      BY <1>5, <2>2, <3>1, <3>2
  <2>3. PICK a \in 1 .. Len(s) : t[j] = s[a] /\ j = IF a < i THEN a ELSE a + 1
    BY <2>1, <2>2
  <2>4. PICK b \in 1 .. Len(s) : t[k] = s[b] /\ k = IF b < i THEN b ELSE b + 1
    BY <2>1, <2>2
  <2>. QED
    BY <1>6, <2>3, <2>4
<1>8. \A m \in Nodes : head'[m] = h <=> \E j \in 1 .. Len(t) : t[j] = m
  <2> SUFFICES ASSUME NEW m \in Nodes
               PROVE  head'[m] = h <=> \E j \in 1 .. Len(t) : t[j] = m
    OBVIOUS
  <2>1. i \in 1 .. Len(t)
    BY <1>1, <1>3
  <2>2. head[m] = h <=> \E j \in 1 .. Len(s) : s[j] = m
    BY DEF Chain
  <2>3. CASE m = n
    BY <1>3, <2>1, <2>3 DEF Inserts
  <2>4. CASE m # n
    <3>1. \A j \in 1 .. Len(s) : (IF j < i THEN j ELSE j + 1) \in 1 .. Len(t)
      BY <1>1, <1>3
    <3>2. (\E j \in 1 .. Len(s) : s[j] = m) => \E j \in 1 .. Len(t) : t[j] = m
      BY <1>3, <3>1
    <3>3. (\E j \in 1 .. Len(t) : t[j] = m) => \E j \in 1 .. Len(s) : s[j] = m
      BY <1>3, <1>5, <2>4
    <3>. QED
      BY <2>2, <2>4, <3>2, <3>3 DEF Inserts
  <2>. QED
    BY <2>3, <2>4
<1>9. \A j \in 1 .. Len(s) : next[s[j]] = At(s, j + 1) /\ prev[s[j]] = At(s, j - 1)
  BY DEF Chain
<1>10. \A j \in Int : At(t, j) = IF j = i THEN n ELSE IF j < i THEN At(s, j) ELSE At(s, j - 1)
  BY <1>1, <1>3, <1>5 DEF At
<1>11. \A j \in 1 .. Len(s), k \in Int : s[j] = At(s, k) <=> j = k
  BY <1>1, <1>4, <1>6, NullAssumption DEF At
<1>12. ASSUME NEW j \in 1 .. Len(t)
       PROVE  next'[t[j]] = At(t, j + 1) /\ prev'[t[j]] = At(t, j - 1)
  <2>1. CASE j = i
    <3>1. At(t, j + 1) = At(s, i) /\ At(t, j - 1) = At(s, i - 1)
      BY <1>1, <1>10, <2>1
    <3>. QED
      BY <1>3, <2>1, <3>1 DEF Inserts
  <2>2. CASE j < i
    <3>1. j \in 1 .. Len(s) /\ t[j] = s[j] /\ s[j] \in Nodes \ {n}
      BY <1>4, <1>5, <2>2
    <3>2. next'[s[j]] = (IF j = i - 1 THEN n ELSE At(s, j + 1)) /\ prev'[s[j]] = At(s, j - 1)
      BY <1>9, <1>11, <2>2, <3>1 DEF Inserts
    <3>3. At(t, j + 1) = (IF j = i - 1 THEN n ELSE At(s, j + 1)) /\ At(t, j - 1) = At(s, j - 1)
      BY <1>1, <1>10, <2>2
    <3>. QED
      BY <3>1, <3>2, <3>3
  <2>3. CASE j > i
    <3>1. j - 1 \in 1 .. Len(s) /\ t[j] = s[j - 1] /\ s[j - 1] \in Nodes \ {n}
      BY <1>4, <1>5, <2>3
    <3>2. /\ next'[s[j - 1]] = At(s, j)
          /\ prev'[s[j - 1]] = (IF j - 1 = i THEN n ELSE At(s, (j - 1) - 1))
      <4>1. j - 1 # i - 1 /\ (j - 1) + 1 = j
        BY <2>3
      <4>2. /\ next'[s[j - 1]] = (IF s[j - 1] = At(s, i - 1) THEN n ELSE next[s[j - 1]])
            /\ prev'[s[j - 1]] = (IF s[j - 1] = At(s, i) THEN n ELSE prev[s[j - 1]])
        BY <3>1 DEF Inserts
      <4>. QED
        BY <1>9, <1>11, <3>1, <4>1, <4>2
    <3>3. At(t, j + 1) = At(s, j) /\ At(t, j - 1) = (IF j - 1 = i THEN n ELSE At(s, (j - 1) - 1))
      BY <1>1, <1>10, <2>3
    <3>. QED
      BY <3>1, <3>2, <3>3
  <2>. QED
    BY <1>1, <1>3, <2>1, <2>2, <2>3
<1>13. first'[h] = At(t, 1) /\ last'[h] = At(t, Len(t)) /\ count'[h] = Len(t)
  <2>1. count[h] = Len(s) /\ first[h] = At(s, 1) /\ last[h] = At(s, Len(s))
    BY DEF Chain
  <2>2. (At(s, i - 1) = NULL <=> i = 1) /\ (At(s, i) = NULL <=> i = Len(s) + 1)
    BY <1>1, AtFacts
  <2>3. At(t, 1) = (IF i = 1 THEN n ELSE At(s, 1))
        /\ At(t, Len(t)) = (IF i = Len(s) + 1 THEN n ELSE At(s, Len(s)))
    BY <1>1, <1>3, <1>10
  <2>. QED
    BY <1>3, <2>1, <2>2, <2>3 DEF Inserts
<1>14. Chain(t, h)'
  BY <1>2, <1>7, <1>8, <1>12, <1>13 DEF Chain
<1>. QED
  BY <1>2, <1>14

(* A node of another list is neither n nor a neighbour of n. *)
LEMMA InsertsElsewhere ==
    ASSUME NEW h \in Heads, NEW g \in Heads, g # h, NEW r, Chain(r, g),
           NEW n \in Nodes, head[n] = NULL, NEW p, NEW q,
           p = NULL \/ (p \in Nodes /\ head[p] = h),
           q = NULL \/ (q \in Nodes /\ head[q] = h),
           Inserts(h, n, p, q)
    PROVE  Chain(r, g)'
<1>1. r \in Seq(Nodes) /\ Len(r) \in Nat
  BY DEF Chain
<1>2. \A j \in 1 .. Len(r) : r[j] \in Nodes /\ head[r[j]] = g
  BY <1>1 DEF Chain
<1>3. \A j \in 1 .. Len(r) : r[j] \in Nodes \ {n} /\ r[j] # p /\ r[j] # q
  BY <1>2, NullAssumption
<1>4. \A j \in 1 .. Len(r) : next'[r[j]] = At(r, j + 1) /\ prev'[r[j]] = At(r, j - 1)
  <2>1. \A j \in 1 .. Len(r) : next[r[j]] = At(r, j + 1) /\ prev[r[j]] = At(r, j - 1)
    BY DEF Chain
  <2>2. \A j \in 1 .. Len(r) : next'[r[j]] = next[r[j]] /\ prev'[r[j]] = prev[r[j]]
    BY <1>3 DEF Inserts
  <2>. QED
    BY <2>1, <2>2
<1>5. \A m \in Nodes : head'[m] = g <=> \E j \in 1 .. Len(r) : r[j] = m
  BY NullAssumption DEF Inserts, Chain
<1>6. first'[g] = At(r, 1) /\ last'[g] = At(r, Len(r)) /\ count'[g] = Len(r)
  BY DEF Inserts, Chain
<1>7. \A i, j \in 1 .. Len(r) : r[i] = r[j] => i = j
  BY DEF Chain
<1>. QED
  BY <1>1, <1>4, <1>5, <1>6, <1>7 DEF Chain

(* n, between p and q on the list of h, leaves it. *)
Deletes(h, n, p, q) ==
    /\ next'[n] = NULL /\ prev'[n] = NULL
    /\ \A m \in Nodes \ {n} : /\ next'[m] = IF m = p THEN q ELSE next[m]
                              /\ prev'[m] = IF m = q THEN p ELSE prev[m]
    /\ \A g \in Heads : /\ first'[g] = IF g = h /\ p = NULL THEN q ELSE first[g]
                        /\ last'[g] = IF g = h /\ q = NULL THEN p ELSE last[g]
                        /\ count'[g] = IF g = h THEN count[g] - 1 ELSE count[g]
    /\ \A m \in Nodes : head'[m] = IF m = n THEN NULL ELSE head[m]

LEMMA DeletesElsewhere ==
    ASSUME NEW h \in Heads, NEW g \in Heads, g # h, NEW r, Chain(r, g),
           NEW n \in Nodes, head[n] = h, NEW p, NEW q,
           p = NULL \/ (p \in Nodes /\ head[p] = h),
           q = NULL \/ (q \in Nodes /\ head[q] = h),
           Deletes(h, n, p, q)
    PROVE  Chain(r, g)'
<1>1. r \in Seq(Nodes) /\ Len(r) \in Nat
  BY DEF Chain
<1>2. \A j \in 1 .. Len(r) : r[j] \in Nodes /\ head[r[j]] = g
  BY <1>1 DEF Chain
<1>3. \A j \in 1 .. Len(r) : r[j] \in Nodes \ {n} /\ r[j] # p /\ r[j] # q
  BY <1>2, NullAssumption
<1>4. \A j \in 1 .. Len(r) : next'[r[j]] = At(r, j + 1) /\ prev'[r[j]] = At(r, j - 1)
  <2>1. \A j \in 1 .. Len(r) : next[r[j]] = At(r, j + 1) /\ prev[r[j]] = At(r, j - 1)
    BY DEF Chain
  <2>2. \A j \in 1 .. Len(r) : next'[r[j]] = next[r[j]] /\ prev'[r[j]] = prev[r[j]]
    BY <1>3 DEF Deletes
  <2>. QED
    BY <2>1, <2>2
<1>5. \A m \in Nodes : head'[m] = g <=> \E j \in 1 .. Len(r) : r[j] = m
  BY NullAssumption DEF Deletes, Chain
<1>6. first'[g] = At(r, 1) /\ last'[g] = At(r, Len(r)) /\ count'[g] = Len(r)
  BY DEF Deletes, Chain
<1>7. \A i, j \in 1 .. Len(r) : r[i] = r[j] => i = j
  BY DEF Chain
<1>. QED
  BY <1>1, <1>4, <1>5, <1>6, <1>7 DEF Chain

LEMMA DeletesHere ==
    ASSUME NEW h \in Heads, NEW s, Chain(s, h), NEW i \in 1 .. Len(s),
           Deletes(h, s[i], At(s, i - 1), At(s, i + 1))
    PROVE  Chain(RemoveAt(s, i), h)'
<1>1. s \in Seq(Nodes) /\ Len(s) \in Nat
  BY DEF Chain
<1>2. PICK t \in Seq(Nodes) : t = RemoveAt(s, i)
  BY <1>1, RemoveAtFacts
<1>3. /\ Len(t) = Len(s) - 1
      /\ \A j \in 1 .. Len(s) - 1 : t[j] = s[IF j < i THEN j ELSE j + 1]
  BY <1>1, <1>2, RemoveAtFacts
<1>4. \A j \in 1 .. Len(s) : s[j] \in Nodes
  BY <1>1
<1>5. \A j \in Nat \ {0} : /\ (IF j < i THEN j ELSE j + 1) \in Nat
                     /\ (IF j < i THEN j ELSE j + 1) # i
                     /\ j \in 1 .. Len(t) <=> (IF j < i THEN j ELSE j + 1) \in 1 .. Len(s)
  BY <1>1, <1>3
<1>6. \A j, k \in 1 .. Len(s) : s[j] = s[k] => j = k
  BY DEF Chain
<1>7. \A j, k \in 1 .. Len(t) : t[j] = t[k] => j = k
  <2> SUFFICES ASSUME NEW j \in 1 .. Len(t), NEW k \in 1 .. Len(t), t[j] = t[k], j # k
               PROVE  FALSE
    OBVIOUS
  <2>1. PICK a \in 1 .. Len(s) : t[j] = s[a] /\ a = IF j < i THEN j ELSE j + 1
    BY <1>1, <1>3, SMTT(30)
  <2>2. PICK b \in 1 .. Len(s) : t[k] = s[b] /\ b = IF k < i THEN k ELSE k + 1
    BY <1>1, <1>3, SMTT(30)
  <2>3. a = b
    BY <1>6, <2>1, <2>2
  <2>. QED
    BY <2>1, <2>2, <2>3
<1>8. \A m \in Nodes : head'[m] = h <=> \E j \in 1 .. Len(t) : t[j] = m
  <2> SUFFICES ASSUME NEW m \in Nodes
               PROVE  head'[m] = h <=> \E j \in 1 .. Len(t) : t[j] = m
    OBVIOUS
  <2>1. head[m] = h <=> \E j \in 1 .. Len(s) : s[j] = m
    BY DEF Chain
  <2>2. ASSUME NEW j \in 1 .. Len(t), t[j] = m
        PROVE  m # s[i] /\ \E k \in 1 .. Len(s) : s[k] = m
    <3>1. PICK k : k = IF j < i THEN j ELSE j + 1
      OBVIOUS
    <3>2. k \in 1 .. Len(s) /\ k # i /\ t[j] = s[k]
      BY <1>1, <1>3, <3>1
    <3>. QED
      BY <1>6, <2>2, <3>2
  <2>3. ASSUME NEW k \in 1 .. Len(s), s[k] = m, m # s[i]
        PROVE  \E j \in 1 .. Len(t) : t[j] = m
    <3>1. CASE k < i
      BY <1>1, <1>3, <2>3, <3>1, SMTT(30)
    <3>2. CASE k > i
      <4>1. k - 1 \in 1 .. Len(t) /\ ~(k - 1 < i) /\ (k - 1) + 1 = k
        BY <1>1, <1>3, <3>2
      <4>. QED
        BY <1>3, <2>3, <4>1
    <3>. QED
      BY <1>1, <2>3, <3>1, <3>2
  <2>. QED
    BY <2>1, <2>2, <2>3, NullAssumption DEF Deletes
<1>9. \A j \in 1 .. Len(s) : next[s[j]] = At(s, j + 1) /\ prev[s[j]] = At(s, j - 1)
  BY DEF Chain
<1>10. \A j, k \in Int : k = (IF j < i THEN j ELSE j + 1) => At(t, j) = At(s, k)
  <2> SUFFICES ASSUME NEW j \in Int, NEW k \in Int, k = (IF j < i THEN j ELSE j + 1)
               PROVE  At(t, j) = At(s, k)
    OBVIOUS
  <2>1. Len(s) \in Nat /\ Len(t) = Len(s) - 1 /\ i \in 1 .. Len(s)
    BY <1>1, <1>3
  <2>2. CASE j \in 1 .. Len(t)
    <3>1. k \in 1 .. Len(s) /\ t[j] = s[k]
      BY <1>3, <2>1, <2>2
    <3>. QED
      BY <2>2, <3>1 DEF At
  <2>3. CASE j \notin 1 .. Len(t)
    <3>1. k \notin 1 .. Len(s)
      BY <2>1, <2>3
    <3>. QED
      BY <2>3, <3>1 DEF At
  <2>. QED
    BY <2>2, <2>3
<1>11. \A j \in 1 .. Len(s), k \in Int : s[j] = At(s, k) <=> j = k
  <2> SUFFICES ASSUME NEW j \in 1 .. Len(s), NEW k \in Int PROVE s[j] = At(s, k) <=> j = k
    OBVIOUS
  <2>1. CASE k \in 1 .. Len(s)
    BY <1>6, <2>1 DEF At
  <2>2. CASE k \notin 1 .. Len(s)
    <3>1. s[j] # NULL /\ j # k
      BY <1>4, <1>6, <2>2, NullAssumption
    <3>. QED
      BY <2>2, <3>1 DEF At
  <2>. QED
    BY <2>1, <2>2
<1>12. ASSUME NEW j \in 1 .. Len(t)
       PROVE  next'[t[j]] = At(t, j + 1) /\ prev'[t[j]] = At(t, j - 1)
  <2>1. CASE j < i
    <3>1. j \in 1 .. Len(s) /\ t[j] = s[j] /\ s[j] \in Nodes \ {s[i]} /\ j # i + 1
      BY <1>1, <1>3, <1>4, <1>6, <2>1
    <3>2. /\ next'[s[j]] = (IF j = i - 1 THEN At(s, i + 1) ELSE At(s, j + 1))
          /\ prev'[s[j]] = At(s, j - 1)
      <4>1. /\ next'[s[j]] = (IF s[j] = At(s, i - 1) THEN At(s, i + 1) ELSE next[s[j]])
            /\ prev'[s[j]] = (IF s[j] = At(s, i + 1) THEN At(s, i - 1) ELSE prev[s[j]])
        BY <3>1 DEF Deletes
      <4>. QED
        BY <1>9, <1>11, <3>1, <4>1
    <3>3. /\ At(t, j + 1) = (IF j = i - 1 THEN At(s, i + 1) ELSE At(s, j + 1))
          /\ At(t, j - 1) = At(s, j - 1)
      <4>1. At(t, j - 1) = At(s, j - 1)
        <5>1. j - 1 \in Int /\ j - 1 < i
          BY <2>1
        <5>. QED
          BY <1>10, <5>1
      <4>2. CASE j = i - 1
        <5>1. j + 1 \in Int /\ i + 1 \in Int /\ ~(j + 1 < i) /\ (j + 1) + 1 = i + 1
          BY <4>2
        <5>2. At(t, j + 1) = At(s, i + 1)
          BY <1>10, <5>1
        <5>. QED
          BY <4>1, <4>2, <5>2
      <4>3. CASE j # i - 1
        <5>1. j + 1 \in Int /\ j + 1 < i
          BY <2>1, <4>3
        <5>2. At(t, j + 1) = At(s, j + 1)
          BY <1>10, <5>1
        <5>. QED
          BY <4>1, <4>3, <5>2
      <4>. QED
        BY <4>2, <4>3
    <3>. QED
      BY <3>1, <3>2, <3>3
  <2>2. CASE j >= i
    <3>1. PICK k : k = j + 1
      OBVIOUS
    <3>2. k \in 1 .. Len(s) /\ t[j] = s[k] /\ k # i /\ k # i - 1 /\ k > i
      BY <1>1, <1>3, <2>2, <3>1
    <3>3. s[k] \in Nodes \ {s[i]}
      BY <1>4, <1>6, <3>2
    <3>4. /\ next'[s[k]] = At(s, k + 1)
          /\ prev'[s[k]] = (IF k = i + 1 THEN At(s, i - 1) ELSE At(s, k - 1))
      <4>1. /\ next'[s[k]] = (IF s[k] = At(s, i - 1) THEN At(s, i + 1) ELSE next[s[k]])
            /\ prev'[s[k]] = (IF s[k] = At(s, i + 1) THEN At(s, i - 1) ELSE prev[s[k]])
        BY <3>3 DEF Deletes
      <4>. QED
        BY <1>9, <1>11, <3>2, <4>1
    <3>5. /\ At(t, j + 1) = At(s, k + 1)
          /\ At(t, j - 1) = (IF k = i + 1 THEN At(s, i - 1) ELSE At(s, k - 1))
      <4>1. At(t, j + 1) = At(s, k + 1)
        BY <1>1, <1>10, <2>2, <3>1, SMTT(30)
      <4>2. CASE j = i
        <5>1. At(t, j - 1) = At(s, i - 1) /\ k = i + 1
          BY <1>10, <3>1, <4>2
        <5>. QED
          BY <4>1, <5>1
      <4>3. CASE j # i
        <5>1. k - 1 = j /\ ~(j - 1 < i) /\ (j - 1) + 1 = j /\ k # i + 1
          BY <2>2, <3>1, <4>3
        <5>2. At(t, j - 1) = At(s, j)
          BY <1>10, <5>1, SMTT(30)
        <5>. QED
          BY <4>1, <5>1, <5>2
      <4>. QED
        BY <4>2, <4>3
    <3>. QED
      BY <3>2, <3>4, <3>5
  <2>. QED
    BY <1>1, <1>3, <2>1, <2>2
<1>13. first'[h] = At(t, 1) /\ last'[h] = At(t, Len(t)) /\ count'[h] = Len(t)
  <2>1. count[h] = Len(s) /\ first[h] = At(s, 1) /\ last[h] = At(s, Len(s))
    BY DEF Chain
  <2>2. (At(s, i - 1) = NULL <=> i = 1) /\ (At(s, i + 1) = NULL <=> i = Len(s))
    BY <1>1, AtFacts
  <2>3. At(t, 1) = (IF i = 1 THEN At(s, i + 1) ELSE At(s, 1))
    BY <1>1, <1>10
  <2>4. At(t, Len(t)) = (IF i = Len(s) THEN At(s, i - 1) ELSE At(s, Len(s)))
    BY <1>1, <1>3, <1>10, SMTT(30)
  <2>. QED
    BY <1>3, <2>1, <2>2, <2>3, <2>4 DEF Deletes
<1>14. Chain(t, h)'
  BY <1>2, <1>7, <1>8, <1>12, <1>13 DEF Chain
<1>. QED
  BY <1>2, <1>14

LEMMA AddHeadInserts ==
    ASSUME TypeOK, LinksOK, NEW h \in Heads, NEW s, Chain(s, h), NEW n \in Nodes, AddHead(h, n)
    PROVE  Inserts(h, n, At(s, 0), At(s, 1))
<1>1. At(s, 0) = NULL /\ At(s, 1) = first[h]
  BY DEF Chain, At
<1>2. Inserts(h, n, NULL, first[h])
  BY NullAssumption DEF AddHead, Fresh, Inserts, SetLink, TypeOK, NodeOrNull, LinksOK
<1>. QED
  BY <1>1, <1>2

LEMMA AddBottomInserts ==
    ASSUME TypeOK, LinksOK, NEW h \in Heads, NEW s, Chain(s, h), NEW n \in Nodes, AddBottom(h, n)
    PROVE  Inserts(h, n, At(s, Len(s)), At(s, Len(s) + 1))
<1>1. At(s, Len(s)) = last[h] /\ At(s, Len(s) + 1) = NULL
  <2>1. Len(s) \in Nat
    BY DEF Chain
  <2>. QED
    BY <2>1 DEF Chain, At
<1>2. Inserts(h, n, last[h], NULL)
  BY NullAssumption DEF AddBottom, Fresh, Inserts, SetLink, TypeOK, NodeOrNull, LinksOK
<1>. QED
  BY <1>1, <1>2

LEMMA AddNextToInserts ==
    ASSUME TypeOK, LinksOK, NEW h \in Heads, NEW s, Chain(s, h), NEW n \in Nodes,
           NEW k \in 1 .. Len(s)
    PROVE  /\ AddAfter(s[k], n) => Inserts(h, n, At(s, k), At(s, k + 1))
           /\ AddBefore(s[k], n) => Inserts(h, n, At(s, k - 1), At(s, k))
<1>1. s \in Seq(Nodes) /\ Len(s) \in Nat
  BY DEF Chain
<1>2. PICK base \in Nodes : base = s[k]
  BY <1>1
<1>3. head[base] = h /\ next[base] = At(s, k + 1) /\ prev[base] = At(s, k - 1) /\ base = At(s, k)
  BY <1>2 DEF Chain, At
<1>4. ASSUME AddAfter(base, n) PROVE Inserts(h, n, base, next[base])
  BY <1>3, <1>4, NullAssumption
  DEF AddAfter, Fresh, Inserts, SetLink, TypeOK, NodeOrNull, LinksOK
<1>5. ASSUME AddBefore(base, n) PROVE Inserts(h, n, prev[base], base)
  BY <1>3, <1>5, NullAssumption
  DEF AddBefore, Fresh, Inserts, SetLink, TypeOK, NodeOrNull, LinksOK
<1>. QED
  BY <1>2, <1>3, <1>4, <1>5

LEMMA UnlinkDeletes ==
    ASSUME TypeOK, LinksOK, NEW h \in Heads, NEW s, Chain(s, h), NEW i \in 1 .. Len(s),
           Unlink(s[i])
    PROVE  Deletes(h, s[i], At(s, i - 1), At(s, i + 1))
<1>1. s \in Seq(Nodes) /\ Len(s) \in Nat
  BY DEF Chain
<1>2. PICK n \in Nodes : n = s[i]
  BY <1>1
<1>3. head[n] = h /\ next[n] = At(s, i + 1) /\ prev[n] = At(s, i - 1)
  BY <1>2 DEF Chain, At
<1>4. next[n] # n /\ prev[n] # n
  <2>1. At(s, i + 1) # s[i] /\ At(s, i - 1) # s[i]
    BY <1>1, <1>2, NullAssumption DEF Chain, At
  <2>. QED
    BY <1>2, <1>3, <2>1
<1>5. Deletes(h, n, prev[n], next[n])
  BY <1>2, <1>3, <1>4, NullAssumption
  DEF Unlink, Deletes, SetLink, TypeOK, NodeOrNull, LinksOK
<1>. QED
  BY <1>2, <1>3, <1>5

-----------------------------------------------------------------------------
(* The steps of ListSeq *)

(* The lists as ListSeq sees them. *)
Listing == [h \in Heads |-> Forward(h)]

LEMMA InitChained == Init => Chained /\ Lists!Init
<1> SUFFICES ASSUME Init PROVE Chained /\ Lists!Init
  OBVIOUS
<1>1. <<>> \in Seq(Nodes) /\ Len(<<>>) = 0
  OBVIOUS
<1>2. PICK s \in Seq(Nodes) : s = <<>>
  BY <1>1
<1>3. ASSUME NEW h \in Heads PROVE Chain(s, h)
  BY <1>1, <1>2, NullAssumption DEF Init, Chain, At
<1>4. \A h \in Heads : Forward(h) = s
  BY <1>3, ForwardIs
<1>. QED
  BY <1>2, <1>3, <1>4 DEF Chained, Lists!Init

(* The node before or after a place is a node of the list. *)
LEMMA Neighbours ==
    ASSUME NEW h \in Heads, NEW s, Chain(s, h), NEW i
    PROVE  At(s, i) = NULL \/ (At(s, i) \in Nodes /\ head[At(s, i)] = h)
<1>1. s \in Seq(Nodes) /\ \A j \in 1 .. Len(s) : s[j] \in Nodes
  BY DEF Chain
<1>. QED
  BY <1>1 DEF Chain, At

LEMMA InsertStep ==
    ASSUME Chained, NEW h \in Heads, NEW s, Chain(s, h), NEW n \in Nodes, head[n] = NULL,
           NEW i \in 1 .. Len(s) + 1, Inserts(h, n, At(s, i - 1), At(s, i))
    PROVE  Chained' /\ Lists!Next
<1>1. s \in Seq(Nodes) /\ InsertAt(s, i, n) \in Seq(Nodes)
  BY InsertAtFacts DEF Chain
<1>2. Chain(InsertAt(s, i, n), h)'
  BY InsertsHere
<1>3. ASSUME NEW g \in Heads, g # h, NEW r, Chain(r, g) PROVE Chain(r, g)'
  BY <1>3, Neighbours, InsertsElsewhere
<1>4. Chained'
  BY <1>1, <1>2, <1>3 DEF Chained
<1>5. Forward(h) = s /\ Forward(h)' = InsertAt(s, i, n)
  BY <1>2, ForwardIs
<1>6. ASSUME NEW g \in Heads, g # h PROVE Forward(g)' = Forward(g)
  <2>1. PICK r \in Seq(Nodes) : Chain(r, g)
    BY DEF Chained
  <2>. QED
    BY <1>3, <1>6, <2>1, ForwardIs
<1>7. ASSUME NEW g \in Heads PROVE n \notin Range(Forward(g))
  <2>1. PICK r \in Seq(Nodes) : Chain(r, g)
    BY DEF Chained
  <2>2. Forward(g) = r /\ Range(r) = {r[j] : j \in 1 .. Len(r)}
    BY <2>1, ForwardIs, RangeFacts
  <2>3. \A j \in 1 .. Len(r) : r[j] \in Nodes /\ head[r[j]] = g
    BY <2>1 DEF Chain
  <2>. QED
    BY <2>2, <2>3, NullAssumption
<1>8. n \notin Lists!Listed
  BY <1>7 DEF Lists!Listed, Lists!Range, Range
<1>9. Listing' = [Listing EXCEPT ![h] = InsertAt(Listing[h], i, n)]
  BY <1>5, <1>6 DEF Listing
<1>10. Lists!Insert(h, i, n) /\ i \in 1 .. Len(Listing[h]) + 1
  BY <1>5, <1>8, <1>9 DEF Listing, Lists!Insert, Lists!InsertAt, InsertAt
<1>. QED
  BY <1>4, <1>10 DEF Lists!Next, Listing

LEMMA DeleteStep ==
    ASSUME Chained, NEW h \in Heads, NEW s, Chain(s, h), NEW i \in 1 .. Len(s),
           Deletes(h, s[i], At(s, i - 1), At(s, i + 1))
    PROVE  Chained' /\ Lists!Next
<1>1. s \in Seq(Nodes) /\ RemoveAt(s, i) \in Seq(Nodes) /\ s[i] \in Nodes /\ head[s[i]] = h
  BY RemoveAtFacts, SeqFacts DEF Chain
<1>2. Chain(RemoveAt(s, i), h)'
  BY DeletesHere
<1>3. ASSUME NEW g \in Heads, g # h, NEW r, Chain(r, g) PROVE Chain(r, g)'
  BY <1>1, <1>3, Neighbours, DeletesElsewhere
<1>4. Chained'
  BY <1>1, <1>2, <1>3 DEF Chained
<1>5. Forward(h) = s /\ Forward(h)' = RemoveAt(s, i)
  BY <1>2, ForwardIs
<1>6. ASSUME NEW g \in Heads, g # h PROVE Forward(g)' = Forward(g)
  <2>1. PICK r \in Seq(Nodes) : Chain(r, g)
    BY DEF Chained
  <2>. QED
    BY <1>3, <1>6, <2>1, ForwardIs
<1>7. Listing' = [Listing EXCEPT ![h] = RemoveAt(Listing[h], i)]
  BY <1>5, <1>6 DEF Listing
<1>8. Listing[h] = s
  BY <1>5 DEF Listing
<1>9. Lists!Delete(s[i])
  BY <1>7, <1>8 DEF Listing, Lists!Delete, Lists!RemoveAt, RemoveAt
<1>. QED
  BY <1>1, <1>4, <1>9 DEF Lists!Next

LEMMA UnlinkStepChained ==
    ASSUME IInv, Chained, NEW n \in Nodes, Unlink(n)
    PROVE  Chained' /\ (Lists!Next \/ UNCHANGED Listing)
<1>1. CASE head[n] = NULL
  <2>1. UNCHANGED links
    BY <1>1 DEF Unlink
  <2>. QED
    BY <2>1 DEF links, Chained, Chain, Listing, Forward
<1>2. CASE head[n] # NULL
  <2>1. PICK h \in Heads : h = head[n]
    BY <1>2 DEF IInv, TypeOK
  <2>2. PICK s \in Seq(Nodes) : Chain(s, h)
    BY DEF Chained
  <2>3. PICK i \in 1 .. Len(s) : s[i] = n
    BY <2>1, <2>2 DEF Chain
  <2>4. Deletes(h, s[i], At(s, i - 1), At(s, i + 1))
    BY <2>2, <2>3, UnlinkDeletes DEF IInv
  <2>. QED
    BY <2>2, <2>4, DeleteStep
<1>. QED
  BY <1>1, <1>2

(* Every step of the pointers is a step of the sequences, or a stutter. *)
LEMMA StepChained ==
    IInv /\ Chained /\ [Next]_vars => Chained' /\ (Lists!Next \/ UNCHANGED Listing)
<1> SUFFICES ASSUME IInv, Chained, [Next]_vars
             PROVE  Chained' /\ (Lists!Next \/ UNCHANGED Listing)
  OBVIOUS
<1>1. CASE UNCHANGED links
  BY <1>1 DEF links, Chained, Chain, Listing, Forward
<1>2. ASSUME NEW h \in Heads, NEW n \in Nodes, AddHead(h, n)
      PROVE  Chained' /\ Lists!Next
  <2>1. PICK s \in Seq(Nodes) : Chain(s, h)
    BY DEF Chained
  <2>2. Inserts(h, n, At(s, 0), At(s, 1))
    BY <1>2, <2>1, AddHeadInserts DEF IInv
  <2>3. 1 \in 1 .. Len(s) + 1 /\ 1 - 1 = 0 /\ head[n] = NULL
    BY <1>2 DEF AddHead, Fresh
  <2>. QED
    BY <2>1, <2>2, <2>3, InsertStep
<1>3. ASSUME NEW h \in Heads, NEW n \in Nodes, AddBottom(h, n)
      PROVE  Chained' /\ Lists!Next
  <2>1. PICK s \in Seq(Nodes) : Chain(s, h)
    BY DEF Chained
  <2>2. Inserts(h, n, At(s, Len(s)), At(s, Len(s) + 1))
    BY <1>3, <2>1, AddBottomInserts DEF IInv
  <2>3. Len(s) + 1 \in 1 .. Len(s) + 1 /\ (Len(s) + 1) - 1 = Len(s) /\ head[n] = NULL
    BY <1>3 DEF AddBottom, Fresh
  <2>. QED
    BY <2>1, <2>2, <2>3, InsertStep
<1>4. ASSUME NEW base \in Nodes, NEW n \in Nodes, AddAfter(base, n) \/ AddBefore(base, n)
      PROVE  Chained' /\ Lists!Next
  <2>1. head[n] = NULL /\ head[base] # NULL
    BY <1>4 DEF AddAfter, AddBefore, Fresh
  <2>2. PICK h \in Heads : h = head[base]
    BY <2>1 DEF IInv, TypeOK
  <2>3. PICK s \in Seq(Nodes) : Chain(s, h)
    BY DEF Chained
  <2>4. PICK k \in 1 .. Len(s) : s[k] = base
    BY <2>2, <2>3 DEF Chain
  <2>5. CASE AddAfter(base, n)
    <3>1. Inserts(h, n, At(s, k), At(s, k + 1))
      BY <2>3, <2>4, <2>5, AddNextToInserts DEF IInv
    <3>2. k + 1 \in 1 .. Len(s) + 1 /\ (k + 1) - 1 = k
      OBVIOUS
    <3>. QED
      BY <2>1, <2>3, <3>1, <3>2, InsertStep
  <2>6. CASE AddBefore(base, n)
    <3>1. Inserts(h, n, At(s, k - 1), At(s, k))
      BY <2>3, <2>4, <2>6, AddNextToInserts DEF IInv
    <3>2. k \in 1 .. Len(s) + 1
      OBVIOUS
    <3>. QED
      BY <2>1, <2>3, <3>1, <3>2, InsertStep
  <2>. QED
    BY <1>4, <2>5, <2>6
<1>5. ASSUME NEW n \in Nodes, Unlink(n)
      PROVE  Chained' /\ (Lists!Next \/ UNCHANGED Listing)
  BY <1>5, UnlinkStepChained
<1>6. SweepDel => \E n \in Nodes : Unlink(n)
  BY DEF SweepDel, IInv, TypeOK, NodeOrNull
<1>7. (\E h \in Heads : SweepBegin(h)) \/ SweepEnd => UNCHANGED links
  BY DEF SweepBegin, SweepEnd, links
<1>8. UNCHANGED vars => UNCHANGED links
  BY DEF vars, links
<1>. QED
  BY <1>1, <1>2, <1>3, <1>4, <1>5, <1>6, <1>7, <1>8 DEF Next, Operation, Del

-----------------------------------------------------------------------------
(* The theorems *)

LEMMA InitIInv == Init => IInv
<1> SUFFICES ASSUME Init PROVE IInv
  OBVIOUS
<1>1. TypeOK /\ LinksOK /\ SweepOK
  BY NullAssumption DEF Init, TypeOK, NodeOrNull, LinksOK, SweepOK
<1>2. CountOK
  <2>1. \A h \in Heads : On(h) = {}
    BY NullAssumption DEF Init, On
  <2>. QED
    BY <2>1, FS_EmptySet DEF Init, CountOK, On
<1>. QED
  BY <1>1, <1>2 DEF IInv

LEMMA StepIInv == IInv /\ [Next]_vars => IInv'
<1> SUFFICES ASSUME IInv, [Next]_vars PROVE IInv'
  OBVIOUS
<1> USE DEF IInv
<1>1. CASE UNCHANGED vars
  BY <1>1 DEF vars, TypeOK, LinksOK, CountOK, SweepOK
<1>2. ASSUME sweep = NULL, NEW n \in Nodes,
             \/ \E h \in Heads : AddStep(h, n)
             \/ \E base \in Nodes : AddNextTo(base, n)
      PROVE  IInv'
  <2>1. sweep' = sweep
    BY <1>2 DEF AddStep, AddNextTo, AddHead, AddBottom, AddAfter, AddBefore, loop
  <2>2. SweepOK'
    BY <1>2, <2>1 DEF SweepOK
  <2>. QED
    BY <1>2, <2>2, AddTypeOK, AddCountOK, AddLinksOK
<1>3. ASSUME sweep = NULL, NEW n \in Nodes, Del(n) PROVE IInv'
  <2>1. Unlink(n) /\ UNCHANGED loop
    BY <1>3 DEF Del
  <2>2. LinksOK' /\ CountOK' /\ HeadsTypeOK' /\ NodesTypeOK'
    BY <2>1, UnlinkStep
  <2>. QED
    BY <1>3, <2>1, <2>2 DEF TypeOK, HeadsTypeOK, NodesTypeOK, SweepOK, loop
<1>4. ASSUME sweep = NULL, NEW h \in Heads, SweepBegin(h) PROVE IInv'
  BY <1>4, NullAssumption
  DEF SweepBegin, SuccOrNull, links, TypeOK, NodeOrNull, LinksOK, CountOK, SweepOK
<1>5. CASE SweepDel
  BY <1>5, SweepDelStep
<1>6. CASE SweepEnd
  BY <1>6, NullAssumption
  DEF SweepEnd, links, TypeOK, LinksOK, CountOK, SweepOK
<1>. QED
  BY <1>1, <1>2, <1>3, <1>4, <1>5, <1>6
  DEF Next, Operation, AddStep, AddNextTo

LEMMA SpecIInv == Spec => []IInv
  BY InitIInv, StepIInv, PTL DEF Spec

(* The pointer fields keep their types: no operation leaves a count below  *)
(* zero or a link outside the nodes.                                       *)
THEOREM TypeCorrect == Spec => []TypeOK
<1>1. IInv => TypeOK
  BY DEF IInv
<1>. QED
  BY <1>1, SpecIInv, PTL

(* For every number of lists and nodes the links of src/utils/list_head.h  *)
(* stay consistent under every operation and under the `clear' loop.       *)
THEOREM LinksCorrect == Spec => []LinksOK
<1>1. IInv => LinksOK
  BY DEF IInv
<1>. QED
  BY <1>1, SpecIInv, PTL

(* list_count is always the number of nodes on the list. *)
THEOREM CountCorrect == Spec => []CountOK
<1>1. IInv => CountOK
  BY DEF IInv
<1>. QED
  BY <1>1, SpecIInv, PTL

(* The `clear' loop always stands on the first node of what is left. *)
THEOREM SweepCorrect == Spec => []SweepOK
<1>1. IInv => SweepOK
  BY DEF IInv
<1>. QED
  BY <1>1, SpecIInv, PTL

LEMMA SpecChained == Spec => [](IInv /\ Chained)
<1>1. Init => IInv /\ Chained
  BY InitIInv, InitChained
<1>2. (IInv /\ Chained) /\ [Next]_vars => (IInv /\ Chained)'
  BY StepIInv, StepChained
<1>. QED
  BY <1>1, <1>2, PTL DEF Spec

(* The walks of list_next and list_prev meet the same nodes, in opposite   *)
(* orders, on a list of any length.                                        *)
THEOREM WalksCorrect == Spec => []WalksAgree
<1>1. IInv /\ Chained => WalksAgree
  BY ChainedHolds
<1>. QED
  BY <1>1, SpecChained, PTL

(* A `clear' loop that has ended leaves an empty list, however long it was. *)
THEOREM EmptiesCorrect == Spec => []SweepEmpties
<1>1. IInv /\ Chained => SweepEmpties
  BY EmptyHolds
<1>. QED
  BY <1>1, SpecChained, PTL

(* The pointers of src/utils/list_head.h implement sequences: list_add_head, *)
(* list_add_bottom, list_add_after and list_add_before insert one node at    *)
(* one place, list_del removes one, and no other list is touched.            *)
THEOREM RefinementCorrect == Spec => Refines
<1>1. Init => Lists!Init
  BY InitChained
<1>2. IInv /\ Chained /\ [Next]_vars => [Lists!Next]_Listing
  BY StepChained
<1>. QED
  BY <1>1, <1>2, SpecChained, PTL DEF Spec, Refines, Lists!Spec, Listing
==============================================================================
