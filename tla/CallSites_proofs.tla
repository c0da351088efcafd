-------------------------- MODULE CallSites_proofs --------------------------
(***************************************************************************)
(* For any number of sites, keys and chains: the list and the tables of a  *)
(* storage agree but for stale nodes, and a look-up that reads none of     *)
(* them finds what the list has.                                           *)
(***************************************************************************)
EXTENDS CallSites, DataLemmas, FiniteSetTheorems, TLAPS

(* Only sites with a key are entered. *)
Keyed == \A s \in live : target[s] # NULL \/ origin[s] # NULL

CInv == TypeOK /\ ListOwned /\ LinkedOnce /\ Keyed /\ TablesAgree

(* A node is on the chain it stands for. *)
NodeHome(t, b, s) == t = TableOf(s) /\ b = Bucket[Key(s)]

-----------------------------------------------------------------------------
(* Chains, keys and the list *)

LEMMA KeysFacts ==
    ASSUME NEW t \in Tables, NEW k \in KeysOf(t)
    PROVE  k \in Keys /\ k # NULL /\ Bucket[k] \in Buckets
<1>1. k \in Keys
  BY DEF KeysOf, Keys, Tables
<1>. QED
  BY <1>1, NullAssumption, BucketAssumption

LEMMA ChainType ==
    ASSUME TypeOK, NEW t \in Tables, NEW b \in Buckets
    PROVE  /\ table[t][b] \in Seq(Sites) /\ Len(table[t][b]) \in Nat
           /\ \A i \in 1 .. Len(table[t][b]) : table[t][b][i] \in Sites
<1>1. PICK c \in Seq(Sites) : c = table[t][b]
  BY DEF TypeOK
<1>. QED
  BY <1>1, SeqFacts

LEMMA ListType ==
    ASSUME TypeOK
    PROVE  /\ Len(call_sites) \in Nat /\ Listed \subseteq Sites
           /\ \A i \in 1 .. Len(call_sites) : call_sites[i] \in Sites /\ call_sites[i] \in Listed
BY SeqFacts DEF TypeOK, Listed

(* The site of a list has a key of its table. *)
LEMMA KeyOfLive ==
    ASSUME TypeOK, Keyed, NEW s \in live
    PROVE  TableOf(s) \in Tables /\ Key(s) \in KeysOf(TableOf(s))
<1>1. s \in Sites
  BY DEF TypeOK
<1>2. CASE target[s] # NULL
  BY <1>1, <1>2 DEF TypeOK, TableOf, Key, KeysOf, Tables
<1>3. CASE target[s] = NULL
  BY <1>1, <1>3 DEF TypeOK, Keyed, TableOf, Key, KeysOf, Tables
<1>. QED
  BY <1>2, <1>3

LEMMA NodesLinked ==
    ASSUME NEW t \in Tables, NEW b \in Buckets
    PROVE  /\ \A i \in 1 .. Len(table[t][b]) : table[t][b][i] \in Nodes(t, b)
           /\ Nodes(t, b) \subseteq Linked
<1>1. \A i \in 1 .. Len(table[t][b]) : table[t][b][i] \in Nodes(t, b)
  BY DEF Nodes
<1>2. Nodes(t, b) \in {Nodes(u, c) : u \in Tables, c \in Buckets}
  OBVIOUS
<1>3. Nodes(t, b) \subseteq Linked
  BY <1>2 DEF Linked
<1>. QED
  BY <1>1, <1>3

(* And what is linked is on a chain. *)
LEMMA LinkedNode ==
    ASSUME NEW s \in Linked
    PROVE  \E t \in Tables, b \in Buckets : s \in Nodes(t, b)
BY DEF Linked

LEMMA LinkedOnceFacts ==
    ASSUME LinkedOnce, NEW t \in Tables, NEW b \in Buckets
    PROVE  /\ \A i \in 1 .. Len(table[t][b]) : NodeHome(t, b, table[t][b][i])
           /\ \A i, j \in 1 .. Len(table[t][b]) : table[t][b][i] = table[t][b][j] => i = j
BY DEF LinkedOnce, NodeHome

(* A node is in one table, with the key of its site. *)
LEMMA EnteredIs ==
    ASSUME LinkedOnce, NEW t \in Tables, NEW b \in Buckets, NEW s \in Nodes(t, b)
    PROVE  TableOf(s) = t /\ Bucket[Key(s)] = b
BY LinkedOnceFacts DEF Nodes, NodeHome

LEMMA NodesFinite ==
    ASSUME TypeOK, NEW t \in Tables, NEW b \in Buckets
    PROVE  IsFiniteSet(Nodes(t, b))
<1>1. PICK c \in Seq(Sites) : c = table[t][b]
  BY ChainType
<1>2. Len(c) \in Nat /\ IsFiniteSet(1 .. Len(c))
  BY FS_Interval
<1>3. c \in Surjection(1 .. Len(c), {c[i] : i \in 1 .. Len(c)})
  BY DEF Surjection
<1>4. IsFiniteSet({c[i] : i \in 1 .. Len(c)})
  BY <1>2, <1>3, FS_Surjection
<1>. QED
  BY <1>1, <1>4 DEF Nodes

LEMMA ListedFinite == ASSUME TypeOK PROVE IsFiniteSet(Listed)
<1>1. PICK c \in Seq(Sites) : c = call_sites
  BY DEF TypeOK
<1>2. Len(c) \in Nat /\ IsFiniteSet(1 .. Len(c))
  BY FS_Interval
<1>3. c \in Surjection(1 .. Len(c), {c[i] : i \in 1 .. Len(c)})
  BY DEF Surjection
<1>4. IsFiniteSet({c[i] : i \in 1 .. Len(c)})
  BY <1>2, <1>3, FS_Surjection
<1>. QED
  BY <1>1, <1>4 DEF Listed

LEMMA CountsFinite ==
    ASSUME TypeOK, NEW t \in Tables, NEW k \in KeysOf(t)
    PROVE  IsFiniteSet(Entered(t, k)) /\ IsFiniteSet(Known(t, k))
<1>1. Entered(t, k) \in SUBSET Nodes(t, Bucket[k]) /\ Known(t, k) \in SUBSET Listed
  BY DEF Entered, Known
<1>. QED
  BY <1>1, KeysFacts, NodesFinite, ListedFinite, FS_Subset

(* hash_find *)
LEMMA FindFacts ==
    ASSUME TypeOK, NEW t \in Tables, NEW k \in KeysOf(t)
    PROVE  LET c == Chain(t, k)
               i == hash_find(t, k)
           IN /\ i = 0 => \A j \in 1 .. Len(c) : Key(c[j]) # k
              /\ i # 0 => /\ i \in 1 .. Len(c) /\ Key(c[i]) = k
                          /\ \A j \in 1 .. Len(c) : Key(c[j]) = k => i <= j
<1> DEFINE c == Chain(t, k)
           I == {j \in 1 .. Len(c) : Key(c[j]) = k}
<1>1. hash_find(t, k) = IF I # {} THEN Min(I) ELSE 0
  BY DEF hash_find, SelectInSeq
<1>2. Len(c) \in Nat
  BY KeysFacts, ChainType DEF Chain
<1>3. I \in SUBSET Nat
  BY <1>2
<1>4. CASE I # {}
  <2>1. Min(I) \in I /\ \A j \in I : Min(I) <= j
    <3> HIDE DEF I
    <3>. QED
      BY <1>3, <1>4, MinFacts
  <2>2. hash_find(t, k) \in I /\ \A j \in I : hash_find(t, k) <= j
    BY <1>1, <1>4, <2>1
  <2> HIDE DEF c
  <2>. QED
    BY <1>2, <2>2 DEF c
<1>5. CASE I = {}
  BY <1>1, <1>5
<1>. QED
  BY <1>4, <1>5

(* A table has nodes with a key while the list has sites with it. *)
LEMMA CountFacts ==
    ASSUME TypeOK, TablesAgree, NEW t \in Tables, NEW k \in KeysOf(t)
    PROVE  Entered(t, k) = {} <=> Known(t, k) = {}
<1>1. Cardinality(Entered(t, k)) = Cardinality(Known(t, k))
  BY DEF TablesAgree
<1>. QED
  BY <1>1, CountsFinite, FS_EmptySet

LEMMA FindEntered ==
    ASSUME TypeOK, LinkedOnce, NEW t \in Tables, NEW k \in KeysOf(t)
    PROVE  /\ hash_find(t, k) = 0 <=> Entered(t, k) = {}
           /\ hash_find(t, k) # 0 => Chain(t, k)[hash_find(t, k)] \in Entered(t, k)
<1> DEFINE c == Chain(t, k)
           i == hash_find(t, k)
<1>1. c = table[t][Bucket[k]] /\ Bucket[k] \in Buckets /\ k \in Keys
  BY KeysFacts DEF Chain
<1>2. \A s : s \in Entered(t, k) <=> \E j \in 1 .. Len(c) : s = c[j] /\ Key(c[j]) = k
  BY <1>1, EnteredIs DEF Entered, Nodes
<1>3. i = 0 => \A j \in 1 .. Len(c) : Key(c[j]) # k
  BY FindFacts
<1>4. i # 0 => i \in 1 .. Len(c) /\ Key(c[i]) = k
  BY FindFacts
<1> HIDE DEF c, i
<1>5. i = 0 => Entered(t, k) = {}
  BY <1>2, <1>3
<1>6. i # 0 => c[i] \in Entered(t, k)
  BY <1>2, <1>4
<1>. QED
  BY <1>5, <1>6 DEF c, i

-----------------------------------------------------------------------------
(* A site is added *)

LEMMA NewSite ==
    ASSUME Sites \ (live \cup Linked) # {}
    PROVE  New \in Sites /\ New \notin live /\ New \notin Linked
BY DEF New

(* What pst_call_site_storage_add does, to the chain b of table t. *)
Adds(n, t, k, tgt, org) ==
    /\ n \notin live /\ n \notin Linked
    /\ call_sites' = Append(call_sites, n)
    /\ live' = live \cup {n}
    /\ target' = [target EXCEPT ![n] = tgt]
    /\ origin' = [origin EXCEPT ![n] = org]
    /\ params' = [params EXCEPT ![n] = <<>>]
    /\ table' = [table EXCEPT ![t][Bucket[k]] = Append(@, n)]
    /\ t = (IF tgt # NULL THEN "target" ELSE "origin")
    /\ k = (IF tgt # NULL THEN tgt ELSE org)
    /\ site' = n /\ site = NULL /\ fault' = fault

LEMMA AddsType ==
    ASSUME TypeOK, NEW n \in Sites, NEW t \in Tables, NEW k \in KeysOf(t),
           NEW tgt \in Targets \cup {NULL}, NEW org \in Names \cup {NULL},
           Adds(n, t, k, tgt, org)
    PROVE  TypeOK'
<1>1. Append(table[t][Bucket[k]], n) \in Seq(Sites)
  BY KeysFacts, ChainType, AppendFacts
<1>2. table' \in [Tables -> [Buckets -> Seq(Sites)]]
  BY <1>1 DEF TypeOK, Adds
<1>3. params' \in [Sites -> Seq(Params)]
  BY DEF TypeOK, Adds
<1>4. call_sites' \in Seq(Sites) /\ live' \subseteq Sites
  BY DEF TypeOK, Adds
<1>5. target' \in [Sites -> Targets \cup {NULL}] /\ origin' \in [Sites -> Names \cup {NULL}]
  BY DEF TypeOK, Adds
<1>. QED
  BY <1>2, <1>3, <1>4, <1>5 DEF TypeOK, Adds

(* Only the new site's key and only the end of its chain change. *)
LEMMA AddsFacts ==
    ASSUME TypeOK, NEW n \in Sites, NEW t \in Tables, NEW k \in KeysOf(t),
           NEW tgt \in Targets \cup {NULL}, NEW org \in Names \cup {NULL},
           Adds(n, t, k, tgt, org)
    PROVE  /\ \A s \in Sites \ {n} : TableOf(s)' = TableOf(s) /\ Key(s)' = Key(s)
           /\ TableOf(n)' = t /\ Key(n)' = k
           /\ table'[t][Bucket[k]] = Append(table[t][Bucket[k]], n)
           /\ \A u \in Tables, b \in Buckets :
                 u # t \/ b # Bucket[k] => table'[u][b] = table[u][b]
<1>1. \A s \in Sites \ {n} : target'[s] = target[s] /\ origin'[s] = origin[s]
  BY DEF TypeOK, Adds
<1>2. target'[n] = tgt /\ origin'[n] = org
  BY DEF TypeOK, Adds
<1>3. Bucket[k] \in Buckets
  BY KeysFacts
<1>. QED
  BY <1>1, <1>2, <1>3, SMTT(30) DEF TableOf, Key, Adds, TypeOK

(* A list with one more element, at its end. *)
Grown(c, d, n) ==
    /\ Len(c) \in Nat
    /\ \A i \in 1 .. Len(d) : \/ i \in 1 .. Len(c) /\ d[i] = c[i] /\ c[i] # n
                              \/ i = Len(c) + 1 /\ d[i] = n

LEMMA GrownIs ==
    ASSUME NEW S, NEW c \in Seq(S), NEW n \in S, \A i \in 1 .. Len(c) : c[i] # n
    PROVE  /\ Grown(c, c, n) /\ Grown(c, Append(c, n), n)
           /\ {Append(c, n)[i] : i \in 1 .. Len(Append(c, n))} = {c[i] : i \in 1 .. Len(c)} \cup {n}
<1>1. PICK d : d = Append(c, n)
  OBVIOUS
<1>2. /\ Len(d) = Len(c) + 1 /\ Len(c) \in Nat
      /\ \A i \in 1 .. Len(c) : d[i] = c[i]
      /\ d[Len(c) + 1] = n
  BY <1>1, AppendFacts
<1>3. Grown(c, c, n) /\ Grown(c, d, n)
  BY <1>2 DEF Grown
<1>4. {d[i] : i \in 1 .. Len(d)} = {c[i] : i \in 1 .. Len(c)} \cup {n}
  BY <1>2
<1>. QED
  BY <1>1, <1>3, <1>4

LEMMA InOrderGrown ==
    ASSUME NEW c, NEW d, NEW l, NEW m, NEW n,
           Grown(c, d, n), Grown(l, m, n), InOrder(c, l)
    PROVE  InOrder(d, m)
<1> SUFFICES ASSUME NEW i \in 1 .. Len(d), NEW j \in 1 .. Len(d),
                    NEW p \in 1 .. Len(m), NEW q \in 1 .. Len(m),
                    d[i] = m[p], d[j] = m[q], i < j
             PROVE  p < q
  BY DEF InOrder
<1>1. i \in 1 .. Len(c) /\ d[i] = c[i] /\ c[i] # n
  BY DEF Grown
<1>2. p \in 1 .. Len(l) /\ m[p] = l[p]
  BY <1>1 DEF Grown
<1>3. CASE d[j] = n
  <2>1. Len(l) \in Nat /\ ((q \in 1 .. Len(l) /\ m[q] # n) \/ q = Len(l) + 1)
    BY DEF Grown
  <2>. QED
    BY <1>2, <1>3, <2>1
<1>4. CASE d[j] # n
  <2>1. j \in 1 .. Len(c) /\ d[j] = c[j]
    BY <1>4 DEF Grown
  <2>2. q \in 1 .. Len(l) /\ m[q] = l[q]
    BY <1>4 DEF Grown
  <2>. QED
    BY <1>1, <1>2, <2>1, <2>2 DEF InOrder
<1>. QED
  BY <1>3, <1>4

(* LinkedOnce says that no node is at two places, and each on its chain. *)
Once(T) ==
    \A t, u \in Tables, b, c \in Buckets :
        \A i \in 1 .. Len(T[t][b]), j \in 1 .. Len(T[u][c]) :
            T[t][b][i] = T[u][c][j] => t = u /\ b = c /\ i = j

AtHome ==
    \A t \in Tables, b \in Buckets : \A i \in 1 .. Len(table[t][b]) :
        NodeHome(t, b, table[t][b][i])

LEMMA LinkedOnceIs ==
    /\ LinkedOnce <=> Once(table) /\ AtHome
    /\ Once(table') /\ AtHome' => LinkedOnce'
<1>1. ASSUME LinkedOnce PROVE Once(table)
  BY <1>1 DEF LinkedOnce, Once
<1>2. ASSUME LinkedOnce PROVE AtHome
  BY <1>2, LinkedOnceFacts DEF AtHome
<1>3. ASSUME Once(table), AtHome PROVE LinkedOnce
  BY <1>3 DEF LinkedOnce, Once, AtHome, NodeHome
<1>4. ASSUME Once(table'), AtHome' PROVE LinkedOnce'
  BY <1>4 DEF LinkedOnce, Once, AtHome, NodeHome
<1>. QED
  BY <1>1, <1>2, <1>3, <1>4

(* In terms of the nodes, to be stated of the next state. *)
LEMMA AtHomeIs ==
    /\ (\A t \in Tables, b \in Buckets : \A s \in Nodes(t, b) : NodeHome(t, b, s)) => AtHome
    /\ (\A t \in Tables, b \in Buckets : \A s \in Nodes(t, b)' : NodeHome(t, b, s)') => AtHome'
<1>1. ASSUME \A t \in Tables, b \in Buckets : \A s \in Nodes(t, b) : NodeHome(t, b, s)
      PROVE  AtHome
  BY <1>1 DEF AtHome, Nodes
<1>2. ASSUME \A t \in Tables, b \in Buckets : \A s \in Nodes(t, b)' : NodeHome(t, b, s)'
      PROVE  AtHome'
  BY <1>2 DEF AtHome, Nodes, NodeHome, TableOf, Key
<1>. QED
  BY <1>1, <1>2

GrownAt(T, U, n, t, a) ==
    /\ \A u \in Tables, b \in Buckets : Grown(T[u][b], U[u][b], n)
    /\ \A u \in Tables, b \in Buckets : u # t \/ b # a => U[u][b] = T[u][b]

LEMMA OnceGrown ==
    ASSUME NEW T, NEW U, NEW n, NEW t, NEW a, Once(T), GrownAt(T, U, n, t, a)
    PROVE  Once(U)
<1> SUFFICES ASSUME NEW u \in Tables, NEW v \in Tables, NEW b \in Buckets, NEW c \in Buckets,
                    NEW i \in 1 .. Len(U[u][b]), NEW j \in 1 .. Len(U[v][c]),
                    U[u][b][i] = U[v][c][j]
             PROVE  u = v /\ b = c /\ i = j
  BY DEF Once
<1>1. Grown(T[u][b], U[u][b], n) /\ Grown(T[v][c], U[v][c], n)
  BY DEF GrownAt
<1>2. CASE U[u][b][i] = n
  <2>1. i = Len(T[u][b]) + 1 /\ j = Len(T[v][c]) + 1
        /\ Len(T[u][b]) \in Nat /\ Len(T[v][c]) \in Nat
    BY <1>1, <1>2 DEF Grown
  <2>2. U[u][b] # T[u][b] /\ U[v][c] # T[v][c]
    <3>1. i \notin 1 .. Len(T[u][b]) /\ j \notin 1 .. Len(T[v][c])
      BY <2>1, SMTT(30)
    <3>. QED
      BY <3>1
  <2>3. u = t /\ b = a /\ v = t /\ c = a
    BY <2>2 DEF GrownAt
  <2>. QED
    BY <2>1, <2>3
<1>3. CASE U[u][b][i] # n
  <2>1. i \in 1 .. Len(T[u][b]) /\ U[u][b][i] = T[u][b][i]
    BY <1>1, <1>3 DEF Grown
  <2>2. j \in 1 .. Len(T[v][c]) /\ U[v][c][j] = T[v][c][j]
    BY <1>1, <1>3 DEF Grown
  <2>3. T[u][b][i] = T[v][c][j]
    BY <2>1, <2>2
  <2> HIDE DEF Grown
  <2>. QED
    BY <2>1, <2>2, <2>3 DEF Once
<1>. QED
  BY <1>2, <1>3

LEMMA AddsNodes ==
    ASSUME TypeOK, NEW n \in Sites, NEW t \in Tables, NEW k \in KeysOf(t),
           NEW tgt \in Targets \cup {NULL}, NEW org \in Names \cup {NULL},
           Adds(n, t, k, tgt, org), NEW u \in Tables, NEW b \in Buckets
    PROVE  /\ Grown(table[u][b], table'[u][b], n)
           /\ Nodes(u, b)' = Nodes(u, b) \cup IF u = t /\ b = Bucket[k] THEN {n} ELSE {}
<1>1. PICK c \in Seq(Sites) : c = table[u][b]
  BY ChainType
<1>2. \A i \in 1 .. Len(c) : c[i] # n
  BY <1>1, NodesLinked DEF Adds
<1>3. CASE u = t /\ b = Bucket[k]
  <2>1. PICK d : d = Append(c, n)
    OBVIOUS
  <2>2. d = table'[u][b]
    BY <1>1, <1>3, <2>1, AddsFacts
  <2>3. Grown(c, d, n) /\ {d[i] : i \in 1 .. Len(d)} = {c[i] : i \in 1 .. Len(c)} \cup {n}
    BY <1>2, <2>1, GrownIs
  <2>4. Nodes(u, b) = {c[i] : i \in 1 .. Len(c)} /\ Nodes(u, b)' = {d[i] : i \in 1 .. Len(d)}
    BY <1>1, <2>2 DEF Nodes
  <2>. QED
    BY <1>1, <1>3, <2>2, <2>3, <2>4
<1>4. CASE ~(u = t /\ b = Bucket[k])
  <2>1. table'[u][b] = table[u][b]
    BY <1>4, AddsFacts
  <2>2. Grown(c, c, n)
    BY <1>2, GrownIs
  <2>3. Nodes(u, b)' = Nodes(u, b)
    BY <2>1 DEF Nodes
  <2>. QED
    BY <1>1, <1>4, <2>1, <2>2, <2>3
<1>. QED
  BY <1>3, <1>4

LEMMA AddsList ==
    ASSUME CInv, NEW n \in Sites, NEW t \in Tables, NEW k \in KeysOf(t),
           NEW tgt \in Targets \cup {NULL}, NEW org \in Names \cup {NULL},
           Adds(n, t, k, tgt, org)
    PROVE  /\ Grown(call_sites, call_sites', n)
           /\ Listed' = Listed \cup {n}
           /\ ListOwned'
<1>1. PICK c \in Seq(Sites) : c = call_sites
  BY DEF CInv, TypeOK
<1>10. PICK d : d = Append(c, n)
  OBVIOUS
<1>2. d = call_sites'
  BY <1>1, <1>10 DEF Adds
<1>3. \A i \in 1 .. Len(c) : c[i] # n
  BY <1>1, ListType DEF CInv, ListOwned, Adds
<1>4. Grown(c, d, n) /\ {d[i] : i \in 1 .. Len(d)} = {c[i] : i \in 1 .. Len(c)} \cup {n}
  BY <1>10, <1>3, GrownIs
<1>5. Listed' = Listed \cup {n}
  <2>1. Listed = {c[i] : i \in 1 .. Len(c)}
    BY <1>1 DEF Listed
  <2>2. Listed' = {d[i] : i \in 1 .. Len(d)}
    BY <1>2 DEF Listed
  <2>. QED
    BY <1>4, <2>1, <2>2
<1>6. \A i, j \in 1 .. Len(d) : d[i] = d[j] => i = j
  <2>1. \A i, j \in 1 .. Len(c) : c[i] = c[j] => i = j
    BY <1>1 DEF CInv, ListOwned
  <2>. QED
    BY <1>4, <2>1 DEF Grown
<1>7. d # <<>> /\ n = Last(d)
  <2>1. Len(d) = Len(c) + 1 /\ d[Len(c) + 1] = n /\ Len(c) \in Nat
    BY <1>10, AppendFacts
  <2>. QED
    BY <2>1 DEF Last
<1>8. Listed' = live'
  BY <1>5 DEF CInv, ListOwned, Adds
<1>9. ListOwned'
  <2>1. site' = n
    BY DEF Adds
  <2>. QED
    BY <1>2, <1>6, <1>7, <1>8, <2>1 DEF ListOwned
<1>. QED
  BY <1>1, <1>2, <1>4, <1>5, <1>9

LEMMA AddsCInv ==
    ASSUME CInv, NEW n \in Sites, NEW t \in Tables, NEW k \in KeysOf(t),
           NEW tgt \in Targets \cup {NULL}, NEW org \in Names \cup {NULL},
           Adds(n, t, k, tgt, org)
    PROVE  CInv'
<1>1. TypeOK /\ LinkedOnce /\ TypeOK' /\ ListOwned' /\ n \notin Listed
  BY AddsType, AddsList DEF CInv, ListOwned, Adds
<1>2. Bucket[k] \in Buckets /\ k # NULL
  BY KeysFacts
<1>3. Keyed'
  <2>1. \A s \in live : target'[s] = target[s] /\ origin'[s] = origin[s]
    BY DEF CInv, TypeOK, Adds
  <2>2. target'[n] # NULL \/ origin'[n] # NULL
    BY <1>2 DEF CInv, TypeOK, Adds
  <2>. QED
    BY <2>1, <2>2 DEF Keyed, CInv, Adds
<1>4. LinkedOnce'
  <2>1. Once(table')
    <3>1. PICK T, U, a : T = table /\ U = table' /\ a = Bucket[k]
      OBVIOUS
    <3>2. Once(T)
      BY <1>1, <3>1, LinkedOnceIs
    <3>3. \A u \in Tables, b \in Buckets : Grown(T[u][b], U[u][b], n)
      BY <1>1, <3>1, AddsNodes
    <3>4. \A u \in Tables, b \in Buckets : u # t \/ b # a => U[u][b] = T[u][b]
      BY <1>1, <3>1, AddsFacts
    <3>5. Once(U)
      <4>1. GrownAt(T, U, n, t, a)
        BY <3>3, <3>4 DEF GrownAt
      <4>. QED
        BY <3>2, <4>1, OnceGrown
    <3>. QED
      BY <3>1, <3>5
  <2>2. ASSUME NEW u \in Tables, NEW b \in Buckets, NEW s \in Nodes(u, b)'
        PROVE  NodeHome(u, b, s)'
    <3>1. CASE s \in Nodes(u, b)
      <4>1. s \in Sites \ {n}
        BY <1>1, <3>1, NodesLinked, ChainType DEF Nodes, Adds
      <4>2. TableOf(s)' = TableOf(s) /\ Key(s)' = Key(s)
        BY <1>1, <4>1, AddsFacts
      <4>3. TableOf(s) = u /\ Bucket[Key(s)] = b
        BY <1>1, <3>1, EnteredIs
      <4>. QED
        BY <4>2, <4>3 DEF NodeHome
    <3>2. CASE s \notin Nodes(u, b)
      <4>1. s = n /\ u = t /\ b = Bucket[k]
        BY <1>1, <3>2, AddsNodes
      <4>2. TableOf(n)' = t /\ Key(n)' = k
        BY <1>1, AddsFacts
      <4>. QED
        BY <4>1, <4>2 DEF NodeHome
    <3>. QED
      BY <3>1, <3>2
  <2>3. AtHome'
    BY <2>2, AtHomeIs
  <2>. QED
    BY <2>1, <2>3, LinkedOnceIs
<1>5. TablesAgree'
  <2>1. ASSUME NEW u \in Tables, NEW m \in KeysOf(u)
        PROVE  /\ Cardinality(Entered(u, m)') = Cardinality(Known(u, m)')
               /\ Entered(u, m)' \subseteq live' => Entered(u, m)' = Known(u, m)'
    <3>1. Bucket[m] \in Buckets
      BY KeysFacts
    <3>2. Entered(u, m) \subseteq Sites \ {n} /\ Known(u, m) \subseteq Sites \ {n}
      <4>1. Nodes(u, Bucket[m]) \subseteq Linked /\ Nodes(u, Bucket[m]) \subseteq Sites
        BY <1>1, <3>1, NodesLinked, ChainType DEF Nodes
      <4>2. Listed \subseteq Sites
        BY <1>1, ListType
      <4>. QED
        BY <1>1, <4>1, <4>2 DEF Entered, Known, Adds
    <3>3. Nodes(u, Bucket[m])' = Nodes(u, Bucket[m])
             \cup IF u = t /\ Bucket[m] = Bucket[k] THEN {n} ELSE {}
      BY <1>1, <3>1, AddsNodes
    <3>4. Nodes(u, Bucket[m]) \subseteq Sites /\ n \notin Nodes(u, Bucket[m])
      BY <1>1, <3>1, NodesLinked, ChainType DEF Nodes, Adds
    <3>5. \A s \in Sites \ {n} : TableOf(s)' = TableOf(s) /\ Key(s)' = Key(s)
      BY <1>1, AddsFacts
    <3>6. TableOf(n)' = t /\ Key(n)' = k
      BY <1>1, AddsFacts
    <3>7. Entered(u, m)' = {s \in Nodes(u, Bucket[m])' : TableOf(s)' = u /\ Key(s)' = m}
      BY DEF Entered
    <3>8. Known(u, m)' = {s \in Listed' : TableOf(s)' = u /\ Key(s)' = m}
      BY DEF Known
    <3>9. Listed' = Listed \cup {n} /\ Listed \subseteq Sites
      BY <1>1, AddsList, ListType
    <3>10. CASE u = t /\ m = k
      <4>1. Entered(u, m)' = Entered(u, m) \cup {n}
        BY <3>3, <3>4, <3>5, <3>6, <3>7, <3>10 DEF Entered
      <4>2. Known(u, m)' = Known(u, m) \cup {n}
        BY <1>1, <3>5, <3>6, <3>8, <3>9, <3>10 DEF Known
      <4>3. /\ Cardinality(Entered(u, m)') = Cardinality(Entered(u, m)) + 1
            /\ Cardinality(Known(u, m)') = Cardinality(Known(u, m)) + 1
        BY <1>1, <3>2, <4>1, <4>2, CountsFinite, FS_AddElement
      <4>4. Entered(u, m)' \subseteq live' => Entered(u, m) \subseteq live
        BY <3>2, <4>1 DEF Adds
      <4>. QED
        BY <4>1, <4>2, <4>3, <4>4 DEF CInv, TablesAgree
    <3>11. CASE ~(u = t /\ m = k)
      <4>1. Entered(u, m)' = Entered(u, m)
        BY <3>3, <3>4, <3>5, <3>6, <3>7, <3>11 DEF Entered
      <4>2. Known(u, m)' = Known(u, m)
        BY <1>1, <3>5, <3>6, <3>8, <3>9, <3>11 DEF Known
      <4>4. Entered(u, m)' \subseteq live' => Entered(u, m) \subseteq live
        BY <3>2, <4>1 DEF Adds
      <4>. QED
        BY <4>1, <4>2, <4>4 DEF CInv, TablesAgree
    <3>. QED
      BY <3>10, <3>11
  <2>2. ASSUME NEW u \in Tables, NEW b \in Buckets
        PROVE  InOrder(table'[u][b], call_sites')
    <3>1. Grown(table[u][b], table'[u][b], n) /\ Grown(call_sites, call_sites', n)
      BY <1>1, AddsNodes, AddsList
    <3>2. InOrder(table[u][b], call_sites)
      BY DEF CInv, TablesAgree
    <3>. QED
      BY <3>1, <3>2, InOrderGrown
  <2>. QED
    BY <2>1, <2>2 DEF TablesAgree
<1>. QED
  BY <1>1, <1>3, <1>4, <1>5 DEF CInv

-----------------------------------------------------------------------------
(* A site is given up *)

(* A list without its p-th element. *)
Shrunk(c, d, p) ==
    /\ Len(c) \in Nat /\ p \in 1 .. Len(c) /\ Len(d) = Len(c) - 1
    /\ \A i \in 1 .. Len(d) : d[i] = c[IF i < p THEN i ELSE i + 1]

LEMMA ShrunkIs ==
    ASSUME NEW S, NEW c \in Seq(S), NEW p \in 1 .. Len(c)
    PROVE  Shrunk(c, RemoveAt(c, p), p)
<1>1. Len(c) \in Nat
  OBVIOUS
<1>2. /\ Len(RemoveAt(c, p)) = Len(c) - 1
      /\ \A i \in 1 .. Len(c) - 1 : RemoveAt(c, p)[i] = c[IF i < p THEN i ELSE i + 1]
  BY RemoveAtFacts
<1>. QED
  BY <1>1, <1>2 DEF Shrunk

Distinct(c) == \A i, j \in 1 .. Len(c) : c[i] = c[j] => i = j
Elements(c) == {c[i] : i \in 1 .. Len(c)}

LEMMA ShrunkDistinct ==
    ASSUME NEW c, NEW d, NEW p, Shrunk(c, d, p), Distinct(c)
    PROVE  Distinct(d) /\ Elements(d) = Elements(c) \ {c[p]}
<1> DEFINE f(i) == IF i < p THEN i ELSE i + 1
<1>1. p \in 1 .. Len(c) /\ Len(c) \in Nat /\ Len(d) = Len(c) - 1
  BY DEF Shrunk
<1>2. \A i \in 1 .. Len(d) : f(i) \in 1 .. Len(c) /\ f(i) # p /\ d[i] = c[f(i)]
  BY DEF Shrunk
<1>3. \A i, j \in 1 .. Len(d) : f(i) = f(j) => i = j
  BY <1>1
<1>4. \A j \in 1 .. Len(c) : j # p => \E i \in 1 .. Len(d) : f(i) = j
  <2> SUFFICES ASSUME NEW j \in 1 .. Len(c), j # p
               PROVE  \E i \in 1 .. Len(d) : f(i) = j
    OBVIOUS
  <2>1. CASE j < p
    <3>1. j \in 1 .. Len(d) /\ f(j) = j
      BY <1>1, <2>1
    <3>. QED
      BY <3>1
  <2>2. CASE j > p
    <3>1. j - 1 \in 1 .. Len(d) /\ f(j - 1) = j
      BY <1>1, <2>2
    <3>. QED
      BY <3>1
  <2>. QED
    BY <1>1, <2>1, <2>2
<1> HIDE DEF f
<1>5. Distinct(d)
  BY <1>2, <1>3 DEF Distinct
<1>6. \A i \in 1 .. Len(d) : d[i] # c[p] /\ \E j \in 1 .. Len(c) : c[j] = d[i]
  BY <1>1, <1>2 DEF Distinct
<1>7. \A j \in 1 .. Len(c) : c[j] # c[p] => \E i \in 1 .. Len(d) : d[i] = c[j]
  BY <1>2, <1>4
<1>8. Elements(d) = Elements(c) \ {c[p]}
  <2>1. Elements(d) \subseteq Elements(c) \ {c[p]}
    BY <1>6 DEF Elements
  <2>2. Elements(c) \ {c[p]} \subseteq Elements(d)
    BY <1>7 DEF Elements
  <2>. QED
    BY <2>1, <2>2
<1>. QED
  BY <1>5, <1>8

LEMMA InOrderShrunk ==
    ASSUME NEW c, NEW d, NEW l, NEW m, NEW p, NEW q,
           c = d \/ Shrunk(c, d, p), Shrunk(l, m, q), InOrder(c, l)
    PROVE  InOrder(d, m)
<1> SUFFICES ASSUME NEW i \in 1 .. Len(d), NEW j \in 1 .. Len(d),
                    NEW a \in 1 .. Len(m), NEW b \in 1 .. Len(m),
                    d[i] = m[a], d[j] = m[b], i < j
             PROVE  a < b
  BY DEF InOrder
<1>1. PICK x \in 1 .. Len(c), y \in 1 .. Len(c) : x < y /\ d[i] = c[x] /\ d[j] = c[y]
  <2>1. CASE c = d
    BY <2>1
  <2>2. CASE Shrunk(c, d, p)
    <3> DEFINE f(n) == IF n < p THEN n ELSE n + 1
    <3>1. f(i) \in 1 .. Len(c) /\ f(j) \in 1 .. Len(c) /\ f(i) < f(j)
      BY <2>2 DEF Shrunk
    <3>2. d[i] = c[f(i)] /\ d[j] = c[f(j)]
      BY <2>2 DEF Shrunk
    <3> HIDE DEF f
    <3>. QED
      BY <3>1, <3>2
  <2>. QED
    BY <2>1, <2>2
<1> DEFINE g(n) == IF n < q THEN n ELSE n + 1
<1>2. g(a) \in 1 .. Len(l) /\ g(b) \in 1 .. Len(l) /\ m[a] = l[g(a)] /\ m[b] = l[g(b)]
  BY SMTT(30) DEF Shrunk
<1>3. g(a) < g(b) => a < b
  BY DEF Shrunk
<1> HIDE DEF g
<1>4. g(a) < g(b)
  BY <1>1, <1>2 DEF InOrder
<1>. QED
  BY <1>3, <1>4

ShrunkAt(T, U, t, a, p) ==
    /\ Shrunk(T[t][a], U[t][a], p)
    /\ \A u \in Tables, b \in Buckets : u # t \/ b # a => U[u][b] = T[u][b]

LEMMA OnceShrunk ==
    ASSUME NEW T, NEW U, NEW t, NEW a, NEW p, Once(T), ShrunkAt(T, U, t, a, p)
    PROVE  Once(U)
<1> SUFFICES ASSUME NEW u \in Tables, NEW v \in Tables, NEW b \in Buckets, NEW c \in Buckets,
                    NEW i \in 1 .. Len(U[u][b]), NEW j \in 1 .. Len(U[v][c]),
                    U[u][b][i] = U[v][c][j]
             PROVE  u = v /\ b = c /\ i = j
  BY DEF Once
<1> DEFINE f(w, e, n) == IF w = t /\ e = a /\ ~(n < p) THEN n + 1 ELSE n
<1>1. ASSUME NEW w \in Tables, NEW e \in Buckets, NEW n \in 1 .. Len(U[w][e])
      PROVE  f(w, e, n) \in 1 .. Len(T[w][e]) /\ U[w][e][n] = T[w][e][f(w, e, n)]
  <2>1. CASE w = t /\ e = a
    <3>1. PICK x, y : x = T[w][e] /\ y = U[w][e] /\ Shrunk(x, y, p) /\ n \in 1 .. Len(y)
      BY <2>1 DEF ShrunkAt
    <3>2. f(w, e, n) \in 1 .. Len(x) /\ y[n] = x[f(w, e, n)]
      BY <2>1, <3>1 DEF Shrunk
    <3>. QED
      BY <3>1, <3>2
  <2>2. CASE ~(w = t /\ e = a)
    BY <2>2 DEF ShrunkAt
  <2>. QED
    BY <2>1, <2>2
<1>2. T[u][b][f(u, b, i)] = T[v][c][f(v, c, j)]
  BY <1>1
<1>3. u = v /\ b = c /\ f(u, b, i) = f(v, c, j)
  <2> HIDE DEF f
  <2>. QED
    BY <1>1, <1>2 DEF Once
<1>. QED
  <2>1. f(u, b, i) = f(u, b, j)
    BY <1>3
  <2>2. i \in Int /\ j \in Int /\ p \in Int
    BY DEF ShrunkAt, Shrunk
  <2>. QED
    BY <1>3, <2>1, <2>2

(* What pst_call_site_storage_del does when all it reads is allocated. *)
Dels(s, t, k, i, x) ==
    /\ s = site /\ site # NULL /\ t = TableOf(s) /\ k = Key(s) /\ i = hash_find(t, k)
    /\ i # 0 /\ x = Chain(t, k)[i] /\ x \in live
    /\ call_sites' = RemoveFirst(call_sites, s)
    /\ table' = [table EXCEPT ![t][Bucket[k]] = RemoveAt(@, i)]
    /\ live' = live \ {s}
    /\ params' = [params EXCEPT ![s] = <<>>]
    /\ UNCHANGED <<target, origin, fault>> /\ site' = NULL

LEMMA SiteIs ==
    ASSUME CInv, site # NULL
    PROVE  /\ site \in live /\ TableOf(site) \in Tables /\ Key(site) \in KeysOf(TableOf(site))
           /\ site \in Known(TableOf(site), Key(site))
<1>1. Len(call_sites) \in Nat /\ call_sites \in Seq(Sites)
  BY ListType DEF CInv, TypeOK
<1>2. site = call_sites[Len(call_sites)] /\ Len(call_sites) \in 1 .. Len(call_sites)
  BY <1>1 DEF CInv, ListOwned, Last
<1>3. site \in Listed /\ site \in live
  BY <1>2 DEF Listed, CInv, ListOwned
<1>. QED
  BY <1>3, KeyOfLive DEF Known, CInv

(* The step is one of the two: the site had a node to take out. *)
LEMMA FailsIs ==
    ASSUME CInv, fault = "none", HandleFails
    PROVE  \/ UseAfterFree
           \/ \E s \in live, t \in Tables, x \in Sites : \E k \in KeysOf(t) :
                 \E i \in 1 .. Len(table[t][Bucket[k]]) :
                    /\ Dels(s, t, k, i, x) /\ x \in Entered(t, k)
                    /\ s \in Known(t, k)
<1>1. site # NULL /\ storage_del(site) /\ site' = IF fault' = "none" THEN NULL ELSE site
  BY DEF HandleFails
<1>2. PICK s, t, k, i : s = site /\ t = TableOf(s) /\ k = Key(s) /\ i = hash_find(t, k)
  OBVIOUS
<1>3. s \in live /\ t \in Tables /\ k \in KeysOf(t) /\ s \in Known(t, k)
  BY <1>1, <1>2, SiteIs
<1>4. i # 0
  BY <1>2, <1>3, CountFacts, FindEntered DEF CInv
<1>5. i \in 1 .. Len(Chain(t, k)) /\ Chain(t, k)[i] \in Entered(t, k)
  BY <1>2, <1>3, <1>4, FindFacts, FindEntered DEF CInv
<1>6. PICK c \in Seq(Sites) : c = Chain(t, k)
  BY <1>3, KeysFacts, ChainType DEF Chain, CInv
<1>7. PICK x \in Sites : x = c[i] /\ i \in 1 .. Len(c)
  BY <1>5, <1>6, SeqFacts
<1>8. CASE Visited(t, k) \cup DelReads(t, k, i) \subseteq live
  <2>1. x \in Visited(t, k)
    <3>1. i \in 1 .. i
      BY <1>7
    <3>. QED
      BY <1>2, <1>4, <1>6, <1>7, <3>1 DEF Visited
  <2>2. x \in live
    BY <1>8, <2>1
  <2>3. /\ call_sites' = RemoveFirst(call_sites, s)
        /\ table' = [table EXCEPT ![t][Bucket[k]] = RemoveAt(@, i)]
        /\ live' = live \ {s}
        /\ params' = [params EXCEPT ![s] = <<>>]
        /\ UNCHANGED <<target, origin, fault>>
    BY <1>1, <1>2, <1>4, <1>8 DEF storage_del, hash_del
  <2>4. site' = NULL
    BY <1>1, <2>3
  <2>5. Dels(s, t, k, i, x)
    BY <1>1, <1>2, <1>4, <1>6, <1>7, <2>2, <2>3, <2>4 DEF Dels
  <2>6. i \in 1 .. Len(table[t][Bucket[k]])
    BY <1>6, <1>7 DEF Chain
  <2>. QED
    BY <1>3, <1>5, <1>6, <1>7, <2>5, <2>6
<1>9. CASE ~(Visited(t, k) \cup DelReads(t, k, i) \subseteq live)
  BY <1>1, <1>2, <1>9 DEF storage_del
<1>. QED
  BY <1>8, <1>9

LEMMA DelsType ==
    ASSUME TypeOK, NEW s \in live, NEW t \in Tables, NEW x \in Sites, NEW k \in KeysOf(t),
           NEW i \in 1 .. Len(table[t][Bucket[k]]), Dels(s, t, k, i, x),
           call_sites' \in Seq(Sites)
    PROVE  TypeOK'
<1>1. PICK c \in Seq(Sites) : c = table[t][Bucket[k]]
  BY KeysFacts, ChainType
<1>2. RemoveAt(c, i) \in Seq(Sites)
  BY <1>1, RemoveAtFacts
<1>3. table' \in [Tables -> [Buckets -> Seq(Sites)]]
  BY <1>1, <1>2 DEF TypeOK, Dels
<1>4. params' \in [Sites -> Seq(Params)] /\ live' \subseteq Sites
  BY DEF TypeOK, Dels
<1>. QED
  BY <1>3, <1>4 DEF TypeOK, Dels

LEMMA DelsList ==
    ASSUME CInv, NEW s \in live, NEW t \in Tables, NEW x \in Sites, NEW k \in KeysOf(t),
           NEW i \in 1 .. Len(table[t][Bucket[k]]), Dels(s, t, k, i, x)
    PROVE  /\ call_sites' \in Seq(Sites)
           /\ \E p \in 1 .. Len(call_sites) : Shrunk(call_sites, call_sites', p)
           /\ Listed' = Listed \ {s}
           /\ ListOwned'
<1>1. PICK c \in Seq(Sites) : c = call_sites
  BY DEF CInv, TypeOK
<1>2. \E j \in 1 .. Len(c) : c[j] = s
  BY <1>1 DEF CInv, ListOwned, Listed
<1> DEFINE I == {j \in 1 .. Len(c) : c[j] = s}
<1>3. RemoveFirst(c, s) = RemoveAt(c, Min(I))
  <2>1. SelectInSeq(c, LAMBDA v : v = s) = Min(I)
    <3>1. I # {}
      BY <1>2
    <3>. QED
      BY <3>1 DEF SelectInSeq
  <2>. QED
    BY <1>2, <2>1 DEF RemoveFirst
<1>4. PICK p \in 1 .. Len(c) : p = Min(I) /\ c[p] = s
  <2>1. I # {} /\ I \in SUBSET Nat
    BY <1>2
  <2>2. Min(I) \in I
    <3> HIDE DEF I
    <3>. QED
      BY <2>1, MinFacts
  <2>. QED
    BY <2>2
<1>5. PICK d : d = RemoveAt(c, p)
  OBVIOUS
<1>6. d = call_sites' /\ d \in Seq(Sites) /\ Shrunk(c, d, p)
  BY <1>1, <1>3, <1>4, <1>5, ShrunkIs, RemoveAtFacts DEF Dels
<1>7. Distinct(c)
  BY <1>1 DEF CInv, ListOwned, Distinct
<1>8. Distinct(d) /\ Elements(d) = Elements(c) \ {s}
  BY <1>4, <1>6, <1>7, ShrunkDistinct
<1>9. Listed' = Listed \ {s}
  <2>1. Listed = Elements(c)
    BY <1>1 DEF Listed, Elements
  <2>2. Listed' = Elements(d)
    BY <1>6 DEF Listed, Elements
  <2>. QED
    BY <1>8, <2>1, <2>2
<1>10. Listed' = live'
  BY <1>9 DEF CInv, ListOwned, Dels
<1>11. ListOwned'
  <2>1. site' = NULL
    BY DEF Dels
  <2>. QED
    BY <1>6, <1>8, <1>10, <2>1 DEF ListOwned, Distinct
<1>. QED
  BY <1>1, <1>6, <1>9, <1>11

LEMMA DelsNodes ==
    ASSUME CInv, NEW s \in live, NEW t \in Tables, NEW x \in Sites, NEW k \in KeysOf(t),
           NEW i \in 1 .. Len(table[t][Bucket[k]]), Dels(s, t, k, i, x)
    PROVE  /\ ShrunkAt(table, table', t, Bucket[k], i)
           /\ \A u \in Tables, b \in Buckets : Nodes(u, b)' = Nodes(u, b) \ {x}
<1>1. PICK a, c : a = Bucket[k] /\ c = table[t][a]
  OBVIOUS
<1>2. a \in Buckets /\ c \in Seq(Sites)
  BY <1>1, KeysFacts, ChainType DEF CInv
<1>3. PICK d : d = RemoveAt(c, i)
  OBVIOUS
<1>4. Shrunk(c, d, i)
  BY <1>1, <1>2, <1>3, ShrunkIs
<1>5. table'[t][a] = d /\ \A u \in Tables, b \in Buckets : u # t \/ b # a => table'[u][b] = table[u][b]
  BY <1>1, <1>2, <1>3 DEF Dels, CInv, TypeOK
<1>6. ShrunkAt(table, table', t, a, i)
  BY <1>1, <1>4, <1>5 DEF ShrunkAt
<1>7. x = c[i] /\ i \in 1 .. Len(c)
  BY <1>1 DEF Dels, Chain
<1>8. Distinct(c)
  BY <1>1, <1>2, LinkedOnceFacts DEF Distinct, CInv
<1>9. Elements(d) = Elements(c) \ {x}
  BY <1>4, <1>7, <1>8, ShrunkDistinct
<1>10. x \in Nodes(t, a)
  BY <1>1, <1>7 DEF Nodes
<1>11. ASSUME NEW u \in Tables, NEW b \in Buckets PROVE Nodes(u, b)' = Nodes(u, b) \ {x}
  <2>1. CASE u = t /\ b = a
    <3>1. Nodes(u, b) = Elements(c)
      BY <1>1, <2>1 DEF Nodes, Elements
    <3>2. table'[u][b] = d
      BY <1>5, <2>1
    <3>3. Nodes(u, b)' = Elements(d)
      BY <3>2 DEF Nodes, Elements
    <3>. QED
      BY <1>9, <3>1, <3>3
  <2>2. CASE ~(u = t /\ b = a)
    <3>1. x \notin Nodes(u, b)
      BY <1>2, <1>10, <2>2, EnteredIs DEF CInv
    <3>2. Nodes(u, b)' = Nodes(u, b)
      BY <1>5, <2>2 DEF Nodes
    <3>. QED
      BY <3>1, <3>2
  <2>. QED
    BY <2>1, <2>2
<1>. QED
  BY <1>1, <1>6, <1>11

LEMMA DelsCInv ==
    ASSUME CInv, NEW s \in live, NEW t \in Tables, NEW x \in Sites, NEW k \in KeysOf(t),
           NEW i \in 1 .. Len(table[t][Bucket[k]]), Dels(s, t, k, i, x),
           x \in Entered(t, k), s \in Known(t, k)
    PROVE  CInv'
<1>1. TypeOK' /\ ListOwned'
  BY DelsType, DelsList DEF CInv
<1>2. \A y : TableOf(y)' = TableOf(y) /\ Key(y)' = Key(y)
  BY DEF Dels, TableOf, Key
<1>3. Keyed'
  BY DEF Dels, Keyed, CInv
<1>4. LinkedOnce'
  <2>1. Once(table')
    <3>1. PICK T, U, a : T = table /\ U = table' /\ a = Bucket[k]
      OBVIOUS
    <3>2. Once(T)
      BY <3>1, LinkedOnceIs DEF CInv
    <3>3. ShrunkAt(T, U, t, a, i)
      BY <3>1, DelsNodes
    <3>4. Once(U)
      BY <3>2, <3>3, OnceShrunk
    <3>. QED
      BY <3>1, <3>4
  <2>2. ASSUME NEW u \in Tables, NEW b \in Buckets, NEW y \in Nodes(u, b)'
        PROVE  NodeHome(u, b, y)'
    <3>1. y \in Nodes(u, b)
      BY DelsNodes
    <3>2. TableOf(y) = u /\ Bucket[Key(y)] = b
      BY <3>1, EnteredIs DEF CInv
    <3>. QED
      BY <1>2, <3>2 DEF NodeHome
  <2>3. AtHome'
    BY <2>2, AtHomeIs
  <2>. QED
    BY <2>1, <2>3, LinkedOnceIs
<1>5. TablesAgree'
  <2>1. ASSUME NEW u \in Tables, NEW m \in KeysOf(u)
        PROVE  /\ Cardinality(Entered(u, m)') = Cardinality(Known(u, m)')
               /\ Entered(u, m)' \subseteq live' => Entered(u, m)' = Known(u, m)'
    <3>1. Entered(u, m)' = Entered(u, m) \ {x}
      <4>1. Nodes(u, Bucket[m])' = Nodes(u, Bucket[m]) \ {x}
        BY KeysFacts, DelsNodes
      <4>2. Entered(u, m)' = {y \in Nodes(u, Bucket[m])' : TableOf(y)' = u /\ Key(y)' = m}
        BY DEF Entered
      <4>. QED
        BY <1>2, <4>1, <4>2 DEF Entered
    <3>2. Known(u, m)' = Known(u, m) \ {s}
      <4>1. Listed' = Listed \ {s}
        BY DelsList
      <4>2. Known(u, m)' = {y \in Listed' : TableOf(y)' = u /\ Key(y)' = m}
        BY DEF Known
      <4>. QED
        BY <1>2, <4>1, <4>2 DEF Known
    <3>3. IsFiniteSet(Entered(u, m)) /\ IsFiniteSet(Known(u, m))
      BY CountsFinite DEF CInv
    <3>4. /\ Cardinality(Entered(u, m)) = Cardinality(Known(u, m))
          /\ Entered(u, m) \subseteq live => Entered(u, m) = Known(u, m)
      BY DEF CInv, TablesAgree
    <3>5. x \in live /\ live' = live \ {s}
      BY DEF Dels
    <3>6. CASE u = t /\ m = k
      <4>1. x \in Entered(u, m) /\ s \in Known(u, m)
        BY <3>6
      <4>2. Cardinality(Entered(u, m)') = Cardinality(Known(u, m)')
        <5>1. Cardinality(Entered(u, m) \ {x}) = Cardinality(Entered(u, m)) - 1
          BY <3>3, <4>1, FS_RemoveElement
        <5>2. Cardinality(Known(u, m) \ {s}) = Cardinality(Known(u, m)) - 1
          BY <3>3, <4>1, FS_RemoveElement
        <5>. QED
          BY <3>1, <3>2, <3>4, <5>1, <5>2
      <4>3. ASSUME Entered(u, m)' \subseteq live' PROVE Entered(u, m)' = Known(u, m)'
        <5>1. Entered(u, m) \subseteq live
          BY <3>1, <3>5, <4>3
        <5>2. s \in Entered(u, m)
          BY <3>4, <4>1, <5>1
        <5>3. s = x
          BY <3>1, <3>5, <4>3, <5>2
        <5>. QED
          BY <3>1, <3>2, <3>4, <5>1, <5>3
      <4>. QED
        BY <4>2, <4>3
    <3>7. CASE ~(u = t /\ m = k)
      <4>1. x \notin Entered(u, m) /\ s \notin Known(u, m)
        BY <3>7 DEF Entered, Known
      <4>2. Entered(u, m)' = Entered(u, m) /\ Known(u, m)' = Known(u, m)
        BY <3>1, <3>2, <4>1
      <4>. QED
        BY <3>4, <3>5, <4>2
    <3>. QED
      BY <3>6, <3>7
  <2>2. ASSUME NEW u \in Tables, NEW b \in Buckets
        PROVE  InOrder(table'[u][b], call_sites')
    <3>1. PICK p : Shrunk(call_sites, call_sites', p)
      BY DelsList
    <3>2. InOrder(table[u][b], call_sites)
      BY DEF CInv, TablesAgree
    <3>3. table[u][b] = table'[u][b] \/ Shrunk(table[u][b], table'[u][b], i)
      BY DelsNodes DEF ShrunkAt
    <3>. QED
      BY <3>1, <3>2, <3>3, InOrderShrunk
  <2>. QED
    BY <2>1, <2>2 DEF TablesAgree
<1>. QED
  BY <1>1, <1>3, <1>4, <1>5 DEF CInv

-----------------------------------------------------------------------------
(* The invariant *)

(* Neither the list nor the tables change. *)
LEMMA SameCInv ==
    ASSUME CInv, UNCHANGED <<call_sites, live, target, origin, table>>,
           site' \in {site, NULL}, TypeOK'
    PROVE  CInv'
<1>1. \A y : TableOf(y)' = TableOf(y) /\ Key(y)' = Key(y)
  BY DEF TableOf, Key
<1>2. Listed' = Listed /\ \A t, b : Nodes(t, b)' = Nodes(t, b)
  BY DEF Listed, Nodes
<1>3. ListOwned'
  BY <1>2 DEF CInv, ListOwned
<1>4. LinkedOnce'
  BY DEF CInv, LinkedOnce, TableOf, Key
<1>5. Keyed'
  BY DEF CInv, Keyed
<1>6. \A t, k : Entered(t, k)' = Entered(t, k) /\ Known(t, k)' = Known(t, k)
  BY <1>1, <1>2 DEF Entered, Known
<1>7. TablesAgree'
  BY <1>6 DEF CInv, TablesAgree
<1>. QED
  BY <1>3, <1>4, <1>5, <1>7 DEF CInv

(* A storage without sites. *)
LEMMA EmptyCInv ==
    /\ TypeOK /\ call_sites = <<>> /\ live = {} /\ site = NULL
       /\ table = [t \in Tables |-> [b \in Buckets |-> <<>>]] => CInv
    /\ TypeOK' /\ call_sites' = <<>> /\ live' = {} /\ site' = NULL
       /\ table' = [t \in Tables |-> [b \in Buckets |-> <<>>]] => CInv'
<1>1. ASSUME TypeOK, call_sites = <<>>, live = {}, site = NULL,
             table = [t \in Tables |-> [b \in Buckets |-> <<>>]]
      PROVE  CInv
  <2>1. Listed = {} /\ \A t \in Tables, b \in Buckets : Nodes(t, b) = {} /\ table[t][b] = <<>>
    BY <1>1 DEF Listed, Nodes
  <2>2. \A t \in Tables : \A k \in KeysOf(t) : Entered(t, k) = {} /\ Known(t, k) = {}
    BY <2>1, KeysFacts DEF Entered, Known
  <2>3. \A t \in Tables, b \in Buckets : InOrder(table[t][b], call_sites)
    BY <1>1 DEF InOrder
  <2>4. ListOwned /\ Keyed
    BY <1>1, <2>1 DEF ListOwned, Keyed
  <2>5. LinkedOnce
    BY <2>1 DEF LinkedOnce
  <2>. QED
    BY <1>1, <2>2, <2>3, <2>4, <2>5 DEF CInv, TablesAgree
<1>2. ASSUME TypeOK', call_sites' = <<>>, live' = {}, site' = NULL,
             table' = [t \in Tables |-> [b \in Buckets |-> <<>>]]
      PROVE  CInv'
  <2>1. Listed' = {}
    BY <1>2 DEF Listed
  <2>2. \A t \in Tables, b \in Buckets : Nodes(t, b)' = {} /\ table'[t][b] = <<>>
    BY <1>2 DEF Nodes
  <2>3. \A t \in Tables : \A k \in KeysOf(t) : Entered(t, k)' = {} /\ Known(t, k)' = {}
    BY <2>1, <2>2, KeysFacts DEF Entered, Known
  <2>4. \A t \in Tables, b \in Buckets : InOrder(table'[t][b], call_sites')
    BY <1>2 DEF InOrder
  <2>5. ListOwned' /\ Keyed'
    BY <1>2, <2>1 DEF ListOwned, Keyed
  <2>6. LinkedOnce'
    BY <2>2 DEF LinkedOnce
  <2>. QED
    BY <1>2, <2>3, <2>4, <2>5, <2>6 DEF CInv, TablesAgree
<1>. QED
  BY <1>1, <1>2

LEMMA InitCInv == Init => CInv
<1> SUFFICES ASSUME Init PROVE CInv
  OBVIOUS
<1>1. TypeOK
  BY DEF Init, TypeOK
<1>. QED
  BY <1>1, EmptyCInv DEF Init

LEMMA SiteAdds ==
    ASSUME NEW tgt \in Targets \cup {NULL}, NEW org \in Names \cup {NULL},
           HandleSite(tgt, org), storage_add(tgt, org) /\ UNCHANGED fault
    PROVE  \E n \in Sites, t \in Tables : \E k \in KeysOf(t) : Adds(n, t, k, tgt, org)
<1>1. PICK n \in Sites : n = New /\ n \notin live /\ n \notin Linked
  BY NewSite DEF HandleSite
<1>2. PICK t, k : /\ t = (IF tgt # NULL THEN "target" ELSE "origin")
                  /\ k = (IF tgt # NULL THEN tgt ELSE org)
  OBVIOUS
<1>3. t \in Tables /\ k \in KeysOf(t)
  BY <1>2 DEF HandleSite, Tables, KeysOf
<1>4. Adds(n, t, k, tgt, org)
  BY <1>1, <1>2 DEF HandleSite, storage_add, hash_add, Adds
<1>. QED
  BY <1>3, <1>4

LEMMA SiteStep ==
    ASSUME CInv, NEW tgt \in Targets \cup {NULL}, NEW org \in Names \cup {NULL},
           HandleSite(tgt, org)
    PROVE  CInv'
<1>1. CASE UseAfterFree
  <2>1. TypeOK'
    BY <1>1 DEF UseAfterFree, CInv, TypeOK, fields
  <2>. QED
    BY <1>1, <2>1, SameCInv DEF UseAfterFree, fields
<1>2. CASE storage_add(tgt, org) /\ UNCHANGED fault
  BY <1>2, SiteAdds, AddsCInv
<1>. QED
  BY <1>1, <1>2 DEF HandleSite

LEMMA NextCInv == CInv /\ [Next]_vars => CInv'
<1> SUFFICES ASSUME CInv, [Next]_vars PROVE CInv'
  OBVIOUS
<1>1. CASE UNCHANGED vars
  <2>1. TypeOK'
    BY <1>1 DEF vars, fields, CInv, TypeOK
  <2>. QED
    BY <1>1, <2>1, SameCInv DEF vars, fields
<1>2. ASSUME NEW tgt \in Targets \cup {NULL}, NEW org \in Names \cup {NULL}, HandleSite(tgt, org)
      PROVE  CInv'
  BY <1>2, SiteStep
<1>3. ASSUME NEW loc \in Exprs, NEW v \in Values, HandleParam(loc, v) PROVE CInv'
  <2>1. site \in Sites /\ params[site] \in Seq(Params)
    BY <1>3 DEF HandleParam, CInv, TypeOK
  <2>2. Append(params[site], [location |-> loc, value |-> v]) \in Seq(Params)
    BY <2>1 DEF Params
  <2>3. params' \in [Sites -> Seq(Params)]
    BY <1>3, <2>1, <2>2 DEF HandleParam, CInv, TypeOK
  <2>4. TypeOK'
    BY <1>3, <2>3 DEF HandleParam, CInv, TypeOK
  <2>. QED
    BY <1>3, <2>4, SameCInv DEF HandleParam
<1>4. CASE HandleEnd
  <2>1. TypeOK'
    BY <1>4 DEF HandleEnd, fields, CInv, TypeOK
  <2>. QED
    BY <1>4, <2>1, SameCInv DEF HandleEnd, fields
<1>5. CASE UseAfterFree
  <2>1. TypeOK'
    BY <1>5 DEF UseAfterFree, CInv, TypeOK, fields
  <2>. QED
    BY <1>5, <2>1, SameCInv DEF UseAfterFree, fields
<1>6. CASE fault = "none" /\ HandleFails
  BY <1>5, <1>6, FailsIs, DelsCInv
<1>7. CASE Fini
  <2>1. live' = {}
    BY <1>7 DEF Fini, CInv, ListOwned, Listed
  <2>2. TypeOK'
    BY <1>7, <2>1 DEF Fini, CInv, TypeOK
  <2>. QED
    BY <1>7, <2>1, <2>2, EmptyCInv DEF Fini
<1>. QED
  BY <1>1, <1>2, <1>3, <1>4, <1>5, <1>6, <1>7 DEF Next, LookUp


-----------------------------------------------------------------------------
(* What is checked of every state *)

(* What a look-up finds it has read. *)
LEMMA VisitedFound ==
    ASSUME TypeOK, NEW t \in Tables, NEW k \in KeysOf(t), hash_find(t, k) # 0
    PROVE  Chain(t, k)[hash_find(t, k)] \in Visited(t, k)
<1>1. PICK i : i = hash_find(t, k)
  OBVIOUS
<1>2. i \in 1 .. i /\ i # 0
  BY <1>1, FindFacts
<1>. QED
  BY <1>1, <1>2 DEF Visited

LEMMA LookUpInv == CInv => LookUpFinds
<1> SUFFICES ASSUME CInv, NEW tgt \in Targets, NEW name \in Names,
                    FindReads(tgt, name) \subseteq live
             PROVE  IF Known("target", tgt) # {}
                    THEN storage_find(tgt, name) \in Listed /\ target[storage_find(tgt, name)] = tgt
                    ELSE IF Known("origin", name) # {}
                    THEN /\ storage_find(tgt, name) \in Listed
                         /\ target[storage_find(tgt, name)] = NULL
                         /\ origin[storage_find(tgt, name)] = name
                    ELSE storage_find(tgt, name) = NULL
  BY DEF LookUpFinds
<1>1. TypeOK /\ LinkedOnce /\ TablesAgree /\ Listed = live
  BY DEF CInv, ListOwned
<1>2. "target" \in Tables /\ tgt \in KeysOf("target") /\ "origin" \in Tables /\ name \in KeysOf("origin")
  BY DEF Tables, KeysOf
<1>3. tgt # NULL /\ name # NULL
  BY <1>2, KeysFacts
<1>4. /\ hash_find("target", tgt) = 0 <=> Known("target", tgt) = {}
      /\ hash_find("origin", name) = 0 <=> Known("origin", name) = {}
  BY <1>1, <1>2, CountFacts, FindEntered
<1>5. PICK s : s = storage_find(tgt, name)
  OBVIOUS
<1>6. CASE Known("target", tgt) # {}
  <2>1. s = Chain("target", tgt)[hash_find("target", tgt)]
    BY <1>4, <1>5, <1>6 DEF storage_find
  <2>2. s \in Entered("target", tgt) /\ s \in Visited("target", tgt)
    BY <1>1, <1>2, <1>4, <1>6, <2>1, FindEntered, VisitedFound
  <2>3. s \in Listed
    BY <1>1, <2>2 DEF FindReads
  <2>4. target[s] = tgt
    BY <2>2 DEF Entered, TableOf, Key
  <2>. QED
    BY <1>5, <1>6, <2>3, <2>4
<1>7. CASE Known("target", tgt) = {} /\ Known("origin", name) # {}
  <2>1. s = Chain("origin", name)[hash_find("origin", name)]
    BY <1>4, <1>5, <1>7 DEF storage_find
  <2>2. s \in Entered("origin", name) /\ s \in Visited("origin", name)
    BY <1>1, <1>2, <1>4, <1>7, <2>1, FindEntered, VisitedFound
  <2>3. s \in Listed
    BY <1>1, <1>4, <1>7, <2>2 DEF FindReads
  <2>4. target[s] = NULL /\ origin[s] = name
    BY <2>2 DEF Entered, TableOf, Key
  <2>. QED
    BY <1>5, <1>7, <2>3, <2>4
<1>8. CASE Known("target", tgt) = {} /\ Known("origin", name) = {}
  BY <1>4, <1>8 DEF storage_find
<1>. QED
  BY <1>6, <1>7, <1>8

(* On expressions of one operation the comparison is equality. *)
LEMMA OneEqual ==
    ASSUME NEW l \in Exprs, NEW e \in Exprs, Len(e) = 1
    PROVE  expr_equal(l, e) <=> l = e
<1>1. PICK S, T : l \in Seq(S) /\ e \in Seq(T)
  BY ExprsAssumption
<1>2. ASSUME expr_equal(l, e) PROVE l = e
  <2>1. Len(l) = 1 /\ l[1] = e[1]
    BY <1>2 DEF expr_equal
  <2>2. l = <<l[1]>> /\ e = <<e[1]>>
    BY <1>1, <2>1
  <2>. QED
    BY <2>1, <2>2
<1>3. ASSUME l = e PROVE expr_equal(l, e)
  BY <1>3 DEF expr_equal
<1>. QED
  BY <1>2, <1>3

(* SelectInSeq: the first position of those that satisfy the test, or 0. *)
LEMMA ParamAt ==
    ASSUME TypeOK, NEW s \in Sites, NEW e
    PROVE  LET c == params[s]
               i == call_site_find(s, e)
           IN  /\ i = 0 => \A j \in 1 .. Len(c) : ~expr_equal(c[j].location, e)
               /\ i # 0 => /\ i \in 1 .. Len(c) /\ expr_equal(c[i].location, e)
                           /\ \A j \in 1 .. Len(c) : expr_equal(c[j].location, e) => i <= j
<1> DEFINE c == params[s]
           I == {j \in 1 .. Len(c) : expr_equal(c[j].location, e)}
<1>1. call_site_find(s, e) = IF I # {} THEN Min(I) ELSE 0
  BY DEF call_site_find, SelectInSeq
<1>2. Len(c) \in Nat
  BY DEF TypeOK
<1>3. I \in SUBSET Nat
  BY <1>2
<1>4. CASE I # {}
  <2>1. Min(I) \in I /\ \A j \in I : Min(I) <= j
    <3> HIDE DEF I
    <3>. QED
      BY <1>3, <1>4, MinFacts
  <2>2. call_site_find(s, e) \in I /\ \A j \in I : call_site_find(s, e) <= j
    BY <1>1, <1>4, <2>1
  <2> HIDE DEF c
  <2>. QED
    BY <1>2, <2>2 DEF c
<1>5. CASE I = {}
  BY <1>1, <1>5
<1>. QED
  BY <1>4, <1>5

LEMMA ParamInv == CInv => ParamFound
<1> SUFFICES ASSUME CInv, NEW s \in live, NEW e \in Exprs \ {<<>>}
             PROVE  LET found == call_site_find(s, e)
                        loc(i) == params[s][i].location
                        asked == {i \in 1 .. Len(params[s]) : loc(i) = e}
                    IN  /\ found = 0 => asked = {}
                        /\ found # 0 =>
                              /\ found \in 1 .. Len(params[s]) /\ \A i \in asked : found <= i
                              /\ found \in asked \/ (Len(e) > 1 /\ Len(loc(found)) = Len(e))
  BY DEF ParamFound
<1> DEFINE asked == {i \in 1 .. Len(params[s]) : params[s][i].location = e}
<1>1. TypeOK /\ s \in Sites
  BY DEF CInv, TypeOK
<1>2. PICK found : found = call_site_find(s, e)
  OBVIOUS
<1>3. Len(e) \in Nat \ {0}
  <2>1. PICK S : e \in Seq(S)
    BY ExprsAssumption
  <2>. QED
    BY <2>1
<1>4. \A i \in asked : expr_equal(params[s][i].location, e)
  BY <1>3 DEF expr_equal
<1>5. found = 0 => asked = {}
  BY <1>1, <1>2, <1>4, ParamAt
<1>6. found # 0 => /\ found \in 1 .. Len(params[s]) /\ expr_equal(params[s][found].location, e)
                   /\ \A i \in asked : found <= i
  BY <1>1, <1>2, <1>4, ParamAt
<1>7. ASSUME found # 0 PROVE found \in asked \/ (Len(e) > 1 /\ Len(params[s][found].location) = Len(e))
  <2>1. Len(params[s][found].location) = Len(e)
    BY <1>6, <1>7 DEF expr_equal
  <2>2. CASE Len(e) = 1
    <3>1. params[s][found].location \in Exprs
      <4>1. PICK c \in Seq(Params) : c = params[s]
        BY <1>1 DEF TypeOK
      <4>2. c[found] \in Params
        BY <1>6, <1>7, <4>1
      <4>. QED
        BY <4>1, <4>2 DEF Params
    <3>. QED
      BY <1>6, <1>7, <2>2, <3>1, OneEqual
  <2>3. PICK n \in Nat \ {0} : n = Len(e)
    BY <1>3
  <2>4. n = 1 \/ n > 1
    OBVIOUS
  <2> HIDE DEF asked
  <2>. QED
    BY <2>1, <2>2, <2>3, <2>4
<1>. QED
  BY <1>2, <1>5, <1>6, <1>7

-----------------------------------------------------------------------------
(* What is checked of every step *)

(* Where the node comes from that is linked and not allocated. *)
StaleStep ==
    ~((Linked \ live)' \subseteq Linked \ live) =>
        \E s \in Listed \ {site} : TableOf(s) = TableOf(site) /\ Key(s) = Key(site)

LEMMA LinkedIs ==
    /\ \A s : s \in Linked <=> \E t \in Tables, b \in Buckets : s \in Nodes(t, b)
    /\ \A s : s \in Linked' <=> \E t \in Tables, b \in Buckets : s \in Nodes(t, b)'
BY DEF Linked

(* If no other site of the list has the key, the node taken out is the *)
(* site's own.                                                         *)
LEMMA DelsStale ==
    ASSUME CInv, NEW s \in live, NEW t \in Tables, NEW x \in Sites, NEW k \in KeysOf(t),
           NEW i \in 1 .. Len(table[t][Bucket[k]]), Dels(s, t, k, i, x),
           x \in Entered(t, k), s \in Known(t, k)
    PROVE  StaleStep
<1> SUFFICES ASSUME \A y \in Listed \ {site} : ~(TableOf(y) = TableOf(site) /\ Key(y) = Key(site))
             PROVE  (Linked \ live)' \subseteq Linked \ live
  BY DEF StaleStep
<1>1. s = site /\ t = TableOf(site) /\ k = Key(site) /\ x \in live /\ live' = live \ {s}
  BY DEF Dels
<1>2. x \in Listed /\ TableOf(x) = t /\ Key(x) = k
  BY <1>1 DEF CInv, ListOwned, Entered
<1>3. x = s
  BY <1>1, <1>2
<1>4. \A u \in Tables, b \in Buckets : Nodes(u, b)' = Nodes(u, b) \ {x}
  BY DelsNodes
<1>5. Linked' \subseteq Linked \ {x}
  BY <1>4, LinkedIs
<1>. QED
  BY <1>1, <1>3, <1>5

LEMMA AddsStale ==
    ASSUME TypeOK, NEW n \in Sites, NEW t \in Tables, NEW k \in KeysOf(t),
           NEW tgt \in Targets \cup {NULL}, NEW org \in Names \cup {NULL},
           Adds(n, t, k, tgt, org)
    PROVE  StaleStep
<1>1. \A u \in Tables, b \in Buckets : Nodes(u, b)' \subseteq Nodes(u, b) \cup {n}
  BY AddsNodes
<1>2. Linked' \subseteq Linked \cup {n}
  BY <1>1, LinkedIs
<1>3. live' = live \cup {n}
  BY DEF Adds
<1>. QED
  BY <1>2, <1>3 DEF StaleStep

LEMMA SameStale == ASSUME UNCHANGED <<table, live>> PROVE StaleStep
<1>1. \A u, b : Nodes(u, b)' = Nodes(u, b)
  BY DEF Nodes
<1>2. Linked' = Linked
  BY <1>1, LinkedIs
<1>. QED
  BY <1>2 DEF StaleStep

LEMMA NextStale == CInv /\ [Next]_vars => [StaleStep]_vars
<1> SUFFICES ASSUME CInv, Next PROVE StaleStep
  OBVIOUS
<1>1. ASSUME NEW tgt \in Targets \cup {NULL}, NEW org \in Names \cup {NULL}, HandleSite(tgt, org)
      PROVE  StaleStep
  <2>1. CASE UseAfterFree
    BY <2>1, SameStale DEF UseAfterFree
  <2>2. CASE storage_add(tgt, org) /\ UNCHANGED fault
    <3>1. PICK n, t, k : Adds(n, t, k, tgt, org) /\ n \in Sites /\ t \in Tables /\ k \in KeysOf(t)
      BY <1>1, <2>2, SiteAdds
    <3>. QED
      BY <3>1, AddsStale DEF CInv
  <2>. QED
    BY <1>1, <2>1, <2>2 DEF HandleSite
<1>2. ASSUME NEW loc \in Exprs, NEW v \in Values, HandleParam(loc, v) PROVE StaleStep
  BY <1>2, SameStale DEF HandleParam
<1>3. CASE HandleEnd
  BY <1>3, SameStale DEF HandleEnd
<1>4. CASE UseAfterFree
  BY <1>4, SameStale DEF UseAfterFree
<1>5. CASE fault = "none" /\ HandleFails
  BY <1>4, <1>5, FailsIs, DelsStale
<1>6. CASE Fini
  <2>1. \A u \in Tables, b \in Buckets : Nodes(u, b)' = {}
    BY <1>6 DEF Fini, Nodes
  <2>2. Linked' = {}
    BY <2>1, LinkedIs
  <2>. QED
    BY <2>2 DEF StaleStep
<1>. QED
  BY <1>1, <1>2, <1>3, <1>4, <1>5, <1>6 DEF Next, LookUp

-----------------------------------------------------------------------------
(* The results *)

LEMMA CInvHolds == Spec => []CInv
<1>. QED
  BY InitCInv, NextCInv, PTL DEF Spec

(* The fields of the storage, of its sites and of its tables have the *)
(* values pst_call_site_storage_handle_dwarf gives them.              *)
THEOREM TypeCorrect == Spec => []TypeOK
<1>1. CInv => TypeOK
  BY DEF CInv
<1>. QED
  BY <1>1, CInvHolds, PTL

(* However sites are added, given up and freed, the list of the storage has *)
(* each allocated site once, and the site being handled at its end.         *)
THEOREM ListCorrect == Spec => []ListOwned
<1>1. CInv => ListOwned
  BY DEF CInv
<1>. QED
  BY <1>1, CInvHolds, PTL

(* hash_add never links a node a second time, in whatever order the sites   *)
(* with equal keys come and go, and links it in the chain that hash_find    *)
(* searches for the site's key.                                             *)
THEOREM LinkedCorrect == Spec => []LinkedOnce
<1>1. CInv => LinkedOnce
  BY DEF CInv
<1>. QED
  BY <1>1, CInvHolds, PTL

(* The list and the two tables of the storage agree on the number of sites  *)
(* with each key, on the sites while no node is stale, and on their order,  *)
(* although pst_call_site_storage_del takes out the first node with the     *)
(* site's key.                                                              *)
THEOREM TablesCorrect == Spec => []TablesAgree
<1>1. CInv => TablesAgree
  BY DEF CInv
<1>. QED
  BY <1>1, CInvHolds, PTL

(* A pst_call_site_storage_find that reads no freed site returns a site of  *)
(* the list with the callee's address, or failing that its name, if and     *)
(* only if there is one.                                                    *)
THEOREM LookUpCorrect == Spec => []LookUpFinds
BY LookUpInv, CInvHolds, PTL

(* pst_call_site_find never misses a parameter with the location asked for  *)
(* and finds no other for a location of one operation, where                *)
(* pst_dwarf_expr_equal is equality; for a longer one it may stop at an     *)
(* earlier parameter whose location is as long.                             *)
THEOREM ParamFoundCorrect == Spec => []ParamFound
BY ParamInv, CInvHolds, PTL

(* A step leaves a stale node only if it gives up a site whose key another  *)
(* site of the list has.                                                    *)
THEOREM StaleCorrect == Spec => StaleCause
<1>1. CInv /\ [Next]_vars =>
         [~((Linked \ live)' \subseteq Linked \ live) =>
             \E s \in Listed \ {site} : TableOf(s) = TableOf(site) /\ Key(s) = Key(site)]_vars
  BY NextStale DEF StaleStep
<1>. QED
  BY <1>1, CInvHolds, PTL DEF Spec, StaleCause
=============================================================================
