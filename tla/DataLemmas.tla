------------------------------ MODULE DataLemmas ------------------------------
(***************************************************************************)
(* Facts about sequences and powers of two that the proofs about several   *)
(* components rest on.                                                     *)
(***************************************************************************)
EXTENDS Integers, Sequences, SequencesExt, FiniteSetTheorems, WellFoundedInduction, TLAPS

(* The elements of a sequence. *)
LEMMA SeqFacts ==
    ASSUME NEW S, NEW s \in Seq(S)
    PROVE  Len(s) \in Nat /\ \A i \in 1 .. Len(s) : s[i] \in S
OBVIOUS

LEMMA SeqSubset ==
    ASSUME NEW S, NEW T, S \subseteq T
    PROVE  Seq(S) \subseteq Seq(T)
OBVIOUS

LEMMA ConcatType ==
    ASSUME NEW S, NEW s \in Seq(S), NEW t \in Seq(S)
    PROVE  s \o t \in Seq(S) /\ Len(s \o t) = Len(s) + Len(t)
OBVIOUS

LEMMA RemoveAtFacts ==
    ASSUME NEW S, NEW s \in Seq(S), NEW k \in 1 .. Len(s)
    PROVE  /\ RemoveAt(s, k) \in Seq(S) /\ Len(RemoveAt(s, k)) = Len(s) - 1
           /\ \A i \in 1 .. Len(s) - 1 : RemoveAt(s, k)[i] = s[IF i < k THEN i ELSE i + 1]
<1> DEFINE a == SubSeq(s, 1, k - 1)
           b == SubSeq(s, k + 1, Len(s))
<1>1. a \in Seq(S) /\ Len(a) = k - 1 /\ \A i \in 1 .. k - 1 : a[i] = s[i]
  OBVIOUS
<1>2. b \in Seq(S) /\ Len(b) = Len(s) - k /\ \A i \in 1 .. Len(s) - k : b[i] = s[k + i]
  OBVIOUS
<1>3. RemoveAt(s, k) = a \o b
  BY DEF RemoveAt
<1> HIDE DEF a, b
<1>4. (a \o b) \in Seq(S) /\ Len(a \o b) = Len(s) - 1
  <2>1. (a \o b) \in Seq(S) /\ Len(a \o b) = Len(a) + Len(b)
    BY <1>1, <1>2, ConcatType
  <2>. QED
    BY <1>1, <1>2, <2>1
<1>5. ASSUME NEW i \in 1 .. Len(s) - 1 PROVE (a \o b)[i] = s[IF i < k THEN i ELSE i + 1]
  <2>1. CASE i < k
    BY <1>1, <1>2, <2>1
  <2>2. CASE ~(i < k)
    <3>1. (a \o b)[i] = b[i - (k - 1)]
      BY <1>1, <1>2, <2>2
    <3>2. i - (k - 1) \in 1 .. Len(s) - k /\ k + (i - (k - 1)) = i + 1
      BY <2>2
    <3>. QED
      BY <1>2, <2>2, <3>1, <3>2
  <2>. QED
    BY <2>1, <2>2
<1>. QED
  BY <1>3, <1>4, <1>5

(* What is left of a sequence without its first n elements. *)
LEMMA RestFacts ==
    ASSUME NEW S, NEW s \in Seq(S), NEW n \in Nat, n <= Len(s)
    PROVE  /\ SubSeq(s, n + 1, Len(s)) \in Seq(S)
           /\ Len(SubSeq(s, n + 1, Len(s))) = Len(s) - n
           /\ \A i \in 1 .. Len(s) - n : SubSeq(s, n + 1, Len(s))[i] = s[i + n]
<1>1. CASE n = Len(s)
  BY <1>1
<1>2. CASE n # Len(s)
  BY <1>2
<1>. QED
  BY <1>1, <1>2

LEMMA TailFacts ==
    ASSUME NEW S, NEW s \in Seq(S), Len(s) >= 1
    PROVE  Tail(s) = [i \in 1 .. Len(s) - 1 |-> s[i + 1]]
<1>1. PICK t : t = Tail(s)
  OBVIOUS
<1>2. t \in Seq(S) /\ Len(t) = Len(s) - 1 /\ \A i \in 1 .. Len(s) - 1 : t[i] = s[i + 1]
  BY <1>1
<1>3. t = [i \in 1 .. Len(t) |-> t[i]]
  BY <1>2
<1>. QED
  BY <1>1, <1>2, <1>3

LEMMA RangeFacts ==
    ASSUME NEW S, NEW s \in Seq(S)
    PROVE  Range(s) = {s[i] : i \in 1 .. Len(s)} /\ Range(s) \subseteq S
BY DEF Range

LEMMA AppendFacts ==
    ASSUME NEW S, NEW s \in Seq(S), NEW x \in S
    PROVE  /\ Append(s, x) \in Seq(S) /\ Len(Append(s, x)) = Len(s) + 1
           /\ \A i \in 1 .. Len(s) : Append(s, x)[i] = s[i]
           /\ Append(s, x)[Len(s) + 1] = x
OBVIOUS

(* Every set of positions that is not empty has a first. *)
LEMMA MinFacts ==
    ASSUME NEW T \in SUBSET Nat, T # {}
    PROVE  Min(T) \in T /\ \A y \in T : Min(T) <= y
<1>1. PICK x \in T : \A y \in T : ~(<<y, x>> \in OpToRel(<, Nat))
  BY NatLessThanWellFounded, WFMin
<1>2. ASSUME NEW y \in T PROVE x <= y
  <2>1. x \in Nat /\ y \in Nat /\ <<y, x>> \notin OpToRel(<, Nat)
    BY <1>1
  <2>2. y < x => <<y, x>> \in OpToRel(<, Nat)
    BY <2>1 DEF OpToRel
  <2>3. ~(y < x)
    BY <2>1, <2>2, Zenon
  <2>4. x \in Nat /\ y \in Nat
    BY <2>1, Zenon
  <2>. QED
    BY <2>3, <2>4
<1>. QED
  BY <1>2 DEF Min


LEMMA InsertAtFacts ==
    ASSUME NEW S, NEW s \in Seq(S), NEW e \in S, NEW k \in 1 .. Len(s) + 1
    PROVE  /\ InsertAt(s, k, e) \in Seq(S) /\ Len(InsertAt(s, k, e)) = Len(s) + 1
           /\ InsertAt(s, k, e)[k] = e
           /\ \A i \in 1 .. Len(s) : InsertAt(s, k, e)[IF i < k THEN i ELSE i + 1] = s[i]
<1> DEFINE a == SubSeq(s, 1, k - 1)
           b == SubSeq(s, k, Len(s))
<1>1. a \in Seq(S) /\ Len(a) = k - 1 /\ \A i \in 1 .. k - 1 : a[i] = s[i]
  OBVIOUS
<1>2. b \in Seq(S) /\ Len(b) = (Len(s) - k) + 1
      /\ \A i \in 1 .. (Len(s) - k) + 1 : b[i] = s[(k + i) - 1]
  OBVIOUS
<1>3. InsertAt(s, k, e) = (a \o <<e>>) \o b
  BY DEF InsertAt
<1> HIDE DEF a, b
<1>4. PICK c \in Seq(S) : c = a \o <<e>>
  <2>1. <<e>> \in Seq(S)
    OBVIOUS
  <2>. QED
    BY <1>1, <2>1, ConcatType
<1>5. Len(c) = k /\ c[k] = e /\ \A i \in 1 .. k - 1 : c[i] = a[i]
  BY <1>1, <1>4
<1>6. (c \o b) \in Seq(S) /\ Len(c \o b) = Len(s) + 1
  <2>1. (c \o b) \in Seq(S) /\ Len(c \o b) = Len(c) + Len(b)
    BY <1>2, ConcatType
  <2>. QED
    BY <1>2, <1>5, <2>1
<1>7. \A i \in 1 .. k : (c \o b)[i] = c[i]
  BY <1>2, <1>5
<1>8. ASSUME NEW i \in 1 .. Len(s) PROVE (c \o b)[IF i < k THEN i ELSE i + 1] = s[i]
  <2>1. CASE i < k
    <3>1. i \in 1 .. k /\ i \in 1 .. k - 1
      BY <2>1
    <3>. QED
      BY <1>1, <1>5, <1>7, <2>1, <3>1
  <2>2. CASE ~(i < k)
    <3>1. (c \o b)[i + 1] = b[(i + 1) - k]
      BY <1>2, <1>5, <2>2
    <3>2. (i + 1) - k \in 1 .. (Len(s) - k) + 1 /\ (k + ((i + 1) - k)) - 1 = i
      BY <2>2
    <3>. QED
      BY <1>2, <2>2, <3>1, <3>2
  <2>. QED
    BY <2>1, <2>2
<1>. QED
  BY <1>3, <1>4, <1>5, <1>6, <1>7, <1>8
-----------------------------------------------------------------------------
(* Powers of two *)

(* A power of two is the number of subsets of a set. *)
LEMMA PowerIs ==
    ASSUME NEW S, IsFiniteSet(S)
    PROVE  2 ^ Cardinality(S) \in Nat \ {0} /\ Cardinality(SUBSET S) = 2 ^ Cardinality(S)
<1>1. IsFiniteSet(SUBSET S) /\ Cardinality(SUBSET S) = 2 ^ Cardinality(S)
  BY FS_SUBSET
<1>2. SUBSET S # {}
  OBVIOUS
<1>. QED
  BY <1>1, <1>2, FS_EmptySet, FS_CardinalityType

LEMMA PowerFacts ==
    ASSUME NEW n \in Nat
    PROVE  2 ^ n \in Nat \ {0}
<1>1. IsFiniteSet(1 .. n) /\ Cardinality(1 .. n) = n
  BY FS_Interval
<1>. QED
  BY <1>1, PowerIs

LEMMA PowerSum ==
    ASSUME NEW a \in Nat, NEW b \in Nat
    PROVE  2 ^ (a + b) = 2 ^ a * 2 ^ b
<1>1. PICK S, T, U : S = 1 .. a /\ T = a + 1 .. a + b /\ U = 1 .. a + b
  OBVIOUS
<1>2. /\ IsFiniteSet(S) /\ Cardinality(S) = a
      /\ IsFiniteSet(T) /\ Cardinality(T) = b
      /\ IsFiniteSet(U) /\ Cardinality(U) = a + b
  <2>1. IsFiniteSet(1 .. a) /\ Cardinality(1 .. a) = a
    BY FS_Interval
  <2>2. IsFiniteSet(a + 1 .. a + b) /\ Cardinality(a + 1 .. a + b) = b
    <3>1. a + 1 \in Int /\ a + b \in Int
      OBVIOUS
    <3>2. /\ IsFiniteSet(a + 1 .. a + b)
          /\ Cardinality(a + 1 .. a + b) = IF a + 1 > a + b THEN 0 ELSE (a + b) - (a + 1) + 1
      BY <3>1, FS_Interval
    <3>. QED
      BY <3>2
  <2>3. IsFiniteSet(1 .. a + b) /\ Cardinality(1 .. a + b) = a + b
    <3>1. a + b \in Int
      OBVIOUS
    <3>2. /\ IsFiniteSet(1 .. a + b)
          /\ Cardinality(1 .. a + b) = IF 1 > a + b THEN 0 ELSE (a + b) - 1 + 1
      BY <3>1, FS_Interval
    <3>. QED
      BY <3>2
  <2>. QED
    BY <1>1, <2>1, <2>2, <2>3
<1>3. U = S \cup T /\ S \cap T = {}
  BY <1>1
<1>4. /\ Cardinality(SUBSET S) = 2 ^ a /\ Cardinality(SUBSET T) = 2 ^ b
      /\ Cardinality(SUBSET U) = 2 ^ (a + b)
      /\ IsFiniteSet(SUBSET S) /\ IsFiniteSet(SUBSET T)
  BY <1>2, FS_SUBSET
<1> DEFINE P == (SUBSET S) \X (SUBSET T)
           f == [p \in P |-> p[1] \cup p[2]]
<1>5. f \in Bijection(P, SUBSET U)
  <2>1. \A p \in P : p = <<p[1], p[2]>> /\ p[1] \subseteq S /\ p[2] \subseteq T
    OBVIOUS
  <2>2. f \in [P -> SUBSET U]
    BY <1>3, <2>1
  <2>3. ASSUME NEW p \in P, NEW q \in P, f[p] = f[q] PROVE p = q
    <3>1. p[1] \cup p[2] = q[1] \cup q[2]
      BY <2>3
    <3>2. p[1] = q[1] /\ p[2] = q[2]
      BY <1>3, <2>1, <3>1
    <3>. QED
      BY <2>1, <3>2
  <2>4. ASSUME NEW V \in SUBSET U PROVE \E p \in P : f[p] = V
    <3>1. <<V \cap S, V \cap T>> \in P
      OBVIOUS
    <3>2. f[<<V \cap S, V \cap T>>] = V
      BY <1>3, <3>1
    <3>. QED
      BY <3>1, <3>2
  <2> HIDE DEF P, f
  <2>. QED
    BY <2>2, <2>3, <2>4 DEF Bijection, Injection, Surjection, IsInjective
<1>6. IsFiniteSet(P) /\ Cardinality(P) = 2 ^ a * 2 ^ b
  BY <1>4, FS_Product
<1> HIDE DEF P, f
<1>. QED
  BY <1>4, <1>5, <1>6, FS_Bijection DEF ExistsBijection

LEMMA PowerOrder ==
    ASSUME NEW a \in Nat, NEW b \in Nat, a <= b
    PROVE  2 ^ a <= 2 ^ b
<1>1. PICK k \in Nat : b = a + k
  <2>1. b - a \in Nat /\ b = a + (b - a)
    OBVIOUS
  <2>. QED
    BY <2>1
<1>2. PICK x \in Nat \ {0}, y \in Nat \ {0} : x = 2 ^ a /\ y = 2 ^ k
  BY PowerFacts
<1>3. 2 ^ b = x * y
  BY <1>1, <1>2, PowerSum
<1>4. x <= x * y
  BY <1>2
<1>. QED
  BY <1>2, <1>3, <1>4
=============================================================================
