---------------------------- MODULE Printer_proofs ----------------------------
(***************************************************************************)
(* Proofs about Printer.tla.                                               *)
(*                                                                         *)
(* BufferCorrect: the buffer holds as much as fits of what was printed.    *)
(* TInv adds the types and the offset, which is the length of all that was *)
(* printed, cut off or not.                                                *)
(*                                                                         *)
(* TextCorrect: what was printed is what was asked for.  XInv says how far *)
(* a trace has come: the text of the functions before fn, and of function  *)
(* fn the half that its first parameters give (Half), since the head, the  *)
(* commas and the braces depend on first and start_variable.  YInv adds    *)
(* the stack of calls that describe an expression: the innermost has       *)
(* printed its part (PartOf), the others wait at a value at entry.         *)
(*                                                                         *)
(* FlattenSeq, PutAll and ExprText are recursive functions: StepsExist and *)
(* RightExists give functions with their equations, and FlattenIs,         *)
(* PutAllSteps and ExprTextIs show that they are those functions.          *)
(***************************************************************************)
EXTENDS Printer, DataLemmas, TLAPS

(* The words that are printed. *)
Words ==
    Names \cup {"?", "*", "&", "&&", "[]", ",", "<undefined>", "<invalid>", "(*", ")(", ") =", "=", "at",
                "file", "pc", "register", "<undef>", "value", ")", "[n]", "()", "\n", "(", "{", "}",
                "line", ";"}
TextType == Seq(Words)
BufType == [text : TextType, offset : Nat, printed : TextType, fault : BOOLEAN]

-----------------------------------------------------------------------------
(* Functions that are given step by step *)

Steps(f, k, V, g, x) ==
    f \in [0 .. k -> V] /\ f[0] = x /\ \A i \in 1 .. k : f[i] = g[i][f[i - 1]]

LEMMA StepsExist ==
    ASSUME NEW n \in Nat, NEW V, NEW g \in [1 .. n -> [V -> V]], NEW x \in V
    PROVE  \E f : Steps(f, n, V, g, x)
<1> DEFINE Without == {k \in 0 .. n : ~ \E f : Steps(f, k, V, g, x)}
<1>1. CASE Without = {}
  <2>1. n \in 0 .. n
    OBVIOUS
  <2>. QED
    BY <1>1, <2>1
<1>2. CASE Without # {}
  <2>1. PICK k \in Without : \A j \in Without : k <= j
    <3>1. Without \in SUBSET Nat
      OBVIOUS
    <3> HIDE DEF Without
    <3>. QED
      BY <1>2, <3>1, MinFacts
  <2>2. k \in 0 .. n /\ ~ \E f : Steps(f, k, V, g, x)
    OBVIOUS
  <2>3. k # 0
    <3>1. PICK f : f = [i \in 0 .. 0 |-> x]
      OBVIOUS
    <3>2. Steps(f, 0, V, g, x)
      BY <3>1 DEF Steps
    <3>. QED
      BY <2>2, <3>2
  <2>4. PICK j \in Nat : k = j + 1 /\ j \in 0 .. n /\ k \in 1 .. n /\ ~(k <= j)
    <3>1. k - 1 \in Nat /\ k = (k - 1) + 1 /\ k - 1 \in 0 .. n /\ k \in 1 .. n /\ ~(k <= k - 1)
      BY <2>2, <2>3
    <3>. QED
      BY <3>1
  <2>5. PICK f : Steps(f, j, V, g, x)
    BY <2>1, <2>4
  <2>6. g[k][f[j]] \in V
    <3>1. f[j] \in V
      BY <2>4, <2>5 DEF Steps
    <3>. QED
      BY <2>4, <3>1
  <2>7. PICK h : h = [i \in 0 .. k |-> IF i = k THEN g[k][f[j]] ELSE f[i]]
    OBVIOUS
  <2>8. h \in [0 .. k -> V] /\ \A i \in 0 .. j : h[i] = f[i]
    <3>1. \A i \in 0 .. k : i # k => i \in 0 .. j /\ f[i] \in V
      BY <2>4, <2>5 DEF Steps
    <3>2. \A i \in 0 .. j : i # k /\ i \in 0 .. k
      BY <2>4
    <3>. QED
      BY <2>6, <2>7, <3>1, <3>2
  <2>9. ASSUME NEW i \in 1 .. k PROVE h[i] = g[i][h[i - 1]]
    <3>1. i - 1 \in 0 .. j /\ h[i - 1] = f[i - 1]
      BY <2>4, <2>8
    <3>2. CASE i = k
      BY <2>4, <2>7, <3>1, <3>2
    <3>3. CASE i # k
      <4>1. i \in 1 .. j /\ i \in 0 .. j
        BY <2>4, <3>3
      <4>. QED
        BY <2>5, <2>8, <3>1, <4>1 DEF Steps
    <3>. QED
      BY <3>2, <3>3
  <2>10. Steps(h, k, V, g, x)
    <3>1. h[0] = x
      BY <2>4, <2>5, <2>8 DEF Steps
    <3>. QED
      BY <2>8, <2>9, <3>1 DEF Steps
  <2>. QED
    BY <2>2, <2>10
<1>. QED
  BY <1>1, <1>2

(* What is kept by every step. *)
LEMMA StepsKeep ==
    ASSUME NEW n \in Nat, NEW T \in SUBSET (0 .. n), 0 \in T,
           \A i \in 1 .. n : i - 1 \in T => i \in T
    PROVE  T = 0 .. n
<1> DEFINE Without == (0 .. n) \ T
<1> SUFFICES ASSUME Without # {} PROVE FALSE
  OBVIOUS
<1>1. PICK k \in Without : \A j \in Without : k <= j
  <2>1. Without \in SUBSET Nat
    OBVIOUS
  <2> HIDE DEF Without
  <2>. QED
    BY <2>1, MinFacts
<1>2. k \in 1 .. n /\ k - 1 \in 0 .. n /\ ~(k <= k - 1)
  OBVIOUS
<1>3. k - 1 \in T
  BY <1>1, <1>2
<1>. QED
  BY <1>2, <1>3

-----------------------------------------------------------------------------
(* FlattenSeq *)

(* f is the text of the first pieces. *)
Flat(S, s, f) ==
    /\ f \in [0 .. Len(s) -> Seq(S)] /\ f[0] = <<>>
    /\ \A i \in 1 .. Len(s) : f[i] = f[i - 1] \o s[i]

LEMMA EmptySeq ==
    ASSUME NEW S
    PROVE  <<>> \in Seq(S) /\ \A s \in Seq(S) : <<>> \o s = s /\ s \o <<>> = s
OBVIOUS

LEMMA NoElements ==
    ASSUME NEW S, NEW s \in Seq(S), Len(s) = 0
    PROVE  s = <<>>
OBVIOUS

LEMMA JoinType ==
    ASSUME NEW S
    PROVE  \A s, t \in Seq(S) : s \o t \in Seq(S) /\ Len(s \o t) = Len(s) + Len(t)
BY ConcatType

LEMMA FlatExists ==
    ASSUME NEW S, NEW s \in Seq(Seq(S))
    PROVE  \E f : Flat(S, s, f)
<1>1. PICK n \in Nat : n = Len(s) /\ \A i \in 1 .. n : s[i] \in Seq(S)
  OBVIOUS
<1> DEFINE g == [i \in 1 .. n |-> [t \in Seq(S) |-> t \o s[i]]]
<1>2. g \in [1 .. n -> [Seq(S) -> Seq(S)]]
  BY <1>1, JoinType
<1>3. PICK f : Steps(f, n, Seq(S), g, <<>>)
  <2> HIDE DEF g
  <2>. QED
    BY <1>2, EmptySeq, StepsExist
<1>4. f \in [0 .. n -> Seq(S)] /\ f[0] = <<>>
  BY <1>3 DEF Steps
<1>5. ASSUME NEW i \in 1 .. n PROVE f[i] = f[i - 1] \o s[i]
  <2>1. f[i - 1] \in Seq(S)
    BY <1>4
  <2>. QED
    BY <1>3, <2>1 DEF Steps
<1>. QED
  BY <1>1, <1>4, <1>5 DEF Flat

LEMMA FlattenIs ==
    ASSUME NEW S, NEW s \in Seq(Seq(S)), NEW f, Flat(S, s, f)
    PROVE  FlattenSeq(s) = f[Len(s)]
<1>1. PICK n \in Nat : n = Len(s) /\ \A i \in 1 .. n : s[i] \in Seq(S)
  OBVIOUS
<1>5. CASE n = 0
  <2>1. FlattenSeq(s) = s
    <3>1. Len(s) = 0
      BY <1>1, <1>5
    <3>. QED
      BY <3>1, Zenon DEF FlattenSeq
  <2>2. s = <<>>
    BY <1>1, <1>5, NoElements
  <2>. QED
    BY <1>1, <1>5, <2>1, <2>2 DEF Flat
<1>6. CASE n # 0
  <2> DEFINE rule(h) == [i \in 1 .. Len(s) |-> IF i = 1 THEN s[i] ELSE h[i - 1] \o s[i]]
  <2>1. FlattenSeq(s) = (CHOOSE h : h = rule(h))[Len(s)]
    BY <1>1, <1>6 DEF FlattenSeq
  <2>2. PICK e : e = [i \in 1 .. n |-> f[i]]
    OBVIOUS
  <2>3. e = rule(e)
    <3>1. ASSUME NEW i \in 1 .. n PROVE f[i] = IF i = 1 THEN s[i] ELSE e[i - 1] \o s[i]
      <4>1. f[i] = f[i - 1] \o s[i]
        BY <1>1 DEF Flat
      <4>2. CASE i = 1
        <5>1. f[i - 1] = <<>> /\ s[i] \in Seq(S)
          BY <1>1, <4>2 DEF Flat
        <5>. QED
          BY <4>1, <4>2, <5>1, EmptySeq
      <4>3. CASE i # 1
        <5>1. i - 1 \in 1 .. n
          BY <4>3
        <5>. QED
          BY <2>2, <4>1, <4>3, <5>1
      <4>. QED
        BY <4>2, <4>3
    <3>. QED
      BY <1>1, <2>2, <3>1
  <2>4. PICK h : h = rule(h) /\ FlattenSeq(s) = h[Len(s)]
    <3> HIDE DEF rule
    <3>. QED
      BY <2>1, <2>3
  <2>5. {i \in 0 .. n : i = 0 \/ h[i] = f[i]} = 0 .. n
    <3> DEFINE T == {i \in 0 .. n : i = 0 \/ h[i] = f[i]}
    <3>1. ASSUME NEW i \in 1 .. n, i - 1 \in T PROVE h[i] = f[i]
      <4>1. h[i] = IF i = 1 THEN s[i] ELSE h[i - 1] \o s[i]
        BY <1>1, <2>4
      <4>2. f[i] = f[i - 1] \o s[i]
        BY <1>1 DEF Flat
      <4>3. CASE i = 1
        <5>1. f[i - 1] = <<>> /\ s[i] \in Seq(S)
          BY <1>1, <4>3 DEF Flat
        <5>. QED
          BY <4>1, <4>2, <4>3, <5>1, EmptySeq
      <4>4. CASE i # 1
        <5>1. h[i - 1] = f[i - 1]
          BY <3>1, <4>4
        <5>. QED
          BY <4>1, <4>2, <4>4, <5>1
      <4>. QED
        BY <4>3, <4>4
    <3>2. \A i \in 1 .. n : i - 1 \in T => i \in T
      BY <3>1
    <3>3. 0 \in T /\ T \in SUBSET (0 .. n)
      BY <1>1
    <3>4. T = 0 .. n
      <4> HIDE DEF T
      <4>. QED
        BY <3>2, <3>3, StepsKeep
    <3>. QED
      BY <3>4
  <2>6. h[n] = f[n]
    <3>1. n \in 0 .. n
      OBVIOUS
    <3>. QED
      BY <1>6, <2>5, <3>1
  <2>. QED
    BY <1>1, <2>4, <2>6
<1>. QED
  BY <1>5, <1>6

-----------------------------------------------------------------------------
LEMMA FlattenType ==
    ASSUME NEW S, NEW s \in Seq(Seq(S))
    PROVE  FlattenSeq(s) \in Seq(S)
<1>1. PICK f : Flat(S, s, f)
  BY FlatExists
<1>2. FlattenSeq(s) = f[Len(s)] /\ Len(s) \in 0 .. Len(s)
  BY <1>1, FlattenIs
<1>. QED
  BY <1>1, <1>2 DEF Flat

LEMMA FlattenNone == FlattenSeq(<<>>) = <<>>
BY DEF FlattenSeq

(* The text of one piece more. *)
LEMMA FlattenMore ==
    ASSUME NEW S, NEW s \in Seq(Seq(S)), NEW t \in Seq(Seq(S)), Len(t) = Len(s) + 1,
           \A i \in 1 .. Len(s) : t[i] = s[i]
    PROVE  FlattenSeq(t) = FlattenSeq(s) \o t[Len(t)]
<1>1. PICK n \in Nat : n = Len(s) /\ n + 1 = Len(t) /\ n + 1 \in 1 .. n + 1
                     /\ (\A i \in 1 .. n : i \in 1 .. n + 1) /\ n \in 0 .. n + 1
  OBVIOUS
<1>2. PICK f : Flat(S, t, f)
  BY FlatExists
<1>3. PICK g : g = [i \in 0 .. n |-> f[i]]
  OBVIOUS
<1>4. f \in [0 .. n + 1 -> Seq(S)] /\ f[0] = <<>> /\ \A i \in 1 .. n + 1 : f[i] = f[i - 1] \o t[i]
  BY <1>1, <1>2 DEF Flat
<1>5. Flat(S, s, g)
  <2>1. g \in [0 .. n -> Seq(S)] /\ g[0] = <<>> /\ \A i \in 0 .. n : g[i] = f[i]
    BY <1>3, <1>4
  <2>2. ASSUME NEW i \in 1 .. n PROVE g[i] = g[i - 1] \o s[i]
    <3>1. i - 1 \in 0 .. n /\ i \in 0 .. n /\ i \in 1 .. n + 1 /\ t[i] = s[i]
      BY <1>1
    <3>. QED
      BY <1>4, <2>1, <3>1
  <2>. QED
    BY <1>1, <2>1, <2>2 DEF Flat
<1>6. FlattenSeq(t) = f[n + 1] /\ FlattenSeq(s) = g[n]
  BY <1>1, <1>2, <1>5, FlattenIs
<1>7. g[n] = f[n] /\ (n + 1) - 1 = n
  BY <1>3
<1>. QED
  BY <1>1, <1>4, <1>6, <1>7

LEMMA FlattenOne ==
    ASSUME NEW S, NEW x \in Seq(S)
    PROVE  FlattenSeq(<<x>>) = x
<1>1. <<x>> \in Seq(Seq(S)) /\ <<>> \in Seq(Seq(S)) /\ Len(<<x>>) = 1 /\ <<x>>[1] = x
  OBVIOUS
<1>2. PICK a, b : a = <<x>> /\ b = <<>>
  OBVIOUS
<1>3. a \in Seq(Seq(S)) /\ b \in Seq(Seq(S)) /\ Len(a) = Len(b) + 1 /\ a[Len(a)] = x
      /\ \A i \in 1 .. Len(b) : a[i] = b[i]
  BY <1>1, <1>2
<1>4. FlattenSeq(a) = FlattenSeq(b) \o a[Len(a)]
  BY <1>3, FlattenMore
<1>5. FlattenSeq(b) = <<>> /\ <<>> \o x = x
  BY <1>2, FlattenNone, EmptySeq
<1>. QED
  BY <1>2, <1>3, <1>4, <1>5

LEMMA JoinAgain ==
    ASSUME NEW S
    PROVE  \A a, b, c \in Seq(S) : (a \o b) \o c = a \o (b \o c)
<1> SUFFICES ASSUME NEW a \in Seq(S), NEW b \in Seq(S), NEW c \in Seq(S)
             PROVE  (a \o b) \o c = a \o (b \o c)
  OBVIOUS
<1>. QED
  OBVIOUS

Again(s, t, u) == (s \o t) \o u = s \o (t \o u)

LEMMA SeqAgain == ASSUME NEW S PROVE \A s, t, u \in Seq(S) : Again(s, t, u)
BY JoinAgain DEF Again

(* The text of pieces and then others. *)
LEMMA FlattenJoin ==
    ASSUME NEW S, NEW s \in Seq(Seq(S)), NEW t \in Seq(Seq(S))
    PROVE  FlattenSeq(s \o t) = FlattenSeq(s) \o FlattenSeq(t)
<1>1. PICK n \in Nat : n = Len(t)
  OBVIOUS
<1>2. PICK f : Flat(S, t, f)
  BY FlatExists
<1>3. f \in [0 .. n -> Seq(S)] /\ f[0] = <<>> /\ \A i \in 1 .. n : f[i] = f[i - 1] \o t[i]
  BY <1>1, <1>2 DEF Flat
<1>10. PICK e \in Seq(S) : e = FlattenSeq(s)
  BY FlattenType
<1> DEFINE U(k) == s \o SubSeq(t, 1, k)
           T == {k \in 0 .. n : FlattenSeq(U(k)) = e \o f[k]}
<1>5. 0 \in T
  <2>1. U(0) = s
    OBVIOUS
  <2>2. e \o <<>> = e
    BY EmptySeq
  <2>3. FlattenSeq(U(0)) = e \o f[0]
    BY <1>3, <1>10, <2>1, <2>2
  <2>4. 0 \in 0 .. n
    OBVIOUS
  <2>. QED
    BY <2>3, <2>4
<1>6. ASSUME NEW k \in 1 .. n, k - 1 \in T PROVE k \in T
  <2>1. SubSeq(t, 1, k) \in Seq(Seq(S)) /\ Len(SubSeq(t, 1, k)) = k
        /\ SubSeq(t, 1, k - 1) \in Seq(Seq(S)) /\ Len(SubSeq(t, 1, k - 1)) = k - 1
    BY <1>1
  <2>2. \A i \in 1 .. k - 1 : SubSeq(t, 1, k)[i] = SubSeq(t, 1, k - 1)[i]
    BY <1>1
  <2>3. SubSeq(t, 1, k)[k] = t[k] /\ t[k] \in Seq(S)
    BY <1>1
  <2>4. PICK u, v : u = SubSeq(t, 1, k - 1) /\ v = SubSeq(t, 1, k)
    OBVIOUS
  <2>5. /\ s \o u \in Seq(Seq(S)) /\ s \o v \in Seq(Seq(S)) /\ Len(s \o v) = Len(s \o u) + 1
        /\ (\A i \in 1 .. Len(s \o u) : (s \o v)[i] = (s \o u)[i])
        /\ (s \o v)[Len(s \o v)] = t[k]
    BY <2>1, <2>2, <2>3, <2>4
  <2>6. FlattenSeq(s \o v) = FlattenSeq(s \o u) \o t[k]
    <3>1. FlattenSeq(s \o v) = FlattenSeq(s \o u) \o (s \o v)[Len(s \o v)]
      BY <2>5, FlattenMore
    <3>. QED
      BY <2>5, <3>1
  <2>7. f[k - 1] \in Seq(S)
    BY <1>3
  <2>8. FlattenSeq(s \o u) = e \o f[k - 1]
    BY <1>6, <2>4
  <2>9. (e \o f[k - 1]) \o t[k] = e \o (f[k - 1] \o t[k])
    <3>1. PICK a, b \in Seq(S) : a = f[k - 1] /\ b = t[k]
      BY <2>3, <2>7
    <3>2. Again(e, a, b)
      BY SeqAgain
    <3>3. (e \o a) \o b = e \o (a \o b)
      BY <3>2 DEF Again
    <3>. QED
      BY <3>1, <3>3
  <2>10. f[k] = f[k - 1] \o t[k]
    BY <1>3
  <2>11. k \in 0 .. n
    OBVIOUS
  <2>. QED
    BY <2>4, <2>6, <2>8, <2>9, <2>10, <2>11
<1>7. n \in T
  <2>1. \A k \in 1 .. n : k - 1 \in T => k \in T
    BY <1>6
  <2>2. T \in SUBSET (0 .. n)
    OBVIOUS
  <2>3. T = 0 .. n
    <3> HIDE DEF T
    <3>. QED
      BY <1>5, <2>1, <2>2, StepsKeep
  <2>4. n \in 0 .. n
    OBVIOUS
  <2>. QED
    BY <2>3, <2>4
<1>8. SubSeq(t, 1, n) = t
  BY <1>1
<1>9. FlattenSeq(t) = f[n]
  BY <1>1, <1>2, FlattenIs
<1>. QED
  BY <1>7, <1>8, <1>9, <1>10

-----------------------------------------------------------------------------
(* The buffer *)

LEMMA UpToFacts ==
    ASSUME NEW S, NEW s \in Seq(S), NEW n \in Nat
    PROVE  /\ UpTo(s, n) \in Seq(S) /\ Len(UpTo(s, n)) = (IF Len(s) < n THEN Len(s) ELSE n)
           /\ \A i \in 1 .. Len(UpTo(s, n)) : UpTo(s, n)[i] = s[i]
           /\ Len(s) <= n => UpTo(s, n) = s
BY DEF UpTo

(* Two sequences with the same elements. *)
LEMMA SeqEqual ==
    ASSUME NEW S, NEW s \in Seq(S), NEW t \in Seq(S), Len(s) = Len(t),
           \A i \in 1 .. Len(s) : s[i] = t[i]
    PROVE  s = t
OBVIOUS

(* What is cut off stays cut off. *)
LEMMA UpToJoin ==
    ASSUME NEW S, NEW s \in Seq(S), NEW t \in Seq(S), NEW n \in Nat, NEW k \in Nat, Len(s) <= k
    PROVE  UpTo(UpTo(UpTo(s, n), k) \o t, n) = UpTo(s \o t, n)
<1>1. PICK u \in Seq(S) : u = UpTo(s, n)
  BY UpToFacts
<1>2. Len(u) = (IF Len(s) < n THEN Len(s) ELSE n) /\ \A i \in 1 .. Len(u) : u[i] = s[i]
  BY <1>1, UpToFacts
<1>3. UpTo(u, k) = u
  BY <1>2, UpToFacts
<1>4. PICK a, b \in Seq(S) : a = u \o t /\ b = s \o t
  BY ConcatType
<1>5. /\ Len(a) = Len(u) + Len(t) /\ Len(b) = Len(s) + Len(t)
      /\ \A i \in 1 .. Len(u) : a[i] = u[i]
      /\ \A i \in 1 .. Len(a) : i > Len(u) => a[i] = t[i - Len(u)]
      /\ \A i \in 1 .. Len(s) : b[i] = s[i]
      /\ \A i \in 1 .. Len(b) : i > Len(s) => b[i] = t[i - Len(s)]
  BY <1>4
<1>6. PICK x, y \in Seq(S) : x = UpTo(a, n) /\ y = UpTo(b, n)
  BY UpToFacts
<1>7. /\ Len(x) = (IF Len(a) < n THEN Len(a) ELSE n) /\ \A i \in 1 .. Len(x) : x[i] = a[i]
      /\ Len(y) = (IF Len(b) < n THEN Len(b) ELSE n) /\ \A i \in 1 .. Len(y) : y[i] = b[i]
  BY <1>6, UpToFacts
<1>8. Len(x) = Len(y)
  BY <1>2, <1>5, <1>7
<1>9. ASSUME NEW i \in 1 .. Len(x) PROVE x[i] = y[i]
  <2>1. x[i] = a[i] /\ y[i] = b[i] /\ i \in 1 .. Len(a) /\ i \in 1 .. Len(b) /\ i <= n
    BY <1>7, <1>8
  <2>2. CASE i <= Len(u)
    <3>1. i \in 1 .. Len(u) /\ i \in 1 .. Len(s)
      BY <1>2, <2>2
    <3>. QED
      BY <1>2, <1>5, <2>1, <3>1
  <2>3. CASE ~(i <= Len(u))
    <3>1. i > Len(u) /\ i > Len(s) /\ Len(u) = Len(s)
      BY <1>2, <2>1, <2>3
    <3>. QED
      BY <1>5, <2>1, <3>1
  <2>. QED
    BY <2>2, <2>3
<1>10. x = y
  BY <1>8, <1>9, SeqEqual
<1>. QED
  BY <1>1, <1>3, <1>4, <1>6, <1>10

(* The buffer holds what fits of what was printed since it was cleaned. *)
BufOK(b) ==
    /\ b.offset = Len(b.printed)
    /\ IF b.fault THEN Len(b.printed) > Size ELSE b.text = UpTo(b.printed, Size - 1)

LEMMA SizeType == Size \in Nat /\ Size - 1 \in Nat /\ Registers \in Nat
BY SizeAssumption

LEMMA CleanFacts ==
    ASSUME NEW b \in BufType, ~b.fault
    PROVE  Clean(b) \in BufType /\ BufOK(Clean(b)) /\ ~Clean(b).fault /\ Clean(b).printed = <<>>
<1>1. Clean(b) = [text |-> <<>>, offset |-> 0, printed |-> <<>>, fault |-> FALSE]
  BY DEF Clean, BufType
<1>2. <<>> \in TextType /\ Len(<<>>) = 0
  BY DEF TextType
<1>3. UpTo(<<>>, Size - 1) = <<>>
  <2>1. PICK e \in Seq(Words) : e = <<>> /\ Len(e) = 0
    BY <1>2 DEF TextType
  <2>2. Len(e) <= Size - 1
    BY <2>1, SizeType
  <2>3. UpTo(e, Size - 1) = e
    BY <2>2, SizeType, UpToFacts
  <2>. QED
    BY <2>1, <2>3
<1>. QED
  BY <1>1, <1>2, <1>3 DEF BufOK, BufType

LEMMA PutType ==
    ASSUME NEW b \in BufType, NEW s \in TextType
    PROVE  Put(b, s) \in BufType
<1>1. CASE b.offset > Size
  BY <1>1 DEF Put, BufType
<1>2. CASE ~(b.offset > Size)
  <2>1. PICK t \in TextType : t = UpTo(UpTo(b.text, b.offset) \o s, Size - 1)
    <3>1. b.text \in Seq(Words) /\ b.offset \in Nat
      BY DEF BufType, TextType
    <3>2. PICK u \in Seq(Words) : u = UpTo(b.text, b.offset)
      BY <3>1, UpToFacts
    <3>3. u \o s \in Seq(Words)
      BY ConcatType DEF TextType
    <3>. QED
      BY <3>2, <3>3, SizeType, UpToFacts DEF TextType
  <2>2. b.printed \o s \in TextType /\ Len(s) \in Nat
    BY ConcatType DEF BufType, TextType
  <2>3. Put(b, s) = [b EXCEPT !.text = t, !.offset = @ + Len(s), !.printed = @ \o s]
    BY <1>2, <2>1 DEF Put
  <2>4. b.offset + Len(s) \in Nat
    BY <2>2 DEF BufType
  <2>. QED
    BY <2>1, <2>2, <2>3, <2>4 DEF BufType
<1>. QED
  BY <1>1, <1>2

LEMMA PutFacts ==
    ASSUME NEW b \in BufType, NEW s \in TextType, BufOK(b)
    PROVE  /\ BufOK(Put(b, s)) /\ (b.fault => Put(b, s).fault)
           /\ Put(b, s).fault \/ Put(b, s).printed = b.printed \o s
<1>1. CASE b.offset > Size
  <2>1. PICK c : c = [b EXCEPT !.fault = TRUE]
    OBVIOUS
  <2>2. c.offset = b.offset /\ c.printed = b.printed /\ c.fault
    BY <2>1 DEF BufType
  <2>. QED
    BY <1>1, <2>1, <2>2 DEF Put, BufOK
<1>2. CASE ~(b.offset > Size)
  <2>1. ~b.fault /\ b.text = UpTo(b.printed, Size - 1) /\ b.offset = Len(b.printed)
    BY <1>2 DEF BufOK
  <2>2. PICK p, q \in Seq(Words) : p = b.printed /\ q = p \o s
    BY ConcatType DEF BufType, TextType
  <2>3. UpTo(UpTo(b.text, b.offset) \o s, Size - 1) = UpTo(q, Size - 1)
    <3>1. UpTo(UpTo(UpTo(p, Size - 1), Len(p)) \o s, Size - 1) = UpTo(p \o s, Size - 1)
      BY SizeType, UpToJoin DEF TextType
    <3>. QED
      BY <2>1, <2>2, <3>1
  <2>4. PICK c : c = [b EXCEPT !.text = UpTo(q, Size - 1), !.offset = Len(p) + Len(s), !.printed = q]
    OBVIOUS
  <2>5. Put(b, s) = c
    BY <1>2, <2>1, <2>2, <2>3, <2>4 DEF Put
  <2>6. c.text = UpTo(q, Size - 1) /\ c.offset = Len(p) + Len(s) /\ c.printed = q /\ c.fault = b.fault
    BY <2>4 DEF BufType
  <2>7. Len(q) = Len(p) + Len(s)
    BY <2>2, ConcatType DEF TextType
  <2>. QED
    BY <2>1, <2>2, <2>5, <2>6, <2>7 DEF BufOK
<1>. QED
  BY <1>1, <1>2

LEMMA PutAllSteps ==
    ASSUME NEW b \in BufType, NEW pieces \in Seq(TextType)
    PROVE  \E f : /\ f \in [0 .. Len(pieces) -> BufType] /\ f[0] = b
                  /\ \A i \in 1 .. Len(pieces) : f[i] = Put(f[i - 1], pieces[i])
                  /\ PutAll(b, pieces) = f[Len(pieces)]
<1>1. PICK n \in Nat : n = Len(pieces) /\ \A i \in 1 .. n : pieces[i] \in TextType
  OBVIOUS
<1> DEFINE g == [i \in 1 .. n |-> [c \in BufType |-> Put(c, pieces[i])]]
           rule(h) == [i \in 0 .. Len(pieces) |-> IF i = 0 THEN b ELSE Put(h[i - 1], pieces[i])]
<1>2. g \in [1 .. n -> [BufType -> BufType]]
  BY <1>1, PutType
<1>3. PICK f : Steps(f, n, BufType, g, b)
  <2> HIDE DEF g
  <2>. QED
    BY <1>2, StepsExist
<1>4. f \in [0 .. n -> BufType] /\ f[0] = b
  BY <1>3 DEF Steps
<1>5. ASSUME NEW i \in 1 .. n PROVE f[i] = Put(f[i - 1], pieces[i])
  <2>1. f[i - 1] \in BufType
    BY <1>4
  <2>. QED
    BY <1>3, <2>1 DEF Steps
<1>6. f = rule(f)
  <2>1. ASSUME NEW i \in 0 .. n PROVE f[i] = IF i = 0 THEN b ELSE Put(f[i - 1], pieces[i])
    BY <1>4, <1>5
  <2>. QED
    BY <1>1, <1>4, <2>1
<1>7. PutAll(b, pieces) = (CHOOSE h : h = rule(h))[n]
  BY <1>1 DEF PutAll
<1>8. PICK h : h = rule(h) /\ PutAll(b, pieces) = h[n]
  <2> HIDE DEF rule
  <2>. QED
    BY <1>6, <1>7
<1> DEFINE T == {i \in 0 .. n : h[i] = f[i]}
<1>9. \A i \in 1 .. n : i - 1 \in T => i \in T
  <2>1. ASSUME NEW i \in 1 .. n, i - 1 \in T PROVE h[i] = f[i]
    <3>1. h[i] = Put(h[i - 1], pieces[i]) /\ h[i - 1] = f[i - 1]
      BY <1>1, <1>8, <2>1
    <3>. QED
      BY <1>5, <3>1
  <2>. QED
    BY <2>1
<1>10. 0 \in T /\ T \in SUBSET (0 .. n)
  BY <1>1, <1>4, <1>8
<1>11. T = 0 .. n
  <2> HIDE DEF T
  <2>. QED
    BY <1>9, <1>10, StepsKeep
<1>12. h[n] = f[n]
  <2>1. n \in 0 .. n
    OBVIOUS
  <2>. QED
    BY <1>11, <2>1
<1>. QED
  BY <1>1, <1>4, <1>5, <1>8, <1>12

LEMMA PutAllFacts ==
    ASSUME NEW b \in BufType, NEW pieces \in Seq(TextType)
    PROVE  /\ PutAll(b, pieces) \in BufType
           /\ BufOK(b) => /\ BufOK(PutAll(b, pieces))
                          /\ \/ PutAll(b, pieces).fault
                             \/ PutAll(b, pieces).printed = b.printed \o FlattenSeq(pieces)
<1>1. PICK n \in Nat : n = Len(pieces) /\ \A i \in 1 .. n : pieces[i] \in TextType
  OBVIOUS
<1>2. PICK f : /\ f \in [0 .. n -> BufType] /\ f[0] = b
               /\ \A i \in 1 .. n : f[i] = Put(f[i - 1], pieces[i])
               /\ PutAll(b, pieces) = f[n]
  BY <1>1, PutAllSteps
<1>3. n \in 0 .. n /\ f[n] \in BufType
  BY <1>2
<1>4. PICK g : Flat(Words, pieces, g)
  BY FlatExists DEF TextType
<1>5. g \in [0 .. n -> Seq(Words)] /\ g[0] = <<>> /\ \A i \in 1 .. n : g[i] = g[i - 1] \o pieces[i]
  BY <1>1, <1>4 DEF Flat
<1>6. FlattenSeq(pieces) = g[n]
  BY <1>1, <1>4, FlattenIs DEF TextType
<1>7. ASSUME BufOK(b)
      PROVE  BufOK(f[n]) /\ (f[n].fault \/ f[n].printed = b.printed \o g[n])
  <2> DEFINE Good(i) == BufOK(f[i]) /\ (f[i].fault \/ f[i].printed = b.printed \o g[i])
             T == {i \in 0 .. n : Good(i)}
  <2>1. b.printed \in Seq(Words)
    BY DEF BufType, TextType
  <2>2. Good(0)
    <3>1. b.printed \o <<>> = b.printed
      BY <2>1, EmptySeq
    <3>. QED
      BY <1>2, <1>5, <1>7, <3>1
  <2>3. ASSUME NEW i \in 1 .. n, Good(i - 1) PROVE Good(i)
    <3>10. i - 1 \in 0 .. n /\ pieces[i] \in TextType
      BY <1>1
    <3>11. PICK c \in BufType : c = f[i - 1]
      BY <1>2, <3>10
    <3>1. PICK d : c = f[i - 1] /\ d = f[i] /\ d = Put(c, pieces[i])
      BY <1>2, <3>11
    <3>2. BufOK(d) /\ (c.fault => d.fault) /\ (d.fault \/ d.printed = c.printed \o pieces[i])
      <4>1. BufOK(c)
        BY <2>3, <3>11
      <4>. QED
        BY <3>1, <3>10, <4>1, PutFacts
    <3>3. g[i - 1] \in Seq(Words) /\ pieces[i] \in Seq(Words)
      BY <1>5, <3>10 DEF TextType
    <3>4. (b.printed \o g[i - 1]) \o pieces[i] = b.printed \o (g[i - 1] \o pieces[i])
      <4>1. PICK x, y, z \in Seq(Words) : x = b.printed /\ y = g[i - 1] /\ z = pieces[i]
        BY <2>1, <3>3
      <4>2. (x \o y) \o z = x \o (y \o z)
        BY JoinAgain
      <4>. QED
        BY <4>1, <4>2
    <3>5. g[i] = g[i - 1] \o pieces[i]
      BY <1>5
    <3>6. CASE c.fault
      BY <3>1, <3>2, <3>6
    <3>7. CASE ~c.fault
      <4>1. c.printed = b.printed \o g[i - 1]
        BY <2>3, <3>1, <3>7
      <4>. QED
        BY <3>1, <3>2, <3>4, <3>5, <4>1
    <3>. QED
      BY <3>6, <3>7
  <2>4. \A i \in 1 .. n : i - 1 \in T => i \in T
    <3>1. \A i \in 1 .. n : i \in 0 .. n
      OBVIOUS
    <3> HIDE DEF Good
    <3>. QED
      BY <2>3, <3>1
  <2>5. 0 \in T /\ T \in SUBSET (0 .. n)
    <3> HIDE DEF Good
    <3>. QED
      BY <2>2
  <2>6. T = 0 .. n
    <3> HIDE DEF T
    <3>. QED
      BY <2>4, <2>5, StepsKeep
  <2>. QED
    BY <1>3, <2>6
<1>. QED
  BY <1>2, <1>3, <1>6, <1>7

-----------------------------------------------------------------------------
(* Pieces *)

Pieces == Seq(TextType)

LEMMA NoPieces == <<>> \in TextType /\ <<>> \in Pieces /\ <<>> \in Seq(Pieces)
BY DEF Pieces, TextType

LEMMA JoinPieces == \A s, t \in Pieces : s \o t \in Pieces
BY ConcatType DEF Pieces

LEMMA OnePiece == \A s \in TextType : <<s>> \in Pieces
<1> SUFFICES ASSUME NEW T, NEW s \in T PROVE <<s>> \in Seq(T)
  BY DEF Pieces
<1>. QED
  OBVIOUS

LEMMA TwoPieces == \A s, t \in TextType : <<s, t>> \in Pieces
<1> SUFFICES ASSUME NEW T, NEW s \in T, NEW t \in T PROVE <<s, t>> \in Seq(T)
  BY DEF Pieces
<1>. QED
  OBVIOUS

LEMMA FlattenPieces ==
    ASSUME NEW n \in Nat, NEW F, F \in [1 .. n -> Pieces]
    PROVE  FlattenSeq(F) \in Pieces
<1>1. F \in Seq(Pieces)
  OBVIOUS
<1>2. F \in Seq(Seq(TextType))
  BY <1>1 DEF Pieces
<1>. QED
  BY <1>2, FlattenType DEF Pieces

LEMMA Texts1 == \A a \in Words : <<a>> \in TextType
BY DEF TextType

LEMMA Texts2 == \A a, b \in Words : <<a, b>> \in TextType
BY DEF TextType

LEMMA Texts3 == \A a, b, c \in Words : <<a, b, c>> \in TextType
BY DEF TextType

LEMMA NameIsWord == \A w : w \in STRING \/ w \in Names => w \in Words
BY DEF Words, Names

LEMMA MarkWords ==
    /\ "*" \in Words /\ "&" \in Words /\ "&&" \in Words /\ "[]" \in Words /\ "," \in Words
    /\ "<undefined>" \in Words /\ "<invalid>" \in Words /\ "(*" \in Words /\ ")(" \in Words
    /\ ") =" \in Words /\ "=" \in Words
BY DEF Words

LEMMA LineWords ==
    /\ "at" \in Words /\ "file" \in Words /\ "pc" \in Words /\ "[n]" \in Words /\ "()" \in Words
    /\ "\n" \in Words /\ ")" \in Words /\ "(" \in Words /\ "{" \in Words /\ "}" \in Words
    /\ "line" \in Words /\ ";" \in Words
    /\ "register" \in Words /\ "<undef>" \in Words /\ "value" \in Words
BY DEF Words

LEMMA QualifierType == \A t \in STRING : Qualifier(t) \in Pieces
<1>1. ASSUME NEW t \in STRING PROVE <<<<t>>>> \in Pieces
  BY Texts1, OnePiece, NameIsWord
<1>. QED
  BY <1>1, NoPieces DEF Qualifier

LEMMA MarkType == \A p, t : Mark(p, t) \in Pieces
<1>1. <<<<"*">>>> \in Pieces /\ <<<<"&">>>> \in Pieces /\ <<<<"&&">>>> \in Pieces /\ <<<<"[]">>>> \in Pieces
  BY Texts1, OnePiece, MarkWords
<1>2. PICK a, b, c, d \in Pieces : a = <<<<"*">>>> /\ b = <<<<"&">>>> /\ c = <<<<"&&">>>> /\ d = <<<<"[]">>>>
  BY <1>1
<1>3. ASSUME NEW p, NEW t PROVE Mark(p, t) \in {a, b, c, d, <<>>}
  BY <1>2 DEF Mark
<1>. QED
  BY <1>3, NoPieces

LEMMA TypePiecesType ==
    ASSUME NEW p, p.types \in Seq(STRING), p.type_name \in Names
    PROVE  TypePieces(p) \in Pieces
<1>1. CASE p.types = <<>>
  BY <1>1, NoPieces DEF TypePieces
<1>2. CASE p.types # <<>>
  <2>1. PICK n \in Nat : n = Len(p.types) /\ \A i \in 1 .. n : p.types[i] \in STRING
    OBVIOUS
  <2>2. n # 0
    BY <1>2, <2>1, NoElements
  <2>3. Qualifier(p.types[1]) \in Pieces
    <3>1. 1 \in 1 .. n
      BY <2>2
    <3>. QED
      BY <2>1, <3>1, QualifierType
  <2>4. <<Word(p.type_name)>> \in Pieces
    <3>1. Word(p.type_name) \in TextType
      BY Texts1, NoPieces, NameIsWord DEF Word
    <3>. QED
      BY <3>1, OnePiece
  <2>5. FlattenSeq([i \in 1 .. Len(p.types) |-> Mark(p, p.types[i])]) \in Pieces
    <3>1. PICK F : F = [i \in 1 .. n |-> Mark(p, p.types[i])]
      OBVIOUS
    <3>2. F \in [1 .. n -> Pieces]
      BY <3>1, MarkType
    <3>3. FlattenSeq(F) \in Pieces
      BY <3>2, FlattenPieces
    <3>. QED
      BY <2>1, <3>1, <3>3
  <2>6. PICK a, b, c \in Pieces :
            /\ a = Qualifier(p.types[1]) /\ b = <<Word(p.type_name)>>
            /\ c = FlattenSeq([i \in 1 .. Len(p.types) |-> Mark(p, p.types[i])])
    BY <2>3, <2>4, <2>5
  <2>7. TypePieces(p) = (a \o b) \o c
    BY <1>2, <2>6 DEF TypePieces
  <2>8. (a \o b) \in Pieces
    BY JoinPieces
  <2>. QED
    BY <2>7, <2>8, JoinPieces
<1>. QED
  BY <1>1, <1>2

LEMMA ChildPiecesType ==
    ASSUME NEW p, p.children \in Seq(ArgType)
    PROVE  ChildPieces(p) \in Pieces
<1>1. PICK n \in Nat : n = Len(p.children) /\ \A i \in 1 .. n : p.children[i] \in ArgType
  OBVIOUS
<1> DEFINE child(i) ==
        IF "RETURN" \in p.children[i].flags THEN <<>>
        ELSE TypePieces(p.children[i]) \o <<IF i < n THEN <<",">> ELSE <<>>>>
<1>2. ASSUME NEW i \in 1 .. n PROVE child(i) \in Pieces
  <2>1. PICK c \in ArgType : c = p.children[i]
    BY <1>1
  <2>2. c.types \in Seq(STRING) /\ c.type_name \in Names
    BY DEF ArgType
  <2>3. TypePieces(c) \in Pieces
    BY <2>2, TypePiecesType
  <2>4. <<IF i < n THEN <<",">> ELSE <<>>>> \in Pieces
    <3>1. <<",">> \in TextType /\ <<>> \in TextType
      BY Texts1, MarkWords, NoPieces
    <3>2. (IF i < n THEN <<",">> ELSE <<>>) \in TextType
      BY <3>1
    <3>. QED
      BY <3>2, OnePiece
  <2>5. TypePieces(c) \o <<IF i < n THEN <<",">> ELSE <<>>>> \in Pieces
    BY <2>3, <2>4, JoinPieces
  <2>. QED
    BY <2>1, <2>5, NoPieces
<1>3. PICK F : F = [i \in 1 .. n |-> child(i)]
  OBVIOUS
<1>4. F \in [1 .. n -> Pieces]
  <2> HIDE DEF child
  <2>. QED
    BY <1>2, <1>3
<1>5. ChildPieces(p) = FlattenSeq(F)
  BY <1>1, <1>3, Zenon DEF ChildPieces
<1>. QED
  BY <1>4, <1>5, FlattenPieces

LEMMA ValuePiecesType ==
    ASSUME NEW p, p.value \in Names
    PROVE  ValuePieces(p) \in Pieces
<1>1. <<<<"<undefined>">>>> \in Pieces /\ <<<<p.value>>>> \in Pieces /\ <<<<"<invalid>">>>> \in Pieces
  BY Texts1, OnePiece, MarkWords, NameIsWord
<1>2. PICK a, b, c \in Pieces : a = <<<<"<undefined>">>>> /\ b = <<<<p.value>>>> /\ c = <<<<"<invalid>">>>>
  BY <1>1
<1>3. PICK d \in Pieces : d = IF "INVALID" \in p.flags /\ p.value # "0" THEN c ELSE <<>>
  BY NoPieces
<1>4. ValuePieces(p) = IF "HAS_VALUE" \notin p.flags THEN a ELSE b \o d
  BY <1>2, <1>3 DEF ValuePieces
<1>. QED
  BY <1>4, JoinPieces

LEMMA ParamPiecesType == \A p \in ParamType : ParamPieces(p) \in Pieces
<1> SUFFICES ASSUME NEW p \in ParamType PROVE ParamPieces(p) \in Pieces
  OBVIOUS
<1>1. /\ p.name \in Names /\ p.types \in Seq(STRING) /\ p.type_name \in Names /\ p.value \in Names
      /\ p.children \in Seq(ArgType)
  BY DEF ParamType
<1>2. PICK t, c, v \in Pieces : t = TypePieces(p) /\ c = ChildPieces(p) /\ v = ValuePieces(p)
  BY <1>1, TypePiecesType, ChildPiecesType, ValuePiecesType
<1>3. <<"(*", p.name, ")(">> \in TextType /\ <<") =">> \in TextType /\ <<p.name, "=">> \in TextType
  BY <1>1, Texts1, Texts2, Texts3, MarkWords, NameIsWord
<1>4. PICK a, b, d \in Pieces :
          a = <<<<"(*", p.name, ")(">>>> /\ b = <<<<") =">>>> /\ d = <<<<p.name, "=">>>>
  BY <1>3, OnePiece
<1>5. PICK e \in Pieces : e = IF "FUNCPTR" \in p.flags THEN (a \o c) \o b ELSE d
  BY JoinPieces
<1>6. PICK f \in Pieces : f = IF "RETURN" \in p.flags THEN <<>> ELSE e \o v
  BY NoPieces, JoinPieces
<1>7. ParamPieces(p) = t \o f
  BY <1>2, <1>4, <1>5, <1>6, Zenon DEF ParamPieces
<1>. QED
  BY <1>7, JoinPieces

LEMMA AtType == \A f : At(f) \in TextType
<1>1. <<"at", "file", "pc">> \in TextType /\ <<"at", "pc">> \in TextType
  BY Texts2, Texts3, LineWords
<1>. QED
  BY <1>1 DEF At

-----------------------------------------------------------------------------
(* The types of the variables, and the buffer *)

OpType == [name : STRING, sub : Exprs \cup {None}]
CallType == [expr : Exprs, at : Nat \ {0}, attr : BOOLEAN, nested : BOOLEAN]

TraceOK ==
    /\ functions \in Seq(Functions) /\ params \in Seq(Seq(ParamType))
    /\ Len(params) = Len(functions) /\ passes \in Nat

LoopOK == fn \in Nat /\ param \in Nat /\ (phase \in {"simple", "pretty"} => fn # 0)

CallsOK == calls \in Seq(CallType)

AskedOK == asked = Nothing => phase = "ready" /\ ~buf.fault

TInv ==
    /\ TraceOK /\ LoopOK /\ CallsOK /\ AskedOK
    /\ buf \in BufType /\ (asked # Nothing => BufOK(buf))

LEMMA InitTInv == Init => TInv
<1> SUFFICES ASSUME Init PROVE TInv
  OBVIOUS
<1>1. TraceOK /\ LoopOK /\ CallsOK
  BY DEF Init, TraceOK, LoopOK, CallsOK
<1>2. PICK n \in 0 .. Size + 1 :
          buf = [text |-> [i \in 1 .. Size |-> "?"], offset |-> n, printed |-> <<>>, fault |-> FALSE]
  BY DEF Init
<1>3. n \in Nat /\ [i \in 1 .. Size |-> "?"] \in TextType /\ <<>> \in TextType
  <2>1. "?" \in Words
    BY DEF Words
  <2>. QED
    BY <2>1, SizeType, NoPieces DEF TextType
<1>4. buf \in BufType /\ ~buf.fault
  BY <1>2, <1>3 DEF BufType
<1>. QED
  BY <1>1, <1>4 DEF Init, TInv, AskedOK

LEMMA NotNothing == Other # Nothing /\ \A x : x.op # "nothing" => x # Nothing
BY DEF Nothing, Other

(* A step that prints some pieces. *)
LEMMA PrintStep ==
    ASSUME TInv, asked # Nothing, NEW pieces \in Pieces, buf' = PutAll(buf, pieces),
           UNCHANGED <<trace, phase, calls, asked>>, fn' \in Nat \ {0}, param' \in Nat
    PROVE  TInv'
<1>1. buf' \in BufType /\ BufOK(buf')
  BY PutAllFacts DEF TInv, Pieces
<1>2. UNCHANGED <<functions, params, passes, phase, calls, asked>>
  BY DEF trace
<1>3. TraceOK' /\ LoopOK' /\ CallsOK' /\ AskedOK'
  BY <1>2 DEF TInv, TraceOK, LoopOK, CallsOK, AskedOK
<1>. QED
  BY <1>1, <1>2, <1>3 DEF TInv, BufOK

(* A step of print_expr_block. *)
LEMMA ExprStep ==
    ASSUME TInv, Describing, buf' \in BufType, BufOK(buf'), calls' \in Seq(CallType)
    PROVE  TInv'
<1>1. UNCHANGED <<functions, params, passes, phase, asked, fn, param>>
  BY DEF trace, loop, Describing
<1>2. asked # Nothing
  BY DEF TInv, AskedOK, Describing
<1>3. TraceOK' /\ LoopOK' /\ CallsOK' /\ AskedOK'
  BY <1>1, <1>2 DEF TInv, TraceOK, LoopOK, CallsOK, AskedOK
<1>. QED
  BY <1>3 DEF TInv, BufOK

LEMMA TopFacts ==
    ASSUME TInv, Describing
    PROVE  /\ Top \in CallType /\ Caller \in Seq(CallType) /\ Step \in Seq(CallType)
           /\ Ops \in Seq(OpType)
           /\ buf \in BufType /\ BufOK(buf) /\ ~buf.fault
<1>1. calls \in Seq(CallType) /\ calls # <<>>
  BY DEF TInv, CallsOK, Describing
<1>2. Top \in CallType /\ Caller \in Seq(CallType)
  BY <1>1 DEF Top, Caller
<1>3. [Top EXCEPT !.at = @ + 1, !.nested = FALSE] \in CallType
  <2>1. PICK c \in CallType : c = Top
    BY <1>2
  <2>2. c.at + 1 \in Nat \ {0}
    BY DEF CallType
  <2>3. [c EXCEPT !.at = c.at + 1, !.nested = FALSE] \in CallType
    BY <2>2 DEF CallType
  <2>. QED
    BY <2>1, <2>3
<1>4. Step \in Seq(CallType)
  <2>1. PICK c \in CallType, r \in Seq(CallType) :
            c = [Top EXCEPT !.at = @ + 1, !.nested = FALSE] /\ r = Caller
    BY <1>2, <1>3
  <2>2. <<c>> \o r \in Seq(CallType)
    BY ConcatType
  <2>. QED
    BY <2>1, <2>2 DEF Step
<1>5. Top.expr \in Exprs
  BY <1>2 DEF CallType
<1>6. Ops \in Seq(OpType)
  BY <1>5, RankAssumption DEF Ops, OpType
<1>. QED
  BY <1>2, <1>4, <1>6 DEF TInv, AskedOK, Describing, Sound

LEMMA OpFacts ==
    ASSUME TInv, Describing, Top.at <= Len(Ops)
    PROVE  Op \in OpType /\ <<Op.name>> \in TextType
<1>1. Top.at \in 1 .. Len(Ops)
  BY TopFacts DEF CallType
<1>2. Op \in OpType
  <2>1. Ops \in Seq(OpType)
    BY TopFacts
  <2>. QED
    BY <1>1, <2>1 DEF Op
<1>3. Op.name \in Words
  BY <1>2, NameIsWord DEF OpType
<1>. QED
  BY <1>2, <1>3, Texts1

LEMMA ParamFacts ==
    ASSUME TInv, phase = "pretty", fn <= Len(functions)
    PROVE  Params \in Seq(ParamType) /\ \A i \in 1 .. Len(Params) : Params[i] \in ParamType
<1>1. fn \in 1 .. Len(params)
  BY DEF TInv, TraceOK, LoopOK
<1>2. Params \in Seq(ParamType)
  BY <1>1 DEF TInv, TraceOK, Params
<1>. QED
  BY <1>2

LEMMA NamePieces ==
    ASSUME TInv, phase \in {"simple", "pretty"}, fn <= Len(functions)
    PROVE  /\ functions[fn] \in Functions /\ Info[functions[fn]].name \in Words
           /\ <<<<Name, "(">>>> \in Pieces /\ HeadPieces \in Pieces
<1>1. functions[fn] \in Functions
  <2>1. fn \in 1 .. Len(functions)
    BY DEF TInv, TraceOK, LoopOK
  <2>. QED
    BY <2>1 DEF TInv, TraceOK
<1>2. Name \in Words
  BY <1>1, InfoAssumption, NameIsWord DEF Name
<1>3. <<Name, "(">> \in TextType
  BY <1>2, Texts2, LineWords
<1>4. HeadPieces \in Pieces
  <2>1. PICK a, b, c \in TextType : a = <<")">> /\ b = At(functions[fn]) /\ c = <<"\n">>
    BY AtType, Texts1, LineWords
  <2>2. (a \o b) \o c \in TextType
    BY ConcatType DEF TextType
  <2>. QED
    BY <2>1, <2>2, OnePiece DEF HeadPieces
<1>. QED
  BY <1>1, <1>2, <1>3, <1>4, OnePiece DEF Name

LEMMA LinePieces ==
    /\ <<<<"[n]">>>> \in Pieces /\ <<<<"{", "\n">>>> \in Pieces /\ <<<<"line">>>> \in Pieces
    /\ <<<<";", "\n">>>> \in Pieces /\ <<<<",">>>> \in Pieces /\ <<<<"}", "\n">>>> \in Pieces
    /\ <<<<"\n">>>> \in Pieces
BY Texts1, Texts2, OnePiece, LineWords, MarkWords

LEMMA StepTInv == TInv /\ [Next]_vars => TInv'
<1> SUFFICES ASSUME TInv, [Next]_vars PROVE TInv'
  OBVIOUS
<1>1. TraceOK /\ LoopOK /\ CallsOK /\ AskedOK /\ buf \in BufType /\ (asked # Nothing => BufOK(buf))
  BY DEF TInv
<1>2. Sound => /\ Clean(buf) \in BufType /\ BufOK(Clean(buf)) /\ ~Clean(buf).fault
  BY <1>1, CleanFacts DEF Sound
<1>3. CASE Unwind
  <2>1. PICK f \in Functions : functions' = Append(functions, f) /\ params' = Append(params, <<>>)
    BY <1>3 DEF Unwind
  <2>2. UNCHANGED <<passes, buf, phase, fn, param, calls>>
        /\ asked' = IF asked = Nothing THEN Nothing ELSE Other
    BY <1>3 DEF Unwind, loop
  <2>3. TraceOK'
    <3>1. <<>> \in Seq(ParamType)
      OBVIOUS
    <3>. QED
      BY <1>1, <2>1, <2>2, <3>1 DEF TraceOK
  <2>4. LoopOK' /\ CallsOK'
    BY <1>1, <2>2 DEF LoopOK, CallsOK
  <2>5. asked' = Nothing <=> asked = Nothing
    BY <2>2, NotNothing
  <2>. QED
    BY <1>1, <2>2, <2>3, <2>4, <2>5 DEF TInv, AskedOK, BufOK
<1>4. CASE HandleDwarf \/ PrintSimple \/ PrintPretty \/ Describe
  <2>1. TraceOK'
    BY <1>1, <1>4 DEF TraceOK, HandleDwarf, PrintSimple, PrintPretty, PrintTrace, Describe, trace
  <2>2. LoopOK'
    <3>1. CASE HandleDwarf \/ Describe
      BY <1>1, <3>1 DEF LoopOK, HandleDwarf, Describe, loop
    <3>2. CASE PrintSimple \/ PrintPretty
      BY <3>2 DEF LoopOK, PrintSimple, PrintPretty, PrintTrace
    <3>. QED
      BY <1>4, <3>1, <3>2
  <2>3. CallsOK'
    <3>1. CASE HandleDwarf \/ PrintSimple \/ PrintPretty
      BY <1>1, <3>1 DEF CallsOK, HandleDwarf, PrintSimple, PrintPretty, PrintTrace
    <3>2. CASE Describe
      <4>1. PICK e \in Exprs, a \in BOOLEAN : calls' = <<ExprCall(e, a)>>
        BY <3>2 DEF Describe
      <4>2. ExprCall(e, a) \in CallType
        BY DEF ExprCall, CallType
      <4>. QED
        BY <4>1, <4>2 DEF CallsOK
    <3>. QED
      BY <1>4, <3>1, <3>2
  <2>4. asked' # Nothing
    <3>1. CASE HandleDwarf
      BY <3>1, NotNothing DEF HandleDwarf
    <3>2. CASE PrintSimple \/ PrintPretty
      <4>1. asked'.op # "nothing"
        BY <3>2 DEF PrintSimple, PrintPretty, PrintTrace, Nothing
      <4>. QED
        BY <4>1, NotNothing
    <3>3. CASE Describe
      <4>1. asked'.op # "nothing"
        BY <3>3 DEF Describe, Nothing
      <4>. QED
        BY <4>1, NotNothing
    <3>. QED
      BY <1>4, <3>1, <3>2, <3>3
  <2>5. buf' = Clean(buf) /\ Sound
    BY <1>4 DEF HandleDwarf, PrintSimple, PrintPretty, PrintTrace, Describe, Ready
  <2>. QED
    BY <1>2, <2>1, <2>2, <2>3, <2>4, <2>5 DEF TInv, AskedOK, BufOK
<1>5. CASE HandleEnd
  <2>1. params' = [i \in 1 .. Len(functions) |-> params[i] \o Info[functions[i]].params]
        /\ passes' = passes + 1 /\ phase = "pass" /\ phase' = "ready" /\ ~buf.fault
        /\ UNCHANGED <<functions, buf, fn, param, calls, asked>>
    BY <1>5 DEF HandleEnd, loop, Sound
  <2>2. TraceOK'
    <3>1. PICK n \in Nat : n = Len(functions) /\ n = Len(params)
      BY <1>1 DEF TraceOK
    <3>2. ASSUME NEW i \in 1 .. n PROVE params[i] \o Info[functions[i]].params \in Seq(ParamType)
      <4>1. params[i] \in Seq(ParamType) /\ functions[i] \in Functions
        BY <1>1, <3>1 DEF TraceOK
      <4>2. Info[functions[i]].params \in Seq(ParamType)
        BY <4>1, InfoAssumption
      <4>. QED
        BY <4>1, <4>2, ConcatType
    <3>3. params' \in [1 .. n -> Seq(ParamType)]
      BY <2>1, <3>1, <3>2
    <3>4. params' \in Seq(Seq(ParamType)) /\ Len(params') = n
      BY <3>3
    <3>. QED
      BY <1>1, <2>1, <3>1, <3>4 DEF TraceOK
  <2>3. LoopOK' /\ CallsOK' /\ AskedOK'
    BY <1>1, <2>1 DEF LoopOK, CallsOK, AskedOK
  <2>. QED
    BY <1>1, <2>1, <2>2, <2>3 DEF TInv, BufOK
<1>6. CASE PrintRegisters
  <2>1. PICK undef \in SUBSET (1 .. Registers) :
            /\ buf' = PutAll(Clean(buf), [i \in 1 .. Registers |->
                          <<"register", IF i \in undef THEN "<undef>" ELSE "value">>])
            /\ asked' = [Nothing EXCEPT !.op = "registers", !.undef = undef]
    BY <1>6 DEF PrintRegisters
  <2>2. UNCHANGED <<functions, params, passes, phase, fn, param, calls>> /\ Sound
    BY <1>6 DEF PrintRegisters, trace, loop
  <2>3. PICK s : s = [i \in 1 .. Registers |-> <<"register", IF i \in undef THEN "<undef>" ELSE "value">>]
    OBVIOUS
  <2>4. s \in Pieces
    <3>1. ASSUME NEW i \in 1 .. Registers
          PROVE  <<"register", IF i \in undef THEN "<undef>" ELSE "value">> \in TextType
      BY Texts2, LineWords
    <3>2. s \in [1 .. Registers -> TextType]
      BY <2>3, <3>1
    <3>. QED
      BY <3>2, SizeType DEF Pieces
  <2>5. buf' \in BufType /\ BufOK(buf')
    BY <1>2, <2>1, <2>2, <2>3, <2>4, PutAllFacts DEF Pieces
  <2>6. asked' # Nothing
    <3>1. asked'.op # "nothing"
      BY <2>1 DEF Nothing
    <3>. QED
      BY <3>1, NotNothing
  <2>7. TraceOK' /\ LoopOK' /\ CallsOK'
    BY <1>1, <2>2 DEF TraceOK, LoopOK, CallsOK
  <2>. QED
    BY <2>5, <2>6, <2>7 DEF TInv, AskedOK, BufOK
<1>7. CASE PrintOp \/ EntryWithoutAttr \/ EntryWithoutExpr \/ PrintEntry \/ EntryDone \/ ExprDone
  <2>1. Describing
    BY <1>7 DEF PrintOp, EntryWithoutAttr, EntryWithoutExpr, PrintEntry, EntryDone, ExprDone, AtOp
  <2>2. /\ Top \in CallType /\ Caller \in Seq(CallType) /\ Step \in Seq(CallType)
        /\ buf \in BufType /\ BufOK(buf) /\ ~buf.fault
    BY <2>1, TopFacts
  <2>3. AtOp(FALSE) \/ AtOp(TRUE) => LET b == Put(buf, <<Op.name>>) IN b \in BufType /\ BufOK(b)
    <3>1. AtOp(FALSE) \/ AtOp(TRUE) => Top.at <= Len(Ops)
      BY DEF AtOp
    <3>2. AtOp(FALSE) \/ AtOp(TRUE) => <<Op.name>> \in TextType
      BY <2>1, <3>1, OpFacts
    <3>. QED
      BY <2>2, <3>2, PutType, PutFacts
  <2>4. CASE PrintOp
    <3>1. AtOp(FALSE) /\ buf' = Put(buf, <<Op.name>>) /\ calls' = Step
      BY <2>4 DEF PrintOp
    <3>. QED
      BY <2>1, <2>2, <2>3, <3>1, ExprStep
  <2>5. CASE EntryWithoutAttr
    <3>1. buf' = buf /\ calls' = Caller
      BY <2>5 DEF EntryWithoutAttr
    <3>. QED
      BY <2>1, <2>2, <3>1, ExprStep
  <2>6. CASE EntryWithoutExpr
    <3>1. AtOp(TRUE) /\ buf' = Put(buf, <<Op.name>>) /\ calls' = Caller
      BY <2>6 DEF EntryWithoutExpr
    <3>. QED
      BY <2>1, <2>2, <2>3, <3>1, ExprStep
  <2>7. CASE PrintEntry
    <3>1. PICK b : b = Put(buf, <<Op.name>>)
      OBVIOUS
    <3>2. AtOp(TRUE) /\ buf' = (IF b.fault THEN b ELSE Clean(b)) /\ Ops[1].sub # None
          /\ calls' = <<ExprCall(Ops[1].sub, TRUE), [Top EXCEPT !.nested = TRUE]>> \o Caller
      BY <2>7, <3>1 DEF PrintEntry
    <3>3. buf' \in BufType /\ BufOK(buf')
      BY <2>3, <3>1, <3>2, CleanFacts
    <3>4. calls' \in Seq(CallType)
      <4>1. Ops[1].sub \in Exprs
        <5>1. Ops \in Seq(OpType)
          BY <2>1, TopFacts
        <5>2. 1 \in 1 .. Len(Ops)
          BY <2>2, <3>2, <5>1 DEF AtOp, CallType
        <5>3. Ops[1] \in OpType
          BY <5>1, <5>2
        <5>. QED
          BY <3>2, <5>3 DEF OpType
      <4>2. ExprCall(Ops[1].sub, TRUE) \in CallType
        BY <4>1 DEF ExprCall, CallType
      <4>3. [Top EXCEPT !.nested = TRUE] \in CallType
        BY <2>2 DEF CallType
      <4>4. PICK c, d \in CallType : c = ExprCall(Ops[1].sub, TRUE) /\ d = [Top EXCEPT !.nested = TRUE]
        BY <4>2, <4>3
      <4>5. <<c, d>> \in Seq(CallType)
        OBVIOUS
      <4>. QED
        BY <2>2, <3>2, <4>4, <4>5, ConcatType
    <3>. QED
      BY <2>1, <3>3, <3>4, ExprStep
  <2>8. CASE EntryDone
    <3>1. buf' = Put(buf, <<")">>) /\ calls' = Step
      BY <2>8 DEF EntryDone
    <3>2. <<")">> \in TextType
      BY Texts1, LineWords
    <3>. QED
      BY <2>1, <2>2, <3>1, <3>2, PutType, PutFacts, ExprStep
  <2>9. CASE ExprDone
    <3>1. buf' = buf /\ calls' = Caller
      BY <2>9 DEF ExprDone
    <3>. QED
      BY <2>1, <2>2, <3>1, ExprStep
  <2>. QED
    BY <1>7, <2>4, <2>5, <2>6, <2>7, <2>8, <2>9
<1>8. CASE DescribeEnd \/ PrintEnd
  <2>1. UNCHANGED <<functions, params, passes, buf, fn, param, calls, asked>> /\ phase # "ready"
        /\ phase' \in {"pass", "ready"}
    BY <1>8 DEF DescribeEnd, PrintEnd, trace, loop
  <2>2. asked # Nothing
    BY <1>1, <2>1 DEF AskedOK
  <2>. QED
    BY <1>1, <2>1, <2>2 DEF TInv, TraceOK, LoopOK, CallsOK, AskedOK, BufOK
<1>9. CASE PrintSimpleFunction
  <2>1. /\ phase = "simple" /\ fn <= Len(functions) /\ UNCHANGED <<trace, phase, calls, asked>>
        /\ buf' = PutAll(buf, <<<<"[n]">>, <<Info[functions[fn]].name, "()">>, At(functions[fn]),
                                <<"\n">>>>)
        /\ fn' = fn + 1 /\ param' = param
    BY <1>9 DEF PrintSimpleFunction, Printing
  <2>2. <<<<"[n]">>, <<Info[functions[fn]].name, "()">>, At(functions[fn]), <<"\n">>>> \in Pieces
    <3>1. Info[functions[fn]].name \in Words
      BY <2>1, NamePieces
    <3>2. PICK a, b, c, d \in TextType :
              /\ a = <<"[n]">> /\ b = <<Info[functions[fn]].name, "()">> /\ c = At(functions[fn])
              /\ d = <<"\n">>
      BY <3>1, Texts1, Texts2, AtType, LineWords
    <3>3. <<a, b, c, d>> \in Pieces
      BY DEF Pieces
    <3>. QED
      BY <3>2, <3>3
  <2>3. asked # Nothing
    BY <1>1, <2>1 DEF AskedOK
  <2>4. fn' \in Nat \ {0} /\ param' \in Nat
    BY <1>1, <2>1 DEF LoopOK
  <2>. QED
    BY <2>1, <2>2, <2>3, <2>4, PrintStep
<1>10. CASE PrintHead \/ PrintReturn \/ PrintVariable \/ PrintParam \/ PrintTail
  <2>1. phase = "pretty" /\ fn <= Len(functions) /\ UNCHANGED <<trace, phase, calls, asked>>
    BY <1>10 DEF PrintHead, PrintReturn, PrintVariable, PrintParam, PrintTail, NextParam, Printing
  <2>2. asked # Nothing
    BY <1>1, <2>1 DEF AskedOK
  <2>3. fn' \in Nat \ {0} /\ param' \in Nat
    <3>1. fn \in Nat \ {0} /\ fn + 1 \in Nat \ {0} /\ param + 1 \in Nat /\ param \in Nat
      BY <1>1, <2>1 DEF LoopOK
    <3>2. fn' \in {fn, fn + 1} /\ param' \in {0, 1, 2, param + 1}
      BY <1>10 DEF PrintHead, PrintReturn, PrintVariable, PrintParam, PrintTail, NextParam
    <3>. QED
      BY <3>1, <3>2
  <2>4. PICK pieces \in Pieces : buf' = PutAll(buf, pieces)
    <3>1. Params \in Seq(ParamType) /\ \A i \in 1 .. Len(Params) : ParamPieces(Params[i]) \in Pieces
      BY <2>1, ParamFacts, ParamPiecesType
    <3>2. PICK h, v \in Pieces : h = HeadPieces /\ v = <<<<Name, "(">>>>
      BY <2>1, NamePieces
    <3>3. PICK a, b, c, d \in Pieces, k, z \in Pieces, l \in Pieces :
              /\ a = <<<<"[n]">>>> /\ b = <<<<"{", "\n">>>> /\ c = <<<<"line">>>>
              /\ d = <<<<";", "\n">>>> /\ k = <<<<",">>>> /\ z = <<<<"}", "\n">>>> /\ l = <<<<"\n">>>>
      BY LinePieces
    <3>4. CASE PrintHead
      <4>1. CASE Params # <<>> /\ "RETURN" \in Params[1].flags
        <5>1. PICK p \in Pieces : p = ParamPieces(Params[1])
          <6>1. 1 \in 1 .. Len(Params)
            BY <3>1, <4>1
          <6>. QED
            BY <3>1, <6>1
        <5>2. buf' = PutAll(buf, (a \o p) \o v)
          BY <3>2, <3>3, <3>4, <4>1, <5>1 DEF PrintHead
        <5>. QED
          BY <5>2, JoinPieces
      <4>2. CASE ~(Params # <<>> /\ "RETURN" \in Params[1].flags)
        <5>1. buf' = PutAll(buf, <<<<"[n]">>, <<Name, "(">>>>)
          BY <3>4, <4>2, Zenon DEF PrintHead
        <5>2. <<"[n]">> \in TextType /\ <<Name, "(">> \in TextType
          <6>1. Name \in Words
            BY <2>1, NamePieces DEF Name
          <6>. QED
            BY <6>1, Texts1, Texts2, LineWords
        <5>. QED
          BY <5>1, <5>2, TwoPieces
      <4>. QED
        BY <4>1, <4>2
    <3>5. CASE PrintReturn \/ PrintVariable \/ PrintParam
      <4>1. PICK p \in Pieces : p = ParamPieces(Param)
        BY <3>1, <3>5 DEF PrintReturn, PrintVariable, PrintParam, NextParam, Param
      <4>2. CASE PrintReturn
        <5>1. buf' = PutAll(buf, p \o v)
          BY <3>2, <4>1, <4>2 DEF PrintReturn
        <5>. QED
          BY <5>1, JoinPieces
      <4>3. CASE PrintVariable
        <5>1. PICK e \in Pieces : e = IF start_variable THEN <<>> ELSE h \o b
          BY NoPieces, JoinPieces
        <5>2. buf' = PutAll(buf, ((e \o c) \o p) \o d)
          BY <3>2, <3>3, <4>1, <4>3, <5>1 DEF PrintVariable
        <5>. QED
          BY <5>2, JoinPieces
      <4>4. CASE PrintParam
        <5>1. PICK e \in Pieces : e = IF first THEN <<>> ELSE k
          BY NoPieces
        <5>2. buf' = PutAll(buf, e \o p)
          BY <3>3, <4>1, <4>4, <5>1 DEF PrintParam
        <5>. QED
          BY <5>2, JoinPieces
      <4>. QED
        BY <3>5, <4>2, <4>3, <4>4
    <3>6. CASE PrintTail
      <4>1. PICK e \in Pieces : e = IF start_variable THEN z ELSE h
        OBVIOUS
      <4>2. buf' = PutAll(buf, e \o l)
        BY <3>2, <3>3, <3>6, <4>1 DEF PrintTail
      <4>. QED
        BY <4>2, JoinPieces
    <3>. QED
      BY <1>10, <3>4, <3>5, <3>6
  <2>. QED
    BY <2>1, <2>2, <2>3, <2>4, PrintStep
<1>11. CASE UNCHANGED vars
  BY <1>1, <1>11 DEF TInv, TraceOK, LoopOK, CallsOK, AskedOK, BufOK, vars, trace, loop
<1>. QED
  BY <1>3, <1>4, <1>5, <1>6, <1>7, <1>8, <1>9, <1>10, <1>11 DEF Next

(* The buffer holds as much as fits of what was printed.  *)
THEOREM BufferCorrect == Spec => []BufferOK
<1>1. TInv => BufferOK
  BY DEF TInv, AskedOK, BufOK, BufferOK
<1>. QED
  BY <1>1, InitTInv, StepTInv, PTL DEF Spec

-----------------------------------------------------------------------------
(* Texts *)

Up(F, k) == FlattenSeq([i \in 1 .. k |-> F[i]])

LEMMA UpFacts ==
    ASSUME NEW n \in Nat, NEW F \in [1 .. n -> TextType]
    PROVE  /\ Up(F, 0) = <<>>
           /\ \A k \in 0 .. n : Up(F, k) \in TextType
           /\ \A k \in 1 .. n : Up(F, k) = Up(F, k - 1) \o F[k]
           /\ Up(F, n) = FlattenSeq(F)
<1>1. ASSUME NEW k \in 0 .. n
      PROVE  [i \in 1 .. k |-> F[i]] \in Seq(TextType) /\ Len([i \in 1 .. k |-> F[i]]) = k
  OBVIOUS
<1>2. Up(F, 0) = <<>>
  <2>1. [i \in 1 .. 0 |-> F[i]] = <<>>
    OBVIOUS
  <2>. QED
    BY <2>1, FlattenNone DEF Up
<1>3. \A k \in 0 .. n : Up(F, k) \in TextType
  <2>1. ASSUME NEW k \in 0 .. n PROVE Up(F, k) \in TextType
    <3>1. PICK s \in Seq(Seq(Words)) : s = [i \in 1 .. k |-> F[i]]
      BY <1>1 DEF TextType
    <3>2. FlattenSeq(s) \in Seq(Words)
      BY FlattenType
    <3>. QED
      BY <3>1, <3>2 DEF Up, TextType
  <2>. QED
    BY <2>1
<1>4. ASSUME NEW k \in 1 .. n PROVE Up(F, k) = Up(F, k - 1) \o F[k]
  <2>1. PICK s, t : s = [i \in 1 .. k - 1 |-> F[i]] /\ t = [i \in 1 .. k |-> F[i]]
    OBVIOUS
  <2>2. k \in 0 .. n /\ k - 1 \in 0 .. n /\ k \in 1 .. k
    OBVIOUS
  <2>3. s \in Seq(Seq(Words)) /\ t \in Seq(Seq(Words)) /\ Len(s) = k - 1 /\ Len(t) = k
    BY <1>1, <2>1, <2>2 DEF TextType
  <2>4. t[Len(t)] = F[k] /\ Len(t) = Len(s) + 1 /\ \A i \in 1 .. Len(s) : t[i] = s[i]
    BY <2>1, <2>2, <2>3
  <2>5. FlattenSeq(t) = FlattenSeq(s) \o t[Len(t)]
    BY <2>3, <2>4, FlattenMore
  <2>. QED
    BY <2>1, <2>4, <2>5 DEF Up
<1>5. Up(F, n) = FlattenSeq(F)
  BY DEF Up
<1>. QED
  BY <1>2, <1>3, <1>4, <1>5

LEMMA TextJoin ==
    /\ \A s, t \in TextType : s \o t \in TextType
    /\ \A s \in TextType : <<>> \o s = s /\ s \o <<>> = s
    /\ \A s, t, u \in TextType : (s \o t) \o u = s \o (t \o u)
    /\ <<>> \in TextType
BY JoinType, EmptySeq, JoinAgain DEF TextType

LEMMA TextAgain == \A s, t, u \in TextType : Again(s, t, u)
BY TextJoin DEF Again

LEMMA TextEmpty ==
    ASSUME NEW s \in TextType, NEW t \in TextType, t # <<>>
    PROVE  s \o t # <<>>
<1>1. Len(t) # 0
  BY NoElements DEF TextType
<1>2. Len(s \o t) = Len(s) + Len(t) /\ Len(s) \in Nat /\ Len(t) \in Nat
  BY JoinType DEF TextType
<1>3. Len(<<>>) = 0
  OBVIOUS
<1>4. Len(s \o t) # 0
  BY <1>1, <1>2
<1>. QED
  BY <1>3, <1>4

LEMMA TailJoin ==
    ASSUME NEW s \in TextType, NEW t \in TextType, s # <<>>
    PROVE  Tail(s) \in TextType /\ Tail(s \o t) = Tail(s) \o t
<1>1. s \in Seq(Words) /\ t \in Seq(Words) /\ Len(s) \in Nat \ {0} /\ Len(t) \in Nat
  BY NoElements DEF TextType
<1>2. PICK a, b \in Seq(Words) : a = Tail(s) /\ b = s \o t
  <2>1. Tail(s) \in Seq(Words)
    BY <1>1
  <2>2. s \o t \in Seq(Words)
    BY <1>1, JoinType
  <2>. QED
    BY <2>1, <2>2
<1>3. Len(a) = Len(s) - 1 /\ \A i \in 1 .. Len(a) : a[i] = s[i + 1]
  BY <1>1, <1>2
<1>4. /\ Len(b) = Len(s) + Len(t) /\ \A i \in 1 .. Len(s) : b[i] = s[i]
      /\ \A i \in 1 .. Len(t) : b[Len(s) + i] = t[i]
  BY <1>1, <1>2
<1>5. PICK c, d \in Seq(Words) : c = Tail(b) /\ d = a \o t
  <2>1. b # <<>>
    BY <1>2, TextEmpty, <1>1, <1>4
  <2>2. Tail(b) \in Seq(Words) /\ a \o t \in Seq(Words)
    BY <1>1, <2>1, JoinType
  <2>. QED
    BY <2>2
<1>6. Len(c) = Len(b) - 1 /\ \A i \in 1 .. Len(c) : c[i] = b[i + 1]
  BY <1>1, <1>4, <1>5
<1>7. /\ Len(d) = Len(a) + Len(t) /\ \A i \in 1 .. Len(a) : d[i] = a[i]
      /\ \A i \in 1 .. Len(t) : d[Len(a) + i] = t[i]
  BY <1>1, <1>5
<1>8. Len(c) = Len(d)
  BY <1>1, <1>3, <1>4, <1>6, <1>7
<1>9. ASSUME NEW i \in 1 .. Len(c) PROVE c[i] = d[i]
  <2>1. CASE i <= Len(a)
    <3>1. i \in 1 .. Len(a) /\ i + 1 \in 1 .. Len(s)
      BY <1>1, <1>3, <2>1
    <3>. QED
      BY <1>3, <1>4, <1>6, <1>7, <3>1
  <2>2. CASE ~(i <= Len(a))
    <3>1. PICK j \in 1 .. Len(t) : i = Len(a) + j /\ i + 1 = Len(s) + j
      <4>1. i - Len(a) \in 1 .. Len(t) /\ i = Len(a) + (i - Len(a)) /\ i + 1 = Len(s) + (i - Len(a))
        BY <1>1, <1>3, <1>7, <1>8, <2>2
      <4>. QED
        BY <4>1
    <3>. QED
      BY <1>4, <1>6, <1>7, <3>1
  <2>. QED
    BY <2>1, <2>2
<1>10. c = d
  BY <1>8, <1>9, SeqEqual
<1>. QED
  BY <1>2, <1>5, <1>10 DEF TextType

(* The text of pieces given one after the other. *)
FlatFour(a, b, c, d) == FlattenSeq(<<a, b, c, d>>) = ((a \o b) \o c) \o d

LEMMA FlattenFour == \A a, b, c, d \in TextType : FlatFour(a, b, c, d)
<1> SUFFICES ASSUME NEW a \in TextType, NEW b \in TextType, NEW c \in TextType, NEW d \in TextType
             PROVE  FlattenSeq(<<a, b, c, d>>) = ((a \o b) \o c) \o d
  BY DEF FlatFour
<1>1. PICK F : F = <<a, b, c, d>>
  OBVIOUS
<1>2. F \in [1 .. 4 -> TextType] /\ F[1] = a /\ F[2] = b /\ F[3] = c /\ F[4] = d
  BY <1>1
<1>3. /\ Up(F, 0) = <<>> /\ Up(F, 4) = FlattenSeq(F)
      /\ \A k \in 1 .. 4 : Up(F, k) = Up(F, k - 1) \o F[k]
  BY <1>2, UpFacts
<1>4. Up(F, 1) = Up(F, 0) \o a /\ Up(F, 2) = Up(F, 1) \o b /\ Up(F, 3) = Up(F, 2) \o c
      /\ Up(F, 4) = Up(F, 3) \o d
  <2>1. 1 - 1 = 0 /\ 2 - 1 = 1 /\ 3 - 1 = 2 /\ 4 - 1 = 3 /\ \A k \in {1, 2, 3, 4} : k \in 1 .. 4
    OBVIOUS
  <2>2. \A k \in {1, 2, 3, 4} : Up(F, k) = Up(F, k - 1) \o F[k]
    BY <1>3, <2>1
  <2>3. Up(F, 1) = Up(F, 1 - 1) \o F[1] /\ Up(F, 2) = Up(F, 2 - 1) \o F[2]
        /\ Up(F, 3) = Up(F, 3 - 1) \o F[3] /\ Up(F, 4) = Up(F, 4 - 1) \o F[4]
    BY <2>2
  <2>. QED
    BY <1>2, <2>1, <2>3
<1>5. <<>> \o a = a
  BY TextJoin
<1>6. Up(F, 4) = ((a \o b) \o c) \o d
  BY <1>3, <1>4, <1>5
<1>. QED
  BY <1>1, <1>3, <1>6

LEMMA FlattenTwo ==
    ASSUME NEW a \in TextType, NEW b \in TextType
    PROVE  FlattenSeq(<<a, b>>) = a \o b
<1>1. PICK F : F = <<a, b>>
  OBVIOUS
<1>2. F \in [1 .. 2 -> TextType] /\ F[1] = a /\ F[2] = b
  BY <1>1
<1>3. /\ Up(F, 0) = <<>> /\ Up(F, 2) = FlattenSeq(F)
      /\ \A k \in 1 .. 2 : Up(F, k) = Up(F, k - 1) \o F[k]
  BY <1>2, UpFacts
<1>4. Up(F, 1) = Up(F, 0) \o a /\ Up(F, 2) = Up(F, 1) \o b
  BY <1>2, <1>3
<1>. QED
  BY <1>1, <1>3, <1>4, TextJoin

LEMMA FlattenLine == \A a \in TextType : FlattenSeq(<<a>>) = a
BY FlattenOne DEF TextType

LEMMA FlattenText == \A s \in Pieces : FlattenSeq(s) \in TextType
BY FlattenType DEF Pieces, TextType

LEMMA FlattenTexts == \A s, t \in Pieces : FlattenSeq(s \o t) = FlattenSeq(s) \o FlattenSeq(t)
BY FlattenJoin DEF Pieces, TextType

-----------------------------------------------------------------------------
(* The text of a function of the trace *)

RText(ps) == [i \in 1 .. Len(ps) |-> ReturnText(ps[i])]
FText(ps) == [i \in 1 .. Len(ps) |-> FormalText(ps[i])]
VText(ps) == [i \in 1 .. Len(ps) |-> VariableText(ps[i])]

HeadText(f) == (<<")">> \o At(f)) \o <<"\n">>
Rest(t) == IF t = <<>> THEN <<>> ELSE Tail(t)

(* A function up to its formal parameters, after n of its parameters. *)
Lead(f, ps, n) ==
    ((<<"[n]">> \o Up(RText(ps), n)) \o <<Info[f].name, "(">>) \o Rest(Up(FText(ps), n))

(* And its variables, once there was one. *)
Back(f, ps, n, begun) ==
    IF begun THEN (HeadText(f) \o <<"{", "\n">>) \o Up(VText(ps), n) ELSE <<>>

Half(f, ps, n, begun) == Lead(f, ps, n) \o Back(f, ps, n, begun)

PrettyOf(f, ps) ==
    LET n == Len(ps) v == Up(VText(ps), n) IN
    ((Lead(f, ps, n) \o HeadText(f)) \o (IF v = <<>> THEN <<>> ELSE (<<"{", "\n">> \o v) \o <<"}", "\n">>))
    \o <<"\n">>

SimpleOf(f) == (<<"[n]", Info[f].name, "()">> \o At(f)) \o <<"\n">>

(* The pieces of each step of a print function *)

OpenPieces(f, ps) ==
    IF ps # <<>> /\ "RETURN" \in ps[1].flags
    THEN (<<<<"[n]">>>> \o ParamPieces(ps[1])) \o <<<<Info[f].name, "(">>>>
    ELSE <<<<"[n]">>, <<Info[f].name, "(">>>>
VariablePieces(f, p, begun) ==
    (((IF begun THEN <<>> ELSE <<HeadText(f)>> \o <<<<"{", "\n">>>>) \o <<<<"line">>>>) \o ParamPieces(p))
    \o <<<<";", "\n">>>>
FormalPieces(p, start) == (IF start THEN <<>> ELSE <<<<",">>>>) \o ParamPieces(p)
ClosePieces(f, begun) == (IF begun THEN <<<<"}", "\n">>>> ELSE <<HeadText(f)>>) \o <<<<"\n">>>>
SimplePieces(f) == <<<<"[n]">>, <<Info[f].name, "()">>, At(f), <<"\n">>>>

(* Printing one variable, or one formal parameter, more, behind the text b. *)
AddsVariable(f, ps, n, begun, b) ==
    /\ (b \o Half(f, ps, n, begun)) \o FlattenSeq(VariablePieces(f, ps[n + 1], begun))
       = b \o Half(f, ps, n + 1, TRUE)
    /\ Up(FText(ps), n + 1) = Up(FText(ps), n) /\ Up(VText(ps), n + 1) # <<>>
AddsFormal(f, ps, n, start, b) ==
    /\ (b \o Half(f, ps, n, FALSE)) \o FlattenSeq(FormalPieces(ps[n + 1], start))
       = b \o Half(f, ps, n + 1, FALSE)
    /\ Up(FText(ps), n + 1) # <<>> /\ Up(VText(ps), n + 1) = Up(VText(ps), n)

LEMMA WordTexts ==
    /\ <<"[n]">> \in TextType /\ <<"{", "\n">> \in TextType /\ <<"}", "\n">> \in TextType
    /\ <<"line">> \in TextType /\ <<";", "\n">> \in TextType /\ <<",">> \in TextType
    /\ <<"\n">> \in TextType /\ <<")">> \in TextType
BY Texts1, Texts2, LineWords, MarkWords

LEMMA HeadTextType == \A f : HeadText(f) \in TextType
<1> SUFFICES ASSUME NEW f PROVE HeadText(f) \in TextType
  OBVIOUS
<1>1. PICK a, b, c \in TextType : a = <<")">> /\ b = At(f) /\ c = <<"\n">>
  BY AtType, WordTexts
<1>2. (a \o b) \o c \in TextType
  BY TextJoin
<1>. QED
  BY <1>1, <1>2 DEF HeadText

LEMMA ParamTexts ==
    ASSUME NEW p \in ParamType
    PROVE  /\ Plain(p) \in TextType /\ ReturnText(p) \in TextType
           /\ FormalText(p) \in TextType /\ VariableText(p) \in TextType
           /\ FlattenSeq(ParamPieces(p)) = Plain(p)
<1>1. Plain(p) \in TextType
  BY ParamPiecesType, FlattenText DEF Plain
<1>2. ReturnText(p) \in TextType
  BY <1>1, NoPieces DEF ReturnText
<1>3. FormalText(p) \in TextType
  <2>1. <<",">> \o Plain(p) \in TextType
    BY <1>1, WordTexts, TextJoin
  <2>. QED
    BY <2>1, NoPieces DEF FormalText
<1>4. VariableText(p) \in TextType
  <2>1. PICK a, b, c \in TextType : a = <<"line">> /\ b = Plain(p) /\ c = <<";", "\n">>
    BY <1>1, WordTexts
  <2>2. (a \o b) \o c \in TextType
    BY TextJoin
  <2>. QED
    BY <2>1, <2>2, NoPieces DEF VariableText
<1>. QED
  BY <1>1, <1>2, <1>3, <1>4 DEF Plain

LEMMA TextFacts ==
    ASSUME NEW ps \in Seq(ParamType)
    PROVE  LET n == Len(ps) IN
           /\ n \in Nat /\ \A i \in 1 .. n : ps[i] \in ParamType
           /\ RText(ps) \in [1 .. n -> TextType] /\ FText(ps) \in [1 .. n -> TextType]
           /\ VText(ps) \in [1 .. n -> TextType]
           /\ \A i \in 1 .. n : /\ RText(ps)[i] = ReturnText(ps[i]) /\ FText(ps)[i] = FormalText(ps[i])
                                /\ VText(ps)[i] = VariableText(ps[i])
<1>1. PICK n \in Nat : n = Len(ps) /\ \A i \in 1 .. n : ps[i] \in ParamType
  OBVIOUS
<1>2. \A i \in 1 .. n : /\ ReturnText(ps[i]) \in TextType /\ FormalText(ps[i]) \in TextType
                        /\ VariableText(ps[i]) \in TextType
  BY <1>1, ParamTexts
<1>3. RText(ps) \in [1 .. n -> TextType] /\ FText(ps) \in [1 .. n -> TextType]
      /\ VText(ps) \in [1 .. n -> TextType]
  BY <1>1, <1>2 DEF RText, FText, VText
<1>. QED
  BY <1>1, <1>3 DEF RText, FText, VText

LEMMA UpTypes ==
    ASSUME NEW ps \in Seq(ParamType), NEW n \in 0 .. Len(ps)
    PROVE  Up(RText(ps), n) \in TextType /\ Up(FText(ps), n) \in TextType /\ Up(VText(ps), n) \in TextType
BY TextFacts, UpFacts

LEMMA RestType == \A t \in TextType : Rest(t) \in TextType
BY TailJoin, NoPieces DEF Rest

LEMMA HalfType ==
    ASSUME NEW f, Info[f].name \in STRING, NEW ps \in Seq(ParamType), NEW n \in 0 .. Len(ps)
    PROVE  /\ <<Info[f].name, "(">> \in TextType /\ Lead(f, ps, n) \in TextType
           /\ \A begun \in BOOLEAN : Half(f, ps, n, begun) \in TextType /\ Back(f, ps, n, begun) \in TextType
<1>1. <<Info[f].name, "(">> \in TextType
  BY NameIsWord, LineWords, Texts2
<1>2. PICK r, g, v \in TextType : r = Up(RText(ps), n) /\ g = Rest(Up(FText(ps), n)) /\ v = Up(VText(ps), n)
  BY UpTypes, RestType
<1>3. PICK a, m, h, o \in TextType :
          a = <<"[n]">> /\ m = <<Info[f].name, "(">> /\ h = HeadText(f) /\ o = <<"{", "\n">>
  BY <1>1, WordTexts, HeadTextType
<1>4. PICK x \in TextType : x = ((a \o r) \o m) \o g
  BY TextJoin
<1>5. Lead(f, ps, n) = x
  BY <1>2, <1>3, <1>4 DEF Lead
<1>6. (h \o o) \o v \in TextType /\ <<>> \in TextType
  BY TextJoin
<1>7. ASSUME NEW begun \in BOOLEAN
      PROVE  Half(f, ps, n, begun) \in TextType /\ Back(f, ps, n, begun) \in TextType
  <2>1. Back(f, ps, n, begun) \in TextType
    BY <1>2, <1>3, <1>6 DEF Back
  <2>. QED
    BY <1>4, <1>5, <2>1, TextJoin DEF Half
<1>. QED
  BY <1>1, <1>4, <1>5, <1>7

(* PrintHead *)
LEMMA HeadIs ==
    ASSUME NEW f, Info[f].name \in STRING, NEW ps \in Seq(ParamType)
    PROVE  /\ FlattenSeq(<<<<"[n]">>, <<Info[f].name, "(">>>>) = Half(f, ps, 0, FALSE)
           /\ Up(FText(ps), 0) = <<>> /\ Up(VText(ps), 0) = <<>>
<1>1. Up(RText(ps), 0) = <<>> /\ Up(FText(ps), 0) = <<>> /\ Up(VText(ps), 0) = <<>>
  BY TextFacts, UpFacts
<1>2. PICK a, m \in TextType : a = <<"[n]">> /\ m = <<Info[f].name, "(">>
  BY WordTexts, NameIsWord, LineWords, Texts2
<1>3. FlattenSeq(<<a, m>>) = a \o m
  BY FlattenTwo
<1>4. Half(f, ps, 0, FALSE) = (((a \o <<>>) \o m) \o <<>>) \o <<>>
  BY <1>1, <1>2 DEF Half, Lead, Back, Rest
<1>5. a \o <<>> = a /\ a \o m \in TextType
  BY TextJoin
<1>6. (a \o m) \o <<>> = a \o m
  BY <1>5, TextJoin
<1>. QED
  BY <1>1, <1>2, <1>3, <1>4, <1>5, <1>6

LEMMA FlattenThree ==
    ASSUME NEW a \in Pieces, NEW b \in Pieces, NEW c \in Pieces
    PROVE  FlattenSeq((a \o b) \o c) = (FlattenSeq(a) \o FlattenSeq(b)) \o FlattenSeq(c)
<1>1. a \o b \in Pieces
  BY JoinPieces
<1>2. FlattenSeq((a \o b) \o c) = FlattenSeq(a \o b) \o FlattenSeq(c)
  BY <1>1, FlattenTexts
<1>3. FlattenSeq(a \o b) = FlattenSeq(a) \o FlattenSeq(b)
  BY FlattenTexts
<1>. QED
  BY <1>2, <1>3

(* PrintHead, with a return value *)
LEMMA HeadReturnIs ==
    ASSUME NEW f, Info[f].name \in STRING, NEW ps \in Seq(ParamType), Len(ps) >= 1,
           "RETURN" \in ps[1].flags, "VARIABLE" \notin ps[1].flags
    PROVE  /\ FlattenSeq((<<<<"[n]">>>> \o ParamPieces(ps[1])) \o <<<<Info[f].name, "(">>>>)
              = Half(f, ps, 1, FALSE)
           /\ Up(FText(ps), 1) = <<>> /\ Up(VText(ps), 1) = <<>>
<1>1. 1 \in 1 .. Len(ps) /\ 1 - 1 = 0
  OBVIOUS
<1>2. PICK p \in ParamType : p = ps[1]
  BY <1>1
<1>3. /\ Len(ps) \in Nat
      /\ RText(ps)[1] = ReturnText(p) /\ FText(ps)[1] = FormalText(p) /\ VText(ps)[1] = VariableText(p)
      /\ RText(ps) \in [1 .. Len(ps) -> TextType] /\ FText(ps) \in [1 .. Len(ps) -> TextType]
      /\ VText(ps) \in [1 .. Len(ps) -> TextType]
  BY <1>1, <1>2, TextFacts
<1>4. /\ Up(RText(ps), 1) = Up(RText(ps), 1 - 1) \o ReturnText(p)
      /\ Up(FText(ps), 1) = Up(FText(ps), 1 - 1) \o FormalText(p)
      /\ Up(VText(ps), 1) = Up(VText(ps), 1 - 1) \o VariableText(p)
  <2>1. /\ Up(RText(ps), 1) = Up(RText(ps), 1 - 1) \o RText(ps)[1]
        /\ Up(FText(ps), 1) = Up(FText(ps), 1 - 1) \o FText(ps)[1]
        /\ Up(VText(ps), 1) = Up(VText(ps), 1 - 1) \o VText(ps)[1]
    BY <1>1, <1>3, UpFacts, Zenon
  <2>. QED
    BY <1>3, <2>1
<1>5. Up(RText(ps), 0) = <<>> /\ Up(FText(ps), 0) = <<>> /\ Up(VText(ps), 0) = <<>>
  BY <1>3, UpFacts, Zenon
<1>6. PICK q \in TextType : q = Plain(p)
  BY ParamTexts
<1>7. ReturnText(p) = q /\ FormalText(p) = <<>> /\ VariableText(p) = <<>>
  BY <1>2, <1>6 DEF ReturnText, FormalText, VariableText
<1>8. Up(RText(ps), 1) = q /\ Up(FText(ps), 1) = <<>> /\ Up(VText(ps), 1) = <<>>
  <2>1. <<>> \o q = q /\ <<>> \o <<>> = <<>>
    BY TextJoin
  <2>. QED
    BY <1>1, <1>4, <1>5, <1>7, <2>1
<1>9. PICK a, m \in TextType : a = <<"[n]">> /\ m = <<Info[f].name, "(">>
  BY WordTexts, NameIsWord, LineWords, Texts2
<1>10. FlattenSeq((<<a>> \o ParamPieces(p)) \o <<m>>) = (a \o q) \o m
  <2>1. <<a>> \in Pieces /\ ParamPieces(p) \in Pieces /\ <<m>> \in Pieces
    BY OnePiece, ParamPiecesType
  <2>2. FlattenSeq((<<a>> \o ParamPieces(p)) \o <<m>>)
        = (FlattenSeq(<<a>>) \o FlattenSeq(ParamPieces(p))) \o FlattenSeq(<<m>>)
    BY <2>1, FlattenThree
  <2>3. FlattenSeq(<<a>>) = a /\ FlattenSeq(<<m>>) = m
    BY FlattenLine
  <2>. QED
    BY <1>6, <2>2, <2>3 DEF Plain
<1>11. Half(f, ps, 1, FALSE) = (((a \o q) \o m) \o <<>>) \o <<>>
  BY <1>8, <1>9 DEF Half, Lead, Back, Rest
<1>12. (a \o q) \o m \in TextType
  BY TextJoin
<1>13. ((a \o q) \o m) \o <<>> = (a \o q) \o m
  BY <1>12, TextJoin
<1>. QED
  BY <1>2, <1>8, <1>9, <1>10, <1>11, <1>13

(* What one parameter more adds. *)
LEMMA UpOne ==
    ASSUME NEW ps \in Seq(ParamType), NEW n \in 0 .. Len(ps) - 1
    PROVE  /\ n \in 0 .. Len(ps) /\ n + 1 \in 0 .. Len(ps) /\ ps[n + 1] \in ParamType
           /\ Up(RText(ps), n + 1) = Up(RText(ps), n) \o ReturnText(ps[n + 1])
           /\ Up(FText(ps), n + 1) = Up(FText(ps), n) \o FormalText(ps[n + 1])
           /\ Up(VText(ps), n + 1) = Up(VText(ps), n) \o VariableText(ps[n + 1])
<1>1. n + 1 \in 1 .. Len(ps) /\ (n + 1) - 1 = n
  OBVIOUS
<1>2. /\ RText(ps) \in [1 .. Len(ps) -> TextType] /\ FText(ps) \in [1 .. Len(ps) -> TextType]
      /\ VText(ps) \in [1 .. Len(ps) -> TextType] /\ ps[n + 1] \in ParamType /\ Len(ps) \in Nat
      /\ RText(ps)[n + 1] = ReturnText(ps[n + 1]) /\ FText(ps)[n + 1] = FormalText(ps[n + 1])
      /\ VText(ps)[n + 1] = VariableText(ps[n + 1])
  BY <1>1, TextFacts
<1>3. PICK k : k = n + 1 /\ k - 1 = n /\ k \in 1 .. Len(ps)
  BY <1>1
<1>4. /\ Up(RText(ps), k) = Up(RText(ps), k - 1) \o RText(ps)[k]
      /\ Up(FText(ps), k) = Up(FText(ps), k - 1) \o FText(ps)[k]
      /\ Up(VText(ps), k) = Up(VText(ps), k - 1) \o VText(ps)[k]
  BY <1>2, <1>3, UpFacts
<1>5. n \in 0 .. Len(ps) /\ n + 1 \in 0 .. Len(ps)
  BY <1>2
<1>. QED
  BY <1>2, <1>3, <1>4, <1>5, Zenon

(* PrintVariable *)
LEMMA VariableIs ==
    ASSUME NEW f, Info[f].name \in STRING, NEW ps \in Seq(ParamType), NEW n \in 0 .. Len(ps) - 1,
           "RETURN" \notin ps[n + 1].flags, "VARIABLE" \in ps[n + 1].flags, NEW begun \in BOOLEAN,
           ~begun => Up(VText(ps), n) = <<>>, NEW b \in TextType
    PROVE  AddsVariable(f, ps, n, begun, b)
<1>1. PICK p \in ParamType : p = ps[n + 1]
  BY UpOne
<1>2. PICK q, l, s \in TextType : q = Plain(p) /\ l = <<"line">> /\ s = <<";", "\n">>
  BY ParamTexts, WordTexts
<1>3. PICK v \in TextType : v = (l \o q) \o s
  BY TextJoin
<1>4. VariableText(p) = v /\ ReturnText(p) = <<>> /\ FormalText(p) = <<>>
  BY <1>1, <1>2, <1>3 DEF VariableText, ReturnText, FormalText
<1>5. PICK r, g, w \in TextType : r = Up(RText(ps), n) /\ g = Up(FText(ps), n) /\ w = Up(VText(ps), n)
  BY UpTypes, UpOne
<1>6. Up(RText(ps), n + 1) = r /\ Up(FText(ps), n + 1) = g /\ Up(VText(ps), n + 1) = w \o v
  <2>1. r \o <<>> = r /\ g \o <<>> = g
    BY TextJoin
  <2>. QED
    BY <1>1, <1>4, <1>5, <2>1, UpOne
<1>7. w \o v # <<>>
  <2>1. PICK u \in TextType : u = l \o q
    BY TextJoin
  <2>2. s # <<>>
    BY <1>2
  <2>3. u \o s # <<>>
    BY <2>2, TextEmpty
  <2>. QED
    BY <1>3, <2>1, <2>3, TextEmpty
<1>8. PICK x \in TextType : x = Lead(f, ps, n)
  BY UpOne, HalfType
<1>9. Lead(f, ps, n + 1) = x
  BY <1>5, <1>6, <1>8 DEF Lead
<1>10. PICK h, o \in TextType : h = HeadText(f) /\ o = <<"{", "\n">>
  BY HeadTextType, WordTexts
<1>11. PICK ho \in TextType : ho = h \o o
  BY TextJoin
<1>12. Half(f, ps, n + 1, TRUE) = x \o (ho \o (w \o v))
  BY <1>6, <1>9, <1>10, <1>11 DEF Half, Back
<1>13. PICK e \in Pieces : e = IF begun THEN <<>> ELSE <<h>> \o <<o>>
  BY NoPieces, OnePiece, JoinPieces
<1>14. FlattenSeq(((e \o <<l>>) \o ParamPieces(p)) \o <<s>>) = FlattenSeq(e) \o v
  <2>1. <<l>> \in Pieces /\ ParamPieces(p) \in Pieces /\ <<s>> \in Pieces /\ e \o <<l>> \in Pieces
    BY OnePiece, ParamPiecesType, JoinPieces
  <2>2. FlattenSeq(((e \o <<l>>) \o ParamPieces(p)) \o <<s>>)
        = (FlattenSeq(e \o <<l>>) \o FlattenSeq(ParamPieces(p))) \o FlattenSeq(<<s>>)
    BY <2>1, FlattenThree
  <2>3. FlattenSeq(e \o <<l>>) = FlattenSeq(e) \o FlattenSeq(<<l>>)
    BY <2>1, FlattenTexts
  <2>4. FlattenSeq(<<l>>) = l /\ FlattenSeq(<<s>>) = s /\ FlattenSeq(ParamPieces(p)) = q
    BY <1>2, FlattenLine, ParamTexts
  <2>5. PICK t \in TextType : t = FlattenSeq(e)
    BY FlattenText
  <2>6. ((t \o l) \o q) \o s = t \o ((l \o q) \o s)
    <3>1. (t \o l) \o q = t \o (l \o q)
      <4>1. Again(t, l, q)
        BY TextAgain
      <4>. QED
        BY <4>1 DEF Again
    <3>3. l \o q \in TextType
      BY TextJoin
    <3>2. (t \o (l \o q)) \o s = t \o ((l \o q) \o s)
      <4>1. Again(t, l \o q, s)
        BY <3>3, TextAgain
      <4>. QED
        BY <4>1 DEF Again
    <3>. QED
      BY <3>1, <3>2, Zenon
  <2>. QED
    BY <1>3, <2>2, <2>3, <2>4, <2>5, <2>6
<1>15. (b \o Half(f, ps, n, begun)) \o (FlattenSeq(e) \o v) = b \o (x \o (ho \o (w \o v)))
  <2>1. CASE begun
    <3>1. Half(f, ps, n, begun) = x \o (ho \o w)
      BY <1>5, <1>8, <1>10, <1>11, <2>1 DEF Half, Back
    <3>2. FlattenSeq(e) \o v = v
      <4>1. e = <<>>
        BY <1>13, <2>1
      <4>. QED
        BY <4>1, FlattenNone, TextJoin
    <3>3. PICK y \in TextType : y = ho \o w
      BY TextJoin
    <3>4. (b \o (x \o y)) \o v = b \o (x \o (y \o v))
      <4>1. PICK xy \in TextType : xy = x \o y
        BY TextJoin
      <4>2. (b \o xy) \o v = b \o (xy \o v)
        <5>1. Again(b, xy, v)
          BY TextAgain
        <5>. QED
          BY <5>1 DEF Again
      <4>3. (x \o y) \o v = x \o (y \o v)
        <5>1. Again(x, y, v)
          BY TextAgain
        <5>. QED
          BY <5>1 DEF Again
      <4>. QED
        BY <4>1, <4>2, <4>3, Zenon
    <3>5. (ho \o w) \o v = ho \o (w \o v)
      <4>1. Again(ho, w, v)
        BY TextAgain
      <4>. QED
        BY <4>1 DEF Again
    <3>. QED
      BY <3>1, <3>2, <3>3, <3>4, <3>5
  <2>2. CASE ~begun
    <3>1. Half(f, ps, n, begun) = x
      <4>1. Half(f, ps, n, begun) = x \o <<>>
        BY <1>8, <2>2 DEF Half, Back
      <4>. QED
        BY <4>1, TextJoin
    <3>2. w = <<>> /\ w \o v = v
      BY <1>5, <2>2, TextJoin
    <3>3. FlattenSeq(e) = ho
      <4>1. <<h>> \in Pieces /\ <<o>> \in Pieces /\ e = <<h>> \o <<o>>
        BY <1>13, <2>2, OnePiece
      <4>2. FlattenSeq(e) = FlattenSeq(<<h>>) \o FlattenSeq(<<o>>)
        BY <4>1, FlattenTexts
      <4>. QED
        BY <1>11, <4>2, FlattenLine
    <3>4. PICK y \in TextType : y = ho \o v
      BY TextJoin
    <3>5. (b \o x) \o y = b \o (x \o y)
      <4>1. Again(b, x, y)
        BY TextAgain
      <4>. QED
        BY <4>1 DEF Again
    <3>. QED
      BY <3>1, <3>2, <3>3, <3>4, <3>5
  <2>. QED
    BY <2>1, <2>2
<1>16. VariablePieces(f, ps[n + 1], begun) = ((e \o <<l>>) \o ParamPieces(p)) \o <<s>>
  BY <1>1, <1>2, <1>10, <1>13, Zenon DEF VariablePieces
<1>. QED
  BY <1>5, <1>6, <1>7, <1>12, <1>14, <1>15, <1>16, Zenon DEF AddsVariable

LEMMA OneWord == ASSUME NEW a PROVE Len(<<a>>) = 1 /\ <<a>> # <<>> /\ Tail(<<a>>) = <<>>
<1>1. Len(<<a>>) = 1 /\ <<a>> # <<>>
  OBVIOUS
<1>2. <<a>> \in Seq({a}) /\ Tail(<<a>>) \in Seq({a}) /\ Len(Tail(<<a>>)) = 0
  OBVIOUS
<1>. QED
  BY <1>1, <1>2, NoElements

(* PrintParam *)
LEMMA FormalIs ==
    ASSUME NEW f, Info[f].name \in STRING, NEW ps \in Seq(ParamType), NEW n \in 0 .. Len(ps) - 1,
           ps[n + 1].flags \cap {"RETURN", "VARIABLE"} = {}, NEW start \in BOOLEAN,
           start <=> Up(FText(ps), n) = <<>>, NEW b \in TextType
    PROVE  AddsFormal(f, ps, n, start, b)
<1>1. PICK p \in ParamType : p = ps[n + 1]
  BY UpOne
<1>2. PICK q, k \in TextType : q = Plain(p) /\ k = <<",">>
  BY ParamTexts, WordTexts
<1>3. PICK v \in TextType : v = k \o q
  BY TextJoin
<1>4. FormalText(p) = v /\ ReturnText(p) = <<>> /\ VariableText(p) = <<>>
  BY <1>1, <1>2, <1>3 DEF VariableText, ReturnText, FormalText
<1>5. PICK r, g, w \in TextType : r = Up(RText(ps), n) /\ g = Up(FText(ps), n) /\ w = Up(VText(ps), n)
  BY UpTypes, UpOne
<1>6. Up(RText(ps), n + 1) = r /\ Up(FText(ps), n + 1) = g \o v /\ Up(VText(ps), n + 1) = w
  <2>1. r \o <<>> = r /\ w \o <<>> = w
    BY TextJoin
  <2>. QED
    BY <1>1, <1>4, <1>5, <2>1, UpOne
<1>7. v # <<>> /\ Tail(v) = q
  <2>1. Len(v) = Len(k) + Len(q) /\ Len(k) = 1 /\ Len(q) \in Nat
    <3>1. Len(k \o q) = Len(k) + Len(q) /\ Len(q) \in Nat
      BY JoinType DEF TextType
    <3>2. Len(k) = 1
      BY <1>2, OneWord
    <3>. QED
      BY <1>3, <3>1, <3>2
  <2>2. v # <<>>
    <3>1. k # <<>>
      BY <1>2
    <3>2. Len(v) # 0
      BY <2>1
    <3>. QED
      BY <3>2
  <2>3. k # <<>> /\ Tail(k) = <<>>
    BY <1>2, OneWord
  <2>4. Tail(k \o q) = Tail(k) \o q
    BY <2>3, TailJoin
  <2>5. <<>> \o q = q
    BY TextJoin
  <2>. QED
    BY <1>3, <2>2, <2>3, <2>4, <2>5
<1>8. g \o v # <<>>
  BY <1>7, TextEmpty
<1>9. PICK y \in TextType : y = (<<"[n]">> \o r) \o <<Info[f].name, "(">>
  <2>1. PICK a, m \in TextType : a = <<"[n]">> /\ m = <<Info[f].name, "(">>
    BY WordTexts, NameIsWord, LineWords, Texts2
  <2>2. (a \o r) \o m \in TextType
    BY TextJoin
  <2>. QED
    BY <2>1, <2>2
<1>10. PICK x, z \in TextType : x = Rest(g) /\ z = y \o x
  BY RestType, TextJoin
<1>11. Half(f, ps, n, FALSE) = z
  <2>1. Half(f, ps, n, FALSE) = z \o <<>>
    BY <1>5, <1>9, <1>10 DEF Half, Lead, Back
  <2>. QED
    BY <2>1, TextJoin
<1>12. Half(f, ps, n + 1, FALSE) = y \o Tail(g \o v)
  <2>1. Half(f, ps, n + 1, FALSE) = (y \o Tail(g \o v)) \o <<>>
    BY <1>6, <1>8, <1>9 DEF Half, Lead, Back, Rest
  <2>2. Tail(g \o v) \in TextType
    <3>1. g \o v \in TextType
      BY TextJoin
    <3>. QED
      BY <1>8, <3>1, TailJoin
  <2>3. y \o Tail(g \o v) \in TextType
    BY <2>2, TextJoin
  <2>. QED
    BY <2>1, <2>3, TextJoin
<1>13. PICK e \in Pieces : e = IF start THEN <<>> ELSE <<k>>
  BY NoPieces, OnePiece
<1>14. FlattenSeq(e \o ParamPieces(p)) = FlattenSeq(e) \o q
  <2>1. ParamPieces(p) \in Pieces /\ FlattenSeq(ParamPieces(p)) = q
    BY <1>2, ParamPiecesType, ParamTexts
  <2>. QED
    BY <2>1, FlattenTexts
<1>15. (b \o z) \o (FlattenSeq(e) \o q) = b \o (y \o Tail(g \o v))
  <2>1. CASE start
    <3>1. FlattenSeq(e) = <<>> /\ g = <<>> /\ x = <<>>
      BY <1>5, <1>10, <1>13, <2>1, FlattenNone DEF Rest
    <3>2. <<>> \o q = q /\ <<>> \o v = v /\ y \o <<>> = y
      BY TextJoin
    <3>3. (b \o y) \o q = b \o (y \o q)
      <4>1. Again(b, y, q)
        BY TextAgain
      <4>. QED
        BY <4>1 DEF Again
    <3>. QED
      BY <1>7, <1>10, <3>1, <3>2, <3>3
  <2>2. CASE ~start
    <3>1. FlattenSeq(e) = k
      BY <1>13, <2>2, FlattenLine
    <3>2. g # <<>> /\ x = Tail(g) /\ Tail(g \o v) = x \o v
      <4>1. g # <<>>
        BY <1>5, <2>2
      <4>. QED
        BY <1>10, <4>1, TailJoin DEF Rest
    <3>3. (b \o z) \o v = b \o (z \o v)
      <4>1. Again(b, z, v)
        BY TextAgain
      <4>. QED
        BY <4>1 DEF Again
    <3>4. (y \o x) \o v = y \o (x \o v)
      <4>1. Again(y, x, v)
        BY TextAgain
      <4>. QED
        BY <4>1 DEF Again
    <3>. QED
      BY <1>3, <1>10, <3>1, <3>2, <3>3, <3>4, Zenon
  <2>. QED
    BY <2>1, <2>2
<1>16. FormalPieces(ps[n + 1], start) = e \o ParamPieces(p)
  BY <1>1, <1>2, <1>13, Zenon DEF FormalPieces
<1>. QED
  BY <1>5, <1>6, <1>8, <1>11, <1>12, <1>14, <1>15, <1>16, Zenon DEF AddsFormal

(* PrintTail *)
LEMMA TailIs ==
    ASSUME NEW f, Info[f].name \in STRING, NEW ps \in Seq(ParamType), NEW begun \in BOOLEAN,
           begun <=> Up(VText(ps), Len(ps)) # <<>>, NEW b \in TextType
    PROVE  (b \o Half(f, ps, Len(ps), begun))
           \o FlattenSeq((IF begun THEN <<<<"}", "\n">>>> ELSE <<HeadText(f)>>) \o <<<<"\n">>>>)
           = b \o PrettyOf(f, ps)
<1>1. PICK n \in Nat : n = Len(ps) /\ n \in 0 .. Len(ps)
  OBVIOUS
<1>2. PICK x, v, h, o, c, l \in TextType :
          /\ x = Lead(f, ps, n) /\ v = Up(VText(ps), n) /\ h = HeadText(f)
          /\ o = <<"{", "\n">> /\ c = <<"}", "\n">> /\ l = <<"\n">>
  BY <1>1, HalfType, UpTypes, HeadTextType, WordTexts
<1>3. CASE begun
  <2>1. FlattenSeq(<<c>> \o <<l>>) = c \o l
    <3>1. <<c>> \in Pieces /\ <<l>> \in Pieces
      BY OnePiece
    <3>2. FlattenSeq(<<c>>) = c /\ FlattenSeq(<<l>>) = l
      BY FlattenLine
    <3>3. FlattenSeq(<<c>> \o <<l>>) = FlattenSeq(<<c>>) \o FlattenSeq(<<l>>)
      BY <3>1, FlattenTexts
    <3>. QED
      BY <3>2, <3>3
  <2>2. Half(f, ps, n, begun) = x \o ((h \o o) \o v)
    BY <1>2, <1>3 DEF Half, Back
  <2>3. PrettyOf(f, ps) = ((x \o h) \o ((o \o v) \o c)) \o l
    BY <1>1, <1>2, <1>3 DEF PrettyOf
  <2>4. PICK k, m \in TextType : k = o \o v /\ m = c \o l
    BY TextJoin
  <2>5. (h \o o) \o v = h \o k
    <3>1. Again(h, o, v)
      BY TextAgain
    <3>. QED
      BY <2>4, <3>1 DEF Again
  <2>6. PICK hk, xhk, km, xh \in TextType :
            hk = h \o k /\ xhk = x \o hk /\ km = k \o m /\ xh = x \o h
    <3>1. h \o k \in TextType /\ k \o m \in TextType /\ x \o h \in TextType
      BY TextJoin
    <3>2. x \o (h \o k) \in TextType
      BY <3>1, TextJoin
    <3>. QED
      BY <3>1, <3>2
  <2>7. Again(b, xhk, m) /\ Again(x, hk, m) /\ Again(h, k, m) /\ Again(x, h, km)
    BY TextAgain
  <2>8. (b \o xhk) \o m = b \o (xhk \o m) /\ xhk \o m = x \o (hk \o m) /\ hk \o m = h \o km
        /\ xh \o km = x \o (h \o km)
    BY <2>6, <2>7, Zenon DEF Again
  <2>9. PICK kc \in TextType : kc = k \o c
    BY TextJoin
  <2>10. Again(xh, kc, l) /\ Again(k, c, l)
    BY TextAgain
  <2>11. (xh \o kc) \o l = xh \o (kc \o l) /\ kc \o l = km
    BY <2>4, <2>6, <2>9, <2>10, Zenon DEF Again
  <2>12. (b \o (x \o ((h \o o) \o v))) \o (c \o l) = b \o (xh \o km)
    <3>1. (b \o (x \o ((h \o o) \o v))) \o (c \o l) = (b \o xhk) \o m
      BY <2>4, <2>5, <2>6, Zenon
    <3>2. xhk \o m = xh \o km
      BY <2>8, Zenon
    <3>. QED
      BY <2>8, <3>1, <3>2, Zenon
  <2>13. ((x \o h) \o ((o \o v) \o c)) \o l = xh \o km
    BY <2>4, <2>6, <2>9, <2>11, Zenon
  <2>. QED
    BY <1>1, <1>2, <1>3, <2>1, <2>2, <2>3, <2>12, <2>13
<1>4. CASE ~begun
  <2>1. FlattenSeq(<<h>> \o <<l>>) = h \o l
    <3>1. <<h>> \in Pieces /\ <<l>> \in Pieces
      BY OnePiece
    <3>2. FlattenSeq(<<h>>) = h /\ FlattenSeq(<<l>>) = l
      BY FlattenLine
    <3>3. FlattenSeq(<<h>> \o <<l>>) = FlattenSeq(<<h>>) \o FlattenSeq(<<l>>)
      BY <3>1, FlattenTexts
    <3>. QED
      BY <3>2, <3>3
  <2>2. Half(f, ps, n, begun) = x
    <3>1. Half(f, ps, n, begun) = x \o <<>>
      BY <1>2, <1>4 DEF Half, Back
    <3>. QED
      BY <3>1, TextJoin
  <2>3. PICK xh, hl \in TextType : xh = x \o h /\ hl = h \o l
    BY TextJoin
  <2>4. PrettyOf(f, ps) = xh \o l
    <3>1. PrettyOf(f, ps) = (xh \o <<>>) \o l
      BY <1>1, <1>2, <1>4, <2>3 DEF PrettyOf
    <3>. QED
      BY <3>1, TextJoin
  <2>5. Again(b, x, hl) /\ Again(x, h, l)
    BY TextAgain
  <2>6. (b \o x) \o hl = b \o (xh \o l)
    BY <2>3, <2>5, Zenon DEF Again
  <2>. QED
    BY <1>1, <1>2, <1>4, <2>1, <2>2, <2>3, <2>4, <2>6
<1>. QED
  BY <1>3, <1>4

-----------------------------------------------------------------------------
(* The pieces of each step are pieces. *)
LEMMA StepPieces ==
    ASSUME NEW f, Info[f].name \in STRING
    PROVE  /\ \A ps \in Seq(ParamType) : OpenPieces(f, ps) \in Pieces
           /\ \A p \in ParamType, b \in BOOLEAN :
                  VariablePieces(f, p, b) \in Pieces /\ FormalPieces(p, b) \in Pieces
           /\ \A b \in BOOLEAN : ClosePieces(f, b) \in Pieces
           /\ SimplePieces(f) \in Pieces
<1>1. PICK a, m, t, h, o, c, l, k, s, r \in TextType :
          /\ a = <<"[n]">> /\ m = <<Info[f].name, "(">> /\ t = At(f) /\ h = HeadText(f)
          /\ o = <<"{", "\n">> /\ c = <<"}", "\n">> /\ l = <<"\n">> /\ k = <<",">> /\ s = <<";", "\n">>
          /\ r = <<"line">>
  <2>1. <<Info[f].name, "(">> \in TextType
    BY NameIsWord, LineWords, Texts2
  <2>2. At(f) \in TextType /\ HeadText(f) \in TextType
    BY AtType, HeadTextType
  <2>. QED
    BY <2>1, <2>2, WordTexts
<1>2. ASSUME NEW ps \in Seq(ParamType) PROVE OpenPieces(f, ps) \in Pieces
  <2>1. CASE ps # <<>> /\ "RETURN" \in ps[1].flags
    <3>1. ParamPieces(ps[1]) \in Pieces
      <4>1. ps[1] \in ParamType
        BY <2>1
      <4>. QED
        BY <4>1, ParamPiecesType
    <3>2. <<a>> \in Pieces /\ <<m>> \in Pieces
      BY OnePiece
    <3>3. <<a>> \o ParamPieces(ps[1]) \in Pieces
      BY <3>1, <3>2, JoinPieces
    <3>4. (<<a>> \o ParamPieces(ps[1])) \o <<m>> \in Pieces
      BY <3>2, <3>3, JoinPieces
    <3>5. OpenPieces(f, ps) = (<<a>> \o ParamPieces(ps[1])) \o <<m>>
      BY <1>1, <2>1, Zenon DEF OpenPieces
    <3>. QED
      BY <3>4, <3>5
  <2>2. CASE ~(ps # <<>> /\ "RETURN" \in ps[1].flags)
    <3>1. OpenPieces(f, ps) = <<a, m>>
      BY <1>1, <2>2, Zenon DEF OpenPieces
    <3>. QED
      BY <3>1, TwoPieces
  <2>. QED
    BY <2>1, <2>2
<1>3. ASSUME NEW p \in ParamType, NEW b \in BOOLEAN
      PROVE  VariablePieces(f, p, b) \in Pieces /\ FormalPieces(p, b) \in Pieces
  <2>1. ParamPieces(p) \in Pieces /\ <<h>> \in Pieces /\ <<o>> \in Pieces /\ <<r>> \in Pieces
        /\ <<s>> \in Pieces /\ <<k>> \in Pieces
    BY ParamPiecesType, OnePiece
  <2>2. PICK e, g \in Pieces : e = (IF b THEN <<>> ELSE <<h>> \o <<o>>) /\ g = IF b THEN <<>> ELSE <<k>>
    BY <2>1, NoPieces, JoinPieces
  <2>3. PICK u \in Pieces : u = (e \o <<r>>) \o ParamPieces(p)
    BY <2>1, JoinPieces
  <2>4. u \o <<s>> \in Pieces /\ g \o ParamPieces(p) \in Pieces
    BY <2>1, JoinPieces
  <2>5. VariablePieces(f, p, b) = u \o <<s>> /\ FormalPieces(p, b) = g \o ParamPieces(p)
    BY <1>1, <2>2, <2>3, Zenon DEF VariablePieces, FormalPieces
  <2>. QED
    BY <2>4, <2>5
<1>4. ASSUME NEW b \in BOOLEAN PROVE ClosePieces(f, b) \in Pieces
  <2>1. PICK e \in Pieces : e = IF b THEN <<c>> ELSE <<h>>
    BY OnePiece
  <2>2. e \o <<l>> \in Pieces
    BY OnePiece, JoinPieces
  <2>3. ClosePieces(f, b) = e \o <<l>>
    BY <1>1, <2>1, Zenon DEF ClosePieces
  <2>. QED
    BY <2>2, <2>3
<1>5. SimplePieces(f) \in Pieces
  <2>1. PICK n \in TextType : n = <<Info[f].name, "()">>
    BY NameIsWord, LineWords, Texts2
  <2>2. <<a, n, t, l>> \in Pieces
    BY DEF Pieces
  <2>. QED
    BY <1>1, <2>1, <2>2 DEF SimplePieces
<1>. QED
  BY <1>2, <1>3, <1>4, <1>5

LEMMA OneAndTwo == ASSUME NEW x, NEW y, NEW z PROVE <<x>> \o <<y, z>> = <<x, y, z>>
<1>1. PICK S : S = {x, y, z}
  OBVIOUS
<1>2. PICK a, b \in Seq(S) : a = <<x>> /\ b = <<y, z>>
  <2>1. x \in S /\ y \in S /\ z \in S
    BY <1>1
  <2>2. <<x>> \in Seq(S)
    BY <2>1
  <2>3. <<y, z>> \in Seq(S)
    BY <2>1
  <2>. QED
    BY <2>2, <2>3
<1>3. Len(a) = 1 /\ a[1] = x /\ Len(b) = 2 /\ b[1] = y /\ b[2] = z
  BY <1>2
<1>4. PICK c, d \in Seq(S) : c = a \o b /\ d = <<x, y, z>>
  <2>1. a \o b \in Seq(S)
    BY JoinType
  <2>2. <<x, y, z>> \in Seq(S)
    BY <1>1
  <2>. QED
    BY <2>1, <2>2
<1>5. Len(c) = 3 /\ c[1] = x /\ c[2] = y /\ c[3] = z
  <2>1. Len(c) = Len(a) + Len(b)
    BY <1>4, JoinType
  <2>2. \A i \in 1 .. Len(a) : c[i] = a[i]
    BY <1>4
  <2>3. \A i \in 1 .. Len(b) : c[Len(a) + i] = b[i]
    BY <1>4
  <2>4. 1 \in 1 .. Len(a) /\ 1 \in 1 .. Len(b) /\ 2 \in 1 .. Len(b) /\ Len(a) + 1 = 2 /\ Len(a) + 2 = 3
        /\ Len(a) + Len(b) = 3
    BY <1>3
  <2>5. c[1] = a[1] /\ c[Len(a) + 1] = b[1] /\ c[Len(a) + 2] = b[2]
    BY <2>2, <2>3, <2>4
  <2>. QED
    BY <1>3, <2>1, <2>4, <2>5
<1>6. Len(d) = 3 /\ d[1] = x /\ d[2] = y /\ d[3] = z
  BY <1>4
<1>7. \A i \in 1 .. 3 : c[i] = d[i]
  <2>1. \A i \in 1 .. 3 : i = 1 \/ i = 2 \/ i = 3
    OBVIOUS
  <2>. QED
    BY <1>5, <1>6, <2>1
<1>8. c = d
  BY <1>5, <1>6, <1>7, SeqEqual
<1>. QED
  BY <1>2, <1>4, <1>8

LEMMA SimpleIs ==
    ASSUME NEW f, Info[f].name \in STRING
    PROVE  FlattenSeq(SimplePieces(f)) = SimpleOf(f) /\ SimpleOf(f) \in TextType
<1>1. PICK a, n, t, l \in TextType :
          a = <<"[n]">> /\ n = <<Info[f].name, "()">> /\ t = At(f) /\ l = <<"\n">>
  <2>1. <<Info[f].name, "()">> \in TextType
    BY NameIsWord, LineWords, Texts2
  <2>. QED
    BY <2>1, AtType, WordTexts
<1>2. FlattenSeq(<<a, n, t, l>>) = ((a \o n) \o t) \o l
  <2>1. FlatFour(a, n, t, l)
    BY FlattenFour
  <2>. QED
    BY <2>1 DEF FlatFour
<1>3. a \o n = <<"[n]", Info[f].name, "()">>
  BY <1>1, OneAndTwo
<1>4. ((a \o n) \o t) \o l \in TextType
  BY TextJoin
<1>. QED
  BY <1>1, <1>2, <1>3, <1>4 DEF SimplePieces, SimpleOf

-----------------------------------------------------------------------------
(* The text of a trace *)

SimpleUp(fs, k) == FlattenSeq([i \in 1 .. k |-> SimpleOf(fs[i])])
PrettyUp(fs, pss, k) == FlattenSeq([i \in 1 .. k |-> PrettyOf(fs[i], pss[i])])

LEMMA UpIs ==
    ASSUME NEW n \in Nat, NEW F \in [1 .. n -> TextType], NEW k \in 0 .. n, NEW G,
           G = [i \in 1 .. k |-> F[i]]
    PROVE  FlattenSeq(G) = Up(F, k)
BY DEF Up

LEMMA SimpleUpFacts ==
    ASSUME NEW fs \in Seq(Functions)
    PROVE  /\ SimpleUp(fs, 0) = <<>>
           /\ \A k \in 1 .. Len(fs) : SimpleUp(fs, k) = SimpleUp(fs, k - 1) \o SimpleOf(fs[k])
<1>1. PICK n \in Nat : n = Len(fs) /\ \A i \in 1 .. n : fs[i] \in Functions
  OBVIOUS
<1>2. PICK F : F = [i \in 1 .. n |-> SimpleOf(fs[i])]
  OBVIOUS
<1>3. F \in [1 .. n -> TextType]
  <2>1. \A i \in 1 .. n : SimpleOf(fs[i]) \in TextType
    BY <1>1, InfoAssumption, SimpleIs
  <2>. QED
    BY <1>2, <2>1
<1>4. ASSUME NEW k \in 0 .. n PROVE SimpleUp(fs, k) = Up(F, k)
  <2>1. [i \in 1 .. k |-> SimpleOf(fs[i])] = [i \in 1 .. k |-> F[i]]
    BY <1>2
  <2>. QED
    BY <2>1 DEF SimpleUp, Up
<1>5. SimpleUp(fs, 0) = <<>>
  <2>1. 0 \in 0 .. n
    OBVIOUS
  <2>2. SimpleUp(fs, 0) = Up(F, 0)
    BY <1>4, <2>1
  <2>. QED
    BY <1>3, <2>2, UpFacts
<1>6. ASSUME NEW k \in 1 .. n PROVE SimpleUp(fs, k) = SimpleUp(fs, k - 1) \o SimpleOf(fs[k])
  <2>1. k \in 0 .. n /\ k - 1 \in 0 .. n
    OBVIOUS
  <2>2. SimpleUp(fs, k) = Up(F, k) /\ SimpleUp(fs, k - 1) = Up(F, k - 1)
    BY <1>4, <2>1
  <2>3. Up(F, k) = Up(F, k - 1) \o F[k]
    BY <1>3, UpFacts
  <2>. QED
    BY <1>2, <2>2, <2>3
<1>. QED
  BY <1>1, <1>5, <1>6

LEMMA PrettyType ==
    ASSUME NEW f, Info[f].name \in STRING, NEW ps \in Seq(ParamType)
    PROVE  PrettyOf(f, ps) \in TextType
<1>1. Len(ps) \in 0 .. Len(ps)
  OBVIOUS
<1>2. PICK x, v, h, o, c, l \in TextType :
          /\ x = Lead(f, ps, Len(ps)) /\ v = Up(VText(ps), Len(ps)) /\ h = HeadText(f)
          /\ o = <<"{", "\n">> /\ c = <<"}", "\n">> /\ l = <<"\n">>
  BY <1>1, HalfType, UpTypes, HeadTextType, WordTexts
<1>3. PICK e \in TextType : e = IF v = <<>> THEN <<>> ELSE (o \o v) \o c
  <2>1. (o \o v) \o c \in TextType
    BY TextJoin
  <2>. QED
    BY <2>1, NoPieces
<1>4. ((x \o h) \o e) \o l \in TextType
  BY TextJoin
<1>. QED
  BY <1>2, <1>3, <1>4 DEF PrettyOf

LEMMA PrettyUpFacts ==
    ASSUME NEW fs \in Seq(Functions), NEW pss \in Seq(Seq(ParamType)), Len(pss) = Len(fs)
    PROVE  /\ PrettyUp(fs, pss, 0) = <<>>
           /\ \A k \in 0 .. Len(fs) : PrettyUp(fs, pss, k) \in TextType
           /\ \A k \in 1 .. Len(fs) :
                  PrettyUp(fs, pss, k) = PrettyUp(fs, pss, k - 1) \o PrettyOf(fs[k], pss[k])
<1>1. PICK n \in Nat : /\ n = Len(fs) /\ \A i \in 1 .. n : fs[i] \in Functions
                       /\ \A i \in 1 .. n : pss[i] \in Seq(ParamType)
  OBVIOUS
<1>2. PICK F : F = [i \in 1 .. n |-> PrettyOf(fs[i], pss[i])]
  OBVIOUS
<1>3. F \in [1 .. n -> TextType]
  <2>1. \A i \in 1 .. n : PrettyOf(fs[i], pss[i]) \in TextType
    BY <1>1, InfoAssumption, PrettyType
  <2>. QED
    BY <1>2, <2>1
<1>4. ASSUME NEW k \in 0 .. n PROVE PrettyUp(fs, pss, k) = Up(F, k)
  <2>1. [i \in 1 .. k |-> PrettyOf(fs[i], pss[i])] = [i \in 1 .. k |-> F[i]]
    BY <1>2
  <2>. QED
    BY <2>1 DEF PrettyUp, Up
<1>5. PrettyUp(fs, pss, 0) = <<>> /\ \A k \in 0 .. n : PrettyUp(fs, pss, k) \in TextType
  <2>1. 0 \in 0 .. n
    OBVIOUS
  <2>2. PrettyUp(fs, pss, 0) = Up(F, 0)
    BY <1>4, <2>1
  <2>3. Up(F, 0) = <<>> /\ \A k \in 0 .. n : Up(F, k) \in TextType
    BY <1>3, UpFacts
  <2>. QED
    BY <1>4, <2>2, <2>3
<1>6. ASSUME NEW k \in 1 .. n
      PROVE  PrettyUp(fs, pss, k) = PrettyUp(fs, pss, k - 1) \o PrettyOf(fs[k], pss[k])
  <2>1. k \in 0 .. n /\ k - 1 \in 0 .. n
    OBVIOUS
  <2>2. PrettyUp(fs, pss, k) = Up(F, k) /\ PrettyUp(fs, pss, k - 1) = Up(F, k - 1)
    BY <1>4, <2>1
  <2>3. Up(F, k) = Up(F, k - 1) \o F[k]
    BY <1>3, UpFacts
  <2>. QED
    BY <1>2, <2>2, <2>3
<1>. QED
  BY <1>1, <1>5, <1>6

(* What the properties call the text of a function. *)
LEMMA TextIs ==
    \A i : SimpleText(i) = SimpleOf(functions[i])
<1>. QED
  BY DEF SimpleText, SimpleOf

LEMMA PrettyTextIs ==
    ASSUME NEW i, functions[i] \in Functions, params[i] \in Seq(ParamType)
    PROVE  PrettyText(i) = PrettyOf(functions[i], params[i])
<1>1. PICK ps \in Seq(ParamType), f \in Functions : ps = params[i] /\ f = functions[i]
  OBVIOUS
<1>2. PICK n \in Nat : n = Len(ps) /\ n \in 0 .. Len(ps)
  OBVIOUS
<1>3. PICK r, g, v \in TextType : r = Up(RText(ps), n) /\ g = Up(FText(ps), n) /\ v = Up(VText(ps), n)
  BY <1>2, UpTypes
<1>4. r = Texts(ps, ReturnText)
  <2>1. r = FlattenSeq(RText(ps))
    BY <1>2, <1>3, TextFacts, UpFacts
  <2>. QED
    BY <2>1 DEF RText, Texts
<1>5. g = Texts(ps, FormalText)
  <2>1. g = FlattenSeq(FText(ps))
    BY <1>2, <1>3, TextFacts, UpFacts
  <2>. QED
    BY <2>1 DEF FText, Texts
<1>6. v = Texts(ps, VariableText)
  <2>1. v = FlattenSeq(VText(ps))
    BY <1>2, <1>3, TextFacts, UpFacts
  <2>. QED
    BY <2>1 DEF VText, Texts
<1>7. PICK a, m, p, t, l, o, c \in TextType :
          /\ a = <<"[n]">> /\ m = <<Info[f].name, "(">> /\ p = <<")">> /\ t = At(f) /\ l = <<"\n">>
          /\ o = <<"{", "\n">> /\ c = <<"}", "\n">>
  <2>1. <<Info[f].name, "(">> \in TextType
    BY InfoAssumption, NameIsWord, LineWords, Texts2
  <2>. QED
    BY <2>1, AtType, WordTexts
<1>8. PICK x, e \in TextType : x = ((a \o r) \o m) \o Rest(g) /\ e = IF v = <<>> THEN <<>> ELSE (o \o v) \o c
  <2>1. Rest(g) \in TextType /\ (a \o r) \o m \in TextType /\ (o \o v) \o c \in TextType /\ <<>> \in TextType
    BY RestType, TextJoin
  <2>. QED
    BY <2>1, TextJoin
<1>9. PrettyText(i) = ((((x \o p) \o t) \o l) \o e) \o l
  BY <1>1, <1>3, <1>4, <1>5, <1>6, <1>7, <1>8, Zenon DEF PrettyText, Rest
<1>10. PrettyOf(f, ps) = ((x \o ((p \o t) \o l)) \o e) \o l
  BY <1>2, <1>3, <1>7, <1>8, Zenon DEF PrettyOf, Lead, HeadText
<1>11. PICK pt, xp \in TextType : pt = p \o t /\ xp = x \o p
  BY TextJoin
<1>12. Again(x, p, t) /\ Again(x, pt, l)
  BY TextAgain
<1>13. (xp \o t) \o l = x \o (pt \o l)
  BY <1>11, <1>12, Zenon DEF Again
<1>. QED
  BY <1>1, <1>9, <1>10, <1>11, <1>13, Zenon

-----------------------------------------------------------------------------
(* What is printed of a trace *)

AskedIs ==
    /\ phase \in {"simple", "pretty"} => asked.op = phase
    /\ phase = "expr" => asked.op = "expr"
    /\ phase = "pass" => asked.op \in {"other", "registers", "expr"}
    /\ asked.op = "expr" => asked.expr \in Exprs /\ asked.attr \in BOOLEAN

(* What the debug information added to the functions so far. *)
PassesOK ==
    \A i \in 1 .. Len(functions) :
        /\ passes = 0 => params[i] = <<>>
        /\ passes = 1 => params[i] \in {<<>>, Info[functions[i]].params}

SimpleOK ==
    Sound /\ phase = "simple" =>
        fn - 1 <= Len(functions) /\ buf.printed = SimpleUp(functions, fn - 1)

(* After n of the parameters of a function, which is printed behind b. *)
HalfDone(f, ps, n, b, fi, sv, text) ==
    /\ n <= Len(ps) /\ sv \in BOOLEAN /\ fi \in BOOLEAN
    /\ text = b \o Half(f, ps, n, sv)
    /\ fi <=> Up(FText(ps), n) = <<>>
    /\ sv <=> Up(VText(ps), n) # <<>>
    /\ sv => n > 0 /\ "VARIABLE" \in ps[n].flags
    /\ n = 0 /\ ps # <<>> => "RETURN" \notin ps[1].flags

PrettyLoop ==
    LET b == PrettyUp(functions, params, fn - 1) IN
    IF param = 0 THEN buf.printed = b
    ELSE /\ fn <= Len(functions)
         /\ HalfDone(functions[fn], params[fn], param - 1, b, first, start_variable, buf.printed)

PrettyOK == Sound /\ phase = "pretty" /\ passes < 2 => fn - 1 <= Len(functions) /\ PrettyLoop

ReadyOK ==
    Sound /\ phase = "ready" =>
        /\ asked.op = "simple" => buf.printed = SimpleUp(functions, Len(functions))
        /\ asked.op = "pretty" /\ passes < 2 => buf.printed = PrettyUp(functions, params, Len(functions))

XInv == TInv /\ AskedIs /\ PassesOK /\ SimpleOK /\ PrettyOK /\ ReadyOK

Ordered(ps) ==
    \A i \in 1 .. Len(ps) :
        /\ "RETURN" \in ps[i].flags => i = 1 /\ "VARIABLE" \notin ps[i].flags
        /\ "VARIABLE" \in ps[i].flags => \A j \in i .. Len(ps) : "VARIABLE" \in ps[j].flags

LEMMA PrintText ==
    ASSUME TInv, asked # Nothing, ~buf'.fault, NEW pieces \in Pieces, buf' = PutAll(buf, pieces)
    PROVE  buf'.printed = buf.printed \o FlattenSeq(pieces)
BY PutAllFacts DEF TInv, Pieces

(* The function that is being printed. *)
LEMMA PrettyFacts ==
    ASSUME XInv, Printing("pretty"), passes < 2
    PROVE  /\ functions[fn] \in Functions /\ Info[functions[fn]].name \in STRING
           /\ params[fn] \in Seq(ParamType) /\ Ordered(params[fn])
           /\ fn \in 1 .. Len(functions) /\ asked # Nothing /\ PrettyLoop
           /\ PrettyUp(functions, params, fn - 1) \in TextType
           /\ PrettyUp(functions, params, fn)
              = PrettyUp(functions, params, fn - 1) \o PrettyOf(functions[fn], params[fn])
<1>1. phase = "pretty" /\ fn <= Len(functions) /\ ~buf.fault
  BY DEF Printing, Sound
<1>2. functions \in Seq(Functions) /\ params \in Seq(Seq(ParamType)) /\ Len(params) = Len(functions)
      /\ passes \in Nat /\ fn \in Nat /\ fn # 0 /\ asked # Nothing
  BY <1>1 DEF XInv, TInv, TraceOK, LoopOK, AskedOK
<1>3. fn \in 1 .. Len(functions) /\ fn - 1 \in 0 .. Len(functions)
  BY <1>1, <1>2
<1>4. functions[fn] \in Functions /\ params[fn] \in Seq(ParamType)
  BY <1>2, <1>3
<1>5. Ordered(params[fn])
  <2>1. params[fn] \in {<<>>, Info[functions[fn]].params}
    <3>1. passes = 0 \/ passes = 1
      BY <1>2
    <3>. QED
      BY <1>3, <3>1 DEF XInv, PassesOK
  <2>2. Ordered(<<>>)
    BY DEF Ordered
  <2>3. Ordered(Info[functions[fn]].params)
    BY <1>4, OrderAssumption DEF Ordered
  <2>. QED
    BY <2>1, <2>2, <2>3
<1>6. PrettyLoop
  BY <1>1 DEF XInv, PrettyOK, Sound
<1>7. PrettyUp(functions, params, fn - 1) \in TextType
      /\ PrettyUp(functions, params, fn)
         = PrettyUp(functions, params, fn - 1) \o PrettyOf(functions[fn], params[fn])
  BY <1>2, <1>3, PrettyUpFacts
<1>. QED
  BY <1>2, <1>3, <1>4, <1>5, <1>6, <1>7, InfoAssumption

LEMMA HeadPiecesIs == HeadPieces = <<HeadText(functions[fn])>>
BY DEF HeadPieces, HeadText

LEMMA PrettyHead ==
    ASSUME XInv, PrintHead, passes < 2, ~buf'.fault
    PROVE  PrettyLoop'
<1>1. Printing("pretty") /\ param = 0 /\ first' = TRUE /\ start_variable' = FALSE /\ fn' = fn
  BY DEF PrintHead
<1>2. functions' = functions /\ params' = params
  BY <1>1 DEF Printing, trace
<1>3. PICK f, ps, b : f = functions[fn] /\ ps = params[fn] /\ b = PrettyUp(functions, params, fn - 1)
  OBVIOUS
<1>4. /\ Info[f].name \in STRING /\ ps \in Seq(ParamType) /\ b \in TextType /\ Ordered(ps)
      /\ fn \in 1 .. Len(functions) /\ asked # Nothing /\ PrettyLoop
  BY <1>1, <1>3, PrettyFacts
<1>5. buf.printed = b
  BY <1>1, <1>3, <1>4 DEF PrettyLoop
<1>6. OpenPieces(f, ps) \in Pieces
  BY <1>4, StepPieces
<1>7. buf' = PutAll(buf, OpenPieces(f, ps))
  <2>1. Params = ps /\ Name = Info[f].name
    BY <1>3 DEF Params, Name
  <2>2. CASE ps # <<>> /\ "RETURN" \in ps[1].flags
    BY <2>1, <2>2, Zenon DEF PrintHead, OpenPieces
  <2>3. CASE ~(ps # <<>> /\ "RETURN" \in ps[1].flags)
    BY <2>1, <2>3, Zenon DEF PrintHead, OpenPieces
  <2>. QED
    BY <2>2, <2>3
<1>8. buf'.printed = b \o FlattenSeq(OpenPieces(f, ps))
  BY <1>4, <1>5, <1>6, <1>7, PrintText DEF XInv
<1>9. CASE ps # <<>> /\ "RETURN" \in ps[1].flags
  <2>1. param' = 2 /\ param' - 1 = 1
    BY <1>3, <1>9 DEF PrintHead, Params
  <2>2. 1 \in 1 .. Len(ps) /\ Len(ps) >= 1
    <3>1. Len(ps) # 0 /\ Len(ps) \in Nat
      BY <1>4, <1>9, NoElements
    <3>. QED
      BY <3>1
  <2>3. "VARIABLE" \notin ps[1].flags
    BY <1>4, <1>9, <2>2 DEF Ordered
  <2>4. OpenPieces(f, ps) = (<<<<"[n]">>>> \o ParamPieces(ps[1])) \o <<<<Info[f].name, "(">>>>
    BY <1>9, Zenon DEF OpenPieces
  <2>5. FlattenSeq(OpenPieces(f, ps)) = Half(f, ps, 1, FALSE)
        /\ Up(FText(ps), 1) = <<>> /\ Up(VText(ps), 1) = <<>>
    BY <1>4, <1>9, <2>2, <2>3, <2>4, HeadReturnIs
  <2>6. HalfDone(f, ps, 1, b, TRUE, FALSE, buf'.printed)
    BY <1>8, <2>2, <2>5 DEF HalfDone
  <2>7. param' # 0 /\ fn <= Len(functions)
    BY <1>4, <2>1
  <2>. QED
    BY <1>1, <1>2, <1>3, <2>1, <2>6, <2>7, Zenon DEF PrettyLoop
<1>10. CASE ~(ps # <<>> /\ "RETURN" \in ps[1].flags)
  <2>1. param' = 1 /\ param' - 1 = 0
    BY <1>3, <1>10 DEF PrintHead, Params
  <2>2. OpenPieces(f, ps) = <<<<"[n]">>, <<Info[f].name, "(">>>>
    BY <1>10, Zenon DEF OpenPieces
  <2>3. FlattenSeq(OpenPieces(f, ps)) = Half(f, ps, 0, FALSE)
        /\ Up(FText(ps), 0) = <<>> /\ Up(VText(ps), 0) = <<>>
    BY <1>4, <2>2, HeadIs
  <2>4. 0 <= Len(ps)
    BY <1>4
  <2>5. HalfDone(f, ps, 0, b, TRUE, FALSE, buf'.printed)
    BY <1>8, <1>10, <2>3, <2>4 DEF HalfDone
  <2>6. param' # 0 /\ fn <= Len(functions)
    BY <1>4, <2>1
  <2>. QED
    BY <1>1, <1>2, <1>3, <2>1, <2>5, <2>6, Zenon DEF PrettyLoop
<1>. QED
  BY <1>9, <1>10

(* One parameter more. *)
NextOK(n, f, ps, b) ==
    /\ n \in 0 .. Len(ps) - 1 /\ Param = ps[n + 1] /\ ps[n + 1] \in ParamType
    /\ f = functions[fn] /\ ps = params[fn] /\ b = PrettyUp(functions, params, fn - 1)
    /\ param' - 1 = n + 1 /\ param' # 0 /\ fn' = fn /\ functions' = functions /\ params' = params
    /\ Info[f].name \in STRING /\ ps \in Seq(ParamType) /\ b \in TextType /\ Ordered(ps)
    /\ fn <= Len(functions) /\ asked # Nothing
    /\ HalfDone(f, ps, n, b, first, start_variable, buf.printed)

LEMMA NextFacts ==
    ASSUME XInv, NextParam, passes < 2
    PROVE  \E n, f, ps, b : NextOK(n, f, ps, b)
<1>7. PICK n, f, ps, b : n = param - 1 /\ f = functions[fn] /\ ps = params[fn]
                         /\ b = PrettyUp(functions, params, fn - 1)
  OBVIOUS
<1>1. Printing("pretty") /\ param \in 1 .. Len(ps) /\ param' = param + 1 /\ fn' = fn
  BY <1>7 DEF NextParam, Params
<1>2. functions' = functions /\ params' = params
  BY <1>1 DEF Printing, trace
<1>3. /\ Info[f].name \in STRING /\ ps \in Seq(ParamType) /\ b \in TextType /\ Ordered(ps)
      /\ fn \in 1 .. Len(functions) /\ asked # Nothing /\ PrettyLoop
  BY <1>1, <1>7, PrettyFacts
<1>4. n \in 0 .. Len(ps) - 1 /\ n + 1 = param /\ param' - 1 = n + 1 /\ param # 0 /\ param' # 0
      /\ fn <= Len(functions)
  BY <1>1, <1>3, <1>7
<1>5. Param = ps[n + 1] /\ ps[n + 1] \in ParamType
  BY <1>1, <1>3, <1>4, <1>7 DEF Param, Params
<1>6. HalfDone(f, ps, n, b, first, start_variable, buf.printed)
  BY <1>3, <1>4, <1>7, Zenon DEF PrettyLoop
<1>8. NextOK(n, f, ps, b)
  BY <1>1, <1>2, <1>3, <1>4, <1>5, <1>6, <1>7, Zenon DEF NextOK
<1>. QED
  BY <1>8

LEMMA NextDone ==
    ASSUME NEW n, NEW f, NEW ps, NEW b, NextOK(n, f, ps, b),
           HalfDone(f, ps, n + 1, b, first', start_variable', buf'.printed)
    PROVE  PrettyLoop'
BY Zenon DEF NextOK, PrettyLoop

LEMMA PrettyVariable ==
    ASSUME XInv, PrintVariable, passes < 2, ~buf'.fault
    PROVE  PrettyLoop'
<1>1. NextParam /\ start_variable' = TRUE /\ first' = first
      /\ "RETURN" \notin Param.flags /\ "VARIABLE" \in Param.flags
  BY DEF PrintVariable
<1>2. PICK n, f, ps, b : NextOK(n, f, ps, b)
  BY <1>1, NextFacts
<1>3. PICK v \in BOOLEAN : v = start_variable
  BY <1>2 DEF NextOK, HalfDone
<1>4. /\ n \in 0 .. Len(ps) - 1 /\ Info[f].name \in STRING /\ ps \in Seq(ParamType) /\ b \in TextType
      /\ ps[n + 1] \in ParamType /\ "RETURN" \notin ps[n + 1].flags /\ "VARIABLE" \in ps[n + 1].flags
      /\ Param = ps[n + 1] /\ f = functions[fn] /\ asked # Nothing
  BY <1>1, <1>2 DEF NextOK
<1>5. /\ buf.printed = b \o Half(f, ps, n, v) /\ first \in BOOLEAN
      /\ first <=> Up(FText(ps), n) = <<>>
      /\ ~v => Up(VText(ps), n) = <<>>
  BY <1>2, <1>3 DEF NextOK, HalfDone
<1>6. PICK pieces \in Pieces : pieces = VariablePieces(f, ps[n + 1], v)
  BY <1>4, StepPieces
<1>7. buf' = PutAll(buf, pieces)
  <2>1. HeadPieces = <<HeadText(f)>>
    BY <1>4, HeadPiecesIs
  <2>. QED
    BY <1>3, <1>4, <1>6, <2>1, Zenon DEF PrintVariable, VariablePieces
<1>8. buf'.printed = (b \o Half(f, ps, n, v)) \o FlattenSeq(pieces)
  BY <1>4, <1>5, <1>7, PrintText DEF XInv
<1>9. /\ (b \o Half(f, ps, n, v)) \o FlattenSeq(pieces) = b \o Half(f, ps, n + 1, TRUE)
      /\ Up(FText(ps), n + 1) = Up(FText(ps), n) /\ Up(VText(ps), n + 1) # <<>>
  <2>1. AddsVariable(f, ps, n, v, b)
    BY <1>4, <1>5, VariableIs
  <2>. QED
    BY <1>6, <2>1, Zenon DEF AddsVariable
<1>10. n + 1 > 0 /\ n + 1 <= Len(ps) /\ n + 1 # 0
  BY <1>4
<1>11. HalfDone(f, ps, n + 1, b, first, TRUE, buf'.printed)
  BY <1>4, <1>5, <1>8, <1>9, <1>10 DEF HalfDone
<1>. QED
  BY <1>1, <1>2, <1>11, NextDone

LEMMA PrettyParam ==
    ASSUME XInv, PrintParam, passes < 2, ~buf'.fault
    PROVE  PrettyLoop'
<1>1. NextParam /\ first' = FALSE /\ start_variable' = start_variable
      /\ Param.flags \cap {"RETURN", "VARIABLE"} = {}
  BY DEF PrintParam
<1>2. PICK n, f, ps, b : NextOK(n, f, ps, b)
  BY <1>1, NextFacts
<1>3. PICK s \in BOOLEAN : s = first
  BY <1>2 DEF NextOK, HalfDone
<1>4. /\ n \in 0 .. Len(ps) - 1 /\ Info[f].name \in STRING /\ ps \in Seq(ParamType) /\ b \in TextType
      /\ ps[n + 1] \in ParamType /\ ps[n + 1].flags \cap {"RETURN", "VARIABLE"} = {}
      /\ Param = ps[n + 1] /\ f = functions[fn] /\ asked # Nothing /\ Ordered(ps)
  BY <1>1, <1>2 DEF NextOK
<1>5. /\ buf.printed = b \o Half(f, ps, n, start_variable) /\ start_variable \in BOOLEAN
      /\ s <=> Up(FText(ps), n) = <<>>
      /\ start_variable <=> Up(VText(ps), n) # <<>>
      /\ start_variable => n > 0 /\ "VARIABLE" \in ps[n].flags
  BY <1>2, <1>3 DEF NextOK, HalfDone
<1>6. start_variable = FALSE
  <2>1. SUFFICES ASSUME start_variable PROVE FALSE
    BY <1>5
  <2>2. n \in 1 .. Len(ps) /\ n + 1 \in n .. Len(ps) /\ "VARIABLE" \in ps[n].flags
    BY <1>4, <1>5, <2>1
  <2>3. "VARIABLE" \in ps[n + 1].flags
    BY <1>4, <2>2 DEF Ordered
  <2>. QED
    BY <1>4, <2>3
<1>7. PICK pieces \in Pieces : pieces = FormalPieces(ps[n + 1], s)
  BY <1>4, StepPieces
<1>8. buf' = PutAll(buf, pieces)
  BY <1>3, <1>4, <1>7, Zenon DEF PrintParam, FormalPieces
<1>9. buf'.printed = (b \o Half(f, ps, n, FALSE)) \o FlattenSeq(pieces)
  BY <1>4, <1>5, <1>6, <1>8, PrintText DEF XInv
<1>10. /\ (b \o Half(f, ps, n, FALSE)) \o FlattenSeq(pieces) = b \o Half(f, ps, n + 1, FALSE)
       /\ Up(FText(ps), n + 1) # <<>> /\ Up(VText(ps), n + 1) = Up(VText(ps), n)
  <2>1. AddsFormal(f, ps, n, s, b)
    BY <1>4, <1>5, FormalIs
  <2>. QED
    BY <1>7, <2>1, Zenon DEF AddsFormal
<1>11. n + 1 > 0 /\ n + 1 <= Len(ps) /\ n + 1 # 0
  BY <1>4
<1>12. HalfDone(f, ps, n + 1, b, FALSE, FALSE, buf'.printed)
  BY <1>4, <1>5, <1>6, <1>9, <1>10, <1>11 DEF HalfDone
<1>. QED
  BY <1>1, <1>2, <1>6, <1>12, NextDone

(* The return value comes first, and was printed first. *)
LEMMA PrettyReturn ==
    ASSUME XInv, PrintReturn, passes < 2
    PROVE  FALSE
<1>1. NextParam /\ "RETURN" \in Param.flags
  BY DEF PrintReturn
<1>2. PICK n, f, ps, b : NextOK(n, f, ps, b)
  BY <1>1, NextFacts
<1>3. /\ n \in 0 .. Len(ps) - 1 /\ Param = ps[n + 1] /\ ps \in Seq(ParamType) /\ Ordered(ps)
      /\ n = 0 /\ ps # <<>> => "RETURN" \notin ps[1].flags
  BY <1>2 DEF NextOK, HalfDone
<1>4. n + 1 \in 1 .. Len(ps) /\ ps # <<>>
  BY <1>3
<1>5. n = 0
  BY <1>1, <1>3, <1>4 DEF Ordered
<1>. QED
  BY <1>1, <1>3, <1>4, <1>5

LEMMA PrettyTail ==
    ASSUME XInv, PrintTail, passes < 2, ~buf'.fault
    PROVE  PrettyLoop' /\ fn' - 1 <= Len(functions)
<1>1. Printing("pretty") /\ param > Len(Params) /\ fn' = fn + 1 /\ param' = 0
  BY DEF PrintTail
<1>2. functions' = functions /\ params' = params
  BY <1>1 DEF Printing, trace
<1>3. PICK n, f, ps, b : n = param - 1 /\ f = functions[fn] /\ ps = params[fn]
                         /\ b = PrettyUp(functions, params, fn - 1)
  OBVIOUS
<1>4. /\ Info[f].name \in STRING /\ ps \in Seq(ParamType) /\ b \in TextType
      /\ fn \in 1 .. Len(functions) /\ asked # Nothing /\ PrettyLoop
      /\ PrettyUp(functions, params, fn) = b \o PrettyOf(f, ps)
  BY <1>1, <1>3, PrettyFacts
<1>5. param \in Nat /\ param # 0 /\ n = Len(ps)
  <2>1. param \in Nat
    BY DEF XInv, TInv, LoopOK
  <2>2. param > Len(ps) /\ Len(ps) \in Nat
    BY <1>1, <1>3, <1>4 DEF Params
  <2>3. param # 0
    BY <2>1, <2>2
  <2>4. n <= Len(ps)
    BY <1>3, <1>4, <2>3 DEF PrettyLoop, HalfDone
  <2>. QED
    BY <1>3, <2>1, <2>2, <2>3, <2>4
<1>6. /\ start_variable \in BOOLEAN /\ buf.printed = b \o Half(f, ps, n, start_variable)
      /\ start_variable <=> Up(VText(ps), n) # <<>>
  BY <1>3, <1>4, <1>5, Zenon DEF PrettyLoop, HalfDone
<1>7. PICK pieces \in Pieces : pieces = ClosePieces(f, start_variable)
  BY <1>4, <1>6, StepPieces
<1>8. buf' = PutAll(buf, pieces)
  <2>1. HeadPieces = <<HeadText(f)>>
    BY <1>3, HeadPiecesIs
  <2>. QED
    BY <1>7, <2>1, Zenon DEF PrintTail, ClosePieces
<1>9. buf'.printed = (b \o Half(f, ps, n, start_variable)) \o FlattenSeq(pieces)
  BY <1>4, <1>6, <1>8, PrintText DEF XInv
<1>10. buf'.printed = b \o PrettyOf(f, ps)
  BY <1>4, <1>5, <1>6, <1>7, <1>9, TailIs DEF ClosePieces
<1>11. fn' - 1 = fn /\ fn <= Len(functions)
  BY <1>1, <1>4
<1>. QED
  BY <1>1, <1>2, <1>3, <1>4, <1>10, <1>11 DEF PrettyLoop

LEMMA InitXInv == Init => XInv
<1> SUFFICES ASSUME Init PROVE XInv
  OBVIOUS
<1>1. TInv
  BY InitTInv
<1>2. phase = "ready" /\ asked = Nothing /\ functions = <<>>
  BY DEF Init
<1>3. asked.op = "nothing"
  BY <1>2 DEF Nothing
<1>. QED
  BY <1>1, <1>2, <1>3 DEF XInv, AskedIs, PassesOK, SimpleOK, PrettyOK, ReadyOK

(* The steps between the functions: nothing is printed of a trace. *)
LEMMA BetweenStep ==
    ASSUME XInv, TInv', AskedIs', UNCHANGED <<functions, params, passes>>,
           phase' \notin {"simple", "pretty"}, phase' = "ready" => asked'.op \notin {"simple", "pretty"}
    PROVE  XInv'
<1>1. PassesOK'
  BY DEF XInv, PassesOK
<1>. QED
  BY <1>1 DEF XInv, SimpleOK, PrettyOK, ReadyOK

LEMMA StepXInv == XInv /\ [Next]_vars => XInv'
<1> SUFFICES ASSUME XInv, [Next]_vars PROVE XInv'
  OBVIOUS
<1>1. TInv /\ TInv'
  BY StepTInv DEF XInv
<1>2. AskedIs /\ PassesOK /\ SimpleOK /\ PrettyOK /\ ReadyOK
  BY DEF XInv
<1>3. functions \in Seq(Functions) /\ params \in Seq(Seq(ParamType)) /\ Len(params) = Len(functions)
      /\ passes \in Nat /\ fn \in Nat /\ param \in Nat /\ buf \in BufType
  BY <1>1 DEF TInv, TraceOK, LoopOK
<1>4. Nothing.op = "nothing" /\ Other.op = "other"
  BY DEF Nothing, Other
<1>5. CASE Unwind
  <2>1. PICK f \in Functions : functions' = Append(functions, f) /\ params' = Append(params, <<>>)
    BY <1>5 DEF Unwind
  <2>2. phase = "ready" /\ UNCHANGED <<passes, phase>> /\ asked' \in {Nothing, Other}
    BY <1>5 DEF Unwind, Ready
  <2>3. AskedIs'
    BY <1>4, <2>2 DEF AskedIs
  <2>4. PassesOK'
    <3>1. ASSUME NEW i \in 1 .. Len(functions')
          PROVE  /\ passes' = 0 => params'[i] = <<>>
                 /\ passes' = 1 => params'[i] \in {<<>>, Info[functions'[i]].params}
      <4>1. Len(functions') = Len(functions) + 1
        BY <1>3, <2>1
      <4>2. CASE i = Len(functions) + 1
        <5>1. <<>> \in Seq(ParamType)
          OBVIOUS
        <5>2. params'[i] = <<>>
          BY <1>3, <2>1, <4>2, <5>1
        <5>. QED
          BY <5>2
      <4>3. CASE i # Len(functions) + 1
        <5>1. i \in 1 .. Len(functions) /\ i \in 1 .. Len(params)
          BY <1>3, <4>1, <4>3
        <5>2. params'[i] = params[i] /\ functions'[i] = functions[i]
          BY <1>3, <2>1, <5>1
        <5>. QED
          BY <1>2, <2>2, <5>1, <5>2 DEF PassesOK
      <4>. QED
        BY <4>2, <4>3
    <3>. QED
      BY <3>1 DEF PassesOK
  <2>5. asked'.op \notin {"simple", "pretty"}
    BY <1>4, <2>2
  <2>. QED
    BY <1>1, <2>2, <2>3, <2>4, <2>5 DEF XInv, SimpleOK, PrettyOK, ReadyOK
<1>6. CASE HandleDwarf
  <2>1. phase' = "pass" /\ asked' = Other /\ UNCHANGED <<functions, params, passes>>
    BY <1>6 DEF HandleDwarf, trace
  <2>2. AskedIs'
    BY <1>4, <2>1 DEF AskedIs
  <2>. QED
    BY <1>1, <2>1, <2>2, BetweenStep
<1>7. CASE HandleEnd
  <2>1. phase = "pass" /\ phase' = "ready" /\ asked' = asked /\ functions' = functions /\ passes' = passes + 1
        /\ params' = [i \in 1 .. Len(functions) |-> params[i] \o Info[functions[i]].params]
    BY <1>7 DEF HandleEnd
  <2>2. asked.op \in {"other", "registers", "expr"}
    BY <1>2, <2>1 DEF AskedIs
  <2>3. AskedIs'
    BY <1>2, <2>1, <2>2 DEF AskedIs
  <2>4. PassesOK'
    <3>1. ASSUME NEW i \in 1 .. Len(functions), passes' = 1
          PROVE  params'[i] \in {<<>>, Info[functions[i]].params}
      <4>1. passes = 0
        BY <1>3, <2>1, <3>1
      <4>2. params[i] = <<>>
        BY <1>2, <4>1 DEF PassesOK
      <4>3. Info[functions[i]].params \in Seq(ParamType)
        BY <1>3, InfoAssumption
      <4>4. PICK q \in Seq(ParamType) : q = Info[functions[i]].params
        BY <4>3
      <4>5. <<>> \o q = q
        BY EmptySeq
      <4>. QED
        BY <2>1, <4>2, <4>4, <4>5
    <3>2. passes' # 0
      BY <1>3, <2>1
    <3>. QED
      BY <2>1, <3>1, <3>2 DEF PassesOK
  <2>. QED
    BY <1>1, <2>1, <2>2, <2>3, <2>4 DEF XInv, SimpleOK, PrettyOK, ReadyOK
<1>8. CASE PrintRegisters
  <2>1. phase = "pass" /\ UNCHANGED <<functions, params, passes, phase>> /\ asked'.op = "registers"
    BY <1>8 DEF PrintRegisters, trace, Nothing
  <2>2. AskedIs'
    BY <2>1 DEF AskedIs
  <2>. QED
    BY <1>1, <2>1, <2>2, BetweenStep
<1>9. CASE Describe
  <2>1. phase' = "expr" /\ UNCHANGED <<functions, params, passes>>
    BY <1>9 DEF Describe, trace
  <2>2. asked'.op = "expr" /\ asked'.expr \in Exprs /\ asked'.attr \in BOOLEAN
    <3>1. PICK e \in Exprs, a \in BOOLEAN : asked' = [Nothing EXCEPT !.op = "expr", !.expr = e, !.attr = a]
      BY <1>9 DEF Describe
    <3>. QED
      BY <3>1 DEF Nothing
  <2>3. AskedIs'
    BY <2>1, <2>2 DEF AskedIs
  <2>. QED
    BY <1>1, <2>1, <2>3, BetweenStep
<1>10. CASE PrintOp \/ EntryWithoutAttr \/ EntryWithoutExpr \/ PrintEntry \/ EntryDone \/ ExprDone
  <2>1. Describing
    BY <1>10 DEF PrintOp, EntryWithoutAttr, EntryWithoutExpr, PrintEntry, EntryDone, ExprDone, AtOp
  <2>2. phase = "expr" /\ UNCHANGED <<functions, params, passes, phase, asked>>
    BY <2>1 DEF Describing, trace
  <2>3. AskedIs'
    BY <1>2, <2>2 DEF AskedIs
  <2>. QED
    BY <1>1, <2>2, <2>3, BetweenStep
<1>11. CASE DescribeEnd
  <2>1. phase = "expr" /\ phase' = "pass" /\ UNCHANGED <<functions, params, passes, asked>>
    BY <1>11 DEF DescribeEnd, trace
  <2>2. AskedIs'
    BY <1>2, <2>1 DEF AskedIs
  <2>. QED
    BY <1>1, <2>1, <2>2, BetweenStep
<1>12. CASE PrintSimple
  <2>1. phase' = "simple" /\ asked'.op = "simple" /\ fn' = 1 /\ buf' = Clean(buf)
        /\ UNCHANGED <<functions, params, passes>>
    BY <1>12 DEF PrintSimple, PrintTrace, trace, Nothing
  <2>2. buf'.printed = <<>>
    BY <2>1 DEF Clean
  <2>3. AskedIs' /\ PassesOK'
    BY <1>2, <2>1 DEF AskedIs, PassesOK
  <2>4. fn' - 1 = 0 /\ 0 <= Len(functions) /\ SimpleUp(functions, 0) = <<>>
    BY <1>3, <2>1, SimpleUpFacts
  <2>5. SimpleOK'
    BY <2>1, <2>2, <2>4 DEF SimpleOK
  <2>. QED
    BY <1>1, <2>1, <2>3, <2>5 DEF XInv, PrettyOK, ReadyOK
<1>13. CASE PrintPretty
  <2>1. phase' = "pretty" /\ asked'.op = "pretty" /\ fn' = 1 /\ param' = 0 /\ buf' = Clean(buf)
        /\ UNCHANGED <<functions, params, passes>>
    BY <1>13 DEF PrintPretty, PrintTrace, trace, Nothing
  <2>2. buf'.printed = <<>>
    BY <2>1 DEF Clean
  <2>3. AskedIs' /\ PassesOK'
    BY <1>2, <2>1 DEF AskedIs, PassesOK
  <2>4. fn' - 1 = 0 /\ 0 <= Len(functions) /\ PrettyUp(functions, params, 0) = <<>>
    BY <1>3, <2>1, PrettyUpFacts
  <2>5. PrettyOK'
    BY <2>1, <2>2, <2>4 DEF PrettyOK, PrettyLoop
  <2>. QED
    BY <1>1, <2>1, <2>3, <2>5 DEF XInv, SimpleOK, ReadyOK
<1>14. CASE PrintSimpleFunction
  <2>1. /\ phase = "simple" /\ fn <= Len(functions) /\ ~buf.fault /\ fn' = fn + 1
        /\ UNCHANGED <<functions, params, passes, phase, asked>>
        /\ buf' = PutAll(buf, SimplePieces(functions[fn]))
    BY <1>14 DEF PrintSimpleFunction, Printing, trace, Sound, SimplePieces
  <2>2. fn \in 1 .. Len(functions) /\ asked # Nothing
    BY <1>1, <1>3, <2>1 DEF TInv, LoopOK, AskedOK
  <2>3. PICK f \in Functions : f = functions[fn] /\ Info[f].name \in STRING
    BY <1>3, <2>2, InfoAssumption
  <2>4. buf.printed = SimpleUp(functions, fn - 1)
    BY <1>2, <2>1 DEF SimpleOK, Sound
  <2>5. ASSUME ~buf'.fault PROVE buf'.printed = SimpleUp(functions, fn)
    <3>1. PICK pieces \in Pieces : pieces = SimplePieces(f)
      BY <2>3, StepPieces
    <3>2. buf'.printed = buf.printed \o FlattenSeq(pieces)
      BY <1>1, <2>1, <2>2, <2>3, <2>5, <3>1, PrintText
    <3>3. FlattenSeq(pieces) = SimpleOf(f)
      BY <2>3, <3>1, SimpleIs
    <3>4. SimpleUp(functions, fn) = SimpleUp(functions, fn - 1) \o SimpleOf(f)
      BY <1>3, <2>2, <2>3, SimpleUpFacts
    <3>. QED
      BY <2>4, <3>2, <3>3, <3>4
  <2>6. fn' - 1 = fn
    BY <1>3, <2>1
  <2>7. SimpleOK'
    BY <2>1, <2>5, <2>6 DEF SimpleOK, Sound
  <2>8. AskedIs' /\ PassesOK'
    BY <1>2, <2>1 DEF AskedIs, PassesOK
  <2>. QED
    BY <1>1, <2>1, <2>7, <2>8 DEF XInv, PrettyOK, ReadyOK
<1>15. CASE PrintHead \/ PrintReturn \/ PrintVariable \/ PrintParam \/ PrintTail
  <2>1. Printing("pretty") /\ phase = "pretty" /\ fn <= Len(functions) /\ ~buf.fault
        /\ UNCHANGED <<functions, params, passes, phase, asked>>
    BY <1>15 DEF PrintHead, PrintReturn, PrintVariable, PrintParam, PrintTail, NextParam, Printing, trace,
                 Sound
  <2>2. ASSUME ~buf'.fault, passes < 2 PROVE PrettyLoop' /\ fn' - 1 <= Len(functions)
    <3>1. fn \in Nat /\ fn - 1 <= Len(functions)
      BY <1>3, <2>1
    <3>2. CASE PrintTail
      BY <2>2, <3>2, PrettyTail
    <3>3. CASE PrintHead \/ PrintReturn \/ PrintVariable \/ PrintParam
      <4>1. fn' = fn
        BY <3>3 DEF PrintHead, PrintReturn, PrintVariable, PrintParam, NextParam
      <4>2. PrettyLoop'
        BY <2>2, <3>3, PrettyHead, PrettyReturn, PrettyVariable, PrettyParam
      <4>. QED
        BY <3>1, <4>1, <4>2
    <3>. QED
      BY <1>15, <3>2, <3>3
  <2>3. PrettyOK'
    BY <2>1, <2>2 DEF PrettyOK, Sound
  <2>4. AskedIs' /\ PassesOK'
    BY <1>2, <2>1 DEF AskedIs, PassesOK
  <2>. QED
    BY <1>1, <2>1, <2>3, <2>4 DEF XInv, SimpleOK, ReadyOK
<1>16. CASE PrintEnd
  <2>1. /\ ~buf.fault /\ phase \in {"simple", "pretty"} /\ fn > Len(functions) /\ phase' = "ready"
        /\ UNCHANGED <<functions, params, passes, buf, asked>>
    BY <1>16 DEF PrintEnd, trace, Sound
  <2>2. asked.op = phase
    BY <1>2, <2>1 DEF AskedIs
  <2>3. phase = "simple" => buf.printed = SimpleUp(functions, Len(functions))
    <3>1. SUFFICES ASSUME phase = "simple" PROVE buf.printed = SimpleUp(functions, Len(functions))
      OBVIOUS
    <3>2. fn - 1 <= Len(functions) /\ buf.printed = SimpleUp(functions, fn - 1)
      BY <1>2, <2>1, <3>1 DEF SimpleOK, Sound
    <3>3. fn - 1 = Len(functions)
      BY <1>3, <2>1, <3>2
    <3>. QED
      BY <3>2, <3>3
  <2>4. phase = "pretty" /\ passes < 2 => buf.printed = PrettyUp(functions, params, Len(functions))
    <3>1. SUFFICES ASSUME phase = "pretty", passes < 2
                   PROVE  buf.printed = PrettyUp(functions, params, Len(functions))
      OBVIOUS
    <3>2. fn - 1 <= Len(functions) /\ PrettyLoop
      BY <1>2, <2>1, <3>1 DEF PrettyOK, Sound
    <3>3. fn - 1 = Len(functions) /\ ~(fn <= Len(functions))
      BY <1>3, <2>1, <3>2
    <3>4. buf.printed = PrettyUp(functions, params, fn - 1)
      BY <3>2, <3>3, Zenon DEF PrettyLoop
    <3>. QED
      BY <3>3, <3>4
  <2>5. AskedIs' /\ PassesOK'
    BY <1>2, <2>1, <2>2 DEF AskedIs, PassesOK
  <2>6. ReadyOK'
    BY <2>1, <2>2, <2>3, <2>4 DEF ReadyOK
  <2>. QED
    BY <1>1, <2>1, <2>5, <2>6 DEF XInv, SimpleOK, PrettyOK
<1>17. CASE UNCHANGED vars
  <2>1. UNCHANGED <<functions, params, passes, buf, phase, fn, param, first, start_variable, calls, asked>>
    BY <1>17 DEF vars, trace, loop
  <2>. QED
    BY <1>1, <1>2, <2>1 DEF XInv, AskedIs, PassesOK, SimpleOK, PrettyOK, PrettyLoop, ReadyOK, Sound
<1>. QED
  BY <1>5, <1>6, <1>7, <1>8, <1>9, <1>10, <1>11, <1>12, <1>13, <1>14, <1>15, <1>16, <1>17 DEF Next

-----------------------------------------------------------------------------
(* The text of expressions *)

(* The operations from l to k. *)
OpsText(e, l, k) == Texts(SubSeq(Expr[e], l, k), OpName)

LEMMA ExprType ==
    ASSUME NEW e \in Exprs
    PROVE  /\ Expr[e] \in Seq(OpType) /\ Len(Expr[e]) \in Nat
           /\ \A i \in 1 .. Len(Expr[e]) :
                 /\ Expr[e][i] \in OpType /\ <<Expr[e][i].name>> \in TextType
                 /\ Expr[e][i].sub # None => Expr[e][i].sub \in Exprs /\ Rank[Expr[e][i].sub] < Rank[e]
           /\ Rank[e] \in Nat
<1>1. PICK ops \in Seq(OpType) : ops = Expr[e]
  BY RankAssumption DEF OpType
<1>2. ASSUME NEW i \in 1 .. Len(ops)
      PROVE  ops[i] \in OpType /\ <<ops[i].name>> \in TextType /\ (ops[i].sub # None => ops[i].sub \in Exprs)
  <2>1. ops[i] \in OpType
    OBVIOUS
  <2>2. ops[i].name \in Words /\ ops[i].sub \in Exprs \cup {None}
    BY <2>1, NameIsWord DEF OpType
  <2>. QED
    BY <2>1, <2>2, Texts1
<1>3. \A i \in 1 .. Len(ops) : ops[i].sub \in Exprs => Rank[ops[i].sub] < Rank[e]
  BY <1>1, RankAssumption
<1>4. Rank[e] \in Nat /\ Len(ops) \in Nat
  BY RankAssumption
<1>. QED
  BY <1>1, <1>2, <1>3, <1>4

LEMMA FunctionIsSeq ==
    ASSUME NEW T, NEW n \in Nat, NEW f \in [1 .. n -> T]
    PROVE  f \in Seq(T) /\ Len(f) = n
OBVIOUS

LEMMA SubFacts ==
    ASSUME NEW S, NEW s \in Seq(S), NEW l \in 1 .. Len(s) + 1, NEW k \in l - 1 .. Len(s)
    PROVE  /\ SubSeq(s, l, k) \in Seq(S) /\ Len(SubSeq(s, l, k)) = k - l + 1
           /\ \A i \in 1 .. k - l + 1 : SubSeq(s, l, k)[i] = s[l + i - 1]
<1>1. CASE k = l - 1
  BY <1>1
<1>2. CASE k # l - 1
  BY <1>2
<1>. QED
  BY <1>1, <1>2

(* The lines of the operations from l to k, one to an operation. *)
Lines(e, l, k) == [i \in 1 .. k - l + 1 |-> <<Expr[e][l + i - 1].name>>]

LEMMA LinesFacts ==
    ASSUME NEW e \in Exprs, NEW l \in 1 .. Len(Expr[e]) + 1, NEW k \in l - 1 .. Len(Expr[e])
    PROVE  /\ OpsText(e, l, k) = FlattenSeq(Lines(e, l, k))
           /\ Lines(e, l, k) \in Seq(TextType) /\ Len(Lines(e, l, k)) = k - l + 1
<1>1. PICK ops \in Seq(OpType) : ops = Expr[e] /\ \A i \in 1 .. Len(ops) : <<ops[i].name>> \in TextType
  BY ExprType
<1>2. PICK s \in Seq(OpType) : /\ s = SubSeq(ops, l, k) /\ Len(s) = k - l + 1
                               /\ \A i \in 1 .. k - l + 1 : s[i] = ops[l + i - 1]
  <2>1. l \in 1 .. Len(ops) + 1 /\ k \in l - 1 .. Len(ops)
    BY <1>1
  <2>2. /\ SubSeq(ops, l, k) \in Seq(OpType) /\ Len(SubSeq(ops, l, k)) = k - l + 1
        /\ \A i \in 1 .. k - l + 1 : SubSeq(ops, l, k)[i] = ops[l + i - 1]
    BY <2>1, SubFacts
  <2>. QED
    BY <2>2, Zenon
<1>3. l \in Nat /\ k \in Int /\ k - l + 1 \in Nat
  BY ExprType
<1>4. \A i \in 1 .. k - l + 1 : l + i - 1 \in 1 .. Len(ops)
  BY <1>1, <1>3
<1>5. [i \in 1 .. Len(s) |-> OpName(s[i])] = Lines(e, l, k)
  BY <1>1, <1>2 DEF OpName, Lines
<1>6. OpsText(e, l, k) = FlattenSeq(Lines(e, l, k))
  BY <1>1, <1>2, <1>5 DEF OpsText, Texts
<1>7. \A i \in 1 .. k - l + 1 : <<Expr[e][l + i - 1].name>> \in TextType
  BY <1>1, <1>4
<1>8. Lines(e, l, k) \in Seq(TextType) /\ Len(Lines(e, l, k)) = k - l + 1
  <2>1. PICK n \in Nat : n = k - l + 1
    BY <1>3
  <2>2. PICK f : f = Lines(e, l, k)
    OBVIOUS
  <2>3. f = [i \in 1 .. n |-> <<Expr[e][l + i - 1].name>>]
    BY <2>1, <2>2 DEF Lines
  <2>4. \A i \in 1 .. n : f[i] = <<Expr[e][l + i - 1].name>>
    BY <2>3
  <2>5. f = [i \in 1 .. n |-> f[i]]
    BY <2>3, <2>4
  <2>6. \A i \in 1 .. n : f[i] \in TextType
    BY <1>7, <2>1, <2>4
  <2>7. f \in Seq(TextType) /\ Len(f) = n
    <3>1. f \in [1 .. n -> TextType]
      BY <2>5, <2>6
    <3>. QED
      BY <3>1, FunctionIsSeq
  <2>. QED
    BY <2>1, <2>2, <2>7
<1>. QED
  BY <1>6, <1>8

LEMMA OpsTextFacts ==
    ASSUME NEW e \in Exprs, NEW l \in 1 .. Len(Expr[e]) + 1, NEW k \in l - 1 .. Len(Expr[e])
    PROVE  /\ OpsText(e, l, k) \in TextType
           /\ k = l - 1 => OpsText(e, l, k) = <<>>
           /\ k # l - 1 => /\ k \in 1 .. Len(Expr[e]) /\ k - 1 \in l - 1 .. Len(Expr[e])
                           /\ OpsText(e, l, k) = OpsText(e, l, k - 1) \o <<Expr[e][k].name>>
<1>1. PICK s \in Seq(TextType) : s = Lines(e, l, k) /\ OpsText(e, l, k) = FlattenSeq(s) /\ Len(s) = k - l + 1
  BY LinesFacts
<1>2. OpsText(e, l, k) \in TextType
  BY <1>1, FlattenType DEF TextType
<1>3. l \in Nat /\ k \in Int /\ k - l + 1 \in Nat /\ Len(Expr[e]) \in Nat /\ l >= 1 /\ k <= Len(Expr[e])
  BY ExprType
<1>4. ASSUME k = l - 1 PROVE OpsText(e, l, k) = <<>>
  <2>1. Len(s) = 0
    BY <1>1, <1>3, <1>4
  <2>2. s = <<>>
    BY <2>1, NoElements
  <2>. QED
    BY <1>1, <2>2, FlattenNone
<1>5. ASSUME k # l - 1
      PROVE  /\ k \in 1 .. Len(Expr[e]) /\ k - 1 \in l - 1 .. Len(Expr[e])
             /\ OpsText(e, l, k) = OpsText(e, l, k - 1) \o <<Expr[e][k].name>>
  <2>1. k \in 1 .. Len(Expr[e]) /\ k - 1 \in l - 1 .. Len(Expr[e])
    BY <1>3, <1>5
  <2>2. PICK t \in Seq(TextType) : /\ t = Lines(e, l, k - 1) /\ OpsText(e, l, k - 1) = FlattenSeq(t)
                                   /\ Len(t) = (k - 1) - l + 1
    BY <2>1, LinesFacts
  <2>3. Len(s) = Len(t) + 1 /\ Len(s) = k - l + 1 /\ Len(t) = k - l
    BY <1>1, <1>3, <2>2
  <2>4. \A i \in 1 .. Len(t) : s[i] = t[i]
    <3>1. \A i \in 1 .. Len(t) : i \in 1 .. k - l + 1 /\ i \in 1 .. (k - 1) - l + 1
      BY <1>3, <2>3
    <3>. QED
      BY <1>1, <2>2, <3>1 DEF Lines
  <2>5. s[Len(s)] = <<Expr[e][k].name>>
    <3>1. Len(s) \in 1 .. k - l + 1 /\ l + Len(s) - 1 = k
      BY <1>3, <1>5, <2>3
    <3>. QED
      BY <1>1, <3>1 DEF Lines
  <2>6. FlattenSeq(s) = FlattenSeq(t) \o s[Len(s)]
    BY <2>3, <2>4, FlattenMore DEF TextType
  <2>. QED
    BY <1>1, <2>1, <2>2, <2>5, <2>6
<1>. QED
  BY <1>2, <1>4, <1>5

LEMMA OpsTextAll ==
    ASSUME NEW e \in Exprs
    PROVE  OpsText(e, 1, Len(Expr[e])) = Texts(Expr[e], OpName)
<1>1. PICK n \in Nat : n = Len(Expr[e])
  BY ExprType
<1>2. 1 \in 1 .. n + 1 /\ n \in 1 - 1 .. n
  OBVIOUS
<1>3. OpsText(e, 1, n) = FlattenSeq(Lines(e, 1, n))
  BY <1>1, <1>2, LinesFacts
<1>4. n - 1 + 1 = n /\ \A i \in 1 .. n : 1 + i - 1 = i
  OBVIOUS
<1>5. Lines(e, 1, n) = [i \in 1 .. n |-> <<Expr[e][i].name>>]
  BY <1>4 DEF Lines
<1>. QED
  BY <1>1, <1>3, <1>5 DEF Texts, OpName

-----------------------------------------------------------------------------
(* The first and the last value at entry of an expression *)

Entries(e) == {i \in 1 .. Len(Expr[e]) : IsEntry(Expr[e][i])}
Lowest(e) == SelectInSeq(Expr[e], IsEntry)
Latest(e) == SelectLastInSeq(Expr[e], IsEntry)

LEMMA LowestFacts ==
    ASSUME NEW e \in Exprs
    PROVE  /\ Entries(e) = {} => Lowest(e) = 0
           /\ Entries(e) # {} => Lowest(e) \in Entries(e) /\ \A i \in Entries(e) : Lowest(e) <= i
<1>1. Lowest(e) = IF Entries(e) # {} THEN Min(Entries(e)) ELSE 0
  BY DEF Lowest, SelectInSeq, Entries
<1>2. Entries(e) \in SUBSET Nat
  BY DEF Entries
<1>. QED
  BY <1>1, <1>2, MinFacts

(* A finite set of numbers has a largest. *)
LEMMA MaxFacts ==
    ASSUME NEW n \in Nat, NEW T \in SUBSET (1 .. n), T # {}
    PROVE  Max(T) \in T /\ \A i \in T : Max(T) >= i
<1>1. PICK D : D = {n - i : i \in T}
  OBVIOUS
<1>2. D \in SUBSET Nat /\ D # {}
  <2>1. \A i \in T : i \in 1 .. n
    OBVIOUS
  <2>2. \A i \in 1 .. n : n - i \in Nat
    OBVIOUS
  <2>3. PICK i \in T : TRUE
    OBVIOUS
  <2>4. n - i \in D
    BY <1>1
  <2>. QED
    BY <1>1, <2>1, <2>2, <2>4
<1>3. PICK d \in D : \A x \in D : d <= x
  BY <1>2, MinFacts
<1>4. PICK m \in T : d = n - m
  BY <1>1, <1>3
<1>5. \A i \in T : m >= i
  <2>1. SUFFICES ASSUME NEW i \in T PROVE m >= i
    OBVIOUS
  <2>2. n - i \in D /\ i \in 1 .. n /\ m \in 1 .. n
    BY <1>1
  <2>3. n - m <= n - i
    BY <1>3, <1>4, <2>2
  <2>. QED
    BY <2>2, <2>3
<1>. QED
  BY <1>5 DEF Max

LEMMA LatestFacts ==
    ASSUME NEW e \in Exprs, Entries(e) # {}
    PROVE  Latest(e) \in Entries(e) /\ \A i \in Entries(e) : Latest(e) >= i
<1>1. Latest(e) = Max(Entries(e))
  BY DEF Latest, SelectLastInSeq, Entries
<1>2. PICK n \in Nat : n = Len(Expr[e]) /\ Entries(e) \in SUBSET (1 .. n)
  BY ExprType DEF Entries
<1>. QED
  BY <1>1, <1>2, MaxFacts

-----------------------------------------------------------------------------
(* The text of an expression is that of the expression nested in it, and then *)
(* the operations after the last value at entry.                              *)

Sub(e) == Expr[e][1].sub
Nests(e) == Lowest(e) # 0 /\ Sub(e) # None
PlainText(e) == IF Lowest(e) = 0 THEN Texts(Expr[e], OpName) ELSE OpsText(e, 1, Lowest(e))
After(e, text) == (text \o <<")">>) \o OpsText(e, Latest(e) + 1, Len(Expr[e]))

LEMMA EntryFacts ==
    ASSUME NEW e \in Exprs, Lowest(e) # 0
    PROVE  /\ Entries(e) # {} /\ Lowest(e) \in Entries(e) /\ Latest(e) \in Entries(e)
           /\ 1 \in 1 .. Len(Expr[e]) /\ Lowest(e) \in 1 .. Len(Expr[e]) /\ Latest(e) \in 1 .. Len(Expr[e])
<1>1. Entries(e) # {}
  BY LowestFacts
<1>2. Lowest(e) \in Entries(e) /\ Latest(e) \in Entries(e)
  BY <1>1, LowestFacts, LatestFacts
<1>3. Lowest(e) \in 1 .. Len(Expr[e]) /\ Latest(e) \in 1 .. Len(Expr[e])
  BY <1>2 DEF Entries
<1>. QED
  BY <1>1, <1>2, <1>3

LEMMA NestsFacts ==
    ASSUME NEW e \in Exprs
    PROVE  /\ Nests(e) => Sub(e) \in Exprs /\ Rank[Sub(e)] \in Nat /\ Rank[Sub(e)] < Rank[e]
           /\ PlainText(e) \in TextType
           /\ Nests(e) => \A text \in TextType : After(e, text) \in TextType
<1>1. Nests(e) => Sub(e) \in Exprs /\ Rank[Sub(e)] \in Nat /\ Rank[Sub(e)] < Rank[e]
  BY EntryFacts, ExprType DEF Nests, Sub
<1>2. PICK n \in Nat : n = Len(Expr[e])
  BY ExprType
<1>3. PlainText(e) \in TextType
  <2>1. CASE Lowest(e) = 0
    <3>1. 1 \in 1 .. n + 1 /\ n \in 1 - 1 .. n
      OBVIOUS
    <3>2. OpsText(e, 1, n) \in TextType
      BY <1>2, <3>1, OpsTextFacts
    <3>. QED
      BY <1>2, <2>1, <3>2, OpsTextAll DEF PlainText
  <2>2. CASE Lowest(e) # 0
    <3>1. PICK l : l = Lowest(e) /\ l \in 1 .. n
      BY <1>2, <2>2, EntryFacts
    <3>2. 1 \in 1 .. n + 1 /\ l \in 1 - 1 .. n
      BY <3>1
    <3>3. OpsText(e, 1, l) \in TextType
      BY <1>2, <3>2, OpsTextFacts
    <3>. QED
      BY <2>2, <3>1, <3>3 DEF PlainText
  <2>. QED
    BY <2>1, <2>2
<1>4. ASSUME Nests(e), NEW text \in TextType PROVE After(e, text) \in TextType
  <2>1. PICK l : l = Latest(e) /\ l \in 1 .. n
    BY <1>2, <1>4, EntryFacts DEF Nests
  <2>2. l + 1 \in 1 .. n + 1 /\ n \in (l + 1) - 1 .. n
    BY <2>1
  <2>3. PICK s, t \in TextType : s = OpsText(e, l + 1, n) /\ t = <<")">>
    BY <1>2, <2>2, OpsTextFacts, Texts1, LineWords
  <2>4. (text \o t) \o s \in TextType
    BY TextJoin
  <2>. QED
    BY <1>2, <2>1, <2>3, <2>4 DEF After
<1>. QED
  BY <1>1, <1>3, <1>4

RuleFor(e, h) == IF Nests(e) THEN After(e, h[Sub(e)]) ELSE PlainText(e)

(* The expressions whose nesting is less than k deep. *)
Below(k) == {e \in Exprs : Rank[e] < k}
RightBelow(h, k) == h \in [Exprs -> TextType] /\ \A e \in Below(k) : h[e] = RuleFor(e, h)

LEMMA LeastExpr ==
    ASSUME NEW T \in SUBSET Exprs, T # {}
    PROVE  \E e \in T : \A x \in T : Rank[e] <= Rank[x]
<1>1. PICK N : N = {Rank[e] : e \in T}
  OBVIOUS
<1>2. N \in SUBSET Nat /\ N # {}
  BY <1>1, ExprType
<1>3. PICK n \in N : \A x \in N : n <= x
  BY <1>2, MinFacts
<1>4. PICK e \in T : n = Rank[e]
  BY <1>1
<1>. QED
  BY <1>1, <1>3, <1>4

LEMMA RuleType ==
    ASSUME NEW h \in [Exprs -> TextType], NEW e \in Exprs
    PROVE  RuleFor(e, h) \in TextType
<1>1. CASE Nests(e)
  <2>1. Sub(e) \in Exprs
    BY <1>1, NestsFacts
  <2>2. PICK t \in TextType : t = h[Sub(e)]
    BY <2>1
  <2>3. After(e, t) \in TextType
    BY <1>1, NestsFacts
  <2>. QED
    BY <1>1, <2>2, <2>3 DEF RuleFor
<1>2. CASE ~Nests(e)
  BY <1>2, NestsFacts DEF RuleFor
<1>. QED
  BY <1>1, <1>2

LEMMA BelowFacts ==
    ASSUME NEW k \in Nat
    PROVE  /\ \A e \in Below(k) : e \in Exprs /\ (Nests(e) => Sub(e) \in Below(k))
           /\ \A e \in Below(k + 1) : Nests(e) => Sub(e) \in Below(k)
           /\ \A e \in Below(k) : e \in Below(k + 1)
           /\ \A e \in Exprs : Rank[e] + 1 \in Nat /\ e \in Below(Rank[e] + 1)
<1>1. \A e \in Exprs : Rank[e] \in Nat /\ (Nests(e) => Sub(e) \in Exprs /\ Rank[Sub(e)] \in Nat
                                                       /\ Rank[Sub(e)] < Rank[e])
  BY ExprType, NestsFacts
<1> HIDE DEF Nests, Sub
<1>. QED
  BY <1>1 DEF Below

LEMMA RightGrows ==
    ASSUME NEW k \in Nat, NEW f, RightBelow(f, k)
    PROVE  \E h : RightBelow(h, k + 1)
<1>1. PICK h : h = [e \in Exprs |-> RuleFor(e, f)]
  OBVIOUS
<1>2. f \in [Exprs -> TextType] /\ \A e \in Below(k) : f[e] = RuleFor(e, f)
  BY DEF RightBelow
<1>3. h \in [Exprs -> TextType]
  BY <1>1, <1>2, RuleType
<1>4. \A e \in Below(k) : h[e] = f[e]
  BY <1>1, <1>2, BelowFacts
<1>5. ASSUME NEW e \in Below(k + 1) PROVE h[e] = RuleFor(e, h)
  <2>1. e \in Exprs /\ h[e] = RuleFor(e, f)
    BY <1>1 DEF Below
  <2>2. Nests(e) => h[Sub(e)] = f[Sub(e)]
    BY <1>4, BelowFacts
  <2>. QED
    BY <2>1, <2>2, Zenon DEF RuleFor
<1>. QED
  BY <1>3, <1>5 DEF RightBelow

LEMMA RightExists == \A k \in Nat : \E f : RightBelow(f, k)
<1> DEFINE Without == {k \in Nat : ~ \E f : RightBelow(f, k)}
<1> SUFFICES ASSUME Without # {} PROVE FALSE
  OBVIOUS
<1>1. PICK k \in Without : \A j \in Without : k <= j
  <2>1. Without \in SUBSET Nat
    OBVIOUS
  <2> HIDE DEF Without
  <2>. QED
    BY <2>1, MinFacts
<1>2. k \in Nat /\ ~ \E f : RightBelow(f, k)
  OBVIOUS
<1>3. k # 0
  <2>1. PICK f : f = [e \in Exprs |-> <<>>]
    OBVIOUS
  <2>2. f \in [Exprs -> TextType]
    BY <2>1, TextJoin
  <2>3. Below(0) = {}
    BY ExprType DEF Below
  <2>4. RightBelow(f, 0)
    BY <2>2, <2>3 DEF RightBelow
  <2>. QED
    BY <1>2, <2>4
<1>4. PICK j \in Nat : k = j + 1 /\ ~(k <= j)
  <2>1. k - 1 \in Nat /\ k = (k - 1) + 1 /\ ~(k <= k - 1)
    BY <1>2, <1>3
  <2>. QED
    BY <2>1
<1>5. PICK f : RightBelow(f, j)
  BY <1>1, <1>4
<1>. QED
  BY <1>2, <1>4, <1>5, RightGrows, Zenon

(* Two such functions are the same. *)
LEMMA RightUnique ==
    ASSUME NEW f, NEW h, NEW D \in SUBSET Exprs, \A e \in D : Nests(e) => Sub(e) \in D,
           \A e \in D : f[e] = RuleFor(e, f) /\ h[e] = RuleFor(e, h)
    PROVE  \A e \in D : f[e] = h[e]
<1> DEFINE Apart == {e \in D : f[e] # h[e]}
<1> SUFFICES ASSUME Apart # {} PROVE FALSE
  OBVIOUS
<1>1. Apart \in SUBSET Exprs
  OBVIOUS
<1>2. PICK e \in Apart : \A x \in Apart : Rank[e] <= Rank[x]
  <2> HIDE DEF Apart
  <2>. QED
    BY <1>1, LeastExpr
<1>3. e \in D /\ e \in Exprs /\ f[e] # h[e]
  BY <1>1
<1>4. Nests(e) /\ f[Sub(e)] # h[Sub(e)]
  BY <1>3, Zenon DEF RuleFor
<1>5. PICK x \in D : x = Sub(e) /\ f[x] # h[x]
  BY <1>3, <1>4
<1>6. Rank[x] \in Nat /\ Rank[e] \in Nat /\ Rank[x] < Rank[e]
  BY <1>3, <1>4, <1>5, NestsFacts, ExprType
<1>7. Rank[e] <= Rank[x]
  BY <1>2, <1>5
<1>. QED
  BY <1>6, <1>7

LEMMA ExprTextIs == \A e \in Exprs : ExprText[e] \in TextType /\ ExprText[e] = RuleFor(e, ExprText)
<1> DEFINE upTo(e) == CHOOSE f : RightBelow(f, Rank[e] + 1)
<1>1. \A e \in Exprs : Rank[e] + 1 \in Nat
  BY ExprType
<1>2. \A e \in Exprs : RightBelow(upTo(e), Rank[e] + 1)
  BY <1>1, RightExists, Zenon
<1> HIDE DEF upTo
<1>3. PICK f : f = [e \in Exprs |-> upTo(e)[e]]
  OBVIOUS
<1>4. f \in [Exprs -> TextType]
  <2>1. \A e \in Exprs : upTo(e)[e] \in TextType
    BY <1>2 DEF RightBelow
  <2>. QED
    BY <1>3, <2>1
<1>5. ASSUME NEW e \in Exprs PROVE f[e] = RuleFor(e, f)
  <2>1. e \in Below(Rank[e] + 1)
    BY BelowFacts
  <2>2. f[e] = upTo(e)[e] /\ upTo(e)[e] = RuleFor(e, upTo(e))
    BY <1>2, <1>3, <2>1 DEF RightBelow
  <2>3. ASSUME Nests(e) PROVE f[Sub(e)] = upTo(e)[Sub(e)]
    <3>1. PICK x \in Exprs : x = Sub(e)
      BY <2>3, NestsFacts
    <3>2. PICK D : D = Below(Rank[x] + 1) \cap Below(Rank[e] + 1)
      OBVIOUS
    <3>3. x \in D
      <4>1. x \in Below(Rank[x] + 1) /\ x \in Below(Rank[e] + 1)
        BY <1>1, <2>1, <2>3, <3>1, BelowFacts
      <4>. QED
        BY <3>2, <4>1
    <3>4. D \in SUBSET Exprs /\ \A y \in D : Nests(y) => Sub(y) \in D
      BY <1>1, <3>2, BelowFacts
    <3>5. PICK g, h : g = upTo(x) /\ h = upTo(e)
      OBVIOUS
    <3>6. \A y \in D : g[y] = RuleFor(y, g) /\ h[y] = RuleFor(y, h)
      BY <1>2, <3>2, <3>5 DEF RightBelow
    <3>7. g[x] = h[x]
      BY <3>3, <3>4, <3>6, RightUnique
    <3>. QED
      BY <1>3, <3>1, <3>5, <3>7
  <2>. QED
    BY <2>2, <2>3, Zenon DEF RuleFor
<1> DEFINE step(g, e) ==
              LET ops == Expr[e]
                  lowest == SelectInSeq(ops, IsEntry)
                  last == SelectLastInSeq(ops, IsEntry)
              IN IF lowest = 0 THEN Texts(ops, OpName)
                 ELSE IF ops[1].sub = None THEN Texts(SubSeq(ops, 1, lowest), OpName)
                 ELSE g[ops[1].sub] \o <<")">> \o Texts(SubSeq(ops, last + 1, Len(ops)), OpName)
<1>6. \A g, e : step(g, e) = RuleFor(e, g)
  BY Zenon DEF RuleFor, Nests, Sub, PlainText, After, OpsText, Lowest, Latest
<1>7. f = [e \in Exprs |-> step(f, e)]
  <2> HIDE DEF step
  <2>1. \A e \in Exprs : f[e] = step(f, e)
    BY <1>5, <1>6
  <2>. QED
    BY <1>4, <2>1
<1>8. ASSUME NEW g, g = [e \in Exprs |-> step(g, e)] PROVE g = f
  <2> HIDE DEF step
  <2>1. \A e \in Exprs : g[e] = step(g, e)
    BY <1>8
  <2>2. \A e \in Exprs : g[e] = RuleFor(e, g) /\ f[e] = RuleFor(e, f)
    BY <1>5, <1>6, <2>1
  <2>3. \A e \in Exprs : Nests(e) => Sub(e) \in Exprs
    BY NestsFacts
  <2>4. \A e \in Exprs : g[e] = f[e]
    BY <2>2, <2>3, RightUnique
  <2>. QED
    BY <1>7, <1>8, <2>4
<1>9. ExprText = f
  <2>1. ExprText = CHOOSE g : g = [e \in Exprs |-> step(g, e)]
    BY Zenon DEF ExprText, step
  <2> HIDE DEF step
  <2>. QED
    BY <1>7, <1>8, <2>1
<1>. QED
  BY <1>4, <1>5, <1>9

-----------------------------------------------------------------------------
(* The text of the first operations of an expression *)

Whole(e, attr) == IF attr THEN ExprText[e] ELSE WithoutAttr(e)

NoEntry(e, k) == \A i \in 1 .. k : ~IsEntry(Expr[e][i])
LastEntry(e, l, k) ==
    l \in 1 .. k /\ IsEntry(Expr[e][l]) /\ \A i \in l + 1 .. k : ~IsEntry(Expr[e][i])

AfterEntry(e, l, k) == (ExprText[Sub(e)] \o <<")">>) \o OpsText(e, l + 1, k)

PartOf(e, k, attr, text) ==
    /\ k \in 0 .. Len(Expr[e])
    /\ \/ NoEntry(e, k) /\ text = OpsText(e, 1, k)
       \/ /\ attr = TRUE /\ Sub(e) # None
          /\ \E l \in 1 .. k : LastEntry(e, l, k) /\ text = AfterEntry(e, l, k)

LEMMA PartNone == ASSUME NEW e \in Exprs, NEW attr PROVE PartOf(e, 0, attr, <<>>)
<1>1. PICK n \in Nat : n = Len(Expr[e])
  BY ExprType
<1>2. 1 \in 1 .. n + 1 /\ 0 \in 1 - 1 .. n /\ 0 = 1 - 1 /\ 0 \in 0 .. n
  BY <1>1
<1>3. OpsText(e, 1, 0) = <<>>
  BY <1>1, <1>2, OpsTextFacts
<1>. QED
  BY <1>1, <1>2, <1>3 DEF PartOf, NoEntry

(* The text before an entry and the operations after it. *)
LEMMA AfterType ==
    ASSUME NEW e \in Exprs, NEW l \in 1 .. Len(Expr[e]), NEW k \in l .. Len(Expr[e]), Sub(e) # None
    PROVE  /\ ExprText[Sub(e)] \o <<")">> \in TextType
           /\ k = l => AfterEntry(e, l, k) = ExprText[Sub(e)] \o <<")">>
           /\ k # l => AfterEntry(e, l, k) = AfterEntry(e, l, k - 1) \o <<Expr[e][k].name>>
<1>1. PICK n \in Nat : n = Len(Expr[e])
  BY ExprType
<1>2. 1 \in 1 .. n /\ l + 1 \in 1 .. n + 1 /\ k \in (l + 1) - 1 .. n /\ k \in Nat /\ k \in 1 .. n
  BY <1>1
<1>3. Sub(e) \in Exprs
  BY <1>1, <1>2, ExprType DEF Sub
<1>4. PICK t \in TextType : t = ExprText[Sub(e)] \o <<")">>
  <2>1. PICK a, b \in TextType : a = ExprText[Sub(e)] /\ b = <<")">>
    BY <1>3, ExprTextIs, Texts1, LineWords
  <2>. QED
    BY <2>1, TextJoin
<1>5. ASSUME k = l PROVE AfterEntry(e, l, k) = t
  <2>1. k = (l + 1) - 1
    BY <1>5
  <2>2. OpsText(e, l + 1, k) = <<>>
    BY <1>1, <1>2, <2>1, OpsTextFacts
  <2>3. t \o <<>> = t
    BY TextJoin
  <2>. QED
    BY <1>4, <2>2, <2>3 DEF AfterEntry
<1>6. ASSUME k # l PROVE AfterEntry(e, l, k) = AfterEntry(e, l, k - 1) \o <<Expr[e][k].name>>
  <2>1. k # (l + 1) - 1 /\ k - 1 \in (l + 1) - 1 .. n
    BY <1>2, <1>6
  <2>2. OpsText(e, l + 1, k) = OpsText(e, l + 1, k - 1) \o <<Expr[e][k].name>>
    BY <1>1, <1>2, <2>1, OpsTextFacts
  <2>3. PICK s, u \in TextType : s = OpsText(e, l + 1, k - 1) /\ u = <<Expr[e][k].name>>
    BY <1>1, <1>2, <2>1, OpsTextFacts, ExprType
  <2>4. Again(t, s, u)
    BY TextAgain
  <2>. QED
    BY <1>4, <2>2, <2>3, <2>4, Zenon DEF AfterEntry, Again
<1>. QED
  BY <1>4, <1>5, <1>6

LEMMA PartMore ==
    ASSUME NEW e \in Exprs, NEW k, NEW attr, NEW text, PartOf(e, k, attr, text),
           k + 1 <= Len(Expr[e]), ~IsEntry(Expr[e][k + 1])
    PROVE  PartOf(e, k + 1, attr, text \o <<Expr[e][k + 1].name>>)
<1>1. PICK n \in Nat : n = Len(Expr[e])
  BY ExprType
<1>2. k \in 0 .. n /\ k + 1 \in 0 .. n /\ k + 1 \in 1 .. n /\ (k + 1) - 1 = k /\ k \in Nat
  BY <1>1 DEF PartOf
<1>3. CASE NoEntry(e, k) /\ text = OpsText(e, 1, k)
  <2>1. 1 \in 1 .. n + 1 /\ k + 1 \in 1 - 1 .. n /\ k + 1 # 1 - 1
    BY <1>2
  <2>2. OpsText(e, 1, k + 1) = OpsText(e, 1, k) \o <<Expr[e][k + 1].name>>
    <3>1. OpsText(e, 1, k + 1) = OpsText(e, 1, (k + 1) - 1) \o <<Expr[e][k + 1].name>>
      BY <1>1, <2>1, OpsTextFacts
    <3>. QED
      BY <1>2, <3>1
  <2>3. NoEntry(e, k + 1)
    <3>1. \A i \in 1 .. k + 1 : i \in 1 .. k \/ i = k + 1
      BY <1>2
    <3>. QED
      BY <1>3, <3>1 DEF NoEntry
  <2>. QED
    BY <1>1, <1>2, <1>3, <2>2, <2>3 DEF PartOf
<1>4. CASE ~(NoEntry(e, k) /\ text = OpsText(e, 1, k))
  <2>1. PICK l \in 1 .. k : LastEntry(e, l, k) /\ text = AfterEntry(e, l, k)
    BY <1>4 DEF PartOf
  <2>2. attr = TRUE /\ Sub(e) # None
    BY <1>4 DEF PartOf
  <2>3. l \in 1 .. n /\ k + 1 \in l .. n /\ k + 1 # l /\ l \in 1 .. k + 1
    BY <1>2
  <2>4. AfterEntry(e, l, k + 1) = AfterEntry(e, l, k) \o <<Expr[e][k + 1].name>>
    <3>1. AfterEntry(e, l, k + 1) = AfterEntry(e, l, (k + 1) - 1) \o <<Expr[e][k + 1].name>>
      BY <1>1, <2>2, <2>3, AfterType
    <3>. QED
      BY <1>2, <3>1
  <2>5. LastEntry(e, l, k + 1)
    <3>1. \A i \in l + 1 .. k + 1 : i \in l + 1 .. k \/ i = k + 1
      BY <1>2, <2>3
    <3>. QED
      BY <2>1, <2>3, <3>1 DEF LastEntry
  <2>. QED
    BY <1>1, <1>2, <2>1, <2>2, <2>3, <2>4, <2>5 DEF PartOf
<1>. QED
  BY <1>3, <1>4

LEMMA PartEntry ==
    ASSUME NEW e \in Exprs, NEW k \in 1 .. Len(Expr[e]), NEW attr, attr = TRUE, Sub(e) # None,
           IsEntry(Expr[e][k])
    PROVE  PartOf(e, k, attr, ExprText[Sub(e)] \o <<")">>)
<1>1. PICK n \in Nat : n = Len(Expr[e])
  BY ExprType
<1>2. k \in 0 .. n /\ k \in 1 .. k /\ k \in k .. n /\ k \in 1 .. n
  BY <1>1
<1>3. AfterEntry(e, k, k) = ExprText[Sub(e)] \o <<")">>
  BY <1>1, <1>2, AfterType
<1>4. LastEntry(e, k, k)
  <2>1. \A i \in k + 1 .. k : FALSE
    BY <1>2
  <2>. QED
    BY <1>2, <2>1 DEF LastEntry
<1>. QED
  BY <1>1, <1>2, <1>3, <1>4 DEF PartOf

(* Where the first entry is, when there is none before k. *)
LEMMA FirstEntry ==
    ASSUME NEW e \in Exprs, NEW k \in 1 .. Len(Expr[e]), IsEntry(Expr[e][k]), NoEntry(e, k - 1)
    PROVE  Lowest(e) = k
<1>1. PICK n \in Nat : n = Len(Expr[e])
  BY ExprType
<1>2. k \in Entries(e)
  BY DEF Entries
<1>3. PICK m : m = Lowest(e) /\ m \in Entries(e) /\ m <= k
  BY <1>2, LowestFacts
<1>4. m \in 1 .. n /\ IsEntry(Expr[e][m]) /\ k \in 1 .. n
  BY <1>1, <1>3 DEF Entries
<1>5. ~(m \in 1 .. k - 1)
  BY <1>4 DEF NoEntry
<1>. QED
  BY <1>3, <1>4, <1>5

LEMMA PartNoAttr ==
    ASSUME NEW e \in Exprs, NEW k, NEW attr, NEW text, PartOf(e, k, attr, text), attr = FALSE,
           k + 1 <= Len(Expr[e]), IsEntry(Expr[e][k + 1])
    PROVE  text = Whole(e, attr)
<1>1. PICK n \in Nat : n = Len(Expr[e])
  BY ExprType
<1>2. k \in 0 .. n /\ k + 1 \in 1 .. n /\ (k + 1) - 1 = k
  BY <1>1 DEF PartOf
<1>3. NoEntry(e, k) /\ text = OpsText(e, 1, k)
  BY DEF PartOf
<1>4. Lowest(e) = k + 1
  BY <1>1, <1>2, <1>3, FirstEntry
<1>5. Lowest(e) # 0 /\ Lowest(e) - 1 = k
  BY <1>2, <1>4
<1>6. WithoutAttr(e) = OpsText(e, 1, Lowest(e) - 1)
  BY <1>5, Zenon DEF WithoutAttr, OpsText, Lowest
<1>. QED
  BY <1>3, <1>5, <1>6 DEF Whole

LEMMA PartNoExpr ==
    ASSUME NEW e \in Exprs, NEW k, NEW attr, NEW text, PartOf(e, k, attr, text), attr = TRUE,
           k + 1 <= Len(Expr[e]), IsEntry(Expr[e][k + 1]), Sub(e) = None
    PROVE  text \o <<Expr[e][k + 1].name>> = Whole(e, attr)
<1>1. PICK n \in Nat : n = Len(Expr[e])
  BY ExprType
<1>2. k \in 0 .. n /\ k + 1 \in 1 .. n /\ (k + 1) - 1 = k /\ k + 1 # 0
  BY <1>1 DEF PartOf
<1>3. NoEntry(e, k) /\ text = OpsText(e, 1, k)
  BY DEF PartOf
<1>4. Lowest(e) = k + 1
  BY <1>1, <1>2, <1>3, FirstEntry
<1>5. ExprText[e] = OpsText(e, 1, k + 1)
  BY <1>2, <1>4, ExprTextIs DEF RuleFor, Nests, PlainText
<1>6. OpsText(e, 1, k + 1) = OpsText(e, 1, k) \o <<Expr[e][k + 1].name>>
  <2>1. 1 \in 1 .. n + 1 /\ k + 1 \in 1 - 1 .. n /\ k + 1 # 1 - 1
    BY <1>2
  <2>2. OpsText(e, 1, k + 1) = OpsText(e, 1, (k + 1) - 1) \o <<Expr[e][k + 1].name>>
    BY <1>1, <2>1, OpsTextFacts
  <2>. QED
    BY <1>2, <2>2
<1>. QED
  BY <1>3, <1>5, <1>6 DEF Whole

LEMMA PartAll ==
    ASSUME NEW e \in Exprs, NEW k, NEW attr \in BOOLEAN, NEW text, PartOf(e, k, attr, text),
           ~(k + 1 <= Len(Expr[e]))
    PROVE  text = Whole(e, attr)
<1>1. PICK n \in Nat : n = Len(Expr[e])
  BY ExprType
<1>2. k = n
  BY <1>1 DEF PartOf
<1>3. CASE NoEntry(e, k) /\ text = OpsText(e, 1, k)
  <2>1. Lowest(e) = 0
    <3>1. Entries(e) = {}
      BY <1>1, <1>2, <1>3 DEF NoEntry, Entries
    <3>. QED
      BY <3>1, LowestFacts
  <2>2. text = Texts(Expr[e], OpName)
    BY <1>1, <1>2, <1>3, OpsTextAll
  <2>3. ExprText[e] = Texts(Expr[e], OpName)
    BY <2>1, ExprTextIs DEF RuleFor, Nests, PlainText
  <2>4. WithoutAttr(e) = Texts(Expr[e], OpName)
    BY <2>1, Zenon DEF WithoutAttr, Lowest
  <2>. QED
    BY <2>2, <2>3, <2>4 DEF Whole
<1>4. CASE ~(NoEntry(e, k) /\ text = OpsText(e, 1, k))
  <2>1. PICK l \in 1 .. k : LastEntry(e, l, k) /\ text = AfterEntry(e, l, k)
    BY <1>4 DEF PartOf
  <2>2. attr = TRUE /\ Sub(e) # None
    BY <1>4 DEF PartOf
  <2>3. l \in Entries(e)
    BY <1>1, <1>2, <2>1 DEF LastEntry, Entries
  <2>4. Lowest(e) # 0
    <3>1. Lowest(e) \in Entries(e)
      BY <2>3, LowestFacts
    <3>. QED
      BY <1>1, <3>1 DEF Entries
  <2>5. Latest(e) = l
    <3>1. PICK m : m = Latest(e) /\ m \in Entries(e) /\ m >= l
      BY <2>3, LatestFacts
    <3>2. m \in 1 .. n /\ IsEntry(Expr[e][m])
      BY <1>1, <3>1 DEF Entries
    <3>3. ~(m \in l + 1 .. k)
      BY <2>1, <3>2 DEF LastEntry
    <3>. QED
      BY <1>2, <3>1, <3>2, <3>3
  <2>6. ExprText[e] = After(e, ExprText[Sub(e)])
    BY <2>2, <2>4, ExprTextIs DEF RuleFor, Nests
  <2>. QED
    BY <1>1, <1>2, <2>1, <2>2, <2>5, <2>6 DEF Whole, After, AfterEntry
<1>. QED
  BY <1>3, <1>4

-----------------------------------------------------------------------------
(* The calls in progress *)

Waiting(c) ==
    /\ c.nested = TRUE /\ c.attr = TRUE /\ Sub(c.expr) # None
    /\ c.at \in 1 .. Len(Expr[c.expr]) /\ IsEntry(Expr[c.expr][c.at])

CalledBy(c, d) == c.expr = Sub(d.expr) /\ c.attr = TRUE

(* The call of a stack that is running has printed its part.  *)
Running(c, text) ==
    IF c.nested THEN Waiting(c) /\ text = ExprText[Sub(c.expr)]
    ELSE PartOf(c.expr, c.at - 1, c.attr, text)

StackOK(cs, text, e, a) ==
    IF cs = <<>> THEN text = Whole(e, a)
    ELSE /\ Running(cs[1], text)
         /\ \A i \in 2 .. Len(cs) : Waiting(cs[i]) /\ CalledBy(cs[i - 1], cs[i])
         /\ cs[Len(cs)].expr = e /\ cs[Len(cs)].attr = a

LEMMA TailIsRest ==
    ASSUME NEW S, NEW s \in Seq(S), s # <<>>
    PROVE  /\ Len(s) \in Nat /\ Len(s) >= 1 /\ Tail(s) \in Seq(S) /\ Len(Tail(s)) = Len(s) - 1
           /\ \A i \in 1 .. Len(s) - 1 : Tail(s)[i] = s[i + 1]
<1>1. PICK n \in Nat : n = Len(s) /\ n >= 1
  OBVIOUS
<1>2. Tail(s) = [i \in 1 .. n - 1 |-> s[i + 1]]
  BY <1>1, TailFacts
<1>3. PICK r \in Seq(S) : r = Tail(s)
  <2>1. Tail(s) \in Seq(S)
    BY <1>1
  <2>. QED
    BY <2>1
<1>4. Len(r) = n - 1
  BY <1>1, <1>3
<1>5. \A i \in 1 .. n - 1 : r[i] = s[i + 1]
  BY <1>2, <1>3
<1>. QED
  BY <1>1, <1>3, <1>4, <1>5

(* A call replaced by what it is after a step. *)
LEMMA StackStep ==
    ASSUME NEW cs \in Seq(CallType), cs # <<>>, NEW t, NEW u, NEW e, NEW a, StackOK(cs, t, e, a),
           NEW c \in CallType, c.expr = cs[1].expr, c.attr = cs[1].attr, Running(c, u)
    PROVE  StackOK(<<c>> \o Tail(cs), u, e, a)
<1>1. PICK n \in Nat : n = Len(cs) /\ n >= 1
  OBVIOUS
<1>2. PICK ds \in Seq(CallType) : /\ ds = <<c>> \o Tail(cs) /\ Len(ds) = n /\ ds[1] = c
                                  /\ \A i \in 2 .. n : ds[i] = cs[i]
  <2>1. PICK r \in Seq(CallType) : r = Tail(cs) /\ Len(r) = n - 1 /\ \A i \in 1 .. n - 1 : r[i] = cs[i + 1]
    <3>1. Tail(cs) \in Seq(CallType) /\ Len(Tail(cs)) = n - 1 /\ \A i \in 1 .. n - 1 : Tail(cs)[i] = cs[i + 1]
      BY <1>1, TailIsRest
    <3>. QED
      BY <3>1, Zenon
  <2>2. PICK ds : ds = <<c>> \o r
    OBVIOUS
  <2>3. ds \in Seq(CallType) /\ Len(ds) = n /\ ds[1] = c /\ \A i \in 2 .. n : ds[i] = r[i - 1]
    BY <1>1, <2>1, <2>2
  <2>4. ASSUME NEW i \in 2 .. n PROVE ds[i] = cs[i]
    <3>1. i - 1 \in 1 .. n - 1 /\ (i - 1) + 1 = i
      BY <1>1
    <3>2. ds[i] = r[i - 1] /\ r[i - 1] = cs[(i - 1) + 1]
      BY <2>1, <2>3, <3>1
    <3>. QED
      BY <3>1, <3>2
  <2>. QED
    BY <2>1, <2>2, <2>3, <2>4, Zenon
<1>3. ds # <<>>
  BY <1>1, <1>2
<1>4. /\ \A i \in 2 .. n : Waiting(cs[i]) /\ CalledBy(cs[i - 1], cs[i])
      /\ cs[n].expr = e /\ cs[n].attr = a
  BY <1>1, Zenon DEF StackOK
<1>5. ASSUME NEW i \in 2 .. n PROVE Waiting(ds[i]) /\ CalledBy(ds[i - 1], ds[i])
  <2>1. ds[i] = cs[i] /\ Waiting(cs[i]) /\ CalledBy(cs[i - 1], cs[i])
    BY <1>2, <1>4
  <2>2. ds[i - 1].expr = cs[i - 1].expr /\ ds[i - 1].attr = cs[i - 1].attr
    <3>1. CASE i = 2
      <4>1. i - 1 = 1
        BY <3>1
      <4>. QED
        BY <1>2, <4>1
    <3>2. CASE i # 2
      <4>1. i - 1 \in 2 .. n
        BY <1>1, <3>2
      <4>. QED
        BY <1>2, <4>1
    <3>. QED
      BY <3>1, <3>2
  <2>. QED
    BY <2>1, <2>2 DEF CalledBy
<1>6. ds[n].expr = e /\ ds[n].attr = a
  <2>1. CASE n = 1
    BY <1>2, <1>4, <2>1
  <2>2. CASE n # 1
    <3>1. n \in 2 .. n
      BY <1>1, <2>2
    <3>. QED
      BY <1>2, <1>4, <3>1
  <2>. QED
    BY <2>1, <2>2
<1>7. StackOK(ds, u, e, a)
  BY <1>2, <1>3, <1>5, <1>6, Zenon DEF StackOK
<1>. QED
  BY <1>2, <1>7

(* A call has printed all it should, and returns. *)
LEMMA StackReturn ==
    ASSUME NEW cs \in Seq(CallType), cs # <<>>, NEW t, NEW u, NEW e, NEW a, StackOK(cs, t, e, a),
           u = Whole(cs[1].expr, cs[1].attr)
    PROVE  StackOK(Tail(cs), u, e, a)
<1>1. PICK n \in Nat : n = Len(cs) /\ n >= 1
  OBVIOUS
<1>2. PICK r \in Seq(CallType) : r = Tail(cs) /\ Len(r) = n - 1 /\ \A i \in 1 .. n - 1 : r[i] = cs[i + 1]
  <2>1. Tail(cs) \in Seq(CallType) /\ Len(Tail(cs)) = n - 1 /\ \A i \in 1 .. n - 1 : Tail(cs)[i] = cs[i + 1]
    BY <1>1, TailIsRest
  <2>. QED
    BY <2>1, Zenon
<1>3. /\ \A i \in 2 .. n : Waiting(cs[i]) /\ CalledBy(cs[i - 1], cs[i])
      /\ cs[n].expr = e /\ cs[n].attr = a
  BY <1>1, Zenon DEF StackOK
<1>4. CASE n = 1
  <2>1. r = <<>>
    BY <1>2, <1>4, NoElements
  <2>. QED
    BY <1>2, <1>3, <1>4, <2>1, Zenon DEF StackOK
<1>5. CASE n # 1
  <2>1. 2 \in 2 .. n /\ 1 \in 1 .. n - 1 /\ 2 - 1 = 1 /\ 1 + 1 = 2 /\ n - 1 \in 1 .. n - 1 /\ (n - 1) + 1 = n
    BY <1>1, <1>5
  <2>2. r # <<>>
    <3>1. Len(r) # 0 /\ Len(<<>>) = 0
      BY <1>1, <1>2, <1>5
    <3>. QED
      BY <3>1
  <2>3. r[1] = cs[2] /\ r[n - 1] = cs[n]
    BY <1>2, <2>1
  <2>4. Waiting(r[1]) /\ CalledBy(cs[1], r[1])
    BY <1>3, <2>1, <2>3
  <2>5. Running(r[1], u)
    <3>1. u = ExprText[Sub(r[1].expr)]
      BY <2>4 DEF CalledBy, Whole
    <3>. QED
      BY <2>4, <3>1 DEF Running, Waiting
  <2>6. ASSUME NEW i \in 2 .. n - 1 PROVE Waiting(r[i]) /\ CalledBy(r[i - 1], r[i])
    <3>1. i \in 1 .. n - 1 /\ i - 1 \in 1 .. n - 1 /\ i + 1 \in 2 .. n /\ (i + 1) - 1 = i /\ (i - 1) + 1 = i
      BY <1>1
    <3>2. r[i] = cs[i + 1] /\ r[i - 1] = cs[i]
      <4>1. r[i - 1] = cs[(i - 1) + 1]
        BY <1>2, <3>1
      <4>. QED
        BY <1>2, <3>1, <4>1
    <3>3. Waiting(cs[i + 1]) /\ CalledBy(cs[(i + 1) - 1], cs[i + 1])
      BY <1>3, <3>1
    <3>. QED
      BY <3>1, <3>2, <3>3
  <2>7. StackOK(r, u, e, a)
    BY <1>2, <1>3, <2>2, <2>3, <2>5, <2>6, Zenon DEF StackOK
  <2>. QED
    BY <1>2, <2>7
<1>. QED
  BY <1>4, <1>5

(* A call for a nested expression. *)
LEMMA StackCall ==
    ASSUME NEW cs \in Seq(CallType), cs # <<>>, NEW t, NEW e, NEW a, StackOK(cs, t, e, a),
           NEW c \in CallType, c.expr = cs[1].expr, c.attr = cs[1].attr, Waiting(c),
           NEW d \in CallType, CalledBy(d, c), NEW u, Running(d, u)
    PROVE  StackOK(<<d, c>> \o Tail(cs), u, e, a)
<1>1. PICK n \in Nat : n = Len(cs) /\ n >= 1
  OBVIOUS
<1>2. PICK ds \in Seq(CallType) : /\ ds = <<d, c>> \o Tail(cs) /\ Len(ds) = n + 1 /\ ds[1] = d /\ ds[2] = c
                                  /\ \A i \in 3 .. n + 1 : ds[i] = cs[i - 1]
  <2>1. PICK r \in Seq(CallType) : r = Tail(cs) /\ Len(r) = n - 1 /\ \A i \in 1 .. n - 1 : r[i] = cs[i + 1]
    <3>1. Tail(cs) \in Seq(CallType) /\ Len(Tail(cs)) = n - 1 /\ \A i \in 1 .. n - 1 : Tail(cs)[i] = cs[i + 1]
      BY <1>1, TailIsRest
    <3>. QED
      BY <3>1, Zenon
  <2>2. PICK ds : ds = <<d, c>> \o r
    OBVIOUS
  <2>3. ds \in Seq(CallType) /\ Len(ds) = n + 1 /\ ds[1] = d /\ ds[2] = c
        /\ \A i \in 3 .. n + 1 : ds[i] = r[i - 2]
    BY <1>1, <2>1, <2>2
  <2>4. \A i \in 3 .. n + 1 : i - 2 \in 1 .. n - 1 /\ (i - 2) + 1 = i - 1
    BY <1>1
  <2>5. \A i \in 3 .. n + 1 : ds[i] = cs[i - 1]
    <3>1. SUFFICES ASSUME NEW i \in 3 .. n + 1 PROVE ds[i] = cs[i - 1]
      OBVIOUS
    <3>2. r[i - 2] = cs[(i - 2) + 1]
      BY <2>1, <2>4
    <3>. QED
      BY <2>3, <2>4, <3>2
  <2>. QED
    BY <2>1, <2>2, <2>3, <2>5, Zenon
<1>3. ds # <<>>
  BY <1>1, <1>2
<1>4. /\ \A i \in 2 .. n : Waiting(cs[i]) /\ CalledBy(cs[i - 1], cs[i])
      /\ cs[n].expr = e /\ cs[n].attr = a
  BY <1>1, Zenon DEF StackOK
<1>5. ASSUME NEW i \in 2 .. n + 1 PROVE Waiting(ds[i]) /\ CalledBy(ds[i - 1], ds[i])
  <2>1. CASE i = 2
    <3>1. i - 1 = 1
      BY <2>1
    <3>. QED
      BY <1>2, <2>1, <3>1
  <2>2. CASE i # 2
    <3>1. i \in 3 .. n + 1 /\ i - 1 \in 2 .. n /\ i - 1 \in Nat
      BY <1>1, <2>2
    <3>2. ds[i] = cs[i - 1] /\ Waiting(cs[i - 1]) /\ CalledBy(cs[(i - 1) - 1], cs[i - 1])
      BY <1>2, <1>4, <3>1
    <3>3. ds[i - 1].expr = cs[(i - 1) - 1].expr /\ ds[i - 1].attr = cs[(i - 1) - 1].attr
      <4>1. CASE i = 3
        <5>1. i - 1 = 2 /\ (i - 1) - 1 = 1
          BY <4>1
        <5>. QED
          BY <1>2, <5>1
      <4>2. CASE i # 3
        <5>1. i - 1 \in 3 .. n + 1
          BY <1>1, <3>1, <4>2
        <5>. QED
          BY <1>2, <5>1
      <4>. QED
        BY <4>1, <4>2
    <3>. QED
      BY <3>2, <3>3 DEF CalledBy
  <2>. QED
    BY <2>1, <2>2
<1>6. ds[n + 1].expr = e /\ ds[n + 1].attr = a
  <2>1. CASE n = 1
    <3>1. n + 1 = 2
      BY <2>1
    <3>. QED
      BY <1>2, <1>4, <2>1, <3>1
  <2>2. CASE n # 1
    <3>1. n + 1 \in 3 .. n + 1 /\ (n + 1) - 1 = n
      BY <1>1, <2>2
    <3>. QED
      BY <1>2, <1>4, <3>1
  <2>. QED
    BY <2>1, <2>2
<1>7. StackOK(ds, u, e, a)
  BY <1>2, <1>3, <1>5, <1>6, Zenon DEF StackOK
<1>. QED
  BY <1>2, <1>7

-----------------------------------------------------------------------------
(* What is printed of registers and expressions *)

RegistersText(undef) ==
    FlattenSeq([i \in 1 .. Registers |-> <<"register", IF i \in undef THEN "<undef>" ELSE "value">>])

ExprOK == Sound /\ phase = "expr" => StackOK(calls, buf.printed, asked.expr, asked.attr)

PassOK ==
    Sound /\ phase = "pass" =>
        /\ asked.op = "expr" => buf.printed = Whole(asked.expr, asked.attr)
        /\ asked.op = "registers" => buf.printed = RegistersText(asked.undef)

YInv == XInv /\ ExprOK /\ PassOK

(* The call that is running. *)
RunsTop(e, k, attr) ==
    /\ calls \in Seq(CallType) /\ calls # <<>> /\ Top = calls[1] /\ Top \in CallType
    /\ Caller = Tail(calls) /\ Ops = Expr[e]
    /\ e = Top.expr /\ e \in Exprs /\ k = Top.at - 1 /\ k + 1 = Top.at /\ k \in Nat
    /\ attr = Top.attr /\ attr \in BOOLEAN
    /\ StackOK(calls, buf.printed, asked.expr, asked.attr) /\ Running(Top, buf.printed)
    /\ phase' = phase /\ phase = "expr" /\ asked' = asked
    /\ buf \in BufType /\ BufOK(buf) /\ ~buf.fault

LEMMA RunsTopFacts ==
    ASSUME YInv, Describing
    PROVE  \E e, k, attr : RunsTop(e, k, attr)
<1>1. calls # <<>> /\ phase = "expr" /\ phase' = phase /\ asked' = asked /\ Sound
  BY DEF Describing
<1>2. TInv /\ StackOK(calls, buf.printed, asked.expr, asked.attr)
  BY <1>1 DEF YInv, XInv, ExprOK
<1>3. calls \in Seq(CallType)
  BY <1>2 DEF TInv, CallsOK
<1>4. Top = calls[1] /\ Caller = Tail(calls)
  BY <1>1, <1>3 DEF Top, Caller
<1>5. Top \in CallType /\ buf \in BufType /\ BufOK(buf) /\ ~buf.fault
  BY <1>2, TopFacts
<1>6. Running(Top, buf.printed)
  BY <1>1, <1>2, <1>4, Zenon DEF StackOK
<1>7. Top.expr \in Exprs /\ Top.at - 1 \in Nat /\ (Top.at - 1) + 1 = Top.at /\ Top.attr \in BOOLEAN
  BY <1>5 DEF CallType
<1>8. Ops = Expr[Top.expr]
  BY DEF Ops
<1>9. RunsTop(Top.expr, Top.at - 1, Top.attr)
  BY <1>1, <1>2, <1>3, <1>4, <1>5, <1>6, <1>7, <1>8, Zenon DEF RunsTop
<1>. QED
  BY <1>9

(* The operation it has come to. *)
LEMMA AtOpFacts ==
    ASSUME NEW e, NEW k, NEW attr, RunsTop(e, k, attr), NEW entry \in BOOLEAN, AtOp(entry)
    PROVE  /\ k + 1 \in 1 .. Len(Expr[e]) /\ Op = Expr[e][k + 1] /\ <<Op.name>> \in TextType
           /\ IsEntry(Expr[e][k + 1]) = entry /\ Top.nested = FALSE
           /\ PartOf(e, k, attr, buf.printed)
<1>1. k + 1 \in 1 .. Len(Expr[e]) /\ Op = Expr[e][k + 1]
  BY ExprType DEF AtOp, RunsTop, Op
<1>2. Top.nested = FALSE /\ IsEntry(Expr[e][k + 1]) = entry
  BY <1>1 DEF AtOp, RunsTop, CallType, IsEntry
<1>3. PartOf(e, k, attr, buf.printed)
  BY <1>2, Zenon DEF RunsTop, Running
<1>4. <<Op.name>> \in TextType
  BY <1>1, ExprType DEF RunsTop
<1>. QED
  BY <1>1, <1>2, <1>3, <1>4

(* The running call goes on to the next operation. *)
LEMMA StepOK ==
    ASSUME NEW e, NEW k, NEW attr, RunsTop(e, k, attr), calls' = Step,
           PartOf(e, k + 1, attr, buf'.printed)
    PROVE  ExprOK'
<1>1. PICK c : c = [Top EXCEPT !.at = @ + 1, !.nested = FALSE]
  OBVIOUS
<1>2. /\ c \in CallType /\ c.expr = calls[1].expr /\ c.attr = calls[1].attr /\ c.nested = FALSE
      /\ c.expr = e /\ c.attr = attr /\ c.at - 1 = k + 1
  <2>1. PICK d \in CallType : d = Top
    BY DEF RunsTop
  <2>2. e = d.expr /\ attr = d.attr /\ k + 1 = d.at /\ k \in Nat /\ calls[1] = d
    BY <2>1 DEF RunsTop
  <2>3. c = [d EXCEPT !.at = d.at + 1, !.nested = FALSE]
    BY <1>1, <2>1
  <2>4. c.expr = d.expr /\ c.attr = d.attr /\ c.nested = FALSE /\ c.at = d.at + 1 /\ c \in CallType
    <3>1. d.at + 1 \in Nat \ {0}
      BY <2>2
    <3>. QED
      BY <2>3, <3>1 DEF CallType
  <2>5. c.at - 1 = k + 1
    BY <2>2, <2>4
  <2>. QED
    BY <2>2, <2>4, <2>5
<1>3. Running(c, buf'.printed)
  BY <1>2, Zenon DEF Running
<1>4. PICK u : u = buf'.printed
  OBVIOUS
<1>5. StackOK(<<c>> \o Tail(calls), u, asked.expr, asked.attr)
  BY <1>2, <1>3, <1>4, StackStep DEF RunsTop
<1>6. calls' = <<c>> \o Tail(calls)
  BY <1>1 DEF Step, RunsTop
<1>7. asked' = asked
  BY DEF RunsTop
<1>. QED
  BY <1>4, <1>5, <1>6, <1>7, Zenon DEF ExprOK

(* The running call returns. *)
LEMMA ReturnOK ==
    ASSUME NEW e, NEW k, NEW attr, RunsTop(e, k, attr), calls' = Caller,
           buf'.printed = Whole(e, attr)
    PROVE  ExprOK'
<1>1. PICK u : u = buf'.printed
  OBVIOUS
<1>2. u = Whole(calls[1].expr, calls[1].attr)
  BY <1>1 DEF RunsTop
<1>3. StackOK(Tail(calls), u, asked.expr, asked.attr)
  BY <1>2, StackReturn DEF RunsTop
<1>4. asked' = asked /\ calls' = Tail(calls)
  BY DEF RunsTop
<1>. QED
  BY <1>1, <1>3, <1>4, Zenon DEF ExprOK

LEMMA OpPrinted ==
    ASSUME NEW e, NEW k, NEW attr, RunsTop(e, k, attr), NEW s \in TextType, buf' = Put(buf, s), ~buf'.fault
    PROVE  buf'.printed = buf.printed \o s
BY PutFacts DEF RunsTop

LEMMA PrintOpOK == ASSUME YInv, PrintOp, ~buf'.fault PROVE ExprOK'
<1>1. AtOp(FALSE) /\ buf' = Put(buf, <<Op.name>>) /\ calls' = Step
  BY DEF PrintOp
<1>2. PICK e, k, attr : RunsTop(e, k, attr)
  BY <1>1, RunsTopFacts DEF AtOp
<1>3. /\ k + 1 \in 1 .. Len(Expr[e]) /\ Op = Expr[e][k + 1] /\ <<Op.name>> \in TextType
      /\ ~IsEntry(Expr[e][k + 1]) /\ PartOf(e, k, attr, buf.printed)
  BY <1>1, <1>2, AtOpFacts
<1>4. buf'.printed = buf.printed \o <<Expr[e][k + 1].name>>
  BY <1>1, <1>2, <1>3, OpPrinted
<1>5. e \in Exprs /\ k + 1 <= Len(Expr[e])
  BY <1>2, <1>3, ExprType DEF RunsTop
<1>6. PartOf(e, k + 1, attr, buf'.printed)
  BY <1>3, <1>4, <1>5, PartMore
<1>. QED
  BY <1>1, <1>2, <1>6, StepOK

LEMMA EntryWithoutAttrOK == ASSUME YInv, EntryWithoutAttr PROVE ExprOK'
<1>1. AtOp(TRUE) /\ ~Top.attr /\ buf' = buf /\ calls' = Caller
  BY DEF EntryWithoutAttr
<1>2. PICK e, k, attr : RunsTop(e, k, attr)
  BY <1>1, RunsTopFacts DEF AtOp
<1>3. /\ k + 1 \in 1 .. Len(Expr[e]) /\ IsEntry(Expr[e][k + 1]) /\ PartOf(e, k, attr, buf.printed)
  BY <1>1, <1>2, AtOpFacts
<1>4. e \in Exprs /\ k + 1 <= Len(Expr[e]) /\ attr = FALSE
  BY <1>1, <1>2, <1>3, ExprType DEF RunsTop
<1>5. buf'.printed = Whole(e, attr)
  BY <1>1, <1>3, <1>4, PartNoAttr
<1>. QED
  BY <1>1, <1>2, <1>5, ReturnOK

LEMMA EntryWithoutExprOK == ASSUME YInv, EntryWithoutExpr, ~buf'.fault PROVE ExprOK'
<1>1. AtOp(TRUE) /\ Top.attr /\ Ops[1].sub = None /\ buf' = Put(buf, <<Op.name>>) /\ calls' = Caller
  BY DEF EntryWithoutExpr
<1>2. PICK e, k, attr : RunsTop(e, k, attr)
  BY <1>1, RunsTopFacts DEF AtOp
<1>3. /\ k + 1 \in 1 .. Len(Expr[e]) /\ Op = Expr[e][k + 1] /\ <<Op.name>> \in TextType
      /\ IsEntry(Expr[e][k + 1]) /\ PartOf(e, k, attr, buf.printed)
  BY <1>1, <1>2, AtOpFacts
<1>4. buf'.printed = buf.printed \o <<Expr[e][k + 1].name>>
  BY <1>1, <1>2, <1>3, OpPrinted
<1>5. e \in Exprs /\ k + 1 <= Len(Expr[e]) /\ attr = TRUE /\ Sub(e) = None
  <2>1. e \in Exprs /\ attr = Top.attr /\ attr \in BOOLEAN /\ Ops = Expr[e]
    BY <1>2, Zenon DEF RunsTop
  <2>2. k + 1 <= Len(Expr[e])
    BY <1>3, <2>1, ExprType
  <2>. QED
    BY <1>1, <2>1, <2>2 DEF Sub
<1>6. buf'.printed = Whole(e, attr)
  BY <1>3, <1>4, <1>5, PartNoExpr
<1>. QED
  BY <1>1, <1>2, <1>6, ReturnOK

LEMMA PrintEntryOK == ASSUME YInv, PrintEntry, ~buf'.fault PROVE ExprOK'
<1>1. AtOp(TRUE) /\ Top.attr /\ Ops[1].sub # None
      /\ calls' = <<ExprCall(Ops[1].sub, TRUE), [Top EXCEPT !.nested = TRUE]>> \o Caller
  BY DEF PrintEntry
<1>2. PICK e, k, attr : RunsTop(e, k, attr)
  BY <1>1, RunsTopFacts DEF AtOp
<1>3. /\ k + 1 \in 1 .. Len(Expr[e]) /\ Op = Expr[e][k + 1] /\ <<Op.name>> \in TextType
      /\ IsEntry(Expr[e][k + 1])
  BY <1>1, <1>2, AtOpFacts
<1>4. buf'.printed = <<>>
  <2>1. PICK b : b = Put(buf, <<Op.name>>) /\ buf' = (IF b.fault THEN b ELSE Clean(b))
    BY DEF PrintEntry
  <2>2. buf' = Clean(b)
    BY <2>1
  <2>. QED
    BY <2>2 DEF Clean
<1>5. e \in Exprs /\ attr = TRUE /\ Sub(e) # None /\ Sub(e) = Ops[1].sub
  BY <1>1, <1>2 DEF RunsTop, Sub
<1>6. Sub(e) \in Exprs
  <2>1. 1 \in 1 .. Len(Expr[e])
    BY <1>3, <1>5, ExprType
  <2>. QED
    BY <1>5, <2>1, ExprType DEF Sub
<1>7. PICK c, d : c = [Top EXCEPT !.nested = TRUE] /\ d = ExprCall(Sub(e), TRUE)
  OBVIOUS
<1>8. /\ c \in CallType /\ c.expr = calls[1].expr /\ c.attr = calls[1].attr /\ c.nested = TRUE
      /\ c.expr = e /\ c.attr = TRUE /\ c.at = k + 1
  BY <1>2, <1>5, <1>7 DEF RunsTop, CallType
<1>9. /\ d \in CallType /\ d.expr = Sub(e) /\ d.attr = TRUE /\ d.nested = FALSE /\ d.at - 1 = 0
  BY <1>6, <1>7 DEF ExprCall, CallType
<1>10. Waiting(c)
  BY <1>3, <1>5, <1>8, Zenon DEF Waiting
<1>11. CalledBy(d, c)
  BY <1>8, <1>9 DEF CalledBy
<1>12. Running(d, <<>>)
  <2>1. PartOf(Sub(e), 0, TRUE, <<>>)
    BY <1>6, PartNone
  <2>. QED
    BY <1>9, <2>1 DEF Running
<1>13. StackOK(<<d, c>> \o Tail(calls), <<>>, asked.expr, asked.attr)
  BY <1>2, <1>8, <1>9, <1>10, <1>11, <1>12, StackCall DEF RunsTop
<1>14. calls' = <<d, c>> \o Tail(calls) /\ asked' = asked
  BY <1>1, <1>2, <1>5, <1>7, Zenon DEF RunsTop
<1>. QED
  BY <1>4, <1>13, <1>14, Zenon DEF ExprOK

LEMMA EntryDoneOK == ASSUME YInv, EntryDone, ~buf'.fault PROVE ExprOK'
<1>1. Describing /\ Top.nested /\ buf' = Put(buf, <<")">>) /\ calls' = Step
  BY DEF EntryDone
<1>2. PICK e, k, attr : RunsTop(e, k, attr)
  BY <1>1, RunsTopFacts
<1>3. Waiting(Top) /\ buf.printed = ExprText[Sub(e)]
  BY <1>1, <1>2 DEF RunsTop, Running
<1>4. /\ e \in Exprs /\ k + 1 \in 1 .. Len(Expr[e]) /\ attr = TRUE /\ Sub(e) # None
      /\ IsEntry(Expr[e][k + 1])
  BY <1>2, <1>3 DEF RunsTop, Waiting
<1>5. buf'.printed = ExprText[Sub(e)] \o <<")">>
  BY <1>1, <1>2, <1>3, OpPrinted, Texts1, LineWords
<1>6. PartOf(e, k + 1, attr, buf'.printed)
  BY <1>4, <1>5, PartEntry
<1>. QED
  BY <1>1, <1>2, <1>6, StepOK

LEMMA ExprDoneOK == ASSUME YInv, ExprDone PROVE ExprOK'
<1>1. Describing /\ ~Top.nested /\ Top.at > Len(Ops) /\ buf' = buf /\ calls' = Caller
  BY DEF ExprDone
<1>2. PICK e, k, attr : RunsTop(e, k, attr)
  BY <1>1, RunsTopFacts
<1>3. PartOf(e, k, attr, buf.printed)
  BY <1>1, <1>2, Zenon DEF RunsTop, Running
<1>4. e \in Exprs /\ attr \in BOOLEAN /\ ~(k + 1 <= Len(Expr[e]))
  BY <1>1, <1>2, ExprType DEF RunsTop
<1>5. buf'.printed = Whole(e, attr)
  BY <1>1, <1>3, <1>4, PartAll
<1>. QED
  BY <1>1, <1>2, <1>5, ReturnOK

-----------------------------------------------------------------------------
LEMMA InitYInv == Init => YInv
<1> SUFFICES ASSUME Init PROVE YInv
  OBVIOUS
<1>1. phase = "ready"
  BY DEF Init
<1>. QED
  BY <1>1, InitXInv DEF YInv, ExprOK, PassOK

LEMMA StepYInv == YInv /\ [Next]_vars => YInv'
<1> SUFFICES ASSUME YInv, [Next]_vars PROVE YInv'
  OBVIOUS
<1>1. XInv /\ XInv' /\ ExprOK /\ PassOK
  BY StepXInv DEF YInv
<1>2. TInv
  BY <1>1 DEF XInv
<1>3. CASE phase' \notin {"expr", "pass"}
  BY <1>1, <1>3 DEF YInv, ExprOK, PassOK
<1>4. CASE HandleDwarf
  <2>1. phase' = "pass" /\ asked'.op = "other"
    BY <1>4 DEF HandleDwarf, Other, Nothing
  <2>. QED
    BY <1>1, <2>1 DEF YInv, ExprOK, PassOK
<1>5. CASE PrintRegisters
  <2>1. PICK undef \in SUBSET (1 .. Registers) :
            /\ buf' = PutAll(Clean(buf), [i \in 1 .. Registers |->
                          <<"register", IF i \in undef THEN "<undef>" ELSE "value">>])
            /\ asked' = [Nothing EXCEPT !.op = "registers", !.undef = undef]
    BY <1>5 DEF PrintRegisters
  <2>2. phase' = phase /\ phase = "pass" /\ ~buf.fault
    BY <1>5 DEF PrintRegisters, Sound
  <2>3. PICK s : s = [i \in 1 .. Registers |-> <<"register", IF i \in undef THEN "<undef>" ELSE "value">>]
    OBVIOUS
  <2>4. s \in Pieces
    <3>1. ASSUME NEW i \in 1 .. Registers
          PROVE  <<"register", IF i \in undef THEN "<undef>" ELSE "value">> \in TextType
      BY Texts2, LineWords
    <3>2. s \in [1 .. Registers -> TextType]
      BY <2>3, <3>1
    <3>. QED
      BY <3>2, SizeType DEF Pieces
  <2>5. ASSUME ~buf'.fault PROVE buf'.printed = FlattenSeq(s)
    <3>1. Clean(buf) \in BufType /\ BufOK(Clean(buf)) /\ Clean(buf).printed = <<>>
      BY <1>2, <2>2, CleanFacts DEF TInv
    <3>2. buf' = PutAll(Clean(buf), s)
      BY <2>1, <2>3
    <3>3. buf'.printed = Clean(buf).printed \o FlattenSeq(s)
      BY <2>4, <2>5, <3>1, <3>2, PutAllFacts DEF Pieces
    <3>4. <<>> \o FlattenSeq(s) = FlattenSeq(s)
      BY <2>4, FlattenText, TextJoin
    <3>. QED
      BY <3>1, <3>3, <3>4
  <2>6. asked'.op = "registers" /\ asked'.undef = undef
    BY <2>1 DEF Nothing
  <2>7. FlattenSeq(s) = RegistersText(undef)
    BY <2>3 DEF RegistersText
  <2>. QED
    BY <1>1, <2>2, <2>5, <2>6, <2>7 DEF YInv, ExprOK, PassOK, Sound
<1>6. CASE Describe
  <2>1. PICK e \in Exprs, a \in BOOLEAN :
            calls' = <<ExprCall(e, a)>> /\ asked' = [Nothing EXCEPT !.op = "expr", !.expr = e, !.attr = a]
    BY <1>6 DEF Describe
  <2>2. phase' = "expr" /\ buf' = Clean(buf)
    BY <1>6 DEF Describe
  <2>3. asked'.expr = e /\ asked'.attr = a
    BY <2>1 DEF Nothing
  <2>4. buf'.printed = <<>>
    BY <2>2 DEF Clean
  <2>5. PICK c : c = ExprCall(e, a) /\ c.expr = e /\ c.attr = a /\ c.nested = FALSE /\ c.at - 1 = 0
    <3>1. PICK c : c = ExprCall(e, a)
      OBVIOUS
    <3>2. c.expr = e /\ c.attr = a /\ c.nested = FALSE /\ c.at = 1
      BY <3>1 DEF ExprCall
    <3>3. c.at - 1 = 0
      BY <3>2
    <3>. QED
      BY <3>1, <3>2, <3>3
  <2>6. Running(c, <<>>)
    BY <2>5, PartNone DEF Running
  <2>7. StackOK(<<c>>, <<>>, e, a)
    <3>1. <<c>> # <<>> /\ <<c>>[1] = c /\ Len(<<c>>) = 1 /\ 2 .. 1 = {}
      OBVIOUS
    <3>. QED
      BY <2>5, <2>6, <3>1 DEF StackOK
  <2>8. ExprOK'
    BY <2>1, <2>3, <2>4, <2>5, <2>7, Zenon DEF ExprOK
  <2>. QED
    BY <1>1, <2>2, <2>8 DEF YInv, PassOK
<1>7. CASE PrintOp \/ EntryWithoutAttr \/ EntryWithoutExpr \/ PrintEntry \/ EntryDone \/ ExprDone
  <2>1. phase' = phase /\ phase = "expr"
    BY <1>7 DEF PrintOp, EntryWithoutAttr, EntryWithoutExpr, PrintEntry, EntryDone, ExprDone, AtOp, Describing
  <2>2. ASSUME ~buf'.fault PROVE ExprOK'
    BY <1>7, <2>2, PrintOpOK, EntryWithoutAttrOK, EntryWithoutExprOK, PrintEntryOK, EntryDoneOK, ExprDoneOK
  <2>3. ExprOK'
    BY <2>2 DEF ExprOK, Sound
  <2>. QED
    BY <1>1, <2>1, <2>3 DEF YInv, PassOK
<1>8. CASE DescribeEnd
  <2>1. phase = "expr" /\ phase' = "pass" /\ calls = <<>> /\ UNCHANGED <<buf, asked>> /\ Sound
    BY <1>8 DEF DescribeEnd
  <2>2. asked.op = "expr"
    BY <1>1, <2>1 DEF XInv, AskedIs
  <2>3. buf.printed = Whole(asked.expr, asked.attr)
    BY <1>1, <2>1, Zenon DEF ExprOK, StackOK
  <2>. QED
    BY <1>1, <2>1, <2>2, <2>3 DEF YInv, ExprOK, PassOK
<1>9. CASE Unwind \/ HandleEnd \/ PrintSimple \/ PrintSimpleFunction \/ PrintPretty \/ PrintHead \/ PrintReturn
           \/ PrintVariable \/ PrintParam \/ PrintTail \/ PrintEnd
  <2>1. phase' \notin {"expr", "pass"}
    BY <1>9 DEF Unwind, Ready, HandleEnd, PrintSimple, PrintPretty, PrintTrace, PrintSimpleFunction, PrintHead,
                PrintReturn, PrintVariable, PrintParam, PrintTail, PrintEnd, NextParam, Printing
  <2>. QED
    BY <1>3, <2>1
<1>10. CASE UNCHANGED vars
  <2>1. UNCHANGED <<buf, phase, calls, asked>>
    BY <1>10 DEF vars
  <2>. QED
    BY <1>1, <2>1 DEF YInv, ExprOK, PassOK, Sound
<1>. QED
  BY <1>4, <1>5, <1>6, <1>7, <1>8, <1>9, <1>10 DEF Next

(* What was asked for is what was printed, and nothing of what was before. *)
THEOREM TextCorrect == Spec => []TextWhole
<1>1. YInv => TextWhole
  <2> SUFFICES ASSUME YInv, Sound PROVE TextWhole
    BY DEF TextWhole
  <2>1. functions \in Seq(Functions) /\ params \in Seq(Seq(ParamType)) /\ Len(params) = Len(functions)
    BY DEF YInv, XInv, TInv, TraceOK
  <2>2. PICK n \in Nat : n = Len(functions)
    BY <2>1
  <2>3. \A i \in 1 .. n : functions[i] \in Functions /\ params[i] \in Seq(ParamType)
    BY <2>1, <2>2
  <2>4. phase = "ready" /\ asked.op = "simple"
        => buf.printed = FlattenSeq([i \in 1 .. Len(functions) |-> SimpleText(i)])
    <3>1. [i \in 1 .. n |-> SimpleText(i)] = [i \in 1 .. n |-> SimpleOf(functions[i])]
      BY TextIs
    <3>. QED
      BY <2>2, <3>1 DEF YInv, XInv, ReadyOK, SimpleUp
  <2>5. phase = "ready" /\ asked.op = "pretty" /\ passes < 2
        => buf.printed = FlattenSeq([i \in 1 .. Len(functions) |-> PrettyText(i)])
    <3>1. [i \in 1 .. n |-> PrettyText(i)] = [i \in 1 .. n |-> PrettyOf(functions[i], params[i])]
      <4>1. \A i \in 1 .. n : PrettyText(i) = PrettyOf(functions[i], params[i])
        BY <2>3, PrettyTextIs
      <4>. QED
        BY <4>1
    <3>. QED
      BY <2>2, <3>1 DEF YInv, XInv, ReadyOK, PrettyUp
  <2>6. phase = "pass" /\ asked.op = "expr"
        => buf.printed = (IF asked.attr THEN ExprText[asked.expr] ELSE WithoutAttr(asked.expr))
    BY Zenon DEF YInv, PassOK, Whole
  <2>7. phase = "pass" /\ asked.op = "registers"
        => buf.printed = FlattenSeq([i \in 1 .. Registers |->
               <<"register", IF i \in asked.undef THEN "<undef>" ELSE "value">>])
    BY Zenon DEF YInv, PassOK, RegistersText
  <2>. QED
    BY <2>4, <2>5, <2>6, <2>7, Zenon DEF TextWhole
<1>. QED
  BY <1>1, InitYInv, StepYInv, PTL DEF Spec
=============================================================================
