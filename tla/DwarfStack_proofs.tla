-------------------------- MODULE DwarfStack_proofs --------------------------
(***************************************************************************)
(* For every set of operations, memory, heap and size of the words: the    *)
(* evaluator links no object twice, frees none below the top, and never    *)
(* meets operands that have no type in common; it leaks, fails and faults  *)
(* only for the stated reasons; and a handler that succeeds leaves the     *)
(* stack that the comments of dwarf_operations.c say.                      *)
(***************************************************************************)
EXTENDS MCDwarfStack, DataLemmas, TLAPS

-----------------------------------------------------------------------------
(* Machine words: what their sizes are, and what the arithmetic on them     *)
(* returns, whatever the widths.                                            *)

(* A C object of any size fits a word, and divides it. *)
LEMMA ModulusFacts ==
    ASSUME NEW s \in Sizes
    PROVE  /\ Modulus(s) \in Nat \ {0}
           /\ \E k \in Nat \ {0} : WordSize = Modulus(s) * k
<1>1. /\ ByteBits \in Nat /\ Width[s] \in Nat /\ Width[8] \in Nat /\ Width[s] <= Width[8]
      /\ 8 \in Sizes
  BY ByteBitsAssumption, WidthAssumption DEF Sizes
<1>2. PICK a \in Nat, b \in Nat : a = ByteBits * Width[s] /\ a + b = ByteBits * Width[8]
  <2>1. PICK d \in Nat : Width[8] = Width[s] + d
    <3>1. Width[8] - Width[s] \in Nat /\ Width[8] = Width[s] + (Width[8] - Width[s])
      BY <1>1
    <3>. QED
      BY <3>1
  <2>2. ByteBits * Width[s] \in Nat /\ ByteBits * d \in Nat
    BY <1>1
  <2>3. ByteBits * Width[s] + ByteBits * d = ByteBits * Width[8]
    BY <1>1, <2>1
  <2>. QED
    BY <2>2, <2>3
<1>3. 2 ^ (a + b) = 2 ^ a * 2 ^ b /\ 2 ^ a \in Nat \ {0} /\ 2 ^ b \in Nat \ {0}
  BY PowerSum, PowerFacts
<1>. QED
  BY <1>2, <1>3 DEF Modulus, WordSize

LEMMA WordFacts ==
    /\ WordSize \in Nat \ {0} /\ 0 \in Words
    /\ \A w \in Words : w \in Nat /\ w < WordSize
    /\ \A i \in Nat : i < WordSize => i \in Words
    /\ \A i \in Int : AsWord(i) \in Words
<1>1. WordSize \in Nat \ {0}
  BY ModulusFacts DEF WordSize, Sizes
<1>2. \A i \in Int : i % WordSize \in 0 .. WordSize - 1
  BY <1>1
<1>. QED
  BY <1>1, <1>2 DEF Words, AsWord

(* What fits a smaller object is a word. *)
LEMMA ModulusType ==
    ASSUME NEW s \in Sizes, NEW i \in Int
    PROVE  i % Modulus(s) \in Words
<1>1. PICK m \in Nat \ {0}, k \in Nat \ {0} : m = Modulus(s) /\ WordSize = m * k
  BY ModulusFacts
<1>2. i % m \in 0 .. m - 1
  BY <1>1
<1>3. m <= m * k
  BY <1>1
<1>. QED
  BY <1>1, <1>2, <1>3, WordFacts DEF Words

PartialSums(f, g, n) ==
    /\ f \in [0 .. n -> Nat] /\ f[0] = 0 /\ Total(g, n) = f[n]
    /\ \A i \in 1 .. n : f[i] = f[i - 1] + g[i - 1]

(* The sums that are a word's bits or the payloads of its bytes. *)
LEMMA TotalFacts ==
    ASSUME NEW n \in Nat, NEW g, \A i \in 0 .. n - 1 : g[i] \in Nat
    PROVE  \E f : PartialSums(f, g, n)
<1> DEFINE IsSum(f, k) == f = [i \in 0 .. k |-> IF i = 0 THEN 0 ELSE f[i - 1] + g[i - 1]]
           Without == {k \in 0 .. n : ~ \E f : IsSum(f, k)}
<1>1. Without = {}
  <2> SUFFICES ASSUME Without # {} PROVE FALSE
    OBVIOUS
  <2>1. PICK m \in Without : \A y \in Without : m <= y
    <3>1. Without \in SUBSET Nat
      OBVIOUS
    <3> HIDE DEF Without
    <3>. QED
      BY <3>1, MinFacts
  <2>2. m \in 0 .. n /\ ~ \E f : IsSum(f, m)
    OBVIOUS
  <2>3. CASE m = 0
    <3>1. PICK h : h = [i \in 0 .. 0 |-> 0]
      OBVIOUS
    <3>2. h = [i \in 0 .. 0 |-> IF i = 0 THEN 0 ELSE h[i - 1] + g[i - 1]]
      BY <3>1
    <3>. QED
      BY <2>2, <2>3, <3>2
  <2>4. CASE m # 0
    <3>1. m - 1 \in 0 .. n /\ ~(m <= m - 1)
      BY <2>2, <2>4
    <3>2. PICK f : IsSum(f, m - 1)
      BY <2>1, <3>1
    <3>3. PICK h : h = [i \in 0 .. m |-> IF i = m THEN f[m - 1] + g[m - 1] ELSE f[i]]
      OBVIOUS
    <3>4. \A i \in 0 .. m : h[i] = IF i = 0 THEN 0 ELSE h[i - 1] + g[i - 1]
      <4> SUFFICES ASSUME NEW i \in 0 .. m PROVE h[i] = IF i = 0 THEN 0 ELSE h[i - 1] + g[i - 1]
        OBVIOUS
      <4>1. CASE i = 0
        BY <2>4, <3>2, <3>3, <4>1
      <4>2. CASE i = m
        BY <2>2, <2>4, <3>3, <4>2
      <4>3. CASE i # 0 /\ i # m
        <5>1. i - 1 \in 0 .. m /\ i - 1 # m /\ i \in 0 .. m - 1
          BY <2>2, <4>3
        <5>2. h[i - 1] = f[i - 1] /\ h[i] = f[i]
          BY <3>3, <4>3, <5>1
        <5>. QED
          BY <3>2, <4>3, <5>1, <5>2
      <4>. QED
        BY <4>1, <4>2, <4>3
    <3>5. h = [i \in 0 .. m |-> h[i]]
      BY <3>3
    <3>6. IsSum(h, m)
      BY <3>4, <3>5
    <3>. QED
      BY <2>2, <3>6
  <2>. QED
    BY <2>3, <2>4
<1>2. \E f : IsSum(f, n)
  <2>1. n \in 0 .. n
    OBVIOUS
  <2> HIDE DEF IsSum
  <2>. QED
    BY <1>1, <2>1
<1>3. PICK f : f = CHOOSE e : IsSum(e, n)
  OBVIOUS
<1>4. IsSum(f, n)
  BY <1>2, <1>3
<1>5. Total(g, n) = f[n]
  BY <1>3 DEF Total
<1>6. \A i \in 0 .. n : f[i] = IF i = 0 THEN 0 ELSE f[i - 1] + g[i - 1]
  BY <1>4
<1> DEFINE Untyped == {i \in 0 .. n : f[i] \notin Nat}
<1>7. Untyped = {}
  <2> SUFFICES ASSUME Untyped # {} PROVE FALSE
    OBVIOUS
  <2>1. PICK m \in Untyped : \A y \in Untyped : m <= y
    <3>1. Untyped \in SUBSET Nat
      OBVIOUS
    <3> HIDE DEF Untyped
    <3>. QED
      BY <3>1, MinFacts
  <2>2. m \in 0 .. n /\ f[m] \notin Nat
    OBVIOUS
  <2>3. m # 0
    BY <1>6, <2>2
  <2>4. m - 1 \in 0 .. n - 1 /\ m - 1 \in 0 .. n /\ ~(m <= m - 1)
    BY <2>2, <2>3
  <2>5. f[m - 1] \in Nat
    BY <2>1, <2>4
  <2>. QED
    BY <1>6, <2>2, <2>3, <2>4, <2>5
<1>8. f \in [0 .. n -> Nat]
  BY <1>4, <1>7
<1>9. f[0] = 0 /\ \A i \in 1 .. n : f[i] = f[i - 1] + g[i - 1]
  BY <1>6
<1>. QED
  BY <1>5, <1>8, <1>9 DEF PartialSums

LEMMA WordOfType ==
    ASSUME NEW bits
    PROVE  WordOf(bits) \in Words
<1>1. PICK n \in Nat : n = ByteBits * Width[8]
  BY ByteBitsAssumption, WidthAssumption DEF Sizes
<1>2. PICK g : g = [i \in WordBits |-> IF i \in bits THEN 2 ^ i ELSE 0]
  OBVIOUS
<1>3. \A i \in 0 .. n - 1 : g[i] \in Nat /\ g[i] <= 2 ^ i /\ 2 ^ i \in Nat
  BY <1>1, <1>2, PowerFacts DEF WordBits
<1>4. PICK f : PartialSums(f, g, n)
  <2>1. \A i \in 0 .. n - 1 : g[i] \in Nat
    BY <1>3
  <2>. QED
    BY <2>1, TotalFacts
<1>a. /\ f \in [0 .. n -> Nat] /\ f[0] = 0 /\ Total(g, n) = f[n]
      /\ \A i \in 1 .. n : f[i] = f[i - 1] + g[i - 1]
  BY <1>4 DEF PartialSums
<1> DEFINE Over == {i \in 0 .. n : ~(f[i] < 2 ^ i)}
<1>5. Over = {}
  <2> SUFFICES ASSUME Over # {} PROVE FALSE
    OBVIOUS
  <2>1. PICK m \in Over : \A y \in Over : m <= y
    <3>1. Over \in SUBSET Nat
      OBVIOUS
    <3> HIDE DEF Over
    <3>. QED
      BY <3>1, MinFacts
  <2>2. m \in 0 .. n /\ ~(f[m] < 2 ^ m)
    OBVIOUS
  <2>3. m # 0
    <3>1. f[0] < 2 ^ 0
      BY <1>a
    <3>. QED
      BY <2>2, <3>1
  <2>4. PICK j : j = m - 1
    OBVIOUS
  <2>5. j \in 0 .. n - 1 /\ j \in 0 .. n /\ ~(m <= j) /\ m = j + 1 /\ m \in 1 .. n /\ j \in Nat
    BY <2>2, <2>3, <2>4
  <2>6. f[j] < 2 ^ j
    BY <2>1, <2>5
  <2>7. f[m] = f[j] + g[j] /\ g[j] <= 2 ^ j /\ g[j] \in Nat /\ f[j] \in Nat
    BY <1>3, <1>a, <2>4, <2>5
  <2>8. PICK x \in Nat : x = 2 ^ j
    BY <2>5, PowerFacts
  <2>9. 2 ^ m = x * 2
    <3>1. 1 \in Nat /\ 2 ^ 1 = 2
      OBVIOUS
    <3>2. 2 ^ (j + 1) = 2 ^ j * 2 ^ 1
      BY <2>5, <3>1, PowerSum
    <3>. QED
      BY <2>5, <2>8, <3>1, <3>2
  <2>. QED
    BY <2>2, <2>6, <2>7, <2>8, <2>9
<1>6. f[n] < 2 ^ n /\ f[n] \in Nat
  BY <1>a, <1>5
<1>7. WordOf(bits) = f[n] /\ WordSize = 2 ^ n
  BY <1>1, <1>2, <1>a DEF WordOf, WordSize, Modulus
<1>. QED
  BY <1>6, <1>7, WordFacts

LEMMA GatherType ==
    ASSUME NEW w \in Words, NEW k \in Nat
    PROVE  Gather(w, k) \in Words /\ Gather(w, k) \in Nat /\ Gather(w, k) < Modulus(4)
<1>1. PICK g : g = [i \in 0 .. k |-> (Byte(w, i) % 2 ^ Payload) * 2 ^ (Payload * i)]
  OBVIOUS
<1>2. \A i \in 0 .. k : g[i] \in Nat
  <2> SUFFICES ASSUME NEW i \in 0 .. k PROVE g[i] \in Nat
    OBVIOUS
  <2>1. Payload \in Nat /\ ByteBits \in Nat /\ i \in Nat
    BY ByteBitsAssumption DEF Payload
  <2>2. Payload * i \in Nat /\ ByteBits * i \in Nat
    BY <2>1
  <2>3. PICK a \in Nat \ {0}, b \in Nat \ {0}, c \in Nat \ {0}, d \in Nat \ {0} :
          a = 2 ^ Payload /\ b = 2 ^ (Payload * i) /\ c = 2 ^ ByteBits /\ d = 2 ^ (ByteBits * i)
    BY <2>1, <2>2, PowerFacts
  <2>4. w \div d \in Nat
    BY <2>3, WordFacts
  <2>5. PICK v \in Nat : v = ((w \div d) % c) % a
    BY <2>3, <2>4
  <2>6. g[i] = v * b
    BY <1>1, <2>3, <2>5 DEF Byte
  <2>. QED
    BY <2>6
<1>3. PICK t \in Nat : t = Total(g, k + 1)
  <2>1. k + 1 \in Nat /\ \A i \in 0 .. (k + 1) - 1 : g[i] \in Nat
    BY <1>2
  <2>. QED
    BY SMTT(30), <2>1, TotalFacts DEF PartialSums
<1>4. Gather(w, k) = t % Modulus(4)
  BY <1>1, <1>3 DEF Gather
<1>5. 4 \in Sizes
  BY DEF Sizes
<1>6. PICK m \in Nat \ {0} : m = Modulus(4)
  BY <1>5, ModulusFacts
<1>7. t % m \in 0 .. m - 1
  BY <1>6
<1>. QED
  BY <1>4, <1>5, <1>6, <1>7, ModulusType

(* Decoders return words. *)
LEMMA DecodeType ==
    ASSUME NEW w \in Words
    PROVE  decode_uleb128(w) \subseteq Words /\ decode_sleb128(w) \subseteq Words
<1>1. Ends(w) \in SUBSET Nat
  BY DEF Ends
<1>2. ASSUME Ends(w) # {}
      PROVE  Min(Ends(w)) \in Nat
  BY <1>1, <1>2, MinFacts
<1>3. ASSUME NEW k \in Nat
      PROVE  Gather(w, k) \in Words /\ Extend32(Gather(w, k)) \in Words
  <2>1. Gather(w, k) \in Words /\ Gather(w, k) \in Nat
    BY GatherType
  <2>2. Modulus(4) \in Nat
    BY ModulusFacts DEF Sizes
  <2>. QED
    BY <2>1, <2>2, WordFacts DEF Extend32
<1>4. ASSUME NEW k \in Nat
      PROVE  AsWord(Gather(w, k) - 2 ^ (Payload * (k + 1))) \in Words
  <2>1. Gather(w, k) \in Nat
    BY GatherType
  <2>2. Payload * (k + 1) \in Nat
    BY ByteBitsAssumption DEF Payload
  <2>3. 2 ^ (Payload * (k + 1)) \in Nat
    BY <2>2, PowerFacts
  <2>. QED
    BY <2>1, <2>3, WordFacts
<1>5. decode_uleb128(w) \subseteq Words
  BY <1>2, <1>3, GarbageAssumption DEF decode_uleb128
<1>6. decode_sleb128(w) \subseteq Words
  BY <1>2, <1>3, <1>4, GarbageAssumption DEF decode_sleb128
<1>. QED
  BY <1>5, <1>6

LEMMA SignedFacts ==
    ASSUME NEW w \in Words
    PROVE  AsSigned(w) \in Int /\ (w # 0 => AsSigned(w) # 0)
BY WordFacts DEF AsSigned

LEMMA ArithmeticType ==
    ASSUME NEW a \in Words, NEW b \in Words
    PROVE  /\ Times(a, b) \in Words /\ BitNot(a) \in Words
           /\ BitAnd(a, b) \in Words /\ BitOr(a, b) \in Words
           /\ b # 0 => a % b \in Words /\ a \div b \in Words /\ SignedDiv(a, b) \in Words
<1>1. Times(a, b) \in Words
  BY SignedFacts, WordFacts DEF Times
<1>2. BitNot(a) \in Words
  BY WordFacts DEF BitNot, Words
<1>3. BitAnd(a, b) \in Words /\ BitOr(a, b) \in Words
  BY WordOfType DEF BitAnd, BitOr
<1>4. ASSUME b # 0 PROVE a % b \in Words /\ a \div b \in Words
  <2>1. a \in Nat /\ b \in Nat \ {0} /\ a < WordSize /\ b < WordSize
    BY <1>4, WordFacts
  <2>2. a % b \in 0 .. b - 1
    BY <2>1
  <2>3. a \div b \in Nat /\ a \div b <= a
    BY <2>1
  <2>. QED
    BY <2>1, <2>2, <2>3, WordFacts
<1>5. ASSUME b # 0 PROVE SignedDiv(a, b) \in Words
  <2>1. PICK x \in Int, y \in Int : x = AsSigned(a) /\ y = AsSigned(b) /\ y # 0
    BY <1>5, SignedFacts
  <2>2. PICK u \in Nat, v \in Nat \ {0} : /\ u = (IF x < 0 THEN -x ELSE x)
                                          /\ v = (IF y < 0 THEN -y ELSE y)
    BY <2>1
  <2>3. u \div v \in Int
    BY <2>2
  <2>. QED
    BY <2>1, <2>2, <2>3, WordFacts DEF SignedDiv
<1>. QED
  BY <1>1, <1>2, <1>3, <1>4, <1>5

(* The absolute value, also of the least number. *)
LEMMA AbsType ==
    ASSUME NEW w \in Words
    PROVE  (IF AsSigned(w) < 0 THEN -AsSigned(w) ELSE AsSigned(w)) \in Words
BY WordFacts DEF AsSigned, Words

(* The low bytes negated, the others left. *)
LEMMA NegType ==
    ASSUME NEW w \in Words, NEW s \in Sizes
    PROVE  (w - (w % Modulus(s))) + ((Modulus(s) - (w % Modulus(s))) % Modulus(s)) \in Words
<1>1. PICK m \in Nat \ {0}, k \in Nat \ {0} : m = Modulus(s) /\ WordSize = m * k
  BY ModulusFacts
<1>2. w \in Nat /\ w < m * k
  BY <1>1, WordFacts
<1>3. PICK q \in Nat, r \in Nat : w = m * q + r /\ r < m /\ w % m = r
  <2>0. w \in Nat
    BY <1>2
  <2>1. w = m * (w \div m) + (w % m)
    BY <1>1, <2>0
  <2>2. w \div m \in Nat
    BY <1>1, <2>0
  <2>3. w % m \in Nat /\ w % m < m
    BY <1>1, <2>0
  <2>. QED
    BY <2>1, <2>2, <2>3
<1>4. q < k
  BY <1>1, <1>2, <1>3
<1>5. m * q + m <= m * k
  BY <1>1, <1>3, <1>4
<1>6. PICK t \in Nat : t = (m - r) % m /\ t < m
  BY <1>1, <1>3
<1>7. m * q \in Nat
  BY <1>1, <1>3
<1>8. (w - r) + t = m * q + t
  BY <1>3, <1>6, <1>7
<1>. QED
  BY <1>1, <1>3, <1>5, <1>6, <1>7, <1>8, WordFacts
(* Numbers of one byte survive their second decoding. *)
LEMMA PayloadFacts ==
    /\ Payload \in Nat \ {0} /\ Payload - 1 \in Nat /\ Payload * 0 = 0 /\ ByteBits * 0 = 0
    /\ 2 ^ Payload \in Nat \ {0} /\ 2 ^ ByteBits = 2 * 2 ^ Payload
    /\ 2 ^ Payload = 2 * 2 ^ (Payload - 1) /\ 2 ^ (Payload - 1) \in Nat \ {0}
    /\ 2 ^ Payload <= Modulus(4) /\ Modulus(4) \in Nat \ {0}
    /\ ShiftOK(0) /\ 0 \in 0 .. Width[8] - 1
<1>1. /\ ByteBits \in Nat /\ ByteBits >= 2 /\ Width[4] \in Nat \ {0} /\ Width[8] \in Nat \ {0}
      /\ 4 \in Sizes
  BY ByteBitsAssumption, WidthAssumption DEF Sizes
<1>2. Payload \in Nat \ {0} /\ Payload - 1 \in Nat /\ ByteBits = Payload + 1
  BY <1>1 DEF Payload
<1>3. PICK a \in Nat : a = ByteBits * Width[4] /\ Payload < a
  <2>1. PICK d \in Nat : Width[4] = 1 + d
    <3>1. Width[4] - 1 \in Nat /\ Width[4] = 1 + (Width[4] - 1)
      BY <1>1
    <3>. QED
      BY <3>1
  <2>2. ByteBits * d \in Nat /\ ByteBits * (1 + d) = ByteBits + ByteBits * d
    BY <1>1, <2>1
  <2>. QED
    BY <1>1, <1>2, <2>1, <2>2
<1>4. 2 ^ 1 = 2 /\ 1 \in Nat
  OBVIOUS
<1>5. 2 ^ ByteBits = 2 ^ Payload * 2 ^ 1
  BY <1>2, <1>4, PowerSum
<1>6. PICK p \in Nat : p = Payload - 1 /\ Payload = p + 1
  BY <1>2
<1>7. 2 ^ Payload = 2 ^ p * 2 ^ 1
  BY <1>4, <1>6, PowerSum
<1>8. 2 ^ Payload \in Nat \ {0} /\ 2 ^ p \in Nat \ {0}
  BY <1>2, <1>6, PowerFacts
<1>9. 2 ^ Payload <= Modulus(4)
  BY <1>2, <1>3, PowerOrder DEF Modulus
<1>10. Modulus(4) \in Nat \ {0}
  BY <1>1, ModulusFacts
<1>11. 2 ^ ByteBits = 2 * 2 ^ Payload
  BY <1>4, <1>5, <1>8
<1>12. 2 ^ Payload = 2 * 2 ^ (Payload - 1)
  BY <1>4, <1>6, <1>7, <1>8
<1>13. ShiftOK(0) /\ Payload * 0 = 0 /\ ByteBits * 0 = 0
  BY <1>1, <1>2, <1>3 DEF ShiftOK
<1>. QED
  BY <1>1, <1>2, <1>6, <1>8, <1>9, <1>10, <1>11, <1>12, <1>13

LEMMA DecodeSmall ==
    ASSUME NEW w \in Words, w < 2 ^ Payload
    PROVE  /\ Byte(w, 0) = w /\ Ends(w) # {} /\ Min(Ends(w)) = 0
           /\ Gather(w, 0) = w
<1>1. PICK p \in Nat \ {0} : p = 2 ^ Payload /\ 2 ^ ByteBits = 2 * p /\ p <= Modulus(4)
  BY PayloadFacts
<1>2. w \in Nat /\ 2 ^ 0 = 1
  BY WordFacts
<1>3. 2 ^ (ByteBits * 0) = 1 /\ 2 ^ (Payload * 0) = 1
  BY <1>2, PayloadFacts
<1>4. Byte(w, 0) = w
  <2>1. w \div 1 = w /\ w % (2 * p) = w
    BY <1>1, <1>2
  <2>. QED
    BY <1>1, <1>3, <2>1 DEF Byte
<1>5. 0 \in Ends(w) /\ Ends(w) \in SUBSET Nat
  BY <1>4, PayloadFacts DEF Ends
<1>6. Min(Ends(w)) = 0
  <2>1. Min(Ends(w)) \in Nat /\ Min(Ends(w)) <= 0
    BY <1>5, MinFacts
  <2>. QED
    BY <2>1
<1>7. PICK g : g = [i \in 0 .. 0 |-> (Byte(w, i) % 2 ^ Payload) * 2 ^ (Payload * i)]
  OBVIOUS
<1>8. g[0] = w
  <2>1. w % p = w /\ w * 1 = w
    BY <1>1, <1>2
  <2>. QED
    BY <1>1, <1>3, <1>4, <1>7, <2>1
<1>9. PICK f : PartialSums(f, g, 1)
  <2>1. 1 \in Nat /\ \A i \in 0 .. 1 - 1 : g[i] \in Nat
    BY <1>2, <1>8
  <2>. QED
    BY <2>1, TotalFacts
<1>10. Total(g, 1) = w
  BY <1>2, <1>8, <1>9 DEF PartialSums
<1>11. Gather(w, 0) = Total(g, 1) % Modulus(4)
  <2>1. 0 + 1 = 1
    OBVIOUS
  <2>. QED
    BY <1>7, <2>1 DEF Gather
<1>12. w % Modulus(4) = w
  BY <1>1, <1>2, PayloadFacts
<1>. QED
  BY <1>4, <1>5, <1>6, <1>10, <1>11, <1>12

LEMMA DecodeSmallU ==
    ASSUME NEW w \in Words, w < 2 ^ Payload
    PROVE  decode_uleb128(w) = {w}
BY DecodeSmall, PayloadFacts DEF decode_uleb128

LEMMA DecodeSmallS ==
    ASSUME NEW w \in Words, w < 2 ^ (Payload - 1)
    PROVE  decode_sleb128(w) = {w}
<1>1. PICK q \in Nat \ {0} : q = 2 ^ (Payload - 1) /\ 2 ^ Payload = 2 * q /\ 2 * q <= Modulus(4)
  BY PayloadFacts
<1>2. w \in Nat /\ w < q /\ w < 2 ^ Payload
  BY <1>1, WordFacts
<1>3. Byte(w, 0) = w /\ Ends(w) # {} /\ Min(Ends(w)) = 0 /\ Gather(w, 0) = w
  BY <1>2, DecodeSmall
<1>4. Bit(w, Payload - 1) = 0
  <2>1. w \div q = 0 /\ 0 % 2 = 0
    BY <1>1, <1>2
  <2>. QED
    BY <1>1, <2>1 DEF Bit
<1>5. Extend32(w) = w
  BY <1>1, <1>2, PayloadFacts DEF Extend32
<1>. QED
  BY <1>3, <1>4, <1>5, PayloadFacts DEF decode_sleb128

LEMMA WordMod ==
    ASSUME NEW w \in Words
    PROVE  w % Modulus(8) = w
BY WordFacts DEF WordSize

(* Quotient and remainder are unique. *)
LEMMA Remainder ==
    ASSUME NEW m \in Nat \ {0}, NEW x \in Int, NEW q \in Int, NEW r \in 0 .. m - 1,
           x = m * q + r
    PROVE  x % m = r
<1>1. PICK k \in Int, y \in 0 .. m - 1 : x = m * k + y /\ y = x % m
  <2>1. x = m * (x \div m) + (x % m) /\ x % m \in 0 .. m - 1 /\ x \div m \in Int
    OBVIOUS
  <2>. QED
    BY <2>1
<1>2. PICK d \in Int : d = q - k /\ q = k + d
  OBVIOUS
<1>3. PICK a \in Int, b \in Int, c \in Int :
            a = m * q /\ b = m * k /\ c = m * d /\ a = b + c
  BY <1>2
<1>4. c = y - r /\ c < m /\ -c < m
  BY <1>1, <1>3
<1>5. CASE d >= 1
  <2>1. c >= m
    BY <1>3, <1>5
  <2>. QED
    BY <1>4, <2>1
<1>6. CASE d <= -1
  <2>1. -c >= m
    <3>1. PICK e \in Nat : e = -d /\ e >= 1
      BY <1>6
    <3>2. m * e = -c
      BY <1>3, <3>1
    <3>3. m * e >= m
      BY <3>1
    <3>. QED
      BY <3>2, <3>3
  <2>. QED
    BY <1>4, <2>1
<1>7. CASE d = 0
  <2>1. c = 0
    BY <1>3, <1>7
  <2>2. y = r
    BY <1>4, <2>1
  <2>. QED
    BY <1>1, <2>2, Zenon
<1>. QED
  BY <1>5, <1>6, <1>7

(* All bits negated, as DW_OP_neg does with a value of the widest types.    *)
LEMMA NegWhole ==
    ASSUME NEW w \in Words
    PROVE  (w - (w % Modulus(8))) + ((Modulus(8) - (w % Modulus(8))) % Modulus(8)) = AsWord(-w)
<1>1. PICK m \in Nat \ {0} : m = Modulus(8) /\ w \in Nat /\ w < m /\ w % Modulus(8) = w
  BY WordFacts, WordMod DEF WordSize
<1>2. (m - w) % m = (-w) % m
  <2>1. CASE w = 0
    <3>1. PICK d \in Int, e \in Int, z \in 0 .. m - 1, u \in Int, v \in Int :
               /\ d = m - w /\ e = -w /\ u = 1 /\ v = 0
               /\ d = m * u + z /\ e = m * v + z
      BY <1>1, <2>1
    <3>2. d % m = z
      BY <3>1, Remainder, ZenonT(40)
    <3>3. e % m = z
      BY <3>1, Remainder, ZenonT(40)
    <3>. QED
      BY <3>1, <3>2, <3>3, Zenon
  <2>2. CASE w # 0
    <3>1. PICK d \in Int, e \in Int, r \in 0 .. m - 1, z \in Int, u \in Int :
               /\ d = m - w /\ e = -w /\ z = 0 /\ u = -1
               /\ d = m * z + r /\ e = m * u + r
      BY <1>1, <2>2
    <3>2. d % m = r
      BY <3>1, Remainder, ZenonT(40)
    <3>3. e % m = r
      BY <3>1, Remainder, ZenonT(40)
    <3>. QED
      BY <3>1, <3>2, <3>3, Zenon
  <2>. QED
    BY <2>1, <2>2
<1>. QED
  BY <1>1, <1>2 DEF AsWord, WordSize

LEMMA BitOrSymmetric == \A a, b : BitOr(a, b) = BitOr(b, a)
<1> SUFFICES ASSUME NEW a, NEW b PROVE BitOr(a, b) = BitOr(b, a)
  OBVIOUS
<1>1. {i \in WordBits : Bit(a, i) = 1 \/ Bit(b, i) = 1}
      = {i \in WordBits : Bit(b, i) = 1 \/ Bit(a, i) = 1}
  OBVIOUS
<1>. QED
  BY <1>1, Zenon DEF BitOr

(* The unsigned quotient is the signed one of numbers that are not negative.*)
LEMMA DivPositive ==
    ASSUME NEW a \in Words, NEW b \in Words, b # 0, AsSigned(a) >= 0, AsSigned(b) >= 0
    PROVE  SignedDiv(a, b) = a \div b
<1>1. a \in Nat /\ b \in Nat \ {0} /\ AsSigned(a) = a /\ AsSigned(b) = b
  BY WordFacts DEF AsSigned
<1>2. a \div b \in Words
  BY ArithmeticType
<1>3. AsWord(a \div b) = a \div b
  BY <1>2, WordMod DEF AsWord, WordSize
<1>. QED
  BY <1>1, <1>3 DEF SignedDiv

-----------------------------------------------------------------------------
(* The evaluator. *)

(* The part of TypeOK that does not depend on arithmetic. *)
ShapeOK ==
    /\ values \in Seq(Ids)
    /\ live \subseteq Ids
    /\ type \in [Ids -> SUBSET Types]

(* A handler runs with room in the heap and, Fetch having looked at the top *)
(* value, with a stack of allocated values.                                 *)
ExecOK ==
    phase = "exec" => /\ op \in Ops /\ live # Ids
                      /\ \A i \in 1 .. Depth : values[i] \in live

IInv == ShapeOK /\ Owned /\ GenericOK /\ ExecOK

(* What a handler may rely on, and what it leaves. *)
Good(vs) ==
    /\ vs \in Seq(Ids)
    /\ \A i, j \in 1 .. Len(vs) : vs[i] = vs[j] => i = j
    /\ \A i \in 1 .. Len(vs) :
          vs[i] \in live /\ "GENERIC" \in type[vs[i]] /\ "REGISTER_LOC" \notin type[vs[i]]

LEMMA ExecGood ==
    ASSUME IInv, phase = "exec"
    PROVE  Good(values) /\ New \in Ids /\ New \notin live
<1>1. New \in Ids /\ New \notin live
  BY DEF IInv, ExecOK, ShapeOK, New
<1>2. Good(values)
  BY DEF IInv, ShapeOK, Owned, GenericOK, ExecOK, Good, Depth, IsRegister
<1>. QED
  BY <1>1, <1>2

LEMMA BelowGood ==
    ASSUME Good(values), NEW n \in Nat
    PROVE  Good(Below(n))
<1>1. values \in Seq(Ids) /\ Depth \in Nat
  BY DEF Good, Depth
<1>2. CASE n >= Depth
  <2>1. Below(n) = <<>>
    BY <1>1, <1>2 DEF Below, Depth
  <2>. QED
    BY <2>1 DEF Good
<1>3. CASE n < Depth
  <2>1. /\ Below(n) \in Seq(Ids)
        /\ Len(Below(n)) = Depth - n
        /\ \A i \in 1 .. Depth - n : Below(n)[i] = values[i + n]
    BY <1>1, <1>3 DEF Below, Depth
  <2>2. \A i \in 1 .. Depth - n : i + n \in 1 .. Len(values)
    BY <1>1, <1>3 DEF Depth
  <2>3. ASSUME NEW i \in 1 .. Len(Below(n)), NEW j \in 1 .. Len(Below(n)),
               Below(n)[i] = Below(n)[j]
        PROVE  i = j
    <3>1. i + n \in 1 .. Len(values) /\ j + n \in 1 .. Len(values)
      BY <2>1, <2>2
    <3>2. values[i + n] = values[j + n]
      BY <2>1, <2>3
    <3>3. i + n = j + n
      BY <3>1, <3>2 DEF Good
    <3>. QED
      BY <2>1, <1>1, <3>3
  <2>4. ASSUME NEW i \in 1 .. Len(Below(n))
        PROVE  LET v == Below(n)[i] IN
               v \in live /\ "GENERIC" \in type[v] /\ "REGISTER_LOC" \notin type[v]
    <3>1. i + n \in 1 .. Len(values) /\ Below(n)[i] = values[i + n]
      BY <2>1, <2>2
    <3>. QED
      BY <3>1 DEF Good
  <2>. QED
    BY <2>1, <2>3, <2>4 DEF Good
<1>. QED
  BY <1>1, <1>2, <1>3

(* A handler that pushes a generic value or a register location. *)
LEMMA ReplaceStep ==
    ASSUME IInv, phase = "exec", phase' # "exec",
           NEW w, NEW s, NEW t \in SUBSET Types, NEW freed, NEW n \in Nat,
           "REGISTER_LOC" \in t \/ "GENERIC" \in t,
           \A i \in 1 .. Len(Below(n)) : Below(n)[i] \notin freed,
           freed \subseteq live,
           Replace(w, s, t, freed, Below(n))
    PROVE  IInv'
<1> DEFINE vs == <<New>> \o Below(n)
<1>1. Good(values) /\ New \in Ids /\ New \notin live
  BY ExecGood
<1>2. Good(Below(n))
  BY <1>1, BelowGood
<1> DEFINE b == Below(n)
<1>b. /\ b \in Seq(Ids) /\ Len(b) \in Nat
      /\ \A i \in 1 .. Len(b) : /\ b[i] \in Ids /\ b[i] \in live /\ b[i] \notin freed
                                /\ "GENERIC" \in type[b[i]]
                                /\ "REGISTER_LOC" \notin type[b[i]]
      /\ \A i, j \in 1 .. Len(b) : b[i] = b[j] => i = j
  BY <1>2 DEF Good
<1>4. /\ values' = vs /\ live' = (live \cup {New}) \ freed
      /\ New \in Ids /\ New \notin live /\ New \notin freed
  BY <1>1 DEF Replace, RelinkNew
<1> HIDE DEF b
<1>3. /\ vs \in Seq(Ids)
      /\ Len(vs) = Len(b) + 1
      /\ vs[1] = New
      /\ \A i \in 2 .. Len(vs) : i - 1 \in 1 .. Len(b) /\ vs[i] = b[i - 1]
  BY <1>1, <1>b DEF b
<1>7. /\ type' \in [Ids -> SUBSET Types]
      /\ type'[New] = t
      /\ \A i \in 2 .. Len(vs) : type'[vs[i]] = type[vs[i]]
  <2> DEFINE kept == {vs[k] : k \in 1 .. Len(vs)} \ freed
  <2>1. type' = [i \in Ids |-> IF i \notin kept THEN {} ELSE IF i = New THEN t ELSE type[i]]
    BY DEF Replace, RelinkNew
  <2>2. New \in kept
    BY <1>b, <1>3, <1>4
  <2>3. \A i \in 2 .. Len(vs) : vs[i] \in kept /\ vs[i] # New /\ vs[i] \in Ids
    BY <1>b, <1>3, <1>4
  <2> HIDE DEF kept
  <2>4. type \in [Ids -> SUBSET Types]
    BY DEF IInv, ShapeOK
  <2>. QED
    BY <1>4, <2>1, <2>2, <2>3, <2>4
<1> HIDE DEF vs
<1>5. \A i, j \in 1 .. Len(vs) : vs[i] = vs[j] => i = j
  <2> SUFFICES ASSUME NEW i \in 1 .. Len(vs), NEW j \in 1 .. Len(vs), vs[i] = vs[j]
               PROVE  i = j
    OBVIOUS
  <2>1. CASE i = 1 \/ j = 1
    BY <1>b, <1>3, <1>4, <2>1
  <2>2. CASE i # 1 /\ j # 1
    <3>1. i - 1 \in 1 .. Len(b) /\ j - 1 \in 1 .. Len(b) /\ b[i - 1] = b[j - 1]
      BY <1>3, <2>2
    <3>2. i - 1 = j - 1
      BY <1>b, <3>1
    <3>. QED
      BY <3>2
  <2>. QED
    BY <2>1, <2>2
<1>6. \A i \in 1 .. Len(vs) : vs[i] \in live'
  <2> SUFFICES ASSUME NEW i \in 1 .. Len(vs) PROVE vs[i] \in live'
    OBVIOUS
  <2>1. CASE i = 1
    BY <1>3, <1>4, <2>1
  <2>2. CASE i # 1
    BY <1>b, <1>3, <1>4, <2>2
  <2>. QED
    BY <2>1, <2>2
<1>8. ShapeOK' /\ Owned' /\ ExecOK'
  BY <1>3, <1>4, <1>5, <1>6, <1>7 DEF ShapeOK, Owned, ExecOK, IInv, Depth
<1>9. GenericOK'
  <2> SUFFICES ASSUME NEW k \in 1 .. Len(vs)
               PROVE  IF "REGISTER_LOC" \in type'[vs[k]]
                      THEN k = 1 /\ phase' # "exec"
                      ELSE "GENERIC" \in type'[vs[k]]
    BY <1>4 DEF GenericOK, Depth, IsRegister
  <2>1. CASE k = 1
    BY <1>3, <1>7, <2>1
  <2>2. CASE k # 1
    BY <1>b, <1>3, <1>7, <2>2
  <2>. QED
    BY <2>1, <2>2
<1>. QED
  BY <1>8, <1>9 DEF IInv

LEMMA PushStep ==
    ASSUME IInv, phase = "exec", phase' # "exec",
           NEW w, NEW s, NEW t \in SUBSET Types,
           "REGISTER_LOC" \in t \/ "GENERIC" \in t,
           Push(w, s, t)
    PROVE  IInv'
<1>1. values \in Seq(Ids)
  BY DEF IInv, ShapeOK
<1>2. Below(0) = values
  BY <1>1 DEF Below, Depth
<1>3. Replace(w, s, t, {}, Below(0))
  BY <1>2 DEF Push
<1>. QED
  BY <1>3, ReplaceStep

(* A handler, or clear, that keeps a good part of the stack. *)
LEMMA RelinkStep ==
    ASSUME IInv, phase' # "exec", NEW vs, NEW freed,
           Good(vs), \A i \in 1 .. Len(vs) : vs[i] \notin freed,
           Relink(vs, freed)
    PROVE  IInv'
<1> DEFINE kept == {vs[k] : k \in 1 .. Len(vs)} \ freed
<1>1. /\ values' = vs /\ live' = live \ freed
      /\ type' = [i \in Ids |-> IF i \in kept THEN type[i] ELSE {}]
  BY DEF Relink
<1>2. \A i \in 1 .. Len(vs) : vs[i] \in kept /\ vs[i] \in Ids
  BY DEF Good
<1> HIDE DEF kept
<1>3. \A i \in 1 .. Len(vs) : type'[vs[i]] = type[vs[i]] /\ vs[i] \in live'
  BY <1>1, <1>2 DEF Good
<1>4. type \in [Ids -> SUBSET Types] /\ live \subseteq Ids
  BY DEF IInv, ShapeOK
<1>5. ShapeOK'
  BY <1>1, <1>4 DEF ShapeOK, Good
<1>6. Owned' /\ ExecOK'
  BY <1>1, <1>3 DEF Owned, ExecOK, Good, Depth
<1>7. GenericOK'
  BY <1>1, <1>3 DEF GenericOK, IsRegister, Good, Depth
<1>. QED
  BY <1>5, <1>6, <1>7 DEF IInv

LEMMA EmptyGood == Good(<<>>)
BY DEF Good

(* Nothing on the stack changes and no handler is about to run. *)
LEMMA SameStep ==
    ASSUME IInv, UNCHANGED <<values, live, type>>, phase' # "exec"
    PROVE  IInv'
BY DEF IInv, ShapeOK, Owned, GenericOK, ExecOK, Depth, IsRegister

LEMMA FaultStep ==
    ASSUME IInv, NEW f, Fault(f)
    PROVE  IInv'
BY DEF Fault, heap, IInv, ShapeOK, Owned, GenericOK, ExecOK, Depth, IsRegister

LEMMA ReturnPhase ==
    ASSUME Succeed \/ Fail
    PROVE  phase' # "exec"
BY DEF Succeed, Fail, Return

LEMMA RejectStep ==
    ASSUME IInv, Fail, UNCHANGED heap
    PROVE  IInv'
<1>1. phase' # "exec" /\ UNCHANGED <<values, live, type>>
  BY ReturnPhase DEF heap
<1>. QED
  BY <1>1, SameStep

(* get(idx) is a value of the stack. *)
LEMMA GetGood ==
    ASSUME IInv, phase = "exec", Depth > 0, NEW idx, idx \in Nat
    PROVE  /\ Get(idx) \in Ids /\ Get(idx) \in live
           /\ type[Get(idx)] \in SUBSET Types
           /\ "GENERIC" \in type[Get(idx)] /\ "REGISTER_LOC" \notin type[Get(idx)]
<1>1. Good(values) /\ type \in [Ids -> SUBSET Types] /\ Depth \in Nat
  BY ExecGood DEF IInv, ShapeOK, Depth
<1>2. \E k \in 1 .. Len(values) : Get(idx) = values[k]
  BY <1>1 DEF Get, Depth
<1>. QED
  BY <1>1, <1>2 DEF Good

LEMMA InPlaceStep ==
    ASSUME IInv, phase = "exec", NEW w, NEW t, NEW result,
           Depth # 0 => t \in SUBSET Types /\ "GENERIC" \in t, result => phase' # "exec",
           InPlace(w, t, result)
    PROVE  IInv'
<1>1. CASE Depth = 0
  BY <1>1, RejectStep DEF InPlace
<1>2. CASE Depth # 0
  <2>1. /\ type' = [type EXCEPT ![Get(0)] = t]
        /\ UNCHANGED <<values, live>> /\ phase' # "exec"
    BY <1>2 DEF InPlace
  <2>2. Good(values) /\ type \in [Ids -> SUBSET Types] /\ live \subseteq Ids
    BY ExecGood DEF IInv, ShapeOK
  <2>3. Get(0) = values[1]
    BY <1>2, <2>2 DEF Get, Depth, Good
  <2>4. \A k \in 2 .. Len(values) : type'[values[k]] = type[values[k]]
    BY <2>1, <2>2, <2>3, <1>2 DEF Good, Depth
  <2>0. t \in SUBSET Types /\ "GENERIC" \in t
    BY <1>2
  <2>5. type'[values[1]] = t
    BY <2>1, <2>2, <2>3, <1>2 DEF Good, Depth
  <2>6. ShapeOK' /\ Owned' /\ ExecOK'
    BY <2>0, <2>1, <2>2 DEF IInv, ShapeOK, Owned, ExecOK, Depth
  <2>7. GenericOK'
    <3> SUFFICES ASSUME NEW k \in 1 .. Len(values)
                 PROVE  IF "REGISTER_LOC" \in type'[values[k]]
                        THEN k = 1 /\ phase' # "exec"
                        ELSE "GENERIC" \in type'[values[k]]
      BY <2>1 DEF GenericOK, Depth, IsRegister
    <3>1. CASE k = 1
      BY <2>0, <2>1, <2>5, <3>1
    <3>2. CASE k # 1
      BY <2>2, <2>4, <3>2 DEF Good
    <3>. QED
      BY <3>1, <3>2
  <2>. QED
    BY <2>6, <2>7 DEF IInv
<1>. QED
  BY <1>1, <1>2

-----------------------------------------------------------------------------
(* The handlers *)

LEMMA PushHandlers ==
    ASSUME IInv,
           \/ dw_op_addr \/ dw_op_const_x_u \/ dw_op_const_x_s \/ dw_op_constu
           \/ dw_op_consts \/ dw_op_lit_x \/ dw_op_reg_x \/ dw_op_breg_x
           \/ dw_op_call_frame_cfa \/ dw_op_fbreg \/ GNU_entry_value
    PROVE  IInv'
<1>1. phase = "exec"
  BY DEF Exec, dw_op_addr, dw_op_const_x_u, dw_op_const_x_s, dw_op_constu,
     dw_op_consts, dw_op_lit_x, dw_op_reg_x, dw_op_breg_x, dw_op_call_frame_cfa,
     dw_op_fbreg, GNU_entry_value
<1>2. ASSUME NEW w, NEW s, NEW t \in SUBSET Types, Push(w, s, t), Succeed,
             "REGISTER_LOC" \in t \/ "GENERIC" \in t
      PROVE  IInv'
  BY <1>1, <1>2, PushStep, ReturnPhase
<1>3. CASE dw_op_addr
  BY <1>2, <1>3 DEF dw_op_addr, Types
<1>4. CASE dw_op_const_x_u
  BY <1>2, <1>4 DEF dw_op_const_x_u, Types, SizeType
<1>5. CASE dw_op_const_x_s
  BY <1>2, <1>5 DEF dw_op_const_x_s, Types, SizeType
<1>6. CASE dw_op_constu
  BY <1>2, <1>6 DEF dw_op_constu, Types
<1>7. CASE dw_op_consts
  BY <1>2, <1>7 DEF dw_op_consts, Types
<1>8. CASE dw_op_lit_x
  BY <1>2, <1>8 DEF dw_op_lit_x, Types
<1>9. CASE dw_op_reg_x
  BY <1>2, <1>9 DEF dw_op_reg_x, Types
<1>10. CASE dw_op_breg_x
  BY <1>2, <1>10, RejectStep DEF dw_op_breg_x, Types
<1>11. CASE dw_op_call_frame_cfa
  BY <1>2, <1>11 DEF dw_op_call_frame_cfa, Types
<1>12. CASE dw_op_fbreg
  BY <1>2, <1>12 DEF dw_op_fbreg, Types
<1>13. CASE GNU_entry_value
  BY <1>2, <1>13, RejectStep DEF GNU_entry_value, Types
<1>. QED
  BY <1>3, <1>4, <1>5, <1>6, <1>7, <1>8, <1>9, <1>10, <1>11, <1>12, <1>13

LEMMA InPlaceHandlers ==
    ASSUME IInv,
           \/ dw_op_abs \/ dw_op_neg \/ dw_op_not \/ dw_op_plus_uconst
           \/ dw_op_stack_value
    PROVE  IInv'
<1>1. phase = "exec"
  BY DEF Exec, dw_op_abs, dw_op_neg, dw_op_not, dw_op_plus_uconst, dw_op_stack_value
<1>2. Depth # 0 => type[Get(0)] \in SUBSET Types /\ "GENERIC" \in type[Get(0)]
  <2>1. Depth \in Nat
    BY DEF IInv, ShapeOK, Depth
  <2>. QED
    BY <1>1, <2>1, GetGood
<1>3. (Succeed => phase' # "exec") /\ (Fail => phase' # "exec")
  BY ReturnPhase
<1>4. ASSUME NEW w, InPlace(w, type[Get(0)], Succeed) PROVE IInv'
  BY <1>1, <1>2, <1>3, <1>4, InPlaceStep
<1>5. CASE dw_op_abs
  <2>1. \E w : InPlace(w, {"UNSIGNED", "GENERIC", "LONG"}, Fail)
    BY <1>5 DEF dw_op_abs
  <2>2. {"UNSIGNED", "GENERIC", "LONG"} \in SUBSET Types
    BY DEF Types
  <2>. QED
    BY <1>1, <1>3, <2>1, <2>2, InPlaceStep
<1>6. CASE dw_op_neg
  <2>1. \E w : InPlace(w, type[Get(0)], Succeed)
    BY <1>6 DEF dw_op_neg
  <2>. QED
    BY <1>4, <2>1
<1>7. CASE dw_op_not
  BY <1>4, <1>7 DEF dw_op_not
<1>8. CASE dw_op_plus_uconst
  BY <1>4, <1>8 DEF dw_op_plus_uconst
<1>9. CASE dw_op_stack_value
  <2>1. {"GENERIC"} \in SUBSET Types
    BY DEF Types
  <2>2. InPlace(word[Get(0)], {"GENERIC"}, Succeed)
    BY <1>9 DEF dw_op_stack_value
  <2>. QED
    BY <1>1, <1>3, <2>1, <2>2, InPlaceStep
<1>. QED
  BY <1>5, <1>6, <1>7, <1>8, <1>9

LEMMA CopyHandlers ==
    ASSUME IInv, dw_op_dup \/ dw_op_over \/ dw_op_pick
    PROVE  IInv'
<1>1. phase = "exec" /\ Depth \in Nat
  BY DEF Exec, dw_op_dup, dw_op_over, dw_op_pick, IInv, ShapeOK, Depth
<1>2. op.arg1 \in Nat
  BY <1>1, OpsAssumption DEF IInv, ExecOK, OpType, Words
<1>3. ASSUME NEW idx \in Nat, Depth # 0, PushCopy(idx) PROVE IInv'
  <2>1. type[Get(idx)] \in SUBSET Types /\ "GENERIC" \in type[Get(idx)]
    BY <1>1, <1>3, GetGood
  <2>. QED
    BY <1>1, <1>3, <2>1, PushStep, ReturnPhase DEF PushCopy
<1>4. CASE dw_op_dup
  BY <1>3, <1>4, FaultStep DEF dw_op_dup
<1>5. CASE dw_op_over
  BY <1>3, <1>5, FaultStep DEF dw_op_over
<1>6. CASE dw_op_pick
  BY <1>2, <1>3, <1>6, RejectStep DEF dw_op_pick
<1>. QED
  BY <1>4, <1>5, <1>6

LEMMA BelowIs ==
    ASSUME values \in Seq(Ids), NEW n \in Nat, n <= Depth
    PROVE  /\ Below(n) \in Seq(Ids) /\ Len(Below(n)) = Depth - n
           /\ \A i \in 1 .. Depth - n : Below(n)[i] = values[i + n] /\ i + n \in 1 .. Depth
<1>1. Depth \in Nat
  BY DEF Depth
<1>2. CASE n = Depth
  BY <1>1, <1>2 DEF Below, Depth
<1>3. CASE n # Depth
  <2>1. /\ Below(n) \in Seq(Ids) /\ Len(Below(n)) = Depth - n
        /\ \A i \in 1 .. Depth - n : Below(n)[i] = values[i + n]
    BY <1>1, <1>3 DEF Below, Depth
  <2>. QED
    BY <1>1, <2>1
<1>. QED
  BY <1>2, <1>3

LEMMA DropHandlers ==
    ASSUME IInv, dw_op_deref_size \/ dw_op_drop
    PROVE  IInv'
<1>1. phase = "exec" /\ Depth \in Nat /\ values \in Seq(Ids)
  BY DEF Exec, dw_op_deref_size, dw_op_drop, IInv, ShapeOK, Depth
<1>2. Good(values) /\ Good(Below(1))
  BY <1>1, ExecGood, BelowGood
<1>3. ASSUME Depth # 0
      PROVE  \A i \in 1 .. Len(Below(1)) : Below(1)[i] # Get(0)
  <2>1. Get(0) = values[1]
    BY <1>1, <1>3 DEF Get, Depth
  <2>2. /\ Len(Below(1)) = Depth - 1
        /\ \A i \in 1 .. Depth - 1 : Below(1)[i] = values[i + 1] /\ i + 1 \in 1 .. Depth
    BY <1>1, <1>3, BelowIs
  <2>3. \A i \in 1 .. Depth - 1 : i + 1 # 1 /\ values[i + 1] # values[1]
    BY <1>1, <1>2, <1>3, <2>2 DEF Good, Depth
  <2>. QED
    BY <2>1, <2>2, <2>3
<1>4. CASE dw_op_deref_size
  <2>1. ASSUME NEW w, NEW s, Replace(w, s, {"GENERIC"}, {}, Below(1)), Succeed
        PROVE  IInv'
    BY <1>1, <2>1, ReplaceStep, ReturnPhase DEF Types
  <2>2. ASSUME Relink(Below(1), {}), Fail PROVE IInv'
    BY <1>2, <2>2, RelinkStep, ReturnPhase
  <2>. QED
    BY <1>4, <2>1, <2>2, FaultStep, RejectStep DEF dw_op_deref_size
<1>5. CASE dw_op_drop
  <2>1. CASE Depth = 0
    BY <1>5, <2>1, FaultStep DEF dw_op_drop
  <2>2. CASE Depth # 0
    <3>1. Relink(Below(1), {Get(0)}) /\ phase' # "exec"
      BY <1>5, <2>2, ReturnPhase DEF dw_op_drop
    <3>2. \A i \in 1 .. Len(Below(1)) : Below(1)[i] \notin {Get(0)}
      BY <1>3, <2>2
    <3>. QED
      BY <1>2, <3>1, <3>2, RelinkStep
  <2>. QED
    BY <2>1, <2>2
<1>. QED
  BY <1>4, <1>5

(* Reordering the n topmost values. *)
LEMMA PermuteStep ==
    ASSUME IInv, phase = "exec", NEW n \in Nat, NEW perm \in [1 .. n -> 1 .. n],
           \A i, j \in 1 .. n : perm[i] = perm[j] => i = j,
           Permute(n, perm)
    PROVE  IInv'
<1>1. Depth \in Nat /\ values \in Seq(Ids) /\ Good(values)
  BY ExecGood DEF IInv, ShapeOK, Depth
<1>2. CASE ~(Depth >= n)
  BY <1>2, EmptyGood, RelinkStep, ReturnPhase DEF Permute
<1>3. CASE Depth >= n
  <2> DEFINE top == [i \in 1 .. n |-> values[perm[i]]]
             vs == top \o Below(n)
             at(i) == IF i <= n THEN perm[i] ELSE i
  <2>1. Relink(vs, {}) /\ phase' # "exec"
    BY <1>3, ReturnPhase DEF Permute
  <2>2. top \in Seq(Ids) /\ Len(top) = n
    BY <1>1, <1>3 DEF Depth
  <2>3. /\ Below(n) \in Seq(Ids) /\ Len(Below(n)) = Depth - n
        /\ \A i \in 1 .. Depth - n : Below(n)[i] = values[i + n]
    BY <1>1, <1>3, BelowIs
  <2>4. /\ vs \in Seq(Ids) /\ Len(vs) = Depth
        /\ \A i \in 1 .. Depth : vs[i] = values[at(i)]
    <3> HIDE DEF top
    <3>1. vs \in Seq(Ids) /\ Len(vs) = Depth
      BY <1>1, <1>3, <2>2, <2>3
    <3>2. \A i \in 1 .. n : vs[i] = top[i]
      BY <1>1, <1>3, <2>2, <2>3
    <3>3. \A i \in n + 1 .. Depth : vs[i] = Below(n)[i - n] /\ i - n \in 1 .. Depth - n
      BY <1>1, <1>3, <2>2, <2>3
    <3>4. \A i \in 1 .. n : top[i] = values[perm[i]]
      BY DEF top
    <3> HIDE DEF vs
    <3>5. \A i \in n + 1 .. Depth : (i - n) + n = i
      BY <1>1
    <3>6. \A i \in 1 .. Depth : (i <= n => i \in 1 .. n) /\ (~(i <= n) => i \in n + 1 .. Depth)
      BY <1>1
    <3>. QED
      BY <2>3, <3>1, <3>2, <3>3, <3>4, <3>5, <3>6
  <2>5. \A i \in 1 .. Depth : at(i) \in 1 .. Depth
    BY <1>1, <1>3
  <2>6. \A i, j \in 1 .. Depth : at(i) = at(j) => i = j
    <3> SUFFICES ASSUME NEW i \in 1 .. Depth, NEW j \in 1 .. Depth, at(i) = at(j)
                 PROVE  i = j
      OBVIOUS
    <3>1. CASE i <= n /\ j <= n
      BY <1>1, <3>1
    <3>2. CASE i <= n /\ ~(j <= n)
      BY <1>1, <3>2
    <3>3. CASE ~(i <= n) /\ j <= n
      BY <1>1, <3>3
    <3>4. CASE ~(i <= n) /\ ~(j <= n)
      BY <3>4
    <3>. QED
      BY <3>1, <3>2, <3>3, <3>4
  <2>7. Good(vs)
    <3> HIDE DEF vs, at
    <3>. QED
      BY <1>1, <2>4, <2>5, <2>6 DEF Good, Depth
  <2>. QED
    BY <2>1, <2>7, RelinkStep
<1>. QED
  BY <1>2, <1>3

LEMMA PermuteHandlers ==
    ASSUME IInv, dw_op_swap \/ dw_op_rot
    PROVE  IInv'
<1>1. phase = "exec"
  BY DEF Exec, dw_op_swap, dw_op_rot
<1>2. CASE dw_op_swap
  <2> DEFINE p == <<2, 1>>
  <2>1. Permute(2, p)
    BY <1>2 DEF dw_op_swap
  <2>2. p \in [1 .. 2 -> 1 .. 2] /\ \A i, j \in 1 .. 2 : p[i] = p[j] => i = j
    OBVIOUS
  <2>. QED
    BY <1>1, <2>1, <2>2, PermuteStep
<1>3. CASE dw_op_rot
  <2> DEFINE p == <<2, 3, 1>>
  <2>1. Permute(3, p)
    BY <1>3 DEF dw_op_rot
  <2>2. p \in [1 .. 3 -> 1 .. 3] /\ \A i, j \in 1 .. 3 : p[i] = p[j] => i = j
    OBVIOUS
  <2>. QED
    BY <1>1, <2>1, <2>2, PermuteStep
<1>. QED
  BY <1>2, <1>3

(* The two popped operands are not below themselves. *)
LEMMA OperandsPopped ==
    ASSUME IInv, phase = "exec", Depth > 1
    PROVE  /\ Get(0) = values[1] /\ Get(1) = values[2]
           /\ \A i \in 1 .. Len(Below(2)) : Below(2)[i] \notin {Get(0), Get(1)}
<1>1. Depth \in Nat /\ values \in Seq(Ids) /\ Good(values)
  BY ExecGood DEF IInv, ShapeOK, Depth
<1>2. Get(0) = values[1] /\ Get(1) = values[2]
  BY <1>1 DEF Get, Depth
<1>3. /\ Len(Below(2)) = Depth - 2
      /\ \A i \in 1 .. Depth - 2 : Below(2)[i] = values[i + 2] /\ i + 2 \in 1 .. Depth
  BY <1>1, BelowIs
<1>4. \A i \in 1 .. Depth - 2 : values[i + 2] # values[1] /\ values[i + 2] # values[2]
  <2> SUFFICES ASSUME NEW i \in 1 .. Depth - 2
               PROVE  values[i + 2] # values[1] /\ values[i + 2] # values[2]
    OBVIOUS
  <2>1. i + 2 \in 1 .. Depth /\ i + 2 # 1 /\ i + 2 # 2 /\ 1 \in 1 .. Depth /\ 2 \in 1 .. Depth
    BY <1>1
  <2>. QED
    BY <1>1, <2>1 DEF Good, Depth
<1>. QED
  BY <1>2, <1>3, <1>4

LEMMA ResultStep ==
    ASSUME IInv, phase = "exec", NEW w, NEW t \in SUBSET Types, "GENERIC" \in t,
           Depth > 0,
           Result(w, t) \/ FreeingResult(w, t)
    PROVE  IInv'
<1>1. CASE Result(w, t)
  <2>1. Replace(w, 8, t, {}, Below(2)) /\ phase' # "exec"
    BY <1>1, ReturnPhase DEF Result
  <2>. QED
    BY <2>1, ReplaceStep
<1>2. CASE FreeingResult(w, t)
  <2>1. CASE Depth = 1
    BY <1>2, <2>1, FaultStep DEF FreeingResult
  <2>2. CASE Depth # 1
    <3> DEFINE freed == {Get(0), Get(1)}
    <3>0. Depth \in Nat /\ Good(values)
      BY ExecGood DEF IInv, ShapeOK, Depth
    <3>1. Depth > 1
      BY <2>2, <3>0
    <3>2. /\ freed \subseteq live
          /\ \A i \in 1 .. Len(Below(2)) : Below(2)[i] \notin freed
      BY <3>0, <3>1, OperandsPopped DEF Good, Depth
    <3>3. Replace(w, 8, t, freed, Below(2)) /\ phase' # "exec"
      BY <1>2, <2>2, ReturnPhase DEF FreeingResult
    <3> HIDE DEF freed
    <3>. QED
      BY <3>2, <3>3, ReplaceStep
  <2>. QED
    BY <2>1, <2>2
<1>. QED
  BY <1>1, <1>2

(* DW_OP_plus: the top is a freed object, what is below it is untouched.    *)
LEMMA PlusStep ==
    ASSUME IInv, phase = "exec", phase' # "exec", Depth > 1, NEW w, NEW t,
           RelinkNew(Below(1), {Get(0), Get(1)}, w, 8, t)
    PROVE  IInv'
<1> DEFINE vs == Below(1)
           freed == {Get(0), Get(1)}
           kept == {vs[k] : k \in 1 .. Len(vs)} \ freed
<1>1. /\ Depth \in Nat /\ values \in Seq(Ids) /\ Good(values) /\ Good(vs)
      /\ New \in Ids /\ New \notin live /\ live \subseteq Ids /\ type \in [Ids -> SUBSET Types]
  BY ExecGood, BelowGood DEF IInv, ShapeOK, Depth
<1>2. /\ values' = vs /\ live' = (live \cup {New}) \ freed
      /\ type' = [i \in Ids |-> IF i \notin kept THEN {} ELSE IF i = New THEN t ELSE type[i]]
  BY DEF RelinkNew
<1>3. /\ vs \in Seq(Ids) /\ Len(vs) = Depth - 1 /\ vs[1] = values[2]
      /\ \A i \in 1 .. Depth - 1 : vs[i] = values[i + 1] /\ i + 1 \in 1 .. Depth
  BY <1>1, BelowIs
<1>4. Get(0) = values[1] /\ Get(1) = values[2]
  BY OperandsPopped
<1>5. \A i \in 2 .. Len(vs) : vs[i] \notin freed
  <2> SUFFICES ASSUME NEW i \in 2 .. Len(vs) PROVE vs[i] \notin freed
    OBVIOUS
  <2>1. i + 1 \in 1 .. Depth /\ i + 1 # 1 /\ i + 1 # 2 /\ 1 \in 1 .. Depth /\ 2 \in 1 .. Depth
        /\ vs[i] = values[i + 1]
    BY <1>1, <1>3
  <2>. QED
    BY <1>1, <1>4, <2>1 DEF Good, Depth
<1>6. \A i \in 1 .. Len(vs) : vs[i] # New /\ vs[i] \in Ids
  BY <1>1 DEF Good
<1> HIDE DEF vs, freed
<1>7. type' \in [Ids -> SUBSET Types]
  <2>1. \A i \in kept : i # New
    BY <1>6
  <2> HIDE DEF kept
  <2>. QED
    BY <1>1, <1>2, <2>1
<1>8. \A i \in 2 .. Len(vs) : vs[i] \in live' /\ type'[vs[i]] = type[vs[i]]
  <2>1. \A i \in 2 .. Len(vs) : vs[i] \in kept /\ vs[i] \in live
    BY <1>1, <1>5 DEF Good
  <2> HIDE DEF kept
  <2>. QED
    BY <1>2, <1>5, <1>6, <2>1
<1>9. vs[1] \notin live'
  BY <1>2, <1>3, <1>4 DEF freed
<1>10. ShapeOK'
  BY <1>1, <1>2, <1>3, <1>7 DEF ShapeOK
<1>11. Owned' /\ ExecOK'
  BY <1>1, <1>2, <1>8 DEF Owned, ExecOK, Good, Depth
<1>12. GenericOK'
  <2> SUFFICES ASSUME NEW k \in 1 .. Len(vs), vs[k] \in live'
               PROVE  IF "REGISTER_LOC" \in type'[vs[k]]
                      THEN k = 1 /\ phase' # "exec"
                      ELSE "GENERIC" \in type'[vs[k]]
    BY <1>2 DEF GenericOK, Depth, IsRegister
  <2>1. k \in 2 .. Len(vs)
    BY <1>3, <1>9
  <2>. QED
    BY <1>1, <1>8, <2>1 DEF Good
<1>. QED
  BY <1>10, <1>11, <1>12 DEF IInv

(* The operands have a type in common and, being live and not registers,    *)
(* the generic one among them.                                              *)
LEMMA BinaryHandlers ==
    ASSUME IInv,
           \/ dw_op_and \/ dw_op_or \/ dw_op_minus \/ dw_op_mod \/ dw_op_mul
           \/ dw_op_div \/ dw_op_plus
    PROVE  IInv'
<1>1. phase = "exec" /\ Depth \in Nat /\ values \in Seq(Ids)
  BY DEF Exec, dw_op_and, dw_op_or, dw_op_minus, dw_op_mod, dw_op_mul, dw_op_div,
     dw_op_plus, IInv, ShapeOK, Depth
<1>2. Operands => Depth > 0
  BY DEF Operands
<1>3. ASSUME Depth > 0, NEW idx \in Nat
      PROVE  type[Get(idx)] \in SUBSET Types /\ "GENERIC" \in type[Get(idx)]
  BY <1>1, <1>3, GetGood
<1>4. ASSUME NEW w, NEW t \in SUBSET Types, "GENERIC" \in t, Operands,
             Result(w, t) \/ FreeingResult(w, t)
      PROVE  IInv'
  BY <1>1, <1>2, <1>4, ResultStep
<1>5. ASSUME Reject PROVE IInv'
  BY <1>5, RejectStep DEF Reject
<1>6. CASE dw_op_and
  BY <1>4, <1>5, <1>6 DEF dw_op_and, Types
<1>7. CASE dw_op_or
  BY <1>2, <1>3, <1>4, <1>5, <1>7 DEF dw_op_or
<1>8. CASE dw_op_minus
  <2> DEFINE t == {"GENERIC"} \cup (type[Get(1)] \cap {"MEMORY_LOC"})
  <2>1. t \in SUBSET Types /\ "GENERIC" \in t
    BY DEF Types
  <2>2. (Operands /\ Result(AsWord(W2 - W1), t)) \/ Reject
    BY <1>8 DEF dw_op_minus
  <2> HIDE DEF t
  <2>. QED
    BY <1>4, <1>5, <2>1, <2>2
<1>9. CASE dw_op_mod
  BY <1>4, <1>5, <1>9 DEF dw_op_mod, Types
<1>10. ResultType \in SUBSET Types /\ "GENERIC" \in ResultType
  BY DEF ResultType, Types
<1>11. CASE dw_op_mul
  BY <1>4, <1>5, <1>10, <1>11 DEF dw_op_mul
<1>12. CASE dw_op_div
  BY <1>4, <1>5, <1>10, <1>12, FaultStep DEF dw_op_div
<1>13. CASE dw_op_plus
  <2>1. CASE ~Operands
    BY <1>5, <1>13, <2>1 DEF dw_op_plus
  <2>2. CASE Operands /\ Depth = 1
    <3>1. Fault("double_free")
      BY <1>13, <2>2 DEF dw_op_plus
    <3>. QED
      BY <3>1, FaultStep
  <2>3. CASE Operands /\ Depth # 1
    <3>1. Depth > 1
      BY <1>1, <1>2, <2>3
    <3>2. phase' # "exec"
          /\ \E w, t : RelinkNew(Below(1), {Get(0), Get(1)}, w, 8, t)
      BY <1>13, <2>3, ReturnPhase DEF dw_op_plus
    <3>. QED
      BY <1>1, <3>1, <3>2, PlusStep
  <2>. QED
    BY <2>1, <2>2, <2>3
<1>. QED
  BY <1>6, <1>7, <1>8, <1>9, <1>11, <1>12, <1>13

-----------------------------------------------------------------------------
(* calc and its callers *)

(* The next operation is fetched: the top is allocated and, if it was a     *)
(* register location, holds the register's value now.                      *)
LEMMA FetchSteps ==
    ASSUME IInv, NEW o \in Ops,
           FetchUnknown(o) \/ FetchPlain(o) \/ FetchStale(o) \/ FetchRegister(o)
    PROVE  IInv'
<1>1. values \in Seq(Ids) /\ Depth \in Nat /\ live \subseteq Ids /\ type \in [Ids -> SUBSET Types]
  BY DEF IInv, ShapeOK, Depth
<1>2. CASE FetchUnknown(o)
  BY <1>2, SameStep DEF FetchUnknown, heap
<1>3. CASE FetchStale(o)
  BY <1>3, FaultStep DEF FetchStale
<1>4. Depth > 0 => Get(0) = values[1] /\ values[1] \in Ids
  BY <1>1 DEF Get, Depth
<1>5. ASSUME Depth > 0 => Get(0) \in live
      PROVE  \A i \in 1 .. Depth : values[i] \in live
  <2> SUFFICES ASSUME NEW i \in 1 .. Depth PROVE values[i] \in live
    OBVIOUS
  <2>1. CASE i = 1
    BY <1>1, <1>4, <1>5, <2>1
  <2>2. CASE i # 1
    BY <1>1, <2>2 DEF IInv, Owned
  <2>. QED
    BY <2>1, <2>2
<1>6. phase # "exec" \/ FetchUnknown(o) \/ FetchStale(o)
  BY DEF FetchPlain, FetchRegister, Fetch
<1>7. CASE FetchPlain(o)
  <2>1. /\ UNCHANGED <<values, live, type>> /\ op' = o /\ live # Ids
        /\ Depth > 0 => Get(0) \in live /\ "REGISTER_LOC" \notin type[Get(0)]
    BY <1>7 DEF FetchPlain, Fetch, heap
  <2>2. ShapeOK' /\ Owned' /\ ExecOK'
    BY <1>5, <2>1 DEF IInv, ShapeOK, Owned, ExecOK, Depth
  <2>3. GenericOK'
    <3> SUFFICES ASSUME NEW k \in 1 .. Depth, values[k] \in live
                 PROVE  /\ "REGISTER_LOC" \notin type[values[k]]
                        /\ "GENERIC" \in type[values[k]]
      BY <2>1 DEF GenericOK, Depth, IsRegister
    <3>1. "REGISTER_LOC" \in type[values[k]] => k = 1
      BY DEF IInv, GenericOK, IsRegister
    <3>2. "REGISTER_LOC" \notin type[values[k]]
      BY <1>1, <1>4, <2>1, <3>1
    <3>. QED
      BY <3>2 DEF IInv, GenericOK, IsRegister
  <2>. QED
    BY <2>2, <2>3 DEF IInv
<1>8. CASE FetchRegister(o)
  <2>1. CASE \/ UNCHANGED heap /\ phase' = "failed"
             \/ Fault("bad_address")
    BY <2>1, SameStep, FaultStep DEF heap
  <2>2. CASE /\ UNCHANGED <<values, live>> /\ op' = o
             /\ type' = [type EXCEPT ![Get(0)] = {"GENERIC"}]
    <3>1. Depth > 0 /\ Get(0) \in live /\ live # Ids
      BY <1>8 DEF FetchRegister, Fetch
    <3>2. type' \in [Ids -> SUBSET Types] /\ type'[values[1]] = {"GENERIC"}
      BY <1>1, <1>4, <2>2, <3>1 DEF Types
    <3>3. ShapeOK' /\ Owned' /\ ExecOK'
      BY <1>5, <2>2, <3>1, <3>2 DEF IInv, ShapeOK, Owned, ExecOK, Depth
    <3>4. \A k \in 2 .. Depth : values[k] # values[1] /\ values[k] \in Ids
                                /\ values[k] \in live
      BY <1>1, <3>1 DEF IInv, Owned, Depth
    <3>5. \A k \in 2 .. Depth : type'[values[k]] = type[values[k]]
      BY <1>1, <1>4, <2>2, <3>1, <3>4
    <3>6. GenericOK'
      <4> SUFFICES ASSUME NEW k \in 1 .. Depth
                   PROVE  /\ "REGISTER_LOC" \notin type'[values[k]]
                          /\ "GENERIC" \in type'[values[k]]
        BY <2>2 DEF GenericOK, Depth, IsRegister
      <4>1. CASE k = 1
        BY <3>2, <4>1
      <4>2. CASE k # 1
        <5>1. k \in 2 .. Depth
          BY <1>1, <4>2
        <5>. QED
          BY <3>4, <3>5, <4>2, <5>1 DEF IInv, GenericOK, IsRegister
      <4>. QED
        BY <4>1, <4>2
    <3>. QED
      BY <3>3, <3>6 DEF IInv
  <2>. QED
    BY <1>8, <2>1, <2>2 DEF FetchRegister
<1>. QED
  BY <1>2, <1>3, <1>7, <1>8

LEMMA CallerSteps ==
    ASSUME IInv, Calc \/ CalcReturn \/ Fini \/ GetValue
    PROVE  IInv'
<1>1. ASSUME NEW ph, ph # "exec", Clear(ph) PROVE IInv'
  <2>1. CASE Linked \subseteq live
    BY <1>1, <2>1, EmptyGood, RelinkStep DEF Clear
  <2>2. CASE ~(Linked \subseteq live)
    BY <1>1, <2>2, FaultStep DEF Clear
  <2>. QED
    BY <2>1, <2>2
<1>2. CASE Calc
  BY <1>1, <1>2 DEF Calc
<1>3. CASE Fini
  BY <1>1, <1>3 DEF Fini
<1>4. CASE CalcReturn
  BY <1>4, SameStep DEF CalcReturn, heap
<1>5. CASE GetValue
  <2>1. CASE UNCHANGED vars
    BY <1>5, <2>1, SameStep DEF vars, GetValue
  <2>2. CASE ~UNCHANGED vars
    BY <1>5, <2>2, FaultStep DEF GetValue
  <2>. QED
    BY <2>1, <2>2
<1>. QED
  BY <1>2, <1>3, <1>4, <1>5

-----------------------------------------------------------------------------
LEMMA InitIInv == Init => IInv
BY DEF Init, IInv, ShapeOK, Owned, GenericOK, ExecOK, Depth, Types

LEMMA NextIInv == IInv /\ [Next]_vars => IInv'
<1> SUFFICES ASSUME IInv, [Next]_vars PROVE IInv'
  OBVIOUS
<1>1. CASE UNCHANGED vars
  BY <1>1 DEF vars, IInv, ShapeOK, Owned, GenericOK, ExecOK, Depth, IsRegister
<1>2. CASE Next
  <2>1. CASE Handler
    <3>1. CASE dw_op_notimpl
      BY <3>1, RejectStep DEF dw_op_notimpl
    <3>. QED
      BY <2>1, <3>1, PushHandlers, InPlaceHandlers, CopyHandlers, DropHandlers,
         PermuteHandlers, BinaryHandlers DEF Handler
  <2>. QED
    BY <1>2, <2>1, FetchSteps, CallerSteps DEF Next
<1>. QED
  BY <1>1, <1>2

-----------------------------------------------------------------------------
(* The words on the heap *)

WordOK == word \in [Ids -> Words]

RestOK == /\ nexpr \in 0 .. MaxOps /\ op \in Ops \cup {NoOp}
          /\ entry \in BOOLEAN /\ phase \in Phases /\ fault \in Faults

LEMMA RelinkWord ==
    ASSUME WordOK, NEW vs, NEW freed, Relink(vs, freed)
    PROVE  WordOK'
BY WordFacts DEF WordOK, Relink

LEMMA RelinkNewWord ==
    ASSUME WordOK, NEW vs, NEW freed, NEW w \in Int, NEW s \in Sizes, NEW t,
           RelinkNew(vs, freed, w, s, t)
    PROVE  WordOK'
<1>1. w % Modulus(s) \in Words /\ 0 \in Words
  BY ModulusType, WordFacts
<1>. QED
  BY <1>1 DEF WordOK, RelinkNew

LEMMA PushWord ==
    ASSUME WordOK, NEW w \in Int, NEW s \in Sizes, NEW t, Push(w, s, t)
    PROVE  WordOK'
BY RelinkNewWord DEF Push, Replace

LEMMA InPlaceWord ==
    ASSUME WordOK, NEW w, NEW t, NEW result, Depth # 0 => w \in Words, InPlace(w, t, result)
    PROVE  WordOK'
BY DEF WordOK, InPlace, heap

LEMMA ResultWord ==
    ASSUME WordOK, NEW w \in Words, NEW t, Result(w, t) \/ FreeingResult(w, t)
    PROVE  WordOK'
<1>1. w \in Int /\ 8 \in Sizes
  BY WordFacts DEF Sizes
<1>2. CASE Result(w, t)
  BY <1>1, <1>2, RelinkNewWord DEF Result, Replace
<1>3. CASE FreeingResult(w, t) /\ Depth = 1
  BY <1>3 DEF FreeingResult, Fault, heap, WordOK
<1>4. CASE FreeingResult(w, t) /\ Depth # 1
  BY <1>1, <1>4, RelinkNewWord DEF FreeingResult, Replace
<1>. QED
  BY <1>2, <1>3, <1>4

LEMMA SameWord ==
    ASSUME WordOK, UNCHANGED heap \/ Reject \/ (\E f : Fault(f))
    PROVE  WordOK'
BY DEF WordOK, heap, Reject, Fault

(* What an operation finds on the stack and in its operands. *)
LEMMA GetWord ==
    ASSUME IInv, WordOK, phase = "exec", Depth > 0, NEW idx \in Nat
    PROVE  word[Get(idx)] \in Words
BY GetGood DEF WordOK

LEMMA OperandType ==
    ASSUME IInv, phase = "exec"
    PROVE  /\ op \in OpType /\ op.arg1 \in Words /\ op.arg2 \in Words /\ op.n \in Words
           /\ op.atom \in {"const_u", "const_s"} => op.n \in Sizes
           /\ op.atom = "const_u" => op.arg1 < Modulus(op.n)
           /\ op \in Ops
BY OpsAssumption DEF IInv, ExecOK, OpType

LEMMA PushHandlersWord ==
    ASSUME IInv, WordOK,
           \/ dw_op_addr \/ dw_op_const_x_u \/ dw_op_const_x_s \/ dw_op_constu
           \/ dw_op_consts \/ dw_op_lit_x \/ dw_op_reg_x \/ dw_op_breg_x
           \/ dw_op_call_frame_cfa \/ dw_op_fbreg \/ GNU_entry_value
    PROVE  WordOK'
<1>1. phase = "exec"
  BY DEF Exec, dw_op_addr, dw_op_const_x_u, dw_op_const_x_s, dw_op_constu,
     dw_op_consts, dw_op_lit_x, dw_op_reg_x, dw_op_breg_x, dw_op_call_frame_cfa,
     dw_op_fbreg, GNU_entry_value
<1>2. /\ op.arg1 \in Words /\ op.arg2 \in Words /\ op.n \in Words
      /\ op.atom \in {"const_u", "const_s"} => op.n \in Sizes
  BY <1>1, OperandType
<1>3. 8 \in Sizes /\ \A w \in Words : w \in Int
  BY WordFacts DEF Sizes
<1>4. ASSUME NEW w \in Words, NEW t, Push(w, 8, t) PROVE WordOK'
  BY <1>3, <1>4, PushWord
<1>5. CASE dw_op_addr
  BY <1>2, <1>4, <1>5 DEF dw_op_addr
<1>6. CASE dw_op_const_x_u \/ dw_op_const_x_s
  <2>1. PICK t : Push(op.arg1, op.n, t) /\ op.n \in Sizes /\ op.arg1 \in Int
    BY <1>2, <1>3, <1>6 DEF dw_op_const_x_u, dw_op_const_x_s, Exec
  <2>. QED
    BY <2>1, PushWord
<1>7. CASE dw_op_constu
  BY <1>2, <1>4, <1>7, DecodeType DEF dw_op_constu
<1>8. CASE dw_op_consts
  BY <1>2, <1>4, <1>8, DecodeType DEF dw_op_consts
<1>9. CASE dw_op_lit_x
  BY <1>2, <1>4, <1>9 DEF dw_op_lit_x
<1>10. CASE dw_op_reg_x
  BY <1>2, <1>4, <1>10, DecodeType DEF dw_op_reg_x
<1>11. CASE dw_op_breg_x
  <2>1. PICK regno \in IF op.atom = "bregx" THEN decode_uleb128(op.arg1) ELSE {op.n},
             off \in decode_sleb128(IF op.atom = "bregx" THEN op.arg2 ELSE op.arg1) :
             \/ regno \in DOMAIN Regs /\ Push(AsWord(Regs[regno] + off), 8, {"GENERIC"})
             \/ UNCHANGED heap
    BY <1>11 DEF dw_op_breg_x
  <2>2. off \in Words
    BY <1>2, DecodeType
  <2>3. ASSUME regno \in DOMAIN Regs PROVE AsWord(Regs[regno] + off) \in Words
    <3>1. Regs[regno] \in Words
      BY <2>3, MemAssumption
    <3>2. Regs[regno] + off \in Int
      BY <1>3, <2>2, <3>1
    <3>. QED
      BY <3>2, WordFacts
  <2>. QED
    BY <1>4, <2>1, <2>3, SameWord
<1>12. CASE dw_op_call_frame_cfa
  BY <1>4, <1>12, MemAssumption DEF dw_op_call_frame_cfa
<1>13. CASE dw_op_fbreg
  <2>1. PICK off \in decode_sleb128(op.arg1) : \E t : Push(AsWord(CFA + off), 8, t)
    BY <1>13 DEF dw_op_fbreg
  <2>2. off \in Words /\ CFA \in Words
    BY <1>2, DecodeType, MemAssumption
  <2>3. CFA + off \in Int
    BY <1>3, <2>2
  <2>. QED
    BY <1>4, <2>1, <2>3, WordFacts
<1>14. CASE GNU_entry_value
  BY <1>4, <1>14, SameWord, MemAssumption DEF GNU_entry_value
<1>. QED
  BY <1>5, <1>6, <1>7, <1>8, <1>9, <1>10, <1>11, <1>12, <1>13, <1>14

LEMMA InPlaceHandlersWord ==
    ASSUME IInv, WordOK,
           \/ dw_op_abs \/ dw_op_neg \/ dw_op_not \/ dw_op_plus_uconst
           \/ dw_op_stack_value
    PROVE  WordOK'
<1>1. phase = "exec" /\ Depth \in Nat
  BY DEF Exec, dw_op_abs, dw_op_neg, dw_op_not, dw_op_plus_uconst, dw_op_stack_value,
     IInv, ShapeOK, Depth
<1>2. Depth # 0 => word[Get(0)] \in Words
  BY <1>1, GetWord
<1>3. CASE dw_op_abs
  <2>1. PICK w : /\ w = IF AsSigned(word[Get(0)]) < 0
                        THEN -AsSigned(word[Get(0)]) ELSE AsSigned(word[Get(0)])
                 /\ \E t, result : InPlace(w, t, result)
    BY <1>3 DEF dw_op_abs
  <2>2. Depth # 0 => w \in Words
    BY <1>2, <2>1, AbsType
  <2>. QED
    BY <2>1, <2>2, InPlaceWord
<1>4. CASE dw_op_neg
  <2>1. PICK s, w :
          /\ s \in Sizes
          /\ w = (word[Get(0)] - (word[Get(0)] % Modulus(s)))
                 + ((Modulus(s) - (word[Get(0)] % Modulus(s))) % Modulus(s))
          /\ \E t, result : InPlace(w, t, result)
    <3>1. PICK s : s = CASE "CHAR" \in type[Get(0)] -> 1 [] "SHORT" \in type[Get(0)] -> 2
                         [] "INT" \in type[Get(0)] -> 4 [] OTHER -> 8
      OBVIOUS
    <3>2. s \in Sizes
      BY <3>1 DEF Sizes
    <3>. QED
      BY <1>4, <3>1, <3>2 DEF dw_op_neg
  <2>2. Depth # 0 => w \in Words
    BY <1>2, <2>1, NegType
  <2>. QED
    BY <2>1, <2>2, InPlaceWord
<1>5. CASE dw_op_not
  BY <1>2, <1>5, ArithmeticType, InPlaceWord DEF dw_op_not
<1>6. CASE dw_op_plus_uconst
  <2>1. PICK k \in decode_uleb128(op.arg1) :
             \E t, result : InPlace(AsWord(word[Get(0)] + k), t, result)
    BY <1>6 DEF dw_op_plus_uconst
  <2>2. k \in Words
    BY <1>1, OperandType, DecodeType
  <2>3. Depth # 0 => word[Get(0)] + k \in Int
    BY <1>2, <2>2, WordFacts
  <2>4. Depth # 0 => AsWord(word[Get(0)] + k) \in Words
    BY <2>3, WordFacts
  <2>. QED
    BY <2>1, <2>4, InPlaceWord
<1>7. CASE dw_op_stack_value
  BY <1>2, <1>7, InPlaceWord DEF dw_op_stack_value
<1>. QED
  BY <1>3, <1>4, <1>5, <1>6, <1>7

LEMMA CopyHandlersWord ==
    ASSUME IInv, WordOK, dw_op_dup \/ dw_op_over \/ dw_op_pick
    PROVE  WordOK'
<1>1. phase = "exec" /\ Depth \in Nat
  BY DEF Exec, dw_op_dup, dw_op_over, dw_op_pick, IInv, ShapeOK, Depth
<1>2. op.arg1 \in Nat
  BY <1>1, OperandType, WordFacts
<1>3. ASSUME NEW idx \in Nat, Depth # 0, PushCopy(idx) PROVE WordOK'
  <2>1. word[Get(idx)] \in Int /\ 8 \in Sizes
    BY <1>1, <1>3, GetWord, WordFacts DEF Sizes
  <2>. QED
    BY <1>3, <2>1, PushWord DEF PushCopy
<1>4. CASE dw_op_dup
  BY <1>3, <1>4, SameWord DEF dw_op_dup
<1>5. CASE dw_op_over
  BY <1>3, <1>5, SameWord DEF dw_op_over
<1>6. CASE dw_op_pick
  BY <1>2, <1>3, <1>6, SameWord DEF dw_op_pick
<1>. QED
  BY <1>4, <1>5, <1>6

LEMMA DropHandlersWord ==
    ASSUME IInv, WordOK, dw_op_deref_size \/ dw_op_drop \/ dw_op_swap \/ dw_op_rot
    PROVE  WordOK'
<1>1. phase = "exec"
  BY DEF Exec, dw_op_deref_size, dw_op_drop, dw_op_swap, dw_op_rot
<1>2. CASE dw_op_deref_size
  <2> DEFINE size == IF op.atom = "deref" THEN 8 ELSE op.arg1
             addr == word[Get(0)]
  <2>1. \/ UNCHANGED heap
        \/ Relink(Below(1), {})
        \/ Fault("bad_address")
        \/ /\ size \in Sizes /\ addr \in DOMAIN Mem
           /\ Replace(Mem[addr] % Modulus(size), 8, {"GENERIC"}, {}, Below(1))
    BY <1>2 DEF dw_op_deref_size
  <2> HIDE DEF size, addr
  <2>2. ASSUME size \in Sizes, addr \in DOMAIN Mem
        PROVE  Mem[addr] % Modulus(size) \in Int /\ 8 \in Sizes
    <3>1. Mem[addr] \in Int
      BY <2>2, MemAssumption, WordFacts
    <3>2. Mem[addr] % Modulus(size) \in Words
      BY <2>2, <3>1, ModulusType
    <3>. QED
      BY <3>2, WordFacts DEF Sizes
  <2>. QED
    BY <2>1, <2>2, SameWord, RelinkWord, RelinkNewWord DEF Replace
<1>3. CASE dw_op_drop
  BY <1>3, SameWord, RelinkWord DEF dw_op_drop
<1>4. CASE dw_op_swap \/ dw_op_rot
  <2>1. \E vs, freed : Relink(vs, freed)
    BY <1>4 DEF dw_op_swap, dw_op_rot, Permute
  <2>. QED
    BY <2>1, RelinkWord
<1>. QED
  BY <1>2, <1>3, <1>4

LEMMA BinaryHandlersWord ==
    ASSUME IInv, WordOK,
           \/ dw_op_and \/ dw_op_or \/ dw_op_minus \/ dw_op_mod \/ dw_op_mul
           \/ dw_op_div \/ dw_op_plus
    PROVE  WordOK'
<1>1. phase = "exec" /\ Depth \in Nat
  BY DEF Exec, dw_op_and, dw_op_or, dw_op_minus, dw_op_mod, dw_op_mul, dw_op_div,
     dw_op_plus, IInv, ShapeOK, Depth
<1>2. Operands => W1 \in Words /\ W2 \in Words
  BY <1>1, GetWord DEF Operands, W1, W2
<1>3. Operands => W1 \in Int /\ W2 \in Int
  BY <1>2, WordFacts
<1>4. ASSUME NEW w \in Words, NEW t, Result(w, t) \/ FreeingResult(w, t) PROVE WordOK'
  BY <1>4, ResultWord
<1>5. CASE Reject \/ \E f : Fault(f)
  BY <1>5, SameWord
<1>6. CASE dw_op_and
  BY <1>2, <1>4, <1>5, <1>6, ArithmeticType DEF dw_op_and
<1>7. CASE dw_op_or
  BY <1>2, <1>4, <1>5, <1>7, ArithmeticType DEF dw_op_or
<1>8. CASE dw_op_minus
  <2>1. Reject \/ (Operands /\ \E t : Result(AsWord(W2 - W1), t))
    BY <1>8 DEF dw_op_minus
  <2>2. Operands => AsWord(W2 - W1) \in Words
    BY <1>3, WordFacts
  <2>. QED
    BY <1>4, <1>5, <2>1, <2>2
<1>9. CASE dw_op_mod
  BY <1>2, <1>4, <1>5, <1>9, ArithmeticType DEF dw_op_mod
<1>10. CASE dw_op_mul
  BY <1>2, <1>4, <1>5, <1>10, ArithmeticType DEF dw_op_mul
<1>11. CASE dw_op_div
  BY <1>2, <1>4, <1>5, <1>11, ArithmeticType DEF dw_op_div
<1>12. CASE dw_op_plus
  <2>1. \/ Reject \/ \E f : Fault(f)
        \/ Operands /\ \E vs, freed, t : RelinkNew(vs, freed, AsWord(W2 + W1), 8, t)
    BY <1>12 DEF dw_op_plus
  <2>2. Operands => AsWord(W2 + W1) \in Int /\ 8 \in Sizes
    BY <1>3, WordFacts DEF Sizes
  <2>. QED
    BY <1>5, <2>1, <2>2, RelinkNewWord
<1>. QED
  BY <1>6, <1>7, <1>8, <1>9, <1>10, <1>11, <1>12

LEMMA CalcWord ==
    ASSUME IInv, WordOK,
           \/ Calc \/ CalcReturn \/ Fini \/ GetValue
           \/ \E o \in Ops : FetchUnknown(o) \/ FetchPlain(o) \/ FetchStale(o) \/ FetchRegister(o)
    PROVE  WordOK'
<1>1. CASE Calc \/ Fini
  <2>1. (\E vs, freed : Relink(vs, freed)) \/ \E f : Fault(f)
    BY <1>1 DEF Calc, Fini, Clear
  <2>. QED
    BY <2>1, RelinkWord, SameWord
<1>2. CASE CalcReturn
  BY <1>2, SameWord DEF CalcReturn
<1>3. CASE GetValue
  <2>1. UNCHANGED vars \/ \E f : Fault(f)
    BY <1>3 DEF GetValue
  <2>. QED
    BY <2>1, SameWord DEF vars, heap
<1>4. ASSUME NEW o \in Ops, FetchUnknown(o) \/ FetchPlain(o) \/ FetchStale(o) PROVE WordOK'
  BY <1>4, SameWord DEF FetchUnknown, FetchPlain, FetchStale
<1>5. ASSUME NEW o \in Ops, FetchRegister(o) PROVE WordOK'
  <2>1. \/ UNCHANGED heap \/ \E f : Fault(f)
        \/ /\ Mem[word[Get(0)]] \in DOMAIN Regs
           /\ word' = [word EXCEPT ![Get(0)] = Regs[Mem[word[Get(0)]]]]
    BY <1>5 DEF FetchRegister
  <2>. QED
    BY <2>1, SameWord, MemAssumption DEF WordOK
<1>. QED
  BY <1>1, <1>2, <1>3, <1>4, <1>5

Stops == \E f \in {"null_pointer", "assertion", "double_free", "bad_address", "division"} :
             Fault(f)

(* How a handler ends. *)
LEMMA HandlerReturns ==
    ASSUME Handler
    PROVE  Succeed \/ Fail \/ Stops
<1>1. ASSUME dw_op_notimpl \/ dw_op_addr \/ dw_op_const_x_u \/ dw_op_const_x_s
             \/ dw_op_constu \/ dw_op_consts \/ dw_op_lit_x \/ dw_op_reg_x \/ dw_op_breg_x
             \/ dw_op_call_frame_cfa \/ dw_op_fbreg \/ GNU_entry_value
      PROVE  Succeed \/ Fail
  BY <1>1, Zenon DEF dw_op_notimpl, dw_op_addr, dw_op_const_x_u, dw_op_const_x_s,
     dw_op_constu, dw_op_consts, dw_op_lit_x, dw_op_reg_x, dw_op_breg_x,
     dw_op_call_frame_cfa, dw_op_fbreg, GNU_entry_value
<1>2. ASSUME dw_op_deref_size \/ dw_op_dup \/ dw_op_over \/ dw_op_pick \/ dw_op_drop
             \/ dw_op_swap \/ dw_op_rot
      PROVE  Succeed \/ Fail \/ Stops
  <2>1. CASE dw_op_deref_size
    BY <2>1 DEF dw_op_deref_size, Stops
  <2>2. CASE dw_op_dup \/ dw_op_over \/ dw_op_pick
    <3>1. CASE dw_op_dup
      BY <3>1 DEF dw_op_dup, PushCopy, Stops
    <3>2. CASE dw_op_over
      BY <3>2 DEF dw_op_over, PushCopy, Stops
    <3>3. CASE dw_op_pick
      BY <3>3 DEF dw_op_pick, PushCopy
    <3>. QED
      BY <2>2, <3>1, <3>2, <3>3
  <2>3. CASE dw_op_drop
    BY <2>3 DEF dw_op_drop, Stops
  <2>4. CASE dw_op_swap \/ dw_op_rot
    <3>1. ASSUME NEW n, NEW p, Permute(n, p) PROVE Succeed \/ Fail \/ Stops
      BY <3>1 DEF Permute, Stops
    <3>2. CASE dw_op_swap
      BY <3>1, <3>2 DEF dw_op_swap
    <3>3. CASE dw_op_rot
      BY <3>1, <3>3 DEF dw_op_rot
    <3>. QED
      BY <2>4, <3>2, <3>3
  <2>. QED
    BY <1>2, <2>1, <2>2, <2>3, <2>4
<1>3. ASSUME dw_op_abs \/ dw_op_neg \/ dw_op_not \/ dw_op_plus_uconst \/ dw_op_stack_value
      PROVE  Succeed \/ Fail
  <2>1. ASSUME NEW w, NEW t, InPlace(w, t, Succeed) \/ InPlace(w, t, Fail)
        PROVE  Succeed \/ Fail
    BY <2>1, Zenon DEF InPlace
  <2>. QED
    BY <1>3, <2>1, ZenonT(60) DEF dw_op_abs, dw_op_neg, dw_op_not, dw_op_plus_uconst,
       dw_op_stack_value
<1>4. ASSUME dw_op_and \/ dw_op_or \/ dw_op_minus \/ dw_op_mod \/ dw_op_mul \/ dw_op_div
             \/ dw_op_plus
      PROVE  Succeed \/ Fail \/ Stops
  <2>1. ASSUME Reject PROVE Fail
    BY <2>1 DEF Reject
  <2>2. ASSUME NEW w, NEW t, Result(w, t) PROVE Succeed
    BY <2>2 DEF Result
  <2>3. ASSUME NEW w, NEW t, FreeingResult(w, t) PROVE Succeed \/ Stops
    BY <2>3 DEF FreeingResult, Stops
  <2>4. Fault("double_free") \/ Fault("division") => Stops
    BY DEF Stops
  <2>5. ASSUME dw_op_and \/ dw_op_or PROVE Succeed \/ Fail \/ Stops
    BY <2>1, <2>3, <2>5, Zenon DEF dw_op_and, dw_op_or
  <2>6. ASSUME dw_op_minus \/ dw_op_mod \/ dw_op_mul \/ dw_op_div \/ dw_op_plus
        PROVE  Succeed \/ Fail \/ Stops
    BY <2>1, <2>2, <2>4, <2>6, Zenon DEF dw_op_minus, dw_op_mod, dw_op_mul, dw_op_div, dw_op_plus
  <2>. QED
    BY <1>4, <2>5, <2>6, Zenon
<1>. QED
  BY <1>1, <1>2, <1>3, <1>4, Zenon DEF Handler

(* Everything but the heap. *)
LEMMA NextRestOK ==
    ASSUME RestOK, [Next]_vars
    PROVE  RestOK'
<1>1. CASE UNCHANGED vars
  BY <1>1 DEF vars, RestOK
<1>2. CASE \E ph : Return(ph) /\ ph \in Phases
  BY <1>2 DEF Return, RestOK
<1>3. (Succeed \/ Fail) => RestOK'
  BY <1>2 DEF Succeed, Fail, Phases
<1>4. ASSUME NEW f \in Faults, Fault(f) PROVE RestOK'
  BY <1>4 DEF Fault, RestOK
<1>5. CASE \E f \in {"null_pointer", "assertion", "use_after_free", "double_free",
                     "bad_address", "division"} : Fault(f)
  BY <1>4, <1>5 DEF Faults
<1>6. ASSUME NEW ph \in Phases, Clear(ph) PROVE RestOK'
  <2>1. 0 \in 0 .. MaxOps /\ FALSE \in BOOLEAN
    BY BoundAssumption
  <2>2. \/ /\ nexpr' = 0 /\ entry' = FALSE /\ phase' = ph /\ op' = op /\ fault' = fault
        \/ Fault("double_free")
    BY <1>6, Zenon DEF Clear
  <2>. QED
    BY <1>5, <1>6, <2>1, <2>2, Zenon DEF RestOK
<1>7. CASE Calc \/ Fini
  BY <1>6, <1>7 DEF Calc, Fini, Phases
<1>8. CASE CalcReturn
  BY <1>8 DEF CalcReturn, RestOK, Phases
<1>9. CASE GetValue
  BY <1>1, <1>5, <1>9 DEF GetValue
<1>10. ASSUME NEW o \in Ops, FetchUnknown(o) \/ FetchPlain(o) \/ FetchStale(o) \/ FetchRegister(o)
       PROVE  RestOK'
  <2>1. CASE FetchUnknown(o)
    BY <2>1 DEF FetchUnknown, RestOK, Phases
  <2>2. CASE FetchStale(o)
    BY <1>5, <2>2 DEF FetchStale
  <2>3. ASSUME Fetch(o), Record(o)
        PROVE  nexpr' \in 0 .. MaxOps /\ entry' \in BOOLEAN
    <3>1. nexpr' \in 0 .. MaxOps
      BY <2>3, BoundAssumption DEF Fetch, Record, RestOK
    <3>2. entry' \in BOOLEAN
      BY <2>3, Zenon DEF Record, RestOK
    <3>. QED
      BY <3>1, <3>2
  <2>4. CASE FetchPlain(o)
    BY <2>3, <2>4 DEF FetchPlain, RestOK, Phases
  <2>5. CASE FetchRegister(o)
    BY <1>5, <2>3, <2>5 DEF FetchRegister, RestOK, Phases
  <2>. QED
    BY <1>10, <2>1, <2>2, <2>4, <2>5
<1>11. CASE Handler
  <2>1. \/ Succeed \/ Fail
        \/ \E f \in {"null_pointer", "assertion", "use_after_free", "double_free",
                     "bad_address", "division"} : Fault(f)
    BY <1>11, HandlerReturns DEF Stops
  <2>. QED
    BY <1>3, <1>5, <2>1
<1>. QED
  BY <1>1, <1>7, <1>8, <1>9, <1>10, <1>11 DEF Next

LEMMA NextWordOK == IInv /\ WordOK /\ [Next]_vars => WordOK'
<1> SUFFICES ASSUME IInv, WordOK, [Next]_vars PROVE WordOK'
  OBVIOUS
<1>1. CASE UNCHANGED vars
  BY <1>1, SameWord DEF vars, heap
<1>2. CASE Handler
  <2>1. CASE dw_op_notimpl
    BY <2>1, SameWord DEF dw_op_notimpl
  <2>. QED
    BY <1>2, <2>1, PushHandlersWord, InPlaceHandlersWord, CopyHandlersWord,
       DropHandlersWord, BinaryHandlersWord DEF Handler
<1>. QED
  BY <1>1, <1>2, CalcWord DEF Next

-----------------------------------------------------------------------------
(* What a step does to the heap *)

Elems(vs) == {vs[i] : i \in 1 .. Len(vs)}

(* Nothing is left behind and what is linked is allocated. *)
Tidy == Linked' \subseteq live' /\ (live \ Linked)' \subseteq live \ Linked
Kept == UNCHANGED <<values, live>>

LEMMA ExecLinked ==
    ASSUME IInv, phase = "exec"
    PROVE  Linked \subseteq live /\ Linked = Elems(values) /\ live \subseteq Ids /\ Depth \in Nat
BY DEF IInv, ExecOK, ShapeOK, Linked, Elems, Depth

LEMMA ReplaceSets ==
    ASSUME IInv, phase = "exec", NEW w, NEW s, NEW t, NEW freed, NEW n \in Nat,
           Replace(w, s, t, freed, Below(n))
    PROVE  Linked' = {New} \cup Elems(Below(n)) /\ live' = (live \cup {New}) \ freed
<1>1. Good(Below(n)) /\ New \in Ids
  BY ExecGood, BelowGood
<1>2. PICK b : b = Below(n)
  OBVIOUS
<1>3. b \in Seq(Ids)
  BY <1>1, <1>2 DEF Good
<1>4. values' = <<New>> \o b /\ live' = (live \cup {New}) \ freed
  BY <1>2 DEF Replace, RelinkNew
<1>5. PICK v : v = <<New>> \o b
  OBVIOUS
<1>6. /\ Len(v) = Len(b) + 1 /\ v[1] = New /\ Len(b) \in Nat
      /\ \A i \in 2 .. Len(v) : i - 1 \in 1 .. Len(b) /\ v[i] = b[i - 1]
      /\ \A i \in 1 .. Len(b) : i + 1 \in 1 .. Len(v) /\ v[i + 1] = b[i]
  BY <1>1, <1>3, <1>5
<1>7. Elems(v) = {New} \cup Elems(b)
  <2>1. ASSUME NEW i \in 1 .. Len(v) PROVE v[i] \in {New} \cup Elems(b)
    <3>1. CASE i = 1
      BY <1>6, <3>1
    <3>2. CASE i # 1
      BY <1>6, <3>2 DEF Elems
    <3>. QED
      BY <3>1, <3>2
  <2>2. ASSUME NEW i \in 1 .. Len(b) PROVE b[i] \in Elems(v)
    BY <1>6 DEF Elems
  <2>3. New \in Elems(v)
    <3>1. 1 \in 1 .. Len(v)
      BY <1>6
    <3>. QED
      BY <1>6, <3>1 DEF Elems
  <2>4. Elems(v) \subseteq {New} \cup Elems(b)
    BY <2>1 DEF Elems
  <2>5. Elems(b) \subseteq Elems(v)
    BY <2>2 DEF Elems
  <2>. QED
    BY <2>3, <2>4, <2>5
<1>8. Linked' = Elems(v)
  BY <1>4, <1>5 DEF Linked, Depth, Elems
<1>. QED
  BY <1>2, <1>4, <1>7, <1>8

(* Removing the top values removes them from what is linked. *)
LEMMA BelowSets ==
    ASSUME IInv, phase = "exec", NEW n \in Nat, n <= Depth
    PROVE  /\ Elems(Below(n)) \subseteq Linked
           /\ Linked = {values[i] : i \in 1 .. n} \cup Elems(Below(n))
<1>1. values \in Seq(Ids) /\ Depth \in Nat
  BY DEF IInv, ShapeOK, Depth
<1>2. PICK b : b = Below(n)
  OBVIOUS
<1>3. /\ Len(b) = Depth - n
      /\ \A i \in 1 .. Depth - n : b[i] = values[i + n] /\ i + n \in 1 .. Depth
  BY <1>1, <1>2, BelowIs
<1>4. Elems(b) \subseteq Linked
  BY <1>3 DEF Elems, Linked
<1>5. ASSUME NEW i \in 1 .. Depth
      PROVE  values[i] \in {values[j] : j \in 1 .. n} \cup Elems(b)
  <2>1. CASE i <= n
    BY <1>1, <2>1
  <2>2. CASE i > n
    <3>1. i - n \in 1 .. Len(b) /\ b[i - n] = values[i]
      <4>1. i - n \in 1 .. Depth - n /\ (i - n) + n = i
        BY <1>1, <2>2
      <4>. QED
        BY <1>3, <4>1
    <3>. QED
      BY <3>1 DEF Elems
  <2>. QED
    BY <1>1, <2>1, <2>2
<1>6. {values[i] : i \in 1 .. n} \subseteq Linked
  BY <1>1 DEF Linked
<1>. QED
  BY <1>2, <1>4, <1>5, <1>6 DEF Linked

LEMMA PushTidy ==
    ASSUME IInv, phase = "exec", NEW w, NEW s, NEW t, Push(w, s, t)
    PROVE  Tidy
<1>1. Below(0) = values
  BY DEF Below, Depth, IInv, ShapeOK
<1>2. Replace(w, s, t, {}, Below(0))
  BY <1>1 DEF Push
<1>3. Linked' = {New} \cup Elems(Below(0)) /\ live' = (live \cup {New}) \ {}
  BY <1>2, ReplaceSets
<1>. QED
  BY <1>1, <1>3, ExecLinked DEF Tidy

LEMMA ResultLinked ==
    ASSUME IInv, phase = "exec", NEW w, NEW t, Depth > 0, Result(w, t)
    PROVE  Linked' \subseteq live'
<1>1. Linked' = {New} \cup Elems(Below(2)) /\ live' = (live \cup {New}) \ {}
  BY ReplaceSets DEF Result
<1>2. Good(Below(2))
  BY ExecGood, BelowGood
<1>. QED
  BY <1>1, <1>2 DEF Good, Elems

LEMMA FreeingResultTidy ==
    ASSUME IInv, phase = "exec", NEW w, NEW t, Depth > 0, FreeingResult(w, t)
    PROVE  Tidy \/ Kept
<1>1. CASE Depth = 1
  BY <1>1 DEF FreeingResult, Fault, heap, Kept
<1>2. CASE Depth # 1
  <2>1. Depth > 1 /\ Depth \in Nat
    BY <1>2, ExecLinked
  <2>2. /\ Linked' = {New} \cup Elems(Below(2))
        /\ live' = (live \cup {New}) \ {Get(0), Get(1)}
    BY <1>2, ReplaceSets DEF FreeingResult
  <2>3. /\ Get(0) = values[1] /\ Get(1) = values[2]
        /\ \A i \in 1 .. Len(Below(2)) : Below(2)[i] \notin {Get(0), Get(1)}
    BY <2>1, OperandsPopped
  <2>4. Linked = {values[i] : i \in 1 .. 2} \cup Elems(Below(2))
    BY <2>1, BelowSets
  <2>5. {values[i] : i \in 1 .. 2} = {Get(0), Get(1)}
    BY <2>3
  <2>6. Linked \subseteq live /\ New \notin live
    BY ExecLinked, ExecGood
  <2>7. Elems(Below(2)) \cap {Get(0), Get(1)} = {}
    BY <2>3 DEF Elems
  <2>. QED
    BY <2>2, <2>4, <2>5, <2>6, <2>7 DEF Tidy
<1>. QED
  BY <1>1, <1>2

LEMMA DropTidy ==
    ASSUME IInv, dw_op_drop
    PROVE  Tidy \/ Kept
<1>1. phase = "exec"
  BY DEF dw_op_drop, Exec
<1>2. CASE Depth = 0
  BY <1>2 DEF dw_op_drop, Fault, heap, Kept
<1>3. CASE Depth # 0
  <2>1. values' = Below(1) /\ live' = live \ {Get(0)}
    BY <1>3 DEF dw_op_drop, Relink
  <2>2. Linked' = Elems(Below(1))
    BY <2>1 DEF Linked, Depth, Elems
  <2>3. Depth \in Nat /\ values \in Seq(Ids) /\ Linked \subseteq live
    BY <1>1, ExecLinked DEF IInv, ShapeOK
  <2>4. Linked = {values[i] : i \in 1 .. 1} \cup Elems(Below(1)) /\ Get(0) = values[1]
    <3>1. 1 <= Depth
      BY <1>3, <2>3
    <3>. QED
      BY <1>1, <2>3, <3>1, BelowSets DEF Get
  <2>5. Elems(Below(1)) \cap {Get(0)} = {}
    <3>1. /\ Len(Below(1)) = Depth - 1
          /\ \A i \in 1 .. Depth - 1 : Below(1)[i] = values[i + 1] /\ i + 1 \in 1 .. Depth
      BY <1>3, <2>3, BelowIs
    <3>2. \A i \in 1 .. Depth - 1 : values[i + 1] # values[1]
      <4> SUFFICES ASSUME NEW i \in 1 .. Depth - 1 PROVE values[i + 1] # values[1]
        OBVIOUS
      <4>1. i + 1 \in 1 .. Depth /\ 1 \in 1 .. Depth /\ i + 1 # 1
        BY <2>3
      <4>. QED
        BY <4>1 DEF IInv, Owned
    <3>. QED
      BY <2>4, <3>1, <3>2 DEF Elems
  <2>6. {values[i] : i \in 1 .. 1} = {Get(0)}
    BY <2>4
  <2>. QED
    BY <2>1, <2>2, <2>3, <2>4, <2>5, <2>6 DEF Tidy
<1>. QED
  BY <1>2, <1>3

LEMMA PermuteTidy ==
    ASSUME IInv, phase = "exec", NEW n \in Nat, NEW perm \in [1 .. n -> 1 .. n],
           \A i \in 1 .. n : \E j \in 1 .. n : perm[j] = i,
           Permute(n, perm)
    PROVE  Tidy
<1>1. Depth \in Nat /\ values \in Seq(Ids) /\ Linked \subseteq live
  BY ExecLinked DEF IInv, ShapeOK
<1>2. CASE ~(Depth >= n)
  <2>1. values' = <<>> /\ live' = live \ Linked
    BY <1>2 DEF Permute, Relink
  <2>2. Linked' = {}
    BY <2>1 DEF Linked, Depth
  <2>. QED
    BY <2>1, <2>2 DEF Tidy
<1>3. CASE Depth >= n
  <2> DEFINE top == [i \in 1 .. n |-> values[perm[i]]]
  <2>1. values' = top \o Below(n) /\ live' = live
    BY <1>3 DEF Permute, Relink
  <2>2. top \in Seq(Ids) /\ Len(top) = n
    <3>1. \A i \in 1 .. n : perm[i] \in 1 .. Len(values)
      BY <1>1, <1>3 DEF Depth
    <3>2. top \in [1 .. n -> Ids]
      BY <1>1, <3>1
    <3>. QED
      BY <3>2
  <2>3. /\ Below(n) \in Seq(Ids) /\ Len(Below(n)) = Depth - n
    BY <1>1, <1>3, BelowIs
  <2>4. \A i \in 1 .. n : top[i] = values[perm[i]]
    OBVIOUS
  <2> HIDE DEF top
  <2>5. PICK v, b : v = top \o Below(n) /\ b = Below(n)
    OBVIOUS
  <2>6. /\ v \in Seq(Ids) /\ Len(v) = Depth /\ Len(b) = Depth - n
        /\ \A i \in 1 .. n : v[i] = top[i]
        /\ \A i \in 1 .. Depth - n : v[i + n] = b[i] /\ i + n \in 1 .. Depth
    BY <1>1, <1>3, <2>2, <2>3, <2>5
  <2>7. Linked = {values[i] : i \in 1 .. n} \cup Elems(b)
    BY <1>1, <1>3, <2>5, BelowSets
  <2>8. ASSUME NEW i \in 1 .. Depth PROVE v[i] \in Linked
    <3>1. CASE i <= n
      <4>1. i \in 1 .. n /\ perm[i] \in 1 .. n
        BY <1>1, <3>1
      <4>2. v[i] = values[perm[i]]
        BY <2>4, <2>6, <4>1
      <4>. QED
        BY <2>7, <4>1, <4>2
    <3>2. CASE i > n
      <4>1. i - n \in 1 .. Len(b) /\ i - n \in 1 .. Depth - n /\ (i - n) + n = i
        BY <1>1, <2>6, <3>2
      <4>2. v[i] = b[i - n]
        BY <2>6, <4>1
      <4>. QED
        BY <2>7, <4>1, <4>2 DEF Elems
    <3>. QED
      BY <1>1, <3>1, <3>2
  <2>9. ASSUME NEW i \in 1 .. n PROVE values[i] \in Elems(v)
    <3>1. PICK j \in 1 .. n : perm[j] = i
      OBVIOUS
    <3>2. v[j] = values[i]
      BY <2>4, <2>6, <3>1
    <3>3. j \in 1 .. Len(v)
      BY <1>1, <1>3, <2>6
    <3>. QED
      BY <3>2, <3>3 DEF Elems
  <2>10. Elems(b) \subseteq Elems(v)
    <3> SUFFICES ASSUME NEW i \in 1 .. Len(b) PROVE b[i] \in Elems(v)
      BY DEF Elems
    <3>1. i \in 1 .. Depth - n /\ i + n \in 1 .. Len(v) /\ b[i] = v[i + n]
      BY <2>6
    <3>. QED
      BY <3>1 DEF Elems
  <2>11. Linked = Elems(v)
    <3>1. Elems(v) \subseteq Linked
      BY <2>6, <2>8 DEF Elems
    <3>2. {values[i] : i \in 1 .. n} \subseteq Elems(v)
      BY <2>9
    <3>. QED
      BY <2>7, <2>10, <3>1, <3>2
  <2>12. Linked' = Elems(v)
    BY <2>1, <2>5 DEF Linked, Depth, Elems
  <2>. QED
    BY <1>1, <2>1, <2>11, <2>12 DEF Tidy
<1>. QED
  BY <1>2, <1>3

(* calc's own steps and its callers. *)
Around == \/ Calc \/ CalcReturn \/ Fini \/ GetValue
          \/ \E o \in Ops : FetchUnknown(o) \/ FetchPlain(o) \/ FetchStale(o) \/ FetchRegister(o)

LEMMA NextCases == Next => Handler \/ Around
BY Zenon DEF Next, Around

LEMMA HandlerExec ==
    ASSUME Handler
    PROVE  phase = "exec"
BY Zenon DEF Handler, Exec, dw_op_notimpl, dw_op_addr, dw_op_const_x_u,
   dw_op_const_x_s, dw_op_constu, dw_op_consts, dw_op_lit_x, dw_op_reg_x, dw_op_breg_x,
   dw_op_call_frame_cfa, dw_op_fbreg, dw_op_dup, dw_op_over, dw_op_pick, dw_op_drop,
   dw_op_swap, dw_op_rot, dw_op_abs, dw_op_neg, dw_op_not, dw_op_plus_uconst,
   dw_op_stack_value, dw_op_and, dw_op_or, GNU_entry_value, dw_op_deref_size, dw_op_minus,
   dw_op_mod, dw_op_mul, dw_op_div, dw_op_plus

(* All operations but these leave no value behind. *)
Leaves == dw_op_deref_size \/ dw_op_minus \/ dw_op_mod \/ dw_op_mul \/ dw_op_div \/ dw_op_plus

LEMMA HandlerTidy ==
    ASSUME IInv, Handler, ~Leaves
    PROVE  Tidy \/ Kept
<1>1. phase = "exec"
  BY HandlerExec
<1>2. CASE UNCHANGED heap \/ \E f : Fault(f)
  BY <1>2 DEF heap, Fault, Kept
<1>3. CASE \/ dw_op_notimpl \/ dw_op_addr \/ dw_op_const_x_u \/ dw_op_const_x_s
           \/ dw_op_constu \/ dw_op_consts \/ dw_op_lit_x \/ dw_op_reg_x \/ dw_op_breg_x
           \/ dw_op_call_frame_cfa \/ dw_op_fbreg \/ dw_op_dup \/ dw_op_over
           \/ dw_op_pick \/ GNU_entry_value
  <2>1. (\E w, s, t : Push(w, s, t)) \/ UNCHANGED heap \/ \E f : Fault(f)
    BY <1>3, Zenon DEF dw_op_notimpl, dw_op_addr, dw_op_const_x_u, dw_op_const_x_s,
       dw_op_constu, dw_op_consts, dw_op_lit_x, dw_op_reg_x, dw_op_breg_x,
       dw_op_call_frame_cfa, dw_op_fbreg, dw_op_dup, dw_op_over, dw_op_pick,
       GNU_entry_value, PushCopy
  <2>. QED
    BY <1>1, <1>2, <2>1, PushTidy
<1>4. CASE dw_op_abs \/ dw_op_neg \/ dw_op_not \/ dw_op_plus_uconst \/ dw_op_stack_value
  <2>1. ASSUME NEW w, NEW t, InPlace(w, t, Succeed) \/ InPlace(w, t, Fail)
        PROVE  Tidy \/ Kept
    BY <2>1 DEF InPlace, heap, Kept
  <2>. QED
    BY <1>4, <2>1, ZenonT(60) DEF dw_op_abs, dw_op_neg, dw_op_not, dw_op_plus_uconst,
       dw_op_stack_value
<1>5. CASE dw_op_drop
  BY <1>5, DropTidy
<1>6. CASE dw_op_swap
  <2> DEFINE p == <<2, 1>>
  <2>1. Permute(2, p)
    BY <1>6 DEF dw_op_swap
  <2>2. p \in [1 .. 2 -> 1 .. 2] /\ p[2] = 1 /\ p[1] = 2
    OBVIOUS
  <2>3. \A i \in 1 .. 2 : \E j \in 1 .. 2 : p[j] = i
    BY <2>2
  <2> HIDE DEF p
  <2>. QED
    BY <1>1, <2>1, <2>2, <2>3, PermuteTidy
<1>7. CASE dw_op_rot
  <2> DEFINE p == <<2, 3, 1>>
  <2>1. Permute(3, p)
    BY <1>7 DEF dw_op_rot
  <2>2. p \in [1 .. 3 -> 1 .. 3] /\ p[3] = 1 /\ p[1] = 2 /\ p[2] = 3
    OBVIOUS
  <2>3. \A i \in 1 .. 3 : \E j \in 1 .. 3 : p[j] = i
    BY <2>2
  <2> HIDE DEF p
  <2>. QED
    BY <1>1, <2>1, <2>2, <2>3, PermuteTidy
<1>8. CASE dw_op_and \/ dw_op_or
  <2>1. (\E w, t : FreeingResult(w, t) /\ Depth > 0) \/ UNCHANGED heap
    BY <1>8, Zenon DEF dw_op_and, dw_op_or, Reject, Operands
  <2>. QED
    BY <1>1, <1>2, <2>1, FreeingResultTidy
<1>. QED
  BY <1>3, <1>4, <1>5, <1>6, <1>7, <1>8, Zenon DEF Handler, Leaves

(* The others but DW_OP_plus leave allocated values on the stack. *)
LEMMA LeavesLinked ==
    ASSUME IInv, dw_op_deref_size \/ dw_op_minus \/ dw_op_mod \/ dw_op_mul \/ dw_op_div
    PROVE  Linked' \subseteq live' \/ Kept
<1>1. phase = "exec"
  BY Zenon DEF Exec, dw_op_deref_size, dw_op_minus, dw_op_mod, dw_op_mul, dw_op_div
<1>2. CASE UNCHANGED heap \/ \E f : Fault(f)
  BY <1>2 DEF heap, Fault, Kept
<1>3. CASE dw_op_minus \/ dw_op_mod \/ dw_op_mul \/ dw_op_div
  <2>1. (\E w, t : Result(w, t) /\ Depth > 0) \/ UNCHANGED heap \/ \E f : Fault(f)
    BY <1>3, Zenon DEF dw_op_minus, dw_op_mod, dw_op_mul, dw_op_div, Reject, Operands
  <2>. QED
    BY <1>1, <1>2, <2>1, ResultLinked
<1>4. CASE dw_op_deref_size
  <2>1. \/ UNCHANGED heap \/ \E f : Fault(f)
        \/ Relink(Below(1), {})
        \/ \E w, s, t : Replace(w, s, t, {}, Below(1))
    BY <1>4, Zenon DEF dw_op_deref_size
  <2>2. Elems(Below(1)) \subseteq live
    BY <1>1, ExecGood, BelowGood DEF Good, Elems
  <2>3. CASE Relink(Below(1), {})
    <3>1. Linked' = Elems(Below(1)) /\ live' = live
      BY <2>3 DEF Relink, Linked, Depth, Elems
    <3>. QED
      BY <2>2, <3>1
  <2>4. CASE \E w, s, t : Replace(w, s, t, {}, Below(1))
    <3>1. Linked' = {New} \cup Elems(Below(1)) /\ live' = (live \cup {New}) \ {}
      BY <1>1, <2>4, ReplaceSets
    <3>. QED
      BY <2>2, <3>1
  <2>. QED
    BY <1>2, <2>1, <2>3, <2>4
<1>. QED
  BY <1>3, <1>4

(* Outside the handlers only clear touches the list, and it frees all of it.*)
LEMMA AroundTidy ==
    ASSUME IInv, Around
    PROVE  Kept \/ (Tidy /\ Linked \subseteq live)
<1>1. ASSUME NEW ph, Clear(ph) PROVE Kept \/ (Tidy /\ Linked \subseteq live)
  <2>1. CASE Linked \subseteq live
    <3>1. values' = <<>> /\ live' = live \ Linked
      BY <1>1, <2>1 DEF Clear, Relink
    <3>2. Linked' = {}
      BY <3>1 DEF Linked, Depth
    <3>. QED
      BY <2>1, <3>1, <3>2 DEF Tidy
  <2>2. CASE ~(Linked \subseteq live)
    BY <1>1, <2>2 DEF Clear, Fault, heap, Kept
  <2>. QED
    BY <2>1, <2>2
<1>2. CASE Calc \/ Fini
  BY <1>1, <1>2 DEF Calc, Fini
<1>3. CASE CalcReturn \/ GetValue
  BY <1>3, Zenon DEF CalcReturn, GetValue, vars, heap, Fault, Kept
<1>4. ASSUME NEW o \in Ops, FetchUnknown(o) \/ FetchPlain(o) \/ FetchStale(o) \/ FetchRegister(o)
      PROVE  Kept
  BY <1>4, Zenon DEF FetchUnknown, FetchPlain, FetchStale, FetchRegister, heap, Fault, Kept
<1>. QED
  BY <1>2, <1>3, <1>4 DEF Around

-----------------------------------------------------------------------------
(* Why handlers fail and evaluation stops *)

LEMMA AroundExec ==
    ASSUME Around
    PROVE  phase # "exec"
BY DEF Around, Calc, CalcReturn, Fini, GetValue, FetchUnknown, FetchPlain, FetchStale,
   FetchRegister, Fetch

LEMMA ArityIs ==
    /\ op.atom \in {"dup", "drop", "deref", "deref_size", "abs", "neg", "not",
                    "plus_uconst", "stack_value"} => Arity(op) = 1
    /\ op.atom \in {"over", "swap", "and", "or", "minus", "mod", "mul", "div", "plus"}
          => Arity(op) = 2
    /\ op.atom = "rot" => Arity(op) = 3
    /\ op.atom = "pick" => Arity(op) = op.arg1 + 1
BY DEF Arity

(* Two operands always have the generic type in common. *)
LEMMA OperandsThere ==
    ASSUME IInv, phase = "exec", Depth > 0
    PROVE  Operands
<1>1. "GENERIC" \in type[Get(0)] /\ "GENERIC" \in type[Get(1)]
  BY GetGood
<1>. QED
  BY <1>1 DEF Operands

LEMMA FailCause ==
    ASSUME IInv, Handler, ~Succeed, ~Stops
    PROVE  \/ Depth < Arity(op)
           \/ op.atom \in {"notimpl", "abs", "GNU_entry_value"}
           \/ op.atom \in {"div", "mod"} /\ W1 = 0
           \/ op.atom = "deref_size" /\ op.arg1 \notin Sizes
           \/ op.atom \in {"breg", "bregx"}
<1>1. phase = "exec" /\ Depth \in Nat
  BY HandlerExec, ExecLinked
<1>2. ~Fault("null_pointer") /\ ~Fault("assertion") /\ ~Fault("double_free")
      /\ ~Fault("bad_address") /\ ~Fault("division")
  BY DEF Stops
<1>3. ~(dw_op_addr \/ dw_op_const_x_u \/ dw_op_const_x_s \/ dw_op_constu \/ dw_op_consts
        \/ dw_op_lit_x \/ dw_op_reg_x \/ dw_op_call_frame_cfa \/ dw_op_fbreg
        \/ dw_op_dup \/ dw_op_over \/ dw_op_drop)
  BY <1>2, Zenon DEF dw_op_addr, dw_op_const_x_u, dw_op_const_x_s, dw_op_constu,
     dw_op_consts, dw_op_lit_x, dw_op_reg_x, dw_op_call_frame_cfa, dw_op_fbreg,
     dw_op_dup, dw_op_over, dw_op_drop, PushCopy
<1>4. CASE dw_op_notimpl \/ dw_op_abs \/ GNU_entry_value \/ dw_op_breg_x
  BY <1>4 DEF Exec, dw_op_notimpl, dw_op_abs, GNU_entry_value, dw_op_breg_x
<1>5. CASE dw_op_deref_size
  <2>1. op.atom \in {"deref", "deref_size"} /\ 8 \in Sizes
    BY <1>5 DEF dw_op_deref_size, Exec, Sizes
  <2>2. Depth = 0 \/ (IF op.atom = "deref" THEN 8 ELSE op.arg1) \notin Sizes
    BY <1>2, <1>5, Zenon DEF dw_op_deref_size
  <2>. QED
    BY <2>1, <2>2, ArityIs
<1>6. CASE dw_op_pick
  <2>1. op.atom = "pick" /\ Depth = 0
    BY <1>6 DEF dw_op_pick, Exec, PushCopy
  <2>2. op.arg1 \in Nat
    BY <1>1, OperandType, WordFacts
  <2>. QED
    BY <2>1, <2>2, ArityIs
<1>7. CASE dw_op_swap
  BY <1>1, <1>7, ArityIs DEF dw_op_swap, Exec, Permute
<1>8. CASE dw_op_rot
  BY <1>1, <1>8, ArityIs DEF dw_op_rot, Exec, Permute
<1>9. CASE dw_op_neg \/ dw_op_not \/ dw_op_plus_uconst \/ dw_op_stack_value
  <2>1. op.atom \in {"neg", "not", "plus_uconst", "stack_value"}
    BY <1>9 DEF Exec, dw_op_neg, dw_op_not, dw_op_plus_uconst, dw_op_stack_value
  <2>2. Depth = 0
    BY <1>9, Zenon DEF dw_op_neg, dw_op_not, dw_op_plus_uconst, dw_op_stack_value, InPlace
  <2>. QED
    BY <2>1, <2>2, ArityIs
<1>10. CASE dw_op_and \/ dw_op_or \/ dw_op_minus \/ dw_op_mod \/ dw_op_mul \/ dw_op_div
            \/ dw_op_plus
  <2>1. op.atom \in {"and", "or", "minus", "mod", "mul", "div", "plus"}
    BY <1>10 DEF Exec, dw_op_and, dw_op_or, dw_op_minus, dw_op_mod, dw_op_mul, dw_op_div,
       dw_op_plus
  <2>2. CASE Depth = 0
    BY <2>1, <2>2, ArityIs
  <2>3. CASE Depth # 0
    <3>1. Operands
      BY <1>1, <2>3, OperandsThere
    <3>2. \A w, t : ~Result(w, t) /\ ~FreeingResult(w, t)
      BY <1>2, Zenon DEF Result, FreeingResult
    <3>3. ~(dw_op_and \/ dw_op_or \/ dw_op_minus \/ dw_op_mul \/ dw_op_plus)
      BY <1>2, <3>1, <3>2, Zenon DEF dw_op_and, dw_op_or, dw_op_minus, dw_op_mul, dw_op_plus
    <3>4. (dw_op_mod \/ dw_op_div) /\ W1 = 0
      BY <1>2, <1>10, <3>1, <3>2, <3>3, Zenon DEF dw_op_mod, dw_op_div
    <3>5. op.atom \in {"div", "mod"}
      BY <3>4 DEF dw_op_mod, dw_op_div, Exec
    <3>. QED
      BY <3>4, <3>5
  <2>. QED
    BY <2>2, <2>3
<1>. QED
  BY <1>3, <1>4, <1>5, <1>6, <1>7, <1>8, <1>9, <1>10, Zenon DEF Handler

LEMMA FaultCause ==
    ASSUME IInv, Handler, NEW f, Fault(f)
    PROVE  \/ Depth < Arity(op)
           \/ op.atom \in {"deref", "deref_size"} /\ fault' = "bad_address"
           \/ op.atom = "div" /\ fault' = "division"
<1>1. phase = "exec" /\ Depth \in Nat
  BY HandlerExec, ExecLinked
<1>2. phase' = "exec" /\ fault' = f /\ UNCHANGED heap
  BY <1>1 DEF Fault
<1>3. ~Succeed /\ ~Fail
  BY <1>2 DEF Succeed, Fail, Return
<1>4. CASE dw_op_deref_size
  BY <1>3, <1>4 DEF dw_op_deref_size, Exec, Fault
<1>5. CASE dw_op_dup \/ dw_op_over \/ dw_op_drop
  <2>1. op.atom \in {"dup", "over", "drop"} /\ Depth = 0
    BY <1>3, <1>5 DEF dw_op_dup, dw_op_over, dw_op_drop, Exec, PushCopy
  <2>. QED
    BY <2>1, ArityIs
<1>6. CASE dw_op_and \/ dw_op_or \/ dw_op_plus
  <2>1. op.atom \in {"and", "or", "plus"}
    BY <1>6 DEF dw_op_and, dw_op_or, dw_op_plus, Exec
  <2>2. Depth = 1
    BY <1>3, <1>6, Zenon DEF dw_op_and, dw_op_or, dw_op_plus, Reject, FreeingResult
  <2>. QED
    BY <2>1, <2>2, ArityIs
<1>7. CASE dw_op_div
  BY <1>3, <1>7 DEF dw_op_div, Exec, Reject, Result, Fault
<1>8. dw_op_deref_size \/ dw_op_dup \/ dw_op_over \/ dw_op_drop \/ dw_op_and \/ dw_op_or
      \/ dw_op_plus \/ dw_op_div
  <2>1. ~(dw_op_notimpl \/ dw_op_addr \/ dw_op_const_x_u \/ dw_op_const_x_s
          \/ dw_op_constu \/ dw_op_consts \/ dw_op_lit_x \/ dw_op_reg_x \/ dw_op_breg_x
          \/ dw_op_call_frame_cfa \/ dw_op_fbreg \/ GNU_entry_value \/ dw_op_pick
          \/ dw_op_swap \/ dw_op_rot)
    BY <1>3, Zenon DEF dw_op_notimpl, dw_op_addr, dw_op_const_x_u, dw_op_const_x_s,
       dw_op_constu, dw_op_consts, dw_op_lit_x, dw_op_reg_x, dw_op_breg_x,
       dw_op_call_frame_cfa, dw_op_fbreg, GNU_entry_value, dw_op_pick, PushCopy,
       dw_op_swap, dw_op_rot, Permute
  <2>2. ~(dw_op_abs \/ dw_op_neg \/ dw_op_not \/ dw_op_plus_uconst \/ dw_op_stack_value)
    BY <1>3, Zenon DEF dw_op_abs, dw_op_neg, dw_op_not, dw_op_plus_uconst,
       dw_op_stack_value, InPlace
  <2>3. ~(dw_op_minus \/ dw_op_mod \/ dw_op_mul)
    BY <1>3, Zenon DEF dw_op_minus, dw_op_mod, dw_op_mul, Reject, Result
  <2>. QED
    BY <2>1, <2>2, <2>3, Zenon DEF Handler
<1>. QED
  BY <1>4, <1>5, <1>6, <1>7, <1>8

(* Only the top of the stack can be a freed object. *)
LEMMA ClearFault ==
    ASSUME IInv, ~(Linked \subseteq live)
    PROVE  Get(0) \notin live
<1>1. values \in Seq(Ids) /\ Depth \in Nat /\ \A i \in 2 .. Depth : values[i] \in live
  BY DEF IInv, ShapeOK, Owned, Depth
<1>2. PICK i \in 1 .. Depth : values[i] \notin live
  BY DEF Linked
<1>3. i = 1
  BY <1>1, <1>2
<1>. QED
  BY <1>1, <1>2, <1>3 DEF Get

-----------------------------------------------------------------------------
(* The words on the stack *)

Over(s, w, n) == <<w>> \o SubSeq(s, n + 1, Len(s))
OverFcn(s, w, n) == [i \in 1 .. Len(s) - n + 1 |-> IF i = 1 THEN w ELSE s[i - 1 + n]]

LEMMA OverIs ==
    ASSUME NEW s, s \in Seq(Words), NEW w, NEW n \in Nat, n <= Len(s)
    PROVE  Over(s, w, n) = OverFcn(s, w, n)
<1>1. PICK b : b = SubSeq(s, n + 1, Len(s))
  OBVIOUS
<1>2. /\ b \in Seq(Words) /\ Len(b) = Len(s) - n
      /\ \A i \in 1 .. Len(s) - n : b[i] = s[i + n]
  <2>1. CASE n = Len(s)
    BY <1>1, <2>1
  <2>2. CASE n # Len(s)
    BY <1>1, <2>2
  <2>. QED
    BY <2>1, <2>2
<1>3. PICK v : v = <<w>> \o b
  OBVIOUS
<1>4. Len(v) = Len(s) - n + 1 /\ v[1] = w /\ v = [i \in 1 .. Len(v) |-> v[i]]
  BY <1>2, <1>3
<1>5. \A i \in 2 .. Len(s) - n + 1 : v[i] = s[i - 1 + n]
  <2> SUFFICES ASSUME NEW i \in 2 .. Len(s) - n + 1 PROVE v[i] = s[i - 1 + n]
    OBVIOUS
  <2>1. i - 1 \in 1 .. Len(s) - n /\ v[i] = b[i - 1]
    BY <1>2, <1>3
  <2>. QED
    BY <1>2, <2>1
<1>6. Over(s, w, n) = v
  BY <1>1, <1>3 DEF Over
<1>7. Len(s) \in Nat
  OBVIOUS
<1>8. v = [i \in 1 .. Len(s) - n + 1 |-> IF i = 1 THEN w ELSE s[i - 1 + n]]
  <2>1. \A i \in 1 .. Len(s) - n + 1 : v[i] = IF i = 1 THEN w ELSE s[i - 1 + n]
    BY <1>4, <1>5, <1>7
  <2>2. v = [i \in 1 .. Len(s) - n + 1 |-> v[i]]
    BY <1>4, Zenon
  <2>. QED
    BY <2>1, <2>2
<1>. QED
  BY <1>6, <1>8 DEF OverFcn

LEMMA StackType ==
    ASSUME IInv, WordOK
    PROVE  /\ Stack \in Seq(Words) /\ Len(Stack) = Depth /\ Depth \in Nat
           /\ \A i \in 1 .. Depth : Stack[i] = word[values[i]]
           /\ \A idx \in Nat : idx < Depth => Stack[idx + 1] = word[Get(idx)]
<1>1. values \in Seq(Ids) /\ Depth \in Nat
  BY DEF IInv, ShapeOK, Depth
<1>2. \A i \in 1 .. Depth : values[i] \in Ids /\ word[values[i]] \in Words
  BY <1>1 DEF Depth, WordOK
<1>3. Stack \in Seq(Words) /\ Len(Stack) = Depth
  BY <1>1, <1>2 DEF Stack
<1>4. \A i \in 1 .. Depth : Stack[i] = word[values[i]]
  BY DEF Stack
<1>5. ASSUME NEW idx \in Nat, idx < Depth PROVE Stack[idx + 1] = word[Get(idx)]
  <2>1. idx + 1 \in 1 .. Depth
    BY <1>1, <1>5
  <2>. QED
    BY <1>4, <1>5, <2>1 DEF Get
<1>. QED
  BY <1>1, <1>3, <1>4, <1>5

(* A new value over what is below n others. *)
LEMMA ReplaceStack ==
    ASSUME IInv, WordOK, phase = "exec", NEW w \in Int, NEW s \in Sizes, NEW t, NEW freed,
           NEW n \in Nat, n <= Depth,
           \A i \in 1 .. Len(Below(n)) : Below(n)[i] \notin freed,
           freed \subseteq live,
           Replace(w, s, t, freed, Below(n))
    PROVE  Stack' = Over(Stack, w % Modulus(s), n)
<1>1. PICK b, m : b = Below(n) /\ m = w % Modulus(s)
  OBVIOUS
<1>2. /\ values \in Seq(Ids) /\ Depth \in Nat /\ New \in Ids /\ New \notin live
  BY ExecGood DEF IInv, ShapeOK, Depth
<1>3. /\ b \in Seq(Ids) /\ Len(b) = Depth - n
      /\ \A i \in 1 .. Depth - n : b[i] = values[i + n] /\ i + n \in 1 .. Depth
  BY <1>1, <1>2, BelowIs
<1>4. \A i \in 1 .. Len(b) : b[i] \in live /\ b[i] \in Ids /\ b[i] \notin freed
  <2>1. Good(b)
    BY <1>1, ExecGood, BelowGood
  <2>. QED
    BY <1>1, <2>1 DEF Good
<1>5. PICK v : v = <<New>> \o b
  OBVIOUS
<1>6. /\ v \in Seq(Ids) /\ Len(v) = Depth - n + 1 /\ v[1] = New
      /\ \A i \in 2 .. Depth - n + 1 : v[i] = b[i - 1] /\ i - 1 \in 1 .. Depth - n
  BY <1>2, <1>3, <1>5
<1> DEFINE kept == {v[k] : k \in 1 .. Len(v)} \ freed
<1>7. /\ values' = v
      /\ word' = [i \in Ids |-> IF i \notin kept THEN 0 ELSE IF i = New THEN m ELSE word[i]]
  BY <1>1, <1>5 DEF Replace, RelinkNew
<1>8. \A i \in 1 .. Depth - n + 1 : v[i] \in kept /\ v[i] \in Ids
  <2> SUFFICES ASSUME NEW i \in 1 .. Depth - n + 1 PROVE v[i] \in kept /\ v[i] \in Ids
    OBVIOUS
  <2>1. v[i] \notin freed
    <3>1. CASE i = 1
      BY <1>2, <1>6, <3>1
    <3>2. CASE i # 1
      BY <1>3, <1>4, <1>6, <3>2
    <3>. QED
      BY <3>1, <3>2
  <2>. QED
    BY <1>6, <2>1
<1> HIDE DEF kept
<1>9. word'[v[1]] = m
  <2>1. 1 \in 1 .. Depth - n + 1
    BY <1>2
  <2>. QED
    BY <1>2, <1>6, <1>7, <1>8, <2>1
<1>10. \A i \in 2 .. Depth - n + 1 : word'[v[i]] = Stack[i - 1 + n]
  <2> SUFFICES ASSUME NEW i \in 2 .. Depth - n + 1 PROVE word'[v[i]] = Stack[i - 1 + n]
    OBVIOUS
  <2>1. v[i] = b[i - 1] /\ i - 1 \in 1 .. Depth - n /\ i \in 1 .. Depth - n + 1
    BY <1>6
  <2>2. b[i - 1] = values[i - 1 + n] /\ i - 1 + n \in 1 .. Depth /\ b[i - 1] \in live
    BY <1>3, <1>4, <2>1
  <2>3. v[i] # New
    BY <1>2, <2>1, <2>2
  <2>4. word'[v[i]] = word[v[i]]
    BY <1>7, <1>8, <2>1, <2>3
  <2>. QED
    BY <2>1, <2>2, <2>4, StackType
<1>11. Stack' = [i \in 1 .. Depth - n + 1 |-> word'[v[i]]]
  BY <1>6, <1>7 DEF Stack, Depth
<1>12. Stack' = [i \in 1 .. Depth - n + 1 |-> IF i = 1 THEN m ELSE Stack[i - 1 + n]]
  <2>1. \A i \in 1 .. Depth - n + 1 : word'[v[i]] = IF i = 1 THEN m ELSE Stack[i - 1 + n]
    BY <1>2, <1>9, <1>10
  <2>. QED
    BY <1>11, <2>1
<1>13. PICK st : st = Stack
  OBVIOUS
<1>14. st \in Seq(Words) /\ Len(st) = Depth
  BY <1>13, StackType
<1>15. Over(st, m, n) = [i \in 1 .. Depth - n + 1 |-> IF i = 1 THEN m ELSE st[i - 1 + n]]
  <2>1. Over(st, m, n) = OverFcn(st, m, n)
    BY <1>14, OverIs
  <2>. QED
    BY <1>14, <2>1 DEF OverFcn
<1>. QED
  BY <1>1, <1>12, <1>13, <1>15

LEMMA PushStack ==
    ASSUME IInv, WordOK, phase = "exec", NEW w \in Int, NEW s \in Sizes, NEW t, Push(w, s, t)
    PROVE  Stack' = Over(Stack, w % Modulus(s), 0)
<1>1. Below(0) = values /\ Depth \in Nat
  BY DEF Below, Depth, IInv, ShapeOK
<1>2. Replace(w, s, t, {}, Below(0))
  BY <1>1 DEF Push
<1>. QED
  BY <1>1, <1>2, ReplaceStack

LEMMA ResultStack ==
    ASSUME IInv, WordOK, phase = "exec", Depth > 1, NEW w \in Words, NEW t,
           Result(w, t) \/ (FreeingResult(w, t) /\ Succeed)
    PROVE  Stack' = Over(Stack, w, 2)
<1>1. w \in Int /\ 8 \in Sizes /\ w % Modulus(8) = w
  BY WordFacts, WordMod DEF Sizes
<1>2. 2 <= Depth /\ Good(values)
  BY ExecLinked, ExecGood
<1>3. CASE Result(w, t)
  <2>1. Replace(w, 8, t, {}, Below(2))
    BY <1>3 DEF Result
  <2>. QED
    BY <1>1, <1>2, <2>1, ReplaceStack
<1>4. CASE FreeingResult(w, t)
  <2>1. Replace(w, 8, t, {Get(0), Get(1)}, Below(2))
    BY <1>4, ExecLinked DEF FreeingResult
  <2>2. /\ {Get(0), Get(1)} \subseteq live
        /\ \A i \in 1 .. Len(Below(2)) : Below(2)[i] \notin {Get(0), Get(1)}
    BY <1>2, OperandsPopped DEF Good, Depth
  <2>3. PICK freed : freed = {Get(0), Get(1)}
    OBVIOUS
  <2>. QED
    BY <1>1, <1>2, <2>1, <2>2, <2>3, ReplaceStack
<1>. QED
  BY <1>3, <1>4

LEMMA InPlaceStack ==
    ASSUME IInv, WordOK, phase = "exec", Depth > 0, NEW w, NEW t, NEW r, InPlace(w, t, r)
    PROVE  Stack' = Over(Stack, w, 1)
<1>1. values \in Seq(Ids) /\ Depth \in Nat /\ \A i, j \in 1 .. Depth : values[i] = values[j] => i = j
  BY DEF IInv, ShapeOK, Owned, Depth
<1>2. Get(0) = values[1]
  BY <1>1 DEF Get
<1>3. values' = values /\ word' = [word EXCEPT ![values[1]] = w]
  BY <1>2 DEF InPlace
<1>4. \A i \in 1 .. Depth : values[i] \in Ids
  BY <1>1 DEF Depth
<1>5. \A i \in 1 .. Depth : word'[values[i]] = IF i = 1 THEN w ELSE Stack[i - 1 + 1]
  <2> SUFFICES ASSUME NEW i \in 1 .. Depth
               PROVE  word'[values[i]] = IF i = 1 THEN w ELSE Stack[i - 1 + 1]
    OBVIOUS
  <2>1. 1 \in 1 .. Depth /\ i - 1 + 1 = i
    BY <1>1
  <2>2. Stack[i] = word[values[i]]
    BY StackType
  <2>3. CASE i = 1
    BY <1>3, <1>4, <2>1, <2>3 DEF WordOK
  <2>4. CASE i # 1
    <3>1. values[i] # values[1]
      BY <1>1, <2>1, <2>4
    <3>. QED
      BY <1>3, <1>4, <2>1, <2>2, <2>4, <3>1 DEF WordOK
  <2>. QED
    BY <2>3, <2>4
<1>6. Stack' = [i \in 1 .. Depth |-> word'[values[i]]]
  BY <1>3 DEF Stack, Depth
<1>7. PICK st : st = Stack
  OBVIOUS
<1>8. st \in Seq(Words) /\ Len(st) = Depth
  BY <1>7, StackType
<1>9. 1 <= Len(st) /\ Depth - 1 + 1 = Depth
  BY <1>1, <1>8
<1>10. Over(st, w, 1) = [i \in 1 .. Depth - 1 + 1 |-> IF i = 1 THEN w ELSE st[i - 1 + 1]]
  <2>1. PICK n \in Nat : n = 1 /\ n <= Len(st)
    BY <1>9
  <2>2. Over(st, w, n) = OverFcn(st, w, n)
    BY <1>8, <2>1, OverIs, Zenon
  <2>. QED
    BY <1>8, <2>1, <2>2 DEF OverFcn
<1>11. Stack' = [i \in 1 .. Depth |-> IF i = 1 THEN w ELSE Stack[i - 1 + 1]]
  BY <1>5, <1>6
<1>. QED
  BY <1>7, <1>9, <1>10, <1>11

LEMMA MeaningIs ==
    ASSUME NEW s
    PROVE  /\ op.atom \in {"addr", "const_u", "const_s", "constu", "consts", "regx"}
                => Meaning(op, s) = Over(s, op.arg1, 0)
           /\ op.atom \in {"lit", "reg"} => Meaning(op, s) = Over(s, op.n, 0)
           /\ op.atom = "breg" => Meaning(op, s) = Over(s, AsWord(Regs[op.n] + op.arg1), 0)
           /\ op.atom = "bregx"
                => Meaning(op, s) = Over(s, AsWord(Regs[op.arg1] + op.arg2), 0)
           /\ op.atom = "call_frame_cfa" => Meaning(op, s) = Over(s, CFA, 0)
           /\ op.atom = "fbreg" => Meaning(op, s) = Over(s, AsWord(CFA + op.arg1), 0)
           /\ op.atom = "dup" => Meaning(op, s) = Over(s, s[1], 0)
           /\ op.atom = "over" => Meaning(op, s) = Over(s, s[2], 0)
           /\ op.atom = "pick" => Meaning(op, s) = Over(s, s[op.arg1 + 1], 0)
BY DEF Meaning, Over

LEMMA MeaningUnary ==
    ASSUME NEW s
    PROVE  /\ op.atom = "deref" => Meaning(op, s) = Over(s, Mem[s[1]], 1)
           /\ op.atom = "deref_size"
                => Meaning(op, s) = Over(s, Mem[s[1]] % Modulus(op.arg1), 1)
           /\ op.atom = "drop" => Meaning(op, s) = Tail(s)
           /\ op.atom = "swap"
                => Meaning(op, s) = <<s[2], s[1]>> \o SubSeq(s, 3, Len(s))
           /\ op.atom = "rot"
                => Meaning(op, s) = <<s[2], s[3], s[1]>> \o SubSeq(s, 4, Len(s))
           /\ op.atom = "neg" => Meaning(op, s) = Over(s, AsWord(-s[1]), 1)
           /\ op.atom = "not" => Meaning(op, s) = Over(s, BitNot(s[1]), 1)
           /\ op.atom = "plus_uconst" => Meaning(op, s) = Over(s, AsWord(s[1] + op.arg1), 1)
           /\ op.atom = "stack_value" => Meaning(op, s) = s
BY DEF Meaning, Over

LEMMA MeaningBinary ==
    ASSUME NEW s
    PROVE  /\ op.atom = "and" => Meaning(op, s) = Over(s, BitAnd(s[1], s[2]), 2)
           /\ op.atom = "or" => Meaning(op, s) = Over(s, BitOr(s[1], s[2]), 2)
           /\ op.atom = "minus" => Meaning(op, s) = Over(s, AsWord(s[2] - s[1]), 2)
           /\ op.atom = "mod" => Meaning(op, s) = Over(s, s[2] % s[1], 2)
           /\ op.atom = "mul" => Meaning(op, s) = Over(s, Times(s[2], s[1]), 2)
           /\ op.atom = "div" => Meaning(op, s) = Over(s, SignedDiv(s[2], s[1]), 2)
BY DEF Meaning, Over

LEMMA ExactIs ==
    /\ op.atom = "const_s" /\ Exact(op) => op.arg1 < Modulus(op.n)
    /\ op.atom \in {"constu", "regx", "plus_uconst"} /\ Exact(op) => op.arg1 < 2 ^ Payload
    /\ op.atom \in {"consts", "breg", "fbreg"} /\ Exact(op) => op.arg1 < 2 ^ (Payload - 1)
    /\ op.atom = "bregx" /\ Exact(op)
          => op.arg1 < 2 ^ Payload /\ op.arg2 < 2 ^ (Payload - 1)
    /\ op.atom = "neg" /\ Exact(op) => type[Get(0)] \cap {"CHAR", "SHORT", "INT"} = {}
    /\ op.atom = "div" /\ Exact(op) => \/ Signed(0) /\ Signed(1)
                                       \/ AsSigned(W1) >= 0 /\ AsSigned(W2) >= 0
    /\ op.atom \in {"plus", "abs", "GNU_entry_value"} => ~Exact(op)
BY DEF Exact, SmallU, SmallS

LEMMA PushMeaning ==
    ASSUME IInv, WordOK, Exact(op), Succeed,
           \/ dw_op_addr \/ dw_op_const_x_u \/ dw_op_const_x_s \/ dw_op_constu
           \/ dw_op_consts \/ dw_op_lit_x \/ dw_op_reg_x \/ dw_op_breg_x
           \/ dw_op_call_frame_cfa \/ dw_op_fbreg \/ GNU_entry_value
    PROVE  Stack' = Meaning(op, Stack)
<1>1. phase = "exec"
  BY DEF Exec, dw_op_addr, dw_op_const_x_u, dw_op_const_x_s, dw_op_constu,
     dw_op_consts, dw_op_lit_x, dw_op_reg_x, dw_op_breg_x, dw_op_call_frame_cfa,
     dw_op_fbreg, GNU_entry_value
<1>2. /\ op.arg1 \in Words /\ op.arg2 \in Words /\ op.n \in Words
      /\ op.atom \in {"const_u", "const_s"} => op.n \in Sizes
      /\ op.atom = "const_u" => op.arg1 < Modulus(op.n)
  BY <1>1, OperandType
<1>3. ASSUME NEW w \in Words, NEW t, Push(w, 8, t)
      PROVE  Stack' = Over(Stack, w, 0)
  <2>1. w \in Int /\ 8 \in Sizes /\ w % Modulus(8) = w
    BY WordFacts, WordMod DEF Sizes
  <2>. QED
    BY <1>1, <1>3, <2>1, PushStack
<1>4. CASE dw_op_addr
  BY <1>2, <1>3, <1>4, MeaningIs DEF dw_op_addr, Exec
<1>5. CASE dw_op_const_x_u \/ dw_op_const_x_s
  <2>1. /\ op.atom \in {"const_u", "const_s"}
        /\ \E t : Push(op.arg1, op.n, t)
    BY <1>5 DEF dw_op_const_x_u, dw_op_const_x_s, Exec
  <2>2. op.n \in Sizes /\ op.arg1 < Modulus(op.n)
    BY <1>2, <2>1, ExactIs
  <2>3. op.arg1 \in Int /\ op.arg1 % Modulus(op.n) = op.arg1
    <3>1. Modulus(op.n) \in Nat \ {0} /\ op.arg1 \in Nat
      BY <1>2, <2>2, ModulusFacts, WordFacts
    <3>. QED
      BY <2>2, <3>1
  <2>4. Stack' = Over(Stack, op.arg1 % Modulus(op.n), 0)
    BY <1>1, <2>1, <2>2, <2>3, PushStack
  <2>. QED
    BY <2>1, <2>3, <2>4, MeaningIs
<1>6. CASE dw_op_constu
  <2>1. op.atom = "constu" /\ \E w \in decode_uleb128(op.arg1) : \E t : Push(w, 8, t)
    BY <1>6 DEF dw_op_constu, Exec
  <2>2. decode_uleb128(op.arg1) = {op.arg1}
    BY <1>2, <2>1, ExactIs, DecodeSmallU
  <2>3. Stack' = Over(Stack, op.arg1, 0)
    BY <1>2, <1>3, <2>1, <2>2
  <2>. QED
    BY <2>1, <2>3, MeaningIs
<1>7. CASE dw_op_consts
  <2>1. op.atom = "consts" /\ \E w \in decode_sleb128(op.arg1) : \E t : Push(w, 8, t)
    BY <1>7 DEF dw_op_consts, Exec
  <2>2. decode_sleb128(op.arg1) = {op.arg1}
    BY <1>2, <2>1, ExactIs, DecodeSmallS
  <2>3. Stack' = Over(Stack, op.arg1, 0)
    BY <1>2, <1>3, <2>1, <2>2
  <2>. QED
    BY <2>1, <2>3, MeaningIs
<1>8. CASE dw_op_lit_x
  BY <1>2, <1>3, <1>8, MeaningIs DEF dw_op_lit_x, Exec
<1>9. CASE dw_op_reg_x
  <2>1. \/ op.atom = "reg" /\ \E t : Push(op.n, 8, t)
        \/ op.atom = "regx" /\ \E w \in decode_uleb128(op.arg1) : \E t : Push(w, 8, t)
    BY <1>9 DEF dw_op_reg_x, Exec
  <2>2. op.atom = "regx" => decode_uleb128(op.arg1) = {op.arg1}
    BY <1>2, ExactIs, DecodeSmallU
  <2>3. \/ op.atom = "reg" /\ Stack' = Over(Stack, op.n, 0)
        \/ op.atom = "regx" /\ Stack' = Over(Stack, op.arg1, 0)
    BY <1>2, <1>3, <2>1, <2>2
  <2>. QED
    BY <2>3, MeaningIs
<1>10. CASE dw_op_breg_x
  <2>1. PICK regno \in IF op.atom = "bregx" THEN decode_uleb128(op.arg1) ELSE {op.n},
             off \in decode_sleb128(IF op.atom = "bregx" THEN op.arg2 ELSE op.arg1) :
             /\ op.atom \in {"breg", "bregx"} /\ regno \in DOMAIN Regs
             /\ Push(AsWord(Regs[regno] + off), 8, {"GENERIC"})
    <3>1. ~Fail
      BY DEF Succeed, Fail, Return
    <3>. QED
      BY <1>10, <3>1 DEF dw_op_breg_x, Exec
  <2>2. off \in Words
    BY <1>2, DecodeType
  <2>3. AsWord(Regs[regno] + off) \in Words
    <3>1. Regs[regno] \in Int /\ off \in Int
      BY <2>1, <2>2, MemAssumption, WordFacts
    <3>2. Regs[regno] + off \in Int
      BY <3>1
    <3>. QED
      BY <3>2, WordFacts
  <2>4. Stack' = Over(Stack, AsWord(Regs[regno] + off), 0)
    BY <1>3, <2>1, <2>3
  <2>5. CASE op.atom = "breg"
    <3>1. decode_sleb128(op.arg1) = {op.arg1}
      BY <1>2, <2>5, ExactIs, DecodeSmallS
    <3>2. regno = op.n /\ off = op.arg1
      BY <2>5, <3>1
    <3>. QED
      BY <2>4, <2>5, <3>2, MeaningIs
  <2>6. CASE op.atom = "bregx"
    <3>1. decode_uleb128(op.arg1) = {op.arg1} /\ decode_sleb128(op.arg2) = {op.arg2}
      BY <1>2, <2>6, ExactIs, DecodeSmallS, DecodeSmallU
    <3>2. regno = op.arg1 /\ off = op.arg2
      BY <2>6, <3>1
    <3>. QED
      BY <2>4, <2>6, <3>2, MeaningIs
  <2>. QED
    BY <2>1, <2>5, <2>6
<1>11. CASE dw_op_call_frame_cfa
  BY <1>3, <1>11, MemAssumption, MeaningIs DEF dw_op_call_frame_cfa, Exec
<1>12. CASE dw_op_fbreg
  <2>1. PICK off \in decode_sleb128(op.arg1) :
             op.atom = "fbreg" /\ \E t : Push(AsWord(CFA + off), 8, t)
    BY <1>12 DEF dw_op_fbreg, Exec
  <2>2. decode_sleb128(op.arg1) = {op.arg1}
    BY <1>2, <2>1, ExactIs, DecodeSmallS
  <2>3. off = op.arg1 /\ CFA \in Int /\ off \in Int
    BY <1>2, <2>2, MemAssumption, WordFacts
  <2>4. AsWord(CFA + off) \in Words
    <3>1. CFA + off \in Int
      BY <2>3
    <3>. QED
      BY <3>1, WordFacts
  <2>5. Stack' = Over(Stack, AsWord(CFA + off), 0)
    BY <1>3, <2>1, <2>4
  <2>. QED
    BY <2>1, <2>3, <2>5, MeaningIs
<1>13. CASE GNU_entry_value
  BY <1>13, ExactIs DEF GNU_entry_value, Exec
<1>. QED
  BY <1>4, <1>5, <1>6, <1>7, <1>8, <1>9, <1>10, <1>11, <1>12, <1>13

LEMMA CopyMeaning ==
    ASSUME IInv, WordOK, Succeed, Depth >= Arity(op), dw_op_dup \/ dw_op_over \/ dw_op_pick
    PROVE  Stack' = Meaning(op, Stack)
<1>1. phase = "exec" /\ Depth \in Nat /\ 8 \in Sizes
  BY ExecLinked DEF Exec, dw_op_dup, dw_op_over, dw_op_pick, Sizes
<1>2. op.arg1 \in Nat
  BY <1>1, OperandType, WordFacts
<1>3. PICK idx \in Nat : /\ idx < Depth /\ PushCopy(idx)
                         /\ \/ op.atom = "dup" /\ idx = 0
                            \/ op.atom = "over" /\ idx = 1
                            \/ op.atom = "pick" /\ idx = op.arg1
  <2>1. CASE dw_op_dup
    <3>1. op.atom = "dup"
      BY <2>1 DEF dw_op_dup, Exec
    <3>2. 0 < Depth
      BY <1>1, <3>1, ArityIs
    <3>. QED
      BY <2>1, <3>1, <3>2 DEF dw_op_dup
  <2>2. CASE dw_op_over
    <3>1. op.atom = "over"
      BY <2>2 DEF dw_op_over, Exec
    <3>2. 1 < Depth
      BY <1>1, <3>1, ArityIs
    <3>. QED
      BY <2>2, <3>1, <3>2 DEF dw_op_over
  <2>3. CASE dw_op_pick
    <3>1. op.atom = "pick"
      BY <2>3 DEF dw_op_pick, Exec
    <3>2. op.arg1 < Depth
      BY <1>1, <1>2, <3>1, ArityIs
    <3>. QED
      BY <1>2, <2>3, <3>1, <3>2 DEF dw_op_pick
  <2>. QED
    BY <2>1, <2>2, <2>3
<1>4. word[Get(idx)] = Stack[idx + 1] /\ word[Get(idx)] \in Words
  BY <1>1, <1>3, StackType, GetWord
<1>5. PICK w \in Words : w = word[Get(idx)] /\ w = Stack[idx + 1]
  BY <1>4
<1>6. w \in Int /\ w % Modulus(8) = w
  BY WordFacts, WordMod
<1>7. Stack' = Over(Stack, w, 0)
  BY <1>1, <1>3, <1>5, <1>6, PushStack DEF PushCopy
<1>8. CASE op.atom = "dup"
  <2>1. w = Stack[1]
    BY <1>3, <1>5, <1>8
  <2>. QED
    BY <1>7, <1>8, <2>1, MeaningIs
<1>9. CASE op.atom = "over"
  <2>1. w = Stack[2]
    BY <1>3, <1>5, <1>9
  <2>. QED
    BY <1>7, <1>9, <2>1, MeaningIs
<1>10. CASE op.atom = "pick"
  BY <1>3, <1>5, <1>7, <1>10, MeaningIs
<1>. QED
  BY <1>3, <1>8, <1>9, <1>10

(* The stack after swap and rot, and what they mean. *)
Permuted(s, n, perm) == [i \in 1 .. Len(s) |-> s[IF i <= n THEN perm[i] ELSE i]]

LEMMA PermuteStack ==
    ASSUME IInv, WordOK, phase = "exec", NEW n \in Nat, NEW perm \in [1 .. n -> 1 .. n],
           Depth >= n, Permute(n, perm)
    PROVE  Stack' = Permuted(Stack, n, perm)
<1>1. Depth \in Nat /\ values \in Seq(Ids) /\ Len(values) = Depth
  BY DEF IInv, ShapeOK, Depth
<1> DEFINE top == [i \in 1 .. n |-> values[perm[i]]]
           vs == top \o Below(n)
           at(i) == IF i <= n THEN perm[i] ELSE i
<1>2. Relink(vs, {})
  BY DEF Permute
<1>3. top \in Seq(Ids) /\ Len(top) = n
  <2>1. \A i \in 1 .. n : perm[i] \in 1 .. Len(values)
    BY <1>1
  <2>2. top \in [1 .. n -> Ids]
    BY <1>1, <2>1
  <2>. QED
    BY <2>2
<1>4. /\ Below(n) \in Seq(Ids) /\ Len(Below(n)) = Depth - n
      /\ \A i \in 1 .. Depth - n : Below(n)[i] = values[i + n]
  BY <1>1, BelowIs
<1>5. \A i \in 1 .. n : top[i] = values[perm[i]]
  OBVIOUS
<1>6. PICK v : v = vs
  OBVIOUS
<1> HIDE DEF top
<1>7. /\ v \in Seq(Ids) /\ Len(v) = Depth
      /\ \A i \in 1 .. n : v[i] = top[i]
      /\ \A i \in n + 1 .. Depth : v[i] = Below(n)[i - n] /\ i - n \in 1 .. Depth - n
  <2>1. PICK b, d : b = Below(n) /\ d = Depth
    OBVIOUS
  <2>2. /\ b \in Seq(Ids) /\ top \in Seq(Ids) /\ Len(b) = d - n /\ Len(top) = n
        /\ d \in Nat /\ d >= n /\ v = top \o b
    BY <1>1, <1>3, <1>4, <1>6, <2>1
  <2>3. v \in Seq(Ids) /\ Len(v) = d
    BY <2>2
  <2>4. \A i \in 1 .. n : v[i] = top[i]
    BY <2>2
  <2>5. \A i \in n + 1 .. d : v[i] = b[i - n] /\ i - n \in 1 .. d - n
    BY <2>2
  <2>. QED
    BY <2>1, <2>3, <2>4, <2>5
<1>8. \A i \in 1 .. Depth : at(i) \in 1 .. Depth /\ v[i] = values[at(i)]
  <2> SUFFICES ASSUME NEW i \in 1 .. Depth PROVE at(i) \in 1 .. Depth /\ v[i] = values[at(i)]
    OBVIOUS
  <2>1. CASE i <= n
    <3>1. i \in 1 .. n /\ perm[i] \in 1 .. n
      BY <2>1
    <3>2. perm[i] \in 1 .. Depth
      BY <1>1, <3>1
    <3>. QED
      BY <1>5, <1>7, <2>1, <3>1, <3>2
  <2>2. CASE ~(i <= n)
    <3>1. i \in n + 1 .. Depth /\ (i - n) + n = i
      BY <1>1, <2>2
    <3>. QED
      BY <1>4, <1>7, <2>2, <3>1
  <2>. QED
    BY <2>1, <2>2
<1> DEFINE kept == {v[k] : k \in 1 .. Len(v)} \ {}
<1>9. values' = v /\ word' = [i \in Ids |-> IF i \in kept THEN word[i] ELSE 0]
  BY <1>2, <1>6 DEF Relink
<1>10. \A i \in 1 .. Depth : v[i] \in kept /\ v[i] \in Ids
  BY <1>7
<1> HIDE DEF kept, vs
<1>11. \A i \in 1 .. Depth : at(i) \in 1 .. Depth /\ word'[v[i]] = Stack[at(i)]
  <2> SUFFICES ASSUME NEW i \in 1 .. Depth
               PROVE  at(i) \in 1 .. Depth /\ word'[v[i]] = Stack[at(i)]
    OBVIOUS
  <2>1. word'[v[i]] = word[v[i]]
    BY <1>9, <1>10
  <2>2. at(i) \in 1 .. Depth /\ v[i] = values[at(i)]
    BY <1>8
  <2> HIDE DEF at
  <2>. QED
    BY <2>1, <2>2, StackType
<1>12. Stack' = [i \in 1 .. Depth |-> word'[v[i]]]
  BY <1>7, <1>9 DEF Stack, Depth
<1>13. PICK s : s = Stack /\ Len(s) = Depth
  BY StackType
<1>14. Stack' = [i \in 1 .. Depth |-> s[at(i)]]
  BY <1>11, <1>12, <1>13
<1>. QED
  BY <1>13, <1>14, Zenon DEF Permuted

LEMMA PermutedSwap ==
    ASSUME NEW s \in Seq(Words), Len(s) >= 2
    PROVE  Permuted(s, 2, <<2, 1>>) = <<s[2], s[1]>> \o SubSeq(s, 3, Len(s))
<1>1. PICK b : b = SubSeq(s, 3, Len(s))
  OBVIOUS
<1>2. Len(s) \in Nat /\ b \in Seq(Words) /\ Len(b) = Len(s) - 2
      /\ \A i \in 1 .. Len(s) - 2 : b[i] = s[i + 2]
  <2>1. PICK n \in Nat : n = 2 /\ n <= Len(s) /\ n + 1 = 3
    OBVIOUS
  <2>2. /\ SubSeq(s, n + 1, Len(s)) \in Seq(Words)
        /\ Len(SubSeq(s, n + 1, Len(s))) = Len(s) - n
        /\ \A i \in 1 .. Len(s) - n : SubSeq(s, n + 1, Len(s))[i] = s[i + n]
    BY <2>1, RestFacts, Zenon
  <2>3. SubSeq(s, n + 1, Len(s)) = b
    BY <1>1, <2>1, Zenon
  <2>4. b \in Seq(Words) /\ Len(b) = Len(s) - n /\ \A i \in 1 .. Len(s) - n : b[i] = s[i + n]
    BY <2>2, <2>3
  <2>. QED
    BY <2>1, <2>4
<1>3. PICK v : v = <<s[2], s[1]>> \o b
  OBVIOUS
<1>4. /\ v \in Seq(Words) /\ Len(v) = Len(s) /\ v = [i \in 1 .. Len(s) |-> v[i]]
      /\ v[1] = s[2] /\ v[2] = s[1]
  BY <1>2, <1>3
<1>5. \A i \in 3 .. Len(s) : v[i] = s[i]
  <2> SUFFICES ASSUME NEW i \in 3 .. Len(s) PROVE v[i] = s[i]
    OBVIOUS
  <2>1. i - 2 \in 1 .. Len(s) - 2 /\ v[i] = b[i - 2] /\ (i - 2) + 2 = i
    BY <1>2, <1>3
  <2>. QED
    BY <1>2, <2>1
<1>6. PICK p : p = <<2, 1>>
  OBVIOUS
<1>7. \A i \in 1 .. Len(s) : v[i] = s[IF i <= 2 THEN p[i] ELSE i]
  <2> SUFFICES ASSUME NEW i \in 1 .. Len(s) PROVE v[i] = s[IF i <= 2 THEN p[i] ELSE i]
    OBVIOUS
  <2>1. CASE i = 1
    BY <1>4, <1>6, <2>1
  <2>2. CASE i = 2
    BY <1>4, <1>6, <2>2
  <2>3. CASE i > 2
    BY <1>2, <1>5, <2>3
  <2>. QED
    BY <1>2, <2>1, <2>2, <2>3
<1>8. v = [i \in 1 .. Len(s) |-> s[IF i <= 2 THEN p[i] ELSE i]]
  BY <1>4, <1>7
<1>. QED
  BY <1>1, <1>3, <1>6, <1>8, Zenon DEF Permuted

LEMMA PermutedRot ==
    ASSUME NEW s \in Seq(Words), Len(s) >= 3
    PROVE  Permuted(s, 3, <<2, 3, 1>>) = <<s[2], s[3], s[1]>> \o SubSeq(s, 4, Len(s))
<1>1. PICK b : b = SubSeq(s, 4, Len(s))
  OBVIOUS
<1>2. Len(s) \in Nat /\ b \in Seq(Words) /\ Len(b) = Len(s) - 3
      /\ \A i \in 1 .. Len(s) - 3 : b[i] = s[i + 3]
  <2>1. PICK n \in Nat : n = 3 /\ n <= Len(s) /\ n + 1 = 4
    OBVIOUS
  <2>2. /\ SubSeq(s, n + 1, Len(s)) \in Seq(Words)
        /\ Len(SubSeq(s, n + 1, Len(s))) = Len(s) - n
        /\ \A i \in 1 .. Len(s) - n : SubSeq(s, n + 1, Len(s))[i] = s[i + n]
    BY <2>1, RestFacts, Zenon
  <2>3. SubSeq(s, n + 1, Len(s)) = b
    BY <1>1, <2>1, Zenon
  <2>4. b \in Seq(Words) /\ Len(b) = Len(s) - n /\ \A i \in 1 .. Len(s) - n : b[i] = s[i + n]
    BY <2>2, <2>3
  <2>. QED
    BY <2>1, <2>4
<1>3. PICK v : v = <<s[2], s[3], s[1]>> \o b
  OBVIOUS
<1>4. /\ v \in Seq(Words) /\ Len(v) = Len(s) /\ v = [i \in 1 .. Len(s) |-> v[i]]
      /\ v[1] = s[2] /\ v[2] = s[3] /\ v[3] = s[1]
  BY <1>2, <1>3
<1>5. \A i \in 4 .. Len(s) : v[i] = s[i]
  <2> SUFFICES ASSUME NEW i \in 4 .. Len(s) PROVE v[i] = s[i]
    OBVIOUS
  <2>1. i - 3 \in 1 .. Len(s) - 3 /\ v[i] = b[i - 3] /\ (i - 3) + 3 = i
    BY <1>2, <1>3
  <2>. QED
    BY <1>2, <2>1
<1>6. PICK p : p = <<2, 3, 1>>
  OBVIOUS
<1>7. \A i \in 1 .. Len(s) : v[i] = s[IF i <= 3 THEN p[i] ELSE i]
  <2> SUFFICES ASSUME NEW i \in 1 .. Len(s) PROVE v[i] = s[IF i <= 3 THEN p[i] ELSE i]
    OBVIOUS
  <2>1. CASE i = 1
    BY <1>4, <1>6, <2>1
  <2>2. CASE i = 2
    BY <1>4, <1>6, <2>2
  <2>3. CASE i = 3
    BY <1>4, <1>6, <2>3
  <2>4. CASE i > 3
    BY <1>2, <1>5, <2>4
  <2>. QED
    BY <1>2, <2>1, <2>2, <2>3, <2>4
<1>8. v = [i \in 1 .. Len(s) |-> s[IF i <= 3 THEN p[i] ELSE i]]
  BY <1>4, <1>7
<1>. QED
  BY <1>1, <1>3, <1>6, <1>8, Zenon DEF Permuted

LEMMA PermuteMeaning ==
    ASSUME IInv, WordOK, Depth >= Arity(op), dw_op_swap \/ dw_op_rot
    PROVE  Stack' = Meaning(op, Stack)
<1>1. phase = "exec" /\ Depth \in Nat
  BY ExecLinked DEF dw_op_swap, dw_op_rot, Exec
<1>2. PICK s : s = Stack /\ s \in Seq(Words) /\ Len(s) = Depth
  BY StackType
<1>3. CASE dw_op_swap
  <2> DEFINE p == <<2, 1>>
  <2>1. op.atom = "swap" /\ Permute(2, p)
    BY <1>3 DEF dw_op_swap, Exec
  <2>2. Depth >= 2 /\ p \in [1 .. 2 -> 1 .. 2]
    BY <2>1, ArityIs
  <2>3. Stack' = Permuted(s, 2, p)
    <3> HIDE DEF p
    <3>. QED
      BY <1>1, <1>2, <2>1, <2>2, PermuteStack
  <2>4. Permuted(s, 2, p) = <<s[2], s[1]>> \o SubSeq(s, 3, Len(s))
    BY <1>2, <2>2, PermutedSwap
  <2>. QED
    BY <1>2, <2>1, <2>3, <2>4, MeaningUnary
<1>4. CASE dw_op_rot
  <2> DEFINE p == <<2, 3, 1>>
  <2>1. op.atom = "rot" /\ Permute(3, p)
    BY <1>4 DEF dw_op_rot, Exec
  <2>2. Depth >= 3 /\ p \in [1 .. 3 -> 1 .. 3]
    BY <2>1, ArityIs
  <2>3. Stack' = Permuted(s, 3, p)
    <3> HIDE DEF p
    <3>. QED
      BY <1>1, <1>2, <2>1, <2>2, PermuteStack
  <2>4. Permuted(s, 3, p) = <<s[2], s[3], s[1]>> \o SubSeq(s, 4, Len(s))
    BY <1>2, <2>2, PermutedRot
  <2>. QED
    BY <1>2, <2>1, <2>3, <2>4, MeaningUnary
<1>. QED
  BY <1>3, <1>4

LEMMA DropMeaning ==
    ASSUME IInv, WordOK, Depth >= Arity(op), dw_op_drop
    PROVE  Stack' = Meaning(op, Stack)
<1>1. phase = "exec" /\ op.atom = "drop" /\ values \in Seq(Ids) /\ Depth \in Nat
  BY ExecLinked DEF dw_op_drop, Exec, IInv, ShapeOK
<1>2. Depth >= 1
  BY <1>1, ArityIs
<1>3. PICK b : b = Below(1)
  OBVIOUS
<1>4. /\ b \in Seq(Ids) /\ Len(b) = Depth - 1
      /\ \A i \in 1 .. Depth - 1 : b[i] = values[i + 1] /\ i + 1 \in 1 .. Depth
  BY <1>1, <1>2, <1>3, BelowIs
<1>5. Get(0) = values[1]
  BY <1>1, <1>2 DEF Get
<1> DEFINE kept == {b[k] : k \in 1 .. Len(b)} \ {Get(0)}
<1>6. values' = b /\ word' = [i \in Ids |-> IF i \in kept THEN word[i] ELSE 0]
  BY <1>1, <1>2, <1>3 DEF dw_op_drop, Relink
<1>7. \A i \in 1 .. Depth - 1 : b[i] \in kept /\ b[i] \in Ids
  <2> SUFFICES ASSUME NEW i \in 1 .. Depth - 1 PROVE b[i] \in kept /\ b[i] \in Ids
    OBVIOUS
  <2>1. i + 1 \in 1 .. Depth /\ 1 \in 1 .. Depth /\ i + 1 # 1 /\ b[i] = values[i + 1]
    BY <1>1, <1>4
  <2>2. b[i] # Get(0)
    BY <1>5, <2>1 DEF IInv, Owned
  <2>. QED
    BY <1>4, <2>2
<1> HIDE DEF kept
<1>8. \A i \in 1 .. Depth - 1 : word'[b[i]] = Stack[i + 1]
  <2> SUFFICES ASSUME NEW i \in 1 .. Depth - 1 PROVE word'[b[i]] = Stack[i + 1]
    OBVIOUS
  <2>1. word'[b[i]] = word[b[i]]
    BY <1>6, <1>7
  <2>2. b[i] = values[i + 1] /\ i + 1 \in 1 .. Depth
    BY <1>4
  <2>. QED
    BY <2>1, <2>2, StackType
<1>9. Stack' = [i \in 1 .. Depth - 1 |-> word'[b[i]]]
  BY <1>4, <1>6 DEF Stack, Depth
<1>10. Stack' = [i \in 1 .. Depth - 1 |-> Stack[i + 1]]
  BY <1>8, <1>9
<1>11. PICK s : s = Stack /\ s \in Seq(Words) /\ Len(s) = Depth
  BY StackType
<1>12. Tail(s) = [i \in 1 .. Depth - 1 |-> s[i + 1]]
  <2>1. Len(s) >= 1
    BY <1>2, <1>11
  <2>2. Tail(s) = [i \in 1 .. Len(s) - 1 |-> s[i + 1]]
    BY <1>11, <2>1, TailFacts, Zenon
  <2>. QED
    BY <1>11, <2>2, Zenon
<1>. QED
  BY <1>1, <1>10, <1>11, <1>12, MeaningUnary

LEMMA DerefMeaning ==
    ASSUME IInv, WordOK, Succeed, Depth >= Arity(op), dw_op_deref_size
    PROVE  Stack' = Meaning(op, Stack)
<1>1. phase = "exec" /\ Depth \in Nat /\ op.atom \in {"deref", "deref_size"}
  BY ExecLinked DEF dw_op_deref_size, Exec
<1>2. Depth >= 1
  BY <1>1, ArityIs
<1>3. ~Fail
  BY DEF Succeed, Fail, Return
<1>4. ~Fault("bad_address")
  BY <1>1 DEF Succeed, Return, Fault
<1>5. PICK size, addr : /\ size = IF op.atom = "deref" THEN 8 ELSE op.arg1
                        /\ addr = word[Get(0)] /\ addr \in DOMAIN Mem /\ size \in Sizes
                        /\ Replace(Mem[addr] % Modulus(size), 8, {"GENERIC"}, {}, Below(1))
  BY <1>3, <1>4 DEF dw_op_deref_size
<1>6. addr = Stack[1]
  BY <1>1, <1>2, <1>5, StackType
<1>7. Mem[addr] \in Words
  BY <1>5, MemAssumption
<1>8. PICK w \in Words : w = Mem[addr] % Modulus(size)
  BY <1>5, <1>7, WordFacts, ModulusType
<1>9. w \in Int /\ 8 \in Sizes /\ w % Modulus(8) = w
  BY WordFacts, WordMod DEF Sizes
<1>10. Stack' = Over(Stack, w, 1)
  BY <1>1, <1>2, <1>5, <1>8, <1>9, ReplaceStack
<1>11. CASE op.atom = "deref"
  <2>1. w = Mem[Stack[1]]
    BY <1>5, <1>6, <1>7, <1>8, <1>11, WordMod
  <2>. QED
    BY <1>10, <1>11, <2>1, MeaningUnary
<1>12. CASE op.atom = "deref_size"
  <2>1. w = Mem[Stack[1]] % Modulus(op.arg1)
    BY <1>5, <1>6, <1>8, <1>12
  <2>. QED
    BY <1>10, <1>12, <2>1, MeaningUnary
<1>. QED
  BY <1>1, <1>11, <1>12

LEMMA InPlaceMeaning ==
    ASSUME IInv, WordOK, Succeed, Exact(op), Depth >= Arity(op),
           dw_op_abs \/ dw_op_neg \/ dw_op_not \/ dw_op_plus_uconst \/ dw_op_stack_value
    PROVE  Stack' = Meaning(op, Stack)
<1>1. phase = "exec" /\ Depth \in Nat
      /\ op.atom \in {"abs", "neg", "not", "plus_uconst", "stack_value"}
  BY ExecLinked DEF Exec, dw_op_abs, dw_op_neg, dw_op_not, dw_op_plus_uconst, dw_op_stack_value
<1>2. Depth >= 1
  BY <1>1, ArityIs
<1>3. Stack[1] = word[Get(0)] /\ Stack[1] \in Words
  BY <1>1, <1>2, StackType, GetWord
<1>4. ASSUME NEW w, NEW t, NEW r, InPlace(w, t, r) PROVE Stack' = Over(Stack, w, 1)
  BY <1>1, <1>2, <1>4, InPlaceStack
<1>5. CASE dw_op_abs
  BY <1>5, ExactIs DEF dw_op_abs, Exec
<1>6. CASE dw_op_neg
  <2>1. op.atom = "neg"
    BY <1>6 DEF dw_op_neg, Exec
  <2>2. type[Get(0)] \cap {"CHAR", "SHORT", "INT"} = {}
    BY <2>1, ExactIs
  <2>3. PICK w : /\ w = (word[Get(0)] - (word[Get(0)] % Modulus(8)))
                        + ((Modulus(8) - (word[Get(0)] % Modulus(8))) % Modulus(8))
                 /\ \E t, r : InPlace(w, t, r)
    <3>1. "CHAR" \notin type[Get(0)] /\ "SHORT" \notin type[Get(0)] /\ "INT" \notin type[Get(0)]
      BY <2>2
    <3>2. (CASE "CHAR" \in type[Get(0)] -> 1 [] "SHORT" \in type[Get(0)] -> 2
             [] "INT" \in type[Get(0)] -> 4 [] OTHER -> 8) = 8
      BY <3>1
    <3>. QED
      BY <1>6, <3>2 DEF dw_op_neg
  <2>4. w = AsWord(-Stack[1])
    BY <1>3, <2>3, NegWhole
  <2>. QED
    BY <1>4, <2>1, <2>3, <2>4, MeaningUnary
<1>7. CASE dw_op_not
  <2>1. op.atom = "not" /\ \E t, r : InPlace(BitNot(Stack[1]), t, r)
    BY <1>3, <1>7 DEF dw_op_not, Exec
  <2>. QED
    BY <1>4, <2>1, MeaningUnary
<1>8. CASE dw_op_plus_uconst
  <2>1. op.atom = "plus_uconst" /\ \E k \in decode_uleb128(op.arg1) : \E t, r :
             InPlace(AsWord(Stack[1] + k), t, r)
    BY <1>3, <1>8 DEF dw_op_plus_uconst, Exec
  <2>2. decode_uleb128(op.arg1) = {op.arg1}
    BY <1>1, <2>1, OperandType, ExactIs, DecodeSmallU
  <2>. QED
    BY <1>4, <2>1, <2>2, MeaningUnary
<1>9. CASE dw_op_stack_value
  <2>1. op.atom = "stack_value" /\ \E t, r : InPlace(Stack[1], t, r)
    BY <1>3, <1>9 DEF dw_op_stack_value, Exec
  <2>2. PICK s, n : s = Stack /\ s \in Seq(Words) /\ Len(s) = Depth /\ n = 1
    BY StackType
  <2>3. Over(s, s[1], n) = OverFcn(s, s[1], n)
    <3>1. n \in Nat /\ n <= Len(s)
      BY <1>2, <2>2
    <3>. QED
      BY <2>2, <3>1, OverIs, Zenon
  <2>4. OverFcn(s, s[1], n) = s
    <3>1. s = [i \in 1 .. Depth |-> s[i]]
      BY <2>2
    <3>2. \A i \in 1 .. Depth : i - 1 + n = i
      BY <2>2
    <3>3. Len(s) - n + 1 = Depth
      BY <1>1, <2>2
    <3>4. OverFcn(s, s[1], n) = [i \in 1 .. Depth |-> IF i = 1 THEN s[1] ELSE s[i]]
      BY <3>2, <3>3 DEF OverFcn
    <3>. QED
      BY <3>1, <3>4
  <2>5. Stack' = s
    BY <1>4, <2>1, <2>2, <2>3, <2>4
  <2>. QED
    BY <2>1, <2>2, <2>5, MeaningUnary
<1>. QED
  BY <1>5, <1>6, <1>7, <1>8, <1>9

LEMMA BinaryMeaning ==
    ASSUME IInv, WordOK, Succeed, Exact(op), Depth >= Arity(op),
           \/ dw_op_and \/ dw_op_or \/ dw_op_minus \/ dw_op_mod \/ dw_op_mul
           \/ dw_op_div \/ dw_op_plus
    PROVE  Stack' = Meaning(op, Stack)
<1>1. phase = "exec" /\ Depth \in Nat
      /\ op.atom \in {"and", "or", "minus", "mod", "mul", "div", "plus"}
  BY ExecLinked DEF Exec, dw_op_and, dw_op_or, dw_op_minus, dw_op_mod, dw_op_mul,
     dw_op_div, dw_op_plus
<1>2. Depth > 1
  BY <1>1, ArityIs
<1>3. /\ Stack[1] = W1 /\ Stack[2] = W2 /\ W1 \in Words /\ W2 \in Words
      /\ W1 \in Int /\ W2 \in Int
  <2>1. W1 \in Words /\ W2 \in Words
    BY <1>1, <1>2, GetWord DEF W1, W2
  <2>2. 0 < Depth /\ 1 < Depth
    BY <1>1, <1>2
  <2>3. Stack[0 + 1] = W1 /\ Stack[1 + 1] = W2
    BY <2>2, StackType DEF W1, W2
  <2>. QED
    BY <2>1, <2>3, WordFacts
<1>4. ~Reject /\ \A f : ~Fault(f)
  BY <1>1 DEF Reject, Succeed, Fail, Return, Fault
<1>5. ASSUME NEW w \in Words, NEW t, Result(w, t) \/ FreeingResult(w, t)
      PROVE  Stack' = Over(Stack, w, 2)
  BY <1>1, <1>2, <1>5, ResultStack
<1>6. CASE dw_op_and
  <2>1. op.atom = "and" /\ \E t : FreeingResult(BitAnd(W1, W2), t)
    BY <1>4, <1>6 DEF dw_op_and, Exec
  <2>. QED
    BY <1>3, <1>5, <2>1, ArithmeticType, MeaningBinary
<1>7. CASE dw_op_or
  <2>1. op.atom = "or" /\ \E t : FreeingResult(BitOr(W2, W1), t)
    BY <1>4, <1>7 DEF dw_op_or, Exec
  <2>2. BitOr(W2, W1) = BitOr(W1, W2)
    BY BitOrSymmetric
  <2>. QED
    BY <1>3, <1>5, <2>1, <2>2, ArithmeticType, MeaningBinary
<1>8. CASE dw_op_minus
  <2>1. op.atom = "minus" /\ \E t : Result(AsWord(W2 - W1), t)
    BY <1>4, <1>8 DEF dw_op_minus, Exec
  <2>2. W2 - W1 \in Int
    BY <1>3
  <2>. QED
    BY <1>3, <1>5, <2>1, <2>2, WordFacts, MeaningBinary
<1>9. CASE dw_op_mod
  <2>1. op.atom = "mod" /\ W1 # 0 /\ \E t : Result(W2 % W1, t)
    BY <1>4, <1>9 DEF dw_op_mod, Exec
  <2>. QED
    BY <1>3, <1>5, <2>1, ArithmeticType, MeaningBinary
<1>10. CASE dw_op_mul
  <2>1. op.atom = "mul" /\ \E t : Result(Times(W2, W1), t)
    BY <1>4, <1>10 DEF dw_op_mul, Exec
  <2>. QED
    BY <1>3, <1>5, <2>1, ArithmeticType, MeaningBinary
<1>11. CASE dw_op_div
  <2>1. op.atom = "div" /\ W1 # 0
        /\ \/ ~(Signed(0) /\ Signed(1)) /\ \E t : Result(W2 \div W1, t)
           \/ \E t : Result(SignedDiv(W2, W1), t)
    BY <1>4, <1>11 DEF dw_op_div, Exec
  <2>2. \E t : Result(SignedDiv(W2, W1), t)
    <3>1. CASE ~(Signed(0) /\ Signed(1)) /\ \E t : Result(W2 \div W1, t)
      <4>1. AsSigned(W1) >= 0 /\ AsSigned(W2) >= 0
        BY <2>1, <3>1, ExactIs
      <4>2. SignedDiv(W2, W1) = W2 \div W1
        BY <1>3, <2>1, <4>1, DivPositive
      <4>. QED
        BY <3>1, <4>2
    <3>. QED
      BY <2>1, <3>1
  <2>3. SignedDiv(W2, W1) \in Words
    BY <1>3, <2>1, ArithmeticType
  <2>. QED
    BY <1>3, <1>5, <2>1, <2>2, <2>3, MeaningBinary
<1>12. CASE dw_op_plus
  BY <1>12, ExactIs DEF dw_op_plus, Exec
<1>. QED
  BY <1>6, <1>7, <1>8, <1>9, <1>10, <1>11, <1>12

-----------------------------------------------------------------------------
(* The theorems *)

(* Every value is a word of 64 bits, whatever is computed of it: a product, *)
(* a negation, a constant that is decoded twice or what lies past it.  The  *)
(* types, the heap and the loop of calc are what TypeOK says.               *)
THEOREM TypeCorrect == Spec => []TypeOK
<1>1. Init => WordOK /\ RestOK
  <2> SUFFICES ASSUME Init PROVE WordOK /\ RestOK
    OBVIOUS
  <2>1. WordOK
    BY WordFacts DEF Init, WordOK
  <2>2. nexpr \in 0 .. MaxOps /\ phase \in Phases /\ fault \in Faults
    BY BoundAssumption DEF Init, Phases, Faults
  <2>3. entry \in BOOLEAN /\ op \in Ops \cup {NoOp}
    BY Zenon DEF Init
  <2>. QED
    BY <2>1, <2>2, <2>3 DEF RestOK
<1>2. IInv /\ WordOK /\ RestOK => TypeOK
  BY DEF IInv, ShapeOK, WordOK, RestOK, TypeOK
<1>. QED
  BY <1>1, <1>2, InitIInv, NextIInv, NextWordOK, NextRestOK, PTL DEF Spec

(* The objects on the stack are distinct and those below the top are        *)
(* allocated, whatever the expression: pop and clear free each object once. *)
THEOREM OwnedCorrect == Spec => []Owned
<1>1. IInv => Owned
  BY DEF IInv
<1>. QED
  BY <1>1, InitIInv, NextIInv, PTL DEF Spec

(* All values but a register location on top are generic, so operands of a  *)
(* binary operation are never of unlike types.                             *)
THEOREM GenericCorrect == Spec => []GenericOK
<1>1. IInv => GenericOK
  BY DEF IInv
<1>. QED
  BY <1>1, InitIInv, NextIInv, PTL DEF Spec

(* Only DW_OP_plus leaves a freed object on the stack, whatever the         *)
(* expression: a crash at the next operation or at the clear is its doing.  *)
THEOREM OnlyPlusFreesLinkedCorrect == Spec => OnlyPlusFreesLinked
<1>1. IInv /\ [Next]_vars => [(Linked \ live)' # Linked \ live => op.atom = "plus"]_vars
  <2> SUFFICES ASSUME IInv, Next, (Linked \ live)' # Linked \ live PROVE op.atom = "plus"
    BY Zenon
  <2>1. ~Kept
    BY DEF Kept, Linked, Depth
  <2>2. CASE Around
    BY <2>1, <2>2, AroundTidy DEF Tidy
  <2>3. CASE Handler
    <3>1. ASSUME phase = "exec", Linked' \subseteq live' PROVE FALSE
      BY <3>1, ExecLinked
    <3>2. CASE ~Leaves
      <4>1. Tidy /\ phase = "exec"
        BY <2>1, <2>3, <3>2, HandlerTidy, HandlerExec
      <4>. QED
        BY <3>1, <4>1 DEF Tidy
    <3>3. CASE Leaves
      <4>1. phase = "exec"
        BY <2>3, HandlerExec
      <4>. QED
        BY <2>1, <3>1, <3>3, <4>1, LeavesLinked DEF Leaves, dw_op_plus, Exec
    <3>. QED
      BY <3>2, <3>3
  <2>. QED
    BY <2>2, <2>3, NextCases
<1>. QED
  BY <1>1, InitIInv, NextIInv, PTL DEF Spec, OnlyPlusFreesLinked

(* A value that is neither on the stack nor freed was left behind by one of *)
(* the arithmetic operations, DW_OP_plus included, or by a dereference.     *)
THEOREM LeakCausesCorrect == Spec => LeakCauses
<1>1. IInv /\ [Next]_vars =>
        [~((live \ Linked)' \subseteq live \ Linked) =>
          /\ Handled("fetch") \/ op.atom = "deref_size"
          /\ op.atom \in {"minus", "mod", "mul", "div", "plus", "deref", "deref_size"}]_vars
  <2> SUFFICES ASSUME IInv, Next, ~((live \ Linked)' \subseteq live \ Linked)
               PROVE  /\ Handled("fetch") \/ op.atom = "deref_size"
                      /\ op.atom \in {"minus", "mod", "mul", "div", "plus", "deref", "deref_size"}
    BY Zenon
  <2>1. ~Kept /\ ~Tidy
    BY DEF Kept, Linked, Depth, Tidy
  <2>2. Leaves /\ phase = "exec"
    BY <2>1, NextCases, AroundTidy, HandlerTidy, HandlerExec
  <2>3. ~UNCHANGED heap /\ ~Stops
    BY <2>1 DEF heap, Kept, Stops, Fault
  <2>4. Succeed => Handled("fetch")
    BY <2>2 DEF Succeed, Return, Handled
  <2>5. CASE dw_op_minus \/ dw_op_mod \/ dw_op_mul \/ dw_op_div \/ dw_op_plus
    <3>1. op.atom \in {"minus", "mod", "mul", "div", "plus"}
      BY <2>5 DEF Exec, dw_op_minus, dw_op_mod, dw_op_mul, dw_op_div, dw_op_plus
    <3>2. Succeed
      <4>1. Succeed \/ UNCHANGED heap \/ Fault("double_free") \/ Fault("division")
        BY <2>5, Zenon DEF dw_op_minus, dw_op_mod, dw_op_mul, dw_op_div, dw_op_plus,
           Reject, Result
      <4>. QED
        BY <2>3, <4>1 DEF Stops
    <3>. QED
      BY <2>4, <3>1, <3>2
  <2>6. CASE dw_op_deref_size
    <3>1. op.atom \in {"deref", "deref_size"}
      BY <2>6 DEF Exec, dw_op_deref_size
    <3>2. ASSUME op.atom = "deref" PROVE Succeed
      <4>1. Succeed \/ UNCHANGED heap \/ Fault("bad_address")
        BY <2>6, <3>2 DEF dw_op_deref_size, Sizes
      <4>. QED
        BY <2>3, <4>1 DEF Stops
    <3>. QED
      BY <2>4, <3>1, <3>2
  <2>. QED
    BY <2>2, <2>5, <2>6 DEF Leaves
<1>. QED
  BY <1>1, InitIInv, NextIInv, PTL DEF Spec, LeakCauses

(* Why a handler fails.  Operands of unlike types are not among the reasons,*)
(* since every value but a register location on top is generic.             *)
THEOREM FailCausesCorrect == Spec => FailCauses
<1>1. IInv /\ [Next]_vars =>
        [Handled("failed") =>
          \/ Depth < Arity(op)
          \/ op.atom \in {"notimpl", "abs", "GNU_entry_value"}
          \/ op.atom \in {"div", "mod"} /\ W1 = 0
          \/ op.atom = "deref_size" /\ op.arg1 \notin Sizes
          \/ op.atom \in {"breg", "bregx"}]_vars
  <2> SUFFICES ASSUME IInv, Next, Handled("failed")
               PROVE  \/ Depth < Arity(op)
                      \/ op.atom \in {"notimpl", "abs", "GNU_entry_value"}
                      \/ op.atom \in {"div", "mod"} /\ W1 = 0
                      \/ op.atom = "deref_size" /\ op.arg1 \notin Sizes
                      \/ op.atom \in {"breg", "bregx"}
    BY Zenon
  <2>1. phase = "exec" /\ phase' = "failed"
    BY DEF Handled
  <2>2. Handler
    BY <2>1, NextCases, AroundExec
  <2>3. ~Succeed /\ ~Stops
    BY <2>1 DEF Succeed, Return, Stops, Fault
  <2>. QED
    BY <2>2, <2>3, FailCause
<1>. QED
  BY <1>1, InitIInv, NextIInv, PTL DEF Spec, FailCauses

(* Why evaluation stops with undefined behaviour or an abort: too few       *)
(* operands, an address, the division that overflows, or the object that    *)
(* DW_OP_plus left on top, which the next fetch, pop or clear finds.         *)
THEOREM FaultCausesCorrect == Spec => FaultCauses
<1>1. IInv /\ [Next]_vars =>
        [fault' # fault =>
          \/ phase = "exec" /\ Depth < Arity(op)
          \/ op.atom \in {"deref", "deref_size"} /\ fault' = "bad_address"
          \/ phase # "exec" /\ fault' = "bad_address" /\ Get(0) \in live
             /\ type[Get(0)] \cap {"REGISTER_LOC", "MEMORY_LOC"} # {}
          \/ op.atom = "div" /\ fault' = "division"
          \/ phase # "exec" /\ Get(0) \notin live]_vars
  <2> SUFFICES ASSUME IInv, Next, fault' # fault
               PROVE  \/ phase = "exec" /\ Depth < Arity(op)
                      \/ op.atom \in {"deref", "deref_size"} /\ fault' = "bad_address"
                      \/ phase # "exec" /\ fault' = "bad_address" /\ Get(0) \in live
                         /\ type[Get(0)] \cap {"REGISTER_LOC", "MEMORY_LOC"} # {}
                      \/ op.atom = "div" /\ fault' = "division"
                      \/ phase # "exec" /\ Get(0) \notin live
    BY Zenon
  <2>1. CASE Handler
    <3>1. Succeed \/ Fail \/ Stops
      BY <2>1, HandlerReturns
    <3>2. Stops
      BY <3>1 DEF Succeed, Fail, Return
    <3>3. phase = "exec"
      BY <2>1, HandlerExec
    <3>. QED
      BY <2>1, <3>2, <3>3, FaultCause DEF Stops
  <2>2. CASE Around
    <3>1. phase # "exec"
      BY <2>2, AroundExec
    <3>2. CASE Calc \/ Fini
      <4>1. ~(Linked \subseteq live)
        BY <3>2 DEF Calc, Fini, Clear
      <4>. QED
        BY <3>1, <4>1, ClearFault
    <3>3. CASE CalcReturn
      BY <3>3 DEF CalcReturn
    <3>4. CASE GetValue
      <4>1. \/ Get(0) \notin live
            \/ /\ Get(0) \in live /\ Fault("bad_address")
               /\ type[Get(0)] \cap {"REGISTER_LOC", "MEMORY_LOC"} = {"MEMORY_LOC"}
        BY <3>4, Zenon DEF GetValue, vars
      <4>. QED
        BY <3>1, <4>1 DEF Fault
    <3>5. ASSUME NEW o \in Ops,
                 FetchUnknown(o) \/ FetchPlain(o) \/ FetchStale(o) \/ FetchRegister(o)
          PROVE  \/ Get(0) \notin live
                 \/ /\ fault' = "bad_address" /\ Get(0) \in live
                    /\ "REGISTER_LOC" \in type[Get(0)]
      BY <3>5, Zenon DEF FetchUnknown, FetchPlain, FetchStale, FetchRegister, Fault
    <3>. QED
      BY <2>2, <3>1, <3>2, <3>3, <3>4, <3>5 DEF Around
  <2>. QED
    BY <2>1, <2>2, NextCases
<1>. QED
  BY <1>1, InitIInv, NextIInv, PTL DEF Spec, FaultCauses

(* A handler that succeeds on enough operands leaves on the stack what the  *)
(* comments of dwarf_operations.c say the operation means, for all words:   *)
(* only the operations and operands that Exact names do not.                *)
THEOREM StepMeaningCorrect == Spec => StepMeaning
<1>1. IInv /\ WordOK /\ [Next]_vars =>
        [Handled("fetch") /\ Depth >= Arity(op) /\ Exact(op)
          => Stack' = Meaning(op, Stack)]_vars
  <2> SUFFICES ASSUME IInv, WordOK, Next,
                      Handled("fetch") /\ Depth >= Arity(op) /\ Exact(op)
               PROVE  Stack' = Meaning(op, Stack)
    BY Zenon
  <2>1. phase = "exec" /\ phase' = "fetch"
    BY DEF Handled
  <2>2. Handler
    BY <2>1, NextCases, AroundExec
  <2>3. Succeed
    <3>1. ~Fail /\ ~Stops
      BY <2>1 DEF Fail, Return, Stops, Fault
    <3>. QED
      BY <2>2, <3>1, HandlerReturns
  <2>4. ~dw_op_notimpl
    BY <2>1 DEF dw_op_notimpl, Fail, Return
  <2>. QED
    BY <2>2, <2>3, <2>4, PushMeaning, CopyMeaning, PermuteMeaning, DropMeaning,
       DerefMeaning, InPlaceMeaning, BinaryMeaning, Zenon DEF Handler
<1>2. Init => WordOK
  BY WordFacts DEF Init, WordOK
<1>. QED
  BY <1>1, <1>2, InitIInv, NextIInv, NextWordOK, PTL DEF Spec, StepMeaning

==============================================================================
