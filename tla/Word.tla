-------------------------------- MODULE Word --------------------------------
(***************************************************************************)
(* The 64-bit machine word, scaled: a byte has ByteBits bits and a C       *)
(* object of 1, 2, 4 or 8 bytes takes Width[1], Width[2], Width[4] or      *)
(* Width[8] model bytes.  Words are unsigned numbers, as in the uint64     *)
(* member of pst_sized_value; AsSigned is its int64 member.                *)
(*                                                                         *)
(* decode_uleb128 and decode_sleb128 of src/common.c return 32 bits and    *)
(* do not know where their buffer ends.                                    *)
(***************************************************************************)
EXTENDS Integers, FiniteSetsExt

CONSTANTS ByteBits,   \* bits of a byte, 8 in the program
          Width,      \* model bytes of a C object of 1, 2, 4 and 8 bytes
          Garbage     \* what a decoder may return when it runs past its operand

Sizes == {1, 2, 4, 8}

ASSUME ByteBitsAssumption == ByteBits \in Nat /\ ByteBits >= 2
ASSUME WidthAssumption == /\ Width \in [Sizes -> Nat \ {0}]
                          /\ Width[1] = 1
                          /\ \A s, t \in Sizes : s < t => Width[s] < Width[t]

Modulus(s) == 2 ^ (ByteBits * Width[s])
WordSize   == Modulus(8)
Words      == 0 .. WordSize - 1

ASSUME GarbageAssumption == Garbage \subseteq Words

AsSigned(w) == IF 2 * w < WordSize THEN w ELSE w - WordSize
AsWord(i)   == i % WordSize

Bit(w, i) == (w \div 2 ^ i) % 2

(* g[0] + ... + g[n - 1] *)
Total(g, n) ==
    LET f[i \in 0 .. n] == IF i = 0 THEN 0 ELSE f[i - 1] + g[i - 1]
    IN  f[n]

WordBits == 0 .. ByteBits * Width[8] - 1

(* The word whose bits are those in bits. *)
WordOf(bits) ==
    Total([i \in WordBits |-> IF i \in bits THEN 2 ^ i ELSE 0], ByteBits * Width[8])

BitAnd(a, b) == WordOf({i \in WordBits : Bit(a, i) = 1 /\ Bit(b, i) = 1})
BitOr(a, b)  == WordOf({i \in WordBits : Bit(a, i) = 1 \/ Bit(b, i) = 1})
BitNot(a)    == WordSize - 1 - a

(* The product is the same for signed and unsigned factors. *)
Times(a, b) == AsWord(a * AsSigned(b))

(* C's signed division truncates towards zero. *)
SignedDiv(a, b) ==
    LET x == AsSigned(a)
        y == AsSigned(b)
        Abs(i) == IF i < 0 THEN -i ELSE i
        q == Abs(x) \div Abs(y)
    IN  AsWord(IF (x < 0) = (y < 0) THEN q ELSE -q)

-----------------------------------------------------------------------------
(* LEB128: each byte carries ByteBits - 1 bits, lowest first, and its top  *)
(* bit says that another byte follows.                                     *)

Payload == ByteBits - 1
Byte(w, i) == (w \div 2 ^ (ByteBits * i)) % 2 ^ ByteBits

(* The bytes of w, as it lies in memory, that end a number. *)
Ends(w) == {i \in 0 .. Width[8] - 1 : Byte(w, i) < 2 ^ Payload}

(* A shift of the 32-bit accumulator by k payloads is defined. *)
ShiftOK(k) == Payload * k < ByteBits * Width[4]

Gather(w, k) ==
    Total([i \in 0 .. k |-> (Byte(w, i) % 2 ^ Payload) * 2 ^ (Payload * i)], k + 1)
        % Modulus(4)

(* An int32_t stored in an int64_t. *)
Extend32(n) == IF 2 * n < Modulus(4) THEN n ELSE AsWord(n - Modulus(4))

(* What decode_uleb128 may return for the bytes of w, as the uint64_t it   *)
(* is stored in.                                                           *)
decode_uleb128(w) ==
    IF Ends(w) = {} THEN Garbage
    ELSE LET k == Min(Ends(w))
         IN  IF ShiftOK(k) THEN {Gather(w, k)} ELSE Garbage

(* The same for decode_sleb128 and int64_t: bit ByteBits - 2 of the last   *)
(* byte is the sign, extended to 32 bits and by the assignment to 64.      *)
decode_sleb128(w) ==
    IF Ends(w) = {} THEN Garbage
    ELSE LET k == Min(Ends(w))
             negative == Bit(Byte(w, k), Payload - 1) = 1
         IN  CASE ~negative /\ ShiftOK(k) -> {Extend32(Gather(w, k))}
               [] negative /\ ShiftOK(k + 1) ->
                     {AsWord(Gather(w, k) - 2 ^ (Payload * (k + 1)))}
               [] OTHER -> Garbage
=============================================================================
