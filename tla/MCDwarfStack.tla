---------------------------- MODULE MCDwarfStack ----------------------------
(***************************************************************************)
(* DwarfStack against the meaning that the comments of                     *)
(* src/dwarf/dwarf_operations.c give the operations, on words of 12 bits.  *)
(***************************************************************************)
EXTENDS DwarfStack, TLC

(* The number of stack entries an operation works on. *)
Arity(o) ==
    CASE o.atom \in {"dup", "drop", "deref", "deref_size", "abs", "neg", "not",
                     "plus_uconst", "stack_value"} -> 1
      [] o.atom \in {"over", "swap", "and", "or", "minus", "mod", "mul", "div",
                     "plus"} -> 2
      [] o.atom = "rot" -> 3
      [] o.atom = "pick" -> o.arg1 + 1
      [] OTHER -> 0

(* What is on a stack of words s after the operation. *)
Meaning(o, s) ==
    LET Top(w, n) == <<w>> \o SubSeq(s, n + 1, Len(s)) IN
    CASE o.atom \in {"addr", "const_u", "const_s", "constu", "consts"} -> Top(o.arg1, 0)
      [] o.atom \in {"lit", "reg"}     -> Top(o.n, 0)
      [] o.atom = "regx"               -> Top(o.arg1, 0)
      [] o.atom = "breg"               -> Top(AsWord(Regs[o.n] + o.arg1), 0)
      [] o.atom = "bregx"              -> Top(AsWord(Regs[o.arg1] + o.arg2), 0)
      [] o.atom = "call_frame_cfa"     -> Top(CFA, 0)
      [] o.atom = "fbreg"              -> Top(AsWord(CFA + o.arg1), 0)
      [] o.atom = "deref"              -> Top(Mem[s[1]], 1)
      [] o.atom = "deref_size"         -> Top(Mem[s[1]] % Modulus(o.arg1), 1)
      [] o.atom = "dup"                -> Top(s[1], 0)
      [] o.atom = "over"               -> Top(s[2], 0)
      [] o.atom = "pick"               -> Top(s[o.arg1 + 1], 0)
      [] o.atom = "drop"               -> Tail(s)
      [] o.atom = "swap"               -> <<s[2], s[1]>> \o SubSeq(s, 3, Len(s))
      [] o.atom = "rot"                -> <<s[2], s[3], s[1]>> \o SubSeq(s, 4, Len(s))
      [] o.atom = "neg"                -> Top(AsWord(-s[1]), 1)
      [] o.atom = "not"                -> Top(BitNot(s[1]), 1)
      [] o.atom = "plus_uconst"        -> Top(AsWord(s[1] + o.arg1), 1)
      [] o.atom = "stack_value"        -> s
      [] o.atom = "and"                -> Top(BitAnd(s[1], s[2]), 2)
      [] o.atom = "or"                 -> Top(BitOr(s[1], s[2]), 2)
      [] o.atom = "minus"              -> Top(AsWord(s[2] - s[1]), 2)
      [] o.atom = "plus"               -> Top(AsWord(s[2] + s[1]), 2)
      [] o.atom = "mod"                -> Top(s[2] % s[1], 2)
      [] o.atom = "mul"                -> Top(Times(s[2], s[1]), 2)
      [] o.atom = "div"                -> Top(SignedDiv(s[2], s[1]), 2)

Stack == [k \in 1 .. Depth |-> word[values[k]]]

(* The operands with which the handlers do as the comments say: a constant  *)
(* that is not negative, an operand that a second LEB128 decoding leaves    *)
(* alone, a negation of all 64 bits, a division whose operands are either   *)
(* not negative or both of a signed type.  DW_OP_plus never does, and       *)
(* DW_OP_abs always fails.                                                  *)
SmallU(w) == w < 2 ^ Payload
SmallS(w) == w < 2 ^ (Payload - 1)

Exact(o) ==
    CASE o.atom = "const_s"                  -> o.arg1 < Modulus(o.n)
      [] o.atom \in {"constu", "regx", "plus_uconst"} -> SmallU(o.arg1)
      [] o.atom \in {"consts", "breg", "fbreg"} -> SmallS(o.arg1)
      [] o.atom = "bregx"                    -> SmallU(o.arg1) /\ SmallS(o.arg2)
      [] o.atom = "neg" -> type[Get(0)] \cap {"CHAR", "SHORT", "INT"} = {}
      [] o.atom = "div" -> \/ Signed(0) /\ Signed(1)
                           \/ AsSigned(W1) >= 0 /\ AsSigned(W2) >= 0
      [] o.atom \in {"plus", "abs", "GNU_entry_value"} -> FALSE
      [] OTHER                               -> TRUE

Handled(result) == phase = "exec" /\ phase' = result

(* A handler that succeeds on enough operands leaves what the operation     *)
(* means on the stack, the untouched entries included.                      *)
StepMeaning ==
    [][Handled("fetch") /\ Depth >= Arity(op) /\ Exact(op)
          => Stack' = Meaning(op, Stack)]_vars

(* Why a handler fails; unlike operand types are not among the reasons.     *)
FailCauses ==
    [][Handled("failed") =>
          \/ Depth < Arity(op)
          \/ op.atom \in {"notimpl", "abs", "GNU_entry_value"}
          \/ op.atom \in {"div", "mod"} /\ W1 = 0
          \/ op.atom = "deref_size" /\ op.arg1 \notin Sizes
          \/ op.atom \in {"breg", "bregx"}]_vars

(* Why evaluation stops with undefined behaviour: too few operands, an      *)
(* address, the overflowing division, a register location that is not last, *)
(* or whatever comes after DW_OP_plus.                                      *)
FaultCauses ==
    [][fault' # fault =>
          \/ phase = "exec" /\ Depth < Arity(op)
          \/ op.atom \in {"deref", "deref_size"} /\ fault' = "bad_address"
          \/ phase # "exec" /\ fault' = "bad_address" /\ Get(0) \in live
             /\ type[Get(0)] \cap {"REGISTER_LOC", "MEMORY_LOC"} # {}
          \/ op.atom = "div" /\ fault' = "division"
          \/ phase # "exec" /\ Get(0) \notin live]_vars

(* Only DW_OP_plus leaves a freed object on the stack. *)
OnlyPlusFreesLinked ==
    [][(Linked \ live)' # Linked \ live => op.atom = "plus"]_vars

(* Every object that is neither on the stack nor freed was left behind by   *)
(* one of these operations; emptying the stack leaves none behind.          *)
LeakCauses ==
    [][~((live \ Linked)' \subseteq live \ Linked) =>
          /\ Handled("fetch") \/ op.atom = "deref_size"
          /\ op.atom \in {"minus", "mod", "mul", "div", "plus", "deref", "deref_size"}]_vars

(* What the comments say and the code does not do. *)

(* dwarf_operations.c:489: DW_OP_plus "pops the top two stack entries, adds *)
(* them together, and pushes the result", so the sum is an allocated value  *)
(* on top of the stack.                                                     *)
PlusAdds ==
    [][Handled("fetch") /\ op.atom = "plus"
          => Linked' \subseteq live' /\ Stack' = Meaning(op, Stack)]_vars

(* dwarf_operations.c:251: DW_OP_abs "pops the top stack entry, interprets  *)
(* it as a signed value and pushes its absolute value"; the handler of an   *)
(* operation that was carried out returns true.                             *)
AbsSucceeds == [][op.atom = "abs" /\ Depth > 0 => ~Handled("failed")]_vars

-----------------------------------------------------------------------------
(* Instances *)

Op(atom, n, arg1, arg2) == [atom |-> atom, n |-> n, arg1 |-> arg1, arg2 |-> arg2]
Plain(atom) == Op(atom, 0, 0, 0)

MCWidth == [s \in {1, 2, 4, 8} |-> CASE s = 1 -> 1 [] s = 2 -> 2 [] s = 4 -> 3 [] s = 8 -> 4]

(* Every operation, the LEB128 operands on both sides of what survives the  *)
(* second decoding, and a const1s of -1.                                    *)
MCOps ==
    {Plain(a) : a \in {"notimpl", "unknown", "dup", "over", "drop", "swap", "rot",
                       "abs", "neg", "not", "stack_value", "and", "or", "minus",
                       "mod", "mul", "div", "plus", "deref", "call_frame_cfa",
                       "GNU_entry_value"}}
    \cup {Op("lit", 0, 0, 0), Op("lit", 2, 0, 0), Op("addr", 0, 50, 0),
          Op("const_u", 1, 5, 0), Op("const_s", 1, 4095, 0),
          Op("constu", 0, 3, 0), Op("constu", 0, 6, 0),
          Op("consts", 0, 1, 0), Op("consts", 0, 4095, 0),
          Op("pick", 0, 2, 0), Op("plus_uconst", 0, 1, 0),
          Op("deref_size", 0, 1, 0), Op("deref_size", 0, 3, 0),
          Op("reg", 1, 0, 0), Op("reg", 2, 0, 0), Op("regx", 0, 3, 0),
          Op("breg", 0, 1, 0), Op("breg", 9, 0, 0), Op("bregx", 0, 1, 1),
          Op("fbreg", 0, 1, 0)}

MCMem == 2 :> 1 @@ 3 :> 40 @@ 50 :> 77 @@ 101 :> 2048
MCRegs == 0 :> 49 @@ 1 :> 7
=============================================================================
