----------------------------- MODULE DwarfStack -----------------------------
(***************************************************************************)
(* The DWARF expression evaluator: src/dwarf/dwarf_stack.c and the         *)
(* operations of src/dwarf/dwarf_operations.c.                             *)
(*                                                                         *)
(* The stack is a list of heap objects, the top one first.  The list is    *)
(* the sequence `values' (what ListHead implements); the heap is the set   *)
(* `live' of objects that are allocated.  A step whose behaviour C does    *)
(* not define, or that aborts, sets `fault' and is the last one.           *)
(*                                                                         *)
(* calc is a loop: Fetch is the part before an operation's handler runs,   *)
(* then one dw_op_* action is the handler and the rest of the iteration.   *)
(* The expression comes from the debugged program, so Fetch takes any      *)
(* operation of Ops.                                                       *)
(***************************************************************************)
EXTENDS Word, Sequences

CONSTANTS
    Ops,         \* the operations an expression may hold: records of OpType
    Mem,         \* a function: the words at the readable addresses
    Regs,        \* a function: the registers libunwind can read
    CFA,         \* ctx->cfa
    ParamValues, \* values of the caller's call site parameters
    Ids,         \* heap objects: the bound on allocated values
    MaxOps       \* bound on the operations of one expression

(* Operation n of the family `atom', e.g. const4u is [atom |-> "const_u",  *)
(* n |-> 4], with the operands libdw has decoded.                          *)
OpType == [atom : STRING, n : Words, arg1 : Words, arg2 : Words]
NoOp == [atom |-> "none", n |-> 0, arg1 |-> 0, arg2 |-> 0]

Types == {"SIGNED", "UNSIGNED", "CONST", "GENERIC", "CHAR", "SHORT", "INT",
          "LONG", "REGISTER_LOC", "MEMORY_LOC"}

Faults == {"none", "null_pointer", "assertion", "use_after_free",
           "double_free", "bad_address", "division"}

(* libdw reads as many bytes of a constant as its operation says. *)
ASSUME OpsAssumption ==
    \A o \in Ops : /\ o \in OpType /\ o.atom # "none"
                   /\ o.atom \in {"const_u", "const_s"} => o.n \in Sizes
                   /\ o.atom = "const_u" => o.arg1 < Modulus(o.n)
ASSUME BoundAssumption == MaxOps \in Nat
ASSUME MemAssumption == /\ Mem \in [DOMAIN Mem -> Words] /\ DOMAIN Mem \subseteq Words
                        /\ Regs \in [DOMAIN Regs -> Words] /\ DOMAIN Regs \subseteq Words
                        /\ CFA \in Words /\ ParamValues \subseteq Words

VARIABLES
    values,       \* st->values, the top of the stack first
    live,         \* the value objects that are allocated
    type, word,   \* their fields type and value.uint64
    nexpr,        \* list_count of st->expr, the operations met so far
    entry,        \* the first of them is DW_OP_GNU_entry_value
    op,           \* exprs[i], when its handler is about to run
    phase,        \* where calc is
    fault         \* what went wrong, or "none"

heap == <<values, live, type, word>>
vars == <<values, live, type, word, nexpr, entry, op, phase, fault>>

Phases == {"ready", "fetch", "exec", "ok", "failed"}

TypeOK ==
    /\ values \in Seq(Ids)
    /\ live \subseteq Ids
    /\ type \in [Ids -> SUBSET Types]
    /\ word \in [Ids -> Words]
    /\ nexpr \in 0 .. MaxOps
    /\ op \in Ops \cup {NoOp}
    /\ entry \in BOOLEAN /\ phase \in Phases /\ fault \in Faults

Init ==
    /\ values = <<>> /\ live = {}
    /\ type = [i \in Ids |-> {}] /\ word = [i \in Ids |-> 0]
    /\ nexpr = 0 /\ entry = FALSE /\ op = NoOp /\ phase = "ready" /\ fault = "none"

-----------------------------------------------------------------------------
(* The list and the heap *)

Depth == Len(values)
Linked == {values[i] : i \in 1 .. Depth}

(* pst_dwarf_stack_get: the loop leaves its cursor on the last element     *)
(* when the index is past the end, so only an empty stack gives NULL.      *)
Get(idx) == values[IF idx < Depth THEN idx + 1 ELSE Depth]

(* What is below the n topmost values. *)
Below(n) == SubSeq(values, n + 1, Depth)

New == CHOOSE i \in Ids : i \notin live

(* The stack becomes vs and the objects in freed are freed.  A value is     *)
(* kept only while it is on the stack: it is not read from anywhere else.   *)
Relink(vs, freed) ==
    LET kept == {vs[k] : k \in 1 .. Len(vs)} \ freed IN
    /\ values' = vs
    /\ live' = live \ freed
    /\ word' = [i \in Ids |-> IF i \in kept THEN word[i] ELSE 0]
    /\ type' = [i \in Ids |-> IF i \in kept THEN type[i] ELSE {}]

(* The same with a new value of s bytes, the rest of its word zeroed, which *)
(* is allocated before the others are freed.                                *)
RelinkNew(vs, freed, w, s, t) ==
    LET kept == {vs[k] : k \in 1 .. Len(vs)} \ freed IN
    /\ values' = vs
    /\ live' = (live \cup {New}) \ freed
    /\ word' = [i \in Ids |-> IF i \notin kept THEN 0
                              ELSE IF i = New THEN w % Modulus(s) ELSE word[i]]
    /\ type' = [i \in Ids |-> IF i \notin kept THEN {}
                              ELSE IF i = New THEN t ELSE type[i]]

Replace(w, s, t, freed, rest) == RelinkNew(<<New>> \o rest, freed, w, s, t)

Push(w, s, t) == Replace(w, s, t, {}, values)

(* How a handler returns. *)
Return(ph) == phase' = ph /\ op' = NoOp /\ UNCHANGED <<nexpr, entry, fault>>
Succeed == Return("fetch")
Fail    == Return("failed")

Fault(f) == fault' = f /\ UNCHANGED <<heap, nexpr, entry, op, phase>>

-----------------------------------------------------------------------------
(* pst_dwarf_stack_calc, pst_dwarf_stack_get_value, pst_dwarf_stack_fini   *)

(* Mutant: the loop of clear reads the successor of a value it has freed.   *)
Clear_UnsafeLoop(ph) ==
    IF Depth > 0 THEN Fault("use_after_free")
    ELSE /\ Relink(<<>>, Linked) /\ nexpr' = 0 /\ entry' = FALSE
         /\ phase' = ph /\ UNCHANGED <<op, fault>>

(* pst_dwarf_stack_clear: unlinks and frees every value and operation. *)
Clear(ph) ==
    IF Linked \subseteq live
    THEN /\ Relink(<<>>, Linked) /\ nexpr' = 0 /\ entry' = FALSE
         /\ phase' = ph /\ UNCHANGED <<op, fault>>
    ELSE Fault("double_free")

Calc == phase \in {"ready", "ok", "failed"} /\ Clear("fetch")

Fini == phase \in {"ok", "failed"} /\ Clear("ready")

(* The expression ends. *)
CalcReturn ==
    phase = "fetch" /\ phase' = "ok" /\ UNCHANGED <<heap, nexpr, entry, op, fault>>

FetchUnknown(o) ==
    /\ phase = "fetch" /\ o.atom = "unknown"
    /\ phase' = "failed" /\ UNCHANGED <<heap, nexpr, entry, op, fault>>

(* find_op_map knows the operation, which is appended to st->expr.  The    *)
(* heap must have room for the value its handler may push.                 *)
Fetch(o) ==
    /\ phase = "fetch" /\ nexpr < MaxOps /\ live # Ids
    /\ o.atom # "unknown"

Record(o) ==
    /\ nexpr' = nexpr + 1
    /\ entry' = IF nexpr = 0 THEN o.atom = "GNU_entry_value" ELSE entry

(* Mutant: a register location is left on the stack as it is. *)
FetchPlain_KeepRegister(o) ==
    /\ Fetch(o) /\ Record(o)
    /\ Depth > 0 => Get(0) \in live
    /\ op' = o /\ phase' = "exec"
    /\ UNCHANGED <<heap, fault>>

(* The top value is looked at on the way. *)
FetchPlain(o) ==
    /\ Fetch(o) /\ Record(o)
    /\ Depth > 0 => Get(0) \in live /\ "REGISTER_LOC" \notin type[Get(0)]
    /\ op' = o /\ phase' = "exec"
    /\ UNCHANGED <<heap, fault>>

FetchStale(o) ==
    /\ Fetch(o) /\ Depth > 0 /\ Get(0) \notin live
    /\ Fault("use_after_free")

(* A register location that is not the last operation is replaced by the   *)
(* register's value.  Its number is read from memory at that number.       *)
FetchRegister(o) ==
    /\ Fetch(o) /\ Depth > 0 /\ Get(0) \in live /\ "REGISTER_LOC" \in type[Get(0)]
    /\ LET addr == word[Get(0)] IN
       \/ addr \notin DOMAIN Mem /\ Fault("bad_address")
       \/ /\ addr \in DOMAIN Mem /\ Mem[addr] \notin DOMAIN Regs
          /\ Record(o) /\ phase' = "failed" /\ UNCHANGED <<heap, op, fault>>
       \/ /\ addr \in DOMAIN Mem /\ Mem[addr] \in DOMAIN Regs
          /\ Record(o) /\ op' = o /\ phase' = "exec"
          /\ word' = [word EXCEPT ![Get(0)] = Regs[Mem[addr]]]
          /\ type' = [type EXCEPT ![Get(0)] = {"GENERIC"}]
          /\ UNCHANGED <<values, live, fault>>

(* pst_dwarf_stack_get_value, called when calc has returned whatever it     *)
(* returned.  The stack does not change; StackValue is what it stores.      *)
StackValue ==
    LET w == word[Get(0)] IN
    CASE "REGISTER_LOC" \in type[Get(0)] -> Regs[w]
      [] "MEMORY_LOC" \in type[Get(0)]   -> Mem[w]
      [] OTHER                           -> w

GetValue ==
    /\ phase \in {"ok", "failed"} /\ Depth > 0
    /\ CASE Get(0) \notin live               -> Fault("use_after_free")
         [] "REGISTER_LOC" \in type[Get(0)]  -> UNCHANGED vars
         [] /\ type[Get(0)] \cap {"REGISTER_LOC", "MEMORY_LOC"} = {"MEMORY_LOC"}
            /\ word[Get(0)] \notin DOMAIN Mem -> Fault("bad_address")
         [] OTHER                            -> UNCHANGED vars

-----------------------------------------------------------------------------
(* Operations that push *)

Exec(atom) == phase = "exec" /\ op.atom = atom

dw_op_notimpl == Exec("notimpl") /\ Fail /\ UNCHANGED heap

dw_op_addr == Exec("addr") /\ Push(op.arg1, 8, {"GENERIC"}) /\ Succeed

SizeType(n) == IF n = 1 THEN "CHAR" ELSE IF n = 2 THEN "SHORT"
               ELSE IF n = 4 THEN "INT" ELSE "LONG"

(* The signed constants go the same way: the sign is neither extended nor  *)
(* recorded in the type.                                                   *)
dw_op_const_x_u ==
    Exec("const_u") /\ Push(op.arg1, op.n, {SizeType(op.n), "CONST", "GENERIC"}) /\ Succeed

dw_op_const_x_s ==
    Exec("const_s") /\ Push(op.arg1, op.n, {SizeType(op.n), "CONST", "GENERIC"}) /\ Succeed

(* The LEB128 operands are decoded a second time. *)
dw_op_constu ==
    /\ Exec("constu")
    /\ \E w \in decode_uleb128(op.arg1) :
          Push(w, 8, {"LONG", "UNSIGNED", "CONST", "GENERIC"})
    /\ Succeed

dw_op_consts ==
    /\ Exec("consts")
    /\ \E w \in decode_sleb128(op.arg1) :
          Push(w, 8, {"LONG", "SIGNED", "CONST", "GENERIC"})
    /\ Succeed

dw_op_lit_x == Exec("lit") /\ Push(op.n, 8, {"GENERIC"}) /\ Succeed

dw_op_reg_x ==
    \/ Exec("reg") /\ Push(op.n, 8, {"REGISTER_LOC"}) /\ Succeed
    \/ /\ Exec("regx")
       /\ \E w \in decode_uleb128(op.arg1) : Push(w, 8, {"REGISTER_LOC"})
       /\ Succeed

dw_op_breg_x ==
    \E regno \in IF op.atom = "bregx" THEN decode_uleb128(op.arg1) ELSE {op.n} :
    \E off \in decode_sleb128(IF op.atom = "bregx" THEN op.arg2 ELSE op.arg1) :
        /\ Exec("breg") \/ Exec("bregx")
        /\ IF regno \in DOMAIN Regs
           THEN Push(AsWord(Regs[regno] + off), 8, {"GENERIC"}) /\ Succeed
           ELSE Fail /\ UNCHANGED heap

dw_op_call_frame_cfa == Exec("call_frame_cfa") /\ Push(CFA, 8, {"GENERIC"}) /\ Succeed

dw_op_fbreg ==
    /\ Exec("fbreg")
    /\ \E off \in decode_sleb128(op.arg1) :
          Push(AsWord(CFA + off), 8, {"MEMORY_LOC", "GENERIC"})
    /\ Succeed
(* Handled in the loop itself.  The sub-expression that is looked up is    *)
(* the one of the first operation of the expression (exprs, not &exprs[i]),*)
(* the parameter's value comes from the caller's call sites, if it is      *)
(* there.                                                                  *)
GNU_entry_value ==
    /\ Exec("GNU_entry_value")
    /\ \/ Fail /\ UNCHANGED heap
       \/ entry /\ \E w \in ParamValues : Push(w, 8, {"GENERIC"}) /\ Succeed

-----------------------------------------------------------------------------
(* Operations on what is there *)

(* DW_OP_deref is DW_OP_deref_size with size 8.  The popped address is not *)
(* freed, and not put back when the size is wrong.                         *)
dw_op_deref_size ==
    LET size == IF op.atom = "deref" THEN 8 ELSE op.arg1
        addr == word[Get(0)]
    IN
    /\ Exec("deref") \/ Exec("deref_size")
    /\ \/ Depth = 0 /\ Fail /\ UNCHANGED heap
       \/ /\ Depth > 0 /\ size \notin Sizes
          /\ Relink(Below(1), {}) /\ Fail
       \/ Depth > 0 /\ size \in Sizes /\ addr \notin DOMAIN Mem /\ Fault("bad_address")
       \/ /\ Depth > 0 /\ size \in Sizes /\ addr \in DOMAIN Mem
          /\ Replace(Mem[addr] % Modulus(size), 8, {"GENERIC"}, {}, Below(1))
          /\ Succeed

PushCopy(idx) == Push(word[Get(idx)], 8, type[Get(idx)]) /\ Succeed

dw_op_dup ==
    Exec("dup") /\ IF Depth = 0 THEN Fault("null_pointer") ELSE PushCopy(0)

dw_op_over ==
    Exec("over") /\ IF Depth = 0 THEN Fault("null_pointer") ELSE PushCopy(1)

dw_op_pick ==
    Exec("pick") /\ IF Depth = 0 THEN Fail /\ UNCHANGED heap ELSE PushCopy(op.arg1)

(* Mutant: the popped value is not freed. *)
dw_op_drop_NoFini ==
    /\ Exec("drop")
    /\ IF Depth = 0 THEN Fault("assertion")
       ELSE Relink(Below(1), {}) /\ Succeed

dw_op_drop ==
    /\ Exec("drop")
    /\ IF Depth = 0 THEN Fault("assertion")
       ELSE Relink(Below(1), {Get(0)}) /\ Succeed

(* swap and rot pop all they need first and free what they got when it is  *)
(* not enough.                                                             *)
Permute(n, perm) ==
    IF Depth >= n
    THEN Relink([i \in 1 .. n |-> values[perm[i]]] \o Below(n), {}) /\ Succeed
    ELSE Relink(<<>>, Linked) /\ Fail

dw_op_swap == Exec("swap") /\ Permute(2, <<2, 1>>)

(* Mutant: the values are pushed back in the wrong order. *)
dw_op_rot_Reversed == Exec("rot") /\ Permute(3, <<3, 1, 2>>)

dw_op_rot == Exec("rot") /\ Permute(3, <<2, 3, 1>>)

(* Operations that write the top value in place. *)
InPlace(w, t, result) ==
    IF Depth = 0 THEN Fail /\ UNCHANGED heap
    ELSE /\ word' = [word EXCEPT ![Get(0)] = w]
         /\ type' = [type EXCEPT ![Get(0)] = t]
         /\ UNCHANGED <<values, live>> /\ result

(* The value is computed and the operation is reported as failed. *)
dw_op_abs ==
    LET i == AsSigned(word[Get(0)]) IN
    Exec("abs") /\ InPlace(IF i < 0 THEN -i ELSE i, {"UNSIGNED", "GENERIC", "LONG"}, Fail)

(* Only as many bytes as the value's type says are negated. *)
dw_op_neg ==
    LET w == word[Get(0)]
        t == type[Get(0)]
        m == Modulus(CASE "CHAR" \in t -> 1 [] "SHORT" \in t -> 2
                       [] "INT" \in t -> 4 [] OTHER -> 8)
    IN
    Exec("neg") /\ InPlace((w - (w % m)) + ((m - (w % m)) % m), t, Succeed)

dw_op_not == Exec("not") /\ InPlace(BitNot(word[Get(0)]), type[Get(0)], Succeed)

dw_op_plus_uconst ==
    /\ Exec("plus_uconst")
    /\ \E k \in decode_uleb128(op.arg1) :
          InPlace(AsWord(word[Get(0)] + k), type[Get(0)], Succeed)

dw_op_stack_value ==
    Exec("stack_value") /\ InPlace(word[Get(0)], {"GENERIC"}, Succeed)

-----------------------------------------------------------------------------
(* Operations on the two topmost values, value1 = get(0) and value2 =      *)
(* get(1).  With a single value both are the same object.                  *)

W1 == word[Get(0)]
W2 == word[Get(1)]
Signed(idx) == "SIGNED" \in type[Get(idx)]

Operands == Depth > 0 /\ type[Get(0)] \cap type[Get(1)] # {}

(* An operation with no operands, or of unlike types, or by zero. *)
Reject == Fail /\ UNCHANGED heap

(* The operands are popped and stay allocated. *)
Result(w, t) == Replace(w, 8, t, {}, Below(2)) /\ Succeed

(* Mutant: one operand is popped, both are freed. *)
FreeingResult_OnePop(w, t) ==
    IF Depth = 1 THEN Fault("double_free")
    ELSE Replace(w, 8, t, {Get(0), Get(1)}, Below(1)) /\ Succeed

(* The operands are popped and freed, one after the other. *)
FreeingResult(w, t) ==
    IF Depth = 1 THEN Fault("double_free")
    ELSE Replace(w, 8, t, {Get(0), Get(1)}, Below(2)) /\ Succeed

dw_op_and ==
    Exec("and") /\ IF Operands THEN FreeingResult(BitAnd(W1, W2), {"GENERIC"}) ELSE Reject

dw_op_or ==
    Exec("or") /\ IF Operands THEN FreeingResult(BitOr(W2, W1), type[Get(0)]) ELSE Reject

(* Mutant: the result is not generic. *)
dw_op_minus_NotGeneric ==
    /\ Exec("minus")
    /\ IF Operands
       THEN Result(AsWord(W2 - W1), {"UNSIGNED"} \cup (type[Get(1)] \cap {"MEMORY_LOC"}))
       ELSE Reject

dw_op_minus ==
    /\ Exec("minus")
    /\ IF Operands
       THEN Result(AsWord(W2 - W1), {"GENERIC"} \cup (type[Get(1)] \cap {"MEMORY_LOC"}))
       ELSE Reject

dw_op_mod ==
    /\ Exec("mod")
    /\ IF Operands /\ W1 # 0 THEN Result(W2 % W1, {"UNSIGNED", "GENERIC"}) ELSE Reject

(* One signed operand makes the result signed, two make it unsigned. *)
ResultType == {IF Signed(0) # Signed(1) THEN "SIGNED" ELSE "UNSIGNED", "GENERIC"}

dw_op_mul ==
    Exec("mul") /\ IF Operands THEN Result(Times(W2, W1), ResultType) ELSE Reject

(* The division is signed only when both operands are. *)
dw_op_div ==
    /\ Exec("div")
    /\ IF ~Operands \/ W1 = 0 THEN Reject
       ELSE IF ~(Signed(0) /\ Signed(1)) THEN Result(W2 \div W1, ResultType)
       ELSE IF AsSigned(W1) = -1 /\ 2 * W2 = WordSize THEN Fault("division")
       ELSE Result(SignedDiv(W2, W1), ResultType)

(* The result is pushed before the operands are popped: the two pops take   *)
(* the result and value1, and value2 is freed on the stack.                 *)
dw_op_plus ==
    LET t == IF Signed(0) /\ Signed(1) THEN type[Get(0)]
             ELSE (type[Get(0)] \ {"SIGNED"}) \cup {"UNSIGNED"}
    IN
    /\ Exec("plus")
    /\ IF ~Operands THEN Reject
       ELSE IF Depth = 1 THEN Fault("double_free")
       ELSE RelinkNew(Below(1), {Get(0), Get(1)}, AsWord(W2 + W1), 8, t) /\ Succeed

-----------------------------------------------------------------------------
Handler ==
    \/ dw_op_notimpl \/ dw_op_addr \/ dw_op_const_x_u \/ dw_op_const_x_s
    \/ dw_op_constu \/ dw_op_consts \/ dw_op_lit_x \/ dw_op_reg_x \/ dw_op_breg_x
    \/ dw_op_call_frame_cfa \/ dw_op_fbreg \/ dw_op_deref_size \/ dw_op_dup
    \/ dw_op_over \/ dw_op_pick \/ dw_op_drop \/ dw_op_swap \/ dw_op_rot
    \/ dw_op_abs \/ dw_op_neg \/ dw_op_not \/ dw_op_plus_uconst
    \/ dw_op_stack_value \/ dw_op_and \/ dw_op_or \/ dw_op_minus \/ dw_op_mod
    \/ dw_op_mul \/ dw_op_div \/ dw_op_plus \/ GNU_entry_value

Next ==
    /\ fault = "none"
    /\ \/ Calc \/ CalcReturn \/ Fini \/ GetValue \/ Handler
       \/ \E o \in Ops : FetchUnknown(o) \/ FetchPlain(o) \/ FetchStale(o) \/ FetchRegister(o)

Spec == Init /\ [][Next]_vars

-----------------------------------------------------------------------------
(* Properties *)

(* Objects on the stack are distinct and, below the top, allocated; only    *)
(* the top may have been freed.  A handler that frees what it left linked,  *)
(* or links an object twice, breaks it for a later pop or for the clear.    *)
Owned ==
    /\ \A i, j \in 1 .. Depth : values[i] = values[j] => i = j
    /\ \A i \in 2 .. Depth : values[i] \in live

(* All values have the generic type, but for a register location that the   *)
(* last operation left on top.  So the operands of a binary operation always*)
(* have a type in common: its test for unlike types never rejects one.      *)
IsRegister(i) == "REGISTER_LOC" \in type[i]

GenericOK ==
    \A k \in 1 .. Depth : values[k] \in live =>
        IF IsRegister(values[k])
        THEN k = 1 /\ phase # "exec"
        ELSE "GENERIC" \in type[values[k]]
=============================================================================
