------------------------------- MODULE Printer -------------------------------
(***************************************************************************)
(* What the library prints into the one buffer of its context: the trace,  *)
(* pretty or simple, and, while the debug information is handled, registers *)
(* and expressions.  src/context.c, and the print functions of             *)
(* src/dwarf/dwarf_handler.c, dwarf_function.c and dwarf_parameter.c.      *)
(*                                                                         *)
(* Text is a sequence of words, each taken to be one character long; a     *)
(* piece is what one call of ctx->print adds.                              *)
(***************************************************************************)
EXTENDS Naturals, Sequences, FiniteSets, SequencesExt

CONSTANTS
    Size,       \* of the buffer
    Functions,  \* the functions of the program
    Info,       \* their names and what the debug information says of their parameters
    Exprs,      \* location expressions
    Expr,       \* their operations
    Rank,       \* how deep values at entry are nested in an expression
    Registers,  \* how many registers there are
    None,
    MaxFunctions, MaxPasses  \* bounds on the trace and on how often it is handled

ASSUME SizeAssumption == Size \in Nat \ {0} /\ Registers \in Nat

Names == STRING \cup {None}
ArgType == [flags : SUBSET STRING, types : Seq(STRING), type_name : Names]
ParamType == [name : Names, flags : SUBSET STRING, types : Seq(STRING), type_name : Names,
              value : Names, children : Seq(ArgType)]

ASSUME InfoAssumption ==
    \A f \in Functions : /\ Info[f].name \in STRING /\ Info[f].file \in BOOLEAN
                         /\ Info[f].params \in Seq(ParamType)
ASSUME RankAssumption ==
    \A e \in Exprs :
        /\ Expr[e] \in Seq([name : STRING, sub : Exprs \cup {None}]) /\ Rank[e] \in Nat
        /\ \A i \in 1 .. Len(Expr[e]) : Expr[e][i].sub \in Exprs => Rank[Expr[e][i].sub] < Rank[e]
ASSUME NoneAssumption == None \notin Exprs
(* The return value comes first (it is handled first) and is no variable,   *)
(* and debug information lists parameters before variables.                 *)
ASSUME OrderAssumption ==
    \A f \in Functions : LET p == Info[f].params IN
        \A i \in 1 .. Len(p) :
            /\ "RETURN" \in p[i].flags => i = 1 /\ "VARIABLE" \notin p[i].flags
            /\ "VARIABLE" \in p[i].flags => \A j \in i .. Len(p) : "VARIABLE" \in p[j].flags

VARIABLES
    functions,  \* the functions of the trace
    params,     \* and their parameters
    passes,     \* how often the debug information was handled
    buf,        \* text: ctx->buff; offset: ctx->offset; printed: all that was printed since
                \* it was cleaned; fault: something was written past it
    phase,      \* what is being done
    fn, param, first, start_variable,  \* the loops of the print functions
    calls,      \* the calls of print_expr in progress, the innermost first
    asked       \* what was printed last

trace == <<functions, params, passes>>
loop == <<fn, param, first, start_variable>>
vars == <<trace, buf, phase, loop, calls, asked>>

Nothing == [op |-> "nothing", expr |-> None, attr |-> FALSE, undef |-> {}]
Other == [Nothing EXCEPT !.op = "other"]

(* pst_context_init leaves the buffer and the offset as they are. *)
Init ==
    /\ functions = <<>> /\ params = <<>> /\ passes = 0
    /\ \E n \in 0 .. Size + 1 :
          buf = [text |-> [i \in 1 .. Size |-> "?"], offset |-> n, printed |-> <<>>, fault |-> FALSE]
    /\ phase = "ready" /\ fn = 0 /\ param = 0 /\ first = TRUE /\ start_variable = FALSE
    /\ calls = <<>> /\ asked = Nothing

-----------------------------------------------------------------------------
(* The buffer *)

Clean(b) == [text |-> <<>>, offset |-> 0, printed |-> <<>>, fault |-> b.fault]

UpTo(s, n) == SubSeq(s, 1, IF Len(s) < n THEN Len(s) ELSE n)

(* Mutant: the limit is that of the whole buffer. *)
Put_WholeSize(b, s) ==
    IF b.offset > Size THEN [b EXCEPT !.fault = TRUE]
    ELSE [b EXCEPT !.text = UpTo(@, b.offset) \o UpTo(s, Size - 1),
                   !.offset = @ + Len(s), !.printed = @ \o s]

(* vsnprintf writes as much as fits, and returns what it would have written. *)
(* Past the end of the buffer the limit is negative, which is no limit.      *)
Put(b, s) ==
    IF b.offset > Size THEN [b EXCEPT !.fault = TRUE]
    ELSE [b EXCEPT !.text = UpTo(UpTo(@, b.offset) \o s, Size - 1),
                   !.offset = @ + Len(s), !.printed = @ \o s]

PutAll(b, pieces) ==
    LET put[i \in 0 .. Len(pieces)] == IF i = 0 THEN b ELSE Put(put[i - 1], pieces[i])
    IN put[Len(pieces)]

-----------------------------------------------------------------------------
(* The text of a parameter, in pieces *)

Qualifier(t) ==
    IF t \in {"CONST", "VOLATILE", "STRUCT", "UNION", "ENUM", "CLASS"} THEN <<<<t>>>> ELSE <<>>

Mark(p, t) ==
    CASE t = "POINTER" /\ "FUNCPTR" \notin p.flags -> <<<<"*">>>>
      [] t = "REF" -> <<<<"&">>>>
      [] t = "RREF" -> <<<<"&&">>>>
      [] t = "ARRAY" -> <<<<"[]">>>>
      [] OTHER -> <<>>

Word(w) == IF w = None THEN <<>> ELSE <<w>>

(* parameter_print_type: a parameter without types has no text. *)
TypePieces(p) ==
    IF p.types = <<>> THEN <<>>
    ELSE Qualifier(p.types[1]) \o <<Word(p.type_name)>>
         \o FlattenSeq([i \in 1 .. Len(p.types) |-> Mark(p, p.types[i])])

(* The children of a function pointer but for the return value. *)
ChildPieces(p) ==
    LET n == Len(p.children) IN
    FlattenSeq([i \in 1 .. n |->
        IF "RETURN" \in p.children[i].flags THEN <<>>
        ELSE TypePieces(p.children[i]) \o <<IF i < n THEN <<",">> ELSE <<>>>>])

ValuePieces(p) ==
    IF "HAS_VALUE" \notin p.flags THEN <<<<"<undefined>">>>>
    ELSE <<<<p.value>>>> \o IF "INVALID" \in p.flags /\ p.value # "0" THEN <<<<"<invalid>">>>> ELSE <<>>

(* parameter_print *)
ParamPieces(p) ==
    TypePieces(p)
    \o IF "RETURN" \in p.flags THEN <<>>
       ELSE (IF "FUNCPTR" \in p.flags
             THEN <<<<"(*", p.name, ")(">>>> \o ChildPieces(p) \o <<<<") =">>>>
             ELSE <<<<p.name, "=">>>>)
            \o ValuePieces(p)

At(f) == IF Info[f].file THEN <<"at", "file", "pc">> ELSE <<"at", "pc">>

-----------------------------------------------------------------------------
(* Unwinding, and the passes over the functions *)

Sound == ~buf.fault
Ready == Sound /\ phase = "ready"

Unwind ==
    /\ Ready /\ Len(functions) < MaxFunctions
    /\ \E f \in Functions : functions' = Append(functions, f) /\ params' = Append(params, <<>>)
    /\ asked' = IF asked = Nothing THEN Nothing ELSE Other
    /\ UNCHANGED <<passes, buf, phase, loop, calls>>

HandleDwarf ==
    /\ Ready /\ functions # <<>> /\ passes < MaxPasses
    /\ buf' = Clean(buf) /\ phase' = "pass" /\ asked' = Other
    /\ UNCHANGED <<trace, loop, calls>>

(* Every function gets the parameters of its debug information, once more if *)
(* it has them already.                                                      *)
HandleEnd ==
    /\ Sound /\ phase = "pass" /\ phase' = "ready"
    /\ params' = [i \in 1 .. Len(functions) |-> params[i] \o Info[functions[i]].params]
    /\ passes' = passes + 1
    /\ UNCHANGED <<functions, buf, loop, calls, asked>>

(* print_registers; a register that cannot be read is shown as such. *)
PrintRegisters ==
    /\ Sound /\ phase = "pass"
    /\ \E undef \in SUBSET (1 .. Registers) :
          /\ buf' = PutAll(Clean(buf), [i \in 1 .. Registers |->
                        <<"register", IF i \in undef THEN "<undef>" ELSE "value">>])
          /\ asked' = [Nothing EXCEPT !.op = "registers", !.undef = undef]
    /\ UNCHANGED <<trace, phase, loop, calls>>

-----------------------------------------------------------------------------
(* print_expr_block *)

ExprCall(e, a) == [expr |-> e, at |-> 1, attr |-> a, nested |-> FALSE]
Top == Head(calls)
Caller == Tail(calls)
Ops == Expr[Top.expr]
Op == Ops[Top.at]
Step == <<[Top EXCEPT !.at = @ + 1, !.nested = FALSE]>> \o Caller

Describe ==
    /\ Sound /\ phase = "pass"
    /\ \E e \in Exprs, a \in BOOLEAN :
          calls' = <<ExprCall(e, a)>> /\ asked' = [Nothing EXCEPT !.op = "expr", !.expr = e, !.attr = a]
    /\ buf' = Clean(buf) /\ phase' = "expr"
    /\ UNCHANGED <<trace, loop>>

Describing == Sound /\ phase = "expr" /\ calls # <<>> /\ UNCHANGED <<trace, loop, phase, asked>>
AtOp(entry) ==
    Describing /\ ~Top.nested /\ Top.at <= Len(Ops) /\ (Op.name = "GNU_entry_value") = entry

PrintOp ==
    /\ AtOp(FALSE)
    /\ buf' = Put(buf, <<Op.name>>) /\ calls' = Step

EntryWithoutAttr ==
    /\ AtOp(TRUE) /\ ~Top.attr
    /\ calls' = Caller /\ UNCHANGED buf

(* The sub-expression is looked up for the first operation, not for this one. *)
EntryWithoutExpr ==
    /\ AtOp(TRUE) /\ Top.attr /\ Ops[1].sub = None
    /\ buf' = Put(buf, <<Op.name>>) /\ calls' = Caller

(* The nested call cleans the buffer. *)
PrintEntry ==
    /\ AtOp(TRUE) /\ Top.attr /\ Ops[1].sub # None
    /\ buf' = LET b == Put(buf, <<Op.name>>) IN IF b.fault THEN b ELSE Clean(b)
    /\ calls' = <<ExprCall(Ops[1].sub, TRUE), [Top EXCEPT !.nested = TRUE]>> \o Caller

EntryDone ==
    /\ Describing /\ Top.nested
    /\ buf' = Put(buf, <<")">>) /\ calls' = Step

ExprDone ==
    /\ Describing /\ ~Top.nested /\ Top.at > Len(Ops)
    /\ calls' = Caller /\ UNCHANGED buf

DescribeEnd ==
    /\ Sound /\ phase = "expr" /\ calls = <<>> /\ phase' = "pass"
    /\ UNCHANGED <<trace, buf, loop, calls, asked>>

-----------------------------------------------------------------------------
(* pst_print_simple and pst_print_pretty *)

PrintTrace(op, b) ==
    /\ Ready /\ buf' = b /\ phase' = op /\ asked' = [Nothing EXCEPT !.op = op]
    /\ fn' = 1 /\ param' = 0 /\ UNCHANGED <<trace, first, start_variable, calls>>

PrintSimple == PrintTrace("simple", Clean(buf))

(* Mutant: the text printed before is left in place. *)
PrintPretty_Append == PrintTrace("pretty", buf)

PrintPretty == PrintTrace("pretty", Clean(buf))

Printing(op) == Sound /\ phase = op /\ fn <= Len(functions) /\ UNCHANGED <<trace, phase, calls, asked>>

(* function_print_simple *)
PrintSimpleFunction ==
    /\ Printing("simple")
    /\ buf' = PutAll(buf, <<<<"[n]">>, <<Info[functions[fn]].name, "()">>, At(functions[fn]), <<"\n">>>>)
    /\ fn' = fn + 1 /\ UNCHANGED <<param, first, start_variable>>

Name == Info[functions[fn]].name
Params == params[fn]
Param == Params[param]
HeadPieces == <<<<")">> \o At(functions[fn]) \o <<"\n">>>>

PrintHead ==
    /\ Printing("pretty") /\ param = 0
    /\ IF Params # <<>> /\ "RETURN" \in Params[1].flags
       THEN /\ buf' = PutAll(buf, <<<<"[n]">>>> \o ParamPieces(Params[1]) \o <<<<Name, "(">>>>)
            /\ param' = 2
       ELSE /\ buf' = PutAll(buf, <<<<"[n]">>, <<Name, "(">>>>)
            /\ param' = 1
    /\ first' = TRUE /\ start_variable' = FALSE /\ UNCHANGED fn

NextParam == Printing("pretty") /\ param \in 1 .. Len(Params) /\ param' = param + 1 /\ UNCHANGED fn

(* A return value further on, of a function that was handled again. *)
PrintReturn ==
    /\ NextParam /\ "RETURN" \in Param.flags
    /\ buf' = PutAll(buf, ParamPieces(Param) \o <<<<Name, "(">>>>)
    /\ UNCHANGED <<first, start_variable>>

PrintVariable ==
    /\ NextParam /\ "RETURN" \notin Param.flags /\ "VARIABLE" \in Param.flags
    /\ buf' = PutAll(buf, (IF start_variable THEN <<>> ELSE HeadPieces \o <<<<"{", "\n">>>>)
                            \o <<<<"line">>>> \o ParamPieces(Param) \o <<<<";", "\n">>>>)
    /\ start_variable' = TRUE /\ UNCHANGED first

PrintParam ==
    /\ NextParam /\ Param.flags \cap {"RETURN", "VARIABLE"} = {}
    /\ buf' = PutAll(buf, (IF first THEN <<>> ELSE <<<<",">>>>) \o ParamPieces(Param))
    /\ first' = FALSE /\ UNCHANGED start_variable

PrintTail ==
    /\ Printing("pretty") /\ param > Len(Params)
    /\ buf' = PutAll(buf, (IF start_variable THEN <<<<"}", "\n">>>> ELSE HeadPieces) \o <<<<"\n">>>>)
    /\ fn' = fn + 1 /\ param' = 0 /\ UNCHANGED <<first, start_variable>>

PrintEnd ==
    /\ Sound /\ phase \in {"simple", "pretty"} /\ fn > Len(functions) /\ phase' = "ready"
    /\ UNCHANGED <<trace, buf, loop, calls, asked>>

-----------------------------------------------------------------------------
Next ==
    \/ Unwind \/ HandleDwarf \/ HandleEnd \/ PrintRegisters
    \/ Describe \/ PrintOp \/ EntryWithoutAttr \/ EntryWithoutExpr \/ PrintEntry \/ EntryDone
    \/ ExprDone \/ DescribeEnd
    \/ PrintSimple \/ PrintSimpleFunction
    \/ PrintPretty \/ PrintHead \/ PrintReturn \/ PrintVariable \/ PrintParam \/ PrintTail \/ PrintEnd

Spec == Init /\ [][Next]_vars

-----------------------------------------------------------------------------
(* Properties *)

(* Once anything was printed, the buffer holds the longest beginning of it   *)
(* that fits with the final 0; and only a print that follows one which was   *)
(* cut by more than the final 0 writes past the buffer.                      *)
BufferOK ==
    phase # "ready" \/ asked # Nothing =>
        IF buf.fault THEN Len(buf.printed) > Size
        ELSE buf.text = UpTo(buf.printed, Size - 1)

Texts(s, T(_)) == FlattenSeq([i \in 1 .. Len(s) |-> T(s[i])])

SimpleText(i) == LET f == functions[i] IN <<"[n]", Info[f].name, "()">> \o At(f) \o <<"\n">>

Plain(p) == FlattenSeq(ParamPieces(p))
ReturnText(p) == IF "RETURN" \in p.flags THEN Plain(p) ELSE <<>>
FormalText(p) == IF p.flags \cap {"RETURN", "VARIABLE"} = {} THEN <<",">> \o Plain(p) ELSE <<>>
VariableText(p) ==
    IF "VARIABLE" \in p.flags THEN <<"line">> \o Plain(p) \o <<";", "\n">> ELSE <<>>

(* [n] type name(parameter, parameter) at file, pc { variable; variable; } *)
PrettyText(i) ==
    LET f == functions[i]
        formals == Texts(params[i], FormalText)
        variables == Texts(params[i], VariableText)
    IN <<"[n]">> \o Texts(params[i], ReturnText) \o <<Info[f].name, "(">>
       \o (IF formals = <<>> THEN <<>> ELSE Tail(formals))
       \o <<")">> \o At(f) \o <<"\n">>
       \o (IF variables = <<>> THEN <<>> ELSE <<"{", "\n">> \o variables \o <<"}", "\n">>)
       \o <<"\n">>

OpName(o) == <<o.name>>

IsEntry(o) == o.name = "GNU_entry_value"

(* What is left of an expression: from the last value at entry on, with the  *)
(* sub-expression that belongs to the first operation.                       *)
ExprText[e \in Exprs] ==
    LET ops == Expr[e]
        lowest == SelectInSeq(ops, IsEntry)
        last == SelectLastInSeq(ops, IsEntry)
    IN IF lowest = 0 THEN Texts(ops, OpName)
       ELSE IF ops[1].sub = None THEN Texts(SubSeq(ops, 1, lowest), OpName)
       ELSE ExprText[ops[1].sub] \o <<")">> \o Texts(SubSeq(ops, last + 1, Len(ops)), OpName)

(* Without an attribute, what comes before the first value at entry. *)
WithoutAttr(e) ==
    LET lowest == SelectInSeq(Expr[e], IsEntry) IN
    Texts(IF lowest = 0 THEN Expr[e] ELSE SubSeq(Expr[e], 1, lowest - 1), OpName)

(* When a print function or a description has returned, it has printed what  *)
(* was asked for and nothing of what was printed before: each function of    *)
(* the trace with its parameters in parentheses and its variables in braces, *)
(* if the trace was handled once at most.                                    *)
TextWhole ==
    Sound =>
        CASE phase = "ready" /\ asked.op = "simple" ->
                buf.printed = FlattenSeq([i \in 1 .. Len(functions) |-> SimpleText(i)])
          [] phase = "ready" /\ asked.op = "pretty" /\ passes < 2 ->
                buf.printed = FlattenSeq([i \in 1 .. Len(functions) |-> PrettyText(i)])
          [] phase = "pass" /\ asked.op = "expr" ->
                buf.printed = IF asked.attr THEN ExprText[asked.expr] ELSE WithoutAttr(asked.expr)
          [] phase = "pass" /\ asked.op = "registers" ->
                buf.printed = FlattenSeq([i \in 1 .. Registers |->
                    <<"register", IF i \in asked.undef THEN "<undef>" ELSE "value">>])
          [] OTHER -> TRUE
=============================================================================
