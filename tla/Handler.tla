------------------------------ MODULE Handler ------------------------------
(***************************************************************************)
(* A libpst handler: the stack is unwound into a list of functions, the    *)
(* innermost first (pst_unwind_simple), and the debug information of the   *)
(* functions is evaluated from the outermost inwards (pst_unwind_pretty),  *)
(* because a callee looks the values of its parameters at entry up in the  *)
(* call sites of its caller.  src/dwarf/dwarf_handler.c, the functions of  *)
(* src/dwarf/dwarf_function.c it calls, and src/libpst.c.                  *)
(*                                                                         *)
(* The stack and the debug information are those of the program the        *)
(* library is linked with.  Expressions are not evaluated here (see        *)
(* DwarfStack): what matters is in which context they would be.  The call  *)
(* sites of a function are the set of callees that CallSites can find.     *)
(***************************************************************************)
EXTENDS Naturals, Sequences, FiniteSets, SequencesExt

CONSTANTS
    Fns,         \* heap objects: pst_function
    PCs,         \* addresses in the program
    Names,       \* names of functions
    Stacks,      \* the stacks there may be: sequences of PCs, innermost first
    Unreadable,  \* the frames whose registers libunwind cannot read
    Callers,     \* the interrupted address if called from a signal handler, or NULL
    LineAddr,    \* the address of the row of the line table an address belongs to
    FunctionAt,  \* the name of the function at an address, or NULL
    Children,    \* the child DIEs of the functions with debug information
    NoReturn,    \* the functions whose return type cannot be handled
    NULL, Undefined,
    MaxCalls     \* bound on the unwindings and passes of one handler

ASSUME NullAssumption == NULL \notin Fns \cup PCs \cup Names /\ Undefined \notin Fns
ASSUME ProgramAssumption ==
    /\ Stacks \subseteq Seq(PCs) /\ Unreadable \subseteq PCs
    /\ Callers \subseteq PCs \cup {NULL}
    /\ LineAddr \in [PCs -> PCs] /\ FunctionAt \in [PCs -> Names \cup {NULL}]
    /\ DOMAIN Children \subseteq Names
    /\ \A n \in DOMAIN Children : Children[n] \in Seq(Range(Children[n]))
    /\ \A n \in DOMAIN Children : \A i \in 1 .. Len(Children[n]) :
          /\ Children[n][i].tag \in {"variable", "entry_variable", "call_site", "unspecified"}
          /\ Children[n][i].tag = "call_site" => Children[n][i].callee \in Names

VARIABLES
    functions,                \* h->functions
    live,                     \* the functions that are allocated
    pc, level, parent, cfa,   \* fields: pc, the frame of context, parent, info.cfa
    trace,                    \* the unwinding that has added a function
    params, sites,            \* fields: the parameters, the callees of the call sites
    ctx,                      \* h->ctx: curr_frame and cfa
    caller, session,          \* h->ctx.hcontext, whether h->ctx.dwfl is set
    phase,                    \* what the handler is doing
    stack, step, skip,        \* pst_handler_unwind_simple
    first, lost,              \* what was on the list before, the frames given up
    resume,                   \* where pst_handler_unwind_simple returns to
    fun, child,               \* pst_handler_handle_dwarf, function_handle_dwarf
    unwinds, passes           \* calls so far

fields  == <<pc, level, trace, parent, cfa, params, sites>>
results == <<functions, live, fields>>
unwound == <<stack, step, skip, first, lost, resume>>
calls   == <<unwinds, passes>>
handler == <<caller, session>>
vars == <<results, ctx, handler, phase, unwound, fun, child, calls>>

FnOrNull == Fns \cup {NULL}

(* What a parameter's value was computed from: a frame (the function's own  *)
(* or its caller's), or nothing.                                            *)
Param == [die : Nat, from : Fns \cup {Undefined}]

TypeOK ==
    /\ functions \in Seq(Fns) /\ live \subseteq Fns
    /\ pc \in [Fns -> PCs \cup {NULL}] /\ level \in [Fns -> Nat] /\ trace \in [Fns -> Nat]
    /\ parent \in [Fns -> FnOrNull] /\ cfa \in [Fns -> Fns \cup {Undefined}]
    /\ params \in [Fns -> Seq(Param)] /\ sites \in [Fns -> SUBSET Names]
    /\ ctx \in [curr_frame : FnOrNull, cfa : Fns \cup {Undefined, NULL}]
    /\ phase \in {"ready", "unwind", "handle", "children", "crashed"}
    /\ resume \in {"ready", "handle"}
    /\ stack \in Seq(PCs) /\ step \in Nat /\ skip \in BOOLEAN
    /\ first \in Nat /\ lost \subseteq Nat
    /\ fun \in FnOrNull /\ (fun # NULL) = (phase \in {"handle", "children", "crashed"})
    /\ child \in Nat /\ unwinds \in Nat /\ passes \in Nat
    /\ caller \in Callers /\ session \in BOOLEAN

Locals(s, i, k, f, l, r) == s = <<>> /\ i = 0 /\ k = TRUE /\ f = 0 /\ l = {} /\ r = "ready"

(* What pst_handler_init sets up, which is also what pst_handler_fini leaves. *)
NoFunctions(f, l, c, p, w, t, x, s) ==
    /\ f = <<>> /\ l = {}
    /\ c = [i \in Fns |-> NULL] /\ p = [i \in Fns |-> NULL]
    /\ w = [i \in Fns |-> 0] /\ t = [i \in Fns |-> 0] /\ x = [i \in Fns |-> Undefined]
    /\ s = [i \in Fns |-> {}]

NoCalls(p, x, s, u, w) ==
    /\ p = [i \in Fns |-> <<>>]
    /\ x = [curr_frame |-> NULL, cfa |-> NULL]
    /\ s = FALSE /\ u = 0 /\ w = 0

Init ==
    /\ NoFunctions(functions, live, pc, parent, level, trace, cfa, sites)
    /\ NoCalls(params, ctx, session, unwinds, passes)
    /\ caller \in Callers
    /\ phase = "ready" /\ Locals(stack, step, skip, first, lost, resume)
    /\ fun = NULL /\ child = 0

CanCall == phase = "ready" /\ unwinds + passes < MaxCalls

-----------------------------------------------------------------------------
(* pst_handler_unwind_simple *)

(* The first call may fail to open the session of libdw. *)
UnwindFails ==
    /\ CanCall /\ ~session
    /\ unwinds' = unwinds + 1
    /\ UNCHANGED <<results, ctx, handler, phase, unwound, fun, child, passes>>

Begin(next) ==
    \E s \in Stacks :
        /\ Len(s) <= Cardinality(Fns \ live)
        /\ unwinds' = unwinds + 1
        /\ session' = TRUE
        /\ stack' = s /\ step' = 1 /\ skip' = TRUE
        /\ first' = Len(functions) /\ lost' = {}
        /\ resume' = next /\ phase' = "unwind"

UnwindSimple ==
    /\ CanCall
    /\ Begin("ready")
    /\ UNCHANGED <<results, ctx, caller, fun, child, passes>>

InFrame == phase = "unwind" /\ step <= Len(stack)

(* Mutant: frames are skipped even after the interrupted one was met. *)
Skips_Always == caller # NULL /\ stack[step] # caller

(* Whether the frames up to the interrupted one are (still) to be skipped. *)
Skips == caller # NULL /\ stack[step] # caller /\ skip

UnwindSkip ==
    /\ InFrame
    /\ stack[step] \in Unreadable \/ Skips
    /\ step' = step + 1
    /\ UNCHANGED <<results, ctx, handler, phase, stack, skip, first, lost, resume, fun, child, calls>>

Keeps ==
    /\ InFrame /\ stack[step] \notin Unreadable /\ ~Skips
    /\ step' = step + 1
    /\ skip' = (skip /\ stack[step] # caller)
    /\ UNCHANGED <<ctx, handler, phase, stack, first, resume, fun, child, calls>>

(* A pst_function from the allocator; Begin has made sure there is one. *)
New == CHOOSE f \in Fns : f \notin live

(* Mutant: the new function, not the last one, gets the link. *)
UnwindFrame_Reversed ==
    /\ Keeps /\ live # Fns
    /\ functions' = Append(functions, New)
    /\ live' = live \cup {New}
    /\ pc' = [pc EXCEPT ![New] = LineAddr[stack[step]]]
    /\ level' = [level EXCEPT ![New] = step] /\ trace' = [trace EXCEPT ![New] = unwinds]
    /\ parent' = IF functions = <<>> THEN parent
                 ELSE [parent EXCEPT ![New] = functions[Len(functions)]]
    /\ UNCHANGED <<cfa, params, sites, lost>>

(* add_function and function_unwind, which replaces info.pc by the address  *)
(* of the row of the line table; the frame is kept in context.              *)
UnwindFrame ==
    /\ Keeps /\ live # Fns
    /\ functions' = Append(functions, New)
    /\ live' = live \cup {New}
    /\ pc' = [pc EXCEPT ![New] = LineAddr[stack[step]]]
    /\ level' = [level EXCEPT ![New] = step] /\ trace' = [trace EXCEPT ![New] = unwinds]
    /\ parent' = IF functions = <<>> THEN parent
                 ELSE [parent EXCEPT ![functions[Len(functions)]] = New]
    /\ UNCHANGED <<cfa, params, sites, lost>>

(* function_unwind fails for lack of memory for the name, if there is one:  *)
(* the function is removed again.                                           *)
UnwindLose ==
    /\ Keeps /\ FunctionAt[LineAddr[stack[step]]] # NULL
    /\ lost' = lost \cup {step}
    /\ UNCHANGED results

(* Mutant: the loop the source has commented out, from the innermost on. *)
Turns_Forward == functions

(* The functions in the order they are handled: last_function, prev_function. *)
Turns == Reverse(functions)

StartPass == /\ fun' = IF Turns = <<>> THEN NULL ELSE Turns[1]
             /\ phase' = IF Turns = <<>> THEN "ready" ELSE "handle"

UnwindEnd ==
    /\ phase = "unwind" /\ step > Len(stack)
    /\ IF resume = "handle" THEN StartPass ELSE phase' = "ready" /\ UNCHANGED fun
    /\ Locals(stack', step', skip', first', lost', resume')
    /\ UNCHANGED <<results, ctx, handler, child, calls>>

-----------------------------------------------------------------------------
(* pst_handler_handle_dwarf *)

UnwindPretty ==
    /\ CanCall
    /\ passes' = passes + 1
    /\ IF functions = <<>>
       THEN Begin("handle") /\ UNCHANGED fun
       ELSE StartPass /\ UNCHANGED <<unwound, unwinds, session>>
    /\ UNCHANGED <<results, ctx, caller, child>>

Turn == CHOOSE i \in 1 .. Len(Turns) : Turns[i] = fun

(* Mutant: the loop tests the function before the cursor moves. *)
NextFunction_LateTest ==
    /\ fun' = IF Turn = Len(Turns) THEN NULL ELSE Turns[Turn + 1]
    /\ phase' = "handle"

(* Mutant: the cursor does not move. *)
NextFunction_Stay == fun' = fun /\ phase' = "handle"

(* fun = prev_function(h, fun) *)
NextFunction ==
    /\ fun' = IF Turn = Len(Turns) THEN NULL ELSE Turns[Turn + 1]
    /\ phase' = IF Turn = Len(Turns) THEN "ready" ELSE "handle"

Name(f) == FunctionAt[pc[f]]

(* Mutant: the CFA of the context stays that of the function before. *)
Enter_KeepCfa == ctx' = [ctx EXCEPT !.curr_frame = fun]

(* The context is set up for the function.  Its CFA is what info.cfa holds, *)
(* which pst_function_init does not initialize.                             *)
Enter == ctx' = [curr_frame |-> fun, cfa |-> cfa[fun]]

(* get_dwarf_function finds no debug information. *)
HandleNothing ==
    /\ phase = "handle" /\ Name(fun) \notin DOMAIN Children
    /\ Enter /\ NextFunction
    /\ UNCHANGED <<results, handler, unwound, child, calls>>

(* A unit with debug information has the address, but no symbol: the name   *)
(* is NULL, and strcmp reads it.                                            *)
HandleCrash ==
    /\ phase = "handle" /\ Name(fun) = NULL
    /\ Enter /\ phase' = "crashed"
    /\ UNCHANGED <<results, handler, unwound, fun, child, calls>>

(* get_frame: the CFA is set if it can be calculated, here and in the       *)
(* context; its caller goes on in either case.                              *)
GetFrame ==
    \/ /\ cfa' = [cfa EXCEPT ![fun] = fun]
       /\ ctx' = [curr_frame |-> fun, cfa |-> fun]
    \/ Enter /\ UNCHANGED cfa

(* function_handle_dwarf up to the children: the frame and the return       *)
(* parameter, unless its type is bad.                                       *)
HandleFunction ==
    /\ phase = "handle" /\ Name(fun) \in DOMAIN Children
    /\ GetFrame
    /\ params' = IF Name(fun) \in NoReturn THEN params
                 ELSE [params EXCEPT ![fun] = Append(@, [die |-> 0, from |-> Undefined])]
    /\ child' = 1 /\ phase' = "children"
    /\ UNCHANGED <<functions, live, pc, level, trace, parent, sites, handler, unwound, fun, calls>>

Dies == Children[Name(fun)]

InChild(tag) ==
    /\ phase = "children" /\ child <= Len(Dies) /\ Dies[child].tag = tag
    /\ child' = child + 1
    /\ UNCHANGED <<functions, live, pc, level, trace, parent, cfa, ctx, handler, phase,
                   unwound, fun, calls>>

AddParam(from) ==
    /\ params' = [params EXCEPT ![fun] = Append(@, [die |-> child, from |-> from])]
    /\ UNCHANGED sites

(* A parameter or variable, in the function or a lexical block, is added    *)
(* whether or not its location can be evaluated.                            *)
HandleVariable ==
    InChild("variable") /\ \E from \in {ctx.curr_frame, Undefined} : AddParam(from)

(* Its location has DW_OP_GNU_entry_value, and a call site that is found has *)
(* a value for it (CallSites, ParamFound).                                  *)
HandleEntryVariable ==
    /\ InChild("entry_variable")
    /\ AddParam(IF parent[fun] # NULL /\ Name(fun) \in sites[parent[fun]]
                THEN parent[fun] ELSE Undefined)

HandleUnspecified == InChild("unspecified") /\ AddParam(Undefined)

(* A call site is given up when a parameter of it cannot be evaluated. *)
HandleCallSite ==
    /\ InChild("call_site")
    /\ sites' = [sites EXCEPT ![fun] = @ \cup {Dies[child].callee}] \/ UNCHANGED sites
    /\ UNCHANGED params

HandleEnd ==
    /\ phase = "children" /\ child > Len(Dies)
    /\ NextFunction
    /\ child' = 0
    /\ UNCHANGED <<results, ctx, handler, unwound, calls>>

(* pst_handler_fini, which frees every function, and pst_handler_init. *)
Fini ==
    /\ phase = "ready"
    /\ NoFunctions(functions', live', pc', parent', level', trace', cfa', sites')
    /\ NoCalls(params', ctx', session', unwinds', passes')
    /\ caller' \in Callers
    /\ UNCHANGED <<phase, unwound, fun, child>>

-----------------------------------------------------------------------------
Internal ==
    \/ UnwindSkip \/ UnwindFrame \/ UnwindLose \/ UnwindEnd
    \/ HandleNothing \/ HandleCrash \/ HandleFunction \/ HandleVariable \/ HandleEntryVariable
    \/ HandleUnspecified \/ HandleCallSite \/ HandleEnd

Next == UnwindFails \/ UnwindSimple \/ UnwindPretty \/ Fini \/ Internal

(* The calls of the library are not interrupted. *)
Spec == Init /\ [][Next]_vars /\ WF_vars(Internal)

-----------------------------------------------------------------------------
(* Properties *)

(* The functions of the frames further out in the same unwinding. *)
Outer(f) == {g \in live : trace[g] = trace[f] /\ level[g] > level[f]}

(* The functions of the list are distinct and allocated, and a parent never *)
(* dangles.  It is the caller, the next of the frames further out that were *)
(* kept, however many were given up in between; the outermost function has  *)
(* none.  Except that, unwound again, the handler gives the outermost       *)
(* function of the trace before, which has no caller there, some function   *)
(* of the later trace for a parent.                                         *)
ParentLinks ==
    /\ \A i, j \in 1 .. Len(functions) : functions[i] = functions[j] => i = j
    /\ live = {functions[i] : i \in 1 .. Len(functions)}
    /\ \A f \in live :
          IF Outer(f) # {}
          THEN parent[f] \in Outer(f) /\ \A g \in Outer(f) : level[g] >= level[parent[f]]
          ELSE parent[f] = NULL \/ (parent[f] \in live /\ trace[parent[f]] > trace[f])

(* What an unwinding has added so far are the readable frames from the      *)
(* interrupted one outwards, all but those given up, in the order of the    *)
(* stack and each with the line address of its own frame.                   *)
Wanted(k) ==
    /\ stack[k] \notin Unreadable /\ k \notin lost
    /\ caller # NULL => \E j \in 1 .. k : stack[j] = caller /\ stack[j] \notin Unreadable

TraceOK ==
    phase = "unwind" =>
    LET added == [i \in 1 .. Len(functions) - first |-> functions[first + i]]
        seen  == {k \in 1 .. step - 1 : Wanted(k)}
    IN
    /\ {level[added[i]] : i \in 1 .. Len(added)} = seen
    /\ \A i \in 1 .. Len(added) :
          /\ pc[added[i]] = LineAddr[stack[level[added[i]]]]
          /\ i < Len(added) => level[added[i]] < level[added[i + 1]]

(* While the children of a function are handled the registers are those of  *)
(* its frame, and the CFA is its own or, when its frame information could   *)
(* not be evaluated, the undefined one; never that of another function.     *)
EvalContext ==
    phase = "children" => ctx.curr_frame = fun /\ ctx.cfa \in {fun, Undefined}

(* After one pass a parameter whose value at entry could not be found has   *)
(* no caller on the list, or its caller no call site for it: the caller's   *)
(* call sites are there before the callee needs them.                       *)
EntryResolved ==
    (phase = "ready" /\ passes = 1) =>
        \A f \in live : \A i \in 1 .. Len(params[f]) :
            LET p == params[f][i] IN
            (/\ p.die # 0 /\ p.from = Undefined
             /\ Children[Name(f)][p.die].tag = "entry_variable")
                => parent[f] = NULL \/ Name(f) \notin sites[parent[f]]

(* Every call of the library returns, unless it has met a function without  *)
(* a name.                                                                  *)
Returns == phase # "ready" ~> phase = "ready" \/ (phase = "crashed" /\ Name(fun) = NULL)

(* libpst-types.h:30: info.pc is "actually, address of currently executed   *)
(* command in function", the address of the frame it was unwound from.      *)
ExecutedPC ==
    phase = "unwind" =>
        \A i \in first + 1 .. Len(functions) :
            pc[functions[i]] = stack[level[functions[i]]]

(* libpst.h:82, 86: pst_get_register stores the "value of CPU register in   *)
(* function's frame" and returns "zero on success".                         *)
get_cfa_register(f) == [ret |-> 0, val |-> cfa[f]]

RegisterValue ==
    phase = "ready" =>
        \A f \in live : get_cfa_register(f).ret = 0 => get_cfa_register(f).val = f
=============================================================================
