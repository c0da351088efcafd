--------------------------- MODULE Handler_proofs ---------------------------
(***************************************************************************)
(* Proofs that a handler's state keeps its type, that the parent links of  *)
(* the list of functions are to callers after any number of unwindings and *)
(* passes, that the trace is the one of the stack, and that every function *)
(* is evaluated in its own context, for every stack and all debug          *)
(* information.                                                            *)
(***************************************************************************)
EXTENDS Handler, TLAPS

(* The functions of the list are distinct and allocated, each is linked to  *)
(* the next one and the last to none, whichever unwinding has added them.   *)
Chained ==
    /\ \A i, j \in 1 .. Len(functions) : functions[i] = functions[j] => i = j
    /\ live = {functions[i] : i \in 1 .. Len(functions)}
    /\ \A i \in 1 .. Len(functions) :
          parent[functions[i]] = IF i = Len(functions) THEN NULL ELSE functions[i + 1]

(* A function being handled is on the list. *)
CursorOK ==
    /\ phase \in {"handle", "children"} => fun \in live
    /\ phase = "children" => child >= 1 /\ Name(fun) \in DOMAIN Children
    /\ phase = "unwind" => step >= 1
    /\ \A f \in live : pc[f] \in PCs

(* info.cfa, once it is set, is that of the function itself. *)
CfaOK == \A f \in Fns : cfa[f] \in {f, Undefined}

(* A function not yet allocated has no parent. *)
FreshOK == \A f \in Fns : f \notin live => parent[f] = NULL

IInv == TypeOK /\ Chained /\ CursorOK /\ CfaOK /\ FreshOK /\ EvalContext

-----------------------------------------------------------------------------
(* Adding a function. *)

LEMMA NewFunction == TypeOK /\ live # Fns => New \in Fns \ live
BY DEF New, TypeOK

(* Reverse lists the same functions. *)
LEMMA TurnsRange ==
    ASSUME TypeOK
    PROVE  /\ Turns \in Seq(Fns) /\ Len(Turns) = Len(functions)
           /\ \A i \in 1 .. Len(Turns) : \E j \in 1 .. Len(functions) : Turns[i] = functions[j]
           /\ \A j \in 1 .. Len(functions) : \E i \in 1 .. Len(Turns) : Turns[i] = functions[j]
<1>1. functions \in Seq(Fns) /\ Len(functions) \in Nat
  BY DEF TypeOK
<1>2. Turns = [i \in 1 .. Len(functions) |-> functions[(Len(functions) - i) + 1]]
  BY DEF Turns, Reverse
<1>3. \A i \in 1 .. Len(functions) :
         (Len(functions) - i) + 1 \in 1 .. Len(functions)
         /\ (Len(functions) - ((Len(functions) - i) + 1)) + 1 = i
  BY <1>1
<1>4. \A i \in 1 .. Len(functions) : functions[i] \in Fns
  BY <1>1
<1>5. Turns \in Seq(Fns) /\ Len(Turns) = Len(functions)
  BY <1>1, <1>2, <1>3, <1>4
<1>6. ASSUME NEW i \in 1 .. Len(Turns)
      PROVE  \E j \in 1 .. Len(functions) : Turns[i] = functions[j]
  BY <1>2, <1>3, <1>5
<1>7. ASSUME NEW j \in 1 .. Len(functions)
      PROVE  \E i \in 1 .. Len(Turns) : Turns[i] = functions[j]
  <2>1. (Len(functions) - j) + 1 \in 1 .. Len(Turns)
    BY <1>3, <1>5
  <2>2. Turns[(Len(functions) - j) + 1] = functions[j]
    BY <1>2, <1>3
  <2> QED BY <2>1, <2>2
<1> QED BY <1>5, <1>6, <1>7

(* The next function to be handled is on the list. *)
LEMMA TurnsLive ==
    ASSUME TypeOK, Chained
    PROVE  \A i \in 1 .. Len(Turns) : Turns[i] \in live
<1> SUFFICES ASSUME NEW i \in 1 .. Len(Turns)
             PROVE  Turns[i] \in live
  OBVIOUS
<1>1. PICK j \in 1 .. Len(functions) : Turns[i] = functions[j]
  BY TurnsRange
<1> QED BY <1>1 DEF Chained

LEMMA NextFunctionLive ==
    ASSUME TypeOK, Chained, fun \in live, NextFunction
    PROVE  /\ fun' \in live \cup {NULL}
           /\ (fun' # NULL) = (phase' \in {"handle", "children", "crashed"})
           /\ phase' = "handle" => fun' \in live
           /\ phase' \in {"ready", "handle"}
<1> PICK j \in 1 .. Len(functions) : fun = functions[j]
  BY DEF Chained
<1>1. PICK i \in 1 .. Len(Turns) : Turns[i] = fun
  BY TurnsRange
<1>2. Turn \in 1 .. Len(Turns) /\ Turns[Turn] = fun
  BY <1>1 DEF Turn
<1>3. Len(Turns) \in Nat /\ live \subseteq Fns /\ NULL \notin Fns
  <2>1. Len(Turns) \in Nat
    BY TurnsRange
  <2>2. live \subseteq Fns
    BY DEF TypeOK
  <2>. QED
    BY <2>1, <2>2, NullAssumption
<1>4. CASE Turn = Len(Turns)
  BY <1>3, <1>4 DEF NextFunction
<1>5. CASE Turn # Len(Turns)
  <2>1. Turn + 1 \in 1 .. Len(Turns)
    BY <1>2, <1>3, <1>5
  <2>2. Turns[Turn + 1] \in live
    BY <2>1, TurnsLive
  <2> QED BY <1>3, <1>5, <2>2 DEF NextFunction
<1> QED BY <1>4, <1>5

LEMMA StartPassLive ==
    ASSUME TypeOK, Chained, StartPass
    PROVE  /\ fun' \in live \cup {NULL}
           /\ (fun' # NULL) = (phase' \in {"handle", "children", "crashed"})
           /\ phase' = "handle" => fun' \in live
           /\ phase' \in {"ready", "handle"}
<1>1. live \subseteq Fns /\ NULL \notin Fns /\ Turns \in Seq(Fns)
  BY TurnsRange, NullAssumption DEF TypeOK
<1>2. CASE Turns = <<>>
  BY <1>1, <1>2 DEF StartPass
<1>3. CASE Turns # <<>>
  <2>1. 1 \in 1 .. Len(Turns)
    BY <1>1, <1>3
  <2>2. Turns[1] \in live
    BY <2>1, TurnsLive
  <2> QED BY <1>1, <1>3, <2>2 DEF StartPass
<1> QED BY <1>2, <1>3

-----------------------------------------------------------------------------
(* The steps of pst_handler_unwind_simple. *)

LEMMA InitIInv == Init => IInv
<1> SUFFICES ASSUME Init PROVE IInv
  OBVIOUS
<1> USE NullAssumption DEF Init, NoFunctions, NoCalls, Locals
<1>1. TypeOK
  <2>1. /\ functions \in Seq(Fns) /\ live \subseteq Fns
        /\ pc \in [Fns -> PCs \cup {NULL}] /\ level \in [Fns -> Nat]
        /\ trace \in [Fns -> Nat]
        /\ parent \in [Fns -> FnOrNull] /\ cfa \in [Fns -> Fns \cup {Undefined}]
    BY DEF FnOrNull
  <2>2. params \in [Fns -> Seq(Param)] /\ sites \in [Fns -> SUBSET Names]
    BY DEF Param
  <2>3. ctx \in [curr_frame : FnOrNull, cfa : Fns \cup {Undefined, NULL}] /\ fun \in FnOrNull
    BY DEF FnOrNull
  <2>4. /\ phase \in {"ready", "unwind", "handle", "children", "crashed"}
        /\ resume \in {"ready", "handle"} /\ stack \in Seq(PCs) /\ step \in Nat
        /\ skip \in BOOLEAN /\ first \in Nat /\ lost \subseteq Nat
    OBVIOUS
  <2>5. (fun # NULL) = (phase \in {"handle", "children", "crashed"})
    OBVIOUS
  <2>6. /\ child \in Nat /\ unwinds \in Nat /\ passes \in Nat
        /\ caller \in Callers /\ session \in BOOLEAN
    OBVIOUS
  <2> HIDE DEF Init, NoFunctions, NoCalls, Locals
  <2> QED BY <2>1, <2>2, <2>3, <2>4, <2>5, <2>6 DEF TypeOK
<1>2. Chained
  BY DEF Chained
<1>3. CursorOK /\ CfaOK /\ FreshOK /\ EvalContext
  BY DEF CursorOK, CfaOK, FreshOK, EvalContext
<1> QED BY <1>1, <1>2, <1>3 DEF IInv

(* What Begin leaves alone and what it sets is typed. *)
LEMMA BeginType ==
    ASSUME IInv, NEW next \in {"ready", "handle"}, Begin(next)
    PROVE  /\ stack' \in Seq(PCs) /\ step' = 1 /\ skip' \in BOOLEAN
           /\ first' \in Nat /\ lost' \subseteq Nat /\ resume' \in {"ready", "handle"}
           /\ unwinds' \in Nat /\ session' \in BOOLEAN /\ phase' = "unwind"
BY ProgramAssumption DEF Begin, IInv, TypeOK

LEMMA UnwindFailsStep == IInv /\ UnwindFails => IInv'
<1> SUFFICES ASSUME IInv, UnwindFails PROVE IInv'
  OBVIOUS
<1> USE DEF UnwindFails, CanCall, results, fields, handler, unwound, IInv
<1>1. TypeOK'
  BY DEF TypeOK
<1>2. Chained'
  BY DEF Chained
<1>3. CursorOK' /\ CfaOK' /\ FreshOK' /\ EvalContext'
  BY DEF CursorOK, CfaOK, FreshOK, EvalContext, Name
<1> QED BY <1>1, <1>2, <1>3

LEMMA UnwindSimpleStep == IInv /\ UnwindSimple => IInv'
<1> SUFFICES ASSUME IInv, UnwindSimple PROVE IInv'
  OBVIOUS
<1>0. Begin("ready") /\ phase = "ready" /\ UNCHANGED <<results, ctx, caller, fun, child, passes>>
  BY DEF UnwindSimple, CanCall
<1> USE <1>0, BeginType DEF results, fields, IInv
<1>1. TypeOK'
  BY DEF TypeOK
<1>2. Chained'
  BY DEF Chained
<1>3. CursorOK' /\ CfaOK' /\ FreshOK' /\ EvalContext'
  BY DEF CursorOK, CfaOK, FreshOK, EvalContext
<1> QED BY <1>1, <1>2, <1>3

LEMMA UnwindSkipStep == IInv /\ UnwindSkip => IInv'
<1> SUFFICES ASSUME IInv, UnwindSkip PROVE IInv'
  OBVIOUS
<1> USE DEF UnwindSkip, InFrame, results, fields, handler, calls, IInv
<1>1. TypeOK'
  BY DEF TypeOK
<1>2. Chained'
  BY DEF Chained
<1>3. CursorOK' /\ CfaOK' /\ FreshOK' /\ EvalContext'
  BY DEF CursorOK, CfaOK, FreshOK, EvalContext, TypeOK
<1> QED BY <1>1, <1>2, <1>3

LEMMA UnwindLoseStep == IInv /\ UnwindLose => IInv'
<1> SUFFICES ASSUME IInv, UnwindLose PROVE IInv'
  OBVIOUS
<1> USE DEF UnwindLose, Keeps, InFrame, results, fields, handler, calls, IInv
<1>1. TypeOK'
  BY DEF TypeOK
<1>2. Chained'
  BY DEF Chained
<1>3. CursorOK' /\ CfaOK' /\ FreshOK' /\ EvalContext'
  BY DEF CursorOK, CfaOK, FreshOK, EvalContext, TypeOK
<1> QED BY <1>1, <1>2, <1>3

(* The new function goes to the end and the one that was last links to it. *)
LEMMA AppendLinks ==
    ASSUME TypeOK, Chained, NEW new \in Fns \ live,
           functions' = Append(functions, new), live' = live \cup {new},
           parent' = IF functions = <<>> THEN parent
                     ELSE [parent EXCEPT ![functions[Len(functions)]] = new],
           parent[new] = NULL
    PROVE  Chained'
<1> DEFINE n == Len(functions)
<1>1. functions \in Seq(Fns) /\ n \in Nat /\ live \subseteq Fns /\ parent \in [Fns -> FnOrNull]
  BY DEF TypeOK
<1>2. functions' \in Seq(Fns) /\ Len(functions') = n + 1 /\ functions'[n + 1] = new
  BY <1>1
<1>3. \A i \in 1 .. n : functions'[i] = functions[i] /\ functions[i] \in live
  BY <1>1 DEF Chained
<1>4. \A i \in 1 .. n + 1 : i \in 1 .. n \/ i = n + 1
  BY <1>1
<1>5. \A i, j \in 1 .. n + 1 : functions'[i] = functions'[j] => i = j
  BY <1>2, <1>3, <1>4 DEF Chained
<1>6. live' = {functions'[i] : i \in 1 .. n + 1}
  <2>1. ASSUME NEW f \in live' PROVE \E i \in 1 .. n + 1 : f = functions'[i]
    <3>1. CASE f = new
      BY <1>1, <1>2, <3>1
    <3>2. CASE f \in live
      <4>1. PICK i \in 1 .. n : f = functions[i]
        BY <3>2 DEF Chained
      <4> QED BY <4>1, <1>1, <1>3
    <3> QED BY <3>1, <3>2
  <2>2. \A i \in 1 .. n + 1 : functions'[i] \in live'
    BY <1>2, <1>3, <1>4
  <2> QED BY <2>1, <2>2
<1>7. ASSUME NEW i \in 1 .. n + 1
      PROVE  parent'[functions'[i]] = IF i = n + 1 THEN NULL ELSE functions'[i + 1]
  <2>1. CASE i = n + 1
    <3>1. functions = <<>> \/ functions[n] # new
      BY <1>1, <1>3
    <3> QED BY <2>1, <3>1, <1>1, <1>2
  <2>2. CASE i = n
    <3>1. functions # <<>> /\ functions[n] \in Fns /\ n # n + 1
      BY <1>1, <2>2
    <3>2. parent'[functions[n]] = new
      BY <1>1, <3>1
    <3> QED BY <2>2, <3>1, <3>2, <1>2, <1>3
  <2>3. CASE i \in 1 .. n /\ i # n
    <3>1. n \in 1 .. n /\ i + 1 \in 1 .. n /\ i # n + 1 /\ functions # <<>>
      BY <1>1, <2>3
    <3>2. functions[i] # functions[n]
      BY <2>3, <3>1 DEF Chained
    <3>3. parent'[functions[i]] = parent[functions[i]]
      BY <1>1, <2>3, <3>1, <3>2
    <3>4. parent[functions[i]] = functions[i + 1]
      BY <2>3 DEF Chained
    <3> QED BY <2>3, <3>1, <3>3, <3>4, <1>3
  <2> QED BY <1>4, <2>1, <2>2, <2>3
<1> QED BY <1>2, <1>5, <1>6, <1>7 DEF Chained

LEMMA UnwindFrameStep == IInv /\ UnwindFrame => IInv'
<1> SUFFICES ASSUME IInv, UnwindFrame PROVE IInv'
  OBVIOUS
<1> DEFINE new == New
<1> USE DEF IInv
<1>0. /\ new \in Fns /\ new \notin live /\ stack[step] \in PCs /\ stack[step] \in PCs
      /\ LineAddr[stack[step]] \in PCs /\ step \in Nat /\ step >= 1
  <2>1. new \in Fns /\ new \notin live
    BY NewFunction DEF UnwindFrame
  <2>2. phase = "unwind" /\ step <= Len(stack) /\ stack \in Seq(PCs) /\ step \in Nat /\ step >= 1
    BY DEF UnwindFrame, Keeps, InFrame, TypeOK, CursorOK
  <2>3. stack[step] \in PCs
    BY <2>2
  <2> QED BY <2>1, <2>2, <2>3, ProgramAssumption
<1>1. /\ functions' = Append(functions, new) /\ live' = live \cup {new}
      /\ pc' = [pc EXCEPT ![new] = LineAddr[stack[step]]]
      /\ level' = [level EXCEPT ![new] = step] /\ trace' = [trace EXCEPT ![new] = unwinds]
      /\ parent' = IF functions = <<>> THEN parent
                   ELSE [parent EXCEPT ![functions[Len(functions)]] = new]
      /\ step' = step + 1 /\ skip' \in BOOLEAN /\ phase = "unwind"
      /\ UNCHANGED <<cfa, params, sites, lost, ctx, phase, stack, first, resume, fun, child>>
      /\ UNCHANGED <<caller, session, unwinds, passes>>
  BY DEF UnwindFrame, Keeps, InFrame, handler, calls
<1> HIDE DEF new
<1>2. functions = <<>> \/ functions[Len(functions)] \in live
  <2>1. functions \in Seq(Fns)
    BY DEF TypeOK
  <2>2. CASE functions # <<>>
    <3>1. Len(functions) \in 1 .. Len(functions)
      BY <2>1, <2>2
    <3> QED BY <3>1 DEF Chained
  <2> QED BY <2>2
<1>3. TypeOK'
  <2>1. functions' \in Seq(Fns) /\ live' \subseteq Fns
    BY <1>0, <1>1 DEF TypeOK
  <2>2. pc' \in [Fns -> PCs \cup {NULL}]
    BY <1>0, <1>1 DEF TypeOK
  <2>3. level' \in [Fns -> Nat] /\ trace' \in [Fns -> Nat]
    BY <1>0, <1>1 DEF TypeOK
  <2>4. parent' \in [Fns -> FnOrNull]
    BY <1>0, <1>1 DEF TypeOK, FnOrNull
  <2>5. step' \in Nat /\ skip' \in BOOLEAN /\ stack' \in Seq(PCs)
    BY <1>0, <1>1 DEF TypeOK
  <2> QED BY <1>1, <2>1, <2>2, <2>3, <2>4, <2>5 DEF TypeOK
<1>4. Chained'
  <2>1. parent[new] = NULL
    BY <1>0 DEF FreshOK
  <2> QED BY <1>0, <1>1, <2>1, AppendLinks
<1>5. CursorOK'
  <2>1. \A f \in live' : pc'[f] \in PCs
    BY <1>0, <1>1 DEF CursorOK, TypeOK
  <2> QED BY <1>0, <1>1, <2>1 DEF CursorOK, TypeOK
<1>6. FreshOK'
  BY <1>0, <1>1, <1>2 DEF FreshOK, TypeOK
<1>7. CfaOK' /\ EvalContext'
  BY <1>1 DEF CfaOK, EvalContext
<1> QED BY <1>3, <1>4, <1>5, <1>6, <1>7

LEMMA UnwindEndStep == IInv /\ UnwindEnd => IInv'
<1> SUFFICES ASSUME IInv, UnwindEnd PROVE IInv'
  OBVIOUS
<1> USE DEF IInv
<1>1. /\ phase = "unwind" /\ UNCHANGED <<functions, live, pc, level, trace, parent, cfa, params, sites>>
      /\ UNCHANGED <<ctx, caller, session, child, unwinds, passes>>
      /\ stack' = <<>> /\ step' = 0 /\ skip' = TRUE /\ first' = 0 /\ lost' = {}
      /\ resume' = "ready"
  BY DEF UnwindEnd, results, fields, handler, calls, Locals
<1>2. /\ fun' \in live \cup {NULL}
      /\ (fun' # NULL) = (phase' \in {"handle", "children", "crashed"})
      /\ phase' = "handle" => fun' \in live
      /\ phase' \in {"ready", "handle"}
  <2>1. CASE resume = "handle"
    BY <2>1, StartPassLive DEF UnwindEnd
  <2>2. CASE resume # "handle"
    BY <1>1, <2>2 DEF UnwindEnd, TypeOK
  <2> QED BY <2>1, <2>2
<1>3. TypeOK'
  BY <1>1, <1>2 DEF TypeOK, FnOrNull
<1>4. Chained'
  BY <1>1 DEF Chained
<1>5. CursorOK' /\ CfaOK' /\ FreshOK' /\ EvalContext'
  BY <1>1, <1>2 DEF CursorOK, CfaOK, FreshOK, EvalContext
<1> QED BY <1>3, <1>4, <1>5

-----------------------------------------------------------------------------
(* The steps of pst_handler_handle_dwarf. *)

LEMMA UnwindPrettyStep == IInv /\ UnwindPretty => IInv'
<1> SUFFICES ASSUME IInv, UnwindPretty PROVE IInv'
  OBVIOUS
<1>0. /\ phase = "ready" /\ passes' = passes + 1
      /\ UNCHANGED <<functions, live, pc, level, trace, parent, cfa, params, sites>>
      /\ UNCHANGED <<ctx, caller, child>>
  BY DEF UnwindPretty, CanCall, results, fields
<1>1. CASE functions = <<>>
  <2>1. Begin("handle") /\ fun' = fun
    BY <1>1 DEF UnwindPretty
  <2>2. /\ stack' \in Seq(PCs) /\ step' = 1 /\ skip' \in BOOLEAN
        /\ first' \in Nat /\ lost' \subseteq Nat /\ resume' \in {"ready", "handle"}
        /\ unwinds' \in Nat /\ session' \in BOOLEAN /\ phase' = "unwind"
    BY <2>1, BeginType
  <2>3. TypeOK'
    BY <1>0, <2>1, <2>2 DEF IInv, TypeOK
  <2>4. Chained'
    BY <1>0 DEF IInv, Chained
  <2>5. CursorOK' /\ CfaOK' /\ FreshOK' /\ EvalContext'
    <3>1. CursorOK' /\ EvalContext'
      BY <1>0, <2>1, <2>2 DEF IInv, CursorOK, EvalContext
    <3>2. CfaOK' /\ FreshOK'
      BY <1>0, <2>2 DEF IInv, CfaOK, FreshOK
    <3> QED BY <3>1, <3>2
  <2> QED BY <2>3, <2>4, <2>5 DEF IInv
<1>2. CASE functions # <<>>
  <2>1. StartPass /\ UNCHANGED <<stack, step, skip, first, lost, resume, unwinds, session>>
    BY <1>2 DEF UnwindPretty, unwound
  <2>2. /\ fun' \in live \cup {NULL}
        /\ (fun' # NULL) = (phase' \in {"handle", "children", "crashed"})
        /\ phase' = "handle" => fun' \in live
        /\ phase' \in {"ready", "handle"}
    BY <2>1, StartPassLive DEF IInv
  <2> USE <1>0, <2>1, <2>2 DEF IInv
  <2>3. TypeOK'
    BY DEF TypeOK, FnOrNull
  <2>4. Chained'
    BY DEF Chained
  <2>5. CursorOK' /\ CfaOK' /\ FreshOK' /\ EvalContext'
    BY DEF CursorOK, CfaOK, FreshOK, EvalContext
  <2> QED BY <2>3, <2>4, <2>5
<1> QED BY <1>1, <1>2

LEMMA HandleNothingStep == IInv /\ HandleNothing => IInv'
<1> SUFFICES ASSUME IInv, HandleNothing PROVE IInv'
  OBVIOUS
<1>1. /\ UNCHANGED <<functions, live, pc, level, trace, parent, cfa, params, sites>>
      /\ UNCHANGED <<caller, session, stack, step, skip, first, lost, resume>>
      /\ UNCHANGED <<child, unwinds, passes>>
      /\ ctx' = [curr_frame |-> fun, cfa |-> cfa[fun]] /\ NextFunction /\ phase = "handle"
  BY DEF HandleNothing, Enter, results, fields, handler, unwound, calls
<1>2. /\ fun' \in live \cup {NULL}
      /\ (fun' # NULL) = (phase' \in {"handle", "children", "crashed"})
      /\ phase' = "handle" => fun' \in live
      /\ phase' \in {"ready", "handle"} /\ fun \in live /\ live \subseteq Fns
  BY <1>1, NextFunctionLive DEF IInv, CursorOK, TypeOK
<1> USE DEF IInv
<1>3. TypeOK'
  BY <1>1, <1>2 DEF TypeOK, FnOrNull
<1>4. Chained'
  BY <1>1 DEF Chained
<1>5. CursorOK' /\ CfaOK' /\ FreshOK' /\ EvalContext'
  BY <1>1, <1>2 DEF CursorOK, CfaOK, FreshOK, EvalContext
<1> QED BY <1>3, <1>4, <1>5

LEMMA HandleCrashStep == IInv /\ HandleCrash => IInv'
<1> SUFFICES ASSUME IInv, HandleCrash PROVE IInv'
  OBVIOUS
<1>1. /\ UNCHANGED <<functions, live, pc, level, trace, parent, cfa, params, sites>>
      /\ UNCHANGED <<caller, session, stack, step, skip, first, lost, resume>>
      /\ UNCHANGED <<fun, child, unwinds, passes>>
      /\ ctx' = [curr_frame |-> fun, cfa |-> cfa[fun]] /\ phase = "handle" /\ phase' = "crashed"
  BY DEF HandleCrash, Enter, results, fields, handler, unwound, calls
<1> USE DEF IInv
<1>2. TypeOK'
  BY <1>1 DEF TypeOK, FnOrNull
<1>3. Chained'
  BY <1>1 DEF Chained
<1>4. CursorOK' /\ CfaOK' /\ FreshOK' /\ EvalContext'
  BY <1>1 DEF CursorOK, CfaOK, FreshOK, EvalContext
<1> QED BY <1>2, <1>3, <1>4

LEMMA HandleFunctionStep == IInv /\ HandleFunction => IInv'
<1> SUFFICES ASSUME IInv, HandleFunction PROVE IInv'
  OBVIOUS
<1> USE DEF IInv
<1>1. /\ phase = "handle" /\ fun \in live /\ fun \in Fns /\ live \subseteq Fns
      /\ Name(fun) \in DOMAIN Children
      /\ UNCHANGED <<functions, live, pc, level, trace, parent, sites, fun>>
      /\ UNCHANGED <<caller, session, stack, step, skip, first, lost, resume>>
      /\ UNCHANGED <<unwinds, passes>>
      /\ child' = 1 /\ phase' = "children"
  BY DEF HandleFunction, handler, unwound, calls, CursorOK, TypeOK
<1>2. cfa' \in [Fns -> Fns \cup {Undefined}] /\ CfaOK'
      /\ ctx' \in [curr_frame : FnOrNull, cfa : Fns \cup {Undefined, NULL}]
      /\ ctx'.curr_frame = fun /\ ctx'.cfa \in {fun, Undefined}
  <2>1. cfa \in [Fns -> Fns \cup {Undefined}] /\ cfa[fun] \in {fun, Undefined}
    BY <1>1 DEF TypeOK, CfaOK
  <2>2. CASE cfa' = [cfa EXCEPT ![fun] = fun] /\ ctx' = [curr_frame |-> fun, cfa |-> fun]
    BY <1>1, <2>1, <2>2 DEF CfaOK, FnOrNull
  <2>3. CASE Enter /\ cfa' = cfa
    BY <1>1, <2>1, <2>3 DEF Enter, CfaOK, FnOrNull
  <2> QED BY <2>2, <2>3 DEF HandleFunction, GetFrame
<1>3. params' \in [Fns -> Seq(Param)]
  <2>1. [die |-> 0, from |-> Undefined] \in Param /\ params \in [Fns -> Seq(Param)]
    BY DEF Param, TypeOK
  <2>2. Append(params[fun], [die |-> 0, from |-> Undefined]) \in Seq(Param)
    BY <1>1, <2>1
  <2> QED BY <1>1, <2>1, <2>2 DEF HandleFunction
<1>4. TypeOK'
  BY <1>1, <1>2, <1>3, NullAssumption DEF TypeOK
<1>5. Chained'
  BY <1>1 DEF Chained
<1>6. CursorOK' /\ FreshOK' /\ EvalContext'
  BY <1>1, <1>2 DEF CursorOK, FreshOK, EvalContext, Name
<1> QED BY <1>2, <1>4, <1>5, <1>6

(* Whatever is added to params and sites while the children are handled. *)
LEMMA ChildStep ==
    ASSUME IInv, NEW tag, InChild(tag),
           params' \in [Fns -> Seq(Param)], sites' \in [Fns -> SUBSET Names]
    PROVE  IInv'
<1> USE DEF IInv
<1>1. /\ UNCHANGED <<functions, live, pc, level, trace, parent, cfa, ctx, phase, fun>>
      /\ UNCHANGED <<caller, session, stack, step, skip, first, lost, resume>>
      /\ UNCHANGED <<unwinds, passes>>
      /\ child' = child + 1 /\ phase = "children"
  BY DEF InChild, handler, unwound, calls
<1>2. TypeOK'
  BY <1>1 DEF TypeOK
<1>3. Chained'
  BY <1>1 DEF Chained
<1>4. CursorOK' /\ CfaOK' /\ FreshOK' /\ EvalContext'
  BY <1>1 DEF CursorOK, CfaOK, FreshOK, EvalContext, Name, TypeOK
<1> QED BY <1>2, <1>3, <1>4

LEMMA AddParamType ==
    ASSUME TypeOK, fun \in Fns, NEW from \in Fns \cup {Undefined}, AddParam(from)
    PROVE  params' \in [Fns -> Seq(Param)] /\ sites' \in [Fns -> SUBSET Names]
<1>1. [die |-> child, from |-> from] \in Param
  BY DEF TypeOK, Param
<1>2. params \in [Fns -> Seq(Param)] /\ sites \in [Fns -> SUBSET Names]
  BY DEF TypeOK
<1>3. Append(params[fun], [die |-> child, from |-> from]) \in Seq(Param)
  BY <1>1, <1>2
<1> QED BY <1>2, <1>3 DEF AddParam

LEMMA HandleChildStep ==
    IInv /\ (HandleVariable \/ HandleEntryVariable \/ HandleUnspecified \/ HandleCallSite) => IInv'
<1>1. ASSUME IInv, HandleVariable PROVE IInv'
  <2>1. InChild("variable") /\ fun \in Fns /\ ctx.curr_frame = fun
    BY <1>1 DEF HandleVariable, InChild, IInv, CursorOK, TypeOK, EvalContext
  <2>2. PICK from \in {ctx.curr_frame, Undefined} : AddParam(from)
    BY <1>1 DEF HandleVariable
  <2> QED BY <1>1, <2>1, <2>2, AddParamType, ChildStep DEF IInv
<1>2. ASSUME IInv, HandleEntryVariable PROVE IInv'
  <2> DEFINE from == IF parent[fun] # NULL /\ Name(fun) \in sites[parent[fun]]
                     THEN parent[fun] ELSE Undefined
  <2>1. InChild("entry_variable") /\ fun \in Fns
    BY <1>2 DEF HandleEntryVariable, InChild, IInv, CursorOK, TypeOK
  <2>2. AddParam(from)
    BY <1>2 DEF HandleEntryVariable
  <2>3. from \in Fns \cup {Undefined}
    BY <1>2, <2>1 DEF IInv, TypeOK, FnOrNull
  <2> HIDE DEF from
  <2> QED BY <1>2, <2>1, <2>2, <2>3, AddParamType, ChildStep DEF IInv
<1>3. ASSUME IInv, HandleUnspecified PROVE IInv'
  <2>1. InChild("unspecified") /\ AddParam(Undefined) /\ fun \in Fns
    BY <1>3 DEF HandleUnspecified, InChild, IInv, CursorOK, TypeOK
  <2> QED BY <1>3, <2>1, AddParamType, ChildStep DEF IInv
<1>4. ASSUME IInv, HandleCallSite PROVE IInv'
  <2>1. InChild("call_site") /\ params' = params /\ fun \in Fns
    BY <1>4 DEF HandleCallSite, InChild, IInv, CursorOK, TypeOK
  <2>2. /\ Name(fun) \in DOMAIN Children /\ child \in Nat /\ child >= 1
        /\ child <= Len(Dies) /\ Dies[child].tag = "call_site"
    BY <1>4, <2>1 DEF InChild, IInv, CursorOK, TypeOK
  <2>3. Len(Dies) \in Nat
    BY <2>2, ProgramAssumption DEF Dies
  <2>4. child \in 1 .. Len(Children[Name(fun)]) /\ Children[Name(fun)][child].tag = "call_site"
    BY <2>2, <2>3 DEF Dies
  <2>5. Dies[child].callee \in Names
    BY <2>2, <2>4, ProgramAssumption DEF Dies
  <2> DEFINE callee == Dies[child].callee
  <2> HIDE DEF callee
  <2>6. sites' = [sites EXCEPT ![fun] = @ \cup {callee}] \/ sites' = sites
    BY <1>4 DEF HandleCallSite, callee
  <2>7. sites \in [Fns -> SUBSET Names] /\ params \in [Fns -> Seq(Param)]
    BY <1>4 DEF IInv, TypeOK
  <2>8. callee \in Names
    BY <2>5 DEF callee
  <2>9. sites' \in [Fns -> SUBSET Names]
    BY <2>1, <2>6, <2>7, <2>8
  <2> QED BY <1>4, <2>1, <2>7, <2>9, ChildStep
<1> QED BY <1>1, <1>2, <1>3, <1>4

LEMMA HandleEndStep == IInv /\ HandleEnd => IInv'
<1> SUFFICES ASSUME IInv, HandleEnd PROVE IInv'
  OBVIOUS
<1>1. /\ UNCHANGED <<functions, live, pc, level, trace, parent, cfa, params, sites, ctx>>
      /\ UNCHANGED <<caller, session, stack, step, skip, first, lost, resume>>
      /\ UNCHANGED <<unwinds, passes>>
      /\ child' = 0 /\ NextFunction /\ phase = "children"
  BY DEF HandleEnd, results, fields, handler, unwound, calls
<1>2. /\ fun' \in live \cup {NULL}
      /\ (fun' # NULL) = (phase' \in {"handle", "children", "crashed"})
      /\ phase' = "handle" => fun' \in live
      /\ phase' \in {"ready", "handle"}
  BY <1>1, NextFunctionLive DEF IInv, CursorOK
<1> USE DEF IInv
<1>3. TypeOK'
  BY <1>1, <1>2 DEF TypeOK, FnOrNull
<1>4. Chained'
  BY <1>1 DEF Chained
<1>5. CursorOK' /\ CfaOK' /\ FreshOK' /\ EvalContext'
  BY <1>1, <1>2 DEF CursorOK, CfaOK, FreshOK, EvalContext
<1> QED BY <1>3, <1>4, <1>5

LEMMA FiniStep == IInv /\ Fini => IInv'
<1> SUFFICES ASSUME IInv, Fini PROVE IInv'
  OBVIOUS
<1> USE NullAssumption DEF Fini, NoFunctions, NoCalls, unwound, IInv
<1>1. TypeOK'
  <2>1. /\ functions' \in Seq(Fns) /\ live' \subseteq Fns
        /\ pc' \in [Fns -> PCs \cup {NULL}] /\ level' \in [Fns -> Nat]
        /\ trace' \in [Fns -> Nat]
        /\ parent' \in [Fns -> FnOrNull] /\ cfa' \in [Fns -> Fns \cup {Undefined}]
    BY DEF FnOrNull
  <2>2. params' \in [Fns -> Seq(Param)] /\ sites' \in [Fns -> SUBSET Names]
    OBVIOUS
  <2>3. ctx' \in [curr_frame : FnOrNull, cfa : Fns \cup {Undefined, NULL}]
    BY DEF FnOrNull
  <2>4. /\ UNCHANGED <<phase, fun, child, stack, step, skip, first, lost, resume>>
        /\ caller' \in Callers /\ session' \in BOOLEAN /\ unwinds' \in Nat /\ passes' \in Nat
    OBVIOUS
  <2> HIDE DEF Fini, NoFunctions, NoCalls
  <2> QED BY <2>1, <2>2, <2>3, <2>4 DEF TypeOK
<1>2. Chained'
  BY DEF Chained
<1>3. CursorOK' /\ CfaOK' /\ FreshOK' /\ EvalContext'
  BY DEF CursorOK, CfaOK, FreshOK, EvalContext
<1> QED BY <1>1, <1>2, <1>3

LEMMA StutterStep == IInv /\ UNCHANGED vars => IInv'
<1> SUFFICES ASSUME IInv, UNCHANGED vars PROVE IInv'
  OBVIOUS
<1> USE DEF vars, results, fields, handler, unwound, calls, IInv
<1>1. TypeOK'
  BY DEF TypeOK
<1>2. Chained'
  BY DEF Chained
<1>3. CursorOK' /\ CfaOK' /\ FreshOK' /\ EvalContext'
  BY DEF CursorOK, CfaOK, FreshOK, EvalContext, Name
<1> QED BY <1>1, <1>2, <1>3

-----------------------------------------------------------------------------
(* What pst_handler_unwind_simple has added. *)

(* What an unwinding has done so far. *)
Added == first + 1 .. Len(functions)

(* The interrupted frame, or one of the same address, has been met. *)
Met(k) == \E j \in 1 .. k : stack[j] = caller /\ stack[j] \notin Unreadable

TraceInv ==
    phase = "unwind" =>
        /\ first <= Len(functions) /\ lost \subseteq 1 .. step - 1
        /\ skip <=> ~Met(step - 1)
        /\ \A i \in Added :
              LET k == level[functions[i]] IN
              k \in 1 .. step - 1 /\ Wanted(k) /\ pc[functions[i]] = LineAddr[stack[k]]
        /\ \A k \in 1 .. step - 1 : Wanted(k) => \E i \in Added : level[functions[i]] = k
        /\ \A i, j \in Added : i < j => level[functions[i]] < level[functions[j]]

LEMMA UnwindFacts ==
    ASSUME IInv, phase = "unwind"
    PROVE  /\ step \in Nat /\ step >= 1 /\ step - 1 \in Nat /\ Len(functions) \in Nat
           /\ first \in Nat /\ stack \in Seq(PCs) /\ functions \in Seq(Fns)
           /\ step \in 1 .. step /\ step \notin 1 .. step - 1
           /\ \A k \in 1 .. step : k = step \/ k \in 1 .. step - 1
           /\ \A k \in 1 .. step - 1 : k \in 1 .. step /\ k < step
BY DEF IInv, TypeOK, CursorOK

LEMMA MetStep ==
    ASSUME IInv, phase = "unwind", NEW n, n = step
    PROVE  Met(n) <=> Met(n - 1) \/ (stack[n] = caller /\ stack[n] \notin Unreadable)
BY UnwindFacts DEF Met

(* A frame is skipped or given up. *)
LEMMA NothingAdded ==
    ASSUME IInv, TraceInv, phase = "unwind", NEW n, n = step, step' = n + 1,
           UNCHANGED <<functions, level, pc, stack, caller, first, phase>>,
           lost' \in {lost, lost \cup {n}},
           skip' <=> ~Met(n), n \in lost' \/ ~Wanted(n)
    PROVE  TraceInv'
<1>1. /\ n \in Nat /\ n >= 1 /\ n \in 1 .. n /\ step' - 1 = n /\ n \notin 1 .. n - 1
      /\ \A k \in 1 .. n : k = n \/ k \in 1 .. n - 1
      /\ \A k \in 1 .. n - 1 : k \in 1 .. n
  BY UnwindFacts
<1>2. Added' = Added /\ functions' = functions /\ first' = first /\ pc' = pc /\ level' = level
      /\ stack' = stack
  BY DEF Added
<1>3. \A k \in 1 .. n : Wanted(k)' <=> k # n /\ Wanted(k)
  BY <1>1 DEF Wanted
<1>4. first <= Len(functions) /\ lost' \subseteq 1 .. n
  BY <1>1 DEF TraceInv
<1>5. skip' <=> ~Met(n)'
  BY DEF Met
<1>6. \A i \in Added : LET k == level[functions[i]] IN
         k \in 1 .. n - 1 /\ Wanted(k) /\ pc[functions[i]] = LineAddr[stack[k]]
  BY DEF TraceInv
<1>7. \A k \in 1 .. n - 1 : Wanted(k) => \E i \in Added : level[functions[i]] = k
  BY DEF TraceInv
<1>8. \A i, j \in Added : i < j => level[functions[i]] < level[functions[j]]
  BY DEF TraceInv
<1>9. ASSUME NEW i \in Added, NEW k, k = level[functions[i]]
      PROVE  k \in 1 .. n /\ Wanted(k)' /\ pc[functions[i]] = LineAddr[stack[k]]
  BY <1>1, <1>3, <1>6, <1>9
<1>10. \A k \in 1 .. n : Wanted(k)' => \E i \in Added : level[functions[i]] = k
  BY <1>1, <1>3, <1>7
<1>11. Met(step - 1)' <=> Met(n)'
  BY <1>1 DEF Met
<1>. QED
  BY <1>1, <1>2, <1>4, <1>5, <1>8, <1>9, <1>10, <1>11 DEF TraceInv

(* A frame is added. *)
LEMMA FrameAdded ==
    ASSUME IInv, TraceInv, phase = "unwind", NEW n, n = step, step' = n + 1,
           NEW new \in Fns \ live,
           functions' = Append(functions, new),
           pc' = [pc EXCEPT ![new] = LineAddr[stack[n]]],
           level' = [level EXCEPT ![new] = n],
           UNCHANGED <<stack, caller, first, lost, phase>>,
           skip' <=> ~Met(n), Wanted(n)
    PROVE  TraceInv'
<1>1. /\ n \in Nat /\ n >= 1 /\ n \in 1 .. n /\ step' - 1 = n /\ n \notin 1 .. n - 1
      /\ \A k \in 1 .. n : k = n \/ k \in 1 .. n - 1
      /\ \A k \in 1 .. n - 1 : k \in 1 .. n /\ k < n
  BY UnwindFacts
<1>2. PICK c \in Seq(Fns) : c = functions
  BY UnwindFacts
<1>3. PICK d : d = Append(c, new)
  OBVIOUS
<1>4. PICK m \in Nat : m = Len(c)
  BY <1>2
<1>5. Len(d) = m + 1 /\ d[m + 1] = new /\ \A i \in 1 .. m : d[i] = c[i]
  BY <1>3, <1>4
<1>6. first \in Nat /\ first <= m /\ lost \subseteq 1 .. n - 1
  BY <1>1, <1>2, <1>4, UnwindFacts DEF TraceInv
<1>7. \A i \in first + 1 .. m : i \in 1 .. m /\ c[i] \in live /\ c[i] # new
  <2>1. \A i \in first + 1 .. m : i \in 1 .. m
    BY <1>6
  <2>2. \A i \in 1 .. m : c[i] \in live
    BY <1>2, <1>4 DEF IInv, Chained
  <2>. QED
    BY <2>1, <2>2
<1>8. /\ pc'[new] = LineAddr[stack[n]] /\ level'[new] = n
      /\ \A f \in live : pc'[f] = pc[f] /\ level'[f] = level[f]
  BY DEF IInv, TypeOK
<1>9. /\ m + 1 \in first + 1 .. m + 1 /\ \A i \in first + 1 .. m : i \in first + 1 .. m + 1
      /\ \A i \in first + 1 .. m + 1 : i = m + 1 \/ (i \in first + 1 .. m /\ i < m + 1)
  BY <1>6
<1>10. \A k \in 1 .. n : Wanted(k)' <=> Wanted(k)
  BY DEF Wanted
<1>11. \A i \in first + 1 .. m : LET k == level[c[i]] IN
          k \in 1 .. n - 1 /\ Wanted(k) /\ pc[c[i]] = LineAddr[stack[k]]
  BY <1>2, <1>4 DEF TraceInv, Added
<1>12. \A k \in 1 .. n - 1 : Wanted(k) => \E i \in first + 1 .. m : level[c[i]] = k
  BY <1>2, <1>4 DEF TraceInv, Added
<1>13. \A i, j \in first + 1 .. m : i < j => level[c[i]] < level[c[j]]
  BY <1>2, <1>4 DEF TraceInv, Added
<1>14. Added' = first + 1 .. m + 1 /\ functions' = d
  BY <1>2, <1>3, <1>5 DEF Added
<1>15. ASSUME NEW i \in first + 1 .. m + 1, NEW k, k = level'[d[i]]
       PROVE  k \in 1 .. n /\ Wanted(k)' /\ pc'[d[i]] = LineAddr[stack[k]]
  <2>1. CASE i = m + 1
    BY <1>1, <1>5, <1>8, <1>10, <1>15, <2>1
  <2>2. CASE i \in first + 1 .. m
    <3>1. d[i] = c[i] /\ k = level[c[i]] /\ pc'[d[i]] = pc[c[i]]
      BY <1>5, <1>7, <1>8, <1>15, <2>2
    <3>. QED
      BY <1>1, <1>10, <1>11, <2>2, <3>1
  <2>. QED
    BY <1>9, <2>1, <2>2
<1>16. ASSUME NEW k \in 1 .. n, Wanted(k)'
       PROVE  \E i \in first + 1 .. m + 1 : level'[d[i]] = k
  <2>1. CASE k = n
    BY <1>5, <1>8, <1>9, <2>1
  <2>2. CASE k \in 1 .. n - 1
    <3>1. PICK i \in first + 1 .. m : level[c[i]] = k
      BY <1>10, <1>12, <1>16, <2>2
    <3>2. level'[d[i]] = k
      BY <1>5, <1>7, <1>8, <3>1
    <3>. QED
      BY <1>9, <3>2
  <2>. QED
    BY <1>1, <2>1, <2>2
<1>17. ASSUME NEW i \in first + 1 .. m + 1, NEW j \in first + 1 .. m + 1, i < j
       PROVE  level'[d[i]] < level'[d[j]]
  <2>1. i \in first + 1 .. m /\ d[i] = c[i] /\ level'[d[i]] = level[c[i]]
    BY <1>5, <1>6, <1>7, <1>8, <1>9, <1>17
  <2>2. CASE j = m + 1
    <3>1. level'[d[j]] = n
      BY <1>5, <1>8, <2>2
    <3>2. level[c[i]] \in 1 .. n - 1
      BY <1>11, <2>1
    <3>. QED
      BY <1>1, <2>1, <3>1, <3>2
  <2>3. CASE j \in first + 1 .. m
    <3>1. level'[d[j]] = level[c[j]]
      BY <1>5, <1>7, <1>8, <2>3
    <3>. QED
      BY <1>13, <1>17, <2>1, <2>3, <3>1
  <2>. QED
    BY <1>9, <2>2, <2>3
<1>18. skip' <=> ~Met(step - 1)'
  BY <1>1 DEF Met
<1>19. first' = first /\ first <= Len(d) /\ lost' \subseteq 1 .. n /\ stack' = stack
  BY <1>1, <1>5, <1>6
<1>. QED
  BY <1>1, <1>14, <1>15, <1>16, <1>17, <1>18, <1>19 DEF TraceInv

LEMMA BeginTrace ==
    ASSUME IInv, NEW next, Begin(next), UNCHANGED <<functions, caller>>
    PROVE  TraceInv'
<1>1. step' = 1 /\ skip' = TRUE /\ first' = Len(functions) /\ lost' = {}
  BY DEF Begin
<1>2. Added' = {} /\ 1 .. step' - 1 = {}
  <2>1. Len(functions) \in Nat
    BY DEF IInv, TypeOK
  <2>. QED
    BY <1>1, <2>1 DEF Added
<1>3. first' <= Len(functions')
  <2>1. Len(functions) \in Nat
    BY DEF IInv, TypeOK
  <2>. QED
    BY <1>1, <2>1
<1>4. ~Met(step - 1)'
  BY <1>2 DEF Met
<1>. QED
  BY <1>1, <1>2, <1>3, <1>4 DEF TraceInv

LEMMA TraceStep == IInv /\ TraceInv /\ [Next]_vars => TraceInv'
<1> SUFFICES ASSUME IInv, TraceInv, [Next]_vars, phase' = "unwind" PROVE TraceInv'
  BY DEF TraceInv
<1> DEFINE n == step
<1>1. CASE UNCHANGED vars
  BY <1>1 DEF vars, results, fields, handler, unwound, calls, TraceInv, Added, Met, Wanted
<1>2. CASE UnwindFails
  BY <1>2 DEF UnwindFails, CanCall
<1>3. CASE UnwindSimple
  BY <1>3, BeginTrace DEF UnwindSimple, results
<1>4. CASE UnwindPretty
  <2>1. CASE functions = <<>>
    BY <1>4, <2>1, BeginTrace DEF UnwindPretty, results
  <2>2. CASE functions # <<>>
    BY <1>4, <2>2 DEF UnwindPretty, StartPass
  <2>. QED
    BY <2>1, <2>2
<1>5. CASE Fini
  BY <1>5 DEF Fini
<1>6. ASSUME InFrame
      PROVE  /\ skip <=> ~Met(n - 1)
             /\ Met(n) <=> Met(n - 1) \/ (stack[n] = caller /\ stack[n] \notin Unreadable)
             /\ n \in 1 .. n /\ lost \subseteq 1 .. n - 1 /\ n \notin 1 .. n - 1 /\ phase = "unwind"
             /\ stack[n] \in PCs /\ caller \in PCs \cup {NULL} /\ NULL \notin PCs
  <2>1. phase = "unwind" /\ n <= Len(stack)
    BY <1>6 DEF InFrame
  <2>2. stack[n] \in PCs
    BY <2>1, UnwindFacts
  <2>3. caller \in PCs \cup {NULL} /\ NULL \notin PCs
    BY NullAssumption, ProgramAssumption DEF IInv, TypeOK
  <2>. QED
    BY <2>1, <2>2, <2>3, UnwindFacts, MetStep DEF TraceInv
<1>7. CASE UnwindSkip
  <2>1. /\ InFrame /\ step' = n + 1 /\ UNCHANGED <<functions, level, pc, stack, caller, first, phase>>
        /\ lost' = lost /\ skip' = skip /\ (stack[n] \in Unreadable \/ Skips)
    BY <1>7 DEF UnwindSkip, results, fields, handler
  <2>2. ~Wanted(n) /\ (Met(n) <=> Met(n - 1))
    <3>1. CASE stack[n] \in Unreadable
      BY <1>6, <2>1, <3>1 DEF Wanted
    <3>2. CASE Skips
      <4>1. caller # NULL /\ stack[n] # caller /\ ~Met(n - 1)
        BY <1>6, <2>1, <3>2 DEF Skips
      <4>2. ~Met(n)
        BY <1>6, <2>1, <4>1
      <4>. QED
        BY <4>1, <4>2 DEF Wanted, Met
    <3>. QED
      BY <2>1, <3>1, <3>2
  <2>3. skip' <=> ~Met(n)
    BY <1>6, <2>1, <2>2
  <2>. QED
    BY <1>6, <2>1, <2>2, <2>3, NothingAdded
<1>8. ASSUME Keeps
      PROVE  /\ InFrame /\ stack[n] \notin Unreadable /\ step' = n + 1
             /\ UNCHANGED <<stack, caller, first, phase>>
             /\ skip' <=> ~Met(n)
             /\ n \notin lost /\ Wanted(n)
  <2>1. /\ InFrame /\ stack[n] \notin Unreadable /\ ~Skips /\ step' = n + 1
        /\ skip' = (skip /\ stack[n] # caller) /\ UNCHANGED <<stack, caller, first, phase>>
    BY <1>8 DEF Keeps, handler
  <2>2. n \notin lost
    BY <1>6, <2>1
  <2>3. skip' <=> ~Met(n)
    BY <1>6, <2>1
  <2>4. caller # NULL => Met(n)
    BY <1>6, <2>1 DEF Skips
  <2>5. Wanted(n)
    BY <2>1, <2>2, <2>4 DEF Wanted, Met
  <2>. QED
    BY <2>1, <2>2, <2>3, <2>5
<1>9. CASE UnwindLose
  <2>1. Keeps /\ lost' = lost \cup {n} /\ UNCHANGED <<functions, level, pc>>
    BY <1>9 DEF UnwindLose, results, fields
  <2>. QED
    BY <1>6, <1>8, <2>1, NothingAdded
<1>10. CASE UnwindFrame
  <2>1. PICK new \in Fns : new = New /\ new \notin live
    BY <1>10, NewFunction DEF UnwindFrame, IInv
  <2>2. /\ Keeps /\ functions' = Append(functions, new) /\ lost' = lost
        /\ pc' = [pc EXCEPT ![new] = LineAddr[stack[n]]] /\ level' = [level EXCEPT ![new] = n]
    BY <1>10, <2>1 DEF UnwindFrame
  <2>. QED
    BY <1>6, <1>8, <2>1, <2>2, FrameAdded
<1>11. CASE UnwindEnd
  <2>1. phase' # "unwind"
    BY <1>11 DEF UnwindEnd, StartPass
  <2>. QED
    BY <2>1
<1>12. CASE HandleNothing \/ HandleEnd
  BY <1>12 DEF HandleNothing, HandleEnd, NextFunction
<1>13. CASE HandleFunction \/ HandleCrash
  BY <1>13 DEF HandleFunction, HandleCrash
<1>14. CASE HandleVariable \/ HandleEntryVariable \/ HandleUnspecified \/ HandleCallSite
  BY <1>14 DEF HandleVariable, HandleEntryVariable, HandleUnspecified, HandleCallSite, InChild
<1>. QED
  BY <1>1, <1>2, <1>3, <1>4, <1>5, <1>7, <1>9, <1>10, <1>11, <1>12, <1>13, <1>14 DEF Next, Internal

LEMMA TraceHolds == IInv /\ TraceInv => TraceOK
<1> SUFFICES ASSUME IInv, TraceInv, phase = "unwind" PROVE TraceOK
  BY DEF TraceOK
<1> DEFINE n == Len(functions) - first
           added == [i \in 1 .. n |-> functions[first + i]]
<1>1. n \in Nat /\ first \in Nat /\ Len(functions) \in Nat
  BY UnwindFacts DEF TraceInv
<1>2. Len(added) = n
  BY <1>1
<1>3. \A i \in 1 .. n : first + i \in Added /\ added[i] = functions[first + i]
  BY <1>1 DEF Added
<1>4. \A i \in Added : i - first \in 1 .. n /\ added[i - first] = functions[i]
  BY <1>1 DEF Added
<1> HIDE DEF added
<1>5. {level[added[i]] : i \in 1 .. Len(added)} = {k \in 1 .. step - 1 : Wanted(k)}
  <2>1. ASSUME NEW i \in 1 .. n PROVE level[added[i]] \in {k \in 1 .. step - 1 : Wanted(k)}
    BY <1>3 DEF TraceInv
  <2>2. ASSUME NEW k \in 1 .. step - 1, Wanted(k) PROVE \E i \in 1 .. n : level[added[i]] = k
    <3>1. PICK j \in Added : level[functions[j]] = k
      BY <2>2 DEF TraceInv
    <3>. QED
      BY <1>4, <3>1
  <2>. QED
    BY <1>2, <2>1, <2>2
<1>6. ASSUME NEW i \in 1 .. Len(added)
      PROVE  /\ pc[added[i]] = LineAddr[stack[level[added[i]]]]
             /\ i < Len(added) => level[added[i]] < level[added[i + 1]]
  <2>1. pc[added[i]] = LineAddr[stack[level[added[i]]]]
    BY <1>2, <1>3 DEF TraceInv
  <2>2. ASSUME i < Len(added) PROVE level[added[i]] < level[added[i + 1]]
    <3>1. i + 1 \in 1 .. n /\ first + i < first + (i + 1)
      BY <1>1, <1>2, <2>2
    <3>. QED
      BY <1>2, <1>3, <3>1 DEF TraceInv
  <2>. QED
    BY <2>1, <2>2
<1>. QED
  BY <1>5, <1>6 DEF TraceOK, added

-----------------------------------------------------------------------------
(* Which of two functions has been added first. *)

(* The list goes from one unwinding to the next, and outwards in each. *)
OrderInv ==
    /\ \A i \in 1 .. Len(functions) : trace[functions[i]] <= unwinds
    /\ \A i, j \in 1 .. Len(functions) : i < j =>
          \/ trace[functions[i]] < trace[functions[j]]
          \/ /\ trace[functions[i]] = trace[functions[j]]
             /\ level[functions[i]] < level[functions[j]]
    /\ phase = "unwind" => \A i \in 1 .. Len(functions) :
          trace[functions[i]] < unwinds \/ level[functions[i]] < step

LEMMA OrderSame ==
    ASSUME IInv, OrderInv, UNCHANGED <<functions, level, trace, unwinds>>,
           phase' # "unwind" \/ (phase = "unwind" /\ step' \in {step, step + 1})
    PROVE  OrderInv'
<1>1. step \in Nat /\ \A i \in 1 .. Len(functions) : level[functions[i]] \in Nat
  BY DEF IInv, TypeOK
<1>. QED
  BY <1>1 DEF OrderInv

LEMMA OrderBegin ==
    ASSUME IInv, OrderInv, UNCHANGED <<functions, level, trace>>, unwinds' = unwinds + 1
    PROVE  OrderInv'
<1>1. unwinds \in Nat /\ \A i \in 1 .. Len(functions) : trace[functions[i]] \in Nat
  BY DEF IInv, TypeOK
<1>2. \A i \in 1 .. Len(functions) : trace[functions[i]] < unwinds'
  BY <1>1 DEF OrderInv
<1>. QED
  BY <1>1, <1>2 DEF OrderInv

LEMMA OrderFrame ==
    ASSUME IInv, OrderInv, UnwindFrame
    PROVE  OrderInv'
<1>1. PICK new \in Fns : new = New /\ new \notin live
  BY NewFunction DEF UnwindFrame, IInv
<1>2. /\ functions' = Append(functions, new) /\ phase = "unwind" /\ phase' = phase
      /\ level' = [level EXCEPT ![new] = step] /\ trace' = [trace EXCEPT ![new] = unwinds]
      /\ step' = step + 1 /\ unwinds' = unwinds
  BY <1>1 DEF UnwindFrame, Keeps, InFrame, calls
<1>3. PICK n \in Nat : n = Len(functions)
  BY DEF IInv, TypeOK
<1>4. /\ Len(functions') = n + 1 /\ functions'[n + 1] = new
      /\ \A i \in 1 .. n : functions'[i] = functions[i] /\ functions[i] \in live
      /\ \A i \in 1 .. n + 1 : i \in 1 .. n \/ i = n + 1
  <2>1. functions \in Seq(Fns)
    BY DEF IInv, TypeOK
  <2>2. \A i \in 1 .. n : functions[i] \in live
    BY <1>3 DEF IInv, Chained
  <2>. QED
    BY <1>1, <1>2, <1>3, <2>1, <2>2
<1>5. /\ trace'[new] = unwinds /\ level'[new] = step
      /\ \A i \in 1 .. n : /\ trace'[functions[i]] = trace[functions[i]]
                           /\ level'[functions[i]] = level[functions[i]]
                           /\ trace[functions[i]] \in Nat /\ level[functions[i]] \in Nat
      /\ unwinds \in Nat /\ step \in Nat
  BY <1>1, <1>2, <1>4 DEF IInv, TypeOK
<1>6. \A i \in 1 .. n :
         trace[functions[i]] < unwinds \/ (trace[functions[i]] = unwinds /\ level[functions[i]] < step)
  BY <1>2, <1>3, <1>5 DEF OrderInv
<1>7. \A i \in 1 .. n + 1 :
         trace'[functions'[i]] <= unwinds /\ (trace'[functions'[i]] < unwinds \/ level'[functions'[i]] < step + 1)
  BY <1>4, <1>5, <1>6
<1>8. ASSUME NEW i \in 1 .. n + 1, NEW j \in 1 .. n + 1, i < j
      PROVE  \/ trace'[functions'[i]] < trace'[functions'[j]]
             \/ /\ trace'[functions'[i]] = trace'[functions'[j]]
                /\ level'[functions'[i]] < level'[functions'[j]]
  <2>1. i \in 1 .. n
    BY <1>3, <1>8
  <2>2. CASE j = n + 1
    BY <1>4, <1>5, <1>6, <2>1, <2>2
  <2>3. CASE j \in 1 .. n
    BY <1>3, <1>4, <1>5, <1>8, <2>1, <2>3 DEF OrderInv
  <2>. QED
    BY <1>4, <2>2, <2>3
<1>. QED
  BY <1>2, <1>4, <1>7, <1>8 DEF OrderInv

LEMMA OrderStep == IInv /\ OrderInv /\ [Next]_vars => OrderInv'
<1> SUFFICES ASSUME IInv, OrderInv, [Next]_vars PROVE OrderInv'
  OBVIOUS
<1>1. CASE UNCHANGED vars
  BY <1>1, OrderSame DEF vars, results, fields, unwound, calls
<1>2. CASE UnwindFails \/ UnwindSimple
  BY <1>2, OrderBegin DEF UnwindFails, UnwindSimple, Begin, results, fields
<1>3. CASE UnwindPretty
  <2>1. CASE functions = <<>>
    BY <1>3, <2>1, OrderBegin DEF UnwindPretty, Begin, results, fields
  <2>2. CASE functions # <<>>
    BY <1>3, <2>2, OrderSame DEF UnwindPretty, StartPass, results, fields
  <2>. QED
    BY <2>1, <2>2
<1>4. CASE Fini
  <2>1. functions' = <<>>
    BY <1>4 DEF Fini, NoFunctions
  <2>. QED
    BY <2>1 DEF OrderInv
<1>5. CASE UnwindSkip \/ UnwindLose
  BY <1>5, OrderSame DEF UnwindSkip, UnwindLose, Keeps, InFrame, results, fields, calls
<1>6. CASE UnwindEnd
  BY <1>6, OrderSame DEF UnwindEnd, StartPass, results, fields, calls
<1>7. CASE HandleNothing \/ HandleEnd
  BY <1>7, OrderSame DEF HandleNothing, HandleEnd, NextFunction, results, fields, calls
<1>8. CASE HandleCrash \/ HandleFunction
  BY <1>8, OrderSame DEF HandleCrash, HandleFunction, results, fields, calls
<1>9. CASE HandleVariable \/ HandleEntryVariable \/ HandleUnspecified \/ HandleCallSite
  BY <1>9, OrderSame DEF HandleVariable, HandleEntryVariable, HandleUnspecified, HandleCallSite,
     InChild, calls
<1>. QED
  BY <1>1, <1>2, <1>3, <1>4, <1>5, <1>6, <1>7, <1>8, <1>9, OrderFrame DEF Next, Internal

(* The next function of the list is the caller, if the same unwinding has   *)
(* added it, and otherwise there is none further out.                       *)
LEMMA LinksHold == IInv /\ OrderInv => ParentLinks
<1> SUFFICES ASSUME IInv, OrderInv, NEW f \in live
             PROVE  IF Outer(f) # {}
                    THEN parent[f] \in Outer(f) /\ \A g \in Outer(f) : level[g] >= level[parent[f]]
                    ELSE parent[f] = NULL \/ (parent[f] \in live /\ trace[parent[f]] > trace[f])
  BY DEF ParentLinks, IInv, Chained
<1>1. PICK n \in Nat : n = Len(functions)
  BY DEF IInv, TypeOK
<1>2. PICK i \in 1 .. n : f = functions[i]
  BY <1>1 DEF IInv, Chained
<1>3. \A k \in 1 .. n : /\ functions[k] \in live
                        /\ trace[functions[k]] \in Nat /\ level[functions[k]] \in Nat
  BY <1>1 DEF IInv, Chained, TypeOK
<1>4. \A j, k \in 1 .. n : j < k =>
          \/ trace[functions[j]] < trace[functions[k]]
          \/ /\ trace[functions[j]] = trace[functions[k]]
             /\ level[functions[j]] < level[functions[k]]
  BY <1>1 DEF OrderInv
<1>5. ASSUME NEW g \in Outer(f)
      PROVE  \E j \in i + 1 .. n : g = functions[j]
  <2>1. PICK j \in 1 .. n : g = functions[j]
    BY <1>1 DEF Outer, IInv, Chained
  <2>2. trace[functions[j]] = trace[functions[i]] /\ level[functions[j]] > level[functions[i]]
    BY <1>2, <2>1 DEF Outer
  <2>3. ~(j < i) /\ j # i
    BY <1>3, <1>4, <2>2
  <2>. QED
    BY <2>1, <2>3
<1>6. CASE i = n
  <2>1. parent[f] = NULL
    BY <1>1, <1>2, <1>6 DEF IInv, Chained
  <2>2. Outer(f) = {}
    BY <1>5, <1>6
  <2>. QED
    BY <2>1, <2>2
<1>7. CASE i # n
  <2>1. i + 1 \in 1 .. n /\ i < i + 1
    BY <1>7
  <2>2. PICK h \in live : h = functions[i + 1]
    BY <1>3, <2>1
  <2>3. parent[f] = h
    BY <1>1, <1>2, <1>7, <2>2 DEF IInv, Chained
  <2>4. trace[h] \in Nat /\ level[h] \in Nat /\ trace[f] \in Nat
    BY <1>2, <1>3, <2>1, <2>2
  <2>5. CASE trace[h] = trace[f]
    <3>1. h \in Outer(f)
      BY <1>2, <1>3, <1>4, <2>1, <2>2, <2>5 DEF Outer
    <3>2. ASSUME NEW g \in Outer(f) PROVE level[g] >= level[h]
      <4>1. PICK j \in i + 1 .. n : g = functions[j]
        BY <1>5
      <4>2. j = i + 1 \/ (j \in 1 .. n /\ i + 1 < j)
        OBVIOUS
      <4>3. trace[g] = trace[h]
        BY <2>5 DEF Outer
      <4>. QED
        BY <1>3, <1>4, <2>1, <2>2, <2>4, <4>1, <4>2, <4>3
    <3>. QED
      BY <2>3, <3>1, <3>2
  <2>6. CASE trace[h] # trace[f]
    <3>1. trace[h] > trace[f]
      BY <1>2, <1>3, <1>4, <2>1, <2>2, <2>4, <2>6
    <3>2. ASSUME NEW g \in Outer(f) PROVE FALSE
      <4>1. PICK j \in i + 1 .. n : g = functions[j]
        BY <1>5
      <4>2. j = i + 1 \/ (j \in 1 .. n /\ i + 1 < j)
        OBVIOUS
      <4>3. trace[g] = trace[f] /\ trace[g] \in Nat
        BY <2>4 DEF Outer
      <4>. QED
        BY <1>3, <1>4, <2>1, <2>2, <2>4, <3>1, <4>1, <4>2, <4>3
    <3>. QED
      BY <2>2, <2>3, <3>1, <3>2
  <2>. QED
    BY <2>5, <2>6
<1>. QED
  BY <1>6, <1>7

-----------------------------------------------------------------------------
(* What the first pass of pst_handler_handle_dwarf leaves. *)

(* No pass has been over the function. *)
Blank(f) == params[f] = <<>> /\ sites[f] = {}

(* What EntryResolved says of one function. *)
Resolved(f) ==
    \A i \in 1 .. Len(params[f]) :
        LET p == params[f][i] IN
        (/\ p.die # 0 /\ p.from = Undefined
         /\ Children[Name(f)][p.die].tag = "entry_variable")
            => parent[f] = NULL \/ Name(f) \notin sites[parent[f]]

(* The first pass goes from the end of the list to its beginning. *)
FirstPass ==
    \E n \in 1 .. Len(functions) :
        /\ functions[n] = fun
        /\ \A i \in 1 .. n : i < n \/ phase = "handle" => Blank(functions[i])
        /\ \A i \in n .. Len(functions) : Resolved(functions[i])

PassInv ==
    /\ \A f \in Fns \ live : Blank(f)
    /\ passes = 0 => /\ \A f \in Fns : Blank(f)
                     /\ phase = "ready" \/ (phase = "unwind" /\ resume = "ready")
    /\ passes = 1 =>
          /\ phase = "ready" \/ (phase = "unwind" /\ resume = "ready") =>
                \A f \in live : Resolved(f)
          /\ phase = "unwind" /\ resume = "handle" => \A f \in Fns : Blank(f)
          /\ phase \in {"handle", "children"} => FirstPass

LEMMA PassHolds == PassInv => EntryResolved
BY DEF PassInv, EntryResolved, Resolved

LEMMA BlankResolved == ASSUME NEW f, Blank(f) PROVE Resolved(f)
BY DEF Blank, Resolved

LEMMA InitPass == Init => PassInv
<1> SUFFICES ASSUME Init PROVE PassInv
  OBVIOUS
<1>1. \A f \in Fns : Blank(f)
  BY DEF Init, NoFunctions, NoCalls, Blank
<1>. QED
  BY <1>1 DEF Init, NoCalls, PassInv

(* The functions and what has been found of them are the same. *)
LEMMA SameFunctions ==
    ASSUME UNCHANGED <<functions, live, pc, parent, params, sites>>
    PROVE  \A f : (Blank(f)' <=> Blank(f)) /\ (Resolved(f)' <=> Resolved(f))
BY DEF Blank, Resolved, Name

(* Where the cursor is, and where it goes. *)
LEMMA CursorAt ==
    ASSUME IInv, NEW n \in 1 .. Len(functions), functions[n] = fun, NextFunction
    PROVE  /\ n = 1 => phase' = "ready"
           /\ n # 1 => phase' = "handle" /\ n - 1 \in 1 .. Len(functions) /\ fun' = functions[n - 1]
<1>1. PICK m \in Nat : m = Len(functions)
  BY DEF IInv, TypeOK
<1>2. Turns = [i \in 1 .. m |-> functions[(m - i) + 1]] /\ Len(Turns) = m
  BY <1>1, TurnsRange DEF Turns, Reverse, IInv
<1>3. \A i \in 1 .. m : Turns[i] = functions[(m - i) + 1] /\ (m - i) + 1 \in 1 .. m
  BY <1>1, <1>2
<1>4. \A i, j \in 1 .. m : functions[i] = functions[j] => i = j
  BY <1>1 DEF IInv, Chained
<1>5. (m - n) + 1 \in 1 .. m /\ Turns[(m - n) + 1] = fun
  BY <1>1, <1>3
<1>6. Turn \in 1 .. m /\ Turns[Turn] = fun
  BY <1>2, <1>5 DEF Turn
<1>7. (m - Turn) + 1 = n
  BY <1>1, <1>3, <1>4, <1>6, SMTT(30)
<1>8. CASE n = 1
  BY <1>1, <1>2, <1>6, <1>7, <1>8 DEF NextFunction
<1>9. CASE n # 1
  <2>1. Turn # m /\ Turn + 1 \in 1 .. m /\ (m - (Turn + 1)) + 1 = n - 1
    BY <1>1, <1>6, <1>7, <1>9
  <2>2. Turns[Turn + 1] = functions[n - 1] /\ n - 1 \in 1 .. m
    BY <1>3, <2>1
  <2>. QED
    BY <1>1, <1>2, <1>9, <2>1, <2>2 DEF NextFunction
<1>. QED
  BY <1>8, <1>9

LEMMA PassStarts ==
    ASSUME IInv, StartPass, UNCHANGED <<functions, live, pc, parent, params, sites>>,
           \A f \in Fns : Blank(f)
    PROVE  /\ phase' \in {"ready", "handle"}
           /\ phase' = "ready" => \A f \in live' : Resolved(f)'
           /\ phase' = "handle" => FirstPass'
<1>1. PICK m \in Nat : m = Len(functions)
  BY DEF IInv, TypeOK
<1>2. Turns = [i \in 1 .. m |-> functions[(m - i) + 1]] /\ Len(Turns) = m
  BY <1>1, TurnsRange DEF Turns, Reverse, IInv
<1>3. \A f \in Fns : Blank(f)' /\ Resolved(f)'
  BY SameFunctions, BlankResolved
<1>4. live \subseteq Fns /\ \A i \in 1 .. m : functions[i] \in Fns
  BY <1>1 DEF IInv, TypeOK
<1>5. CASE Turns = <<>>
  BY <1>3, <1>4, <1>5 DEF StartPass
<1>6. CASE Turns # <<>>
  <2>1. m # 0
    BY <1>2, <1>6, TurnsRange DEF IInv
  <2>2. m \in 1 .. m /\ 1 \in 1 .. m /\ (m - 1) + 1 = m
    BY <2>1
  <2>3. fun' = functions[m] /\ phase' = "handle"
    BY <1>2, <1>6, <2>2 DEF StartPass
  <2>4. /\ m \in 1 .. Len(functions') /\ functions'[m] = fun'
        /\ \A i \in 1 .. m : Blank(functions[i])' /\ Resolved(functions[i])'
    BY <1>1, <1>3, <1>4, <2>2, <2>3
  <2>5. FirstPass'
    <3>1. \A i \in 1 .. m : Blank(functions[i])'
      BY <2>4
    <3>2. \A i \in m .. Len(functions) : Resolved(functions[i])'
      BY <1>1, <2>2, <2>4
    <3>. QED
      BY <2>4, <3>1, <3>2 DEF FirstPass
  <2>. QED
    BY <2>3, <2>5
<1>. QED
  BY <1>5, <1>6

(* A parent is another function. *)
LEMMA ParentIs ==
    ASSUME IInv, NEW i \in 1 .. Len(functions)
    PROVE  /\ functions[i] \in live /\ functions[i] \in Fns
           /\ \/ parent[functions[i]] = NULL
              \/ /\ i + 1 \in 1 .. Len(functions)
                 /\ parent[functions[i]] = functions[i + 1] /\ functions[i + 1] # functions[i]
<1>1. Len(functions) \in Nat /\ functions[i] \in live /\ functions[i] \in Fns
  <2>1. Len(functions) \in Nat /\ live \subseteq Fns
    BY DEF IInv, TypeOK
  <2>2. functions[i] \in live
    BY DEF IInv, Chained
  <2>. QED
    BY <2>1, <2>2
<1>2. CASE i = Len(functions)
  BY <1>1, <1>2 DEF IInv, Chained
<1>3. CASE i # Len(functions)
  <2>1. i + 1 \in 1 .. Len(functions) /\ i + 1 # i
    BY <1>1, <1>3
  <2>. QED
    BY <1>1, <1>3, <2>1 DEF IInv, Chained
<1>. QED
  BY <1>2, <1>3

(* The function the pass is at is handled, at any point of its children. *)
LEMMA PassHandles ==
    ASSUME IInv, PassInv, phase \in {"handle", "children"}, phase' = "children",
           UNCHANGED <<functions, live, pc, parent, fun, passes>>,
           \A f \in Fns : f # fun => params'[f] = params[f] /\ sites'[f] = sites[f],
           Resolved(fun) /\ (phase = "handle" => Blank(fun)) => Resolved(fun)'
    PROVE  PassInv'
<1>1. fun \in live /\ live \subseteq Fns
  BY DEF IInv, CursorOK, TypeOK
<1>2. \A f \in Fns : f # fun => (Blank(f)' <=> Blank(f))
  BY DEF Blank
<1>3. \A f \in Fns \ live' : Blank(f)'
  BY <1>1, <1>2 DEF PassInv
<1>4. ASSUME passes = 1 PROVE FirstPass'
  <2>1. PICK n \in 1 .. Len(functions) :
           /\ functions[n] = fun
           /\ \A i \in 1 .. n : i < n \/ phase = "handle" => Blank(functions[i])
           /\ \A i \in n .. Len(functions) : Resolved(functions[i])
    BY <1>4 DEF PassInv, FirstPass
  <2>2. PICK m \in Nat : m = Len(functions)
    BY DEF IInv, TypeOK
  <2>3. \A i \in 1 .. m : i # n => functions[i] # fun /\ functions[i] \in Fns
    BY <2>1, <2>2, ParentIs DEF IInv, Chained
  <2>4. \A i \in 1 .. n : i < n => Blank(functions[i])'
    BY <1>2, <2>1, <2>2, <2>3
  <2>5. ASSUME NEW i \in n .. m, i # n PROVE Resolved(functions[i])'
    <3>1. i \in 1 .. m /\ i > n
      BY <2>1, <2>2, <2>5
    <3>2. PICK f \in Fns : f = functions[i] /\ f # fun
      BY <2>3, <2>5, <3>1
    <3>3. parent[f] = NULL \/ (parent[f] # fun /\ parent[f] \in Fns)
      <4>1. CASE parent[f] # NULL
        <5>1. i + 1 \in 1 .. m /\ parent[f] = functions[i + 1] /\ i + 1 # n
          BY <2>2, <3>1, <3>2, <4>1, ParentIs
        <5>. QED
          BY <2>3, <5>1
      <4>. QED
        BY <4>1
    <3>4. Resolved(f)
      BY <2>1, <2>2, <3>2
    <3>5. params'[f] = params[f] /\ (parent[f] # NULL => sites'[parent[f]] = sites[parent[f]])
      BY <3>2, <3>3
    <3>6. Resolved(f)'
      BY <3>4, <3>5 DEF Resolved, Name
    <3>. QED
      BY <3>2, <3>6
  <2>6. Resolved(fun)'
    <3>1. n \in 1 .. n /\ n \in n .. Len(functions)
      BY <2>1, <2>2
    <3>. QED
      BY <2>1, <3>1
  <2>7. \A i \in n .. m : Resolved(functions[i])'
    BY <2>1, <2>5, <2>6
  <2>8. n \in 1 .. Len(functions') /\ functions'[n] = fun'
    BY <2>1
  <2>. QED
    BY <2>2, <2>4, <2>7, <2>8 DEF FirstPass
<1>5. passes # 0
  BY DEF PassInv
<1>. QED
  BY <1>3, <1>4, <1>5 DEF PassInv

(* The pass goes on to the next function. *)
LEMMA PassMoves ==
    ASSUME IInv, PassInv, phase \in {"handle", "children"}, NextFunction,
           UNCHANGED <<functions, live, pc, parent, params, sites, passes>>
    PROVE  PassInv'
<1>1. \A f : (Blank(f)' <=> Blank(f)) /\ (Resolved(f)' <=> Resolved(f))
  BY SameFunctions
<1>2. phase' \in {"ready", "handle"} /\ passes # 0
  BY DEF NextFunction, PassInv
<1>3. ASSUME passes = 1
      PROVE  (phase' = "ready" => \A f \in live : Resolved(f)) /\ (phase' = "handle" => FirstPass')
  <2>1. PICK n \in 1 .. Len(functions) :
           /\ functions[n] = fun
           /\ \A i \in 1 .. n : i < n \/ phase = "handle" => Blank(functions[i])
           /\ \A i \in n .. Len(functions) : Resolved(functions[i])
    BY <1>3 DEF PassInv, FirstPass
  <2>2. PICK m \in Nat : m = Len(functions)
    BY DEF IInv, TypeOK
  <2>3. CASE n = 1
    BY <2>1, <2>3, CursorAt DEF IInv, Chained
  <2>4. CASE n # 1
    <3>1. phase' = "handle" /\ n - 1 \in 1 .. Len(functions) /\ fun' = functions[n - 1]
      BY <2>1, <2>4, CursorAt
    <3>2. \A i \in 1 .. n - 1 : Blank(functions[i])
      BY <2>1, <3>1
    <3>3. \A i \in n - 1 .. m : Resolved(functions[i])
      <4>1. Blank(functions[n - 1])
        BY <2>1, <3>1, <3>2
      <4>2. Resolved(functions[n - 1])
        BY <4>1, BlankResolved
      <4>3. \A i \in n - 1 .. m : i = n - 1 \/ i \in n .. m
        BY <2>1
      <4>. QED
        BY <2>1, <2>2, <4>2, <4>3
    <3>4. PICK p : p = n - 1
      OBVIOUS
    <3>5. \A i \in 1 .. p : Blank(functions[i])'
      BY <1>1, <3>2, <3>4
    <3>6. \A i \in p .. m : Resolved(functions[i])'
      BY <1>1, <3>3, <3>4
    <3>7. p \in 1 .. Len(functions') /\ functions'[p] = fun'
      BY <3>1, <3>4
    <3>8. FirstPass'
      BY <2>2, <3>5, <3>6, <3>7 DEF FirstPass
    <3>. QED
      BY <3>1, <3>8
  <2>. QED
    BY <2>3, <2>4
<1>4. \A f \in Fns \ live' : Blank(f)'
  BY <1>1 DEF PassInv
<1>. QED
  BY <1>1, <1>2, <1>3, <1>4 DEF PassInv

(* A parameter that does not break the rule. *)
LEMMA PassAdds ==
    ASSUME IInv, PassInv, NEW tag, InChild(tag), NEW from, AddParam(from),
           \/ from # Undefined \/ tag # "entry_variable"
           \/ parent[fun] = NULL \/ Name(fun) \notin sites[parent[fun]]
    PROVE  PassInv'
<1>1. /\ UNCHANGED <<functions, live, pc, parent, fun, passes>> /\ phase = "children" /\ phase' = phase
      /\ Dies[child].tag = tag
  BY DEF InChild, calls
<1>2. fun \in Fns /\ params \in [Fns -> Seq(Param)]
  BY <1>1 DEF IInv, CursorOK, TypeOK
<1>3. PICK p : p = [die |-> child, from |-> from]
  OBVIOUS
<1>4. sites' = sites /\ params' = [params EXCEPT ![fun] = Append(@, p)]
  BY <1>3 DEF AddParam
<1>5. PICK c \in Seq(Param) : c = params[fun]
  BY <1>2
<1>6. PICK d : d = Append(c, p)
  OBVIOUS
<1>7. Len(c) \in Nat /\ Len(d) = Len(c) + 1 /\ d[Len(c) + 1] = p /\ \A i \in 1 .. Len(c) : d[i] = c[i]
  BY <1>6
<1>8. params'[fun] = d
  BY <1>2, <1>4, <1>5, <1>6
<1>9. ASSUME Resolved(fun) PROVE Resolved(fun)'
  <2>1. \A i \in 1 .. Len(d) : i \in 1 .. Len(c) \/ d[i] = p
    BY <1>7
  <2>2. Children[Name(fun)][p.die].tag = tag /\ p.from = from
    BY <1>1, <1>3 DEF Dies
  <2>3. Name(fun)' = Name(fun)
    BY <1>1 DEF Name
  <2>4. \A i \in 1 .. Len(d) :
           (/\ d[i].die # 0 /\ d[i].from = Undefined
            /\ Children[Name(fun)][d[i].die].tag = "entry_variable")
               => parent[fun] = NULL \/ Name(fun) \notin sites[parent[fun]]
    BY <1>5, <1>7, <1>9, <2>1, <2>2 DEF Resolved
  <2>. QED
    BY <1>1, <1>4, <1>8, <2>3, <2>4 DEF Resolved, Name
<1>. QED
  BY <1>1, <1>2, <1>4, <1>9, PassHandles

(* What an unwinding adds has been through no pass. *)
LEMMA PassFrame ==
    ASSUME IInv, PassInv, UnwindFrame
    PROVE  PassInv'
<1>1. PICK new \in Fns : new = New /\ new \notin live
  BY NewFunction DEF UnwindFrame, IInv
<1>2. /\ functions' = Append(functions, new) /\ live' = live \cup {new}
      /\ pc' = [pc EXCEPT ![new] = LineAddr[stack[step]]]
      /\ parent' = (IF functions = <<>> THEN parent
                    ELSE [parent EXCEPT ![functions[Len(functions)]] = new])
      /\ params' = params /\ sites' = sites
      /\ phase = "unwind" /\ phase' = phase /\ resume' = resume /\ passes' = passes
  BY <1>1 DEF UnwindFrame, Keeps, InFrame, calls
<1>3. \A f : Blank(f)' <=> Blank(f)
  BY <1>2 DEF Blank
<1>4. Blank(new)
  BY <1>1 DEF PassInv
<1>5. ASSUME NEW f \in live, Resolved(f) PROVE Resolved(f)'
  <2>1. f \in Fns /\ pc'[f] = pc[f]
    BY <1>1, <1>2, <1>5 DEF IInv, TypeOK
  <2>2. parent'[f] \in {parent[f], new}
    BY <1>2, <2>1 DEF IInv, TypeOK
  <2>3. sites[new] = {}
    BY <1>4 DEF Blank
  <2>4. Name(f)' = Name(f)
    BY <2>1 DEF Name
  <2>. QED
    BY <1>2, <1>5, <2>2, <2>3, <2>4 DEF Resolved, Name
<1>6. Resolved(new)'
  <2>1. params'[new] = <<>>
    BY <1>2, <1>4 DEF Blank
  <2>. QED
    BY <2>1 DEF Resolved
<1>7. \A f \in Fns \ live' : Blank(f)'
  BY <1>2, <1>3 DEF PassInv
<1>8. passes = 1 /\ resume = "ready" => \A f \in live' : Resolved(f)'
  BY <1>2, <1>5, <1>6 DEF PassInv
<1>9. passes = 1 /\ resume = "handle" => \A f \in Fns : Blank(f)'
  BY <1>2, <1>3 DEF PassInv
<1>10. passes = 0 => resume = "ready" /\ \A f \in Fns : Blank(f)'
  BY <1>2, <1>3 DEF PassInv
<1>. QED
  BY <1>2, <1>7, <1>8, <1>9, <1>10 DEF PassInv

(* The steps that do not touch the functions. *)
LEMMA PassSame ==
    ASSUME IInv, PassInv, UNCHANGED <<functions, live, pc, parent, params, sites, passes>>,
           phase' \in {"ready", "unwind"}, phase \in {"ready", "unwind"},
           \/ phase' = "unwind" /\ resume' = (IF phase = "ready" THEN "ready" ELSE resume)
           \/ phase' = "ready" /\ (phase = "ready" \/ resume = "ready")
    PROVE  PassInv'
<1>1. \A f : (Blank(f)' <=> Blank(f)) /\ (Resolved(f)' <=> Resolved(f))
  BY SameFunctions
<1>. QED
  BY <1>1 DEF PassInv

LEMMA PassPretty ==
    ASSUME IInv, PassInv, UnwindPretty
    PROVE  PassInv'
<1>1. /\ phase = "ready" /\ passes' = passes + 1 /\ passes \in Nat
      /\ UNCHANGED <<functions, live, pc, parent, params, sites>>
  BY DEF UnwindPretty, CanCall, results, fields, IInv, TypeOK
<1>2. \A f : (Blank(f)' <=> Blank(f)) /\ (Resolved(f)' <=> Resolved(f))
  BY <1>1, SameFunctions
<1>3. passes' # 0 /\ (passes' = 1 => passes = 0)
  BY <1>1
<1>4. \A f \in Fns \ live' : Blank(f)'
  BY <1>1, <1>2 DEF PassInv
<1>5. passes' = 1 => \A f \in Fns : Blank(f) /\ Blank(f)'
  BY <1>2, <1>3 DEF PassInv
<1>6. CASE functions = <<>>
  <2>1. phase' = "unwind" /\ resume' = "handle"
    BY <1>6 DEF UnwindPretty, Begin
  <2>. QED
    BY <1>3, <1>4, <1>5, <2>1 DEF PassInv
<1>7. CASE functions # <<>>
  <2>1. StartPass
    BY <1>7 DEF UnwindPretty
  <2>2. phase' \in {"ready", "handle"}
    BY <2>1 DEF StartPass
  <2>3. passes' = 1 => /\ phase' = "ready" => \A f \in live' : Resolved(f)'
                       /\ phase' = "handle" => FirstPass'
    BY <1>1, <1>5, <2>1, PassStarts
  <2>. QED
    BY <1>3, <1>4, <2>2, <2>3 DEF PassInv
<1>. QED
  BY <1>6, <1>7

LEMMA PassUnwound ==
    ASSUME IInv, PassInv, UnwindEnd
    PROVE  PassInv'
<1>1. phase = "unwind" /\ UNCHANGED <<functions, live, pc, parent, params, sites, passes>>
  BY DEF UnwindEnd, results, fields, calls
<1>2. CASE resume = "ready"
  <2>1. phase' = "ready"
    BY <1>2 DEF UnwindEnd
  <2>. QED
    BY <1>1, <1>2, <2>1, PassSame
<1>3. CASE resume = "handle"
  <2>1. StartPass /\ passes # 0
    BY <1>1, <1>3 DEF UnwindEnd, PassInv
  <2>2. phase' \in {"ready", "handle"}
    BY <2>1 DEF StartPass
  <2>3. passes = 1 => \A f \in Fns : Blank(f)
    BY <1>1, <1>3 DEF PassInv
  <2>4. passes' = 1 => /\ phase' = "ready" => \A f \in live' : Resolved(f)'
                       /\ phase' = "handle" => FirstPass'
    BY <1>1, <2>1, <2>3, PassStarts
  <2>5. \A f \in Fns \ live' : Blank(f)'
    BY <1>1, SameFunctions DEF PassInv
  <2>. QED
    BY <1>1, <2>1, <2>2, <2>4, <2>5 DEF PassInv
<1>. QED
  BY <1>2, <1>3 DEF IInv, TypeOK

LEMMA PassFunction ==
    ASSUME IInv, PassInv, HandleFunction
    PROVE  PassInv'
<1>1. /\ phase = "handle" /\ phase' = "children" /\ sites' = sites
      /\ UNCHANGED <<functions, live, pc, parent, fun, passes>>
      /\ params' \in {params, [params EXCEPT ![fun] = Append(@, [die |-> 0, from |-> Undefined])]}
  BY DEF HandleFunction, calls
<1>2. fun \in Fns /\ params \in [Fns -> Seq(Param)]
  BY <1>1 DEF IInv, CursorOK, TypeOK
<1>3. ASSUME Blank(fun) PROVE Resolved(fun)'
  <2>1. params'[fun] = <<>> \/ params'[fun] = <<[die |-> 0, from |-> Undefined]>>
    BY <1>1, <1>2, <1>3 DEF Blank
  <2>2. \A i \in 1 .. Len(params'[fun]) : params'[fun][i].die = 0
    BY <2>1
  <2>. QED
    BY <1>1, <2>2 DEF Resolved
<1>. QED
  BY <1>1, <1>2, <1>3, PassHandles

LEMMA PassChildren ==
    ASSUME IInv, PassInv,
           HandleVariable \/ HandleEntryVariable \/ HandleUnspecified \/ HandleCallSite
    PROVE  PassInv'
<1>1. CASE HandleVariable
  BY <1>1, PassAdds DEF HandleVariable
<1>2. CASE HandleUnspecified
  BY <1>2, PassAdds DEF HandleUnspecified
<1>3. CASE HandleEntryVariable
  <2>1. PICK from : from = IF parent[fun] # NULL /\ Name(fun) \in sites[parent[fun]]
                           THEN parent[fun] ELSE Undefined
    OBVIOUS
  <2>2. InChild("entry_variable") /\ AddParam(from)
    BY <1>3, <2>1 DEF HandleEntryVariable
  <2>3. fun \in Fns
    BY <2>2 DEF InChild, IInv, CursorOK, TypeOK
  <2>4. parent[fun] \in FnOrNull
    BY <2>3 DEF IInv, TypeOK
  <2>5. from # Undefined \/ parent[fun] = NULL \/ Name(fun) \notin sites[parent[fun]]
    BY <2>1, <2>4, NullAssumption DEF FnOrNull
  <2>. QED
    BY <2>2, <2>5, PassAdds
<1>4. CASE HandleCallSite
  <2>1. /\ UNCHANGED <<functions, live, pc, parent, fun, passes, params>>
        /\ phase = "children" /\ phase' = phase
    BY <1>4 DEF HandleCallSite, InChild, calls
  <2>2. PICK n \in 1 .. Len(functions) : fun = functions[n]
    BY <2>1 DEF IInv, CursorOK, Chained
  <2>3. fun \in Fns /\ parent[fun] # fun /\ parent[fun] \in FnOrNull
    BY <2>2, ParentIs, NullAssumption DEF IInv, TypeOK
  <2>4. \A f \in Fns : f # fun => sites'[f] = sites[f]
    BY <1>4, <2>3 DEF HandleCallSite, IInv, TypeOK
  <2>5. parent[fun] # NULL => sites'[parent[fun]] = sites[parent[fun]]
    BY <2>3, <2>4 DEF FnOrNull
  <2>6. Resolved(fun) => Resolved(fun)'
    BY <2>1, <2>5 DEF Resolved, Name
  <2>. QED
    BY <2>1, <2>4, <2>6, PassHandles
<1>. QED
  BY <1>1, <1>2, <1>3, <1>4

LEMMA PassStep == IInv /\ PassInv /\ [Next]_vars => PassInv'
<1> SUFFICES ASSUME IInv, PassInv, [Next]_vars PROVE PassInv'
  OBVIOUS
<1>1. CASE UNCHANGED vars
  <2>1. \A f : (Blank(f)' <=> Blank(f)) /\ (Resolved(f)' <=> Resolved(f))
    BY <1>1, SameFunctions DEF vars, results, fields
  <2>2. FirstPass' <=> FirstPass
    BY <1>1 DEF vars, results, fields, FirstPass, Blank, Resolved, Name
  <2>. QED
    BY <1>1, <2>1, <2>2 DEF vars, results, fields, unwound, calls, PassInv
<1>2. CASE UnwindFails
  BY <1>2, PassSame DEF UnwindFails, CanCall, results, fields, unwound
<1>3. CASE UnwindSimple
  BY <1>3, PassSame DEF UnwindSimple, Begin, CanCall, results, fields
<1>4. CASE Fini
  <2>1. \A f \in Fns : Blank(f)'
    BY <1>4 DEF Fini, NoFunctions, NoCalls, Blank
  <2>. QED
    BY <1>4, <2>1 DEF Fini, NoCalls, PassInv
<1>5. CASE UnwindSkip
  BY <1>5, PassSame DEF UnwindSkip, InFrame, results, fields, calls
<1>6. CASE UnwindLose
  BY <1>6, PassSame DEF UnwindLose, Keeps, InFrame, results, fields, calls
<1>7. CASE HandleNothing
  BY <1>7, PassMoves DEF HandleNothing, results, fields, calls
<1>8. CASE HandleEnd
  BY <1>8, PassMoves DEF HandleEnd, results, fields, calls
<1>9. CASE HandleCrash
  <2>1. \A f : (Blank(f)' <=> Blank(f)) /\ (Resolved(f)' <=> Resolved(f))
    BY <1>9, SameFunctions DEF HandleCrash, results, fields
  <2>2. phase = "handle" /\ phase' = "crashed" /\ passes' = passes /\ UNCHANGED <<live, resume>>
    BY <1>9 DEF HandleCrash, results, unwound, calls
  <2>. QED
    BY <2>1, <2>2 DEF PassInv
<1>. QED
  BY <1>1, <1>2, <1>3, <1>4, <1>5, <1>6, <1>7, <1>8, <1>9, PassPretty, PassFrame, PassUnwound,
     PassFunction, PassChildren DEF Next, Internal

-----------------------------------------------------------------------------
(* The theorems. *)

LEMMA IInvCorrect == Spec => []IInv
<1>1. IInv /\ [Next]_vars => IInv'
  BY UnwindFailsStep, UnwindSimpleStep, UnwindSkipStep, UnwindFrameStep, UnwindLoseStep,
     UnwindEndStep, UnwindPrettyStep, HandleNothingStep, HandleCrashStep, HandleFunctionStep,
     HandleChildStep, HandleEndStep, FiniStep, StutterStep
     DEF Next, Internal
<1> QED BY <1>1, InitIInv, PTL DEF Spec

(* The handler's state keeps its type, and a function is being handled      *)
(* exactly while pst_handler_handle_dwarf runs its loop.                    *)
THEOREM TypeCorrect == Spec => []TypeOK
<1>1. IInv => TypeOK
  BY DEF IInv
<1> QED BY <1>1, IInvCorrect, PTL

(* Whatever the stack, and however often it is unwound: the parent of a     *)
(* function is its caller in the trace it is of, or it is the outermost one *)
(* there and has no parent, but for one of a later trace; and no parent has *)
(* been freed.  src/dwarf/dwarf_handler.c:250-280.                          *)
THEOREM LinksCorrect == Spec => []ParentLinks
<1>1. Init => OrderInv
  BY DEF Init, NoFunctions, OrderInv
<1>2. Spec => []OrderInv
  BY <1>1, IInvCorrect, OrderStep, PTL DEF Spec
<1> QED BY <1>2, IInvCorrect, LinksHold, PTL

(* While function_handle_dwarf evaluates the children of a function, the    *)
(* shared context is that of this function, on every pass.                  *)
THEOREM ContextCorrect == Spec => []EvalContext
<1>1. IInv => EvalContext
  BY DEF IInv
<1> QED BY <1>1, IInvCorrect, PTL

(* Whatever of the stack is skipped, unreadable or given up by             *)
(* function_unwind, pst_handler_unwind_simple adds the frames that are     *)
(* wanted, each once, in the order of the stack.                           *)
THEOREM TraceCorrect == Spec => []TraceOK
<1>1. Init => TraceInv
  BY DEF Init, TraceInv
<1>2. Spec => []TraceInv
  BY <1>1, IInvCorrect, TraceStep, PTL DEF Spec
<1> QED BY <1>2, IInvCorrect, TraceHolds, PTL

(* The order in which pst_handler_handle_dwarf goes through the list makes  *)
(* every call site of a caller known before its callee's values at entry    *)
(* are looked up.                                                           *)
THEOREM EntryCorrect == Spec => []EntryResolved
<1>1. Spec => []PassInv
  BY InitPass, IInvCorrect, PassStep, PTL DEF Spec
<1> QED BY <1>1, PassHolds, PTL
=============================================================================
