------------------------------ MODULE Parameter ------------------------------
(***************************************************************************)
(* The parameters and variables of one function: the chain of types of     *)
(* each, with a child for every argument of a function type, the location  *)
(* its value is taken from, and what clears them.                          *)
(* src/dwarf/dwarf_parameter.c, handle_location of src/dwarf/dwarf_utils.c *)
(* and the calls src/dwarf/dwarf_function.c makes.                         *)
(*                                                                         *)
(* The recursion of parameter_handle_type, handle_subroutine and           *)
(* pst_parameter_fini is a stack of frames, the innermost call first.  A   *)
(* value is represented by what it was taken from and by how many of its   *)
(* low bytes are left; whether an expression can be evaluated is open (see *)
(* DwarfStack for what it yields).                                         *)
(***************************************************************************)
EXTENDS Naturals, Sequences, FiniteSets, SequencesExt

CONSTANTS
    Objs,       \* heap objects: pst_parameter
    Dies,       \* debug information entries
    Die,        \* what a DIE holds
    Rank,       \* how deep the types of a DIE are nested
    Offsets,    \* addresses in the function, relative to base_addr
    None, Bad,  \* there is no such attribute, or libdw cannot read it
    MaxParams,  \* bound on the parameters of the function
    MaxFamily   \* bound on the objects one parameter takes

ASSUME BoundAssumption == MaxParams \in Nat /\ MaxFamily \in Nat \ {0}
ASSUME OffsetAssumption == Offsets \subseteq Nat
ASSUME NoneAssumption == {None, Bad} \cap (Dies \cup Objs) = {} /\ None # Bad
ASSUME DieAssumption ==
    \A d \in Dies :
        /\ Die[d].type \in Dies \cup {None, Bad} /\ Die[d].size \in Nat \cup {None}
        /\ Die[d].args \in Seq(Dies)
        /\ Die[d].loc.form \in {"none", "exprloc", "loclist", "unknown"}
        /\ Die[d].const \in {"none", "known", "unknown"}
(* No type contains itself but through a structure, whose members are not followed. *)
ASSUME RankAssumption ==
    \A d \in Dies :
        /\ Rank[d] \in Nat
        /\ Die[d].type \in Dies => Rank[Die[d].type] < Rank[d]
        /\ \A i \in 1 .. Len(Die[d].args) : Rank[Die[d].args[i]] < Rank[d]
(* A location list is any list of ranges: in no order, empty ones and ones  *)
(* that overlap among them.  An expression has no range.                    *)
ASSUME LocationAssumption ==
    \A d \in Dies : LET e == Die[d].loc.entries IN
        /\ e \in Seq([start : Nat, end : Nat])
        /\ Die[d].loc.form = "exprloc" => Len(e) = 1
        /\ Die[d].loc.form \in {"none", "unknown"} => e = <<>>

VARIABLES
    params,   \* fn->params
    live,     \* the parameters that are allocated
    obj,      \* their fields
    orphans,  \* children whose parent was freed without them
    offset,   \* the address the function is at
    phase, param, entry,  \* what is being done, to which parameter, with which location
    frames,   \* the calls in progress
    ret       \* what parameter_handle_type returned last

vars == <<params, live, obj, orphans, offset, phase, param, entry, frames, ret>>

Undefined == [of |-> "nothing", entry |-> 0, bytes |-> 8]
Zero == [of |-> "zero", entry |-> 0, bytes |-> 8]

(* pst_parameter_init: info.value is not assigned, the location's value is 0. *)
(* `die' is also kept for arguments, `ok' and `got' are what the last         *)
(* evaluation of the location returned.                                       *)
Fresh == [die |-> None, types |-> <<>>, type_name |-> None, flags |-> {}, size |-> 0,
          value |-> Undefined, children |-> <<>>,
          location |-> [value |-> Zero, ok |-> FALSE, got |-> FALSE]]

EncodingFlag == [boolean |-> "BOOL", address |-> "POINTER", signed |-> "INT", unsigned |-> "UINT",
                 signed_char |-> "CHAR", unsigned_char |-> "UCHAR", float |-> "FLOAT"]

TagFlag == [array_type |-> "ARRAY", structure_type |-> "STRUCT", union_type |-> "UNION",
            class_type |-> "CLASS", pointer_type |-> "POINTER", enumeration_type |-> "ENUM",
            const_type |-> "CONST", typedef |-> "TYPEDEF", unspecified_type |-> "VOID",
            reference_type |-> "REF", rvalue_reference_type |-> "RREF",
            volatile_type |-> "VOLATILE", subroutine_type |-> "FUNCPTR"]

TypeFlags == {EncodingFlag[e] : e \in DOMAIN EncodingFlag} \cup {TagFlag[t] : t \in DOMAIN TagFlag}
Flags == TypeFlags \cup {"RETURN", "VARIABLE", "UNSPEC", "HAS_VALUE", "INVALID"}

Names == {Die[d].name : d \in Dies} \cup {"void", None}
Value == [of : {"nothing", "zero", "const", "entry"}, entry : Nat, bytes : 1 .. 8]

TypeOK ==
    /\ params \in Seq(live) /\ live \subseteq Objs /\ orphans \subseteq live
    /\ obj \in [Objs ->
          [die : Dies \cup {None}, types : Seq([name : Names, type : TypeFlags]),
           type_name : Names, flags : SUBSET Flags, size : Nat, value : Value,
           children : Seq(live), location : [value : Value, ok : BOOLEAN, got : BOOLEAN]]]
    /\ offset \in Offsets
    /\ phase \in {"ready", "type", "locate", "fini"}
    /\ param \in live \cup {None} /\ (param # None) = (phase \in {"type", "locate"})
    /\ entry \in Nat /\ (phase = "locate") = (entry # 0)
    /\ frames \in Seq([op : {"type"}, param : live, die : Dies]
                      \cup [op : {"args"}, param : live, die : Dies, next : Nat,
                            child : live \cup {None}]
                      \cup [op : {"fini"}, param : live])
    /\ ret \in BOOLEAN

Init ==
    /\ params = <<>> /\ live = {} /\ orphans = {} /\ obj = [o \in Objs |-> Fresh]
    /\ offset \in Offsets
    /\ phase = "ready" /\ param = None /\ entry = 0 /\ frames = <<>> /\ ret = TRUE

-----------------------------------------------------------------------------
(* Types *)

(* The type, if any, that the switch of parameter_handle_type adds for a DIE. *)
Adds(d) ==
    IF Die[d].tag = "base_type"
    THEN IF Die[d].enc \in DOMAIN EncodingFlag
         THEN <<[name |-> IF Die[d].enc = "address" THEN None ELSE Die[d].name,
                 type |-> EncodingFlag[Die[d].enc]]>>
         ELSE <<>>
    ELSE IF Die[d].tag \in DOMAIN TagFlag
         THEN <<[name |-> CASE Die[d].tag = "typedef" -> Die[d].name
                            [] Die[d].tag = "unspecified_type" -> "void"
                            [] OTHER -> None,
                 type |-> TagFlag[Die[d].tag]]>>
         ELSE <<>>

(* Mutant: the last name wins. *)
AddType_LastName(p, t) ==
    [p EXCEPT !.types = Append(@, t), !.flags = @ \cup {t.type},
              !.type_name = IF t.name # None THEN t.name ELSE @]

(* parameter_add_type *)
AddType(p, t) ==
    [p EXCEPT !.types = Append(@, t), !.flags = @ \cup {t.type},
              !.type_name = IF @ = None THEN t.name ELSE @]

AddTypes(p, ts) == IF ts = <<>> THEN p ELSE AddType(p, ts[1])

(* What a parameter without a type is called, and what is added to its flags. *)
Flagged(p, f) == [p EXCEPT !.flags = @ \cup f]
OrVoid(p) == [p EXCEPT !.type_name = IF @ = None THEN "void" ELSE @]

New == CHOOSE o \in Objs : o \notin live
Room == Objs \ live # {}    \* always, with MaxFamily as large as a family can be

TypeCall(p, d) == [op |-> "type", param |-> p, die |-> d]
ArgsCall(p, d, n, c) == [op |-> "args", param |-> p, die |-> d, next |-> n, child |-> c]
FiniCall(p) == [op |-> "fini", param |-> p]

Running(op) == frames # <<>> /\ Head(frames).op = op
Top == Head(frames)
Caller == Tail(frames)

(* The end of parameter_handle_type for the type DIE t: it goes on with the *)
(* type of t, if it has one.                                                *)
GoOn(p, t) == (IF Die[t].type = None THEN <<>> ELSE <<TypeCall(p, t)>>) \o Caller

(* add_param of the function *)
AddParam(p) ==
    /\ phase = "ready" /\ Len(params) < MaxParams /\ Cardinality(Objs \ live) >= MaxFamily
    /\ params' = Append(params, New) /\ live' = live \cup {New}
    /\ obj' = [obj EXCEPT ![New] = p]
    /\ UNCHANGED <<orphans, offset, entry>>

Ready == UNCHANGED <<phase, param, frames, ret>>
Handle(d) == /\ phase' = "type" /\ param' = New /\ frames' = <<TypeCall(New, d)>>
             /\ UNCHANGED ret

(* parameter_handle_dwarf, up to its call of parameter_handle_type *)
HandleDwarf ==
    \E d \in Dies :
        /\ Die[d].tag \in {"variable", "formal_parameter"}
        /\ AddParam([Fresh EXCEPT !.die = d,
                       !.flags = IF Die[d].tag = "variable" THEN {"VARIABLE"} ELSE {}])
        /\ Handle(d)

(* The return type of the function: a parameter without name and value. *)
HandleReturn ==
    \E d \in Dies :
        /\ Die[d].tag = "subprogram"
        /\ LET p == [Fresh EXCEPT !.die = d, !.flags = {"RETURN"}] IN
           IF Die[d].type # None THEN AddParam(p) /\ Handle(d)
           ELSE AddParam(AddType(p, [name |-> "void", type |-> "VOID"])) /\ Ready

HandleUnspecified == AddParam([Fresh EXCEPT !.flags = {"UNSPEC"}]) /\ Ready

Typing == phase = "type" /\ UNCHANGED <<params, orphans, offset, phase, param, entry>>

TypeFails ==
    /\ Running("type") /\ Die[Top.die].type \in {None, Bad} /\ Typing
    /\ frames' = Caller /\ ret' = FALSE
    /\ UNCHANGED <<live, obj>>

(* The size is that of the type met last, or 8 if it has none. *)
Size(d) == IF Die[d].size = None THEN 8 ELSE Die[d].size

TypeLink ==
    /\ Running("type") /\ Die[Top.die].type \in Dies /\ Typing
    /\ LET t == Die[Top.die].type IN
       /\ Die[t].tag # "subroutine_type"
       /\ obj' = [obj EXCEPT ![Top.param] = AddTypes([@ EXCEPT !.size = Size(t)], Adds(t))]
       /\ frames' = GoOn(Top.param, t)
    /\ ret' = TRUE
    /\ UNCHANGED live

(* handle_subroutine: a child for the return value is added, but the return *)
(* type is given to the parameter itself.                                   *)
TypeSubroutine ==
    /\ Running("type") /\ Die[Top.die].type \in Dies /\ Typing
    /\ LET t == Die[Top.die].type IN
       /\ Die[t].tag = "subroutine_type"
       /\ Room /\ live' = live \cup {New}
       /\ obj' = [obj EXCEPT ![Top.param].size = Size(t), ![Top.param].children = Append(@, New),
                             ![New] = Fresh]
       /\ frames' = <<TypeCall(Top.param, t), ArgsCall(Top.param, t, 0, New)>> \o Caller
    /\ UNCHANGED ret

ArgDies == Die[Top.die].args
NextArg == Running("args") /\ Top.child = None /\ Top.next <= Len(ArgDies) /\ Typing
Step(c) == <<[Top EXCEPT !.child = c, !.next = IF c = None THEN @ + 1 ELSE @]>>

(* A child has got its type; the first is the return value's. *)
ArgDone ==
    /\ Running("args") /\ Top.child # None /\ Typing
    /\ obj' = [obj EXCEPT ![Top.child] =
                 Flagged(OrVoid(@), IF Top.next = 0 THEN {"RETURN"} ELSE {})]
    /\ frames' = Step(None) \o Caller
    /\ UNCHANGED <<live, ret>>

AddChild(p) ==
    /\ Room /\ live' = live \cup {New}
    /\ obj' = [obj EXCEPT ![Top.param].children = Append(@, New), ![New] = p]

ArgFormal ==
    /\ NextArg /\ Die[ArgDies[Top.next]].tag = "formal_parameter"
    /\ AddChild([Fresh EXCEPT !.die = ArgDies[Top.next]])
    /\ frames' = <<TypeCall(New, ArgDies[Top.next])>> \o Step(New) \o Caller
    /\ UNCHANGED ret

ArgUnspecified ==
    /\ NextArg /\ Die[ArgDies[Top.next]].tag = "unspecified_parameters"
    /\ AddChild([Fresh EXCEPT !.flags = {"UNSPEC"}])
    /\ frames' = Step(None) \o Caller
    /\ UNCHANGED ret

ArgSkip ==
    /\ NextArg /\ Die[ArgDies[Top.next]].tag \notin {"formal_parameter", "unspecified_parameters"}
    /\ frames' = Step(None) \o Caller
    /\ UNCHANGED <<live, obj, ret>>

ArgsEnd ==
    /\ Running("args") /\ Top.child = None /\ Top.next > Len(ArgDies) /\ Typing
    /\ obj' = [obj EXCEPT ![Top.param] = AddTypes(@, Adds(Top.die))]
    /\ frames' = GoOn(Top.param, Top.die)
    /\ ret' = TRUE
    /\ UNCHANGED live

-----------------------------------------------------------------------------
(* What follows the type *)

Typed == phase = "type" /\ frames = <<>> /\ UNCHANGED <<offset, frames, ret>>

Returned == phase' = "ready" /\ param' = None /\ entry' = 0

(* Mutant: the parameter of a return type that failed is freed on the list. *)
ReturnTyped_NoDel ==
    /\ Typed /\ "RETURN" \in obj[param].flags
    /\ IF ret THEN UNCHANGED <<params, live, obj, orphans>>
       ELSE /\ live' = live \ {param}
            /\ orphans' = orphans \cup Range(obj[param].children)
            /\ obj' = [obj EXCEPT ![param] = Fresh]
            /\ UNCHANGED params
    /\ Returned

(* del_param frees the parameter of a return type that failed, not what it has. *)
ReturnTyped ==
    /\ Typed /\ "RETURN" \in obj[param].flags
    /\ IF ret THEN UNCHANGED <<params, live, obj, orphans>>
       ELSE /\ \E i \in 1 .. Len(params) : params[i] = param /\ params' = RemoveAt(params, i)
            /\ live' = live \ {param}
            /\ orphans' = orphans \cup Range(obj[param].children)
            /\ obj' = [obj EXCEPT ![param] = Fresh]
    /\ Returned

IsPointer(p) == p.flags \cap {"POINTER", "FUNCPTR"} # {}

(* Mutant: pointers are cut too. *)
Bytes_Pointers(p) == IF p.size % 8 = 0 THEN 8 ELSE p.size % 8

(* The bytes of a value the final mask leaves: 64 - ((size * 8) & 0x3F) is  *)
(* the shift, and a shift by 64 leaves all of them on the target.           *)
Bytes(p) == IF IsPointer(p) \/ p.size % 8 = 0 THEN 8 ELSE p.size % 8

WithValue(p, v, f) == [Flagged(OrVoid(p), f) EXCEPT !.value = [v EXCEPT !.bytes = Bytes(p)]]

(* The end of parameter_handle_dwarf.  Whether the memory of a pointer can  *)
(* be read is asked of the kernel; page 0 cannot.                           *)
Complete(v, fl) ==
    /\ \E bad \in IF v.of = "zero" THEN {TRUE} ELSE BOOLEAN :
          obj' = [obj EXCEPT ![param] =
                    WithValue(@, v, fl \cup IF bad /\ IsPointer(@) THEN {"INVALID"} ELSE {})]
    /\ Returned
    /\ UNCHANGED <<params, live, orphans>>

Here == Die[obj[param].die]

(* No location: a constant, or nothing, in which case info.value is still unset. *)
VariableTyped ==
    /\ Typed /\ "RETURN" \notin obj[param].flags /\ Here.loc.form = "none"
    /\ \/ Here.const = "none" /\ Complete(Undefined, {})
       \/ Here.const = "unknown" /\ Complete(Undefined, {"CONST"})
       \/ Here.const = "known" /\ Complete([Undefined EXCEPT !.of = "const"], {"CONST", "HAS_VALUE"})

StartLocation ==
    /\ Typed /\ "RETURN" \notin obj[param].flags /\ Here.loc.form # "none"
    /\ phase' = "locate" /\ entry' = 1
    /\ UNCHANGED <<params, live, obj, orphans, param>>

Entries == Here.loc.entries

(* Both ends of a range are taken as inside. *)
Matches(i) == Here.loc.form = "exprloc" \/ (Entries[i].start <= offset /\ offset <= Entries[i].end)

Locating == /\ phase = "locate" /\ entry <= Len(Entries)
            /\ UNCHANGED <<params, live, orphans, offset, phase, param, frames, ret>>

(* Mutant: the loop does not step over an entry. *)
SkipEntry_Stay == Locating /\ ~Matches(entry) /\ UNCHANGED <<obj, entry>>

SkipEntry == Locating /\ ~Matches(entry) /\ entry' = entry + 1 /\ UNCHANGED obj

Evaluate(next) ==
    /\ Locating /\ Matches(entry)
    /\ \E ok, got \in BOOLEAN :
          obj' = [obj EXCEPT ![param].location =
                    [value |-> IF got THEN [of |-> "entry", entry |-> entry, bytes |-> 8] ELSE @.value,
                     ok |-> ok, got |-> got]]
    /\ entry' = next

(* Mutant: the loop ends with the first entry that matches. *)
EvaluateEntry_First == Evaluate(Len(Entries) + 1)

(* pst_dwarf_stack_calc and pst_dwarf_stack_get_value: the value stays what *)
(* it was if there is none, and only the result of the first is returned.   *)
EvaluateEntry == Evaluate(entry + 1)

EndLocation ==
    /\ phase = "locate" /\ entry > Len(Entries)
    /\ IF obj[param].location.ok THEN Complete(obj[param].location.value, {"HAS_VALUE"})
       ELSE Complete(Undefined, {})
    /\ UNCHANGED <<offset, frames, ret>>

-----------------------------------------------------------------------------
(* clear of the function, pst_parameter_fini *)

Clear ==
    /\ phase = "ready" /\ phase' = "fini"
    /\ UNCHANGED <<params, live, obj, orphans, offset, param, entry, frames, ret>>

Clearing == phase = "fini" /\ UNCHANGED <<orphans, param, entry, ret>>

ClearParam ==
    /\ Clearing /\ frames = <<>> /\ params # <<>>
    /\ params' = Tail(params) /\ frames' = <<FiniCall(Head(params))>>
    /\ UNCHANGED <<live, obj, offset, phase>>

(* Mutant: a child is cleared on the list. *)
ClearChild_NoDel ==
    /\ Clearing /\ Running("fini") /\ obj[Top.param].children # <<>>
    /\ frames' = <<FiniCall(Head(obj[Top.param].children))>> \o frames
    /\ UNCHANGED <<params, live, obj, offset, phase>>

ClearChild ==
    /\ Clearing /\ Running("fini") /\ obj[Top.param].children # <<>>
    /\ obj' = [obj EXCEPT ![Top.param].children = Tail(@)]
    /\ frames' = <<FiniCall(Head(obj[Top.param].children))>> \o frames
    /\ UNCHANGED <<params, live, offset, phase>>

Free ==
    /\ Clearing /\ Running("fini") /\ obj[Top.param].children = <<>>
    /\ live' = live \ {Top.param} /\ obj' = [obj EXCEPT ![Top.param] = Fresh]
    /\ frames' = Caller
    /\ UNCHANGED <<params, offset, phase>>

ClearEnd ==
    /\ Clearing /\ frames = <<>> /\ params = <<>>
    /\ phase' = "ready" /\ offset' \in Offsets
    /\ UNCHANGED <<params, live, obj, frames>>

-----------------------------------------------------------------------------
Internal ==
    \/ TypeFails \/ TypeLink \/ TypeSubroutine
    \/ ArgDone \/ ArgFormal \/ ArgUnspecified \/ ArgSkip \/ ArgsEnd
    \/ ReturnTyped \/ VariableTyped \/ StartLocation
    \/ SkipEntry \/ EvaluateEntry \/ EndLocation
    \/ ClearParam \/ ClearChild \/ Free \/ ClearEnd

Next == HandleDwarf \/ HandleReturn \/ HandleUnspecified \/ Clear \/ Internal

(* Straight-line code of one thread: a call that was made goes on. *)
Spec == Init /\ [][Next]_vars /\ WF_vars(Internal)

-----------------------------------------------------------------------------
(* Properties *)

Homes(o) == {<<None, i>> : i \in {j \in 1 .. Len(params) : params[j] = o}}
            \cup UNION {{<<p, i>> : i \in {j \in 1 .. Len(obj[p].children) : obj[p].children[j] = o}}
                        : p \in live}

InFini == {frames[i].param : i \in {j \in 1 .. Len(frames) : frames[j].op = "fini"}}

(* Every allocated parameter is on exactly one list, the function's or that *)
(* of one other parameter's children, unless it is just being freed or its  *)
(* parent was a return type that failed; and no list and no call in         *)
(* progress holds a freed one.                                              *)
Owned ==
    /\ \A o \in live : Cardinality(Homes(o)) = IF o \in InFini \cup orphans THEN 0 ELSE 1
    /\ \A o \in Objs \ live : Homes(o) = {}
    /\ \A i \in 1 .. Len(frames) : frames[i].param \in live

(* The types of the chain that starts at a DIE, by structure.  The return   *)
(* type of a function comes twice, before and after it.                     *)
Chain[d \in Dies] ==
    LET t == Die[d].type IN
    IF t \notin Dies THEN <<>>
    ELSE (IF Die[t].tag = "subroutine_type" THEN Chain[t] ELSE <<>>) \o Adds(t) \o Chain[t]

FirstName(ts) ==
    LET named == {i \in 1 .. Len(ts) : ts[i].name # None} IN
    IF named = {} THEN "void" ELSE ts[CHOOSE i \in named : \A j \in named : i <= j].name

(* Between the calls the types of each parameter and of each argument of a  *)
(* function type, at any depth, are those of its chain in order, its flags  *)
(* say no other types, and its type name is the first name in the chain.    *)
(* The child that stands for a return value has none: they are its parent's.*)
TypesAgree ==
    phase = "ready" =>
        \A o \in live : LET p == obj[o] IN
            CASE p.die = None -> p.types = <<>>
              [] p.die # None /\ Die[p.die].tag = "subprogram" /\ Die[p.die].type = None ->
                    p.types = <<[name |-> "void", type |-> "VOID"]>>
              [] OTHER ->
                    /\ p.types = Chain[p.die]
                    /\ "RETURN" \notin p.flags => p.type_name = FirstName(p.types)
                    /\ p.flags \cap (TypeFlags \ {"CONST"}) =
                          {p.types[i].type : i \in 1 .. Len(p.types)} \ {"CONST"}

Valued == {o \in Range(params) : "HAS_VALUE" \in obj[o].flags /\ obj[o].value.of # "const"}

(* A value that is printed is the value of an entry that holds the address.  *)
(* Otherwise it is that of an entry that ends there, after all that hold it; *)
(* or the expression evaluated last left no value and did not fail, and what *)
(* is printed is 0 or the value of an entry evaluated before.  So in a list  *)
(* whose ranges are in order, where none that holds the address comes before *)
(* one that ends there, the inclusive end of the test does no harm.          *)
ValueFromEntry ==
    phase = "ready" =>
        \A o \in Valued :
            LET e     == Die[obj[o].die].loc.entries
                v     == obj[o].value
                found == v.of = "entry" /\ v.entry \in 1 .. Len(e)
                holds(i) == \/ Die[obj[o].die].loc.form = "exprloc"
                            \/ e[i].start <= offset /\ offset < e[i].end
            IN
            \/ (found /\ holds(v.entry))
            \/ /\ found /\ e[v.entry].end = offset
               /\ \A i \in 1 .. Len(e) : holds(i) => ~obj[o].location.got \/ i < v.entry
            \/ ~obj[o].location.got /\ v.of = "zero"

(* The type of a parameter under its qualifiers and type definitions. *)
Plain[d \in Dies] ==
    IF /\ Die[d].tag \in {"typedef", "const_type", "volatile_type", "restrict_type"}
       /\ Die[d].type \in Dies
    THEN Plain[Die[d].type] ELSE d

(* The bytes of a value that are kept are those of the parameter's type, or  *)
(* more; except that a type that is made of another one and is no pointer    *)
(* and no function, such as a reference or an array, is cut to the size of   *)
(* that one, and a type of more than 8 bytes to what exceeds a multiple of 8.*)
ValueWhole ==
    phase = "ready" =>
        \A o \in Valued :
            LET d == obj[o].die
                t == IF Die[d].type \in Dies THEN Plain[Die[d].type] ELSE d
                s == Size(t)
            IN \/ obj[o].value.bytes >= IF s < 8 THEN s ELSE 8
               \/ Die[t].tag \notin {"pointer_type", "subroutine_type"} /\ Die[t].type \in Dies
               \/ s > 8 /\ s % 8 # 0

(* Every call ends, with each type of a nested function visited twice and    *)
(* whatever the evaluations return.                                          *)
CallsEnd == phase # "ready" ~> phase = "ready"
=============================================================================
