-------------------------- MODULE Parameter_proofs --------------------------
(***************************************************************************)
(* For any debug information, any address and any number of parameters:    *)
(* the types of the state, that no parameter is lost, shared or used after *)
(* it was freed, that a value comes from the right location and keeps the  *)
(* bytes of its type, and that the types, flags and names of a parameter   *)
(* are those of its chain of types, however the calls for them are nested. *)
(***************************************************************************)
EXTENDS Parameter, DataLemmas, FiniteSetTheorems, TLAPS

ParamType ==
    [die : Dies \cup {None}, types : Seq([name : Names, type : TypeFlags]),
     type_name : Names, flags : SUBSET Flags, size : Nat, value : Value,
     children : Seq(Objs), location : [value : Value, ok : BOOLEAN, got : BOOLEAN]]

TypeFrame ==
    [op : {"type"}, param : live, die : Dies]
    \cup {f \in [op : {"args"}, param : live, die : Dies, next : Nat, child : live \cup {None}] :
             f.child = None => f.next # 0}

FiniFrame == [op : {"fini"}, param : live]

(* TypeOK, but for what the lists hold and the calls. *)
Types ==
    /\ params \in Seq(Objs) /\ live \subseteq Objs /\ orphans \subseteq live
    /\ obj \in [Objs -> ParamType]
    /\ offset \in Offsets
    /\ phase \in {"ready", "type", "locate", "fini"}
    /\ param \in live \cup {None} /\ (param # None) = (phase \in {"type", "locate"})
    /\ entry \in Nat /\ (phase = "locate") = (entry # 0)
    /\ ret \in BOOLEAN

(* The lists are the function's, as that of None, and one of each parameter. *)
Lists == live \cup {None}
ListOf(p) == IF p = None THEN params ELSE obj[p].children
Listed(o) == \E p \in Lists : \E i \in 1 .. Len(ListOf(p)) : ListOf(p)[i] = o

(* No parameter is on two lists, or twice on one. *)
OneHome ==
    \A p, q \in Lists : \A i \in 1 .. Len(ListOf(p)), j \in 1 .. Len(ListOf(q)) :
        ListOf(p)[i] = ListOf(q)[j] => p = q /\ i = j

HomeOK == \A o \in Objs : Listed(o) <=> o \in live \ (InFini \cup orphans)

(* Only pst_parameter_fini frees, each parameter in one call. *)
Calls ==
    /\ phase \in {"ready", "locate"} => frames = <<>>
    /\ phase = "type" => frames \in Seq(TypeFrame)
    /\ phase = "fini" => frames \in Seq(FiniFrame)
    /\ \A i, j \in 1 .. Len(frames) :
          phase = "fini" /\ frames[i].param = frames[j].param => i = j
    /\ InFini \cap orphans = {}

Freed == \A o \in Objs \ live : obj[o].children = <<>>

OInv == Types /\ OneHome /\ HomeOK /\ Calls /\ Freed

-----------------------------------------------------------------------------
(* Objects and their fields *)

LEMMA NoneNotObj == None \notin Objs /\ None \notin Dies /\ Bad \notin Dies
BY NoneAssumption

LEMMA NewObj == ASSUME Room PROVE New \in Objs /\ New \notin live
BY DEF Room, New

LEMMA AddParamRoom == ASSUME Cardinality(Objs \ live) >= MaxFamily PROVE Room
<1> SUFFICES ASSUME Objs \ live = {} PROVE FALSE
  BY DEF Room
<1>1. Cardinality(Objs \ live) = 0
  BY FS_EmptySet
<1>. QED
  BY <1>1, BoundAssumption

LEMMA FlagsAre ==
    /\ {"RETURN", "VARIABLE", "UNSPEC", "HAS_VALUE", "INVALID", "CONST", "VOID"} \subseteq Flags
    /\ {"CONST", "VOID"} \subseteq TypeFlags
    /\ TypeFlags \subseteq Flags
    /\ {"void", None} \subseteq Names
<1>1. "const_type" \in DOMAIN TagFlag /\ TagFlag["const_type"] = "CONST"
  BY DEF TagFlag
<1>2. "unspecified_type" \in DOMAIN TagFlag /\ TagFlag["unspecified_type"] = "VOID"
  BY DEF TagFlag
<1>. QED
  BY <1>1, <1>2 DEF Flags, TypeFlags, Names

LEMMA ValuesAre == Undefined \in Value /\ Zero \in Value
BY DEF Undefined, Zero, Value

LEMMA FreshType == Fresh \in ParamType /\ Fresh.children = <<>>
BY ValuesAre, FlagsAre DEF Fresh, ParamType

LEMMA SizeType == \A d \in Dies : Size(d) \in Nat
BY DieAssumption DEF Size

LEMMA AddsType ==
    ASSUME NEW d \in Dies
    PROVE  Adds(d) = <<>> \/ (Adds(d) # <<>> /\ Adds(d)[1] \in [name : Names, type : TypeFlags])
<1>1. Die[d].name \in Names
  BY DEF Names
<1>2. \A e \in DOMAIN EncodingFlag : EncodingFlag[e] \in TypeFlags
  BY DEF TypeFlags
<1>3. \A t \in DOMAIN TagFlag : TagFlag[t] \in TypeFlags
  BY DEF TypeFlags
<1>. QED
  BY <1>1, <1>2, <1>3, FlagsAre DEF Adds

(* What the parameter functions change of one parameter. *)
LEMMA SetFields ==
    ASSUME NEW p \in ParamType
    PROVE  /\ \A n \in Nat : /\ [p EXCEPT !.size = n] \in ParamType
                             /\ [p EXCEPT !.size = n].children = p.children
           /\ \A f \in SUBSET Flags : /\ [p EXCEPT !.flags = f] \in ParamType
                                      /\ [p EXCEPT !.flags = f].children = p.children
           /\ \A c \in Seq(Objs) : /\ [p EXCEPT !.children = c] \in ParamType
                                   /\ [p EXCEPT !.children = c].children = c
           /\ \A v \in Value : /\ [p EXCEPT !.value = v] \in ParamType
                               /\ [p EXCEPT !.value = v].children = p.children
           /\ \A l \in [value : Value, ok : BOOLEAN, got : BOOLEAN] :
                 /\ [p EXCEPT !.location = l] \in ParamType
                 /\ [p EXCEPT !.location = l].children = p.children
           /\ p.flags \in SUBSET Flags /\ p.size \in Nat /\ p.children \in Seq(Objs)
           /\ p.value \in Value /\ p.location \in [value : Value, ok : BOOLEAN, got : BOOLEAN]
BY DEF ParamType

LEMMA OrVoidType ==
    ASSUME NEW p \in ParamType
    PROVE  /\ OrVoid(p) \in ParamType /\ OrVoid(p).children = p.children
           /\ OrVoid(p).flags = p.flags
BY FlagsAre DEF OrVoid, ParamType

LEMMA AddTypeType ==
    ASSUME NEW p \in ParamType, NEW t \in [name : Names, type : TypeFlags]
    PROVE  AddType(p, t) \in ParamType /\ AddType(p, t).children = p.children
<1>1. Append(p.types, t) \in Seq([name : Names, type : TypeFlags])
  BY DEF ParamType
<1>2. p.flags \cup {t.type} \in SUBSET Flags
  BY FlagsAre DEF ParamType
<1>3. (IF p.type_name = None THEN t.name ELSE p.type_name) \in Names
  BY DEF ParamType
<1>. QED
  BY <1>1, <1>2, <1>3 DEF AddType, ParamType

LEMMA AddTypesType ==
    ASSUME NEW p \in ParamType, NEW d \in Dies
    PROVE  AddTypes(p, Adds(d)) \in ParamType /\ AddTypes(p, Adds(d)).children = p.children
BY AddsType, AddTypeType DEF AddTypes

LEMMA FlaggedType ==
    ASSUME NEW p \in ParamType, NEW f \in SUBSET Flags
    PROVE  /\ Flagged(p, f) \in ParamType /\ Flagged(p, f).children = p.children
           /\ Flagged(p, f).flags = p.flags \cup f
<1>1. p.flags \cup f \in SUBSET Flags
  BY DEF ParamType
<1>. QED
  BY <1>1 DEF Flagged, ParamType

(* What one link of the chain of types does to the parameter. *)
LEMMA LinkFields ==
    ASSUME NEW p \in ParamType, NEW t \in Dies
    PROVE  LET r == AddTypes([p EXCEPT !.size = Size(t)], Adds(t)) IN
           r \in ParamType /\ r.children = p.children
<1> DEFINE s == [p EXCEPT !.size = Size(t)]
<1>1. Size(t) \in Nat
  BY SizeType
<1>2. s \in ParamType /\ s.children = p.children
  BY <1>1 DEF ParamType
<1>. QED
  BY <1>2, AddTypesType

LEMMA SubroutineFields ==
    ASSUME NEW p \in ParamType, NEW t \in Dies, NEW n \in Objs
    PROVE  LET r == [p EXCEPT !.size = Size(t), !.children = Append(@, n)] IN
           r \in ParamType /\ r.children = Append(p.children, n)
<1>1. Size(t) \in Nat
  BY SizeType
<1>2. Append(p.children, n) \in Seq(Objs)
  BY DEF ParamType
<1>. QED
  BY <1>1, <1>2 DEF ParamType

-----------------------------------------------------------------------------
(* The lists, whichever step changes them *)

LEMMA ListsAre ==
    ASSUME Types
    PROVE  /\ \A p \in Lists : ListOf(p) \in Seq(Objs)
           /\ ListOf(None) = params
           /\ \A p \in live : p # None /\ p \in Objs /\ ListOf(p) = obj[p].children
<1>1. \A p \in live : p # None /\ p \in Objs
  BY NoneNotObj DEF Types
<1>2. \A p \in live : obj[p].children \in Seq(Objs)
  BY <1>1 DEF Types, ParamType
<1>. QED
  BY <1>1, <1>2 DEF Lists, ListOf, Types

(* Nothing on the lists changes. *)
LEMMA ListsSame ==
    ASSUME OneHome, HomeOK, UNCHANGED <<live, orphans, InFini>>,
           \A p \in Lists : UNCHANGED ListOf(p)
    PROVE  OneHome' /\ HomeOK'
<1>1. Lists' = Lists
  BY DEF Lists
<1>2. OneHome'
  BY <1>1 DEF OneHome
<1>3. \A o \in Objs : Listed(o)' <=> Listed(o)
  BY <1>1 DEF Listed
<1>. QED
  BY <1>2, <1>3 DEF HomeOK

(* A new parameter is added to the end of one list. *)
LEMMA ListsGrow ==
    ASSUME OneHome, HomeOK, NEW q \in Lists, NEW n \in Objs, n \notin live,
           \A p \in Lists : ListOf(p) \in Seq(Objs),
           n # None, InFini \subseteq live, orphans \subseteq live,
           live' = live \cup {n}, UNCHANGED <<orphans, InFini>>,
           ListOf(q)' = Append(ListOf(q), n), ListOf(n)' = <<>>,
           \A p \in Lists \ {q} : UNCHANGED ListOf(p)
    PROVE  OneHome' /\ HomeOK'
<1>1. Lists' = Lists \cup {n} /\ n \notin Lists
  BY DEF Lists
<1>2. ~Listed(n)
  BY DEF HomeOK
<1>3. \A p \in Lists' : \A i \in 1 .. Len(ListOf(p)') :
         \/ p \in Lists /\ i \in 1 .. Len(ListOf(p)) /\ ListOf(p)'[i] = ListOf(p)[i]
            /\ ListOf(p)'[i] # n
         \/ p = q /\ i = Len(ListOf(q)) + 1 /\ ListOf(p)'[i] = n
  <2> SUFFICES ASSUME NEW p \in Lists', NEW i \in 1 .. Len(ListOf(p)')
               PROVE  \/ p \in Lists /\ i \in 1 .. Len(ListOf(p)) /\ ListOf(p)'[i] = ListOf(p)[i]
                         /\ ListOf(p)'[i] # n
                      \/ p = q /\ i = Len(ListOf(q)) + 1 /\ ListOf(p)'[i] = n
    OBVIOUS
  <2>1. p # n
    OBVIOUS
  <2>2. CASE p = q
    BY <1>2, <2>2 DEF Listed
  <2>3. CASE p # q
    BY <1>1, <1>2, <2>1, <2>3 DEF Listed
  <2>. QED
    BY <2>2, <2>3
<1>4. OneHome'
  BY <1>1, <1>3 DEF OneHome
<1>5. \A o \in Objs : Listed(o) => Listed(o)'
  <2> SUFFICES ASSUME NEW o \in Objs, NEW p \in Lists, NEW i \in 1 .. Len(ListOf(p)),
                      ListOf(p)[i] = o
               PROVE  i \in 1 .. Len(ListOf(p)') /\ ListOf(p)'[i] = o
    BY <1>1 DEF Listed
  <2>1. CASE p = q
    BY <2>1
  <2>2. CASE p # q
    BY <2>2
  <2>. QED
    BY <2>1, <2>2
<1>6. Listed(n)'
  <2>1. Len(ListOf(q)) + 1 \in 1 .. Len(ListOf(q)') /\ ListOf(q)'[Len(ListOf(q)) + 1] = n
    OBVIOUS
  <2>. QED
    BY <1>1, <2>1 DEF Listed
<1>7. \A o \in Objs : Listed(o)' => Listed(o) \/ o = n
  BY <1>3 DEF Listed
<1>. QED
  BY <1>4, <1>5, <1>6, <1>7 DEF HomeOK

(* A list that goes away with its parameter. *)
Dropped(o) == \E p \in Lists \ Lists' : \E i \in 1 .. Len(ListOf(p)) : ListOf(p)[i] = o

(* One entry x is taken off a list, at a position the others close up to.   *)
LEMMA ListsShrink ==
    ASSUME OneHome, HomeOK, NEW q \in Lists, NEW k \in 1 .. Len(ListOf(q)), NEW x,
           \A p \in Lists : ListOf(p) \in Seq(Objs),
           x = ListOf(q)[k], Lists' \subseteq Lists, q \in Lists',
           ListOf(q)' \in Seq(Objs), Len(ListOf(q)') = Len(ListOf(q)) - 1,
           \A i \in 1 .. Len(ListOf(q)') :
              ListOf(q)'[i] = ListOf(q)[IF i < k THEN i ELSE i + 1],
           \A p \in Lists' \ {q} : UNCHANGED ListOf(p)
    PROVE  OneHome' /\ \A o \in Objs : Listed(o)' <=> Listed(o) /\ o # x /\ ~Dropped(o)
<1> DEFINE at(p, i) == IF p = q /\ i >= k THEN i + 1 ELSE i
<1>1. \A p \in Lists' : \A i \in 1 .. Len(ListOf(p)') :
         /\ at(p, i) \in 1 .. Len(ListOf(p)) /\ ListOf(p)'[i] = ListOf(p)[at(p, i)]
         /\ p = q => at(p, i) # k
  <2> SUFFICES ASSUME NEW p \in Lists', NEW i \in 1 .. Len(ListOf(p)')
               PROVE  /\ at(p, i) \in 1 .. Len(ListOf(p)) /\ ListOf(p)'[i] = ListOf(p)[at(p, i)]
                      /\ p = q => at(p, i) # k
    OBVIOUS
  <2>1. CASE p = q
    BY <2>1
  <2>2. CASE p # q
    BY <2>2
  <2>. QED
    BY <2>1, <2>2
<1>2. OneHome'
  <2> SUFFICES ASSUME NEW p \in Lists', NEW r \in Lists',
                      NEW i \in 1 .. Len(ListOf(p)'), NEW j \in 1 .. Len(ListOf(r)'),
                      ListOf(p)'[i] = ListOf(r)'[j]
               PROVE  p = r /\ i = j
    BY DEF OneHome
  <2> HIDE DEF at
  <2>1. p = r /\ at(p, i) = at(r, j)
    <3>1. p \in Lists /\ r \in Lists
      OBVIOUS
    <3>2. at(p, i) \in 1 .. Len(ListOf(p)) /\ at(r, j) \in 1 .. Len(ListOf(r))
      BY <1>1
    <3>3. ListOf(p)[at(p, i)] = ListOf(r)[at(r, j)]
      BY <1>1
    <3>. QED
      BY <3>1, <3>2, <3>3 DEF OneHome
  <2>2. i \in Int /\ j \in Int /\ k \in Int
    OBVIOUS
  <2>3. (IF p = q /\ i >= k THEN i + 1 ELSE i) = (IF p = q /\ j >= k THEN j + 1 ELSE j)
    BY <2>1 DEF at
  <2>4. i = j
    BY <2>2, <2>3
  <2>. QED
    BY <2>1, <2>4
<1>3. \A o \in Objs : Listed(o)' => Listed(o) /\ o # x /\ ~Dropped(o)
  <2> SUFFICES ASSUME NEW o \in Objs, NEW p \in Lists', NEW i \in 1 .. Len(ListOf(p)'),
                      ListOf(p)'[i] = o
               PROVE  Listed(o) /\ o # x /\ ~Dropped(o)
    BY DEF Listed
  <2>1. Listed(o)
    BY <1>1 DEF Listed
  <2>2. o # x
    BY <1>1 DEF OneHome
  <2>3. ~Dropped(o)
    <3> SUFFICES ASSUME NEW r \in Lists \ Lists', NEW j \in 1 .. Len(ListOf(r)), ListOf(r)[j] = o
                 PROVE  FALSE
      BY DEF Dropped
    <3>1. at(p, i) \in 1 .. Len(ListOf(p)) /\ ListOf(p)[at(p, i)] = ListOf(r)[j]
      BY <1>1
    <3> HIDE DEF at
    <3>2. p = r
      BY <3>1 DEF OneHome
    <3>. QED
      BY <3>2
  <2>. QED
    BY <2>1, <2>2, <2>3
<1>4. \A o \in Objs : Listed(o) /\ o # x /\ ~Dropped(o) => Listed(o)'
  <2> SUFFICES ASSUME NEW o \in Objs, NEW p \in Lists, NEW i \in 1 .. Len(ListOf(p)),
                      ListOf(p)[i] = o, o # x, ~Dropped(o)
               PROVE  \E j \in 1 .. Len(ListOf(p)') : p \in Lists' /\ ListOf(p)'[j] = o
    BY DEF Listed
  <2>1. p \in Lists'
    BY DEF Dropped
  <2>2. CASE p # q
    BY <2>1, <2>2
  <2>3. CASE p = q /\ i < k
    <3>1. i \in 1 .. Len(ListOf(p)') /\ ListOf(p)'[i] = o
      BY <2>3
    <3>. QED
      BY <2>1, <3>1
  <2>4. CASE p = q /\ i > k
    <3> DEFINE j == i - 1
    <3>1. j \in 1 .. Len(ListOf(q)') /\ ~(j < k) /\ j + 1 = i
      BY <2>4
    <3>2. ListOf(q)'[j] = ListOf(q)[j + 1]
      BY <3>1
    <3>3. j \in 1 .. Len(ListOf(p)') /\ ListOf(p)'[j] = o
      BY <2>4, <3>1, <3>2
    <3>. QED
      BY <2>1, <3>3
  <2>. QED
    BY <2>2, <2>3, <2>4
<1>. QED
  BY <1>2, <1>3, <1>4

-----------------------------------------------------------------------------
(* The calls in progress *)

(* Outside the clearing no parameter is about to be freed. *)
LEMMA NoFini ==
    ASSUME Calls, phase \in {"ready", "type", "locate"}
    PROVE  InFini = {}
<1>1. CASE frames = <<>>
  BY <1>1 DEF InFini
<1>2. CASE phase = "type"
  <2>1. \A i \in 1 .. Len(frames) : frames[i] \in TypeFrame
    BY <1>2 DEF Calls
  <2>2. \A i \in 1 .. Len(frames) : frames[i].op # "fini"
    BY <2>1 DEF TypeFrame
  <2>. QED
    BY <2>2 DEF InFini
<1>. QED
  BY <1>1, <1>2 DEF Calls

LEMMA TopType ==
    ASSUME Calls, phase = "type", frames # <<>>
    PROVE  /\ Top \in TypeFrame /\ Caller \in Seq(TypeFrame)
           /\ Top.param \in live /\ Top.die \in Dies
           /\ Top.op = "args" => /\ Top.next \in Nat /\ Top.child \in live \cup {None}
                                 /\ Top.child = None => Top.next # 0
<1>1. Top \in TypeFrame /\ Caller \in Seq(TypeFrame)
  BY DEF Calls, Top, Caller
<1>. QED
  BY <1>1 DEF TypeFrame

(* The calls stay what they are when there are more parameters. *)
LEMMA FramesGrow ==
    ASSUME live \subseteq live'
    PROVE  Seq(TypeFrame) \subseteq Seq(TypeFrame')
<1>1. TypeFrame \subseteq TypeFrame'
  BY DEF TypeFrame
<1>. QED
  BY <1>1, SeqSubset

LEMMA CallsType ==
    /\ \A p \in live, d \in Dies : TypeCall(p, d) \in TypeFrame
    /\ \A p \in live : FiniCall(p) \in FiniFrame
BY DEF TypeCall, FiniCall, TypeFrame, FiniFrame

(* With calls of the types in progress after a step, Calls holds. *)
LEMMA CallsInType ==
    ASSUME phase' = "type", frames' \in Seq(TypeFrame')
    PROVE  Calls' /\ InFini' = {}
<1>1. \A i \in 1 .. Len(frames') : frames'[i] \in TypeFrame'
  OBVIOUS
<1>2. \A i \in 1 .. Len(frames') : frames'[i].op # "fini"
  BY <1>1 DEF TypeFrame
<1>3. InFini' = {}
  BY <1>2 DEF InFini
<1>. QED
  BY <1>3 DEF Calls

LEMMA CallsOutside ==
    ASSUME phase' \in {"ready", "locate"}, frames' = <<>>
    PROVE  Calls' /\ InFini' = {}
BY DEF Calls, InFini

LEMMA GoOnType ==
    ASSUME Calls, phase = "type", frames # <<>>, NEW p \in live, NEW t \in Dies
    PROVE  GoOn(p, t) \in Seq(TypeFrame)
<1>1. TypeCall(p, t) \in TypeFrame /\ Caller \in Seq(TypeFrame)
  BY TopType, CallsType
<1>2. (IF Die[t].type = None THEN <<>> ELSE <<TypeCall(p, t)>>) \in Seq(TypeFrame)
  BY <1>1
<1>. QED
  BY <1>1, <1>2, ConcatType DEF GoOn

-----------------------------------------------------------------------------
(* The steps that add a parameter *)

(* add_param *)
LEMMA AddParamStep ==
    ASSUME OInv, NEW p \in ParamType, p.children = <<>>, AddParam(p), InFini' = {}
    PROVE  /\ New \in Objs /\ New \in live' /\ live' \subseteq Objs /\ orphans' \subseteq live'
           /\ params' \in Seq(Objs) /\ obj' \in [Objs -> ParamType]
           /\ OneHome' /\ HomeOK' /\ Freed'
<1>1. PICK n \in Objs : n = New /\ n \notin live /\ n # None
  BY AddParamRoom, NewObj, NoneNotObj DEF AddParam
<1>2. InFini = {}
  BY NoFini DEF OInv, AddParam
<1>3. obj' \in [Objs -> ParamType]
  BY <1>1 DEF AddParam, OInv, Types
<1>4. ListOf(None)' = Append(ListOf(None), n) /\ ListOf(n)' = <<>>
  BY <1>1 DEF ListOf, AddParam, OInv, Types
<1>5. \A q \in Lists \ {None} : UNCHANGED ListOf(q)
  BY <1>1 DEF ListOf, AddParam, OInv, Types, Lists
<1>6. OneHome' /\ HomeOK'
  <2>1. None \in Lists /\ OneHome /\ HomeOK /\ \A q \in Lists : ListOf(q) \in Seq(Objs)
    BY ListsAre DEF OInv, Lists
  <2>2. /\ live' = live \cup {n} /\ UNCHANGED orphans /\ UNCHANGED InFini
        /\ InFini \subseteq live /\ orphans \subseteq live
    BY <1>1, <1>2 DEF AddParam, OInv, Types
  <2>. QED
    BY <1>1, <1>4, <1>5, <2>1, <2>2, ListsGrow
<1>7. Freed'
  BY <1>1 DEF AddParam, OInv, Types, Freed
<1>8. params' \in Seq(Objs)
  BY <1>1 DEF AddParam, OInv, Types
<1>9. New \in live' /\ live' \subseteq Objs /\ orphans' \subseteq live'
  BY <1>1 DEF AddParam, OInv, Types
<1>. QED
  BY <1>1, <1>3, <1>6, <1>7, <1>8, <1>9

(* parameter_add_child, and the child for a return value: a parameter is    *)
(* added to the end of a list of children.                                  *)
LEMMA AddChildStep ==
    ASSUME OInv, phase = "type", Room, NEW q \in live, NEW p \in ParamType, p.children = <<>>,
           NEW r \in ParamType, r.children = Append(obj[q].children, New),
           live' = live \cup {New}, obj' = [obj EXCEPT ![q] = r, ![New] = p],
           UNCHANGED <<params, orphans>>, InFini' = {}
    PROVE  /\ New \in Objs /\ New \in live' /\ live' \subseteq Objs /\ orphans' \subseteq live'
           /\ params' \in Seq(Objs) /\ obj' \in [Objs -> ParamType]
           /\ OneHome' /\ HomeOK' /\ Freed'
<1>1. PICK n \in Objs : n = New /\ n \notin live /\ n # None /\ n # q
  BY NewObj, NoneNotObj
<1>2. InFini = {} /\ q \in Objs /\ q # None
  BY NoFini, NoneNotObj DEF OInv, Types
<1>3. obj' \in [Objs -> ParamType]
  BY <1>1, <1>2 DEF OInv, Types
<1>4. ListOf(q)' = Append(ListOf(q), n) /\ ListOf(n)' = <<>>
  BY <1>1, <1>2 DEF ListOf, OInv, Types
<1>5. \A s \in Lists \ {q} : UNCHANGED ListOf(s)
  BY <1>1 DEF ListOf, OInv, Types, Lists
<1>6. OneHome' /\ HomeOK'
  <2>1. q \in Lists /\ OneHome /\ HomeOK /\ \A s \in Lists : ListOf(s) \in Seq(Objs)
    BY ListsAre DEF OInv, Lists
  <2>2. /\ live' = live \cup {n} /\ UNCHANGED orphans /\ UNCHANGED InFini
        /\ InFini \subseteq live /\ orphans \subseteq live
    BY <1>1, <1>2 DEF OInv, Types
  <2>. QED
    BY <1>1, <1>4, <1>5, <2>1, <2>2, ListsGrow
<1>7. Freed'
  BY <1>1, <1>2 DEF OInv, Types, Freed
<1>8. params' \in Seq(Objs)
  BY DEF OInv, Types
<1>9. New \in live' /\ live' \subseteq Objs /\ orphans' \subseteq live'
  BY <1>1 DEF OInv, Types
<1>. QED
  BY <1>1, <1>3, <1>6, <1>7, <1>8, <1>9

(* The fields of one parameter change, but not its children. *)
LEMMA FieldsStep ==
    ASSUME OInv, NEW q \in Objs, NEW r \in ParamType, r.children = obj[q].children,
           obj' = [obj EXCEPT ![q] = r], UNCHANGED <<params, live, orphans>>,
           phase \in {"ready", "type", "locate"}, InFini' = {}
    PROVE  obj' \in [Objs -> ParamType] /\ OneHome' /\ HomeOK' /\ Freed'
<1>1. obj' \in [Objs -> ParamType] /\ \A o \in Objs : obj'[o].children = obj[o].children
  BY DEF OInv, Types
<1>2. \A p \in Lists : UNCHANGED ListOf(p)
  BY <1>1 DEF ListOf, OInv, Types, Lists
<1>3. UNCHANGED <<live, orphans, InFini>>
  BY NoFini DEF OInv
<1>4. OneHome' /\ HomeOK'
  BY <1>2, <1>3, ListsSame DEF OInv
<1>5. Freed'
  BY <1>1 DEF OInv, Freed
<1>. QED
  BY <1>1, <1>4, <1>5

LEMMA NoFieldsStep ==
    ASSUME OInv, UNCHANGED <<params, live, orphans, obj>>,
           phase \in {"ready", "type", "locate"}, InFini' = {}
    PROVE  obj' \in [Objs -> ParamType] /\ OneHome' /\ HomeOK' /\ Freed'
<1>1. \A p \in Lists : UNCHANGED ListOf(p)
  BY DEF ListOf
<1>2. UNCHANGED <<live, orphans, InFini>>
  BY NoFini DEF OInv
<1>. QED
  BY <1>1, <1>2, ListsSame DEF OInv, Types, Freed

-----------------------------------------------------------------------------
(* The types *)

(* What is left to show of a step of the types: what it does to the lists.  *)
LEMMA TypingStep ==
    ASSUME OInv, Typing, live \subseteq live', live' \subseteq Objs, ret' \in BOOLEAN,
           frames' \in Seq(TypeFrame'),
           InFini' = {} => obj' \in [Objs -> ParamType] /\ OneHome' /\ HomeOK' /\ Freed'
    PROVE  OInv'
<1>1. phase' = "type" /\ Calls' /\ InFini' = {}
  BY CallsInType DEF Typing
<1>2. Types'
  BY <1>1 DEF OInv, Types, Typing
<1>. QED
  BY <1>1, <1>2 DEF OInv

LEMMA TypeFailsStep == ASSUME OInv, TypeFails PROVE OInv'
<1>1. phase = "type" /\ frames # <<>> /\ UNCHANGED <<params, live, orphans, obj>>
  BY DEF TypeFails, Typing, Running
<1>2. frames' \in Seq(TypeFrame')
  BY <1>1, TopType, FramesGrow DEF OInv, TypeFails
<1>. QED
  BY <1>1, <1>2, NoFieldsStep, TypingStep DEF TypeFails, OInv, Types

LEMMA TypeLinkStep == ASSUME OInv, TypeLink PROVE OInv'
<1>1. phase = "type" /\ frames # <<>> /\ UNCHANGED <<params, live, orphans>>
  BY DEF TypeLink, Typing, Running
<1> DEFINE q == Top.param
           t == Die[Top.die].type
           r == AddTypes([obj[q] EXCEPT !.size = Size(t)], Adds(t))
<1>2. q \in live /\ q \in Objs /\ t \in Dies /\ obj[q] \in ParamType
  BY <1>1, TopType DEF TypeLink, OInv, Types
<1>3. r \in ParamType /\ r.children = obj[q].children
  BY <1>2, LinkFields
<1>4. obj' = [obj EXCEPT ![q] = r]
  BY DEF TypeLink
<1>5. frames' \in Seq(TypeFrame')
  BY <1>1, <1>2, GoOnType, FramesGrow DEF TypeLink, OInv
<1>6. InFini' = {} => obj' \in [Objs -> ParamType] /\ OneHome' /\ HomeOK' /\ Freed'
  <2> HIDE DEF q, r
  <2>. QED
    BY <1>1, <1>2, <1>3, <1>4, FieldsStep
<1>. QED
  BY <1>1, <1>5, <1>6, TypingStep DEF TypeLink, OInv, Types

LEMMA TypeSubroutineStep == ASSUME OInv, TypeSubroutine PROVE OInv'
<1>1. phase = "type" /\ frames # <<>> /\ Room /\ UNCHANGED <<params, orphans>>
  BY DEF TypeSubroutine, Typing, Running
<1>2. PICK q \in Objs : q = Top.param /\ q \in live
  BY <1>1, TopType DEF OInv, Types
<1>3. PICK n \in Objs : n = New /\ n \notin live /\ n # q
  BY <1>1, <1>2, NewObj
<1> DEFINE t == Die[Top.die].type
           r == [obj[q] EXCEPT !.size = Size(t), !.children = Append(@, n)]
<1>4. t \in Dies /\ obj[q] \in ParamType
  BY <1>1, <1>2, TopType DEF TypeSubroutine, OInv, Types
<1>5. r \in ParamType /\ r.children = Append(obj[q].children, n)
  BY <1>3, <1>4, SubroutineFields
<1>6. live' = live \cup {n} /\ obj' = [obj EXCEPT ![q] = r, ![n] = Fresh]
  <2>1. obj' = [obj EXCEPT ![q].size = Size(t), ![q].children = Append(@, n), ![n] = Fresh]
    BY <1>2, <1>3 DEF TypeSubroutine
  <2>. QED
    BY <1>2, <1>3, <2>1 DEF TypeSubroutine, OInv, Types
<1>7. frames' \in Seq(TypeFrame')
  <2>1. TypeCall(q, t) \in TypeFrame' /\ ArgsCall(q, t, 0, n) \in TypeFrame'
    BY <1>2, <1>3, <1>4, <1>6, NoneNotObj DEF TypeFrame, TypeCall, ArgsCall
  <2>2. <<TypeCall(q, t), ArgsCall(q, t, 0, n)>> \in Seq(TypeFrame')
    BY <2>1
  <2>3. Caller \in Seq(TypeFrame')
    BY <1>1, <1>6, TopType, FramesGrow DEF OInv
  <2>. QED
    BY <1>2, <1>3, <2>2, <2>3, ConcatType DEF TypeSubroutine
<1>8. InFini' = {} => obj' \in [Objs -> ParamType] /\ OneHome' /\ HomeOK' /\ Freed'
  <2> HIDE DEF r
  <2>. QED
    BY <1>1, <1>2, <1>3, <1>5, <1>6, FreshType, AddChildStep
<1>. QED
  BY <1>6, <1>7, <1>8, TypingStep DEF TypeSubroutine, OInv, Types

(* A turn of the loop over the arguments leaves the call in progress, with  *)
(* another child or another argument.                                       *)
LEMMA StepType ==
    ASSUME Calls, phase = "type", Running("args"), live \subseteq live',
           NEW c \in live' \cup {None}
    PROVE  Step(c) \o Caller \in Seq(TypeFrame')
<1>1. Top \in TypeFrame' /\ Top.op = "args" /\ Caller \in Seq(TypeFrame')
  <2>1. TypeFrame \subseteq TypeFrame'
    BY DEF TypeFrame
  <2>. QED
    BY <2>1, TopType, SeqSubset DEF Running, Top
<1>2. [Top EXCEPT !.child = c, !.next = IF c = None THEN @ + 1 ELSE @] \in TypeFrame'
  <2>1. Top \in [op : {"args"}, param : live', die : Dies, next : Nat, child : live' \cup {None}]
    BY <1>1 DEF TypeFrame
  <2>2. PICK n \in Nat : n = IF c = None THEN Top.next + 1 ELSE Top.next
    BY <2>1
  <2>3. c = None => n # 0
    BY <2>1, <2>2
  <2>4. [Top EXCEPT !.child = c, !.next = n] \in TypeFrame'
    BY <2>1, <2>3 DEF TypeFrame
  <2>. QED
    BY <2>2, <2>4
<1>3. Step(c) \in Seq(TypeFrame')
  BY <1>2 DEF Step
<1>. QED
  BY <1>1, <1>3, ConcatType

LEMMA ArgDoneStep == ASSUME OInv, ArgDone PROVE OInv'
<1>1. phase = "type" /\ UNCHANGED <<params, live, orphans>>
  BY DEF ArgDone, Typing
<1> DEFINE q == Top.child
           f == IF Top.next = 0 THEN {"RETURN"} ELSE {}
           r == Flagged(OrVoid(obj[q]), f)
<1>2. q \in Objs /\ obj[q] \in ParamType
  BY <1>1, TopType DEF ArgDone, Running, Top, OInv, Types
<1>3. r \in ParamType /\ r.children = obj[q].children
  BY <1>2, FlagsAre, OrVoidType, FlaggedType
<1>4. obj' = [obj EXCEPT ![q] = r]
  BY DEF ArgDone
<1>5. frames' \in Seq(TypeFrame')
  BY <1>1, StepType DEF ArgDone, OInv
<1>6. InFini' = {} => obj' \in [Objs -> ParamType] /\ OneHome' /\ HomeOK' /\ Freed'
  <2> HIDE DEF q, r
  <2>. QED
    BY <1>1, <1>2, <1>3, <1>4, FieldsStep
<1>. QED
  BY <1>1, <1>5, <1>6, TypingStep DEF ArgDone, OInv, Types

(* The new child may be of an argument, with a DIE, or stand for `...'. *)
LEMMA AddChildFields ==
    ASSUME OInv, Running("args"), phase = "type", NEW p \in ParamType, p.children = <<>>,
           AddChild(p), UNCHANGED <<params, orphans>>
    PROVE  /\ live \subseteq live' /\ live' \subseteq Objs /\ New \in live'
           /\ InFini' = {} => obj' \in [Objs -> ParamType] /\ OneHome' /\ HomeOK' /\ Freed'
<1>1. PICK q \in Objs : q = Top.param /\ q \in live
  BY TopType DEF OInv, Types, Running
<1>2. PICK n \in Objs : n = New /\ n \notin live /\ n # q
  BY <1>1, NewObj DEF AddChild
<1> DEFINE r == [obj[q] EXCEPT !.children = Append(@, n)]
<1>3. obj[q] \in ParamType
  BY DEF OInv, Types
<1>4. r \in ParamType /\ r.children = Append(obj[q].children, n)
  <2>1. Append(obj[q].children, n) \in Seq(Objs)
    BY <1>3 DEF ParamType
  <2>. QED
    BY <1>3, <2>1, SetFields
<1>5. live' = live \cup {n} /\ obj' = [obj EXCEPT ![q] = r, ![n] = p] /\ Room
  BY <1>1, <1>2 DEF AddChild
<1>6. live \subseteq live' /\ live' \subseteq Objs /\ New \in live'
  BY <1>2, <1>5 DEF OInv, Types
<1>7. InFini' = {} => obj' \in [Objs -> ParamType] /\ OneHome' /\ HomeOK' /\ Freed'
  <2> HIDE DEF r
  <2>. QED
    BY <1>1, <1>2, <1>4, <1>5, AddChildStep
<1>. QED
  BY <1>6, <1>7

LEMMA ArgFormalStep == ASSUME OInv, ArgFormal PROVE OInv'
<1>1. phase = "type" /\ Running("args") /\ UNCHANGED <<params, orphans>>
  BY DEF ArgFormal, NextArg, Typing
<1>2. ArgDies[Top.next] \in Dies
  <2>1. Top.next \in Nat \ {0} /\ Top.next <= Len(ArgDies) /\ Top.die \in Dies
    BY <1>1, TopType DEF ArgFormal, NextArg, OInv, Running, Top
  <2>. QED
    BY <2>1, DieAssumption DEF ArgDies
<1> DEFINE p == [Fresh EXCEPT !.die = ArgDies[Top.next]]
<1>3. p \in ParamType /\ p.children = <<>>
  BY <1>2, FreshType DEF ParamType
<1>4. /\ live \subseteq live' /\ live' \subseteq Objs /\ New \in live'
      /\ InFini' = {} => obj' \in [Objs -> ParamType] /\ OneHome' /\ HomeOK' /\ Freed'
  BY <1>1, <1>3, AddChildFields DEF ArgFormal
<1>5. frames' \in Seq(TypeFrame')
  <2>1. TypeCall(New, ArgDies[Top.next]) \in TypeFrame'
    BY <1>2, <1>4 DEF TypeCall, TypeFrame
  <2>2. Step(New) \o Caller \in Seq(TypeFrame')
    BY <1>1, <1>4, StepType DEF OInv
  <2>3. <<TypeCall(New, ArgDies[Top.next])>> \o (Step(New) \o Caller) \in Seq(TypeFrame')
    BY <2>1, <2>2, ConcatType
  <2>. QED
    BY <2>3 DEF ArgFormal
<1>. QED
  BY <1>4, <1>5, TypingStep DEF ArgFormal, NextArg, OInv, Types

LEMMA ArgUnspecifiedStep == ASSUME OInv, ArgUnspecified PROVE OInv'
<1>1. phase = "type" /\ Running("args") /\ UNCHANGED <<params, orphans>>
  BY DEF ArgUnspecified, NextArg, Typing
<1> DEFINE p == [Fresh EXCEPT !.flags = {"UNSPEC"}]
<1>2. p \in ParamType /\ p.children = <<>>
  BY FreshType, FlagsAre DEF ParamType
<1>3. /\ live \subseteq live' /\ live' \subseteq Objs
      /\ InFini' = {} => obj' \in [Objs -> ParamType] /\ OneHome' /\ HomeOK' /\ Freed'
  BY <1>1, <1>2, AddChildFields DEF ArgUnspecified
<1>4. frames' \in Seq(TypeFrame')
  BY <1>1, <1>3, StepType DEF ArgUnspecified, OInv
<1>. QED
  BY <1>3, <1>4, TypingStep DEF ArgUnspecified, NextArg, OInv, Types

LEMMA ArgSkipStep == ASSUME OInv, ArgSkip PROVE OInv'
<1>1. phase = "type" /\ Running("args") /\ UNCHANGED <<params, live, orphans, obj>>
  BY DEF ArgSkip, NextArg, Typing
<1>2. frames' \in Seq(TypeFrame')
  BY <1>1, StepType DEF ArgSkip, OInv
<1>. QED
  BY <1>1, <1>2, NoFieldsStep, TypingStep DEF ArgSkip, NextArg, OInv, Types

LEMMA ArgsEndStep == ASSUME OInv, ArgsEnd PROVE OInv'
<1>1. phase = "type" /\ frames # <<>> /\ UNCHANGED <<params, live, orphans>>
  BY DEF ArgsEnd, Typing, Running
<1> DEFINE q == Top.param
           r == AddTypes(obj[q], Adds(Top.die))
<1>2. q \in live /\ q \in Objs /\ Top.die \in Dies /\ obj[q] \in ParamType
  BY <1>1, TopType DEF OInv, Types
<1>3. r \in ParamType /\ r.children = obj[q].children
  BY <1>2, AddTypesType
<1>4. obj' = [obj EXCEPT ![q] = r]
  BY DEF ArgsEnd
<1>5. frames' \in Seq(TypeFrame')
  BY <1>1, <1>2, GoOnType, FramesGrow DEF ArgsEnd, OInv
<1>6. InFini' = {} => obj' \in [Objs -> ParamType] /\ OneHome' /\ HomeOK' /\ Freed'
  <2> HIDE DEF q, r
  <2>. QED
    BY <1>1, <1>2, <1>3, <1>4, FieldsStep
<1>. QED
  BY <1>1, <1>5, <1>6, TypingStep DEF ArgsEnd, OInv, Types

(* The three functions that add a parameter to the function. *)
LEMMA HandleStep ==
    ASSUME OInv, NEW p \in ParamType, p.children = <<>>, NEW d \in Dies,
           AddParam(p), Ready \/ Handle(d)
    PROVE  OInv'
<1>1. CASE Ready
  <2>1. Calls' /\ InFini' = {}
    BY <1>1, CallsOutside DEF Ready, AddParam, OInv, Calls
  <2>2. Types'
    BY <1>1, <2>1, AddParamStep DEF Ready, AddParam, OInv, Types
  <2>. QED
    BY <2>1, <2>2, AddParamStep DEF OInv
<1>2. CASE Handle(d)
  <2>1. PICK n \in Objs : n = New /\ n # None
    BY AddParamRoom, NewObj, NoneNotObj DEF AddParam
  <2>2. TypeCall(n, d) \in TypeFrame'
    BY <2>1 DEF AddParam, TypeCall, TypeFrame
  <2>3. Calls' /\ InFini' = {} /\ phase' = "type" /\ param' = n
    BY <1>2, <2>1, <2>2, CallsInType DEF Handle
  <2>4. Types'
    BY <1>2, <2>1, <2>3, AddParamStep DEF Handle, AddParam, OInv, Types
  <2>. QED
    BY <2>3, <2>4, AddParamStep DEF OInv
<1>. QED
  BY <1>1, <1>2

LEMMA HandlesStep ==
    ASSUME OInv, HandleDwarf \/ HandleReturn \/ HandleUnspecified
    PROVE  OInv'
<1>1. ASSUME NEW d \in Dies, NEW f \in SUBSET Flags
      PROVE  LET p == [Fresh EXCEPT !.die = d, !.flags = f] IN
             p \in ParamType /\ p.children = <<>>
  BY FreshType DEF ParamType
<1>2. CASE HandleDwarf
  <2>1. PICK d \in Dies :
           /\ AddParam([Fresh EXCEPT !.die = d,
                          !.flags = IF Die[d].tag = "variable" THEN {"VARIABLE"} ELSE {}])
           /\ Handle(d)
    BY <1>2 DEF HandleDwarf
  <2>2. (IF Die[d].tag = "variable" THEN {"VARIABLE"} ELSE {}) \in SUBSET Flags
    BY FlagsAre
  <2>. QED
    BY <1>1, <2>1, <2>2, HandleStep
<1>3. CASE HandleReturn
  <2>1. PICK d \in Dies :
           LET p == [Fresh EXCEPT !.die = d, !.flags = {"RETURN"}] IN
           IF Die[d].type # None THEN AddParam(p) /\ Handle(d)
           ELSE AddParam(AddType(p, [name |-> "void", type |-> "VOID"])) /\ Ready
    BY <1>3 DEF HandleReturn
  <2> DEFINE p == [Fresh EXCEPT !.die = d, !.flags = {"RETURN"}]
             v == [name |-> "void", type |-> "VOID"]
  <2>2. p \in ParamType /\ p.children = <<>>
    BY <1>1, FlagsAre
  <2>3. v \in [name : Names, type : TypeFlags]
    BY FlagsAre
  <2>4. AddType(p, v) \in ParamType /\ AddType(p, v).children = <<>>
    BY <2>2, <2>3, AddTypeType
  <2> HIDE DEF p, v
  <2>5. (AddParam(p) /\ Handle(d)) \/ (AddParam(AddType(p, v)) /\ Ready)
    BY <2>1 DEF p, v
  <2>. QED
    BY <2>2, <2>4, <2>5, HandleStep
<1>4. CASE HandleUnspecified
  <2> DEFINE p == [Fresh EXCEPT !.flags = {"UNSPEC"}]
  <2>1. p \in ParamType /\ p.children = <<>>
    BY FreshType, FlagsAre DEF ParamType
  <2>2. AddParam(p) /\ Ready
    BY <1>4 DEF HandleUnspecified
  <2>3. Calls' /\ InFini' = {}
    BY <2>2, CallsOutside DEF Ready, AddParam, OInv, Calls
  <2> HIDE DEF p
  <2>4. Types'
    BY <2>1, <2>2, <2>3, AddParamStep DEF Ready, AddParam, OInv, Types
  <2>. QED
    BY <2>1, <2>2, <2>3, <2>4, AddParamStep DEF OInv
<1>. QED
  BY <1>2, <1>3, <1>4

-----------------------------------------------------------------------------
(* What follows the type *)

LEMMA BytesType == ASSUME NEW p \in ParamType PROVE Bytes(p) \in 1 .. 8
<1>1. p.size \in Nat
  BY DEF ParamType
<1>. QED
  BY <1>1 DEF Bytes

LEMMA WithValueType ==
    ASSUME NEW p \in ParamType, NEW v \in Value, NEW f \in SUBSET Flags
    PROVE  /\ WithValue(p, v, f) \in ParamType
           /\ WithValue(p, v, f).children = p.children
<1> DEFINE w == [v EXCEPT !.bytes = Bytes(p)]
<1>1. w \in Value
  BY BytesType DEF Value
<1>2. OrVoid(p) \in ParamType /\ OrVoid(p).children = p.children
  BY OrVoidType
<1>3. PICK q \in ParamType : q = Flagged(OrVoid(p), f) /\ q.children = p.children
  BY <1>2, FlaggedType
<1>4. WithValue(p, v, f) = [q EXCEPT !.value = w]
  BY <1>3 DEF WithValue
<1> HIDE DEF w
<1>. QED
  BY <1>1, <1>3, <1>4, SetFields

(* A step that leaves the calls and the lists alone, and ends the parameter *)
(* or goes on with its location.                                            *)
LEMMA QuietStep ==
    ASSUME OInv, phase \in {"type", "locate"}, frames = <<>>,
           NEW r \in ParamType, r.children = obj[param].children,
           obj' = [obj EXCEPT ![param] = r],
           UNCHANGED <<params, live, orphans, offset, frames, ret>>,
           \/ Returned
           \/ phase' = "locate" /\ param' = param /\ entry' \in Nat \ {0}
    PROVE  OInv'
<1>1. param \in Objs /\ param # None
  BY DEF OInv, Types
<1>2. Calls' /\ InFini' = {}
  BY CallsOutside DEF Returned
<1>3. obj' \in [Objs -> ParamType] /\ OneHome' /\ HomeOK' /\ Freed'
  BY <1>1, <1>2, FieldsStep
<1>4. Types'
  BY <1>1, <1>3 DEF OInv, Types, Returned
<1>. QED
  BY <1>2, <1>3, <1>4 DEF OInv

LEMMA CompleteStep ==
    ASSUME OInv, phase \in {"type", "locate"}, frames = <<>>,
           NEW v \in Value, NEW fl \in SUBSET Flags, Complete(v, fl),
           UNCHANGED <<offset, frames, ret>>
    PROVE  OInv'
<1>1. obj[param] \in ParamType
  BY DEF OInv, Types
<1>2. PICK f \in SUBSET Flags : obj' = [obj EXCEPT ![param] = WithValue(obj[param], v, f)]
  <2>1. PICK bad \in BOOLEAN :
           obj' = [obj EXCEPT ![param] = WithValue(obj[param], v,
                     fl \cup IF bad /\ IsPointer(obj[param]) THEN {"INVALID"} ELSE {})]
    BY DEF Complete
  <2>2. fl \cup (IF bad /\ IsPointer(obj[param]) THEN {"INVALID"} ELSE {}) \in SUBSET Flags
    BY FlagsAre
  <2>. QED
    BY <2>1, <2>2
<1>3. WithValue(obj[param], v, f) \in ParamType
      /\ WithValue(obj[param], v, f).children = obj[param].children
  BY <1>1, WithValueType
<1>. QED
  BY <1>2, <1>3, QuietStep DEF Complete

LEMMA VariableTypedStep == ASSUME OInv, VariableTyped PROVE OInv'
<1>1. phase = "type" /\ frames = <<>> /\ UNCHANGED <<offset, frames, ret>>
  BY DEF VariableTyped, Typed
<1>2. [Undefined EXCEPT !.of = "const"] \in Value
  BY DEF Undefined, Value
<1>3. {} \in SUBSET Flags /\ {"CONST"} \in SUBSET Flags /\ {"CONST", "HAS_VALUE"} \in SUBSET Flags
  BY FlagsAre
<1>4. \E v \in Value : \E fl \in SUBSET Flags : Complete(v, fl)
  BY <1>2, <1>3, ValuesAre DEF VariableTyped
<1>. QED
  BY <1>1, <1>4, CompleteStep

LEMMA StartLocationStep == ASSUME OInv, StartLocation PROVE OInv'
<1>1. phase = "type" /\ frames = <<>>
  BY DEF StartLocation, Typed
<1>2. obj[param] \in ParamType /\ obj = [obj EXCEPT ![param] = obj[param]]
  BY <1>1 DEF OInv, Types
<1>. QED
  BY <1>1, <1>2, QuietStep DEF StartLocation, Typed

LEMMA EntryStep == ASSUME OInv, SkipEntry \/ EvaluateEntry PROVE OInv'
<1>1. phase = "locate" /\ frames = <<>> /\ obj[param] \in ParamType
      /\ UNCHANGED <<params, live, orphans, offset, phase, param, frames, ret>>
  BY DEF SkipEntry, EvaluateEntry, Evaluate, Locating, OInv, Calls, Types
<1>2. entry \in Nat /\ phase' = "locate" /\ param' = param /\ entry' \in Nat \ {0}
  BY DEF SkipEntry, EvaluateEntry, Evaluate, Locating, OInv, Types
<1>3. CASE SkipEntry
  <2>1. obj' = [obj EXCEPT ![param] = obj[param]]
    BY <1>3 DEF SkipEntry, OInv, Types
  <2>. QED
    BY <1>1, <1>2, <2>1, QuietStep
<1>4. CASE EvaluateEntry
  <2>1. PICK ok \in BOOLEAN, got \in BOOLEAN :
           obj' = [obj EXCEPT ![param].location =
                     [value |-> IF got THEN [of |-> "entry", entry |-> entry, bytes |-> 8]
                                ELSE @.value,
                      ok |-> ok, got |-> got]]
    BY <1>4 DEF EvaluateEntry, Evaluate
  <2> DEFINE v == IF got THEN [of |-> "entry", entry |-> entry, bytes |-> 8]
                  ELSE obj[param].location.value
             l == [value |-> v, ok |-> ok, got |-> got]
             r == [obj[param] EXCEPT !.location = l]
  <2>2. v \in Value
    BY <1>1, <1>2 DEF Value, ParamType
  <2>3. l \in [value : Value, ok : BOOLEAN, got : BOOLEAN]
    BY <2>2
  <2>4. r \in ParamType /\ r.children = obj[param].children
    BY <1>1, <2>3, SetFields
  <2>5. obj' = [obj EXCEPT ![param] = r]
    BY <2>1
  <2> HIDE DEF r
  <2>. QED
    BY <1>1, <1>2, <2>4, <2>5, QuietStep
<1>. QED
  BY <1>3, <1>4

LEMMA EndLocationStep == ASSUME OInv, EndLocation PROVE OInv'
<1>1. phase = "locate" /\ frames = <<>> /\ UNCHANGED <<offset, frames, ret>>
  BY DEF EndLocation, OInv, Calls
<1>2. obj[param].location.value \in Value
  BY <1>1 DEF OInv, Types, ParamType
<1>3. {"HAS_VALUE"} \in SUBSET Flags /\ {} \in SUBSET Flags
  BY FlagsAre
<1>. QED
  BY <1>1, <1>2, <1>3, ValuesAre, CompleteStep DEF EndLocation

(* del_param: the parameter of a return type is taken off the list and      *)
(* freed, and its children are on no list any more.                         *)
LEMMA ReturnTypedStep == ASSUME OInv, ReturnTyped PROVE OInv'
<1>1. phase = "type" /\ frames = <<>> /\ Returned /\ UNCHANGED <<offset, frames, ret>>
  BY DEF ReturnTyped, Typed
<1>2. Calls' /\ InFini' = {} /\ InFini = {}
  BY <1>1, CallsOutside, NoFini DEF Returned, OInv
<1>3. param \in Objs /\ param \in live /\ param # None
  BY <1>1 DEF OInv, Types
<1>4. CASE UNCHANGED <<params, live, obj, orphans>>
  <2>1. OneHome' /\ HomeOK' /\ Freed' /\ obj' \in [Objs -> ParamType]
    BY <1>1, <1>2, <1>4, NoFieldsStep
  <2>2. Types'
    BY <1>1, <1>4 DEF OInv, Types, Returned
  <2>. QED
    BY <1>2, <2>1, <2>2 DEF OInv
<1>5. CASE ~ret
  <2>1. PICK k \in 1 .. Len(params) : params[k] = param /\ params' = RemoveAt(params, k)
    BY <1>5 DEF ReturnTyped
  <2>2. /\ live' = live \ {param} /\ orphans' = orphans \cup Range(obj[param].children)
        /\ obj' = [obj EXCEPT ![param] = Fresh]
    BY <1>5 DEF ReturnTyped
  <2>3. params \in Seq(Objs) /\ ListOf(None) = params /\ ListOf(None)' = params'
    BY DEF OInv, Types, ListOf
  <2>4. /\ params' \in Seq(Objs) /\ Len(params') = Len(params) - 1
        /\ \A i \in 1 .. Len(params') : params'[i] = params[IF i < k THEN i ELSE i + 1]
    BY <2>1, <2>3, RemoveAtFacts
  <2>5. Lists' = Lists \ {param} /\ None \in Lists' /\ None \in Lists
    BY <1>3, <2>2 DEF Lists
  <2>6. \A p \in Lists' \ {None} : UNCHANGED ListOf(p)
    BY <2>2, <2>5 DEF ListOf, Lists, OInv, Types
  <2>7. OneHome' /\ \A o \in Objs : Listed(o)' <=> Listed(o) /\ o # param /\ ~Dropped(o)
    <3>1. OneHome /\ HomeOK /\ \A p \in Lists : ListOf(p) \in Seq(Objs)
      BY ListsAre DEF OInv
    <3>. QED
      BY <2>1, <2>3, <2>4, <2>5, <2>6, <3>1, ListsShrink
  <2> DEFINE c == obj[param].children
  <2>8. c \in Seq(Objs) /\ ListOf(param) = c /\ param \in Lists \ Lists'
    BY <1>3, <2>5 DEF OInv, Types, ParamType, ListOf, Lists
  <2>9. \A o \in Objs : Dropped(o) <=> o \in Range(c)
    BY <2>5, <2>8, RangeFacts DEF Dropped
  <2>10. \A o \in Range(c) : o \in live /\ o # param
    <3> SUFFICES ASSUME NEW i \in 1 .. Len(c) PROVE c[i] \in live /\ c[i] # param
      BY <2>8, RangeFacts
    <3> HIDE DEF c
    <3>1. c[i] \in Objs /\ Listed(c[i])
      BY <2>8 DEF Listed
    <3>2. c[i] \in live
      BY <3>1 DEF OInv, HomeOK
    <3>3. c[i] # param
      BY <1>3, <2>1, <2>3, <2>5, <2>8 DEF OInv, OneHome
    <3>. QED
      BY <3>2, <3>3
  <2>11. HomeOK'
    BY <1>2, <2>2, <2>7, <2>9 DEF OInv, HomeOK
  <2>12. orphans' \subseteq live'
    <3>1. Listed(param)
      BY <2>1, <2>3, <2>5 DEF Listed
    <3>2. param \notin orphans
      BY <1>3, <3>1 DEF OInv, HomeOK
    <3>. QED
      BY <2>2, <2>10, <3>2 DEF OInv, Types
  <2>13. obj' \in [Objs -> ParamType] /\ Freed'
    BY <1>3, <2>2, FreshType DEF OInv, Types, Freed
  <2>14. Types'
    BY <1>1, <2>2, <2>4, <2>12, <2>13 DEF OInv, Types, Returned
  <2>. QED
    BY <1>2, <2>7, <2>11, <2>13, <2>14 DEF OInv
<1>. QED
  BY <1>4, <1>5 DEF ReturnTyped

-----------------------------------------------------------------------------
(* clear and pst_parameter_fini *)

LEMMA InFiniIs ==
    ASSUME Calls, phase = "fini"
    PROVE  /\ frames \in Seq(FiniFrame)
           /\ InFini = {frames[i].param : i \in 1 .. Len(frames)}
<1>1. frames \in Seq(FiniFrame)
  BY DEF Calls
<1>2. \A i \in 1 .. Len(frames) : frames[i] \in FiniFrame
  BY <1>1
<1>3. \A i \in 1 .. Len(frames) : frames[i].op = "fini"
  BY <1>2 DEF FiniFrame
<1>. QED
  BY <1>1, <1>3 DEF InFini

LEMMA ClearStep == ASSUME OInv, Clear PROVE OInv'
<1>1. frames' = <<>> /\ frames = <<>> /\ InFini' = InFini
  BY DEF Clear, OInv, Calls, InFini
<1>2. OneHome' /\ HomeOK'
  <2>1. \A p \in Lists : UNCHANGED ListOf(p)
    BY DEF Clear, ListOf
  <2>. QED
    BY <1>1, <2>1, ListsSame DEF Clear, OInv
<1>3. Calls'
  BY <1>1 DEF Clear, Calls, OInv, InFini
<1>. QED
  BY <1>2, <1>3 DEF Clear, OInv, Types, Freed

LEMMA ClearEndStep == ASSUME OInv, ClearEnd PROVE OInv'
<1>1. frames' = <<>> /\ frames = <<>> /\ InFini' = InFini
  BY DEF ClearEnd, Clearing, InFini
<1>2. OneHome' /\ HomeOK'
  <2>1. \A p \in Lists : UNCHANGED ListOf(p)
    BY DEF ClearEnd, ListOf
  <2>. QED
    BY <1>1, <2>1, ListsSame DEF ClearEnd, Clearing, OInv
<1>3. Calls'
  BY <1>1 DEF ClearEnd, Clearing, Calls, OInv, InFini
<1>. QED
  BY <1>2, <1>3 DEF ClearEnd, Clearing, OInv, Types, Freed

(* A parameter x goes from the head of a list to the call that frees it. *)
LEMMA PopStep ==
    ASSUME OInv, phase = "fini", phase' = "fini", UNCHANGED <<live, orphans>>,
           NEW q \in Lists, ListOf(q) # <<>>, NEW x, x = Head(ListOf(q)),
           ListOf(q)' = Tail(ListOf(q)), \A p \in Lists \ {q} : UNCHANGED ListOf(p),
           frames' = <<FiniCall(x)>> \o frames
    PROVE  OneHome' /\ HomeOK' /\ Calls'
<1>1. OneHome /\ HomeOK /\ \A p \in Lists : ListOf(p) \in Seq(Objs)
  BY ListsAre DEF OInv
<1>2. Lists' = Lists /\ \A o \in Objs : ~Dropped(o)
  BY DEF Lists, Dropped
<1>3. /\ x = ListOf(q)[1] /\ x \in Objs /\ 1 \in 1 .. Len(ListOf(q))
      /\ ListOf(q)' \in Seq(Objs) /\ Len(ListOf(q)') = Len(ListOf(q)) - 1
      /\ \A i \in 1 .. Len(ListOf(q)') : ListOf(q)'[i] = ListOf(q)[i + 1]
  BY <1>1
<1>4. \A i \in 1 .. Len(ListOf(q)') : ListOf(q)'[i] = ListOf(q)[IF i < 1 THEN i ELSE i + 1]
  BY <1>3
<1>5. OneHome' /\ \A o \in Objs : Listed(o)' <=> Listed(o) /\ o # x
  BY <1>1, <1>2, <1>3, <1>4, ListsShrink
<1>6. x \in live /\ x \notin InFini /\ x \notin orphans
  <2>1. Listed(x)
    BY <1>3 DEF Listed
  <2>. QED
    BY <1>1, <1>3, <2>1 DEF HomeOK
<1>7. FiniCall(x) \in FiniFrame /\ FiniFrame' = FiniFrame /\ FiniCall(x).op = "fini"
      /\ FiniCall(x).param = x
  BY <1>6 DEF FiniCall, FiniFrame
<1>8. /\ frames \in Seq(FiniFrame) /\ InFini = {frames[i].param : i \in 1 .. Len(frames)}
      /\ \A i, j \in 1 .. Len(frames) : frames[i].param = frames[j].param => i = j
  BY InFiniIs DEF OInv, Calls
<1>9. /\ frames' \in Seq(FiniFrame) /\ Len(frames') = Len(frames) + 1
      /\ frames'[1] = FiniCall(x)
      /\ \A i \in 2 .. Len(frames') : i - 1 \in 1 .. Len(frames) /\ frames'[i] = frames[i - 1]
      /\ \A i \in 1 .. Len(frames) : i + 1 \in 1 .. Len(frames') /\ frames'[i + 1] = frames[i]
  BY <1>7, <1>8
<1>10. \A i \in 1 .. Len(frames') : frames'[i].op = "fini"
  <2>1. \A i \in 1 .. Len(frames') : frames'[i] \in FiniFrame
    BY <1>9
  <2>. QED
    BY <2>1 DEF FiniFrame
<1>11. InFini' = InFini \cup {x}
  <2>1. InFini' = {frames'[i].param : i \in 1 .. Len(frames')}
    BY <1>10 DEF InFini
  <2>2. \A i \in 1 .. Len(frames') : frames'[i].param \in InFini \cup {x}
    <3> SUFFICES ASSUME NEW i \in 1 .. Len(frames') PROVE frames'[i].param \in InFini \cup {x}
      OBVIOUS
    <3>1. CASE i = 1
      BY <1>7, <1>9, <3>1
    <3>2. CASE i # 1
      <4>1. i \in 2 .. Len(frames')
        BY <3>2
      <4>2. i - 1 \in 1 .. Len(frames) /\ frames'[i] = frames[i - 1]
        BY <1>9, <4>1
      <4>. QED
        BY <1>8, <4>2
    <3>. QED
      BY <3>1, <3>2
  <2>3. \A i \in 1 .. Len(frames) : frames[i].param \in InFini'
    BY <1>9, <2>1
  <2>4. x \in InFini'
    <3>1. 1 \in 1 .. Len(frames')
      BY <1>8, <1>9
    <3>. QED
      BY <1>7, <1>9, <2>1, <3>1
  <2>5. InFini' \subseteq InFini \cup {x}
    BY <2>1, <2>2
  <2>6. InFini \subseteq InFini'
    BY <1>8, <2>3
  <2>. QED
    BY <2>4, <2>5, <2>6
<1>12. HomeOK'
  BY <1>1, <1>5, <1>6, <1>11 DEF HomeOK
<1>13. ASSUME NEW i \in 1 .. Len(frames'), NEW j \in 1 .. Len(frames'),
              frames'[i].param = frames'[j].param
       PROVE  i = j
  <2>1. \A k \in 2 .. Len(frames') : frames'[k].param # x
    BY <1>6, <1>8, <1>9
  <2>2. CASE i = 1 \/ j = 1
    BY <1>7, <1>9, <1>13, <2>1, <2>2
  <2>3. CASE i # 1 /\ j # 1
    <3>1. i \in 2 .. Len(frames') /\ j \in 2 .. Len(frames')
      BY <2>3
    <3>2. /\ i - 1 \in 1 .. Len(frames) /\ frames'[i] = frames[i - 1]
          /\ j - 1 \in 1 .. Len(frames) /\ frames'[j] = frames[j - 1]
      BY <1>9, <3>1
    <3>3. i - 1 = j - 1
      BY <1>8, <1>13, <3>2
    <3>. QED
      BY <3>3
  <2>. QED
    BY <2>2, <2>3
<1>14. Calls'
  BY <1>6, <1>7, <1>9, <1>11, <1>13 DEF Calls, OInv
<1>. QED
  BY <1>5, <1>12, <1>14

LEMMA ClearParamStep == ASSUME OInv, ClearParam PROVE OInv'
<1> DEFINE x == Head(params)
<1>1. /\ phase = "fini" /\ phase' = "fini" /\ params # <<>> /\ UNCHANGED <<live, orphans, obj>>
      /\ params' = Tail(params) /\ frames = <<>> /\ frames' = <<FiniCall(x)>>
  BY DEF ClearParam, Clearing
<1>2. PICK y : y = x
  OBVIOUS
<1>3. frames' = <<FiniCall(y)>> \o frames
  BY <1>1, <1>2
<1>4. None \in Lists /\ ListOf(None) = params /\ ListOf(None)' = params'
  BY DEF Lists, ListOf
<1>5. \A p \in Lists \ {None} : UNCHANGED ListOf(p)
  BY <1>1 DEF ListOf
<1>6. OneHome' /\ HomeOK' /\ Calls'
  BY <1>1, <1>2, <1>3, <1>4, <1>5, PopStep
<1>7. Types' /\ Freed'
  BY <1>1 DEF ClearParam, Clearing, OInv, Types, Freed
<1>. QED
  BY <1>6, <1>7 DEF OInv

LEMMA FiniTop ==
    ASSUME OInv, phase = "fini", Running("fini")
    PROVE  /\ Top.param \in live /\ Top.param \in Objs /\ Top.param # None
           /\ frames # <<>> /\ frames \in Seq(FiniFrame) /\ Top = frames[1]
           /\ Top.param \in InFini
<1>1. frames # <<>> /\ frames \in Seq(FiniFrame) /\ Top = frames[1] /\ 1 \in 1 .. Len(frames)
  BY InFiniIs DEF OInv, Running, Top
<1>2. Top \in FiniFrame
  BY <1>1
<1>3. Top.param \in live
  BY <1>2 DEF FiniFrame
<1>4. Top.param \in InFini
  BY <1>1, InFiniIs DEF OInv
<1>. QED
  BY <1>1, <1>3, <1>4, NoneNotObj DEF OInv, Types

LEMMA ClearChildStep == ASSUME OInv, ClearChild PROVE OInv'
<1>1. /\ phase = "fini" /\ phase' = "fini" /\ Running("fini")
      /\ UNCHANGED <<params, live, orphans>>
  BY DEF ClearChild, Clearing
<1>2. PICK q \in live : q = Top.param /\ q \in Objs /\ q # None
  BY <1>1, FiniTop
<1> DEFINE c == obj[q].children
           r == [obj[q] EXCEPT !.children = Tail(c)]
<1>3. c # <<>> /\ frames' = <<FiniCall(Head(c))>> \o frames
  BY <1>2 DEF ClearChild
<1>4. obj' = [obj EXCEPT ![q] = r]
  BY <1>2 DEF ClearChild
<1>5. c \in Seq(Objs) /\ obj[q] \in ParamType
  BY <1>2 DEF OInv, Types, ParamType
<1>6. r \in ParamType /\ r.children = Tail(c)
  <2>1. Tail(c) \in Seq(Objs)
    BY <1>3, <1>5
  <2>. QED
    BY <1>5, <2>1, SetFields
<1>7. q \in Lists /\ ListOf(q) = c
  BY <1>2 DEF Lists, ListOf
<1>8. ListOf(q)' = Tail(c) /\ \A p \in Lists \ {q} : UNCHANGED ListOf(p)
  <2> HIDE DEF r
  <2>. QED
    BY <1>1, <1>2, <1>4, <1>6 DEF ListOf, OInv, Types, Lists
<1>9. PICK x : x = Head(c)
  OBVIOUS
<1>10. OneHome' /\ HomeOK' /\ Calls'
  <2> HIDE DEF c, r
  <2>. QED
    BY <1>1, <1>3, <1>7, <1>8, <1>9, PopStep
<1>11. Types' /\ Freed'
  <2> HIDE DEF r
  <2>. QED
    BY <1>1, <1>2, <1>4, <1>6 DEF ClearChild, Clearing, OInv, Types, Freed
<1>. QED
  BY <1>10, <1>11 DEF OInv

(* A parameter without children is freed: it is on no list, as it is in the *)
(* call that ends, and no other call is about it.                           *)
LEMMA FreeStep == ASSUME OInv, Free PROVE OInv'
<1>1. /\ phase = "fini" /\ phase' = "fini" /\ Running("fini") /\ frames' = Tail(frames)
      /\ UNCHANGED <<params, orphans>>
  BY DEF Free, Clearing, Caller
<1>2. PICK x \in live : /\ x = Top.param /\ x \in Objs /\ x # None /\ x \in InFini
                        /\ frames # <<>> /\ frames \in Seq(FiniFrame) /\ x = frames[1].param
  BY <1>1, FiniTop
<1>3. live' = live \ {x} /\ obj' = [obj EXCEPT ![x] = Fresh] /\ obj[x].children = <<>>
  BY <1>2 DEF Free
<1>4. /\ InFini = {frames[i].param : i \in 1 .. Len(frames)}
      /\ \A i, j \in 1 .. Len(frames) : frames[i].param = frames[j].param => i = j
  BY <1>1, InFiniIs DEF OInv, Calls
<1>5. /\ frames' \in Seq(FiniFrame) /\ Len(frames') = Len(frames) - 1
      /\ \A i \in 1 .. Len(frames') : i + 1 \in 1 .. Len(frames) /\ frames'[i] = frames[i + 1]
      /\ 1 \in 1 .. Len(frames)
  BY <1>1, <1>2
<1>6. \A i \in 1 .. Len(frames') : frames'[i] \in FiniFrame' /\ frames'[i].param # x
  <2> SUFFICES ASSUME NEW i \in 1 .. Len(frames')
               PROVE  frames'[i] \in FiniFrame' /\ frames'[i].param # x
    OBVIOUS
  <2>1. frames'[i].param # x
    BY <1>2, <1>4, <1>5
  <2>2. frames'[i] \in FiniFrame
    BY <1>5
  <2>. QED
    BY <1>3, <2>1, <2>2 DEF FiniFrame
<1>7. frames' \in Seq(FiniFrame')
  BY <1>5, <1>6
<1>8. InFini' = InFini \ {x}
  <2>1. InFini' = {frames'[i].param : i \in 1 .. Len(frames')}
    <3>1. \A i \in 1 .. Len(frames') : frames'[i].op = "fini"
      BY <1>6 DEF FiniFrame
    <3>. QED
      BY <3>1 DEF InFini
  <2>2. InFini' \subseteq InFini \ {x}
    BY <1>4, <1>5, <1>6, <2>1
  <2>3. ASSUME NEW y \in InFini \ {x} PROVE y \in InFini'
    <3>1. PICK i \in 1 .. Len(frames) : y = frames[i].param
      BY <1>4
    <3>2. i # 1
      BY <1>2, <3>1
    <3>3. i - 1 \in 1 .. Len(frames') /\ frames'[i - 1] = frames[i]
      BY <1>5, <3>2
    <3>. QED
      BY <2>1, <3>1, <3>3
  <2>. QED
    BY <2>2, <2>3
<1>9. \A i, j \in 1 .. Len(frames') : frames'[i].param = frames'[j].param => i = j
  <2> SUFFICES ASSUME NEW i \in 1 .. Len(frames'), NEW j \in 1 .. Len(frames'),
                      frames'[i].param = frames'[j].param
               PROVE  i = j
    OBVIOUS
  <2>1. i + 1 = j + 1
    BY <1>4, <1>5
  <2>. QED
    BY <2>1
<1>10. x \notin orphans
  BY <1>2 DEF OInv, Calls
<1>11. Calls'
  BY <1>1, <1>7, <1>8, <1>9 DEF Calls, OInv
<1>12. Types' /\ Freed'
  <2>1. param' = param /\ param = None
    BY <1>1 DEF Free, Clearing, OInv, Types
  <2>. QED
    BY <1>1, <1>2, <1>3, <1>10, <2>1, FreshType DEF Free, Clearing, OInv, Types, Freed
<1>13. Lists' = Lists \ {x} /\ \A p \in Lists' : UNCHANGED ListOf(p)
  BY <1>1, <1>2, <1>3 DEF Lists, ListOf, OInv, Types
<1>14. OneHome'
  BY <1>13 DEF OneHome, OInv
<1>15. \A o \in Objs : Listed(o)' <=> Listed(o)
  <2>1. ListOf(x) = <<>>
    BY <1>2, <1>3 DEF ListOf
  <2>. QED
    BY <1>13, <2>1 DEF Listed
<1>16. HomeOK'
  BY <1>1, <1>2, <1>3, <1>8, <1>15 DEF HomeOK, OInv
<1>. QED
  BY <1>11, <1>12, <1>14, <1>16 DEF OInv

-----------------------------------------------------------------------------
(* The theorems about memory *)

LEMMA InitOInv == Init => OInv
<1> SUFFICES ASSUME Init PROVE OInv
  OBVIOUS
<1>1. Types
  BY FreshType DEF Init, Types
<1>2. Calls /\ InFini = {}
  BY DEF Init, Calls, InFini
<1>3. Lists = {None} /\ ListOf(None) = <<>>
  BY DEF Init, Lists, ListOf
<1>4. OneHome /\ HomeOK
  BY <1>2, <1>3 DEF OneHome, HomeOK, Listed, Init
<1>5. Freed
  BY FreshType DEF Init, Freed
<1>. QED
  BY <1>1, <1>2, <1>4, <1>5 DEF OInv

LEMMA NextOInv == OInv /\ [Next]_vars => OInv'
<1> SUFFICES ASSUME OInv, [Next]_vars PROVE OInv'
  OBVIOUS
<1>1. CASE UNCHANGED vars
  BY <1>1 DEF vars, OInv, Types, OneHome, HomeOK, Calls, Freed, Lists, ListOf, Listed, InFini,
     TypeFrame, FiniFrame
<1>2. CASE HandleDwarf \/ HandleReturn \/ HandleUnspecified \/ Clear
  BY <1>2, HandlesStep, ClearStep
<1>3. CASE Internal
  BY <1>3, TypeFailsStep, TypeLinkStep, TypeSubroutineStep, ArgDoneStep, ArgFormalStep,
     ArgUnspecifiedStep, ArgSkipStep, ArgsEndStep, ReturnTypedStep, VariableTypedStep,
     StartLocationStep, EntryStep, EndLocationStep, ClearParamStep, ClearChildStep, FreeStep,
     ClearEndStep DEF Internal
<1>. QED
  BY <1>1, <1>2, <1>3 DEF Next

(* The lists hold live parameters only. *)
LEMMA TypeOKFromInv == OInv => TypeOK
<1> SUFFICES ASSUME OInv PROVE TypeOK
  OBVIOUS
<1>1. ASSUME NEW p \in Lists PROVE ListOf(p) \in Seq(live)
  <2>1. ListOf(p) \in Seq(Objs)
    BY <1>1, ListsAre DEF OInv
  <2>2. \A i \in 1 .. Len(ListOf(p)) : Listed(ListOf(p)[i]) /\ ListOf(p)[i] \in Objs
    BY <1>1, <2>1 DEF Listed
  <2>3. \A i \in 1 .. Len(ListOf(p)) : ListOf(p)[i] \in live
    BY <2>2 DEF OInv, HomeOK
  <2>. QED
    BY <2>1, <2>3
<1>2. params \in Seq(live)
  BY <1>1 DEF Lists, ListOf
<1>3. \A o \in Objs : obj[o].children \in Seq(live)
  <2> SUFFICES ASSUME NEW o \in Objs PROVE obj[o].children \in Seq(live)
    OBVIOUS
  <2>1. CASE o \in live
    BY <1>1, <2>1, ListsAre DEF OInv, Lists
  <2>2. CASE o \notin live
    <3>1. obj[o].children = <<>>
      BY <2>2 DEF OInv, Freed
    <3>2. <<>> \in Seq(live)
      OBVIOUS
    <3>. QED
      BY <3>1, <3>2
  <2>. QED
    BY <2>1, <2>2
<1>4. obj \in [Objs ->
          [die : Dies \cup {None}, types : Seq([name : Names, type : TypeFlags]),
           type_name : Names, flags : SUBSET Flags, size : Nat, value : Value,
           children : Seq(live), location : [value : Value, ok : BOOLEAN, got : BOOLEAN]]]
  BY <1>3 DEF OInv, Types, ParamType
<1>5. frames \in Seq([op : {"type"}, param : live, die : Dies]
                      \cup [op : {"args"}, param : live, die : Dies, next : Nat,
                            child : live \cup {None}]
                      \cup [op : {"fini"}, param : live])
  <2> DEFINE F == [op : {"type"}, param : live, die : Dies]
                      \cup [op : {"args"}, param : live, die : Dies, next : Nat,
                            child : live \cup {None}]
                      \cup [op : {"fini"}, param : live]
  <2>1. TypeFrame \subseteq F /\ FiniFrame \subseteq F
    BY DEF TypeFrame, FiniFrame
  <2> HIDE DEF F
  <2>2. Seq(TypeFrame) \subseteq Seq(F) /\ Seq(FiniFrame) \subseteq Seq(F) /\ <<>> \in Seq(F)
    BY <2>1, SeqSubset
  <2>3. frames \in Seq(F)
    BY <2>2 DEF OInv, Calls, Types
  <2>. QED
    BY <2>3 DEF F
<1>. QED
  BY <1>2, <1>4, <1>5 DEF OInv, Types, TypeOK

(* One home as a set of one element. *)
LEMMA OwnedFromInv == OInv => Owned
<1> SUFFICES ASSUME OInv PROVE Owned
  OBVIOUS
<1>1. ASSUME NEW o, NEW s
      PROVE  s \in Homes(o) <=>
               \E p \in Lists : \E i \in 1 .. Len(ListOf(p)) : ListOf(p)[i] = o /\ s = <<p, i>>
  BY ListsAre DEF Homes, Lists, OInv
<1>2. ASSUME NEW o \in Objs, ~Listed(o) PROVE Homes(o) = {}
  BY <1>1, <1>2 DEF Listed
<1>3. ASSUME NEW o \in Objs, Listed(o) PROVE \E s : Homes(o) = {s}
  <2>1. PICK p \in Lists : \E i \in 1 .. Len(ListOf(p)) : ListOf(p)[i] = o
    BY <1>3 DEF Listed
  <2>2. PICK i \in 1 .. Len(ListOf(p)) : ListOf(p)[i] = o
    BY <2>1
  <2>3. <<p, i>> \in Homes(o)
    BY <1>1, <2>2
  <2>4. ASSUME NEW s \in Homes(o) PROVE s = <<p, i>>
    BY <1>1, <2>2, <2>4 DEF OInv, OneHome
  <2>. QED
    BY <2>3, <2>4
<1>4. ASSUME NEW o \in live
      PROVE  Cardinality(Homes(o)) = IF o \in InFini \cup orphans THEN 0 ELSE 1
  <2>1. o \in Objs
    BY DEF OInv, Types
  <2>2. CASE Listed(o)
    BY <1>3, <2>1, <2>2, FS_Singleton DEF OInv, HomeOK
  <2>3. CASE ~Listed(o)
    BY <1>2, <1>4, <2>1, <2>3, FS_EmptySet DEF OInv, HomeOK
  <2>. QED
    BY <2>2, <2>3
<1>5. \A o \in Objs \ live : Homes(o) = {}
  BY <1>2 DEF OInv, HomeOK
<1>6. \A i \in 1 .. Len(frames) : frames[i].param \in live
  <2>1. TypeOK
    BY TypeOKFromInv
  <2>2. \A i \in 1 .. Len(frames) :
           frames[i] \in [op : {"type"}, param : live, die : Dies]
                         \cup [op : {"args"}, param : live, die : Dies, next : Nat,
                               child : live \cup {None}]
                         \cup [op : {"fini"}, param : live]
    BY <2>1 DEF TypeOK
  <2>. QED
    BY <2>2
<1>. QED
  BY <1>4, <1>5, <1>6 DEF Owned

(* The state has its types, and no list has a freed parameter.  src/dwarf/  *)
(* dwarf_parameter.c and dwarf_parameter.h.                                 *)
THEOREM TypeCorrect == Spec => []TypeOK
BY InitOInv, NextOInv, TypeOKFromInv, PTL DEF Spec

(* No parameter is lost, freed twice, on two lists or used after it was     *)
(* freed, whatever the debug information says and however types are nested, *)
(* but for the children of a return type that failed.  parameter_add_child, *)
(* handle_subroutine, del_param and pst_parameter_fini.                     *)
THEOREM OwnedCorrect == Spec => []Owned
BY InitOInv, NextOInv, OwnedFromInv, PTL DEF Spec
-----------------------------------------------------------------------------
(* The value that is printed of a parameter comes from the entry of its    *)
(* location that holds the address, for any debug information.             *)

(* The entries among the first n that the loop of handle_location evaluates. *)
Hit(d, i, a) ==
    \/ Die[d].loc.form = "exprloc"
    \/ Die[d].loc.entries[i].start <= a /\ a <= Die[d].loc.entries[i].end

Hits(d, n, a) == {i \in 1 .. n : Hit(d, i, a)}

(* A value of what was evaluated: the last, if it left one, or else that of *)
(* one before it, or what the location was initialized to.                  *)
ValueIs(got, v, h) ==
    IF got THEN v.of = "entry" /\ v.entry \in h /\ \A i \in h : i <= v.entry
    ELSE \/ v.of = "zero"
         \/ v.of = "entry" /\ v.entry \in h /\ \E i \in h : v.entry < i

Located(p) == p.die \in Dies /\ Die[p.die].loc.form # "none"

(* The n entries before the next one were looked at. *)
LocateOK(p, a, n) ==
    /\ Located(p) /\ n <= Len(Die[p.die].loc.entries)
    /\ ValueIs(p.location.got, p.location.value, Hits(p.die, n, a))
    /\ Hits(p.die, n, a) = {} => ~p.location.ok

HasValue(p) == "HAS_VALUE" \in p.flags

ValuedOK(p, a) ==
    HasValue(p) /\ p.value.of # "const" =>
        LET h == Hits(p.die, Len(Die[p.die].loc.entries), a) IN
        Located(p) /\ h # {} /\ ValueIs(p.location.got, p.value, h)

(* Before it is completed a parameter has no value, and a location that     *)
(* follows the loop over its entries.                                       *)
VInv ==
    /\ \A j \in 1 .. Len(params) : ValuedOK(obj[params[j]], offset)
    /\ phase = "type" => obj[param].location = Fresh.location /\ obj[param].die \in Dies
    /\ phase = "locate" => LocateOK(obj[param], offset, entry - 1)
    /\ phase \in {"type", "locate"} => ~HasValue(obj[param])

-----------------------------------------------------------------------------
(* What the steps of the types leave as it is *)

Same(p, q) == /\ q.die = p.die /\ q.value = p.value /\ q.location = p.location
              /\ HasValue(q) <=> HasValue(p)

LEMMA TypeFlagsAre == "HAS_VALUE" \notin TypeFlags
<1>1. \A e \in DOMAIN EncodingFlag : EncodingFlag[e] # "HAS_VALUE"
  BY DEF EncodingFlag
<1>2. \A t \in DOMAIN TagFlag : TagFlag[t] # "HAS_VALUE"
  BY DEF TagFlag
<1>. QED
  BY <1>1, <1>2 DEF TypeFlags

LEMMA SetSame ==
    ASSUME NEW p \in ParamType
    PROVE  /\ Same(p, p)
           /\ \A n \in Nat : Same(p, [p EXCEPT !.size = n])
           /\ \A c \in Seq(Objs) : Same(p, [p EXCEPT !.children = c])
           /\ \A n \in Nat, c \in Seq(Objs) : Same(p, [p EXCEPT !.size = n, !.children = c])
           /\ Same(p, OrVoid(p))
           /\ \A f \in SUBSET Flags : "HAS_VALUE" \notin f => Same(p, Flagged(p, f))
BY DEF Same, HasValue, ParamType, OrVoid, Flagged

LEMMA SameTrans ==
    ASSUME NEW p, NEW q, NEW r, Same(p, q), Same(q, r)
    PROVE  Same(p, r)
BY DEF Same

LEMMA AddTypesSame ==
    ASSUME NEW p \in ParamType, NEW d \in Dies
    PROVE  Same(p, AddTypes(p, Adds(d)))
<1>1. ASSUME NEW t \in [name : Names, type : TypeFlags] PROVE Same(p, AddType(p, t))
  <2>1. t.type # "HAS_VALUE"
    BY TypeFlagsAre
  <2>. QED
    BY <2>1 DEF AddType, Same, HasValue, ParamType
<1>. QED
  BY <1>1, AddsType, SetSame DEF AddTypes

(* A parameter that stays the same keeps what is known of it. *)
LEMMA SameValued ==
    ASSUME NEW p, NEW q, NEW a, Same(p, q), ValuedOK(p, a)
    PROVE  ValuedOK(q, a)
BY DEF Same, ValuedOK, Located

LEMMA NoValue == ASSUME NEW p, NEW a, ~HasValue(p) PROVE ValuedOK(p, a)
BY DEF ValuedOK

(* With a parameter that has no value or stays the same the list does. *)
LEMMA KeepValues ==
    ASSUME OInv, VInv, offset' = offset, params' \in Seq(Objs),
           \A j \in 1 .. Len(params') :
               \/ ~HasValue(obj'[params'[j]])
               \/ ValuedOK(obj'[params'[j]], offset)
               \/ /\ \E i \in 1 .. Len(params) : params'[j] = params[i]
                  /\ Same(obj[params'[j]], obj'[params'[j]])
    PROVE  \A j \in 1 .. Len(params') : ValuedOK(obj'[params'[j]], offset')
<1> SUFFICES ASSUME NEW j \in 1 .. Len(params') PROVE ValuedOK(obj'[params'[j]], offset)
  OBVIOUS
<1>1. ASSUME NEW i \in 1 .. Len(params), params'[j] = params[i],
             Same(obj[params'[j]], obj'[params'[j]])
      PROVE  ValuedOK(obj'[params'[j]], offset)
  BY <1>1, SameValued DEF VInv
<1>. QED
  BY <1>1, NoValue

-----------------------------------------------------------------------------
(* The steps of the types *)

LEMMA ParamsLive == ASSUME OInv PROVE params \in Seq(live)
BY TypeOKFromInv DEF TypeOK

LEMMA ParamObj == ASSUME OInv PROVE \A o \in live : o \in Objs /\ obj[o] \in ParamType
BY DEF OInv, Types

LEMMA TypingKeeps ==
    ASSUME OInv, VInv, Typing, \A o \in live : Same(obj[o], obj'[o])
    PROVE  VInv'
<1>1. phase = "type" /\ phase' = "type" /\ UNCHANGED <<params, offset, param>>
  BY DEF Typing
<1>2. \A j \in 1 .. Len(params') : ValuedOK(obj'[params'[j]], offset)
  <2>1. params' \in Seq(Objs)
    BY <1>1 DEF OInv, Types
  <2>2. \A j \in 1 .. Len(params') : params[j] \in live
    BY <1>1, ParamsLive
  <2>. QED
    BY <1>1, <2>1, <2>2, KeepValues
<1>3. Same(obj[param], obj'[param])
  BY <1>1 DEF OInv, Types
<1>. QED
  BY <1>1, <1>2, <1>3 DEF VInv, Same

LEMMA TypeLinkKeeps == ASSUME OInv, VInv, TypeLink PROVE VInv'
<1>1. phase = "type" /\ frames # <<>>
  BY DEF TypeLink, Typing, Running
<1> DEFINE q == Top.param
           t == Die[Top.die].type
           s == [obj[q] EXCEPT !.size = Size(t)]
           r == AddTypes(s, Adds(t))
<1>2. q \in live /\ q \in Objs /\ t \in Dies /\ obj[q] \in ParamType
  BY <1>1, TopType DEF TypeLink, OInv, Types
<1>3. Same(obj[q], s) /\ s \in ParamType
  BY <1>2, SizeType, SetSame, SetFields
<1>4. Same(s, r)
  <2> HIDE DEF s, t
  <2>. QED
    BY <1>2, <1>3, AddTypesSame
<1>5. obj' = [obj EXCEPT ![q] = r]
  BY DEF TypeLink
<1>6. Same(obj[q], r)
  <2> HIDE DEF q, s, r
  <2>. QED
    BY <1>3, <1>4, SameTrans
<1>7. \A o \in live : Same(obj[o], obj'[o])
  <2> HIDE DEF q, r
  <2>. QED
    BY <1>2, <1>5, <1>6, ParamObj, SetSame DEF OInv, Types
<1>. QED
  BY <1>7, TypingKeeps DEF TypeLink

LEMMA ArgsEndKeeps == ASSUME OInv, VInv, ArgsEnd PROVE VInv'
<1>1. phase = "type" /\ frames # <<>>
  BY DEF ArgsEnd, Typing, Running
<1> DEFINE q == Top.param
           r == AddTypes(obj[q], Adds(Top.die))
<1>2. q \in live /\ q \in Objs /\ Top.die \in Dies /\ obj[q] \in ParamType
  BY <1>1, TopType DEF OInv, Types
<1>3. Same(obj[q], r)
  BY <1>2, AddTypesSame
<1>4. obj' = [obj EXCEPT ![q] = r]
  BY DEF ArgsEnd
<1>5. \A o \in live : Same(obj[o], obj'[o])
  <2> HIDE DEF q, r
  <2>. QED
    BY <1>2, <1>3, <1>4, ParamObj, SetSame DEF OInv, Types
<1>. QED
  BY <1>5, TypingKeeps DEF ArgsEnd

LEMMA ArgDoneKeeps == ASSUME OInv, VInv, ArgDone PROVE VInv'
<1>1. phase = "type" /\ UNCHANGED live
  BY DEF ArgDone, Typing
<1> DEFINE q == Top.child
           f == IF Top.next = 0 THEN {"RETURN"} ELSE {}
           s == OrVoid(obj[q])
           r == Flagged(s, f)
<1>2. q \in live /\ q \in Objs /\ obj[q] \in ParamType
  BY <1>1, TopType DEF ArgDone, Running, Top, OInv, Types
<1>3. Same(obj[q], s) /\ s \in ParamType
  BY <1>2, SetSame, OrVoidType
<1>4. Same(s, r)
  <2>1. f \in SUBSET Flags /\ "HAS_VALUE" \notin f
    BY FlagsAre
  <2> HIDE DEF s, f
  <2>. QED
    BY <1>3, <2>1, SetSame
<1>5. obj' = [obj EXCEPT ![q] = r]
  BY DEF ArgDone
<1>6. Same(obj[q], r)
  <2> HIDE DEF q, s, r
  <2>. QED
    BY <1>3, <1>4, SameTrans
<1>7. \A o \in live : Same(obj[o], obj'[o])
  <2> HIDE DEF q, r
  <2>. QED
    BY <1>2, <1>5, <1>6, ParamObj, SetSame DEF OInv, Types
<1>. QED
  BY <1>7, TypingKeeps DEF ArgDone

LEMMA TypeSubroutineKeeps == ASSUME OInv, VInv, TypeSubroutine PROVE VInv'
<1>1. phase = "type" /\ frames # <<>> /\ Room
  BY DEF TypeSubroutine, Typing, Running
<1>2. PICK q \in Objs : q = Top.param /\ q \in live
  BY <1>1, TopType DEF OInv, Types
<1>3. PICK n \in Objs : n = New /\ n \notin live /\ n # q
  BY <1>1, <1>2, NewObj
<1> DEFINE t == Die[Top.die].type
           c == Append(obj[q].children, n)
           r == [obj[q] EXCEPT !.size = Size(t), !.children = c]
<1>4. t \in Dies /\ obj[q] \in ParamType
  BY <1>1, <1>2, TopType DEF TypeSubroutine, OInv, Types
<1>5. c \in Seq(Objs) /\ Size(t) \in Nat
  BY <1>3, <1>4, SizeType, SetFields
<1>6. Same(obj[q], r)
  <2> HIDE DEF c, t
  <2>. QED
    BY <1>4, <1>5, SetSame
<1>7. obj' = [obj EXCEPT ![q] = r, ![n] = Fresh]
  <2>1. obj' = [obj EXCEPT ![q].size = Size(t), ![q].children = Append(@, n), ![n] = Fresh]
    BY <1>2, <1>3 DEF TypeSubroutine
  <2>. QED
    BY <1>2, <1>3, <2>1 DEF OInv, Types
<1>8. \A o \in live : Same(obj[o], obj'[o])
  <2> HIDE DEF r
  <2>. QED
    BY <1>2, <1>3, <1>6, <1>7, ParamObj, SetSame DEF OInv, Types
<1>. QED
  BY <1>8, TypingKeeps DEF TypeSubroutine

LEMMA AddChildKeeps ==
    ASSUME OInv, VInv, NextArg, NEW p, AddChild(p)
    PROVE  VInv'
<1>1. phase = "type" /\ Running("args") /\ Room
  BY DEF NextArg, Typing, AddChild
<1>2. PICK q \in Objs : q = Top.param /\ q \in live
  BY <1>1, TopType DEF OInv, Types, Running
<1>3. PICK n \in Objs : n = New /\ n \notin live /\ n # q
  BY <1>1, <1>2, NewObj
<1> DEFINE c == Append(obj[q].children, n)
           r == [obj[q] EXCEPT !.children = c]
<1>4. obj[q] \in ParamType
  BY DEF OInv, Types
<1>5. c \in Seq(Objs)
  BY <1>3, <1>4, SetFields
<1>6. Same(obj[q], r)
  <2> HIDE DEF c
  <2>. QED
    BY <1>4, <1>5, SetSame
<1>7. obj' = [obj EXCEPT ![q] = r, ![n] = p]
  BY <1>2, <1>3 DEF AddChild
<1>8. \A o \in live : Same(obj[o], obj'[o])
  <2> HIDE DEF r
  <2>. QED
    BY <1>2, <1>3, <1>6, <1>7, ParamObj, SetSame DEF OInv, Types
<1>. QED
  BY <1>8, TypingKeeps DEF NextArg

LEMMA NoFieldsKeeps ==
    ASSUME OInv, VInv, TypeFails \/ ArgSkip
    PROVE  VInv'
<1>1. Typing /\ UNCHANGED obj
  BY DEF TypeFails, ArgSkip, NextArg
<1>. QED
  BY <1>1, ParamObj, SetSame, TypingKeeps

-----------------------------------------------------------------------------
(* A parameter is added, and what follows its type *)

(* add_param: the new one has no value yet. *)
LEMMA AddParamKeeps ==
    ASSUME OInv, VInv, NEW p \in ParamType, ~HasValue(p), AddParam(p),
           \/ Ready
           \/ \E d \in Dies : Handle(d) /\ p.location = Fresh.location /\ p.die \in Dies
    PROVE  VInv'
<1>1. PICK n \in Objs : n = New /\ n \notin live
  BY AddParamRoom, NewObj DEF AddParam
<1>2. params' = Append(params, n) /\ obj' = [obj EXCEPT ![n] = p] /\ offset' = offset
  BY <1>1 DEF AddParam
<1>3. obj'[n] = p /\ \A o \in live : obj'[o] = obj[o]
  BY <1>1, <1>2 DEF OInv, Types
<1>4. \A j \in 1 .. Len(params') : ValuedOK(obj'[params'[j]], offset)
  <2>1. params' \in Seq(Objs) /\ params \in Seq(live)
    BY <1>1, <1>2, ParamsLive DEF OInv, Types
  <2>2. \A j \in 1 .. Len(params') :
           params'[j] = n \/ \E i \in 1 .. Len(params) : params'[j] = params[i]
    BY <1>2, <2>1
  <2>3. ASSUME NEW j \in 1 .. Len(params')
        PROVE  \/ ~HasValue(obj'[params'[j]])
               \/ /\ \E i \in 1 .. Len(params) : params'[j] = params[i]
                  /\ Same(obj[params'[j]], obj'[params'[j]])
    <3>1. CASE params'[j] = n
      BY <1>3, <3>1
    <3>2. CASE \E i \in 1 .. Len(params) : params'[j] = params[i]
      <4>1. params'[j] \in live
        BY <2>1, <3>2
      <4>. QED
        BY <1>3, <3>2, <4>1, ParamObj, SetSame
    <3>. QED
      BY <2>2, <3>1, <3>2
  <2>. QED
    BY <1>2, <2>1, <2>3, KeepValues
<1>5. CASE Ready
  <2>1. phase' = "ready"
    BY <1>5 DEF Ready, AddParam
  <2>. QED
    BY <1>2, <1>4, <2>1 DEF VInv
<1>6. CASE \E d \in Dies : Handle(d) /\ p.location = Fresh.location /\ p.die \in Dies
  <2>1. phase' = "type" /\ param' = n /\ obj'[param'] = p
    BY <1>1, <1>3, <1>6 DEF Handle
  <2>. QED
    BY <1>2, <1>4, <1>6, <2>1 DEF VInv
<1>. QED
  BY <1>5, <1>6

LEMMA HandlesKeep ==
    ASSUME OInv, VInv, HandleDwarf \/ HandleReturn \/ HandleUnspecified
    PROVE  VInv'
<1>1. ASSUME NEW d \in Dies, NEW f \in SUBSET Flags, "HAS_VALUE" \notin f
      PROVE  LET p == [Fresh EXCEPT !.die = d, !.flags = f] IN
             p \in ParamType /\ ~HasValue(p) /\ p.location = Fresh.location /\ p.die \in Dies
  BY <1>1, FreshType DEF ParamType, HasValue
<1>2. CASE HandleDwarf
  <2>1. PICK d \in Dies :
           /\ AddParam([Fresh EXCEPT !.die = d,
                          !.flags = IF Die[d].tag = "variable" THEN {"VARIABLE"} ELSE {}])
           /\ Handle(d)
    BY <1>2 DEF HandleDwarf
  <2> DEFINE f == IF Die[d].tag = "variable" THEN {"VARIABLE"} ELSE {}
             p == [Fresh EXCEPT !.die = d, !.flags = f]
  <2>2. f \in SUBSET Flags /\ "HAS_VALUE" \notin f
    BY FlagsAre
  <2>3. p \in ParamType /\ ~HasValue(p) /\ p.location = Fresh.location /\ p.die \in Dies
    <3> HIDE DEF f
    <3>. QED
      BY <1>1, <2>2
  <2>4. AddParam(p) /\ Handle(d)
    BY <2>1
  <2> HIDE DEF p
  <2>. QED
    BY <2>3, <2>4, AddParamKeeps
<1>3. CASE HandleReturn
  <2>1. PICK d \in Dies :
           LET p == [Fresh EXCEPT !.die = d, !.flags = {"RETURN"}] IN
           IF Die[d].type # None THEN AddParam(p) /\ Handle(d)
           ELSE AddParam(AddType(p, [name |-> "void", type |-> "VOID"])) /\ Ready
    BY <1>3 DEF HandleReturn
  <2> DEFINE p == [Fresh EXCEPT !.die = d, !.flags = {"RETURN"}]
             v == [name |-> "void", type |-> "VOID"]
  <2>2. p \in ParamType /\ ~HasValue(p) /\ p.location = Fresh.location /\ p.die \in Dies
    BY <1>1, FlagsAre
  <2>3. v \in [name : Names, type : TypeFlags] /\ v.type # "HAS_VALUE"
    BY FlagsAre
  <2>4. (AddParam(p) /\ Handle(d)) \/ (AddParam(AddType(p, v)) /\ Ready)
    BY <2>1
  <2> HIDE DEF p, v
  <2>5. AddType(p, v) \in ParamType /\ ~HasValue(AddType(p, v))
    <3>1. AddType(p, v) \in ParamType
      BY <2>2, <2>3, AddTypeType
    <3>2. ~HasValue(AddType(p, v))
      BY <2>2, <2>3 DEF AddType, HasValue, ParamType
    <3>. QED
      BY <3>1, <3>2
  <2>. QED
    BY <2>2, <2>4, <2>5, AddParamKeeps
<1>4. CASE HandleUnspecified
  <2> DEFINE p == [Fresh EXCEPT !.flags = {"UNSPEC"}]
  <2>1. p \in ParamType /\ ~HasValue(p)
    BY FreshType, FlagsAre DEF ParamType, HasValue
  <2>2. AddParam(p) /\ Ready
    BY <1>4 DEF HandleUnspecified
  <2> HIDE DEF p
  <2>. QED
    BY <2>1, <2>2, AddParamKeeps
<1>. QED
  BY <1>2, <1>3, <1>4

(* A parameter that is done, with a value or without. *)
LEMMA DoneKeeps ==
    ASSUME OInv, VInv, phase \in {"type", "locate"}, NEW r, ValuedOK(r, offset),
           obj' = [obj EXCEPT ![param] = r], Returned, UNCHANGED <<params, offset>>
    PROVE  VInv'
<1>1. param \in Objs
  BY DEF OInv, Types
<1>2. \A j \in 1 .. Len(params') :
        \/ ValuedOK(obj'[params'[j]], offset)
        \/ /\ \E i \in 1 .. Len(params) : params'[j] = params[i]
           /\ Same(obj[params'[j]], obj'[params'[j]])
  <2> SUFFICES ASSUME NEW j \in 1 .. Len(params'), params[j] # param
               PROVE  Same(obj[params[j]], obj'[params[j]])
    BY <1>1 DEF OInv, Types
  <2>1. params[j] \in live
    BY ParamsLive
  <2>2. obj'[params[j]] = obj[params[j]]
    BY <2>1
  <2>. QED
    BY <2>1, <2>2, ParamObj, SetSame
<1>3. \A j \in 1 .. Len(params') : ValuedOK(obj'[params'[j]], offset)
  BY <1>2, KeepValues DEF OInv, Types
<1>4. phase' = "ready"
  BY DEF Returned
<1>. QED
  BY <1>3, <1>4 DEF VInv

LEMMA WithValueIs ==
    ASSUME NEW p \in ParamType, NEW v \in Value, NEW f \in SUBSET Flags
    PROVE  LET q == WithValue(p, v, f) IN
           /\ q.die = p.die /\ q.location = p.location /\ q.flags = p.flags \cup f
           /\ q.value.of = v.of /\ q.value.entry = v.entry
<1> DEFINE w == [v EXCEPT !.bytes = Bytes(p)]
<1>1. w.of = v.of /\ w.entry = v.entry /\ w \in Value
  BY BytesType DEF Value
<1>2. OrVoid(p) \in ParamType /\ OrVoid(p).die = p.die /\ OrVoid(p).location = p.location
      /\ OrVoid(p).flags = p.flags
  BY OrVoidType DEF OrVoid, ParamType
<1>3. PICK q \in ParamType : q = Flagged(OrVoid(p), f)
  BY <1>2, FlaggedType
<1>4. q.die = p.die /\ q.location = p.location /\ q.flags = p.flags \cup f
  BY <1>2, <1>3 DEF Flagged, ParamType
<1>5. WithValue(p, v, f) = [q EXCEPT !.value = w]
  BY <1>3 DEF WithValue
<1> HIDE DEF w
<1>. QED
  BY <1>1, <1>3, <1>4, <1>5 DEF ParamType

LEMMA CompleteKeeps ==
    ASSUME OInv, VInv, phase \in {"type", "locate"},
           NEW v \in Value, NEW fl \in SUBSET Flags, Complete(v, fl),
           \/ "HAS_VALUE" \notin fl
           \/ v.of = "const"
           \/ LET h == Hits(obj[param].die, Len(Entries), offset) IN
              Located(obj[param]) /\ h # {} /\ ValueIs(obj[param].location.got, v, h),
           UNCHANGED offset
    PROVE  VInv'
<1>1. obj[param] \in ParamType /\ ~HasValue(obj[param])
  BY DEF OInv, Types, VInv
<1>2. PICK f \in SUBSET Flags : /\ obj' = [obj EXCEPT ![param] = WithValue(obj[param], v, f)]
                                /\ "HAS_VALUE" \in f => "HAS_VALUE" \in fl
  <2>1. PICK bad \in BOOLEAN :
           obj' = [obj EXCEPT ![param] = WithValue(obj[param], v,
                     fl \cup IF bad /\ IsPointer(obj[param]) THEN {"INVALID"} ELSE {})]
    BY DEF Complete
  <2>2. fl \cup (IF bad /\ IsPointer(obj[param]) THEN {"INVALID"} ELSE {}) \in SUBSET Flags
    BY FlagsAre
  <2>3. "HAS_VALUE" \in fl \cup (IF bad /\ IsPointer(obj[param]) THEN {"INVALID"} ELSE {})
        => "HAS_VALUE" \in fl
    OBVIOUS
  <2>. QED
    BY <2>1, <2>2, <2>3
<1> DEFINE p == obj[param]
           r == WithValue(p, v, f)
<1>3. /\ r.die = p.die /\ r.location = p.location /\ r.flags = p.flags \cup f
      /\ r.value.of = v.of /\ r.value.entry = v.entry
  BY <1>1, WithValueIs
<1>4. ValuedOK(r, offset)
  <2> HIDE DEF r
  <2>. QED
    BY <1>1, <1>2, <1>3 DEF ValuedOK, ValueIs, HasValue, Located, Entries, Here
<1>. QED
  <2> HIDE DEF r
  <2>1. obj' = [obj EXCEPT ![param] = r] /\ Returned /\ UNCHANGED <<params, offset>>
    BY <1>2 DEF Complete, r
  <2>. QED
    BY <1>4, <2>1, DoneKeeps

LEMMA VariableTypedKeeps == ASSUME OInv, VInv, VariableTyped PROVE VInv'
<1>1. phase = "type" /\ UNCHANGED offset
  BY DEF VariableTyped, Typed
<1>2. [Undefined EXCEPT !.of = "const"] \in Value /\ [Undefined EXCEPT !.of = "const"].of = "const"
  BY DEF Undefined, Value
<1>3. {} \in SUBSET Flags /\ {"CONST"} \in SUBSET Flags /\ {"CONST", "HAS_VALUE"} \in SUBSET Flags
  BY FlagsAre
<1>4. CASE Complete(Undefined, {})
  BY <1>1, <1>3, <1>4, ValuesAre, CompleteKeeps
<1>5. CASE Complete(Undefined, {"CONST"})
  BY <1>1, <1>3, <1>5, ValuesAre, CompleteKeeps
<1>6. CASE Complete([Undefined EXCEPT !.of = "const"], {"CONST", "HAS_VALUE"})
  BY <1>1, <1>2, <1>3, <1>6, CompleteKeeps
<1>. QED
  BY <1>4, <1>5, <1>6 DEF VariableTyped

LEMMA ReturnTypedKeeps == ASSUME OInv, VInv, ReturnTyped PROVE VInv'
<1>1. phase = "type" /\ phase' = "ready" /\ UNCHANGED offset /\ param \in Objs
  BY DEF ReturnTyped, Typed, Returned, OInv, Types
<1>2. CASE ret
  BY <1>1, <1>2 DEF ReturnTyped, VInv
<1>3. CASE ~ret
  <2>1. PICK i \in 1 .. Len(params) : params[i] = param /\ params' = RemoveAt(params, i)
    BY <1>3 DEF ReturnTyped
  <2>2. obj' = [obj EXCEPT ![param] = Fresh]
    BY <1>3 DEF ReturnTyped
  <2>3. params' \in Seq(Objs) /\ \A j \in 1 .. Len(params') :
           \E k \in 1 .. Len(params) : params'[j] = params[k]
    <3>1. params \in Seq(Objs)
      BY DEF OInv, Types
    <3>2. /\ params' \in Seq(Objs) /\ Len(params') = Len(params) - 1
          /\ \A j \in 1 .. Len(params) - 1 : params'[j] = params[IF j < i THEN j ELSE j + 1]
      BY <2>1, <3>1, RemoveAtFacts
    <3>. QED
      BY <3>1, <3>2
  <2>4. \A o \in live : ~HasValue(obj'[o]) \/ Same(obj[o], obj'[o])
    <3>1. ~HasValue(Fresh)
      BY DEF HasValue, Fresh
    <3>. QED
      BY <1>1, <2>2, <3>1, ParamObj, SetSame DEF OInv, Types
  <2>5. \A j \in 1 .. Len(params') : params'[j] \in live
    BY <2>3, ParamsLive, SMTT(30)
  <2>. QED
    BY <1>1, <2>3, <2>4, <2>5, KeepValues DEF VInv
<1>. QED
  BY <1>2, <1>3

(* The loop of handle_location *)

LEMMA EntriesType ==
    ASSUME NEW d \in Dies
    PROVE  /\ Len(Die[d].loc.entries) \in Nat
           /\ \A i \in 1 .. Len(Die[d].loc.entries) :
                 Die[d].loc.entries[i].start \in Nat /\ Die[d].loc.entries[i].end \in Nat
<1>1. PICK e \in Seq([start : Nat, end : Nat]) : e = Die[d].loc.entries
  BY LocationAssumption
<1>2. Len(e) \in Nat /\ \A i \in 1 .. Len(e) : e[i] \in [start : Nat, end : Nat]
  BY SeqFacts
<1>3. \A i \in 1 .. Len(e) : e[i].start \in Nat /\ e[i].end \in Nat
  BY <1>2
<1>. QED
  BY <1>1, <1>2, <1>3

LEMMA NoHits == ASSUME NEW d, NEW a PROVE Hits(d, 0, a) = {}
BY DEF Hits

LEMMA HitsBelow ==
    ASSUME NEW d, NEW n \in Nat \ {0}, NEW a
    PROVE  Hits(d, n - 1, a) \subseteq 1 .. n - 1
BY DEF Hits

LEMMA HitsWith ==
    ASSUME NEW d, NEW n \in Nat \ {0}, NEW a, Hit(d, n, a)
    PROVE  Hits(d, n, a) = Hits(d, n - 1, a) \cup {n}
BY DEF Hits

LEMMA HitsWithout ==
    ASSUME NEW d, NEW n \in Nat \ {0}, NEW a, ~Hit(d, n, a)
    PROVE  Hits(d, n, a) = Hits(d, n - 1, a)
BY DEF Hits

LEMMA MatchesHit == Matches(entry) <=> Hit(obj[param].die, entry, offset)
BY DEF Matches, Hit, Entries, Here

LEMMA StartLocationKeeps == ASSUME OInv, VInv, StartLocation PROVE VInv'
<1>1. phase = "type" /\ phase' = "locate" /\ entry' = 1
      /\ UNCHANGED <<params, live, obj, orphans, param, offset>>
  BY DEF StartLocation, Typed
<1>2. Located(obj[param]) /\ obj[param].location = Fresh.location
  BY <1>1 DEF VInv, Located, StartLocation, Here
<1>3. LocateOK(obj[param], offset, 0)
  <2>1. 0 <= Len(Die[obj[param].die].loc.entries)
    BY <1>2, EntriesType DEF Located
  <2>2. /\ obj[param].location.value.of = "zero"
        /\ ~obj[param].location.ok /\ ~obj[param].location.got
    BY <1>2 DEF Fresh, Zero
  <2>3. ValueIs(obj[param].location.got, obj[param].location.value, {})
    BY <2>2 DEF ValueIs
  <2>. QED
    BY <1>2, <2>1, <2>2, <2>3, NoHits DEF LocateOK
<1>. QED
  BY <1>1, <1>3 DEF VInv

LEMMA SkipEntryKeeps == ASSUME OInv, VInv, SkipEntry PROVE VInv'
<1>1. phase = "locate" /\ ~Matches(entry) /\ entry' = entry + 1 /\ entry \in Nat \ {0}
      /\ entry <= Len(Entries)
      /\ UNCHANGED <<params, obj, offset, phase, param>>
  BY DEF SkipEntry, Locating, OInv, Types
<1>2. LocateOK(obj[param], offset, entry - 1)
  BY <1>1 DEF VInv
<1> DEFINE d == obj[param].die
<1>3. Hits(d, entry, offset) = Hits(d, entry - 1, offset)
  <2>1. ~Hit(d, entry, offset) /\ entry \in Nat \ {0}
    BY <1>1, MatchesHit, Zenon
  <2>. QED
    BY <2>1, HitsWithout, Zenon
<1>4. LocateOK(obj[param], offset, entry)
  BY <1>1, <1>2, <1>3 DEF LocateOK, Entries, Here
<1>5. entry' - 1 = entry
  BY <1>1
<1>. QED
  BY <1>1, <1>4, <1>5 DEF VInv

LEMMA EvaluateEntryKeeps == ASSUME OInv, VInv, EvaluateEntry PROVE VInv'
<1>1. phase = "locate" /\ Matches(entry) /\ entry' = entry + 1 /\ entry \in Nat \ {0}
      /\ entry <= Len(Entries) /\ param \in Objs /\ obj[param] \in ParamType
      /\ UNCHANGED <<params, live, offset, phase, param>>
  BY DEF EvaluateEntry, Evaluate, Locating, OInv, Types
<1>2. LocateOK(obj[param], offset, entry - 1) /\ ~HasValue(obj[param])
  BY <1>1 DEF VInv
<1> DEFINE d == obj[param].die
           h == Hits(d, entry - 1, offset)
<1>3. Hits(d, entry, offset) = h \cup {entry} /\ h \subseteq 1 .. entry - 1
  <2>1. h \subseteq 1 .. entry - 1
    BY <1>1, HitsBelow, Zenon
  <2>2. Hit(d, entry, offset) /\ entry \in Nat \ {0}
    BY <1>1, MatchesHit, Zenon
  <2>3. Hits(d, entry, offset) = h \cup {entry}
    BY <2>2, HitsWith, Zenon
  <2>. QED
    BY <2>1, <2>3
<1>4. PICK ok \in BOOLEAN, got \in BOOLEAN :
         obj' = [obj EXCEPT ![param].location =
                   [value |-> IF got THEN [of |-> "entry", entry |-> entry, bytes |-> 8]
                              ELSE @.value,
                    ok |-> ok, got |-> got]]
  BY DEF EvaluateEntry, Evaluate
<1> DEFINE w == obj[param].location.value
           v == IF got THEN [of |-> "entry", entry |-> entry, bytes |-> 8] ELSE w
           r == [obj[param] EXCEPT !.location = [value |-> v, ok |-> ok, got |-> got]]
<1>5. obj' = [obj EXCEPT ![param] = r]
  BY <1>4
<1>6. /\ r.die = d /\ r.flags = obj[param].flags
      /\ r.location.value = v /\ r.location.got = got /\ r.location.ok = ok
  BY <1>1 DEF ParamType
<1>7. ValueIs(got, v, h \cup {entry})
  <2>1. CASE got
    BY <1>1, <1>3, <2>1 DEF ValueIs
  <2>2. CASE ~got
    <3>1. w.of = "zero" \/ (w.of = "entry" /\ w.entry \in h)
      BY <1>2 DEF LocateOK, ValueIs
    <3>2. w.entry \in h => w.entry < entry
      BY <1>1, <1>3
    <3>. QED
      BY <2>2, <3>1, <3>2 DEF ValueIs
  <2>. QED
    BY <2>1, <2>2
<1> HIDE DEF r
<1>8. LocateOK(r, offset, entry)
  BY <1>1, <1>2, <1>3, <1>6, <1>7 DEF LocateOK, Located, Entries, Here
<1>9. obj'[param'] = r /\ ~HasValue(r) /\ entry' - 1 = entry
  BY <1>1, <1>2, <1>5, <1>6 DEF HasValue, OInv, Types
<1>10. \A j \in 1 .. Len(params') : ValuedOK(obj'[params'[j]], offset)
  <2>1. \A j \in 1 .. Len(params') :
          \/ ~HasValue(obj'[params'[j]])
          \/ Same(obj[params'[j]], obj'[params'[j]])
    <3> SUFFICES ASSUME NEW j \in 1 .. Len(params'), params[j] # param
                 PROVE  Same(obj[params[j]], obj'[params[j]])
      BY <1>1, <1>9
    <3>1. params[j] \in live
      BY <1>1, ParamsLive
    <3>. QED
      BY <1>5, <3>1, ParamObj, SetSame DEF OInv, Types
  <2>. QED
    BY <1>1, <2>1, KeepValues DEF OInv, Types
<1>. QED
  BY <1>1, <1>8, <1>9, <1>10 DEF VInv

(* The loop is over: what the completed parameter is given. *)
LEMMA EndLocationKeeps == ASSUME OInv, VInv, EndLocation PROVE VInv'
<1>1. phase = "locate" /\ entry > Len(Entries) /\ entry \in Nat /\ UNCHANGED offset
  BY DEF EndLocation, OInv, Types
<1>2. LocateOK(obj[param], offset, entry - 1)
  BY <1>1 DEF VInv
<1>3. entry - 1 = Len(Entries)
  <2>1. obj[param].die \in Dies /\ entry - 1 <= Len(Entries)
    BY <1>2 DEF LocateOK, Located, Entries, Here
  <2>2. Len(Entries) \in Nat
    BY <2>1, EntriesType DEF Entries, Here
  <2>. QED
    BY <1>1, <2>1, <2>2
<1>4. obj[param].location.value \in Value
  BY <1>1 DEF OInv, Types, ParamType
<1>5. {"HAS_VALUE"} \in SUBSET Flags /\ {} \in SUBSET Flags
  BY FlagsAre
<1>6. CASE obj[param].location.ok
  <2>1. Complete(obj[param].location.value, {"HAS_VALUE"})
    BY <1>6 DEF EndLocation
  <2>. QED
    BY <1>1, <1>2, <1>3, <1>4, <1>5, <1>6, <2>1, CompleteKeeps DEF LocateOK
<1>7. CASE ~obj[param].location.ok
  <2>1. Complete(Undefined, {})
    BY <1>7 DEF EndLocation
  <2>. QED
    BY <1>1, <1>5, <2>1, ValuesAre, CompleteKeeps
<1>. QED
  BY <1>6, <1>7

-----------------------------------------------------------------------------
(* The steps that clear the parameters *)

LEMMA ClearsKeep ==
    ASSUME OInv, VInv, Clear \/ ClearParam \/ ClearChild \/ Free \/ ClearEnd
    PROVE  VInv'
<1>1. params \in Seq(live) /\ params \in Seq(Objs)
  BY ParamsLive DEF OInv, Types
<1>2. CASE Clear
  BY <1>2 DEF Clear, VInv
<1>3. CASE ClearParam
  <2>1. phase' = "fini" /\ params # <<>> /\ params' = Tail(params) /\ UNCHANGED <<obj, offset>>
    BY <1>3 DEF ClearParam, Clearing
  <2>2. params' \in Seq(Objs) /\ \A j \in 1 .. Len(params') :
           params'[j] = params[j + 1] /\ j + 1 \in 1 .. Len(params)
    BY <1>1, <2>1
  <2>. QED
    BY <2>1, <2>2 DEF VInv
<1>4. CASE ClearChild \/ Free
  <2>1. phase' = "fini" /\ UNCHANGED <<params, offset>>
    BY <1>4 DEF ClearChild, Free, Clearing
  <2>2. \A o \in live : ~HasValue(obj'[o]) \/ Same(obj[o], obj'[o])
    <3>1. CASE ClearChild
      <4>1. obj' = [obj EXCEPT ![Top.param].children = Tail(@)]
            /\ obj[Top.param].children # <<>>
        BY <3>1 DEF ClearChild
      <4>2. ASSUME NEW p \in ParamType, p.children # <<>>
            PROVE  Same(p, [p EXCEPT !.children = Tail(@)])
        BY <4>2 DEF Same, HasValue, ParamType
      <4>. QED
        BY <4>1, <4>2, ParamObj, SetSame DEF OInv, Types
    <3>2. CASE Free
      <4>1. obj' = [obj EXCEPT ![Top.param] = Fresh]
        BY <3>2 DEF Free
      <4>2. ~HasValue(Fresh)
        BY DEF HasValue, Fresh
      <4>. QED
        BY <4>1, <4>2, ParamObj, SetSame DEF OInv, Types
    <3>. QED
      BY <1>4, <3>1, <3>2
  <2>. QED
    BY <1>1, <2>1, <2>2, KeepValues DEF VInv
<1>5. CASE ClearEnd
  BY <1>5 DEF ClearEnd, VInv
<1>. QED
  BY <1>2, <1>3, <1>4, <1>5

-----------------------------------------------------------------------------
(* The invariant and the theorem *)

LEMMA InitVInv == Init => VInv
BY DEF Init, VInv

LEMMA NextVInv == OInv /\ VInv /\ [Next]_vars => VInv'
<1> SUFFICES ASSUME OInv, VInv, [Next]_vars PROVE VInv'
  OBVIOUS
<1>1. CASE UNCHANGED vars
  BY <1>1 DEF vars, VInv
<1>2. CASE HandleDwarf \/ HandleReturn \/ HandleUnspecified \/ Clear
  BY <1>2, HandlesKeep, ClearsKeep
<1>3. CASE Internal
  <2>1. CASE TypeFails \/ TypeLink \/ TypeSubroutine
    BY <2>1, NoFieldsKeeps, TypeLinkKeeps, TypeSubroutineKeeps
  <2>2. CASE ArgDone \/ ArgFormal \/ ArgUnspecified \/ ArgSkip \/ ArgsEnd
    BY <2>2, NoFieldsKeeps, ArgDoneKeeps, AddChildKeeps, ArgsEndKeeps DEF ArgFormal, ArgUnspecified
  <2>3. CASE ReturnTyped \/ VariableTyped \/ StartLocation
    BY <2>3, ReturnTypedKeeps, VariableTypedKeeps, StartLocationKeeps
  <2>4. CASE SkipEntry \/ EvaluateEntry \/ EndLocation
    BY <2>4, SkipEntryKeeps, EvaluateEntryKeeps, EndLocationKeeps
  <2>5. CASE ClearParam \/ ClearChild \/ Free \/ ClearEnd
    BY <2>5, ClearsKeep
  <2>. QED
    BY <1>3, <2>1, <2>2, <2>3, <2>4, <2>5 DEF Internal
<1>. QED
  BY <1>1, <1>2, <1>3 DEF Next

(* An entry that was evaluated holds the address or ends there, and every   *)
(* entry that holds it was evaluated.                                       *)
LEMMA LocatedValue ==
    ASSUME NEW a \in Nat, NEW d \in Dies, Die[d].loc.form # "none",
           NEW v, NEW got, LET e == Die[d].loc.entries IN
              Hits(d, Len(e), a) # {} /\ ValueIs(got, v, Hits(d, Len(e), a))
    PROVE  LET e     == Die[d].loc.entries
               found == v.of = "entry" /\ v.entry \in 1 .. Len(e)
               holds(i) == \/ Die[d].loc.form = "exprloc"
                           \/ e[i].start <= a /\ a < e[i].end
           IN
           \/ (found /\ holds(v.entry))
           \/ /\ found /\ e[v.entry].end = a
              /\ \A i \in 1 .. Len(e) : holds(i) => ~got \/ i < v.entry
           \/ ~got /\ v.of = "zero"
<1> DEFINE e == Die[d].loc.entries
           h == Hits(d, Len(e), a)
           found == v.of = "entry" /\ v.entry \in 1 .. Len(e)
           holds(i) == \/ Die[d].loc.form = "exprloc"
                       \/ e[i].start <= a /\ a < e[i].end
           x == v.entry
<1>1. Len(e) \in Nat /\ \A i \in 1 .. Len(e) : e[i].start \in Nat /\ e[i].end \in Nat
  BY EntriesType
<1>2. h \subseteq 1 .. Len(e) /\ h # {} /\ ValueIs(got, v, h)
  BY DEF Hits
<1>3. CASE ~got /\ v.of = "zero"
  BY <1>3
<1>4. CASE v.of = "entry" /\ x \in h /\ (got => \A i \in h : i <= x)
  <2>1. x \in 1 .. Len(e) /\ found
    BY <1>2, <1>4
  <2>2. CASE holds(x)
    BY <2>1, <2>2
  <2>3. CASE ~holds(x)
    <3>1. Die[d].loc.form # "exprloc" /\ e[x].start <= a /\ a <= e[x].end /\ ~(a < e[x].end)
      BY <1>4, <2>3 DEF Hits, Hit
    <3>2. e[x].end = a
      BY <1>1, <2>1, <3>1
    <3>3. ASSUME NEW i \in 1 .. Len(e), holds(i), got PROVE i < x
      <4>1. e[i].start <= a /\ a <= e[i].end
        BY <1>1, <3>1, <3>3
      <4>2. i \in h
        BY <4>1 DEF Hits, Hit
      <4>3. i <= x
        BY <1>4, <3>3, <4>2
      <4>4. i # x
        BY <2>3, <3>3
      <4> HIDE DEF e
      <4>. QED
        BY <1>1, <2>1, <4>3, <4>4
    <3>. QED
      BY <2>1, <3>2, <3>3
  <2>. QED
    BY <2>2, <2>3
<1>. QED
  BY <1>2, <1>3, <1>4 DEF ValueIs

LEMMA ValueFromEntryFromInv == OInv /\ VInv => ValueFromEntry
<1> SUFFICES ASSUME OInv, VInv, NEW o \in Valued
             PROVE  LET e     == Die[obj[o].die].loc.entries
                        v     == obj[o].value
                        found == v.of = "entry" /\ v.entry \in 1 .. Len(e)
                        holds(i) == \/ Die[obj[o].die].loc.form = "exprloc"
                                    \/ e[i].start <= offset /\ offset < e[i].end
                    IN
                    \/ (found /\ holds(v.entry))
                    \/ /\ found /\ e[v.entry].end = offset
                       /\ \A i \in 1 .. Len(e) : holds(i) => ~obj[o].location.got \/ i < v.entry
                    \/ ~obj[o].location.got /\ v.of = "zero"
  BY DEF ValueFromEntry
<1>1. PICK j \in 1 .. Len(params) : o = params[j]
  <2>1. params \in Seq(Objs)
    BY DEF OInv, Types
  <2>. QED
    BY <2>1, RangeFacts DEF Valued
<1>2. ValuedOK(obj[o], offset)
  BY <1>1 DEF VInv
<1>3. PICK d \in Dies : d = obj[o].die
  BY <1>2 DEF ValuedOK, Located, Valued, HasValue
<1>4. /\ Die[d].loc.form # "none"
      /\ Hits(d, Len(Die[d].loc.entries), offset) # {}
      /\ ValueIs(obj[o].location.got, obj[o].value, Hits(d, Len(Die[d].loc.entries), offset))
  BY <1>2, <1>3 DEF ValuedOK, Located, Valued, HasValue
<1>5. offset \in Nat
  BY OffsetAssumption DEF OInv, Types
<1>. QED
  BY <1>3, <1>4, <1>5, LocatedValue

(* In any location list, ordered or not, the value that is printed of a     *)
(* parameter is that of an entry that holds the address, but for an entry   *)
(* that ends there and comes after those that hold it, and for an           *)
(* expression that left no value.  handle_location and                      *)
(* parameter_handle_dwarf.                                                  *)
THEOREM ValueCorrect == Spec => []ValueFromEntry
<1>1. Init => OInv /\ VInv
  BY InitOInv, InitVInv
<1>2. OInv /\ VInv /\ [Next]_vars => OInv' /\ VInv'
  BY NextOInv, NextVInv
<1>. QED
  BY <1>1, <1>2, ValueFromEntryFromInv, PTL DEF Spec

-----------------------------------------------------------------------------
(* What is defined along the chain of types *)

(* Of any debug information entries, one is nested least. *)
LEMMA LeastRank ==
    ASSUME NEW S \in SUBSET Dies, S # {}
    PROVE  \E d \in S : \A e \in S : Rank[d] <= Rank[e]
<1> DEFINE R == {Rank[d] : d \in S}
<1>1. R \in SUBSET Nat /\ R # {}
  BY RankAssumption
<1>2. PICK n \in R : \A m \in R : n <= m
  <2> HIDE DEF R
  <2>. QED
    BY <1>1, MinFacts
<1>. QED
  BY <1>2

(* A function of an entry that is given by the function of its type.        *)
Follows(f, d, n, b) == f[d] = IF Die[d].type \in Dies THEN n[d][f[Die[d].type]] ELSE b[d]

Nested(k) == {d \in Dies : Rank[d] < k}

Partial(f, k, V, n, b) == f \in [Nested(k) -> V] /\ \A d \in Nested(k) : Follows(f, d, n, b)

LEMMA NestedFacts ==
    ASSUME NEW k \in Nat
    PROVE  /\ \A d \in Nested(k) : /\ d \in Dies
                                   /\ Die[d].type \in Dies => Die[d].type \in Nested(k)
           /\ \A d \in Nested(k + 1) : Die[d].type \in Dies => Die[d].type \in Nested(k)
           /\ Nested(k) \subseteq Nested(k + 1)
           /\ Nested(0) = {}
           /\ \A d \in Dies : d \in Nested(Rank[d] + 1)
BY RankAssumption DEF Nested

LEMMA PartialGrows ==
    ASSUME NEW V, NEW n \in [Dies -> [V -> V]], NEW b \in [Dies -> V], NEW k \in Nat,
           NEW f, Partial(f, k, V, n, b)
    PROVE  \E h : Partial(h, k + 1, V, n, b)
<1> DEFINE value(d) == IF Die[d].type \in Dies THEN n[d][f[Die[d].type]] ELSE b[d]
<1>1. PICK h : h = [d \in Nested(k + 1) |-> value(d)]
  OBVIOUS
<1>2. \A d \in Nested(k + 1) : d \in Dies /\ (Die[d].type \in Dies => Die[d].type \in Nested(k))
  BY NestedFacts
<1>3. \A d \in Nested(k) : f[d] \in V /\ f[d] = value(d)
  BY DEF Partial, Follows
<1>4. \A d \in Nested(k + 1) : value(d) \in V
  BY <1>2, <1>3
<1>5. \A d \in Nested(k) : h[d] = f[d]
  BY <1>1, <1>3, NestedFacts
<1>6. \A d \in Nested(k + 1) : Follows(h, d, n, b)
  BY <1>1, <1>2, <1>5 DEF Follows
<1>. QED
  BY <1>1, <1>4, <1>6 DEF Partial

LEMMA PartialExists ==
    ASSUME NEW V, NEW n \in [Dies -> [V -> V]], NEW b \in [Dies -> V]
    PROVE  \A k \in Nat : \E f : Partial(f, k, V, n, b)
<1> DEFINE Without == {k \in Nat : ~ \E f : Partial(f, k, V, n, b)}
<1> SUFFICES ASSUME Without # {} PROVE FALSE
  OBVIOUS
<1>1. PICK k \in Without : \A j \in Without : k <= j
  <2>1. Without \in SUBSET Nat
    OBVIOUS
  <2> HIDE DEF Without
  <2>. QED
    BY <2>1, MinFacts
<1>2. k \in Nat /\ ~ \E f : Partial(f, k, V, n, b)
  OBVIOUS
<1>3. k # 0
  <2>1. PICK f : f = [d \in Nested(0) |-> {}]
    OBVIOUS
  <2>2. Nested(0) = {}
    BY NestedFacts
  <2>3. Partial(f, 0, V, n, b)
    BY <2>1, <2>2 DEF Partial
  <2>. QED
    BY <1>2, <2>3
<1>4. PICK j \in Nat : k = j + 1 /\ ~(k <= j)
  <2>1. k - 1 \in Nat /\ k = (k - 1) + 1 /\ ~(k <= k - 1)
    BY <1>2, <1>3
  <2>. QED
    BY <2>1
<1>5. PICK f : Partial(f, j, V, n, b)
  BY <1>1, <1>4
<1>. QED
  BY <1>2, <1>4, <1>5, PartialGrows, Zenon

LEMMA PartialUnique ==
    ASSUME NEW V, NEW n, NEW b, NEW k \in Nat, NEW j \in Nat, NEW f, NEW h,
           Partial(f, k, V, n, b), Partial(h, j, V, n, b)
    PROVE  \A d \in Nested(k) \cap Nested(j) : f[d] = h[d]
<1> DEFINE Apart == {d \in Nested(k) \cap Nested(j) : f[d] # h[d]}
<1> SUFFICES ASSUME Apart # {} PROVE FALSE
  OBVIOUS
<1>1. Apart \in SUBSET Dies
  BY NestedFacts
<1>2. PICK d \in Apart : \A e \in Apart : Rank[d] <= Rank[e]
  <2> HIDE DEF Apart
  <2>. QED
    BY <1>1, LeastRank
<1>3. d \in Nested(k) /\ d \in Nested(j) /\ d \in Dies /\ f[d] # h[d]
  BY <1>1
<1>4. Follows(f, d, n, b) /\ Follows(h, d, n, b)
  BY <1>3 DEF Partial
<1>5. Die[d].type \in Dies
  BY <1>3, <1>4 DEF Follows
<1>6. PICK t : t = Die[d].type
  OBVIOUS
<1>7. t \in Dies /\ t \in Nested(k) /\ t \in Nested(j)
  BY <1>3, <1>5, <1>6, NestedFacts
<1>8. f[t] # h[t]
  BY <1>3, <1>4, <1>5, <1>6 DEF Follows
<1>9. Rank[d] \in Nat /\ Rank[t] \in Nat /\ Rank[t] < Rank[d]
  BY <1>3, <1>5, <1>6, RankAssumption
<1>10. Rank[d] <= Rank[t]
  BY <1>2, <1>7, <1>8
<1>. QED
  BY <1>9, <1>10

LEMMA AlongTypes ==
    ASSUME NEW V, NEW n \in [Dies -> [V -> V]], NEW b \in [Dies -> V]
    PROVE  \E f \in [Dies -> V] : \A d \in Dies : Follows(f, d, n, b)
<1> DEFINE upTo(d) == CHOOSE f : Partial(f, Rank[d] + 1, V, n, b)
<1>1. \A d \in Dies : Rank[d] + 1 \in Nat
  BY RankAssumption
<1>2. \A d \in Dies : Partial(upTo(d), Rank[d] + 1, V, n, b)
  BY <1>1, PartialExists, Zenon
<1> HIDE DEF upTo
<1>3. PICK f : f = [d \in Dies |-> upTo(d)[d]]
  OBVIOUS
<1>4. f \in [Dies -> V]
  <2>1. \A d \in Dies : upTo(d)[d] \in V
    BY <1>2, NestedFacts DEF Partial
  <2>. QED
    BY <1>3, <2>1
<1>5. ASSUME NEW d \in Dies PROVE Follows(f, d, n, b)
  <2>1. f[d] = upTo(d)[d] /\ Follows(upTo(d), d, n, b)
    BY <1>2, <1>3, NestedFacts DEF Partial
  <2>2. ASSUME Die[d].type \in Dies PROVE f[Die[d].type] = upTo(d)[Die[d].type]
    <3>1. PICK t \in Dies : t = Die[d].type
      BY <2>2
    <3>2. t \in Nested(Rank[d] + 1) /\ t \in Nested(Rank[t] + 1)
      BY <1>1, <3>1, NestedFacts
    <3>3. upTo(t)[t] = upTo(d)[t]
      BY <1>1, <1>2, <3>2, PartialUnique
    <3>. QED
      BY <1>3, <3>1, <3>3
  <2>. QED
    BY <2>1, <2>2 DEF Follows
<1>. QED
  BY <1>4, <1>5

TypeName == [name : Names, type : TypeFlags]

(* Where the chain of types ends. *)
End[d \in Dies] == IF Die[d].type \in Dies THEN End[Die[d].type] ELSE d

(* Two such functions are the same. *)
SameStep(f, g) ==
    \A d \in Dies : (Die[d].type \in Dies => g[Die[d].type] = f[Die[d].type]) => g[d] = f[d]

LEMMA SameAlong ==
    ASSUME NEW f, NEW g, SameStep(f, g)
    PROVE  \A d \in Dies : g[d] = f[d]
<1> DEFINE Apart == {d \in Dies : g[d] # f[d]}
<1> SUFFICES ASSUME Apart # {} PROVE FALSE
  OBVIOUS
<1>1. PICK d \in Apart : \A e \in Apart : Rank[d] <= Rank[e]
  <2>1. Apart \in SUBSET Dies
    OBVIOUS
  <2> HIDE DEF Apart
  <2>. QED
    BY <2>1, LeastRank
<1>2. d \in Dies /\ f[d] # g[d]
  OBVIOUS
<1>3. PICK t \in Dies : t = Die[d].type /\ g[t] # f[t]
  BY <1>2 DEF SameStep
<1>4. Rank[d] \in Nat /\ Rank[t] \in Nat /\ Rank[t] < Rank[d]
  BY <1>2, <1>3, RankAssumption
<1>5. Rank[d] <= Rank[t]
  BY <1>1, <1>3
<1>. QED
  BY <1>4, <1>5

LEMMA AddsSeq == \A d \in Dies : Adds(d) \in Seq(TypeName) /\ Len(Adds(d)) <= 1
<1> SUFFICES ASSUME NEW d \in Dies PROVE Adds(d) \in Seq(TypeName) /\ Len(Adds(d)) <= 1
  OBVIOUS
<1>1. Adds(d) = <<>> \/ Adds(d) = <<Adds(d)[1]>>
  BY DEF Adds
<1>2. CASE Adds(d) = <<>>
  BY <1>2
<1>3. CASE Adds(d) # <<>>
  <2>1. PICK x \in TypeName : x = Adds(d)[1]
    BY <1>3, AddsType DEF TypeName
  <2>2. Adds(d) = <<x>>
    BY <1>1, <1>3, <2>1
  <2>. QED
    BY <2>2
<1>. QED
  BY <1>2, <1>3

(* The types a function of its own type's chain adds, and all that follow. *)
Twice(t, ts) == (IF Die[t].tag = "subroutine_type" THEN ts ELSE <<>>) \o Adds(t) \o ts

LEMMA TwiceType ==
    ASSUME NEW t \in Dies, NEW ts \in Seq(TypeName)
    PROVE  Twice(t, ts) \in Seq(TypeName)
<1>1. (IF Die[t].tag = "subroutine_type" THEN ts ELSE <<>>) \in Seq(TypeName)
  OBVIOUS
<1>2. PICK a \in Seq(TypeName), c \in Seq(TypeName) :
         a = (IF Die[t].tag = "subroutine_type" THEN ts ELSE <<>>) /\ c = Adds(t)
  BY <1>1, AddsSeq
<1>3. Twice(t, ts) = (a \o c) \o ts
  BY <1>2 DEF Twice
<1>. QED
  BY <1>3, ConcatType

LEMMA ChainFacts ==
    /\ Chain \in [Dies -> Seq(TypeName)]
    /\ \A d \in Dies : Chain[d] = IF Die[d].type \in Dies THEN Twice(Die[d].type, Chain[Die[d].type])
                                  ELSE <<>>
<1> DEFINE n == [d \in Dies |-> [ts \in Seq(TypeName) |->
                    IF Die[d].type \in Dies THEN Twice(Die[d].type, ts) ELSE <<>>]]
           b == [d \in Dies |-> <<>>]
<1>1. n \in [Dies -> [Seq(TypeName) -> Seq(TypeName)]]
  BY TwiceType
<1>2. b \in [Dies -> Seq(TypeName)]
  OBVIOUS
<1>3. PICK f \in [Dies -> Seq(TypeName)] : \A d \in Dies : Follows(f, d, n, b)
  <2> HIDE DEF n, b
  <2>. QED
    BY <1>1, <1>2, AlongTypes
<1>4. \A d \in Dies : f[d] = IF Die[d].type \in Dies THEN Twice(Die[d].type, f[Die[d].type]) ELSE <<>>
  BY <1>3 DEF Follows
<1> DEFINE step(g, d) == LET t == Die[d].type IN
              IF t \notin Dies THEN <<>>
              ELSE (IF Die[t].tag = "subroutine_type" THEN g[t] ELSE <<>>) \o Adds(t) \o g[t]
<1>5. f = [d \in Dies |-> step(f, d)]
  BY <1>4 DEF Twice
<1>6. ASSUME NEW g, g = [d \in Dies |-> step(g, d)] PROVE g = f
  <2>1. \A d \in Dies : g[d] = step(g, d) /\ f[d] = step(f, d)
    BY <1>5, <1>6
  <2>2. SameStep(f, g)
    BY <2>1 DEF SameStep
  <2>3. \A d \in Dies : g[d] = f[d]
    BY <2>2, SameAlong
  <2>. QED
    BY <1>5, <1>6, <2>3
<1>7. Chain = f
  <2> HIDE DEF step
  <2>1. Chain = CHOOSE g : g = [d \in Dies |-> step(g, d)]
    BY DEF Chain, step
  <2>. QED
    BY <1>5, <1>6, <2>1
<1>. QED
  BY <1>4, <1>7

LEMMA EndFacts ==
    /\ End \in [Dies -> Dies]
    /\ \A d \in Dies : End[d] = IF Die[d].type \in Dies THEN End[Die[d].type] ELSE d
<1> DEFINE n == [d \in Dies |-> [t \in Dies |-> t]]
           b == [d \in Dies |-> d]
<1>1. n \in [Dies -> [Dies -> Dies]] /\ b \in [Dies -> Dies]
  OBVIOUS
<1>2. PICK f \in [Dies -> Dies] : \A d \in Dies : Follows(f, d, n, b)
  <2> HIDE DEF n, b
  <2>. QED
    BY <1>1, AlongTypes
<1> DEFINE step(g, d) == IF Die[d].type \in Dies THEN g[Die[d].type] ELSE d
<1>3. f = [d \in Dies |-> step(f, d)]
  BY <1>2 DEF Follows
<1>4. ASSUME NEW g, g = [d \in Dies |-> step(g, d)] PROVE g = f
  <2>1. \A d \in Dies : g[d] = step(g, d) /\ f[d] = step(f, d)
    BY <1>3, <1>4
  <2>2. SameStep(f, g)
    BY <2>1 DEF SameStep
  <2>3. \A d \in Dies : g[d] = f[d]
    BY <2>2, SameAlong
  <2>. QED
    BY <1>3, <1>4, <2>3
<1>5. End = f
  <2> HIDE DEF step
  <2>1. End = CHOOSE g : g = [d \in Dies |-> step(g, d)]
    BY DEF End, step
  <2>. QED
    BY <1>3, <1>4, <2>1
<1>. QED
  BY <1>3, <1>5

Transparent(d) ==
    Die[d].tag \in {"typedef", "const_type", "volatile_type", "restrict_type"} /\ Die[d].type \in Dies

LEMMA PlainFacts ==
    /\ Plain \in [Dies -> Dies]
    /\ \A d \in Dies : Plain[d] = IF Transparent(d) THEN Plain[Die[d].type] ELSE d
<1> DEFINE n == [d \in Dies |-> [t \in Dies |-> IF Transparent(d) THEN t ELSE d]]
           b == [d \in Dies |-> d]
<1>1. n \in [Dies -> [Dies -> Dies]] /\ b \in [Dies -> Dies]
  OBVIOUS
<1>2. PICK f \in [Dies -> Dies] : \A d \in Dies : Follows(f, d, n, b)
  <2> HIDE DEF n, b
  <2>. QED
    BY <1>1, AlongTypes
<1> DEFINE step(g, d) == IF Transparent(d) THEN g[Die[d].type] ELSE d
<1>3. f = [d \in Dies |-> step(f, d)]
  <2>1. \A d \in Dies : f[d] = step(f, d)
    BY <1>2 DEF Follows, Transparent
  <2>. QED
    BY <2>1
<1>4. ASSUME NEW g, g = [d \in Dies |-> step(g, d)] PROVE g = f
  <2>1. \A d \in Dies : g[d] = step(g, d) /\ f[d] = step(f, d)
    BY <1>3, <1>4
  <2>2. SameStep(f, g)
    BY <2>1 DEF SameStep, Transparent
  <2>3. \A d \in Dies : g[d] = f[d]
    BY <2>2, SameAlong
  <2>. QED
    BY <1>3, <1>4, <2>3
<1>5. Plain = f
  <2> HIDE DEF step
  <2>1. Plain = CHOOSE g : g = [d \in Dies |-> step(g, d)]
    BY DEF Plain, step, Transparent
  <2>. QED
    BY <1>3, <1>4, <2>1
<1>. QED
  BY <1>3, <1>5

-----------------------------------------------------------------------------
(* What a call in progress still does to its parameter *)

VoidType == [name |-> "void", type |-> "VOID"]

(* The types and the size of a parameter. *)
View(p) == [types |-> p.types, size |-> p.size]

(* What the types of a DIE's chain make of them, and the rest of a call. *)
After(v, d) == [types |-> v.types \o Chain[d],
                size |-> IF Die[d].type \in Dies THEN Size(End[d]) ELSE v.size]

Linked(v, d) == [types |-> v.types \o Adds(d), size |-> Size(d)]

With(v, d) == [types |-> v.types \o Adds(d), size |-> v.size]

Finish(f, v) == IF f.op = "type" THEN After(v, f.die) ELSE After(With(v, f.die), f.die)

(* What a parameter has in the end. *)
Empty == [types |-> <<>>, size |-> 0]
Goal(p) ==
    IF p.die = None THEN Empty
    ELSE IF Die[p.die].tag = "subprogram" /\ Die[p.die].type = None
         THEN [types |-> <<VoidType>>, size |-> 0]
         ELSE After(Empty, p.die)

(* The calls lead every parameter to its goal, through the stages h.        *)
Stages(fr, ob, h) ==
    /\ \A o \in Objs : h[1][o] = View(ob[o]) /\ h[Len(fr) + 1][o] = Goal(ob[o])
    /\ \A i \in 1 .. Len(fr) : \A o \in Objs :
          h[i + 1][o] = IF fr[i].param = o THEN Finish(fr[i], h[i][o]) ELSE h[i][o]

Completes(fr, ob) == \E h : Stages(fr, ob, h)

IsCons(r, x, s) ==
    /\ r = <<x>> \o s /\ Len(r) = Len(s) + 1 /\ r[1] = x
    /\ \A i \in 2 .. Len(s) + 1 : r[i] = s[i - 1]

LEMMA ConsFacts ==
    ASSUME NEW S, NEW s \in Seq(S), NEW x \in S
    PROVE  \E r \in Seq(S) : IsCons(r, x, s)
<1>1. PICK r : r = <<x>> \o s
  OBVIOUS
<1>2. r \in Seq(S) /\ Len(r) = Len(s) + 1 /\ r[1] = x /\ \A i \in 2 .. Len(s) + 1 : r[i] = s[i - 1]
  BY <1>1
<1>. QED
  BY <1>1, <1>2 DEF IsCons

AnyFrame ==
    [op : {"type"}, param : Objs, die : Dies]
    \cup [op : {"args"}, param : Objs, die : Dies, next : Nat, child : Objs \cup {None}]

(* What is left of a call turns the parameters ob into ob2. *)
Does(f, ob, ob2) ==
    \A o \in Objs : /\ Goal(ob2[o]) = Goal(ob[o])
                    /\ View(ob2[o]) = IF f.param = o THEN Finish(f, View(ob[o])) ELSE View(ob[o])

(* A call that is made, and one that returns. *)
LEMMA PushCompletes ==
    ASSUME NEW fr \in Seq(AnyFrame), NEW f \in AnyFrame, NEW ob, NEW ob2, Completes(fr, ob),
           NEW s, IsCons(s, f, fr),
           Does(f, ob2, ob)
    PROVE  Completes(s, ob2)
<1>1. PICK h : Stages(fr, ob, h)
  BY DEF Completes
<1>d. \A o \in Objs : /\ Goal(ob2[o]) = Goal(ob[o])
                      /\ View(ob[o]) = IF f.param = o THEN Finish(f, View(ob2[o])) ELSE View(ob2[o])
  BY DEF Does
<1>2. PICK n \in Nat : n = Len(fr)
  OBVIOUS
<1>3. Len(s) = n + 1 /\ s[1] = f /\ \A i \in 2 .. n + 1 : s[i] = fr[i - 1]
  BY <1>2 DEF IsCons
<1>4. PICK g : g = [i \in 1 .. n + 2 |-> IF i = 1 THEN [o \in Objs |-> View(ob2[o])] ELSE h[i - 1]]
  OBVIOUS
<1>5. \A o \in Objs : g[1][o] = View(ob2[o]) /\ g[2] = h[1] /\ h[1][o] = View(ob[o])
  <2>1. g[1] = [o \in Objs |-> View(ob2[o])] /\ g[2] = h[1]
    BY <1>2, <1>4
  <2>. QED
    BY <1>1, <2>1 DEF Stages
<1>6. \A o \in Objs : g[n + 2][o] = Goal(ob2[o])
  <2>1. g[n + 2] = h[n + 1]
    BY <1>2, <1>4
  <2>. QED
    BY <1>1, <1>2, <1>d, <2>1 DEF Stages
<1>7. ASSUME NEW i \in 1 .. n + 1, NEW o \in Objs
      PROVE  g[i + 1][o] = IF s[i].param = o THEN Finish(s[i], g[i][o]) ELSE g[i][o]
  <2>1. CASE i = 1
    BY <1>3, <1>5, <1>d, <2>1
  <2>2. CASE i # 1
    <3>1. PICK j \in 1 .. n : i = j + 1 /\ i \in 2 .. n + 1
      <4>1. i - 1 \in 1 .. n /\ i = (i - 1) + 1
        BY <2>2
      <4>. QED
        BY <4>1, <2>2
    <3>2. s[i] = fr[j] /\ i \in 1 .. n + 2 /\ i + 1 \in 1 .. n + 2 /\ i - 1 = j /\ (i + 1) - 1 = j + 1
      BY <1>3, <3>1
    <3>3. g[i] = h[j] /\ g[i + 1] = h[j + 1]
      BY <1>4, <2>2, <3>1, <3>2
    <3>. QED
      BY <1>1, <1>2, <3>1, <3>2, <3>3 DEF Stages
  <2>. QED
    BY <2>1, <2>2
<1>8. Stages(s, ob2, g)
  BY <1>2, <1>3, <1>5, <1>6, <1>7 DEF Stages
<1>. QED
  BY <1>3, <1>8 DEF Completes

LEMMA PopCompletes ==
    ASSUME NEW fr \in Seq(AnyFrame), fr # <<>>, NEW ob, NEW ob2, Completes(fr, ob),
           Does(fr[1], ob, ob2)
    PROVE  Completes(Tail(fr), ob2)
<1>1. PICK h : Stages(fr, ob, h)
  BY DEF Completes
<1>d. \A o \in Objs : /\ Goal(ob2[o]) = Goal(ob[o])
                      /\ View(ob2[o]) = IF fr[1].param = o THEN Finish(fr[1], View(ob[o]))
                                        ELSE View(ob[o])
  BY DEF Does
<1>2. PICK n \in Nat : Len(fr) = n + 1
  <2>1. Len(fr) - 1 \in Nat /\ Len(fr) = (Len(fr) - 1) + 1
    OBVIOUS
  <2>. QED
    BY <2>1
<1>3. PICK s : s = Tail(fr) /\ Len(s) = n /\ \A i \in 1 .. n : s[i] = fr[i + 1]
  <2>1. Len(fr) >= 1 /\ Len(fr) - 1 = n
    BY <1>2
  <2>2. PICK s : s = [i \in 1 .. n |-> fr[i + 1]]
    OBVIOUS
  <2>3. s = Tail(fr)
    BY <2>1, <2>2, TailFacts
  <2>. QED
    BY <2>2, <2>3
<1>4. PICK g : g = [i \in 1 .. n + 1 |-> h[i + 1]]
  OBVIOUS
<1>5. \A o \in Objs : g[1][o] = View(ob2[o]) /\ g[n + 1][o] = Goal(ob2[o])
  <2>1. g[1] = h[2] /\ g[n + 1] = h[(n + 1) + 1] /\ 1 \in 1 .. Len(fr)
    BY <1>2, <1>4
  <2>2. \A o \in Objs : /\ h[1][o] = View(ob[o]) /\ h[(n + 1) + 1][o] = Goal(ob[o])
                        /\ h[2][o] = IF fr[1].param = o THEN Finish(fr[1], h[1][o]) ELSE h[1][o]
    BY <1>1, <1>2, <1>d, <2>1 DEF Stages
  <2>. QED
    BY <1>d, <2>1, <2>2
<1>6. ASSUME NEW i \in 1 .. n, NEW o \in Objs
      PROVE  g[i + 1][o] = IF s[i].param = o THEN Finish(s[i], g[i][o]) ELSE g[i][o]
  <2>1. g[i] = h[i + 1] /\ g[i + 1] = h[(i + 1) + 1] /\ i + 1 \in 1 .. Len(fr)
    BY <1>2, <1>4
  <2>2. PICK j \in 1 .. Len(fr) : j = i + 1
    BY <2>1
  <2>3. h[j + 1][o] = IF fr[j].param = o THEN Finish(fr[j], h[j][o]) ELSE h[j][o]
    BY <1>1 DEF Stages
  <2>. QED
    BY <1>3, <2>1, <2>2, <2>3
<1>7. Stages(s, ob2, g)
  BY <1>3, <1>5, <1>6 DEF Stages
<1>. QED
  BY <1>3, <1>7 DEF Completes

(* Only the parameter n changes, and gets what it should have. *)
Gets(n, ob, ob2) ==
    \A o \in Objs : IF o = n THEN View(ob2[o]) = Goal(ob2[o])
                    ELSE Goal(ob2[o]) = Goal(ob[o]) /\ View(ob2[o]) = View(ob[o])

LEMMA OthersComplete ==
    ASSUME NEW fr \in Seq(AnyFrame), NEW ob, NEW ob2, NEW n, Completes(fr, ob),
           \A i \in 1 .. Len(fr) : fr[i].param # n, Gets(n, ob, ob2)
    PROVE  Completes(fr, ob2)
<1>1. PICK h : Stages(fr, ob, h)
  BY DEF Completes
<1>2. PICK g : g = [i \in 1 .. Len(fr) + 1 |->
                       [o \in Objs |-> IF o = n THEN Goal(ob2[n]) ELSE h[i][o]]]
  OBVIOUS
<1>g. \A o \in Objs : IF o = n THEN View(ob2[o]) = Goal(ob2[o])
                      ELSE Goal(ob2[o]) = Goal(ob[o]) /\ View(ob2[o]) = View(ob[o])
  BY DEF Gets
<1>3. 1 \in 1 .. Len(fr) + 1 /\ Len(fr) + 1 \in 1 .. Len(fr) + 1
  OBVIOUS
<1>4. \A o \in Objs : g[1][o] = View(ob2[o]) /\ g[Len(fr) + 1][o] = Goal(ob2[o])
  BY <1>1, <1>2, <1>3, <1>g DEF Stages
<1>5. ASSUME NEW i \in 1 .. Len(fr), NEW o \in Objs
      PROVE  g[i + 1][o] = IF fr[i].param = o THEN Finish(fr[i], g[i][o]) ELSE g[i][o]
  <2>1. i \in 1 .. Len(fr) + 1 /\ i + 1 \in 1 .. Len(fr) + 1
    OBVIOUS
  <2>2. CASE o = n
    BY <1>2, <2>1, <2>2
  <2>3. CASE o # n
    BY <1>1, <1>2, <2>1, <2>3 DEF Stages
  <2>. QED
    BY <2>2, <2>3
<1>6. Stages(fr, ob2, g)
  BY <1>4, <1>5 DEF Stages
<1>. QED
  BY <1>6 DEF Completes

LEMMA NoCalls ==
    ASSUME NEW ob
    PROVE  Completes(<<>>, ob) <=> \A o \in Objs : View(ob[o]) = Goal(ob[o])
<1>1. ASSUME NEW h, Stages(<<>>, ob, h) PROVE \A o \in Objs : View(ob[o]) = Goal(ob[o])
  <2>1. Len(<<>>) + 1 = 1
    OBVIOUS
  <2>. QED
    BY <1>1, <2>1 DEF Stages
<1>2. ASSUME \A o \in Objs : View(ob[o]) = Goal(ob[o]) PROVE Completes(<<>>, ob)
  <2>1. PICK h : h = [i \in {1} |-> [o \in Objs |-> View(ob[o])]]
    OBVIOUS
  <2>2. Len(<<>>) = 0 /\ Len(<<>>) + 1 = 1
    OBVIOUS
  <2>3. Stages(<<>>, ob, h)
    BY <1>2, <2>1, <2>2 DEF Stages
  <2>. QED
    BY <2>3 DEF Completes
<1>. QED
  BY <1>1, <1>2 DEF Completes

Associates(a, b, c) == (a \o b) \o c = a \o (b \o c)

LEMMA ConcatFacts ==
    ASSUME NEW S, NEW a \in Seq(S), NEW b \in Seq(S), NEW c \in Seq(S)
    PROVE  Associates(a, b, c) /\ a \o <<>> = a /\ <<>> \o a = a
<1>1. a \o <<>> = a /\ <<>> \o a = a
  OBVIOUS
<1>2. PICK ab \in Seq(S), bc \in Seq(S) : ab = a \o b /\ bc = b \o c
  BY ConcatType
<1>3. /\ Len(ab) = Len(a) + Len(b) /\ Len(bc) = Len(b) + Len(c)
      /\ \A i \in 1 .. Len(ab) : ab[i] = IF i <= Len(a) THEN a[i] ELSE b[i - Len(a)]
      /\ \A i \in 1 .. Len(bc) : bc[i] = IF i <= Len(b) THEN b[i] ELSE c[i - Len(b)]
  BY <1>2
<1>4. PICK l \in Seq(S), r \in Seq(S) : l = ab \o c /\ r = a \o bc
  BY ConcatType
<1>5. /\ Len(l) = Len(ab) + Len(c) /\ Len(r) = Len(a) + Len(bc)
      /\ \A i \in 1 .. Len(l) : l[i] = IF i <= Len(ab) THEN ab[i] ELSE c[i - Len(ab)]
      /\ \A i \in 1 .. Len(r) : r[i] = IF i <= Len(a) THEN a[i] ELSE bc[i - Len(a)]
  BY <1>4
<1>6. PICK x \in Nat, y \in Nat, z \in Nat : x = Len(a) /\ y = Len(b) /\ z = Len(c)
  OBVIOUS
<1>7. Len(ab) = x + y /\ Len(bc) = y + z /\ Len(l) = (x + y) + z /\ Len(r) = x + (y + z)
  BY <1>3, <1>5, <1>6
<1>8. ASSUME NEW i \in 1 .. (x + y) + z PROVE l[i] = r[i]
  <2>1. CASE i <= x
    <3>1. i \in 1 .. x + y /\ i <= x + y /\ i \in 1 .. x + (y + z)
      BY <2>1
    <3>2. l[i] = ab[i] /\ ab[i] = a[i] /\ r[i] = a[i]
      BY <1>3, <1>5, <1>6, <1>7, <2>1, <3>1
    <3>. QED
      BY <3>2
  <2>2. CASE ~(i <= x) /\ i <= x + y
    <3>1. PICK j \in Nat : i - x = j
      BY <2>2
    <3>2. j \in 1 .. y /\ j \in 1 .. y + z /\ i \in 1 .. x + y /\ i \in 1 .. x + (y + z) /\ j <= y
      BY <2>2, <3>1
    <3>3. l[i] = ab[i] /\ ab[i] = b[j] /\ r[i] = bc[j] /\ bc[j] = b[j]
      BY <1>3, <1>5, <1>6, <1>7, <2>2, <3>1, <3>2
    <3>. QED
      BY <3>3
  <2>3. CASE ~(i <= x + y)
    <3>1. PICK j \in Nat, k \in Nat : i - x = j /\ i - (x + y) = k
      BY <2>3
    <3>2. j \in 1 .. y + z /\ j - y = k /\ ~(j <= y) /\ ~(i <= x) /\ i \in 1 .. x + (y + z)
      BY <2>3, <3>1
    <3>3. l[i] = c[k]
      BY <1>5, <1>7, <2>3, <3>1
    <3>4. r[i] = bc[j]
      BY <1>5, <1>6, <1>7, <3>1, <3>2
    <3>5. bc[j] = c[k]
      BY <1>3, <1>6, <1>7, <3>2
    <3>. QED
      BY <3>3, <3>4, <3>5
  <2>. QED
    BY <2>1, <2>2, <2>3
<1>9. l = r
  BY <1>7, <1>8
<1>. QED
  BY <1>1, <1>2, <1>4, <1>9 DEF Associates

LEMMA SingleFacts ==
    ASSUME NEW S, NEW s \in Seq(S), Len(s) <= 1, s # <<>>
    PROVE  \E x \in S : s = <<x>>
<1>1. Len(s) = 1
  <2>1. PICK n \in Nat : n = Len(s) /\ n # 0
    OBVIOUS
  <2>2. n <= 1
    BY <2>1
  <2>. QED
    BY <2>1, <2>2
<1>2. s[1] \in S
  BY <1>1
<1>3. s = <<s[1]>>
  BY <1>1
<1>. QED
  BY <1>2, <1>3

LEMMA AfterNothing ==
    ASSUME NEW d \in Dies, Die[d].type \notin Dies, NEW ts \in Seq(TypeName), NEW n
    PROVE  After([types |-> ts, size |-> n], d) = [types |-> ts, size |-> n]
<1>1. Chain[d] = <<>>
  BY ChainFacts
<1>2. ts \o <<>> = ts
  BY ConcatFacts
<1>. QED
  BY <1>1, <1>2 DEF After

(* parameter_handle_type for a type that is no function. *)
LEMMA AfterLink ==
    ASSUME NEW d \in Dies, NEW t \in Dies, t = Die[d].type, Die[t].tag # "subroutine_type",
           NEW v, v.types \in Seq(TypeName)
    PROVE  /\ After(v, d) = After(Linked(v, t), t)
           /\ Die[t].type \notin Dies => After(Linked(v, t), t) = Linked(v, t)
<1>1. PICK a \in Seq(TypeName), c \in Seq(TypeName), ts \in Seq(TypeName) :
         a = Adds(t) /\ c = Chain[t] /\ ts = v.types
  BY AddsSeq, ChainFacts
<1>2. Chain[d] = (<<>> \o a) \o c
  BY <1>1, ChainFacts DEF Twice
<1>3. ts \o Chain[d] = (ts \o a) \o c
  <2>1. Associates(ts, a, c) /\ <<>> \o a = a
    BY ConcatFacts
  <2>. QED
    BY <1>2, <2>1 DEF Associates
<1>4. End[d] = End[t] /\ (Die[t].type \notin Dies => End[t] = t)
  BY EndFacts
<1>5. Linked(v, t) = [types |-> ts \o a, size |-> Size(t)] /\ ts \o a \in Seq(TypeName)
  BY <1>1, ConcatType DEF Linked
<1>6. PICK tsa \in Seq(TypeName) : tsa = ts \o a /\ Linked(v, t) = [types |-> tsa, size |-> Size(t)]
  BY <1>5
<1>7. Die[t].type \notin Dies => After([types |-> tsa, size |-> Size(t)], t)
                                = [types |-> tsa, size |-> Size(t)]
  BY AfterNothing
<1>8. After(v, d) = [types |-> tsa \o c, size |-> Size(End[t])]
  BY <1>1, <1>3, <1>4, <1>6 DEF After
<1>9. After(Linked(v, t), t) = [types |-> tsa \o c, size |-> Size(End[t])]
  <2>1. PICK m : m = IF Die[t].type \in Dies THEN Size(End[t]) ELSE Size(t)
    OBVIOUS
  <2>2. After([types |-> tsa, size |-> Size(t)], t) = [types |-> tsa \o c, size |-> m]
    BY <1>1, <2>1 DEF After
  <2>. QED
    BY <1>4, <1>6, <2>1, <2>2
<1>. QED
  BY <1>6, <1>7, <1>8, <1>9

(* handle_subroutine: its return type, its own type, and its return type    *)
(* again.                                                                   *)
LEMMA AfterSubroutine ==
    ASSUME NEW d \in Dies, NEW t \in Dies, t = Die[d].type, Die[t].tag = "subroutine_type",
           NEW v, v.types \in Seq(TypeName), NEW w, w = [types |-> v.types, size |-> Size(t)]
    PROVE  After(v, d) = After(With(After(w, t), t), t)
<1>1. PICK a \in Seq(TypeName), c \in Seq(TypeName), ts \in Seq(TypeName) :
         a = Adds(t) /\ c = Chain[t] /\ ts = v.types
  BY AddsSeq, ChainFacts
<1>2. Chain[d] = (c \o a) \o c
  BY <1>1, ChainFacts DEF Twice
<1>3. PICK ca \in Seq(TypeName), tc \in Seq(TypeName) : ca = c \o a /\ tc = ts \o c
  BY ConcatType
<1>4. ts \o (ca \o c) = (ts \o ca) \o c /\ ts \o ca = tc \o a
  <2>1. Associates(ts, ca, c) /\ Associates(ts, c, a)
    BY ConcatFacts, Zenon
  <2>2. ts \o (ca \o c) = (ts \o ca) \o c
    BY <2>1 DEF Associates
  <2>3. ts \o ca = tc \o a
    BY <1>3, <2>1 DEF Associates
  <2>. QED
    BY <2>2, <2>3
<1>5. ts \o Chain[d] = (tc \o a) \o c
  BY <1>2, <1>3, <1>4
<1>6. End[d] = End[t] /\ (Die[t].type \notin Dies => End[t] = t)
  BY EndFacts
<1>7. After(v, d) = [types |-> (tc \o a) \o c, size |-> Size(End[t])]
  BY <1>1, <1>5, <1>6 DEF After
<1>8. PICK m : m = IF Die[t].type \in Dies THEN Size(End[t]) ELSE Size(t)
  OBVIOUS
<1>9. After(w, t) = [types |-> tc, size |-> m]
  BY <1>1, <1>3, <1>8 DEF After
<1>10. With([types |-> tc, size |-> m], t) = [types |-> tc \o a, size |-> m]
  BY <1>1 DEF With
<1>11. m = Size(End[t])
  BY <1>6, <1>8
<1>12. After([types |-> tc \o a, size |-> m], t) = [types |-> (tc \o a) \o c, size |-> m]
  BY <1>1, <1>11 DEF After
<1>. QED
  BY <1>7, <1>9, <1>10, <1>11, <1>12

(* What parameter_add_type leaves of the parameter. *)
LEMMA AddTypesView ==
    ASSUME NEW p \in ParamType, NEW t \in Dies
    PROVE  /\ AddTypes(p, Adds(t)).die = p.die
           /\ View(AddTypes(p, Adds(t))) = With(View(p), t)
<1>1. p.types \in Seq(TypeName)
  BY DEF ParamType, TypeName
<1>2. CASE Adds(t) = <<>>
  BY <1>1, <1>2 DEF AddTypes, View, With
<1>3. CASE Adds(t) # <<>>
  <2>1. PICK x \in TypeName : Adds(t) = <<x>>
    BY <1>3, AddsSeq, SingleFacts
  <2>2. p.types \o <<x>> = Append(p.types, x)
    BY <1>1
  <2>3. AddTypes(p, Adds(t)) = AddType(p, x)
    BY <2>1 DEF AddTypes
  <2>4. AddType(p, x).types = Append(p.types, x) /\ AddType(p, x).size = p.size
        /\ AddType(p, x).die = p.die
    BY DEF AddType, ParamType
  <2>. QED
    BY <2>1, <2>2, <2>3, <2>4 DEF View, With
<1>. QED
  BY <1>2, <1>3

LEMMA GoalIs ==
    ASSUME NEW d \in Dies, Die[d].type # None \/ Die[d].tag # "subprogram", NEW p, p.die = d
    PROVE  Goal(p) = After(Empty, d) /\ d # None
BY NoneAssumption DEF Goal

LEMMA GoalSame == ASSUME NEW p, NEW q, q.die = p.die PROVE Goal(q) = Goal(p)
BY DEF Goal

Tasks == IF phase = "type" THEN frames ELSE <<>>

CInv ==
    /\ Completes(Tasks, obj)
    /\ \A o \in Objs \ live : obj[o] = Fresh

(* A call goes on as another one for the same parameter, or returns. *)
LEMMA Replaces ==
    ASSUME NEW fr \in Seq(AnyFrame), fr # <<>>, NEW ob \in [Objs -> ParamType], Completes(fr, ob),
           NEW q \in Objs, q = fr[1].param, NEW r \in ParamType, r.die = ob[q].die,
           NEW f \in AnyFrame, f.param = q, Finish(f, View(r)) = Finish(fr[1], View(ob[q]))
    PROVE  Completes(<<f>> \o Tail(fr), [ob EXCEPT ![q] = r])
<1>1. PICK v : v = Finish(fr[1], View(ob[q])) /\ v = [types |-> v.types, size |-> v.size]
  BY DEF Finish, After
<1>2. PICK p : p = [ob[q] EXCEPT !.types = v.types, !.size = v.size]
  OBVIOUS
<1>3. p.die = ob[q].die /\ View(p) = v
  BY <1>1, <1>2 DEF View, ParamType
<1>4. PICK ob1 : ob1 = [ob EXCEPT ![q] = p]
  OBVIOUS
<1>5. Does(fr[1], ob, ob1)
  BY <1>1, <1>3, <1>4, GoalSame DEF Does
<1>6. Completes(Tail(fr), ob1) /\ Tail(fr) \in Seq(AnyFrame)
  BY <1>5, PopCompletes
<1>7. PICK ob2 : ob2 = [ob EXCEPT ![q] = r]
  OBVIOUS
<1>8. Does(f, ob2, ob1)
  BY <1>1, <1>3, <1>4, <1>7, GoalSame DEF Does
<1>9. Completes(<<f>> \o Tail(fr), ob2)
  <2>1. PICK rest \in Seq(AnyFrame) : rest = Tail(fr) /\ Completes(rest, ob1)
    BY <1>6
  <2>2. PICK s : IsCons(s, f, rest)
    BY ConsFacts, Zenon
  <2>3. Completes(s, ob2)
    BY <1>8, <2>1, <2>2, PushCompletes
  <2>. QED
    BY <2>1, <2>2, <2>3 DEF IsCons
<1>. QED
  BY <1>7, <1>9

LEMMA Returns ==
    ASSUME NEW fr \in Seq(AnyFrame), fr # <<>>, NEW ob \in [Objs -> ParamType], Completes(fr, ob),
           NEW q \in Objs, q = fr[1].param, NEW r \in ParamType, r.die = ob[q].die,
           View(r) = Finish(fr[1], View(ob[q]))
    PROVE  Completes(Tail(fr), [ob EXCEPT ![q] = r])
<1>1. PICK ob1 : ob1 = [ob EXCEPT ![q] = r]
  OBVIOUS
<1>2. Does(fr[1], ob, ob1)
  BY <1>1, GoalSame DEF Does
<1>3. Completes(Tail(fr), ob1)
  BY <1>2, PopCompletes
<1>. QED
  BY <1>1, <1>3

(* Only other fields than the types and the size change. *)
LEMMA SameViews ==
    ASSUME NEW fr \in Seq(AnyFrame), NEW ob, Completes(fr, ob), NEW ob2,
           \A o \in Objs : ob2[o].die = ob[o].die /\ View(ob2[o]) = View(ob[o])
    PROVE  Completes(fr, ob2)
<1>1. PICK n : n \notin Objs /\ \A i \in 1 .. Len(fr) : fr[i].param # n
  <2>1. PICK n : n = Objs \cup {{}}
    OBVIOUS
  <2>2. \A i \in 1 .. Len(fr) : fr[i].param \in Objs
    <3>1. \A i \in 1 .. Len(fr) : fr[i] \in AnyFrame
      OBVIOUS
    <3>. QED
      BY <3>1 DEF AnyFrame
  <2>3. None \notin Objs
    BY NoneNotObj
  <2>. QED
    BY <2>2, <2>3
<1>2. Gets(n, ob, ob2)
  BY <1>1, GoalSame DEF Gets
<1>. QED
  BY <1>1, <1>2, OthersComplete

LEMMA TaskFacts ==
    ASSUME OInv, phase = "type"
    PROVE  /\ frames \in Seq(AnyFrame) /\ Tasks = frames
           /\ \A i \in 1 .. Len(frames) : frames[i].param \in live
           /\ frames # <<>> => /\ Top \in AnyFrame /\ Caller \in Seq(AnyFrame)
                               /\ Top = frames[1] /\ Caller = Tail(frames)
<1>1. TypeFrame \subseteq AnyFrame
  BY DEF TypeFrame, AnyFrame, OInv, Types
<1>2. frames \in Seq(TypeFrame)
  BY DEF OInv, Calls
<1>3. frames \in Seq(AnyFrame)
  BY <1>1, <1>2, SeqSubset
<1>4. \A i \in 1 .. Len(frames) : frames[i] \in TypeFrame
  BY <1>2
<1>5. \A i \in 1 .. Len(frames) : frames[i].param \in live
  BY <1>4 DEF TypeFrame
<1>6. frames # <<>> => /\ Top \in AnyFrame /\ Caller \in Seq(AnyFrame)
                       /\ Top = frames[1] /\ Caller = Tail(frames)
  BY <1>3 DEF Top, Caller
<1>. QED
  BY <1>3, <1>5, <1>6 DEF Tasks

LEMMA FramesAre ==
    ASSUME NEW p \in Objs, NEW d \in Dies
    PROVE  /\ TypeCall(p, d) \in AnyFrame /\ TypeCall(p, d).param = p
           /\ \A v : Finish(TypeCall(p, d), v) = After(v, d)
           /\ \A n \in Nat, c \in Objs \cup {None} :
                 /\ ArgsCall(p, d, n, c) \in AnyFrame /\ ArgsCall(p, d, n, c).param = p
                 /\ \A v : Finish(ArgsCall(p, d, n, c), v) = After(With(v, d), d)
BY DEF TypeCall, ArgsCall, AnyFrame, Finish

LEMMA TypeFailsCompletes == ASSUME OInv, CInv, TypeFails PROVE CInv'
<1>1. /\ phase = "type" /\ phase' = "type" /\ frames # <<>> /\ Top.op = "type"
      /\ Top.die \in Dies /\ Die[Top.die].type \notin Dies /\ obj' = obj /\ live' = live
      /\ frames' = Caller
  BY TopType, NoneNotObj DEF TypeFails, Typing, Running, Top, OInv
<1>2. PICK fr \in Seq(AnyFrame) : fr = frames /\ Top = fr[1] /\ Caller = Tail(fr) /\ Tasks = fr
  BY <1>1, TaskFacts
<1>3. PICK q \in Objs : q = fr[1].param
  BY <1>1, <1>2, TopType DEF OInv, Types
<1>4. PICK ob \in [Objs -> ParamType] : ob = obj /\ Completes(fr, ob)
  BY <1>2 DEF OInv, Types, CInv
<1>5. Finish(fr[1], View(ob[q])) = View(ob[q])
  <2>1. ob[q].types \in Seq(TypeName)
    BY DEF ParamType, TypeName
  <2>. QED
    BY <1>1, <1>2, <2>1, AfterNothing DEF Finish, View
<1>6. Completes(Tail(fr), [ob EXCEPT ![q] = ob[q]])
  BY <1>1, <1>2, <1>3, <1>4, <1>5, Returns
<1>7. Completes(Tail(fr), ob)
  BY <1>6
<1>. QED
  BY <1>1, <1>2, <1>4, <1>7 DEF CInv, Tasks

(* The end of parameter_handle_type, with the type t. *)
LEMMA GoOnCompletes ==
    ASSUME OInv, phase = "type", frames # <<>>, NEW ob \in [Objs -> ParamType],
           Completes(frames, ob), NEW q \in Objs, q = Top.param, NEW t \in Dies,
           NEW r \in ParamType, r.die = ob[q].die,
           Finish(Top, View(ob[q])) = After(View(r), t),
           Die[t].type \notin Dies => After(View(r), t) = View(r)
    PROVE  Completes(GoOn(q, t), [ob EXCEPT ![q] = r])
<1>1. PICK fr \in Seq(AnyFrame) : fr = frames /\ fr # <<>> /\ Top = fr[1] /\ Caller = Tail(fr)
  BY TaskFacts
<1>2. CASE Die[t].type = None
  <2>1. Die[t].type \notin Dies
    BY <1>2, NoneNotObj
  <2>2. GoOn(q, t) = Tail(fr)
    <3>1. Tail(fr) \in Seq(AnyFrame) /\ <<>> \o Tail(fr) = Tail(fr)
      BY <1>1
    <3>. QED
      BY <1>1, <1>2, <3>1 DEF GoOn
  <2>3. View(r) = Finish(fr[1], View(ob[q]))
    BY <1>1, <2>1
  <2>4. Completes(Tail(fr), [ob EXCEPT ![q] = r])
    BY <1>1, <2>3, Returns
  <2>. QED
    BY <2>2, <2>4
<1>3. CASE Die[t].type # None
  <2>1. GoOn(q, t) = <<TypeCall(q, t)>> \o Tail(fr)
    BY <1>1, <1>3 DEF GoOn
  <2>2. PICK f \in AnyFrame : f = TypeCall(q, t) /\ f.param = q /\ Finish(f, View(r)) = After(View(r), t)
    BY FramesAre
  <2>3. Finish(f, View(r)) = Finish(fr[1], View(ob[q]))
    BY <1>1, <2>2
  <2>4. Completes(<<f>> \o Tail(fr), [ob EXCEPT ![q] = r])
    BY <1>1, <2>2, <2>3, Replaces
  <2>. QED
    BY <2>1, <2>2, <2>4
<1>. QED
  BY <1>2, <1>3

LEMMA TypeLinkCompletes == ASSUME OInv, CInv, TypeLink PROVE CInv'
<1>1. /\ phase = "type" /\ phase' = "type" /\ frames # <<>> /\ Top.op = "type"
      /\ Top.die \in Dies /\ live' = live /\ Top.param \in live
  BY TopType DEF TypeLink, Typing, Running, Top, OInv
<1>2. PICK fr \in Seq(AnyFrame) : fr = frames /\ Top = fr[1] /\ Caller = Tail(fr) /\ Tasks = fr
  BY <1>1, TaskFacts
<1>3. PICK q \in Objs, d \in Dies, t \in Dies :
         /\ q = fr[1].param /\ d = fr[1].die /\ t = Die[d].type /\ Die[t].tag # "subroutine_type"
         /\ obj' = [obj EXCEPT ![q] = AddTypes([@ EXCEPT !.size = Size(t)], Adds(t))]
         /\ frames' = GoOn(q, t)
  BY <1>1, <1>2 DEF TypeLink, OInv, Types
<1>4. PICK ob \in [Objs -> ParamType] : ob = obj /\ Completes(fr, ob)
  BY <1>2 DEF OInv, Types, CInv
<1>5. PICK p \in ParamType : /\ p = [ob[q] EXCEPT !.size = Size(t)] /\ p.size = Size(t)
                             /\ p.types = ob[q].types /\ p.die = ob[q].die
  <2>1. PICK n \in Nat : n = Size(t)
    BY SizeType
  <2>2. PICK p : p = [ob[q] EXCEPT !.size = n]
    OBVIOUS
  <2>3. p \in ParamType /\ p.size = n /\ p.types = ob[q].types /\ p.die = ob[q].die
    BY <2>2 DEF ParamType
  <2>. QED
    BY <2>1, <2>2, <2>3
<1>6. PICK r \in ParamType : r = AddTypes(p, Adds(t))
  BY AddTypesType
<1>7. r.die = ob[q].die /\ View(r) = Linked(View(ob[q]), t)
  <2>1. r.die = p.die /\ View(r) = With(View(p), t)
    BY <1>6, AddTypesView
  <2>. QED
    BY <1>5, <2>1 DEF With, Linked, View
<1>8. View(ob[q]).types \in Seq(TypeName)
  BY DEF View, ParamType, TypeName
<1>9. Finish(fr[1], View(ob[q])) = After(View(ob[q]), d)
  BY <1>1, <1>2, <1>3 DEF Finish
<1>10. /\ After(View(ob[q]), d) = After(View(r), t)
       /\ Die[t].type \notin Dies => After(View(r), t) = View(r)
  BY <1>3, <1>7, <1>8, AfterLink
<1>11. obj' = [ob EXCEPT ![q] = r]
  BY <1>3, <1>4, <1>5, <1>6
<1>12. Completes(frames', obj')
  <2>1. Completes(GoOn(q, t), [ob EXCEPT ![q] = r])
    <3>1. q = Top.param /\ Finish(Top, View(ob[q])) = After(View(r), t)
      BY <1>2, <1>3, <1>9, <1>10
    <3>2. Completes(frames, ob) /\ r.die = ob[q].die
      BY <1>2, <1>4, <1>7
    <3>. QED
      BY <1>1, <1>10, <3>1, <3>2, GoOnCompletes
  <2>. QED
    BY <1>3, <1>11, <2>1
<1>13. \A o \in Objs \ live' : obj'[o] = Fresh
  BY <1>1, <1>2, <1>3, <1>11, <1>4 DEF CInv
<1>. QED
  BY <1>1, <1>12, <1>13 DEF CInv, Tasks

LEMMA ArgsEndCompletes == ASSUME OInv, CInv, ArgsEnd PROVE CInv'
<1>1. /\ phase = "type" /\ phase' = "type" /\ frames # <<>> /\ Top.op = "args"
      /\ Top.die \in Dies /\ live' = live /\ Top.param \in live
  BY TopType DEF ArgsEnd, Typing, Running, Top, OInv
<1>2. PICK q \in Objs, t \in Dies :
         /\ q = Top.param /\ q \in live /\ t = Top.die
         /\ obj' = [obj EXCEPT ![q] = AddTypes(@, Adds(t))]
         /\ frames' = GoOn(q, t)
  BY <1>1 DEF ArgsEnd, OInv, Types
<1>3. PICK ob \in [Objs -> ParamType] : ob = obj /\ Completes(frames, ob)
  BY <1>1, TaskFacts DEF OInv, Types, CInv
<1>4. PICK r \in ParamType : r = AddTypes(ob[q], Adds(t)) /\ r.die = ob[q].die
                             /\ View(r) = With(View(ob[q]), t)
  BY AddTypesType, AddTypesView
<1>5. Finish(Top, View(ob[q])) = After(View(r), t)
  BY <1>1, <1>2, <1>4 DEF Finish
<1>6. Die[t].type \notin Dies => After(View(r), t) = View(r)
  <2>1. PICK ts, n : ts \in Seq(TypeName) /\ ts = View(r).types /\ n = View(r).size
    <3>1. View(r).types \in Seq(TypeName)
      BY DEF View, ParamType, TypeName
    <3>. QED
      BY <3>1
  <2>2. View(r) = [types |-> ts, size |-> n]
    BY <2>1 DEF View
  <2>. QED
    BY <2>1, <2>2, AfterNothing
<1>7. Completes(GoOn(q, t), [ob EXCEPT ![q] = r])
  BY <1>1, <1>2, <1>3, <1>4, <1>5, <1>6, GoOnCompletes
<1>8. obj' = [ob EXCEPT ![q] = r]
  BY <1>2, <1>3, <1>4
<1>9. Completes(frames', obj')
  BY <1>2, <1>7, <1>8
<1>10. \A o \in Objs \ live' : obj'[o] = Fresh
  BY <1>1, <1>2, <1>3, <1>8 DEF CInv
<1>. QED
  BY <1>1, <1>9, <1>10 DEF CInv, Tasks

(* A turn of the loop over the arguments adds no type. *)
LEMMA StepCompletes ==
    ASSUME OInv, CInv, phase = "type", Running("args"), NEW c \in Objs \cup {None},
           NEW ob \in [Objs -> ParamType],
           \A o \in Objs : ob[o].die = obj[o].die /\ View(ob[o]) = View(obj[o])
    PROVE  /\ Completes(Step(c) \o Caller, ob)
           /\ Step(c) \o Caller \in Seq(AnyFrame)
           /\ \A i \in 1 .. Len(Step(c) \o Caller) : (Step(c) \o Caller)[i].param \in live
<1>1. /\ frames # <<>> /\ Top.op = "args" /\ Top.param \in live /\ Top.param \in Objs
      /\ Top.die \in Dies /\ Top.next \in Nat
  BY TopType DEF Running, Top, OInv, Types
<1>2. PICK fr \in Seq(AnyFrame) : /\ fr = frames /\ fr # <<>> /\ Top = fr[1] /\ Caller = Tail(fr)
                                  /\ Tasks = fr
                                  /\ \A i \in 1 .. Len(fr) : fr[i].param \in live
  BY <1>1, TaskFacts
<1>3. Completes(fr, ob)
  BY <1>2, SameViews DEF CInv
<1>4. PICK n \in Nat : n = IF c = None THEN Top.next + 1 ELSE Top.next
  BY <1>1
<1>5. PICK f : f = [Top EXCEPT !.child = c, !.next = n]
  OBVIOUS
<1>6. Top \in [op : {"args"}, param : Objs, die : Dies, next : Nat, child : Objs \cup {None}]
  BY <1>1, TaskFacts DEF AnyFrame
<1>7. f \in AnyFrame /\ f.param = Top.param /\ f.op = Top.op /\ f.die = Top.die
  BY <1>5, <1>6 DEF AnyFrame
<1>8. Step(c) = <<f>>
  BY <1>4, <1>5, <1>6 DEF Step
<1>9. PICK q \in Objs : q = fr[1].param
  BY <1>1, <1>2
<1>10. Finish(f, View(ob[q])) = Finish(fr[1], View(ob[q]))
  BY <1>2, <1>7 DEF Finish
<1>11. Completes(<<f>> \o Tail(fr), [ob EXCEPT ![q] = ob[q]])
  BY <1>2, <1>3, <1>7, <1>9, <1>10, Replaces
<1>12. [ob EXCEPT ![q] = ob[q]] = ob
  OBVIOUS
<1>13. PICK rest \in Seq(AnyFrame) : rest = Tail(fr) /\ Len(rest) = Len(fr) - 1
                                  /\ \A i \in 1 .. Len(fr) - 1 : rest[i] = fr[i + 1]
  <2>1. PICK k \in Nat : k = Len(fr) - 1 /\ Len(fr) >= 1
    <3>1. PICK m \in Nat : m = Len(fr) /\ m # 0
      BY <1>2
    <3>2. m - 1 \in Nat /\ m >= 1
      BY <3>1
    <3>. QED
      BY <3>1, <3>2
  <2>2. PICK s : s = [i \in 1 .. k |-> fr[i + 1]]
    OBVIOUS
  <2>3. s = Tail(fr)
    BY <2>1, <2>2, TailFacts
  <2>4. Tail(fr) \in Seq(AnyFrame) /\ Len(s) = k
    BY <1>2, <2>1, <2>2
  <2>. QED
    BY <2>1, <2>2, <2>3, <2>4
<1>14. PICK s \in Seq(AnyFrame) : IsCons(s, f, rest)
  BY <1>7, ConsFacts, Zenon
<1>15. \A i \in 1 .. Len(s) : s[i].param \in live
  <2> SUFFICES ASSUME NEW i \in 1 .. Len(s) PROVE s[i].param \in live
    OBVIOUS
  <2>1. CASE i = 1
    BY <1>1, <1>7, <1>14, <2>1 DEF IsCons
  <2>2. CASE i # 1
    <3>1. i \in 1 .. Len(fr) /\ i \in 2 .. Len(rest) + 1 /\ i - 1 \in 1 .. Len(fr) - 1
      BY <1>13, <1>14, <2>2 DEF IsCons
    <3>2. s[i] = rest[i - 1] /\ rest[i - 1] = fr[(i - 1) + 1] /\ (i - 1) + 1 = i
      BY <1>13, <1>14, <3>1 DEF IsCons
    <3>. QED
      BY <1>2, <3>1, <3>2
  <2>. QED
    BY <2>1, <2>2
<1>16. s = Step(c) \o Caller
  BY <1>2, <1>8, <1>13, <1>14 DEF IsCons
<1>. QED
  BY <1>8, <1>11, <1>12, <1>13, <1>14, <1>15, <1>16 DEF IsCons

LEMMA ArgSkipCompletes == ASSUME OInv, CInv, ArgSkip PROVE CInv'
<1>1. /\ phase = "type" /\ phase' = "type" /\ Running("args")
      /\ obj' = obj /\ live' = live /\ frames' = Step(None) \o Caller
  BY DEF ArgSkip, NextArg, Typing
<1>2. PICK ob \in [Objs -> ParamType] : ob = obj
  BY DEF OInv, Types
<1>3. Completes(frames', obj')
  BY <1>1, <1>2, StepCompletes
<1>. QED
  BY <1>1, <1>3 DEF CInv, Tasks

LEMMA ArgDoneCompletes == ASSUME OInv, CInv, ArgDone PROVE CInv'
<1>1. /\ phase = "type" /\ phase' = "type" /\ Running("args") /\ live' = live
      /\ frames' = Step(None) \o Caller /\ Top.child \in live
  BY TopType DEF ArgDone, Typing, Running, Top, OInv
<1>2. PICK f \in SUBSET Flags : obj' = [obj EXCEPT ![Top.child] = Flagged(OrVoid(@), f)]
  BY FlagsAre DEF ArgDone
<1>3. PICK ob \in [Objs -> ParamType] : ob = obj'
  <2>1. OInv'
    BY ArgDoneStep
  <2>. QED
    BY <2>1 DEF OInv, Types
<1>4. \A o \in Objs : ob[o].die = obj[o].die /\ View(ob[o]) = View(obj[o])
  <2>1. \A o \in Objs : obj[o] \in ParamType
    BY DEF OInv, Types
  <2>2. \A p \in ParamType : /\ Flagged(OrVoid(p), f).die = p.die
                             /\ View(Flagged(OrVoid(p), f)) = View(p)
    BY DEF Flagged, OrVoid, View, ParamType
  <2>. QED
    BY <1>2, <1>3, <2>1, <2>2 DEF OInv, Types
<1>5. Completes(Step(None) \o Caller, ob)
  BY <1>1, <1>4, StepCompletes
<1>6. \A o \in Objs \ live' : obj'[o] = Fresh
  BY <1>1, <1>2 DEF CInv, OInv, Types
<1>. QED
  BY <1>1, <1>3, <1>5, <1>6 DEF CInv, Tasks

(* Nothing changes but the children and the location. *)
Alike(p, q) == /\ q.die = p.die /\ q.types = p.types /\ q.size = p.size
               /\ q.type_name = p.type_name /\ q.flags = p.flags /\ q.value = p.value

LEMMA AlikeView == ASSUME NEW p, NEW q, Alike(p, q) PROVE q.die = p.die /\ View(q) = View(p)
BY DEF Alike, View

(* A child that is added with what it should have, next to a call's turn. *)
LEMMA ChildCompletes ==
    ASSUME OInv, CInv, phase = "type", Running("args"), NEW c \in Objs \cup {None},
           NEW n \in Objs, n \notin live, NEW ob, Gets(n, obj, ob)
    PROVE  Completes(Step(c) \o Caller, ob) /\ Step(c) \o Caller \in Seq(AnyFrame)
<1>1. PICK old \in [Objs -> ParamType] : old = obj
  BY DEF OInv, Types
<1>2. PICK fr \in Seq(AnyFrame) : /\ fr = Step(c) \o Caller /\ Completes(fr, old)
                                  /\ \A i \in 1 .. Len(fr) : fr[i].param \in live
  BY <1>1, StepCompletes
<1>3. \A i \in 1 .. Len(fr) : fr[i].param # n
  BY <1>2
<1>5. Completes(fr, ob)
  BY <1>1, <1>2, <1>3, OthersComplete
<1>. QED
  BY <1>2, <1>5

LEMMA AddChildIs ==
    ASSUME OInv, Running("args"), phase = "type", NEW p, AddChild(p)
    PROVE  \E n \in Objs : /\ n = New /\ n \notin live /\ live' = live \cup {n} /\ obj'[n] = p
                           /\ \A o \in Objs \ {n} : Alike(obj[o], obj'[o])
                           /\ \A o \in Objs \ live' : obj'[o] = obj[o]
<1>1. PICK q \in Objs : q = Top.param /\ q \in live
  BY TopType DEF OInv, Types, Running
<1>2. PICK n \in Objs : n = New /\ n \notin live /\ n # q
  BY <1>1, NewObj DEF AddChild
<1>3. live' = live \cup {n} /\ obj' = [obj EXCEPT ![q].children = Append(@, n), ![n] = p]
  BY <1>1, <1>2 DEF AddChild
<1>4. PICK cs : cs = Append(obj[q].children, n)
  OBVIOUS
<1>5. \A o \in Objs : obj'[o] = IF o = n THEN p
                                ELSE IF o = q THEN [obj[o] EXCEPT !.children = cs] ELSE obj[o]
  BY <1>2, <1>3, <1>4 DEF OInv, Types
<1>6. \A r \in ParamType : Alike(r, [r EXCEPT !.children = cs]) /\ Alike(r, r)
  BY DEF Alike, ParamType
<1>7. \A o \in Objs : obj[o] \in ParamType
  BY DEF OInv, Types
<1>8. \A o \in Objs \ {n} : Alike(obj[o], obj'[o])
  BY <1>5, <1>6, <1>7
<1>9. \A o \in Objs \ live' : obj'[o] = obj[o]
  BY <1>1, <1>3, <1>5
<1>. QED
  BY <1>2, <1>3, <1>5, <1>8, <1>9

LEMMA ArgUnspecifiedCompletes == ASSUME OInv, CInv, ArgUnspecified PROVE CInv'
<1>1. /\ phase = "type" /\ phase' = "type" /\ Running("args")
      /\ frames' = Step(None) \o Caller
  BY DEF ArgUnspecified, NextArg, Typing
<1>2. PICK p : p = [Fresh EXCEPT !.flags = {"UNSPEC"}] /\ AddChild(p)
  BY DEF ArgUnspecified
<1>3. PICK n \in Objs : /\ n \notin live /\ live' = live \cup {n} /\ obj'[n] = p
                        /\ \A o \in Objs \ {n} : Alike(obj[o], obj'[o])
                        /\ \A o \in Objs \ live' : obj'[o] = obj[o]
  BY <1>1, <1>2, AddChildIs
<1>4. View(p) = Goal(p)
  BY <1>2 DEF View, Goal, Fresh, Empty
<1>5. Gets(n, obj, obj')
  BY <1>3, <1>4, AlikeView, GoalSame DEF Gets
<1>6. Completes(frames', obj')
  BY <1>1, <1>3, <1>5, ChildCompletes
<1>7. \A o \in Objs \ live' : obj'[o] = Fresh
  BY <1>3 DEF CInv
<1>. QED
  BY <1>1, <1>6, <1>7 DEF CInv, Tasks

LEMMA ArgFormalCompletes == ASSUME OInv, CInv, ArgFormal PROVE CInv'
<1>1. phase = "type" /\ phase' = "type" /\ Running("args")
  BY DEF ArgFormal, NextArg, Typing
<1>2. PICK d \in Dies : d = ArgDies[Top.next] /\ Die[d].tag = "formal_parameter"
  <2>1. Top.next \in Nat \ {0} /\ Top.next <= Len(ArgDies) /\ Top.die \in Dies
    BY <1>1, TopType DEF ArgFormal, NextArg, OInv, Running, Top
  <2>. QED
    BY <2>1, DieAssumption DEF ArgDies, ArgFormal
<1>3. PICK p : p = [Fresh EXCEPT !.die = d] /\ AddChild(p)
  BY <1>2 DEF ArgFormal
<1>4. PICK n \in Objs : /\ n = New /\ n \notin live /\ live' = live \cup {n} /\ obj'[n] = p
                        /\ \A o \in Objs \ {n} : Alike(obj[o], obj'[o])
                        /\ \A o \in Objs \ live' : obj'[o] = obj[o]
  BY <1>1, <1>3, AddChildIs
<1>5. View(p) = Empty /\ p.die = d /\ Goal(p) = After(Empty, d)
  <2>1. View(p) = Empty /\ p.die = d
    BY <1>3 DEF View, Fresh, Empty
  <2>. QED
    BY <1>2, <2>1, GoalIs
<1>6. PICK v : View(v) = After(Empty, d) /\ v.die = d
  <2>1. PICK v : v = [die |-> d, types |-> After(Empty, d).types, size |-> After(Empty, d).size]
    OBVIOUS
  <2>2. View(v) = After(Empty, d) /\ v.die = d
    BY <2>1 DEF View, After
  <2>. QED
    BY <2>2
<1>7. Goal(v) = After(Empty, d)
  BY <1>2, <1>6, GoalIs
<1>8. PICK ob : ob = [o \in Objs |-> IF o = n THEN v ELSE obj'[o]]
  OBVIOUS
<1>9. PICK s : s = Step(n) \o Caller /\ s \in Seq(AnyFrame) /\ Completes(s, ob)
  <2>1. Gets(n, obj, ob)
    BY <1>4, <1>6, <1>7, <1>8, AlikeView, GoalSame DEF Gets
  <2>. QED
    BY <1>1, <1>4, <2>1, ChildCompletes
<1>10. PICK f \in AnyFrame : f = TypeCall(n, d) /\ f.param = n /\ \A x : Finish(f, x) = After(x, d)
  BY FramesAre
<1>11. Does(f, obj', ob)
  <2>1. \A o \in Objs : /\ Goal(ob[o]) = Goal(obj'[o])
                        /\ View(ob[o]) = IF f.param = o THEN Finish(f, View(obj'[o]))
                                         ELSE View(obj'[o])
    BY <1>4, <1>5, <1>6, <1>7, <1>8, <1>10
  <2>. QED
    BY <2>1 DEF Does
<1>12. PICK all : IsCons(all, f, s)
  BY <1>9, <1>10, ConsFacts, Zenon
<1>13. Completes(all, obj')
  BY <1>9, <1>10, <1>11, <1>12, PushCompletes
<1>14. all = frames'
  <2>1. all = <<f>> \o s
    BY <1>12 DEF IsCons
  <2>2. frames' = <<f>> \o Step(n) \o Caller
    BY <1>2, <1>4, <1>10 DEF ArgFormal
  <2>3. Step(n) \in Seq(AnyFrame) /\ Caller \in Seq(AnyFrame)
    <3>1. frames # <<>> /\ Caller \in Seq(AnyFrame)
      BY <1>1, TaskFacts DEF Running
    <3>2. PICK g : Step(n) = <<g>>
      BY DEF Step
    <3>3. PICK rest \in Seq(AnyFrame) : rest = Caller
      BY <3>1
    <3>4. (<<g>> \o rest)[1] = g /\ s = <<g>> \o rest /\ Len(s) \in Nat /\ 1 \in 1 .. Len(s)
      BY <1>9, <3>2, <3>3
    <3>5. g \in AnyFrame
      BY <1>9, <3>4
    <3>. QED
      BY <3>1, <3>2, <3>5
  <2>4. PICK a \in Seq(AnyFrame), b \in Seq(AnyFrame), e \in Seq(AnyFrame) :
           a = <<f>> /\ b = Step(n) /\ e = Caller
    <3>1. <<f>> \in Seq(AnyFrame)
      BY <1>10
    <3>. QED
      BY <2>3, <3>1
  <2>5. Associates(a, b, e)
    BY ConcatFacts
  <2>. QED
    BY <1>9, <2>1, <2>2, <2>4, <2>5 DEF Associates
<1>15. \A o \in Objs \ live' : obj'[o] = Fresh
  BY <1>4 DEF CInv
<1>. QED
  BY <1>1, <1>13, <1>14, <1>15 DEF CInv, Tasks

IsPair(f, g, s) == <<f, g>> \o s = <<f>> \o (<<g>> \o s)

LEMMA PairFacts ==
    ASSUME NEW S, NEW f \in S, NEW g \in S, NEW s \in Seq(S)
    PROVE  IsPair(f, g, s)
<1>1. <<f>> \in Seq(S) /\ <<g>> \in Seq(S)
  OBVIOUS
<1>2. PICK a \in Seq(S), b \in Seq(S) : a = <<f>> /\ b = <<g>>
  BY <1>1
<1>3. a \o b = <<f, g>>
  <2>1. PICK l \in Seq(S), r \in Seq(S) : l = <<f, g>> /\ r = a \o b
    <3>1. <<f, g>> \in Seq(S)
      OBVIOUS
    <3>. QED
      BY <3>1, ConcatType
  <2>2. Len(l) = 2 /\ l[1] = f /\ l[2] = g
    BY <2>1
  <2>3. Len(r) = 2 /\ r[1] = f /\ r[2] = g
    BY <1>2, <2>1
  <2>4. l = r
    BY <2>2, <2>3
  <2>. QED
    BY <2>1, <2>4
<1>4. Associates(a, b, s)
  BY ConcatFacts
<1>. QED
  BY <1>2, <1>3, <1>4 DEF Associates, IsPair

LEMMA AfterType ==
    ASSUME NEW d \in Dies, NEW v, v.types \in Seq(TypeName), v.size \in Nat
    PROVE  After(v, d).types \in Seq(TypeName) /\ After(v, d).size \in Nat
<1>1. Chain[d] \in Seq(TypeName) /\ End[d] \in Dies
  BY ChainFacts, EndFacts
<1>2. v.types \o Chain[d] \in Seq(TypeName)
  BY <1>1, ConcatType
<1>3. (IF Die[d].type \in Dies THEN Size(End[d]) ELSE v.size) \in Nat
  BY <1>1, SizeType
<1>. QED
  BY <1>2, <1>3 DEF After

LEMMA TypeSubroutineCompletes == ASSUME OInv, CInv, TypeSubroutine PROVE CInv'
<1>1. /\ phase = "type" /\ phase' = "type" /\ frames # <<>> /\ Top.op = "type" /\ Room
      /\ Top.die \in Dies /\ Top.param \in live
  BY TopType DEF TypeSubroutine, Typing, Running, Top, OInv
<1>2. PICK fr \in Seq(AnyFrame) : fr = frames /\ Top = fr[1] /\ Caller = Tail(fr) /\ Tasks = fr
  BY <1>1, TaskFacts
<1>n. PICK n \in Objs : n = New /\ n \notin live
  BY <1>1, NewObj
<1>3. PICK q \in Objs, d \in Dies, t \in Dies :
         /\ q = fr[1].param /\ q # n /\ d = fr[1].die /\ t = Die[d].type
         /\ Die[t].tag = "subroutine_type" /\ live' = live \cup {n}
         /\ obj' = [obj EXCEPT ![q].size = Size(t), ![q].children = Append(@, n), ![n] = Fresh]
         /\ frames' = <<TypeCall(q, t), ArgsCall(q, t, 0, n)>> \o Tail(fr)
  BY <1>1, <1>2, <1>n DEF TypeSubroutine, OInv, Types
<1>4. PICK ob \in [Objs -> ParamType] : ob = obj /\ Completes(fr, ob) /\ ob[n] = Fresh
  BY <1>2, <1>n DEF OInv, Types, CInv
<1>5. PICK k \in Nat : k = Size(t)
  BY SizeType
<1>6. PICK r : r = [ob[q] EXCEPT !.size = k, !.children = Append(@, n)]
  OBVIOUS
<1>7. /\ \A o \in Objs : obj'[o] = IF o = q THEN r ELSE ob[o]
      /\ \A o \in Objs \ live' : obj'[o] = obj[o]
  <2>1. \A o \in Objs : obj'[o] = IF o = n THEN Fresh ELSE IF o = q THEN r ELSE ob[o]
    BY <1>3, <1>4, <1>5, <1>6
  <2>2. q \in live
    BY <1>1, <1>2, <1>3
  <2>. QED
    BY <1>3, <1>4, <2>1, <2>2
<1>8. PICK w : w = [types |-> View(ob[q]).types, size |-> k]
  OBVIOUS
<1>9. View(r) = w /\ r.die = ob[q].die
  BY <1>6, <1>8 DEF View, ParamType
<1>10. View(ob[q]).types \in Seq(TypeName)
  BY DEF View, ParamType, TypeName
<1>11. PICK z : z = After(w, t)
  OBVIOUS
<1>12. PICK r1 \in ParamType : r1.die = ob[q].die /\ View(r1) = z
  <2>1. z.types \in Seq(TypeName) /\ z.size \in Nat /\ z = [types |-> z.types, size |-> z.size]
    <3>1. z.types \in Seq(TypeName) /\ z.size \in Nat
      BY <1>8, <1>10, <1>11, AfterType
    <3>. QED
      BY <1>11, <3>1 DEF After
  <2>2. PICK r1 : r1 = [ob[q] EXCEPT !.types = z.types, !.size = z.size]
    OBVIOUS
  <2>3. r1 \in ParamType /\ r1.die = ob[q].die /\ View(r1) = z
    BY <2>1, <2>2 DEF ParamType, View, TypeName
  <2>. QED
    BY <2>3
<1>13. PICK g \in AnyFrame : /\ g = ArgsCall(q, t, 0, n) /\ g.param = q
                             /\ Finish(g, View(r1)) = After(With(View(r1), t), t)
  BY FramesAre
<1>14. Finish(g, View(r1)) = Finish(fr[1], View(ob[q]))
  <2>1. After(View(ob[q]), d) = After(With(z, t), t)
    <3>1. PICK v : v = View(ob[q]) /\ v.types \in Seq(TypeName)
      BY <1>10
    <3>2. w = [types |-> v.types, size |-> Size(t)]
      BY <1>5, <1>8, <3>1
    <3>3. t = Die[d].type /\ Die[t].tag = "subroutine_type"
      BY <1>3
    <3>4. After(v, d) = After(With(After(w, t), t), t)
      BY <3>1, <3>2, <3>3, AfterSubroutine
    <3>. QED
      BY <1>11, <3>1, <3>4
  <2>2. Finish(fr[1], View(ob[q])) = After(View(ob[q]), d)
    BY <1>1, <1>2, <1>3 DEF Finish
  <2>. QED
    BY <1>12, <1>13, <2>1, <2>2
<1>15. PICK ob1 : ob1 = [ob EXCEPT ![q] = r1]
  OBVIOUS
<1>16. PICK rest \in Seq(AnyFrame) : rest = Tail(fr)
  BY <1>1, <1>2, TaskFacts
<1>17. Completes(<<g>> \o rest, ob1)
  BY <1>1, <1>2, <1>3, <1>4, <1>12, <1>13, <1>14, <1>15, <1>16, Replaces
<1>18. PICK f \in AnyFrame : f = TypeCall(q, t) /\ f.param = q /\ \A x : Finish(f, x) = After(x, t)
  BY FramesAre
<1>19. Does(f, obj', ob1)
  <2>1. \A o \in Objs : IF o = q THEN obj'[o] = r /\ ob1[o] = r1 ELSE obj'[o] = ob[o] /\ ob1[o] = ob[o]
    BY <1>7, <1>15
  <2>2. Goal(r1) = Goal(r) /\ View(r1) = Finish(f, View(r))
    BY <1>9, <1>11, <1>12, <1>18, GoalSame
  <2>. QED
    BY <1>18, <2>1, <2>2 DEF Does
<1>20. PICK s \in Seq(AnyFrame) : s = <<g>> \o rest /\ <<f, g>> \o rest = <<f>> \o s
  <2>1. PICK s \in Seq(AnyFrame) : IsCons(s, g, rest)
    BY ConsFacts, Zenon
  <2>2. IsPair(f, g, rest)
    BY PairFacts, Zenon
  <2>. QED
    BY <2>1, <2>2 DEF IsCons, IsPair
<1>21. PICK all : IsCons(all, f, s)
  BY ConsFacts, Zenon
<1>22. Completes(all, obj')
  BY <1>17, <1>19, <1>20, <1>21, PushCompletes
<1>23. all = frames'
  BY <1>3, <1>13, <1>16, <1>18, <1>20, <1>21 DEF IsCons
<1>24. \A o \in Objs \ live' : obj'[o] = Fresh
  BY <1>3, <1>7 DEF CInv
<1>. QED
  BY <1>1, <1>22, <1>23, <1>24 DEF CInv, Tasks

(* What the flags say of the types. *)
Shows(p) == p.flags \cap (TypeFlags \ {"CONST"})

(* A parameter is left as it was but for its location and children, or it is*)
(* completed.                                                               *)
Kept(p, q) ==
    /\ q.die = p.die /\ q.types = p.types /\ q.size = p.size /\ q.type_name = p.type_name
    /\ q.value = p.value /\ (HasValue(q) => HasValue(p))
    /\ Shows(q) = Shows(p) /\ ("RETURN" \in p.flags => "RETURN" \in q.flags)

Finished(p, q) ==
    /\ q.die = p.die /\ q.types = p.types /\ q.size = p.size
    /\ q.type_name = OrVoid(p).type_name
    /\ Shows(q) = Shows(p) /\ ("RETURN" \in p.flags => "RETURN" \in q.flags)

Outside ==
    \/ ReturnTyped \/ VariableTyped \/ StartLocation \/ SkipEntry \/ EvaluateEntry \/ EndLocation
    \/ Clear \/ ClearParam \/ ClearChild \/ Free \/ ClearEnd

LEMMA OtherFlags == {"RETURN", "VARIABLE", "UNSPEC", "HAS_VALUE", "INVALID"} \cap TypeFlags = {}
<1>1. \A e \in DOMAIN EncodingFlag :
         EncodingFlag[e] \notin {"RETURN", "VARIABLE", "UNSPEC", "HAS_VALUE", "INVALID"}
  BY DEF EncodingFlag
<1>2. \A t \in DOMAIN TagFlag :
         TagFlag[t] \notin {"RETURN", "VARIABLE", "UNSPEC", "HAS_VALUE", "INVALID"}
  BY DEF TagFlag
<1>. QED
  BY <1>1, <1>2 DEF TypeFlags

LEMMA AlikeKept == ASSUME NEW p, NEW q, Alike(p, q) PROVE Kept(p, q)
BY DEF Alike, Kept, Shows, HasValue

LEMMA KeptItself == \A p : Kept(p, p)
BY DEF Kept

LEMMA FlaggedKept ==
    ASSUME NEW p \in ParamType, NEW f \in SUBSET Flags, f \cap TypeFlags \subseteq {"CONST"}
    PROVE  Finished(p, Flagged(OrVoid(p), f))
<1>1. OrVoid(p) \in ParamType /\ OrVoid(p).flags = p.flags /\ OrVoid(p).types = p.types
      /\ OrVoid(p).size = p.size /\ OrVoid(p).die = p.die
  BY OrVoidType DEF OrVoid, ParamType
<1>2. ASSUME NEW q \in ParamType
      PROVE  /\ Flagged(q, f).flags = q.flags \cup f /\ Flagged(q, f).die = q.die
             /\ Flagged(q, f).types = q.types /\ Flagged(q, f).size = q.size
             /\ Flagged(q, f).type_name = q.type_name
  BY DEF Flagged, ParamType
<1>3. (p.flags \cup f) \cap (TypeFlags \ {"CONST"}) = p.flags \cap (TypeFlags \ {"CONST"})
  OBVIOUS
<1>. QED
  BY <1>1, <1>2, <1>3 DEF Finished, Shows

(* The end of parameter_handle_dwarf *)
LEMMA CompleteIs ==
    ASSUME OInv, phase \in {"type", "locate"}, NEW v \in Value, NEW fl \in SUBSET Flags,
           fl \cap TypeFlags \subseteq {"CONST"}, Complete(v, fl)
    PROVE  /\ param \in Objs /\ Finished(obj[param], obj'[param]) /\ live' = live
           /\ \A o \in Objs \ {param} : obj'[o] = obj[o]
           /\ phase' = "ready" /\ obj'[param].value.bytes = Bytes(obj[param])
<1>1. param \in live /\ param \in Objs /\ obj[param] \in ParamType
  BY DEF OInv, Types
<1>2. PICK f \in SUBSET Flags : /\ obj' = [obj EXCEPT ![param] = WithValue(obj[param], v, f)]
                                /\ f \cap TypeFlags \subseteq {"CONST"}
  <2>1. PICK bad \in BOOLEAN :
           obj' = [obj EXCEPT ![param] = WithValue(obj[param], v,
                     fl \cup IF bad /\ IsPointer(obj[param]) THEN {"INVALID"} ELSE {})]
    BY DEF Complete
  <2>2. PICK i \in SUBSET {"INVALID"} :
           i = IF bad /\ IsPointer(obj[param]) THEN {"INVALID"} ELSE {}
    OBVIOUS
  <2>3. fl \cup i \in SUBSET Flags /\ (fl \cup i) \cap TypeFlags \subseteq {"CONST"}
    BY FlagsAre, OtherFlags
  <2>. QED
    BY <2>1, <2>2, <2>3
<1>3. PICK p \in ParamType : p = obj[param]
  BY <1>1
<1>4. PICK q \in ParamType : q = Flagged(OrVoid(p), f) /\ Finished(p, q)
  <2>1. OrVoid(p) \in ParamType
    BY OrVoidType
  <2>2. Flagged(OrVoid(p), f) \in ParamType
    BY <2>1, FlaggedType
  <2>. QED
    BY <1>2, <2>2, FlaggedKept
<1>5. PICK w : w = [v EXCEPT !.bytes = Bytes(p)] /\ w.bytes = Bytes(p)
  <2>1. PICK w : w = [v EXCEPT !.bytes = Bytes(p)]
    OBVIOUS
  <2>2. w.bytes = Bytes(p)
    BY <2>1 DEF Value
  <2>. QED
    BY <2>1, <2>2
<1>6. PICK r : r = [q EXCEPT !.value = w] /\ Finished(p, r) /\ r.value = w
  <2>1. PICK r : r = [q EXCEPT !.value = w]
    OBVIOUS
  <2>2. r.die = q.die /\ r.types = q.types /\ r.size = q.size /\ r.type_name = q.type_name
        /\ r.flags = q.flags /\ r.value = w
    BY <2>1 DEF ParamType
  <2>. QED
    BY <1>4, <2>1, <2>2 DEF Finished, Shows
<1>7. obj' = [obj EXCEPT ![param] = r]
  BY <1>2, <1>3, <1>4, <1>5, <1>6 DEF WithValue
<1>. QED
  BY <1>1, <1>3, <1>5, <1>6, <1>7 DEF Complete, Returned, OInv, Types

LEMMA OutsideIs ==
    ASSUME OInv, Outside
    PROVE  /\ Tasks = <<>> /\ Tasks' = <<>>
           /\ \A o \in Objs : \/ obj'[o] = Fresh \/ Kept(obj[o], obj'[o])
                              \/ /\ Finished(obj[o], obj'[o])
                                 /\ obj'[o].value.bytes = Bytes(obj[o]) /\ param' = None
           /\ param \in Objs =>
                 \/ param' = param \/ obj'[param] = Fresh \/ Finished(obj[param], obj'[param])
                 \/ "RETURN" \in obj'[param].flags
           /\ param' \in {param, None}
           /\ \A o \in Objs \ live' : obj'[o] = Fresh \/ (o \notin live /\ obj'[o] = obj[o])
<1>1. param \in live \cup {None} /\ live \subseteq Objs /\ \A o \in Objs : obj[o] \in ParamType
  BY DEF OInv, Types
<1>2. CASE ReturnTyped
  <2>1. phase = "type" /\ frames = <<>> /\ phase' = "ready" /\ param' = None
        /\ param \in Objs /\ "RETURN" \in obj[param].flags
    BY <1>2 DEF ReturnTyped, Typed, Returned, OInv, Types
  <2>2. \/ obj' = obj /\ live' = live
        \/ obj' = [obj EXCEPT ![param] = Fresh] /\ live' = live \ {param}
    BY <1>2 DEF ReturnTyped
  <2>3. \A o \in Objs : obj'[o] = Fresh \/ obj'[o] = obj[o]
    BY <1>1, <2>2 DEF OInv, Types
  <2>4. obj'[param] = Fresh \/ obj' = obj
    BY <2>1, <2>2 DEF OInv, Types
  <2>5. \A o \in Objs \ live' : obj'[o] = Fresh \/ (o \notin live /\ obj'[o] = obj[o])
    BY <2>1, <2>2 DEF OInv, Types
  <2>. QED
    BY <2>1, <2>3, <2>4, <2>5, KeptItself DEF Tasks
<1>3. ASSUME phase \in {"type", "locate"}, frames = <<>>, frames' = <<>>,
             NEW v \in Value, NEW fl \in SUBSET Flags, fl \cap TypeFlags \subseteq {"CONST"},
             Complete(v, fl)
      PROVE  /\ Tasks = <<>> /\ Tasks' = <<>>
             /\ \A o \in Objs : \/ obj'[o] = Fresh \/ Kept(obj[o], obj'[o])
                                \/ /\ Finished(obj[o], obj'[o])
                                   /\ obj'[o].value.bytes = Bytes(obj[o]) /\ param' = None
             /\ param \in Objs =>
                   \/ param' = param \/ obj'[param] = Fresh \/ Finished(obj[param], obj'[param])
                   \/ "RETURN" \in obj'[param].flags
             /\ param' \in {param, None}
             /\ \A o \in Objs \ live' : obj'[o] = Fresh \/ (o \notin live /\ obj'[o] = obj[o])
  <2>1. /\ param \in Objs /\ Finished(obj[param], obj'[param]) /\ live' = live
        /\ \A o \in Objs \ {param} : obj'[o] = obj[o]
        /\ phase' = "ready" /\ obj'[param].value.bytes = Bytes(obj[param])
    BY <1>3, CompleteIs
  <2>2. param' = None /\ param \in live
    BY <1>1, <1>3, <2>1, NoneNotObj DEF Complete, Returned
  <2>3. \A o \in Objs : \/ Kept(obj[o], obj'[o])
                        \/ /\ Finished(obj[o], obj'[o])
                           /\ obj'[o].value.bytes = Bytes(obj[o]) /\ param' = None
    BY <2>1, <2>2, KeptItself
  <2>. QED
    BY <1>3, <2>1, <2>2, <2>3 DEF Tasks
<1>4. CASE VariableTyped
  <2>1. phase = "type" /\ frames = <<>> /\ frames' = <<>>
    BY <1>4 DEF VariableTyped, Typed
  <2>2. [Undefined EXCEPT !.of = "const"] \in Value
    BY DEF Undefined, Value
  <2>3. \A fl \in {{}, {"CONST"}, {"CONST", "HAS_VALUE"}} :
           fl \in SUBSET Flags /\ fl \cap TypeFlags \subseteq {"CONST"}
    BY FlagsAre, OtherFlags
  <2>4. PICK v \in Value, fl \in {{}, {"CONST"}, {"CONST", "HAS_VALUE"}} : Complete(v, fl)
    BY <1>4, <2>2, ValuesAre DEF VariableTyped
  <2>. QED
    BY <1>3, <2>1, <2>3, <2>4
<1>5. CASE EndLocation
  <2>1. phase = "locate" /\ frames = <<>> /\ frames' = <<>>
    BY <1>5 DEF EndLocation, OInv, Calls
  <2>2. obj[param].location.value \in Value
    <3>1. param \in Objs
      BY <2>1 DEF OInv, Types
    <3>. QED
      BY <1>1, <3>1 DEF ParamType
  <2>3. \A fl \in {{}, {"HAS_VALUE"}} :
           fl \in SUBSET Flags /\ fl \cap TypeFlags \subseteq {"CONST"}
    BY FlagsAre, OtherFlags
  <2>4. PICK v \in Value, fl \in {{}, {"HAS_VALUE"}} : Complete(v, fl)
    BY <1>5, <2>2, ValuesAre DEF EndLocation
  <2>. QED
    BY <1>3, <2>1, <2>3, <2>4
<1>6. CASE StartLocation \/ SkipEntry \/ EvaluateEntry
  <2>1. /\ phase \in {"type", "locate"} /\ frames = <<>> /\ phase' = "locate" /\ param' = param
        /\ live' = live
    BY <1>6 DEF StartLocation, Typed, SkipEntry, EvaluateEntry, Evaluate, Locating, OInv, Calls
  <2>2. \A o \in Objs : Kept(obj[o], obj'[o])
    <3>1. CASE obj' = obj
      BY <3>1, KeptItself
    <3>2. CASE EvaluateEntry
      <4>1. \E l : obj' = [obj EXCEPT ![param].location = l]
        BY <3>2 DEF EvaluateEntry, Evaluate
      <4>2. PICK l : obj' = [obj EXCEPT ![param].location = l]
        BY <4>1
      <4>3. \A p \in ParamType : Alike(p, [p EXCEPT !.location = l])
        BY DEF Alike, ParamType
      <4>4. \A o \in Objs : Alike(obj[o], obj'[o]) \/ obj'[o] = obj[o]
        BY <1>1, <4>2, <4>3 DEF OInv, Types
      <4>. QED
        BY <4>4, AlikeKept, KeptItself
    <3>. QED
      BY <1>6, <3>1, <3>2 DEF StartLocation, SkipEntry
  <2>3. \A o \in Objs \ live : obj'[o] = obj[o]
    BY <1>1, <1>6, <2>1 DEF StartLocation, SkipEntry, EvaluateEntry, Evaluate, OInv, Types
  <2>. QED
    BY <2>1, <2>2, <2>3 DEF Tasks
<1>7. CASE Clear \/ ClearParam \/ ClearChild \/ Free \/ ClearEnd
  <2>1. /\ phase \in {"ready", "fini"} /\ phase' \in {"ready", "fini"} /\ param' = param
        /\ param = None
    BY <1>7 DEF Clear, ClearParam, ClearChild, Free, ClearEnd, Clearing, OInv, Types
  <2>2. /\ \A o \in Objs : obj'[o] = Fresh \/ Kept(obj[o], obj'[o])
        /\ \A o \in Objs \ live' : obj'[o] = Fresh \/ (o \notin live /\ obj'[o] = obj[o])
    <3>1. CASE Clear \/ ClearParam \/ ClearEnd
      <4>1. obj' = obj /\ live' = live
        BY <3>1 DEF Clear, ClearParam, ClearEnd
      <4>. QED
        BY <4>1, KeptItself
    <3>2. CASE ClearChild
      <4>1. PICK q \in Objs : q = Top.param /\ q \in live
        BY <3>2, FiniTop DEF ClearChild, Clearing
      <4>2. PICK cs : cs = Tail(obj[q].children)
        OBVIOUS
      <4>3. obj' = [obj EXCEPT ![q].children = cs] /\ live' = live
        BY <3>2, <4>1, <4>2 DEF ClearChild
      <4>4. \A p \in ParamType : Alike(p, [p EXCEPT !.children = cs])
        BY DEF Alike, ParamType
      <4>5. \A o \in Objs : Alike(obj[o], obj'[o]) \/ obj'[o] = obj[o]
        BY <1>1, <4>3, <4>4 DEF OInv, Types
      <4>6. \A o \in Objs : Kept(obj[o], obj'[o])
        BY <4>5, AlikeKept, KeptItself
      <4>7. \A o \in Objs \ live' : obj'[o] = obj[o]
        BY <4>1, <4>3 DEF OInv, Types
      <4>. QED
        BY <4>3, <4>6, <4>7
    <3>3. CASE Free
      <4>1. PICK q \in Objs : q = Top.param /\ q \in live
        BY <3>3, FiniTop DEF Free, Clearing
      <4>2. obj' = [obj EXCEPT ![q] = Fresh] /\ live' = live \ {q}
        BY <3>3, <4>1 DEF Free
      <4>3. \A o \in Objs : obj'[o] = IF o = q THEN Fresh ELSE obj[o]
        BY <4>2 DEF OInv, Types
      <4>. QED
        BY <4>2, <4>3, KeptItself
    <3>. QED
      BY <1>7, <3>1, <3>2, <3>3
  <2>. QED
    BY <2>1, <2>2, NoneNotObj DEF Tasks
<1>. QED
  BY <1>2, <1>4, <1>5, <1>6, <1>7 DEF Outside

LEMMA OutsideCompletes == ASSUME OInv, CInv, Outside PROVE CInv'
<1>1. \A o \in Objs : View(obj[o]) = Goal(obj[o])
  BY OutsideIs, NoCalls DEF CInv
<1>2. View(Fresh) = Goal(Fresh)
  BY DEF View, Goal, Fresh, Empty
<1>3. \A o \in Objs :
         obj'[o] = Fresh \/ (obj'[o].die = obj[o].die /\ View(obj'[o]) = View(obj[o]))
  BY OutsideIs DEF Kept, Finished, View
<1>4. \A o \in Objs : View(obj'[o]) = Goal(obj'[o])
  BY <1>1, <1>2, <1>3, GoalSame
<1>5. Completes(<<>>, obj')
  BY <1>4, NoCalls
<1>6. \A o \in Objs \ live' : obj'[o] = Fresh
  BY OutsideIs DEF CInv
<1>. QED
  BY <1>5, <1>6, OutsideIs DEF CInv

(* The flags of a parameter are its types, and those the type name is not   *)
(* promised of.                                                             *)
Kinds(p) == {p.types[i].type : i \in 1 .. Len(p.types)} \ {"CONST"}
FlagsOK(p) == Shows(p) = Kinds(p)
Exempt(p) == "RETURN" \in p.flags \/ p.die = None

Plainly(p) == p.types = <<>> /\ p.size = 0 /\ p.type_name = None
              /\ p.flags \in SUBSET {"RETURN", "VARIABLE", "UNSPEC"}

LEMMA PlainlyOK ==
    ASSUME NEW p, Plainly(p)
    PROVE  View(p) = Empty /\ FlagsOK(p) /\ ~HasValue(p)
<1>4. Shows(p) = {}
  BY OtherFlags DEF Shows, Plainly
<1>5. Kinds(p) = {}
  BY DEF Kinds, Plainly
<1>6. ~HasValue(p)
  BY DEF HasValue, Plainly
<1>7. View(p) = Empty
  BY DEF View, Empty, Plainly
<1>. QED
  BY <1>4, <1>5, <1>6, <1>7 DEF FlagsOK

Bare(e, f) == [Fresh EXCEPT !.die = e, !.flags = f]

LEMMA BareParam ==
    ASSUME NEW e \in Dies, NEW f \in SUBSET {"RETURN", "VARIABLE", "UNSPEC"}
    PROVE  /\ Bare(e, f) \in ParamType /\ Bare(e, f).die = e /\ Bare(e, f).flags = f
           /\ Plainly(Bare(e, f))
<1>p. PICK p : p = Bare(e, f)
  OBVIOUS
<1>1. /\ p.die = e /\ p.flags = f /\ p.types = <<>> /\ p.size = 0 /\ p.type_name = None
  BY <1>p DEF Bare, Fresh
<1>2. f \in SUBSET Flags
  BY FlagsAre
<1>3. p \in ParamType
  BY <1>p, <1>2, FreshType DEF Bare, ParamType
<1>. QED
  BY <1>p, <1>1, <1>3 DEF Plainly

LEMMA AddParamIs ==
    ASSUME OInv, NEW p, AddParam(p)
    PROVE  \E n \in Objs : /\ n = New /\ n \notin live /\ live' = live \cup {n} /\ obj'[n] = p
                           /\ \A o \in Objs \ {n} : obj'[o] = obj[o]
                           /\ phase = "ready" /\ param = None
<1>1. PICK n \in Objs : n = New /\ n \notin live
  BY AddParamRoom, NewObj DEF AddParam
<1>. QED
  BY <1>1 DEF AddParam, OInv, Types

(* A parameter that is added: with all it gets, or before its type.         *)
Given(p) == View(p) = Goal(p) /\ FlagsOK(p) /\ Exempt(p) /\ ~HasValue(p)
Asked(p, d) == /\ View(p) = Empty /\ Goal(p) = After(Empty, d) /\ p.type_name = None
               /\ FlagsOK(p) /\ ~HasValue(p)

LEMMA HandlesAre ==
    ASSUME OInv, HandleDwarf \/ HandleReturn \/ HandleUnspecified
    PROVE  \E n \in Objs :
              /\ n \notin live /\ live' = live \cup {n} /\ phase = "ready" /\ param = None
              /\ \A o \in Objs \ {n} : obj'[o] = obj[o]
              /\ \/ Given(obj'[n]) /\ phase' = "ready" /\ param' = None
                 \/ \E d \in Dies : /\ Asked(obj'[n], d) /\ phase' = "type" /\ param' = n
                                    /\ frames' = <<TypeCall(n, d)>>
<1>1. CASE HandleDwarf
  <2>1. PICK d \in Dies :
           /\ Die[d].tag \in {"variable", "formal_parameter"}
           /\ AddParam([Fresh EXCEPT !.die = d,
                          !.flags = IF Die[d].tag = "variable" THEN {"VARIABLE"} ELSE {}])
           /\ Handle(d)
    BY <1>1 DEF HandleDwarf
  <2>2. PICK f \in SUBSET {"RETURN", "VARIABLE", "UNSPEC"} :
           f = IF Die[d].tag = "variable" THEN {"VARIABLE"} ELSE {}
    OBVIOUS
  <2>3. PICK p : p = Bare(d, f) /\ AddParam(p)
    BY <2>1, <2>2 DEF Bare
  <2>4. /\ p.die = d /\ View(p) = Empty /\ p.type_name = None /\ FlagsOK(p) /\ ~HasValue(p)
    <3>1. p.die = d /\ Plainly(p)
      BY <2>3, BareParam
    <3>. QED
      BY <3>1, PlainlyOK DEF Plainly
  <2>5. Asked(p, d)
    BY <2>1, <2>4, GoalIs DEF Asked
  <2>. QED
    BY <2>1, <2>3, <2>5, AddParamIs DEF Handle
<1>2. CASE HandleReturn
  <2>1. PICK d, p :
           /\ d \in Dies /\ Die[d].tag = "subprogram"
           /\ p = Bare(d, {"RETURN"})
           /\ \/ Die[d].type # None /\ AddParam(p) /\ Handle(d)
              \/ Die[d].type = None /\ AddParam(AddType(p, VoidType)) /\ Ready
    BY <1>2 DEF HandleReturn, VoidType, Bare
  <2>2. /\ p.die = d /\ p.flags = {"RETURN"} /\ p.types = <<>> /\ p.type_name = None
        /\ View(p) = Empty /\ FlagsOK(p) /\ ~HasValue(p) /\ p \in ParamType
    BY <2>1, BareParam, PlainlyOK DEF Plainly
  <2>3. CASE Die[d].type # None /\ AddParam(p) /\ Handle(d)
    <3>1. Asked(p, d)
      BY <2>1, <2>2, <2>3, GoalIs DEF Asked
    <3>. QED
      BY <2>1, <2>3, <3>1, AddParamIs DEF Handle
  <2>4. CASE Die[d].type = None /\ AddParam(AddType(p, VoidType)) /\ Ready
    <3>1. PICK q : q = AddType(p, VoidType) /\ AddParam(q)
      BY <2>4
    <3>2. /\ q.die = d /\ q.types = <<VoidType>> /\ q.size = 0 /\ q.flags = {"RETURN", "VOID"}
      <4>1. Append(p.types, VoidType) = <<VoidType>>
        BY <2>2
      <4>2. q.die = p.die /\ q.types = Append(p.types, VoidType) /\ q.size = p.size
            /\ q.flags = p.flags \cup {"VOID"}
        BY <2>2, <3>1 DEF AddType, VoidType, ParamType
      <4>3. p.size = 0
        BY <2>2 DEF View, Empty
      <4>. QED
        BY <2>2, <4>1, <4>2, <4>3
    <3>3. View(q) = Goal(q)
      BY <2>1, <2>4, <3>2, NoneNotObj DEF View, Goal
    <3>4. Shows(q) = {"VOID"}
      BY <3>2, FlagsAre, OtherFlags DEF Shows
    <3>5. Kinds(q) = {"VOID"}
      <4>1. Len(q.types) = 1 /\ q.types[1] = VoidType /\ 1 .. Len(q.types) = {1}
        BY <3>2
      <4>. QED
        BY <4>1 DEF Kinds, VoidType
    <3>6. Given(q)
      BY <3>2, <3>3, <3>4, <3>5 DEF Given, FlagsOK, Exempt, HasValue
    <3>. QED
      BY <2>4, <3>1, <3>6, AddParamIs DEF Ready
  <2>. QED
    BY <2>1, <2>3, <2>4
<1>3. CASE HandleUnspecified
  <2>1. PICK p : p = [Fresh EXCEPT !.flags = {"UNSPEC"}] /\ AddParam(p) /\ Ready
    BY <1>3 DEF HandleUnspecified
  <2>2. p.die = None /\ Plainly(p)
    BY <2>1 DEF Fresh, Plainly
  <2>3. Given(p)
    BY <2>2, PlainlyOK DEF Given, Goal, Exempt
  <2>. QED
    BY <2>1, <2>3, AddParamIs DEF Ready
<1>. QED
  BY <1>1, <1>2, <1>3

LEMMA HandlesComplete ==
    ASSUME OInv, CInv, HandleDwarf \/ HandleReturn \/ HandleUnspecified
    PROVE  CInv'
<1>1. PICK n \in Objs :
         /\ n \notin live /\ live' = live \cup {n} /\ phase = "ready" /\ param = None
         /\ \A o \in Objs \ {n} : obj'[o] = obj[o]
         /\ \/ Given(obj'[n]) /\ phase' = "ready" /\ param' = None
            \/ \E d \in Dies : /\ Asked(obj'[n], d) /\ phase' = "type" /\ param' = n
                               /\ frames' = <<TypeCall(n, d)>>
  BY HandlesAre
<1>2. \A o \in Objs : View(obj[o]) = Goal(obj[o])
  BY <1>1, NoCalls DEF CInv, Tasks
<1>3. \A o \in Objs \ live' : obj'[o] = Fresh
  BY <1>1 DEF CInv
<1>4. CASE Given(obj'[n]) /\ phase' = "ready"
  <2>1. \A o \in Objs : View(obj'[o]) = Goal(obj'[o])
    BY <1>1, <1>2, <1>4 DEF Given
  <2>2. Completes(<<>>, obj')
    BY <2>1, NoCalls
  <2>. QED
    BY <1>3, <1>4, <2>2 DEF CInv, Tasks
<1>5. ASSUME NEW d \in Dies, Asked(obj'[n], d), phase' = "type", frames' = <<TypeCall(n, d)>>
      PROVE  CInv'
  <2>1. PICK v : v.die = obj'[n].die /\ View(v) = Goal(obj'[n])
    <3>1. PICK v : v = [die |-> obj'[n].die, types |-> Goal(obj'[n]).types,
                        size |-> Goal(obj'[n]).size]
      OBVIOUS
    <3>2. View(v) = Goal(obj'[n])
      BY <1>5, <3>1 DEF View, Asked, After
    <3>. QED
      BY <3>1, <3>2
  <2>2. PICK ob : ob = [o \in Objs |-> IF o = n THEN v ELSE obj'[o]]
    OBVIOUS
  <2>3. \A o \in Objs : View(ob[o]) = Goal(ob[o])
    BY <1>1, <1>2, <2>1, <2>2, GoalSame
  <2>4. Completes(<<>>, ob)
    BY <2>3, NoCalls
  <2>5. PICK f \in AnyFrame : f = TypeCall(n, d) /\ f.param = n /\ \A x : Finish(f, x) = After(x, d)
    BY FramesAre
  <2>6. Does(f, obj', ob)
    BY <1>5, <2>1, <2>2, <2>5, GoalSame DEF Does, Asked
  <2>7. <<>> \in Seq(AnyFrame)
    OBVIOUS
  <2>8. PICK s \in Seq(AnyFrame) : IsCons(s, f, <<>>)
    BY <2>7, ConsFacts, Zenon
  <2>9. Completes(s, obj')
    BY <2>4, <2>6, <2>7, <2>8, PushCompletes
  <2>10. s = frames'
    <3>1. s = <<f>> \o <<>>
      BY <2>8 DEF IsCons
    <3>. QED
      BY <1>5, <2>5, <3>1
  <2>. QED
    BY <1>3, <1>5, <2>9, <2>10 DEF CInv, Tasks
<1>. QED
  BY <1>1, <1>4, <1>5

LEMMA InitCInv == Init => CInv
<1> SUFFICES ASSUME Init PROVE CInv
  OBVIOUS
<1>1. \A o \in Objs : obj[o] = Fresh
  BY DEF Init
<1>2. View(Fresh) = Goal(Fresh)
  BY DEF View, Goal, Fresh, Empty
<1>3. Completes(<<>>, obj)
  BY <1>1, <1>2, NoCalls
<1>. QED
  BY <1>1, <1>3 DEF CInv, Tasks, Init

LEMMA NextCInv == OInv /\ CInv /\ [Next]_vars => CInv'
<1> SUFFICES ASSUME OInv, CInv, [Next]_vars PROVE CInv'
  OBVIOUS
<1>1. CASE UNCHANGED vars
  BY <1>1 DEF vars, CInv, Tasks
<1>2. CASE HandleDwarf \/ HandleReturn \/ HandleUnspecified
  BY <1>2, HandlesComplete
<1>3. CASE Outside
  BY <1>3, OutsideCompletes
<1>4. CASE TypeFails \/ TypeLink \/ TypeSubroutine
  BY <1>4, TypeFailsCompletes, TypeLinkCompletes, TypeSubroutineCompletes
<1>5. CASE ArgDone \/ ArgFormal \/ ArgUnspecified \/ ArgSkip \/ ArgsEnd
  BY <1>5, ArgDoneCompletes, ArgFormalCompletes, ArgUnspecifiedCompletes, ArgSkipCompletes,
     ArgsEndCompletes
<1>. QED
  BY <1>1, <1>2, <1>3, <1>4, <1>5 DEF Next, Internal, Outside

-----------------------------------------------------------------------------
(* The type name and the flags *)

Named(ts) == {i \in 1 .. Len(ts) : ts[i].name # None}
Raw(p) == p.type_name = IF Named(p.types) = {} THEN None ELSE FirstName(p.types)
Done(p) == p.type_name = FirstName(p.types)

First(ts, i) == i \in Named(ts) /\ \A j \in Named(ts) : i <= j

LEMMA FirstIs ==
    ASSUME NEW ts, NEW i, First(ts, i), Len(ts) \in Nat
    PROVE  FirstName(ts) = ts[i].name /\ Named(ts) # {}
<1>1. PICK N \in SUBSET Nat : N = Named(ts)
  <2>1. Named(ts) \in SUBSET Nat
    BY DEF Named
  <2>. QED
    BY <2>1
<1>2. i \in N /\ \A j \in N : i <= j
  BY <1>1 DEF First
<1>3. PICK k : k = CHOOSE m \in N : \A j \in N : m <= j
  OBVIOUS
<1>4. k \in N /\ \A j \in N : k <= j
  BY <1>2, <1>3
<1>5. k = i
  BY <1>2, <1>4
<1>6. FirstName(ts) = ts[k].name
  BY <1>1, <1>2, <1>3 DEF FirstName, Named
<1>. QED
  BY <1>1, <1>2, <1>5, <1>6

LEMMA FirstExists ==
    ASSUME NEW ts, Len(ts) \in Nat, Named(ts) # {}
    PROVE  \E i \in 1 .. Len(ts) : First(ts, i) /\ ts[i].name # None
<1>1. Named(ts) \in SUBSET Nat
  BY DEF Named
<1>2. PICK i \in Named(ts) : \A j \in Named(ts) : i <= j
  BY <1>1, MinFacts
<1>3. First(ts, i) /\ i \in 1 .. Len(ts) /\ ts[i].name # None
  BY <1>2 DEF First, Named
<1>. QED
  BY <1>3

LEMMA NoneNamed == ASSUME NEW ts, Named(ts) = {} PROVE FirstName(ts) = "void"
BY DEF Named, FirstName

(* parameter_add_type *)
LEMMA AddTypeName ==
    ASSUME NEW p \in ParamType, NEW x \in TypeName, Raw(p), NEW q, q = AddType(p, x)
    PROVE  Raw(q)
<1>1. PICK ts \in Seq(TypeName) : ts = p.types
  BY DEF ParamType, TypeName
<1>2. PICK us \in Seq(TypeName) : us = Append(ts, x)
  <2>1. Append(ts, x) \in Seq(TypeName)
    BY <1>1
  <2>. QED
    BY <2>1
<1>3. q.types = us /\ q.type_name = IF p.type_name = None THEN x.name ELSE p.type_name
  BY <1>1, <1>2 DEF AddType, ParamType
<1>4. PICK n \in Nat : n = Len(ts)
  BY <1>1
<1>5. /\ Len(us) = n + 1 /\ us[n + 1] = x /\ \A i \in 1 .. n : us[i] = ts[i]
  BY <1>2, <1>4
<1>6. \A i \in Named(us) : i \in Nat /\ (i = n + 1 \/ (i <= n /\ i \in Named(ts)))
  BY <1>4, <1>5 DEF Named
<1>7. CASE Named(ts) = {}
  <2>1. p.type_name = None
    BY <1>1, <1>7 DEF Raw
  <2>2. CASE x.name = None
    <3>1. Named(us) = {}
      <4>1. n + 1 \notin Named(us)
        BY <1>5, <2>2 DEF Named
      <4>. QED
        BY <1>6, <1>7, <4>1
    <3>. QED
      BY <1>3, <2>1, <2>2, <3>1 DEF Raw
  <2>3. CASE x.name # None
    <3>1. First(us, n + 1)
      <4>1. n + 1 \in Named(us)
        BY <1>5, <2>3 DEF Named
      <4>2. \A j \in Named(us) : j = n + 1
        BY <1>6, <1>7
      <4>. QED
        BY <4>1, <4>2 DEF First
    <3>2. FirstName(us) = x.name /\ Named(us) # {}
      BY <1>5, <3>1, FirstIs
    <3>. QED
      BY <1>3, <2>1, <3>2 DEF Raw
  <2>. QED
    BY <2>2, <2>3
<1>8. CASE Named(ts) # {}
  <2>1. PICK i \in 1 .. n : First(ts, i) /\ ts[i].name # None
    BY <1>4, <1>8, FirstExists
  <2>2. p.type_name = ts[i].name
    <3>1. FirstName(ts) = ts[i].name
      BY <1>4, <2>1, FirstIs
    <3>. QED
      BY <1>1, <1>8, <3>1 DEF Raw
  <2>3. First(us, i)
    <3>1. i \in Named(us)
      BY <1>5, <2>1 DEF Named
    <3>2. \A j \in Named(us) : i <= j
      BY <1>6, <2>1 DEF First
    <3>. QED
      BY <3>1, <3>2 DEF First
  <2>4. FirstName(us) = us[i].name /\ Named(us) # {}
    BY <1>5, <2>3, FirstIs
  <2>. QED
    BY <1>3, <1>5, <2>1, <2>2, <2>4 DEF Raw
<1>. QED
  BY <1>7, <1>8

LEMMA AddTypeFlags ==
    ASSUME NEW p \in ParamType, NEW x \in TypeName, FlagsOK(p), NEW q, q = AddType(p, x)
    PROVE  /\ FlagsOK(q) /\ (Exempt(p) => Exempt(q)) /\ (HasValue(q) <=> HasValue(p))
           /\ q.value = p.value
<1>1. PICK ts \in Seq(TypeName) : ts = p.types
  BY DEF ParamType, TypeName
<1>2. PICK us \in Seq(TypeName) : us = Append(ts, x)
  <2>1. Append(ts, x) \in Seq(TypeName)
    BY <1>1
  <2>. QED
    BY <2>1
<1>3. q.types = us /\ q.flags = p.flags \cup {x.type} /\ q.die = p.die /\ q.value = p.value
  BY <1>1, <1>2 DEF AddType, ParamType
<1>4. PICK n \in Nat : n = Len(ts)
  BY <1>1
<1>5. /\ Len(us) = n + 1 /\ us[n + 1] = x /\ \A i \in 1 .. n : us[i] = ts[i]
  BY <1>2, <1>4
<1>6. {us[i].type : i \in 1 .. Len(us)} = {ts[i].type : i \in 1 .. Len(ts)} \cup {x.type}
  <2>1. \A i \in 1 .. n + 1 : i \in 1 .. n \/ i = n + 1
    OBVIOUS
  <2>. QED
    BY <1>4, <1>5, <2>1
<1>7. x.type \in TypeFlags
  BY DEF TypeName
<1>8. FlagsOK(q)
  <2>1. p.flags \cap (TypeFlags \ {"CONST"}) = {ts[i].type : i \in 1 .. Len(ts)} \ {"CONST"}
    BY <1>1 DEF FlagsOK, Shows, Kinds
  <2>2. PICK S, F, T : S = {ts[i].type : i \in 1 .. Len(ts)} /\ F = p.flags /\ T = TypeFlags
    OBVIOUS
  <2>3. (F \cup {x.type}) \cap (T \ {"CONST"}) = (S \cup {x.type}) \ {"CONST"}
    BY <1>7, <2>1, <2>2
  <2>. QED
    <3>1. Shows(q) = (F \cup {x.type}) \cap (T \ {"CONST"})
      BY <1>3, <2>2 DEF Shows
    <3>2. {us[i].type : i \in 1 .. Len(us)} = S \cup {x.type}
      BY <1>6, <2>2
    <3>3. Kinds(q) = {us[i].type : i \in 1 .. Len(us)} \ {"CONST"}
      BY <1>3 DEF Kinds
    <3>. QED
      BY <2>3, <3>1, <3>2, <3>3 DEF FlagsOK
<1>9. HasValue(q) <=> HasValue(p)
  BY <1>3, <1>7, OtherFlags DEF HasValue
<1>. QED
  BY <1>3, <1>8, <1>9 DEF Exempt

LEMMA AddTypesSettle ==
    ASSUME NEW p \in ParamType, NEW t \in Dies, NEW q, q = AddTypes(p, Adds(t))
    PROVE  /\ Raw(p) => Raw(q)
           /\ FlagsOK(p) => FlagsOK(q) /\ (Exempt(p) => Exempt(q)) /\ (HasValue(q) <=> HasValue(p))
<1>1. CASE Adds(t) = <<>>
  BY <1>1 DEF AddTypes
<1>2. CASE Adds(t) # <<>>
  <2>1. PICK x \in TypeName : Adds(t) = <<x>>
    BY <1>2, AddsSeq, SingleFacts
  <2>2. q = AddType(p, x)
    BY <2>1 DEF AddTypes
  <2>. QED
    BY <2>2, AddTypeName, AddTypeFlags
<1>. QED
  BY <1>1, <1>2

-----------------------------------------------------------------------------
(* The calls and the parameters they are for *)

Child(f) == IF f.op = "args" THEN f.child ELSE None
Opens(s) == {s[i].param : i \in 1 .. Len(s)}
Waits(s, top) == {top} \cup {Child(s[i]) : i \in 1 .. Len(s)}

(* The calls are for the parameter or for the child a call below made, and  *)
(* that one was made after the calls below it.                              *)
Stacked(s, top) ==
    \A i \in 1 .. Len(s) :
        /\ s[i].param = top \/ \E j \in i + 1 .. Len(s) : Child(s[j]) = s[i].param
        /\ \A j \in i .. Len(s) : Child(s[i]) # s[j].param

LEMMA StackedOpens ==
    ASSUME NEW s, NEW top, Len(s) \in Nat, Stacked(s, top)
    PROVE  Opens(s) \subseteq Waits(s, top)
<1> SUFFICES ASSUME NEW i \in 1 .. Len(s) PROVE s[i].param \in Waits(s, top)
  BY DEF Opens
<1>1. CASE s[i].param = top
  BY <1>1 DEF Waits
<1>2. CASE \E j \in i + 1 .. Len(s) : Child(s[j]) = s[i].param
  BY <1>2 DEF Waits
<1>. QED
  BY <1>1, <1>2 DEF Stacked

LEMMA EmptyStack ==
    ASSUME NEW top
    PROVE  Stacked(<<>>, top) /\ Opens(<<>>) = {} /\ Waits(<<>>, top) = {top}
BY DEF Stacked, Opens, Waits

IsTail(r, s) == Len(s) = Len(r) + 1 /\ Len(r) \in Nat /\ \A i \in 1 .. Len(r) : r[i] = s[i + 1]

LEMMA TailIs ==
    ASSUME NEW S, NEW s \in Seq(S), s # <<>>
    PROVE  IsTail(Tail(s), s) /\ Tail(s) \in Seq(S) /\ s[1] \in S
<1>1. PICK m \in Nat : m = Len(s) /\ m # 0
  OBVIOUS
<1>2. PICK k \in Nat : k = Len(s) - 1 /\ Len(s) >= 1 /\ Len(s) = k + 1
  <2>1. m - 1 \in Nat /\ m >= 1 /\ m = (m - 1) + 1
    BY <1>1
  <2>. QED
    BY <1>1, <2>1
<1>3. PICK r : r = [i \in 1 .. k |-> s[i + 1]]
  OBVIOUS
<1>4. r = Tail(s) /\ Len(r) = k
  BY <1>2, <1>3, TailFacts
<1>5. Tail(s) \in Seq(S) /\ s[1] \in S
  BY <1>2
<1>. QED
  BY <1>2, <1>3, <1>4, <1>5 DEF IsTail

LEMMA PopStack ==
    ASSUME NEW s, NEW r, IsTail(r, s), NEW top, Stacked(s, top)
    PROVE  /\ Stacked(r, top) /\ Opens(s) = Opens(r) \cup {s[1].param}
           /\ Waits(s, top) = Waits(r, top) \cup {Child(s[1])}
<1>1. PICK n \in Nat : n = Len(r) /\ Len(s) = n + 1
  BY DEF IsTail
<1>2. \A i \in 1 .. n : r[i] = s[i + 1] /\ i + 1 \in 1 .. n + 1
  BY <1>1 DEF IsTail
<1>3. \A i \in 1 .. n + 1 : i = 1 \/ \E k \in 1 .. n : i = k + 1 /\ s[i] = r[k]
  <2> SUFFICES ASSUME NEW i \in 1 .. n + 1, i # 1 PROVE \E k \in 1 .. n : i = k + 1 /\ s[i] = r[k]
    OBVIOUS
  <2>1. i - 1 \in 1 .. n /\ i = (i - 1) + 1
    BY <1>1
  <2>. QED
    BY <1>2, <2>1
<1>4. ASSUME NEW i \in 1 .. n
      PROVE  /\ r[i].param = top \/ \E j \in i + 1 .. n : Child(r[j]) = r[i].param
             /\ \A j \in i .. n : Child(r[i]) # r[j].param
  <2>1. /\ s[i + 1].param = top \/ \E j \in (i + 1) + 1 .. n + 1 : Child(s[j]) = s[i + 1].param
        /\ \A j \in i + 1 .. n + 1 : Child(s[i + 1]) # s[j].param
    BY <1>1, <1>2 DEF Stacked
  <2>2. \A j \in i .. n : Child(r[i]) # r[j].param
    <3> SUFFICES ASSUME NEW j \in i .. n PROVE Child(r[i]) # r[j].param
      OBVIOUS
    <3>1. j \in 1 .. n /\ j + 1 \in i + 1 .. n + 1
      BY <1>1
    <3>. QED
      BY <1>2, <2>1, <3>1
  <2>3. ASSUME NEW j \in (i + 1) + 1 .. n + 1, Child(s[j]) = s[i + 1].param
        PROVE  \E k \in i + 1 .. n : Child(r[k]) = r[i].param
    <3>1. PICK k \in Nat : j = k + 1 /\ k \in i + 1 .. n /\ k \in 1 .. n
      <4>1. j - 1 \in Nat /\ j = (j - 1) + 1 /\ j - 1 \in i + 1 .. n /\ j - 1 \in 1 .. n
        BY <1>1
      <4>. QED
        BY <4>1
    <3>. QED
      BY <1>2, <2>3, <3>1
  <2>. QED
    BY <1>2, <2>1, <2>2, <2>3
<1>5. Stacked(r, top)
  BY <1>1, <1>4 DEF Stacked
<1>6. Opens(s) = Opens(r) \cup {s[1].param}
  BY <1>1, <1>2, <1>3 DEF Opens
<1>7. Waits(s, top) = Waits(r, top) \cup {Child(s[1])}
  BY <1>1, <1>2, <1>3 DEF Waits
<1>. QED
  BY <1>5, <1>6, <1>7

LEMMA PushStack ==
    ASSUME NEW s, NEW r, IsTail(r, s), NEW top, Stacked(r, top),
           s[1].param \in Waits(r, top), Child(s[1]) \notin Opens(r) \cup {s[1].param}
    PROVE  /\ Stacked(s, top) /\ Opens(s) = Opens(r) \cup {s[1].param}
           /\ Waits(s, top) = Waits(r, top) \cup {Child(s[1])}
<1>1. PICK n \in Nat : n = Len(r) /\ Len(s) = n + 1
  BY DEF IsTail
<1>2. \A i \in 1 .. n : r[i] = s[i + 1] /\ i + 1 \in 1 .. n + 1
  BY <1>1 DEF IsTail
<1>3. \A i \in 1 .. n + 1 : i = 1 \/ \E k \in 1 .. n : i = k + 1 /\ s[i] = r[k]
  <2> SUFFICES ASSUME NEW i \in 1 .. n + 1, i # 1 PROVE \E k \in 1 .. n : i = k + 1 /\ s[i] = r[k]
    OBVIOUS
  <2>1. i - 1 \in 1 .. n /\ i = (i - 1) + 1
    BY <1>1
  <2>. QED
    BY <1>2, <2>1
<1>4. /\ s[1].param = top \/ \E j \in 1 + 1 .. n + 1 : Child(s[j]) = s[1].param
      /\ \A j \in 1 .. n + 1 : Child(s[1]) # s[j].param
  <2>1. \A j \in 1 .. n + 1 : Child(s[1]) # s[j].param
    BY <1>1, <1>3 DEF Opens
  <2>2. ASSUME NEW k \in 1 .. n, Child(r[k]) = s[1].param
        PROVE  \E j \in 1 + 1 .. n + 1 : Child(s[j]) = s[1].param
    <3>1. k + 1 \in 1 + 1 .. n + 1
      BY <1>1
    <3>. QED
      BY <1>2, <2>2, <3>1
  <2>. QED
    BY <1>1, <2>1, <2>2 DEF Waits
<1>5. ASSUME NEW i \in 1 .. n
      PROVE  /\ s[i + 1].param = top \/ \E j \in (i + 1) + 1 .. n + 1 : Child(s[j]) = s[i + 1].param
             /\ \A j \in i + 1 .. n + 1 : Child(s[i + 1]) # s[j].param
  <2>1. /\ r[i].param = top \/ \E j \in i + 1 .. n : Child(r[j]) = r[i].param
        /\ \A j \in i .. n : Child(r[i]) # r[j].param
    BY <1>1 DEF Stacked
  <2>2. \A j \in i + 1 .. n + 1 : Child(s[i + 1]) # s[j].param
    <3> SUFFICES ASSUME NEW j \in i + 1 .. n + 1 PROVE Child(s[i + 1]) # s[j].param
      OBVIOUS
    <3>1. PICK k \in Nat : j = k + 1 /\ k \in i .. n /\ k \in 1 .. n
      <4>1. j - 1 \in Nat /\ j = (j - 1) + 1 /\ j - 1 \in i .. n /\ j - 1 \in 1 .. n
        BY <1>1
      <4>. QED
        BY <4>1
    <3>. QED
      BY <1>2, <2>1, <3>1
  <2>3. ASSUME NEW k \in i + 1 .. n, Child(r[k]) = r[i].param
        PROVE  \E j \in (i + 1) + 1 .. n + 1 : Child(s[j]) = s[i + 1].param
    <3>1. k \in 1 .. n /\ k + 1 \in (i + 1) + 1 .. n + 1
      BY <1>1
    <3>. QED
      BY <1>2, <2>3, <3>1
  <2>. QED
    BY <1>2, <2>1, <2>2, <2>3
<1>6. Stacked(s, top)
  BY <1>1, <1>3, <1>4, <1>5 DEF Stacked
<1>7. Opens(s) = Opens(r) \cup {s[1].param}
  <2>1. \A k \in 1 .. n : r[k].param = s[k + 1].param /\ k + 1 \in 1 .. n + 1
    BY <1>2
  <2>2. 1 \in 1 .. n + 1
    BY <1>1
  <2>. QED
    BY <1>1, <1>3, <2>1, <2>2 DEF Opens
<1>8. Waits(s, top) = Waits(r, top) \cup {Child(s[1])}
  <2>1. {Child(s[i]) : i \in 1 .. n + 1} = {Child(r[k]) : k \in 1 .. n} \cup {Child(s[1])}
    <3>1. \A k \in 1 .. n : Child(r[k]) = Child(s[k + 1]) /\ k + 1 \in 1 .. n + 1
      BY <1>2
    <3>2. \A i \in 1 .. n + 1 : i = 1 \/ \E k \in 1 .. n : Child(s[i]) = Child(r[k])
      BY <1>3
    <3>3. 1 \in 1 .. n + 1
      BY <1>1
    <3>. QED
      BY <3>1, <3>2, <3>3
  <2>. QED
    BY <1>1, <2>1 DEF Waits
<1>. QED
  BY <1>6, <1>7, <1>8

(* The call on top made a child: the one on top was none of its own.        *)
LEMMA TopStack ==
    ASSUME NEW s, NEW r, IsTail(r, s), NEW top, Stacked(s, top)
    PROVE  s[1].param \in Waits(r, top) /\ Child(s[1]) \notin Opens(s)
<1>1. PICK n \in Nat : n = Len(r) /\ Len(s) = n + 1
  BY DEF IsTail
<1>2. /\ s[1].param = top \/ \E j \in 1 + 1 .. n + 1 : Child(s[j]) = s[1].param
      /\ \A j \in 1 .. n + 1 : Child(s[1]) # s[j].param
  BY <1>1 DEF Stacked
<1>3. ASSUME NEW j \in 1 + 1 .. n + 1, Child(s[j]) = s[1].param PROVE s[1].param \in Waits(r, top)
  <2>1. PICK k \in 1 .. n : j = k + 1
    <3>1. j - 1 \in 1 .. n /\ j = (j - 1) + 1
      BY <1>1
    <3>. QED
      BY <3>1
  <2>2. r[k] = s[j]
    BY <1>1, <2>1 DEF IsTail
  <2>. QED
    BY <1>1, <1>3, <2>1, <2>2 DEF Waits
<1>4. s[1].param \in Waits(r, top)
  BY <1>2, <1>3 DEF Waits
<1>. QED
  BY <1>1, <1>2, <1>4 DEF Opens

(* The flags are the types; the type name is the first one, from when the   *)
(* parameter is completed on, but of those that are exempt; and the value   *)
(* was cut to the size and the types the parameter still has.               *)
NameOK(o, O, W, p) == Exempt(p) \/ (Raw(p) /\ o \in W) \/ (Done(p) /\ o \notin O)
ValueOK(o, W, p) == HasValue(p) => p.value.bytes = Bytes(p) /\ o \notin W
Settled(o, O, W, p) == FlagsOK(p) /\ NameOK(o, O, W, p) /\ ValueOK(o, W, p)

DInv ==
    /\ Stacked(Tasks, param)
    /\ \A o \in Objs : Settled(o, Opens(Tasks), Waits(Tasks, param), obj[o])

LEMMA SameBytes ==
    ASSUME NEW p, NEW q, Shows(q) = Shows(p), q.size = p.size
    PROVE  Bytes(q) = Bytes(p)
<1>1. "pointer_type" \in DOMAIN TagFlag /\ TagFlag["pointer_type"] = "POINTER"
  BY DEF TagFlag
<1>2. "subroutine_type" \in DOMAIN TagFlag /\ TagFlag["subroutine_type"] = "FUNCPTR"
  BY DEF TagFlag
<1>3. {"POINTER", "FUNCPTR"} \subseteq TypeFlags \ {"CONST"}
  BY <1>1, <1>2 DEF TypeFlags
<1>4. IsPointer(q) <=> IsPointer(p)
  BY <1>3 DEF IsPointer, Shows
<1>. QED
  BY <1>4 DEF Bytes

LEMMA KeptSettled ==
    ASSUME NEW o, NEW O, NEW W, NEW P, NEW V, NEW p, NEW q, Settled(o, O, W, p), Kept(p, q),
           o \in W <=> o \in V, o \in P => o \in O
    PROVE  Settled(o, P, V, q)
<1>1. FlagsOK(q)
  BY DEF Settled, FlagsOK, Kept, Kinds
<1>2. NameOK(o, P, V, q)
  BY DEF Settled, NameOK, Kept, Exempt, Raw, Done
<1>3. ValueOK(o, V, q)
  BY SameBytes DEF Settled, ValueOK, Kept
<1>. QED
  BY <1>1, <1>2, <1>3 DEF Settled

LEMMA FreshSettled ==
    ASSUME NEW o, NEW O, NEW W
    PROVE  Settled(o, O, W, Fresh)
<1>1. Fresh.die = None /\ Plainly(Fresh)
  BY DEF Fresh, Plainly
<1>. QED
  BY <1>1, PlainlyOK DEF Settled, NameOK, ValueOK, Exempt

(* The type name of a parameter that is completed. *)
LEMMA RawDone ==
    ASSUME NEW p \in ParamType, NEW q, Finished(p, q), Raw(p) \/ Done(p)
    PROVE  Done(q)
<1>1. q.type_name = (IF p.type_name = None THEN "void" ELSE p.type_name) /\ q.types = p.types
  BY DEF Finished, OrVoid, ParamType
<1>2. Len(p.types) \in Nat
  BY DEF ParamType
<1>3. CASE Named(p.types) = {}
  <2>1. FirstName(p.types) = "void"
    BY <1>3, NoneNamed
  <2>. QED
    BY <1>1, <1>3, <2>1 DEF Raw, Done
<1>4. CASE Named(p.types) # {}
  <2>1. PICK i \in 1 .. Len(p.types) : First(p.types, i) /\ p.types[i].name # None
    BY <1>2, <1>4, FirstExists
  <2>2. FirstName(p.types) # None
    BY <1>2, <2>1, FirstIs
  <2>. QED
    BY <1>1, <1>4, <2>2 DEF Raw, Done
<1>. QED
  BY <1>3, <1>4

(* The size of a parameter that has no value yet, and then its types. *)
LEMMA LinkSettled ==
    ASSUME NEW o, NEW O, NEW W, NEW P, NEW V, NEW p \in ParamType, Settled(o, O, W, p),
           o \in O, o \in W, o \in V, NEW r \in ParamType,
           r.die = p.die, r.types = p.types, r.flags = p.flags, r.type_name = p.type_name
    PROVE  /\ Settled(o, P, V, r)
           /\ \A t \in Dies : Settled(o, P, V, AddTypes(r, Adds(t)))
<1>1. FlagsOK(r) /\ ~HasValue(r) /\ (Exempt(r) \/ Raw(r))
  <2>1. FlagsOK(p) /\ ~HasValue(p) /\ (Exempt(p) \/ Raw(p))
    BY DEF Settled, NameOK, ValueOK
  <2>. QED
    BY <2>1 DEF FlagsOK, Shows, Kinds, HasValue, Exempt, Raw
<1>2. ASSUME NEW t \in Dies PROVE Settled(o, P, V, AddTypes(r, Adds(t)))
  <2>1. PICK q : q = AddTypes(r, Adds(t))
    OBVIOUS
  <2>2. FlagsOK(q) /\ ~HasValue(q) /\ (Exempt(q) \/ Raw(q))
    BY <1>1, <2>1, AddTypesSettle
  <2>. QED
    BY <2>1, <2>2 DEF Settled, NameOK, ValueOK
<1>. QED
  BY <1>1, <1>2 DEF Settled, NameOK, ValueOK

-----------------------------------------------------------------------------
(* The steps that leave the types alone *)

LEMMA OutsideSettles == ASSUME OInv, DInv, Outside PROVE DInv'
<1>1. /\ Tasks = <<>> /\ Tasks' = <<>>
      /\ \A o \in Objs : \/ obj'[o] = Fresh \/ Kept(obj[o], obj'[o])
                         \/ /\ Finished(obj[o], obj'[o])
                            /\ obj'[o].value.bytes = Bytes(obj[o]) /\ param' = None
      /\ param \in Objs =>
            \/ param' = param \/ obj'[param] = Fresh \/ Finished(obj[param], obj'[param])
            \/ "RETURN" \in obj'[param].flags
      /\ param' \in {param, None}
  BY OutsideIs
<1>2. /\ Opens(Tasks) = {} /\ Waits(Tasks, param) = {param}
      /\ Opens(Tasks') = {} /\ Waits(Tasks', param') = {param'} /\ Stacked(Tasks', param')
  BY <1>1, EmptyStack
<1>3. ASSUME NEW o \in Objs PROVE Settled(o, {}, {param'}, obj'[o])
  <2>1. PICK p \in ParamType : p = obj[o] /\ Settled(o, {}, {param}, p)
    BY <1>2 DEF DInv, OInv, Types
  <2>2. PICK q : q = obj'[o]
    OBVIOUS
  <2>3. CASE q = Fresh
    BY <2>2, <2>3, FreshSettled
  <2>4. CASE Kept(p, q) /\ (o = param <=> o = param')
    BY <2>1, <2>2, <2>4, KeptSettled
  <2>5. CASE Kept(p, q) /\ ~(o = param <=> o = param')
    <3>1. o = param /\ param' = None
      BY <1>1, <2>5, NoneNotObj
    <3>2. o # param'
      BY <3>1, NoneNotObj
    <3>3. Finished(p, q) \/ Exempt(q) \/ q = Fresh
      BY <1>1, <2>1, <2>2, <3>1, <3>2 DEF Exempt
    <3>4. FlagsOK(q) /\ ValueOK(o, {param'}, q)
      BY <2>1, <2>5, <3>2, SameBytes DEF Settled, FlagsOK, Kept, Kinds, ValueOK
    <3>5. NameOK(o, {}, {param'}, q)
      <4>1. CASE Finished(p, q)
        <5>1. Exempt(p) => Exempt(q)
          BY <2>5 DEF Kept, Exempt
        <5>2. Exempt(p) \/ Raw(p) \/ Done(p)
          BY <2>1 DEF Settled, NameOK
        <5>. QED
          BY <4>1, <5>1, <5>2, RawDone DEF NameOK
      <4>2. CASE q = Fresh
        BY <4>2, FreshSettled DEF Settled
      <4>. QED
        BY <3>3, <4>1, <4>2 DEF NameOK
    <3>. QED
      BY <2>2, <3>4, <3>5 DEF Settled
  <2>6. CASE Finished(p, q) /\ q.value.bytes = Bytes(p) /\ param' = None
    <3>1. o \notin {param'}
      BY <2>6, NoneNotObj
    <3>2. Exempt(p) => Exempt(q)
      BY <2>6 DEF Finished, Exempt
    <3>3. Exempt(p) \/ Raw(p) \/ Done(p)
      BY <2>1 DEF Settled, NameOK
    <3>4. NameOK(o, {}, {param'}, q)
      BY <2>6, <3>2, <3>3, RawDone DEF NameOK
    <3>5. Bytes(q) = Bytes(p)
      BY <2>6, SameBytes DEF Finished
    <3>6. FlagsOK(q)
      BY <2>1, <2>6 DEF Settled, FlagsOK, Finished, Kinds
    <3>. QED
      BY <2>2, <2>6, <3>1, <3>4, <3>5, <3>6 DEF Settled, ValueOK
  <2>. QED
    BY <1>1, <2>1, <2>2, <2>3, <2>4, <2>5, <2>6
<1>. QED
  BY <1>2, <1>3 DEF DInv

LEMMA HandlesSettle ==
    ASSUME OInv, DInv, HandleDwarf \/ HandleReturn \/ HandleUnspecified
    PROVE  DInv'
<1>1. PICK n \in Objs :
         /\ n \notin live /\ live' = live \cup {n} /\ phase = "ready" /\ param = None
         /\ \A o \in Objs \ {n} : obj'[o] = obj[o]
         /\ \/ Given(obj'[n]) /\ phase' = "ready" /\ param' = None
            \/ \E d \in Dies : /\ Asked(obj'[n], d) /\ phase' = "type" /\ param' = n
                               /\ frames' = <<TypeCall(n, d)>>
  BY HandlesAre
<1>2. Tasks = <<>> /\ Opens(Tasks) = {} /\ Waits(Tasks, param) = {None}
  BY <1>1, EmptyStack DEF Tasks
<1>3. \A o \in Objs \ {n} : Settled(o, {}, {None}, obj[o])
  BY <1>2 DEF DInv
<1>4. CASE Given(obj'[n]) /\ phase' = "ready" /\ param' = None
  <2>1. Tasks' = <<>> /\ Opens(Tasks') = {} /\ Waits(Tasks', param') = {None}
        /\ Stacked(Tasks', param')
    BY <1>4, EmptyStack DEF Tasks
  <2>2. Settled(n, {}, {None}, obj'[n])
    BY <1>4 DEF Settled, Given, NameOK, ValueOK
  <2>3. \A o \in Objs : Settled(o, {}, {None}, obj'[o])
    BY <1>1, <1>3, <2>2
  <2>. QED
    BY <2>1, <2>3 DEF DInv
<1>5. ASSUME NEW d \in Dies, Asked(obj'[n], d), phase' = "type", param' = n,
             frames' = <<TypeCall(n, d)>>
      PROVE  DInv'
  <2>1. PICK f : f = TypeCall(n, d)
    OBVIOUS
  <2>p. f.param = n /\ Child(f) = None
    BY <2>1 DEF TypeCall, Child
  <2>2. PICK s : s = <<f>>
    OBVIOUS
  <2>q. s[1] = f /\ IsTail(<<>>, s)
    BY <2>2 DEF IsTail
  <2>e. PICK e : e = <<>> /\ Stacked(e, n) /\ Opens(e) = {} /\ Waits(e, n) = {n} /\ IsTail(e, s)
    BY <2>q, EmptyStack
  <2>3. Stacked(s, n) /\ Opens(s) = {n} /\ Waits(s, n) = {n, None}
    BY <2>p, <2>q, <2>e, PushStack, NoneNotObj
  <2>4. Settled(n, {n}, {n, None}, obj'[n])
    <3>1. PICK p : p = obj'[n] /\ p.types = <<>> /\ p.type_name = None
      BY <1>5 DEF Asked, View, Empty
    <3>2. Named(p.types) = {}
      BY <3>1 DEF Named
    <3>. QED
      BY <1>5, <3>1, <3>2 DEF Settled, Asked, NameOK, ValueOK, Raw
  <2>5. ASSUME NEW o \in Objs \ {n} PROVE Settled(o, {n}, {n, None}, obj'[o])
    BY <1>1, <1>3, KeptItself, KeptSettled
  <2>6. Tasks' = s /\ param' = n
    BY <1>5, <2>1, <2>2 DEF Tasks
  <2>. QED
    BY <2>3, <2>4, <2>5, <2>6 DEF DInv
<1>. QED
  BY <1>1, <1>4, <1>5

-----------------------------------------------------------------------------
(* The steps of the types *)

LEMMA ConsTail ==
    ASSUME NEW S, NEW r \in Seq(S), NEW f, NEW s, IsCons(s, f, r)
    PROVE  s[1] = f /\ IsTail(r, s)
<1>1. PICK n \in Nat : n = Len(r)
  OBVIOUS
<1>2. Len(s) = n + 1 /\ s[1] = f /\ \A i \in 2 .. n + 1 : s[i] = r[i - 1]
  BY <1>1 DEF IsCons
<1>3. \A i \in 1 .. n : i + 1 \in 2 .. n + 1 /\ (i + 1) - 1 = i
  BY <1>1
<1>. QED
  BY <1>1, <1>2, <1>3 DEF IsTail

(* A call that goes on in another one for the same parameter. *)
LEMMA TurnStack ==
    ASSUME NEW s, NEW r, NEW u, IsTail(r, s), IsTail(r, u), NEW top, Stacked(s, top),
           u[1].param = s[1].param, Child(u[1]) \notin Opens(s)
    PROVE  /\ Stacked(u, top) /\ Opens(u) = Opens(s)
           /\ Waits(u, top) = Waits(r, top) \cup {Child(u[1])}
           /\ Waits(s, top) = Waits(r, top) \cup {Child(s[1])}
           /\ s[1].param \in Waits(r, top) /\ Child(s[1]) \notin Opens(s)
<1>1. /\ Stacked(r, top) /\ Opens(s) = Opens(r) \cup {s[1].param}
      /\ Waits(s, top) = Waits(r, top) \cup {Child(s[1])}
  BY PopStack
<1>2. s[1].param \in Waits(r, top) /\ Child(s[1]) \notin Opens(s)
  BY TopStack
<1>3. Child(u[1]) \notin Opens(r) \cup {u[1].param}
  BY <1>1
<1>4. /\ Stacked(u, top) /\ Opens(u) = Opens(r) \cup {u[1].param}
      /\ Waits(u, top) = Waits(r, top) \cup {Child(u[1])}
  BY <1>1, <1>2, <1>3, PushStack
<1>. QED
  BY <1>1, <1>2, <1>4

LEMMA TypingFacts ==
    ASSUME OInv, DInv, phase = "type", frames # <<>>
    PROVE  \E fr \in Seq(AnyFrame), r \in Seq(AnyFrame) :
              /\ fr = frames /\ fr = Tasks /\ r = Caller /\ r = Tail(fr) /\ IsTail(r, fr)
              /\ Top = fr[1]
              /\ Stacked(fr, param) /\ Top.param \in Objs /\ Top.param \in Opens(fr)
              /\ Opens(fr) \subseteq live /\ Opens(r) \subseteq Opens(fr)
              /\ Stacked(r, param) /\ Top.param \in Waits(r, param)
              /\ Child(Top) \notin Opens(fr)
              /\ Waits(fr, param) = Waits(r, param) \cup {Child(Top)}
              /\ Waits(fr, param) \subseteq live \cup {None}
              /\ \A o \in Objs : Settled(o, Opens(fr), Waits(fr, param), obj[o])
<1>1. PICK fr \in Seq(AnyFrame) : /\ fr = frames /\ fr = Tasks /\ fr # <<>>
                                  /\ Caller = Tail(fr) /\ Top = fr[1]
                                  /\ \A i \in 1 .. Len(fr) : fr[i].param \in live
  BY TaskFacts
<1>2. PICK r \in Seq(AnyFrame) : r = Tail(fr) /\ IsTail(r, fr)
  BY <1>1, TailIs
<1>3. Stacked(fr, param) /\ \A o \in Objs : Settled(o, Opens(fr), Waits(fr, param), obj[o])
  BY <1>1 DEF DInv
<1>4. /\ Stacked(r, param) /\ Opens(fr) = Opens(r) \cup {fr[1].param}
      /\ Waits(fr, param) = Waits(r, param) \cup {Child(fr[1])}
  BY <1>2, <1>3, PopStack
<1>5. fr[1].param \in Waits(r, param) /\ Child(fr[1]) \notin Opens(fr)
  BY <1>2, <1>3, TopStack
<1>6. Opens(fr) \subseteq live
  BY <1>1 DEF Opens
<1>7. Waits(fr, param) \subseteq live \cup {None}
  <2>1. \A i \in 1 .. Len(fr) : fr[i] \in TypeFrame
    BY <1>1 DEF OInv, Calls
  <2>2. \A i \in 1 .. Len(fr) : Child(fr[i]) \in live \cup {None}
    BY <2>1 DEF TypeFrame, Child
  <2>3. param \in live \cup {None}
    BY DEF OInv, Types
  <2>. QED
    BY <2>2, <2>3 DEF Waits
<1>8. live \subseteq Objs
  BY DEF OInv, Types
<1>. QED
  BY <1>1, <1>2, <1>3, <1>4, <1>5, <1>6, <1>7, <1>8

(* The end of parameter_handle_type. *)
LEMMA GoOnStack ==
    ASSUME OInv, DInv, phase = "type", frames # <<>>, Child(Top) = None, NEW t \in Dies
    PROVE  LET s == GoOn(Top.param, t) IN
           /\ Stacked(s, param) /\ Opens(s) \subseteq Opens(frames)
           /\ \A o \in Objs : o \in Waits(s, param) <=> o \in Waits(frames, param)
<1>1. PICK fr, r \in Seq(AnyFrame) :
         /\ fr = frames /\ r = Caller /\ IsTail(r, fr) /\ Top = fr[1]
         /\ Stacked(fr, param) /\ Top.param \in Objs
         /\ Opens(r) \subseteq Opens(fr) /\ Stacked(r, param) /\ Opens(fr) \subseteq live
         /\ Waits(fr, param) = Waits(r, param) \cup {Child(Top)}
  BY TypingFacts
<1>2. None \notin live
  BY NoneNotObj DEF OInv, Types
<1>3. CASE Die[t].type = None
  <2>1. <<>> \o r = r
    BY <1>1, ConcatFacts
  <2>2. GoOn(Top.param, t) = r
    BY <1>1, <1>3, <2>1 DEF GoOn
  <2>. QED
    BY <1>1, <2>2, NoneNotObj
<1>4. CASE Die[t].type # None
  <2>1. PICK f \in AnyFrame : f = TypeCall(Top.param, t) /\ f.param = Top.param
    BY <1>1, FramesAre
  <2>c. Child(f) = None
    BY <2>1 DEF TypeCall, Child
  <2>2. PICK s : IsCons(s, f, r)
    BY <1>1, ConsFacts, Zenon
  <2>3. s[1] = f /\ IsTail(r, s)
    BY <1>1, <2>2, ConsTail
  <2>4. /\ Stacked(s, param) /\ Opens(s) = Opens(fr)
        /\ Waits(s, param) = Waits(r, param) \cup {None}
    BY <1>1, <1>2, <2>1, <2>c, <2>3, TurnStack
  <2>5. GoOn(Top.param, t) = s
    BY <1>1, <1>4, <2>1, <2>2 DEF GoOn, IsCons
  <2>. QED
    BY <1>1, <2>4, <2>5, NoneNotObj
<1>. QED
  BY <1>3, <1>4

LEMMA TypeFailsSettles == ASSUME OInv, DInv, TypeFails PROVE DInv'
<1>1. /\ phase = "type" /\ phase' = "type" /\ frames # <<>> /\ Top.op = "type"
      /\ obj' = obj /\ frames' = Caller /\ param' = param
  BY DEF TypeFails, Typing, Running, Top
<1>2. PICK fr, r \in Seq(AnyFrame) :
         /\ fr = Tasks /\ r = Caller
         /\ Opens(r) \subseteq Opens(fr) /\ Stacked(r, param)
         /\ Waits(fr, param) = Waits(r, param) \cup {Child(Top)}
         /\ \A o \in Objs : Settled(o, Opens(fr), Waits(fr, param), obj[o])
  BY <1>1, TypingFacts
<1>3. Child(Top) = None
  BY <1>1 DEF Child
<1>4. \A o \in Objs : Settled(o, Opens(r), Waits(r, param), obj[o])
  BY <1>2, <1>3, NoneNotObj, KeptItself, KeptSettled
<1>. QED
  BY <1>1, <1>2, <1>4 DEF DInv, Tasks

(* The types of a chain link are added to the parameter of the call. *)
LEMMA LinkSettles ==
    ASSUME OInv, DInv, phase = "type", frames # <<>>, Child(Top) = None,
           NEW t \in Dies, NEW p \in ParamType, NEW q \in Objs, q = Top.param,
           p.die = obj[q].die, p.types = obj[q].types, p.flags = obj[q].flags,
           p.type_name = obj[q].type_name,
           phase' = "type", param' = param, frames' = GoOn(q, t),
           obj' = [obj EXCEPT ![q] = AddTypes(p, Adds(t))]
    PROVE  DInv'
<1>1. PICK fr, r \in Seq(AnyFrame) :
         /\ fr = Tasks /\ fr = frames /\ r = Caller /\ q \in Opens(fr) /\ q \in Waits(r, param)
         /\ Waits(fr, param) = Waits(r, param) \cup {Child(Top)}
         /\ \A o \in Objs : Settled(o, Opens(fr), Waits(fr, param), obj[o])
  BY TypingFacts
<1>2. PICK s : s = frames' /\ Stacked(s, param) /\ Opens(s) \subseteq Opens(fr)
               /\ \A o \in Objs : o \in Waits(s, param) <=> o \in Waits(fr, param)
  BY <1>1, GoOnStack
<1>3. PICK x : x = AddTypes(p, Adds(t))
  OBVIOUS
<1>4. Settled(q, Opens(s), Waits(s, param), x)
  <2>1. q \in Waits(fr, param) /\ q \in Waits(s, param) /\ obj[q] \in ParamType
    BY <1>1, <1>2 DEF OInv, Types
  <2>. QED
    BY <1>1, <1>3, <2>1, LinkSettled
<1>5. \A o \in Objs : Settled(o, Opens(s), Waits(s, param), obj'[o])
  <2> SUFFICES ASSUME NEW o \in Objs PROVE Settled(o, Opens(s), Waits(s, param), obj'[o])
    OBVIOUS
  <2>1. obj'[o] = IF o = q THEN x ELSE obj[o]
    BY <1>3 DEF OInv, Types
  <2>2. CASE o = q
    BY <1>4, <2>1, <2>2
  <2>3. CASE o # q
    BY <1>1, <1>2, <2>1, <2>3, KeptItself, KeptSettled
  <2>. QED
    BY <2>2, <2>3
<1>. QED
  BY <1>2, <1>5 DEF DInv, Tasks

LEMMA TypeLinkSettles == ASSUME OInv, DInv, TypeLink PROVE DInv'
<1>1. /\ phase = "type" /\ phase' = "type" /\ frames # <<>> /\ Top.op = "type"
      /\ Top.die \in Dies /\ param' = param /\ Top.param \in live
  BY TopType DEF TypeLink, Typing, Running, Top, OInv
<1>2. PICK q \in Objs, t \in Dies :
         /\ q = Top.param
         /\ obj' = [obj EXCEPT ![q] = AddTypes([@ EXCEPT !.size = Size(t)], Adds(t))]
         /\ frames' = GoOn(q, t)
  BY <1>1 DEF TypeLink, OInv, Types
<1>3. PICK p \in ParamType : /\ p = [obj[q] EXCEPT !.size = Size(t)]
                             /\ p.die = obj[q].die /\ p.types = obj[q].types
                             /\ p.flags = obj[q].flags /\ p.type_name = obj[q].type_name
  <2>1. PICK n \in Nat : n = Size(t)
    BY SizeType
  <2>2. PICK p : p = [obj[q] EXCEPT !.size = n]
    OBVIOUS
  <2>3. obj[q] \in ParamType
    BY DEF OInv, Types
  <2>4. p \in ParamType /\ p.die = obj[q].die /\ p.types = obj[q].types
        /\ p.flags = obj[q].flags /\ p.type_name = obj[q].type_name
    BY <2>2, <2>3 DEF ParamType
  <2>. QED
    BY <2>1, <2>2, <2>4
<1>4. obj' = [obj EXCEPT ![q] = AddTypes(p, Adds(t))]
  BY <1>2, <1>3
<1>5. Child(Top) = None
  BY <1>1 DEF Child
<1>. QED
  BY <1>1, <1>2, <1>3, <1>4, <1>5, LinkSettles

LEMMA ArgsEndSettles == ASSUME OInv, DInv, ArgsEnd PROVE DInv'
<1>1. /\ phase = "type" /\ phase' = "type" /\ frames # <<>> /\ Top.child = None
      /\ Top.die \in Dies /\ param' = param /\ Top.param \in live
  BY TopType DEF ArgsEnd, Typing, Running, Top, OInv
<1>2. PICK q \in Objs, t \in Dies :
         q = Top.param /\ obj' = [obj EXCEPT ![q] = AddTypes(@, Adds(t))] /\ frames' = GoOn(q, t)
  BY <1>1 DEF ArgsEnd, OInv, Types
<1>3. obj[q] \in ParamType /\ obj' = [obj EXCEPT ![q] = AddTypes(obj[q], Adds(t))]
  BY <1>2 DEF OInv, Types
<1>4. Child(Top) = None
  BY <1>1 DEF Child
<1>. QED
  BY <1>1, <1>2, <1>3, <1>4, LinkSettles

(* The stack of calls after a turn of the loop over the arguments. *)
Stepped(c, fr) ==
    \E r \in Seq(AnyFrame), s \in Seq(AnyFrame) :
       /\ r = Caller /\ s = Step(c) \o Caller
       /\ Stacked(s, param) /\ Opens(s) = Opens(fr)
       /\ Waits(s, param) = Waits(r, param) \cup {c}
       /\ Waits(fr, param) = Waits(r, param) \cup {Top.child}
       /\ Top.child \notin Opens(fr) /\ Waits(fr, param) \subseteq live \cup {None}
       /\ Opens(fr) \subseteq live
       /\ \A o \in Objs : Settled(o, Opens(fr), Waits(fr, param), obj[o])

(* A turn of the loop over the arguments, with another child. *)
LEMMA StepStack ==
    ASSUME OInv, DInv, phase = "type", Running("args"), NEW c \in Objs \cup {None},
           NEW fr, fr = frames, c \notin Opens(fr)
    PROVE  Stepped(c, fr)
<1>1. frames # <<>> /\ Top.op = "args"
  BY DEF Running, Top
<1>2. PICK a, r \in Seq(AnyFrame) :
         /\ a = frames /\ r = Caller /\ r = Tail(a) /\ IsTail(r, a) /\ Top = a[1]
         /\ Stacked(a, param) /\ Child(Top) \notin Opens(a) /\ Opens(a) \subseteq live
         /\ Waits(a, param) = Waits(r, param) \cup {Child(Top)}
         /\ Waits(a, param) \subseteq live \cup {None}
         /\ \A o \in Objs : Settled(o, Opens(a), Waits(a, param), obj[o])
  BY <1>1, TypingFacts
<1>3. Top \in [op : {"args"}, param : Objs, die : Dies, next : Nat, child : Objs \cup {None}]
  BY <1>1, TaskFacts DEF AnyFrame
<1>4. PICK n \in Nat : n = IF c = None THEN Top.next + 1 ELSE Top.next
  BY <1>3
<1>5. PICK f : f = [Top EXCEPT !.child = c, !.next = n]
  OBVIOUS
<1>6. f \in AnyFrame /\ f.param = Top.param /\ f.op = Top.op /\ f.child = c
  BY <1>3, <1>5 DEF AnyFrame
<1>7. Step(c) = <<f>>
  BY <1>3, <1>4, <1>5 DEF Step
<1>8. PICK s \in Seq(AnyFrame) : IsCons(s, f, r)
  BY <1>2, <1>6, ConsFacts, Zenon
<1>9. s[1] = f /\ IsTail(r, s) /\ s = Step(c) \o Caller
  <2>1. s[1] = f /\ IsTail(r, s)
    BY <1>8, ConsTail
  <2>2. s = <<f>> \o r
    BY <1>8 DEF IsCons
  <2>. QED
    BY <1>2, <1>7, <2>1, <2>2
<1>10. Child(f) = c /\ Child(Top) = Top.child
  BY <1>1, <1>6 DEF Child
<1>11. /\ Stacked(s, param) /\ Opens(s) = Opens(a)
       /\ Waits(s, param) = Waits(r, param) \cup {Child(s[1])}
  <2>1. s[1].param = a[1].param
    BY <1>2, <1>6, <1>9
  <2>2. Child(s[1]) \notin Opens(a)
    BY <1>2, <1>9, <1>10
  <2>3. IsTail(r, a) /\ IsTail(r, s) /\ Stacked(a, param)
    BY <1>2, <1>9
  <2>. QED
    BY <2>1, <2>2, <2>3, TurnStack
<1>. QED
  BY <1>2, <1>9, <1>10, <1>11 DEF Stepped

LEMMA ArgSkipSettles == ASSUME OInv, DInv, ArgSkip PROVE DInv'
<1>1. /\ phase = "type" /\ phase' = "type" /\ Running("args") /\ Top.child = None
      /\ obj' = obj /\ param' = param /\ frames' = Step(None) \o Caller
  BY DEF ArgSkip, NextArg, Typing
<1>2. PICK fr : fr = frames
  OBVIOUS
<1>3. None \notin Opens(fr)
  BY <1>1, <1>2, TypingFacts, NoneNotObj DEF OInv, Types, Running
<1>4. PICK s : /\ s = frames' /\ Stacked(s, param) /\ Opens(s) = Opens(fr)
               /\ Waits(s, param) = Waits(fr, param)
               /\ \A o \in Objs : Settled(o, Opens(fr), Waits(fr, param), obj[o])
  BY <1>1, <1>2, <1>3, StepStack DEF Stepped
<1>. QED
  BY <1>1, <1>4 DEF DInv, Tasks

LEMMA ArgDoneSettles == ASSUME OInv, DInv, ArgDone PROVE DInv'
<1>1. /\ phase = "type" /\ phase' = "type" /\ Running("args") /\ param' = param
      /\ frames' = Step(None) \o Caller
  BY DEF ArgDone, Typing
<1>2. PICK c \in Objs : c = Top.child /\ c \in live /\ c # None
  BY <1>1, TopType, NoneNotObj DEF ArgDone, Running, Top, OInv, Types
<1>3. PICK f \in SUBSET {"RETURN"} : obj' = [obj EXCEPT ![c] = Flagged(OrVoid(@), f)]
  BY <1>2 DEF ArgDone
<1>4. PICK fr : fr = frames
  OBVIOUS
<1>5. None \notin Opens(fr)
  BY <1>1, <1>4, TypingFacts, NoneNotObj DEF OInv, Types, Running
<1>6. PICK r, s : /\ s = frames' /\ Stacked(s, param) /\ Opens(s) = Opens(fr)
                  /\ Waits(s, param) = Waits(r, param) \cup {None}
                  /\ Waits(fr, param) = Waits(r, param) \cup {c} /\ c \notin Opens(fr)
                  /\ \A o \in Objs : Settled(o, Opens(fr), Waits(fr, param), obj[o])
  BY <1>1, <1>2, <1>4, <1>5, StepStack DEF Stepped
<1>7. PICK p \in ParamType : p = obj[c]
  BY DEF OInv, Types
<1>8. PICK q : q = Flagged(OrVoid(p), f)
  OBVIOUS
<1>9. \A o \in Objs : obj'[o] = IF o = c THEN q ELSE obj[o]
  BY <1>3, <1>7, <1>8 DEF OInv, Types
<1>10. Settled(c, Opens(s), Waits(s, param), q)
  <2>1. f \in SUBSET Flags /\ f \cap TypeFlags \subseteq {"CONST"} /\ "HAS_VALUE" \notin f
    BY FlagsAre, OtherFlags
  <2>2. Finished(p, q)
    BY <1>8, <2>1, FlaggedKept
  <2>3. q.flags = p.flags \cup f
    BY <1>8, <2>1, OrVoidType, FlaggedType
  <2>4. Settled(c, Opens(fr), Waits(fr, param), p)
    BY <1>6, <1>7
  <2>5. ~HasValue(p) /\ FlagsOK(p) /\ (Exempt(p) \/ Raw(p) \/ Done(p))
    BY <1>6, <2>4 DEF Settled, NameOK, ValueOK
  <2>6. ~HasValue(q)
    BY <2>1, <2>3, <2>5 DEF HasValue
  <2>7. FlagsOK(q)
    BY <2>2, <2>5 DEF FlagsOK, Finished, Kinds
  <2>8. Exempt(p) => Exempt(q)
    BY <2>2 DEF Exempt, Finished
  <2>9. Exempt(q) \/ Done(q)
    BY <2>2, <2>5, <2>8, RawDone
  <2>. QED
    BY <1>6, <2>6, <2>7, <2>9 DEF Settled, NameOK, ValueOK
<1>11. ASSUME NEW o \in Objs, o # c PROVE Settled(o, Opens(s), Waits(s, param), obj[o])
  <2>1. o \in Waits(fr, param) <=> o \in Waits(s, param)
    BY <1>6, <1>11, NoneNotObj
  <2>. QED
    BY <1>6, <2>1, KeptItself, KeptSettled
<1>12. \A o \in Objs : Settled(o, Opens(s), Waits(s, param), obj'[o])
  BY <1>9, <1>10, <1>11
<1>. QED
  BY <1>1, <1>6, <1>12 DEF DInv, Tasks

LEMMA ArgUnspecifiedSettles == ASSUME OInv, DInv, ArgUnspecified PROVE DInv'
<1>1. /\ phase = "type" /\ phase' = "type" /\ Running("args") /\ Top.child = None
      /\ param' = param /\ frames' = Step(None) \o Caller
  BY DEF ArgUnspecified, NextArg, Typing
<1>2. PICK p : p = [Fresh EXCEPT !.flags = {"UNSPEC"}] /\ AddChild(p)
  BY DEF ArgUnspecified
<1>3. PICK n \in Objs : /\ n \notin live /\ live' = live \cup {n} /\ obj'[n] = p
                        /\ \A o \in Objs \ {n} : Alike(obj[o], obj'[o])
  BY <1>1, <1>2, AddChildIs
<1>4. PICK fr : fr = frames
  OBVIOUS
<1>5. None \notin Opens(fr)
  BY <1>1, <1>4, TypingFacts, NoneNotObj DEF OInv, Types, Running
<1>6. PICK s : /\ s = frames' /\ Stacked(s, param) /\ Opens(s) = Opens(fr)
               /\ Waits(s, param) = Waits(fr, param)
               /\ \A o \in Objs : Settled(o, Opens(fr), Waits(fr, param), obj[o])
  BY <1>1, <1>4, <1>5, StepStack DEF Stepped
<1>7. Settled(n, Opens(s), Waits(s, param), p)
  <2>1. Plainly(p) /\ p.die = None
    BY <1>2 DEF Plainly, Fresh
  <2>. QED
    BY <2>1, PlainlyOK DEF Settled, NameOK, ValueOK, Exempt
<1>8. ASSUME NEW o \in Objs \ {n} PROVE Settled(o, Opens(s), Waits(s, param), obj'[o])
  BY <1>3, <1>6, AlikeKept, KeptSettled
<1>9. \A o \in Objs : Settled(o, Opens(s), Waits(s, param), obj'[o])
  BY <1>3, <1>7, <1>8
<1>. QED
  BY <1>1, <1>6, <1>9 DEF DInv, Tasks

LEMMA ArgFormalSettles == ASSUME OInv, DInv, ArgFormal PROVE DInv'
<1>1. /\ phase = "type" /\ phase' = "type" /\ Running("args") /\ Top.child = None
      /\ param' = param
  BY DEF ArgFormal, NextArg, Typing
<1>2. PICK d \in Dies : d = ArgDies[Top.next]
  <2>1. Top.next \in Nat \ {0} /\ Top.next <= Len(ArgDies) /\ Top.die \in Dies
    BY <1>1, TopType DEF ArgFormal, NextArg, OInv, Running, Top
  <2>. QED
    BY <2>1, DieAssumption DEF ArgDies
<1>3. PICK p : p = [Fresh EXCEPT !.die = d] /\ AddChild(p)
  BY <1>2 DEF ArgFormal
<1>4. PICK n \in Objs : /\ n = New /\ n \notin live /\ live' = live \cup {n} /\ obj'[n] = p
                        /\ \A o \in Objs \ {n} : Alike(obj[o], obj'[o])
  BY <1>1, <1>3, AddChildIs
<1>5. PICK fr : fr = frames
  OBVIOUS
<1>6. n \notin Opens(fr)
  BY <1>1, <1>4, <1>5, TypingFacts DEF Running
<1>7. PICK r, s \in Seq(AnyFrame) :
                  /\ r = Caller /\ s = Step(n) \o Caller /\ Stacked(s, param)
                  /\ Opens(s) = Opens(fr) /\ Waits(s, param) = Waits(r, param) \cup {n}
                  /\ Waits(fr, param) = Waits(r, param) \cup {None}
                  /\ Waits(fr, param) \subseteq live \cup {None} /\ Opens(fr) \subseteq live
                  /\ \A o \in Objs : Settled(o, Opens(fr), Waits(fr, param), obj[o])
  <2>1. PICK c \in Objs \cup {None} : c = n
    OBVIOUS
  <2>2. PICK r, s \in Seq(AnyFrame) :
                  /\ r = Caller /\ s = Step(c) \o Caller /\ Stacked(s, param)
                  /\ Opens(s) = Opens(fr) /\ Waits(s, param) = Waits(r, param) \cup {c}
                  /\ Waits(fr, param) = Waits(r, param) \cup {Top.child}
                  /\ Waits(fr, param) \subseteq live \cup {None} /\ Opens(fr) \subseteq live
                  /\ \A o \in Objs : Settled(o, Opens(fr), Waits(fr, param), obj[o])
    <3>1. c \notin Opens(fr) /\ phase = "type" /\ Running("args") /\ OInv /\ DInv
      BY <1>1, <1>6, <2>1
    <3>2. PICK r \in Seq(AnyFrame), s \in Seq(AnyFrame) :
              /\ r = Caller /\ s = Step(c) \o Caller
              /\ Stacked(s, param) /\ Opens(s) = Opens(fr)
              /\ Waits(s, param) = Waits(r, param) \cup {c}
              /\ Waits(fr, param) = Waits(r, param) \cup {Top.child}
              /\ Top.child \notin Opens(fr) /\ Waits(fr, param) \subseteq live \cup {None}
              /\ Opens(fr) \subseteq live
              /\ \A o \in Objs : Settled(o, Opens(fr), Waits(fr, param), obj[o])
      <4>1. Stepped(c, fr)
        BY <1>5, <3>1, StepStack
      <4>. QED
        BY <4>1 DEF Stepped
    <3>. QED
      BY <3>2, Zenon
  <2>. QED
    BY <1>1, <2>1, <2>2
<1>8. PICK f \in AnyFrame : f = TypeCall(n, d) /\ f.param = n
  BY FramesAre
<1>9. PICK all : IsCons(all, f, s)
  BY <1>7, <1>8, ConsFacts, Zenon
<1>10. all = frames'
  <2>1. all = <<f>> \o s
    BY <1>9 DEF IsCons
  <2>2. frames' = <<f>> \o Step(n) \o Caller
    BY <1>2, <1>4, <1>8 DEF ArgFormal
  <2>3. Step(n) \in Seq(AnyFrame)
    <3>1. PICK g : Step(n) = <<g>>
      BY DEF Step
    <3>2. (<<g>> \o r)[1] = g /\ s = <<g>> \o r /\ Len(s) \in Nat /\ 1 \in 1 .. Len(s)
      BY <1>7, <3>1
    <3>3. g \in AnyFrame
      BY <1>7, <3>2
    <3>. QED
      BY <3>1, <3>3
  <2>4. PICK a \in Seq(AnyFrame), b \in Seq(AnyFrame) : a = <<f>> /\ b = Step(n)
    <3>1. <<f>> \in Seq(AnyFrame)
      BY <1>8
    <3>. QED
      BY <2>3, <3>1
  <2>5. Associates(a, b, r)
    BY ConcatFacts
  <2>. QED
    BY <1>7, <2>1, <2>2, <2>4, <2>5 DEF Associates
<1>11. all[1] = f /\ IsTail(s, all) /\ Child(f) = None
  BY <1>7, <1>8, <1>9, ConsTail DEF TypeCall, Child
<1>12. None \notin live
  BY NoneNotObj DEF OInv, Types
<1>13. /\ Stacked(all, param) /\ Opens(all) = Opens(fr) \cup {n}
       /\ Waits(all, param) = Waits(fr, param) \cup {n}
  <2>1. None \notin Opens(s) \cup {n} /\ n \in Waits(s, param)
    BY <1>7, <1>12, NoneNotObj
  <2>2. /\ Stacked(all, param) /\ Opens(all) = Opens(s) \cup {n}
        /\ Waits(all, param) = Waits(s, param) \cup {None}
    <3>1. all[1].param = n /\ Child(all[1]) = None
      BY <1>8, <1>11
    <3>2. all[1].param \in Waits(s, param) /\ Child(all[1]) \notin Opens(s) \cup {all[1].param}
      BY <2>1, <3>1
    <3>3. IsTail(s, all) /\ Stacked(s, param)
      BY <1>7, <1>11
    <3>4. /\ Stacked(all, param) /\ Opens(all) = Opens(s) \cup {all[1].param}
          /\ Waits(all, param) = Waits(s, param) \cup {Child(all[1])}
      BY <3>2, <3>3, PushStack
    <3>. QED
      BY <3>1, <3>4
  <2>. QED
    BY <1>7, <2>2
<1>14. Settled(n, Opens(all), Waits(all, param), p)
  <2>1. Plainly(p)
    BY <1>3 DEF Plainly, Fresh
  <2>2. Named(p.types) = {} /\ p.type_name = None
    BY <2>1 DEF Plainly, Named
  <2>. QED
    BY <1>13, <2>1, <2>2, PlainlyOK DEF Settled, NameOK, ValueOK, Raw
<1>15. ASSUME NEW o \in Objs \ {n} PROVE Settled(o, Opens(all), Waits(all, param), obj'[o])
  <2>1. /\ o \in Waits(fr, param) <=> o \in Waits(all, param)
        /\ o \in Opens(all) => o \in Opens(fr)
    BY <1>13
  <2>. QED
    BY <1>4, <1>7, <2>1, AlikeKept, KeptSettled
<1>16. \A o \in Objs : Settled(o, Opens(all), Waits(all, param), obj'[o])
  BY <1>4, <1>14, <1>15
<1>. QED
  BY <1>1, <1>10, <1>13, <1>16 DEF DInv, Tasks

LEMMA TypeSubroutineSettles == ASSUME OInv, DInv, TypeSubroutine PROVE DInv'
<1>1. /\ phase = "type" /\ phase' = "type" /\ frames # <<>> /\ Top.op = "type" /\ Room
      /\ Top.die \in Dies /\ Top.param \in live /\ param' = param
  BY TopType DEF TypeSubroutine, Typing, Running, Top, OInv
<1>n. PICK n \in Objs : n = New /\ n \notin live
  BY <1>1, NewObj
<1>2. PICK fr, rest \in Seq(AnyFrame) :
         /\ fr = frames /\ rest = Caller /\ IsTail(rest, fr) /\ Top = fr[1]
         /\ Stacked(fr, param) /\ Top.param \in Opens(fr) /\ Opens(fr) \subseteq live
         /\ Top.param \in Waits(rest, param)
         /\ Waits(fr, param) = Waits(rest, param) \cup {Child(Top)}
         /\ Waits(fr, param) \subseteq live \cup {None}
         /\ \A o \in Objs : Settled(o, Opens(fr), Waits(fr, param), obj[o])
  BY <1>1, TypingFacts
<1>3. PICK q \in Objs, t \in Dies :
         /\ q = Top.param /\ q # n
         /\ obj' = [obj EXCEPT ![q].size = Size(t), ![q].children = Append(@, n), ![n] = Fresh]
         /\ frames' = <<TypeCall(q, t), ArgsCall(q, t, 0, n)>> \o rest
  BY <1>1, <1>2, <1>n DEF TypeSubroutine, OInv, Types
<1>c. Child(Top) = None
  BY <1>1 DEF Child
<1>4. PICK f \in AnyFrame, g \in AnyFrame :
         /\ f = TypeCall(q, t) /\ g = ArgsCall(q, t, 0, n) /\ f.param = q /\ g.param = q
  BY FramesAre
<1>5. Child(f) = None /\ Child(g) = n
  BY <1>4 DEF TypeCall, ArgsCall, Child
<1>6. PICK s \in Seq(AnyFrame) : IsCons(s, g, rest)
  BY <1>4, ConsFacts, Zenon
<1>7. PICK all : IsCons(all, f, s)
  BY <1>4, <1>6, ConsFacts, Zenon
<1>8. all = frames'
  <2>1. IsPair(f, g, rest)
    BY PairFacts, Zenon
  <2>. QED
    BY <1>3, <1>4, <1>6, <1>7, <2>1 DEF IsPair, IsCons
<1>9. s[1] = g /\ IsTail(rest, s) /\ all[1] = f /\ IsTail(s, all)
  BY <1>6, <1>7, ConsTail
<1>10. /\ Stacked(s, param) /\ Opens(s) = Opens(fr)
       /\ Waits(s, param) = Waits(rest, param) \cup {n}
  BY <1>n, <1>2, <1>3, <1>4, <1>5, <1>9, TurnStack
<1>11. None \notin live
  BY NoneNotObj DEF OInv, Types
<1>12. /\ Stacked(all, param) /\ Opens(all) = Opens(fr)
       /\ Waits(all, param) = Waits(fr, param) \cup {n}
  <2>1. q \in Waits(s, param) /\ None \notin Opens(s) \cup {q}
    BY <1>2, <1>3, <1>10, <1>11, NoneNotObj
  <2>2. /\ Stacked(all, param) /\ Opens(all) = Opens(s) \cup {q}
        /\ Waits(all, param) = Waits(s, param) \cup {None}
    BY <1>4, <1>5, <1>9, <1>10, <2>1, PushStack
  <2>. QED
    BY <1>2, <1>3, <1>c, <1>10, <2>2
<1>13. PICK p \in ParamType, k \in Nat : p = obj[q] /\ k = Size(t)
  BY SizeType DEF OInv, Types
<1>14. PICK r : r = [p EXCEPT !.size = k, !.children = Append(@, n)]
  OBVIOUS
<1>15. \A o \in Objs : obj'[o] = IF o = n THEN Fresh ELSE IF o = q THEN r ELSE obj[o]
  BY <1>3, <1>13, <1>14 DEF OInv, Types
<1>16. Settled(q, Opens(all), Waits(all, param), r)
  <2>1. r.die = p.die /\ r.types = p.types /\ r.flags = p.flags /\ r.type_name = p.type_name
        /\ r.value = p.value
    BY <1>14 DEF ParamType
  <2>2. /\ Settled(q, Opens(fr), Waits(fr, param), p) /\ q \in Opens(fr) /\ q \in Waits(fr, param)
    BY <1>2, <1>3, <1>13
  <2>3. FlagsOK(p) /\ ~HasValue(p) /\ (Exempt(p) \/ Raw(p))
    BY <2>2 DEF Settled, NameOK, ValueOK
  <2>4. FlagsOK(r) /\ ~HasValue(r) /\ (Exempt(r) \/ Raw(r))
    BY <2>1, <2>3 DEF FlagsOK, Shows, Kinds, HasValue, Exempt, Raw
  <2>5. q \in Waits(all, param)
    BY <1>12, <2>2
  <2>. QED
    BY <2>4, <2>5 DEF Settled, NameOK, ValueOK
<1>17. ASSUME NEW o \in Objs, o # n, o # q PROVE Settled(o, Opens(all), Waits(all, param), obj[o])
  <2>1. o \in Waits(fr, param) <=> o \in Waits(all, param)
    BY <1>12, <1>17
  <2>. QED
    BY <1>2, <1>12, <2>1, KeptItself, KeptSettled
<1>18. \A o \in Objs : Settled(o, Opens(all), Waits(all, param), obj'[o])
  BY <1>15, <1>16, <1>17, FreshSettled
<1>. QED
  BY <1>1, <1>8, <1>12, <1>18 DEF DInv, Tasks

LEMMA InitDInv == Init => DInv
<1> SUFFICES ASSUME Init PROVE DInv
  OBVIOUS
<1>1. \A o \in Objs : obj[o] = Fresh
  BY DEF Init
<1>2. Tasks = <<>>
  BY DEF Init, Tasks
<1>. QED
  BY <1>1, <1>2, EmptyStack, FreshSettled DEF DInv

LEMMA NextDInv == OInv /\ DInv /\ [Next]_vars => DInv'
<1> SUFFICES ASSUME OInv, DInv, [Next]_vars PROVE DInv'
  OBVIOUS
<1>1. CASE UNCHANGED vars
  BY <1>1 DEF vars, DInv, Tasks
<1>2. CASE HandleDwarf \/ HandleReturn \/ HandleUnspecified
  BY <1>2, HandlesSettle
<1>3. CASE Outside
  BY <1>3, OutsideSettles
<1>4. CASE TypeFails \/ TypeLink \/ TypeSubroutine
  BY <1>4, TypeFailsSettles, TypeLinkSettles, TypeSubroutineSettles
<1>5. CASE ArgDone \/ ArgFormal \/ ArgUnspecified \/ ArgSkip \/ ArgsEnd
  BY <1>5, ArgDoneSettles, ArgFormalSettles, ArgUnspecifiedSettles, ArgSkipSettles, ArgsEndSettles
<1>. QED
  BY <1>1, <1>2, <1>3, <1>4, <1>5 DEF Next, Internal, Outside

-----------------------------------------------------------------------------
(* Between the calls *)

LEMMA Settles ==
    ASSUME OInv, CInv, DInv, phase = "ready", NEW o \in Objs
    PROVE  /\ obj[o] \in ParamType /\ View(obj[o]) = Goal(obj[o])
           /\ FlagsOK(obj[o]) /\ (Exempt(obj[o]) \/ Done(obj[o]))
           /\ HasValue(obj[o]) => obj[o].value.bytes = Bytes(obj[o])
<1>1. Tasks = <<>> /\ param = None
  BY DEF Tasks, OInv, Types
<1>2. Opens(Tasks) = {} /\ Waits(Tasks, param) = {None}
  BY <1>1, EmptyStack
<1>3. Settled(o, {}, {None}, obj[o]) /\ o # None
  BY <1>2, NoneNotObj DEF DInv
<1>4. View(obj[o]) = Goal(obj[o])
  BY <1>1, NoCalls DEF CInv
<1>5. obj[o] \in ParamType
  BY DEF OInv, Types
<1>. QED
  BY <1>3, <1>4, <1>5 DEF Settled, NameOK, ValueOK

LEMMA EmptyAfter ==
    ASSUME NEW d \in Dies
    PROVE  /\ After(Empty, d).types = Chain[d]
           /\ After(Empty, d).size = IF Die[d].type \in Dies THEN Size(End[d]) ELSE 0
<1>1. PICK c \in Seq(TypeName) : c = Chain[d]
  BY ChainFacts
<1>2. <<>> \o c = c
  BY ConcatFacts
<1>. QED
  BY <1>1, <1>2 DEF After, Empty

LEMMA TypesAgreeFromInv == OInv /\ CInv /\ DInv => TypesAgree
<1> SUFFICES ASSUME OInv, CInv, DInv, phase = "ready", NEW o \in live
             PROVE  LET p == obj[o] IN
                      CASE p.die = None -> p.types = <<>>
                        [] p.die # None /\ Die[p.die].tag = "subprogram" /\ Die[p.die].type = None ->
                              p.types = <<[name |-> "void", type |-> "VOID"]>>
                        [] OTHER ->
                              /\ p.types = Chain[p.die]
                              /\ "RETURN" \notin p.flags => p.type_name = FirstName(p.types)
                              /\ p.flags \cap (TypeFlags \ {"CONST"}) =
                                    {p.types[i].type : i \in 1 .. Len(p.types)} \ {"CONST"}
  BY DEF TypesAgree
<1>1. PICK p \in ParamType : /\ p = obj[o] /\ View(p) = Goal(p) /\ FlagsOK(p)
                             /\ Exempt(p) \/ Done(p)
  <2>1. o \in Objs
    BY DEF OInv, Types
  <2>. QED
    BY <2>1, Settles
<1>2. p.types = Goal(p).types
  BY <1>1 DEF View
<1>3. CASE p.die = None
  BY <1>1, <1>2, <1>3 DEF Goal, Empty
<1>4. CASE p.die # None /\ Die[p.die].tag = "subprogram" /\ Die[p.die].type = None
  BY <1>1, <1>2, <1>4 DEF Goal, VoidType
<1>5. CASE p.die # None /\ ~(Die[p.die].tag = "subprogram" /\ Die[p.die].type = None)
  <2>1. PICK d \in Dies : d = p.die
    BY <1>5 DEF ParamType
  <2>2. p.types = Chain[d]
    BY <1>2, <1>5, <2>1, EmptyAfter DEF Goal
  <2>3. "RETURN" \notin p.flags => p.type_name = FirstName(p.types)
    BY <1>1, <1>5 DEF Exempt, Done
  <2>4. p.flags \cap (TypeFlags \ {"CONST"}) =
           {p.types[i].type : i \in 1 .. Len(p.types)} \ {"CONST"}
    BY <1>1 DEF FlagsOK, Shows, Kinds
  <2>. QED
    BY <1>1, <1>5, <2>1, <2>2, <2>3, <2>4
<1>. QED
  BY <1>3, <1>4, <1>5

(* The types of every parameter and of every argument of a function type,   *)
(* at any depth, are those of its chain in order, its flags say no other    *)
(* types, and its type name is the first in the chain, however the calls    *)
(* for the types are nested.  parameter_handle_type, handle_subroutine and  *)
(* parameter_add_type.                                                      *)
THEOREM TypesAgreeCorrect == Spec => []TypesAgree
<1>1. Init => OInv /\ CInv /\ DInv
  BY InitOInv, InitCInv, InitDInv
<1>2. OInv /\ CInv /\ DInv /\ [Next]_vars => OInv' /\ CInv' /\ DInv'
  BY NextOInv, NextCInv, NextDInv
<1>. QED
  BY <1>1, <1>2, TypesAgreeFromInv, PTL DEF Spec

-----------------------------------------------------------------------------
(* The size of a value *)

LEMMA PlainEnd == \A d \in Dies : End[Plain[d]] = End[d]
<1> DEFINE Apart == {d \in Dies : End[Plain[d]] # End[d]}
<1> SUFFICES ASSUME Apart # {} PROVE FALSE
  OBVIOUS
<1>1. PICK d \in Apart : \A e \in Apart : Rank[d] <= Rank[e]
  <2>1. Apart \in SUBSET Dies
    OBVIOUS
  <2> HIDE DEF Apart
  <2>. QED
    BY <2>1, LeastRank
<1>2. d \in Dies /\ Plain[d] # d
  OBVIOUS
<1>3. PICK t \in Dies : t = Die[d].type /\ Plain[d] = Plain[t]
  BY <1>2, PlainFacts DEF Transparent
<1>4. End[d] = End[t]
  BY <1>2, <1>3, EndFacts
<1>5. t \in Apart
  BY <1>3, <1>4
<1>6. Rank[d] \in Nat /\ Rank[t] \in Nat /\ Rank[t] < Rank[d] /\ Rank[d] <= Rank[t]
  BY <1>1, <1>2, <1>3, <1>5, RankAssumption
<1>. QED
  BY <1>6

Has(ts, x) == \E i \in 1 .. Len(ts) : ts[i] = x

LEMMA ConcatHas ==
    ASSUME NEW S, NEW s \in Seq(S), NEW t \in Seq(S), NEW x, Has(s, x) \/ Has(t, x)
    PROVE  Has(s \o t, x)
<1>1. PICK n \in Nat, m \in Nat : n = Len(s) /\ m = Len(t)
  OBVIOUS
<1>2. PICK r \in Seq(S) : r = s \o t /\ Len(r) = n + m
  BY <1>1, ConcatType
<1>3. ASSUME NEW i \in 1 .. n, s[i] = x PROVE Has(r, x)
  <2>1. r[i] = s[i] /\ i \in 1 .. n + m
    BY <1>1, <1>2
  <2>. QED
    BY <1>2, <1>3, <2>1 DEF Has
<1>4. ASSUME NEW i \in 1 .. m, t[i] = x PROVE Has(r, x)
  <2>1. r[n + i] = t[i] /\ n + i \in 1 .. n + m
    BY <1>1, <1>2
  <2>. QED
    BY <1>2, <1>4, <2>1 DEF Has
<1>. QED
  BY <1>1, <1>2, <1>3, <1>4 DEF Has

LEMMA TwiceHas ==
    ASSUME NEW t \in Dies, NEW ts \in Seq(TypeName), NEW x, Has(Adds(t), x) \/ Has(ts, x)
    PROVE  Has(Twice(t, ts), x)
<1>1. PICK a \in Seq(TypeName) : a = (IF Die[t].tag = "subroutine_type" THEN ts ELSE <<>>)
  <2>1. (IF Die[t].tag = "subroutine_type" THEN ts ELSE <<>>) \in Seq(TypeName)
    OBVIOUS
  <2>. QED
    BY <2>1
<1>2. PICK c \in Seq(TypeName) : c = Adds(t)
  BY AddsSeq
<1>3. PICK b \in Seq(TypeName) : b = a \o c /\ (Has(c, x) => Has(b, x))
  <2>1. a \o c \in Seq(TypeName)
    BY ConcatType
  <2>2. Has(c, x) => Has(a \o c, x)
    BY ConcatHas
  <2>. QED
    BY <2>1, <2>2
<1>4. Has(b \o ts, x)
  <2>1. Has(b, x) \/ Has(ts, x)
    BY <1>2, <1>3
  <2>. QED
    BY <2>1, ConcatHas
<1>. QED
  BY <1>1, <1>2, <1>3, <1>4 DEF Twice

(* The type under the qualifiers and type definitions is in the chain. *)
LEMMA PlainAdds ==
    ASSUME NEW x
    PROVE  \A d \in Dies : Die[d].type \in Dies /\ Has(Adds(Plain[Die[d].type]), x) => Has(Chain[d], x)
<1> DEFINE Apart == {d \in Dies : /\ Die[d].type \in Dies /\ Has(Adds(Plain[Die[d].type]), x)
                                  /\ ~Has(Chain[d], x)}
<1> SUFFICES ASSUME Apart # {} PROVE FALSE
  OBVIOUS
<1>1. PICK d \in Apart : \A e \in Apart : Rank[d] <= Rank[e]
  <2>1. Apart \in SUBSET Dies
    OBVIOUS
  <2> HIDE DEF Apart
  <2>. QED
    BY <2>1, LeastRank
<1>2. PICK t \in Dies : t = Die[d].type /\ d \in Dies /\ Has(Adds(Plain[t]), x)
  OBVIOUS
<1>3. Chain[d] = Twice(t, Chain[t]) /\ Chain[t] \in Seq(TypeName)
  BY <1>2, ChainFacts
<1>4. ~Has(Adds(t), x) /\ ~Has(Chain[t], x)
  BY <1>2, <1>3, TwiceHas
<1>5. Plain[t] # t
  BY <1>2, <1>4
<1>6. PICK u \in Dies : u = Die[t].type /\ Plain[t] = Plain[u]
  BY <1>5, PlainFacts DEF Transparent
<1>7. t \in Apart
  BY <1>2, <1>4, <1>6
<1>8. Rank[d] \in Nat /\ Rank[t] \in Nat /\ Rank[t] < Rank[d] /\ Rank[d] <= Rank[t]
  BY <1>1, <1>2, <1>7, RankAssumption
<1>. QED
  BY <1>8

LEMMA PointerAdds ==
    ASSUME NEW t \in Dies, Die[t].tag \in {"pointer_type", "subroutine_type"}
    PROVE  \E x : Has(Adds(t), x) /\ x.type \in {"POINTER", "FUNCPTR"}
<1>1. PICK x : x = [name |-> None, type |-> TagFlag[Die[t].tag]]
  OBVIOUS
<1>2. Die[t].tag \in DOMAIN TagFlag /\ TagFlag[Die[t].tag] \in {"POINTER", "FUNCPTR"}
  BY DEF TagFlag
<1>3. Adds(t) = <<x>>
  BY <1>1, <1>2 DEF Adds
<1>4. Has(<<x>>, x)
  BY DEF Has
<1>. QED
  BY <1>1, <1>2, <1>3, <1>4

LEMMA BytesAre ==
    ASSUME NEW p, p.size \in Nat
    PROVE  Bytes(p) >= (IF p.size < 8 THEN p.size ELSE 8) \/ (p.size > 8 /\ p.size % 8 # 0)
<1>1. PICK n \in Nat : n = p.size
  OBVIOUS
<1>2. n < 8 /\ n # 0 => n % 8 = n
  OBVIOUS
<1>3. 0 % 8 = 0 /\ 8 % 8 = 0
  OBVIOUS
<1>4. n < 8 \/ n = 8 \/ n > 8
  OBVIOUS
<1>. QED
  BY <1>1, <1>2, <1>3, <1>4 DEF Bytes

LEMMA ValueWholeFromInv == OInv /\ VInv /\ CInv /\ DInv => ValueWhole
<1> SUFFICES ASSUME OInv, VInv, CInv, DInv, phase = "ready", NEW o \in Valued
             PROVE  LET d == obj[o].die
                        t == IF Die[d].type \in Dies THEN Plain[Die[d].type] ELSE d
                        s == Size(t)
                    IN \/ obj[o].value.bytes >= IF s < 8 THEN s ELSE 8
                       \/ Die[t].tag \notin {"pointer_type", "subroutine_type"}
                          /\ Die[t].type \in Dies
                       \/ s > 8 /\ s % 8 # 0
  BY DEF ValueWhole
<1>1. PICK j \in 1 .. Len(params) : o = params[j] /\ o \in Objs
  <2>1. params \in Seq(Objs)
    BY DEF OInv, Types
  <2>. QED
    BY <2>1, RangeFacts DEF Valued
<1>2. HasValue(obj[o]) /\ obj[o].die \in Dies
  <2>1. ValuedOK(obj[o], offset)
    BY <1>1 DEF VInv
  <2>. QED
    BY <2>1 DEF ValuedOK, Located, Valued, HasValue
<1>3. PICK p \in ParamType : /\ p = obj[o] /\ View(p) = Goal(p) /\ FlagsOK(p)
                             /\ p.value.bytes = Bytes(p)
  BY <1>1, <1>2, Settles
<1>4. PICK d \in Dies : d = p.die /\ d # None
  BY <1>2, <1>3, NoneNotObj
<1>5. PICK t \in Dies : t = IF Die[d].type \in Dies THEN Plain[Die[d].type] ELSE d
  BY PlainFacts
<1>6. PICK s \in Nat : s = Size(t)
  BY SizeType
<1>7. p.types = Goal(p).types /\ p.size = Goal(p).size
  BY <1>3 DEF View
<1>8. CASE Die[d].type \notin Dies
  <2>1. p.size = 0
    BY <1>4, <1>7, <1>8, EmptyAfter DEF Goal
  <2>2. Bytes(p) = 8
    BY <2>1 DEF Bytes
  <2>3. 8 >= IF s < 8 THEN s ELSE 8
    BY <1>6
  <2>. QED
    BY <1>3, <1>4, <1>5, <1>6, <2>2, <2>3
<1>9. CASE Die[d].type \in Dies
  <2>1. PICK u \in Dies : u = Die[d].type /\ t = Plain[u]
    BY <1>5, <1>9
  <2>2. u # None
    BY NoneNotObj
  <2>3. p.types = Chain[d] /\ p.size = Size(End[d])
    BY <1>4, <1>7, <1>9, <2>1, <2>2, EmptyAfter DEF Goal
  <2>4. CASE Die[t].tag \in {"pointer_type", "subroutine_type"}
    <3>1. PICK x : Has(Adds(t), x) /\ x.type \in {"POINTER", "FUNCPTR"}
      BY <2>4, PointerAdds
    <3>2. Has(p.types, x)
      BY <1>9, <2>1, <2>3, <3>1, PlainAdds
    <3>3. x.type \in Kinds(p)
      BY <3>1, <3>2 DEF Kinds, Has
    <3>4. IsPointer(p)
      BY <1>3, <3>1, <3>3 DEF FlagsOK, Shows, IsPointer
    <3>5. Bytes(p) = 8
      BY <3>4 DEF Bytes
    <3>6. 8 >= IF s < 8 THEN s ELSE 8
      BY <1>6
    <3>. QED
      BY <1>3, <1>4, <1>5, <1>6, <3>5, <3>6
  <2>5. CASE Die[t].type \notin Dies
    <3>1. End[t] = t
      BY <2>5, EndFacts
    <3>2. End[d] = t
      BY <1>9, <2>1, <3>1, EndFacts, PlainEnd
    <3>3. p.size = s
      BY <1>6, <2>3, <3>2
    <3>4. Bytes(p) >= (IF s < 8 THEN s ELSE 8) \/ (s > 8 /\ s % 8 # 0)
      BY <1>6, <3>3, BytesAre
    <3>. QED
      BY <1>3, <1>4, <1>5, <1>6, <3>4
  <2>6. CASE Die[t].tag \notin {"pointer_type", "subroutine_type"} /\ Die[t].type \in Dies
    BY <1>3, <1>4, <1>5, <2>6
  <2>. QED
    BY <2>4, <2>5, <2>6
<1>. QED
  BY <1>8, <1>9

(* A value keeps all the bytes of its parameter's type, but for those of a  *)
(* type that is made of another one and for types of more than 8 bytes: the *)
(* size and the pointer flags it is cut by are those of the whole chain.    *)
(* parameter_handle_dwarf, from its call of parameter_handle_type on.       *)
THEOREM ValueWholeCorrect == Spec => []ValueWhole
<1>1. Init => OInv /\ VInv /\ CInv /\ DInv
  BY InitOInv, InitVInv, InitCInv, InitDInv
<1>2. OInv /\ VInv /\ CInv /\ DInv /\ [Next]_vars => OInv' /\ VInv' /\ CInv' /\ DInv'
  BY NextOInv, NextVInv, NextCInv, NextDInv
<1>. QED
  BY <1>1, <1>2, ValueWholeFromInv, PTL DEF Spec
=============================================================================
