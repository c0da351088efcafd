---------------------------- MODULE MCParameter ----------------------------
(***************************************************************************)
(* Parameter on a function whose parameters have base, qualified, pointer, *)
(* reference, structure and nested function types, and whose values are in *)
(* an expression, a location list, the debug information, or nowhere.  One *)
(* list is in order, the other has ranges that overlap and an empty one.   *)
(***************************************************************************)
EXTENDS Parameter

NoLoc == [form |-> "none", entries |-> <<>>]
Type(tag, size, type) ==
    [tag |-> tag, enc |-> "none", name |-> None, size |-> size, type |-> type,
     args |-> <<>>, loc |-> NoLoc, const |-> "none"]
Base(name, enc, size) == [Type("base_type", size, None) EXCEPT !.name = name, !.enc = enc]
Var(tag, type, form, entries) ==
    [Type(tag, None, type) EXCEPT !.loc = [form |-> form, entries |-> entries]]
Range2(a, b) == [start |-> a, end |-> b]

MCDie == [
    char |-> Base("char", "signed_char", 1), int |-> Base("int", "signed", 4),
    word |-> Base("word", "address", 8), odd |-> Base("odd", "none", 2),
    rec |-> Type("structure_type", 12, None), wide |-> Type("union_type", 16, None),
    cchar |-> Type("const_type", None, "char"),
    ptr |-> Type("pointer_type", 8, "cchar"),
    td |-> [Type("typedef", None, "ptr") EXCEPT !.name = "str_t"],
    ref |-> Type("reference_type", 8, "int"),
    arg |-> Type("formal_parameter", None, "td"),
    dots |-> Type("unspecified_parameters", None, None),
    fn |-> [Type("subroutine_type", None, "int") EXCEPT !.args = <<"arg">>],
    pfn |-> Type("pointer_type", 8, "fn"),
    arg2 |-> Type("formal_parameter", None, "pfn"),
    fn2 |-> [Type("subroutine_type", None, "pfn") EXCEPT !.args = <<"char", "arg2">>],
    pfn2 |-> Type("pointer_type", 8, "fn2"),
    fnbad |-> [Type("subroutine_type", None, Bad) EXCEPT !.args = <<"arg", "dots">>],
    v_td |-> Var("formal_parameter", "td", "loclist", <<Range2(0, 4), Range2(4, 8)>>),
    v_rec |-> Var("variable", "rec", "loclist", <<Range2(0, 8), Range2(4, 4), Range2(1, 4)>>),
    v_wide |-> Var("variable", "wide", "exprloc", <<Range2(0, 0)>>),
    v_ref |-> Var("formal_parameter", "ref", "exprloc", <<Range2(0, 0)>>),
    v_fn |-> Var("variable", "pfn2", "unknown", <<>>),
    v_odd |-> Var("variable", "odd", "none", <<>>),
    v_word |-> [Var("variable", "word", "none", <<>>) EXCEPT !.const = "known"],
    v_char |-> [Var("variable", "cchar", "none", <<>>) EXCEPT !.const = "unknown"],
    f_void |-> Type("subprogram", None, None),
    f_int |-> Type("subprogram", None, "int"),
    f_bad |-> Type("subprogram", None, "fnbad")]
MCDies == DOMAIN MCDie

MCRank ==
    [d \in MCDies |->
        CASE d \in {"char", "int", "word", "odd", "rec", "wide", "dots", "f_void"} -> 0
          [] d \in {"cchar", "ref", "f_int", "v_rec", "v_wide", "v_odd", "v_word"} -> 1
          [] d \in {"ptr", "v_ref", "v_char"} -> 2
          [] d = "td" -> 3
          [] d \in {"arg", "v_td"} -> 4
          [] d \in {"fn", "fnbad"} -> 5
          [] d \in {"pfn", "f_bad"} -> 6
          [] d = "arg2" -> 7
          [] d = "fn2" -> 8
          [] d = "pfn2" -> 9
          [] d = "v_fn" -> 10]
=============================================================================
