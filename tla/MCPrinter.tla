------------------------------ MODULE MCPrinter ------------------------------
(***************************************************************************)
(* Printer with a function without debug information, one with a return    *)
(* value, parameters and variables, and one with a function pointer; the   *)
(* buffer holds the text of one of them handled twice, or of two of them.  *)
(***************************************************************************)
EXTENDS Printer

P(name, flags, types, type_name, value) ==
    [name |-> name, flags |-> flags, types |-> types, type_name |-> type_name, value |-> value,
     children |-> <<>>]
Arg(flags, types, type_name) == [flags |-> flags, types |-> types, type_name |-> type_name]
Return(type_name) == P(None, {"RETURN", "INT"}, <<"INT">>, type_name, None)

MCInfo == [
    start |-> [name |-> "start", file |-> FALSE, params |-> <<>>],
    add |-> [name |-> "add", file |-> TRUE, params |->
        <<Return("int"),
          P("a", {"HAS_VALUE", "POINTER", "CONST", "INVALID"}, <<"POINTER", "CONST">>, "char", "0"),
          P("b", {"CONST", "REF"}, <<"CONST", "REF">>, "int", None),
          P("v", {"VARIABLE", "HAS_VALUE", "INT"}, <<"INT">>, "int", "7"),
          P("w", {"VARIABLE"}, <<>>, "void", None)>>],
    call |-> [name |-> "call", file |-> TRUE, params |->
        <<[P("f", {"HAS_VALUE", "POINTER", "FUNCPTR", "INVALID"}, <<"POINTER", "FUNCPTR">>, "int", "9")
             EXCEPT !.children = <<Arg({"RETURN"}, <<>>, "void"), Arg({"STRUCT"}, <<"STRUCT">>, "s"),
                                   Arg({"ARRAY", "RREF"}, <<"ARRAY", "RREF">>, None)>>]>>]]
MCFunctions == DOMAIN MCInfo

Op1(name) == [name |-> name, sub |-> None]
Entry(sub) == [name |-> "GNU_entry_value", sub |-> sub]
MCExpr == [
    plain |-> <<Op1("breg7"), Op1("plus_uconst")>>,
    entry |-> <<Entry("plain"), Op1("stack_value"), Entry(None), Op1("deref")>>,
    twice |-> <<Entry("entry"), Op1("plus")>>,
    late |-> <<Op1("lit0"), Entry("plain"), Op1("plus")>>]
MCExprs == DOMAIN MCExpr
MCRank == [plain |-> 0, entry |-> 1, late |-> 1, twice |-> 2]
=============================================================================
