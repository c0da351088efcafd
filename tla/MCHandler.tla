----------------------------- MODULE MCHandler -----------------------------
(***************************************************************************)
(* Handler on stacks of up to four frames: the library's own frame, the    *)
(* interrupted function, a frame that cannot be read, one without a name,  *)
(* and callers.                                                            *)
(***************************************************************************)
EXTENDS Handler, TLC

CONSTANTS lib, bad, inner, outer, row, anon

Die(tag) == [tag |-> tag]
CallSite(callee) == [tag |-> "call_site", callee |-> callee]

(* f calls itself and is called by g; the library's functions have no       *)
(* debug information.  A return address in g is in the middle of a line.    *)
MCLineAddr == [p \in PCs |-> IF p = outer THEN row ELSE p]
MCFunctionAt == lib :> "pst" @@ bad :> "g" @@ inner :> "f" @@ outer :> "g" @@ row :> "g"
                @@ anon :> NULL
MCNames == {"pst", "f", "g"}
MCChildren ==
    "f" :> <<Die("entry_variable"), CallSite("f")>>
    @@ "g" :> <<Die("variable"), CallSite("f"), Die("unspecified")>>

MCStacks == {<<lib, inner, inner, outer>>, <<lib, inner, bad, outer>>, <<lib, anon, outer>>}
=============================================================================
