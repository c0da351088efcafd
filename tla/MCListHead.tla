----------------------------- MODULE MCListHead -----------------------------
(***************************************************************************)
(* The walks over a list, and ListSeq implemented by ListHead.             *)
(***************************************************************************)
EXTENDS ListHead

(* The c nodes met from n on along a link. *)
Walk(c, n, link) ==
    LET w[i \in 1 .. c] == IF i = 1 THEN n ELSE link[w[i - 1]]
    IN  w

(* The nodes of h as list_next meets them, starting at list_first, and as  *)
(* list_prev meets them, starting at list_last.                            *)
Forward(h)  == Walk(count[h], first[h], next)
Backward(h) == Walk(count[h], last[h], prev)

(* Walking back meets the nodes of the forward walk in reverse order: the   *)
(* handler unwinds its frames from the last to the first and prints them    *)
(* from the first to the last.                                              *)
WalksAgree ==
    \A h \in Heads : \A i \in 1 .. count[h] :
        Forward(h)[i] = Backward(h)[count[h] + 1 - i]

Lists == INSTANCE ListSeq WITH list <- [h \in Heads |-> Forward(h)]

(* The pointers implement the sequences of ListSeq. *)
Refines == Lists!Spec
=============================================================================
