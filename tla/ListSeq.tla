------------------------------ MODULE ListSeq ------------------------------
(***************************************************************************)
(* What src/utils/list_head.h promises its callers: every head is a        *)
(* sequence of distinct nodes, a node is on at most one list, and each     *)
(* operation inserts one node at one place or removes one node.  The       *)
(* module ListHead, which has the pointers, implements this one.           *)
(***************************************************************************)
EXTENDS Naturals, Sequences, SequencesExt

CONSTANTS Heads,    \* the list_head structures
          Nodes     \* the list_node structures embedded in the list entries

VARIABLE list       \* list[h]: the nodes of h, from first to last

Listed == UNION {Range(list[h]) : h \in Heads}

Init == list = [h \in Heads |-> <<>>]

(* A node that is on no list becomes the i-th of h. *)
Insert(h, i, n) ==
    /\ n \notin Listed
    /\ list' = [list EXCEPT ![h] = InsertAt(list[h], i, n)]

(* The node leaves the list it is on, the others keep their order. *)
Delete(n) ==
    \E h \in Heads : \E i \in 1 .. Len(list[h]) :
        /\ list[h][i] = n
        /\ list' = [list EXCEPT ![h] = RemoveAt(list[h], i)]

Next == \/ \E h \in Heads, n \in Nodes :
              \E i \in 1 .. Len(list[h]) + 1 : Insert(h, i, n)
        \/ \E n \in Nodes : Delete(n)

Spec == Init /\ [][Next]_list
=============================================================================
