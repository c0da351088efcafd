------------------------------ MODULE ListHead ------------------------------
(***************************************************************************)
(* The intrusive doubly linked list of src/utils/list_head.h, pointer by   *)
(* pointer.  Every container of the library is built on it: the frames of  *)
(* a handler, the parameters of a function, the call sites of a caller,    *)
(* the values and the operations of a DWARF stack and the buckets of the   *)
(* hash tables.                                                            *)
(*                                                                         *)
(* A node is embedded in its entry, so a node stands for the entry too.    *)
(* The operations do not test what they are given; the callers in src/     *)
(* add only nodes that list_node_init or list_del has just reset, which is *)
(* the guard Fresh.  list_for_each_entry_safe is modelled by the one use   *)
(* the library makes of it, the loop that empties a list (the `clear' of   *)
(* every container); nothing else runs while it does.                      *)
(***************************************************************************)
EXTENDS Naturals, FiniteSets

CONSTANTS Heads,    \* the list_head structures
          Nodes,    \* the list_node structures
          NULL

ASSUME NullAssumption == NULL \notin Nodes /\ NULL \notin Heads
ASSUME NodesAssumption == IsFiniteSet(Nodes)

VARIABLES
    first, last, count,   \* the fields of a list_head
    next, prev, head,     \* the fields of a list_node
    sweep,                \* the list being emptied by a `clear' loop, or NULL
    pos, tn               \* the loop's cursor and the successor it has saved

links == <<first, last, count, next, prev, head>>
loop  == <<sweep, pos, tn>>
vars  == <<first, last, count, next, prev, head, sweep, pos, tn>>

NodeOrNull == Nodes \cup {NULL}

TypeOK ==
    /\ first \in [Heads -> NodeOrNull] /\ last \in [Heads -> NodeOrNull]
    /\ count \in [Heads -> Nat]
    /\ next \in [Nodes -> NodeOrNull] /\ prev \in [Nodes -> NodeOrNull]
    /\ head \in [Nodes -> Heads \cup {NULL}]
    /\ sweep \in Heads \cup {NULL}
    /\ pos \in NodeOrNull /\ tn \in NodeOrNull

(* list_head_init on every head and list_node_init on every node. *)
Init ==
    /\ first = [h \in Heads |-> NULL] /\ last = [h \in Heads |-> NULL]
    /\ count = [h \in Heads |-> 0]
    /\ next = [n \in Nodes |-> NULL] /\ prev = [n \in Nodes |-> NULL]
    /\ head = [n \in Nodes |-> NULL]
    /\ sweep = NULL /\ pos = NULL /\ tn = NULL

-----------------------------------------------------------------------------
(* Adding: the caller's node is on no list. *)

Fresh(n) == head[n] = NULL

(* if(p) p->field = v *)
SetLink(field, p, v) == IF p = NULL THEN field ELSE [field EXCEPT ![p] = v]

AddHead(h, n) ==
    LET pfirst == first[h] IN
    /\ Fresh(n)
    /\ first' = [first EXCEPT ![h] = n]
    /\ next' = [next EXCEPT ![n] = pfirst]
    /\ prev' = SetLink([prev EXCEPT ![n] = NULL], pfirst, n)
    /\ last' = IF pfirst = NULL THEN [last EXCEPT ![h] = n] ELSE last
    /\ head' = [head EXCEPT ![n] = h]
    /\ count' = [count EXCEPT ![h] = @ + 1]
    /\ UNCHANGED loop

AddBottom(h, n) ==
    LET plast == last[h] IN
    /\ Fresh(n)
    /\ last' = [last EXCEPT ![h] = n]
    /\ prev' = [prev EXCEPT ![n] = plast]
    /\ next' = SetLink([next EXCEPT ![n] = NULL], plast, n)
    /\ first' = IF plast = NULL THEN [first EXCEPT ![h] = n] ELSE first
    /\ head' = [head EXCEPT ![n] = h]
    /\ count' = [count EXCEPT ![h] = @ + 1]
    /\ UNCHANGED loop

(* Mutant: the successor keeps pointing back at base. *)
AddAfter_NoPrev(base, n) ==
    LET h     == head[base]
        pnext == next[base]
    IN
    /\ Fresh(n) /\ h # NULL
    /\ next' = [next EXCEPT ![base] = n, ![n] = pnext]
    /\ prev' = [prev EXCEPT ![n] = base]
    /\ last' = IF pnext = NULL THEN [last EXCEPT ![h] = n] ELSE last
    /\ head' = [head EXCEPT ![n] = h]
    /\ count' = [count EXCEPT ![h] = @ + 1]
    /\ UNCHANGED <<first, loop>>

AddAfter(base, n) ==
    LET h     == head[base]
        pnext == next[base]
    IN
    /\ Fresh(n) /\ h # NULL
    /\ next' = [next EXCEPT ![base] = n, ![n] = pnext]
    /\ prev' = SetLink([prev EXCEPT ![n] = base], pnext, n)
    /\ last' = IF pnext = NULL THEN [last EXCEPT ![h] = n] ELSE last
    /\ head' = [head EXCEPT ![n] = h]
    /\ count' = [count EXCEPT ![h] = @ + 1]
    /\ UNCHANGED <<first, loop>>

(* Mutant: the node is not counted. *)
AddBefore_NoCount(base, n) ==
    LET h     == head[base]
        pprev == prev[base]
    IN
    /\ Fresh(n) /\ h # NULL
    /\ prev' = [prev EXCEPT ![base] = n, ![n] = pprev]
    /\ next' = SetLink([next EXCEPT ![n] = base], pprev, n)
    /\ first' = IF pprev = NULL THEN [first EXCEPT ![h] = n] ELSE first
    /\ head' = [head EXCEPT ![n] = h]
    /\ UNCHANGED <<last, count, loop>>

AddBefore(base, n) ==
    LET h     == head[base]
        pprev == prev[base]
    IN
    /\ Fresh(n) /\ h # NULL
    /\ prev' = [prev EXCEPT ![base] = n, ![n] = pprev]
    /\ next' = SetLink([next EXCEPT ![n] = base], pprev, n)
    /\ first' = IF pprev = NULL THEN [first EXCEPT ![h] = n] ELSE first
    /\ head' = [head EXCEPT ![n] = h]
    /\ count' = [count EXCEPT ![h] = @ + 1]
    /\ UNCHANGED <<last, loop>>

-----------------------------------------------------------------------------
(* Removing.  A node on no list is only reset: its links are NULL already. *)

(* Mutant: removing the bottom node leaves the head's last as it is. *)
Unlink_NoLast(n) ==
    LET h == head[n]
        p == prev[n]
        s == next[n]
    IN
    IF h = NULL THEN UNCHANGED links
    ELSE
    /\ next' = [SetLink(next, p, s) EXCEPT ![n] = NULL]
    /\ prev' = [SetLink(prev, s, p) EXCEPT ![n] = NULL]
    /\ first' = IF p = NULL THEN [first EXCEPT ![h] = s] ELSE first
    /\ head' = [head EXCEPT ![n] = NULL]
    /\ count' = [count EXCEPT ![h] = @ - 1]
    /\ UNCHANGED last

Unlink(n) ==
    LET h == head[n]
        p == prev[n]
        s == next[n]
    IN
    IF h = NULL THEN UNCHANGED links
    ELSE
    /\ next' = [SetLink(next, p, s) EXCEPT ![n] = NULL]
    /\ prev' = [SetLink(prev, s, p) EXCEPT ![n] = NULL]
    /\ first' = IF p = NULL THEN [first EXCEPT ![h] = s] ELSE first
    /\ last' = IF s = NULL THEN [last EXCEPT ![h] = p] ELSE last
    /\ head' = [head EXCEPT ![n] = NULL]
    /\ count' = [count EXCEPT ![h] = @ - 1]

(* list_del and list_del_init: the second resets the node once more. *)
Del(n) == Unlink(n) /\ UNCHANGED loop

-----------------------------------------------------------------------------
(* for(pos = head->first; pos && (tn = pos->next, 1); pos = tn) list_del(pos) *)

SuccOrNull(n, nx) == IF n = NULL THEN NULL ELSE nx[n]

SweepBegin(h) ==
    /\ sweep' = h
    /\ pos' = first[h]
    /\ tn' = SuccOrNull(first[h], next)
    /\ UNCHANGED links

(* Mutant: the successor is read from the node that was just unlinked. *)
SweepDel_Unsafe ==
    /\ sweep # NULL /\ pos # NULL
    /\ Unlink(pos)
    /\ pos' = next'[pos]
    /\ tn' = SuccOrNull(pos', next')
    /\ UNCHANGED sweep

(* Mutant: the cursor does not move. *)
SweepDel_NoAdvance ==
    /\ sweep # NULL /\ pos # NULL
    /\ Unlink(pos)
    /\ UNCHANGED loop

SweepDel ==
    /\ sweep # NULL /\ pos # NULL
    /\ Unlink(pos)
    /\ pos' = tn
    /\ tn' = SuccOrNull(tn, next')
    /\ UNCHANGED sweep

SweepEnd ==
    /\ sweep # NULL /\ pos = NULL
    /\ sweep' = NULL
    /\ UNCHANGED <<links, pos, tn>>

Operation ==
    \/ \E h \in Heads, n \in Nodes : AddHead(h, n) \/ AddBottom(h, n)
    \/ \E base, n \in Nodes : AddAfter(base, n) \/ AddBefore(base, n)
    \/ \E n \in Nodes : Del(n)
    \/ \E h \in Heads : SweepBegin(h)

Next == \/ sweep = NULL /\ Operation
        \/ SweepDel
        \/ SweepEnd

(* The loop is straight-line code: once entered it goes on. *)
Fairness == WF_vars(SweepDel) /\ WF_vars(SweepEnd)

Spec == Init /\ [][Next]_vars /\ Fairness

-----------------------------------------------------------------------------
(* Properties *)

(* The links of a node agree with its neighbours' and with its head's: a    *)
(* successor points back and is on the same list, the ends are the head's   *)
(* first and last, and a node on no list has no links.  A list_del that     *)
(* misses one of the four pointers breaks it only for the next operation.   *)
LinksOK ==
    /\ \A n \in Nodes : head[n] = NULL => next[n] = NULL /\ prev[n] = NULL
    /\ \A n \in Nodes : head[n] # NULL =>
          /\ IF next[n] = NULL
             THEN last[head[n]] = n
             ELSE prev[next[n]] = n /\ head[next[n]] = head[n]
          /\ IF prev[n] = NULL
             THEN first[head[n]] = n
             ELSE next[prev[n]] = n /\ head[prev[n]] = head[n]
    /\ \A h \in Heads :
          /\ first[h] = NULL <=> last[h] = NULL
          /\ first[h] # NULL => head[first[h]] = h /\ prev[first[h]] = NULL
          /\ last[h] # NULL => head[last[h]] = h /\ next[last[h]] = NULL

(* count is the number of nodes that name the head as theirs: list_count    *)
(* is how the callers decide that a frame list or a stack is empty.         *)
CountOK == \A h \in Heads : count[h] = Cardinality({n \in Nodes : head[n] = h})

(* While a list is emptied the cursor and the saved successor are its first *)
(* two nodes, so the loop never follows a link of a node it has released.   *)
SweepOK ==
    sweep # NULL => pos = first[sweep] /\ tn = SuccOrNull(pos, next)

(* When the loop of a `clear' ends the list is empty. *)
SweepEmpties ==
    (sweep # NULL /\ pos = NULL) => count[sweep] = 0 /\ last[sweep] = NULL

(* Every `clear' ends. *)
SweepTerminates == sweep # NULL ~> sweep = NULL
=============================================================================
