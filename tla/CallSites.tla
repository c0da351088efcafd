----------------------------- MODULE CallSites -----------------------------
(***************************************************************************)
(* The call sites of one function: pst_call_site_storage of                *)
(* src/dwarf/dwarf_call_site.c, over the hash table of                     *)
(* src/utils/hash_multimap.c.                                              *)
(*                                                                         *)
(* A site is on the list of its storage and, through a node embedded in    *)
(* it, on a chain of one of two hash tables: by the address it calls if    *)
(* that is known, otherwise by the name.  Sites of one function may have   *)
(* the same key: a function is called more than once.  A node stands for   *)
(* the site it is embedded in.                                             *)
(*                                                                         *)
(* A callee that evaluates DW_OP_GNU_entry_value looks its site up in the  *)
(* storage of its caller.                                                  *)
(***************************************************************************)
EXTENDS Naturals, Sequences, FiniteSets, SequencesExt

CONSTANTS
    Sites,      \* heap objects: the bound on allocated call sites
    Targets,    \* addresses of functions
    Names,      \* names of functions
    Buckets,    \* indices of the chains of a hash table
    Bucket,     \* a function: the chain of a key, hash_fn(key) & hash_mask
    Exprs,      \* location expressions: sequences of operations
    Values,     \* values of parameters
    NULL,       \* no address, no name, no site
    MaxParams   \* bound on the parameters of all sites together

Keys == Targets \cup Names

ASSUME NullAssumption == NULL \notin Sites \cup Keys
ASSUME KeysAssumption == Targets \cap Names = {}
ASSUME BucketAssumption == Bucket \in [Keys -> Buckets]
ASSUME ExprsAssumption == \A e \in Exprs : e \in Seq({e[i] : i \in 1 .. Len(e)})

Tables == {"target", "origin"}

Params == [location : Exprs, value : Values]

VARIABLES
    call_sites,      \* the list of the storage
    live,            \* the sites that are allocated
    target, origin,  \* their fields
    params,          \* and the list of their parameters
    table,           \* cs_to_target and cs_to_origin: the chains of nodes
    site,            \* the site whose children are being handled, or NULL
    fault            \* what went wrong, or "none"

fields == <<target, origin, params>>
vars == <<call_sites, live, target, origin, params, table, site, fault>>

TypeOK ==
    /\ call_sites \in Seq(Sites) /\ live \subseteq Sites
    /\ target \in [Sites -> Targets \cup {NULL}]
    /\ origin \in [Sites -> Names \cup {NULL}]
    /\ params \in [Sites -> Seq(Params)]
    /\ table \in [Tables -> [Buckets -> Seq(Sites)]]
    /\ site \in Sites \cup {NULL}
    /\ fault \in {"none", "use_after_free"}

Init ==
    /\ call_sites = <<>> /\ live = {}
    /\ target = [s \in Sites |-> NULL] /\ origin = [s \in Sites |-> NULL]
    /\ params = [s \in Sites |-> <<>>]
    /\ table = [t \in Tables |-> [b \in Buckets |-> <<>>]]
    /\ site = NULL /\ fault = "none"

-----------------------------------------------------------------------------
(* The hash table *)

(* The table a site is entered in, and its key there. *)
TableOf(s) == IF target[s] # NULL THEN "target" ELSE "origin"
Key(s)     == IF target[s] # NULL THEN target[s] ELSE origin[s]

Chain(t, k) == table[t][Bucket[k]]

Nodes(t, b) == {table[t][b][i] : i \in 1 .. Len(table[t][b])}
Linked == UNION {Nodes(t, b) : t \in Tables, b \in Buckets}

(* hash_find: the position of the first node of the chain with that key,   *)
(* or 0.                                                                   *)
hash_find(t, k) == SelectInSeq(Chain(t, k), LAMBDA s : Key(s) = k)

(* The nodes it reads on the way. *)
Visited(t, k) ==
    LET i == hash_find(t, k) IN
    {Chain(t, k)[j] : j \in 1 .. IF i = 0 THEN Len(Chain(t, k)) ELSE i}

(* list_add_bottom writes the last node of the chain. *)
AddReads(t, k) == LET c == Chain(t, k) IN IF c = <<>> THEN {} ELSE {c[Len(c)]}

(* list_del writes the i-th node, if there is one, and its neighbours. *)
DelReads(t, k, i) ==
    LET c == Chain(t, k) IN
    IF i = 0 THEN {} ELSE {c[j] : j \in {i - 1, i, i + 1} \cap 1 .. Len(c)}

hash_add(t, k, s) ==
    table' = [table EXCEPT ![t][Bucket[k]] = Append(@, s)]

hash_del(t, k, i) ==
    table' = [table EXCEPT ![t][Bucket[k]] = RemoveAt(@, i)]

UseAfterFree ==
    fault' = "use_after_free" /\ UNCHANGED <<call_sites, live, fields, table, site>>

-----------------------------------------------------------------------------
(* pst_call_site_storage_handle_dwarf, for a DW_TAG_GNU_call_site that has *)
(* an origin or a target whose expression can be calculated, and children. *)

(* The memory of a site that is still linked in a table is not given out   *)
(* again: the next use of the stale node is reported as the fault it is.   *)
New == CHOOSE s \in Sites \ (live \cup Linked) : TRUE

(* Mutant: a site with a known target is entered under its name. *)
storage_add_ByName(tgt, org) ==
    LET t == IF org # NULL THEN "origin" ELSE "target"
        k == IF org # NULL THEN org ELSE tgt
    IN
    /\ call_sites' = Append(call_sites, New)
    /\ live' = live \cup {New}
    /\ target' = [target EXCEPT ![New] = tgt]
    /\ origin' = [origin EXCEPT ![New] = org]
    /\ params' = [params EXCEPT ![New] = <<>>]
    /\ hash_add(t, k, New)
    /\ site' = New

(* Mutant: the address and the name are swapped. *)
storage_add_Swapped(tgt, org) ==
    LET t == IF tgt # NULL THEN "target" ELSE "origin"
        k == IF tgt # NULL THEN tgt ELSE org
    IN
    /\ call_sites' = Append(call_sites, New)
    /\ live' = live \cup {New}
    /\ target' = [target EXCEPT ![New] = org]
    /\ origin' = [origin EXCEPT ![New] = tgt]
    /\ params' = [params EXCEPT ![New] = <<>>]
    /\ hash_add(t, k, New)
    /\ site' = New

(* pst_call_site_storage_add: a site with a target is not entered under its *)
(* name.                                                                    *)
storage_add(tgt, org) ==
    LET t == IF tgt # NULL THEN "target" ELSE "origin"
        k == IF tgt # NULL THEN tgt ELSE org
    IN
    /\ call_sites' = Append(call_sites, New)
    /\ live' = live \cup {New}
    /\ target' = [target EXCEPT ![New] = tgt]
    /\ origin' = [origin EXCEPT ![New] = org]
    /\ params' = [params EXCEPT ![New] = <<>>]
    /\ hash_add(t, k, New)
    /\ site' = New

HandleSite(tgt, org) ==
    LET t == IF tgt # NULL THEN "target" ELSE "origin"
        k == IF tgt # NULL THEN tgt ELSE org
    IN
    /\ site = NULL /\ Sites \ (live \cup Linked) # {}
    /\ tgt # NULL \/ org # NULL
    /\ IF AddReads(t, k) \subseteq live
       THEN storage_add(tgt, org) /\ UNCHANGED fault
       ELSE UseAfterFree

AllParams == UNION {{s} \X (1 .. Len(params[s])) : s \in Sites}

(* call_site_handle_dwarf: the expressions of one parameter are calculated. *)
(* One without a location has the empty one.                                *)
HandleParam(loc, v) ==
    /\ site # NULL /\ Cardinality(AllParams) < MaxParams
    /\ params' = [params EXCEPT ![site] = Append(@, [location |-> loc, value |-> v])]
    /\ UNCHANGED <<call_sites, live, target, origin, table, site, fault>>

(* The last child has been handled. *)
HandleEnd ==
    /\ site # NULL
    /\ site' = NULL
    /\ UNCHANGED <<call_sites, live, fields, table, fault>>

(* Mutant: the site is freed and stays on the list. *)
storage_del_KeepList(s) ==
    LET t == TableOf(s)
        k == Key(s)
        i == hash_find(t, k)
    IN
    IF ~(Visited(t, k) \cup DelReads(t, k, i) \subseteq live) THEN UseAfterFree
    ELSE /\ IF i = 0 THEN UNCHANGED table ELSE hash_del(t, k, i)
         /\ live' = live \ {s}
         /\ params' = [params EXCEPT ![s] = <<>>]
         /\ UNCHANGED <<call_sites, target, origin, fault>>

(* Mutant: the site's node is left in the table. *)
storage_del_KeepNode(s) ==
    /\ call_sites' = RemoveFirst(call_sites, s)
    /\ live' = live \ {s}
    /\ params' = [params EXCEPT ![s] = <<>>]
    /\ UNCHANGED <<target, origin, table, fault>>

(* pst_call_site_storage_del: the node that is removed from the table is    *)
(* the first with the site's key, not necessarily the site's own.           *)
storage_del(s) ==
    LET t == TableOf(s)
        k == Key(s)
        i == hash_find(t, k)
    IN
    IF ~(Visited(t, k) \cup DelReads(t, k, i) \subseteq live) THEN UseAfterFree
    ELSE /\ call_sites' = RemoveFirst(call_sites, s)
         /\ IF i = 0 THEN UNCHANGED table ELSE hash_del(t, k, i)
         /\ live' = live \ {s}
         /\ params' = [params EXCEPT ![s] = <<>>]
         /\ UNCHANGED <<target, origin, fault>>

(* An expression of a parameter cannot be calculated: the whole site is     *)
(* given up.                                                                *)
HandleFails ==
    /\ site # NULL
    /\ storage_del(site)
    /\ site' = IF fault' = "none" THEN NULL ELSE site

-----------------------------------------------------------------------------
(* The callee's side *)

(* Mutant: the name is tried first. *)
storage_find_NameFirst(tgt, name) ==
    LET i == hash_find("target", tgt)
        j == hash_find("origin", name)
    IN  IF j # 0 THEN Chain("origin", name)[j]
        ELSE IF i # 0 THEN Chain("target", tgt)[i] ELSE NULL

(* pst_call_site_storage_find: by address first, then by name. *)
storage_find(tgt, name) ==
    LET i == hash_find("target", tgt)
        j == hash_find("origin", name)
    IN  IF i # 0 THEN Chain("target", tgt)[i]
        ELSE IF j # 0 THEN Chain("origin", name)[j] ELSE NULL

FindReads(tgt, name) ==
    Visited("target", tgt)
    \cup IF hash_find("target", tgt) = 0 THEN Visited("origin", name) ELSE {}

(* Mutant: the numbers of operations are not compared. *)
expr_equal_AnyLength(l, r) ==
    \E i \in 1 .. Len(l) : i <= Len(r) /\ l[i] = r[i]

(* pst_dwarf_expr_equal: as many operations, and one of them the same at    *)
(* the same position.                                                       *)
expr_equal(l, r) == Len(l) = Len(r) /\ \E i \in 1 .. Len(l) : l[i] = r[i]

(* pst_call_site_find: the first parameter with that location, or 0. *)
call_site_find(s, expr) ==
    SelectInSeq(params[s], LAMBDA p : expr_equal(p.location, expr))

(* The look-up changes nothing, but it may read a freed site. *)
LookUp(tgt, name) ==
    /\ site = NULL
    /\ ~(FindReads(tgt, name) \subseteq live)
    /\ UseAfterFree

(* pst_call_site_storage_fini frees the listed sites; the storage and its   *)
(* tables go with the function, and another function's starts empty.        *)
Fini ==
    /\ site = NULL
    /\ live' = live \ {call_sites[i] : i \in 1 .. Len(call_sites)}
    /\ call_sites' = <<>>
    /\ table' = [t \in Tables |-> [b \in Buckets |-> <<>>]]
    /\ target' = [s \in Sites |-> NULL] /\ origin' = [s \in Sites |-> NULL]
    /\ params' = [s \in Sites |-> <<>>]
    /\ UNCHANGED <<site, fault>>

-----------------------------------------------------------------------------
Next ==
    /\ fault = "none"
    /\ \/ \E tgt \in Targets \cup {NULL}, org \in Names \cup {NULL} : HandleSite(tgt, org)
       \/ \E loc \in Exprs, v \in Values : HandleParam(loc, v)
       \/ HandleEnd \/ HandleFails \/ Fini
       \/ \E tgt \in Targets, name \in Names : LookUp(tgt, name)

Spec == Init /\ [][Next]_vars

-----------------------------------------------------------------------------
(* Properties *)

Listed == {call_sites[i] : i \in 1 .. Len(call_sites)}

(* The sites of the list are distinct and are exactly those allocated, and  *)
(* the one being handled is the last.  An early return of handle_dwarf that *)
(* frees a listed site, or unlinks one it keeps, breaks it.                 *)
ListOwned ==
    /\ \A i, j \in 1 .. Len(call_sites) : call_sites[i] = call_sites[j] => i = j
    /\ Listed = live
    /\ site # NULL => call_sites # <<>> /\ site = Last(call_sites)

(* The nodes of the table with key k, and the sites of the list with it. *)
Entered(t, k) == {s \in Nodes(t, Bucket[k]) : TableOf(s) = t /\ Key(s) = k}
Known(t, k)   == {s \in Listed : TableOf(s) = t /\ Key(s) = k}

KeysOf(t) == IF t = "target" THEN Targets ELSE Names

(* What is on both lists is in the same order on both. *)
InOrder(c, l) ==
    \A i, j \in 1 .. Len(c), m, n \in 1 .. Len(l) :
        c[i] = l[m] /\ c[j] = l[n] /\ i < j => m < n

(* There are as many nodes with a key as there are sites with it, whichever *)
(* of the nodes are removed; as long as all of them are nodes of allocated  *)
(* sites they are the sites' own; and a chain has them in the order of the  *)
(* list.  The second fails if a site can lose its node without another      *)
(* leaving a stale one.                                                     *)
TablesAgree ==
    \A t \in Tables :
        /\ \A k \in KeysOf(t) :
              /\ Cardinality(Entered(t, k)) = Cardinality(Known(t, k))
              /\ Entered(t, k) \subseteq live => Entered(t, k) = Known(t, k)
        /\ \A b \in Buckets : InOrder(table[t][b], call_sites)

(* A site enters one chain once, however often it is added and removed, and *)
(* it is the chain of its key.                                              *)
LinkedOnce ==
    \A t, u \in Tables : \A b, c \in Buckets :
        \A i \in 1 .. Len(table[t][b]), j \in 1 .. Len(table[u][c]) :
            table[t][b][i] = table[u][c][j] =>
                /\ t = u /\ b = c /\ i = j
                /\ t = TableOf(table[t][b][i]) /\ b = Bucket[Key(table[t][b][i])]

(* A look-up that reads no freed site finds a site of the list that has the *)
(* callee's address if there is one, else one without an address that has   *)
(* its name, and nothing only if there is neither: an entry value is never  *)
(* taken from another callee's site, and no removal hides the last one.     *)
LookUpFinds ==
    \A tgt \in Targets, name \in Names :
        LET s == storage_find(tgt, name) IN
        FindReads(tgt, name) \subseteq live =>
            IF Known("target", tgt) # {} THEN s \in Listed /\ target[s] = tgt
            ELSE IF Known("origin", name) # {}
            THEN s \in Listed /\ target[s] = NULL /\ origin[s] = name
            ELSE s = NULL

(* The entry value comes from the first parameter that has the location the *)
(* callee asks for, whatever other locations the site has, and one that has *)
(* it is never missed.  A location of one operation can have no other       *)
(* answer; asked for several operations, an earlier parameter whose         *)
(* location is another one of as many operations may be taken instead.      *)
ParamFound ==
    \A s \in live : \A e \in Exprs \ {<<>>} :
        LET found == call_site_find(s, e)
            loc(i) == params[s][i].location
            asked == {i \in 1 .. Len(params[s]) : loc(i) = e}
        IN
        /\ found = 0 => asked = {}
        /\ found # 0 =>
              /\ found \in 1 .. Len(params[s]) /\ \A i \in asked : found <= i
              /\ found \in asked \/ (Len(e) > 1 /\ Len(loc(found)) = Len(e))

(* A stale node appears only when the site given up has the key of an       *)
(* earlier site, whose node is removed in its place.                        *)
StaleCause ==
    [][~((Linked \ live)' \subseteq Linked \ live) =>
          \E s \in Listed \ {site} : TableOf(s) = TableOf(site) /\ Key(s) = Key(site)]_vars

(* dwarf_call_site.h:74, 75: the tables "map pointer to caller to           *)
(* call-site" and "map caller name to call-site", so their nodes are those  *)
(* of the call sites of the storage.                                        *)
TablesMapSites == Linked \subseteq Listed
=============================================================================
