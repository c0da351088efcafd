# pstrace: specifications, checks and proofs

pstrace (`libpst`) prints a stack trace in which every function has its
parameters and variables with their values.  A signal handler, or any code,
creates a handler, unwinds the stack into a list of functions, lets the library
read the DWARF debug information of each, and prints the result.  This directory
holds TLA+ modules of the stateful core, TLC configurations that check them on
small instances, and TLAPS proofs of what matters most for every instance.

    tlc -config MCHandler.cfg MCHandler      # one run
    tlapm Handler_proofs.tla                 # the proofs of one module

Paths below are relative to the repository.

## 1. The system

    program --> libpst API --> handler --> list of functions, parent links
                                 |              |
                 context <-------+         call sites of each function
              (frame, CFA,                 (list + two hash tables)
               session, buffer)                 ^
                   ^                            | DW_OP_GNU_entry_value of a callee
                   |                            |
               DWARF evaluator (stack of values, operations) --> location, parameter
                   |
        list_head, hash_multimap, allocator, logger

A handler's work is done in the thread that calls; nothing calls back into the
library.  Handlers of several threads, and of signal handlers that interrupt
each other, share the allocator and the logger.  Control passes by function calls, and state is shared through the context, which
every function, parameter and evaluator points to, and through `fn->parent`.

| component | source | state | operations | what makes it correct |
|---|---|---|---|---|
| intrusive list | `src/utils/list_head.h` | first, last, count of a head; next, prev, head of a node | four insertions, removal, walks, the loop that empties a list | links agree from both ends, the count is true, emptying never follows a freed node |
| DWARF evaluator | `src/dwarf/dwarf_stack.c`, `dwarf_operations.c` | stack of allocated values with type and word, operations met | `calc`, 31 handlers, `get_value`, `clear`, `fini` | an operation leaves what DWARF says; entries are allocated and distinct; failure only for stated reasons; no leak |
| LEB128 | `src/common.c` | - | decode | - (its effect is part of the evaluator's) |
| expressions | `src/dwarf/dwarf_expression.c` | list of operations, value, print buffer | setup, compare | equal means the same location |
| call sites | `src/dwarf/dwarf_call_site.c` | list of sites, table by address, table by name, parameters of a site | handle a DIE, add, give up, find | list and tables agree; a callee finds its own site |
| hash table | `src/utils/hash_multimap.c` | chains | add, find, del, iterate | a node is on one chain, that of its key |
| handler | `src/dwarf/dwarf_handler.c` | list of functions, context | unwind, handle debug information, print, fini | the list is the stack, innermost first; parents are the callers; callers are handled first |
| function | `src/dwarf/dwarf_function.c` | name, pc, CFA, frame, parameters, call sites | resolve the line, CFA, children | each expression is evaluated in the function's own frame |
| parameter | `src/dwarf/dwarf_parameter.c` | types, children, location, value | type chain, value, printing, freeing | a printed value was calculated; an object has one owner |
| location | `src/dwarf/dwarf_utils.c` | - | choose the expression for a pc, evaluate it | the entry whose range holds the pc; a failure is reported |
| context | `src/context.c` | frame, CFA, session, print buffer | print | the text is whole or cut at the end of the buffer |
| API | `src/libpst.c`, `include/` | global allocator and logger | init, fini, wrappers | handlers do not disturb each other |
| allocator | `src/utils/allocator.c` | size under a mutex | alloc, realloc, free | the size is what is allocated |
| logger, register names | `src/utils/log.c`, `src/arch/registers.c` | file size; table | output | - |
| example program | `src/tests/main.c` | - | a handler of fatal signals that prints a trace and raises the signal again | the program ends with the signal, whatever it was doing |

Hard to test here: what a long or ill-formed expression does to the stack of
values (expressions come from the debugged program, often a damaged one); steps
that fail half way, after objects were linked in several places; the order of
the pass, on which the values at entry depend; state kept in the shared context
from one function to the next; frames lost in the middle of a trace; and calls
repeated on one handler; the location entry a value was taken from, at the
boundary of two ranges or after a failure; the ownership of a tree of parameters
that one recursion builds and another frees; text cut in the middle; and signals
that arrive while the allocator is in use.  `PROJECT.json` lists these hazards with their lines.

## 2. The modules

| module | models | checked by | proved in |
|---|---|---|---|
| `ListSeq` | what a list promises: sequences | as `Refines` of `MCListHead` | `ListHead_proofs` |
| `ListHead` | `list_head.h`, pointer by pointer | `MCListHead` | `ListHead_proofs` |
| `Word` | scaled machine words and LEB128 decoding | with `DwarfStack` | `DwarfStack_proofs` |
| `DwarfStack` | the evaluator and every handler | `MCDwarfStack` | `DwarfStack_proofs` |
| `CallSites` | the call sites of one function and their hash tables | `MCCallSites` | `CallSites_proofs` |
| `Handler` | unwinding and the pass over the functions | `MCHandler` | `Handler_proofs` |
| `Parameter` | the parameters of one function: types, location, value, memory | `MCParameter` | `Parameter_proofs` |
| `Library` | the shared allocator under threads and signal handlers | `MCLibrary` | `Library_proofs` |
| `Printer` | the print functions and their buffer | `MCPrinter` | `Printer_proofs` |

`DataLemmas` holds the facts about sequences, least elements and powers of two that
several of the proof modules cite; those about words begin `DwarfStack_proofs`.

They compose by abstraction.  `ListHead` implements `ListSeq` (checked as a
refinement, and proved), so the other modules use sequences where the code has a list.
`CallSites` gives the look-up that `Handler` reduces to "the caller has a site
for this callee".  `Handler` says in which frame an expression is evaluated;
`DwarfStack` says what the evaluation does.  `Parameter` details the step by which
`Handler` adds a parameter, with an evaluation that may end in any way;
`Printer` takes parameters as `Parameter` leaves them.  The allocations of all of
them are those `Library` counts.

### ListHead and ListSeq

The variables are the fields of `struct list_head` (`first`, `last`, `count`)
and `struct list_node` (`next`, `prev`, `head`), and the cursor and saved
successor of one `list_for_each_entry_safe` loop whose body removes the node, the
form every `clear` of the library has.  One action per function; a pointer is
written in the order that matters, so `Unlink` treats the four cases of
`list_del`.  `list_del_init` does the same as `list_del` on these fields.
`WalksAgree` says that the walk from the last node meets the forward walk's
nodes in reverse: the handler is unwound, evaluated and printed in different
directions.  `Refines` is the specification `ListSeq` with
`list[h] <- the nodes of h from first on`.

### Word and DwarfStack

`values` is the list of `st->values` (top first), `live` the set of allocated
value objects, `type` and `word` their fields; `phase` is where
`pst_dwarf_stack_calc` is: between operations (`fetch`), about to run a handler
(`exec`), returned (`ok`, `failed`) or not called (`ready`).  `Fetch` takes *any*
operation of `Ops` and does what the loop does before the handler runs:
unknown operations end the evaluation, a register location on top is
dereferenced (as a pointer, `dwarf_stack.c:201`), `DW_OP_GNU_entry_value` pushes
a parameter of the caller or fails.  Each `dw_op_*` is a handler with its tests,
pops, pushes and frees in the code's order.

A step whose behaviour C leaves undefined, or that aborts, sets `fault` and is
the last: null pointer, assertion, use after free, double free, bad address,
trapping division.  A decoder that runs past its operand returns any value of
`Garbage`.

Words are scaled: a byte has `ByteBits` bits and a C object of 1, 2, 4, 8 bytes
takes `Width[1..8]` bytes.  With 3-bit bytes and widths 1, 2, 3, 4 a word has 12
bits and all four sizes differ, so truncation, sign extension and the 32-bit
LEB128 accumulator all show.

`StepMeaning` compares the whole stack before and after each successful handler
with the meaning given by the comments of `dwarf_operations.c`.  `Exact` lists
the operands for which they agree; outside them the code does something else:

* `DW_OP_const<n>s` pushes a value that is not sign-extended to the word;
* operands libdw has already decoded are decoded as LEB128 again, which keeps
  only those below 128 (64 for signed ones);
* `DW_OP_neg` of a value with a small type changes its low bytes only;
* `DW_OP_div` is unsigned unless both operands have the signed type, which
  register values do not;
* `DW_OP_plus` and `DW_OP_abs`, which have runs of their own (section 4).

### CallSites

`call_sites` is the list, `table` the chains of both hash tables, `target`,
`origin`, `params` the fields of a site, `live` the allocated sites, `site` the
one whose children are being handled.  `HandleSite` is
`pst_call_site_storage_handle_dwarf` to the point where the site is added,
`HandleParam` one child, and `HandleEnd` or `HandleFails` the end;
the latter is the whole of `pst_call_site_storage_del`, which removes from the
table *the first node with the site's key*.  Reading a freed site through a
table sets `fault`.  The memory of a freed site that is still linked is not
handed out again: the next use of the stale node is reported as what it is.
A parameter has the location and the value that could be calculated; one without
`DW_AT_location` has the empty location.  `ParamFound` is about `pst_dwarf_expr_equal`,
which accepts two locations of equal length as soon as one operation agrees: a register
parameter, whose location is one operation, gets the value that is its own.  `LookUpFinds`
is about the callee a site belongs to; of two calls of one callee the code takes the
first, since nothing looks at `call_pc`.
Hash values are the constant `Bucket`, any assignment of chains to keys; the
32-bit mixing of `default_hash_fn` only decides which.

### Handler

One handler: `functions` is `h->functions`, `live` the allocated functions;
`pc`, `level` (which frame of the stack `context` was copied from), `parent`,
`cfa`, `params` and `sites` are their fields; `trace`, which unwinding added a function,
is not in the code and says what a caller is once two traces are on the list.  `ctx` is the shared context.
`pst_handler_unwind_simple` is `UnwindSimple` and one action per frame:
`UnwindSkip` (unreadable, or before the interrupted frame in a signal handler),
`UnwindFrame`, or `UnwindLose` (added, removed and freed because there was no memory
for its name, the only way `function_unwind` fails, `dwarf_function.c:404`; a frame without
a line or a name is kept).
`pst_handler_handle_dwarf` is `UnwindPretty` and one action per function
without debug information, or `HandleFunction`, one action per child DIE, and
`HandleEnd`.  A function whose address has no symbol has no name.  If its unit has debug
information, `get_dwarf_function` compares that name with `strcmp` (`dwarf_handler.c:67`):
`HandleCrash`, the end of the process.  A frame, a CFA and a value are represented by *the function they
belong to*, or `Undefined`: what matters is whose registers were used.

The stack and the debug information are constants of the debugged program:
`Stacks`, `FunctionAt`, `LineAddr` (the row of the line table an address falls
in), `Children`.  `function_unwind` replaces `info.pc` by the row's address, as
the code does; whether there is memory for a name, a CFA can be calculated, a location
evaluated or a call site kept is open at every step.

`ParentLinks` demands of each parent that it is the caller, as `dwarf_function.h:30` says,
the next frame of the same unwinding that was kept.  Unwinding twice breaks this at one place:
the outermost function of the first trace, which has no caller, is linked to the innermost of
the second (`dwarf_handler.c:272-278`).  The property states that as its one exception
(section 4).

### Parameter

`params` is `fn->params`, `live` the allocated parameters, `obj` their fields.  The
recursions (`parameter_handle_type`, `handle_subroutine`, `pst_parameter_fini`) are a
stack of frames, `frames`, and each action is one turn of the innermost call:
`TypeLink` goes from a DIE to its type, adds what the switch adds and goes on;
`TypeSubroutine` enters `handle_subroutine`, whose children are `ArgFormal`,
`ArgUnspecified` and `ArgSkip`.  `handle_location` is `StartLocation`,
`SkipEntry` and `EvaluateEntry` for each entry, `EndLocation`.  The debug
information is the constant `Die`; that it has no circular types but through
members is `RankAssumption`.  A location list is any list of ranges, in any order,
overlapping or empty (`LocationAssumption` only says that it is one, and that an expression has
one entry).  A value is what it was taken from and the number of low
bytes the final mask leaves; `Undefined` is the field that `pst_parameter_init` does not set.
A type counts as part of its parameter, which alone holds it.

What the code does that a reader would not expect, and the model shows: the
return type of a function pointer is given to the parameter itself
(`dwarf_parameter.c:218`), so its child for the return value never has a type, and it
comes twice in `types`; the end of a range counts as inside and the last match wins
(`dwarf_utils.c:59`), so in a list that is not in order an entry that has ended replaces the
value of one that holds the address; an entry
whose evaluation leaves no value passes on the one evaluated before; a type made
of another one has the size of that one, so a reference is cut to the size of what it
refers to; and a return type that cannot be
read leaves the children it had got without an owner (`dwarf_function.c:315`), the set
`orphans`.

### Library

A context is the program proper of a thread (level 1) or a signal handler above
it, and only the topmost of a thread runs.  `pc` says where it is in
`pst_lib_init`, in one of the three functions of the allocator, or in
`pst_lib_fini`; between them it works on its trace.  The update of `size` is a
`Read` and a `Write`; `mutex` is `allocator.lock` as glibc keeps it (destroying one
that is in use fails and leaves it; unlocking wakes one sleeper, which asks again;
re-initializing forgets the sleepers); `type` is `allocator.type`, for which `pst_alloc_fini`
sets the size to 0 only the first time after an init (`allocator.c:68`); `heap` is malloc's
own lock.  `Signal` is
the delivery of a fatal signal that its thread does not handle already, at
any step: only the signal being handled, and none of the other fatal ones, is
blocked (`tests/main.c:116-129`).  The guard at `:56` raises the second signal again;
it stays pending until the handler returns, and the handler goes on, so the guard
has no effect of its own here.

`ledger`, `torn` and `lost` are not in the code: what the size should be since it was last
set to 0; the contexts between their lock and their unlock whose mutex was initialized,
destroyed or released by somebody else; and whether one of those has written the size since.
`Ledger` says that the damage goes no further: until a torn context writes, the size is right;
everybody else who is inside owns the mutex; and nobody is torn once outside.

`Terminates` has two exceptions.  A handler that has interrupted malloc's own lock waits for
itself (`HeapInterrupted`).  And with three threads a handler can be left asleep (`LeftAsleep`): one
holds the mutex, a second sleeps on it, and a third makes a new one, or destroys it,
so that the unlock wakes nobody.  The run has two threads and never gets there.  An
instance with three threads of which one can get a fatal signal (3 uses, no allocations but the
handlers'; 3.4 million states, too many for a run of its own) shows that sleepers are left in
no other way.

### Printer

`buf` is the buffer: `text` and `offset` are the fields, `printed` everything printed
since it was cleaned.  `Put` is `ctx->print`: it writes what fits and adds the full
length to the offset, and past the end of the buffer the remaining size is
negative and limits nothing; that write is the last step (`fault`).  What a
function of the library prints is a sequence of pieces, one per call of `print`, made by
operators that follow the code (`TypePieces`, `ParamPieces`, ...); the loops of
the pretty form are actions, one per kind of parameter, and so are the operations
of an expression with its nested values at entry.  A piece is a sequence of
words, each one character long.  What debug information says of a function is the
constant `Info`, of the types `InfoAssumption` names; `RankAssumption` says that the values
at entry of an expression are not nested in themselves (the code would not return), and
`OrderAssumption` that the return value comes first, as `function_handle_dwarf` adds it,
and parameters before variables, as compilers list them.  A trace that was handled twice has
its parameters twice, the return value in the middle; its text has the second
set inside the braces, and `TextWhole` says nothing of it.

## 3. The runs that pass

| run | instance | about | properties |
|---|---|---|---|
| `list` | 2 heads, 4 nodes | 780 states | `LinksOK`, `CountOK`, `SweepOK`, `SweepEmpties`, `WalksAgree`, `Refines`, `SweepTerminates` |
| `stack` | 41 operations, 4 values, expressions of 4 operations | a minute or two | `Owned`, `GenericOK`, `StepMeaning`, `FailCauses`, `FaultCauses`, `OnlyPlusFreesLinked`, `LeakCauses` |
| `callsites` | 4 sites, 2 addresses in one chain, 1 name, 2 parameters, locations of 0 to 2 operations | 421 thousand states, a minute | `ListOwned`, `TablesAgree`, `LinkedOnce`, `LookUpFinds`, `ParamFound`, `StaleCause` |
| `handler` | 3 stacks of 3 and 4 frames, 6 functions, 3 calls | 422 thousand states, a minute and a half | `ParentLinks`, `TraceOK`, `EvalContext`, `EntryResolved`, `Returns` |
| `parameter` | 29 DIEs, 3 addresses, 2 parameters at a time | 29 thousand states, a minute | `Owned`, `TypesAgree`, `ValueFromEntry`, `ValueWhole`, `CallsEnd` |
| `library` | 2 threads, 2 fatal signals, 2 uses | 446 thousand states, three minutes | `Ledger`, `Terminates` |
| `printer` | 3 functions, 4 expressions, a buffer of 70 words | 65 thousand states | `BufferOK`, `TextWhole` |

All but two also check `TypeOK`.  `BufferOK` includes that of `printer`; that of `stack` is
proved only (section 5), since a word that is a `uint64_t` cannot have another type
whatever the code does.  Why the bounds are enough:

* *list*: `list_del` distinguishes first, last, middle and only node; three nodes
  on one list show all four, the fourth node and the second head show that
  other lists are left alone.
* *stack*: no handler works on more than three entries, `rot`; four values give
  it one below, or a register location above. Four operations build any such
  stack and run an operation on it, and the call of `clear`, `get_value`, `fini`
  or a new `calc` follows in every phase, including after a failure half way.
  `MaxOps` and `Ids` are the bounds; an expression that would need a fifth
  value does not go on, so deadlock is not checked.
* *callsites*: with two addresses in one chain a node has neighbours of its own
  and of another key on each side; three sites of one key and one of the other
  cover the first, the middle and the last removed.  `MaxParams` = 2 bounds the parameters of
  all sites together, so that a site can have two before the one asked for is found, one
  with a location that only shares an operation.  When a fault is reported
  the run stops, so deadlock is not checked.
* *handler*: the stacks hold the library's own frame, a frame that cannot be
  read, a recursive function, callers with and without a call site, and a
  return address in the middle of a line, and one without a symbol; any frame with a
  name may be lost.  `MaxCalls` = 3
  allows unwinding twice and then a pass, or a pass and another.  A name that is not there
  stops the process, so deadlock is not checked.
* *parameter*: the DIEs have a function type within a function type, one whose
  return type cannot be read, types of 1, 2, 4, 8, 12 and 16 bytes, a pointer to a
  pointer, a reference, ranges that meet at the address, ranges that overlap and an empty one
  before one that has ended, a constant, and no location.  `MaxFamily` = 9 objects is what the largest parameter takes; two
  parameters show that one leaves the other alone.
* *library*: with two uses one can interrupt the other at every step, or run beside
  it in another thread, and each can be the program's or a handler's;
  `MaxOps` allows one more allocation or reallocation.  For a third thread see section 2.
  The process ends, or a
  handler waits for the malloc it has interrupted, so deadlock is not checked.
* *printer*: the buffer holds one function handled twice, or two of the three
  handled once; traces that exceed it by any number of words, and that fill it
  exactly, are among the others.  A print outside the buffer is the last step, so
  deadlock is not checked.

Fairness: `ListHead` has weak fairness of the two steps of the emptying loop,
`Handler` and `Parameter` of `Internal`, the steps inside a library call.  All are
straight-line code of one thread that no step waits in.  `Library` has
strong fairness of each thread's topmost context: threads are scheduled, and one that
asks for malloc's lock again and again gets it.  Signals need not come.  Nothing obliges the
program to make a call.  `ListSeq` has no fairness.

What the positive runs show beyond the absence of an error: of all the
operations only `DW_OP_plus` leaves a freed entry on the stack, and only the
listed ones leak; a stale table node appears only for a repeated key; parents within
a trace are callers, whatever frames are lost and however often it is unwound; a value at entry is missing
after a pass only if the caller is missing or has no call site for the callee; a
printed value is that of an entry that holds the address, or of one that ends there
and comes after those that do, or else an expression was evaluated without leaving a
value; a fatal signal ends the process even inside the handler of another, because
`pst_lib_init` makes the mutex anew (without that, the second handler waits for the
first: this is the mutant of `Terminates`); the price is the size of the
allocator, which is wrong from the moment a context that was inside writes it until it is
set to 0 again.

## 4. Where code and comments disagree

| run | property | the code | the text |
|---|---|---|---|
| `plus` | `PlusAdds` | `dwarf_operations.c:509` pops its own result | `:489` "pops the top two stack entries, adds them together, and pushes the result" |
| `abs` | `AbsSucceeds` | `dwarf_operations.c:261` always returns false | `:251` "pushes its absolute value" |
| `stale` | `TablesMapSites` | `dwarf_call_site.c:296` removes another site's node | `dwarf_call_site.h:74` "map pointer to caller to call-site" |
| `pc` | `ExecutedPC` | `dwarf_function.c:387` overwrites `info.pc` | `libpst-types.h:30` "address of currently executed command in function" |
| `register` | `RegisterValue` | `libpst.c:74` returns 0 with an unset CFA | `libpst.h:82`, `:86` "Get value of CPU register", "zero on success" |

Two more disagreements have no run of their own; the properties that meet them state them
as exceptions.  `dwarf_function.h:30` calls `parent` the "(caller)": after a second unwinding the
outermost function of the first trace has the innermost of the second for a parent
(`dwarf_handler.c:272-278`, the last line of `ParentLinks`).  `libpst-types.h:27` leaves a
name that may be missing: `dwarf_handler.c:67` compares it all the same (`Returns`).

## 5. What is proved

The proofs hold for every value of the constants that satisfies the modules'
`ASSUME`s; TLC evaluates those in the runs.

* **`ListHead_proofs`**: `[]TypeOK`, `[]LinksOK`, `[]CountOK`, `[]SweepOK`,
  `[]SweepEmpties`, `[]WalksAgree` and `Refines`, for any heads and any finite set of
  nodes.  `LinksOK` is inductive together with `TypeOK`: that a neighbour's link points
  back is exactly what `list_del` needs to unlink in one go.  `CountOK` needs the
  cardinality of the set of nodes that name a head to change by one; `SweepOK`
  needs `LinksOK`, since the saved successor becomes the first node only if the first
  had no predecessor.  Links that agree do not exclude a ring beside the list, so the
  last three need one more invariant: there is for each head a sequence that
  starts at `first`, ends at `last`, steps by `next` and holds every node of the head
  (`Chain`).  It is what the walk returns, its reverse is the backward walk, and it is
  the `list` of the refinement: every action puts one element in, takes one out
  or leaves all sequences as they are.
* **`DwarfStack_proofs`**: `[]TypeOK` and all seven properties of the run `stack`, for any operations,
  memory, registers and heap, and any `ByteBits` and `Width`.
  The core is `ShapeOK /\ Owned /\ GenericOK /\ ExecOK`.  `ExecOK` says that a
  handler starts with every entry allocated: `Owned` alone lets the top be freed, as
  `DW_OP_plus` leaves it, and is preserved only because the loop looks at the top
  before it runs a handler.  One lemma per shape of handler (push, replace the top, pop
  and push, permute, plus) carries the forty-odd actions.  `TypeOK` adds `WordOK`, every
  value is a word, whose lemmas (the first part of the module) are about the arithmetic: a sum of
  distinct powers of two below the word's size stays below it, so bitwise results, decoded
  constants and products are words.  `LeakCauses` and
  `OnlyPlusFreesLinked` classify each step as `Kept` (nothing allocated, freed or moved) or
  `Tidy` (what is no longer on the stack is freed, and nothing else).
  `FailCauses` and `FaultCauses` go through the ends a handler can have.
  `StepMeaning` writes the stack after each handler as one value over what is below n
  others (`Over`) or a permutation of the top (`Permuted`), and compares that with
  `Meaning`.  The operands of `Exact` are where
  decoding is the identity (`DecodeSmallU`, `DecodeSmallS`).
  Of the operations it assumes `OpsAssumption`: libdw reads as
  many bytes of a constant as its operation says, so an unsigned one fits them.
* **`CallSites_proofs`**: all seven properties of the run `callsites`, for any sites, keys,
  parameters and hash function.  `ListOwned` is inductive by itself.  `LinkedOnce` and
  `TablesAgree` are proved together: that each key has as many nodes as listed
  sites is what makes the first node of a key exist when a site is given up, and that
  chains follow the order of the list is what makes that node the site's own unless
  the key is repeated.  `LookUpFinds` and `StaleCause` follow.  `ParamFound` needs no more than
  the types: a location of one operation equals another as soon as `expr_equal` holds.
* **`Parameter_proofs`**: all five safety properties of the run `parameter`, for any
  debug information whose types are well-founded (`RankAssumption`), and any location
  lists.  `Owned` needs that no object is on two lists or twice on one
  (`OneHome`), that those on a list are the allocated ones but for those in the
  hands of `pst_parameter_fini` and the orphans (`HomeOK`), that each is freed by one
  call (`Calls`), and that what is freed has no children (`Freed`).
  `ValueFromEntry` needs that, while the loop of `handle_location` runs, what it has got
  comes from the last entry among those before the cursor that match, or from an
  earlier one if that left no value (`LocateOK`).  An entry that matches holds the address or
  ends there, and one that holds it matches, which is all the property needs: nothing of the order
  of the list.

  `TypesAgree` compares a parameter with its chain of types, when all calls have returned.
  In between, the recursion may be anywhere, so the invariant says where it leads: `CInv`
  has for the calls in progress a sequence of stages, from what the parameters have now,
  each call adding what is left of its chain (`Finish`), to what they shall have (`Goal`).  A
  step of the code takes a part of the first stage over and leaves the others alone.  The
  flags and the type name do not follow the chain so simply, because the name is
  replaced when the call ends: `DInv` says that the flags are always those of the types,
  and that a parameter has the first name of its types or is one some call is still at
  (`Settled`), where the calls are nested as a stack (`Stacked`).  `DInv` has also that a
  value was cut to the size and types the parameter still has, since no call adds types to
  a parameter with a value; `ValueWhole` follows from it, `TypesAgree`'s view of the
  size, and that qualifiers and type definitions add no size of their own (`Transparent`).
* **`Library_proofs`**: `[]TypeOK` and `[]Ledger`, for any threads, any finite set of
  signals and any number of uses.  `TypeOK` needs that handlers above each other handle
  different signals (`Nested`), which bounds their depth, and that a block being
  freed is still there (`BlockHeld`).  `Ledger` has no precondition; it is inductive
  together with `ReadIsCurrent`, a context past its read that is not torn has the present size in
  hand, `OwnerInside`, the owner of the mutex is between its lock and its unlock, and `AboveIdle`,
  levels above a thread's topmost do nothing.
* **`Handler_proofs`**: all five safety properties of the run `handler`, for any program,
  stack and number of calls.  `ParentLinks` comes from two invariants: each function is linked to
  the next one of the list (`Chained`), and the list goes from one unwinding to the next and
  outwards in each (`OrderInv`), so that the next one is the caller or of a later trace.  `Chained` needs
  that a function not on the list has no parent
  (`FreshOK`), because the last function's link is never written; `EvalContext` needs that
  a CFA field is the function's own or undefined (`CfaOK`) and that the cursor of the
  pass is on the list (`CursorOK`).  `TraceOK` needs that the functions
  added so far are the wanted ones among the frames before the current (`TraceInv`).
  `EntryResolved` needs that in the first pass the functions from the cursor outwards are
  resolved and those inside it still have neither parameters nor sites (`PassInv`).

* **`Printer_proofs`**: `[]BufferOK` and `[]TextWhole`, for any functions, parameters,
  registers, expressions, size of the buffer and length of the trace.  `BufferOK` needs
  that the offset is the length of all that was printed, cut off or not (`TInv`).
  `TextWhole` is about the ends of long loops, and the invariant says how far they have
  come: what was printed is the text of the functions before `fn`, and of that one the half
  that its parameters before `param` give (`Half`), in which `first` says that
  no parameter, and `start_variable` that a variable was among them (`XInv`).  That the
  parentheses are closed once, before the first brace, is where `OrderAssumption` is
  needed, and that no function has its parameters twice, `passes < 2` (`PassesOK`).  For
  expressions the invariant is about the stack of calls: the innermost has printed its part
  (`PartOf`), and every other one waits at a value at entry for the sub-expression of its first
  operation (`Waiting`), so that what it printed before does not matter (`YInv`).

Several of these properties are stated with recursive functions: the chain of types, the
name under type definitions, the text of a sequence of pieces, the text of nested
expressions.  The provers have no induction over data.  Its place is taken by least elements:
among the numbers for which a claim fails there is a least one (`MinFacts` of
`DataLemmas`), and one step leads from those below it to itself.  This gives first
that a function with the recursive equations exists at all (`StepsExist` in
`Printer_proofs`, the `Partial` functions up to a rank in `Parameter_proofs`), and then
what it computes.

Only model-checked:

* liveness: `SweepTerminates`, `Returns`, `CallsEnd` and `Terminates`.  The proof system
  has no rules for fairness;
* what the LEB128 decoders compute of operands that are not small.  That the result is a word
  is proved.

## 6. What is not modelled

* The logger: formatting and output, compiled out unless `PST_DEBUG` is defined.  Its
  mutex is initialized and destroyed together with the allocator's.
* The register names: a constant table.
* Names of parameters, and the line numbers, widths and wording of the text.  An unnamed
  variable or parameter would stop at the assertion of `pst_strdup`
  (`dwarf_parameter.c:409`).  That a *function* of the trace has no name is modelled; that a
  subprogram DIE it is compared with has none (the other argument of `strcmp`,
  `dwarf_handler.c:67`) is not, and would stop the process likewise.
* libunwind, libdw and the linker, which appear as what they may return;
  `pst_pointer_valid`, which asks the kernel, and only for 8 bytes from the start of
  the page (`common.c:133`).
* Failing allocations, but for that of a function's name.  A buffer given to `pst_lib_init` is not used
  (`allocator.c:59-64`, marked TBD), although `libpst.h` says that malloc and free are
  not called then; `Library` takes the code as it is.
* Code that nothing calls: `pst_dwarf_stack_new` (which calls itself without end),
  `print_stack`, `pst_dwarf_expr_print_op`, `pst_get_reg`, the iterator of the hash
  table, the LEB128 encoders.
* Memory that is never freed: the parameters of call sites and the operations of a
  location.
* The getters of the API, which return a field or the next node.

## 7. Plan

Done: the modules of section 2 with their runs, and the proofs of section 5, which are all the
safety and action properties of the passing runs.  What is left:

1. A refinement of `Handler` to an abstract trace (the sequence of wanted frames),
   checked and, for its safety part, proved from `TraceInv`.
2. What the LEB128 decoders compute of every operand, by the least byte at which they would
   differ from the value of the bits.
3. The sub-expression that libdw returns for a value at entry that is not the first operation
   (`dwarf_stack.c:220`), which `DwarfStack` leaves open.
