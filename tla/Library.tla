------------------------------- MODULE Library -------------------------------
(***************************************************************************)
(* The allocator that all handlers of a process share, and its life cycle: *)
(* pst_lib_init initializes it again at every call, pst_lib_fini destroys  *)
(* it, and both are called by signal handlers that have interrupted        *)
(* anything, other handlers and malloc included.  src/utils/allocator.c,   *)
(* src/libpst.c, and the signal handler of src/tests/main.c.               *)
(*                                                                         *)
(* A context is the program proper of a thread or a signal handler above   *)
(* it; only the topmost one of a thread runs.  The size of a block is 1.   *)
(* malloc's own lock and the states of a pthread mutex are those of glibc. *)
(***************************************************************************)
EXTENDS Integers, FiniteSets

CONSTANTS
    Threads,
    Signals,      \* the signals FatalSignalHandler makes a trace for
    None,         \* no owner
    MaxUses,      \* bound on the uses of the library, by the program and by handlers
    MaxOps        \* bound on the calls of the allocator but for handler objects

ASSUME BoundAssumption == MaxUses \in Nat /\ MaxOps \in Nat

ASSUME SignalsAssumption == IsFiniteSet(Signals)

Levels == 1 .. 1 + Cardinality(Signals)
Contexts == Threads \X Levels

ASSUME NoneAssumption == None \notin Contexts /\ None \notin Signals

VARIABLES
    heap,          \* the owner of malloc's lock
    mutex,         \* allocator.lock, with the uses that pthread_mutex_destroy goes by
    type,          \* allocator.type
    size,          \* allocator.size, which wraps around where this goes below 0
    depth,         \* how many contexts a thread has
    sig,           \* the signal a context handles
    pc, op, tmp,   \* what a context does: the step, the call, the size it has read
    blocks,        \* the blocks it has
    dead,          \* the process was terminated
    ledger,        \* what the size should be: blocks counted since the last init or fini
    torn,          \* the contexts whose mutex was taken away from them
    lost,          \* that one of them has written the size since it was set to 0
    uses, ops      \* so far

local == <<op, tmp, blocks>>
bounds == <<uses, ops>>
alloc == <<mutex, type, size, ledger, torn, lost>>
vars == <<heap, alloc, depth, sig, pc, local, dead, bounds>>

Critical == {"read", "write", "realloc", "realloced", "unlock"}

TypeOK ==
    /\ heap \in Contexts \cup {None}
    /\ mutex \in [ready : BOOLEAN, owner : Contexts \cup {None}, contended : BOOLEAN, users : Int]
    /\ type \in {"none", "heap"} /\ size \in Int /\ ledger \in Int
    /\ torn \subseteq Contexts /\ lost \in BOOLEAN /\ dead \in BOOLEAN
    /\ depth \in [Threads -> Levels]
    /\ sig \in [Contexts -> Signals \cup {None}]
    /\ pc \in [Contexts -> {"idle", "program", "init", "work", "malloc", "malloced", "lock",
                            "asleep", "relock", "free", "freed", "raise"} \cup Critical]
    /\ op \in [Contexts -> {"alloc", "free", "shrink", "grow"}]
    /\ tmp \in [Contexts -> Int] /\ blocks \in [Contexts -> Nat]
    /\ uses \in Nat /\ ops \in Nat

Init ==
    /\ heap = None /\ mutex = [ready |-> FALSE, owner |-> None, contended |-> FALSE, users |-> 0]
    /\ type = "none" /\ size = 0 /\ ledger = 0 /\ torn = {} /\ lost = FALSE /\ dead = FALSE
    /\ depth = [t \in Threads |-> 1] /\ sig = [c \in Contexts |-> None]
    /\ pc = [c \in Contexts |-> "idle"] /\ op = [c \in Contexts |-> "alloc"]
    /\ tmp = [c \in Contexts |-> 0]
    /\ blocks = [c \in Contexts |-> 0]
    /\ uses = 0 /\ ops = 0

Top(t) == <<t, depth[t]>>
Running(c) == depth[c[1]] = c[2]
At(c, l) == ~dead /\ Running(c) /\ pc[c] = l
Go(c, l) == pc' = [pc EXCEPT ![c] = l]

-----------------------------------------------------------------------------
(* The program: its own malloc, a use of the library, a fatal signal *)

ProgramMalloc(c) ==
    /\ At(c, "idle") /\ heap = None /\ uses < MaxUses
    /\ heap' = c /\ Go(c, "program")
    /\ UNCHANGED <<alloc, depth, sig, local, dead, bounds>>

ProgramMalloced(c) ==
    /\ At(c, "program")
    /\ heap' = None /\ Go(c, "idle")
    /\ UNCHANGED <<alloc, depth, sig, local, dead, bounds>>

Call(c) ==
    /\ At(c, "idle") /\ uses < MaxUses
    /\ Go(c, "init") /\ uses' = uses + 1
    /\ UNCHANGED <<heap, alloc, depth, sig, local, dead, ops>>

(* Only the signal that is handled is blocked.  A handler that interrupts   *)
(* another one raises its signal for later and goes on as well.             *)
Signal(t, s) ==
    /\ ~dead /\ uses < MaxUses
    /\ \A l \in 2 .. depth[t] : sig[<<t, l>>] # s
    /\ depth' = [depth EXCEPT ![t] = @ + 1]
    /\ LET c == <<t, depth[t] + 1>> IN
       /\ sig' = [sig EXCEPT ![c] = s]
       /\ Go(c, "init")
    /\ uses' = uses + 1
    /\ UNCHANGED <<heap, alloc, local, dead, ops>>

-----------------------------------------------------------------------------
(* pst_lib_init *)

Reset == size' = 0 /\ ledger' = 0 /\ lost' = FALSE

(* The others are between the two ends of their use of the size. *)
TearOthers(c) == torn' = torn \cup {d \in Contexts \ {c} : pc[d] \in Critical}

NewMutex == [ready |-> TRUE, owner |-> None, contended |-> FALSE, users |-> 0]

(* Mutant: the mutex is only initialized once. *)
InitAlloc_Once(c) ==
    /\ At(c, "init") /\ Reset /\ TearOthers(c) /\ type' = "heap"
    /\ mutex' = [mutex EXCEPT !.ready = TRUE]
    /\ Go(c, "malloc") /\ op' = [op EXCEPT ![c] = "alloc"]
    /\ UNCHANGED <<heap, depth, sig, tmp, blocks, dead, bounds>>

(* pst_alloc_init, whether or not a buffer is given, and then pst_new(pst_handler). *)
InitAlloc(c) ==
    /\ At(c, "init") /\ Reset /\ TearOthers(c) /\ type' = "heap"
    /\ mutex' = NewMutex
    /\ Go(c, "malloc") /\ op' = [op EXCEPT ![c] = "alloc"]
    /\ UNCHANGED <<heap, depth, sig, tmp, blocks, dead, bounds>>

-----------------------------------------------------------------------------
(* heap_alloc, heap_realloc, heap_free *)

TakeHeap(c, from, to) ==
    /\ At(c, from) /\ heap = None /\ heap' = c /\ Go(c, to)
    /\ UNCHANGED <<alloc, depth, sig, local, dead, bounds>>

Malloc(c) == TakeHeap(c, "malloc", "malloced")

Malloced(c) ==
    /\ At(c, "malloced") /\ heap' = None /\ Go(c, "lock")
    /\ blocks' = [blocks EXCEPT ![c] = @ + 1]
    /\ UNCHANGED <<alloc, depth, sig, op, tmp, dead, bounds>>

(* Mutant: the allocator does not take the mutex. *)
Lock_None(c) ==
    /\ \/ At(c, "lock") \/ At(c, "relock")
    /\ Go(c, "read")
    /\ UNCHANGED <<heap, alloc, depth, sig, local, dead, bounds>>

(* pthread_mutex_lock.  A destroyed mutex is an error, which nobody looks   *)
(* at; a thread that was woken up does not know that nobody else waits.     *)
Lock(c) ==
    /\ \/ At(c, "lock") \/ At(c, "relock")
    /\ \/ /\ ~mutex.ready /\ Go(c, "read") /\ torn' = torn \cup {c} /\ UNCHANGED mutex
       \/ /\ mutex.ready /\ mutex.owner = None /\ Go(c, "read") /\ UNCHANGED torn
          /\ mutex' = [ready |-> TRUE, owner |-> c, users |-> mutex.users + 1,
                       contended |-> mutex.contended \/ pc[c] = "relock"]
       \/ /\ mutex.ready /\ mutex.owner # None /\ Go(c, "asleep") /\ UNCHANGED torn
          /\ mutex' = [mutex EXCEPT !.contended = TRUE]
    /\ UNCHANGED <<heap, type, size, ledger, lost, depth, sig, local, dead, bounds>>

Read(c) ==
    /\ At(c, "read") /\ tmp' = [tmp EXCEPT ![c] = size] /\ Go(c, "write")
    /\ UNCHANGED <<heap, alloc, depth, sig, op, blocks, dead, bounds>>

Delta(c) == IF op[c] \in {"alloc", "grow"} THEN 1 ELSE -1

Write(c) ==
    /\ At(c, "write")
    /\ size' = tmp[c] + Delta(c) /\ ledger' = ledger + Delta(c)
    /\ lost' = (lost \/ c \in torn)
    /\ Go(c, IF op[c] = "shrink" THEN "realloc" ELSE "unlock")
    /\ UNCHANGED <<heap, mutex, type, torn, depth, sig, local, dead, bounds>>

(* realloc, under the mutex *)
Realloc(c) == TakeHeap(c, "realloc", "realloced")

Realloced(c) ==
    /\ At(c, "realloced") /\ heap' = None /\ Go(c, "read")
    /\ op' = [op EXCEPT ![c] = "grow"]
    /\ UNCHANGED <<alloc, depth, sig, tmp, blocks, dead, bounds>>

After(c) == IF op[c] = "free" THEN "free" ELSE "work"

(* pthread_mutex_unlock, by whoever calls it, also when somebody else owns  *)
(* the mutex by now: one waiter is woken, if the mutex has not been         *)
(* initialized since it went to sleep and no signal has interrupted it.     *)
Unlock(c) ==
    /\ At(c, "unlock")
    /\ LET asleep == {d \in Contexts : pc[d] = "asleep" /\ Running(d)} IN
       IF mutex.ready /\ mutex.contended /\ asleep # {}
       THEN \E d \in asleep : pc' = [pc EXCEPT ![c] = After(c), ![d] = "relock"]
       ELSE Go(c, After(c))
    /\ mutex' = IF mutex.ready THEN [NewMutex EXCEPT !.users = mutex.users - 1] ELSE mutex
    /\ torn' = (torn \cup {d \in {mutex.owner} \ {None} : mutex.ready}) \ {c}
    /\ UNCHANGED <<heap, type, size, ledger, lost, depth, sig, local, dead, bounds>>

Free(c) == TakeHeap(c, "free", "freed")

Freed(c) ==
    /\ At(c, "freed") /\ heap' = None /\ Go(c, "work")
    /\ blocks' = [blocks EXCEPT ![c] = @ - 1]
    /\ UNCHANGED <<alloc, depth, sig, op, tmp, dead, bounds>>

-----------------------------------------------------------------------------
(* A trace is made and printed, with allocations, until all blocks are freed. *)
(* The library itself has no call of realloc so far.                          *)

Start(c, o, l) ==
    /\ At(c, "work") /\ op' = [op EXCEPT ![c] = o] /\ Go(c, l)
    /\ UNCHANGED <<heap, alloc, depth, sig, tmp, blocks, dead, uses>>

Another(c) == blocks[c] > 0 /\ ops < MaxOps /\ ops' = ops + 1
Alloc(c) == Start(c, "alloc", "malloc") /\ Another(c)
ReallocBlock(c) == Start(c, "shrink", "lock") /\ Another(c)

(* Mutant: the last block is freed twice. *)
FreeBlock_Twice(c) == Start(c, "free", "lock") /\ blocks[c] \in 0 .. 1 /\ UNCHANGED ops

(* pst_free, and in the end pst_handler_fini and pst_free(h) *)
FreeBlock(c) == Start(c, "free", "lock") /\ blocks[c] > 0 /\ UNCHANGED ops

(* pst_alloc_fini: the size is only set to 0 if nobody has done it since    *)
(* the last init.  A mutex in use is not destroyed; the unlock of one that  *)
(* was initialized while it was locked makes up for a later lock.           *)
FiniAlloc(c) ==
    LET destroyed == mutex.users = 0 IN
    /\ At(c, "work") /\ blocks[c] = 0
    /\ type' = "none"
    /\ IF type = "heap" THEN Reset ELSE UNCHANGED <<size, ledger, lost>>
    /\ IF type = "heap" \/ destroyed THEN TearOthers(c) ELSE UNCHANGED torn
    /\ mutex' = [mutex EXCEPT !.ready = @ /\ ~destroyed]
    /\ Go(c, IF sig[c] = None THEN "idle" ELSE "raise")
    /\ UNCHANGED <<heap, depth, sig, local, dead, bounds>>

(* The signal gets its default action and is raised again: it is pending    *)
(* until the handler returns, and then terminates the process.              *)
Raise(c) ==
    /\ At(c, "raise") /\ dead' = TRUE
    /\ UNCHANGED <<heap, alloc, depth, sig, pc, local, bounds>>

-----------------------------------------------------------------------------
Step(c) ==
    \/ ProgramMalloced(c) \/ InitAlloc(c) \/ Malloc(c) \/ Malloced(c) \/ Lock(c)
    \/ Read(c) \/ Write(c) \/ Realloc(c) \/ Realloced(c) \/ Unlock(c) \/ Free(c) \/ Freed(c)
    \/ Alloc(c) \/ ReallocBlock(c) \/ FreeBlock(c) \/ FiniAlloc(c) \/ Raise(c)

Next ==
    \/ \E c \in Contexts : Step(c) \/ ProgramMalloc(c) \/ Call(c)
    \/ \E t \in Threads, s \in Signals : Signal(t, s)

(* Threads are scheduled, and malloc's lock is got if it is free again and  *)
(* again.  Neither the program's calls nor signals have to happen.          *)
Fairness == \A t \in Threads : SF_vars(Step(Top(t)))
Spec == Init /\ [][Next]_vars /\ Fairness

-----------------------------------------------------------------------------
(* Properties *)

(* A context is torn if, between its lock and its unlock, the allocator was *)
(* initialized or destroyed or somebody else released the mutex, or if it   *)
(* found the mutex destroyed.  Every other context that is there is the     *)
(* owner, so there is one at most, also while torn ones are there; whoever  *)
(* has left is torn no more.  No update of the size is lost, it counts the  *)
(* blocks allocated less those freed since it was last set to 0, unless a   *)
(* torn context has written it since.                                       *)
Ledger ==
    /\ ~lost => size = ledger
    /\ \A c \in Contexts \ torn : pc[c] \in Critical => mutex.ready /\ mutex.owner = c
    /\ \A c \in torn : pc[c] \in Critical

(* The owner of malloc's lock was interrupted while it held it. *)
HeapInterrupted == heap # None /\ ~Running(heap)

(* Only sleepers are left of a mutex that a third thread has initialized,   *)
(* or destroyed, while one held it and another slept on it.                 *)
LeftAsleep ==
    /\ \E t \in Threads : pc[Top(t)] = "asleep"
    /\ \A t \in Threads : pc[Top(t)] \in {"idle", "asleep"}
    /\ ~mutex.ready \/ (mutex.owner = None /\ ~mutex.contended)

(* A fatal signal terminates the process, whatever it interrupted, other    *)
(* handlers, their mutex, sleeping threads; except that a handler which has *)
(* interrupted malloc's own lock waits for itself, and that one may be      *)
(* left asleep by a third thread.                                           *)
Terminates == (\E t \in Threads : depth[t] > 1) ~> dead \/ HeapInterrupted \/ LeftAsleep
=============================================================================
