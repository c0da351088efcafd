---------------------------- MODULE Library_proofs ----------------------------
(***************************************************************************)
(* For any threads and any finite set of fatal signals: the types of the   *)
(* allocator's state, with the depth to which handlers nest and no block   *)
(* freed that is not there, and the size that its mutex protects.          *)
(***************************************************************************)
EXTENDS Library, FunctionTheorems, FiniteSetTheorems, TLAPS

(* A handler on top of another one handles a signal of its own: only the    *)
(* signal in progress is blocked.                                           *)
Nested ==
    \A t \in Threads : \A l, m \in 2 .. depth[t] :
        /\ sig[<<t, l>>] \in Signals
        /\ sig[<<t, l>>] = sig[<<t, m>>] => l = m

(* From the lock on, a context that frees a block still has it. *)
Freeing(c) ==
    \/ pc[c] \in {"free", "freed"}
    \/ op[c] = "free" /\ pc[c] \in {"lock", "asleep", "relock"} \cup Critical

BlockHeld == \A c \in Contexts : Freeing(c) => blocks[c] > 0

(* The size a context has read is still the size when it writes. *)
ReadIsCurrent == ~lost => \A c \in Contexts \ torn : pc[c] = "write" => tmp[c] = size

(* The owner of the mutex is between its lock and its unlock. *)
OwnerInside == mutex.ready /\ mutex.owner # None => pc[mutex.owner] \in Critical

(* The levels above a thread's topmost handler have not been used. *)
AboveIdle == \A t \in Threads : \A l \in Levels : l > depth[t] => pc[<<t, l>>] = "idle"

TInv == TypeOK /\ Nested /\ BlockHeld
Safe == Ledger /\ ReadIsCurrent /\ OwnerInside /\ AboveIdle
LInv == TypeOK /\ Safe

-----------------------------------------------------------------------------
(* The depth of the handlers *)

LEMMA LevelsType == Cardinality(Signals) \in Nat /\ Levels \subseteq Nat \ {0} /\ 1 \in Levels
<1>1. Cardinality(Signals) \in Nat
  BY SignalsAssumption, FS_CardinalityType
<1>. QED
  BY <1>1 DEF Levels

(* There is a level left for a signal that no handler of the thread is in:  *)
(* those of the handlers are as many different others.                      *)
LEMMA LevelLeft ==
    ASSUME TypeOK, Nested, NEW t \in Threads, NEW s \in Signals,
           \A l \in 2 .. depth[t] : sig[<<t, l>>] # s
    PROVE  depth[t] + 1 \in Levels
<1> DEFINE D == 2 .. depth[t]
           T == Signals \ {s}
           f == [l \in D |-> sig[<<t, l>>]]
<1>1. depth[t] \in Nat \ {0}
  BY LevelsType DEF TypeOK
<1>2. IsFiniteSet(T) /\ Cardinality(T) = Cardinality(Signals) - 1
  BY SignalsAssumption, FS_RemoveElement
<1>3. f \in Injection(D, T)
  <2>1. f \in [D -> T]
    BY DEF Nested
  <2>2. \A l, m \in D : f[l] = f[m] => l = m
    BY DEF Nested
  <2>. QED
    BY <2>1, <2>2 DEF Injection, IsInjective
<1>4. Cardinality(D) <= Cardinality(T)
  BY <1>2, <1>3, FS_Injection
<1>5. Cardinality(D) = depth[t] - 1
  <2>1. PICK n \in Nat \ {0} : n = depth[t]
    BY <1>1
  <2>2. Cardinality(2 .. n) = IF 2 > n THEN 0 ELSE n - 2 + 1
    <3>1. 2 \in Int /\ n \in Int
      OBVIOUS
    <3>. QED
      BY <3>1, FS_Interval
  <2>3. Cardinality(2 .. n) = n - 1
    BY <2>2
  <2>. QED
    BY <2>1, <2>3
<1>. QED
  BY <1>1, <1>2, <1>4, <1>5, LevelsType DEF Levels

-----------------------------------------------------------------------------
(* Types, with the blocks that are not freed twice *)

(* The steps of the program and the calls of malloc, which change its lock. *)
LEMMA HeapTypes ==
    ASSUME TypeOK, BlockHeld, NEW c \in Contexts,
           \/ ProgramMalloc(c) \/ ProgramMalloced(c) \/ Malloc(c) \/ Malloced(c)
           \/ Realloc(c) \/ Realloced(c) \/ Free(c) \/ Freed(c)
    PROVE  TypeOK' /\ BlockHeld' /\ UNCHANGED <<depth, sig>>
<1> USE DEF At, TypeOK, BlockHeld, Freeing, Critical, alloc, local, bounds, Go
<1>1. CASE ProgramMalloc(c)
  BY <1>1 DEF ProgramMalloc
<1>2. CASE ProgramMalloced(c)
  BY <1>2 DEF ProgramMalloced
<1>3. CASE Malloc(c)
  BY <1>3 DEF Malloc, TakeHeap
<1>4. CASE Malloced(c)
  BY <1>4 DEF Malloced
<1>5. CASE Realloc(c)
  BY <1>5 DEF Realloc, TakeHeap
<1>6. CASE Realloced(c)
  BY <1>6 DEF Realloced
<1>7. CASE Free(c)
  BY <1>7 DEF Free, TakeHeap
<1>8. CASE Freed(c)
  BY <1>8 DEF Freed
<1>. QED
  BY <1>1, <1>2, <1>3, <1>4, <1>5, <1>6, <1>7, <1>8

(* The steps that the mutex protects. *)
LEMMA SizeTypes ==
    ASSUME TypeOK, BlockHeld, NEW c \in Contexts,
           Lock(c) \/ Read(c) \/ Write(c) \/ Unlock(c)
    PROVE  TypeOK' /\ BlockHeld' /\ UNCHANGED <<depth, sig>>
<1> USE DEF At, TypeOK, BlockHeld, Freeing, Critical, alloc, local, bounds, Go
<1>1. CASE Lock(c)
  <2>1. mutex' \in [ready : BOOLEAN, owner : Contexts \cup {None}, contended : BOOLEAN, users : Int]
    <3>1. CASE UNCHANGED mutex
      BY <3>1
    <3>2. CASE mutex' = [ready |-> TRUE, owner |-> c, users |-> mutex.users + 1,
                         contended |-> mutex.contended \/ pc[c] = "relock"]
      BY <3>2
    <3>3. CASE mutex' = [mutex EXCEPT !.contended = TRUE]
      BY <3>3
    <3>. QED
      BY <1>1, <3>1, <3>2, <3>3 DEF Lock
  <2>2. torn' \subseteq Contexts /\ (Go(c, "read") \/ Go(c, "asleep"))
    BY <1>1 DEF Lock
  <2>. QED
    BY <1>1, <2>1, <2>2 DEF Lock
<1>2. CASE Read(c)
  BY <1>2 DEF Read
<1>3. CASE Write(c)
  BY <1>3 DEF Write, Delta
<1>4. CASE Unlock(c)
  <2>1. mutex' \in [ready : BOOLEAN, owner : Contexts \cup {None}, contended : BOOLEAN, users : Int]
    <3>1. CASE mutex.ready
      <4>1. mutex' = [ready |-> TRUE, owner |-> None, contended |-> FALSE, users |-> mutex.users - 1]
        BY <1>4, <3>1 DEF Unlock, NewMutex
      <4>. QED
        BY <4>1
    <3>2. CASE ~mutex.ready
      BY <1>4, <3>2 DEF Unlock
    <3>. QED
      BY <3>1, <3>2
  <2>2. After(c) \in {"free", "work"} /\ (After(c) = "free" => blocks[c] > 0)
    BY <1>4 DEF Unlock, After
  <2>3. torn' \subseteq Contexts
    BY <1>4 DEF Unlock
  <2>4. CASE Go(c, After(c))
    BY <1>4, <2>1, <2>2, <2>3, <2>4 DEF Unlock
  <2>5. CASE \E d \in Contexts : pc[d] = "asleep" /\ pc' = [pc EXCEPT ![c] = After(c), ![d] = "relock"]
    BY <1>4, <2>1, <2>2, <2>3, <2>5 DEF Unlock
  <2>. QED
    BY <1>4, <2>4, <2>5 DEF Unlock
<1>. QED
  BY <1>1, <1>2, <1>3, <1>4

(* The life cycle, and what a handler does between its calls. *)
LEMMA UseTypes ==
    ASSUME TypeOK, BlockHeld, NEW c \in Contexts,
           \/ Call(c) \/ InitAlloc(c) \/ Alloc(c) \/ ReallocBlock(c) \/ FreeBlock(c)
           \/ FiniAlloc(c) \/ Raise(c)
    PROVE  TypeOK' /\ BlockHeld' /\ UNCHANGED <<depth, sig>>
<1> USE DEF At, TypeOK, BlockHeld, Freeing, Critical, alloc, local, bounds, Go
<1>1. CASE Call(c)
  BY <1>1 DEF Call
<1>2. CASE InitAlloc(c)
  <2>1. mutex' \in [ready : BOOLEAN, owner : Contexts \cup {None}, contended : BOOLEAN, users : Int]
    BY <1>2 DEF InitAlloc, NewMutex
  <2>2. torn' \subseteq Contexts
    BY <1>2 DEF InitAlloc, TearOthers
  <2>3. size' \in Int /\ ledger' \in Int /\ type' \in {"none", "heap"}
    BY <1>2 DEF InitAlloc, Reset
  <2>4. lost' \in BOOLEAN
    BY <1>2, Zenon DEF InitAlloc, Reset
  <2>. QED
    BY <1>2, <2>1, <2>2, <2>3, <2>4 DEF InitAlloc
<1>3. CASE Alloc(c)
  BY <1>3 DEF Alloc, Start, Another
<1>4. CASE ReallocBlock(c)
  BY <1>4 DEF ReallocBlock, Start, Another
<1>5. CASE FreeBlock(c)
  BY <1>5 DEF FreeBlock, Start
<1>6. CASE FiniAlloc(c)
  <2>1. mutex' \in [ready : BOOLEAN, owner : Contexts \cup {None}, contended : BOOLEAN, users : Int]
    BY <1>6 DEF FiniAlloc
  <2>2. torn' \subseteq Contexts
    BY <1>6 DEF FiniAlloc, TearOthers
  <2>3. size' \in Int /\ ledger' \in Int /\ type' \in {"none", "heap"}
    BY <1>6 DEF FiniAlloc, Reset
  <2>4. lost' \in BOOLEAN
    BY <1>6, Zenon DEF FiniAlloc, Reset
  <2>. QED
    BY <1>6, <2>1, <2>2, <2>3, <2>4 DEF FiniAlloc
<1>7. CASE Raise(c)
  BY <1>7 DEF Raise
<1>. QED
  BY <1>1, <1>2, <1>3, <1>4, <1>5, <1>6, <1>7

(* A signal goes to a context that was not there before. *)
LEMMA SignalTypes ==
    ASSUME TypeOK, Nested, BlockHeld, NEW t \in Threads, NEW s \in Signals, Signal(t, s)
    PROVE  TypeOK' /\ Nested' /\ BlockHeld'
<1> DEFINE c == <<t, depth[t] + 1>>
<1>1. depth[t] + 1 \in Levels /\ depth[t] \in Nat \ {0}
  BY LevelLeft, LevelsType DEF Signal, TypeOK
<1>2. c \in Contexts
  BY <1>1 DEF Contexts
<1>3. TypeOK'
  BY <1>1, <1>2 DEF Signal, TypeOK, Go, alloc, local
<1>4. BlockHeld'
  BY <1>2 DEF Signal, TypeOK, Go, local, BlockHeld, Freeing, Critical
<1>5. Nested'
  <2> SUFFICES ASSUME NEW u \in Threads, NEW l \in 2 .. depth'[u], NEW m \in 2 .. depth'[u]
               PROVE  /\ sig'[<<u, l>>] \in Signals
                      /\ sig'[<<u, l>>] = sig'[<<u, m>>] => l = m
    BY DEF Nested
  <2>1. depth' = [depth EXCEPT ![t] = depth[t] + 1] /\ sig' = [sig EXCEPT ![c] = s]
    BY DEF Signal
  <2>2. \A k \in 2 .. depth'[u] : <<u, k>> # c => k \in 2 .. depth[u] /\ <<u, k>> \in Contexts
    <3> SUFFICES ASSUME NEW k \in 2 .. depth'[u], <<u, k>> # c
                 PROVE  k \in 2 .. depth[u] /\ k \in Levels
      BY DEF Contexts
    <3>1. depth[u] \in Levels /\ depth[u] \in Nat
      BY LevelsType DEF TypeOK
    <3>2. k \in 2 .. depth[u]
      BY <1>1, <2>1, <3>1 DEF TypeOK
    <3>. QED
      BY <3>1, <3>2, LevelsType DEF Levels
  <2>3. \A k \in 2 .. depth[t] : sig[<<t, k>>] # s
    BY DEF Signal
  <2>4. CASE <<u, l>> = c
    <3>1. CASE <<u, m>> = c
      BY <1>2, <2>1, <2>4, <3>1 DEF TypeOK
    <3>2. CASE <<u, m>> # c
      BY <1>2, <2>1, <2>2, <2>3, <2>4, <3>2 DEF TypeOK
    <3>. QED
      BY <3>1, <3>2
  <2>5. CASE <<u, l>> # c
    <3>1. CASE <<u, m>> = c
      BY <1>2, <2>1, <2>2, <2>3, <2>5, <3>1 DEF TypeOK, Nested
    <3>2. CASE <<u, m>> # c
      BY <1>2, <2>1, <2>2, <2>5, <3>2 DEF TypeOK, Nested
    <3>. QED
      BY <3>1, <3>2
  <2>. QED
    BY <2>4, <2>5
<1>. QED
  BY <1>3, <1>4, <1>5

LEMMA InitTypes == Init => TInv
<1> SUFFICES ASSUME Init PROVE TInv
  OBVIOUS
<1>1. TypeOK
  <2>1. mutex \in [ready : BOOLEAN, owner : Contexts \cup {None}, contended : BOOLEAN, users : Int]
    BY DEF Init
  <2>2. depth \in [Threads -> Levels] /\ sig \in [Contexts -> Signals \cup {None}]
    BY LevelsType DEF Init
  <2>3. pc \in [Contexts -> {"idle", "program", "init", "work", "malloc", "malloced", "lock",
                             "asleep", "relock", "free", "freed", "raise"} \cup Critical]
    BY DEF Init
  <2>4. op \in [Contexts -> {"alloc", "free", "shrink", "grow"}]
    BY DEF Init
  <2>5. tmp \in [Contexts -> Int] /\ blocks \in [Contexts -> Nat]
    BY DEF Init
  <2>6. torn \subseteq Contexts /\ lost \in BOOLEAN /\ dead \in BOOLEAN /\ type \in {"none", "heap"}
    BY DEF Init
  <2>7. heap \in Contexts \cup {None} /\ size \in Int /\ ledger \in Int /\ uses \in Nat /\ ops \in Nat
    BY DEF Init
  <2>. QED
    BY <2>1, <2>2, <2>3, <2>4, <2>5, <2>6, <2>7, Zenon DEF TypeOK
<1>2. Nested
  BY DEF Init, Nested
<1>3. BlockHeld
  BY DEF Init, BlockHeld, Freeing, Critical
<1>. QED
  BY <1>1, <1>2, <1>3 DEF TInv

LEMMA NextTypes == TInv /\ [Next]_vars => TInv'
<1> SUFFICES ASSUME TypeOK, Nested, BlockHeld, [Next]_vars
             PROVE  TypeOK' /\ Nested' /\ BlockHeld'
  BY DEF TInv
<1>1. ASSUME UNCHANGED <<depth, sig>> PROVE Nested'
  BY <1>1 DEF Nested
<1>2. ASSUME NEW c \in Contexts, Step(c) \/ ProgramMalloc(c) \/ Call(c)
      PROVE  TypeOK' /\ Nested' /\ BlockHeld'
  BY <1>1, <1>2, HeapTypes, SizeTypes, UseTypes DEF Step
<1>3. CASE UNCHANGED vars
  BY <1>3 DEF vars, alloc, local, bounds, TypeOK, Nested, BlockHeld, Freeing
<1>. QED
  BY <1>2, <1>3, SignalTypes DEF Next

(* The state has its types: handlers nest as deep as there are fatal        *)
(* signals at most, and no block is freed that is not there.  src/utils/    *)
(* allocator.c:139-157 and src/tests/main.c.                                *)
THEOREM TypeCorrect == Spec => []TypeOK
<1>1. TInv => TypeOK
  BY DEF TInv
<1>. QED
  BY <1>1, InitTypes, NextTypes, PTL DEF Spec

-----------------------------------------------------------------------------
(* The mutex and the size *)

(* A step of a context leaves the levels above its thread's handlers alone. *)
LEMMA StepAbove ==
    ASSUME LInv, NEW c \in Contexts, Step(c) \/ ProgramMalloc(c) \/ Call(c)
    PROVE  AboveIdle'
<1>1. c \in Threads \X Levels /\ depth[c[1]] = c[2] /\ UNCHANGED depth
  BY DEF Contexts, Step, ProgramMalloc, ProgramMalloced, Call, InitAlloc, Malloc, Malloced, Lock,
     Read, Write, Realloc, Realloced, Unlock, Free, Freed, Alloc, ReallocBlock, FreeBlock,
     FiniAlloc, Raise, TakeHeap, Start, At, Running
<1>2. \A d \in Contexts : pc'[d] # pc[d] => d = c \/ (pc[d] = "asleep" /\ Running(d))
  BY DEF Step, ProgramMalloc, ProgramMalloced, Call, InitAlloc, Malloc, Malloced, Lock,
     Read, Write, Realloc, Realloced, Unlock, Free, Freed, Alloc, ReallocBlock, FreeBlock,
     FiniAlloc, Raise, TakeHeap, Start, Go, LInv, TypeOK
<1> SUFFICES ASSUME NEW t \in Threads, NEW l \in Levels, l > depth'[t]
             PROVE  pc'[<<t, l>>] = "idle"
  BY DEF AboveIdle
<1>3. pc[<<t, l>>] = "idle" /\ <<t, l>> \in Contexts
  BY <1>1 DEF Contexts, LInv, Safe, AboveIdle
<1>4. <<t, l>> # c
  BY <1>1, LevelsType
<1>. QED
  BY <1>2, <1>3, <1>4

(* The context c moves to a step outside the critical section, where it was *)
(* before, and the size and the mutex stay as they are.                     *)
LEMMA GoOutside ==
    ASSUME LInv, NEW c \in Contexts, NEW l, Go(c, l), pc[c] \notin Critical, l \notin Critical,
           mutex'.ready = mutex.ready, mutex'.owner = mutex.owner,
           UNCHANGED <<size, ledger, torn, lost, tmp>>
    PROVE  Ledger' /\ ReadIsCurrent' /\ OwnerInside'
BY DEF LInv, Safe, TypeOK, Ledger, ReadIsCurrent, OwnerInside, Go, Critical

(* The same inside, where it does not go on to write. *)
LEMMA GoInside ==
    ASSUME LInv, NEW c \in Contexts, NEW l, Go(c, l), pc[c] \in Critical, l \in Critical \ {"write"},
           UNCHANGED <<mutex, size, ledger, torn, lost, tmp>>
    PROVE  Ledger' /\ ReadIsCurrent' /\ OwnerInside'
BY DEF LInv, Safe, TypeOK, Ledger, ReadIsCurrent, OwnerInside, Go, Critical

(* init and fini tear whoever is inside, whether or not they set the size   *)
(* and what it should be to 0.                                              *)
LEMMA TearLedger ==
    ASSUME LInv, NEW c \in Contexts, NEW l, Go(c, l), pc[c] \notin Critical, l \notin Critical,
           TearOthers(c), Reset \/ UNCHANGED <<size, ledger, lost>>,
           \/ mutex'.owner = None
           \/ mutex'.owner = mutex.owner /\ (mutex'.ready => mutex.ready)
    PROVE  Ledger' /\ ReadIsCurrent' /\ OwnerInside'
<1>1. ~lost' => size' = ledger'
  BY DEF Reset, LInv, Safe, Ledger
<1>2. \A d \in Contexts : pc'[d] \in Critical <=> pc[d] \in Critical
  BY DEF Go, LInv, TypeOK
<1>3. \A d \in Contexts \ torn' : pc'[d] \notin Critical
  BY <1>2 DEF TearOthers
<1>4. \A d \in torn' : pc'[d] \in Critical
  BY <1>2 DEF TearOthers, LInv, Safe, Ledger, TypeOK
<1>5. OwnerInside'
  BY <1>2 DEF LInv, Safe, OwnerInside, TypeOK
<1>. QED
  BY <1>1, <1>3, <1>4, <1>5 DEF Ledger, ReadIsCurrent, Critical

LEMMA InitLedger ==
    ASSUME LInv, NEW c \in Contexts, InitAlloc(c)
    PROVE  Ledger' /\ ReadIsCurrent' /\ OwnerInside'
BY TearLedger DEF InitAlloc, At, NewMutex, Critical

(* A second fini finds the size as it is, and a mutex in use stays. *)
LEMMA FiniLedger ==
    ASSUME LInv, NEW c \in Contexts, FiniAlloc(c)
    PROVE  Ledger' /\ ReadIsCurrent' /\ OwnerInside'
<1> DEFINE l == IF sig[c] = None THEN "idle" ELSE "raise"
<1>1. Go(c, l) /\ l \notin Critical /\ pc[c] \notin Critical /\ UNCHANGED tmp
  BY DEF FiniAlloc, At, local, Critical
<1>2. mutex'.owner = mutex.owner /\ (mutex'.ready => mutex.ready)
  BY DEF FiniAlloc, LInv, TypeOK
<1>3. CASE type = "heap" \/ mutex.users = 0
  <2>1. TearOthers(c) /\ (Reset \/ UNCHANGED <<size, ledger, lost>>)
    BY <1>3 DEF FiniAlloc
  <2>. QED
    BY <1>1, <1>2, <2>1, TearLedger
<1>4. CASE ~(type = "heap" \/ mutex.users = 0)
  <2>1. mutex'.ready = mutex.ready /\ UNCHANGED <<size, ledger, torn, lost>>
    BY <1>4 DEF FiniAlloc, LInv, TypeOK
  <2>. QED
    BY <1>1, <1>2, <2>1, GoOutside
<1>. QED
  BY <1>3, <1>4

LEMMA LockLedger ==
    ASSUME LInv, NEW c \in Contexts, Lock(c)
    PROVE  Ledger' /\ ReadIsCurrent' /\ OwnerInside'
<1>1. pc[c] \notin Critical /\ UNCHANGED <<size, ledger, lost, tmp>>
  BY DEF Lock, At, local, Critical
<1>2. CASE ~mutex.ready /\ Go(c, "read") /\ torn' = torn \cup {c} /\ UNCHANGED mutex
  BY <1>1, <1>2 DEF LInv, Safe, TypeOK, Ledger, ReadIsCurrent, OwnerInside, Go, Critical
<1>3. CASE mutex.ready /\ mutex.owner = None /\ Go(c, "read") /\ UNCHANGED torn
  <2>1. mutex'.ready /\ mutex'.owner = c
    BY <1>3 DEF Lock
  <2>2. \A d \in Contexts \ torn : pc[d] \notin Critical
    BY <1>3, NoneAssumption DEF LInv, Safe, Ledger
  <2>. QED
    BY <1>1, <1>3, <2>1, <2>2
       DEF LInv, Safe, TypeOK, Ledger, ReadIsCurrent, OwnerInside, Go, Critical
<1>4. CASE mutex.owner # None /\ Go(c, "asleep") /\ mutex' = [mutex EXCEPT !.contended = TRUE]
           /\ UNCHANGED torn
  <2>1. mutex'.ready = mutex.ready /\ mutex'.owner = mutex.owner
    BY <1>4 DEF LInv, TypeOK
  <2>. QED
    BY <1>1, <1>4, <2>1, GoOutside DEF Critical
<1>. QED
  BY <1>2, <1>3, <1>4 DEF Lock

(* Of two contexts that are inside one at least is torn. *)
LEMMA WriteLedger ==
    ASSUME LInv, NEW c \in Contexts, Write(c)
    PROVE  Ledger' /\ ReadIsCurrent' /\ OwnerInside'
<1>1. pc[c] = "write" /\ UNCHANGED <<mutex, torn, tmp>> /\ lost' = (lost \/ c \in torn)
  BY DEF Write, At, local
<1>2. /\ \A d \in Contexts : pc'[d] \in Critical <=> pc[d] \in Critical
      /\ \A d \in Contexts : pc'[d] = "write" => pc[d] = "write" /\ d # c
  BY <1>1 DEF Write, Go, LInv, TypeOK, Critical
<1>3. OwnerInside'
  BY <1>1, <1>2 DEF LInv, Safe, OwnerInside, TypeOK
<1>4. /\ \A d \in Contexts \ torn' : pc'[d] \in Critical => mutex'.ready /\ mutex'.owner = d
      /\ \A d \in torn' : pc'[d] \in Critical
  BY <1>1, <1>2 DEF LInv, Safe, Ledger, TypeOK
<1>5. ASSUME ~lost' PROVE size' = ledger' /\ \A d \in Contexts \ torn' : pc'[d] # "write"
  <2>1. ~lost /\ c \in Contexts \ torn
    BY <1>1, <1>5
  <2>2. size = ledger /\ tmp[c] = size /\ mutex.owner = c
    BY <1>1, <2>1 DEF LInv, Safe, Ledger, ReadIsCurrent, Critical
  <2>3. \A d \in Contexts \ torn : pc[d] = "write" => d = c
    BY <2>2 DEF LInv, Safe, Ledger, Critical
  <2>. QED
    BY <1>1, <1>2, <2>2, <2>3 DEF Write
<1>. QED
  BY <1>3, <1>4, <1>5 DEF Ledger, ReadIsCurrent

(* Whose mutex is released by somebody else is torn. *)
LEMMA UnlockLedger ==
    ASSUME LInv, NEW c \in Contexts, Unlock(c)
    PROVE  Ledger' /\ ReadIsCurrent' /\ OwnerInside'
<1>1. /\ pc[c] = "unlock" /\ After(c) \notin Critical
      /\ UNCHANGED <<size, ledger, lost, tmp>>
      /\ torn' = (torn \cup {d \in {mutex.owner} \ {None} : mutex.ready}) \ {c}
  BY DEF Unlock, At, After, local, Critical
<1>2. /\ \A d \in Contexts \ {c} : pc'[d] \in Critical <=> pc[d] \in Critical
      /\ \A d \in Contexts : pc'[d] = "write" => pc[d] = "write"
      /\ pc'[c] \notin Critical
  BY <1>1 DEF Unlock, Go, LInv, TypeOK, Critical, After
<1>3. OwnerInside'
  BY DEF Unlock, NewMutex, OwnerInside
<1>4. \A d \in torn' : pc'[d] \in Critical
  <2>1. \A d \in torn : pc[d] \in Critical /\ d \in Contexts
    BY DEF LInv, Safe, Ledger, TypeOK
  <2>2. mutex.ready /\ mutex.owner # None => pc[mutex.owner] \in Critical /\ mutex.owner \in Contexts
    BY DEF LInv, Safe, OwnerInside, TypeOK
  <2>. QED
    BY <1>1, <1>2, <2>1, <2>2
<1>5. \A d \in Contexts \ torn' : pc'[d] \notin Critical
  BY <1>1, <1>2, NoneAssumption DEF LInv, Safe, Ledger
<1>. QED
  BY <1>1, <1>3, <1>4, <1>5 DEF LInv, Safe, Ledger, ReadIsCurrent, Critical

LEMMA StepLedger ==
    ASSUME LInv, NEW c \in Contexts, Step(c) \/ ProgramMalloc(c) \/ Call(c)
    PROVE  Ledger' /\ ReadIsCurrent' /\ OwnerInside'
<1>1. CASE \/ ProgramMalloc(c) \/ ProgramMalloced(c) \/ Malloc(c) \/ Malloced(c)
           \/ Free(c) \/ Freed(c) \/ Call(c) \/ Alloc(c) \/ ReallocBlock(c) \/ FreeBlock(c)
  BY <1>1, GoOutside DEF ProgramMalloc, ProgramMalloced, Malloc, Malloced, TakeHeap, Free, Freed,
     Call, Alloc, ReallocBlock, FreeBlock, Start, At, alloc, local, Critical
<1>2. CASE Realloc(c) \/ Realloced(c)
  BY <1>2, GoInside DEF Realloc, Realloced, TakeHeap, At, alloc, local, Critical
<1>3. CASE Read(c)
  <2>1. /\ pc[c] = "read" /\ Go(c, "write") /\ tmp' = [tmp EXCEPT ![c] = size]
        /\ UNCHANGED <<mutex, size, ledger, torn, lost>>
    BY <1>3 DEF Read, At, alloc
  <2>. QED
    BY <2>1 DEF LInv, Safe, TypeOK, Ledger, ReadIsCurrent, OwnerInside, Go, Critical
<1>4. CASE Raise(c)
  BY <1>4 DEF Raise, alloc, local, LInv, Safe, Ledger, ReadIsCurrent, OwnerInside
<1>. QED
  BY <1>1, <1>2, <1>3, <1>4, InitLedger, FiniLedger, LockLedger, WriteLedger, UnlockLedger DEF Step

(* The new context of a thread was idle, and so nobody's owner and not torn. *)
LEMMA SignalLedger ==
    ASSUME LInv, NEW t \in Threads, NEW s \in Signals, Signal(t, s)
    PROVE  Safe'
<1> DEFINE c == <<t, depth[t] + 1>>
<1>1. /\ Go(c, "init") /\ depth' = [depth EXCEPT ![t] = depth[t] + 1]
      /\ UNCHANGED <<mutex, size, ledger, torn, lost, tmp>>
  BY DEF Signal, alloc, local
<1>2. depth[t] \in Nat /\ \A l \in Levels : l \in Nat
  BY LevelsType DEF LInv, TypeOK
<1>3. c \in Contexts => pc[c] = "idle"
  BY <1>2 DEF LInv, Safe, AboveIdle, Contexts
<1>4. \A d \in Contexts : pc'[d] = IF d = c THEN "init" ELSE pc[d]
  BY <1>1 DEF Go, LInv, TypeOK
<1>5. AboveIdle'
  <2> SUFFICES ASSUME NEW u \in Threads, NEW l \in Levels, l > depth'[u]
               PROVE  pc'[<<u, l>>] = "idle"
    BY DEF AboveIdle
  <2>1. l > depth[u] /\ <<u, l>> # c /\ <<u, l>> \in Contexts
    BY <1>1, <1>2 DEF LInv, TypeOK, Contexts
  <2>. QED
    BY <1>4, <2>1 DEF LInv, Safe, AboveIdle
<1>6. \A d \in Contexts : pc'[d] \in Critical <=> pc[d] \in Critical
  BY <1>3, <1>4 DEF Critical
<1>7. Ledger' /\ ReadIsCurrent' /\ OwnerInside'
  BY <1>1, <1>4, <1>6 DEF LInv, Safe, TypeOK, Ledger, ReadIsCurrent, OwnerInside
<1>. QED
  BY <1>5, <1>7 DEF Safe

(* With any number of threads and of signals on top of each other, whatever *)
(* the order of the calls of pst_lib_init and pst_lib_fini: who is between   *)
(* lock and unlock is the owner of the mutex, but for those it was taken     *)
(* from, which are torn until they leave, and the size of the allocator is   *)
(* what was counted unless one of those has written it since the last reset. *)
(* src/utils/allocator.c:15-75.                                             *)
THEOREM LedgerCorrect == Spec => []Ledger
<1>1. Init => Safe
  BY DEF Init, Safe, Ledger, ReadIsCurrent, OwnerInside, AboveIdle, Contexts, Critical
<1>2. TypeOK /\ Safe /\ [Next]_vars => Safe'
  <2> SUFFICES ASSUME LInv, [Next]_vars PROVE Safe'
    BY DEF LInv
  <2>1. CASE UNCHANGED vars
    BY <2>1 DEF vars, alloc, local, LInv, Safe, Ledger, ReadIsCurrent, OwnerInside, AboveIdle
  <2>2. ASSUME NEW c \in Contexts, Step(c) \/ ProgramMalloc(c) \/ Call(c) PROVE Safe'
    BY <2>2, StepLedger, StepAbove DEF Safe
  <2>. QED
    BY <2>1, <2>2, SignalLedger DEF Next
<1>3. Safe => Ledger
  BY DEF Safe
<1>. QED
  BY <1>1, <1>2, <1>3, TypeCorrect, PTL DEF Spec
===============================================================================
