------------------------------ MODULE Allocator ------------------------------
(***************************************************************************)
(* The pool allocator behind every queue node, packet buffer, pending      *)
(* message and map item: stacks of free pointers, each locked by a bit of  *)
(* one atomic word. Every atomic access is a step of its own.              *)
(***************************************************************************)
EXTENDS Integers, FiniteSets

CONSTANTS
  Threads,
  ChunkItems,    \* chunk_item_amount: items of one stack
  WordBits,      \* 64: bits of occupied and length of stacks[]
  ShiftBits,     \* 32: bits of the mask free_stack_lock builds with 1u
  SizeRange,     \* 2^32: values of a stack's size
  MaxStacks,     \* bound: stacks created
  None

Stacks == 0 .. MaxStacks - 1
Items  == Stacks \X (1 .. ChunkItems)

ASSUME AllocatorAssumption ==
  /\ ChunkItems \in Nat \ {0} /\ WordBits \in Nat /\ ShiftBits \in Nat
  /\ SizeRange \in Nat /\ SizeRange > ChunkItems
  /\ MaxStacks \in Nat \ {0} /\ MaxStacks <= WordBits
  /\ None \notin Items /\ None \notin Threads

VARIABLES
  \* the allocator: lock bits, number of stacks, its creation lock, and per
  \* stack the number of free pointers and the pointers
  occupied, stacks_allocated, creating_stack, size, pointers,
  \* ptr_status of the testing build, and its exit on a double free
  ptr_status, failed,
  \* a call's operation, place and locals
  op, pc, seen, bitmap, invalid_bitmap, first_free, old_size, ptr,
  \* how often each item has been handed out and not been given back
  held

stackVars == <<size, pointers>>
locals    == <<seen, bitmap, invalid_bitmap, first_free, old_size>>
vars == <<occupied, stacks_allocated, creating_stack, stackVars, ptr_status, failed, op, pc, locals, ptr, held>>

-----------------------------------------------------------------------------
Goto(t, l) == pc' = [pc EXCEPT ![t] = l]

AllocateCall(t) ==
  /\ pc[t] = "idle"
  /\ op' = [op EXCEPT ![t] = "allocate"]
  /\ Goto(t, "start")
  /\ UNCHANGED <<occupied, stacks_allocated, creating_stack, stackVars, ptr_status, failed, locals, ptr, held>>

FreeCall(t) ==
  /\ pc[t] = "idle"
  /\ \E x \in DOMAIN held :
       /\ held[x] > 0
       /\ held' = [held EXCEPT ![x] = @ - 1]
       /\ ptr' = [ptr EXCEPT ![t] = x]
  /\ op' = [op EXCEPT ![t] = "free"]
  /\ Goto(t, "start")
  /\ UNCHANGED <<occupied, stacks_allocated, creating_stack, stackVars, ptr_status, failed, locals>>

\* is_already_free, once per (recursive) call of allocator_free.
CheckFree(t) ==
  /\ pc[t] = "start" /\ op[t] = "free"
  /\ failed' = (ptr[t] \notin ptr_status)
  /\ Goto(t, "load")
  /\ UNCHANGED <<occupied, stacks_allocated, creating_stack, stackVars, ptr_status, op, locals, ptr, held>>

\* find_free_pointer_stack.
LoadStacks(t) ==
  /\ pc[t] = (IF op[t] = "free" THEN "load" ELSE "start")
  /\ seen' = [seen EXCEPT ![t] = stacks_allocated]
  /\ Goto(t, "bitmap")
  /\ UNCHANGED <<occupied, stacks_allocated, creating_stack, stackVars, ptr_status, failed, op, bitmap, invalid_bitmap, first_free, old_size, ptr, held>>

LoadBitmap(t) ==
  /\ pc[t] = "bitmap"
  /\ bitmap' = [bitmap EXCEPT ![t] = occupied]
  /\ Goto(t, "find")
  /\ UNCHANGED <<occupied, stacks_allocated, creating_stack, stackVars, ptr_status, failed, op, seen, invalid_bitmap, first_free, old_size, ptr, held>>

\* __builtin_ctzll: f is the lowest bit clear in both bitmaps.
FirstFree(t, f) ==
  /\ f \notin bitmap[t] \cup invalid_bitmap[t]
  /\ \A b \in 0 .. f - 1 : b \in bitmap[t] \cup invalid_bitmap[t]

\* Mutant of FindLock: the bit is set without comparing the word.
StoreLock(t) ==
  /\ pc[t] = "find"
  /\ \E f \in 0 .. seen[t] - 1 :
       /\ FirstFree(t, f)
       /\ occupied' = bitmap[t] \cup {f}
       /\ first_free' = [first_free EXCEPT ![t] = f]
  /\ Goto(t, "check")
  /\ UNCHANGED <<stacks_allocated, creating_stack, stackVars, ptr_status, failed, op, seen, bitmap, invalid_bitmap, old_size, ptr, held>>

FindLock(t) ==
  /\ pc[t] = "find"
  /\ \E f \in 0 .. seen[t] - 1 :
       /\ FirstFree(t, f)
       /\ IF occupied = bitmap[t] THEN
            /\ occupied' = occupied \cup {f}
            /\ first_free' = [first_free EXCEPT ![t] = f]
            /\ Goto(t, "check")
            /\ UNCHANGED bitmap
          ELSE
            /\ bitmap' = [bitmap EXCEPT ![t] = occupied]
            /\ UNCHANGED <<occupied, first_free, pc>>
  /\ UNCHANGED <<stacks_allocated, creating_stack, stackVars, ptr_status, failed, op, seen, invalid_bitmap, old_size, ptr, held>>

\* Every stack seen is locked or was rejected: NULL.
FindNone(t) ==
  /\ pc[t] = "find"
  /\ ~\E f \in 0 .. seen[t] - 1 : FirstFree(t, f)
  /\ seen' = [seen EXCEPT ![t] = 0]
  /\ bitmap' = [bitmap EXCEPT ![t] = {}]
  /\ invalid_bitmap' = [invalid_bitmap EXCEPT ![t] = {}]
  /\ Goto(t, "create")
  /\ UNCHANGED <<occupied, stacks_allocated, creating_stack, stackVars, ptr_status, failed, op, first_free, old_size, ptr, held>>

\* Mutant of ValidSize: a free may go to a full stack.
FullAccepted(kind, s) == IF kind = "free" THEN s <= ChunkItems ELSE s <= ChunkItems /\ s > 0

ValidSize(kind, s) == IF kind = "free" THEN s < ChunkItems ELSE s <= ChunkItems /\ s > 0

CheckSize(t) ==
  /\ pc[t] = "check"
  /\ Goto(t, IF ValidSize(op[t], size[first_free[t]]) THEN "size" ELSE "reject")
  /\ UNCHANGED <<occupied, stacks_allocated, creating_stack, stackVars, ptr_status, failed, op, locals, ptr, held>>

\* ~(1u << index) is 32 bits wide: it also clears every bit from 32 on. For
\* an index of 32 or more the shift is undefined: some bit or none.
FreeStackLock(i) ==
  LET cleared == IF i < ShiftBits THEN {i} ELSE 0 .. ShiftBits
  IN  { {b \in occupied : b < ShiftBits /\ b # c} : c \in cleared }

RejectStack(t) ==
  /\ pc[t] = "reject"
  /\ occupied' \in FreeStackLock(first_free[t])
  /\ invalid_bitmap' = [invalid_bitmap EXCEPT ![t] = @ \cup {first_free[t]}]
  /\ first_free' = [first_free EXCEPT ![t] = 0]
  /\ Goto(t, "find")
  /\ UNCHANGED <<stacks_allocated, creating_stack, stackVars, ptr_status, failed, op, seen, bitmap, old_size, ptr, held>>

-----------------------------------------------------------------------------
(* allocator_allocate and allocator_free on a locked stack.                *)

FetchSize(t) ==
  /\ pc[t] = "size"
  /\ old_size' = [old_size EXCEPT ![t] = size[first_free[t]]]
  /\ size' = [size EXCEPT ![first_free[t]] =
                IF op[t] = "free" THEN (@ + 1) % SizeRange ELSE (@ - 1) % SizeRange]
  /\ Goto(t, "pointer")
  /\ UNCHANGED <<occupied, stacks_allocated, creating_stack, pointers, ptr_status, failed, op, seen, bitmap, invalid_bitmap, first_free, ptr, held>>

\* Mutant of ReadPointer: the pointer above the top is read.
ReadBeside(t) ==
  /\ pc[t] = "pointer" /\ op[t] = "allocate"
  /\ \E x \in IF old_size[t] + 1 \in 1 .. ChunkItems THEN {pointers[first_free[t]][old_size[t] + 1]} ELSE Items :
       ptr' = [ptr EXCEPT ![t] = x]
  /\ Goto(t, "mark")
  /\ UNCHANGED <<occupied, stacks_allocated, creating_stack, stackVars, ptr_status, failed, op, locals, held>>

\* A size outside the array reads whatever lies there.
ReadPointer(t) ==
  /\ pc[t] = "pointer" /\ op[t] = "allocate"
  /\ \E x \in IF old_size[t] \in 1 .. ChunkItems THEN {pointers[first_free[t]][old_size[t]]} ELSE Items :
       ptr' = [ptr EXCEPT ![t] = x]
  /\ Goto(t, "mark")
  /\ UNCHANGED <<occupied, stacks_allocated, creating_stack, stackVars, ptr_status, failed, op, locals, held>>

WritePointer(t) ==
  /\ pc[t] = "pointer" /\ op[t] = "free"
  /\ pointers' = IF old_size[t] + 1 \in 1 .. ChunkItems
                 THEN [pointers EXCEPT ![first_free[t]][old_size[t] + 1] = ptr[t]] ELSE pointers
  /\ Goto(t, "mark")
  /\ UNCHANGED <<occupied, stacks_allocated, creating_stack, size, ptr_status, failed, op, locals, ptr, held>>

\* set_memory_status.
Mark(t) ==
  /\ pc[t] = "mark"
  /\ ptr_status' = IF op[t] = "free" THEN ptr_status \ {ptr[t]} ELSE ptr_status \cup {ptr[t]}
  /\ Goto(t, "unlock")
  /\ UNCHANGED <<occupied, stacks_allocated, creating_stack, stackVars, failed, op, locals, ptr, held>>

\* free_stack_lock, and the return: the call's locals are gone.
Unlock(t) ==
  /\ pc[t] = "unlock"
  /\ occupied' \in FreeStackLock(first_free[t])
  /\ held' = IF op[t] = "free" THEN held ELSE [held EXCEPT ![ptr[t]] = @ + 1]
  /\ op' = [op EXCEPT ![t] = "none"]
  /\ ptr' = [ptr EXCEPT ![t] = None]
  /\ seen' = [seen EXCEPT ![t] = 0]
  /\ bitmap' = [bitmap EXCEPT ![t] = {}]
  /\ invalid_bitmap' = [invalid_bitmap EXCEPT ![t] = {}]
  /\ first_free' = [first_free EXCEPT ![t] = 0]
  /\ old_size' = [old_size EXCEPT ![t] = 0]
  /\ Goto(t, "idle")
  /\ UNCHANGED <<stacks_allocated, creating_stack, stackVars, ptr_status, failed>>

-----------------------------------------------------------------------------
(* create_new_stack, then the call starts again.                           *)

LockCreation(t) ==
  /\ pc[t] = "create"
  /\ creating_stack = None
  /\ stacks_allocated < MaxStacks
  /\ creating_stack' = t
  /\ Goto(t, "fill")
  /\ UNCHANGED <<occupied, stacks_allocated, stackVars, ptr_status, failed, op, locals, ptr, held>>

Fresh(i) == [j \in 1 .. ChunkItems |-> <<i, j>>]

FillStack(t) ==
  /\ pc[t] = "fill"
  /\ size' = [size EXCEPT ![stacks_allocated] = ChunkItems]
  /\ pointers' = [pointers EXCEPT ![stacks_allocated] = Fresh(stacks_allocated)]
  /\ Goto(t, "publish")
  /\ UNCHANGED <<occupied, stacks_allocated, creating_stack, ptr_status, failed, op, locals, ptr, held>>

PublishStack(t) ==
  /\ pc[t] = "publish"
  /\ stacks_allocated' = stacks_allocated + 1
  /\ Goto(t, "created")
  /\ UNCHANGED <<occupied, creating_stack, stackVars, ptr_status, failed, op, locals, ptr, held>>

UnlockCreation(t) ==
  /\ pc[t] = "created"
  /\ creating_stack' = None
  /\ Goto(t, "start")
  /\ UNCHANGED <<occupied, stacks_allocated, stackVars, ptr_status, failed, op, locals, ptr, held>>

-----------------------------------------------------------------------------
\* allocator_create.
Init ==
  /\ occupied = {}
  /\ stacks_allocated = 1
  /\ creating_stack = None
  /\ size = [i \in Stacks |-> IF i = 0 THEN ChunkItems ELSE 0]
  /\ pointers = [i \in Stacks |-> IF i = 0 THEN Fresh(0) ELSE [j \in 1 .. ChunkItems |-> None]]
  /\ ptr_status = {}
  /\ failed = FALSE
  /\ op = [t \in Threads |-> "none"]
  /\ pc = [t \in Threads |-> "idle"]
  /\ seen = [t \in Threads |-> 0]
  /\ bitmap = [t \in Threads |-> {}]
  /\ invalid_bitmap = [t \in Threads |-> {}]
  /\ first_free = [t \in Threads |-> 0]
  /\ old_size = [t \in Threads |-> 0]
  /\ ptr = [t \in Threads |-> None]
  /\ held = [x \in Items \cup {None} |-> 0]

Thread(t) ==
  /\ ~failed
  /\ \/ AllocateCall(t) \/ FreeCall(t) \/ CheckFree(t) \/ LoadStacks(t) \/ LoadBitmap(t)
     \/ FindLock(t) \/ FindNone(t) \/ CheckSize(t) \/ RejectStack(t) \/ FetchSize(t)
     \/ ReadPointer(t) \/ WritePointer(t) \/ Mark(t) \/ Unlock(t)
     \/ LockCreation(t) \/ FillStack(t) \/ PublishStack(t) \/ UnlockCreation(t)

Next == \E t \in Threads : Thread(t)

Spec == Init /\ [][Next]_vars

-----------------------------------------------------------------------------
(* Properties.                                                             *)

InStack  == {"check", "reject", "size", "pointer", "mark", "unlock"}
Creating == {"fill", "publish", "created"}
Places   == {"idle", "start", "load", "bitmap", "find", "create"} \cup InStack \cup Creating

\* Every variable holds values of its C type.
TypeOK ==
  /\ occupied \subseteq 0 .. WordBits - 1
  /\ stacks_allocated \in 1 .. MaxStacks
  /\ creating_stack \in Threads \cup {None}
  /\ size \in [Stacks -> 0 .. SizeRange - 1]
  /\ pointers \in [Stacks -> [1 .. ChunkItems -> Items \cup {None}]]
  /\ ptr_status \subseteq Items \cup {None}
  /\ failed \in BOOLEAN
  /\ op \in [Threads -> {"none", "allocate", "free"}]
  /\ pc \in [Threads -> Places]
  /\ seen \in [Threads -> 0 .. MaxStacks]
  /\ bitmap \in [Threads -> SUBSET (0 .. WordBits - 1)]
  /\ invalid_bitmap \in [Threads -> SUBSET Stacks]
  /\ first_free \in [Threads -> Stacks]
  /\ old_size \in [Threads -> 0 .. SizeRange - 1]
  /\ ptr \in [Threads -> Items \cup {None}]
  /\ held \in [Items \cup {None} -> Nat]

\* With no more stacks than the mask has bits, the lock bit of a stack keeps
\* every other thread away from its size and its pointers.
StackExclusive ==
  stacks_allocated <= ShiftBits =>
    \A t, u \in Threads :
      t # u /\ pc[t] \in InStack /\ pc[u] \in InStack => first_free[t] # first_free[u]

\* The free pointers of stack i: a thread between fetch and access has
\* changed the size already.
Top(i) ==
  LET accessing(kind) == \E t \in Threads : pc[t] = "pointer" /\ first_free[t] = i /\ op[t] = kind
  IN  IF accessing("allocate") THEN size[i] + 1 ELSE IF accessing("free") THEN size[i] - 1 ELSE size[i]

\* Whether thread t carries an item between a stack and its caller.
Carrying(t) == ptr[t] # None /\ ~(op[t] = "free" /\ pc[t] \in {"mark", "unlock"})

Whereabouts(x) ==
  { w \in {"stack"} \X (0 .. stacks_allocated - 1) \X (1 .. ChunkItems) :
      w[3] <= Top(w[2]) /\ pointers[w[2]][w[3]] = x }
  \cup { w \in {"thread"} \X Threads : Carrying(w[2]) /\ ptr[w[2]] = x }
  \cup { w \in {"held"} \X (1 .. held[x]) : TRUE }

\* Every item of a created stack is in exactly one place: free in a stack,
\* on its way, or with a caller. None is handed out twice, none is lost.
EveryItemOnce ==
  stacks_allocated <= ShiftBits =>
    \A x \in Items : x[1] < stacks_allocated => Cardinality(Whereabouts(x)) = 1

PoolImpl == INSTANCE Pool WITH Items <- Items \cup {None}

\* The allocator is a pool.
ImplementsPool == PoolImpl!Spec

=============================================================================
