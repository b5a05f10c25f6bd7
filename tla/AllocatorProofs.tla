-------------------------- MODULE AllocatorProofs --------------------------
(***************************************************************************)
(* Proofs about the pool allocator, for any number of threads, stacks and  *)
(* items: types, and the exclusion the lock bits give.                     *)
(***************************************************************************)
EXTENDS Allocator, TLAPS

\* create_new_stack runs in one thread at a time, and only while the array
\* has room.
CreationInv ==
  /\ \A t \in Threads : pc[t] \in Creating => creating_stack = t
  /\ \A t \in Threads : pc[t] \in {"fill", "publish"} => stacks_allocated < MaxStacks
  /\ \A t \in Threads : seen[t] <= stacks_allocated

\* A thread works on a stack only while it owns the stack's bit, and no other
\* thread owns the same one.
LockInv ==
  stacks_allocated <= ShiftBits =>
    /\ \A t \in Threads : pc[t] \in InStack =>
         first_free[t] \in occupied /\ first_free[t] < stacks_allocated
    /\ \A t, u \in Threads :
         t # u /\ pc[t] \in InStack /\ pc[u] \in InStack => first_free[t] # first_free[u]

IInv == TypeOK /\ CreationInv /\ LockInv

\* An unlock clears bits only, and below the width of its mask just its own.
LEMMA UnlockClears ==
  ASSUME NEW i \in Nat, NEW o \in FreeStackLock(i)
  PROVE  /\ o \subseteq occupied
         /\ i < ShiftBits => \A b \in occupied : b < ShiftBits /\ b # i => b \in o
BY DEF FreeStackLock

\* A new stack holds its own items.
LEMMA FreshItems ==
  \A i \in Stacks : Fresh(i) \in [1 .. ChunkItems -> Items]
BY DEF Fresh, Items

\* The allocator that allocator_create returns.
LEMMA AllocatorInit == Init => IInv
<1> SUFFICES ASSUME Init PROVE IInv
  OBVIOUS
<1>1. TypeOK
  <2>1. 0 \in Stacks
    BY AllocatorAssumption DEF Stacks
  <2>2. pointers \in [Stacks -> [1 .. ChunkItems -> Items \cup {None}]]
    BY <2>1, FreshItems DEF Init
  <2>3. size \in [Stacks -> 0 .. SizeRange - 1]
    BY AllocatorAssumption DEF Init
  <2>4. 1 \in 1 .. MaxStacks /\ 0 \in 0 .. MaxStacks /\ 0 \in 0 .. SizeRange - 1
    BY AllocatorAssumption
  <2>5. /\ op \in [Threads -> {"none", "allocate", "free"}]
        /\ pc \in [Threads -> Places]
        /\ seen \in [Threads -> 0 .. MaxStacks]
        /\ bitmap \in [Threads -> SUBSET (0 .. WordBits - 1)]
        /\ invalid_bitmap \in [Threads -> SUBSET Stacks]
        /\ first_free \in [Threads -> Stacks]
        /\ old_size \in [Threads -> 0 .. SizeRange - 1]
        /\ ptr \in [Threads -> Items \cup {None}]
        /\ held \in [Items \cup {None} -> Nat]
    BY <2>1, <2>4 DEF Init, Places
  <2> QED
    BY <2>2, <2>3, <2>4, <2>5 DEF Init, TypeOK
<1>2. CreationInv
  BY DEF Init, CreationInv, Creating
<1>3. LockInv
  BY DEF Init, LockInv, InStack
<1> QED
  BY <1>1, <1>2, <1>3 DEF IInv

\* Every step keeps the types and the creation lock's facts.
LEMMA AllocatorTypes ==
  ASSUME IInv, NEW t \in Threads, Thread(t)
  PROVE  TypeOK' /\ CreationInv'
<1> USE DEF IInv, Goto, stackVars, locals
<1>1. CASE AllocateCall(t)
  BY <1>1 DEF AllocateCall, TypeOK, CreationInv, Places, Creating
<1>2. CASE FreeCall(t)
  BY <1>2 DEF FreeCall, TypeOK, CreationInv, Places, Creating
<1>3. CASE CheckFree(t)
  BY <1>3 DEF CheckFree, TypeOK, CreationInv, Places, Creating
<1>4. CASE LoadStacks(t)
  BY <1>4, AllocatorAssumption DEF LoadStacks, TypeOK, CreationInv, Places, Creating
<1>5. CASE LoadBitmap(t)
  BY <1>5 DEF LoadBitmap, TypeOK, CreationInv, Places, Creating
<1>6. CASE FindLock(t)
  <2>1. PICK f \in 0 .. seen[t] - 1 :
          IF occupied = bitmap[t] THEN
            /\ occupied' = occupied \cup {f}
            /\ first_free' = [first_free EXCEPT ![t] = f]
            /\ Goto(t, "check")
            /\ UNCHANGED bitmap
          ELSE
            /\ bitmap' = [bitmap EXCEPT ![t] = occupied]
            /\ UNCHANGED <<occupied, first_free, pc>>
    BY <1>6 DEF FindLock
  <2>2. f \in Stacks /\ f \in 0 .. WordBits - 1
    BY AllocatorAssumption DEF TypeOK, CreationInv, Stacks
  <2>3. /\ UNCHANGED <<stacks_allocated, creating_stack, size, pointers, ptr_status, failed, op, seen, invalid_bitmap, old_size, ptr, held>>
    BY <1>6 DEF FindLock, stackVars
  <2>4. /\ occupied' \subseteq 0 .. WordBits - 1
        /\ first_free' \in [Threads -> Stacks]
        /\ bitmap' \in [Threads -> SUBSET (0 .. WordBits - 1)]
        /\ pc' = pc \/ pc' = [pc EXCEPT ![t] = "check"]
    <3>1. CASE occupied = bitmap[t]
      BY <2>1, <2>2, <3>1 DEF TypeOK
    <3>2. CASE occupied # bitmap[t]
      <4>1. occupied \in SUBSET (0 .. WordBits - 1)
        BY DEF TypeOK
      <4> QED
        BY <2>1, <3>2, <4>1 DEF TypeOK
    <3> QED
      BY <3>1, <3>2
  <2> QED
    BY <2>3, <2>4 DEF TypeOK, CreationInv, Places, Creating, InStack
<1>7. CASE FindNone(t)
  BY <1>7, AllocatorAssumption DEF FindNone, TypeOK, CreationInv, Places, Creating
<1>8. CASE CheckSize(t)
  BY <1>8 DEF CheckSize, TypeOK, CreationInv, Places, Creating, InStack
<1>9. CASE RejectStack(t)
  <2>1. occupied' \subseteq occupied
    BY <1>9, UnlockClears DEF RejectStack, TypeOK, Stacks
  <2>2. 0 \in Stacks
    BY AllocatorAssumption DEF Stacks
  <2> QED
    BY <1>9, <2>1, <2>2 DEF RejectStack, TypeOK, CreationInv, Places, Creating
<1>10. CASE FetchSize(t)
  <2>1. \A k \in Int : k % SizeRange \in 0 .. SizeRange - 1
    BY AllocatorAssumption
  <2>2. size' \in [Stacks -> 0 .. SizeRange - 1] /\ old_size' \in [Threads -> 0 .. SizeRange - 1]
    <3>1. first_free[t] \in Stacks
      BY DEF TypeOK
    <3>2. size[first_free[t]] \in 0 .. SizeRange - 1 /\ size[first_free[t]] \in Int
      BY <3>1, AllocatorAssumption DEF TypeOK
    <3> DEFINE s == size[first_free[t]]
               k == IF op[t] = "free" THEN (s + 1) % SizeRange ELSE (s - 1) % SizeRange
    <3>3. size' = [size EXCEPT ![first_free[t]] = k]
      BY <1>10 DEF FetchSize
    <3>4. k \in 0 .. SizeRange - 1
      BY <2>1, <3>2
    <3> HIDE DEF k
    <3> QED
      BY <1>10, <3>2, <3>3, <3>4 DEF FetchSize, TypeOK
  <2> QED
    BY <1>10, <2>2 DEF FetchSize, TypeOK, CreationInv, Places, Creating, InStack
<1>11. CASE ReadPointer(t)
  <2>1. ptr' \in [Threads -> Items \cup {None}]
    <3>1. PICK x \in IF old_size[t] \in 1 .. ChunkItems THEN {pointers[first_free[t]][old_size[t]]} ELSE Items :
            ptr' = [ptr EXCEPT ![t] = x]
      BY <1>11 DEF ReadPointer
    <3>2. x \in Items \cup {None}
      <4>1. first_free[t] \in Stacks /\ pointers[first_free[t]] \in [1 .. ChunkItems -> Items \cup {None}]
        BY DEF TypeOK
      <4> QED
        BY <3>1, <4>1
    <3> QED
      BY <3>1, <3>2 DEF TypeOK
  <2> QED
    BY <1>11, <2>1 DEF ReadPointer, TypeOK, CreationInv, Places, Creating, InStack
<1>12. CASE WritePointer(t)
  BY <1>12 DEF WritePointer, TypeOK, CreationInv, Places, Creating, InStack
<1>13. CASE Mark(t)
  BY <1>13 DEF Mark, TypeOK, CreationInv, Places, Creating, InStack
<1>14. CASE Unlock(t)
  <2>1. occupied' \subseteq occupied
    BY <1>14, UnlockClears DEF Unlock, TypeOK, Stacks
  <2>2. 0 \in Stacks
    BY AllocatorAssumption DEF Stacks
  <2>3. held' \in [Items \cup {None} -> Nat]
    BY <1>14 DEF Unlock, TypeOK
  <2> QED
    BY <1>14, <2>1, <2>2, <2>3, AllocatorAssumption DEF Unlock, TypeOK, CreationInv, Places, Creating
<1>15. CASE LockCreation(t)
  BY <1>15, AllocatorAssumption DEF LockCreation, TypeOK, CreationInv, Places, Creating
<1>16. CASE FillStack(t)
  <2>1. stacks_allocated \in Stacks
    BY <1>16, AllocatorAssumption DEF FillStack, TypeOK, CreationInv, Stacks
  <2>2. pointers' \in [Stacks -> [1 .. ChunkItems -> Items \cup {None}]]
    BY <1>16, <2>1, FreshItems DEF FillStack, TypeOK
  <2>3. size' \in [Stacks -> 0 .. SizeRange - 1]
    <3>1. ChunkItems \in 0 .. SizeRange - 1
      BY AllocatorAssumption
    <3> QED
      BY <1>16, <3>1 DEF FillStack, TypeOK
  <2> QED
    BY <1>16, <2>2, <2>3 DEF FillStack, TypeOK, CreationInv, Places, Creating
<1>17. CASE PublishStack(t)
  BY <1>17, AllocatorAssumption DEF PublishStack, TypeOK, CreationInv, Places, Creating
<1>18. CASE UnlockCreation(t)
  BY <1>18 DEF UnlockCreation, TypeOK, CreationInv, Places, Creating
<1> QED
  BY <1>1, <1>2, <1>3, <1>4, <1>5, <1>6, <1>7, <1>8, <1>9, <1>10, <1>11, <1>12, <1>13, <1>14,
     <1>15, <1>16, <1>17, <1>18 DEF Thread

\* Every step keeps the lock bits and the threads that own them in agreement.
LEMMA AllocatorLocks ==
  ASSUME IInv, NEW t \in Threads, Thread(t)
  PROVE  LockInv'
<1> SUFFICES ASSUME stacks_allocated' <= ShiftBits
             PROVE  /\ \A u \in Threads : pc'[u] \in InStack =>
                         first_free'[u] \in occupied' /\ first_free'[u] < stacks_allocated'
                    /\ \A u, v \in Threads :
                         u # v /\ pc'[u] \in InStack /\ pc'[v] \in InStack => first_free'[u] # first_free'[v]
  BY DEF LockInv
<1>0. stacks_allocated <= stacks_allocated' /\ stacks_allocated <= ShiftBits
  BY AllocatorAssumption DEF Thread, AllocateCall, FreeCall, CheckFree, LoadStacks, LoadBitmap, FindLock, FindNone, CheckSize,
     RejectStack, FetchSize, ReadPointer, WritePointer, Mark, Unlock, LockCreation, FillStack,
     PublishStack, UnlockCreation, IInv, TypeOK
<1>1. CASE /\ UNCHANGED <<occupied, first_free>>
           /\ \E l \in Places : /\ pc' = [pc EXCEPT ![t] = l]
                                /\ l \in InStack => pc[t] \in InStack
  <2>1. \A u \in Threads : pc'[u] \in InStack => pc[u] \in InStack
    <3>1. PICK l \in Places : pc' = [pc EXCEPT ![t] = l] /\ (l \in InStack => pc[t] \in InStack)
      BY <1>1
    <3>2. \A u \in Threads : pc'[u] = IF u = t THEN l ELSE pc[u]
      BY <3>1 DEF IInv, TypeOK
    <3> QED
      BY <3>1, <3>2
  <2>2. \A u \in Threads : pc[u] \in InStack => first_free[u] \in Nat
    BY DEF IInv, TypeOK, Stacks
  <2>3. stacks_allocated \in Nat /\ stacks_allocated' \in Nat
    BY AllocatorTypes, AllocatorAssumption DEF IInv, TypeOK
  <2> QED
    BY <1>0, <1>1, <2>1, <2>2, <2>3 DEF IInv, LockInv
<1>2. CASE FindLock(t)
  <2>1. UNCHANGED stacks_allocated /\ pc[t] = "find"
    BY <1>2 DEF FindLock
  <2>2. CASE UNCHANGED <<occupied, first_free, pc>>
    BY <1>0, <2>1, <2>2 DEF IInv, LockInv
  <2>3. ASSUME NEW f \in 0 .. seen[t] - 1, FirstFree(t, f), occupied = bitmap[t],
               occupied' = occupied \cup {f},
               first_free' = [first_free EXCEPT ![t] = f],
               pc' = [pc EXCEPT ![t] = "check"]
        PROVE  /\ \A u \in Threads : pc'[u] \in InStack =>
                    first_free'[u] \in occupied' /\ first_free'[u] < stacks_allocated'
               /\ \A u, v \in Threads :
                    u # v /\ pc'[u] \in InStack /\ pc'[v] \in InStack => first_free'[u] # first_free'[v]
    <3>1. f \notin occupied /\ f < stacks_allocated
      BY <2>3, AllocatorAssumption DEF FirstFree, IInv, TypeOK, CreationInv
    <3>2. /\ first_free'[t] = f
          /\ \A u \in Threads \ {t} : first_free'[u] = first_free[u] /\ pc'[u] = pc[u]
      BY <2>3 DEF IInv, TypeOK
    <3> QED
      BY <1>0, <2>1, <2>3, <3>1, <3>2 DEF IInv, LockInv
  <2> QED
    BY <1>2, <2>2, <2>3 DEF FindLock, Goto
<1>3. CASE RejectStack(t) \/ Unlock(t)
  <2>1. /\ UNCHANGED stacks_allocated
        /\ pc[t] \in InStack
        /\ occupied' \in FreeStackLock(first_free[t])
        /\ \A u \in Threads \ {t} : first_free'[u] = first_free[u] /\ pc'[u] = pc[u]
        /\ pc'[t] \notin InStack
    BY <1>3 DEF RejectStack, Unlock, Goto, IInv, TypeOK, InStack
  <2>2. \A u \in Threads : first_free[u] \in Nat
    BY DEF IInv, TypeOK, Stacks
  <2>3. \A u \in Threads : pc[u] \in InStack => first_free[u] < ShiftBits
    BY <1>0, <2>2, AllocatorAssumption DEF IInv, TypeOK, LockInv
  <2>4. \A b \in occupied : b < ShiftBits /\ b # first_free[t] => b \in occupied'
    BY <2>1, <2>2, <2>3, UnlockClears
  <2> QED
    BY <1>0, <2>1, <2>3, <2>4 DEF IInv, LockInv
<1> QED
  BY <1>1, <1>2, <1>3 DEF Thread, AllocateCall, FreeCall, CheckFree, LoadStacks, LoadBitmap, FindNone, CheckSize,
     FetchSize, ReadPointer, WritePointer, Mark, LockCreation, FillStack,
     PublishStack, UnlockCreation, Goto, InStack, Places, Creating, locals

\* The inductive invariant, for any number of threads, stacks and items.
LEMMA AllocatorInvariant == Spec => []IInv
<1>1. IInv /\ [Next]_vars => IInv'
  <2> SUFFICES ASSUME IInv, [Next]_vars PROVE IInv'
    OBVIOUS
  <2>1. CASE UNCHANGED vars
    BY <2>1 DEF IInv, TypeOK, CreationInv, LockInv, vars, stackVars, locals
  <2>2. ASSUME NEW t \in Threads, Thread(t) PROVE IInv'
    BY <2>2, AllocatorTypes, AllocatorLocks DEF IInv
  <2> QED
    BY <2>1, <2>2 DEF Next
<1> QED
  BY <1>1, AllocatorInit, PTL DEF Spec

\* Every variable of the allocator keeps its type; in particular two threads in
\* create_new_stack never both publish a stack past the bound one of them saw.
THEOREM AllocatorTypeCorrect == Spec => []TypeOK
BY AllocatorInvariant, PTL DEF IInv

\* As long as there are no more stacks than free_stack_lock's mask has bits,
\* no two threads are inside find_free_pointer_stack's critical section of
\* the same stack.
THEOREM StacksExclusive == Spec => []StackExclusive
<1>1. IInv => StackExclusive
  BY DEF IInv, LockInv, StackExclusive
<1> QED
  BY <1>1, AllocatorInvariant, PTL

=============================================================================
