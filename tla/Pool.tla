-------------------------------- MODULE Pool --------------------------------
(***************************************************************************)
(* What callers of the allocator may rely on: an item is handed out only   *)
(* while no caller holds it.                                               *)
(***************************************************************************)
EXTENDS Naturals

CONSTANT Items

VARIABLE held    \* how often each item is with a caller

Init == held = [x \in Items |-> 0]

Allocate(x) ==
  /\ held[x] = 0
  /\ held' = [held EXCEPT ![x] = 1]

Free(x) ==
  /\ held[x] = 1
  /\ held' = [held EXCEPT ![x] = 0]

Next == \E x \in Items : Allocate(x) \/ Free(x)

Spec == Init /\ [][Next]_held
=============================================================================
