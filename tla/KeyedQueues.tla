---------------------------- MODULE KeyedQueues ----------------------------
(***************************************************************************)
(* What a hash map promises its users: under every key a queue of values.  *)
(* Insertion appends, removal takes away the oldest.                       *)
(***************************************************************************)
EXTENDS Sequences

CONSTANTS Keys, Values

VARIABLE map

Init == map = [k \in Keys |-> <<>>]

Insert(k, v) == map' = [map EXCEPT ![k] = Append(@, v)]

Remove(k) == map[k] # <<>> /\ map' = [map EXCEPT ![k] = Tail(@)]

Next == \E k \in Keys : Remove(k) \/ \E v \in Values : Insert(k, v)

Spec == Init /\ [][Next]_map

=============================================================================
