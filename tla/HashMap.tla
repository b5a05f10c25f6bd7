------------------------------ MODULE HashMap ------------------------------
(***************************************************************************)
(* struct SwiftNetHashMap: buckets of chained items. An item of the bucket *)
(* array is the root of its chain; a chain is the sequence of its items.   *)
(* A zeroed root is the empty chain. A root whose item was removed keeps   *)
(* its key with the value NULL (a tombstone).                              *)
(*                                                                         *)
(* Every operation runs under the map's spin lock (with the exception that *)
(* Transfer notes), so each is a function from map to map.                 *)
(***************************************************************************)
EXTENDS Integers, Sequences, FiniteSets, SequencesExt

CONSTANTS
  hash64,          \* hash of every key
  HashSpace,       \* 2^64
  StartCapacity,   \* 0x40 * SWIFT_NET_MEMORY_USAGE
  SizeSpace,       \* 2^32: size is a uint32_t
  WordBits,        \* 32: buckets per word of item_occupation
  None             \* NULL

ASSUME HashMapAssumption ==
  /\ HashSpace \in Nat /\ StartCapacity \in Nat \ {0}
  /\ SizeSpace \in Nat /\ WordBits \in Nat \ {0}
  /\ \A k \in DOMAIN hash64 : hash64[k] \in 0..HashSpace - 1

\* The bucket of a key: the high bits of hash * capacity.
get_key(k, capacity) == (hash64[k] * capacity) \div HashSpace

hashmap_create ==
  [capacity |-> StartCapacity, size |-> 0, item_occupation |-> {},
   items |-> [b \in 0..StartCapacity - 1 |-> <<>>]]

Bucket(m, k) == m.items[get_key(k, m.capacity)]

\* Where the search along a chain meets the key; 0 when it does not.
Find(chain, k) == LET match(item) == item.key = k IN SelectInSeq(chain, match)

hashmap_get(m, k) ==
  LET chain == Bucket(m, k) i == Find(chain, k) IN
  IF i = 0 THEN None ELSE chain[i].value

\* A chain with items; the root of the others is zeroed or a tombstone.
Occupied(chain) == chain # <<>> /\ chain[1].value # None

\* The items in the order hashmap_resize meets them.
Items(m) ==
  FlattenSeq([b \in 1..m.capacity |-> IF Occupied(m.items[b - 1]) THEN m.items[b - 1] ELSE <<>>])

\* Mutant of hashmap_resize: keys keep their old bucket numbers.
ResizeInPlace(m) ==
  LET capacity == m.capacity * 4
      items == [b \in 0..capacity - 1 |-> IF b < m.capacity /\ Occupied(m.items[b]) THEN m.items[b] ELSE <<>>]
  IN [m EXCEPT !.capacity = capacity, !.items = items,
               !.item_occupation = {b \in 0..capacity - 1 : items[b] # <<>>}]

\* Every item is hashed again and put at the end of its new chain. Only here
\* are bits of item_occupation set.
hashmap_resize(m) ==
  LET capacity == m.capacity * 4
      chain(b) == LET lands(item) == get_key(item.key, capacity) = b IN SelectSeq(Items(m), lands)
      items == [b \in 0..capacity - 1 |-> chain(b)]
  IN [m EXCEPT !.capacity = capacity, !.items = items,
               !.item_occupation = {b \in 0..capacity - 1 : items[b] # <<>>}]

\* Mutant of hashmap_insert: an item put over a tombstone is not counted.
ReuseUncounted(k, v, m) ==
  LET b == get_key(k, m.capacity)
      item == [key |-> k, value |-> v]
      counted == IF m.items[b] = <<>> \/ Occupied(m.items[b]) THEN m.size + 1 ELSE m.size
      grown == [m EXCEPT !.size = counted % SizeSpace,
                         !.items[b] = IF Occupied(@) THEN Append(@, item) ELSE <<item>>]
  IN IF grown.size >= grown.capacity THEN hashmap_resize(grown) ELSE grown

\* The item goes into an unoccupied root, over any tombstone, or to the end of
\* the chain: a key that is there already is there twice. 0 << bit leaves
\* item_occupation as it is.
hashmap_insert(k, v, m) ==
  LET b == get_key(k, m.capacity)
      item == [key |-> k, value |-> v]
      grown == [m EXCEPT !.size = (@ + 1) % SizeSpace,
                         !.items[b] = IF Occupied(@) THEN Append(@, item) ELSE <<item>>]
  IN IF grown.size >= grown.capacity THEN hashmap_resize(grown) ELSE grown

\* Mutant of hashmap_remove: a root is emptied although its chain goes on.
EmptyRoot(k, m) ==
  LET b == get_key(k, m.capacity)
      chain == m.items[b]
      i == Find(chain, k)
      rest == IF i = 1 THEN [chain EXCEPT ![1].value = None] ELSE RemoveAt(chain, i)
  IN IF i = 0 THEN m ELSE [m EXCEPT !.items[b] = rest, !.size = (@ - 1) % SizeSpace]

\* The first item with the key is unlinked, except that a root alone in its
\* chain becomes a tombstone. A tombstone is found like any item, and size is
\* decreased for it too.
hashmap_remove(k, m) ==
  LET b == get_key(k, m.capacity)
      chain == m.items[b]
      i == Find(chain, k)
      rest == IF Len(chain) = 1 THEN <<[key |-> k, value |-> None]>> ELSE RemoveAt(chain, i)
  IN IF i = 0 THEN m ELSE [m EXCEPT !.items[b] = rest, !.size = (@ - 1) % SizeSpace]

\* LOOP_HASHMAP: a word of item_occupation without bits is passed over. In the
\* first word with one, __builtin_ctzl of the inverted word is a bucket whose
\* bit is clear; the bit it then sets in the inverted word is set already, so
\* the loop stays on that bucket for ever. (With every bit of the word set the
\* built-in has no defined result.)
LOOP_HASHMAP(m) ==
  LET word(b) == b \div WordBits
      words == {word(b) : b \in m.item_occupation}
      clear == {b \in 0..m.capacity - 1 : word(b) = Min(words) /\ b \notin m.item_occupation}
  IN IF words = {} \/ clear = {} THEN {} ELSE {Min(clear)}

-----------------------------------------------------------------------------
(* What a map means.                                                       *)

\* The values a search for the key can meet, oldest first.
ValuesOf(m, k) ==
  LET mine(item) == item.key = k /\ item.value # None
      found == SelectSeq(Bucket(m, k), mine)
  IN [i \in DOMAIN found |-> found[i].value]

\* The buckets with a value whose key belongs to another bucket, where no
\* search meets it.
Stranding(m) ==
  {b \in DOMAIN m.items : \E i \in DOMAIN m.items[b] :
     m.items[b][i].value # None /\ get_key(m.items[b][i].key, m.capacity) # b}

\* Items with a value.
Population(m) ==
  LET live(b) == {i \in DOMAIN m.items[b] : m.items[b][i].value # None}
  IN Cardinality(UNION {{b} \X live(b) : b \in DOMAIN m.items})

=============================================================================
