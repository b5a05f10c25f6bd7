------------------------------ MODULE Requests ------------------------------
(***************************************************************************)
(* swiftnet_client_make_request and swiftnet_server_make_request: a call   *)
(* draws a packet id, registers a struct RequestSent under it in the map   *)
(* requests_sent (the table of HashMap), sends, and polls its object until *)
(* the packet processor stores the RESPONSE there or the time is over.     *)
(*                                                                         *)
(* The peer is the application behind swiftnet_*_make_response: it answers *)
(* a request once, late or never. A section under the lock of              *)
(* requests_sent is one step. The allocator of the objects is Pool.        *)
(***************************************************************************)
EXTENDS HashMap

CONSTANTS
  Calls,         \* calls of make_request, each made once, at any time
  Ids,           \* values of (uint16_t)rand() met in this instance
  RequestSents,  \* objects of requests_sent_memory_allocator
  Timeout,       \* timeout_ms
  TimeSpace      \* 2^32: milliseconds are kept in a uint32_t

ASSUME RequestsAssumption ==
  /\ Ids \subseteq DOMAIN hash64
  /\ None \notin Calls \cup Ids \cup RequestSents
  /\ TimeSpace \in Nat \ {0} /\ Timeout \in 0..TimeSpace - 1

VARIABLES
  requests_sent,             \* the map, from id to object
  free,                      \* objects in the pool
  packet_id, packet_data,    \* fields of the objects
  pc, request_sent,          \* a call's control and its object
  wire,                      \* RESPONSE messages sent to this end
  packets_completed,         \* ids in the history of completed messages
  pending_messages,          \* ids of chunked messages in reassembly
  hand,                      \* the RESPONSE the processor has completed
  \* history: ids drawn and answers returned; an id in use by two calls at
  \* once; an answer stored for a call that then timed out; a time-out
  \* before the time; chunked answers that found no request
  id, result, collided, raced, hasty, orphaned

objectVars == <<requests_sent, free, packet_id, packet_data>>
callVars   == <<pc, request_sent, id, result>>
rxVars     == <<wire, packets_completed, pending_messages, hand, orphaned>>
ghostVars  == <<collided, raced, hasty>>
vars == <<objectVars, callVars, rxVars, ghostVars>>

\* A call that may have an entry in the map, or remove one.
Active(r) == pc[r] \in {"waiting", "delete"}

-----------------------------------------------------------------------------
(* The calling thread.                                                     *)

\* construct_request_sent, and swiftnet_send_packet: the id is drawn and the
\* object is registered under it, before the first frame is sent. The call
\* polls once the send has returned; its answer may come earlier.
Register(r) ==
  /\ pc[r] = "new"
  /\ \E o \in free, i \in Ids :
       /\ free' = free \ {o}
       /\ packet_data' = [packet_data EXCEPT ![o] = None]
       /\ packet_id' = [packet_id EXCEPT ![o] = i]
       /\ requests_sent' = hashmap_insert(i, o, requests_sent)
       /\ request_sent' = [request_sent EXCEPT ![r] = o]
       /\ id' = [id EXCEPT ![r] = i]
       /\ collided' = (collided \/ \E q \in Calls : Active(q) /\ id[q] = i)
  /\ pc' = [pc EXCEPT ![r] = "waiting"]
  /\ UNCHANGED <<result, rxVars, raced, hasty>>

\* Mutant of Over: a time-out as soon as the time is reached.
Reached(start, end) == (start + Timeout) % TimeSpace <= end

\* start + timeout_ms < end, in 32 bits.
Over(start, end) == (start + Timeout) % TimeSpace < end

\* A poll finds the time over, whatever has been stored: the call began at
\* start and has lasted for a while.
Expire(r) ==
  /\ pc[r] = "waiting"
  /\ \E start, lasted \in 0..TimeSpace - 1 :
       /\ Over(start, (start + lasted) % TimeSpace)
       /\ hasty' = (hasty \/ (lasted <= Timeout /\ start + Timeout < TimeSpace))
  /\ pc' = [pc EXCEPT ![r] = "delete"]
  /\ UNCHANGED <<objectVars, request_sent, id, result, rxVars, collided, raced>>

\* The answer is returned. Its entry left the map when it was stored.
Return(r) ==
  /\ pc[r] = "waiting"
  /\ packet_data[request_sent[r]] # None
  /\ result' = [result EXCEPT ![r] = packet_data[request_sent[r]]]
  /\ free' = free \cup {request_sent[r]}
  /\ pc' = [pc EXCEPT ![r] = "returned"]
  /\ UNCHANGED <<requests_sent, packet_id, packet_data, request_sent, id, rxVars, ghostVars>>

\* Mutant of Delete: the entry stays in the map.
KeepEntry(r) ==
  /\ pc[r] = "delete"
  /\ pc' = [pc EXCEPT ![r] = "free"]
  /\ UNCHANGED <<objectVars, request_sent, id, result, rxVars, ghostVars>>

\* delete_request_sent takes away the oldest entry under the id, whether or
\* not an answer has taken it already.
Delete(r) ==
  /\ pc[r] = "delete"
  /\ requests_sent' = hashmap_remove(packet_id[request_sent[r]], requests_sent)
  /\ raced' = (raced \/ packet_data[request_sent[r]] # None)
  /\ pc' = [pc EXCEPT ![r] = "free"]
  /\ UNCHANGED <<free, packet_id, packet_data, request_sent, id, result, rxVars, collided, hasty>>

FreeRequest(r) ==
  /\ pc[r] = "free"
  /\ free' = free \cup {request_sent[r]}
  /\ pc' = [pc EXCEPT ![r] = "timedout"]
  /\ UNCHANGED <<requests_sent, packet_id, packet_data, request_sent, id, result, rxVars, ghostVars>>

Call(r) == Expire(r) \/ Return(r) \/ Delete(r) \/ FreeRequest(r)

-----------------------------------------------------------------------------
(* The peer.                                                               *)

\* make_response: the RESPONSE has the id of the request, and is chunked or
\* a single frame.
Respond(r) ==
  /\ pc[r] # "new" /\ \A m \in wire : m.to # r
  /\ \E chunked \in BOOLEAN : wire' = wire \cup {[to |-> r, id |-> id[r], chunked |-> chunked]}
  /\ UNCHANGED <<objectVars, callVars, packets_completed, pending_messages, hand, orphaned, ghostVars>>

-----------------------------------------------------------------------------
(* The packet processor.                                                   *)

\* Mutant of AlreadyCompleted: no history is kept.
NoHistory(i) == FALSE

\* check_packet_already_completed.
AlreadyCompleted(i) == i \in packets_completed

\* The last chunk, or the only frame, of a RESPONSE: packet_completed, and
\* the packet data. The RESPONSE may come again, and one that is lost does not
\* come.
Complete(m) ==
  /\ hand = None /\ m \in wire
  /\ IF AlreadyCompleted(m.id) THEN UNCHANGED <<packets_completed, pending_messages, hand>>
     ELSE /\ packets_completed' = packets_completed \cup {m.id}
          /\ pending_messages' = IF m.chunked THEN pending_messages \cup {m.id} ELSE pending_messages
          /\ hand' = m
  /\ UNCHANGED <<objectVars, callVars, wire, orphaned, ghostVars>>

\* handle_request_response without a request: nothing is released.
Orphan ==
  /\ hand # None /\ hashmap_get(requests_sent, hand.id) = None
  /\ orphaned' = IF hand.chunked THEN orphaned \cup {hand.id} ELSE orphaned
  /\ hand' = None
  /\ UNCHANGED <<objectVars, callVars, wire, packets_completed, pending_messages, ghostVars>>

\* Mutant of Answer: the pending message is not removed.
KeepPending ==
  /\ hand # None /\ hashmap_get(requests_sent, hand.id) # None
  /\ packet_data' = [packet_data EXCEPT ![hashmap_get(requests_sent, hand.id)] = hand.to]
  /\ requests_sent' = hashmap_remove(hand.id, requests_sent)
  /\ hand' = None
  /\ UNCHANGED <<free, packet_id, callVars, wire, packets_completed, pending_messages, orphaned, ghostVars>>

\* handle_request_response: the answer is stored in the oldest request under
\* its id, and that entry removed; then the pending message.
Answer ==
  /\ hand # None /\ hashmap_get(requests_sent, hand.id) # None
  /\ packet_data' = [packet_data EXCEPT ![hashmap_get(requests_sent, hand.id)] = hand.to]
  /\ requests_sent' = hashmap_remove(hand.id, requests_sent)
  /\ pending_messages' = IF hand.chunked THEN pending_messages \ {hand.id} ELSE pending_messages
  /\ hand' = None
  /\ UNCHANGED <<free, packet_id, callVars, wire, packets_completed, orphaned, ghostVars>>

-----------------------------------------------------------------------------
Init ==
  /\ requests_sent = hashmap_create
  /\ free = RequestSents
  /\ packet_id = [o \in RequestSents |-> None] /\ packet_data = [o \in RequestSents |-> None]
  /\ pc = [r \in Calls |-> "new"]
  /\ request_sent = [r \in Calls |-> None]
  /\ wire = {} /\ packets_completed = {} /\ pending_messages = {} /\ hand = None
  /\ id = [r \in Calls |-> None] /\ result = [r \in Calls |-> None]
  /\ collided = FALSE /\ raced = FALSE /\ hasty = FALSE /\ orphaned = {}

Next ==
  \/ \E r \in Calls : Register(r) \/ Call(r) \/ Respond(r)
  \/ \E m \in wire : Complete(m)
  \/ Orphan \/ Answer

Spec == Init /\ [][Next]_vars

-----------------------------------------------------------------------------
(* Properties.                                                             *)

\* Every variable holds values of its C type; size is below 2^32 and the map
\* has as many buckets as its capacity says.
TypeOK ==
  /\ requests_sent.size \in 0..SizeSpace - 1
  /\ DOMAIN requests_sent.items = 0..requests_sent.capacity - 1
  /\ \A b \in DOMAIN requests_sent.items :
       requests_sent.items[b] \in Seq([key : Ids, value : RequestSents \cup {None}])
  /\ requests_sent.item_occupation \subseteq 0..requests_sent.capacity - 1
  /\ free \subseteq RequestSents
  /\ packet_id \in [RequestSents -> Ids \cup {None}]
  /\ packet_data \in [RequestSents -> Calls \cup {None}]
  /\ pc \in [Calls -> {"new", "waiting", "delete", "free", "timedout", "returned"}]
  /\ request_sent \in [Calls -> RequestSents \cup {None}]
  /\ wire \subseteq [to : Calls, id : Ids, chunked : BOOLEAN] /\ hand \in wire \cup {None}
  /\ packets_completed \subseteq Ids /\ pending_messages \subseteq Ids /\ orphaned \subseteq Ids
  /\ id \in [Calls -> Ids \cup {None}] /\ result \in [Calls -> Calls \cup {None}]
  /\ {collided, raced, hasty} \subseteq BOOLEAN

AbstractMap ==
  INSTANCE KeyedQueues WITH
    Keys <- Ids, Values <- RequestSents, map <- [i \in Ids |-> ValuesOf(requests_sent, i)]

\* The hash map implements the queues its users rely on, through collisions,
\* tombstones, duplicate keys and rehashing: every insertion, removal and
\* resize of requests_sent is an insertion or a removal under one key.
ImplementsQueues == AbstractMap!Spec

\* hashmap_get finds the oldest value under a key, and NULL only if there is
\* none in the whole table: no item of any bucket is stranded where its key no
\* longer hashes to, and no tombstone hides one.
GetFindsOldest ==
  /\ Stranding(requests_sent) = {}
  /\ \A i \in Ids :
       LET queue == ValuesOf(requests_sent, i) IN
       hashmap_get(requests_sent, i) = IF queue = <<>> THEN None ELSE Head(queue)

\* size is the number of items, so that the map grows when it is full and only
\* then, unless a call timed out after its answer was stored or two calls used
\* an id at once: their second removal is counted too.
SizeIsPopulation == collided \/ raced \/ requests_sent.size = Population(requests_sent)

\* Every object in the map is that of a call that still waits under that id,
\* so no answer is written into a freed object, unless two calls used an id at
\* once (the first to time out removes the entry of the other).
EntriesAreWaiting ==
  collided \/
  \A i \in Ids : \A o \in Range(ValuesOf(requests_sent, i)) :
    \E r \in Calls : Active(r) /\ id[r] = i /\ request_sent[r] = o

\* A call returns the answer to its request, or the late answer to an earlier
\* request that had the same id and timed out; unless two calls used an id at
\* once.
AnswerIsOwnOrLate ==
  collided \/
  \A r \in Calls : result[r] \notin {None, r} =>
    LET q == result[r] IN id[q] = id[r] /\ pc[q] \in {"free", "timedout"}

\* No two calls return the same answer, even if it was delivered twice and its
\* id was drawn again.
AnswerReturnedOnce ==
  \A r, q \in Calls : r # q /\ result[r] # None => result[r] # result[q]

\* A call does not time out before its time, unless start + timeout_ms
\* overflows 32 bits.
TimeoutNotEarly == ~hasty

\* When the processor is done with a chunked RESPONSE its pending message is
\* gone, unless no call was registered under its id any more.
PendingOnlyOrphaned == hand = None => pending_messages \subseteq orphaned

=============================================================================
