------------------------------ MODULE Transfer ------------------------------
(***************************************************************************)
(* One direction of a SwiftNet connection: application threads calling     *)
(* swiftnet_send_packet, the sender's packet-processing thread, a network  *)
(* that loses, duplicates and reorders, the receiver's packet-processing   *)
(* thread and the receiver's callback thread.                              *)
(*                                                                         *)
(* Chunk data is one unit per byte: byte k of message m is <<m, k>>.       *)
(* Message kinds MESSAGE and REQUEST take the paths modelled here; the     *)
(* RESPONSE branch at delivery is a component of its own.                  *)
(***************************************************************************)
EXTENDS Integers, Sequences, FiniteSets

CONSTANTS
  Messages,      \* calls of swiftnet_send_packet, each on its own thread
  Length,        \* packet_length of each message
  Mtu,           \* MIN of the two maximum_transmission_units
  HeaderSize,    \* PACKET_HEADER_SIZE
  Backend,       \* "PCAP" or "DPDK": SWIFT_NET_BACKEND_*
  Byte,          \* the values of one byte of a packet id
  RandIds,       \* the packet ids rand() may return
  Slots,         \* items of packets_sending_memory_allocator
  LostCap,       \* lost indexes that fit in one SEND_LOST_PACKETS_RESPONSE
  DelayWindow,   \* 50 in the code: chunks between two rate-limit checks
  Duplicates,    \* whether the network may deliver a packet again
  MaxInFlight,   \* bound: packets the network holds, a further one is lost
  None           \* NULL, and memory nothing has been written to

ASSUME TransferAssumption ==
  /\ Length \in [Messages -> Nat]
  /\ Mtu \in Nat /\ HeaderSize \in Nat /\ HeaderSize < Mtu
  /\ Backend \in {"PCAP", "DPDK"}
  /\ RandIds \subseteq Byte \X Byte
  /\ LostCap \in Nat \ {0} /\ DelayWindow \in Nat /\ MaxInFlight \in Nat
  /\ Duplicates \in BOOLEAN
  /\ None \notin Messages /\ None \notin Slots /\ None \notin Byte \X Byte

-----------------------------------------------------------------------------
(* Geometry of a message.                                                  *)

ChunkData == Mtu - HeaderSize

\* The sender splits what exceeds the MTU ...
Chunked(m) == Length[m] > Mtu

\* ... the receiver reassembles what exceeds the data of one chunk.
Reassembled(m) == Length[m] > ChunkData

ChunkAmount(m) ==
  IF Chunked(m) THEN (Length[m] + ChunkData - 1) \div ChunkData ELSE 1

\* Whether chunk c is the one after which the send loop stops.
LastChunk(m, c) ==
  IF Backend = "PCAP" THEN c * ChunkData + ChunkData >= Length[m]
                      ELSE c * ChunkData + ChunkData > Length[m]

\* Byte k of the payload of chunk c; a short frame is followed by whatever
\* the receive buffer held.
ChunkByte(m, c, k) ==
  IF c * ChunkData + k < Length[m] THEN <<m, c * ChunkData + k>> ELSE None

\* bytes_to_write of a chunk that is not the first to arrive.
BytesToWrite(m, c) ==
  IF c + 1 >= ChunkAmount(m) THEN Length[m] % ChunkData ELSE ChunkData

Offsets(m) == 0 .. Length[m] - 1

Ids == Byte \X Byte

\* htons on a 16-bit id. Headers are written with it and read without ntohs.
htons(x) == <<x[2], x[1]>>

-----------------------------------------------------------------------------
VARIABLES
  \* application threads, one per message
  pc, id, slot, index, status,
  \* the sender's packets_sending map (a FIFO of slots per id), its lock,
  \* the slots and the pool's free ones, the sender's processing thread
  packets_sending, sending_lock, memory, free_slots, sp,
  net,
  \* the receiver's maps, objects and threads
  pending_messages, pending, packet_data, freed, packets_completed, rp,
  callback_queue, cb, handler,
  \* the sending process has dereferenced NULL
  crashed,
  \* history: what handlers received, writes through a stale slot pointer,
  \* reads of a destroyed pending message
  delivered, stale, used_after_free

appVars      == <<pc, id, slot, index, status>>
sendingVars  == <<packets_sending, sending_lock, memory, free_slots>>
pendingVars  == <<pending_messages, pending, packet_data, packets_completed>>
callbackVars == <<callback_queue, cb, handler, freed, delivered>>
history      == <<crashed, stale, used_after_free>>
vars == <<appVars, sendingVars, sp, net, pendingVars, rp, callbackVars,
          history>>

-----------------------------------------------------------------------------
(* Packets. A DATA packet names its message instead of repeating the       *)
(* header fields packet_length and chunk_amount.                           *)

DataPacket(m, c)     == [type |-> "DATA", id |-> htons(id[m]), msg |-> m, chunk |-> c]
LostRequest(m)       == [type |-> "LOST_REQUEST", id |-> htons(id[m])]
LostResponse(x, ls)  == [type |-> "LOST_RESPONSE", id |-> htons(x), lost |-> ls]
Success(x)           == [type |-> "SUCCESS", id |-> htons(x)]
DelayUpdate(x, st)   == [type |-> "DELAY_UPDATE", id |-> htons(x), delay |-> st]

\* What the network holds once q is handed to it; a full one drops q.
Put(held, q) == IF Cardinality(held \cup {q}) <= MaxInFlight THEN held \cup {q} ELSE held

\* What it may hold once p has been taken from it.
Rest(p) == {net \ {p}} \cup (IF Duplicates THEN {net} ELSE {})

ToSender == {"LOST_RESPONSE", "SUCCESS", "DELAY_UPDATE"}

\* Whether the processing thread p goes to would take it now.
ThreadReady(p) == IF p.type \in ToSender THEN sp.at = "idle" /\ sending_lock = None
                                         ELSE rp.at = "idle"

\* A packet is lost on the way. One that waits for a busy thread is in that
\* thread's queue already, so losing it then is losing it earlier.
Lose(p) ==
  /\ ThreadReady(p)
  /\ net' = net \ {p}
  /\ UNCHANGED <<appVars, sendingVars, sp, pendingVars, rp, callbackVars, history>>

-----------------------------------------------------------------------------
(* swiftnet_send_packet on an application thread.                          *)

\* Between Register and the allocator_free of the slot.
Registered == {"chunks", "request", "poll", "clear", "lock", "resend", "finish", "free"}

NewSlot == [lost |-> <<>>, size |-> 0, updated |-> "NO_UPDATE"]

Start(m) ==
  /\ pc[m] = "start"
  /\ \E x \in RandIds : id' = [id EXCEPT ![m] = x]
  /\ pc' = [pc EXCEPT ![m] = IF Chunked(m) THEN "register" ELSE "single"]
  /\ UNCHANGED <<slot, index, status, sendingVars, sp, net, pendingVars, rp, callbackVars, history>>

\* A payload of at most one MTU: one frame, no acknowledgement.
SendSingle(m) ==
  /\ pc[m] = "single"
  /\ net' = Put(net, DataPacket(m, 0))
  /\ pc' = [pc EXCEPT ![m] = "returned"]
  /\ UNCHANGED <<id, slot, index, status, sendingVars, sp, pendingVars, rp, callbackVars, history>>

\* Mutant of Register: the slot is not entered in packets_sending.
AllocateSlot(m) ==
  /\ pc[m] = "register"
  /\ sending_lock = None
  /\ \E s \in free_slots :
       /\ free_slots' = free_slots \ {s}
       /\ memory' = [memory EXCEPT ![s] = NewSlot]
       /\ slot' = [slot EXCEPT ![m] = s]
  /\ pc' = [pc EXCEPT ![m] = "chunks"]
  /\ UNCHANGED <<id, index, status, packets_sending, sending_lock, sp, net, pendingVars, rp, callbackVars, history>>

Register(m) ==
  /\ pc[m] = "register"
  /\ sending_lock = None
  /\ \E s \in free_slots :
       /\ free_slots' = free_slots \ {s}
       /\ memory' = [memory EXCEPT ![s] = NewSlot]
       /\ packets_sending' = [packets_sending EXCEPT ![id[m]] = Append(@, s)]
       /\ slot' = [slot EXCEPT ![m] = s]
  /\ pc' = [pc EXCEPT ![m] = "chunks"]
  /\ UNCHANGED <<id, index, status, sending_lock, sp, net, pendingVars, rp, callbackVars, history>>

SendChunk(m) ==
  /\ pc[m] = "chunks"
  /\ net' = Put(net, DataPacket(m, index[m]))
  /\ index' = [index EXCEPT ![m] = IF LastChunk(m, @) THEN 0 ELSE @ + 1]
  /\ pc' = [pc EXCEPT ![m] = IF LastChunk(m, index[m]) THEN "request" ELSE "chunks"]
  /\ UNCHANGED <<id, slot, status, sendingVars, sp, pendingVars, rp, callbackVars, history>>

RequestLost(m) ==
  /\ pc[m] = "request"
  /\ net' = Put(net, LostRequest(m))
  /\ pc' = [pc EXCEPT ![m] = "poll"]
  /\ UNCHANGED <<id, slot, index, status, sendingVars, sp, pendingVars, rp, callbackVars, history>>

\* Mutant of PollTimeout: the sender never asks again.
AskOnce(m) ==
  /\ pc[m] = "poll"
  /\ memory[slot[m]].updated = "NO_UPDATE"
  /\ UNCHANGED vars

\* 255 loads of updated, a millisecond apart, all saw NO_UPDATE.
PollTimeout(m) ==
  /\ pc[m] = "poll"
  /\ memory[slot[m]].updated = "NO_UPDATE"
  /\ pc' = [pc EXCEPT ![m] = "request"]
  /\ UNCHANGED <<id, slot, index, status, sendingVars, sp, net, pendingVars, rp, callbackVars, history>>

PollLoad(m) ==
  /\ pc[m] = "poll"
  /\ memory[slot[m]].updated # "NO_UPDATE"
  /\ status' = [status EXCEPT ![m] = memory[slot[m]].updated]
  /\ pc' = [pc EXCEPT ![m] = "clear"]
  /\ UNCHANGED <<id, slot, index, sendingVars, sp, net, pendingVars, rp, callbackVars, history>>

\* Mutant of PollClear: any answer ends the send.
FinishOnAnswer(m) ==
  /\ pc[m] = "clear"
  /\ memory' = [memory EXCEPT ![slot[m]].updated = "NO_UPDATE"]
  /\ status' = [status EXCEPT ![m] = "NO_UPDATE"]
  /\ pc' = [pc EXCEPT ![m] = "finish"]
  /\ UNCHANGED <<id, slot, index, packets_sending, sending_lock, free_slots, sp, net, pendingVars, rp, callbackVars, history>>

\* The store is separate from the load: it may overwrite a newer update.
PollClear(m) ==
  /\ pc[m] = "clear"
  /\ memory' = [memory EXCEPT ![slot[m]].updated = "NO_UPDATE"]
  /\ status' = [status EXCEPT ![m] = "NO_UPDATE"]
  /\ pc' = [pc EXCEPT ![m] = IF status[m] = "SUCCESSFULLY_RECEIVED" THEN "finish" ELSE "lock"]
  /\ UNCHANGED <<id, slot, index, packets_sending, sending_lock, free_slots, sp, net, pendingVars, rp, callbackVars, history>>

LockForResend(m) ==
  /\ pc[m] = "lock"
  /\ sending_lock = None
  /\ sending_lock' = m
  /\ pc' = [pc EXCEPT ![m] = "resend"]
  /\ UNCHANGED <<id, slot, index, status, packets_sending, memory, free_slots, sp, net, pendingVars, rp, callbackVars, history>>

\* lost_chunks and lost_chunks_size are read anew for every chunk. The DPDK
\* loop takes the buffer at the loop counter, not at the lost index.
ResendChunk(m) ==
  /\ pc[m] = "resend"
  /\ index[m] < memory[slot[m]].size
  /\ index[m] < Len(memory[slot[m]].lost)
  /\ LET c == IF Backend = "PCAP" THEN memory[slot[m]].lost[index[m] + 1] ELSE index[m]
     IN  net' = Put(net, DataPacket(m, c))
  /\ index' = [index EXCEPT ![m] = @ + 1]
  /\ UNCHANGED <<pc, id, slot, status, sendingVars, sp, pendingVars, rp, callbackVars, history>>

\* lost_chunks is still NULL although lost_chunks_size is not 0.
ResendNull(m) ==
  /\ pc[m] = "resend"
  /\ index[m] < memory[slot[m]].size
  /\ index[m] >= Len(memory[slot[m]].lost)
  /\ crashed' = TRUE
  /\ UNCHANGED <<appVars, sendingVars, sp, net, pendingVars, rp, callbackVars, stale, used_after_free>>

ResendDone(m) ==
  /\ pc[m] = "resend"
  /\ index[m] >= memory[slot[m]].size
  /\ sending_lock' = None
  /\ index' = [index EXCEPT ![m] = 0]
  /\ pc' = [pc EXCEPT ![m] = "request"]
  /\ UNCHANGED <<id, slot, status, packets_sending, memory, free_slots, sp, net, pendingVars, rp, callbackVars, history>>

\* hashmap_remove drops the oldest entry under the id.
Unregister(m) ==
  /\ pc[m] = "finish"
  /\ sending_lock = None
  /\ packets_sending' = [packets_sending EXCEPT ![id[m]] = IF @ = <<>> THEN @ ELSE Tail(@)]
  /\ pc' = [pc EXCEPT ![m] = "free"]
  /\ UNCHANGED <<id, slot, index, status, sending_lock, memory, free_slots, sp, net, pendingVars, rp, callbackVars, history>>

FreeSlot(m) ==
  /\ pc[m] = "free"
  /\ free_slots' = free_slots \cup {slot[m]}
  /\ pc' = [pc EXCEPT ![m] = "returned"]
  /\ UNCHANGED <<id, slot, index, status, packets_sending, sending_lock, memory, sp, net, pendingVars, rp, callbackVars, history>>

Application(m) ==
  /\ ~crashed
  /\ \/ Start(m) \/ SendSingle(m) \/ Register(m) \/ SendChunk(m) \/ RequestLost(m)
     \/ PollTimeout(m) \/ PollLoad(m) \/ PollClear(m) \/ LockForResend(m)
     \/ ResendChunk(m) \/ ResendNull(m) \/ ResendDone(m) \/ Unregister(m) \/ FreeSlot(m)

-----------------------------------------------------------------------------
(* swiftnet_process_packets at the sender: answers to lost-packet requests *)
(* and delay updates. get_packet_sending releases the map's lock before    *)
(* its result is used.                                                     *)

\* The slot get_packet_sending returns: the oldest entry under the id.
GetPacketSending(x) == IF packets_sending[x] = <<>> THEN None ELSE Head(packets_sending[x])

SpTake(p) ==
  /\ ~crashed
  /\ p.type \in ToSender
  /\ ThreadReady(p)
  /\ net' \in Rest(p)
  /\ LET s == GetPacketSending(p.id) IN
       IF s # None THEN
         /\ sp' = [at |-> "found", packet |-> p, slot |-> s]
         /\ UNCHANGED crashed
       ELSE
         /\ UNCHANGED sp
         /\ crashed' = (p.type = "DELAY_UPDATE")
  /\ UNCHANGED <<appVars, sendingVars, pendingVars, rp, callbackVars, stale, used_after_free>>

\* The slot no longer belongs to a send of the packet's id: the send has freed
\* its lost_chunks, or the slot too.
StaleSlot == ~\E m \in Messages : /\ pc[m] \in Registered \ {"free"}
                                  /\ slot[m] = sp.slot
                                  /\ id[m] = sp.packet.id

\* memcpy of the reported indexes over the list the slot held.
Overwrite(old, new) ==
  [i \in 1 .. (IF Len(old) > Len(new) THEN Len(old) ELSE Len(new)) |->
     IF i <= Len(new) THEN new[i] ELSE old[i]]

SpCopyLost ==
  /\ ~crashed
  /\ sp.at = "found" /\ sp.packet.type = "LOST_RESPONSE"
  /\ memory' = [memory EXCEPT ![sp.slot].lost = Overwrite(@, sp.packet.lost)]
  /\ stale' = (stale \/ StaleSlot)
  /\ sp' = [sp EXCEPT !.at = "copied"]
  /\ UNCHANGED <<appVars, packets_sending, sending_lock, free_slots, net, pendingVars, rp, callbackVars, crashed, used_after_free>>

SpPublishLost ==
  /\ ~crashed
  /\ sp.at = "copied"
  /\ memory' = [memory EXCEPT ![sp.slot].size = Len(sp.packet.lost),
                              ![sp.slot].updated = "UPDATED_LOST_CHUNKS"]
  /\ stale' = (stale \/ StaleSlot)
  /\ sp' = [at |-> "idle"]
  /\ UNCHANGED <<appVars, packets_sending, sending_lock, free_slots, net, pendingVars, rp, callbackVars, crashed, used_after_free>>

SpPublishSuccess ==
  /\ ~crashed
  /\ sp.at = "found" /\ sp.packet.type = "SUCCESS"
  /\ memory' = [memory EXCEPT ![sp.slot].updated = "SUCCESSFULLY_RECEIVED"]
  /\ stale' = (stale \/ StaleSlot)
  /\ sp' = [at |-> "idle"]
  /\ UNCHANGED <<appVars, packets_sending, sending_lock, free_slots, net, pendingVars, rp, callbackVars, crashed, used_after_free>>

\* current_send_delay only sets how long a send loop sleeps: the store is
\* modelled, its value is not.
SpUpdateDelay ==
  /\ ~crashed
  /\ sp.at = "found" /\ sp.packet.type = "DELAY_UPDATE"
  /\ UNCHANGED memory
  /\ stale' = (stale \/ StaleSlot)
  /\ sp' = [at |-> "idle"]
  /\ UNCHANGED <<appVars, packets_sending, sending_lock, free_slots, net, pendingVars, rp, callbackVars, crashed, used_after_free>>

SpStore == SpCopyLost \/ SpPublishLost \/ SpPublishSuccess \/ SpUpdateDelay

-----------------------------------------------------------------------------
(* swiftnet_process_packets at the receiver. Each data packet is handled   *)
(* in one step: only this thread creates, fills and completes pending      *)
(* messages, and the callback thread gets one only after its completion.   *)

Incoming(p, type) ==
  /\ p.type = type
  /\ ThreadReady(p)

\* Reads of the two maps; pending_messages is the set of keys in the map.
HasPending(k)       == k \in pending_messages
\* Mutant of AlreadyCompleted: the history is not consulted.
NoHistory(k) == FALSE

AlreadyCompleted(k) == k \in packets_completed

RxDropCompleted(p) ==
  /\ Incoming(p, "DATA")
  /\ AlreadyCompleted(p.id)
  /\ net' \in Rest(p)
  /\ UNCHANGED <<appVars, sendingVars, sp, pendingVars, rp, callbackVars, history>>

NewPending(m, c) ==
  [msg |-> m, chunks_received |-> {c}, chunks_received_number |-> 1,
   first |-> c, last_index |-> 0, last_number |-> 0, sending_lost |-> FALSE]

\* Whatever its index, the first chunk to arrive is copied to offset 0.
FirstCopy(m, c) == [k \in Offsets(m) |-> IF k < ChunkData THEN ChunkByte(m, c, k) ELSE None]

RxFirstChunk(p) ==
  /\ Incoming(p, "DATA")
  /\ ~AlreadyCompleted(p.id) /\ ~HasPending(p.id) /\ Reassembled(p.msg)
  /\ net' \in Rest(p)
  /\ pending' = [pending EXCEPT ![p.id] = NewPending(p.msg, p.chunk)]
  /\ packet_data' = [packet_data EXCEPT ![p.id] = FirstCopy(p.msg, p.chunk)]
  /\ pending_messages' = pending_messages \cup {p.id}
  /\ UNCHANGED <<appVars, sendingVars, sp, packets_completed, rp, callbackVars, history>>

RxSingle(p) ==
  /\ Incoming(p, "DATA")
  /\ ~AlreadyCompleted(p.id) /\ ~HasPending(p.id) /\ ~Reassembled(p.msg)
  /\ net' \in Rest(p)
  /\ packets_completed' = packets_completed \cup {p.id}
  /\ callback_queue' = Append(callback_queue, [key |-> p.id, msg |-> p.msg, pending |-> FALSE])
  /\ UNCHANGED <<appVars, sendingVars, sp, pending_messages, pending, packet_data, rp, cb, handler, freed, delivered, history>>

RxDuplicate(p) ==
  /\ Incoming(p, "DATA")
  /\ ~AlreadyCompleted(p.id) /\ HasPending(p.id)
  /\ p.chunk \in pending[p.id].chunks_received
  /\ net' \in Rest(p)
  /\ UNCHANGED <<appVars, sendingVars, sp, pendingVars, rp, callbackVars, history>>

\* chunk_received and chunks_received_number++.
Counted(pm, c) ==
  [pm EXCEPT !.chunks_received = @ \cup {c}, !.chunks_received_number = @ + 1]

\* Mutant of LaterCopy: offsets forget that a frame also holds the headers.
CopyAtMtu(data, m, c) ==
  LET base == c * Mtu IN
  [k \in DOMAIN data |-> IF base <= k /\ k < base + BytesToWrite(m, c)
                         THEN ChunkByte(m, c, k - base) ELSE data[k]]

\* The memcpy of a chunk that is not the first to arrive.
LaterCopy(data, m, c) ==
  LET base == c * ChunkData IN
  [k \in DOMAIN data |-> IF base <= k /\ k < base + BytesToWrite(m, c)
                         THEN ChunkByte(m, c, k - base) ELSE data[k]]

\* Mutant of NewChunk: chunk_already_received is not asked.
AnyChunk(p) == Incoming(p, "DATA") /\ ~AlreadyCompleted(p.id) /\ HasPending(p.id)

NewChunk(p) ==
  /\ Incoming(p, "DATA")
  /\ ~AlreadyCompleted(p.id) /\ HasPending(p.id)
  /\ p.chunk \notin pending[p.id].chunks_received

Completes(p) == pending[p.id].chunks_received_number + 1 = ChunkAmount(p.msg)

RxLastMissing(p) ==
  /\ NewChunk(p) /\ Completes(p)
  /\ net' \in Rest(p)
  /\ pending' = [pending EXCEPT ![p.id] = Counted(@, p.chunk)]
  /\ packet_data' = [packet_data EXCEPT ![p.id] = LaterCopy(@, p.msg, p.chunk)]
  /\ packets_completed' = packets_completed \cup {p.id}
  /\ callback_queue' = Append(callback_queue, [key |-> p.id, msg |-> p.msg, pending |-> TRUE])
  /\ UNCHANGED <<appVars, sendingVars, sp, pending_messages, rp, cb, handler, freed, delivered, history>>

\* new_packets > 50 on unsigned integers: a chunk below last_index_checked
\* wraps to a huge difference.
Wrapped(pm, c)     == c < pm.last_index
RateCheck(pm, c)   == ~pm.sending_lost /\ (Wrapped(pm, c) \/ c - pm.last_index > DelayWindow)
RateVerdict(pm, c) ==
  IF ~Wrapped(pm, c) /\ 20 * (pm.chunks_received_number - pm.last_number) > 19 * (c - pm.last_index)
  THEN "LOWER_DELAY" ELSE "INCREASE_DELAY"

RxChunk(p) ==
  /\ NewChunk(p) /\ ~Completes(p)
  /\ LET pm == pending[p.id] IN
       IF RateCheck(pm, p.chunk) THEN
         /\ \E held \in Rest(p) : net' = Put(held, DelayUpdate(p.id, RateVerdict(pm, p.chunk)))
         /\ pending' = [pending EXCEPT ![p.id] =
              Counted([pm EXCEPT !.last_index = p.chunk, !.last_number = pm.chunks_received_number],
                      p.chunk)]
       ELSE
         /\ net' \in Rest(p)
         /\ pending' = [pending EXCEPT ![p.id] = Counted(pm, p.chunk)]
  /\ packet_data' = [packet_data EXCEPT ![p.id] = LaterCopy(@, p.msg, p.chunk)]
  /\ UNCHANGED <<appVars, sendingVars, sp, pending_messages, packets_completed, rp, callbackVars, history>>

\* SEND_LOST_PACKETS_REQUEST: the map's lock is released before the pending
\* message is used.
RxLostRequestFound(p) ==
  /\ Incoming(p, "LOST_REQUEST")
  /\ HasPending(p.id)
  /\ net' \in Rest(p)
  /\ rp' = [at |-> "answer", key |-> p.id]
  /\ UNCHANGED <<appVars, sendingVars, sp, pendingVars, callbackVars, history>>

RxLostRequestCompleted(p) ==
  /\ Incoming(p, "LOST_REQUEST")
  /\ ~HasPending(p.id) /\ AlreadyCompleted(p.id)
  /\ \E held \in Rest(p) : net' = Put(held, Success(p.id))
  /\ UNCHANGED <<appVars, sendingVars, sp, pendingVars, rp, callbackVars, history>>

\* Mutant of RxLostRequestUnknown: an unknown message counts as received.
AcknowledgeUnknown(p) ==
  /\ Incoming(p, "LOST_REQUEST")
  /\ ~HasPending(p.id) /\ ~AlreadyCompleted(p.id)
  /\ \E held \in Rest(p) : net' = Put(held, Success(p.id))
  /\ UNCHANGED <<appVars, sendingVars, sp, pendingVars, rp, callbackVars, history>>

\* A message of which nothing arrived: no answer.
RxLostRequestUnknown(p) ==
  /\ Incoming(p, "LOST_REQUEST")
  /\ ~HasPending(p.id) /\ ~AlreadyCompleted(p.id)
  /\ net' \in Rest(p)
  /\ UNCHANGED <<appVars, sendingVars, sp, pendingVars, rp, callbackVars, history>>

Missing(pm) == (0 .. ChunkAmount(pm.msg) - 1) \ pm.chunks_received

\* Mutant of LostLists: indexes are counted from one.
OneBasedLists(missing) ==
  LET n == IF Cardinality(missing) < LostCap THEN Cardinality(missing) ELSE LostCap IN
  { ls \in [1 .. n -> {c + 1 : c \in missing}] : \A i, j \in 1 .. n : i < j => ls[i] < ls[j] }

\* return_lost_chunk_indexes: the missing indexes in ascending order, cut to
\* what one frame holds.
LostLists(missing) ==
  LET n == IF Cardinality(missing) < LostCap THEN Cardinality(missing) ELSE LostCap IN
  { ls \in [1 .. n -> missing] :
      /\ \A i, j \in 1 .. n : i < j => ls[i] < ls[j]
      /\ \A c \in missing : \/ \E i \in 1 .. n : ls[i] = c
                            \/ \A i \in 1 .. n : ls[i] < c }

\* Once the handler has destroyed the pending message, the pointer may lead
\* to any other one and the bitmap hold anything.
RxAnswerLost ==
  /\ rp.at = "answer"
  /\ \E k \in {rp.key} \cup (IF rp.key \in freed THEN pending_messages ELSE {}) :
     \E missing \in IF rp.key \in freed THEN SUBSET (0 .. ChunkAmount(pending[k].msg) - 1)
                                        ELSE {Missing(pending[k])} :
       /\ \E ls \in LostLists(missing) : net' = Put(net, LostResponse(rp.key, ls))
       /\ pending' = [pending EXCEPT ![k].sending_lost = TRUE]
  /\ used_after_free' = (used_after_free \/ rp.key \in freed)
  /\ rp' = [at |-> "idle"]
  /\ UNCHANGED <<appVars, sendingVars, sp, pending_messages, packet_data, packets_completed, callbackVars, crashed, stale>>

Receive(p) ==
  \/ RxDropCompleted(p) \/ RxFirstChunk(p) \/ RxSingle(p) \/ RxDuplicate(p)
  \/ RxLastMissing(p) \/ RxChunk(p)
  \/ RxLostRequestFound(p) \/ RxLostRequestCompleted(p) \/ RxLostRequestUnknown(p)

-----------------------------------------------------------------------------
(* execute_packet_callback at the receiver.                                *)

SetHandler ==
  /\ ~handler
  /\ handler' = TRUE
  /\ UNCHANGED <<appVars, sendingVars, sp, net, pendingVars, rp, callback_queue, cb, freed, delivered, history>>

CbTake ==
  /\ cb.at = "idle"
  /\ callback_queue # <<>>
  /\ callback_queue' = Tail(callback_queue)
  /\ cb' = [at |-> "remove", node |-> Head(callback_queue), handler |-> handler]
  /\ UNCHANGED <<appVars, sendingVars, sp, net, pendingVars, rp, handler, freed, delivered, history>>

CbRemove ==
  /\ cb.at = "remove"
  /\ pending_messages' = IF cb.node.pending THEN pending_messages \ {cb.node.key} ELSE pending_messages
  /\ cb' = [cb EXCEPT !.at = "call"]
  /\ UNCHANGED <<appVars, sendingVars, sp, net, pending, packet_data, packets_completed, rp, callback_queue, handler, freed, delivered, history>>

\* The bytes a handler reads, and whether they are those that were sent.
NodeData(node) ==
  IF node.pending THEN packet_data[node.key]
                  ELSE [k \in Offsets(node.msg) |-> ChunkByte(node.msg, 0, k)]

Intact(node) == NodeData(node) = [k \in Offsets(node.msg) |-> <<node.msg, k>>]

\* The handler runs and destroys the packet data, as its contract asks;
\* without a handler the thread destroys it.
CbCall ==
  /\ cb.at = "call"
  /\ delivered' = IF cb.handler
                  THEN Append(delivered, [key |-> cb.node.key, msg |-> cb.node.msg, intact |-> Intact(cb.node)])
                  ELSE delivered
  /\ freed' = IF cb.node.pending THEN freed \cup {cb.node.key} ELSE freed
  /\ cb' = [at |-> "idle"]
  /\ UNCHANGED <<appVars, sendingVars, sp, net, pendingVars, rp, callback_queue, handler, history>>

Callback == CbTake \/ CbRemove \/ CbCall

-----------------------------------------------------------------------------
Init ==
  /\ pc = [m \in Messages |-> "start"]
  /\ id = [m \in Messages |-> None]
  /\ slot = [m \in Messages |-> None]
  /\ index = [m \in Messages |-> 0]
  /\ status = [m \in Messages |-> "NO_UPDATE"]
  /\ packets_sending = [x \in Ids |-> <<>>]
  /\ sending_lock = None
  /\ memory = [s \in Slots |-> NewSlot]
  /\ free_slots = Slots
  /\ sp = [at |-> "idle"]
  /\ net = {}
  /\ pending_messages = {}
  /\ pending = [x \in Ids |-> None]
  /\ packet_data = [x \in Ids |-> None]
  /\ freed = {}
  /\ packets_completed = {}
  /\ rp = [at |-> "idle"]
  /\ callback_queue = <<>>
  /\ cb = [at |-> "idle"]
  /\ handler = FALSE
  /\ delivered = <<>>
  /\ crashed = FALSE /\ stale = FALSE /\ used_after_free = FALSE

Next ==
  \/ \E m \in Messages : Application(m)
  \/ \E p \in net : SpTake(p) \/ Receive(p) \/ Lose(p)
  \/ SpStore
  \/ RxAnswerLost
  \/ Callback
  \/ SetHandler

Spec == Init /\ [][Next]_vars

\* Threads run, and the network does not lose everything: of the data packets
\* it is given again and again one is delivered again and again, likewise of
\* the requests and of the answers. The callback thread finishes a message it
\* has taken. It need not take one: a message queued between its last look at
\* the queue and its pthread_cond_wait does not wake it (Connection has the
\* wait). The processing threads have the same window, but frames keep coming
\* to them while a sender asks.
Delivery(S) == \E p \in net : p.type \in S /\ (SpTake(p) \/ Receive(p))

Fairness ==
  /\ \A m \in Messages : WF_vars(Application(m))
  /\ WF_vars(SpStore) /\ WF_vars(RxAnswerLost) /\ WF_vars(CbRemove \/ CbCall)
  /\ SF_vars(Delivery({"DATA"}))
  /\ SF_vars(Delivery({"LOST_REQUEST"}))
  /\ SF_vars(Delivery({"LOST_RESPONSE", "SUCCESS"}))

FairSpec == Spec /\ Fairness

\* A network that is fair to every single chunk, and a callback thread that
\* takes every message.
DataDelivery(c) == \E p \in net : p.type = "DATA" /\ p.chunk = c /\ Receive(p)

ChunkFairSpec ==
  /\ FairSpec
  /\ WF_vars(Callback)
  /\ \A m \in Messages : \A c \in 0 .. ChunkAmount(m) - 1 : SF_vars(DataDelivery(c))

-----------------------------------------------------------------------------
(* Properties.                                                             *)

Updates  == {"NO_UPDATE", "UPDATED_LOST_CHUNKS", "SUCCESSFULLY_RECEIVED"}
Verdicts == {"LOWER_DELAY", "INCREASE_DELAY"}
Locals   == {"start", "single", "register", "returned"} \cup Registered

ToSenderPacket ==
  [type : {"LOST_RESPONSE"}, id : Ids, lost : Seq(Nat)] \cup
  [type : {"SUCCESS"}, id : Ids] \cup
  [type : {"DELAY_UPDATE"}, id : Ids, delay : Verdicts]

Packet ==
  [type : {"DATA"}, id : Ids, msg : Messages, chunk : Nat] \cup
  [type : {"LOST_REQUEST"}, id : Ids] \cup ToSenderPacket

PendingMessage ==
  [msg : Messages, chunks_received : SUBSET Nat, chunks_received_number : Nat,
   first : Nat, last_index : Nat, last_number : Nat, sending_lost : BOOLEAN]

ASSUME NoneAssumption == None \notin PendingMessage

Node    == [key : Ids, msg : Messages, pending : BOOLEAN]
Handled == [key : Ids, msg : Messages, intact : BOOLEAN]

SenderTypeOK ==
  /\ pc \in [Messages -> Locals]
  /\ id \in [Messages -> Ids \cup {None}]
  /\ slot \in [Messages -> Slots \cup {None}]
  /\ index \in [Messages -> Nat]
  /\ status \in [Messages -> Updates]
  /\ packets_sending \in [Ids -> Seq(Slots)]
  /\ sending_lock \in Messages \cup {None}
  /\ memory \in [Slots -> [lost : Seq(Nat), size : Nat, updated : Updates]]
  /\ free_slots \subseteq Slots
  /\ sp \in [at : {"idle"}] \cup [at : {"found", "copied"}, packet : ToSenderPacket, slot : Slots]
  /\ crashed \in BOOLEAN /\ stale \in BOOLEAN

ReceiverTypeOK ==
  /\ pending_messages \subseteq Ids
  /\ pending \in [Ids -> PendingMessage \cup {None}]
  /\ DOMAIN packet_data = Ids
  /\ \A k \in Ids : pending[k] # None =>
       packet_data[k] \in [Offsets(pending[k].msg) -> (Messages \X Nat) \cup {None}]
  /\ packets_completed \subseteq Ids
  /\ rp \in [at : {"idle"}] \cup [at : {"answer"}, key : Ids]
  /\ used_after_free \in BOOLEAN

CallbackTypeOK ==
  /\ callback_queue \in Seq(Node)
  /\ cb \in [at : {"idle"}] \cup [at : {"remove", "call"}, node : Node, handler : BOOLEAN]
  /\ handler \in BOOLEAN
  /\ freed \subseteq Ids
  /\ delivered \in Seq(Handled)

\* Every variable holds values of its C type.
TypeOK == SenderTypeOK /\ net \subseteq Packet /\ ReceiverTypeOK /\ CallbackTypeOK

\* rand() gave the sends different ids.
IdsDistinct == \A m, n \in Messages : m # n /\ id[m] # None => id[m] # id[n]

\* The receiver has completed the message under key k and its callback
\* thread has taken it.
Acknowledged(k) == k \in packets_completed /\ k \notin pending_messages

\* Whatever the network does, swiftnet_send_packet returns from a chunked
\* send only after the receiver completed the message and handed it to the
\* callback thread: no late, duplicated or stale answer ends it early, as
\* long as none was written through a slot pointer that outlived its send.
ReturnIsAcknowledged ==
  ~stale => \A m \in Messages :
    pc[m] = "returned" /\ Chunked(m) => Acknowledged(htons(id[m]))

\* The chunk loop sends chunk_amount chunks; with DPDK it sends one more when
\* the last one is full.
SentAsCounted(m) == Backend = "PCAP" \/ Length[m] % ChunkData # 0

\* With different ids, a chunked send that returned left every chunk of this
\* very message at the receiver, unless it sent more than it announced.
ReturnIsComplete ==
  IdsDistinct /\ ~stale => \A m \in Messages :
    pc[m] = "returned" /\ Chunked(m) /\ SentAsCounted(m) =>
      LET pm == pending[htons(id[m])] IN
        /\ pm # None
        /\ pm.msg = m
        /\ pm.chunks_received = 0 .. ChunkAmount(m) - 1

\* The debug check at completion: a message handed to the callback thread
\* misses no chunk, and its count is the number of bits set, unless more
\* chunks were sent than announced or a resend took its list from an answer to
\* an earlier, longer send of the same slot.
CompletedMissesNoChunk ==
  IdsDistinct /\ ~stale => \A k \in packets_completed :
    pending[k] # None /\ SentAsCounted(pending[k].msg) =>
      /\ Missing(pending[k]) = {}
      /\ pending[k].chunks_received_number = Cardinality(pending[k].chunks_received)

\* However often its packets arrive, an id reaches the handler once.
HandledAtMostOnce ==
  \A i, j \in DOMAIN delivered : delivered[i].key = delivered[j].key => i = j

\* The handler gets the bytes that were sent, when the first chunk to arrive
\* was chunk 0, the last one is not full and no answer went to a stale slot.
HandledIntactInOrder ==
  IdsDistinct /\ ~stale => \A i \in DOMAIN delivered :
    LET d == delivered[i] IN
      /\ Reassembled(d.msg)
      /\ pending[d.key].first = 0
      /\ Length[d.msg] % ChunkData # 0
      => d.intact

\* A resend reads only indexes its list holds, each of them a chunk of the
\* message, although the processing thread may overwrite the list meanwhile.
ResendInRange ==
  IdsDistinct /\ ~stale /\ ~used_after_free => \A m \in Messages :
    pc[m] = "resend" =>
      LET s == memory[slot[m]] IN
      \A i \in index[m] + 1 .. s.size : i <= Len(s.lost) /\ s.lost[i] < ChunkAmount(m)

\* The sender dereferences a NULL packet_sending only for a delay update that
\* arrives once its send is over.
CrashNeedsFinishedSend ==
  crashed => stale \/ \E m \in Messages : pc[m] \in {"free", "returned"} /\ Chunked(m)

\* A complete message is queued and the callback thread does not take it.
Overslept == cb.at = "idle" /\ callback_queue # <<>>

\* PCAP: once any chunk has arrived, the send returns, the network losing
\* whatever it likes as long as it does not lose everything; or the receiver's
\* callback thread has missed the wakeup for a complete message and sleeps on,
\* while every request of the sender is answered with an empty list. (With
\* DPDK a resend takes another chunk than the lost one, and nothing is
\* promised.)
ArrivedReturns ==
  Backend = "PCAP" => \A m \in Messages :
    (id[m] # None /\ htons(id[m]) \in pending_messages) ~> (pc[m] = "returned" \/ []Overslept)

-----------------------------------------------------------------------------
(* What the documentation promises beyond that.                            *)

\* usage.md: "The library handles splitting > MTU payloads into chunks and
\* retransmitting lost ones automatically." A chunked send whose requests,
\* answers and data keep getting through returns.
ChunkedReturns == \A m \in Messages : (pc[m] = "chunks") ~> (pc[m] = "returned")

\* usage.md: "The handler is invoked (on a background thread) after the
\* library has fully reassembled any chunked packet."
HandledIntact == \A i \in DOMAIN delivered : delivered[i].intact

=============================================================================
