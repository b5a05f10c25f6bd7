# SwiftNet in TLA+

A model of SwiftNet, the C library that sends messages over raw Ethernet/IP
frames with chunking, lost-chunk recovery and callbacks on background threads.
The modules are translated from `src/src/`; `PROJECT.json` maps every
definition to its lines. TLC checks small instances, TLAPS proves the results
listed under *Proofs* for every value of the constants.

## 1. The system

| Part | Code | State | Operations |
| --- | --- | --- | --- |
| Chunked sending | `send_packet.c` | a send's locals; `packets_sending` (id -> slot); slot: `lost_chunks`, `lost_chunks_size`, `updated` | register, chunk loop, ask for lost chunks, poll 255 ms, resend, unregister |
| Packet processing | `process_packets.c` | `pending_messages`, chunk bitmap and counters, buffer, `packets_completed` | one branch per packet type; rate-limit check; idle stages, sleep |
| Callback execution | `execute_packet_callback.c` | callback queue, handler | take, remove the pending message, call, destroy |
| Listener | `handle_packets.c` | map of connections, packet queue | look up, enqueue, wake the processor, `handle_client_init` |
| Cleanup of a connection | `cleanup_connection.c` | `closing`, threads, resources | destroy maps and pools, leave the listener, signal, join, free |
| Allocator | `internal/datatype_allocator.c` | `occupied` word, stacks of free pointers, `stacks_allocated` | allocate, free, create a stack, double-free check |
| Requests | `make_request.c`, `make_response.c` | `requests_sent`, `packet_data` of a request | register, wait or time out, RESPONSE branch |
| Handshake | `initialize_client_connection.c`, `handle_packets.c` | `initialized`, server information | ask for the server's MTU, time out, start threads |
| Hash map | `internal/datatype_hashmap.c` | buckets, chains, `item_occupation`, `size` | get, insert, remove, resize |
| Start and stop of the library | `initialize_swiftnet.c`, `cleanup_swiftnet.c`, `memory_cleanup_background_service.c` | listeners, background thread | start, share a listener, clean old pending messages, stop |
| Packet buffers | `internal/pcap/pcap_buffer.c`, `internal/dpdk/dpdk_buffer.c` | flat buffer (PCAP) or segments (DPDK) | create, append, read, destroy |

A message travels: application thread -> network -> listener thread -> packet
queue -> processing thread -> callback queue -> callback thread -> handler.
Lost-packet requests travel the same way; their answers go through the sender's
listener and processing thread into the slot the application thread polls.
Every node, buffer, slot and pending message comes from an allocator, and
every map lookup copies a pointer out of a critical section.

What makes it hard:

* the network loses, repeats and reorders frames, and ids are 16 random bits;
* an application thread and a processing thread share a slot without a common
  lock, and pointers found in a map are used after its lock is released;
* two workers sleep on condition variables and are woken by a flag that is
  read outside the mutex;
* cleanup runs against all of these threads, and against other connections that
  share the listener;
* a handler that sends holds the only callback thread of its connection;
* requests time out while their answers are on the way;
* the allocator locks stacks with bits of one atomic word, and the hash map
  keeps tombstones and several items under one key.

`PROJECT.json` lists each of these as a hazard, at its line, with the
properties that would notice it going wrong.

## 2. Modules

| Module | Models | Actors |
| --- | --- | --- |
| `Transfer` | one direction of a connection, from `swiftnet_send_packet` to the handler | one application thread per message, the sender's processing thread, the network, the receiver's processing and callback threads |
| `Connection` | the threads of one connection, their two queues, sleep and wakeup, `swiftnet_*_cleanup` | listener, processor, executor, cleanup |
| `Allocator` | the pool allocator, one step per atomic access | any threads |
| `Pool` | what the allocator promises: items handed out and given back | |
| `HashMap` | `struct SwiftNetHashMap` and its operations, as functions from map to map | |
| `KeyedQueues` | what a map promises: under every key a queue of values | |
| `Requests` | `make_request`, `make_response` and the RESPONSE branch, over `HashMap` | calling threads, the peer, the processor |
| `Lifecycle` | creation and cleanup of servers and clients, the shared listener, the handshake, the background service, `swiftnet_cleanup`, over `HashMap` | application threads, listener threads, a remote server, the service |
| `Duplex` | messages in both directions between a server and its clients, with handlers that send | calls, processors and callback threads of all connection objects |
| `PacketBuffer` | the application's packet buffer: the PCAP backend's, and what a DPDK buffer must look like | |
| `DpdkBuffer` | the mbufs of a DPDK buffer and the frames sent from them | one application thread |
| `TransferProofs`, `AckProofs`, `AllocatorProofs`, `ConnectionProofs`, `RequestsProofs`, `DuplexProofs` | theorems | |
| `MCTransfer`, `MCConnection`, `MCAllocator`, `MCRequests`, `MCLifecycle`, `MCDuplex`, `MCDpdkBuffer` | constants for TLC | |

### Transfer

`pc[m]` is where the call for message `m` stands: `start`, `single` (one frame),
`register`, `chunks`, `request`, `poll`, `clear`, `lock`, `resend`, `finish`,
`free`, `returned`. `memory[s]` is a slot (`SwiftNetPacketSending`),
`packets_sending` the map from ids to slots; a hash map that holds several
entries under one key returns and removes the oldest, so a key maps to a FIFO.
`sp` is the sender's processing thread between finding a slot and writing it,
`rp` the receiver's between finding a pending message and answering. Every
access that two threads can interleave is a step: the load of `updated` and the
store that clears it, the copy of the lost list and its publication, each
resent chunk, the lookup and the use of a slot or a pending message.

The data of a message is one unit per byte, so a copy to a wrong offset or of a
wrong length is visible. Ids are pairs of bytes: headers are written with
`htons` and read without `ntohs`, so the receiver knows a message under the
swapped id, and its answer swaps it back. `Backend` chooses the end of the chunk
loop and the buffer of a resend. Undefined behaviour is a choice: a pending
message read after the handler destroyed it may answer anything
(`RxAnswerLost`), a short frame is followed by unknown bytes. `crashed` is the
NULL dereference of `packet_sending`; `stale` records a write through a slot
pointer whose send is over.

Left out: the values of `current_send_delay` and of sleeps, the checksum (its
verdict is not used between private addresses), the RESPONSE branch (it is in
`Requests`), and the handler's user argument. That a map is a FIFO per key is
what `Requests` checks of the real table (`ImplementsQueues`).

### Connection

`first`, `last` and `next` are the linked lists of both queues; `content` is the
sequence they should describe. `wp[w]` is the place of a worker in its loop,
including the three points that matter for wakeups: before it clears its flag
(`clear`), before it waits (`sleep`) and in the wait (`waiting`). A frame in
`Completing` is the last missing chunk of a message. Cleanup has one step per
call, in the code's order. `misused` records a use of destroyed or freed memory,
after which the program's behaviour is undefined and nothing is claimed. The
client is taken to be initialised; `Lifecycle` has the time before.

### Allocator

A call (`op`, `pc`) loads `stacks_allocated` and `occupied`, searches, compares
and exchanges, checks the size of the stack it has locked, and works on it; it
creates a stack when none is left and then starts again, as the recursive call
does. `FreeStackLock` keeps the width of the mask `~(1u << index)`.

### HashMap, Requests

A map is a record of `capacity`, `size` (an unsigned 32-bit number that wraps),
`item_occupation` and `items`, a sequence of key/value items per bucket. A root
whose item was removed stays as a tombstone. `hash64` is a parameter, so an
instance decides which keys collide before and after a rehash.
`LOOP_HASHMAP(m)` is the set of buckets the macro's loop visits, as its bit
operations have it: none while `item_occupation` is empty, and otherwise one
bucket for ever.

In `Requests` a call (`pc[r]`) is `new`, `waiting`, `delete` (found the time
over), `free`, and `timedout` or `returned`. `hand` is the RESPONSE the
processor holds between completing it and looking for its request, the window
in which a call can time out. Times are 32-bit milliseconds: `Expire` chooses
any start and duration and compares them as the code does. `orphaned`,
`collided` and `raced` are histories that the conditions below refer to.

### Lifecycle

`pc[a]` is the place of an application thread in `swiftnet_create_*` or
`swiftnet_*_cleanup`. Client objects are reused last in, first out, as the pool
does, so a frame or a pointer can meet an object that belongs to another client
by now. `hand[l]` is what a listener's thread has looked up and uses after the
lock. `listeners_lock` is a variable because `remove_listener` joins a thread
while it holds the lock and `close_listeners` never releases it. Other critical
sections are single steps. One interface; the server a client calls is remote
and only answers.

### Duplex

A chunked call is `asking` until its message is complete at the receiver and no
longer in `pending_messages`; a request then is `waiting` for its answer or the
time-out. A callback thread takes a message, removes it from
`pending_messages`, and runs a handler that makes the calls `Cause` gives it,
one after the other. A RESPONSE goes past the callback thread. Chunks and their
loss are `Transfer`'s, and ids are distinct.

### PacketBuffer, DpdkBuffer

`DpdkBuffer` keeps mbufs of `Room` bytes with their lengths and contents
(`Junk` before a write), and `sent`, the frames of the last send with the
announced `chunk_amount` and whether the loop came to `handle_lost_packets`.
The refinement mapping concatenates the mbufs.

## 3. Runs

| Run | Instance | Checks |
| --- | --- | --- |
| `one_message` | PCAP; one message of three chunks; two frames in flight, repeated, lost and reordered; rate limit after every chunk; lists of one lost index | a returned message is complete; completion misses no chunk; intact when chunk 0 came first; resends stay in their list; the sender crashes only after a finished send |
| `three_messages` | DPDK; two chunked messages on one slot and a single frame; repeated frames; two ids that are each other's `htons` image, so ids can be equal, and one message's answer id can be the other's data id | between sends too, a return is acknowledged and complete, and a message is handled once and, when chunk 0 came first, intact |
| `arrived_returns` | PCAP; one message, fairness | a send returns once any chunk has arrived, unless the receiver's callback thread missed its wakeup |
| `all_chunks_lost` (violation) | one message, a network fair to every chunk, no missed wakeup | "retransmitting lost ones automatically" fails when nothing arrived |
| `first_chunk_offset` (violation) | one message | the handler's data is not what was sent when another chunk came before chunk 0 |
| `pool` | two threads, two stacks of two items | exclusive stacks, each item in one place, refinement of `Pool` |
| `threads` | three frames, two of them completing, of which any two arrive in any order; cleanup at any time; fairness | linked queues, order, no free before the threads ended; a sleeping worker takes what it is notified of; cleanup returns |
| `lost_wakeup` (violation) | two frames | a message queued in the window before the wait is not handled |
| `requests` | three calls, three objects, two ids that share one of two buckets and are apart after the rehash; answers late, chunked, repeated or never | the table implements `KeyedQueues`, lookups find the oldest and no item of any bucket is out of their reach, `size` is right; whose answer a call returns, and once; no write into a freed object; no early time-out; only late chunked answers stay pending |
| `lifecycle` | a server and two clients on one interface, two ports that share a bucket, one client that may ask twice, fairness | the listener lives as long as its connections and ends with the last; no join of a thread that was not started; a client is returned only when informed; calls (if `close_threads` does) and the shutdown return |
| `buffers` | MTU 3, header 1, peers with MTU 2 and 3, buffers of up to 6 bytes, writes of one and three bytes | refinement of `PacketBuffer`, full segments, frames carry the data, chunk counts, the recovery is reached |
| `handlers_send` | a server, two clients; a chunked message and a single frame whose handlers send chunked messages in opposite directions; a chunked request of the same client with a chunked answer; a chunked message of the other client; fairness | which sends return, that crossed handlers never do, that an answer passes a receiver whose handler waits for the handler that answers |

`buffers` checks for deadlock. The others set `CHECK_DEADLOCK FALSE`: all
messages may have returned, all frames been handled, all calls been made, and a
crashed sender stops.

Every module has a type invariant `TypeOK`. Those of `Transfer`, `Allocator`,
`Connection` and `Duplex` are proved. Those of `Requests`, `Lifecycle` and
`DpdkBuffer` were checked by TLC with the configurations above, which otherwise
list the properties that relate several parts of the state.

Bounds, and why they suffice:

* `MaxInFlight` frames in the network; a further one is lost, which the network
  may do anyway. Two let a late answer meet a newer request and an old chunk a
  resend. With three chunks a message has a first, a middle and a last one.
  `three_messages` keeps one frame in flight beside those its threads hold; its
  two chunked messages have one length and are symmetric.
* `LostCap` = 1: a list that does not fit in one frame occurs already with two
  lost chunks. `DelayWindow` = 0 makes every chunk a rate check, 9 none.
* `Slots` = one slot for two chunked sends: the second begins when the first
  gives it back, so stale pointers occur. With two slots, so that the sends
  overlap, and no repeated frames, the properties of `three_messages` were found
  to hold for its two chunked messages too (20,026,678 states, seven and a half
  minutes with three workers, hence no run of its own); the two of them that are
  proved hold for any number of slots.
* `IdleLimit` = 1 instead of 255: a worker polls, polls again and sleeps.
* Two stacks of two items: empty, full and partly filled stacks, creation, and
  a race for either; the threads are symmetric. `SizeRange` = 8 keeps the size
  an unsigned integer that wraps.
* Three requests on two ids: an id is drawn twice, at once or after a time-out,
  and the table of two buckets is filled, rehashed, and emptied to tombstones.
* Two clients and a server on one listener: each kind can be the last to leave,
  one can fail while another attaches, and that one can take over its object.
  `Draws` and `MaxTries` are given per client, as ports are interchangeable.
* Buffers of up to three full mbufs: a resize stays within an mbuf, crosses one or
  two edges, or ends on one; a write of three bytes covers an mbuf of two.
* Two clients in `handlers_send`: one can be in a crossing with the server, the
  other waits behind it. The first one's handler can be stuck in a send to the
  server while the server's handler answers that client's request.

Fairness. Threads are scheduled: weak fairness of each thread's steps, except
that in `Transfer` and `Duplex` a callback thread need not take a queued message
(`CbTake`, `TakeNode`): it may have missed its wakeup, as run `lost_wakeup`
shows, and those modules do not have the wait itself. A processing thread that
missed one is woken by the next frame, which comes as long as a sender asks, so
there the miss is a delay of the network. In `Transfer` the network does not
lose everything: strong fairness of delivery per kind of packet (data, requests,
answers), the least under which a protocol that retransmits can make progress;
`ChunkFairSpec`, used only for the violation, is fair to each chunk and to the
callback thread, so the counterexample is the fault of neither. In `Connection` frames need not arrive and cleanup need not be called;
`pcap_loop` is assumed to return after `pcap_breakloop`. In `Lifecycle` replies
may be lost and the application need not create, clean up or shut down; in
`Duplex` an application need not call and a single frame may be lost, but of a
chunked message a chunk arrives and it is then completed, which is what
`arrived_returns` shows for PCAP under `Transfer`'s fairness. Spurious wakeups may
happen and are not relied on. Memory is sequentially consistent; the code uses
acquire/release atomics for its flags.

Three disagreements between the code and its documentation are recorded as
findings: a send of which no chunk arrived never ends, a message whose first
chunk to arrive is not chunk 0 is corrupted, and a wakeup can be lost. Several
properties carry a condition for the same kind of reason; each states what is
true of the code, and its condition names what is not:

* *stale slot* (`~stale`): `get_packet_sending`'s result is used after the lock
  (`process_packets.c:631`); a late SUCCESS can then end another send, and a late
  list of a longer message make a resend send chunks this one does not have,
  which the receiver counts;
* *equal ids* (`IdsDistinct`): the second message is dropped as completed;
* *full last chunk*: its `bytes_to_write` is 0 (`process_packets.c:772`), and
  with DPDK the loop sends one chunk too many (`SentAsCounted`,
  `send_packet.c:440`);
* *use after destroy* (`used_after_free`, `misused`): `process_packets.c:513`,
  and cleanup destroys maps and pools before it stops the threads
  (`cleanup_connection.c:141`);
* *more stacks than mask bits* (`stacks_allocated <= ShiftBits`);
* *worker before its wait* in `CleanupReturns`: `close_threads` signals once
  (`CallsReturn` takes `close_threads` as returning);
* *missed wakeup* (`[]Overslept` in `ArrivedReturns` and `SendsReturn`): a message
  queued between the executor's last poll and its wait
  (`execute_packet_callback.c:79`) stays pending, every lost-packet request for
  it is answered with an empty list (`process_packets.c:513`), and the sender
  asks for ever, until another message wakes the executor;
* *PCAP* in `ArrivedReturns`: a DPDK resend takes the buffer at the loop counter
  (`send_packet.c:211`);
* *two calls with one id* (`collided`): the first to time out removes the other's
  entry (`make_request.c:11`);
* *time-out after the answer* (`raced`): the second removal finds a tombstone and
  decreases `size` again;
* *wrapped time*: `start + timeout_ms` is 32 bits wide (`make_request.c:57`);
* *late chunked answer* (`orphaned`, `AnsweredLate`): its pending message is not
  released (`process_packets.c:157`), so whoever sends it is never acknowledged;
* *crossed handlers* (`Crossed`): `process_packets.c:516` acknowledges a message
  only when the callback thread has taken it;
* *failed handshake* (`failed`, `stray`, `stale`): it closes the shared handle,
  reads the port from freed memory, and leaves the listener behind
  (`initialize_client_connection.c:194`);
* *second request in flight* in `OneRequestSettles`: both ends answer every
  REQUEST_INFORMATION with another one;
* *service in a pass* in `ShutdownReturns`: `close_listeners` keeps the lock;
* *lengths between the mbuf's room and the MTU, exact multiples of the room, and
  peers with a smaller MTU* in the DPDK send loop (`SentIsData`,
  `SendRecovers`, `SentAsAnnounced`).

## 4. Proofs

All from the named assumptions on the constants (`TransferAssumption`,
`NoneAssumption`, `AllocatorAssumption`, `ConnectionAssumption`,
`HashMapAssumption`, `RequestsAssumption`, `DuplexAssumption`), which TLC
evaluates in every run of their modules.

* `TransferProofs!TypeCorrect`: `Spec => []TypeOK` for any messages, lengths,
  ids, slots, MTU and backend. `TypeOK` is not inductive: a thread that
  dereferences its slot must have one. `TypeInv` adds that a started send has
  an id, a registered one a slot, and that the pending message behind a key of
  the map or in the processing thread's hand exists.
* `AckProofs!SendReturnsAcknowledged`: `Spec => []ReturnIsAcknowledged`. A
  SUCCESS is followed on its way: in the network, with the processing thread,
  in the slot, loaded by the application. `AckInv` says that at each stop
  it is true of the id it names, that a slot has one owner, and
  `AckStable` that once true it stays so. Duplicates, reordering and repeated
  requests need no case of their own. The theorem holds up to the first write
  through a stale slot, the step at which the argument really breaks.
* `AckProofs!IdHandledOnce`: `Spec => []HandledAtMostOnce`. `OnceInv`: every
  key in the callback queue, in the callback thread's hand or delivered is in
  `packets_completed`, and all of these are different.
* `AllocatorProofs!AllocatorTypeCorrect` and `StacksExclusive`:
  `Spec => []TypeOK` and `Spec => []StackExclusive` for any number of threads,
  stacks and items. The invariant: who creates a stack holds
  `creating_stack`; who works on a stack owns its bit in `occupied`, and no two
  own the same one. `UnlockClears` is where the width of the mask is needed.
* `ConnectionProofs!QueuesLinked`: `Spec => []QueueLinked` for any frames, in
  every interleaving of the four threads. `Queues`: the frames of a queue are
  different, and a frame on the wire, in a thread's hand or in a queue is in one
  of these places only; without it an insertion could overwrite the link of a
  node that is still in the list. `InsertLinked` and `RemoveLinked` are the two
  list operations on their own.
* `ConnectionProofs!FreesAfterThreads`: `Spec => []FreedAfterThreads`. `Joined`
  says which threads have ended at each step of cleanup, and that an ended
  thread does not start again.
* `ConnectionProofs!ConnectionTypeCorrect`: `Spec => []TypeOK`, from `Queues` and
  `OtherTypes`, which adds that the executor has a message when it calls the
  handler.
* `RequestsProofs!AnswersReturnedOnce`: `Spec => []AnswerReturnedOnce`, for any
  calls, ids, hash function and capacity, whatever the table returns. An answer
  is in the processor's hand, in an object, or returned, and in one of these
  only; one whose id is not in `packets_completed` is in none. An object is in
  the pool or belongs to one call.
* `RequestsProofs!TimeoutsNotEarly`: `Spec => []TimeoutNotEarly`.
* `DuplexProofs!CrossingIsFinal`: `Spec => CrossedForever`, for any clients,
  messages and handlers. A callback thread holds messages of its own
  connection only (`TypeOK`), so a message stays pending while the receiver's
  handler runs (`NotAcknowledgedStays`), and its sender's handler cannot return
  (`WaitingStays`); each of the two facts keeps the other.

Only model-checked: liveness (under fairness, which the prover does not reach),
completeness and integrity of the data, `ResendInRange`,
`CrashNeedsFinishedSend`, `EveryItemOnce`, `PipelineKeepsOrder`, the refinements
of `Pool`, `KeyedQueues` and `PacketBuffer`, and everything about `Lifecycle`
and `DpdkBuffer`.

## 5. Not modelled, and why

* `allocator_destroy` and `hashmap_destroy` return memory of pools and maps that
  no thread should use any more; that threads do use them is what `misused` in
  `Connection` records.
* The values of `current_send_delay` and of sleeps: `Transfer` lets every thread
  take any time, so no property depends on them.
* The body of `handle_listener` in the background service: the loop around it
  visits no listener (`ServicePass`). The queries of `swiftnet_initialize` for
  address, interface and MTU.
* The handler and its argument as two separate stores and loads
  (`generic_functions.c:22`): `Transfer` sets the handler once.
* The start of the workers before their mutexes are initialised
  (`initialize_client_connection.c:206`): the code does not define what a wait
  on such a mutex does, and a worker polls for a while before it waits.
  `Connection` begins with both initialised.
* The two bytes of the link-layer header that a PCAP resend of the last chunk
  overwrites (`send_packet.c:194`): for `Transfer` the frame is one the network
  may lose. `arrived_returns` assumes a link on which such frames arrive.
* `stacks[64]` beyond its end (`internal/datatype_allocator.c:315`): `Allocator`
  stops at `MaxStacks`.
* `Requests` composed with the chunks of `Transfer`, and several interfaces in
  `Lifecycle`: the parts meet in completed messages and in the map of listeners,
  and the product is out of TLC's reach.

Proofs that would come next: `CompletedMissesNoChunk` and `ReturnIsComplete`,
`PipelineKeepsOrder`, `EveryItemOnce` and the refinement of `Pool`.

Out of scope: operating-system queries (interface discovery, MTU), logging,
`crc32` (pure arithmetic), the backends' drivers, and `Vector`, which the
library does not use.
