----------------------------- MODULE Lifecycle -----------------------------
(***************************************************************************)
(* From swiftnet_initialize to swiftnet_cleanup: application threads that  *)
(* create a server or a client and clean it up, the listeners they share   *)
(* (one per interface, in the map listeners), the handshake of a client,   *)
(* the memory cleanup service, and the shutdown of the library.            *)
(*                                                                         *)
(* One interface; each application thread makes one connection. A section  *)
(* under a spin lock is one step unless it waits for another thread inside *)
(* it: listeners_lock is the lock that is then held. The two workers of a  *)
(* connection are Connection's; the server a client calls is remote.       *)
(***************************************************************************)
EXTENDS HashMap

CONSTANTS
  Clients, Servers,   \* application threads by what they create
  Ports, Draws,       \* values of (uint16_t)rand() met here, and by a client
  ServerPort,         \* the port a server is created with
  Slots,              \* objects of client_connection_memory_allocator, in order
  Listeners,          \* objects of listener_memory_allocator
  Interface,          \* key of the listener in the map listeners
  MaxTries            \* bound on the handshake requests of each client

Apps == Clients \cup Servers

SlotSet == Range(Slots)

ASSUME LifecycleAssumption ==
  /\ Ports \cup {ServerPort, Interface} \subseteq DOMAIN hash64
  /\ Draws \in [Clients -> SUBSET Ports] /\ MaxTries \in [Clients -> Nat]
  /\ None \notin Apps \cup SlotSet \cup Listeners

VARIABLES
  pc, slot, listener, tries,            \* application threads
  free_slots, source_port, initialized, closing,   \* client connections
  listeners, listeners_lock,            \* the map and its spin lock
  free_listeners, servers, client_connections,     \* listener objects
  thread, breaking, handle,             \* their threads and network handles
  hand,                                 \* what a listener thread has looked up
  wire,                                 \* REQUEST_INFORMATION frames
  service, swiftnet_closing, shutdown,  \* background thread; swiftnet_cleanup
  \* history: port drawn, the port of the frame that initialised a client; a
  \* client slot freed under a listener that had looked it up; a removal
  \* under a port that was not the connection's; a handshake that failed
  port, informed, stale, stray, failed

appVars      == <<pc, slot, listener, tries, port>>
slotVars     == <<free_slots, source_port, initialized, closing, informed>>
mapVars      == <<listeners, listeners_lock>>
listenerVars == <<free_listeners, servers, client_connections, thread, breaking, handle>>
netVars      == <<hand, wire>>
libVars      == <<service, swiftnet_closing, shutdown>>
ghostVars    == <<stale, stray, failed>>
vars == <<appVars, slotVars, mapVars, listenerVars, netVars, libVars, ghostVars>>

Goto(a, label) == pc' = [pc EXCEPT ![a] = label]

-----------------------------------------------------------------------------
(* swiftnet_create_server and swiftnet_create_client.                      *)

\* construct_client_connection takes the slot freed last and draws a port.
ConstructClient(a) ==
  /\ a \in Clients /\ pc[a] = "new" /\ shutdown = "running"
  /\ free_slots # <<>>
  /\ \E p \in Draws[a] : LET s == Last(free_slots) IN
       /\ free_slots' = Front(free_slots)
       /\ source_port' = [source_port EXCEPT ![s] = p]
       /\ initialized' = [initialized EXCEPT ![s] = FALSE]
       /\ closing' = [closing EXCEPT ![s] = FALSE]
       /\ informed' = [informed EXCEPT ![s] = None]
       /\ slot' = [slot EXCEPT ![a] = s]
       /\ port' = [port EXCEPT ![a] = p]
  /\ Goto(a, "attach")
  /\ UNCHANGED <<listener, tries, mapVars, listenerVars, netVars, libVars, ghostVars>>

ConstructServer(a) ==
  /\ a \in Servers /\ pc[a] = "new" /\ shutdown = "running"
  /\ port' = [port EXCEPT ![a] = ServerPort]
  /\ Goto(a, "attach")
  /\ UNCHANGED <<slot, listener, tries, slotVars, mapVars, listenerVars, netVars, libVars, ghostVars>>

\* The connection goes into the map of its kind of listener l.
Attach(a, l, clientMap, serverMap) ==
  /\ client_connections' = [client_connections EXCEPT ![l] = IF a \in Clients THEN hashmap_insert(port[a], slot[a], clientMap) ELSE clientMap]
  /\ servers' = [servers EXCEPT ![l] = IF a \in Servers THEN hashmap_insert(port[a], a, serverMap) ELSE serverMap]
  /\ listener' = [listener EXCEPT ![a] = l]

\* What follows check_existing_listener.
Attached(a) == IF a \in Clients THEN "handshake" ELSE "open"

\* check_existing_listener, with a listener there.
AttachExisting(a) ==
  /\ pc[a] = "attach" /\ listeners_lock = None
  /\ LET l == hashmap_get(listeners, Interface) IN
       /\ l # None
       /\ Attach(a, l, client_connections[l], servers[l])
  /\ Goto(a, Attached(a))
  /\ UNCHANGED <<slot, tries, port, slotVars, mapVars, free_listeners, thread, breaking, handle, netVars, libVars, ghostVars>>

\* check_existing_listener, with none: a listener with this connection enters
\* the map, and the lock is released before its thread is created.
AttachNew(a) ==
  /\ pc[a] = "attach" /\ listeners_lock = None
  /\ hashmap_get(listeners, Interface) = None
  /\ \E l \in free_listeners :
       /\ free_listeners' = free_listeners \ {l}
       /\ Attach(a, l, hashmap_create, hashmap_create)
       /\ thread' = [thread EXCEPT ![l] = "none"]
       /\ breaking' = [breaking EXCEPT ![l] = FALSE]
       /\ handle' = [handle EXCEPT ![l] = "open"]
       /\ listeners' = hashmap_insert(Interface, l, listeners)
  /\ Goto(a, "listen")
  /\ UNCHANGED <<slot, tries, port, slotVars, listeners_lock, netVars, libVars, ghostVars>>

\* pthread_create of the listener's thread.
StartListening(a) ==
  /\ pc[a] = "listen"
  /\ thread' = [thread EXCEPT ![listener[a]] = "loop"]
  /\ Goto(a, Attached(a))
  /\ UNCHANGED <<slot, listener, tries, port, slotVars, mapVars, free_listeners, servers, client_connections, breaking, handle, netVars, libVars, ghostVars>>

-----------------------------------------------------------------------------
(* The handshake. A frame is known by its direction and the client's port. *)

\* request_server_information, which swiftnet_create_client joins: a request
\* every 250 ms.
RequestInformation(a) ==
  /\ pc[a] = "handshake" /\ ~initialized[slot[a]] /\ tries[a] < MaxTries[a]
  /\ wire' = wire \cup {[kind |-> "request", port |-> port[a]]}
  /\ tries' = [tries EXCEPT ![a] = @ + 1]
  /\ UNCHANGED <<pc, slot, listener, port, slotVars, mapVars, listenerVars, hand, libVars, ghostVars>>

\* Mutant of CheckInitialized: the client is returned in any case.
OpenAnyway(a) ==
  /\ pc[a] = "handshake"
  /\ Goto(a, "open")
  /\ UNCHANGED <<slot, listener, tries, port, slotVars, mapVars, listenerVars, netVars, libVars, ghostVars>>

\* It ends when the client is initialised or the time is over. The client is
\* returned if it is initialised.
CheckInitialized(a) ==
  /\ pc[a] = "handshake" /\ initialized[slot[a]]
  /\ Goto(a, "open")
  /\ UNCHANGED <<slot, listener, tries, port, slotVars, mapVars, listenerVars, netVars, libVars, ghostVars>>

\* If not, SWIFTNET_CLOSE_CONNECTION closes the handle of the listener, which
\* other connections share.
GiveUp(a) ==
  /\ pc[a] = "handshake" /\ ~initialized[slot[a]]
  /\ closing' = [closing EXCEPT ![slot[a]] = TRUE]
  /\ handle' = [handle EXCEPT ![listener[a]] = "closed"]
  /\ failed' = TRUE
  /\ Goto(a, "release")
  /\ UNCHANGED <<slot, listener, tries, port, free_slots, source_port, initialized, informed, mapVars, free_listeners, servers, client_connections, thread, breaking, netVars, libVars, stale, stray>>

\* A listener thread still has the slot.
InHand(s) == \E l \in Listeners : hand[l] # None /\ hand[l].slot = s

FreeSlot(s) ==
  /\ free_slots' = Append(free_slots, s)
  /\ stale' = (stale \/ InHand(s))

\* allocator_free of the connection, before it is taken from the listener.
Release(a) ==
  /\ pc[a] = "release"
  /\ FreeSlot(slot[a])
  /\ Goto(a, "detach")
  /\ UNCHANGED <<slot, listener, tries, port, source_port, initialized, closing, informed, mapVars, listenerVars, netVars, libVars, stray, failed>>

\* remove_con_from_listener reads the port from the freed connection.
Detach(a) ==
  /\ pc[a] = "detach"
  /\ LET l == listener[a] p == source_port[slot[a]] IN
       /\ client_connections' = [client_connections EXCEPT ![l] = hashmap_remove(p, @)]
       /\ stray' = (stray \/ p # port[a])
  /\ Goto(a, "failed")
  /\ UNCHANGED <<slot, listener, tries, port, slotVars, mapVars, free_listeners, servers, thread, breaking, handle, netVars, libVars, stale, failed>>

\* The processor of the remote server answers with its MTU. (A frame that is
\* lost is never answered, or never looked up.)
ServerAnswers(p) ==
  /\ [kind |-> "request", port |-> p] \in wire
  /\ wire' = (wire \ {[kind |-> "request", port |-> p]}) \cup {[kind |-> "reply", port |-> p]}
  /\ UNCHANGED <<appVars, slotVars, mapVars, listenerVars, hand, libVars, ghostVars>>

-----------------------------------------------------------------------------
(* A listener's thread: handle_correct_receiver for a REQUEST_INFORMATION. *)

\* The client is looked up under the map's lock and used after it. (What a
\* lookup in the maps of a listener that was told to stop means is in
\* Connection.)
Lookup(l, p) ==
  /\ thread[l] = "loop" /\ ~breaking[l] /\ hand[l] = None
  /\ [kind |-> "reply", port |-> p] \in wire
  /\ wire' = wire \ {[kind |-> "reply", port |-> p]}
  /\ LET s == hashmap_get(client_connections[l], p) IN
       hand' = [hand EXCEPT ![l] = IF s = None THEN None ELSE [slot |-> s, port |-> p, valid |-> FALSE]]
  /\ UNCHANGED <<appVars, slotVars, mapVars, listenerVars, libVars, ghostVars>>

\* An initialised client's processor answers the frame like a server's does.
PassOn(l) ==
  /\ hand[l] # None /\ ~hand[l].valid /\ initialized[hand[l].slot]
  /\ wire' = wire \cup {[kind |-> "request", port |-> hand[l].port]}
  /\ hand' = [hand EXCEPT ![l] = None]
  /\ UNCHANGED <<appVars, slotVars, mapVars, listenerVars, libVars, ghostVars>>

\* handle_client_init up to its validation.
ValidateInit(l) ==
  /\ hand[l] # None /\ ~hand[l].valid
  /\ LET s == hand[l].slot IN
       /\ ~initialized[s]
       /\ hand' = [hand EXCEPT ![l] =
            IF closing[s] \/ source_port[s] # hand[l].port THEN None ELSE [@ EXCEPT !.valid = TRUE]]
  /\ UNCHANGED <<appVars, slotVars, mapVars, listenerVars, wire, libVars, ghostVars>>

\* Mutant of FinalizeInit: the frame is handed on to the processor as well.
InitAndPassOn(l) ==
  /\ hand[l] # None /\ hand[l].valid
  /\ initialized' = [initialized EXCEPT ![hand[l].slot] = TRUE]
  /\ informed' = [informed EXCEPT ![hand[l].slot] = hand[l].port]
  /\ wire' = wire \cup {[kind |-> "request", port |-> hand[l].port]}
  /\ hand' = [hand EXCEPT ![l] = None]
  /\ UNCHANGED <<appVars, free_slots, source_port, closing, mapVars, listenerVars, libVars, ghostVars>>

\* finalize_initialization.
FinalizeInit(l) ==
  /\ hand[l] # None /\ hand[l].valid
  /\ initialized' = [initialized EXCEPT ![hand[l].slot] = TRUE]
  /\ informed' = [informed EXCEPT ![hand[l].slot] = hand[l].port]
  /\ hand' = [hand EXCEPT ![l] = None]
  /\ UNCHANGED <<appVars, free_slots, source_port, closing, mapVars, listenerVars, wire, libVars, ghostVars>>

\* pcap_loop returns after pcap_breakloop.
StopListening(l) ==
  /\ thread[l] = "loop" /\ breaking[l] /\ hand[l] = None
  /\ thread' = [thread EXCEPT ![l] = "stopped"]
  /\ UNCHANGED <<appVars, slotVars, mapVars, free_listeners, servers, client_connections, breaking, handle, netVars, libVars, ghostVars>>

ListenerThread(l) ==
  (\E p \in Ports : Lookup(l, p)) \/ PassOn(l) \/ ValidateInit(l) \/ FinalizeInit(l) \/ StopListening(l)

-----------------------------------------------------------------------------
(* swiftnet_client_cleanup and swiftnet_server_cleanup.                    *)

BeginCleanup(a) ==
  /\ pc[a] = "open"
  /\ Goto(a, "remove")
  /\ UNCHANGED <<slot, listener, tries, port, slotVars, mapVars, listenerVars, netVars, libVars, ghostVars>>

\* Mutant of Deserted: only connections of the leaving kind are counted.
DesertedByKind(a, l) == IF a \in Clients THEN client_connections'[l].size = 0 ELSE servers'[l].size = 0

\* Mutant of Deserted: the one that leaves is counted.
CountedBefore(a, l) == (servers[l].size + client_connections[l].size) % SizeSpace = 0

\* No connection is left to the listener.
Deserted(a, l) == (servers'[l].size + client_connections'[l].size) % SizeSpace = 0

\* remove_listener: the last connection ends the listener, and holds the lock
\* of listeners until its thread has ended.
RemoveListener(a) ==
  /\ pc[a] = "remove" /\ listeners_lock = None
  /\ LET l == hashmap_get(listeners, Interface) IN
     IF l = None THEN Goto(a, "close") /\ UNCHANGED <<mapVars, listenerVars>>
     ELSE
       /\ client_connections' = [client_connections EXCEPT ![l] =
            IF a \in Clients THEN hashmap_remove(source_port[slot[a]], @) ELSE @]
       /\ servers' = [servers EXCEPT ![l] = IF a \in Servers THEN hashmap_remove(port[a], @) ELSE @]
       /\ Goto(a, IF Deserted(a, l) THEN "join" ELSE "close")
       /\ breaking' = [breaking EXCEPT ![l] = Deserted(a, l)]
       /\ listeners_lock' = IF Deserted(a, l) THEN a ELSE None
       /\ UNCHANGED <<listeners, free_listeners, thread, handle>>
  /\ UNCHANGED <<slot, listener, tries, port, slotVars, netVars, libVars, ghostVars>>

\* Mutant of JoinListener: the lock of listeners is not released.
KeepLock(a) ==
  /\ pc[a] = "join"
  /\ LET l == hashmap_get(listeners, Interface) IN
       /\ thread[l] = "stopped"
       /\ handle' = [handle EXCEPT ![l] = "closed"]
       /\ free_listeners' = free_listeners \cup {l}
  /\ listeners' = hashmap_remove(Interface, listeners)
  /\ Goto(a, "close")
  /\ UNCHANGED <<slot, listener, tries, port, slotVars, listeners_lock, servers, client_connections, thread, breaking, netVars, libVars, ghostVars>>

JoinListener(a) ==
  /\ pc[a] = "join"
  /\ LET l == hashmap_get(listeners, Interface) IN
       /\ thread[l] = "stopped"
       /\ handle' = [handle EXCEPT ![l] = "closed"]
       /\ free_listeners' = free_listeners \cup {l}
  /\ listeners' = hashmap_remove(Interface, listeners)
  /\ listeners_lock' = None
  /\ Goto(a, "close")
  /\ UNCHANGED <<slot, listener, tries, port, slotVars, servers, client_connections, thread, breaking, netVars, libVars, ghostVars>>

\* close_threads, whose steps (and whose lost signal) are Connection's, and the
\* release of the memory.
CloseThreads(a) ==
  /\ pc[a] = "close"
  /\ IF a \in Clients
     THEN FreeSlot(slot[a]) /\ closing' = [closing EXCEPT ![slot[a]] = TRUE]
     ELSE UNCHANGED <<free_slots, stale, closing>>
  /\ Goto(a, "closed")
  /\ UNCHANGED <<slot, listener, tries, port, source_port, initialized, informed, mapVars, listenerVars, netVars, libVars, stray, failed>>

\* What an application's thread does inside the library.
AppStep(a) ==
  \/ AttachExisting(a) \/ AttachNew(a) \/ StartListening(a)
  \/ RequestInformation(a) \/ CheckInitialized(a)
  \/ GiveUp(a) \/ Release(a) \/ Detach(a)
  \/ RemoveListener(a) \/ JoinListener(a) \/ CloseThreads(a)

-----------------------------------------------------------------------------
(* memory_cleanup_background_service. A pass before swiftnet_cleanup       *)
(* leaves everything as it was (ServicePass), so the service is followed   *)
(* from there.                                                             *)

\* Mutant of ServiceCheck: swiftnet_closing is not read.
ServiceGoesOn ==
  /\ service = "check"
  /\ service' = "lock"
  /\ UNCHANGED <<appVars, slotVars, mapVars, listenerVars, netVars, swiftnet_closing, shutdown, ghostVars>>

ServiceCheck ==
  /\ service = "check"
  /\ service' = IF swiftnet_closing THEN "exited" ELSE "lock"
  /\ UNCHANGED <<appVars, slotVars, mapVars, listenerVars, netVars, swiftnet_closing, shutdown, ghostVars>>

\* handle_listener would be called for each bucket LOOP_HASHMAP meets. It
\* meets none while item_occupation has no bit, and stays in the loop, with
\* the lock, once it has.
ServicePass ==
  /\ service = "lock" /\ listeners_lock = None
  /\ IF LOOP_HASHMAP(listeners) = {} THEN service' = "sleep" /\ UNCHANGED listeners_lock
     ELSE service' = "lost" /\ listeners_lock' = "service"
  /\ UNCHANGED <<appVars, slotVars, listeners, listenerVars, netVars, swiftnet_closing, shutdown, ghostVars>>

\* After PACKET_HISTORY_STORE_TIME.
ServiceWake ==
  /\ service = "sleep"
  /\ service' = "check"
  /\ UNCHANGED <<appVars, slotVars, mapVars, listenerVars, netVars, swiftnet_closing, shutdown, ghostVars>>

Service == shutdown # "running" /\ (ServiceCheck \/ ServicePass \/ ServiceWake)

-----------------------------------------------------------------------------
(* swiftnet_cleanup, when the application has no connection left.          *)

\* The packet allocators and requests_sent are destroyed.
BeginShutdown ==
  /\ shutdown = "running" /\ \A a \in Apps : pc[a] \in {"new", "closed", "failed"}
  /\ shutdown' = "listeners"
  /\ UNCHANGED <<appVars, slotVars, mapVars, listenerVars, netVars, service, swiftnet_closing, ghostVars>>

\* close_listeners: LOOP_HASHMAP as in ServicePass; listeners is not unlocked.
CloseListeners ==
  /\ shutdown = "listeners" /\ listeners_lock = None
  /\ listeners_lock' = "shutdown"
  /\ shutdown' = IF LOOP_HASHMAP(listeners) = {} THEN "allocators" ELSE "lost"
  /\ UNCHANGED <<appVars, slotVars, listeners, listenerVars, netVars, service, swiftnet_closing, ghostVars>>

\* The other allocators are destroyed; close_background_service.
SetClosing ==
  /\ shutdown = "allocators"
  /\ swiftnet_closing' = TRUE
  /\ shutdown' = "join"
  /\ UNCHANGED <<appVars, slotVars, mapVars, listenerVars, netVars, service, ghostVars>>

JoinService ==
  /\ shutdown = "join" /\ service = "exited"
  /\ shutdown' = "done"
  /\ UNCHANGED <<appVars, slotVars, mapVars, listenerVars, netVars, service, swiftnet_closing, ghostVars>>

Shutdown == CloseListeners \/ SetClosing \/ JoinService

-----------------------------------------------------------------------------
\* The state swiftnet_initialize leaves.
Init ==
  /\ pc = [a \in Apps |-> "new"] /\ tries = [a \in Apps |-> 0]
  /\ slot = [a \in Apps |-> None] /\ listener = [a \in Apps |-> None] /\ port = [a \in Apps |-> None]
  /\ free_slots = Slots /\ source_port = [s \in SlotSet |-> None] /\ informed = [s \in SlotSet |-> None]
  /\ initialized = [s \in SlotSet |-> FALSE] /\ closing = [s \in SlotSet |-> FALSE]
  /\ listeners = hashmap_create /\ listeners_lock = None
  /\ free_listeners = Listeners
  /\ servers = [l \in Listeners |-> hashmap_create]
  /\ client_connections = [l \in Listeners |-> hashmap_create]
  /\ thread = [l \in Listeners |-> "none"] /\ breaking = [l \in Listeners |-> FALSE]
  /\ handle = [l \in Listeners |-> "closed"]
  /\ hand = [l \in Listeners |-> None] /\ wire = {}
  /\ service = "check" /\ swiftnet_closing = FALSE /\ shutdown = "running"
  /\ stale = FALSE /\ stray = FALSE /\ failed = FALSE

Next ==
  \/ \E a \in Apps : ConstructClient(a) \/ ConstructServer(a) \/ AppStep(a) \/ BeginCleanup(a)
  \/ \E p \in Ports : ServerAnswers(p)
  \/ \E l \in Listeners : ListenerThread(l)
  \/ Service \/ BeginShutdown \/ Shutdown

Spec == Init /\ [][Next]_vars

\* Threads run and time passes. Replies may be lost, and the application need
\* not create, clean up or shut down.
FairSpec ==
  /\ Spec
  /\ \A a \in Apps : WF_vars(AppStep(a))
  /\ \A l \in Listeners : WF_vars(ListenerThread(l))
  /\ WF_vars(Service) /\ WF_vars(Shutdown)

-----------------------------------------------------------------------------
(* Properties.                                                             *)

\* Every variable holds values of its C type.
TypeOK ==
  /\ pc \in [Apps -> {"new", "attach", "listen", "handshake", "open", "release",
                      "detach", "failed", "remove", "join", "close", "closed"}]
  /\ slot \in [Apps -> SlotSet \cup {None}] /\ listener \in [Apps -> Listeners \cup {None}]
  /\ tries \in [Apps -> Nat] /\ port \in [Apps -> Ports \cup {ServerPort, None}]
  /\ free_slots \in Seq(SlotSet) /\ free_listeners \subseteq Listeners
  /\ source_port \in [SlotSet -> Ports \cup {None}] /\ informed \in [SlotSet -> Ports \cup {None}]
  /\ initialized \in [SlotSet -> BOOLEAN] /\ closing \in [SlotSet -> BOOLEAN]
  /\ listeners_lock \in Apps \cup {None, "service", "shutdown"}
  /\ \A m \in {listeners} \cup {servers[l] : l \in Listeners} \cup {client_connections[l] : l \in Listeners} :
       m.size \in 0..SizeSpace - 1 /\ DOMAIN m.items = 0..m.capacity - 1
  /\ thread \in [Listeners -> {"none", "loop", "stopped"}] /\ breaking \in [Listeners -> BOOLEAN]
  /\ handle \in [Listeners -> {"open", "closed"}]
  /\ hand \in [Listeners -> [slot : SlotSet, port : Ports, valid : BOOLEAN] \cup {None}]
  /\ wire \subseteq [kind : {"request", "reply"}, port : Ports]
  /\ service \in {"check", "lock", "sleep", "lost", "exited"} /\ swiftnet_closing \in BOOLEAN
  /\ shutdown \in {"running", "listeners", "allocators", "join", "lost", "done"}
  /\ {stale, stray, failed} \subseteq BOOLEAN

\* The connection is in a map of its listener.
Attending(a) == pc[a] \in {"listen", "handshake", "open", "release", "detach", "remove"}

\* A connection's listener is in the map, allocated and not told to stop for
\* as long as the connection is attached to it, whoever else attaches, fails
\* or leaves meanwhile, and its handle is open for an open connection unless a
\* handshake failed (which closes it for all). It is ended only after its
\* thread was created, although the lock of listeners is released before
\* pthread_create. All unless a removal met the wrong port.
ListenerOutlastsConnections ==
  stray \/ \A a \in Apps :
    LET l == listener[a] IN
    /\ Attending(a) => l = hashmap_get(listeners, Interface) /\ l \notin free_listeners /\ ~breaking[l]
    /\ pc[a] = "open" => failed \/ handle[l] = "open"
    /\ pc[a] = "join" => thread[hashmap_get(listeners, Interface)] # "none"

\* swiftnet_create_client returns a client only after a reply to the client's
\* own port, unless its memory was freed while a listener was using it.
OpenIsInformed ==
  stale \/ \A a \in Clients : pc[a] = "open" => informed[slot[a]] = port[a]

\* Some other client has drawn the port too.
PortShared(a) == \E b \in Clients : b # a /\ port[b] = port[a]

\* A handshake with one request leaves no frame behind. (With a second
\* request under way the two ends answer each other's answers for ever.)
OneRequestSettles ==
  \A a \in Clients :
    (pc[a] = "open" /\ tries[a] = 1 /\ ~PortShared(a) /\ ~stale) => \A m \in wire : m.port # port[a]

\* When every connection made has been cleaned up the listener is gone and
\* its thread has ended, in whatever order they left; a client whose handshake
\* failed leaves the listener behind.
LastOutEndsListener ==
  (\A a \in Apps : pc[a] \in {"new", "closed"}) =>
    hashmap_get(listeners, Interface) = None /\ \A l \in Listeners : thread[l] # "loop"

\* Every creation and cleanup returns: each thread makes one of each, so in
\* the end none is inside the library; unless a handshake failed and left the
\* listener with a closed handle. close_threads is taken to return, which it
\* does unless it meets a worker between its check of closing and its wait
\* (CleanupReturns of Connection).
CallsReturn ==
  <>[](failed \/ \A a \in Apps : pc[a] \in {"new", "open", "closed"})

\* swiftnet_cleanup returns if the background service is not waiting for the
\* lock of listeners, which is never released, when it is told to stop.
ShutdownReturns ==
  (shutdown = "join" /\ service \in {"sleep", "check"}) ~> shutdown = "done"

=============================================================================
