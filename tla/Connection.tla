----------------------------- MODULE Connection -----------------------------
(***************************************************************************)
(* The threads of one connection: the listener puts frames on the packet   *)
(* queue, the packet processor puts completed messages on the callback     *)
(* queue, the callback executor calls the handler. Two of them sleep on a  *)
(* condition variable when idle; swiftnet_*_cleanup ends them.             *)
(*                                                                         *)
(* A critical section of a queue's spin lock, and one of a mutex around a  *)
(* signal, is one step. A frame stands for its queue nodes.                *)
(***************************************************************************)
EXTENDS Integers, Sequences, FiniteSets

CONSTANTS
  Frames,        \* frames for this connection, in any order of arrival
  Completing,    \* those that are the last missing chunk of a message
  MaxFrames,     \* bound on the frames that arrive
  IdleLimit,     \* 255: polls of an empty queue before a worker sleeps
  None

ASSUME ConnectionAssumption ==
  /\ Completing \subseteq Frames
  /\ IdleLimit \in Nat /\ MaxFrames \in Nat
  /\ None \notin Frames

\* swiftnet_process_packets and execute_packet_callback.
Workers == {"process", "callback"}

VARIABLES
  arriving,                \* frames still on the wire
  lp, frame,               \* the listener thread and the frame it handles
  registered, breaking,    \* in the listener's map; pcap_breakloop called
  first, last, next,       \* the two linked lists
  awake,                   \* processing_packets, executing_packets
  wp, node, idle_stage,    \* the two workers
  closing, cp,             \* closing flag; the thread calling cleanup
  destroyed, freed,        \* connection resources; the connection itself
  \* history: what each list holds, frames accepted, messages handled, use
  \* of destroyed or freed memory
  content, accepted, handled, misused

listenerVars == <<arriving, lp, frame, registered, breaking>>
queueVars    == <<first, last, next, content>>
workerVars   == <<awake, wp, node, idle_stage>>
closeVars    == <<closing, cp, destroyed, freed>>
vars == <<listenerVars, queueVars, workerVars, closeVars, accepted, handled, misused>>

-----------------------------------------------------------------------------
\* Mutant of Insert: the new node becomes the first.
InsertFirst(w, f) ==
  LET fresh == [next[w] EXCEPT ![f] = None] IN
  /\ last' = [last EXCEPT ![w] = f]
  /\ next' = [next EXCEPT ![w] = IF last[w] = None THEN fresh ELSE [fresh EXCEPT ![last[w]] = f]]
  /\ first' = [first EXCEPT ![w] = f]
  /\ content' = [content EXCEPT ![w] = Append(@, f)]

\* insert_queue_node and insert_callback_queue_node of a new node.
Insert(w, f) ==
  LET fresh == [next[w] EXCEPT ![f] = None] IN
  /\ last' = [last EXCEPT ![w] = f]
  /\ next' = [next EXCEPT ![w] = IF last[w] = None THEN fresh ELSE [fresh EXCEPT ![last[w]] = f]]
  /\ first' = [first EXCEPT ![w] = IF @ = None THEN f ELSE @]
  /\ content' = [content EXCEPT ![w] = Append(@, f)]

\* Mutant of Remove: last_node is not reset with the last node.
KeepLast(w) ==
  /\ first' = [first EXCEPT ![w] = next[w][first[w]]]
  /\ content' = [content EXCEPT ![w] = Tail(@)]
  /\ UNCHANGED <<last, next>>

\* wait_for_next_packet and wait_for_next_packet_callback on a non-empty list.
Remove(w) ==
  LET f == first[w] IN
  /\ first' = [first EXCEPT ![w] = next[w][f]]
  /\ last' = [last EXCEPT ![w] = IF next[w][f] = None THEN None ELSE @]
  /\ content' = [content EXCEPT ![w] = Tail(@)]
  /\ UNCHANGED next

\* pthread_cond_signal wakes a sleeper; with none it has no effect.
Signalled(pcs, w) == IF pcs[w] = "waiting" THEN [pcs EXCEPT ![w] = "woken"] ELSE pcs

-----------------------------------------------------------------------------
(* The listener: handle_correct_receiver and swiftnet_handle_packets.      *)

\* The connection is looked up under the map's lock and used after it. A
\* listener that was told to stop has had its maps destroyed.
Lookup(f) ==
  /\ lp = "idle" /\ f \in arriving
  /\ Cardinality(Frames \ arriving) < MaxFrames
  /\ arriving' = arriving \ {f}
  /\ IF registered THEN lp' = "insert" /\ frame' = f ELSE UNCHANGED <<lp, frame>>
  /\ misused' = (misused \/ breaking)
  /\ UNCHANGED <<registered, breaking, queueVars, workerVars, closeVars, accepted, handled>>

InsertFrame ==
  /\ lp = "insert"
  /\ Insert("process", frame)
  /\ accepted' = Append(accepted, frame)
  /\ lp' = "load" /\ frame' = None
  /\ misused' = (misused \/ freed)
  /\ UNCHANGED <<arriving, registered, breaking, workerVars, closeVars, handled>>

LoadProcessing ==
  /\ lp = "load"
  /\ lp' = IF awake["process"] THEN "idle" ELSE "signal"
  /\ misused' = (misused \/ freed)
  /\ UNCHANGED <<arriving, frame, registered, breaking, queueVars, workerVars, closeVars, accepted, handled>>

SignalProcessing ==
  /\ lp = "signal"
  /\ wp' = Signalled(wp, "process")
  /\ lp' = "idle"
  /\ misused' = (misused \/ freed)
  /\ UNCHANGED <<arriving, frame, registered, breaking, queueVars, awake, node, idle_stage, closeVars, accepted, handled>>

\* pcap_loop returns once pcap_breakloop was called.
StopListening ==
  /\ lp = "idle" /\ breaking
  /\ lp' = "stopped"
  /\ UNCHANGED <<arriving, frame, registered, breaking, queueVars, workerVars, closeVars, accepted, handled, misused>>

Listener == InsertFrame \/ LoadProcessing \/ SignalProcessing \/ StopListening

-----------------------------------------------------------------------------
(* A worker's loop.                                                        *)

CheckClosing(w) ==
  /\ wp[w] = "loop"
  /\ wp' = [wp EXCEPT ![w] = IF closing THEN "exited" ELSE "take"]
  /\ UNCHANGED <<listenerVars, queueVars, awake, node, idle_stage, closeVars, accepted, handled, misused>>

TakeNode(w) ==
  /\ wp[w] = "take" /\ first[w] # None
  /\ Remove(w)
  /\ node' = [node EXCEPT ![w] = first[w]]
  /\ idle_stage' = [idle_stage EXCEPT ![w] = 0]
  /\ wp' = [wp EXCEPT ![w] = "handle"]
  /\ UNCHANGED <<listenerVars, awake, closeVars, accepted, handled, misused>>

\* An empty queue: poll again, or give up polling.
TakeNothing(w) ==
  /\ wp[w] = "take" /\ first[w] = None
  /\ IF idle_stage[w] < IdleLimit THEN
       /\ idle_stage' = [idle_stage EXCEPT ![w] = @ + 1]
       /\ wp' = [wp EXCEPT ![w] = "loop"]
     ELSE
       /\ wp' = [wp EXCEPT ![w] = "clear"]
       /\ UNCHANGED idle_stage
  /\ UNCHANGED <<listenerVars, queueVars, awake, node, closeVars, accepted, handled, misused>>

\* Mutant of ClearAwake: the flag stays set.
StayAwake(w) ==
  /\ wp[w] = "clear"
  /\ wp' = [wp EXCEPT ![w] = "sleep"]
  /\ UNCHANGED <<listenerVars, queueVars, awake, node, idle_stage, closeVars, accepted, handled, misused>>

ClearAwake(w) ==
  /\ wp[w] = "clear"
  /\ awake' = [awake EXCEPT ![w] = FALSE]
  /\ wp' = [wp EXCEPT ![w] = "sleep"]
  /\ UNCHANGED <<listenerVars, queueVars, node, idle_stage, closeVars, accepted, handled, misused>>

\* The mutex is taken and given up by the wait; nothing is checked in between.
CondWait(w) ==
  /\ wp[w] = "sleep"
  /\ wp' = [wp EXCEPT ![w] = "waiting"]
  /\ UNCHANGED <<listenerVars, queueVars, awake, node, idle_stage, closeVars, accepted, handled, misused>>

\* POSIX lets a wait return without a signal.
SpuriousWakeup(w) ==
  /\ wp[w] = "waiting"
  /\ wp' = [wp EXCEPT ![w] = "woken"]
  /\ UNCHANGED <<listenerVars, queueVars, awake, node, idle_stage, closeVars, accepted, handled, misused>>

SetAwake(w) ==
  /\ wp[w] = "woken"
  /\ awake' = [awake EXCEPT ![w] = TRUE]
  /\ idle_stage' = [idle_stage EXCEPT ![w] = 0]
  /\ wp' = [wp EXCEPT ![w] = "loop"]
  /\ UNCHANGED <<listenerVars, queueVars, node, closeVars, accepted, handled, misused>>

\* The processor uses the connection's maps; a frame that completes a message
\* goes to the callback queue (pass_callback_execution).
ProcessNode ==
  /\ wp["process"] = "handle"
  /\ misused' = (misused \/ destroyed)
  /\ IF node["process"] \in Completing THEN
       /\ Insert("callback", node["process"])
       /\ wp' = [wp EXCEPT !["process"] = "load"]
     ELSE
       /\ wp' = [wp EXCEPT !["process"] = "loop"]
       /\ UNCHANGED queueVars
  /\ node' = [node EXCEPT !["process"] = None]
  /\ UNCHANGED <<listenerVars, awake, idle_stage, closeVars, accepted, handled>>

LoadExecuting ==
  /\ wp["process"] = "load"
  /\ wp' = [wp EXCEPT !["process"] = IF awake["callback"] THEN "loop" ELSE "signal"]
  /\ UNCHANGED <<listenerVars, queueVars, awake, node, idle_stage, closeVars, accepted, handled, misused>>

SignalExecuting ==
  /\ wp["process"] = "signal"
  /\ wp' = Signalled([wp EXCEPT !["process"] = "loop"], "callback")
  /\ UNCHANGED <<listenerVars, queueVars, awake, node, idle_stage, closeVars, accepted, handled, misused>>

\* The handler runs, and destroys the packet data with the connection's pool.
HandleMessage ==
  /\ wp["callback"] = "handle"
  /\ misused' = (misused \/ destroyed)
  /\ handled' = Append(handled, node["callback"])
  /\ node' = [node EXCEPT !["callback"] = None]
  /\ wp' = [wp EXCEPT !["callback"] = "loop"]
  /\ UNCHANGED <<listenerVars, queueVars, awake, idle_stage, closeVars, accepted>>

Worker(w) ==
  \/ CheckClosing(w) \/ TakeNode(w) \/ TakeNothing(w) \/ ClearAwake(w) \/ CondWait(w) \/ SetAwake(w)
  \/ w = "process" /\ (ProcessNode \/ LoadExecuting \/ SignalExecuting)
  \/ w = "callback" /\ HandleMessage

-----------------------------------------------------------------------------
(* swiftnet_client_cleanup and swiftnet_server_cleanup.                    *)

DestroyResources ==
  /\ cp = "open"
  /\ destroyed' = TRUE
  /\ cp' = "unregister"
  /\ UNCHANGED <<listenerVars, queueVars, workerVars, closing, freed, accepted, handled, misused>>

\* remove_listener; the last connection of a listener ends it.
Unregister ==
  /\ cp = "unregister"
  /\ registered' = FALSE
  /\ \E others \in BOOLEAN :
       /\ breaking' = ~others
       /\ cp' = IF others THEN "close" ELSE "joinlistener"
  /\ UNCHANGED <<arriving, lp, frame, queueVars, workerVars, closing, destroyed, freed, accepted, handled, misused>>

JoinListener ==
  /\ cp = "joinlistener" /\ lp = "stopped"
  /\ cp' = "close"
  /\ UNCHANGED <<listenerVars, queueVars, workerVars, closing, destroyed, freed, accepted, handled, misused>>

\* close_threads.
SetClosing ==
  /\ cp = "close"
  /\ closing' = TRUE
  /\ cp' = "process"
  /\ UNCHANGED <<listenerVars, queueVars, workerVars, destroyed, freed, accepted, handled, misused>>

\* Mutant of SignalWorker: only the processor is signalled.
SignalProcessOnly(w) ==
  /\ cp = w
  /\ wp' = IF w = "process" THEN Signalled(wp, w) ELSE wp
  /\ cp' = IF w = "process" THEN "callback" ELSE "joinprocess"
  /\ UNCHANGED <<listenerVars, queueVars, awake, node, idle_stage, closing, destroyed, freed, accepted, handled, misused>>

SignalWorker(w) ==
  /\ cp = w
  /\ wp' = Signalled(wp, w)
  /\ cp' = IF w = "process" THEN "callback" ELSE "joinprocess"
  /\ UNCHANGED <<listenerVars, queueVars, awake, node, idle_stage, closing, destroyed, freed, accepted, handled, misused>>

\* Mutant of JoinWorkers: only the processor is joined.
JoinProcessOnly ==
  /\ cp = "joinprocess" /\ wp["process"] = "exited"
  /\ cp' = "free"
  /\ UNCHANGED <<listenerVars, queueVars, workerVars, closing, destroyed, freed, accepted, handled, misused>>

JoinWorkers ==
  /\ \/ cp = "joinprocess" /\ wp["process"] = "exited" /\ cp' = "joincallback"
     \/ cp = "joincallback" /\ wp["callback"] = "exited" /\ cp' = "free"
  /\ UNCHANGED <<listenerVars, queueVars, workerVars, closing, destroyed, freed, accepted, handled, misused>>

FreeConnection ==
  /\ cp = "free"
  /\ freed' = TRUE
  /\ cp' = "closed"
  /\ UNCHANGED <<listenerVars, queueVars, workerVars, closing, destroyed, accepted, handled, misused>>

\* Cleanup once begun; when to begin is the application's choice.
Cleanup ==
  \/ Unregister \/ JoinListener \/ SetClosing \/ (\E w \in Workers : SignalWorker(w))
  \/ JoinWorkers \/ FreeConnection

-----------------------------------------------------------------------------
Init ==
  /\ arriving = Frames
  /\ lp = "idle" /\ frame = None
  /\ registered = TRUE /\ breaking = FALSE
  /\ first = [w \in Workers |-> None]
  /\ last = [w \in Workers |-> None]
  /\ next = [w \in Workers |-> [f \in Frames |-> None]]
  /\ awake = [w \in Workers |-> TRUE]
  /\ wp = [w \in Workers |-> "loop"]
  /\ node = [w \in Workers |-> None]
  /\ idle_stage = [w \in Workers |-> 0]
  /\ closing = FALSE /\ cp = "open" /\ destroyed = FALSE /\ freed = FALSE
  /\ content = [w \in Workers |-> <<>>]
  /\ accepted = <<>> /\ handled = <<>> /\ misused = FALSE

Next ==
  \/ \E f \in Frames : Lookup(f)
  \/ Listener
  \/ \E w \in Workers : Worker(w) \/ SpuriousWakeup(w)
  \/ DestroyResources
  \/ Cleanup

Spec == Init /\ [][Next]_vars

\* Threads run. Frames need not come, and cleanup need not be called.
FairSpec ==
  /\ Spec
  /\ WF_vars(Listener) /\ WF_vars(Cleanup)
  /\ \A w \in Workers : WF_vars(Worker(w))

-----------------------------------------------------------------------------
(* Properties.                                                             *)

\* Every variable holds values of its C type; a worker's idle_stage stays
\* within its limit.
TypeOK ==
  /\ arriving \subseteq Frames
  /\ lp \in {"idle", "insert", "load", "signal", "stopped"}
  /\ frame \in Frames \cup {None}
  /\ registered \in BOOLEAN /\ breaking \in BOOLEAN
  /\ first \in [Workers -> Frames \cup {None}]
  /\ last \in [Workers -> Frames \cup {None}]
  /\ next \in [Workers -> [Frames -> Frames \cup {None}]]
  /\ awake \in [Workers -> BOOLEAN]
  /\ wp \in [Workers -> {"loop", "take", "handle", "load", "signal", "clear", "sleep", "waiting", "woken", "exited"}]
  /\ node \in [Workers -> Frames \cup {None}]
  /\ idle_stage \in [Workers -> 0..IdleLimit]
  /\ cp \in {"open", "unregister", "joinlistener", "close", "joinprocess", "joincallback", "free", "closed"} \cup Workers
  /\ closing \in BOOLEAN /\ destroyed \in BOOLEAN /\ freed \in BOOLEAN /\ misused \in BOOLEAN
  /\ content \in [Workers -> Seq(Frames)]
  /\ accepted \in Seq(Frames) /\ handled \in Seq(Frames)

\* The two pointers of a queue and the links of its nodes describe one list,
\* whatever inserts and removals have met on it (an append after the last node
\* was taken starts a new list).
QueueLinked ==
  \A w \in Workers :
    LET s == content[w] n == Len(s) IN
    /\ first[w] = IF n = 0 THEN None ELSE s[1]
    /\ last[w] = IF n = 0 THEN None ELSE s[n]
    /\ \A i \in 1..n : next[w][s[i]] = IF i = n THEN None ELSE s[i + 1]

Completed(s) == LET completes(f) == f \in Completing IN SelectSeq(s, completes)

InHand(w) == IF node[w] = None THEN <<>> ELSE <<node[w]>>

\* Every message whose last chunk was accepted is with exactly one of: the
\* handler's past calls, the executor, the callback queue, the processor, the
\* packet queue; in the order of acceptance. No thread, sleep, wakeup or
\* cleanup step loses, repeats or overtakes one, as long as none has used
\* destroyed memory.
PipelineKeepsOrder ==
  misused \/ Completed(accepted) =
    handled \o InHand("callback") \o content["callback"]
            \o Completed(InHand("process")) \o Completed(content["process"])

\* The connection's memory is returned to its pool only after both workers
\* have ended, and after the listener has ended when cleanup ended it.
FreedAfterThreads ==
  freed => (\A w \in Workers : wp[w] = "exited") /\ (breaking => lp = "stopped")

\* The thread that puts nodes on w's queue is about to notify w.
Notifying(w) == IF w = "process" THEN lp \in {"load", "signal"} ELSE wp["process"] \in {"load", "signal"}

Queued(w, f) == \E i \in DOMAIN content[w] : content[w][i] = f

\* A worker that sleeps in its wait when the listener or the processor is
\* about to notify it takes every node of its queue, unless cleanup stops it
\* first: the flag, the mutex and the signal lose no wakeup once the wait has
\* begun.
SleeperTakesNodes ==
  \A w \in Workers, f \in Frames :
    (Notifying(w) /\ wp[w] = "waiting" /\ Queued(w, f)) ~> (~Queued(w, f) \/ closing)

\* Cleanup returns when closing is set while no worker is between its check
\* of closing and its wait (and no worker has used the destroyed resources,
\* after which nothing is claimed).
CleanupReturns ==
  (cp = "process" /\ \A w \in Workers : wp[w] \notin {"take", "clear", "sleep"}) ~> (cp = "closed" \/ misused)

\* What docs/usage.md says: the handler is invoked once a message is
\* reassembled. (Refuted: a frame queued between a worker's last look at its
\* queue and its wait stays there until the next frame.)
ReassembledIsHandled ==
  \A f \in Completing :
    (\E i \in DOMAIN accepted : accepted[i] = f)
      ~> (\E i \in DOMAIN handled : handled[i] = f) \/ cp # "open"

=============================================================================
