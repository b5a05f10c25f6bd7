-------------------------- MODULE ConnectionProofs --------------------------
(***************************************************************************)
(* Proofs about Connection, for any frames, any limits and any schedule:   *)
(* cleanup frees the connection after its threads, and the two queues are  *)
(* well-formed lists.                                                      *)
(***************************************************************************)
EXTENDS Connection, SequenceTheorems, TLAPS

-----------------------------------------------------------------------------
(* Freed after the threads.                                                *)

\* What cleanup has waited for, at each of its steps. A worker that has exited
\* is signalled by nobody back into its loop.
Joined ==
  /\ DOMAIN wp = Workers
  /\ cp \in {"joincallback", "free", "closed"} => wp["process"] = "exited"
  /\ cp \in {"free", "closed"} => wp["callback"] = "exited"
  /\ freed => cp = "closed"
  /\ cp \in {"open", "unregister"} => ~breaking
  /\ breaking /\ cp # "joinlistener" => lp = "stopped"

LEMMA SignalledJoined ==
  ASSUME NEW pcs, DOMAIN pcs = Workers, NEW w \in Workers
  PROVE  /\ DOMAIN Signalled(pcs, w) = Workers
         /\ \A v \in Workers : pcs[v] = "exited" => Signalled(pcs, w)[v] = "exited"
BY DEF Signalled

LEMMA NextJoined == Joined /\ [Next]_vars => Joined'
<1> SUFFICES ASSUME Joined, [Next]_vars PROVE Joined'
  OBVIOUS
<1> USE DEF Joined
<1>1. ASSUME NEW f \in Frames, Lookup(f) PROVE Joined'
  BY <1>1 DEF Lookup, workerVars, closeVars
<1>2. CASE Listener
  <2>1. CASE InsertFrame
    BY <2>1 DEF InsertFrame, workerVars, closeVars
  <2>2. CASE LoadProcessing
    BY <2>2 DEF LoadProcessing, workerVars, closeVars
  <2>3. CASE SignalProcessing
    BY <2>3, SignalledJoined DEF SignalProcessing, closeVars, Workers
  <2>4. CASE StopListening
    BY <2>4 DEF StopListening, workerVars, closeVars
  <2> QED BY <1>2, <2>1, <2>2, <2>3, <2>4 DEF Listener
<1>3. ASSUME NEW w \in Workers, Worker(w) \/ SpuriousWakeup(w) PROVE Joined'
  <2>1. UNCHANGED <<listenerVars, closeVars>>
    BY <1>3 DEF Worker, SpuriousWakeup, CheckClosing, TakeNode, TakeNothing, ClearAwake, CondWait, SetAwake,
                ProcessNode, LoadExecuting, SignalExecuting, HandleMessage
  <2>2. CASE SignalExecuting
    <3> DEFINE pcs == [wp EXCEPT !["process"] = "loop"]
    <3>1. wp["process"] = "signal" /\ wp' = Signalled(pcs, "callback")
      BY <2>2 DEF SignalExecuting
    <3>2. DOMAIN pcs = Workers /\ pcs["callback"] = wp["callback"]
      BY DEF Workers
    <3> HIDE DEF pcs
    <3>3. DOMAIN wp' = Workers /\ (wp["callback"] = "exited" => wp'["callback"] = "exited")
      BY <3>1, <3>2, SignalledJoined DEF Workers
    <3> QED BY <2>1, <3>1, <3>3 DEF listenerVars, closeVars
  <2>3. CASE ~SignalExecuting
    <3>1. /\ DOMAIN wp' = Workers
          /\ \A v \in Workers : wp[v] = "exited" => wp'[v] = "exited"
      BY <1>3, <2>3 DEF Worker, SpuriousWakeup, CheckClosing, TakeNode, TakeNothing, ClearAwake, CondWait, SetAwake,
                  ProcessNode, LoadExecuting, HandleMessage
    <3> QED BY <2>1, <3>1 DEF listenerVars, closeVars, Workers
  <2> QED BY <2>2, <2>3
<1>4. CASE DestroyResources
  BY <1>4 DEF DestroyResources, listenerVars, workerVars
<1>5. CASE Cleanup
  <2>1. CASE Unregister
    BY <2>1 DEF Unregister, workerVars
  <2>2. CASE JoinListener \/ SetClosing \/ JoinWorkers \/ FreeConnection
    BY <2>2 DEF JoinListener, SetClosing, JoinWorkers, FreeConnection, listenerVars, workerVars
  <2>3. ASSUME NEW w \in Workers, SignalWorker(w) PROVE Joined'
    BY <2>3, SignalledJoined DEF SignalWorker, listenerVars, Workers
  <2> QED BY <1>5, <2>1, <2>2, <2>3 DEF Cleanup
<1>6. CASE UNCHANGED vars
  BY <1>6 DEF vars, listenerVars, workerVars, closeVars
<1> QED BY <1>1, <1>2, <1>3, <1>4, <1>5, <1>6 DEF Next

\* A connection is freed only when both workers have exited, and the listener
\* too if cleanup told it to stop: swiftnet_*_cleanup joins before it frees,
\* and no thread comes back.
THEOREM FreesAfterThreads == Spec => []FreedAfterThreads
<1>1. Init => Joined
  BY DEF Init, Joined
<1>2. Joined => FreedAfterThreads
  BY DEF Joined, FreedAfterThreads, Workers
<1> QED BY <1>1, <1>2, NextJoined, PTL DEF Spec

-----------------------------------------------------------------------------
(* One linked list.                                                        *)

Listed(s) == {s[i] : i \in 1..Len(s)}

Distinct(s) == \A i, j \in 1..Len(s) : i # j => s[i] # s[j]

\* The pointers fst and lst and the links nxt hold the list s.
Linked(fst, lst, nxt, s) ==
  /\ fst = IF Len(s) = 0 THEN None ELSE s[1]
  /\ lst = IF Len(s) = 0 THEN None ELSE s[Len(s)]
  /\ \A i \in 1..Len(s) : nxt[s[i]] = IF i = Len(s) THEN None ELSE s[i + 1]

LEMMA ListedElements == ASSUME NEW s \in Seq(Frames) PROVE Listed(s) \subseteq Frames
BY ElementOfSeq DEF Listed

LEMMA AppendListed ==
  ASSUME NEW s \in Seq(Frames), NEW f \in Frames, f \notin Listed(s), Distinct(s)
  PROVE  Listed(Append(s, f)) = Listed(s) \cup {f} /\ Distinct(Append(s, f))
<1> DEFINE t == Append(s, f)
<1>1. Len(t) = Len(s) + 1 /\ t[Len(s) + 1] = f /\ \A i \in 1..Len(s) : t[i] = s[i]
  BY AppendProperties
<1>2. Len(s) \in Nat
  BY LenProperties
<1> HIDE DEF t
<1>3. Listed(t) = Listed(s) \cup {f}
  BY <1>1, <1>2 DEF Listed
<1>4. Distinct(t)
  BY <1>1, <1>2 DEF Distinct, Listed
<1> QED BY <1>3, <1>4 DEF t

LEMMA TailListed ==
  ASSUME NEW s \in Seq(Frames), s # <<>>, Distinct(s)
  PROVE  /\ Tail(s) \in Seq(Frames) /\ Distinct(Tail(s))
         /\ s[1] \in Listed(s) /\ Listed(Tail(s)) \subseteq Listed(s) \ {s[1]}
<1> DEFINE t == Tail(s)
<1>1. t \in Seq(Frames) /\ Len(t) = Len(s) - 1 /\ \A i \in 1..Len(t) : t[i] = s[i + 1]
  BY HeadTailProperties
<1>2. Len(s) \in Nat \ {0}
  BY LenProperties, EmptySeq
<1> HIDE DEF t
<1>3. Distinct(t)
  BY <1>1, <1>2 DEF Distinct
<1>4. s[1] \in Listed(s)
  BY <1>2 DEF Listed
<1>5. Listed(t) \subseteq Listed(s) \ {s[1]}
  <2> SUFFICES ASSUME NEW i \in 1..Len(t) PROVE t[i] \in Listed(s) /\ t[i] # s[1]
    BY DEF Listed
  <2>1. i + 1 \in 1..Len(s) /\ i + 1 # 1 /\ 1 \in 1..Len(s) /\ t[i] = s[i + 1]
    BY <1>1, <1>2
  <2> QED BY <2>1 DEF Listed, Distinct
<1> QED BY <1>1, <1>3, <1>4, <1>5 DEF t

\* insert_queue_node: a node that is not in the list becomes its last.
LEMMA InsertLinked ==
  ASSUME NEW s \in Seq(Frames), NEW f \in Frames, f \notin Listed(s), Distinct(s),
         NEW nxt \in [Frames -> Frames \cup {None}], NEW fst, NEW lst, Linked(fst, lst, nxt, s)
  PROVE  LET fresh == [nxt EXCEPT ![f] = None] IN
         Linked(IF fst = None THEN f ELSE fst, f,
                IF lst = None THEN fresh ELSE [fresh EXCEPT ![lst] = f], Append(s, f))
<1> DEFINE t == Append(s, f)
           fresh == [nxt EXCEPT ![f] = None]
           new == IF lst = None THEN fresh ELSE [fresh EXCEPT ![lst] = f]
<1>1. Len(t) = Len(s) + 1 /\ t[Len(s) + 1] = f /\ \A i \in 1..Len(s) : t[i] = s[i]
  BY AppendProperties
<1>2. Len(s) \in Nat /\ \A i \in 1..Len(s) : s[i] \in Frames /\ s[i] # f
  BY LenProperties, ElementOfSeq DEF Listed
<1>3. CASE Len(s) = 0
  <2>1. fst = None /\ lst = None /\ new[f] = None
    BY <1>3 DEF Linked
  <2> HIDE DEF t, new
  <2>2. Linked(f, f, new, t)
    BY <1>1, <1>3, <2>1 DEF Linked
  <2> QED BY <2>1, <2>2 DEF t, new
<1>4. CASE Len(s) # 0
  <2>1. fst = s[1] /\ lst = s[Len(s)] /\ fst \in Frames /\ lst \in Frames /\ lst # f
    BY <1>2, <1>4 DEF Linked
  <2>2. fst # None /\ lst # None
    BY <2>1, ConnectionAssumption
  <2>3. new[f] = None /\ new[lst] = f /\ \A g \in Frames : g # f /\ g # lst => new[g] = nxt[g]
    BY <2>1, <2>2
  <2> HIDE DEF t, new
  <2>4. ASSUME NEW i \in 1..Len(t) PROVE new[t[i]] = IF i = Len(t) THEN None ELSE t[i + 1]
    <3>1. CASE i = Len(t)
      BY <1>1, <2>3, <3>1
    <3>2. CASE i = Len(s)
      BY <1>1, <1>2, <2>1, <2>3, <3>2
    <3>3. CASE i # Len(t) /\ i # Len(s)
      <4>1. i \in 1..Len(s) /\ i + 1 \in 1..Len(s) /\ Len(s) \in 1..Len(s) /\ t[i] = s[i] /\ t[i + 1] = s[i + 1]
        BY <1>1, <1>2, <1>4, <3>3
      <4>2. s[i] # lst
        BY <2>1, <3>3, <4>1 DEF Distinct
      <4>3. new[s[i]] = nxt[s[i]]
        BY <1>2, <2>3, <4>1, <4>2
      <4>4. nxt[s[i]] = s[i + 1]
        BY <3>3, <4>1 DEF Linked
      <4> QED BY <3>3, <4>1, <4>3, <4>4
    <3> QED BY <3>1, <3>2, <3>3
  <2>5. Linked(fst, f, new, t)
    BY <1>1, <1>2, <1>4, <2>1, <2>4 DEF Linked
  <2> QED BY <2>2, <2>5 DEF t, new
<1> QED BY <1>3, <1>4

\* wait_for_next_packet: the first node is taken.
LEMMA RemoveLinked ==
  ASSUME NEW s \in Seq(Frames), s # <<>>, NEW nxt, NEW fst, NEW lst, Linked(fst, lst, nxt, s)
  PROVE  Linked(nxt[fst], IF nxt[fst] = None THEN None ELSE lst, nxt, Tail(s)) /\ fst = s[1]
<1> DEFINE t == Tail(s)
<1>1. Len(t) = Len(s) - 1 /\ \A i \in 1..Len(t) : t[i] = s[i + 1]
  BY HeadTailProperties
<1>2. Len(s) \in Nat \ {0} /\ \A i \in 1..Len(s) : s[i] \in Frames
  BY LenProperties, EmptySeq, ElementOfSeq
<1>3. fst = s[1] /\ nxt[s[1]] = IF Len(s) = 1 THEN None ELSE s[2]
  <2>1. Len(s) # 0 /\ 1 \in 1..Len(s) /\ 1 + 1 = 2
    BY <1>2
  <2>2. nxt[s[1]] = IF 1 = Len(s) THEN None ELSE s[1 + 1]
    BY <2>1 DEF Linked
  <2> QED BY <2>1, <2>2 DEF Linked
<1> HIDE DEF t
<1>4. CASE Len(s) = 1
  <2>1. nxt[fst] = None /\ Len(t) = 0
    BY <1>1, <1>3, <1>4
  <2>2. Linked(None, None, nxt, t)
    BY <2>1 DEF Linked
  <2> QED BY <1>3, <2>1, <2>2 DEF t
<1>5. CASE Len(s) # 1
  <2>1. nxt[fst] = t[1] /\ t[1] \in Frames /\ t[Len(t)] = s[Len(s)] /\ Len(t) # 0
    BY <1>1, <1>2, <1>3, <1>5
  <2>2. nxt[fst] # None
    BY <2>1, ConnectionAssumption
  <2>3. \A i \in 1..Len(t) : nxt[t[i]] = IF i = Len(t) THEN None ELSE t[i + 1]
    <3> SUFFICES ASSUME NEW i \in 1..Len(t) PROVE nxt[t[i]] = IF i = Len(t) THEN None ELSE t[i + 1]
      OBVIOUS
    <3>1. i + 1 \in 1..Len(s) /\ t[i] = s[i + 1] /\ (i = Len(t) <=> i + 1 = Len(s))
      BY <1>1, <1>2
    <3>2. i # Len(t) => t[i + 1] = s[i + 1 + 1]
      BY <1>1, <1>2
    <3> QED BY <3>1, <3>2 DEF Linked
  <2>4. lst = t[Len(t)]
    BY <1>2, <2>1 DEF Linked
  <2>5. Linked(nxt[fst], lst, nxt, t)
    BY <2>1, <2>3, <2>4 DEF Linked
  <2> QED BY <1>3, <2>2, <2>5 DEF t
<1> QED BY <1>4, <1>5

-----------------------------------------------------------------------------
(* The two queues.                                                         *)

\* Where the frames are: on the wire, with the listener, in a queue, with the
\* processor. A frame is in one place only, so no node is put in a list twice.
Places ==
  LET P == Listed(content["process"]) C == Listed(content["callback"]) p == node["process"] IN
  /\ \A f \in arriving : f # frame /\ f # p /\ f \notin P /\ f \notin C
  /\ frame # None => frame # p /\ frame \notin P /\ frame \notin C
  /\ p # None => p \notin P /\ p \notin C
  /\ P \cap C = {}

Labels == {"loop", "take", "handle", "load", "signal", "clear", "sleep", "waiting", "woken", "exited"}

QueueTypes ==
  /\ arriving \subseteq Frames
  /\ frame \in Frames \cup {None} /\ (lp = "insert" => frame # None)
  /\ node \in [Workers -> Frames \cup {None}] /\ (wp["process"] = "handle" => node["process"] # None)
  /\ wp \in [Workers -> Labels]
  /\ first \in [Workers -> Frames \cup {None}] /\ last \in [Workers -> Frames \cup {None}]
  /\ next \in [Workers -> [Frames -> Frames \cup {None}]]
  /\ content \in [Workers -> Seq(Frames)]

\* The inductive invariant.
Queues ==
  /\ QueueTypes /\ Places
  /\ \A w \in Workers : Distinct(content[w]) /\ Linked(first[w], last[w], next[w], content[w])

LEMMA InitQueues == Init => Queues
<1> SUFFICES ASSUME Init PROVE Queues
  OBVIOUS
<1>1. \A w \in Workers : content[w] = <<>> /\ Len(content[w]) = 0 /\ first[w] = None /\ last[w] = None
  BY DEF Init
<1>2. QueueTypes
  BY DEF Init, QueueTypes, Workers, Labels
<1>3. \A w \in Workers : Distinct(content[w]) /\ Listed(content[w]) = {} /\ Linked(first[w], last[w], next[w], content[w])
  BY <1>1 DEF Distinct, Listed, Linked
<1>4. Places
  <2>1. frame = None /\ node["process"] = None
    BY DEF Init, Workers
  <2>2. Listed(content["process"]) = {} /\ Listed(content["callback"]) = {}
    BY <1>3 DEF Workers
  <2>3. \A f \in arriving : f # None
    BY ConnectionAssumption DEF Init
  <2> QED BY <2>1, <2>2, <2>3 DEF Places
<1> QED BY <1>2, <1>3, <1>4 DEF Queues

\* What an insertion of a frame that is in neither list does.
LEMMA InsertQueues ==
  ASSUME Queues, NEW w \in Workers, NEW f \in Frames, f \notin Listed(content[w]), Insert(w, f)
  PROVE  /\ first' \in [Workers -> Frames \cup {None}] /\ last' \in [Workers -> Frames \cup {None}]
         /\ next' \in [Workers -> [Frames -> Frames \cup {None}]]
         /\ content' = [content EXCEPT ![w] = Append(content[w], f)]
         /\ content' \in [Workers -> Seq(Frames)]
         /\ Listed(content[w])' = Listed(content[w]) \cup {f}
         /\ \A v \in Workers : Distinct(content'[v]) /\ Linked(first'[v], last'[v], next'[v], content'[v])
<1> DEFINE s == content[w]
           fresh == [next[w] EXCEPT ![f] = None]
           links == IF last[w] = None THEN fresh ELSE [fresh EXCEPT ![last[w]] = f]
           head == IF first[w] = None THEN f ELSE first[w]
<1>1. /\ s \in Seq(Frames) /\ Distinct(s) /\ Linked(first[w], last[w], next[w], s)
      /\ next[w] \in [Frames -> Frames \cup {None}] /\ first[w] \in Frames \cup {None} /\ last[w] \in Frames \cup {None}
  BY DEF Queues, QueueTypes
<1>2. /\ first' = [first EXCEPT ![w] = head] /\ last' = [last EXCEPT ![w] = f]
      /\ next' = [next EXCEPT ![w] = links] /\ content' = [content EXCEPT ![w] = Append(s, f)]
  BY DEF Insert, Queues, QueueTypes
<1>3. links \in [Frames -> Frames \cup {None}] /\ head \in Frames \cup {None} /\ Append(s, f) \in Seq(Frames)
  BY <1>1, AppendProperties
<1>4. Linked(head, f, links, Append(s, f))
  BY <1>1, InsertLinked
<1>5. Distinct(Append(s, f)) /\ Listed(Append(s, f)) = Listed(s) \cup {f}
  BY <1>1, AppendListed
<1> HIDE DEF head, links, fresh
<1>6. /\ first' \in [Workers -> Frames \cup {None}] /\ last' \in [Workers -> Frames \cup {None}]
      /\ next' \in [Workers -> [Frames -> Frames \cup {None}]] /\ content' \in [Workers -> Seq(Frames)]
  BY <1>2, <1>3 DEF Queues, QueueTypes
<1>7. /\ first'[w] = head /\ last'[w] = f /\ next'[w] = links /\ content'[w] = Append(s, f)
      /\ \A v \in Workers \ {w} : first'[v] = first[v] /\ last'[v] = last[v] /\ next'[v] = next[v] /\ content'[v] = content[v]
  BY <1>2 DEF Queues, QueueTypes
<1>8. \A v \in Workers : Distinct(content'[v]) /\ Linked(first'[v], last'[v], next'[v], content'[v])
  BY <1>4, <1>5, <1>7 DEF Queues
<1>9. Listed(content[w])' = Listed(s) \cup {f}
  BY <1>5, <1>7 DEF Listed
<1> QED BY <1>2, <1>6, <1>8, <1>9

\* What taking the first node of a list does.
LEMMA RemoveQueues ==
  ASSUME Queues, NEW w \in Workers, first[w] # None, Remove(w)
  PROVE  /\ first' \in [Workers -> Frames \cup {None}] /\ last' \in [Workers -> Frames \cup {None}]
         /\ content' = [content EXCEPT ![w] = Tail(content[w])]
         /\ content' \in [Workers -> Seq(Frames)]
         /\ first[w] \in Frames /\ first[w] \in Listed(content[w])
         /\ Listed(content[w])' \subseteq Listed(content[w]) \ {first[w]}
         /\ \A v \in Workers : Distinct(content'[v]) /\ Linked(first'[v], last'[v], next'[v], content'[v])
<1> DEFINE s == content[w]
           f == first[w]
           end == IF next[w][f] = None THEN None ELSE last[w]
<1>1. s \in Seq(Frames) /\ Distinct(s) /\ Linked(f, last[w], next[w], s) /\ f \in Frames /\ last[w] \in Frames \cup {None}
  BY DEF Queues, QueueTypes
<1>2. s # <<>> /\ Len(s) # 0
  BY <1>1, EmptySeq DEF Linked
<1>3. /\ first' = [first EXCEPT ![w] = next[w][f]] /\ last' = [last EXCEPT ![w] = end]
      /\ next' = next /\ content' = [content EXCEPT ![w] = Tail(s)]
  BY DEF Remove, Queues, QueueTypes
<1>4. next[w][f] \in Frames \cup {None} /\ end \in Frames \cup {None} /\ Tail(s) \in Seq(Frames)
  BY <1>1, <1>2, HeadTailProperties DEF Queues, QueueTypes
<1>5. Linked(next[w][f], end, next[w], Tail(s)) /\ f = s[1]
  BY <1>1, <1>2, RemoveLinked
<1>6. Distinct(Tail(s)) /\ Listed(Tail(s)) \subseteq Listed(s) \ {f} /\ f \in Listed(s)
  BY <1>1, <1>2, <1>5, TailListed
<1> HIDE DEF end
<1>7. first' \in [Workers -> Frames \cup {None}] /\ last' \in [Workers -> Frames \cup {None}] /\ content' \in [Workers -> Seq(Frames)]
  BY <1>3, <1>4 DEF Queues, QueueTypes
<1>8. /\ first'[w] = next[w][f] /\ last'[w] = end /\ next' = next /\ content'[w] = Tail(s)
      /\ \A v \in Workers \ {w} : first'[v] = first[v] /\ last'[v] = last[v] /\ content'[v] = content[v]
  BY <1>3 DEF Queues, QueueTypes
<1>9. \A v \in Workers : Distinct(content'[v]) /\ Linked(first'[v], last'[v], next'[v], content'[v])
  BY <1>5, <1>6, <1>8 DEF Queues
<1>10. Listed(content[w])' \subseteq Listed(s) \ {f}
  <2>1. content'[w] = Tail(s)
    BY <1>8
  <2> QED BY <1>6, <2>1
<1> QED BY <1>1, <1>3, <1>6, <1>7, <1>9, <1>10

LEMMA SignalledPc ==
  ASSUME NEW pcs, NEW L, pcs \in [Workers -> L], "woken" \in L, NEW w \in Workers
  PROVE  /\ Signalled(pcs, w) \in [Workers -> L]
         /\ \A v \in Workers : Signalled(pcs, w)[v] = "handle" => pcs[v] = "handle"
BY DEF Signalled

LEMMA NextQueues == Queues /\ [Next]_vars => Queues'
<1> SUFFICES ASSUME Queues, [Next]_vars PROVE Queues'
  OBVIOUS
<1>types. QueueTypes /\ Places
  BY DEF Queues
<1>woken. "woken" \in Labels /\ wp \in [Workers -> Labels] /\ "process" \in Workers
  BY <1>types DEF Labels, QueueTypes, Workers
\* The steps that leave the lists and the frames where they are.
<1>still. ASSUME UNCHANGED <<arriving, frame, queueVars, node>>, lp' = "insert" => lp = "insert",
                 wp' \in [Workers -> Labels],
                 wp'["process"] = "handle" => wp["process"] = "handle"
          PROVE  Queues'
  <2>1. QueueTypes'
    BY <1>still, <1>types DEF QueueTypes, queueVars
  <2>2. content' = content /\ arriving' = arriving /\ frame' = frame /\ node' = node
    BY <1>still DEF queueVars
  <2>3. Places'
    BY <2>2, <1>types DEF Places
  <2> QED BY <1>still, <2>1, <2>3 DEF Queues, queueVars, Distinct, Linked
<1>1. ASSUME NEW f \in Frames, Lookup(f) PROVE Queues'
  <2>1. QueueTypes' /\ UNCHANGED queueVars
    BY <1>1, <1>types, ConnectionAssumption DEF Lookup, QueueTypes, queueVars, workerVars
  <2>2. Places'
    BY <1>1, <1>types DEF Lookup, Places, queueVars, workerVars, Listed
  <2> QED BY <2>1, <2>2 DEF Queues, queueVars, Distinct, Linked
<1>2. CASE InsertFrame
  <2>1. frame \in Frames /\ frame # node["process"] /\ frame \notin Listed(content["process"]) /\ frame \notin Listed(content["callback"])
    BY <1>2, <1>types DEF InsertFrame, QueueTypes, Places
  <2>2. /\ first' \in [Workers -> Frames \cup {None}] /\ last' \in [Workers -> Frames \cup {None}]
        /\ next' \in [Workers -> [Frames -> Frames \cup {None}]] /\ content' \in [Workers -> Seq(Frames)]
        /\ content' = [content EXCEPT !["process"] = Append(content["process"], frame)]
        /\ Listed(content'["process"]) = Listed(content["process"]) \cup {frame}
        /\ \A v \in Workers : Distinct(content'[v]) /\ Linked(first'[v], last'[v], next'[v], content'[v])
    BY <1>2, <2>1, InsertQueues DEF InsertFrame, Workers
  <2>3. Listed(content'["callback"]) = Listed(content["callback"])
    BY <2>2, <1>types DEF QueueTypes, Workers, Labels
  <2>4. QueueTypes'
    BY <1>2, <1>types, <2>2 DEF InsertFrame, QueueTypes, workerVars
  <2>5. arriving' = arriving /\ frame' = None /\ node' = node
    BY <1>2 DEF InsertFrame, workerVars
  <2>6. \A f \in arriving : f # None
    BY <1>types, ConnectionAssumption DEF QueueTypes
  <2>7. Places'
    BY <1>types, <2>1, <2>2, <2>3, <2>5, <2>6 DEF Places
  <2> QED BY <2>2, <2>4, <2>7 DEF Queues
<1>3. CASE LoadProcessing \/ StopListening
  BY <1>3, <1>still, <1>types DEF LoadProcessing, StopListening, workerVars, QueueTypes
<1>4. CASE SignalProcessing
  <2>1. wp' = Signalled(wp, "process") /\ UNCHANGED <<arriving, frame, queueVars, node>> /\ lp' = "idle"
    BY <1>4 DEF SignalProcessing
  <2>2. wp' \in [Workers -> Labels] /\ (wp'["process"] = "handle" => wp["process"] = "handle")
    BY <1>types, <1>woken, <2>1, SignalledPc
  <2> QED BY <1>still, <2>1, <2>2
<1>5. ASSUME NEW w \in Workers, TakeNode(w) PROVE Queues'
  <2>1. /\ first' \in [Workers -> Frames \cup {None}] /\ last' \in [Workers -> Frames \cup {None}]
        /\ content' = [content EXCEPT ![w] = Tail(content[w])] /\ content' \in [Workers -> Seq(Frames)]
        /\ first[w] \in Frames /\ first[w] \in Listed(content[w])
        /\ Listed(content'[w]) \subseteq Listed(content[w]) \ {first[w]}
        /\ \A v \in Workers : Distinct(content'[v]) /\ Linked(first'[v], last'[v], next'[v], content'[v])
    BY <1>5, RemoveQueues DEF TakeNode
  <2>2. /\ next' = next /\ arriving' = arriving /\ frame' = frame /\ lp' = lp
        /\ node' = [node EXCEPT ![w] = first[w]] /\ wp' = [wp EXCEPT ![w] = "handle"]
    BY <1>5 DEF TakeNode, Remove, listenerVars
  <2>3. first[w] # None
    BY <1>5 DEF TakeNode
  <2>4. QueueTypes'
    BY <1>types, <2>1, <2>2, <2>3 DEF QueueTypes, Workers, Labels
  <2>5. \A v \in Workers \ {w} : Listed(content'[v]) = Listed(content[v]) /\ node'[v] = node[v]
    BY <2>1, <2>2, <1>types DEF QueueTypes
  <2>6. node'[w] = first[w]
    BY <2>2, <1>types DEF QueueTypes
  <2>7. CASE w = "process"
    <3>1. Places'
      BY <1>types, <2>1, <2>2, <2>5, <2>6, <2>7 DEF Places, Workers
    <3> QED BY <2>1, <2>4, <3>1 DEF Queues
  <2>8. CASE w = "callback"
    <3>1. Places'
      BY <1>types, <2>1, <2>2, <2>5, <2>8 DEF Places, Workers
    <3> QED BY <2>1, <2>4, <3>1 DEF Queues
  <2> QED BY <2>7, <2>8 DEF Workers
<1>6. CASE ProcessNode
  <2>1. /\ arriving' = arriving /\ frame' = frame /\ lp' = lp /\ node' = [node EXCEPT !["process"] = None]
        /\ wp' \in [Workers -> Labels]
        /\ wp'["process"] # "handle"
    BY <1>6, <1>types DEF ProcessNode, listenerVars, QueueTypes, Workers, Labels
  <2>2. node'["process"] = None /\ node' \in [Workers -> Frames \cup {None}]
    BY <2>1, <1>types DEF QueueTypes, Workers, Labels
  <2>3. \A f \in arriving : f # None
    BY <1>types, ConnectionAssumption DEF QueueTypes
  <2>4. CASE node["process"] \in Completing
    <3> DEFINE f == node["process"]
    <3>1. /\ f \in Frames /\ f # frame /\ f \notin arriving
          /\ f \notin Listed(content["process"]) /\ f \notin Listed(content["callback"])
      BY <1>6, <1>types, <2>4, ConnectionAssumption DEF ProcessNode, QueueTypes, Places, Workers
    <3>2. Insert("callback", f)
      BY <1>6, <2>4 DEF ProcessNode
    <3> HIDE DEF f
    <3>3. /\ first' \in [Workers -> Frames \cup {None}] /\ last' \in [Workers -> Frames \cup {None}]
          /\ next' \in [Workers -> [Frames -> Frames \cup {None}]] /\ content' \in [Workers -> Seq(Frames)]
          /\ content' = [content EXCEPT !["callback"] = Append(content["callback"], f)]
          /\ Listed(content'["callback"]) = Listed(content["callback"]) \cup {f}
          /\ \A v \in Workers : Distinct(content'[v]) /\ Linked(first'[v], last'[v], next'[v], content'[v])
      BY <3>1, <3>2, InsertQueues DEF Workers
    <3>4. Listed(content'["process"]) = Listed(content["process"])
      BY <3>3, <1>types DEF QueueTypes, Workers, Labels
    <3>5. QueueTypes'
      BY <1>types, <2>1, <2>2, <3>3 DEF QueueTypes
    <3>6. Places'
      BY <1>types, <2>1, <2>2, <2>3, <3>1, <3>3, <3>4 DEF Places
    <3> QED BY <3>3, <3>5, <3>6 DEF Queues
  <2>5. CASE node["process"] \notin Completing
    <3>1. UNCHANGED queueVars
      BY <1>6, <2>5 DEF ProcessNode
    <3>2. QueueTypes'
      BY <1>types, <2>1, <2>2, <3>1 DEF QueueTypes, queueVars
    <3>3. Places'
      <4>1. content' = content /\ arriving' = arriving /\ frame' = frame
        BY <2>1, <3>1 DEF queueVars
      <4> QED BY <1>types, <2>2, <2>3, <4>1 DEF Places
    <3> QED BY <3>1, <3>2, <3>3 DEF Queues, queueVars, Distinct, Linked
  <2> QED BY <2>4, <2>5
<1>7. CASE HandleMessage
  <2>1. UNCHANGED <<queueVars, arriving, frame, lp>> /\ node' \in [Workers -> Frames \cup {None}] /\ node'["process"] = node["process"]
    BY <1>7, <1>types DEF HandleMessage, listenerVars, QueueTypes, Workers, Labels
  <2>2. /\ wp' \in [Workers -> Labels]
        /\ wp'["process"] = wp["process"]
    BY <1>7, <1>types DEF HandleMessage, QueueTypes, Workers, Labels
  <2>3. QueueTypes'
    BY <1>types, <2>1, <2>2 DEF QueueTypes, queueVars
  <2>4. Places'
    BY <1>types, <2>1 DEF Places, queueVars, Listed
  <2> QED BY <2>1, <2>3, <2>4 DEF Queues, queueVars, Distinct, Linked
<1>8. ASSUME NEW w \in Workers,
             CheckClosing(w) \/ TakeNothing(w) \/ ClearAwake(w) \/ CondWait(w) \/ SetAwake(w) \/ SpuriousWakeup(w)
      PROVE  Queues'
  <2>1. UNCHANGED <<listenerVars, queueVars, node>>
    BY <1>8 DEF CheckClosing, TakeNothing, ClearAwake, CondWait, SetAwake, SpuriousWakeup
  <2>2. \E l \in {"loop", "take", "clear", "sleep", "waiting", "woken", "exited"} : wp' = [wp EXCEPT ![w] = l]
    BY <1>8 DEF CheckClosing, TakeNothing, ClearAwake, CondWait, SetAwake, SpuriousWakeup
  <2> QED BY <1>still, <1>types, <2>1, <2>2 DEF listenerVars, QueueTypes, Labels
<1>9. CASE LoadExecuting
  BY <1>9, <1>still, <1>types DEF LoadExecuting, listenerVars, QueueTypes, Workers, Labels
<1>10. CASE SignalExecuting
  <2> DEFINE pcs == [wp EXCEPT !["process"] = "loop"]
  <2>1. /\ pcs \in [Workers -> Labels]
        /\ pcs["process"] = "loop"
    BY <1>types DEF QueueTypes, Workers, Labels
  <2>2. wp' = Signalled(pcs, "callback") /\ UNCHANGED <<listenerVars, queueVars, node>>
    BY <1>10 DEF SignalExecuting
  <2> HIDE DEF pcs
  <2> QED BY <1>still, <2>1, <2>2, SignalledPc DEF listenerVars, Workers, Labels
<1>11. CASE DestroyResources \/ Cleanup
  <2>1. CASE \E w \in Workers : SignalWorker(w)
    <3>1. PICK w \in Workers : SignalWorker(w)
      BY <2>1
    <3>2. wp' = Signalled(wp, w) /\ UNCHANGED <<arriving, frame, lp, queueVars, node>>
      BY <3>1 DEF SignalWorker, listenerVars
    <3>3. wp' \in [Workers -> Labels] /\ (wp'["process"] = "handle" => wp["process"] = "handle")
      BY <1>types, <1>woken, <3>2, SignalledPc
    <3> QED BY <1>still, <3>2, <3>3
  <2>2. CASE ~\E w \in Workers : SignalWorker(w)
    <3>1. UNCHANGED <<arriving, frame, lp, queueVars, workerVars>>
      BY <1>11, <2>2 DEF Cleanup, DestroyResources, Unregister, JoinListener, SetClosing, JoinWorkers, FreeConnection, listenerVars
    <3> QED BY <1>still, <1>types, <3>1 DEF workerVars, QueueTypes
  <2> QED BY <2>1, <2>2
<1>12. CASE UNCHANGED vars
  BY <1>12, <1>still, <1>types DEF vars, listenerVars, workerVars, QueueTypes
<1> QED BY <1>1, <1>2, <1>3, <1>4, <1>5, <1>6, <1>7, <1>8, <1>9, <1>10, <1>11, <1>12 DEF Next, Listener, Worker

\* The packet queue and the callback queue are well-formed lists that hold
\* the nodes inserted and not yet taken, in order, whatever the listener, the
\* workers and cleanup do.
THEOREM QueuesLinked == Spec => []QueueLinked
<1>1. Queues => QueueLinked
  BY DEF Queues, QueueLinked, Linked
<1> QED BY <1>1, InitQueues, NextQueues, PTL DEF Spec

-----------------------------------------------------------------------------
(* Types of the other variables.                                           *)

\* What TypeOK adds to QueueTypes, and that the executor has a message when it
\* calls the handler.
OtherTypes ==
  /\ lp \in {"idle", "insert", "load", "signal", "stopped"}
  /\ registered \in BOOLEAN /\ breaking \in BOOLEAN
  /\ awake \in [Workers -> BOOLEAN]
  /\ idle_stage \in [Workers -> 0..IdleLimit]
  /\ cp \in {"open", "unregister", "joinlistener", "close", "joinprocess", "joincallback", "free", "closed"} \cup Workers
  /\ closing \in BOOLEAN /\ destroyed \in BOOLEAN /\ freed \in BOOLEAN /\ misused \in BOOLEAN
  /\ accepted \in Seq(Frames) /\ handled \in Seq(Frames)
  /\ wp["callback"] = "handle" => node["callback"] # None

LEMMA NextOtherTypes == QueueTypes /\ OtherTypes /\ [Next]_vars => OtherTypes'
<1> SUFFICES ASSUME QueueTypes, OtherTypes, [Next]_vars PROVE OtherTypes'
  OBVIOUS
<1>workers. "process" \in Workers /\ "callback" \in Workers /\ wp \in [Workers -> Labels] /\ node \in [Workers -> Frames \cup {None}]
  BY DEF QueueTypes, Workers
<1>1. ASSUME NEW f \in Frames, Lookup(f) PROVE OtherTypes'
  BY <1>1 DEF Lookup, OtherTypes, workerVars, closeVars
<1>2. CASE InsertFrame
  <2>1. accepted' \in Seq(Frames)
    BY <1>2 DEF InsertFrame, OtherTypes, QueueTypes
  <2> QED BY <1>2, <2>1 DEF InsertFrame, OtherTypes, workerVars, closeVars
<1>3. CASE LoadProcessing \/ StopListening
  BY <1>3 DEF LoadProcessing, StopListening, OtherTypes, workerVars, closeVars
<1>4. CASE SignalProcessing
  <2>1. wp'["callback"] = "handle" => wp["callback"] = "handle"
    BY <1>4, <1>workers DEF SignalProcessing, Signalled
  <2> QED BY <1>4, <2>1 DEF SignalProcessing, OtherTypes, closeVars
<1>5. ASSUME NEW w \in Workers,
             CheckClosing(w) \/ ClearAwake(w) \/ CondWait(w) \/ SpuriousWakeup(w)
      PROVE  OtherTypes'
  <2>1. wp'["callback"] = "handle" => wp["callback"] = "handle"
    BY <1>5, <1>workers DEF CheckClosing, ClearAwake, CondWait, SpuriousWakeup
  <2>2. awake' \in [Workers -> BOOLEAN]
    BY <1>5 DEF CheckClosing, ClearAwake, CondWait, SpuriousWakeup, OtherTypes
  <2> QED BY <1>5, <2>1, <2>2 DEF CheckClosing, ClearAwake, CondWait, SpuriousWakeup, OtherTypes, listenerVars, closeVars
<1>6. ASSUME NEW w \in Workers, SetAwake(w) \/ TakeNothing(w) PROVE OtherTypes'
  <2>1. wp'["callback"] = "handle" => wp["callback"] = "handle"
    BY <1>6, <1>workers DEF SetAwake, TakeNothing
  <2>2. awake' \in [Workers -> BOOLEAN]
    BY <1>6 DEF SetAwake, TakeNothing, OtherTypes
  <2>3. idle_stage' \in [Workers -> 0..IdleLimit]
    BY <1>6, ConnectionAssumption DEF SetAwake, TakeNothing, OtherTypes
  <2> QED BY <1>6, <2>1, <2>2, <2>3 DEF SetAwake, TakeNothing, OtherTypes, listenerVars, closeVars
<1>7. ASSUME NEW w \in Workers, TakeNode(w) PROVE OtherTypes'
  <2>1. wp'["callback"] = "handle" => node'["callback"] # None
    BY <1>7, <1>workers DEF TakeNode, OtherTypes
  <2>2. idle_stage' \in [Workers -> 0..IdleLimit]
    BY <1>7, ConnectionAssumption DEF TakeNode, OtherTypes
  <2> QED BY <1>7, <2>1, <2>2 DEF TakeNode, OtherTypes, listenerVars, closeVars
<1>8. CASE ProcessNode \/ LoadExecuting
  <2>1. wp'["callback"] = wp["callback"] /\ node'["callback"] = node["callback"]
    BY <1>8, <1>workers DEF ProcessNode, LoadExecuting
  <2> QED BY <1>8, <2>1 DEF ProcessNode, LoadExecuting, OtherTypes, listenerVars, closeVars
<1>9. CASE SignalExecuting
  <2>1. wp'["callback"] = "handle" => wp["callback"] = "handle"
    BY <1>9, <1>workers DEF SignalExecuting, Signalled
  <2> QED BY <1>9, <2>1 DEF SignalExecuting, OtherTypes, listenerVars, closeVars
<1>10. CASE HandleMessage
  <2>1. handled' \in Seq(Frames) /\ wp'["callback"] = "loop"
    BY <1>10, <1>workers DEF HandleMessage, OtherTypes
  <2> QED BY <1>10, <2>1 DEF HandleMessage, OtherTypes, listenerVars, closeVars
<1>11. ASSUME NEW w \in Workers, SignalWorker(w) PROVE OtherTypes'
  <2>1. wp'["callback"] = "handle" => wp["callback"] = "handle"
    BY <1>11, <1>workers DEF SignalWorker, Signalled
  <2> QED BY <1>11, <2>1 DEF SignalWorker, OtherTypes, listenerVars, Workers
<1>12. CASE DestroyResources \/ Unregister \/ JoinListener \/ SetClosing \/ JoinWorkers \/ FreeConnection
  <2>1. UNCHANGED <<lp, workerVars, accepted, handled, misused>>
    BY <1>12 DEF DestroyResources, Unregister, JoinListener, SetClosing, JoinWorkers, FreeConnection, listenerVars
  <2>2. registered' \in BOOLEAN /\ breaking' \in BOOLEAN
    BY <1>12 DEF DestroyResources, Unregister, JoinListener, SetClosing, JoinWorkers, FreeConnection, listenerVars, OtherTypes
  <2>3. closing' \in BOOLEAN /\ destroyed' \in BOOLEAN /\ freed' \in BOOLEAN
    BY <1>12 DEF DestroyResources, Unregister, JoinListener, SetClosing, JoinWorkers, FreeConnection, OtherTypes
  <2>4. cp' \in {"unregister", "joinlistener", "close", "joincallback", "free", "closed"} \cup Workers
    BY <1>12 DEF DestroyResources, Unregister, JoinListener, SetClosing, JoinWorkers, FreeConnection, Workers
  <2> QED BY <2>1, <2>2, <2>3, <2>4 DEF OtherTypes, workerVars
<1>13. CASE UNCHANGED vars
  BY <1>13 DEF vars, listenerVars, workerVars, closeVars, OtherTypes
<1> QED BY <1>1, <1>2, <1>3, <1>4, <1>5, <1>6, <1>7, <1>8, <1>9, <1>10, <1>11, <1>12, <1>13 DEF Next, Listener, Worker, Cleanup

\* The variables of the threads, queues and flags keep their types; idle_stage,
\* one byte in the code, never passes its limit.
THEOREM ConnectionTypeCorrect == Spec => []TypeOK
<1>1. Init => OtherTypes
  <2> SUFFICES ASSUME Init PROVE OtherTypes
    OBVIOUS
  <2>1. wp["callback"] = "loop"
    BY DEF Init, Workers
  <2>2. idle_stage \in [Workers -> 0..IdleLimit]
    BY ConnectionAssumption DEF Init
  <2>3. /\ registered \in BOOLEAN /\ breaking \in BOOLEAN /\ awake \in [Workers -> BOOLEAN]
        /\ closing \in BOOLEAN /\ destroyed \in BOOLEAN /\ freed \in BOOLEAN /\ misused \in BOOLEAN
    BY DEF Init
  <2>4. accepted \in Seq(Frames) /\ handled \in Seq(Frames)
    BY DEF Init
  <2> QED BY <2>1, <2>2, <2>3, <2>4 DEF Init, OtherTypes
<1>2. Queues => QueueTypes
  BY DEF Queues
<1>3. QueueTypes /\ OtherTypes => TypeOK
  BY DEF QueueTypes, OtherTypes, TypeOK, Labels
<1> QED BY <1>1, <1>2, <1>3, InitQueues, NextQueues, NextOtherTypes, PTL DEF Spec

=============================================================================
