---------------------------- MODULE DuplexProofs ----------------------------
(***************************************************************************)
(* Proofs about Duplex, for any server, clients, messages and handlers:    *)
(* handlers that wait for each other never stop waiting.                   *)
(***************************************************************************)
EXTENDS Duplex, TLAPS

-----------------------------------------------------------------------------
(* Types. The two facts that matter later: pending messages are complete,  *)
(* and a callback thread holds messages of its own connection only.        *)

\* The initial state is well typed.
LEMMA InitTypes == Init => TypeOK
BY DuplexAssumption DEF Init, TypeOK

\* Every step keeps the types, and every message with its receiver.
LEMMA NextTypes == TypeOK /\ [Next]_vars => TypeOK'
<1> SUFFICES ASSUME TypeOK, [Next]_vars PROVE TypeOK'
  OBVIOUS
<1> USE DuplexAssumption
<1>1. ASSUME NEW m \in Messages, Call(m) PROVE TypeOK'
  <2>1. AfterSend(m) \in {"waiting", "returned"}
    BY DEF AfterSend
  <2>2. UNCHANGED <<rxVars, cbVars>>
    BY <1>1 DEF Call, Send, Acknowledge, Answered, Expire
  <2>3. at' \in [Messages -> {"new", "asking", "waiting", "returned"}]
    <3>1. \E v \in {"new", "asking", "waiting", "returned"} : at' = [at EXCEPT ![m] = v]
      BY <1>1, <2>1 DEF Call, Send, Acknowledge, Answered, Expire
    <3> QED
      BY <3>1 DEF TypeOK
  <2>4. /\ requests_sent' \subseteq {n \in Messages : Kind[n] = "REQUEST"}
        /\ expired' \subseteq Messages
    BY <1>1 DEF Call, Send, Acknowledge, Answered, Expire, TypeOK
  <2> QED
    BY <2>2, <2>3, <2>4 DEF TypeOK, rxVars, cbVars
<1>2. ASSUME NEW m \in Messages, CompleteMessage(m) PROVE TypeOK'
  <2>1. To[m] \in Peers
    OBVIOUS
  <2>2. /\ UNCHANGED <<callVars, cb, node>>
        /\ packets_completed' \subseteq Messages
        /\ pending_messages' \subseteq packets_completed' \cap Chunked
    BY <1>2 DEF CompleteMessage, Completes, TypeOK
  <2>3. callback_queue' \in [Peers -> Seq(Messages)]
    BY <1>2, <2>1 DEF CompleteMessage, TypeOK
  <2>4. ASSUME NEW p \in Peers, NEW i \in DOMAIN callback_queue'[p]
        PROVE  To[callback_queue'[p][i]] = p
    <3>1. CASE p = To[m]
      <4>1. callback_queue'[p] = Append(callback_queue[p], m) /\ callback_queue[p] \in Seq(Messages)
        BY <1>2, <3>1 DEF CompleteMessage, TypeOK
      <4> QED
        BY <2>4, <3>1, <4>1 DEF TypeOK
    <3>2. CASE p # To[m]
      BY <1>2, <2>4, <3>2 DEF CompleteMessage, TypeOK
    <3> QED
      BY <3>1, <3>2
  <2> QED
    BY <2>2, <2>3, <2>4 DEF TypeOK, callVars
<1>3. ASSUME NEW m \in Messages, CompleteResponse(m) PROVE TypeOK'
  <2>1. UNCHANGED <<at, expired, cbVars>> /\ requests_sent' \subseteq requests_sent
    BY <1>3 DEF CompleteResponse
  <2>2. /\ packets_completed' \subseteq Messages
        /\ pending_messages' \subseteq packets_completed' \cap Chunked
    BY <1>3 DEF CompleteResponse, Completes, TypeOK
  <2> QED
    BY <2>1, <2>2 DEF TypeOK, cbVars
<1>4. ASSUME NEW p \in Peers, TakeNode(p) PROVE TypeOK'
  <2> DEFINE s == callback_queue[p]
  <2>1. s \in Seq(Messages) /\ s # <<>> /\ Head(s) = s[1] /\ 1 \in DOMAIN s
    BY <1>4 DEF TakeNode, TypeOK
  <2>2. Head(s) \in Messages /\ To[Head(s)] = p
    BY <2>1 DEF TypeOK
  <2>3. Tail(s) \in Seq(Messages) /\ \A i \in DOMAIN Tail(s) : To[Tail(s)[i]] = p
    <3>1. Tail(s) \in Seq(Messages) /\ Len(s) \in Nat /\ Len(Tail(s)) = Len(s) - 1
      BY <2>1
    <3>2. ASSUME NEW i \in DOMAIN Tail(s) PROVE To[Tail(s)[i]] = p
      <4>1. i + 1 \in DOMAIN s /\ Tail(s)[i] = s[i + 1]
        BY <2>1, <3>1
      <4> QED
        BY <4>1 DEF TypeOK
    <3> QED
      BY <3>1, <3>2
  <2>4. UNCHANGED <<callVars, rxVars>>
    BY <1>4 DEF TakeNode
  <2>5. node' = [node EXCEPT ![p] = Head(s)] /\ callback_queue' = [callback_queue EXCEPT ![p] = Tail(s)]
    BY <1>4 DEF TakeNode
  <2>6. cb' \in [Peers -> {"idle", "taken", "handler"}]
    BY <1>4 DEF TakeNode, TypeOK
  <2> HIDE DEF s
  <2>7. node' \in [Peers -> Messages \cup {None}] /\ \A q \in Peers : node'[q] # None => To[node'[q]] = q
    BY <2>2, <2>5 DEF TypeOK
  <2>8. callback_queue' \in [Peers -> Seq(Messages)]
    BY <2>3, <2>5 DEF TypeOK
  <2>9. \A q \in Peers : \A i \in DOMAIN callback_queue'[q] : To[callback_queue'[q][i]] = q
    BY <2>3, <2>5 DEF TypeOK
  <2> QED
    BY <2>4, <2>6, <2>7, <2>8, <2>9 DEF TypeOK, callVars, rxVars
<1>5. ASSUME NEW p \in Peers, RemovePending(p) PROVE TypeOK'
  <2>1. cb' \in [Peers -> {"idle", "taken", "handler"}] /\ pending_messages' \subseteq pending_messages
    BY <1>5 DEF RemovePending, TypeOK
  <2>2. UNCHANGED <<callVars, packets_completed, callback_queue, node>>
    BY <1>5 DEF RemovePending
  <2> QED
    BY <2>1, <2>2 DEF TypeOK, callVars
<1>6. ASSUME NEW p \in Peers, HandlerReturns(p) PROVE TypeOK'
  <2>1. cb' \in [Peers -> {"idle", "taken", "handler"}]
    BY <1>6 DEF HandlerReturns, TypeOK
  <2>2. node' \in [Peers -> Messages \cup {None}] /\ \A q \in Peers : node'[q] # None => To[node'[q]] = q
    BY <1>6 DEF HandlerReturns, TypeOK
  <2>3. UNCHANGED <<callVars, rxVars, callback_queue>>
    BY <1>6 DEF HandlerReturns
  <2> QED
    BY <2>1, <2>2, <2>3 DEF TypeOK, callVars, rxVars
<1>7. CASE UNCHANGED vars
  BY <1>7 DEF TypeOK, vars, callVars, rxVars, cbVars
<1> QED
  BY <1>1, <1>2, <1>3, <1>4, <1>5, <1>6, <1>7 DEF Next, Complete, Callback

-----------------------------------------------------------------------------
(* Waiting.                                                                *)

\* A chunked message that is not acknowledged stays so while the callback
\* thread of its receiver is in a handler.
LEMMA NotAcknowledgedStays ==
  ASSUME TypeOK, [Next]_vars, NEW m \in Chunked, Kind[m] # "RESPONSE",
         ~Acknowledged(m), cb[To[m]] = "handler"
  PROVE  ~Acknowledged(m)'
<1> USE DuplexAssumption
<1>1. m \in Messages
  OBVIOUS
<1>2. CASE UNCHANGED rxVars
  BY <1>2 DEF Acknowledged, rxVars
<1>3. ASSUME NEW n \in Messages, Call(n) PROVE UNCHANGED rxVars
  BY <1>3 DEF Call, Send, Acknowledge, Answered, Expire
<1>4. ASSUME NEW n \in Messages, CompleteMessage(n) PROVE ~Acknowledged(m)'
  BY <1>4 DEF CompleteMessage, Completes, Acknowledged, TypeOK
<1>5. ASSUME NEW n \in Messages, CompleteResponse(n) PROVE ~Acknowledged(m)'
  BY <1>5 DEF CompleteResponse, Completes, Acknowledged, TypeOK
<1>6. ASSUME NEW p \in Peers, Callback(p), ~RemovePending(p) PROVE UNCHANGED rxVars
  BY <1>6 DEF Callback, TakeNode, HandlerReturns, rxVars
<1>7. ASSUME NEW p \in Peers, RemovePending(p) PROVE ~Acknowledged(m)'
  <2>1. node[p] # m
    <3>1. cb[p] = "taken" /\ m # None
      BY <1>1, <1>7 DEF RemovePending
    <3>2. node[p] # None => To[node[p]] = p
      BY DEF TypeOK
    <3> QED
      BY <3>1, <3>2
  <2> QED
    BY <1>7, <2>1 DEF RemovePending, Acknowledged
<1>8. UNCHANGED vars => UNCHANGED rxVars
  BY DEF vars, rxVars
<1> QED
  BY <1>2, <1>3, <1>4, <1>5, <1>6, <1>7, <1>8 DEF Next, Complete

\* A handler that waits for a callback thread that is itself in a handler
\* still waits after any step.
LEMMA WaitingStays ==
  ASSUME TypeOK, [Next]_vars, NEW p \in Peers, NEW q \in Peers,
         WaitsFor(p, q), cb[q] = "handler"
  PROVE  WaitsFor(p, q)'
<1> USE DuplexAssumption
<1>1. PICK m \in Chunked : /\ cb[p] = "handler" /\ Cause[m] = node[p] /\ at[m] = "asking"
                           /\ Kind[m] # "RESPONSE" /\ To[m] = q /\ ~Acknowledged(m)
  BY DEF WaitsFor
<1>2. m \in Messages
  OBVIOUS
<1>3. ~Acknowledged(m)'
  BY <1>1, NotAcknowledgedStays
<1>4. at'[m] = "asking"
  <2>1. ASSUME NEW n \in Messages, Call(n) PROVE at'[m] = "asking"
    BY <1>1, <1>2, <2>1 DEF Call, Send, Acknowledge, Answered, Expire, TypeOK
  <2>2. ASSUME NEW n \in Messages, Complete(n) PROVE at' = at
    BY <2>2 DEF Complete, CompleteMessage, CompleteResponse, callVars
  <2>3. ASSUME NEW r \in Peers, Callback(r) PROVE at' = at
    BY <2>3 DEF Callback, TakeNode, RemovePending, HandlerReturns, callVars
  <2>4. UNCHANGED vars => at' = at
    BY DEF vars, callVars
  <2> QED
    BY <1>1, <2>1, <2>2, <2>3, <2>4 DEF Next
<1>5. cb'[p] = "handler" /\ node'[p] = node[p]
  <2>1. ASSUME NEW n \in Messages, Call(n) \/ Complete(n) PROVE cb' = cb /\ node' = node
    BY <2>1 DEF Call, Send, Acknowledge, Answered, Expire, Complete, CompleteMessage, CompleteResponse, cbVars
  <2>2. ASSUME NEW r \in Peers, Callback(r) PROVE cb'[p] = "handler" /\ node'[p] = node[p]
    <3>1. CASE r = p
      BY <1>1, <1>2, <2>2, <3>1 DEF Callback, TakeNode, RemovePending, HandlerReturns
    <3>2. CASE r # p
      BY <1>1, <2>2, <3>2 DEF Callback, TakeNode, RemovePending, HandlerReturns, TypeOK
    <3> QED
      BY <3>1, <3>2
  <2>3. UNCHANGED vars => cb' = cb /\ node' = node
    BY DEF vars, cbVars
  <2> QED
    BY <1>1, <2>1, <2>2, <2>3 DEF Next
<1> QED
  BY <1>1, <1>3, <1>4, <1>5 DEF WaitsFor

\* Handlers of a server and a client that wait for each other do so in every
\* later state: nothing in the library frees their callback threads.
THEOREM CrossingIsFinal == Spec => CrossedForever
<1>1. ASSUME TypeOK, [Next]_vars, Crossed PROVE Crossed'
  <2>1. PICK c \in Clients : WaitsFor(Server, c) /\ WaitsFor(c, Server)
    BY <1>1 DEF Crossed
  <2>2. cb[Server] = "handler" /\ cb[c] = "handler"
    BY <2>1 DEF WaitsFor
  <2>3. Server \in Peers /\ c \in Peers
    BY DEF Peers
  <2>4. WaitsFor(Server, c)' /\ WaitsFor(c, Server)'
    BY <1>1, <2>1, <2>2, <2>3, WaitingStays
  <2> QED
    BY <2>4 DEF Crossed
<1>2. Spec => []TypeOK
  BY InitTypes, NextTypes, PTL DEF Spec
<1>3. TypeOK /\ [Next]_vars => [Crossed => Crossed']_vars
  BY <1>1
<1> QED
  BY <1>2, <1>3, PTL DEF Spec, CrossedForever
=============================================================================
