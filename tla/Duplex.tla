------------------------------- MODULE Duplex -------------------------------
(***************************************************************************)
(* Traffic in both directions between a server and its clients, with       *)
(* handlers that send. A connection object has one callback thread; while  *)
(* its handler is in swiftnet_send_packet, no other message of that object *)
(* is handled. A chunked send returns when the receiver's processor        *)
(* answers SUCCESS, which it does once the message is complete and no      *)
(* longer in pending_messages.                                             *)
(*                                                                         *)
(* A message is abstracted to its completion at the receiver: Transfer has *)
(* the chunks and their resending, Requests the table of requests. The     *)
(* messages have different packet ids.                                     *)
(***************************************************************************)
EXTENDS Integers, Sequences, FiniteSets

CONSTANTS
  Server, Clients,    \* connection objects
  Messages,
  From, To,           \* the ends of a message, one of them the server
  Kind,               \* packet_type: "MESSAGE", "REQUEST" or "RESPONSE"
  Chunked,            \* messages of more than one frame
  Cause,              \* the message whose handler sends it; None: an application thread
  None

Peers == {Server} \cup Clients

ASSUME DuplexAssumption ==
  /\ Server \notin Clients /\ None \notin Messages
  /\ From \in [Messages -> Peers] /\ To \in [Messages -> Peers]
  /\ \A m \in Messages : (From[m] = Server) # (To[m] = Server)
  /\ Kind \in [Messages -> {"MESSAGE", "REQUEST", "RESPONSE"}]
  /\ Chunked \subseteq Messages
  /\ Cause \in [Messages -> Messages \cup {None}]
  /\ \A m \in Messages : Kind[m] = "RESPONSE" =>
       Cause[m] # None /\ Kind[Cause[m]] = "REQUEST" /\ To[m] = From[Cause[m]]
  /\ \A m \in Messages : Cause[m] # None => From[m] = To[Cause[m]]

VARIABLES
  at,                  \* where the call that sends a message is
  requests_sent,       \* REQUESTs that wait for their answer
  packets_completed,   \* messages complete at their receiver
  pending_messages,    \* complete chunked messages not removed from the map
  callback_queue, cb, node,   \* callback threads of the connection objects
  expired              \* history: REQUESTs that timed out

callVars == <<at, requests_sent, expired>>
rxVars   == <<packets_completed, pending_messages>>
cbVars   == <<callback_queue, cb, node>>
vars == <<callVars, rxVars, cbVars>>

-----------------------------------------------------------------------------
(* Calls.                                                                  *)

\* After swiftnet_send_packet a request waits for its answer.
AfterSend(m) == IF Kind[m] = "REQUEST" THEN "waiting" ELSE "returned"

\* A handler is one thread: its next call begins when the last has returned.
MaySend(m) ==
  Cause[m] # None =>
    /\ cb[From[m]] = "handler" /\ node[From[m]] = Cause[m]
    /\ \A n \in Messages : Cause[n] = Cause[m] => at[n] \in {"new", "returned"}

\* A request is registered before its first frame is sent. A single frame is
\* sent and not waited for.
Send(m) ==
  /\ at[m] = "new" /\ MaySend(m)
  /\ at' = [at EXCEPT ![m] = IF m \in Chunked THEN "asking" ELSE AfterSend(m)]
  /\ requests_sent' = IF Kind[m] = "REQUEST" THEN requests_sent \cup {m} ELSE requests_sent
  /\ UNCHANGED <<expired, rxVars, cbVars>>

\* Mutant of Acknowledged: the history is consulted first.
AcknowledgedComplete(m) == m \in packets_completed

\* SEND_LOST_PACKETS_REQUEST: SUCCESS unless the message is pending.
Acknowledged(m) == m \in packets_completed \ pending_messages

\* request_lost_packets until SUCCESSFULLY_RECEIVED.
Acknowledge(m) ==
  /\ at[m] = "asking" /\ Acknowledged(m)
  /\ at' = [at EXCEPT ![m] = AfterSend(m)]
  /\ UNCHANGED <<requests_sent, expired, rxVars, cbVars>>

Answered(m) ==
  /\ at[m] = "waiting" /\ m \notin requests_sent
  /\ at' = [at EXCEPT ![m] = "returned"]
  /\ UNCHANGED <<requests_sent, expired, rxVars, cbVars>>

Expire(m) ==
  /\ at[m] = "waiting"
  /\ requests_sent' = requests_sent \ {m}
  /\ expired' = expired \cup {m}
  /\ at' = [at EXCEPT ![m] = "returned"]
  /\ UNCHANGED <<rxVars, cbVars>>

-----------------------------------------------------------------------------
(* The receiver's processor and callback thread.                           *)

\* A message is complete: its last chunk, or its only frame, has come.
Completes(m) ==
  /\ at[m] # "new" /\ m \notin packets_completed
  /\ packets_completed' = packets_completed \cup {m}

\* pass_callback_execution.
CompleteMessage(m) ==
  /\ Kind[m] # "RESPONSE" /\ Completes(m)
  /\ pending_messages' = IF m \in Chunked THEN pending_messages \cup {m} ELSE pending_messages
  /\ callback_queue' = [callback_queue EXCEPT ![To[m]] = Append(@, m)]
  /\ UNCHANGED <<callVars, cb, node>>

\* Mutant of CompleteResponse: an answer waits for the handler that runs at its
\* receiver.
AnswerBehindHandler(m) ==
  /\ Kind[m] = "RESPONSE" /\ Completes(m) /\ cb[To[m]] # "handler"
  /\ pending_messages' = IF m \in Chunked /\ Cause[m] \notin requests_sent
                         THEN pending_messages \cup {m} ELSE pending_messages
  /\ requests_sent' = requests_sent \ {Cause[m]}
  /\ UNCHANGED <<at, expired, cbVars>>

\* handle_request_response: an answer goes to its request, and then leaves
\* pending_messages; without a request it stays there.
CompleteResponse(m) ==
  /\ Kind[m] = "RESPONSE" /\ Completes(m)
  /\ pending_messages' = IF m \in Chunked /\ Cause[m] \notin requests_sent
                         THEN pending_messages \cup {m} ELSE pending_messages
  /\ requests_sent' = requests_sent \ {Cause[m]}
  /\ UNCHANGED <<at, expired, cbVars>>

TakeNode(p) ==
  /\ cb[p] = "idle" /\ callback_queue[p] # <<>>
  /\ node' = [node EXCEPT ![p] = Head(callback_queue[p])]
  /\ callback_queue' = [callback_queue EXCEPT ![p] = Tail(@)]
  /\ cb' = [cb EXCEPT ![p] = "taken"]
  /\ UNCHANGED <<callVars, rxVars>>

\* Mutant of RemovePending: the message stays pending during its handler.
KeepPending(p) ==
  /\ cb[p] = "taken"
  /\ cb' = [cb EXCEPT ![p] = "handler"]
  /\ UNCHANGED <<callVars, rxVars, callback_queue, node>>

\* The message leaves the map before its handler is called.
RemovePending(p) ==
  /\ cb[p] = "taken"
  /\ pending_messages' = pending_messages \ {node[p]}
  /\ cb' = [cb EXCEPT ![p] = "handler"]
  /\ UNCHANGED <<callVars, packets_completed, callback_queue, node>>

HandlerReturns(p) ==
  /\ cb[p] = "handler"
  /\ \A m \in Messages : Cause[m] = node[p] => at[m] = "returned"
  /\ cb' = [cb EXCEPT ![p] = "idle"]
  /\ node' = [node EXCEPT ![p] = None]
  /\ UNCHANGED <<callVars, rxVars, callback_queue>>

-----------------------------------------------------------------------------
Init ==
  /\ at = [m \in Messages |-> "new"]
  /\ requests_sent = {} /\ expired = {}
  /\ packets_completed = {} /\ pending_messages = {}
  /\ callback_queue = [p \in Peers |-> <<>>]
  /\ cb = [p \in Peers |-> "idle"] /\ node = [p \in Peers |-> None]

Call(m)     == Send(m) \/ Acknowledge(m) \/ Answered(m) \/ Expire(m)
Complete(m) == CompleteMessage(m) \/ CompleteResponse(m)
Callback(p) == TakeNode(p) \/ RemovePending(p) \/ HandlerReturns(p)

Next ==
  \/ \E m \in Messages : Call(m) \/ Complete(m)
  \/ \E p \in Peers : Callback(p)

Spec == Init /\ [][Next]_vars

\* Threads run and time passes. An application thread need not call, a single
\* frame may be lost; of a chunked message a chunk arrives, and the sender asks
\* until the others have (as Transfer shows for PCAP; a DPDK sender may ask for
\* ever). A callback thread finishes what it has taken, but need not take a
\* message: it may have missed its wakeup.
FairSpec ==
  /\ Spec
  /\ \A m \in Messages :
       /\ WF_vars(Acknowledge(m) \/ Answered(m) \/ Expire(m))
       /\ Cause[m] # None => WF_vars(Send(m))
       /\ m \in Chunked => WF_vars(Complete(m))
  /\ \A p \in Peers : WF_vars(RemovePending(p) \/ HandlerReturns(p))

-----------------------------------------------------------------------------
(* Properties.                                                             *)

\* Every variable holds values of its C type; a message waits for the callback
\* thread of its receiver only.
TypeOK ==
  /\ at \in [Messages -> {"new", "asking", "waiting", "returned"}]
  /\ requests_sent \subseteq {m \in Messages : Kind[m] = "REQUEST"} /\ expired \subseteq Messages
  /\ packets_completed \subseteq Messages /\ pending_messages \subseteq packets_completed \cap Chunked
  /\ callback_queue \in [Peers -> Seq(Messages)]
  /\ cb \in [Peers -> {"idle", "taken", "handler"}]
  /\ node \in [Peers -> Messages \cup {None}]
  /\ \A p \in Peers : \A i \in DOMAIN callback_queue[p] : To[callback_queue[p][i]] = p
  /\ \A p \in Peers : node[p] # None => To[node[p]] = p

\* The handler that runs on p is in a chunked send that needs the callback
\* thread of q.
WaitsFor(p, q) ==
  \E m \in Chunked : /\ cb[p] = "handler" /\ Cause[m] = node[p] /\ at[m] = "asking"
                     /\ Kind[m] # "RESPONSE" /\ To[m] = q /\ ~Acknowledged(m)

\* Handlers of both ends of a connection wait for each other.
Crossed == \E c \in Clients : WaitsFor(Server, c) /\ WaitsFor(c, Server)

\* A chunked answer came after its request had timed out.
AnsweredLate == \E m \in pending_messages : Kind[m] = "RESPONSE"

\* A message is queued for a callback thread that does not take it.
Overslept(p) == cb[p] = "idle" /\ callback_queue[p] # <<>>

\* A chunked send of which a chunk arrives (PCAP) returns, whatever else is
\* sent, received and handled at both ends at the time, unless the handlers of
\* a server and of a client wait for each other, a handler has answered too
\* late, or some callback thread has missed its wakeup and sleeps on.
SendsReturn ==
  \A m \in Chunked :
    at[m] = "asking" ~>
      (at[m] # "asking" \/ Crossed \/ AnsweredLate \/ \E p \in Peers : []Overslept(p))

\* Handlers that wait for each other do so for ever: no later message, answer
\* or time-out frees either callback thread.
CrossedForever == [][Crossed => Crossed']_vars

\* The answer to a request is sent to the end even if the handler at its
\* receiver is stuck, perhaps in a send to the very handler that answers, or
\* asleep: it needs no callback thread there. Only an answer that comes after
\* its request timed out stays behind.
AnswersReturn ==
  \A m \in Chunked : Kind[m] = "RESPONSE" =>
    (at[m] = "asking" ~>
      (at[m] = "returned" \/ (m \in pending_messages /\ Cause[m] \in expired)))

=============================================================================
