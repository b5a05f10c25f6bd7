--------------------------- MODULE RequestsProofs ---------------------------
(***************************************************************************)
(* Proofs about Requests, for any number of calls, ids and objects and any *)
(* hash: no answer is returned twice, and no call times out early. Nothing *)
(* of the hash map is used, so they hold even where two calls share an id  *)
(* and an answer is stored in an object that is no longer its call's.      *)
(***************************************************************************)
EXTENDS Requests, TLAPS

\* A call that has its object.
Holds(r) == pc[r] \in {"waiting", "delete", "free"}

\* An answer on its way: registered, and its id in the history.
Consumed(v) == v \in Calls /\ pc[v] # "new" /\ id[v] \in packets_completed

\* The object of a call is its own while it has it.
OwnObjects ==
  /\ pc \in [Calls -> {"new", "waiting", "delete", "free", "timedout", "returned"}] /\ request_sent \in [Calls -> RequestSents \cup {None}]
  /\ packet_data \in [RequestSents -> Calls \cup {None}]
  /\ id \in [Calls -> Ids \cup {None}] /\ result \in [Calls -> Calls \cup {None}]
  /\ free \subseteq RequestSents
  /\ \A r \in Calls : Holds(r) => request_sent[r] \in RequestSents \ free
  /\ \A r, q \in Calls : Holds(r) /\ Holds(q) /\ r # q => request_sent[r] # request_sent[q]

\* An answer on the wire has the id of its call.
WireOfCalls == \A m \in wire : m.to \in Calls /\ pc[m.to] # "new" /\ m.id = id[m.to]

\* An answer is in one place: with the processor, in one object, or returned;
\* the object it was returned from is free.
OnePlace ==
  /\ hand # None => /\ Consumed(hand.to)
                    /\ \A o \in RequestSents : packet_data[o] # hand.to
                    /\ \A r \in Calls : result[r] # hand.to
  /\ \A o \in RequestSents : packet_data[o] # None => Consumed(packet_data[o])
  /\ \A r \in Calls : result[r] # None => Consumed(result[r])
  /\ \A o, p \in RequestSents : packet_data[o] # None /\ o # p => packet_data[o] # packet_data[p]
  /\ \A o \in RequestSents, r \in Calls : result[r] # None /\ packet_data[o] = result[r] => o \in free

\* The inductive invariant.
IInv == OwnObjects /\ WireOfCalls /\ OnePlace /\ AnswerReturnedOnce

-----------------------------------------------------------------------------
(* IInv is inductive.                                                      *)

LEMMA InitIInv == Init => IInv
BY RequestsAssumption DEF Init, IInv, OwnObjects, WireOfCalls, OnePlace, AnswerReturnedOnce, Holds, Consumed

\* Nothing but the state of one call changes, and it is not made new.
LEMMA RegisterIInv ==
  ASSUME IInv, NEW r \in Calls, Register(r) PROVE IInv'
<1>1. PICK o \in free, i \in Ids :
        /\ free' = free \ {o}
        /\ packet_data' = [packet_data EXCEPT ![o] = None]
        /\ request_sent' = [request_sent EXCEPT ![r] = o]
        /\ id' = [id EXCEPT ![r] = i]
  BY DEF Register
<1>2. /\ pc[r] = "new" /\ pc' = [pc EXCEPT ![r] = "waiting"]
      /\ UNCHANGED <<result, wire, packets_completed, hand>>
  BY DEF Register, rxVars
<1>3. \A v : Consumed(v) => Consumed(v)'
  BY <1>1, <1>2 DEF Consumed, IInv, OwnObjects
<1>4. OwnObjects'
  BY <1>1, <1>2 DEF IInv, OwnObjects, Holds
<1>5. WireOfCalls'
  BY <1>1, <1>2 DEF IInv, OwnObjects, WireOfCalls
<1>6. OnePlace'
  BY <1>1, <1>2, <1>3, RequestsAssumption DEF IInv, OwnObjects, OnePlace, WireOfCalls, Consumed
<1>7. AnswerReturnedOnce'
  BY <1>2 DEF IInv, AnswerReturnedOnce
<1> QED BY <1>4, <1>5, <1>6, <1>7 DEF IInv

\* The steps of a call that take neither object nor answer.
LEMMA CallMovesIInv ==
  ASSUME IInv, NEW r \in Calls, Expire(r) \/ Delete(r) PROVE IInv'
<1>1. /\ Holds(r)
      /\ \E label \in {"delete", "free"} : pc' = [pc EXCEPT ![r] = label]
      /\ UNCHANGED <<free, packet_data, request_sent, id, result, wire, packets_completed, hand>>
  BY DEF Expire, Delete, Holds, objectVars, rxVars
<1>2. \A v : Consumed(v) => Consumed(v)'
  BY <1>1 DEF Consumed, IInv, OwnObjects
<1>3. OwnObjects'
  BY <1>1 DEF IInv, OwnObjects, Holds
<1>4. WireOfCalls'
  BY <1>1 DEF IInv, OwnObjects, WireOfCalls
<1>5. OnePlace'
  BY <1>1, <1>2 DEF IInv, OnePlace
<1>6. AnswerReturnedOnce'
  BY <1>1 DEF IInv, AnswerReturnedOnce
<1> QED BY <1>3, <1>4, <1>5, <1>6 DEF IInv

LEMMA FreeRequestIInv ==
  ASSUME IInv, NEW r \in Calls, FreeRequest(r) PROVE IInv'
<1>1. /\ pc[r] = "free" /\ pc' = [pc EXCEPT ![r] = "timedout"]
      /\ free' = free \cup {request_sent[r]}
      /\ UNCHANGED <<packet_data, request_sent, id, result, wire, packets_completed, hand>>
  BY DEF FreeRequest, rxVars
<1>2. \A v : Consumed(v) => Consumed(v)'
  BY <1>1 DEF Consumed, IInv, OwnObjects
<1>3. OwnObjects'
  BY <1>1 DEF IInv, OwnObjects, Holds
<1>4. WireOfCalls'
  BY <1>1 DEF IInv, OwnObjects, WireOfCalls
<1>5. OnePlace'
  BY <1>1, <1>2 DEF IInv, OnePlace
<1>6. AnswerReturnedOnce'
  BY <1>1 DEF IInv, AnswerReturnedOnce
<1> QED BY <1>3, <1>4, <1>5, <1>6 DEF IInv

\* The object is the call's own, so its answer was not returned before.
LEMMA ReturnIInv ==
  ASSUME IInv, NEW r \in Calls, Return(r) PROVE IInv'
<1> DEFINE o == request_sent[r]
<1>1. /\ pc[r] = "waiting" /\ pc' = [pc EXCEPT ![r] = "returned"]
      /\ packet_data[o] # None
      /\ result' = [result EXCEPT ![r] = packet_data[o]]
      /\ free' = free \cup {o}
      /\ UNCHANGED <<packet_data, request_sent, id, wire, packets_completed, hand>>
  BY DEF Return, rxVars
<1>2. o \in RequestSents \ free
  BY <1>1 DEF IInv, OwnObjects, Holds
<1>3. \A v : Consumed(v) => Consumed(v)'
  BY <1>1 DEF Consumed, IInv, OwnObjects
<1>4. OwnObjects'
  BY <1>1, <1>2 DEF IInv, OwnObjects, Holds
<1>5. WireOfCalls'
  BY <1>1 DEF IInv, OwnObjects, WireOfCalls
<1>6. \A q \in Calls : result[q] # packet_data[o]
  BY <1>1, <1>2 DEF IInv, OnePlace
<1>7. OnePlace'
  BY <1>1, <1>2, <1>3 DEF IInv, OwnObjects, OnePlace
<1>8. AnswerReturnedOnce'
  BY <1>1, <1>6 DEF IInv, OwnObjects, AnswerReturnedOnce
<1> QED BY <1>4, <1>5, <1>7, <1>8 DEF IInv

LEMMA RespondIInv ==
  ASSUME IInv, NEW r \in Calls, Respond(r) PROVE IInv'
<1>1. /\ pc[r] # "new"
      /\ \E chunked \in BOOLEAN : wire' = wire \cup {[to |-> r, id |-> id[r], chunked |-> chunked]}
      /\ UNCHANGED <<free, packet_data, pc, request_sent, id, result, packets_completed, hand>>
  BY DEF Respond, objectVars, callVars
<1>2. WireOfCalls'
  BY <1>1 DEF IInv, WireOfCalls
<1>3. OwnObjects' /\ OnePlace' /\ AnswerReturnedOnce'
  BY <1>1 DEF IInv, OwnObjects, OnePlace, AnswerReturnedOnce, Holds, Consumed
<1> QED BY <1>2, <1>3 DEF IInv

\* The history has no id of a new answer, and the ids of all earlier ones.
LEMMA CompleteIInv ==
  ASSUME IInv, NEW m \in wire, Complete(m) PROVE IInv'
<1>1. UNCHANGED <<free, packet_data, pc, request_sent, id, result, wire>> /\ hand = None
  BY DEF Complete, objectVars, callVars
<1>2. OwnObjects' /\ WireOfCalls' /\ AnswerReturnedOnce'
  BY <1>1 DEF IInv, OwnObjects, WireOfCalls, AnswerReturnedOnce, Holds
<1>3. CASE AlreadyCompleted(m.id)
  BY <1>1, <1>2, <1>3 DEF Complete, IInv, OnePlace, Consumed
<1>4. CASE ~AlreadyCompleted(m.id)
  <2>1. packets_completed' = packets_completed \cup {m.id} /\ hand' = m /\ m.id \notin packets_completed
    BY <1>4 DEF Complete, AlreadyCompleted
  <2>2. \A v : Consumed(v) => Consumed(v)' /\ v # m.to
    BY <1>1, <2>1 DEF Consumed, IInv, WireOfCalls
  <2>3. m.to \in Calls /\ Consumed(m.to)'
    BY <1>1, <2>1 DEF Consumed, IInv, WireOfCalls
  <2>4. m.to # None
    BY <2>3, RequestsAssumption
  <2>5. OnePlace'
    BY <1>1, <2>1, <2>2, <2>3, <2>4 DEF IInv, OwnObjects, OnePlace
  <2> QED BY <1>2, <2>5 DEF IInv
<1> QED BY <1>3, <1>4

LEMMA OrphanIInv == ASSUME IInv, Orphan PROVE IInv'
<1>1. UNCHANGED <<free, packet_data, pc, request_sent, id, result, wire, packets_completed>> /\ hand' = None
  BY DEF Orphan, objectVars, callVars
<1> QED
  BY <1>1 DEF IInv, OwnObjects, WireOfCalls, OnePlace, AnswerReturnedOnce, Holds, Consumed

\* Whichever object the map finds, the answer moves into that one.
LEMMA AnswerIInv == ASSUME IInv, Answer PROVE IInv'
<1>1. PICK v, found :
        /\ hand # None /\ hand' = None /\ v = hand.to
        /\ packet_data' = [packet_data EXCEPT ![found] = v]
        /\ UNCHANGED <<free, pc, request_sent, id, result, wire, packets_completed>>
  BY DEF Answer, callVars
<1>2. /\ Consumed(v) /\ \A w : Consumed(w) => Consumed(w)'
      /\ \A o \in RequestSents : packet_data[o] # v
      /\ \A r \in Calls : result[r] # v
  BY <1>1 DEF IInv, OnePlace, Consumed
<1>3. \A o \in RequestSents : packet_data'[o] = IF o = found THEN v ELSE packet_data[o]
  BY <1>1 DEF IInv, OwnObjects
<1>4. packet_data' \in [RequestSents -> Calls \cup {None}]
  BY <1>1, <1>2 DEF IInv, OwnObjects, Consumed
<1>5. OwnObjects'
  BY <1>1, <1>4 DEF IInv, OwnObjects, Holds
<1>6. WireOfCalls' /\ AnswerReturnedOnce'
  BY <1>1 DEF IInv, WireOfCalls, AnswerReturnedOnce
<1>7. OnePlace'
  BY <1>1, <1>2, <1>3 DEF IInv, OnePlace
<1> QED BY <1>5, <1>6, <1>7 DEF IInv

LEMMA NextIInv == IInv /\ [Next]_vars => IInv'
<1> SUFFICES ASSUME IInv, [Next]_vars PROVE IInv'
  OBVIOUS
<1>1. ASSUME NEW r \in Calls, Register(r) \/ Call(r) \/ Respond(r) PROVE IInv'
  BY <1>1, RegisterIInv, CallMovesIInv, FreeRequestIInv, ReturnIInv, RespondIInv DEF Call
<1>2. ASSUME NEW m \in wire, Complete(m) PROVE IInv'
  BY <1>2, CompleteIInv
<1>3. CASE Orphan \/ Answer
  BY <1>3, OrphanIInv, AnswerIInv
<1>4. CASE UNCHANGED vars
  BY <1>4 DEF vars, objectVars, callVars, rxVars, IInv, OwnObjects, WireOfCalls, OnePlace,
              AnswerReturnedOnce, Holds, Consumed
<1> QED BY <1>1, <1>2, <1>3, <1>4 DEF Next

-----------------------------------------------------------------------------
\* No two calls return the same answer, however often it is delivered and
\* whichever ids are drawn: the history of completed messages lets a RESPONSE
\* through once, and an object is one call's at a time.
THEOREM AnswersReturnedOnce == Spec => []AnswerReturnedOnce
<1>1. IInv => AnswerReturnedOnce
  BY DEF IInv
<1> QED BY <1>1, InitIInv, NextIInv, PTL DEF Spec

-----------------------------------------------------------------------------
(* Time-outs.                                                              *)

\* The comparison with 32 bit sums holds too early only if the sum overflows.
LEMMA OverIsLate ==
  ASSUME NEW start \in 0..TimeSpace - 1, NEW lasted \in 0..TimeSpace - 1,
         start + Timeout < TimeSpace, Over(start, (start + lasted) % TimeSpace)
  PROVE  lasted > Timeout
<1>1. (start + Timeout) % TimeSpace = start + Timeout
  BY RequestsAssumption
<1>2. CASE start + lasted < TimeSpace
  <2>1. (start + lasted) % TimeSpace = start + lasted
    BY <1>2, RequestsAssumption
  <2> QED BY <1>1, <2>1, RequestsAssumption DEF Over
<1>3. CASE start + lasted >= TimeSpace
  <2>1. (start + lasted) % TimeSpace = start + lasted - TimeSpace
    BY <1>3, RequestsAssumption
  <2> QED BY <1>1, <2>1, RequestsAssumption DEF Over
<1> QED BY <1>2, <1>3, RequestsAssumption

\* No call times out before its time: start + timeout_ms < end is right on a
\* clock of 32 bits, whenever the call began and however long it lasted, as
\* long as start + timeout_ms does not overflow.
THEOREM TimeoutsNotEarly == Spec => []TimeoutNotEarly
<1>1. Init => TimeoutNotEarly
  BY DEF Init, TimeoutNotEarly
<1>2. TimeoutNotEarly /\ [Next]_vars => TimeoutNotEarly'
  <2> SUFFICES ASSUME TimeoutNotEarly, [Next]_vars PROVE TimeoutNotEarly'
    OBVIOUS
  <2>1. ASSUME NEW r \in Calls, Expire(r) PROVE TimeoutNotEarly'
    <3>1. PICK start, lasted \in 0..TimeSpace - 1 :
            /\ Over(start, (start + lasted) % TimeSpace)
            /\ hasty' = (hasty \/ (lasted <= Timeout /\ start + Timeout < TimeSpace))
      BY <2>1 DEF Expire
    <3>2. start + Timeout < TimeSpace => lasted > Timeout
      BY <3>1, OverIsLate
    <3>3. lasted \in Int /\ Timeout \in Int
      BY RequestsAssumption
    <3>4. ~(lasted <= Timeout /\ start + Timeout < TimeSpace)
      BY <3>2, <3>3
    <3> QED BY <3>1, <3>4 DEF TimeoutNotEarly
  <2>2. ASSUME NEW r \in Calls, Register(r) \/ Return(r) \/ Delete(r) \/ FreeRequest(r) \/ Respond(r)
        PROVE  TimeoutNotEarly'
    BY <2>2 DEF Register, Return, Delete, FreeRequest, Respond, TimeoutNotEarly, ghostVars
  <2>3. ASSUME NEW m \in wire, Complete(m) PROVE TimeoutNotEarly'
    BY <2>3 DEF Complete, TimeoutNotEarly, ghostVars
  <2>4. CASE Orphan \/ Answer \/ UNCHANGED vars
    BY <2>4 DEF Orphan, Answer, vars, TimeoutNotEarly, ghostVars
  <2> QED BY <2>1, <2>2, <2>3, <2>4 DEF Next, Call
<1> QED BY <1>1, <1>2, PTL DEF Spec

=============================================================================
