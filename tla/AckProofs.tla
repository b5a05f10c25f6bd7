------------------------------ MODULE AckProofs ------------------------------
(* Why a chunked send that returned was acknowledged, and why an id reaches *)
(* the handler once, for every value of Transfer's constants.               *)
EXTENDS TransferProofs

-----------------------------------------------------------------------------
(* The acknowledgement travels receiver -> network -> processing thread -> *)
(* slot -> application thread; the invariant says it is true at each stop. *)

SUCCESS == "SUCCESSFULLY_RECEIVED"

\* A registered send owns its slot.
SlotsOwned ==
  /\ \A m \in Messages : pc[m] \in Registered => slot[m] \notin free_slots
  /\ \A m, n \in Messages :
       pc[m] \in Registered /\ pc[n] \in Registered /\ slot[m] = slot[n] => m = n

\* Every SUCCESS on its way to the sender's slot is true.
AckOnTheWay ==
  /\ \A p \in net : p.type = "SUCCESS" => Acknowledged(htons(p.id))
  /\ sp.at # "idle" /\ sp.packet.type = "SUCCESS" => Acknowledged(htons(sp.packet.id))

\* So is the one a slot holds, and the one its owner has loaded.
AckInSlot(m) ==
  pc[m] \in Registered /\ memory[slot[m]].updated = SUCCESS => Acknowledged(htons(id[m]))

AckLoaded(m) ==
  \/ pc[m] = "clear" /\ status[m] = SUCCESS
  \/ pc[m] \in {"finish", "free"}
  \/ pc[m] = "returned" /\ Chunked(m)
  => Acknowledged(htons(id[m]))

AckInv ==
  /\ SlotsOwned
  /\ AckOnTheWay
  /\ \A m \in Messages : pc[m] = "single" => ~Chunked(m)
  /\ ~stale => \A m \in Messages : AckInSlot(m) /\ AckLoaded(m)

\* An acknowledgement stays true: a completed id is never pending again.
LEMMA AckStable ==
  ASSUME [Next]_vars, NEW k, Acknowledged(k)
  PROVE  Acknowledged(k)'
<1> USE DEF Acknowledged, AlreadyCompleted, pendingVars
<1>1. CASE \E m \in Messages : Application(m)
  BY <1>1 DEF Application, Start, SendSingle, Register, SendChunk, RequestLost, PollTimeout, PollLoad,
              PollClear, LockForResend, ResendChunk, ResendNull, ResendDone, Unregister, FreeSlot
<1>2. CASE \E p \in net : SpTake(p) \/ Lose(p)
  BY <1>2 DEF SpTake, Lose
<1>3. CASE \E p \in net : Receive(p)
  BY <1>3 DEF Receive, RxDropCompleted, RxFirstChunk, RxSingle, RxDuplicate, RxLastMissing, RxChunk,
              RxLostRequestFound, RxLostRequestCompleted, RxLostRequestUnknown
<1>4. CASE SpStore
  BY <1>4 DEF SpStore, SpCopyLost, SpPublishLost, SpPublishSuccess, SpUpdateDelay
<1>5. CASE RxAnswerLost \/ Callback \/ SetHandler \/ UNCHANGED vars
  BY <1>5 DEF RxAnswerLost, Callback, CbTake, CbRemove, CbCall, SetHandler, vars
<1> QED BY <1>1, <1>2, <1>3, <1>4, <1>5 DEF Next

\* Only SpTake, SpStore and the application threads touch the sender's state.
LEMMA SenderFrame ==
  ASSUME [Next]_vars
  PROVE  \/ \E m \in Messages : Application(m)
         \/ \E p \in net : SpTake(p)
         \/ SpStore
         \/ UNCHANGED <<appVars, sendingVars, sp, crashed, stale>>
<1>1. CASE \E p \in net : Receive(p) \/ Lose(p)
  BY <1>1 DEF Receive, RxDropCompleted, RxFirstChunk, RxSingle, RxDuplicate, RxLastMissing, RxChunk,
              RxLostRequestFound, RxLostRequestCompleted, RxLostRequestUnknown, Lose, history
<1>2. CASE RxAnswerLost \/ Callback \/ SetHandler \/ UNCHANGED vars
  BY <1>2 DEF RxAnswerLost, Callback, CbTake, CbRemove, CbCall, SetHandler, vars, history
<1> QED BY <1>1, <1>2 DEF Next

\* A slot is handed to one send and taken back after it.
LEMMA SlotsStep ==
  ASSUME TypeInv, SlotsOwned, [Next]_vars
  PROVE  SlotsOwned'
<1> USE DEF SlotsOwned, TypeInv, SenderInv, SenderTypeOK
<1>1. ASSUME NEW m \in Messages, Application(m) PROVE SlotsOwned'
  <2>1. CASE Register(m)
    BY <2>1 DEF Register, Registered
  <2>2. CASE FreeSlot(m)
    BY <2>2 DEF FreeSlot, Registered
  <2>3. SUFFICES ASSUME ~Register(m), ~FreeSlot(m)
                 PROVE  /\ UNCHANGED <<slot, free_slots>>
                        /\ \A n \in Messages : pc'[n] \in Registered => pc[n] \in Registered
    BY <2>1, <2>2
  <2>4. UNCHANGED <<slot, free_slots>>
    BY <1>1, <2>3 DEF Application, Start, SendSingle, SendChunk, RequestLost, PollTimeout, PollLoad, PollClear,
                LockForResend, ResendChunk, ResendNull, ResendDone, Unregister, appVars, sendingVars
  <2>5. ASSUME NEW n \in Messages, pc'[n] \in Registered PROVE pc[n] \in Registered
    <3>1. \/ pc' = pc
          \/ pc' = [pc EXCEPT ![m] = IF Chunked(m) THEN "register" ELSE "single"]
          \/ pc' = [pc EXCEPT ![m] = "returned"]
          \/ pc[m] \in Registered /\ \E l : pc' = [pc EXCEPT ![m] = l]
      BY <1>1, <2>3 DEF Application, Start, SendSingle, SendChunk, RequestLost, PollTimeout, PollLoad, PollClear,
                LockForResend, ResendChunk, ResendNull, ResendDone, Unregister, appVars, Registered
    <3> QED BY <2>5, <3>1 DEF Registered
  <2> QED BY <2>4, <2>5
<1>2. ASSUME NEW p \in net, SpTake(p) PROVE SlotsOwned'
  BY <1>2 DEF SpTake, appVars, sendingVars
<1>3. CASE SpStore
  BY <1>3 DEF SpStore, SpCopyLost, SpPublishLost, SpPublishSuccess, SpUpdateDelay, appVars
<1>4. CASE UNCHANGED <<appVars, sendingVars, sp, crashed, stale>>
  BY <1>4 DEF appVars, sendingVars
<1> QED BY <1>1, <1>2, <1>3, <1>4, SenderFrame

\* What is put into the network is all that is new in it.
LEMMA PutIn ==
  ASSUME NEW held, NEW q
  PROVE  \A p \in Put(held, q) : p \in held \/ p = q
BY DEF Put

\* A SUCCESS enters the network only for a completed message whose callback
\* has begun, and the processing thread takes it from there.
LEMMA OnTheWayStep ==
  ASSUME TypeInv, AckOnTheWay, [Next]_vars
  PROVE  AckOnTheWay'
<1>1. ASSUME NEW p \in net', p.type = "SUCCESS", p \notin net PROVE Acknowledged(htons(p.id))
  <2>1. ASSUME NEW m \in Messages, Application(m) PROVE FALSE
    <3>1. UNCHANGED net \/ (\E c : net' = Put(net, DataPacket(m, c))) \/ net' = Put(net, LostRequest(m))
      BY <2>1 DEF Application, Start, SendSingle, Register, SendChunk, RequestLost, PollTimeout, PollLoad,
                  PollClear, LockForResend, ResendChunk, ResendNull, ResendDone, Unregister, FreeSlot
    <3>2. \A c : DataPacket(m, c).type = "DATA" /\ LostRequest(m).type = "LOST_REQUEST"
      BY DEF DataPacket, LostRequest
    <3> QED BY <1>1, <3>1, <3>2, PutIn
  <2>2. ASSUME NEW q \in net, RxLostRequestCompleted(q) PROVE Acknowledged(htons(p.id))
    <3>1. p = Success(q.id) /\ q.id \in Ids
      BY <1>1, <2>2, PutIn DEF RxLostRequestCompleted, Rest, TypeInv, Packet, ToSenderPacket
    <3>2. htons(p.id) = q.id
      BY <3>1, Htons DEF Success
    <3> QED BY <2>2, <3>2 DEF RxLostRequestCompleted, HasPending, AlreadyCompleted, Acknowledged
  <2>3. ASSUME NEW q \in net, RxChunk(q) PROVE FALSE
    BY <1>1, <2>3, PutIn DEF RxChunk, Rest, DelayUpdate
  <2>4. CASE RxAnswerLost
    BY <1>1, <2>4, PutIn DEF RxAnswerLost, LostResponse
  <2>5. ASSUME NEW q \in net, \/ SpTake(q) \/ Lose(q) \/ RxDropCompleted(q) \/ RxFirstChunk(q)
                              \/ RxSingle(q) \/ RxDuplicate(q) \/ RxLastMissing(q)
                              \/ RxLostRequestFound(q) \/ RxLostRequestUnknown(q)
        PROVE FALSE
    BY <1>1, <2>5 DEF SpTake, Lose, RxDropCompleted, RxFirstChunk, RxSingle, RxDuplicate, RxLastMissing,
                      RxLostRequestFound, RxLostRequestUnknown, Rest
  <2>6. CASE SpStore \/ Callback \/ SetHandler \/ UNCHANGED vars
    BY <1>1, <2>6 DEF SpStore, SpCopyLost, SpPublishLost, SpPublishSuccess, SpUpdateDelay,
                      Callback, CbTake, CbRemove, CbCall, SetHandler, vars
  <2> QED BY <2>1, <2>2, <2>3, <2>4, <2>5, <2>6 DEF Next, Receive
<1>2. \A p \in net' : p.type = "SUCCESS" => Acknowledged(htons(p.id))
  BY <1>1 DEF AckOnTheWay
<1>3. sp'.at # "idle" /\ sp'.packet.type = "SUCCESS" => Acknowledged(htons(sp'.packet.id))
  <2>1. ASSUME NEW p \in net, SpTake(p)
        PROVE  sp' = sp \/ sp'.packet = p
    BY <2>1 DEF SpTake
  <2>2. CASE SpStore
    <3>1. sp' = [at |-> "idle"] \/ (sp.packet.type = "LOST_RESPONSE" /\ sp' = [sp EXCEPT !.at = "copied"])
      BY <2>2 DEF SpStore, SpCopyLost, SpPublishLost, SpPublishSuccess, SpUpdateDelay
    <3>2. sp.at # "idle" => sp \in [at : {"found", "copied"}, packet : ToSenderPacket, slot : Slots]
      BY DEF TypeInv, SenderInv, SenderTypeOK
    <3>3. sp.at # "idle"
      BY <2>2 DEF SpStore, SpCopyLost, SpPublishLost, SpPublishSuccess, SpUpdateDelay
    <3> QED BY <3>1, <3>2, <3>3
  <2>3. ASSUME NEW m \in Messages, Application(m) PROVE sp' = sp
    BY <2>3 DEF Application, Start, SendSingle, Register, SendChunk, RequestLost, PollTimeout, PollLoad,
                PollClear, LockForResend, ResendChunk, ResendNull, ResendDone, Unregister, FreeSlot
  <2> QED BY <2>1, <2>2, <2>3, SenderFrame DEF AckOnTheWay
<1>4. \A x : Acknowledged(x) => Acknowledged(x)'
  BY AckStable
<1> QED BY <1>2, <1>3, <1>4 DEF AckOnTheWay

\* What an application thread does to the updates in the slots: it clears
\* them. Who becomes registered finds none.
LEMMA ApplicationUpdates ==
  ASSUME TypeInv, NEW m \in Messages, Application(m)
  PROVE  /\ \A s \in Slots : memory'[s].updated \in {memory[s].updated, "NO_UPDATE"}
         /\ \A n \in Messages : pc[n] # "start" => id'[n] = id[n]
         /\ \A n \in Messages : pc'[n] \in Registered =>
              \/ pc[n] \in Registered /\ slot'[n] = slot[n]
              \/ memory'[slot'[n]].updated = "NO_UPDATE"
<1> USE DEF TypeInv, SenderInv, SenderTypeOK
<1>1. CASE Register(m)
  BY <1>1 DEF Register, NewSlot, Registered
<1>2. CASE PollClear(m)
  <2>1. slot[m] \in Slots
    BY <1>2 DEF PollClear, Registered
  <2>2. \A s \in Slots : memory'[s].updated \in {memory[s].updated, "NO_UPDATE"}
    BY <1>2, <2>1 DEF PollClear
  <2>3. UNCHANGED <<id, slot>> /\ \A n \in Messages : pc'[n] \in Registered => pc[n] \in Registered
    BY <1>2 DEF PollClear, Registered
  <2> QED BY <2>2, <2>3
<1>3. CASE Start(m)
  BY <1>3 DEF Start, Registered, sendingVars
<1>4. SUFFICES ASSUME ~Register(m), ~PollClear(m), ~Start(m)
               PROVE  /\ UNCHANGED <<memory, id, slot>>
                      /\ \A n \in Messages : pc'[n] \in Registered => pc[n] \in Registered
  BY <1>1, <1>2, <1>3
<1>5. UNCHANGED <<memory, id, slot>>
  BY <1>4 DEF Application, SendSingle, SendChunk, RequestLost, PollTimeout, PollLoad, LockForResend, ResendChunk,
              ResendNull, ResendDone, Unregister, FreeSlot, appVars, sendingVars
<1>6. \/ pc' = pc
      \/ pc' = [pc EXCEPT ![m] = "returned"]
      \/ pc[m] \in Registered /\ \E l : pc' = [pc EXCEPT ![m] = l]
  BY <1>4 DEF Application, SendSingle, SendChunk, RequestLost, PollTimeout, PollLoad, LockForResend, ResendChunk,
              ResendNull, ResendDone, Unregister, FreeSlot, appVars, Registered
<1>7. \A n \in Messages : pc'[n] \in Registered => pc[n] \in Registered
  BY <1>6 DEF Registered
<1> QED BY <1>5, <1>7

\* When a thread may believe its message acknowledged.
Believes(m) ==
  \/ pc[m] = "clear" /\ status[m] = SUCCESS
  \/ pc[m] \in {"finish", "free"}
  \/ pc[m] = "returned" /\ Chunked(m)

\* A thread comes to believe it only by loading it from its slot.
LEMMA ApplicationBelieves ==
  ASSUME TypeInv, AckInv, NEW m \in Messages, Application(m), NEW n \in Messages, Believes(n)'
  PROVE  /\ pc[n] # "start"
         /\ Believes(n) \/ (pc[n] \in Registered /\ memory[slot[n]].updated = SUCCESS)
<1> USE DEF TypeInv, SenderInv, SenderTypeOK, Believes, SUCCESS
<1>1. CASE n # m
  <2>1. pc'[n] = pc[n] /\ status'[n] = status[n]
    BY <1>1 DEF Application, Start, SendSingle, Register, SendChunk, RequestLost, PollTimeout, PollLoad, PollClear,
                LockForResend, ResendChunk, ResendNull, ResendDone, Unregister, FreeSlot, appVars
  <2> QED BY <2>1
<1>2. CASE n = m
  <2> USE <1>2
  <2>1. CASE PollLoad(m)
    BY <2>1 DEF PollLoad, Registered
  <2>2. CASE PollClear(m)
    BY <2>2 DEF PollClear
  <2>3. CASE Unregister(m) \/ FreeSlot(m)
    BY <2>3 DEF Unregister, FreeSlot
  <2>4. CASE SendSingle(m)
    BY <2>4 DEF SendSingle, AckInv
  <2>5. CASE Start(m) \/ Register(m)
    BY <2>5 DEF Start, Register
  <2>6. CASE SendChunk(m) \/ RequestLost(m) \/ PollTimeout(m)
    BY <2>6 DEF SendChunk, RequestLost, PollTimeout
  <2>7. CASE LockForResend(m) \/ ResendChunk(m) \/ ResendNull(m) \/ ResendDone(m)
    BY <2>7 DEF LockForResend, ResendChunk, ResendNull, ResendDone, appVars
  <2> QED BY <2>1, <2>2, <2>3, <2>4, <2>5, <2>6, <2>7 DEF Application
<1> QED BY <1>1, <1>2

\* The slot and what its owner loads from it.
LEMMA SlotStep ==
  ASSUME TypeInv, AckInv, [Next]_vars, ~stale'
  PROVE  \A n \in Messages : AckInSlot(n)' /\ AckLoaded(n)'
<1> USE DEF AckInSlot, AckLoaded
<1> SUFFICES ASSUME NEW n \in Messages PROVE AckInSlot(n)' /\ AckLoaded(n)'
  OBVIOUS
<1>1. \A x : Acknowledged(x) => Acknowledged(x)'
  BY AckStable
<1>2. \A m \in Messages : pc[m] \in Registered => slot[m] \in Slots
  BY DEF TypeInv, SenderInv
<1>3. ASSUME NEW m \in Messages, Application(m) PROVE AckInSlot(n)' /\ AckLoaded(n)'
  <2>1. ~stale
    BY <1>3 DEF Application, Start, SendSingle, Register, SendChunk, RequestLost, PollTimeout, PollLoad,
                PollClear, LockForResend, ResendChunk, ResendNull, ResendDone, Unregister, FreeSlot, history
  <2>2. AckInSlot(n) /\ AckLoaded(n)
    BY <2>1 DEF AckInv
  <2>3. pc'[n] \in Registered /\ memory'[slot'[n]].updated = SUCCESS => Acknowledged(htons(id[n])) /\ pc[n] # "start"
    <3>1. SUCCESS # "NO_UPDATE" /\ "start" \notin Registered
      BY DEF SUCCESS, Registered
    <3> QED BY <1>2, <1>3, <2>2, <3>1, ApplicationUpdates
  <2>4. Believes(n)' => Acknowledged(htons(id[n])) /\ pc[n] # "start"
    BY <1>3, <2>2, ApplicationBelieves DEF Believes
  <2>5. pc[n] # "start" => id'[n] = id[n]
    BY <1>3, ApplicationUpdates
  <2> QED BY <2>3, <2>4, <2>5, <1>1 DEF Believes
<1>4. CASE \/ \E p \in net : SpTake(p)
           \/ UNCHANGED <<appVars, sendingVars, sp, crashed, stale>>
  <2>1. UNCHANGED <<appVars, memory, stale>>
    BY <1>4 DEF SpTake, sendingVars
  <2>2. AckInSlot(n) /\ AckLoaded(n)
    BY <2>1 DEF AckInv
  <2> QED BY <1>1, <2>1, <2>2 DEF appVars
<1>5. CASE SpStore
  <2>1. UNCHANGED appVars /\ ~stale /\ ~StaleSlot
    BY <1>5 DEF SpStore, SpCopyLost, SpPublishLost, SpPublishSuccess, SpUpdateDelay
  <2>2. AckInSlot(n) /\ AckLoaded(n)
    BY <2>1 DEF AckInv
  <2>3. AckLoaded(n)'
    BY <1>1, <2>1, <2>2 DEF appVars
  <2>4. sp.slot \in Slots /\ memory \in [Slots -> [lost : Seq(Nat), size : Nat, updated : Updates]]
    BY <1>5 DEF SpStore, SpCopyLost, SpPublishLost, SpPublishSuccess, SpUpdateDelay, TypeInv, SenderInv, SenderTypeOK
  <2>5. CASE SpPublishSuccess
    <3>1. PICK m \in Messages : pc[m] \in Registered /\ slot[m] = sp.slot /\ id[m] = sp.packet.id
      BY <2>1 DEF StaleSlot
    <3>2. Acknowledged(htons(id[m]))
      BY <2>5, <3>1 DEF SpPublishSuccess, AckInv, AckOnTheWay
    <3>3. pc[n] \in Registered /\ slot[n] = sp.slot => n = m
      BY <3>1 DEF AckInv, SlotsOwned
    <3>4. pc[n] \in Registered /\ slot[n] # sp.slot => memory'[slot[n]] = memory[slot[n]]
      BY <1>2, <2>4, <2>5 DEF SpPublishSuccess
    <3> QED BY <1>1, <2>1, <2>2, <2>3, <3>2, <3>3, <3>4 DEF appVars
  <2>6. CASE SpCopyLost \/ SpPublishLost \/ SpUpdateDelay
    <3>1. \A s \in Slots : memory'[s].updated \in {memory[s].updated, "UPDATED_LOST_CHUNKS"}
      <4>1. CASE SpCopyLost
        BY <2>4, <4>1 DEF SpCopyLost
      <4>2. CASE SpPublishLost
        <5> DEFINE sized == [memory EXCEPT ![sp.slot].size = Len(sp.packet.lost)]
        <5>1. \A s \in Slots : sized[s].updated = memory[s].updated
          BY <2>4
        <5>2. DOMAIN sized = Slots /\ \A s \in Slots : "updated" \in DOMAIN sized[s]
          BY <2>4
        <5>3. memory' = [sized EXCEPT ![sp.slot].updated = "UPDATED_LOST_CHUNKS"]
          BY <4>2 DEF SpPublishLost
        <5> HIDE DEF sized
        <5> QED BY <2>4, <5>1, <5>2, <5>3
      <4> QED BY <2>6, <4>1, <4>2 DEF SpUpdateDelay
    <3>2. SUCCESS # "UPDATED_LOST_CHUNKS"
      BY DEF SUCCESS
    <3> QED BY <1>1, <1>2, <2>1, <2>2, <2>3, <3>1, <3>2 DEF appVars
  <2> QED BY <1>5, <2>5, <2>6 DEF SpStore
<1> QED BY <1>3, <1>4, <1>5, SenderFrame

LEMMA AckInit == Init => AckInv
BY DEF Init, AckInv, SlotsOwned, AckOnTheWay, AckInSlot, AckLoaded, Registered

LEMMA AckStep == TypeInv /\ AckInv /\ [Next]_vars => AckInv'
<1> SUFFICES ASSUME TypeInv, AckInv, [Next]_vars PROVE AckInv'
  OBVIOUS
<1>1. SlotsOwned' /\ AckOnTheWay'
  BY SlotsStep, OnTheWayStep DEF AckInv
<1>2. \A m \in Messages : pc'[m] = "single" => ~Chunked(m)
  <2>1. ASSUME NEW n \in Messages, Application(n)
        PROVE  \A m \in Messages : pc'[m] = "single" => ~Chunked(m)
    <3>1. pc \in [Messages -> Locals]
      BY DEF TypeInv, SenderInv, SenderTypeOK
    <3>2. CASE Start(n)
      BY <3>1, <3>2 DEF Start, AckInv
    <3>3. CASE ~Start(n)
      <4>1. pc' = pc \/ \E l : l # "single" /\ pc' = [pc EXCEPT ![n] = l]
        BY <2>1, <3>3 DEF Application, SendSingle, Register, SendChunk, RequestLost, PollTimeout, PollLoad,
                PollClear, LockForResend, ResendChunk, ResendNull, ResendDone, Unregister, FreeSlot, appVars
      <4> QED BY <3>1, <4>1 DEF AckInv
    <3> QED BY <3>2, <3>3
  <2>2. ASSUME \/ \E p \in net : SpTake(p)
               \/ SpStore
               \/ UNCHANGED <<appVars, sendingVars, sp, crashed, stale>>
        PROVE  pc' = pc
    BY <2>2 DEF SpTake, SpStore, SpCopyLost, SpPublishLost, SpPublishSuccess, SpUpdateDelay, appVars
  <2> QED BY <2>1, <2>2, SenderFrame DEF AckInv
<1> QED BY <1>1, <1>2, SlotStep DEF AckInv

\* However packets are lost, duplicated and reordered, and however threads
\* interleave, a chunked send returns only once the receiver completed its
\* message and handed it over, unless an answer was written through a slot
\* pointer that had outlived its send.
THEOREM SendReturnsAcknowledged == Spec => []ReturnIsAcknowledged
<1>1. Init => TypeInv /\ AckInv
  BY TypeInit, AckInit
<1>2. TypeInv /\ AckInv /\ [Next]_vars => (TypeInv /\ AckInv)'
  BY TypeStep, AckStep
<1>3. AckInv => ReturnIsAcknowledged
  BY DEF AckInv, AckLoaded, ReturnIsAcknowledged
<1> QED BY <1>1, <1>2, <1>3, PTL DEF Spec

-----------------------------------------------------------------------------
(* An id is completed once, and what is completed moves from the queue to  *)
(* the callback thread to the handler without being copied.                *)

OnceInv ==
  /\ \A i \in 1 .. Len(callback_queue) :
       /\ callback_queue[i].key \in packets_completed
       /\ \A j \in 1 .. Len(callback_queue) : callback_queue[i].key = callback_queue[j].key => i = j
       /\ cb.at # "idle" => callback_queue[i].key # cb.node.key
  /\ cb.at # "idle" => cb.node.key \in packets_completed
  /\ \A i \in 1 .. Len(delivered) :
       /\ delivered[i].key \in packets_completed
       /\ \A j \in 1 .. Len(delivered) : delivered[i].key = delivered[j].key => i = j
       /\ \A j \in 1 .. Len(callback_queue) : delivered[i].key # callback_queue[j].key
       /\ cb.at # "idle" => delivered[i].key # cb.node.key

\* Completing a message queues it under an id that was not completed before.
LEMMA OnceCompletes ==
  ASSUME TypeInv, OnceInv, NEW k, k \notin packets_completed, NEW node, node.key = k,
         callback_queue' = Append(callback_queue, node),
         packets_completed' = packets_completed \cup {k}, UNCHANGED <<cb, delivered>>
  PROVE  OnceInv'
<1>1. callback_queue \in Seq(Node)
  BY DEF TypeInv, CallbackTypeOK
<1>2. /\ Len(callback_queue') = Len(callback_queue) + 1
      /\ \A i \in 1 .. Len(callback_queue) : callback_queue'[i] = callback_queue[i]
      /\ callback_queue'[Len(callback_queue) + 1] = node
      /\ Len(callback_queue) \in Nat
  BY <1>1
<1>3. \A i \in 1 .. Len(callback_queue') :
        \/ i \in 1 .. Len(callback_queue) /\ callback_queue'[i] = callback_queue[i]
        \/ i = Len(callback_queue) + 1 /\ callback_queue'[i].key = k
  BY <1>2
<1> QED BY <1>3 DEF OnceInv

\* The callback thread takes the oldest node, and hands it to the handler.
LEMMA OnceCallback ==
  ASSUME TypeInv, OnceInv, Callback
  PROVE  OnceInv'
<1>1. callback_queue \in Seq(Node) /\ delivered \in Seq(Handled)
  BY DEF TypeInv, CallbackTypeOK
<1>2. CASE CbTake
  <2>1. /\ Len(callback_queue) \in Nat /\ Len(callback_queue') = Len(callback_queue) - 1
        /\ \A i \in 1 .. Len(callback_queue') :
             i + 1 \in 1 .. Len(callback_queue) /\ callback_queue'[i] = callback_queue[i + 1]
        /\ 1 \in 1 .. Len(callback_queue)
    BY <1>1, <1>2 DEF CbTake
  <2>2. cb'.node = callback_queue[1]
    BY <1>1, <1>2 DEF CbTake
  <2>3. UNCHANGED <<packets_completed, delivered>>
    BY <1>2 DEF CbTake, pendingVars
  <2>4. \A i \in 1 .. Len(callback_queue') :
          /\ callback_queue'[i].key \in packets_completed
          /\ callback_queue'[i].key # callback_queue[1].key
          /\ \A j \in 1 .. Len(callback_queue') : callback_queue'[i].key = callback_queue'[j].key => i = j
    <3> SUFFICES ASSUME NEW i \in 1 .. Len(callback_queue')
                 PROVE  /\ callback_queue[i + 1].key \in packets_completed
                        /\ callback_queue[i + 1].key # callback_queue[1].key
                        /\ \A j \in 1 .. Len(callback_queue') :
                             callback_queue[i + 1].key = callback_queue[j + 1].key => i = j
      BY <2>1
    <3>1. i + 1 \in 1 .. Len(callback_queue) /\ i + 1 # 1
      BY <2>1
    <3>2. /\ callback_queue[i + 1].key \in packets_completed
          /\ \A j \in 1 .. Len(callback_queue) : callback_queue[i + 1].key = callback_queue[j].key => i + 1 = j
      BY <3>1 DEF OnceInv
    <3> QED BY <2>1, <3>1, <3>2
  <2>5. \A i \in 1 .. Len(delivered) :
          /\ \A j \in 1 .. Len(callback_queue') : delivered[i].key # callback_queue'[j].key
          /\ delivered[i].key # callback_queue[1].key
    BY <2>1 DEF OnceInv
  <2> QED BY <2>1, <2>2, <2>3, <2>4, <2>5 DEF OnceInv
<1>3. CASE CbRemove
  <2>1. cb'.node = cb.node /\ cb.at # "idle"
    <3>1. cb \in [at : {"remove", "call"}, node : Node, handler : BOOLEAN]
      BY <1>3 DEF CbRemove, TypeInv, CallbackTypeOK
    <3> QED BY <1>3, <3>1 DEF CbRemove
  <2>2. UNCHANGED <<callback_queue, packets_completed, delivered>>
    BY <1>3 DEF CbRemove
  <2> QED BY <2>1, <2>2 DEF OnceInv
<1>4. CASE CbCall
  <2>1. cb'.at = "idle" /\ cb.at # "idle" /\ UNCHANGED <<callback_queue, packets_completed>>
    BY <1>4 DEF CbCall, pendingVars
  <2>2. CASE ~cb.handler
    BY <1>4, <2>1, <2>2 DEF CbCall, OnceInv
  <2>3. CASE cb.handler
    <3>1. /\ Len(delivered) \in Nat /\ Len(delivered') = Len(delivered) + 1
          /\ \A i \in 1 .. Len(delivered) : delivered'[i] = delivered[i]
          /\ delivered'[Len(delivered) + 1].key = cb.node.key
      BY <1>1, <1>4, <2>3 DEF CbCall
    <3>2. \A i \in 1 .. Len(delivered') :
            \/ i \in 1 .. Len(delivered) /\ delivered'[i] = delivered[i]
            \/ i = Len(delivered) + 1 /\ delivered'[i].key = cb.node.key
      BY <3>1
    <3> QED BY <2>1, <3>2 DEF OnceInv
  <2> QED BY <2>2, <2>3
<1> QED BY <1>2, <1>3, <1>4 DEF Callback

LEMMA OnceStep == TypeInv /\ OnceInv /\ [Next]_vars => OnceInv'
<1> SUFFICES ASSUME TypeInv, OnceInv, [Next]_vars PROVE OnceInv'
  OBVIOUS
<1>1. ASSUME NEW p \in net, RxSingle(p) \/ RxLastMissing(p) PROVE OnceInv'
  <2>1. p.id \notin packets_completed
    BY <1>1 DEF RxSingle, RxLastMissing, NewChunk, AlreadyCompleted
  <2>2. \E nd : nd.key = p.id /\ callback_queue' = Append(callback_queue, nd)
    <3>1. \A b : [key |-> p.id, msg |-> p.msg, pending |-> b].key = p.id
      OBVIOUS
    <3> QED BY <1>1, <3>1 DEF RxSingle, RxLastMissing
  <2>3. packets_completed' = packets_completed \cup {p.id} /\ UNCHANGED <<cb, delivered>>
    BY <1>1 DEF RxSingle, RxLastMissing
  <2> QED BY <2>1, <2>2, <2>3, OnceCompletes
<1>2. CASE Callback
  BY <1>2, OnceCallback
<1>3. SUFFICES ASSUME ~Callback, \A p \in net : ~RxSingle(p) /\ ~RxLastMissing(p)
               PROVE  UNCHANGED <<callback_queue, cb, delivered, packets_completed>>
  BY <1>1, <1>2 DEF OnceInv
<1> USE DEF callbackVars, pendingVars
<1>4. CASE \E m \in Messages : Application(m)
  BY <1>4 DEF Application, Start, SendSingle, Register, SendChunk, RequestLost, PollTimeout, PollLoad,
              PollClear, LockForResend, ResendChunk, ResendNull, ResendDone, Unregister, FreeSlot
<1>5. CASE \E p \in net : SpTake(p) \/ Lose(p)
  BY <1>5 DEF SpTake, Lose
<1>6. CASE \E p \in net : Receive(p)
  BY <1>3, <1>6 DEF Receive, RxDropCompleted, RxFirstChunk, RxDuplicate, RxChunk,
                    RxLostRequestFound, RxLostRequestCompleted, RxLostRequestUnknown
<1>7. CASE SpStore
  BY <1>7 DEF SpStore, SpCopyLost, SpPublishLost, SpPublishSuccess, SpUpdateDelay
<1>8. CASE RxAnswerLost \/ SetHandler \/ UNCHANGED vars
  BY <1>8 DEF RxAnswerLost, SetHandler, vars
<1> QED BY <1>3, <1>4, <1>5, <1>6, <1>7, <1>8 DEF Next

\* However often the packets of an id arrive, the handler is called for it
\* once: the history of completed ids and the hand-over to the callback
\* thread admit no second delivery.
THEOREM IdHandledOnce == Spec => []HandledAtMostOnce
<1>1. Init => TypeInv /\ OnceInv
  <2>1. Init => OnceInv
    BY DEF Init, OnceInv
  <2> QED BY <2>1, TypeInit
<1>2. TypeInv /\ OnceInv /\ [Next]_vars => (TypeInv /\ OnceInv)'
  BY TypeStep, OnceStep
<1>3. TypeInv /\ OnceInv => HandledAtMostOnce
  <2> SUFFICES ASSUME TypeInv, OnceInv PROVE HandledAtMostOnce
    OBVIOUS
  <2>1. DOMAIN delivered = 1 .. Len(delivered)
    BY DEF TypeInv, CallbackTypeOK
  <2> QED BY <2>1 DEF OnceInv, HandledAtMostOnce
<1> QED BY <1>1, <1>2, <1>3, PTL DEF Spec
=============================================================================
