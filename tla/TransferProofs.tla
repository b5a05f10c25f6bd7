--------------------------- MODULE TransferProofs ---------------------------
(* Proofs about Transfer, for every value of its constants.                *)
EXTENDS Transfer, FiniteSetTheorems, SequenceTheorems, TLAPS

-----------------------------------------------------------------------------
(* Geometry and ids.                                                       *)

\* The chunk size is positive, so a message has at least one chunk.
LEMMA Geometry ==
  ASSUME NEW m \in Messages
  PROVE  /\ ChunkData \in Nat \ {0}
         /\ Length[m] \in Nat
         /\ ChunkAmount(m) \in Nat
<1>1. ChunkData \in Nat \ {0} /\ Length[m] \in Nat
  BY TransferAssumption DEF ChunkData
<1>2. Length[m] + ChunkData - 1 \in Nat
  BY <1>1
<1>3. ChunkAmount(m) \in Nat
  BY <1>1, <1>2, SMT DEF ChunkAmount
<1> QED BY <1>1, <1>3

\* htons permutes the ids and undoes itself.
LEMMA Htons ==
  ASSUME NEW x \in Ids
  PROVE  htons(x) \in Ids /\ htons(htons(x)) = x
BY DEF Ids, htons

\* A list of lost chunks is a sequence of chunk indexes.
LEMMA LostListsType ==
  ASSUME NEW n \in Nat, NEW missing \in SUBSET (0 .. n - 1), NEW ls \in LostLists(missing)
  PROVE  /\ ls \in Seq(Nat)
         /\ \A i \in 1 .. Len(ls) : ls[i] \in missing
<1>1. IsFiniteSet(missing)
  <2>1. IsFiniteSet(0 .. n - 1)
    BY 0 \in Int, n - 1 \in Int, FS_Interval
  <2> QED BY <2>1, FS_Subset
<1>2. Cardinality(missing) \in Nat
  BY <1>1, FS_CardinalityType
<1> DEFINE N == IF Cardinality(missing) < LostCap THEN Cardinality(missing) ELSE LostCap
<1>3. N \in Nat
  BY <1>2, TransferAssumption
<1>4. ls \in [1 .. N -> missing]
  BY DEF LostLists
<1>5. missing \subseteq Nat
  OBVIOUS
<1> HIDE DEF N
<1>6. ls \in Seq(missing) /\ Len(ls) = N
  BY <1>3, <1>4
<1>7. ls \in Seq(Nat)
  BY <1>5, <1>6, SeqMonotonic
<1> QED BY <1>3, <1>4, <1>6, <1>7

\* Overwriting a list of indexes with another gives a list of indexes.
LEMMA OverwriteType ==
  ASSUME NEW old \in Seq(Nat), NEW new \in Seq(Nat)
  PROVE  /\ Overwrite(old, new) \in Seq(Nat)
         /\ Len(Overwrite(old, new)) >= Len(new)
BY DEF Overwrite

-----------------------------------------------------------------------------
(* The type invariant. It is not inductive by itself: a thread past its    *)
(* first step has an id, a registered one a slot, and the key the          *)
(* processing thread or the map holds is that of a pending message.        *)

SenderInv ==
  /\ SenderTypeOK
  /\ \A m \in Messages : pc[m] # "start" => id[m] \in Ids
  /\ \A m \in Messages : pc[m] \in Registered => slot[m] \in Slots
  /\ sp.at = "copied" => sp.packet.type = "LOST_RESPONSE"

ReceiverInv ==
  /\ ReceiverTypeOK
  /\ \A k \in pending_messages : pending[k] # None
  /\ rp.at = "answer" => pending[rp.key] # None

TypeInv == SenderInv /\ net \subseteq Packet /\ ReceiverInv /\ CallbackTypeOK

\* Who does not touch a part keeps its types.
LEMMA Frames ==
  /\ SenderInv /\ UNCHANGED <<appVars, sendingVars, sp, crashed, stale>> => SenderInv'
  /\ ReceiverInv /\ UNCHANGED <<pendingVars, rp, used_after_free>> => ReceiverInv'
  /\ CallbackTypeOK /\ UNCHANGED callbackVars => CallbackTypeOK'
<1>1. SenderInv /\ UNCHANGED <<appVars, sendingVars, sp, crashed, stale>> => SenderInv'
  BY DEF SenderInv, SenderTypeOK, appVars, sendingVars
<1>2. ReceiverInv /\ UNCHANGED <<pendingVars, rp, used_after_free>> => ReceiverInv'
  BY DEF ReceiverInv, ReceiverTypeOK, pendingVars
<1>3. CallbackTypeOK /\ UNCHANGED callbackVars => CallbackTypeOK'
  BY DEF CallbackTypeOK, callbackVars
<1> QED BY <1>1, <1>2, <1>3

\* Putting packets into the network and taking them out keeps it typed.
LEMMA NetType ==
  ASSUME net \subseteq Packet, NEW held \in SUBSET Packet, NEW q \in Packet
  PROVE  Put(held, q) \in SUBSET Packet
BY DEF Put

LEMMA RestType ==
  ASSUME net \subseteq Packet, NEW p
  PROVE  \A held \in Rest(p) : held \in SUBSET Packet
BY DEF Rest

\* Each packet constructor gives a packet.
LEMMA PacketTypes ==
  ASSUME TypeInv
  PROVE  /\ \A m \in Messages, c \in Nat : pc[m] # "start" => DataPacket(m, c) \in Packet
         /\ \A m \in Messages : pc[m] # "start" => LostRequest(m) \in Packet
         /\ \A x \in Ids, ls \in Seq(Nat) : LostResponse(x, ls) \in Packet
         /\ \A x \in Ids : Success(x) \in Packet
         /\ \A x \in Ids, v \in Verdicts : DelayUpdate(x, v) \in Packet
<1> USE Htons
<1>1. \A m \in Messages : pc[m] # "start" => htons(id[m]) \in Ids
  BY DEF TypeInv, SenderInv
<1>2. \A m \in Messages, c \in Nat : pc[m] # "start" => DataPacket(m, c) \in Packet
  BY <1>1 DEF DataPacket, Packet
<1>3. \A m \in Messages : pc[m] # "start" => LostRequest(m) \in Packet
  BY <1>1 DEF LostRequest, Packet
<1>4. \A x \in Ids, ls \in Seq(Nat) : LostResponse(x, ls) \in Packet
  BY DEF LostResponse, Packet, ToSenderPacket
<1>5. \A x \in Ids : Success(x) \in Packet
  BY DEF Success, Packet, ToSenderPacket
<1>6. \A x \in Ids, v \in Verdicts : DelayUpdate(x, v) \in Packet
  BY DEF DelayUpdate, Packet, ToSenderPacket
<1> QED BY <1>2, <1>3, <1>4, <1>5, <1>6

LEMMA TypeInit == Init => TypeInv
<1> SUFFICES ASSUME Init PROVE TypeInv
  OBVIOUS
<1> USE DEF Init
<1>1. packets_sending \in [Ids -> Seq(Slots)] /\ callback_queue \in Seq(Node)
  OBVIOUS
<1>2. memory \in [Slots -> [lost : Seq(Nat), size : Nat, updated : Updates]]
  BY DEF NewSlot, Updates
<1>3. pc \in [Messages -> Locals] /\ status \in [Messages -> Updates]
  BY DEF Locals, Updates
<1>4. DOMAIN packet_data = Ids /\ delivered \in Seq(Handled)
  OBVIOUS
<1>5. /\ sp \in [at : {"idle"}] /\ rp \in [at : {"idle"}] /\ cb \in [at : {"idle"}]
      /\ rp.at # "answer" /\ sp.at # "copied"
  OBVIOUS
<1>6. SenderInv
  BY <1>1, <1>2, <1>3, <1>5 DEF SenderInv, SenderTypeOK, Registered
<1>7. ReceiverInv
  BY <1>4, <1>5 DEF ReceiverInv, ReceiverTypeOK
<1>8. CallbackTypeOK
  BY <1>1, <1>4, <1>5 DEF CallbackTypeOK
<1> QED BY <1>6, <1>7, <1>8 DEF TypeInv

\* A step of an application thread keeps the types.
LEMMA TypeApplication ==
  ASSUME TypeInv, NEW m \in Messages, Application(m)
  PROVE  TypeInv'
<1> SUFFICES SenderInv' /\ net' \in SUBSET Packet
  <2>1. UNCHANGED <<pendingVars, rp, callbackVars, used_after_free>>
    BY DEF Application, Start, SendSingle, Register, SendChunk, RequestLost, PollTimeout, PollLoad, PollClear,
           LockForResend, ResendChunk, ResendNull, ResendDone, Unregister, FreeSlot, history
  <2> QED BY <2>1, Frames DEF TypeInv
<1> USE DEF TypeInv, SenderInv, SenderTypeOK, sendingVars, appVars, history
<1>1. CASE Start(m)
  <2>1. RandIds \subseteq Ids
    BY TransferAssumption DEF Ids
  <2> QED BY <1>1, <2>1 DEF Start, Locals, Registered
<1>2. CASE SendSingle(m)
  <2>1. net' \in SUBSET Packet
    BY <1>2, PacketTypes, NetType DEF SendSingle
  <2> QED BY <1>2, <2>1 DEF SendSingle, Locals, Registered
<1>3. CASE Register(m)
  BY <1>3 DEF Register, Locals, Registered, NewSlot, Updates
<1>4. CASE SendChunk(m)
  <2>1. net' \in SUBSET Packet
    BY <1>4, PacketTypes, NetType DEF SendChunk
  <2> QED BY <1>4, <2>1 DEF SendChunk, Locals, Registered
<1>5. CASE RequestLost(m)
  <2>1. net' \in SUBSET Packet
    BY <1>5, PacketTypes, NetType DEF RequestLost
  <2> QED BY <1>5, <2>1 DEF RequestLost, Locals, Registered
<1>6. CASE PollTimeout(m)
  BY <1>6 DEF PollTimeout, Locals, Registered
<1>7. CASE PollLoad(m)
  BY <1>7 DEF PollLoad, Locals, Registered
<1>8. CASE PollClear(m)
  <2>1. memory' \in [Slots -> [lost : Seq(Nat), size : Nat, updated : Updates]]
    BY <1>8 DEF PollClear, Registered, Updates
  <2>2. pc' \in [Messages -> Locals] /\ status' \in [Messages -> Updates]
    BY <1>8 DEF PollClear, Locals, Registered, Updates
  <2>3. pc[m] \in Registered /\ \A n \in Messages : pc'[n] # pc[n] => n = m
    BY <1>8 DEF PollClear, Registered
  <2>4. \A n \in Messages : pc[n] = "start" => pc'[n] = "start"
    BY <1>8 DEF PollClear
  <2> QED BY <1>8, <2>1, <2>2, <2>3, <2>4 DEF PollClear
<1>9. CASE LockForResend(m)
  BY <1>9 DEF LockForResend, Locals, Registered
<1>10. CASE ResendChunk(m)
  <2> DEFINE s == memory[slot[m]]
             c == IF Backend = "PCAP" THEN s.lost[index[m] + 1] ELSE index[m]
  <2>1. s.lost \in Seq(Nat) /\ index[m] \in Nat
    BY <1>10 DEF ResendChunk, Registered
  <2>2. index[m] + 1 \in 1 .. Len(s.lost)
    BY <1>10, <2>1 DEF ResendChunk
  <2>3. c \in Nat
    BY <2>1, <2>2
  <2>4. net' = Put(net, DataPacket(m, c)) /\ pc[m] # "start"
    BY <1>10 DEF ResendChunk
  <2> HIDE DEF c
  <2>5. net' \in SUBSET Packet
    BY <2>3, <2>4, PacketTypes, NetType
  <2>6. index' \in [Messages -> Nat]
    BY <1>10, <2>1 DEF ResendChunk
  <2>7. UNCHANGED <<pc, id, slot, status, sendingVars, sp, pendingVars, rp, callbackVars, history>>
    BY <1>10 DEF ResendChunk
  <2> QED BY <2>5, <2>6, <2>7
<1>11. CASE ResendNull(m)
  BY <1>11 DEF ResendNull
<1>12. CASE ResendDone(m)
  BY <1>12 DEF ResendDone, Locals, Registered
<1>13. CASE Unregister(m)
  BY <1>13 DEF Unregister, Locals, Registered
<1>14. CASE FreeSlot(m)
  BY <1>14 DEF FreeSlot, Locals, Registered
<1> QED
  BY <1>1, <1>2, <1>3, <1>4, <1>5, <1>6, <1>7, <1>8, <1>9, <1>10, <1>11, <1>12, <1>13, <1>14
  DEF Application

\* A step of the sender's processing thread keeps the types.
LEMMA TypeSender ==
  ASSUME TypeInv, SpStore \/ \E p \in net : SpTake(p)
  PROVE  TypeInv'
<1> SUFFICES SenderInv' /\ net' \in SUBSET Packet
  <2>1. UNCHANGED <<pendingVars, rp, callbackVars, used_after_free>>
    BY DEF SpTake, SpStore, SpCopyLost, SpPublishLost, SpPublishSuccess, SpUpdateDelay
  <2> QED BY <2>1, Frames DEF TypeInv
<1> USE DEF TypeInv, SenderInv, SenderTypeOK, sendingVars, appVars
<1>1. ASSUME NEW p \in net, SpTake(p) PROVE SenderInv' /\ net' \in SUBSET Packet
  <2>1. net' \in SUBSET Packet
    BY <1>1, RestType DEF SpTake
  <2>2. p \in ToSenderPacket
    BY <1>1 DEF SpTake, ToSender, Packet
  <2>3. p.id \in Ids
    BY <2>2 DEF ToSenderPacket
  <2>4. GetPacketSending(p.id) # None => GetPacketSending(p.id) \in Slots
    BY <2>3 DEF GetPacketSending
  <2>5. /\ sp' \in [at : {"idle"}] \cup [at : {"found", "copied"}, packet : ToSenderPacket, slot : Slots]
        /\ sp'.at # "copied"
        /\ crashed' \in BOOLEAN
    <3>1. CASE GetPacketSending(p.id) # None
      BY <1>1, <2>2, <2>4, <3>1 DEF SpTake
    <3>2. CASE GetPacketSending(p.id) = None
      <4>1. sp.at = "idle" /\ sp' = sp
        BY <1>1, <3>2 DEF SpTake, ThreadReady
      <4>2. crashed' \in BOOLEAN
        BY <1>1, <3>2 DEF SpTake
      <4> QED BY <4>1, <4>2
    <3> QED BY <3>1, <3>2
  <2> QED BY <1>1, <2>1, <2>5 DEF SpTake
<1>2. CASE SpCopyLost
  <2>1. sp \in [at : {"found", "copied"}, packet : ToSenderPacket, slot : Slots]
    BY <1>2 DEF SpCopyLost
  <2>2. sp.packet.lost \in Seq(Nat) /\ sp.slot \in Slots
    BY <1>2, <2>1 DEF SpCopyLost, ToSenderPacket
  <2>3. Overwrite(memory[sp.slot].lost, sp.packet.lost) \in Seq(Nat)
    BY <2>2, OverwriteType
  <2>4. memory' \in [Slots -> [lost : Seq(Nat), size : Nat, updated : Updates]]
    BY <1>2, <2>2, <2>3 DEF SpCopyLost
  <2>5. /\ sp' \in [at : {"found", "copied"}, packet : ToSenderPacket, slot : Slots]
        /\ sp'.packet.type = "LOST_RESPONSE"
    BY <1>2, <2>1 DEF SpCopyLost
  <2>6. stale' \in BOOLEAN
    BY <1>2 DEF SpCopyLost, StaleSlot
  <2> QED BY <1>2, <2>4, <2>5, <2>6 DEF SpCopyLost
<1>3. CASE SpPublishLost
  <2>1. sp \in [at : {"found", "copied"}, packet : ToSenderPacket, slot : Slots]
    BY <1>3 DEF SpPublishLost
  <2>2. sp.packet.lost \in Seq(Nat) /\ sp.slot \in Slots
    BY <1>3, <2>1 DEF SpPublishLost, ToSenderPacket
  <2>3. memory' \in [Slots -> [lost : Seq(Nat), size : Nat, updated : Updates]]
    <3> DEFINE sized == [memory EXCEPT ![sp.slot].size = Len(sp.packet.lost)]
    <3>0. Len(sp.packet.lost) \in Nat
      BY <2>2
    <3>1. sized \in [Slots -> [lost : Seq(Nat), size : Nat, updated : Updates]]
      BY <2>2, <3>0
    <3>2. memory' = [sized EXCEPT ![sp.slot].updated = "UPDATED_LOST_CHUNKS"]
      BY <1>3 DEF SpPublishLost
    <3> HIDE DEF sized
    <3> QED BY <2>2, <3>1, <3>2 DEF Updates
  <2>4. sp' \in [at : {"idle"}] /\ sp'.at # "copied" /\ stale' \in BOOLEAN
    BY <1>3 DEF SpPublishLost, StaleSlot
  <2> QED BY <1>3, <2>3, <2>4 DEF SpPublishLost
<1>4. CASE SpPublishSuccess
  <2>1. sp.slot \in Slots
    BY <1>4 DEF SpPublishSuccess
  <2>2. memory' \in [Slots -> [lost : Seq(Nat), size : Nat, updated : Updates]]
    BY <1>4, <2>1 DEF SpPublishSuccess, Updates
  <2>3. sp' \in [at : {"idle"}] /\ sp'.at # "copied" /\ stale' \in BOOLEAN
    BY <1>4 DEF SpPublishSuccess, StaleSlot
  <2> QED BY <1>4, <2>2, <2>3 DEF SpPublishSuccess
<1>5. CASE SpUpdateDelay
  <2>1. sp' \in [at : {"idle"}] /\ sp'.at # "copied" /\ stale' \in BOOLEAN
    BY <1>5 DEF SpUpdateDelay, StaleSlot
  <2> QED BY <1>5, <2>1 DEF SpUpdateDelay
<1> QED BY <1>1, <1>2, <1>3, <1>4, <1>5 DEF SpStore

\* A chunk's payload is made of bytes of its message.
LEMMA CopyTypes ==
  ASSUME NEW m \in Messages, NEW n \in Messages, NEW c \in Nat
  PROVE  /\ FirstCopy(m, c) \in [Offsets(m) -> (Messages \X Nat) \cup {None}]
         /\ \A data \in [Offsets(n) -> (Messages \X Nat) \cup {None}] :
              LaterCopy(data, m, c) \in [Offsets(n) -> (Messages \X Nat) \cup {None}]
<1>1. \A k \in Nat : ChunkByte(m, c, k) \in (Messages \X Nat) \cup {None}
  <2> TAKE k \in Nat
  <2>1. c * ChunkData + k \in Nat
    BY Geometry
  <2> QED BY <2>1 DEF ChunkByte
<1>2. Offsets(m) \subseteq Nat /\ Offsets(n) \subseteq Nat
  BY Geometry DEF Offsets
<1>3. c * ChunkData \in Nat
  BY Geometry
<1>4. FirstCopy(m, c) \in [Offsets(m) -> (Messages \X Nat) \cup {None}]
  BY <1>1, <1>2 DEF FirstCopy
<1>5. ASSUME NEW data \in [Offsets(n) -> (Messages \X Nat) \cup {None}]
      PROVE  LaterCopy(data, m, c) \in [Offsets(n) -> (Messages \X Nat) \cup {None}]
  <2>1. ASSUME NEW k \in Offsets(n), c * ChunkData <= k
        PROVE  ChunkByte(m, c, k - c * ChunkData) \in (Messages \X Nat) \cup {None}
    <3>1. k - c * ChunkData \in Nat
      BY <1>2, <1>3, <2>1
    <3> QED BY <1>1, <3>1
  <2> QED BY <2>1 DEF LaterCopy
<1> QED BY <1>4, <1>5

\* Counting a chunk keeps a pending message one of the same message.
LEMMA CountedType ==
  ASSUME NEW pm \in PendingMessage, NEW c \in Nat
  PROVE  /\ Counted(pm, c) \in PendingMessage
         /\ Counted(pm, c).msg = pm.msg
         /\ Counted(pm, c).chunks_received = pm.chunks_received \cup {c}
         /\ Counted(pm, c).chunks_received_number = pm.chunks_received_number + 1
<1> DEFINE marked == [pm EXCEPT !.chunks_received = @ \cup {c}]
<1>1. /\ marked \in PendingMessage /\ marked.msg = pm.msg
      /\ marked.chunks_received = pm.chunks_received \cup {c}
      /\ marked.chunks_received_number = pm.chunks_received_number
  BY DEF PendingMessage
<1>2. Counted(pm, c) = [marked EXCEPT !.chunks_received_number = pm.chunks_received_number + 1]
  BY DEF Counted, PendingMessage
<1> HIDE DEF marked
<1>3. pm.chunks_received_number + 1 \in Nat
  BY DEF PendingMessage
<1> QED BY <1>1, <1>2, <1>3 DEF PendingMessage

\* The memcpy of a later chunk keeps the buffers' types.
LEMMA LaterCopyKeeps ==
  ASSUME TypeInv, NEW x \in Ids, NEW m \in Messages, NEW c \in Nat, pending[x] # None,
         packet_data' = [packet_data EXCEPT ![x] = LaterCopy(@, m, c)],
         \A k \in Ids : pending[k] # None <=> pending'[k] # None,
         \A k \in Ids : pending[k] # None => pending'[k].msg = pending[k].msg
  PROVE  /\ DOMAIN packet_data' = Ids
         /\ \A k \in Ids : pending'[k] # None =>
              packet_data'[k] \in [Offsets(pending'[k].msg) -> (Messages \X Nat) \cup {None}]
<1>1. pending[x].msg \in Messages
  BY DEF TypeInv, ReceiverInv, ReceiverTypeOK, PendingMessage
<1>2. packet_data[x] \in [Offsets(pending[x].msg) -> (Messages \X Nat) \cup {None}]
  BY DEF TypeInv, ReceiverInv, ReceiverTypeOK
<1>3. LaterCopy(packet_data[x], m, c) \in [Offsets(pending[x].msg) -> (Messages \X Nat) \cup {None}]
  BY <1>1, <1>2, CopyTypes
<1> QED BY <1>3 DEF TypeInv, ReceiverInv, ReceiverTypeOK

\* A step of the receiver's processing thread keeps the types.
LEMMA TypeReceiver ==
  ASSUME TypeInv, NEW p \in net, Receive(p)
  PROVE  TypeInv'
<1> SUFFICES net' \in SUBSET Packet /\ ReceiverInv' /\ CallbackTypeOK'
  <2>1. UNCHANGED <<appVars, sendingVars, sp, crashed, stale>>
    BY DEF Receive, RxDropCompleted, RxFirstChunk, RxSingle, RxDuplicate, RxLastMissing, RxChunk,
           RxLostRequestFound, RxLostRequestCompleted, RxLostRequestUnknown, history
  <2> QED BY <2>1, Frames DEF TypeInv
<1> USE DEF TypeInv, history
<1>0. /\ p.id \in Ids
      /\ p.type = "DATA" => p.msg \in Messages /\ p.chunk \in Nat
      /\ \A held \in Rest(p) : held \in SUBSET Packet
  <2>1. \A held \in Rest(p) : held \in SUBSET Packet
    BY RestType
  <2> QED BY <2>1 DEF Packet, ToSenderPacket
<1>1. CASE RxDropCompleted(p)
  BY <1>0, <1>1, Frames DEF RxDropCompleted
<1>2. CASE RxFirstChunk(p)
  <2>1. p.msg \in Messages /\ p.chunk \in Nat
    BY <1>0, <1>2 DEF RxFirstChunk, Incoming
  <2>2. NewPending(p.msg, p.chunk) \in PendingMessage /\ NewPending(p.msg, p.chunk).msg = p.msg
    BY <2>1 DEF NewPending, PendingMessage
  <2>3. pending' \in [Ids -> PendingMessage \cup {None}]
    BY <1>0, <1>2, <2>2 DEF RxFirstChunk, ReceiverInv, ReceiverTypeOK
  <2>4. /\ DOMAIN packet_data' = Ids
        /\ \A k \in Ids : pending'[k] # None =>
             packet_data'[k] \in [Offsets(pending'[k].msg) -> (Messages \X Nat) \cup {None}]
    BY <1>0, <1>2, <2>1, <2>2, CopyTypes DEF RxFirstChunk, ReceiverInv, ReceiverTypeOK
  <2>5. \A k \in Ids : pending[k] # None \/ k = p.id => pending'[k] # None
    BY <1>0, <1>2, <2>2, NoneAssumption DEF RxFirstChunk, ReceiverInv, ReceiverTypeOK
  <2>6. ReceiverInv'
    BY <1>0, <1>2, <2>3, <2>4, <2>5 DEF RxFirstChunk, ReceiverInv, ReceiverTypeOK
  <2> QED BY <1>0, <1>2, <2>6, Frames DEF RxFirstChunk
<1>3. CASE RxSingle(p)
  <2>1. [key |-> p.id, msg |-> p.msg, pending |-> FALSE] \in Node
    BY <1>0, <1>3 DEF RxSingle, Incoming, Node
  <2>2. callback_queue' \in Seq(Node)
    BY <1>3, <2>1 DEF RxSingle, CallbackTypeOK
  <2>3. ReceiverInv'
    BY <1>0, <1>3 DEF RxSingle, ReceiverInv, ReceiverTypeOK
  <2>4. CallbackTypeOK'
    BY <1>3, <2>2 DEF RxSingle, CallbackTypeOK
  <2> QED BY <1>0, <1>3, <2>3, <2>4 DEF RxSingle
<1>4. CASE RxDuplicate(p)
  BY <1>0, <1>4, Frames DEF RxDuplicate
<1>5. CASE RxLastMissing(p)
  <2>1. p.msg \in Messages /\ p.chunk \in Nat /\ pending[p.id] \in PendingMessage
    BY <1>0, <1>5 DEF RxLastMissing, NewChunk, Incoming, HasPending, ReceiverInv, ReceiverTypeOK
  <2>2. /\ Counted(pending[p.id], p.chunk) \in PendingMessage
        /\ Counted(pending[p.id], p.chunk).msg = pending[p.id].msg
    BY <2>1, CountedType
  <2>3. pending' \in [Ids -> PendingMessage \cup {None}]
    BY <1>0, <1>5, <2>2 DEF RxLastMissing, ReceiverInv, ReceiverTypeOK
  <2>4. packet_data' = [packet_data EXCEPT ![p.id] = LaterCopy(@, p.msg, p.chunk)]
    BY <1>5 DEF RxLastMissing
  <2>5. /\ \A k \in Ids : pending[k] # None <=> pending'[k] # None
        /\ \A k \in Ids : pending[k] # None => pending'[k].msg = pending[k].msg
    BY <1>0, <1>5, <2>1, <2>2, NoneAssumption DEF RxLastMissing, ReceiverInv, ReceiverTypeOK
  <2>6. /\ DOMAIN packet_data' = Ids
        /\ \A k \in Ids : pending'[k] # None =>
             packet_data'[k] \in [Offsets(pending'[k].msg) -> (Messages \X Nat) \cup {None}]
    BY <1>0, <2>1, <2>4, <2>5, NoneAssumption, LaterCopyKeeps
  <2>7. [key |-> p.id, msg |-> p.msg, pending |-> TRUE] \in Node
    BY <1>0, <2>1 DEF Node
  <2>8. callback_queue' \in Seq(Node)
    BY <1>5, <2>7 DEF RxLastMissing, CallbackTypeOK
  <2>9. ReceiverInv'
    BY <1>0, <1>5, <2>3, <2>5, <2>6 DEF RxLastMissing, ReceiverInv, ReceiverTypeOK
  <2>10. CallbackTypeOK'
    BY <1>5, <2>8 DEF RxLastMissing, CallbackTypeOK
  <2> QED BY <1>0, <1>5, <2>9, <2>10 DEF RxLastMissing
<1>6. CASE RxChunk(p)
  <2> DEFINE pm == pending[p.id]
             checked == [pm EXCEPT !.last_index = p.chunk, !.last_number = pm.chunks_received_number]
  <2>1. p.msg \in Messages /\ p.chunk \in Nat /\ pm \in PendingMessage
    BY <1>0, <1>6 DEF RxChunk, NewChunk, Incoming, HasPending, ReceiverInv, ReceiverTypeOK
  <2>2. checked \in PendingMessage /\ checked.msg = pm.msg
    BY <2>1 DEF PendingMessage
  <2>3. \E q \in {pm, checked} : pending' = [pending EXCEPT ![p.id] = Counted(q, p.chunk)]
    BY <1>6 DEF RxChunk
  <2> HIDE DEF checked
  <2>4. PICK q \in PendingMessage : /\ q.msg = pm.msg
                                    /\ pending' = [pending EXCEPT ![p.id] = Counted(q, p.chunk)]
    BY <2>1, <2>2, <2>3
  <2>5. Counted(q, p.chunk) \in PendingMessage /\ Counted(q, p.chunk).msg = pm.msg
    BY <2>1, <2>4, CountedType
  <2>6. pending' \in [Ids -> PendingMessage \cup {None}]
    BY <1>0, <2>4, <2>5 DEF ReceiverInv, ReceiverTypeOK
  <2>7. /\ \A k \in Ids : pending[k] # None <=> pending'[k] # None
        /\ \A k \in Ids : pending[k] # None => pending'[k].msg = pending[k].msg
    BY <1>0, <2>1, <2>4, <2>5, NoneAssumption DEF ReceiverInv, ReceiverTypeOK
  <2>8. packet_data' = [packet_data EXCEPT ![p.id] = LaterCopy(@, p.msg, p.chunk)]
    BY <1>6 DEF RxChunk
  <2>9. /\ DOMAIN packet_data' = Ids
        /\ \A k \in Ids : pending'[k] # None =>
             packet_data'[k] \in [Offsets(pending'[k].msg) -> (Messages \X Nat) \cup {None}]
    BY <1>0, <2>1, <2>7, <2>8, NoneAssumption, LaterCopyKeeps
  <2>10. net' \in SUBSET Packet
    <3>1. \A v \in Verdicts : DelayUpdate(p.id, v) \in Packet
      BY <1>0, PacketTypes
    <3>2. RateVerdict(pm, p.chunk) \in Verdicts
      BY DEF RateVerdict, Verdicts
    <3> QED BY <1>0, <1>6, <3>1, <3>2, NetType DEF RxChunk
  <2>11. ReceiverInv'
    BY <1>6, <2>6, <2>7, <2>9 DEF RxChunk, ReceiverInv, ReceiverTypeOK
  <2> QED BY <1>6, <2>10, <2>11, Frames DEF RxChunk
<1>7. CASE RxLostRequestFound(p)
  <2>1. ReceiverInv'
    BY <1>0, <1>7 DEF RxLostRequestFound, HasPending, ReceiverInv, ReceiverTypeOK, pendingVars
  <2> QED BY <1>0, <1>7, <2>1, Frames DEF RxLostRequestFound
<1>8. CASE RxLostRequestCompleted(p)
  <2>1. net' \in SUBSET Packet
    BY <1>0, <1>8, PacketTypes, NetType DEF RxLostRequestCompleted
  <2> QED BY <1>8, <2>1, Frames DEF RxLostRequestCompleted
<1>9. CASE RxLostRequestUnknown(p)
  BY <1>0, <1>9, Frames DEF RxLostRequestUnknown
<1> QED
  BY <1>1, <1>2, <1>3, <1>4, <1>5, <1>6, <1>7, <1>8, <1>9 DEF Receive

\* Answering a lost-packets request keeps the types.
LEMMA TypeAnswer ==
  ASSUME TypeInv, RxAnswerLost
  PROVE  TypeInv'
<1> USE DEF TypeInv, ReceiverInv, ReceiverTypeOK
<1>1. rp \in [at : {"answer"}, key : Ids] /\ pending[rp.key] # None
  BY DEF RxAnswerLost
<1> DEFINE Reread(k) == IF rp.key \in freed THEN SUBSET (0 .. ChunkAmount(pending[k].msg) - 1)
                                            ELSE {Missing(pending[k])}
<1>a. PICK k \in {rp.key} \cup (IF rp.key \in freed THEN pending_messages ELSE {}) :
        \E missing \in Reread(k) :
          /\ \E ls \in LostLists(missing) : net' = Put(net, LostResponse(rp.key, ls))
          /\ pending' = [pending EXCEPT ![k].sending_lost = TRUE]
  BY DEF RxAnswerLost
<1>2. PICK missing \in Reread(k) :
        /\ \E ls \in LostLists(missing) : net' = Put(net, LostResponse(rp.key, ls))
        /\ pending' = [pending EXCEPT ![k].sending_lost = TRUE]
  BY <1>a
<1>3. k \in Ids /\ pending[k] \in PendingMessage
  BY <1>1, <1>a
<1>4. pending[k].msg \in Messages
  BY <1>3 DEF PendingMessage
<1>5. missing \in SUBSET (0 .. ChunkAmount(pending[k].msg) - 1)
  BY <1>2 DEF Missing
<1>6. PICK ls \in LostLists(missing) : net' = Put(net, LostResponse(rp.key, ls))
  BY <1>2
<1>7. ls \in Seq(Nat)
  BY <1>4, <1>5, <1>6, Geometry, LostListsType
<1>8. net' \in SUBSET Packet
  BY <1>1, <1>6, <1>7, PacketTypes, NetType
<1>9. /\ pending' \in [Ids -> PendingMessage \cup {None}]
      /\ \A j \in Ids : pending[j] # None => pending'[j] # None /\ pending'[j].msg = pending[j].msg
      /\ \A j \in Ids : pending[j] = None => pending'[j] = None
  <2>1. [pending[k] EXCEPT !.sending_lost = TRUE] \in PendingMessage
    BY <1>3 DEF PendingMessage
  <2>2. [pending[k] EXCEPT !.sending_lost = TRUE].msg = pending[k].msg
    BY <1>3 DEF PendingMessage
  <2>3. pending' = [pending EXCEPT ![k] = [pending[k] EXCEPT !.sending_lost = TRUE]]
    BY <1>2
  <2> QED BY <1>3, <2>1, <2>2, <2>3, NoneAssumption
<1>10. rp' \in [at : {"idle"}] /\ rp'.at # "answer" /\ used_after_free' \in BOOLEAN
  BY DEF RxAnswerLost
<1>11. ReceiverInv'
  BY <1>9, <1>10 DEF RxAnswerLost
<1>12. UNCHANGED <<appVars, sendingVars, sp, crashed, stale, callbackVars>>
  BY DEF RxAnswerLost
<1> QED BY <1>8, <1>11, <1>12, Frames

\* A step of the callback thread, and setting the handler, keep the types.
LEMMA TypeCallback ==
  ASSUME TypeInv, Callback \/ SetHandler
  PROVE  TypeInv'
<1> SUFFICES ReceiverInv' /\ CallbackTypeOK'
  <2>1. UNCHANGED <<appVars, sendingVars, sp, crashed, stale, net>>
    BY DEF Callback, SetHandler, CbTake, CbRemove, CbCall, history
  <2> QED BY <2>1, Frames DEF TypeInv
<1> USE DEF TypeInv, CallbackTypeOK, history
<1>1. CASE SetHandler
  BY <1>1, Frames DEF SetHandler
<1>2. CASE CbTake
  <2>1. Head(callback_queue) \in Node /\ Tail(callback_queue) \in Seq(Node)
    BY <1>2 DEF CbTake
  <2> QED BY <1>2, <2>1, Frames DEF CbTake
<1>3. CASE CbRemove
  <2>1. cb' \in [at : {"remove", "call"}, node : Node, handler : BOOLEAN]
    BY <1>3 DEF CbRemove
  <2>2. pending_messages' \subseteq pending_messages
    BY <1>3 DEF CbRemove
  <2>3. ReceiverInv'
    BY <1>3, <2>2 DEF CbRemove, ReceiverInv, ReceiverTypeOK
  <2> QED BY <1>3, <2>1, <2>3 DEF CbRemove
<1>4. CASE CbCall
  <2>1. cb.node \in Node
    BY <1>4 DEF CbCall
  <2>2. cb.node.key \in Ids /\ cb.node.msg \in Messages
    BY <2>1 DEF Node
  <2>3. delivered' \in Seq(Handled)
    <3>1. \A b \in BOOLEAN : [key |-> cb.node.key, msg |-> cb.node.msg, intact |-> b] \in Handled
      BY <2>2 DEF Handled
    <3>2. Intact(cb.node) \in BOOLEAN
      BY DEF Intact
    <3> QED BY <1>4, <3>1, <3>2 DEF CbCall
  <2> QED BY <1>4, <2>2, <2>3, Frames DEF CbCall
<1> QED BY <1>1, <1>2, <1>3, <1>4 DEF Callback

\* Losing a packet and stuttering keep the types.
LEMMA TypeOther ==
  ASSUME TypeInv, UNCHANGED vars \/ \E p \in net : Lose(p)
  PROVE  TypeInv'
<1>1. CASE UNCHANGED vars
  BY <1>1, Frames DEF TypeInv, vars, history
<1>2. CASE \E p \in net : Lose(p)
  BY <1>2, Frames DEF TypeInv, Lose, history
<1> QED BY <1>1, <1>2

LEMMA TypeStep == TypeInv /\ [Next]_vars => TypeInv'
BY TypeApplication, TypeSender, TypeReceiver, TypeAnswer, TypeCallback, TypeOther DEF Next

\* In every reachable state every variable has its type, whatever the sizes
\* of messages, frames and pools.
THEOREM TypeCorrect == Spec => []TypeOK
<1>1. Init => TypeInv
  BY TypeInit
<1>2. TypeInv /\ [Next]_vars => TypeInv'
  BY TypeStep
<1>3. TypeInv => TypeOK
  BY DEF TypeInv, TypeOK, SenderInv, ReceiverInv
<1> QED BY <1>1, <1>2, <1>3, PTL DEF Spec
=============================================================================
