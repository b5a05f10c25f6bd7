----------------------------- MODULE DpdkBuffer -----------------------------
(***************************************************************************)
(* The packet buffer of the DPDK backend, cut into mbufs when it is made:  *)
(* each mbuf is a frame with room for its headers, so that a message is    *)
(* sent from where the application wrote it. PacketBuffer is what the      *)
(* application sees; swiftnet_send_packet sees the mbufs.                  *)
(*                                                                         *)
(* The lengths of mbufs are those of the data in them, without headers. An *)
(* application keeps inside its buffer, and has one at a time.             *)
(***************************************************************************)
EXTENDS Integers, Sequences, SequencesExt, FiniteSetsExt

CONSTANTS
  Mtu,          \* maximum_transmission_unit of this end
  PeerMtus,     \* target_maximum_transmission_unit of its peers
  HeaderSize,   \* PACKET_HEADER_SIZE
  MaxSize,      \* bound on the size of a buffer
  Data,         \* what an application writes or appends in one call
  Junk,         \* what memory holds before it is written
  None          \* no buffer; nothing sent

\* data_len_per_packet.
Room == Mtu - HeaderSize

Byte == UNION {Range(bytes) : bytes \in Data} \cup {Junk}

Sizes == 0..MaxSize

ASSUME DpdkBufferAssumption ==
  /\ Mtu \in Nat /\ HeaderSize \in Nat \ {0} /\ HeaderSize < Mtu
  /\ MaxSize \in Nat /\ \A m \in PeerMtus : m \in Nat /\ HeaderSize < m

VARIABLES
  dpdk_buffers,      \* the mbufs
  total_data_size, append_offset,
  sent               \* what swiftnet_send_packet did, until the next call

vars == <<dpdk_buffers, total_data_size, append_offset, sent>>

\* A fresh mbuf.
Mbuf(len) == [data_len |-> len, mem |-> [i \in 0..Room - 1 |-> Junk]]

buf_amount == Len(dpdk_buffers)

last_packet == Last(dpdk_buffers)

Shorten(buffers, len) == [buffers EXCEPT ![Len(buffers)].data_len = len]

-----------------------------------------------------------------------------
(* create_packet_buffer, resize_packet_buffer, destroy_packet_buffer.      *)

create_packet_buffer(size) ==
  /\ dpdk_buffers = <<>>
  /\ dpdk_buffers' = [i \in 1..size \div Room |-> Mbuf(Room)] \o <<Mbuf(size % Room)>>
  /\ total_data_size' = size
  /\ append_offset' = 0
  /\ sent' = None

\* Mutant of Grown: mbufs are added behind a last one that is not full.
GrownUnfilled(change) ==
  IF change + last_packet.data_len <= Room
  THEN Shorten(dpdk_buffers, last_packet.data_len + change)
  ELSE dpdk_buffers \o [i \in 1..change \div Room |-> Mbuf(Room)] \o <<Mbuf(change % Room)>>

\* The last mbuf is filled up before others are added.
Grown(change) ==
  LET rest == change - (Room - last_packet.data_len)
      chunks == [i \in 1..rest \div Room |-> Mbuf(Room)]
      remainder == IF rest % Room # 0 THEN <<Mbuf(rest % Room)>> ELSE <<>>
  IN IF change + last_packet.data_len <= Room
     THEN Shorten(dpdk_buffers, last_packet.data_len + change)
     ELSE Shorten(dpdk_buffers, Room) \o chunks \o remainder

\* The last mbuf is freed, then full ones while one is left, and the one that
\* is last then is shortened or, if nothing of it remains, replaced.
Shrunk(change) ==
  LET left == change - last_packet.data_len
      freed == Min({left \div Room, buf_amount - 2})
      kept == SubSeq(dpdk_buffers, 1, buf_amount - 1 - freed)
      over == left - freed * Room
  IN IF change <= last_packet.data_len
     THEN Shorten(dpdk_buffers, last_packet.data_len - change)
     ELSE IF over >= Last(kept).data_len
     THEN Front(kept) \o <<Mbuf(0)>>
     ELSE Shorten(kept, Last(kept).data_len - over)

resize_packet_buffer(size) ==
  /\ dpdk_buffers # <<>>
  /\ dpdk_buffers' =
       CASE size = total_data_size -> dpdk_buffers
         [] size > total_data_size -> Grown(size - total_data_size)
         [] size < total_data_size -> Shrunk(total_data_size - size)
  /\ total_data_size' = size
  /\ sent' = None
  /\ UNCHANGED append_offset

destroy_packet_buffer ==
  /\ dpdk_buffers # <<>>
  /\ dpdk_buffers' = <<>>
  /\ total_data_size' = 0 /\ append_offset' = 0
  /\ sent' = None

-----------------------------------------------------------------------------
(* write_packet_buffer, swiftnet_append_to_buffer.                         *)

\* Mutant of Written: every mbuf is written from the first one's offset on.
WrittenFromOffset(offset, bytes) ==
  LET first == offset \div Room
      start(k) == offset % Room
      before(k) == IF k = 0 THEN 0 ELSE k * Room - (offset % Room)
      mem(k, old) == [i \in 0..Room - 1 |->
        IF k >= 0 /\ i >= start(k) /\ before(k) + i - start(k) < Len(bytes)
        THEN bytes[before(k) + i - start(k) + 1] ELSE old[i]]
  IN [b \in DOMAIN dpdk_buffers |-> [dpdk_buffers[b] EXCEPT !.mem = mem(b - 1 - first, @)]]

\* From the mbuf with the offset on, each takes what fits behind its start.
Written(offset, bytes) ==
  LET first == offset \div Room
      start(k) == IF k = 0 THEN offset % Room ELSE 0
      before(k) == IF k = 0 THEN 0 ELSE k * Room - (offset % Room)
      mem(k, old) == [i \in 0..Room - 1 |->
        IF k >= 0 /\ i >= start(k) /\ before(k) + i - start(k) < Len(bytes)
        THEN bytes[before(k) + i - start(k) + 1] ELSE old[i]]
  IN [b \in DOMAIN dpdk_buffers |-> [dpdk_buffers[b] EXCEPT !.mem = mem(b - 1 - first, @)]]

write_packet_buffer(offset, bytes) ==
  /\ dpdk_buffers # <<>> /\ offset + Len(bytes) <= total_data_size
  /\ dpdk_buffers' = Written(offset, bytes)
  /\ sent' = None
  /\ UNCHANGED <<total_data_size, append_offset>>

swiftnet_append_to_buffer(bytes) ==
  /\ dpdk_buffers # <<>> /\ append_offset + Len(bytes) <= total_data_size
  /\ dpdk_buffers' = Written(append_offset, bytes)
  /\ append_offset' = append_offset + Len(bytes)
  /\ sent' = None
  /\ UNCHANGED total_data_size

-----------------------------------------------------------------------------
(* The frames of swiftnet_send_packet.                                     *)

\* The first len bytes of data behind an mbuf's headers.
Payload(mbuf, len) == [i \in 1..len |-> IF i <= Room THEN mbuf.mem[i - 1] ELSE Junk]

\* A payload of at most the MTU leaves from the first mbuf.
Single(length, mtu) ==
  [length |-> length, mtu |-> mtu, chunk_amount |-> 1, recovers |-> FALSE,
   frames |-> <<Payload(dpdk_buffers[1], length)>>]

\* Mutant of Chunks: the last frame is sent with the length of its mbuf.
ChunksUncut(length, mtu) ==
  LET last == length \div Room IN
  [length |-> length, mtu |-> mtu,
   chunk_amount |-> (length + (mtu - HeaderSize) - 1) \div (mtu - HeaderSize),
   recovers |-> last < buf_amount,
   frames |-> [i \in 1..Min({last + 1, buf_amount}) |-> Payload(dpdk_buffers[i], dpdk_buffers[i].data_len)]]

\* Mutant of Chunks: the last mbuf is not sent.
ChunksBeforeLast(length, mtu) ==
  LET last == length \div Room IN
  [length |-> length, mtu |-> mtu,
   chunk_amount |-> (length + (mtu - HeaderSize) - 1) \div (mtu - HeaderSize),
   recovers |-> last < buf_amount - 1,
   frames |-> [i \in 1..Min({last + 1, buf_amount - 1}) |->
     Payload(dpdk_buffers[i], IF i = last + 1 THEN length - last * Room ELSE dpdk_buffers[i].data_len)]]

\* One frame per mbuf, up to the first that reaches beyond the message: it is
\* cut, and handle_lost_packets follows (recovers). chunk_amount is computed
\* from the smaller MTU.
Chunks(length, mtu) ==
  LET last == length \div Room IN
  [length |-> length, mtu |-> mtu,
   chunk_amount |-> (length + (mtu - HeaderSize) - 1) \div (mtu - HeaderSize),
   recovers |-> last < buf_amount,
   frames |-> [i \in 1..Min({last + 1, buf_amount}) |->
     Payload(dpdk_buffers[i], IF i = last + 1 THEN length - last * Room ELSE dpdk_buffers[i].data_len)]]

\* The MTU is the smaller of the two ends'. Lengths are put back afterwards.
swiftnet_send_packet(length, target) ==
  /\ dpdk_buffers # <<>> /\ length <= total_data_size
  /\ LET mtu == Min({target, Mtu}) IN
       sent' = IF length > mtu THEN Chunks(length, mtu) ELSE Single(length, mtu)
  /\ UNCHANGED <<dpdk_buffers, total_data_size, append_offset>>

-----------------------------------------------------------------------------
Init == dpdk_buffers = <<>> /\ total_data_size = 0 /\ append_offset = 0 /\ sent = None

Next ==
  \/ \E size \in Sizes : create_packet_buffer(size) \/ resize_packet_buffer(size)
  \/ \E bytes \in Data :
       \/ \E offset \in Sizes : write_packet_buffer(offset, bytes)
       \/ swiftnet_append_to_buffer(bytes)
  \/ destroy_packet_buffer
  \/ \E length \in Sizes, target \in PeerMtus : swiftnet_send_packet(length, target)

Spec == Init /\ [][Next]_vars

-----------------------------------------------------------------------------
(* Properties.                                                             *)

\* Every variable holds values of its C type; no mbuf has a length beyond its
\* room or below zero.
TypeOK ==
  /\ dpdk_buffers \in Seq([data_len : 0..Room, mem : [0..Room - 1 -> Byte]])
  /\ total_data_size \in Sizes /\ append_offset \in Sizes
  /\ sent # None => sent.frames \in Seq(Seq(Byte)) /\ sent.chunk_amount \in Nat

\* After any resizes all mbufs but the last are full, the last has a length
\* between zero and its room, and together they hold total_data_size bytes: the
\* geometry that write_packet_buffer and the send loop compute offsets from.
SegmentsAreFull ==
  dpdk_buffers # <<>> =>
    /\ \A b \in 1..buf_amount - 1 : dpdk_buffers[b].data_len = Room
    /\ last_packet.data_len \in 0..Room
    /\ (buf_amount - 1) * Room + last_packet.data_len = total_data_size

\* The byte at an offset of the buffer.
At(offset) ==
  LET b == offset \div Room + 1 IN
  IF b <= buf_amount THEN dpdk_buffers[b].mem[offset % Room] ELSE None

Flat ==
  INSTANCE PacketBuffer WITH
    data <- IF dpdk_buffers = <<>> THEN None ELSE [i \in 1..total_data_size |-> At(i - 1)],
    append_pointer <- append_offset

\* The mbufs are one buffer to the application, the one the other backend has:
\* what was written stays, at its offset, through every resize that leaves the
\* offset inside, and through every send.
ImplementsFlat == Flat!Spec

\* The frames of a message carry its bytes in order and no others, unless its
\* length lies between the room of an mbuf and the MTU (it is then sent from
\* the first mbuf alone, beyond its end).
SentIsData ==
  (sent # None /\ ~(sent.length > Room /\ sent.length <= sent.mtu)) =>
    FlattenSeq(sent.frames) = [i \in 1..sent.length |-> At(i - 1)]

\* A chunked send comes to the recovery of lost chunks, and so to freeing its
\* SwiftNetPacketSending, unless its length is a multiple of an mbuf's room
\* (the loop then ends with the mbufs if a resize left no empty one).
SendRecovers ==
  (sent # None /\ sent.length > sent.mtu /\ sent.length % Room # 0) => sent.recovers

\* A chunked message has as many frames as its chunk_amount announces, unless
\* its length is such a multiple or the peer's MTU is smaller than this end's
\* (the mbufs were cut for the larger).
SentAsAnnounced ==
  (sent # None /\ sent.length % Room # 0 /\ sent.mtu = Mtu) => Len(sent.frames) = sent.chunk_amount

=============================================================================
