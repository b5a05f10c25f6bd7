---------------------------- MODULE PacketBuffer ----------------------------
(***************************************************************************)
(* The packet buffer of an application: bytes in a row, and the place where*)
(* the next append goes. The PCAP backend keeps it like this, in one block *)
(* of memory behind room for the headers. For the DPDK backend it is what  *)
(* DpdkBuffer must look like.                                              *)
(***************************************************************************)
EXTENDS Integers, Sequences

CONSTANTS
  Byte,    \* contents of a byte
  Sizes,   \* sizes of buffers and offsets into them
  Data,    \* what is written or appended in one call
  None     \* no buffer

VARIABLES data, append_pointer

Init == data = None /\ append_pointer = 0

\* What malloc and realloc add has any content.
create_packet_buffer(size) ==
  /\ data = None
  /\ data' \in [1..size -> Byte]
  /\ append_pointer' = 0

resize_packet_buffer(size) ==
  /\ data # None
  /\ data' \in [1..size -> Byte]
  /\ \A i \in DOMAIN data \cap DOMAIN data' : data'[i] = data[i]
  /\ UNCHANGED append_pointer

\* The buffer with bytes from an offset on.
Over(offset, bytes) ==
  [i \in DOMAIN data |-> IF i - offset \in DOMAIN bytes THEN bytes[i - offset] ELSE data[i]]

write_packet_buffer(offset, bytes) ==
  /\ data # None
  /\ data' = Over(offset, bytes)
  /\ UNCHANGED append_pointer

swiftnet_append_to_buffer(bytes) ==
  /\ data # None
  /\ data' = Over(append_pointer, bytes)
  /\ append_pointer' = append_pointer + Len(bytes)

destroy_packet_buffer ==
  /\ data # None
  /\ data' = None
  /\ append_pointer' = 0

\* An application keeps inside its buffer.
Next ==
  \/ \E size \in Sizes : create_packet_buffer(size) \/ resize_packet_buffer(size)
  \/ \E bytes \in Data :
       \/ \E offset \in Sizes : write_packet_buffer(offset, bytes)
       \/ swiftnet_append_to_buffer(bytes)
  \/ destroy_packet_buffer

Spec == Init /\ [][Next]_<<data, append_pointer>>

=============================================================================
