CONSTANTS
  big = big
  small = small
  tiny = tiny
  None = None
  Messages = {big, small, tiny}
  Length <- Lengths
  Mtu = 4
  HeaderSize = 1
  Backend = "DPDK"
  Byte = {0, 1}
  RandIds <- TwoIds
  Slots = {s1}
  LostCap = 1
  DelayWindow = 9
  Duplicates = TRUE
  MaxInFlight = 1
SPECIFICATION Spec
INVARIANTS ReturnIsAcknowledged ReturnIsComplete HandledAtMostOnce HandledIntactInOrder
SYMMETRY Twins
CHECK_DEADLOCK FALSE
