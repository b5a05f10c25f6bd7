CONSTANTS
  big = big
  small = small
  tiny = tiny
  None = None
  Messages = {big}
  Length <- Lengths
  Mtu = 3
  HeaderSize = 1
  Backend = "PCAP"
  Byte = {0}
  RandIds <- ZeroId
  Slots = {s1}
  LostCap = 1
  DelayWindow = 9
  Duplicates = FALSE
  MaxInFlight = 3
SPECIFICATION Spec
INVARIANTS HandledIntact
CHECK_DEADLOCK FALSE
