CONSTANTS
  big = big
  small = small
  tiny = tiny
  None = None
  Messages = {big}
  Length <- Lengths
  Mtu = 4
  HeaderSize = 1
  Backend = "PCAP"
  Byte = {0}
  RandIds <- ZeroId
  Slots = {s1}
  LostCap = 1
  DelayWindow = 9
  Duplicates = FALSE
  MaxInFlight = 3
SPECIFICATION ChunkFairSpec
PROPERTIES ChunkedReturns
CHECK_DEADLOCK FALSE
