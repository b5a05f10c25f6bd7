CONSTANTS
  big = big
  small = small
  tiny = tiny
  None = None
  Messages = {big}
  Length <- Lengths
  Mtu = 3
  HeaderSize = 1
  Backend = "PCAP"
  Byte = {0, 1}
  RandIds <- OneId
  Slots = {s1}
  LostCap = 1
  DelayWindow = 0
  Duplicates = TRUE
  MaxInFlight = 2
SPECIFICATION Spec
INVARIANTS ReturnIsComplete CompletedMissesNoChunk HandledIntactInOrder ResendInRange CrashNeedsFinishedSend
CHECK_DEADLOCK FALSE
