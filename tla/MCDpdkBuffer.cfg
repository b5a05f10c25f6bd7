CONSTANTS
  x = x  y = y  z = z
  Junk = Junk
  None = None
  Mtu = 3
  PeerMtus = {2, 3}
  HeaderSize = 1
  MaxSize = 6
  Data <- Writes
SPECIFICATION Spec
INVARIANTS SegmentsAreFull SentIsData SendRecovers SentAsAnnounced
PROPERTIES ImplementsFlat
