CONSTANTS
  c1 = c1  c2 = c2  s1 = s1  p1 = p1  p2 = p2  sp = sp  k1 = k1  k2 = k2
  l1 = l1  lo = lo
  None = None
  Clients <- TwoClients
  Servers <- OneServer
  Ports <- TwoPorts
  Draws <- Draw
  ServerPort = sp
  Slots <- TwoSlots
  Listeners <- OneListener
  Interface = lo
  MaxTries <- Tries
  hash64 <- Hash
  HashSpace = 16
  StartCapacity = 4
  SizeSpace = 256
  WordBits = 32
CHECK_DEADLOCK FALSE
SPECIFICATION FairSpec
INVARIANTS ListenerOutlastsConnections OpenIsInformed OneRequestSettles LastOutEndsListener
PROPERTIES CallsReturn ShutdownReturns
