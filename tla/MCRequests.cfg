CONSTANTS
  r1 = r1  r2 = r2  r3 = r3  o1 = o1  o2 = o2  o3 = o3  i1 = i1  i2 = i2
  None = None
  Calls <- ThreeCalls
  RequestSents <- ThreeObjects
  Ids <- TwoIds
  hash64 <- Hash
  HashSpace = 512
  StartCapacity = 2
  SizeSpace = 64
  WordBits = 4
  Timeout = 1
  TimeSpace = 4
CHECK_DEADLOCK FALSE
SYMMETRY Symmetric
SPECIFICATION Spec
INVARIANTS GetFindsOldest SizeIsPopulation EntriesAreWaiting AnswerIsOwnOrLate AnswerReturnedOnce TimeoutNotEarly PendingOnlyOrphaned
PROPERTY ImplementsQueues
