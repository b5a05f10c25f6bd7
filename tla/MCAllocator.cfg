SPECIFICATION Spec
CONSTANTS
  t1 = t1
  t2 = t2
  Threads <- TwoThreads
  ChunkItems = 2
  WordBits = 4
  ShiftBits = 2
  SizeRange = 8
  MaxStacks = 2
  None = None
INVARIANTS StackExclusive EveryItemOnce
PROPERTY ImplementsPool
SYMMETRY ThreadSymmetry
CHECK_DEADLOCK FALSE
