CONSTANTS
  f1 = f1  f2 = f2  f3 = f3
  None = None
  Frames <- ThreeFrames
  Completing <- TwoMessages
  IdleLimit = 1
  MaxFrames = 2
CHECK_DEADLOCK FALSE
SPECIFICATION FairSpec
INVARIANTS QueueLinked PipelineKeepsOrder FreedAfterThreads
PROPERTIES SleeperTakesNodes CleanupReturns
