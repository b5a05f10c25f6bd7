CONSTANTS
  f1 = f1  f2 = f2  f3 = f3
  None = None
  Frames <- TwoMessages
  Completing <- TwoMessages
  IdleLimit = 1
  MaxFrames = 2
CHECK_DEADLOCK FALSE
SPECIFICATION FairSpec
PROPERTY ReassembledIsHandled
