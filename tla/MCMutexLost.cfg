CONSTANTS
  NumThreads = 3
  WakeAll = FALSE
  CountRange = 8
  MaxCalls = 1
  Misuse = FALSE
SPECIFICATION FairSpec
PROPERTIES WaitUntilItIsSafeToEnter
