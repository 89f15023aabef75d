CONSTANTS
  NumThreads = 3
  WakeAll = TRUE
  CountRange = 8
  Signal = FALSE
  MaxCalls = 2
SPECIFICATION Spec
PROPERTIES WaitBlocksUntilSet
