CONSTANTS
  NumThreads = 4
  WakeAll = TRUE
  CountRange = 8
  Signal = FALSE
  MaxCalls = 2
SPECIFICATION Spec
INVARIANTS TypeOK QueueWellFormed SetWakesSleepers
CONSTRAINT UpToOverrun
