CONSTANTS
  NumThreads = 4
  WakeAll = FALSE
  CountRange = 8
  MaxCalls = 2
  Misuse = FALSE
SPECIFICATION Spec
INVARIANTS QueueWellFormed LockHolderSchedulable
CONSTRAINT UpToOverrun
