CONSTANTS
  NumThreads = 3
  WakeAll = FALSE
  CountRange = 8
  MaxCalls = 2
  Misuse = TRUE
SPECIFICATION FairSpec
INVARIANTS TypeOK MutualExclusion OwnerMatchesDepth
PROPERTIES ImplementsAbstractMutex SpinningEnds
