CONSTANTS
  NumThreads = 3
  CountRange = 8
  MaxCalls = 3
SPECIFICATION Spec
INVARIANTS TypeOK OwnerMatchesDepth OneExitPerNotify QueuesInOrder LockHolderSchedulable
CONSTRAINT EarlyOverrun
