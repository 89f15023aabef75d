CONSTANTS
  NumThreads = 3
  WakeAll = FALSE
  CountRange = 8
  MaxCount = 1
  MinCount = 0
  MaxCalls = 3
SPECIFICATION FairSpec
INVARIANTS TypeOK CounterInRange StuckByRefusal PermitsRespected PairedReleaseNeverSleeps
PROPERTIES SpinningEnds
