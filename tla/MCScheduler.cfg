CONSTANTS
  NumThreads = 3
  SleepTimes <- MCSleepTimes
  DanglingIds = {0, 1, 2}
SPECIFICATION Spec
INVARIANTS TypeOK DispatchedIsBuilt BoundedBypass PausedIsWakeable
PROPERTIES StoppedIsFinal SleeperUndisturbed
CHECK_DEADLOCK FALSE
