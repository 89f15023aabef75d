CONSTANTS
  NumThreads = 3
  SleepTimes <- MCSleepTimes
  DanglingIds = {}
SPECIFICATION FairSpec
PROPERTIES EventuallyDispatched SleepEnds
CHECK_DEADLOCK FALSE
