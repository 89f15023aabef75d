CONSTANTS
  NumThreads = 3
  Signal = TRUE
  MaxCalls = 2
SPECIFICATION EventFairSpec
INVARIANTS EventTypeOK AtMostOnePassPerSet
PROPERTIES SetLetsOnePass
