SPECIFICATION FairSpec
CONSTANTS
  Callers = {c1, c2, c3}
  c1 = c1
  c2 = c2
  c3 = c3
  MaxRequests = 1
  Window = 2
  MaxJitter = 1
  FailOpen = TRUE
  MayFail = TRUE
  MaxLag = 0
  MaxAcquires = 1
  LastCall = 2
  MaxTime = 15
PROPERTIES
  AcquireEnds
CHECK_DEADLOCK FALSE
