SPECIFICATION Spec
CONSTANTS
  Callers = {c1, c2, c3}
  c1 = c1
  c2 = c2
  c3 = c3
  MaxRequests = 2
  Window = 2
  MaxJitter = 1
  FailOpen = FALSE
  MayFail = TRUE
  MaxLag = 1
  MaxAcquires = 2
  LastCall = 2
  MaxTime = 5
SYMMETRY Symmetry
INVARIANTS
  TypeOK
  WindowBound
  LiveGrantsCounted
  MembershipBounded
PROPERTIES
  WaitSuffices
  QuotaSpec
CHECK_DEADLOCK FALSE
