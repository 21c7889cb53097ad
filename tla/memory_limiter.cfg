SPECIFICATION Spec
CONSTANTS
  max_requests = 2
  window <- MCWindow
  MaxLag = 2
  MaxAcquires = 5
  LastCall = 14
  MaxTime = 26
INVARIANTS
  TypeOK
  DequeBounded
PROPERTIES
  QuotaSpec
  SleepsOnlyWhenFull
CHECK_DEADLOCK FALSE
