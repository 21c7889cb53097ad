SPECIFICATION Spec
CONSTANTS
  AAPL = AAPL
  aapl = aapl
  t1 = t1
  t2 = t2
  Symbols = {AAPL, aapl}
  NoSymbol = NoSymbol
  Upper <- MCUpper
  Tasks = {t1, t2}
  LastDay = 2
  c1 = c1
  Copies = {c1}
  EveningDays = {1}
  EveningOnly = FALSE
  SpanCap = 0
  MaxRetries = 1
  Markets <- MCMarkets
  Trading = {AAPL}
  Jobs <- MCJobs
SYMMETRY Symmetry
INVARIANTS
  TypeOK
  EnsuredIsReadable
  AnswerIsStored
  CallsBounded
PROPERTIES
  NeverBoughtTwice
CHECK_DEADLOCK FALSE
