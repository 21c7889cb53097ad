SPECIFICATION Spec
CONSTANTS
  AAPL = AAPL
  aapl = aapl
  t1 = t1
  t2 = t2
  Symbols = {AAPL, aapl}
  NoSymbol = NoSymbol
  Upper <- MCUpper
  Tasks = {t1, t2}
  LastDay = 2
  Copies = {}
  c1 = c1
  EveningDays = {}
  EveningOnly = FALSE
  SpanCap = 1
  MaxRetries = 1
  Markets <- MCFullMarkets
  Trading = {}
  Jobs <- MCPartJobs
INVARIANTS
  RangeIsComplete
CHECK_DEADLOCK FALSE
