SPECIFICATION Spec
CONSTANTS
  Bars <- MCBars
  MaxBars = 5
  length = 1
  initial_capital = 1
INVARIANTS
  TypeOK
  TradesAlternate
  TradedInSession
  TradesAreFirstSignals
  MetricsMatchTrades
  DrawdownIsWorstFall
CHECK_DEADLOCK FALSE
