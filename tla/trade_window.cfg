SPECIFICATION Spec
CONSTANTS
  Prices = {1, 2, 3}
  Quantities = {1}
  Window = 1
  Interval = 2
  MaxCandles = 2
  MaxTrades = 3
  MaxTime = 5
  MaxLost = 2
INVARIANTS
  WindowKeepsDay
  CandlesOfArrivals
PROPERTIES
  SummaryIsOfLastDay
CHECK_DEADLOCK FALSE
