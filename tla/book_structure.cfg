SPECIFICATION Spec
CONSTANTS
  MaxOrders = 4
  Prices = {1, 2, 3}
  Quantities = {1, 2}
INVARIANTS
  WellLinked
PROPERTIES
  ImplementsPriceTime
CHECK_DEADLOCK FALSE
