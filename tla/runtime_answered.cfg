SPECIFICATION Spec
CONSTANTS
  MaxOrders = 3
  Prices = {1, 2}
  Quantities = {1, 2}
  FaultKinds = {"commit", "commitUnsure", "rebuild", "crash"}
  MaxFaults = 2
INVARIANTS
  BookAgreesWithStore
  StreamNeverGoesBack
  StreamIsComplete
PROPERTIES
  TerminalIsFinal
  ImplementsExchange
CONSTRAINT FirstBuys
CHECK_DEADLOCK FALSE
