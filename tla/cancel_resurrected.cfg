SPECIFICATION Spec
CONSTANTS
  MaxOrders = 2
  Prices = {1}
  Quantities = {1, 2}
  FaultKinds = {"cancelUnsure"}
  MaxFaults = 1
PROPERTIES
  TerminalIsFinal
CHECK_DEADLOCK FALSE
