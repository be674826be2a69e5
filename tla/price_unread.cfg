SPECIFICATION Spec
CONSTANTS
  Decimals = 2
  MaxInt64 = 1023
  Users = {"user-1", "user-2"}
  PriceTexts <- MCPriceTexts
  QuantityTexts <- MCQuantityTexts
  ParamTexts <- MCParamTexts
  MaxOrders = 1
  DefaultListLimit = 1
  MaxListLimit = 2
  DefaultDepth = 1
  MaxDepth = 2
INVARIANTS
  AcceptedIsShown
CHECK_DEADLOCK FALSE
