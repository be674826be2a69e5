SPECIFICATION Spec
CONSTANTS
  Decimals = 2
  MaxInt64 = 1023
  Users = {user1, user2}
  PriceTexts <- MCPriceTexts
  QuantityTexts <- MCQuantityTexts
  ParamTexts <- MCParamTexts
  MaxOrders = 3
  DefaultListLimit = 1
  MaxListLimit = 2
  DefaultDepth = 1
  MaxDepth = 2
CONSTRAINT FewTexts
SYMMETRY UserSymmetry
INVARIANTS
  BookIsParsedRows
  AnsweredDepthIsTable
  OnlyOwnOrders
  ListHidesOnlyOlder
  AcceptedIsRead
  NumbersRoundTrip
PROPERTIES
  ImplementsExchange
CHECK_DEADLOCK FALSE
