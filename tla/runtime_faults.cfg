SPECIFICATION FairSpec
CONSTANTS
  MaxOrders = 3
  Prices = {1, 2}
  Quantities = {1, 2}
  FaultKinds = {"createUnsure", "cancelUnsure", "commit", "commitLate", "rebuild"}
  MaxFaults = 2
INVARIANTS
  RuntimeInv
  FillsConserved
  MatchFitsRows
  AckedOrdersNeverCross
PROPERTIES
  MutexIsReleased
  AckedCancelIsFinal
  NoTradeThrough
  BookIsPriceTime
CONSTRAINTS FirstBuys ThreeIncidents SecondFault
CHECK_DEADLOCK FALSE
