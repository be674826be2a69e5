SPECIFICATION FairFrontSpec
CONSTANTS
  Orders = {"o1"}
  Slots = {1, 2}
  Flows = {"f1"}
  MaxMarket = 1
  MaxTasks = 1
  MaxTroubles = 1
  LoginPages = {"login", "orders"}
INVARIANTS
  FrontTypeOK
  LoadingIsLatest
  SessionIsShown
  LonelyListIsRight
PROPERTIES
  MarketNeverGoesBack
  PanelsSettle
  LoadingEnds
CHECK_DEADLOCK FALSE
