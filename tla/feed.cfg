SPECIFICATION MarketSpec
CONSTANTS
  MaxOrders = 2
  Prices = {1, 2}
  Quantities = {1, 2}
  FaultKinds = {"commit", "publish"}
  MaxFaults = 1
  Readers = {{"orders", "trades"}, {"wallet"}}
  FeedFaultKinds = {"ackLost", "resume", "reread"}
  MaxFeedFaults = 2
  MaxRecent = 2
INVARIANTS
  DepthIsSumOfItems
  FeedShowsTable
  NothingInvented
  WalletCountsAll
PROPERTIES
  OnlyRedeliveryGoesBack
CONSTRAINTS FirstBuys RestartsAlone SecondFaults
CHECK_DEADLOCK FALSE
