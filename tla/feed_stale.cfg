SPECIFICATION FairMarketSpec
CONSTANTS
  MaxOrders = 2
  Prices = {1}
  Quantities = {1}
  FaultKinds = {}
  MaxFaults = 0
  Readers = {{"orders"}}
  FeedFaultKinds = {"ackLost"}
  MaxFeedFaults = 1
  MaxRecent = 1
PROPERTIES
  FeedNeverGoesBack
CHECK_DEADLOCK FALSE
