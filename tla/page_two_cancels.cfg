SPECIFICATION Spec
CONSTANTS
  Orders = {"o1", "o2"}
  Slots = {1, 2}
  Flows = {"f1", "f2"}
  MaxMarket = 1
  MaxTasks = 2
  MaxTroubles = 0
INVARIANTS
  CancellingIsDisabled
CHECK_DEADLOCK FALSE
