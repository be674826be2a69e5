SPECIFICATION FairSpec
CONSTANTS
  Services = {"order-service", "marketdata-service", "wallet-service"}
  Extra = {"audit.>"}
  MaxOperator = 1
  MaxRestarts = 2
INVARIANTS
  ReadyMeansCovered
  OperatorSubjectsKept
PROPERTIES
  AllComeUp
CHECK_DEADLOCK FALSE
