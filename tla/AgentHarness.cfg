SPECIFICATION FairSpec
CONSTANTS
  MaxItems = 3
  MaxEvents = 2
INVARIANTS
  ItemsOnce
  WritesInOrder
  OneChain
  RequestShowsSession
PROPERTIES
  OperationsSettle
CHECK_DEADLOCK FALSE
