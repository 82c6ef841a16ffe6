SPECIFICATION FairSpec
CONSTANTS
  Ids = {1, 2}
  MaxEvents = 1
PROPERTIES
  ShutdownExits
CHECK_DEADLOCK FALSE
