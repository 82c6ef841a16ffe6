SPECIFICATION FairSpec
CONSTANTS
  Ids = {1, 2}
  MaxEvents = 2
INVARIANTS
  RecordsAreTrue
  NoOrphanProcess
  HeartbeatsAreLive
PROPERTIES
  EveryRequestReturns
  ShutdownEnds
CHECK_DEADLOCK FALSE
