CONSTANTS
  SerialCallers = TRUE
  MaxRetries = 2
  MaxPrompts = 3
  MaxAborts = 2
  MaxProgress = 1
SPECIFICATION FairSpec
INVARIANTS
  IdleMeansIdle
  RetriesBounded
PROPERTIES
  ContinueNeverThrows
  EveryCallReturns
