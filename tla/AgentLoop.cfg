CONSTANTS
  MaxSent = 3
  MaxCalls = 2
  MaxToolTurns = 1
  MaxRejects = 1
SPECIFICATION FairSpec
INVARIANTS
  ContextIsTranscript
  ResultsInSourceOrder
  MessagesConserved
  OneSteeringPerTurn
  RequestsAccepted
PROPERTIES
  RunEnds
CHECK_DEADLOCK FALSE
