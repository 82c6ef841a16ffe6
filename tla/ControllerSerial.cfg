CONSTANTS
  Chats = {c1, c2}
  NoChat = NoChat
  MaxMsgs = 3
  MaxChunks = 2
  MaxCrashes = 1
SYMMETRY ChatSymmetry
SPECIFICATION Spec
INVARIANTS
  OneRunnerPerChat
  NoStrandedItems
  ItemsConserved
PROPERTIES
  AbortSilencesRunningItem
  ClearedItemNeverStarts
  ImplementsSerialExecutor
