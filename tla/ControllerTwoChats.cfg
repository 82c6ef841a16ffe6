CONSTANTS
  Chats = {c1, c2}
  NoChat = NoChat
  MaxMsgs = 3
  MaxChunks = 2
  MaxCrashes = 0
SPECIFICATION FairSpec
PROPERTIES
  EveryItemEnds
  ShutdownCompletes
