CONSTANTS
  MaxEntries = 5
  MaxAside = 2
  MaxEvents = 2
  MaxTears = 2
  Serial = TRUE
SPECIFICATION Spec
INVARIANTS
  FileIsMemory
  
  NoOrphanResults
PROPERTIES
  CompactionKeepsSuffix
  ForkKeepsPath
CHECK_DEADLOCK FALSE
