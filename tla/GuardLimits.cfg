CONSTANTS
  ToolLimit = 1
  BrowserLimit = 1
  MaxTasks = 2
  MaxRuns = 2
  MaxBatch = 2
  MaxAborts = 1
  Windows = TRUE
SPECIFICATION FairSpec
INVARIANTS
  WithinLimits
  NothingOutlivesTask
PROPERTIES
  TasksAndAbortsEnd
CHECK_DEADLOCK FALSE
