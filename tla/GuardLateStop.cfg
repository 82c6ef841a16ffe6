CONSTANTS
  ToolLimit = 1
  BrowserLimit = 1
  MaxTasks = 1
  MaxRuns = 1
  MaxBatch = 1
  MaxAborts = 0
  Windows = TRUE
SPECIFICATION Spec
PROPERTY
  StopIsFinal
CHECK_DEADLOCK FALSE
