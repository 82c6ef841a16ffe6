CONSTANTS
  MaxEntries = 6
  MaxAside = 2
  MaxEvents = 0
  MaxTears = 0
  Serial = TRUE
SPECIFICATION Spec
INVARIANTS
  SummaryCoversHistory
CHECK_DEADLOCK FALSE
