CONSTANTS
  Files = {f1}
  Links = {l1}
  Tools = {"write", "edit", "deliver"}
  Present = TRUE
  MaxCalls = 3
  MaxShell = 1
SPECIFICATION FairSpec
INVARIANTS
  CallOrder
  OneCallPerFile
PROPERTIES
  NoUpdateLost
  EveryCallEnds
