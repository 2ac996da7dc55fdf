SPECIFICATION Spec
CONSTANTS
  Names = {"a"}
  Watches <- OneRoot
  None = None
  Depth = 1
  MaxWatches = 4
  MaxQueue = 100
  MaxChanges = 3
  MaxRuns = 1
INVARIANT NoFileOfNewDirIsLost
CHECK_DEADLOCK FALSE
