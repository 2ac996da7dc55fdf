SPECIFICATION Spec
CONSTANTS
  Names = {"a", "b", "tmp"}
  Watches <- OneRoot
  None = None
  Depth = 1
  MaxWatches = 2
  MaxQueue = 3
  MaxChanges = 5
  MaxRuns = 2
INVARIANTS
  WatchedIsTracked
  TreeIsCovered
  GlobsMatch
CHECK_DEADLOCK FALSE
