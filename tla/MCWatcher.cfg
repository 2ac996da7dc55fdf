SPECIFICATION Spec
CONSTANTS
  Names = {"a"}
  Watches <- NestedRoots
  None = None
  Depth = 2
  MaxWatches = 3
  MaxQueue = 100
  MaxChanges = 6
  MaxRuns = 1
INVARIANTS
  TypeOK
  TreeIsCovered
  BookkeepingIsExact
  EveryDirIsWatched
  EventsAreRouted
CHECK_DEADLOCK FALSE
