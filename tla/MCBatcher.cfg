SPECIFICATION FairSpec
CONSTANTS
  CDNs = {"fastly", "gcp"}
  URLs = {u1, u2}
  Pipeline = "pipeline"
  MaxSize = 2
  QuietWindow = 2
  MaxAge = 3
  EnqueueTime = 1
  MaxSubmits = 6
INVARIANTS
  TypeOK
  AgeIsBounded
  OnlyTheCutIsLost
PROPERTIES CoalescesBursts ImplementsCoalescer EveryTargetIsEnqueued
