SPECIFICATION FairSpec
CONSTANTS
  a = a
  b = b
  c1 = c1
  c2 = c2
  Files = {a, b}
  CDNs = {c1, c2}
  Configs <- AllConfigs
  MaxAttempts = 2
  Contents <- TwoChanges
  MaxStops = 2
  MaxRows = 4
INVARIANTS
  TypeOK
  TargetsHaveWorkers
  NothingIsForgotten
PROPERTIES KeepsToCoalescer KeepsToLedger EveryChangeIsAnswered
CHECK_DEADLOCK FALSE
