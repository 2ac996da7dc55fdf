SPECIFICATION FairSpec
CONSTANTS
  URLs = {u1, u2, u3}
  Unsendable = {u3}
  Quota = 2
  Window = 2
  Concurrency = 2
  MaxPurges = 2
INVARIANTS
  TypeOK
  AdmissionsAreBounded
  NoNeedlessWait
  OkMeansAccepted
PROPERTIES
  ImplementsContract
  PurgeReturns
