SPECIFICATION KeepingSpec
CONSTANTS
  CDNs = {"fastly"}
  Workers = {"w1", "w2"}
  CdnOf <- SharedCdn
  MaxAttempts = 2
  InitialBackoff = 1
  MaxBackoff = 1
  MaxFlushes = 2
  MaxStops = 1
INVARIANT ClaimIsExclusive
