SPECIFICATION FaultySpec
CONSTANTS
  CDNs = {"fastly", "gcp"}
  Workers = {"fastly", "gcp"}
  CdnOf <- OneWorkerPerCdn
  MaxAttempts = 2
  InitialBackoff = 1
  MaxBackoff = 2
  MaxFlushes = 2
  MaxStops = 2
INVARIANT AcknowledgedIsDurable
