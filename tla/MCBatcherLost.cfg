SPECIFICATION Spec
CONSTANTS
  CDNs = {"fastly", "gcp"}
  URLs = {u1, u2}
  Pipeline = "pipeline"
  MaxSize = 2
  QuietWindow = 1
  MaxAge = 2
  EnqueueTime = 1
  MaxSubmits = 3
SYMMETRY Symmetry
INVARIANT NoWorkIsLost
