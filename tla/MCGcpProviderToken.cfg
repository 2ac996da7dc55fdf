SPECIFICATION Spec
CONSTANTS
  URLs = {u1, u2, u3}
  Unsendable = {}
  Quota = 2
  Window = 2
  Concurrency = 2
  MaxPurges = 1
SYMMETRY Symmetry
INVARIANT TerminalMeansRefused
