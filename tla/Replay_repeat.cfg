SPECIFICATION Spec
CONSTANTS
  h1 = h1
  h2 = h2
  Handler = {h1, h2}
  Key = {"k1", "k2"}
  Body = {"manual", "auto", "wait", "retriage"}
  ModeOf <- Kinds
  MaxRuns = 2
  TTL = 1
  MaxTime = 2
  MaxCrashes = 1
SYMMETRY Symmetry
INVARIANT OneRunPerKey
CHECK_DEADLOCK FALSE
