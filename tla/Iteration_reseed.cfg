SPECIFICATION Spec
CONSTANTS
  Ops = {"run", "resume"}
  MayFail <- OnlySeeding
  MayRaise = FALSE
  MaxCrashes = 1
INVARIANT FailedMeansUnseeded
CHECK_DEADLOCK FALSE
