SPECIFICATION Spec
CONSTANTS
  Ops = {"run", "retry", "create", "step", "discard", "cancel"}
  MayFail <- WalkFailures
  MayRaise = FALSE
  MaxCrashes = 1
INVARIANTS
  HonestOutcome
  RecordsAgree
CHECK_DEADLOCK FALSE
