\* Violates NoStageMissing: the stages a cancellation skipped are forgotten when
\* the iteration crashes while it scores and is resumed.
SPECIFICATION Spec
CONSTANTS
  Ops = {"run", "cancel", "resume"}
  MayFail = {}
  MayRaise = FALSE
  MaxCrashes = 1
INVARIANTS
  NoStageMissing
CHECK_DEADLOCK FALSE
