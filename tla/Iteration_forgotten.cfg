\* Violates HonestOutcome: a driver that raises closes the row without writing
\* down the failures it kept in memory, and a discard opens it again.
SPECIFICATION Spec
CONSTANTS
  Ops = {"run", "step", "discard"}
  MayFail = {4}
  MayRaise = TRUE
  MaxCrashes = 0
INVARIANTS
  HonestOutcome
CHECK_DEADLOCK FALSE
