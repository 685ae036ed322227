\* Violates NoGhostRun: an iteration closed under its worker keeps a RUNNING
\* record through the next startup, and a discard opens it again.
SPECIFICATION Spec
CONSTANTS
  Ops = {"run", "close", "discard"}
  MayFail = {}
  MayRaise = FALSE
  MaxCrashes = 1
INVARIANTS
  NoGhostRun
CHECK_DEADLOCK FALSE
