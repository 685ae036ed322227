\* Violates NeverGhost: a step whose driver raises between the two writes of the
\* stage's record leaves it RUNNING, and the iteration open, with nobody at work.
SPECIFICATION Spec
CONSTANTS
  Ops = {"create", "step"}
  MayFail = {}
  MayRaise = TRUE
  MaxCrashes = 0
INVARIANTS
  NeverGhost
CHECK_DEADLOCK FALSE
