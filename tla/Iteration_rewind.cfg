\* Violates StagesInTurn: a resume from an earlier stage and a second crash, after
\* which the iteration is resumed at the stage the first one was stamped with.
SPECIFICATION Spec
CONSTANTS
  Ops = {"run", "resume", "rewind"}
  MayFail = {}
  MayRaise = FALSE
  MaxCrashes = 2
INVARIANTS
  StagesInTurn
CHECK_DEADLOCK FALSE
