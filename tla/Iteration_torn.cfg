\* Violates AlwaysAgree: a discard that dies between its statements leaves the
\* pointer, the record and the notes of the stage at odds.
SPECIFICATION Spec
CONSTANTS
  Ops = {"run", "step", "discard"}
  MayFail = {3}
  MayRaise = FALSE
  MaxCrashes = 1
INVARIANTS
  AlwaysAgree
CHECK_DEADLOCK FALSE
