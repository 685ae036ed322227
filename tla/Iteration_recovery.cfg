SPECIFICATION Spec
CONSTANTS
  Ops = {"run", "retry", "create", "step", "resume", "finalise", "close"}
  MayFail <- RecoveryFailures
  MayRaise = TRUE
  MaxCrashes = 2
INVARIANTS
  TypeOK
  StagesInTurn
  NoGhostRun
CHECK_DEADLOCK FALSE
