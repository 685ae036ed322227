SPECIFICATION Spec
CONSTANTS
  p1 = p1
  p2 = p2
  Proc = {p1, p2}
  HostOf <- OneHost
  Ops = {"trigger", "retry"}
  PidReuse = TRUE
  MaxIterations = 3
  MaxEpochs = 4
SYMMETRY Symmetry
INVARIANTS
  TypeOK
  OneRunPerSession
  RunnerHoldsSlot
  OwnerIsWorker
PROPERTY ServesAsSession
CHECK_DEADLOCK FALSE
