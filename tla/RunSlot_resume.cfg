SPECIFICATION Spec
CONSTANTS
  p1 = p1
  p2 = p2
  Proc = {p1, p2}
  HostOf <- OneHost
  Ops = {"trigger", "resume"}
  PidReuse = FALSE
  MaxIterations = 2
  MaxEpochs = 4
INVARIANT OneRunPerSession
CHECK_DEADLOCK FALSE
