SPECIFICATION Spec
CONSTANTS
  p1 = p1
  p2 = p2
  Proc = {p1}
  HostOf <- OneHost
  Ops = {"create", "step", "discard"}
  PidReuse = FALSE
  MaxIterations = 2
  MaxEpochs = 2
INVARIANT OneOpenIteration
CHECK_DEADLOCK FALSE
