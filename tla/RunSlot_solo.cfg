SPECIFICATION Spec
CONSTANTS
  p1 = p1
  p2 = p2
  Proc = {p1}
  HostOf <- OneHost
  Ops = {"trigger", "retry", "create", "step", "iterate", "resume", "finalise", "close",
         "discard"}
  PidReuse = FALSE
  MaxIterations = 3
  MaxEpochs = 3
PROPERTY OpensAlone
CHECK_DEADLOCK FALSE
