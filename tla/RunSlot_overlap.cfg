SPECIFICATION Spec
CONSTANTS
  p1 = p1
  p2 = p2
  Proc = {p1, p2}
  HostOf <- OneHost
  Ops = {"trigger"}
  PidReuse = FALSE
  MaxIterations = 2
  MaxEpochs = 4
PROPERTY AnyPeerSpared
CHECK_DEADLOCK FALSE
