CONSTANTS
  Social = {social}
  Live = {live}
  Booking = {}
  History = {history}
  Cooldown = 1
  Revisit = 1
  Cap = 4
  Monthly = 6
  HardCap = 4
  Share = 1
  HardStop = 4
  Ops = {"discard"}
  MaxCost = 2
  MaxTime = 2
  MaxIterations = 1
  MaxUpsets = 2
  MaxRows = 7
SPECIFICATION Spec
INVARIANT AnyPointReachable
CHECK_DEADLOCK FALSE
