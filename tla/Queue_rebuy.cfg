CONSTANTS
  Social = {social}
  Live = {live}
  Booking = {}
  History = {history}
  Cooldown = 1
  Revisit = 1
  Cap = 4
  Monthly = 6
  HardCap = 4
  Share = 1
  HardStop = 4
  Ops = {"crash"}
  MaxCost = 2
  MaxTime = 2
  MaxIterations = 1
  MaxUpsets = 1
  MaxRows = 7
SPECIFICATION Spec
INVARIANT NothingRecollected
CHECK_DEADLOCK FALSE
