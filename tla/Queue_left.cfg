CONSTANTS
  Social = {social}
  Live = {live}
  Booking = {}
  History = {history}
  Cooldown = 1
  Revisit = 1
  Cap = 4
  Monthly = 6
  HardCap = 3
  Share = 1
  HardStop = 6
  Ops = {"crash"}
  MaxCost = 1
  MaxTime = 0
  MaxIterations = 1
  MaxUpsets = 1
  MaxRows = 6
SPECIFICATION Spec
INVARIANT HistoryCollected
CHECK_DEADLOCK FALSE
