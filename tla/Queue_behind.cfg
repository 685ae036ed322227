CONSTANTS
  Social = {social}
  Live = {live}
  Booking = {booking}
  History = {}
  Cooldown = 1
  Revisit = 1
  Cap = 4
  Monthly = 6
  HardCap = 4
  Share = 1
  HardStop = 4
  Ops = {"crash", "discard"}
  MaxCost = 1
  MaxTime = 0
  MaxIterations = 1
  MaxUpsets = 3
  MaxRows = 7
SPECIFICATION Spec
INVARIANT NothingLeft
CHECK_DEADLOCK FALSE
