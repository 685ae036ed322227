CONSTANTS
  Social = {social}
  Live = {}
  Booking = {booking}
  History = {}
  Cooldown = 1
  Revisit = 1
  Cap = 4
  Monthly = 6
  HardCap = 4
  Share = 1
  HardStop = 4
  Ops = {"crash", "discard"}
  MaxCost = 1
  MaxTime = 2
  MaxIterations = 2
  MaxUpsets = 1
  MaxRows = 7
SPECIFICATION Spec
INVARIANTS CooldownKept NothingLeft
PROPERTY FollowOnsKept
CHECK_DEADLOCK FALSE
