CONSTANTS
  Social = {social}
  Live = {live}
  Booking = {}
  History = {history}
  Cooldown = 1
  Revisit = 1
  Cap = 4
  Monthly = 6
  HardCap = 4
  Share = 1
  HardStop = 4
  Ops = {"crash", "discard", "cancel"}
  MaxCost = 2
  MaxTime = 1
  MaxIterations = 1
  MaxUpsets = 2
  MaxRows = 6
SPECIFICATION Spec
INVARIANTS TypeOK BoughtOnce BankedNotRebought HonestCoverage WithinBudget
CHECK_DEADLOCK FALSE
