CONSTANTS
  Worker = {w1, w2}
  Buckets <- OneBucket
  MaxRetries = 1
  PollMax = 1
  Intervals = {1}
  Monthly = 2
  HardStop = 75
  Costs = {2}
  Credits = 2
SPECIFICATION Spec
INVARIANTS TypeOK Paced LedgerCovers OvershootInFlight
SYMMETRY Symmetry
CHECK_DEADLOCK FALSE
