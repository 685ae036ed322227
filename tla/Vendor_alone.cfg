CONSTANTS
  Worker = {w1}
  Buckets <- OneBucket
  MaxRetries = 1
  PollMax = 2
  Intervals = {1, 2}
  Monthly = 2
  HardStop = 75
  Costs = {1}
  Credits = 3
SPECIFICATION FairSpec
INVARIANT CompleteIsServed
PROPERTY QueryEnds
CHECK_DEADLOCK FALSE
