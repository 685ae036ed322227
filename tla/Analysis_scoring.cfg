SPECIFICATION Spec
CONSTANTS
  c1 = c1
  c2 = c2
  airshow = airshow
  unknown = unknown
  undated = undated
  leg1 = leg1
  leg2 = leg2
  tail = tail
  City = {c1, c2}
  Track = {airshow}
  Unattributed = "UNKNOWN"
  Unknown = unknown
  Undated = undated
  None = None
  Pool <- Evidence
  Worlds <- Fortunes
  Weights <- Model
  Categories <- Filter
  Unit = 10
  Window = 2
  Decay <- Ages
  Cfg <- Thresholds
  MaxUpsets = 1
  MaxDiscards = 1
INVARIANTS
  TypeOK
  TwoReports
  LossIsNotQuiet
  EveryRowAnswered
PROPERTIES
  AlertDiscloses
CHECK_DEADLOCK FALSE
