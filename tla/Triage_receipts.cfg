CONSTANTS
  Responses <- Stores
  Publisher <- Publishers
  Claim <- Claims
  Unknown = "unknown"
  Judgements <- Said
  BatchSize = 2
  MaxAge = 1
  Skew = 1
  MinSalience = 0
  ConfirmMin = 5
  SeedCities = {"seed"}
  Expand = TRUE
  MinDomains = 2
  MinExpansion = 6
  MaxExpanded = 1
  Start = 1
  MaxHours = 0
  MaxUpsets = 1
SPECIFICATION Spec
INVARIANT ReceiptHoldsVerdict
CHECK_DEADLOCK FALSE
