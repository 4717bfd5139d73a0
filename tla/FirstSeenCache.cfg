CONSTANTS
  Requests = {r1, r2, r3}
  Epochs = {e1, e2}
  CacheSize = 1
  MaxCalls = 4
  None = None
SPECIFICATION Spec
INVARIANTS
  SingleFlight
  FreshOutcome
PROPERTY
  EveryCallReturns
\* The source may fall silent once the bounded number of calls is used up.
CHECK_DEADLOCK FALSE
