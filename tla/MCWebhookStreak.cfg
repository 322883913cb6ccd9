SPECIFICATION Spec
SYMMETRY Symmetric
CONSTANTS
  Null = Null
  Endpoints = {e1}
  Deliveries = {d1, d2}
  Workers = {w1, w2}
  MaxAttempts = 2
  DisableAfter = 2
  MaxFailures = 1
  MaxCrashes = 0
  MaxLosses = 0
CHECK_DEADLOCK FALSE
INVARIANT
  StreakOfDistinctDeliveries
