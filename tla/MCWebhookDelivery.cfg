SPECIFICATION FairSpec
CONSTANTS
  Null = Null
  Endpoints = {e1}
  Deliveries = {d1}
  Workers = {w1, w2}
  MaxAttempts = 2
  DisableAfter = 1
  MaxFailures = 2
  MaxCrashes = 1
  MaxLosses = 1
CHECK_DEADLOCK FALSE
INVARIANTS
  TypeOK
  LogTellsTheStory
  CountedOnce
PROPERTIES
  EndsOnce
  DeliveryEnds
