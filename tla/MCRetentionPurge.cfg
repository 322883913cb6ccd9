SPECIFICATION FairSpec
CONSTANTS
  Null = Null
  f1 = f1
  f2 = f2
  Files <- MCFiles
  Refused <- MCRefused
  Images <- MCImages
  Workers = {w1}
  Requests = {q1}
  FailureLimit = 1
  MaxFaults = 1
CHECK_DEADLOCK FALSE
INVARIANTS
  TypeOK
  FilesMatchRows
PROPERTIES
  PurgeTakesOnlyTheDue
  ReleasedInTheEnd
