SPECIFICATION FairSpec
CONSTANTS
  Null = Null
  Schedules = {s1}
  Workers = {w1, w2}
  Days <- MCDays
  EndCounts = {2}
  Cadence = 1
  MaxAttempts = 2
  KeptCompleted = 1
  KeptFailed = 2
  MaxFaults = 2
  MaxEdits = 1
INVARIANTS
  TypeOK
  NoOccurrenceLostOrRepeated
  EndsWithLastOccurrence
PROPERTIES
  DueIsSettled
  ImplementsSchedule
