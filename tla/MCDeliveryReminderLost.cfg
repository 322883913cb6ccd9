SPECIFICATION FairSpec
CONSTANTS
  Null = Null
  Invoices = {i1}
  Workers = {w1}
  Days <- MCDays
  DueDay = 0
  ReminderOn <- MCReminderOn
  Deduplicates = TRUE
  MaxAttempts = 2
  MaxTotal = 1
  MaxEdits = 0
  MaxFaults = 1
CHECK_DEADLOCK FALSE
PROPERTIES
  ReminderSurvivesFailure
