SPECIFICATION Spec
CONSTANTS
  Null = Null
  Invoices = {i1}
  Workers = {w1, w2}
  Days <- MCDays
  DueDay = 0
  ReminderOn <- MCReminderOn
  Deduplicates = FALSE
  MaxAttempts = 2
  MaxTotal = 2
  MaxEdits = 1
  MaxFaults = 1
SYMMETRY Symmetric
CHECK_DEADLOCK FALSE
INVARIANTS
  TypeOK
  NothingSentTwice
  MailCarriesPdf
  NothingForgotten
