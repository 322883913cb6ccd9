SPECIFICATION Spec
CONSTANTS
  Null = Null
  TimeEntries = {e1}
  Expenses = {x1}
  Proposals = {p1}
  Invoices = {n1, n2}
  Requests = {r1, r2}
  Logged = {1}
  Amended = {2}
  MaxEdits = 3
SYMMETRY Symmetric
CHECK_DEADLOCK FALSE
INVARIANTS
  TypeOK
  BilledOnce
  StampedWhereCharged
  BilledWorkIsFrozen
