SPECIFICATION Spec
CONSTANTS
  Null = Null
  Contracts = {c1}
  Signatures = {s1, s2}
  Requests = {r1, r2}
  Workers = {w1, w2}
  Days <- MCDays
  Ends <- MCEnds
  MaxAttempts = 2
  MaxEdits = 2
  MaxFaults = 2
SYMMETRY Symmetric
CHECK_DEADLOCK FALSE
INVARIANTS
  TypeOK
  CopyStatesTheContract
  CopyIsNotForgotten
PROPERTIES
  CopyIsKept
  ImplementsIssuedDocument
