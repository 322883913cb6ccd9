SPECIFICATION Spec
CONSTANTS
  Null = Null
  Proposals = {p1}
  Answers = {accepted, rejected}
  Requests = {r1, r2}
  Days <- MCDays
  Ends <- MCEnds
  ValidFor = 0
  MaxTries = 2
  MaxCodes = 2
  MaxEdits = 1
  MaxFaults = 1
SYMMETRY Symmetric
CHECK_DEADLOCK FALSE
INVARIANTS
  TypeOK
  SpentExactlyWhenAnswered
  OneLiveCode
  IssuedAsEdited
PROPERTIES
  ImplementsIssuedDocument
