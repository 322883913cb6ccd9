SPECIFICATION Spec
CONSTANTS
  i1 = i1
  k1 = k1
  Null = Null
  Invoices = {i1}
  Payments = {p1, p2}
  CreditNotes = {n1}
  Intents = {k1}
  IntentInvoice <- MCIntentInvoice
  IntentAmount <- MCIntentAmount
  Totals = {0, 2}
  Amounts = {1, 2}
  Fees = {0}
  LateFeeKind = "percentage"
  LateFeeRate = 50
  LateFeeCap = 5
INVARIANTS
  TypeOK
  AggregateIsSumOfPayments
  PaidExactlyWhenSettled
  MoneyOnlyOnIssued
  IntentBookedOnce
PROPERTIES
  FaceValueFixed
  FeeOnlyOnDebt
