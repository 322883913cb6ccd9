------------------------- MODULE InvoiceLedgerProofs ------------------------
(***************************************************************************)
(* What TLC checks of InvoiceLedger on a small instance, proved for any    *)
(* number of invoices, payments, credit notes and intents and any amounts. *)
(***************************************************************************)
EXTENDS InvoiceLedger, FunctionTheorems, FiniteSetTheorems, TLAPS

-----------------------------------------------------------------------------
\* What SumCents returns: a natural number, nothing for no rows, one row's amount more for one row
\* more, and the same for the same amounts.

\* The cents of one row are as many as its amount.
LEMMA RowCents ==
  ASSUME NEW x, NEW a \in Nat
  PROVE  IsFiniteSet({x} \X (1..a)) /\ Cardinality({x} \X (1..a)) = a
<1>1. IsFiniteSet(1..a) /\ Cardinality(1..a) = a
  BY FS_Interval
<1>2. IsFiniteSet({x}) /\ Cardinality({x}) = 1
  BY FS_Singleton
<1> QED
  BY <1>1, <1>2, FS_Product

\* A finite set of rows with natural amounts has finitely many cents.
LEMMA CentsFinite ==
  ASSUME NEW S, IsFiniteSet(S), NEW rows, \A x \in S : rows[x].amount \in Nat
  PROVE  IsFiniteSet(CentsOf(S, rows))
<1> DEFINE C(x) == {x} \X (1..rows[x].amount)
           f == [x \in S |-> C(x)]
           T == {C(x) : x \in S}
<1>1. f \in Surjection(S, T)
  BY DEF Surjection
<1>2. IsFiniteSet(T)
  BY <1>1, FS_Surjection
<1>3. \A U \in T : IsFiniteSet(U)
  <2>1. SUFFICES ASSUME NEW x \in S PROVE IsFiniteSet(C(x))
    OBVIOUS
  <2>2. rows[x].amount \in Nat
    OBVIOUS
  <2> QED
    BY <2>2, RowCents
<1> QED
  BY <1>2, <1>3, FS_UNION DEF CentsOf

\* The sum is a natural number, whatever the rows.
LEMMA SumCentsType ==
  ASSUME NEW S, IsFiniteSet(S), NEW rows, \A x \in S : rows[x].amount \in Nat
  PROVE  SumCents(S, rows) \in Nat
BY CentsFinite, FS_CardinalityType DEF SumCents

\* coalesce(sum(...), 0): no rows sum to nothing.
LEMMA SumCentsEmpty == ASSUME NEW rows PROVE SumCents({}, rows) = 0
<1>1. CentsOf({}, rows) = {}
  BY DEF CentsOf
<1> QED
  BY <1>1, FS_EmptySet DEF SumCents

\* One row more adds exactly its amount.
LEMMA SumCentsAdd ==
  ASSUME NEW S, IsFiniteSet(S), NEW x, x \notin S,
         NEW rows, \A y \in S \cup {x} : rows[y].amount \in Nat
  PROVE  SumCents(S \cup {x}, rows) = SumCents(S, rows) + rows[x].amount
<1> DEFINE A == CentsOf(S, rows)
           B == {x} \X (1..rows[x].amount)
<1>1. CentsOf(S \cup {x}, rows) = A \cup B
  BY DEF CentsOf
<1>2. IsFiniteSet(A)
  BY CentsFinite
<1>3. rows[x].amount \in Nat /\ IsFiniteSet(B) /\ Cardinality(B) = rows[x].amount
  <2>1. rows[x].amount \in Nat
    OBVIOUS
  <2> QED
    BY <2>1, RowCents
<1>4. A \cap B = {}
  BY DEF CentsOf
<1>5. Cardinality(A) \in Nat
  BY <1>2, FS_CardinalityType
<1>6. Cardinality(A \cup B) = Cardinality(A) + Cardinality(B) - Cardinality(A \cap B)
  BY <1>2, <1>3, FS_Union
<1>7. Cardinality(A \cap B) = 0
  BY <1>4, FS_EmptySet
<1>8. SumCents(S \cup {x}, rows) = Cardinality(A \cup B) /\ SumCents(S, rows) = Cardinality(A)
  BY <1>1 DEF SumCents
<1> HIDE DEF A, B
<1> QED
  BY <1>3, <1>5, <1>6, <1>7, <1>8

\* Only the amounts of the summed rows matter.
LEMMA SumCentsSame ==
  ASSUME NEW S, NEW f, NEW g, \A x \in S : f[x].amount = g[x].amount
  PROVE  SumCents(S, f) = SumCents(S, g)
<1>1. CentsOf(S, f) = CentsOf(S, g)
  BY DEF CentsOf
<1> QED
  BY <1>1 DEF SumCents

-----------------------------------------------------------------------------
\* The inductive invariant.

\* What an invoice that was never issued looks like.
UnissuedIsBlank ==
  \A i \in Invoices : ~Issued(i) =>
    /\ invoice[i].amountPaid = 0 /\ invoice[i].lateFee = Null /\ ~invoice[i].paidAt

\* chk_invoices_amount_paid never has to refuse what it admits.
PaidWithinTotal == \A i \in Invoices : invoice[i].amountPaid <= invoice[i].total

\* A fee the sweep may still charge was priced on an invoice worth something.
PricedOnSomething ==
  \A i \in Invoices : assessed[i] # Null =>
    /\ Issued(i)
    /\ invoice[i].lateFee = Null /\ i \notin rewritten => invoice[i].total > 0

\* A note row in an open transaction is of the invoice it was of, if it was of any.
UncommittedOwned ==
  \A n \in CreditNotes : uncommitted[n] # Null =>
    /\ uncommitted[n].invoice \in Invoices
    /\ note[n].invoice \in {uncommitted[n].invoice, Null}

IInv == /\ TypeOK
        /\ MoneyOnlyOnIssued
        /\ UnissuedIsBlank
        /\ PaidWithinTotal
        /\ PricedOnSomething
        /\ UncommittedOwned
        /\ AggregateIsSumOfPayments
        /\ PaidExactlyWhenSettled

-----------------------------------------------------------------------------
\* Sums over the rows of one invoice.

\* A table's rows, of which SumCents needs only the amounts.
IsTable(rows, R) == \A x \in R : rows[x].amount \in Nat

\* The cents of an invoice's live rows are a natural number.
LEMMA LiveSumType ==
  ASSUME NEW R, IsFiniteSet(R), NEW rows, IsTable(rows, R), NEW i
  PROVE  SumCents(LiveRows(rows, R, i), rows) \in Nat
<1>1. LiveRows(rows, R, i) \subseteq R
  BY DEF LiveRows
<1>2. IsFiniteSet(LiveRows(rows, R, i))
  BY <1>1, FS_Subset
<1> QED
  BY <1>1, <1>2, SumCentsType DEF IsTable

\* Two versions of a table that agree on an invoice's live rows give it the same sum.
LEMMA LiveSumFrame ==
  ASSUME NEW R, NEW f, NEW g, NEW i,
         LiveRows(f, R, i) = LiveRows(g, R, i),
         \A x \in LiveRows(f, R, i) : f[x].amount = g[x].amount
  PROVE  SumCents(LiveRows(f, R, i), f) = SumCents(LiveRows(g, R, i), g)
BY SumCentsSame

\* A version of the table in which row x is live on i, and no other row changed, has x's
\* amount more than the rows without x.
LEMMA LiveSumAdd ==
  ASSUME NEW R, IsFiniteSet(R), NEW f, NEW g, NEW i, NEW x \in R,
         IsTable(f, R), IsTable(g, R),
         \A y \in R \ {x} : g[y] = f[y],
         g[x].invoice = i, ~g[x].trashed
  PROVE  SumCents(LiveRows(g, R, i), g)
           = SumCents(LiveRows(f, R, i) \ {x}, f) + g[x].amount
<1> DEFINE S == LiveRows(f, R, i) \ {x}
<1>1. LiveRows(g, R, i) = S \cup {x}
  BY DEF LiveRows
<1>2. S \subseteq R /\ x \notin S
  BY DEF LiveRows
<1>3. IsFiniteSet(S)
  BY <1>2, FS_Subset
<1>4. \A y \in S \cup {x} : g[y].amount \in Nat
  BY <1>2 DEF IsTable
<1>5. SumCents(S \cup {x}, g) = SumCents(S, g) + g[x].amount
  BY <1>2, <1>3, <1>4, SumCentsAdd
<1>6. SumCents(S, g) = SumCents(S, f)
  <2>1. \A y \in S : g[y].amount = f[y].amount
    BY <1>2
  <2> QED
    BY <2>1, SumCentsSame
<1> QED
  BY <1>1, <1>5, <1>6

\* The tables the ledger keeps, and the sums it takes of them.
LEMMA SumTypes ==
  ASSUME TypeOK, NEW i
  PROVE  /\ IsTable(payment, Payments) /\ IsTable(note, CreditNotes)
         /\ Recorded(payment, i) \in Nat /\ Credited(note, i) \in Nat
<1>1. IsTable(payment, Payments) /\ IsTable(note, CreditNotes)
  BY DEF TypeOK, PaymentRow, NoteRow, IsTable
<1> QED
  BY <1>1, LiveSumType, RowsAssumption DEF Recorded, Credited

-----------------------------------------------------------------------------
\* The status and paid_at a settlement decision leaves on an issued row.
LEMMA Resolved ==
  ASSUME NEW row \in InvoiceRow, row.status \in {"sent", "paid"}, NEW S \in BOOLEAN
  PROVE  /\ Resolve(row, S) \in InvoiceRow
         /\ Resolve(row, S).status \in {"sent", "paid"}
         /\ Resolve(row, S).status = "paid" <=> S
         /\ Resolve(row, S).paidAt <=> S
         /\ Resolve(row, S).total = row.total
         /\ Resolve(row, S).lateFee = row.lateFee
         /\ Resolve(row, S).amountPaid = row.amountPaid
<1> DEFINE st == IF S THEN "paid" ELSE IF row.status = "paid" THEN "sent" ELSE row.status
           r1 == [row EXCEPT !.status = st]
<1>1. st \in {"sent", "paid"} /\ (st = "paid" <=> S)
  OBVIOUS
<1>2. Resolve(row, S) = [row EXCEPT !.status = st, !.paidAt = S]
  BY DEF Resolve
<1> HIDE DEF st
<1>3. /\ Resolve(row, S) \in InvoiceRow
      /\ Resolve(row, S).status = st /\ Resolve(row, S).paidAt = S
      /\ Resolve(row, S).total = row.total /\ Resolve(row, S).lateFee = row.lateFee
      /\ Resolve(row, S).amountPaid = row.amountPaid
  BY <1>1, <1>2 DEF InvoiceRow
<1> QED
  BY <1>1, <1>3

\* What applyInvoiceAggregate leaves behind on the invoice it writes.
LEMMA Applied ==
  ASSUME TypeOK, NEW i \in Invoices, Issued(i), NEW paid \in Nat, NEW credited \in Nat,
         ApplyInvoiceAggregate(i, paid, credited)
  PROVE  /\ invoice' \in [Invoices -> InvoiceRow]
         /\ \A j \in Invoices \ {i} : invoice'[j] = invoice[j]
         /\ invoice'[i].amountPaid = paid /\ paid <= invoice'[i].total
         /\ invoice'[i].total = invoice[i].total
         /\ invoice'[i].lateFee = invoice[i].lateFee
         /\ invoice'[i].status \in {"sent", "paid"}
         /\ invoice'[i].paidAt <=> Settles(invoice[i].total, credited, paid)
         /\ invoice'[i].status = "paid" <=> invoice'[i].paidAt
         /\ staleNotes' = staleNotes \ {i}
<1> DEFINE S == Settles(invoice[i].total, credited, paid)
           row == [invoice[i] EXCEPT !.amountPaid = paid]
<1>1. S \in BOOLEAN
  BY DEF Settles
<1>2. /\ row \in InvoiceRow /\ row.status = invoice[i].status /\ row.total = invoice[i].total
      /\ row.lateFee = invoice[i].lateFee /\ row.amountPaid = paid
  BY DEF TypeOK, InvoiceRow
<1>3. row.status \in {"sent", "paid"}
  BY <1>2 DEF Issued
<1>4. invoice' = [invoice EXCEPT ![i] = Resolve(row, S)]
  BY DEF ApplyInvoiceAggregate, TypeOK
<1>5. paid <= invoice[i].total /\ staleNotes' = staleNotes \ {i}
  BY DEF ApplyInvoiceAggregate
<1> HIDE DEF S, row
<1>6. invoice'[i] = Resolve(row, S) /\ \A j \in Invoices \ {i} : invoice'[j] = invoice[j]
  BY <1>4 DEF TypeOK
<1>7. invoice' \in [Invoices -> InvoiceRow]
  BY <1>1, <1>2, <1>3, <1>4, Resolved DEF TypeOK
<1>8. /\ invoice'[i].status \in {"sent", "paid"}
      /\ invoice'[i].status = "paid" <=> S
      /\ invoice'[i].paidAt <=> S
      /\ invoice'[i].total = row.total /\ invoice'[i].lateFee = row.lateFee
      /\ invoice'[i].amountPaid = row.amountPaid
  BY <1>1, <1>2, <1>3, <1>6, Resolved
<1> QED
  BY <1>2, <1>5, <1>6, <1>7, <1>8 DEF S

-----------------------------------------------------------------------------
\* The invariant is inductive.

\* A transaction that ends in applyInvoiceAggregate keeps the invariant: it books what the
\* tables it leaves say, and touches no other invoice's rows.
LEMMA AppliedKeepsIInv ==
  ASSUME IInv, NEW i \in Invoices, Issued(i),
         NEW paid \in Nat, NEW credited \in Nat, ApplyInvoiceAggregate(i, paid, credited),
         payment' \in [Payments -> PaymentRow], note' \in [CreditNotes -> NoteRow],
         UNCHANGED <<reads, rewritten>>, miscounted' \subseteq Invoices,
         credited = Credited(note', i),
         i \notin miscounted' => paid = Recorded(payment', i),
         \A j \in Invoices \ {i} : /\ j \in miscounted' <=> j \in miscounted
                                   /\ Recorded(payment', j) = Recorded(payment, j)
                                   /\ Credited(note', j) = Credited(note, j),
         \A p \in Payments : payment'[p].invoice \in {payment[p].invoice, i, Null},
         \A n \in CreditNotes : note'[n].invoice \in {note[n].invoice, i, Null},
         \A n \in CreditNotes : uncommitted[n] # Null => note'[n].invoice = note[n].invoice
  PROVE  IInv'
<1> USE DEF IInv
<1>1. /\ invoice' \in [Invoices -> InvoiceRow]
      /\ \A j \in Invoices \ {i} : invoice'[j] = invoice[j]
      /\ invoice'[i].amountPaid = paid /\ paid <= invoice'[i].total
      /\ invoice'[i].total = invoice[i].total
      /\ invoice'[i].lateFee = invoice[i].lateFee
      /\ invoice'[i].status \in {"sent", "paid"}
      /\ invoice'[i].paidAt <=> Settles(invoice[i].total, credited, paid)
      /\ invoice'[i].status = "paid" <=> invoice'[i].paidAt
      /\ staleNotes' = staleNotes \ {i}
  BY Applied
<1>2. \A j \in Invoices : Issued(j)' <=> Issued(j)
  BY <1>1 DEF Issued
<1>3. TypeOK'
  BY <1>1 DEF TypeOK, reads
<1>4. MoneyOnlyOnIssued'
  <2>1. crediting' = crediting /\ uncommitted' = uncommitted
    BY DEF reads
  <2>2. \A p \in Payments : payment'[p].invoice # Null =>
          payment'[p].invoice \in Invoices /\ Issued(payment'[p].invoice)
    BY DEF MoneyOnlyOnIssued, TypeOK, PaymentRow
  <2>3. \A n \in CreditNotes : note'[n].invoice # Null =>
          note'[n].invoice \in Invoices /\ Issued(note'[n].invoice)
    BY DEF MoneyOnlyOnIssued, TypeOK, NoteRow
  <2> QED
    BY <1>2, <2>1, <2>2, <2>3 DEF MoneyOnlyOnIssued, UncommittedOwned, TypeOK
<1>5. UnissuedIsBlank'
  BY <1>1, <1>2 DEF UnissuedIsBlank
<1>6. PaidWithinTotal'
  BY <1>1 DEF PaidWithinTotal
<1>7. PricedOnSomething'
  BY <1>1, <1>2 DEF PricedOnSomething, reads
<1>8. AggregateIsSumOfPayments'
  BY <1>1 DEF AggregateIsSumOfPayments
<1>9. PaidExactlyWhenSettled'
  BY <1>1, <1>2 DEF PaidExactlyWhenSettled
<1>10. UncommittedOwned'
  <2>1. uncommitted' = uncommitted
    BY DEF reads
  <2> QED
    BY <2>1 DEF UncommittedOwned
<1> QED
  BY <1>3, <1>4, <1>5, <1>6, <1>7, <1>8, <1>9, <1>10

\* A change to one row of one invoice leaves every other invoice's sum alone.
LEMMA OtherSumsSame ==
  ASSUME NEW R, NEW f, NEW g, NEW x \in R, NEW i,
         \A y \in R \ {x} : g[y] = f[y],
         \A j \in Invoices \ {i} : f[x].invoice # j /\ g[x].invoice # j
  PROVE  \A j \in Invoices \ {i} :
           SumCents(LiveRows(g, R, j), g) = SumCents(LiveRows(f, R, j), f)
<1> SUFFICES ASSUME NEW j \in Invoices \ {i}
             PROVE  SumCents(LiveRows(g, R, j), g) = SumCents(LiveRows(f, R, j), f)
  OBVIOUS
<1>1. x \notin LiveRows(f, R, j) /\ x \notin LiveRows(g, R, j)
  BY DEF LiveRows
<1>2. LiveRows(f, R, j) = LiveRows(g, R, j)
  BY <1>1 DEF LiveRows
<1>3. \A y \in LiveRows(f, R, j) : g[y].amount = f[y].amount
  BY <1>1 DEF LiveRows
<1> QED
  BY <1>2, <1>3, LiveSumFrame

\* addPayment, from whichever of its callers.
LEMMA AddPaymentKeepsIInv ==
  ASSUME IInv, NEW i \in Invoices, NEW p \in Payments, NEW a \in Nat,
         NEW k \in Intents \cup {Null}, AddPayment(i, p, a, k)
  PROVE  IInv'
<1> DEFINE paid == Recorded(payment, i) + a
           row == [invoice |-> i, amount |-> a, intent |-> k, trashed |-> FALSE]
<1>1. TypeOK /\ Issued(i) /\ payment[p].invoice = Null
  BY DEF AddPayment, IInv
<1>2. paid \in Nat /\ Credited(note, i) \in Nat /\ IsTable(payment, Payments)
  BY <1>1, SumTypes
<1>3. row \in PaymentRow
  BY DEF PaymentRow
<1>4. payment' = [payment EXCEPT ![p] = row]
  BY DEF AddPayment
<1>5. payment' \in [Payments -> PaymentRow] /\ payment'[p] = row
      /\ \A q \in Payments \ {p} : payment'[q] = payment[q]
  BY <1>1, <1>3, <1>4 DEF TypeOK
<1>6. IsTable(payment', Payments)
  BY <1>5 DEF IsTable, PaymentRow
<1>7. \A j \in Invoices \ {i} : Recorded(payment', j) = Recorded(payment, j)
  <2>1. \A j \in Invoices \ {i} : payment[p].invoice # j /\ payment'[p].invoice # j
    BY <1>1, <1>5, NullAssumption
  <2> QED
    BY <1>5, <2>1, OtherSumsSame DEF Recorded
<1>8. paid = Recorded(payment', i)
  <2>1. SumCents(LiveRows(payment', Payments, i), payment')
          = SumCents(LiveRows(payment, Payments, i) \ {p}, payment) + payment'[p].amount
    BY <1>2, <1>5, <1>6, RowsAssumption, LiveSumAdd
  <2>2. LiveRows(payment, Payments, i) \ {p} = LiveRows(payment, Payments, i)
    BY <1>1, NullAssumption DEF LiveRows
  <2> QED
    BY <1>5, <2>1, <2>2 DEF Recorded
<1>9. /\ ApplyInvoiceAggregate(i, paid, Credited(note, i))
      /\ miscounted' = miscounted \ {i} /\ UNCHANGED <<note, reads, rewritten>>
  BY DEF AddPayment
<1>10. /\ note' \in [CreditNotes -> NoteRow] /\ miscounted' \subseteq Invoices
       /\ \A j \in Invoices : Credited(note', j) = Credited(note, j)
       /\ \A j \in Invoices \ {i} : j \in miscounted' <=> j \in miscounted
       /\ \A n \in CreditNotes : note'[n] = note[n]
  BY <1>1, <1>9 DEF TypeOK
<1>11. \A q \in Payments : payment'[q].invoice \in {payment[q].invoice, i, Null}
  BY <1>5
<1> HIDE DEF paid, row
<1> QED
  BY <1>1, <1>2, <1>5, <1>7, <1>8, <1>9, <1>10, <1>11, AppliedKeepsIInv

\* updatePaymentWrite, softDeletePaymentWrite and restorePaymentWrite: one live or deleted
\* row of a live invoice changes, and never moves to another invoice.
LEMMA ChangedPaymentKeepsIInv ==
  ASSUME IInv, NEW p \in Payments, NEW i \in Invoices, payment[p].invoice = i,
         payment' \in [Payments -> PaymentRow], payment'[p].invoice = i,
         \A q \in Payments \ {p} : payment'[q] = payment[q],
         NEW paid \in Nat, ApplyInvoiceAggregate(i, paid, Credited(note, i)),
         miscounted' \in {miscounted \cup {i}, miscounted \ {i}},
         i \notin miscounted' => paid = Recorded(payment', i),
         UNCHANGED <<note, reads, rewritten>>
  PROVE  IInv'
<1>1. TypeOK /\ Issued(i)
  BY NullAssumption DEF IInv, MoneyOnlyOnIssued
<1>2. Credited(note, i) \in Nat
  BY <1>1, SumTypes
<1>3. \A j \in Invoices \ {i} : Recorded(payment', j) = Recorded(payment, j)
  <2>1. \A j \in Invoices \ {i} : payment[p].invoice # j /\ payment'[p].invoice # j
    OBVIOUS
  <2> QED
    BY <2>1, OtherSumsSame DEF Recorded
<1>4. /\ note' \in [CreditNotes -> NoteRow] /\ miscounted' \subseteq Invoices
      /\ \A j \in Invoices : Credited(note', j) = Credited(note, j)
      /\ \A j \in Invoices \ {i} : j \in miscounted' <=> j \in miscounted
      /\ \A n \in CreditNotes : note'[n] = note[n]
  BY <1>1 DEF TypeOK
<1>5. \A q \in Payments : payment'[q].invoice \in {payment[q].invoice, i, Null}
  OBVIOUS
<1> QED
  BY <1>1, <1>2, <1>3, <1>4, <1>5, AppliedKeepsIInv

\* A credit note of invoice i is written and the invoice settled under its lock.
LEMMA SettledNoteKeepsIInv ==
  ASSUME IInv, NEW i \in Invoices, Issued(i), NEW n \in CreditNotes,
         note[n].invoice \in {i, Null}, uncommitted[n] = Null,
         note' \in [CreditNotes -> NoteRow], note'[n].invoice = i,
         \A m \in CreditNotes \ {n} : note'[m] = note[m],
         ApplyInvoiceAggregate(i, Recorded(payment, i), Credited(note', i)),
         miscounted' = miscounted \ {i}, UNCHANGED <<payment, reads, rewritten>>
  PROVE  IInv'
<1>1. TypeOK
  BY DEF IInv
<1>2. \A j \in Invoices \ {i} : Credited(note', j) = Credited(note, j)
  <2>1. \A j \in Invoices \ {i} : note[n].invoice # j /\ note'[n].invoice # j
    BY NullAssumption
  <2> QED
    BY <2>1, OtherSumsSame DEF Credited
<1>3. /\ payment' \in [Payments -> PaymentRow]
      /\ \A j \in Invoices : Recorded(payment', j) = Recorded(payment, j)
      /\ \A p \in Payments : payment'[p].invoice \in {payment[p].invoice, i, Null}
      /\ \A m \in CreditNotes : note'[m].invoice \in {note[m].invoice, i, Null}
  BY <1>1 DEF TypeOK
<1>4. miscounted' \subseteq Invoices
      /\ \A j \in Invoices \ {i} : j \in miscounted' <=> j \in miscounted
  BY <1>1 DEF TypeOK
<1>5. Recorded(payment, i) \in Nat
  BY <1>1, SumTypes
<1>6. Credited(note', i) \in Nat
  <2>1. IsTable(note', CreditNotes)
    BY DEF IsTable, NoteRow
  <2> QED
    BY <2>1, LiveSumType, RowsAssumption DEF Credited
<1> QED
  BY <1>2, <1>3, <1>4, <1>5, <1>6, AppliedKeepsIInv

\* A credit note of invoice i is committed and the invoice left as it is.
LEMMA UnsettledNoteKeepsIInv ==
  ASSUME IInv, NEW n \in CreditNotes, CommitUnsettledNote(n)
  PROVE  IInv'
<1> SUFFICES ASSUME NEW i, uncommitted[n].invoice = i PROVE IInv'
  OBVIOUS
<1>1. TypeOK /\ uncommitted[n] \in NoteRow /\ uncommitted[n] # Null
  BY DEF CommitUnsettledNote, IInv, TypeOK
<1>2. i \in Invoices /\ Issued(i) /\ note[n].invoice \in {i, Null}
  BY <1>1 DEF IInv, MoneyOnlyOnIssued, UncommittedOwned
<1>3. /\ note' \in [CreditNotes -> NoteRow] /\ note'[n] = uncommitted[n]
      /\ \A m \in CreditNotes \ {n} : note'[m] = note[m]
  BY <1>1 DEF CommitUnsettledNote, TypeOK
<1>4. /\ invoice' = invoice /\ payment' = payment /\ crediting' = crediting
      /\ assessed' = assessed /\ miscounted' = miscounted /\ rewritten' = rewritten
      /\ staleNotes' = staleNotes \cup {i}
      /\ uncommitted' = [uncommitted EXCEPT ![n] = Null]
  BY DEF CommitUnsettledNote
<1>5. note'[n].invoice = i
  BY <1>3
<1>6. \A j \in Invoices \ {i} : Credited(note', j) = Credited(note, j)
  <2>1. \A j \in Invoices \ {i} : note[n].invoice # j /\ note'[n].invoice # j
    BY <1>2, <1>5, NullAssumption
  <2>2. \A m \in CreditNotes \ {n} : note'[m] = note[m]
    BY <1>3
  <2> QED
    BY <2>1, <2>2, OtherSumsSame DEF Credited
<1>7. \A j \in Invoices : Issued(j)' <=> Issued(j)
  BY <1>4 DEF Issued
<1>8. TypeOK'
  BY <1>1, <1>2, <1>3, <1>4 DEF TypeOK, CommitUnsettledNote
<1>9. MoneyOnlyOnIssued'
  <2>1. \A p \in Payments : payment'[p].invoice # Null =>
          payment'[p].invoice \in Invoices /\ Issued(payment'[p].invoice)
    BY <1>1, <1>4 DEF IInv, MoneyOnlyOnIssued, TypeOK, PaymentRow
  <2>2. \A m \in CreditNotes : note'[m].invoice # Null =>
          note'[m].invoice \in Invoices /\ Issued(note'[m].invoice)
    BY <1>1, <1>2, <1>3, <1>5 DEF IInv, MoneyOnlyOnIssued, TypeOK, NoteRow
  <2>3. \A m \in CreditNotes : uncommitted'[m] # Null =>
          uncommitted'[m].invoice \in Invoices /\ Issued(uncommitted'[m].invoice)
    BY <1>1, <1>4 DEF IInv, MoneyOnlyOnIssued, UncommittedOwned, TypeOK
  <2>4. \A j \in crediting' : j \in Invoices /\ Issued(j)
    BY <1>1, <1>4 DEF IInv, MoneyOnlyOnIssued, TypeOK
  <2> QED
    BY <1>7, <2>1, <2>2, <2>3, <2>4 DEF MoneyOnlyOnIssued
<1>10. UnissuedIsBlank' /\ PaidWithinTotal' /\ PricedOnSomething'
  BY <1>4, <1>7 DEF IInv, UnissuedIsBlank, PaidWithinTotal, PricedOnSomething
<1>11. UncommittedOwned'
  BY <1>1, <1>3, <1>4 DEF IInv, UncommittedOwned, TypeOK
<1>12. AggregateIsSumOfPayments'
  BY <1>4 DEF IInv, AggregateIsSumOfPayments
<1>13. PaidExactlyWhenSettled'
  BY <1>4, <1>6, <1>7 DEF IInv, PaidExactlyWhenSettled
<1> QED
  BY <1>8, <1>9, <1>10, <1>11, <1>12, <1>13 DEF IInv

\* A transaction that writes one invoice row, and no payment or credit note ...
OneRowWritten(i, row) ==
  /\ invoice' = [invoice EXCEPT ![i] = row]
  /\ UNCHANGED <<payment, note, crediting, restoringNote, restoring, appending, uncommitted,
                  miscounted>>
  /\ assessed' \in {assessed, [assessed EXCEPT ![i] = Null]}
  /\ staleNotes' \in {staleNotes, staleNotes \ {i}}
  /\ rewritten' \in {rewritten, rewritten \cup {i}}

\* ... and leaves a row that says of itself what the invariant says.
SoundRow(i, row) ==
  /\ row \in InvoiceRow
  /\ row.amountPaid = invoice[i].amountPaid /\ row.amountPaid <= row.total
  /\ Issued(i) => row.status \in {"sent", "paid"}
  /\ row.status \notin {"sent", "paid"} => row.lateFee = Null /\ ~row.paidAt
  /\ row.status = "paid" <=> row.paidAt
  /\ row.status \in {"sent", "paid"} /\ i \notin staleNotes' \cup rewritten' =>
       (row.paidAt <=> Settles(row.total, Credited(note, i), row.amountPaid))
  /\ assessed'[i] # Null /\ row.lateFee = Null /\ i \notin rewritten' => row.total > 0

\* Such a transaction keeps the invariant.
LEMMA InvoiceChangeKeepsIInv ==
  ASSUME IInv, NEW i \in Invoices, NEW row, OneRowWritten(i, row), SoundRow(i, row)
  PROVE  IInv'
<1> USE DEF OneRowWritten
<1>1. TypeOK
  BY DEF IInv
<1>2. /\ invoice' \in [Invoices -> InvoiceRow] /\ invoice'[i] = row
      /\ \A j \in Invoices \ {i} : invoice'[j] = invoice[j]
  BY <1>1 DEF TypeOK, SoundRow
<1>3. /\ assessed' \in [Invoices -> Nat \cup {Null}]
      /\ \A j \in Invoices : assessed'[j] \in {assessed[j], Null}
  BY <1>1 DEF TypeOK
<1>4. TypeOK'
  BY <1>1, <1>2, <1>3 DEF TypeOK
<1>5. \A j \in Invoices : Issued(j) => Issued(j)'
  BY <1>2 DEF Issued, SoundRow
<1>6. \A j \in Invoices \ {i} : Issued(j)' <=> Issued(j)
  BY <1>2 DEF Issued
<1>7. MoneyOnlyOnIssued'
  BY <1>1, <1>5 DEF IInv, MoneyOnlyOnIssued, UncommittedOwned, TypeOK, PaymentRow, NoteRow
<1>8. UnissuedIsBlank'
  BY <1>2, <1>5, <1>6 DEF IInv, UnissuedIsBlank, Issued, SoundRow
<1>9. PaidWithinTotal'
  BY <1>2 DEF IInv, PaidWithinTotal, SoundRow
<1>10. PricedOnSomething'
  BY <1>2, <1>3, <1>5 DEF IInv, PricedOnSomething, SoundRow
<1>11. AggregateIsSumOfPayments'
  BY <1>2 DEF IInv, AggregateIsSumOfPayments, SoundRow
<1>12. PaidExactlyWhenSettled'
  BY <1>2, <1>6 DEF IInv, PaidExactlyWhenSettled, Issued, SoundRow
<1>13. UncommittedOwned'
  BY DEF IInv, UncommittedOwned
<1> QED
  BY <1>4, <1>7, <1>8, <1>9, <1>10, <1>11, <1>12, <1>13 DEF IInv

\* A step that only reads: nothing but a request's own knowledge changes.
LEMMA ReadKeepsIInv ==
  ASSUME IInv, UNCHANGED <<tables, history>>, TypeOK',
         \A i \in crediting' : Issued(i),
         \A n \in CreditNotes : uncommitted'[n] # Null =>
           /\ uncommitted'[n].invoice \in Invoices /\ Issued(uncommitted'[n].invoice)
           /\ note[n].invoice \in {uncommitted'[n].invoice, Null},
         \A i \in Invoices : assessed'[i] # Null =>
           assessed[i] # Null \/ (Issued(i) /\ invoice[i].total > 0)
  PROVE  IInv'
<1>1. invoice' = invoice /\ payment' = payment /\ note' = note
      /\ staleNotes' = staleNotes /\ miscounted' = miscounted /\ rewritten' = rewritten
  BY DEF tables, history
<1>2. \A i \in Invoices : Issued(i)' <=> Issued(i)
  BY <1>1 DEF Issued
<1>3. MoneyOnlyOnIssued'
  BY <1>1, <1>2 DEF IInv, MoneyOnlyOnIssued, Issued
<1>4. UnissuedIsBlank' /\ PaidWithinTotal' /\ PricedOnSomething'
  BY <1>1, <1>2 DEF IInv, UnissuedIsBlank, PaidWithinTotal, PricedOnSomething
<1>5. AggregateIsSumOfPayments' /\ PaidExactlyWhenSettled'
  BY <1>1, <1>2 DEF IInv, AggregateIsSumOfPayments, PaidExactlyWhenSettled
<1>6. UncommittedOwned'
  BY <1>1 DEF UncommittedOwned
<1> QED
  BY <1>3, <1>4, <1>5, <1>6 DEF IInv

\* A read that leaves the open transactions alone, too.
LEMMA PlainReadKeepsIInv ==
  ASSUME IInv, UNCHANGED <<tables, history, uncommitted>>, TypeOK',
         \A i \in crediting' : Issued(i),
         \A i \in Invoices : assessed'[i] # Null =>
           assessed[i] # Null \/ (Issued(i) /\ invoice[i].total > 0)
  PROVE  IInv'
BY ReadKeepsIInv DEF IInv, MoneyOnlyOnIssued, UncommittedOwned

\* An invoice that was never issued has no credit notes to count.
LEMMA UnissuedUncredited ==
  ASSUME IInv, NEW i \in Invoices, ~Issued(i)
  PROVE  Credited(note, i) = 0
<1>1. LiveRows(note, CreditNotes, i) = {}
  <2>1. \A n \in CreditNotes : note[n].invoice # i
    BY NullAssumption DEF IInv, MoneyOnlyOnIssued
  <2> QED
    BY <2>1 DEF LiveRows
<1> QED
  BY <1>1, SumCentsEmpty DEF Credited

\* The empty ledger.
LEMMA InitIInv == Init => IInv
<1> SUFFICES ASSUME Init PROVE IInv
  OBVIOUS
<1>1. TypeOK
  BY DEF Init, TypeOK, NoInvoice, NoPayment, NoNote, InvoiceRow, PaymentRow, NoteRow
<1>2. \A i \in Invoices : ~Issued(i)
  BY DEF Init, Issued, NoInvoice
<1>3. MoneyOnlyOnIssued
  BY DEF Init, MoneyOnlyOnIssued, NoPayment, NoNote
<1>4. UnissuedIsBlank /\ PaidWithinTotal /\ PricedOnSomething /\ UncommittedOwned
  BY DEF Init, UnissuedIsBlank, PaidWithinTotal, PricedOnSomething, UncommittedOwned, NoInvoice
<1>5. AggregateIsSumOfPayments
  <2> SUFFICES ASSUME NEW i \in Invoices PROVE invoice[i].amountPaid = Recorded(payment, i)
    BY DEF AggregateIsSumOfPayments
  <2>1. LiveRows(payment, Payments, i) = {}
    BY NullAssumption DEF Init, NoPayment, LiveRows
  <2>2. Recorded(payment, i) = 0
    BY <2>1, SumCentsEmpty DEF Recorded
  <2> QED
    BY <2>2 DEF Init, NoInvoice
<1>6. PaidExactlyWhenSettled
  BY <1>2 DEF Init, PaidExactlyWhenSettled, NoInvoice
<1> QED
  BY <1>1, <1>3, <1>4, <1>5, <1>6 DEF IInv

\* What a row already has to offer to InvoiceChangeKeepsIInv.
LEMMA RowFacts ==
  ASSUME IInv, NEW i \in Invoices
  PROVE  /\ invoice[i] \in InvoiceRow
         /\ invoice[i].amountPaid <= invoice[i].total
         /\ ~Issued(i) => /\ invoice[i].amountPaid = 0 /\ invoice[i].lateFee = Null
                          /\ ~invoice[i].paidAt /\ Credited(note, i) = 0 /\ assessed[i] = Null
         /\ invoice[i].status = "paid" <=> invoice[i].paidAt
         /\ Issued(i) /\ i \notin staleNotes \cup rewritten =>
              (invoice[i].paidAt <=>
                 Settles(invoice[i].total, Credited(note, i), invoice[i].amountPaid))
         /\ assessed[i] # Null => Issued(i)
         /\ assessed[i] # Null /\ invoice[i].lateFee = Null /\ i \notin rewritten =>
              invoice[i].total > 0
         /\ Credited(note, i) \in Nat
<1>1. invoice[i] \in InvoiceRow /\ Credited(note, i) \in Nat
  BY SumTypes DEF IInv, TypeOK
<1> QED
  BY <1>1, UnissuedUncredited
     DEF IInv, UnissuedIsBlank, PaidWithinTotal, PricedOnSomething, PaidExactlyWhenSettled

\* Every transaction on an invoice row alone.
LEMMA InvoiceStepKeepsIInv ==
  ASSUME IInv, NEW i \in Invoices, InvoiceStep(i)
  PROVE  IInv'
<1>1. TypeOK
  BY DEF IInv
<1>2. ASSUME NEW t \in Totals, NEW s \in {"draft", "sent"}, CreateInvoice(i, t, s)
      PROVE  IInv'
  <2> DEFINE row == [NoInvoice EXCEPT !.status = s, !.total = t]
  <2>1. /\ row \in InvoiceRow /\ row.status = s /\ row.total = t /\ row.amountPaid = 0
        /\ row.lateFee = Null /\ row.paidAt = FALSE /\ t \in Nat
    BY AmountsAssumption DEF NoInvoice, InvoiceRow
  <2>2. ~Issued(i) /\ invoice' = [invoice EXCEPT ![i] = row]
    BY <1>2 DEF CreateInvoice, Issued
  <2>3. ~Settles(t, 0, 0)
    BY <2>1 DEF Settles, Outstanding
  <2> HIDE DEF row
  <2>4. OneRowWritten(i, row)
    BY <1>2, <2>2 DEF OneRowWritten, CreateInvoice, reads, history
  <2>5. SoundRow(i, row)
    BY <1>2, <2>1, <2>2, <2>3, RowFacts DEF SoundRow, CreateInvoice, reads
  <2> QED
    BY <2>4, <2>5, InvoiceChangeKeepsIInv
<1>3. ASSUME NEW t \in Totals, UpdateInvoice(i, t)
      PROVE  IInv'
  <2> DEFINE row == [invoice[i] EXCEPT !.total = t]
  <2>1. /\ row \in InvoiceRow /\ row.status = "draft" /\ row.total = t
        /\ row.amountPaid = invoice[i].amountPaid /\ row.lateFee = invoice[i].lateFee
        /\ row.paidAt = invoice[i].paidAt /\ t \in Nat
    BY <1>3, AmountsAssumption, RowFacts DEF UpdateInvoice, InvoiceRow
  <2>2. ~Issued(i) /\ invoice' = [invoice EXCEPT ![i] = row]
    BY <1>1, <1>3 DEF UpdateInvoice, Issued, TypeOK
  <2> HIDE DEF row
  <2>3. OneRowWritten(i, row)
    BY <1>3, <2>2 DEF OneRowWritten, UpdateInvoice, reads, history
  <2>4. SoundRow(i, row)
    BY <1>3, <2>1, <2>2, RowFacts DEF SoundRow, UpdateInvoice, reads
  <2> QED
    BY <2>3, <2>4, InvoiceChangeKeepsIInv
<1>4. ASSUME NEW t \in Totals, AppendToBillingInvoice(i, t)
      PROVE  IInv'
  <2> DEFINE row == [invoice[i] EXCEPT !.total = t]
  <2>1. /\ row \in InvoiceRow /\ row.status = invoice[i].status /\ row.total = t
        /\ row.amountPaid = invoice[i].amountPaid /\ row.lateFee = invoice[i].lateFee
        /\ row.paidAt = invoice[i].paidAt /\ t \in Nat /\ invoice[i].amountPaid <= t
    BY <1>4, AmountsAssumption, RowFacts DEF AppendToBillingInvoice, InvoiceRow
  <2>2. invoice' = [invoice EXCEPT ![i] = row]
    BY <1>1, <1>4 DEF AppendToBillingInvoice, TypeOK
  <2>3. rewritten' = IF Issued(i) THEN rewritten \cup {i} ELSE rewritten
    BY <1>4 DEF AppendToBillingInvoice
  <2> HIDE DEF row
  <2>4. OneRowWritten(i, row)
    BY <1>4, <2>2, <2>3 DEF OneRowWritten, AppendToBillingInvoice, reads
  <2>5. SoundRow(i, row)
    BY <1>1, <1>4, <2>1, <2>3, RowFacts DEF SoundRow, AppendToBillingInvoice, reads, Issued, TypeOK
  <2> QED
    BY <2>4, <2>5, InvoiceChangeKeepsIInv
<1>5. ASSUME SendInvoice(i)
      PROVE  IInv'
  <2> DEFINE row == [invoice[i] EXCEPT !.status = "sent"]
  <2>1. /\ row \in InvoiceRow /\ row.status = "sent" /\ row.total = invoice[i].total
        /\ row.amountPaid = invoice[i].amountPaid /\ row.lateFee = invoice[i].lateFee
        /\ row.paidAt = invoice[i].paidAt /\ row.total \in Nat
    BY RowFacts DEF InvoiceRow
  <2>2. ~Issued(i) /\ invoice' = [invoice EXCEPT ![i] = row]
    BY <1>1, <1>5 DEF SendInvoice, Issued, TypeOK
  <2>3. ~Settles(row.total, 0, 0)
    BY <2>1 DEF Settles, Outstanding
  <2> HIDE DEF row
  <2>4. OneRowWritten(i, row)
    BY <1>5, <2>2 DEF OneRowWritten, SendInvoice, reads, history
  <2>5. SoundRow(i, row)
    BY <1>5, <2>1, <2>2, <2>3, RowFacts DEF SoundRow, SendInvoice, reads
  <2> QED
    BY <2>4, <2>5, InvoiceChangeKeepsIInv
<1>6. ASSUME NEW b \in BOOLEAN, invoice' = [invoice EXCEPT ![i].trashed = b],
             UNCHANGED <<payment, note, reads, history>>
      PROVE  IInv'
  <2> DEFINE row == [invoice[i] EXCEPT !.trashed = b]
  <2>1. /\ row \in InvoiceRow /\ row.status = invoice[i].status
        /\ row.total = invoice[i].total /\ row.amountPaid = invoice[i].amountPaid
        /\ row.lateFee = invoice[i].lateFee /\ row.paidAt = invoice[i].paidAt
    BY RowFacts DEF InvoiceRow
  <2>2. invoice' = [invoice EXCEPT ![i] = row]
    BY <1>1, <1>6 DEF TypeOK
  <2> HIDE DEF row
  <2>3. OneRowWritten(i, row)
    BY <1>6, <2>2 DEF OneRowWritten, reads, history
  <2>4. SoundRow(i, row)
    BY <1>6, <2>1, RowFacts DEF SoundRow, Issued, reads, history
  <2> QED
    BY <2>3, <2>4, InvoiceChangeKeepsIInv
<1>7. ASSUME ReadBillingTarget(i)
      PROVE  IInv'
  <2>1. TypeOK' /\ crediting' = crediting /\ assessed' = assessed
        /\ UNCHANGED <<tables, history, uncommitted>>
    BY <1>1, <1>7 DEF ReadBillingTarget, TypeOK, tables, history
  <2> QED
    BY <2>1, PlainReadKeepsIInv DEF IInv, MoneyOnlyOnIssued
<1>8. ASSUME AssessLateFee(i)
      PROVE  IInv'
  <2> DEFINE owed == Outstanding(invoice[i].total, Credited(note, i), invoice[i].amountPaid)
  <2>1. /\ invoice[i].total \in Nat /\ invoice[i].amountPaid \in Nat
        /\ Credited(note, i) \in Nat
    BY RowFacts DEF InvoiceRow
  <2>2. owed \in Nat /\ (owed > 0 => invoice[i].total > 0)
    BY <2>1 DEF Outstanding
  <2>3. owed > 0 /\ assessed' = [assessed EXCEPT ![i] = LateFeeFor(owed)] /\ Issued(i)
        /\ crediting' = crediting /\ UNCHANGED <<tables, history, uncommitted>>
        /\ UNCHANGED <<crediting, restoringNote, restoring, appending>>
    BY <1>8 DEF AssessLateFee
  <2> HIDE DEF owed
  <2>4. LateFeeFor(owed) \in Nat
    BY <2>2, AmountsAssumption DEF LateFeeFor
  <2>5. TypeOK'
    BY <1>1, <2>3, <2>4 DEF TypeOK, tables, history
  <2> QED
    BY <1>1, <2>2, <2>3, <2>5, PlainReadKeepsIInv DEF IInv, MoneyOnlyOnIssued, TypeOK
<1>9. ASSUME ChargeLateFee(i)
      PROVE  IInv'
  <2> DEFINE fee == assessed[i]
             row == [invoice[i] EXCEPT !.lateFee = fee, !.total = @ + fee]
  <2>1. fee \in Nat /\ fee # Null /\ Issued(i) /\ invoice[i].lateFee = Null
        /\ ~invoice[i].paidAt
    BY <1>1, <1>9 DEF ChargeLateFee, TypeOK
  <2>2. invoice[i].total \in Nat /\ invoice[i].amountPaid \in Nat /\ Credited(note, i) \in Nat
    BY RowFacts DEF InvoiceRow
  <2>3. /\ row \in InvoiceRow /\ row.status = invoice[i].status
        /\ row.total = invoice[i].total + fee /\ row.amountPaid = invoice[i].amountPaid
        /\ row.lateFee = fee /\ row.paidAt = invoice[i].paidAt
    <3>1. invoice[i] \in InvoiceRow /\ invoice[i].total + fee \in Nat
      BY <2>1, <2>2, RowFacts
    <3> HIDE DEF fee
    <3> QED
      BY <2>1, <3>1 DEF InvoiceRow
  <2>4. /\ invoice' = [invoice EXCEPT ![i] = row] /\ assessed' = [assessed EXCEPT ![i] = Null]
        /\ UNCHANGED <<payment, note, crediting, restoringNote, restoring, appending, uncommitted,
                        history>>
    BY <1>1, <1>9 DEF ChargeLateFee, TypeOK
  <2> HIDE DEF fee, row
  <2>5. i \notin staleNotes \cup rewritten =>
          ~Settles(row.total, Credited(note, i), row.amountPaid)
    <3>1. i \notin staleNotes \cup rewritten =>
            /\ ~Settles(invoice[i].total, Credited(note, i), invoice[i].amountPaid)
            /\ invoice[i].total > 0
      BY <2>1, RowFacts DEF fee
    <3>2. invoice[i].amountPaid <= invoice[i].total
      BY RowFacts
    <3> QED
      BY <2>1, <2>2, <2>3, <3>1, <3>2 DEF Settles, Outstanding, Overpays
  <2>6. OneRowWritten(i, row)
    BY <2>4 DEF OneRowWritten, history
  <2>7. SoundRow(i, row)
    BY <1>1, <2>1, <2>2, <2>3, <2>4, <2>5, RowFacts DEF SoundRow, Issued, TypeOK, history
  <2> QED
    BY <2>6, <2>7, InvoiceChangeKeepsIInv
<1>10. ASSUME NEW f \in Fees, AdjustInvoiceLateFee(i, f)
       PROVE  IInv'
  <2> DEFINE total == invoice[i].total - invoice[i].lateFee + f
             S == Settles(total, Credited(note, i), invoice[i].amountPaid)
             mid == [invoice[i] EXCEPT !.lateFee = f, !.total = total]
             row == Resolve(mid, S)
  <2>1. /\ invoice[i].lateFee # Null /\ Issued(i) /\ total >= 0
        /\ ~Overpays(total, invoice[i].amountPaid)
        /\ staleNotes' = staleNotes \ {i}
        /\ UNCHANGED <<payment, note, reads, miscounted, rewritten>>
    BY <1>10, RowFacts DEF AdjustInvoiceLateFee
  <2>2. invoice[i].total \in Nat /\ invoice[i].lateFee \in Nat /\ f \in Nat
        /\ invoice[i].amountPaid \in Nat
    BY <2>1, RowFacts, AmountsAssumption DEF InvoiceRow
  <2>3. total \in Nat /\ invoice[i].amountPaid <= total /\ S \in BOOLEAN
    BY <2>1, <2>2 DEF Overpays, Settles
  <2>4. invoice' = [invoice EXCEPT ![i] = row]
    BY <1>1, <1>10 DEF AdjustInvoiceLateFee, TypeOK
  <2> HIDE DEF total, S
  <2>5. /\ mid \in InvoiceRow /\ mid.status = invoice[i].status /\ mid.total = total
        /\ mid.amountPaid = invoice[i].amountPaid /\ mid.lateFee = f
    BY <2>2, <2>3, RowFacts DEF InvoiceRow
  <2> HIDE DEF mid
  <2>6. /\ row \in InvoiceRow /\ row.status \in {"sent", "paid"}
        /\ row.status = "paid" <=> S
        /\ row.paidAt <=> S
        /\ row.total = total /\ row.lateFee = f /\ row.amountPaid = invoice[i].amountPaid
    BY <2>1, <2>3, <2>5, Resolved DEF Issued
  <2>7. f # Null
    BY <2>2, NullAssumption
  <2> HIDE DEF row
  <2>8. OneRowWritten(i, row)
    BY <2>1, <2>4 DEF OneRowWritten, reads
  <2>9. SoundRow(i, row)
    BY <2>1, <2>3, <2>6, <2>7 DEF SoundRow, S, reads
  <2> QED
    BY <2>8, <2>9, InvoiceChangeKeepsIInv
<1> QED
  BY <1>2, <1>3, <1>4, <1>5, <1>6, <1>7, <1>8, <1>9, <1>10
     DEF InvoiceStep, SoftDeleteInvoice, RestoreInvoice

\* Every transaction that writes a payment row, and the read a restore starts with.
LEMMA PaymentStepKeepsIInv ==
  ASSUME IInv, NEW p \in Payments, PaymentStep(p)
  PROVE  IInv'
<1>1. TypeOK
  BY DEF IInv
<1>2. ASSUME NEW i \in Invoices, MarkInvoicePaid(i, p)
      PROVE  IInv'
  <2> DEFINE owed == Outstanding(invoice[i].total, Credited(note, i), Recorded(payment, i))
  <2>1. invoice[i].total \in Nat /\ Credited(note, i) \in Nat /\ Recorded(payment, i) \in Nat
    BY <1>1, SumTypes DEF TypeOK, InvoiceRow
  <2>2. owed \in Nat
    BY <2>1 DEF Outstanding
  <2>3. AddPayment(i, p, owed, Null)
    BY <1>2 DEF MarkInvoicePaid
  <2> HIDE DEF owed
  <2> QED
    BY <2>2, <2>3, AddPaymentKeepsIInv
<1>3. ASSUME NEW i \in Invoices, NEW a \in Amounts, RecordPayment(i, p, a)
      PROVE  IInv'
  BY <1>3, AmountsAssumption, AddPaymentKeepsIInv DEF RecordPayment
<1>4. ASSUME NEW k \in Intents, RecordStripePayment(p, k)
      PROVE  IInv'
  <2>1. IntentInvoice[k] \in Invoices /\ IntentAmount[k] \in Nat
    BY IntentsAssumption
  <2> QED
    BY <1>4, <2>1, AddPaymentKeepsIInv DEF RecordStripePayment
<1>5. ASSUME payment[p].invoice # Null
      PROVE  /\ payment[p].invoice \in Invoices /\ payment[p] \in PaymentRow
             /\ IsTable(payment, Payments)
  BY <1>1, <1>5, SumTypes DEF TypeOK, PaymentRow
<1>6. ASSUME NEW row \in PaymentRow, payment' = [payment EXCEPT ![p] = row]
      PROVE  /\ payment' \in [Payments -> PaymentRow] /\ payment'[p] = row
             /\ \A q \in Payments \ {p} : payment'[q] = payment[q]
             /\ IsTable(payment', Payments)
  <2>1. /\ payment' \in [Payments -> PaymentRow] /\ payment'[p] = row
        /\ \A q \in Payments \ {p} : payment'[q] = payment[q]
    BY <1>1, <1>6 DEF TypeOK
  <2> QED
    BY <2>1 DEF IsTable, PaymentRow
<1>7. ASSUME NEW a \in Amounts, UpdatePayment(p, a)
      PROVE  IInv'
  <2> DEFINE i == payment[p].invoice
             paid == SumCents(LiveRows(payment, Payments, i) \ {p}, payment) + a
             row == [payment[p] EXCEPT !.amount = a]
  <2>1. i # Null /\ ~payment[p].trashed /\ ApplyInvoiceAggregate(i, paid, Credited(note, i))
        /\ payment' = [payment EXCEPT ![p] = row]
        /\ miscounted' = miscounted \ {i} /\ UNCHANGED <<note, reads, rewritten>>
    BY <1>1, <1>7 DEF UpdatePayment, TypeOK
  <2>2. i \in Invoices /\ payment[p] \in PaymentRow /\ IsTable(payment, Payments)
    BY <1>5, <2>1
  <2>3. a \in Nat
    BY AmountsAssumption
  <2>4. row \in PaymentRow /\ row.invoice = i /\ row.amount = a /\ ~row.trashed
    BY <2>1, <2>2, <2>3 DEF PaymentRow
  <2> HIDE DEF i, row
  <2>5. /\ payment' \in [Payments -> PaymentRow] /\ payment'[p] = row
        /\ \A q \in Payments \ {p} : payment'[q] = payment[q]
        /\ IsTable(payment', Payments)
    BY <1>6, <2>1, <2>4
  <2>6. paid = Recorded(payment', i)
    BY <2>2, <2>4, <2>5, LiveSumAdd, RowsAssumption DEF Recorded
  <2>7. paid \in Nat
    BY <2>5, <2>6, LiveSumType, RowsAssumption DEF Recorded
  <2>8. payment[p].invoice = i
    BY DEF i
  <2> HIDE DEF paid
  <2> QED
    BY <2>1, <2>2, <2>4, <2>5, <2>6, <2>7, <2>8, ChangedPaymentKeepsIInv
<1>8. ASSUME SoftDeletePayment(p)
      PROVE  IInv'
  <2> DEFINE i == payment[p].invoice
             row == [payment[p] EXCEPT !.trashed = TRUE]
  <2>1. i # Null /\ payment' = [payment EXCEPT ![p] = row]
        /\ ApplyInvoiceAggregate(i, Recorded(payment', i), Credited(note, i))
        /\ miscounted' = miscounted \ {i} /\ UNCHANGED <<note, reads, rewritten>>
    BY <1>1, <1>8 DEF SoftDeletePayment, TypeOK
  <2>2. i \in Invoices /\ payment[p] \in PaymentRow
    BY <1>5, <2>1
  <2>3. row \in PaymentRow /\ row.invoice = i
    BY <2>1, <2>2 DEF PaymentRow
  <2> HIDE DEF i, row
  <2>4. /\ payment' \in [Payments -> PaymentRow] /\ payment'[p] = row
        /\ \A q \in Payments \ {p} : payment'[q] = payment[q]
        /\ IsTable(payment', Payments)
    BY <1>6, <2>1, <2>3
  <2>5. Recorded(payment', i) \in Nat
    BY <2>4, LiveSumType, RowsAssumption DEF Recorded
  <2>6. payment[p].invoice = i
    BY DEF i
  <2> QED
    BY <2>1, <2>2, <2>3, <2>4, <2>5, <2>6, ChangedPaymentKeepsIInv
<1>9. ASSUME ReadDeletedPayment(p)
      PROVE  IInv'
  <2>1. payment[p].amount \in Nat
    BY <1>1 DEF TypeOK, PaymentRow
  <2>2. TypeOK' /\ crediting' = crediting /\ assessed' = assessed
        /\ UNCHANGED <<tables, history, uncommitted>>
    BY <1>1, <1>9, <2>1 DEF ReadDeletedPayment, TypeOK, tables, history
  <2> QED
    BY <2>2, PlainReadKeepsIInv DEF IInv, MoneyOnlyOnIssued
<1>10. ASSUME NEW a \in restoring[p], RestorePayment(p, a)
       PROVE  IInv'
  <2> DEFINE i == payment[p].invoice
             paid == Recorded(payment, i) + a
             row == [payment[p] EXCEPT !.trashed = FALSE]
  <2>1. /\ payment[p].trashed /\ payment' = [payment EXCEPT ![p] = row]
        /\ ApplyInvoiceAggregate(i, paid, Credited(note, i))
        /\ miscounted' = IF a = payment[p].amount THEN miscounted \ {i} ELSE miscounted \cup {i}
        /\ UNCHANGED <<note, reads, rewritten>>
    BY <1>1, <1>10 DEF RestorePayment, TypeOK
  <2>2. i # Null
    BY <1>1, <1>10 DEF RestorePayment, TypeOK, PaymentRow
  <2>3. i \in Invoices /\ payment[p] \in PaymentRow /\ IsTable(payment, Payments)
    BY <1>5, <2>2
  <2>4. row \in PaymentRow /\ row.invoice = i /\ row.amount = payment[p].amount /\ ~row.trashed
    BY <2>3 DEF PaymentRow
  <2> HIDE DEF i, row
  <2>5. /\ payment' \in [Payments -> PaymentRow] /\ payment'[p] = row
        /\ \A q \in Payments \ {p} : payment'[q] = payment[q]
        /\ IsTable(payment', Payments)
    BY <1>6, <2>1, <2>4
  <2>6. Recorded(payment', i) = Recorded(payment, i) + payment[p].amount
    <3>1. LiveRows(payment, Payments, i) \ {p} = LiveRows(payment, Payments, i)
      BY <2>1 DEF LiveRows
    <3>2. SumCents(LiveRows(payment', Payments, i), payment')
            = SumCents(LiveRows(payment, Payments, i) \ {p}, payment) + payment'[p].amount
      BY <2>3, <2>4, <2>5, LiveSumAdd, RowsAssumption
    <3> QED
      BY <2>4, <2>5, <3>1, <3>2 DEF Recorded
  <2>7. paid \in Nat
    <3>1. a \in Nat
      BY <1>1 DEF TypeOK
    <3>2. Recorded(payment, i) \in Nat
      BY <1>1, SumTypes
    <3> QED
      BY <3>1, <3>2
  <2>8. i \notin miscounted' => paid = Recorded(payment', i)
    BY <2>1, <2>6
  <2>9. payment[p].invoice = i /\ miscounted' \in {miscounted \cup {i}, miscounted \ {i}}
    BY <2>1 DEF i
  <2> HIDE DEF paid
  <2> QED
    BY <2>1, <2>3, <2>4, <2>5, <2>7, <2>8, <2>9, ChangedPaymentKeepsIInv
<1> QED
  BY <1>2, <1>3, <1>4, <1>7, <1>8, <1>9, <1>10 DEF PaymentStep

\* Every transaction that writes a credit note, and the reads they start with.
LEMMA CreditNoteStepKeepsIInv ==
  ASSUME IInv, CreditNoteStep
  PROVE  IInv'
<1>1. TypeOK
  BY DEF IInv
<1>2. ASSUME NEW i \in Invoices, ReadCreditedInvoice(i)
      PROVE  IInv'
  <2>1. TypeOK' /\ crediting' = crediting \cup {i} /\ assessed' = assessed
        /\ Issued(i) /\ UNCHANGED <<tables, history, uncommitted>>
    BY <1>1, <1>2 DEF ReadCreditedInvoice, TypeOK, tables, history
  <2> QED
    BY <2>1, PlainReadKeepsIInv DEF IInv, MoneyOnlyOnIssued
<1>3. ASSUME NEW n \in CreditNotes, ReadDeletedCreditNote(n)
      PROVE  IInv'
  <2>1. TypeOK' /\ crediting' = crediting /\ assessed' = assessed
        /\ UNCHANGED <<tables, history, uncommitted>>
    BY <1>1, <1>3 DEF ReadDeletedCreditNote, TypeOK, tables, history
  <2> QED
    BY <2>1, PlainReadKeepsIInv DEF IInv, MoneyOnlyOnIssued
<1>4. ASSUME NEW n \in CreditNotes, NEW row \in NoteRow, row.invoice \in Invoices,
             Issued(row.invoice), note[n].invoice \in {row.invoice, Null},
             WriteCreditNote(n, row)
      PROVE  IInv'
  <2> DEFINE i == row.invoice
  <2>1. uncommitted[n] = Null
    BY <1>4 DEF WriteCreditNote
  <2>2. CASE /\ note' = [note EXCEPT ![n] = row]
             /\ ApplyInvoiceAggregate(i, Recorded(payment, i), Credited(note', i))
             /\ miscounted' = miscounted \ {i} /\ UNCHANGED <<payment, reads, rewritten>>
    <3>1. /\ note' \in [CreditNotes -> NoteRow] /\ note'[n].invoice = i
          /\ \A m \in CreditNotes \ {n} : note'[m] = note[m]
      BY <1>1, <1>4, <2>2 DEF TypeOK
    <3>2. i \in Invoices /\ Issued(i) /\ note[n].invoice \in {i, Null}
      BY <1>4
    <3> HIDE DEF i
    <3> QED
      BY <2>1, <2>2, <3>1, <3>2, SettledNoteKeepsIInv
  <2>3. CASE /\ uncommitted' = [uncommitted EXCEPT ![n] = row]
             /\ UNCHANGED <<tables, crediting, restoringNote, restoring, assessed, appending,
                            history>>
    <3>1. TypeOK' /\ crediting' = crediting /\ assessed' = assessed
      BY <1>1, <2>3 DEF TypeOK, tables, history
    <3>2. \A m \in CreditNotes : uncommitted'[m] # Null =>
            /\ uncommitted'[m].invoice \in Invoices /\ Issued(uncommitted'[m].invoice)
            /\ note[m].invoice \in {uncommitted'[m].invoice, Null}
      BY <1>1, <1>4, <2>3 DEF IInv, MoneyOnlyOnIssued, UncommittedOwned, TypeOK
    <3> QED
      BY <2>3, <3>1, <3>2, ReadKeepsIInv DEF IInv, MoneyOnlyOnIssued
  <2> QED
    BY <1>4, <2>2, <2>3 DEF WriteCreditNote
<1>5. ASSUME NEW i \in Invoices, NEW n \in CreditNotes, NEW a \in Amounts,
             CreateCreditNote(i, n, a)
      PROVE  IInv'
  <2> DEFINE row == [invoice |-> i, amount |-> a, trashed |-> FALSE]
  <2>1. Issued(i) /\ note[n].invoice = Null /\ WriteCreditNote(n, row)
    BY <1>5 DEF CreateCreditNote, IInv, MoneyOnlyOnIssued
  <2>2. row \in NoteRow /\ row.invoice = i
    BY AmountsAssumption DEF NoteRow
  <2> HIDE DEF row
  <2> QED
    BY <1>4, <2>1, <2>2
<1>6. ASSUME NEW n \in CreditNotes, NEW b \in BOOLEAN, note[n].invoice # Null,
             WriteCreditNote(n, [note[n] EXCEPT !.trashed = b])
      PROVE  IInv'
  <2> DEFINE row == [note[n] EXCEPT !.trashed = b]
  <2>1. note[n] \in NoteRow /\ note[n].invoice \in Invoices /\ Issued(note[n].invoice)
    BY <1>1, <1>6 DEF TypeOK, NoteRow, IInv, MoneyOnlyOnIssued
  <2>2. row \in NoteRow /\ row.invoice = note[n].invoice
    BY <1>6, <2>1 DEF NoteRow
  <2>3. WriteCreditNote(n, row)
    BY <1>6
  <2> HIDE DEF row
  <2> QED
    BY <1>4, <2>1, <2>2, <2>3
<1>7. ASSUME NEW n \in CreditNotes, SoftDeleteCreditNote(n)
      PROVE  IInv'
  BY <1>6, <1>7 DEF SoftDeleteCreditNote
<1>8. ASSUME NEW n \in CreditNotes, RestoreCreditNote(n)
      PROVE  IInv'
  <2>1. note[n].invoice # Null
    BY <1>1, <1>8 DEF RestoreCreditNote, TypeOK, NoteRow
  <2> QED
    BY <1>6, <1>8, <2>1 DEF RestoreCreditNote
<1>9. ASSUME NEW n \in CreditNotes, RollBackNote(n)
      PROVE  IInv'
  <2>1. TypeOK' /\ crediting' = crediting /\ assessed' = assessed
        /\ UNCHANGED <<tables, history>>
    BY <1>1, <1>9 DEF RollBackNote, TypeOK, tables, history
  <2>2. \A m \in CreditNotes : uncommitted'[m] # Null =>
          /\ uncommitted'[m].invoice \in Invoices /\ Issued(uncommitted'[m].invoice)
          /\ note[m].invoice \in {uncommitted'[m].invoice, Null}
    BY <1>1, <1>9 DEF RollBackNote, IInv, MoneyOnlyOnIssued, UncommittedOwned, TypeOK
  <2> QED
    BY <2>1, <2>2, ReadKeepsIInv DEF IInv, MoneyOnlyOnIssued
<1> QED
  BY <1>2, <1>3, <1>5, <1>7, <1>8, <1>9, UnsettledNoteKeepsIInv DEF CreditNoteStep

\* Every step keeps the invariant.
LEMMA NextKeepsIInv == IInv /\ [Next]_vars => IInv'
<1> SUFFICES ASSUME IInv, [Next]_vars PROVE IInv'
  OBVIOUS
<1>1. CASE Next
  BY <1>1, InvoiceStepKeepsIInv, PaymentStepKeepsIInv, CreditNoteStepKeepsIInv DEF Next
<1>2. CASE UNCHANGED vars
  <2>1. UNCHANGED <<tables, history, uncommitted>> /\ UNCHANGED reads
    BY <1>2 DEF vars, reads
  <2>2. TypeOK' /\ crediting' = crediting /\ assessed' = assessed
    BY <2>1 DEF IInv, TypeOK, tables, reads, history
  <2> QED
    BY <2>1, <2>2, PlainReadKeepsIInv DEF IInv, MoneyOnlyOnIssued
<1> QED
  BY <1>1, <1>2

-----------------------------------------------------------------------------
\* The theorems.

\* Every reachable ledger satisfies the inductive invariant.
THEOREM LedgerInvariant == Spec => []IInv
BY InitIInv, NextKeepsIInv, PTL DEF Spec

\* Every column keeps its type, and no deleted row is without an invoice.
THEOREM TypeCorrect == Spec => []TypeOK
<1>1. IInv => TypeOK
  BY DEF IInv
<1> QED
  BY <1>1, LedgerInvariant, PTL

\* invoices.amount_paid_cents is the sum of the live payments, whatever requests
\* interleave, unless a restore booked an amount it had read before the invoice's lock.
THEOREM AggregateCorrect == Spec => []AggregateIsSumOfPayments
<1>1. IInv => AggregateIsSumOfPayments
  BY DEF IInv
<1> QED
  BY <1>1, LedgerInvariant, PTL

\* The status and paid_at of an issued invoice follow its balance, unless its credit notes
\* moved in the trash or a conversion rewrote it.
THEOREM SettlementCorrect == Spec => []PaidExactlyWhenSettled
<1>1. IInv => PaidExactlyWhenSettled
  BY DEF IInv
<1> QED
  BY <1>1, LedgerInvariant, PTL

\* No payment and no credit note ever belongs to a draft.
THEOREM NoMoneyOnDrafts == Spec => []MoneyOnlyOnIssued
<1>1. IInv => MoneyOnlyOnIssued
  BY DEF IInv
<1> QED
  BY <1>1, LedgerInvariant, PTL

-----------------------------------------------------------------------------
\* What a step may never do.

\* The document's side of an invoice, which a step of the money's side leaves alone.
KeepsFace(i) ==
  /\ invoice'[i].total = invoice[i].total
  /\ invoice'[i].lateFee = invoice[i].lateFee
  /\ Issued(i) => Issued(i)'

\* applyInvoiceAggregate moves the money and the status of an issued invoice, no more.
LEMMA ApplyKeepsFace ==
  ASSUME TypeOK, NEW i \in Invoices, Issued(i), NEW paid, NEW credited,
         ApplyInvoiceAggregate(i, paid, credited), NEW j \in Invoices
  PROVE  KeepsFace(j)
<1> DEFINE S == Settles(invoice[i].total, credited, paid)
           r1 == [invoice[i] EXCEPT !.amountPaid = paid]
           st == IF S THEN "paid" ELSE IF r1.status = "paid" THEN "sent" ELSE r1.status
           r2 == [r1 EXCEPT !.status = st]
           r3 == [r2 EXCEPT !.paidAt = S]
<1>1. invoice' = [invoice EXCEPT ![i] = r3]
  BY DEF ApplyInvoiceAggregate, Resolve, TypeOK
<1>2. CASE j = i
  <2>1. r1.status = invoice[i].status /\ r1.total = invoice[i].total
        /\ r1.lateFee = invoice[i].lateFee
    BY DEF TypeOK, InvoiceRow
  <2>2. st \in {"sent", "paid"}
    BY <2>1 DEF Issued
  <2>3. r3.status = st /\ r3.total = r1.total /\ r3.lateFee = r1.lateFee
    BY DEF TypeOK, InvoiceRow
  <2>4. invoice'[i] = r3
    BY <1>1 DEF TypeOK
  <2> HIDE DEF r1, st, r3
  <2> QED
    BY <1>2, <2>1, <2>2, <2>3, <2>4 DEF KeepsFace, Issued
<1>3. CASE j # i
  <2>1. invoice'[j] = invoice[j]
    BY <1>1, <1>3 DEF TypeOK
  <2> QED
    BY <2>1 DEF KeepsFace, Issued
<1> QED
  BY <1>2, <1>3

\* No payment and no credit note changes what an invoice is worth.
LEMMA MoneyStepKeepsFace ==
  ASSUME IInv, CreditNoteStep \/ \E p \in Payments : PaymentStep(p)
  PROVE  \A j \in Invoices : KeepsFace(j)
<1> SUFFICES ASSUME NEW j \in Invoices PROVE KeepsFace(j)
  OBVIOUS
<1>1. TypeOK
  BY DEF IInv
<1>2. ASSUME invoice' = invoice PROVE KeepsFace(j)
  BY <1>2 DEF KeepsFace, Issued
<1>3. CASE \E p \in Payments : PaymentStep(p)
  <2>1. PICK p \in Payments : PaymentStep(p)
    BY <1>3
  <2>2. ASSUME NEW i \in Invoices, NEW a, NEW k, AddPayment(i, p, a, k)
        PROVE  KeepsFace(j)
    BY <1>1, <2>2, ApplyKeepsFace DEF AddPayment
  <2>3. payment[p].invoice # Null =>
          payment[p].invoice \in Invoices /\ Issued(payment[p].invoice)
    BY <1>1 DEF IInv, MoneyOnlyOnIssued, TypeOK, PaymentRow
  <2>4. ASSUME NEW i \in Invoices, MarkInvoicePaid(i, p) PROVE KeepsFace(j)
    BY <2>2, <2>4 DEF MarkInvoicePaid
  <2>5. ASSUME NEW k \in Intents, RecordStripePayment(p, k) PROVE KeepsFace(j)
    BY <2>2, <2>5, IntentsAssumption DEF RecordStripePayment
  <2>6. ASSUME NEW a \in Amounts, UpdatePayment(p, a) PROVE KeepsFace(j)
    BY <1>1, <2>3, <2>6, ApplyKeepsFace DEF UpdatePayment
  <2>7. ASSUME SoftDeletePayment(p) PROVE KeepsFace(j)
    BY <1>1, <2>3, <2>7, ApplyKeepsFace DEF SoftDeletePayment
  <2>8. ASSUME NEW a \in restoring[p], RestorePayment(p, a) PROVE KeepsFace(j)
    <3>1. payment[p].invoice # Null
      BY <1>1, <2>8 DEF RestorePayment, TypeOK, PaymentRow
    <3> QED
      BY <1>1, <2>3, <2>8, <3>1, ApplyKeepsFace DEF RestorePayment
  <2>9. ASSUME ReadDeletedPayment(p) PROVE KeepsFace(j)
    BY <1>2, <2>9 DEF ReadDeletedPayment, tables
  <2> QED
    BY <2>1, <2>2, <2>4, <2>5, <2>6, <2>7, <2>8, <2>9 DEF PaymentStep, RecordPayment
<1>4. CASE CreditNoteStep
  <2>1. ASSUME NEW n \in CreditNotes, NEW row, row.invoice \in Invoices,
               WriteCreditNote(n, row)
        PROVE  KeepsFace(j)
    <3>1. CASE ApplyInvoiceAggregate(row.invoice, Recorded(payment, row.invoice),
                                     Credited(note', row.invoice)) /\ Issued(row.invoice)
      BY <1>1, <2>1, <3>1, ApplyKeepsFace
    <3>2. CASE UNCHANGED tables
      BY <1>2, <3>2 DEF tables
    <3> QED
      BY <2>1, <3>1, <3>2 DEF WriteCreditNote
  <2>2. ASSUME NEW n \in CreditNotes, note[n].invoice # Null, NEW b \in BOOLEAN
        PROVE  [note[n] EXCEPT !.trashed = b].invoice \in Invoices
    BY <1>1, <2>2 DEF TypeOK, NoteRow
  <2>3. ASSUME NEW i \in Invoices, NEW n \in CreditNotes, NEW a \in Amounts,
               CreateCreditNote(i, n, a)
        PROVE  KeepsFace(j)
    BY <2>1, <2>3 DEF CreateCreditNote
  <2>4. ASSUME NEW n \in CreditNotes, SoftDeleteCreditNote(n) PROVE KeepsFace(j)
    BY <2>1, <2>2, <2>4 DEF SoftDeleteCreditNote
  <2>5. ASSUME NEW n \in CreditNotes, RestoreCreditNote(n) PROVE KeepsFace(j)
    <3>1. note[n].invoice # Null
      BY <1>1, <2>5 DEF RestoreCreditNote, TypeOK, NoteRow
    <3> QED
      BY <2>1, <2>2, <2>5, <3>1 DEF RestoreCreditNote
  <2>6. ASSUME NEW n \in CreditNotes,
               \/ ReadDeletedCreditNote(n) \/ CommitUnsettledNote(n) \/ RollBackNote(n)
        PROVE  KeepsFace(j)
    BY <1>2, <2>6 DEF ReadDeletedCreditNote, CommitUnsettledNote, RollBackNote, tables
  <2>7. ASSUME NEW i \in Invoices, ReadCreditedInvoice(i) PROVE KeepsFace(j)
    BY <1>2, <2>7 DEF ReadCreditedInvoice, tables
  <2> QED
    BY <1>4, <2>3, <2>4, <2>5, <2>6, <2>7 DEF CreditNoteStep
<1> QED
  BY <1>3, <1>4

\* What FaceValueFixed and FeeOnlyOnDebt ask of one invoice in one step.
KeepsPromise(i) ==
  /\ Issued(i) => Issued(i)' /\ (i \notin rewritten' => Face(i)' = Face(i))
  /\ invoice[i].lateFee = Null /\ invoice'[i].lateFee # Null =>
       \/ i \in staleNotes \cup rewritten
       \/ Outstanding(invoice[i].total, Credited(note, i), invoice[i].amountPaid) > 0

\* A row that is not written keeps every promise, and so does a step of the money's side.
LEMMA SameFacePromise ==
  ASSUME NEW i \in Invoices, KeepsFace(i)
  PROVE  KeepsPromise(i)
BY DEF KeepsFace, KeepsPromise, Face

\* A transaction on an invoice row keeps what was promised of it.
LEMMA InvoiceStepPromise ==
  ASSUME IInv, NEW i \in Invoices, InvoiceStep(i), NEW j \in Invoices
  PROVE  KeepsPromise(j)
<1>1. TypeOK /\ invoice[i] \in InvoiceRow
  BY DEF IInv, TypeOK
<1>2. ASSUME NEW row, invoice' = [invoice EXCEPT ![i] = row], j # i
      PROVE  KeepsPromise(j)
  <2>1. invoice'[j] = invoice[j]
    BY <1>1, <1>2 DEF TypeOK
  <2> QED
    BY <2>1, SameFacePromise DEF KeepsFace, Issued
<1>3. ASSUME ~Issued(i), NEW row, invoice' = [invoice EXCEPT ![i] = row],
             row.lateFee = Null
      PROVE  KeepsPromise(j)
  <2>1. CASE j = i
    <3>1. invoice'[i] = row
      BY <1>1, <1>3 DEF TypeOK
    <3> QED
      BY <1>3, <2>1, <3>1 DEF KeepsPromise
  <2> QED
    BY <1>2, <1>3, <2>1
<1>4. ASSUME invoice' = invoice PROVE KeepsPromise(j)
  BY <1>4, SameFacePromise DEF KeepsFace, Issued
<1>5. ~Issued(i) => invoice[i].lateFee = Null
  BY RowFacts
<1>6. ASSUME NEW t \in Totals, NEW s \in {"draft", "sent"}, CreateInvoice(i, t, s)
      PROVE  KeepsPromise(j)
  <2> DEFINE row == [NoInvoice EXCEPT !.status = s, !.total = t]
  <2>1. ~Issued(i) /\ invoice' = [invoice EXCEPT ![i] = row]
    BY <1>6 DEF CreateInvoice, Issued
  <2>2. row.lateFee = Null
    BY DEF NoInvoice
  <2> HIDE DEF row
  <2> QED
    BY <1>3, <2>1, <2>2
<1>7. ASSUME NEW t \in Totals, UpdateInvoice(i, t) PROVE KeepsPromise(j)
  <2> DEFINE row == [invoice[i] EXCEPT !.total = t]
  <2>1. ~Issued(i) /\ invoice' = [invoice EXCEPT ![i] = row]
    BY <1>1, <1>7 DEF UpdateInvoice, Issued, TypeOK
  <2>2. row.lateFee = invoice[i].lateFee
    BY <1>1 DEF InvoiceRow
  <2> QED
    BY <1>3, <1>5, <2>1, <2>2
<1>8. ASSUME SendInvoice(i) PROVE KeepsPromise(j)
  <2> DEFINE row == [invoice[i] EXCEPT !.status = "sent"]
  <2>1. ~Issued(i) /\ invoice' = [invoice EXCEPT ![i] = row]
    BY <1>1, <1>8 DEF SendInvoice, Issued, TypeOK
  <2>2. row.lateFee = invoice[i].lateFee
    BY <1>1 DEF InvoiceRow
  <2> QED
    BY <1>3, <1>5, <2>1, <2>2
<1>9. ASSUME NEW t \in Totals, AppendToBillingInvoice(i, t) PROVE KeepsPromise(j)
  <2> DEFINE row == [invoice[i] EXCEPT !.total = t]
  <2>1. invoice' = [invoice EXCEPT ![i] = row] /\ (Issued(i) => i \in rewritten')
    BY <1>1, <1>9 DEF AppendToBillingInvoice, TypeOK
  <2>2. row.lateFee = invoice[i].lateFee /\ row.status = invoice[i].status
    BY <1>1 DEF InvoiceRow
  <2>3. invoice'[i] = row
    BY <1>1, <2>1 DEF TypeOK
  <2> HIDE DEF row
  <2>4. CASE j = i
    BY <2>1, <2>2, <2>3, <2>4 DEF KeepsPromise, Issued
  <2> QED
    BY <1>2, <2>1, <2>4
<1>10. ASSUME NEW b \in BOOLEAN, invoice' = [invoice EXCEPT ![i].trashed = b]
       PROVE  KeepsPromise(j)
  <2> DEFINE row == [invoice[i] EXCEPT !.trashed = b]
  <2>1. invoice' = [invoice EXCEPT ![i] = row] /\ invoice'[i] = row
    BY <1>1, <1>10 DEF TypeOK
  <2>2. row.lateFee = invoice[i].lateFee /\ row.status = invoice[i].status
        /\ row.total = invoice[i].total
    BY <1>1 DEF InvoiceRow
  <2> HIDE DEF row
  <2>3. CASE j = i
    BY <2>1, <2>2, <2>3, SameFacePromise DEF KeepsFace, Issued
  <2> QED
    BY <1>2, <2>1, <2>3
<1>11. ASSUME ReadBillingTarget(i) \/ AssessLateFee(i) PROVE KeepsPromise(j)
  BY <1>4, <1>11 DEF ReadBillingTarget, AssessLateFee, tables
<1>12. ASSUME ChargeLateFee(i) PROVE KeepsPromise(j)
  <2> DEFINE fee == assessed[i]
             row == [invoice[i] EXCEPT !.lateFee = fee, !.total = @ + fee]
  <2>1. fee \in Nat /\ fee # Null /\ Issued(i) /\ invoice[i].lateFee = Null
        /\ ~invoice[i].paidAt
    BY <1>1, <1>12 DEF ChargeLateFee, TypeOK
  <2>2. invoice[i].total \in Nat /\ invoice[i].amountPaid \in Nat /\ Credited(note, i) \in Nat
    BY RowFacts DEF InvoiceRow
  <2>3. invoice' = [invoice EXCEPT ![i] = row] /\ invoice'[i] = row
    BY <1>1, <1>12 DEF ChargeLateFee, TypeOK
  <2>4. row.lateFee = fee /\ row.status = invoice[i].status
        /\ row.total = invoice[i].total + fee
    BY <1>1 DEF InvoiceRow
  <2>5. i \notin staleNotes \cup rewritten =>
          Outstanding(invoice[i].total, Credited(note, i), invoice[i].amountPaid) > 0
    <3>1. i \notin staleNotes \cup rewritten =>
            /\ ~Settles(invoice[i].total, Credited(note, i), invoice[i].amountPaid)
            /\ invoice[i].total > 0
      BY <2>1, RowFacts DEF fee
    <3>2. invoice[i].amountPaid <= invoice[i].total
      BY RowFacts
    <3> QED
      BY <2>2, <3>1, <3>2 DEF Settles, Outstanding, Overpays
  <2> HIDE DEF fee, row
  <2>6. Issued(i)' /\ Face(i)' = Face(i)
    BY <2>1, <2>2, <2>3, <2>4 DEF Issued, Face
  <2>7. CASE j = i
    BY <2>5, <2>6, <2>7 DEF KeepsPromise
  <2> QED
    BY <1>2, <2>3, <2>7
<1>13. ASSUME NEW f \in Fees, AdjustInvoiceLateFee(i, f) PROVE KeepsPromise(j)
  <2> DEFINE total == invoice[i].total - invoice[i].lateFee + f
             S == Settles(total, Credited(note, i), invoice[i].amountPaid)
             mid == [invoice[i] EXCEPT !.lateFee = f, !.total = total]
             row == Resolve(mid, S)
  <2>1. /\ invoice[i].lateFee # Null /\ Issued(i) /\ total >= 0
    BY <1>13, RowFacts DEF AdjustInvoiceLateFee
  <2>2. invoice[i].total \in Nat /\ invoice[i].lateFee \in Nat /\ f \in Nat
    BY <2>1, RowFacts, AmountsAssumption DEF InvoiceRow
  <2>3. total \in Nat /\ S \in BOOLEAN /\ f # Null
    BY <2>1, <2>2, NullAssumption DEF Settles
  <2>4. invoice' = [invoice EXCEPT ![i] = row] /\ invoice'[i] = row
    BY <1>1, <1>13 DEF AdjustInvoiceLateFee, TypeOK
  <2>5. total - f = invoice[i].total - invoice[i].lateFee
    BY <2>2
  <2> HIDE DEF total, S
  <2>6. /\ mid \in InvoiceRow /\ mid.status = invoice[i].status /\ mid.total = total
        /\ mid.lateFee = f
    BY <1>1, <2>2, <2>3 DEF InvoiceRow
  <2> HIDE DEF mid
  <2>7. /\ row.status \in {"sent", "paid"} /\ row.total = total /\ row.lateFee = f
    BY <2>1, <2>3, <2>6, Resolved DEF Issued
  <2> HIDE DEF row
  <2>8. Issued(i)' /\ Face(i)' = Face(i)
    BY <2>1, <2>3, <2>4, <2>5, <2>7 DEF Issued, Face
  <2>9. CASE j = i
    BY <2>1, <2>8, <2>9 DEF KeepsPromise
  <2> QED
    BY <1>2, <2>4, <2>9
<1> QED
  BY <1>6, <1>7, <1>8, <1>9, <1>10, <1>11, <1>12, <1>13
     DEF InvoiceStep, SoftDeleteInvoice, RestoreInvoice

\* Every step keeps every promise.
LEMMA StepPromise == IInv /\ [Next]_vars => \A i \in Invoices : KeepsPromise(i)
<1> SUFFICES ASSUME IInv, [Next]_vars, NEW i \in Invoices PROVE KeepsPromise(i)
  OBVIOUS
<1>1. ASSUME NEW j \in Invoices, InvoiceStep(j) PROVE KeepsPromise(i)
  BY <1>1, InvoiceStepPromise
<1>2. CASE CreditNoteStep \/ \E p \in Payments : PaymentStep(p)
  BY <1>2, MoneyStepKeepsFace, SameFacePromise
<1>3. CASE UNCHANGED vars
  BY <1>3, SameFacePromise DEF vars, tables, KeepsFace, Issued
<1> QED
  BY <1>1, <1>2, <1>3 DEF Next

\* Once issued an invoice stays issued, and its total moves by its late fee alone unless a
\* conversion appended to it.
THEOREM FaceValueCorrect == Spec => FaceValueFixed
<1>1. IInv /\ [Next]_vars =>
        [\A i \in Invoices : Issued(i) => /\ Issued(i)'
                                          /\ i \notin rewritten' => Face(i)' = Face(i)]_vars
  BY StepPromise DEF KeepsPromise
<1> QED
  BY <1>1, LedgerInvariant, PTL DEF Spec, FaceValueFixed

\* A late fee is never charged to an invoice that owes nothing by then.
THEOREM LateFeeCorrect == Spec => FeeOnlyOnDebt
<1>1. IInv /\ [Next]_vars =>
        [\A i \in Invoices : invoice[i].lateFee = Null /\ invoice'[i].lateFee # Null =>
           \/ i \in staleNotes \cup rewritten
           \/ Outstanding(invoice[i].total, Credited(note, i), invoice[i].amountPaid) > 0]_vars
  BY StepPromise DEF KeepsPromise
<1> QED
  BY <1>1, LedgerInvariant, PTL DEF Spec, FeeOnlyOnDebt

\* What a step may do to the payments table, as far as Stripe's intents are concerned:
\* book an intent no row has with the amount Stripe moved, or leave the intents where they
\* are and the amounts of the rows that have one.
LEMMA PaymentRowsStep ==
  ASSUME TypeOK, Next
  PROVE  \/ \E p \in Payments, k \in Intents :
              /\ \A q \in Payments : payment[q].intent # k
              /\ payment'[p].intent = k /\ payment'[p].amount = IntentAmount[k]
              /\ \A q \in Payments \ {p} : payment'[q] = payment[q]
         \/ \A q \in Payments :
              payment'[q].intent # Null => /\ payment'[q].intent = payment[q].intent
                                           /\ payment'[q].amount = payment[q].amount
<1> DEFINE Booked == \E p \in Payments, k \in Intents :
                       /\ \A q \in Payments : payment[q].intent # k
                       /\ payment'[p].intent = k /\ payment'[p].amount = IntentAmount[k]
                       /\ \A q \in Payments \ {p} : payment'[q] = payment[q]
           Kept == \A q \in Payments :
                     payment'[q].intent # Null => /\ payment'[q].intent = payment[q].intent
                                                  /\ payment'[q].amount = payment[q].amount
<1> SUFFICES Booked \/ Kept
  OBVIOUS
<1>1. ASSUME payment' = payment PROVE Kept
  BY <1>1
<1>2. ASSUME NEW i \in Invoices, InvoiceStep(i) PROVE Kept
  BY <1>1, <1>2 DEF InvoiceStep, CreateInvoice, UpdateInvoice, AppendToBillingInvoice,
    SendInvoice, SoftDeleteInvoice, RestoreInvoice, ReadBillingTarget, AssessLateFee,
    ChargeLateFee, AdjustInvoiceLateFee, tables
<1>3. ASSUME CreditNoteStep PROVE Kept
  BY <1>1, <1>3 DEF CreditNoteStep, ReadCreditedInvoice, CreateCreditNote,
    SoftDeleteCreditNote, ReadDeletedCreditNote, RestoreCreditNote, WriteCreditNote,
    CommitUnsettledNote, RollBackNote, tables
<1>4. ASSUME NEW p \in Payments, PaymentStep(p) PROVE Booked \/ Kept
  <2>1. ASSUME NEW i, NEW a, NEW k, AddPayment(i, p, a, k)
        PROVE  /\ payment'[p].intent = k /\ payment'[p].amount = a
               /\ \A q \in Payments \ {p} : payment'[q] = payment[q]
    <3> DEFINE row == [invoice |-> i, amount |-> a, intent |-> k, trashed |-> FALSE]
    <3>1. payment' = [payment EXCEPT ![p] = row]
      BY <2>1 DEF AddPayment
    <3>2. payment'[p] = row /\ \A q \in Payments \ {p} : payment'[q] = payment[q]
      BY <3>1 DEF TypeOK
    <3> QED
      BY <3>2
  <2>2. ASSUME NEW i, NEW a, AddPayment(i, p, a, Null) PROVE Kept
    BY <2>1, <2>2
  <2>3. ASSUME NEW k \in Intents, RecordStripePayment(p, k) PROVE Booked
    <3>1. \A q \in Payments : payment[q].intent # k
      BY <2>3 DEF RecordStripePayment
    <3>2. AddPayment(IntentInvoice[k], p, IntentAmount[k], k)
      BY <2>3 DEF RecordStripePayment
    <3> QED
      BY <2>1, <3>1, <3>2
  <2>4. ASSUME NEW a \in Amounts, UpdatePayment(p, a) PROVE Kept
    <3> DEFINE row == [payment[p] EXCEPT !.amount = a]
    <3>1. payment[p].intent = Null /\ payment' = [payment EXCEPT ![p] = row]
      BY <2>4 DEF UpdatePayment, TypeOK
    <3>2. row.intent = payment[p].intent
      BY DEF TypeOK, PaymentRow
    <3> HIDE DEF row
    <3>3. payment'[p] = row /\ \A q \in Payments \ {p} : payment'[q] = payment[q]
      BY <3>1 DEF TypeOK
    <3> QED
      BY <3>1, <3>2, <3>3
  <2>5. ASSUME NEW b \in BOOLEAN, payment' = [payment EXCEPT ![p].trashed = b] PROVE Kept
    <3> DEFINE row == [payment[p] EXCEPT !.trashed = b]
    <3>1. payment' = [payment EXCEPT ![p] = row]
      BY <2>5 DEF TypeOK
    <3>2. row.intent = payment[p].intent /\ row.amount = payment[p].amount
      BY DEF TypeOK, PaymentRow
    <3> HIDE DEF row
    <3>3. payment'[p] = row /\ \A q \in Payments \ {p} : payment'[q] = payment[q]
      BY <3>1 DEF TypeOK
    <3> QED
      BY <3>2, <3>3
  <2>6. ASSUME ReadDeletedPayment(p) PROVE Kept
    BY <1>1, <2>6 DEF ReadDeletedPayment, tables
  <2> HIDE DEF Booked, Kept
  <2>7. ASSUME NEW i \in Invoices, MarkInvoicePaid(i, p) PROVE Kept
    BY <2>2, <2>7 DEF MarkInvoicePaid
  <2>8. ASSUME SoftDeletePayment(p) PROVE Kept
    BY <2>5, <2>8 DEF SoftDeletePayment
  <2>9. ASSUME NEW a \in restoring[p], RestorePayment(p, a) PROVE Kept
    BY <2>5, <2>9 DEF RestorePayment
  <2> QED
    BY <1>4, <2>2, <2>3, <2>4, <2>6, <2>7, <2>8, <2>9 DEF PaymentStep, RecordPayment
<1> HIDE DEF Booked, Kept
<1> QED
  BY <1>2, <1>3, <1>4 DEF Next

\* A Stripe intent becomes at most one payment row, and the row keeps Stripe's amount.
THEOREM IntentCorrect == Spec => []IntentBookedOnce
<1>1. Init => IntentBookedOnce
  BY DEF Init, IntentBookedOnce, NoPayment
<1>2. ASSUME TypeOK, IntentBookedOnce, [Next]_vars PROVE IntentBookedOnce'
  <2>1. CASE UNCHANGED vars
    BY <1>2, <2>1 DEF vars, tables, IntentBookedOnce
  <2>2. CASE Next
    BY <1>2, <2>2, PaymentRowsStep, NullAssumption DEF IntentBookedOnce
  <2> QED
    BY <1>2, <2>1, <2>2
<1> QED
  BY <1>1, <1>2, TypeCorrect, PTL DEF Spec

=============================================================================
