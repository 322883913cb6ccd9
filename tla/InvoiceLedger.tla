--------------------------- MODULE InvoiceLedger ----------------------------
(***************************************************************************)
(* The money side of an invoice: the invoices, payments and credit_notes   *)
(* tables and every write that can move what an invoice is worth, what it  *)
(* has received or whether it reads as paid.                               *)
(*                                                                         *)
(* Each action is one database transaction of features/invoices,           *)
(* features/payments or features/creditNotes.  The decision of a           *)
(* transaction is taken under the invoice's row lock (FOR UPDATE, or the   *)
(* lock a conditional UPDATE takes), so it is atomic here.  What a request *)
(* reads before it holds that lock is a step of its own (the Read actions) *)
(* and stays in a variable of `reads`, to be used however many other       *)
(* transactions have committed in between.  Any number of requests may     *)
(* have read the same thing, so a use does not consume it; a request that  *)
(* dies or is refused just never takes its second step.  The transaction   *)
(* that decides nothing, a credit note's whose invoice is in the trash,    *)
(* holds no such lock: its row is uncommitted for as long as it takes.     *)
(***************************************************************************)
EXTENDS Integers, FiniteSets, CentSums

CONSTANTS Invoices, Payments, CreditNotes,  \* the rows that may ever exist
          Intents,          \* Stripe payment intents, each for one invoice and amount:
          IntentInvoice, IntentAmount,
          Totals,           \* invoice totals a form, a blueprint or a conversion computes
          Amounts,          \* payment and credit note amounts a user may enter
          Fees,             \* fees a user may set when adjusting a late fee
          LateFeeKind,      \* the instance's late-fee policy: "percentage" or "fixed",
          LateFeeRate,      \* its percentage or its amount in cents,
          LateFeeCap,       \* and the most it may charge (no cap: more than any fee)
          Null

ASSUME RowsAssumption ==
  IsFiniteSet(Payments) /\ IsFiniteSet(CreditNotes)

\* chk_payments_amount, chk_credit_notes_total, chk_invoices_totals and
\* chk_invoices_late_fee hold of every amount a caller may submit.
ASSUME AmountsAssumption ==
  /\ Totals \subseteq Nat
  /\ Amounts \subseteq Nat \ {0}
  /\ Fees \subseteq Nat
  /\ LateFeeRate \in Nat /\ LateFeeCap \in Nat

ASSUME IntentsAssumption ==
  /\ IntentInvoice \in [Intents -> Invoices]
  /\ IntentAmount \in [Intents -> Nat \ {0}]

ASSUME NullAssumption ==
  Null \notin Nat /\ Null \notin Invoices /\ Null \notin Intents

VARIABLES
  invoice,        \* the invoices table
  payment,        \* the payments table; an unused row has invoice Null
  note,           \* the credit_notes table, likewise
  crediting,      \* invoices a createCreditNote request has found live and issued
  restoringNote,  \* notes a restoreCreditNote request has found restorable
  restoring,      \* the amounts restorePaymentWrite requests have read off a deleted payment
  assessed,       \* the fee the overdue sweep has priced and not yet charged
  appending,      \* drafts a convertBillableWork transaction has found editable
  uncommitted,    \* note rows written by a transaction that found no invoice to settle
  staleNotes,     \* history: invoices whose notes moved with no settlement decision since
  miscounted,     \* history: invoices whose aggregate was written from a stale amount
  rewritten       \* history: invoices whose lines grew after they were issued

tables  == <<invoice, payment, note>>
reads   == <<crediting, restoringNote, restoring, assessed, appending, uncommitted>>
history == <<staleNotes, miscounted, rewritten>>
vars    == <<tables, reads, history>>

-----------------------------------------------------------------------------
\* Rows.

InvoiceRow == [status : {"none", "draft", "sent", "paid"}, total : Nat,
               lateFee : Nat \cup {Null}, amountPaid : Nat,
               paidAt : BOOLEAN, trashed : BOOLEAN]

PaymentRow == {r \in [invoice : Invoices \cup {Null}, amount : Nat,
                      intent : Intents \cup {Null}, trashed : BOOLEAN] :
                 r.trashed => r.invoice # Null}

NoteRow == {r \in [invoice : Invoices \cup {Null}, amount : Nat, trashed : BOOLEAN] :
              r.trashed => r.invoice # Null}

NoInvoice == [status |-> "none", total |-> 0, lateFee |-> Null, amountPaid |-> 0,
              paidAt |-> FALSE, trashed |-> FALSE]
NoPayment == [invoice |-> Null, amount |-> 0, intent |-> Null, trashed |-> FALSE]
NoNote    == [invoice |-> Null, amount |-> 0, trashed |-> FALSE]

Live(i)   == invoice[i].status # "none" /\ ~invoice[i].trashed
Issued(i) == invoice[i].status \in {"sent", "paid"}

\* A note being inserted holds its parent's key: FOR UPDATE on the invoice waits for it.
Inserting(n) == uncommitted[n] # Null /\ note[n].invoice = Null
KeyShared(i) == \E n \in CreditNotes : Inserting(n) /\ uncommitted[n].invoice = i

\* lockInvoice gets the row: it exists, is not in the trash, and nobody is in the way.
Lockable(i) == Live(i) /\ ~KeyShared(i)

-----------------------------------------------------------------------------
\* The settlement decision.

LiveRows(rows, R, i) == {x \in R : rows[x].invoice = i /\ ~rows[x].trashed}

\* sumRecordedPayments and sumCreditedCents, over a given version of the table.
Recorded(payments, i) == SumCents(LiveRows(payments, Payments, i), payments)
Credited(notes, i)    == SumCents(LiveRows(notes, CreditNotes, i), notes)

\* getInvoiceOutstandingCents.
Outstanding(total, credited, paid) ==
  IF total >= credited + paid THEN total - credited - paid ELSE 0

\* evaluateInvoiceSettlement.
Overpays(total, paid) == paid > total
Settles(total, credited, paid) ==
  /\ ~Overpays(total, paid)
  /\ total > 0
  /\ Outstanding(total, credited, paid) = 0

\* What applyInvoiceAggregate and adjustInvoiceLateFee both write: resolveInvoiceStatus
\* beside paid_at.  paidAt says whether the column is set; its date is not modelled.
Resolve(row, settled) ==
  [row EXCEPT !.status = IF settled THEN "paid" ELSE IF @ = "paid" THEN "sent" ELSE @,
              !.paidAt = settled]

\* applyInvoiceAggregate, with chk_invoices_amount_paid: a transaction that would
\* break the constraint aborts.
ApplyInvoiceAggregate(i, paid, credited) ==
  /\ paid <= invoice[i].total
  /\ invoice' = [invoice EXCEPT ![i] =
                   Resolve([@ EXCEPT !.amountPaid = paid], Settles(@.total, credited, paid))]
  /\ staleNotes' = staleNotes \ {i}

-----------------------------------------------------------------------------
\* Invoices: features/invoices/mutations.ts, conversion.ts, billing.ts, systemWrites.ts.

Init ==
  /\ invoice = [i \in Invoices |-> NoInvoice]
  /\ payment = [p \in Payments |-> NoPayment]
  /\ note = [n \in CreditNotes |-> NoNote]
  /\ crediting = {} /\ restoringNote = {} /\ appending = {}
  /\ restoring = [p \in Payments |-> {}]
  /\ assessed = [i \in Invoices |-> Null]
  /\ uncommitted = [n \in CreditNotes |-> Null]
  /\ staleNotes = {} /\ miscounted = {} /\ rewritten = {}

\* createInvoice, createInvoiceFromProposal and createBillingInvoice insert a draft;
\* writeSystemInvoice inserts a draft or, for an auto-sending schedule, a sent invoice.
CreateInvoice(i, t, s) ==
  /\ invoice[i].status = "none"
  /\ invoice' = [invoice EXCEPT ![i] = [NoInvoice EXCEPT !.status = s, !.total = t]]
  /\ UNCHANGED <<payment, note, reads, history>>

\* Mutant: the draft condition is checked before the UPDATE and not by it.
UpdateInvoiceOnceDraft(i, t) ==
  /\ Live(i)
  /\ invoice' = [invoice EXCEPT ![i].total = t]
  /\ UNCHANGED <<payment, note, reads, history>>

\* updateInvoice: status and deleted_at are conditions of the UPDATE itself.
UpdateInvoice(i, t) ==
  /\ Live(i) /\ invoice[i].status = "draft"
  /\ invoice' = [invoice EXCEPT ![i].total = t]
  /\ UNCHANGED <<payment, note, reads, history>>

\* sendInvoice.
SendInvoice(i) ==
  /\ Live(i) /\ invoice[i].status = "draft"
  /\ invoice' = [invoice EXCEPT ![i].status = "sent"]
  /\ UNCHANGED <<payment, note, reads, history>>

\* softDeleteInvoice and restoreInvoice: the row keeps its money and its status.
SoftDeleteInvoice(i) ==
  /\ Live(i)
  /\ invoice' = [invoice EXCEPT ![i].trashed = TRUE]
  /\ UNCHANGED <<payment, note, reads, history>>

RestoreInvoice(i) ==
  /\ invoice[i].trashed
  /\ invoice' = [invoice EXCEPT ![i].trashed = FALSE]
  /\ UNCHANGED <<payment, note, reads, history>>

\* convertBillableWork onto an existing draft: resolveTarget reads its status without
\* a lock, and appendToBillingInvoice writes the totals with no condition but the id.
ReadBillingTarget(i) ==
  /\ Live(i) /\ invoice[i].status = "draft"
  /\ appending' = appending \cup {i}
  /\ UNCHANGED <<tables, crediting, restoringNote, restoring, assessed, uncommitted, history>>

AppendToBillingInvoice(i, t) ==
  /\ i \in appending
  /\ invoice[i].amountPaid <= t
  /\ invoice' = [invoice EXCEPT ![i].total = t]
  /\ rewritten' = IF Issued(i) THEN rewritten \cup {i} ELSE rewritten
  /\ UNCHANGED <<payment, note, reads, staleNotes, miscounted>>

-----------------------------------------------------------------------------
\* Payments: features/payments/paymentWrites.ts.

\* Mutant: a write path that forgets the invoice_not_issued guard.
AddPaymentToAny(i, p, a, k) ==
  /\ Lockable(i)
  /\ payment[p].invoice = Null
  /\ LET paid == Recorded(payment, i) + a
     IN  /\ ~Overpays(invoice[i].total, paid)
         /\ ApplyInvoiceAggregate(i, paid, Credited(note, i))
  /\ payment' = [payment EXCEPT ![p] =
                   [invoice |-> i, amount |-> a, intent |-> k, trashed |-> FALSE]]
  /\ miscounted' = miscounted \ {i}
  /\ UNCHANGED <<note, reads, rewritten>>

\* addPayment under lockInvoice.  The sum is re-read under the lock, so whatever an
\* earlier transaction miscounted is put right.
AddPayment(i, p, a, k) ==
  /\ Lockable(i) /\ Issued(i)
  /\ payment[p].invoice = Null
  /\ LET paid == Recorded(payment, i) + a
     IN  /\ ~Overpays(invoice[i].total, paid)
         /\ ApplyInvoiceAggregate(i, paid, Credited(note, i))
  /\ payment' = [payment EXCEPT ![p] =
                   [invoice |-> i, amount |-> a, intent |-> k, trashed |-> FALSE]]
  /\ miscounted' = miscounted \ {i}
  /\ UNCHANGED <<note, reads, rewritten>>

\* recordPaymentWrite.
RecordPayment(i, p, a) == AddPayment(i, p, a, Null)

\* Mutant: the duplicate check skips deleted rows.
RecordStripePaymentAgain(p, k) ==
  /\ \A q \in Payments : payment[q].intent # k \/ payment[q].trashed
  /\ AddPayment(IntentInvoice[k], p, IntentAmount[k], k)

\* recordStripePaymentWrite: the intent must not be on any row, deleted ones included.
\* Stripe may deliver an event any number of times and in any order.
RecordStripePayment(p, k) ==
  /\ \A q \in Payments : payment[q].intent # k
  /\ AddPayment(IntentInvoice[k], p, IntentAmount[k], k)

\* markInvoicePaid through settleInvoiceWrite: the whole outstanding balance in one row.
\* The status markInvoicePaid read beforehand decides nothing here: every issued invoice
\* has been "sent", so a request that saw it so may always be under way.
MarkInvoicePaid(i, p) ==
  LET owed == Outstanding(invoice[i].total, Credited(note, i), Recorded(payment, i))
  IN  owed > 0 /\ AddPayment(i, p, owed, Null)

\* Mutant: the edited payment's old amount is summed beside its new one.
UpdatePaymentOnTop(p, a) ==
  LET i == payment[p].invoice
      paid == Recorded(payment, i) + a
  IN  /\ i # Null /\ ~payment[p].trashed /\ payment[p].intent = Null
      /\ Lockable(i)
      /\ ~Overpays(invoice[i].total, paid)
      /\ ApplyInvoiceAggregate(i, paid, Credited(note, i))
      /\ payment' = [payment EXCEPT ![p].amount = a]
      /\ miscounted' = miscounted \ {i}
      /\ UNCHANGED <<note, reads, rewritten>>

\* updatePaymentWrite: the row is read again under the lock, and a Stripe row is read-only.
UpdatePayment(p, a) ==
  LET i == payment[p].invoice
      paid == SumCents(LiveRows(payment, Payments, i) \ {p}, payment) + a
  IN  /\ i # Null /\ ~payment[p].trashed /\ payment[p].intent = Null
      /\ Lockable(i)
      /\ ~Overpays(invoice[i].total, paid)
      /\ ApplyInvoiceAggregate(i, paid, Credited(note, i))
      /\ payment' = [payment EXCEPT ![p].amount = a]
      /\ miscounted' = miscounted \ {i}
      /\ UNCHANGED <<note, reads, rewritten>>

\* softDeletePaymentWrite.  Nothing is rejected as overpaid here: only the constraint
\* stands between a wrong sum and the row.
SoftDeletePayment(p) ==
  LET i == payment[p].invoice
  IN  /\ i # Null /\ ~payment[p].trashed
      /\ Lockable(i)
      /\ payment' = [payment EXCEPT ![p].trashed = TRUE]
      /\ ApplyInvoiceAggregate(i, Recorded(payment', i), Credited(note, i))
      /\ miscounted' = miscounted \ {i}
      /\ UNCHANGED <<note, reads, rewritten>>

\* restorePaymentWrite reads the deleted row's amount and the parent before it asks for
\* the invoice's lock ...
ReadDeletedPayment(p) ==
  /\ payment[p].invoice # Null /\ payment[p].trashed
  /\ ~invoice[payment[p].invoice].trashed
  /\ restoring' = [restoring EXCEPT ![p] = @ \cup {payment[p].amount}]
  /\ UNCHANGED <<tables, crediting, restoringNote, assessed, appending, uncommitted, history>>

\* ... and books that amount under the lock; the row itself comes back as it is by then.
RestorePayment(p, a) ==
  LET i == payment[p].invoice
      paid == Recorded(payment, i) + a
  IN  /\ a \in restoring[p]
      /\ Lockable(i)
      /\ ~Overpays(invoice[i].total, paid)
      /\ payment[p].trashed
      /\ payment' = [payment EXCEPT ![p].trashed = FALSE]
      /\ ApplyInvoiceAggregate(i, paid, Credited(note, i))
      /\ miscounted' = IF a = payment[p].amount THEN miscounted \ {i} ELSE miscounted \cup {i}
      /\ UNCHANGED <<note, reads, rewritten>>

-----------------------------------------------------------------------------
\* Credit notes: features/creditNotes/mutations.ts.

\* Mutant: the settlement is decided before the note is written.
WriteCreditNoteLast(n, row) ==
  LET i == row.invoice
  IN  /\ uncommitted[n] = Null /\ Lockable(i) /\ Issued(i)
      /\ note' = [note EXCEPT ![n] = row]
      /\ ApplyInvoiceAggregate(i, Recorded(payment, i), Credited(note, i))
      /\ miscounted' = miscounted \ {i}
      /\ UNCHANGED <<payment, reads, rewritten>>

\* A note's row is written, and resettleInvoiceWrite follows in the same transaction.  It
\* settles the invoice under its lock, unless lockInvoice finds it in the trash: then the
\* transaction has nothing left to wait for but its own commit.
WriteCreditNote(n, row) ==
  LET i == row.invoice
  IN  /\ uncommitted[n] = Null
      /\ \/ /\ Lockable(i) /\ Issued(i)
            /\ note' = [note EXCEPT ![n] = row]
            /\ ApplyInvoiceAggregate(i, Recorded(payment, i), Credited(note', i))
            /\ miscounted' = miscounted \ {i}
            /\ UNCHANGED <<payment, reads, rewritten>>
         \/ /\ ~Live(i)
            /\ uncommitted' = [uncommitted EXCEPT ![n] = row]
            /\ UNCHANGED <<tables, crediting, restoringNote, restoring, assessed, appending,
                           history>>

\* That commit, or a rollback.
CommitUnsettledNote(n) ==
  /\ uncommitted[n] # Null
  /\ note' = [note EXCEPT ![n] = uncommitted[n]]
  /\ uncommitted' = [uncommitted EXCEPT ![n] = Null]
  /\ staleNotes' = staleNotes \cup {uncommitted[n].invoice}
  /\ UNCHANGED <<invoice, payment, crediting, restoringNote, restoring, assessed, appending,
                 miscounted, rewritten>>

RollBackNote(n) ==
  /\ uncommitted[n] # Null
  /\ uncommitted' = [uncommitted EXCEPT ![n] = Null]
  /\ UNCHANGED <<tables, crediting, restoringNote, restoring, assessed, appending, history>>

\* createCreditNote reads the invoice outside the transaction ...
ReadCreditedInvoice(i) ==
  /\ Live(i) /\ Issued(i)
  /\ crediting' = crediting \cup {i}
  /\ UNCHANGED <<tables, restoringNote, restoring, assessed, appending, uncommitted, history>>

\* ... and writes the note and the settlement inside it.  claimCreditNoteNumber locks the
\* settings row first, so one insertion waits for the commit of another.
CreateCreditNote(i, n, a) ==
  /\ i \in crediting
  /\ note[n].invoice = Null
  /\ \A m \in CreditNotes : ~Inserting(m)
  /\ WriteCreditNote(n, [invoice |-> i, amount |-> a, trashed |-> FALSE])

\* softDeleteCreditNote asks nothing of the invoice.
SoftDeleteCreditNote(n) ==
  /\ note[n].invoice # Null /\ ~note[n].trashed
  /\ WriteCreditNote(n, [note[n] EXCEPT !.trashed = TRUE])

\* restoreCreditNote reads the parent outside the transaction that restores the note.
ReadDeletedCreditNote(n) ==
  /\ note[n].invoice # Null /\ note[n].trashed
  /\ ~invoice[note[n].invoice].trashed
  /\ restoringNote' = restoringNote \cup {n}
  /\ UNCHANGED <<tables, crediting, restoring, assessed, appending, uncommitted, history>>

RestoreCreditNote(n) ==
  /\ n \in restoringNote
  /\ note[n].trashed
  /\ WriteCreditNote(n, [note[n] EXCEPT !.trashed = FALSE])

-----------------------------------------------------------------------------
\* Late fees: features/invoices/lateFees.ts, services/lateFee.ts and adjustInvoiceLateFee.

\* rawFeeCents (Math.round of a percentage, or the fixed amount) and capFee.
LateFeeFor(outstanding) ==
  LET raw == IF LateFeeKind = "fixed" THEN LateFeeRate
             ELSE (2 * outstanding * LateFeeRate + 100) \div 200
  IN  IF raw < LateFeeCap THEN raw ELSE LateFeeCap

\* getLateFeeCandidates and assessLateFee, on the row as the sweep reads it.  Whether the
\* due date and the grace period have passed is left open.
AssessLateFee(i) ==
  LET owed == Outstanding(invoice[i].total, Credited(note, i), invoice[i].amountPaid)
  IN  /\ Live(i) /\ Issued(i)
      /\ invoice[i].status # "paid" /\ ~invoice[i].paidAt
      /\ invoice[i].lateFee = Null
      /\ owed > 0 /\ LateFeeFor(owed) > 0
      /\ assessed' = [assessed EXCEPT ![i] = LateFeeFor(owed)]
      /\ UNCHANGED <<tables, crediting, restoringNote, restoring, appending, uncommitted, history>>

\* Mutant: the UPDATE does not ask again whether the invoice has been paid.
ChargeLateFeeRegardless(i) ==
  /\ assessed[i] # Null
  /\ Live(i) /\ Issued(i)
  /\ invoice[i].lateFee = Null
  /\ invoice' = [invoice EXCEPT ![i].lateFee = assessed[i], ![i].total = @ + assessed[i]]
  /\ assessed' = [assessed EXCEPT ![i] = Null]
  /\ UNCHANGED <<payment, note, crediting, restoringNote, restoring, appending, uncommitted,
                  history>>

\* chargeLateFee: one conditional UPDATE, later in the sweep.
ChargeLateFee(i) ==
  /\ assessed[i] # Null
  /\ Live(i) /\ Issued(i)
  /\ invoice[i].lateFee = Null
  /\ ~invoice[i].paidAt
  /\ invoice' = [invoice EXCEPT ![i].lateFee = assessed[i], ![i].total = @ + assessed[i]]
  /\ assessed' = [assessed EXCEPT ![i] = Null]
  /\ UNCHANGED <<payment, note, crediting, restoringNote, restoring, appending, uncommitted,
                  history>>

\* Mutant: neither the settlement nor chk_invoices_totals refuses the new total.
AdjustInvoiceLateFeeUnchecked(i, f) ==
  LET total == invoice[i].total - invoice[i].lateFee + f
  IN  /\ Lockable(i)
      /\ invoice[i].lateFee # Null
      /\ invoice' = [invoice EXCEPT ![i] =
                       Resolve([@ EXCEPT !.lateFee = f, !.total = total],
                               Settles(total, Credited(note, i), @.amountPaid))]
      /\ staleNotes' = staleNotes \ {i}
      /\ UNCHANGED <<payment, note, reads, miscounted, rewritten>>

\* adjustInvoiceLateFee: the settlement follows the new total.
AdjustInvoiceLateFee(i, f) ==
  LET total == invoice[i].total - invoice[i].lateFee + f
  IN  /\ Lockable(i)
      /\ invoice[i].lateFee # Null
      /\ total >= 0
      /\ ~Overpays(total, invoice[i].amountPaid)
      /\ invoice' = [invoice EXCEPT ![i] =
                       Resolve([@ EXCEPT !.lateFee = f, !.total = total],
                               Settles(total, Credited(note, i), @.amountPaid))]
      /\ staleNotes' = staleNotes \ {i}
      /\ UNCHANGED <<payment, note, reads, miscounted, rewritten>>

-----------------------------------------------------------------------------
InvoiceStep(i) ==
  \/ \E t \in Totals, s \in {"draft", "sent"} : CreateInvoice(i, t, s)
  \/ \E t \in Totals : UpdateInvoice(i, t) \/ AppendToBillingInvoice(i, t)
  \/ SendInvoice(i)
  \/ SoftDeleteInvoice(i) \/ RestoreInvoice(i)
  \/ ReadBillingTarget(i)
  \/ AssessLateFee(i) \/ ChargeLateFee(i)
  \/ \E f \in Fees : AdjustInvoiceLateFee(i, f)

PaymentStep(p) ==
  \/ \E i \in Invoices : MarkInvoicePaid(i, p) \/ \E a \in Amounts : RecordPayment(i, p, a)
  \/ \E k \in Intents : RecordStripePayment(p, k)
  \/ \E a \in Amounts : UpdatePayment(p, a)
  \/ SoftDeletePayment(p) \/ ReadDeletedPayment(p)
  \/ \E a \in restoring[p] : RestorePayment(p, a)

CreditNoteStep ==
  \/ \E i \in Invoices : ReadCreditedInvoice(i)
  \/ \E i \in Invoices, n \in CreditNotes, a \in Amounts : CreateCreditNote(i, n, a)
  \/ \E n \in CreditNotes :
       \/ SoftDeleteCreditNote(n) \/ ReadDeletedCreditNote(n) \/ RestoreCreditNote(n)
       \/ CommitUnsettledNote(n) \/ RollBackNote(n)

Next ==
  \/ \E i \in Invoices : InvoiceStep(i)
  \/ \E p \in Payments : PaymentStep(p)
  \/ CreditNoteStep

Spec == Init /\ [][Next]_vars

-----------------------------------------------------------------------------
\* Properties.

\* Every column holds a value of its type.
TypeOK ==
  /\ invoice \in [Invoices -> InvoiceRow]
  /\ payment \in [Payments -> PaymentRow]
  /\ note \in [CreditNotes -> NoteRow]
  /\ crediting \subseteq Invoices /\ appending \subseteq Invoices
  /\ restoringNote \subseteq CreditNotes
  /\ restoring \in [Payments -> SUBSET Nat]
  /\ assessed \in [Invoices -> Nat \cup {Null}]
  /\ uncommitted \in [CreditNotes -> NoteRow \cup {Null}]
  /\ staleNotes \subseteq Invoices /\ miscounted \subseteq Invoices
  /\ rewritten \subseteq Invoices

\* invoices.amount_paid_cents is the sum of the invoice's live payments, in the trash or
\* out of it, after any interleaving of records, edits, deletes, restores and Stripe
\* deliveries; the one exception is a restore that booked an amount read before its lock.
AggregateIsSumOfPayments ==
  \A i \in Invoices : i \notin miscounted => invoice[i].amountPaid = Recorded(payment, i)

\* An issued invoice reads as paid, in both columns, exactly when payments and credit
\* notes together cover its total (paymentSettlement.ts), unless its credit notes moved
\* while it was in the trash or its lines grew after it was issued.
PaidExactlyWhenSettled ==
  \A i \in Invoices :
    /\ invoice[i].status = "paid" <=> invoice[i].paidAt
    /\ Issued(i) /\ i \notin staleNotes \cup rewritten =>
         (invoice[i].paidAt <=>
            Settles(invoice[i].total, Credited(note, i), invoice[i].amountPaid))

\* A draft and the money never meet: no payment and no credit note, live or deleted,
\* belongs to an invoice that could still be rewritten, however requests interleave.
MoneyOnlyOnIssued ==
  /\ \A p \in Payments : payment[p].invoice # Null => Issued(payment[p].invoice)
  /\ \A n \in CreditNotes : note[n].invoice # Null => Issued(note[n].invoice)
  /\ \A n \in CreditNotes : uncommitted[n] # Null => Issued(uncommitted[n].invoice)
  /\ \A i \in crediting : Issued(i)

\* A Stripe intent becomes one payment row at most and the row keeps the amount Stripe
\* moved, through duplicate deliveries, edits, deletes and restores.
IntentBookedOnce ==
  \A p, q \in Payments :
    payment[p].intent # Null =>
      /\ payment[p].amount = IntentAmount[payment[p].intent]
      /\ payment[p].intent = payment[q].intent => p = q

\* Once issued, an invoice never goes back to draft and its total moves by its late fee
\* alone (canTransitionInvoiceStatus.ts: the client holds a numbered document), unless a
\* conversion appended to it.
Face(i) == invoice[i].total - IF invoice[i].lateFee = Null THEN 0 ELSE invoice[i].lateFee

FaceValueFixed ==
  [][\A i \in Invoices : Issued(i) => /\ Issued(i)'
                                      /\ i \notin rewritten' => Face(i)' = Face(i)]_vars

\* A late fee is charged once, and never to an invoice that owed nothing at that moment
\* (lateFees.ts: a payment that committed after the candidate was read makes the charge a
\* miss).
FeeOnlyOnDebt ==
  [][\A i \in Invoices : invoice[i].lateFee = Null /\ invoice'[i].lateFee # Null =>
       \/ i \in staleNotes \cup rewritten
       \/ Outstanding(invoice[i].total, Credited(note, i), invoice[i].amountPaid) > 0]_vars
=============================================================================
