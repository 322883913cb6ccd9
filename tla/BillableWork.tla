----------------------------- MODULE BillableWork -----------------------------
(***************************************************************************)
(* Time entries, expenses and accepted proposals, and the invoices that    *)
(* bill them.  An entry or an expense is stamped with its invoice, by the  *)
(* conversion the owner starts or, for the time of a project, by a run of  *)
(* its retainer; an invoice names the proposal it was made from.           *)
(*                                                                         *)
(* Every handler here reads and then writes: a request reads, decides, and *)
(* writes in a second step, and others may write in between.  The writes   *)
(* of a transaction are one step, because what it has written stays locked *)
(* until it commits (READ COMMITTED).  A request that dies between its two *)
(* steps leaves nothing behind, like one that never takes the second.      *)
(***************************************************************************)
EXTENDS Integers, FiniteSets

CONSTANTS
  TimeEntries,  \* the billable entries of one user on one project
  Expenses,     \* the rebillable expenses
  Proposals,    \* accepted proposals
  Invoices, Requests, Null,
  Logged,       \* the hours an entry, the cents an expense is first given
  Amended,      \* and what an edit gives it
  MaxEdits      \* bound: edits, trips to the trash and back, purges

Items   == TimeEntries \cup Expenses
Amounts == {0} \cup Logged \cup Amended

ASSUME WorkAssumption ==
  /\ TimeEntries \cap Expenses = {}
  /\ Logged \subseteq Nat /\ Amended \subseteq Nat /\ MaxEdits \in Nat
  /\ Null \notin Nat \cup Items \cup Proposals \cup Invoices \cup Requests

VARIABLES
  item,     \* the rows of time_entries and expenses
  invoice,  \* the rows of invoices, with their lines
  request,  \* where each request stands, and what it has read
  raced,    \* history: items written between a request's read of them and its write
  pooled,   \* history: time written between the sum and the stamp of a retainer's run, or stamped
            \* by one while its timer was running
  dropped,  \* history: items whose line the owner took off a draft
  edits

history == <<raced, pooled, dropped>>
vars    == <<item, invoice, request, history, edits>>

\* amount: duration_seconds with its rate, or amount_cents; invoice: invoiced_in_id.
Item   == [state : {"none", "running", "done"}, amount : Amounts, trashed : BOOLEAN,
           invoice : Invoices \cup {Null}]
NoItem == [state |-> "none", amount |-> 0, trashed |-> FALSE, invoice |-> Null]

\* charged: what the invoice asks for each item, or counts against a retainer's pool.
Charges   == [Items -> Amounts \cup {Null}]
Nothing   == [i \in Items |-> Null]
Invoice   == [status : {"none", "draft", "sent", "purged"}, trashed : BOOLEAN,
              proposal : Proposals \cup {Null}, charged : Charges]
NoInvoice == [status |-> "none", trashed |-> FALSE, proposal |-> Null, charged |-> Nothing]

Request == [pc : {"idle", "stopping", "editing", "deleting", "confirmed", "summed", "converting"},
            item : Items \cup {Null}, plan : Charges, target : Invoices \cup {Null},
            proposal : Proposals \cup {Null}]
Idle    == [pc |-> "idle", item |-> Null, plan |-> Nothing, target |-> Null, proposal |-> Null]

Live(i)     == item[i].state # "none" /\ ~item[i].trashed
Unbilled(i) == item[i].invoice = Null
Issued(n)   == invoice[n].status \in {"draft", "sent"}
Standing(n) == Issued(n) /\ ~invoice[n].trashed
Planned(r)  == {i \in Items : request[r].plan[i] # Null}

At(r, pc)   == request[r].pc = pc
Return(r)   == request' = [request EXCEPT ![r] = Idle]
Begin(r, pc) == [Idle EXCEPT !.pc = pc]

\* What other requests have read of the items S that are written now.
Race(r, S) ==
  /\ raced' = raced \cup {i \in S : \E q \in Requests \ {r} : request[q].item = i \/ i \in Planned(q)}
  /\ pooled' = IF \E q \in Requests \ {r} : At(q, "summed") THEN pooled \cup (S \cap TimeEntries)
               ELSE pooled

Edit == edits < MaxEdits /\ edits' = edits + 1

-----------------------------------------------------------------------------
(* Time entries and expenses *)

\* time_entries_running_timer_idx.
NoTimerRuns(e) == \A f \in TimeEntries \ {e} : ~(Live(f) /\ item[f].state = "running")

Log(i, state, a) ==
  /\ item[i].state = "none"
  /\ item' = [item EXCEPT ![i] = [NoItem EXCEPT !.state = state, !.amount = a]]
  /\ Race(Null, {i})
  /\ UNCHANGED <<invoice, request, dropped, edits>>

\* The check before the INSERT decides nothing: the index does.
StartTimer(e) == NoTimerRuns(e) /\ Log(e, "running", 0)

CreateManualTimeEntry(e, a) == Log(e, "done", a)

CreateExpense(x, a) == Log(x, "done", a)

\* Mutant: a billed item is open to changes.
ReadItemAnyway(r, i, pc) ==
  /\ At(r, "idle") /\ Live(i)
  /\ pc = "editing" => item[i].state = "done"
  /\ pc = "stopping" => item[i].state = "running"
  /\ request' = [request EXCEPT ![r] = [Begin(r, pc) EXCEPT !.item = i]]
  /\ UNCHANGED <<item, invoice, history, edits>>

\* An edit and a deletion refuse what is billed, an edit a running timer too; a stop asks for one ...
ReadItem(r, i, pc) ==
  /\ At(r, "idle") /\ Live(i)
  /\ pc # "stopping" => Unbilled(i)
  /\ pc = "editing" => item[i].state = "done"
  /\ pc = "stopping" => item[i].state = "running"
  /\ request' = [request EXCEPT ![r] = [Begin(r, pc) EXCEPT !.item = i]]
  /\ UNCHANGED <<item, invoice, history, edits>>

\* ... but the UPDATE of an edit or a deletion asks only that the row is not in the trash, and that
\* of a stop that the timer still runs.
Write(r, pc, row) ==
  LET i == request[r].item
  IN  /\ At(r, pc)
      /\ IF (IF pc = "stopping" THEN item[i].state = "running" ELSE Live(i))
           THEN item' = [item EXCEPT ![i] = row] /\ Race(r, {i})
           ELSE UNCHANGED <<item, raced, pooled>>
      /\ Return(r)
      /\ UNCHANGED <<invoice, dropped>>

StopTimer(r, a) ==
  /\ Write(r, "stopping", [item[request[r].item] EXCEPT !.state = "done", !.amount = a])
  /\ UNCHANGED edits

Rewrite(r, a) == Edit /\ Write(r, "editing", [item[request[r].item] EXCEPT !.amount = a])
Discard(r)    == Edit /\ Write(r, "deleting", [item[request[r].item] EXCEPT !.trashed = TRUE])

UpdateTimeEntry(r, a)  == request[r].item \in TimeEntries /\ Rewrite(r, a)
UpdateExpense(r, a)    == request[r].item \in Expenses /\ Rewrite(r, a)
SoftDeleteTimeEntry(r) == request[r].item \in TimeEntries /\ Discard(r)
SoftDeleteExpense(r)   == request[r].item \in Expenses /\ Discard(r)

Restore(i) ==
  /\ item[i].trashed /\ Edit
  /\ item' = [item EXCEPT ![i].trashed = FALSE]
  /\ Race(Null, {i})
  /\ UNCHANGED <<invoice, request, dropped>>

RestoreTimeEntry(e) == (item[e].state = "running" => NoTimerRuns(e)) /\ Restore(e)
RestoreExpense(x)   == Restore(x)

-----------------------------------------------------------------------------
(* convertBillableWork *)

\* selectBillableTimeEntries, selectBillableExpenses.
Billable == {i \in Items : Live(i) /\ item[i].state = "done" /\ Unbilled(i)}

\* confirmPlan and resolveTarget: a new invoice, or a draft of the owner's choice.
ConfirmPlan(r, chosen, target) ==
  /\ At(r, "idle") /\ chosen # {} /\ chosen \subseteq Billable
  /\ target # Null => Standing(target) /\ invoice[target].status = "draft"
  /\ request' = [request EXCEPT ![r] = [Begin(r, "confirmed") EXCEPT
                   !.plan = [i \in Items |-> IF i \in chosen THEN item[i].amount ELSE Null],
                   !.target = target]]
  /\ UNCHANGED <<item, invoice, history, edits>>

\* Mutant: the rows stamped are not counted.
CountMatchesAnyway(S) == TRUE

\* stampBilled: invoiced_in_id IS NULL is asked of each row, and the rows are counted.
CountMatches(S) == \A i \in S : Unbilled(i)

Stamped(S, n) == [i \in Items |-> IF i \in S /\ Unbilled(i) THEN [item[i] EXCEPT !.invoice = n]
                                  ELSE item[i]]

Charge(n, plan) == [i \in Items |-> IF plan[i] = Null THEN invoice[n].charged[i] ELSE plan[i]]

\* The invoice is created or appended to (by id alone) and the items stamped; or all is rolled back.
CommitBilling(r, n) ==
  LET S == Planned(r)
      new == request[r].target = Null
  IN  /\ At(r, "confirmed")
      /\ IF new THEN invoice[n].status = "none" ELSE n = request[r].target
      /\ IF CountMatches(S) /\ (new \/ Issued(n))
           THEN /\ invoice' = [invoice EXCEPT ![n].status = IF new THEN "draft" ELSE @,
                                              ![n].charged = Charge(n, request[r].plan)]
                /\ item' = Stamped(S, n)
                /\ Race(r, S)
           ELSE UNCHANGED <<item, invoice, raced, pooled>>
      /\ Return(r)
      /\ UNCHANGED <<dropped, edits>>

-----------------------------------------------------------------------------
(* generateRecurringInvoice, for a retainer on the project *)

Pool == {e \in TimeEntries : Live(e) /\ Unbilled(e)}

\* resolveRetainerUsage: the hours summed, a running timer's being NULL.  The schedule's row is
\* locked, so its runs come one at a time.
SumRetainer(r) ==
  /\ At(r, "idle") /\ Pool # {} /\ \A q \in Requests : ~At(q, "summed")
  /\ request' = [request EXCEPT ![r] = [Begin(r, "summed") EXCEPT
                   !.plan = [i \in Items |-> IF i \in Pool /\ item[i].state = "done"
                                               THEN item[i].amount ELSE Null]]]
  /\ UNCHANGED <<item, invoice, history, edits>>

Generated(r, n, status) ==
  invoice' = [invoice EXCEPT ![n].status = status, ![n].charged = Charge(n, request[r].plan)]

\* The invoice, and the stamp of whatever is unbilled by then, uncounted.
CommitRetainer(r, n, status) ==
  LET S == Pool
  IN  /\ At(r, "summed") /\ invoice[n].status = "none"
      /\ Generated(r, n, status)
      /\ item' = Stamped(S, n)
      /\ raced' = raced \cup {i \in S : \E q \in Requests \ {r} : request[q].item = i \/ i \in Planned(q)}
      /\ pooled' = pooled \cup {e \in S : item[e].state = "running"}
      /\ Return(r)
      /\ UNCHANGED <<dropped, edits>>

-----------------------------------------------------------------------------
(* The invoice afterwards *)

\* updateInvoice replaces the lines of a draft, and leaves the stamps.
UpdateInvoice(n, i) ==
  /\ Standing(n) /\ invoice[n].status = "draft" /\ invoice[n].charged[i] # Null /\ Edit
  /\ invoice' = [invoice EXCEPT ![n].charged[i] = Null]
  /\ dropped' = dropped \cup {i}
  /\ UNCHANGED <<item, request, raced, pooled>>

\* sendInvoice asks for a line.
SendInvoice(n) ==
  /\ Standing(n) /\ invoice[n].status = "draft"
  /\ invoice[n].proposal # Null \/ \E i \in Items : invoice[n].charged[i] # Null
  /\ invoice' = [invoice EXCEPT ![n].status = "sent"]
  /\ UNCHANGED <<item, request, history, edits>>

\* Mutant: an invoice in the trash lets go of its work.
TrashInvoiceReleasing(n) ==
  /\ Issued(n) /\ Edit
  /\ invoice' = [invoice EXCEPT ![n].trashed = ~@]
  /\ item' = [i \in Items |-> IF item[i].invoice = n THEN [item[i] EXCEPT !.invoice = Null] ELSE item[i]]
  /\ UNCHANGED <<request, history>>

\* softDeleteInvoice, restoreInvoice: the stamps stay.
TrashInvoice(n) ==
  /\ Issued(n) /\ Edit
  /\ invoice' = [invoice EXCEPT ![n].trashed = ~@]
  /\ UNCHANGED <<item, request, history>>

\* Mutant: the stamps outlive their invoice.
UnstampedNever(n) == item

\* runRetentionPurge: the lines go with the invoice (CASCADE), and the stamps (SET NULL).
Unstamped(n) == [i \in Items |-> IF item[i].invoice = n THEN [item[i] EXCEPT !.invoice = Null] ELSE item[i]]

PurgeInvoice(n) ==
  /\ Issued(n) /\ invoice[n].trashed /\ Edit
  /\ invoice' = [invoice EXCEPT ![n] = [NoInvoice EXCEPT !.status = "purged"]]
  /\ item' = Unstamped(n)
  /\ Race(Null, {i \in Items : item[i].invoice = n})
  /\ UNCHANGED <<request, dropped>>

-----------------------------------------------------------------------------
(* createInvoiceFromProposal *)

MadeFrom(p) == {n \in Invoices : Standing(n) /\ invoice[n].proposal = p}

\* The request looks for an invoice of this proposal ...
ReadProposal(r, p) ==
  /\ At(r, "idle") /\ MadeFrom(p) = {}
  /\ request' = [request EXCEPT ![r] = [Begin(r, "converting") EXCEPT !.proposal = p]]
  /\ UNCHANGED <<item, invoice, history, edits>>

\* ... and creates one; no index stands in the way of a second.
InvoiceProposal(r, n) ==
  /\ At(r, "converting") /\ invoice[n].status = "none"
  /\ invoice' = [invoice EXCEPT ![n].status = "draft", ![n].proposal = request[r].proposal]
  /\ Return(r)
  /\ UNCHANGED <<item, history, edits>>

-----------------------------------------------------------------------------
Init ==
  /\ item = [i \in Items |-> NoItem]
  /\ invoice = [n \in Invoices |-> NoInvoice]
  /\ request = [r \in Requests |-> Idle]
  /\ raced = {} /\ pooled = {} /\ dropped = {}
  /\ edits = 0

WorkStep ==
  \/ \E e \in TimeEntries :
       \/ StartTimer(e) \/ RestoreTimeEntry(e)
       \/ \E a \in Logged : CreateManualTimeEntry(e, a)
  \/ \E x \in Expenses : RestoreExpense(x) \/ \E a \in Logged : CreateExpense(x, a)
  \/ \E r \in Requests :
       \/ \E i \in Items, pc \in {"stopping", "editing", "deleting"} : ReadItem(r, i, pc)
       \/ \E a \in Logged : StopTimer(r, a)
       \/ \E a \in Amended : UpdateTimeEntry(r, a) \/ UpdateExpense(r, a)
       \/ SoftDeleteTimeEntry(r) \/ SoftDeleteExpense(r)

BillingStep ==
  \/ \E r \in Requests :
       \/ \E chosen \in SUBSET Items, target \in Invoices \cup {Null} : ConfirmPlan(r, chosen, target)
       \/ SumRetainer(r)
       \/ \E p \in Proposals : ReadProposal(r, p)
       \/ \E n \in Invoices :
            \/ CommitBilling(r, n) \/ InvoiceProposal(r, n)
            \/ \E status \in {"draft", "sent"} : CommitRetainer(r, n, status)
  \/ \E n \in Invoices :
       \/ SendInvoice(n) \/ TrashInvoice(n) \/ PurgeInvoice(n)
       \/ \E i \in Items : UpdateInvoice(n, i)

Next == WorkStep \/ BillingStep

Spec == Init /\ [][Next]_vars

-----------------------------------------------------------------------------
(* Properties. *)

\* A stamp names an invoice that is there, as the foreign key asks.
TypeOK ==
  /\ item \in [Items -> Item]
  /\ \A i \in Items : item[i].invoice # Null => Issued(item[i].invoice)
  /\ invoice \in [Invoices -> Invoice]
  /\ request \in [Requests -> Request]
  /\ {raced, pooled, dropped} \subseteq SUBSET Items
  /\ edits \in 0..MaxEdits

\* Nothing is billed twice: not by two conversions of the same work at the same time, nor after a
\* trip of the invoice to the trash (stampBilled).  Time written between the sum and the stamp of a
\* retainer is left out: that stamp is not counted.
BilledOnce ==
  \A i \in Items \ pooled : Cardinality({n \in Invoices : invoice[n].charged[i] # Null}) <= 1

\* What carries the stamp of an invoice is on that invoice, and the other way round, whatever became
\* of the work and of the invoice since; but for lines the owner took off, and for a retainer's stamp.
StampedWhereCharged ==
  \A i \in Items \ (pooled \cup dropped), n \in Invoices :
    item[i].invoice = n <=> invoice[n].charged[i] # Null

\* "An invoiced entry is frozen": what was billed stays, at the amount it was billed at, unless a
\* change and a billing of the same work were under way at the same time.
BilledWorkIsFrozen ==
  \A i \in Items \ (raced \cup pooled \cup dropped) :
    item[i].invoice # Null => Live(i) /\ invoice[item[i].invoice].charged[i] = item[i].amount

\* "An invoiced entry is frozen: its hours and rate are what a sent invoice line was built from"
\* (updateTimeEntry): no step changes the hours of an entry that carries a stamp.
InvoicedHoursStay ==
  [][\A e \in TimeEntries : item[e].invoice # Null /\ item'[e].invoice # Null =>
       item'[e].amount = item[e].amount]_vars

\* "This proposal has already been invoiced": the guard of createInvoiceFromProposal lets a proposal
\* convert once, as the unique index does for contracts ("a proposal converts once").
OneInvoicePerProposal == \A p \in Proposals : Cardinality(MadeFrom(p)) <= 1
=============================================================================
