# Remit in TLA+

A verification project for Remit (`src/`): a self-hosted application in which a freelancer
keeps clients, proposals, contracts, time, invoices, payments and credit notes. The modules
model the parts of it where money can go wrong when requests, webhooks and background jobs
interleave; TLC checks them on small instances and TLAPS proves the main theorems for every
instance.

## 1. The system

One Next.js process serves requests (server actions, a REST and an MCP surface, the Stripe
webhook and the clients' public pages). A second process, the worker, runs BullMQ jobs off Redis, one
at a time (`src/lib/jobs/worker.ts`, `WORKER_CONCURRENCY = 1`), with five attempts per job and
exponential backoff (`src/lib/jobs/queue.ts`). Both write one PostgreSQL database through Drizzle, at READ
COMMITTED except for the retention purge and the erasure of a client (REPEATABLE READ). Nothing is coordinated in
memory: what keeps two requests apart is a row lock (`FOR UPDATE`), a conditional `UPDATE`, a
unique index, a check constraint, or, for backups, an advisory lock. Most handlers read a row
first, decide whether to go on, and write later, in a transaction of their own or a single
statement; the hazard that recurs in this code is a decision taken on what was read outside
the lock.

| Component | State | Operations | Interacts with | What is hard | What makes it correct |
|---|---|---|---|---|---|
| Payments and settlement (`features/payments`) | `payments`; `invoices.amount_paid_cents`, `status`, `paid_at` | record, Stripe delivery, mark paid, edit, soft delete, restore | every write locks the invoice and decides its settlement | races on one invoice; duplicate deliveries; amounts read before the lock | aggregate = sum of live payments; paid exactly when nothing is owed; an intent booked once |
| Invoices (`features/invoices`) | `invoices`, line items | create, convert, update, send, bill work onto a draft, adjust late fee, trash, restore | proposals and billable work create them; payments and notes settle them | draft checks that are not under a lock | an issued document is not rewritten |
| Late fees (`features/invoices/lateFees.ts`) | `late_fee_cents`, `total_cents` | price candidates, charge, adjust, waive | the overdue sweep; settlement | the price is older than the charge | charged once, to debt only, at the right price |
| Credit notes (`features/creditNotes`) | `credit_notes`, note numbers | create, soft delete, restore | resettle the invoice | invoice in the trash; lock order | a note moves what is owed, never the total |
| Sweeps, reminders, delivery (`features/invoices/jobs.ts`, `pdfRenderJob.ts`, `features/email`) | reminder claims, audit log, email log, PDF pointers | overdue sweep, reminder sweep, render, send | the queue, the mail provider, object storage | retries after partial failure; a render racing a fee | each mail once; the stored PDF shows the current document |
| Recurring invoices (`features/recurringInvoices`) | schedules, counters, time entries stamped as billed | sweep, generate, pause, resume, cancel, edit, trash | invoices, time tracking, queue | two workers, crashes, hours logged during the run | an occurrence billed once; billed hours = stamped hours |
| Job queue (`lib/jobs`) | jobs, attempts, retained ids | enqueue, run, retry, exhaust, remove | all background work | a deterministic id collapsing onto a finished job | due work is eventually run |
| Webhooks (`features/webhooks`) | deliveries, attempts, endpoint streak | enqueue, attempt, record, exhaust, prune, auto-disable | event bus, queue | redelivery racing an attempt; exhausted handler | an attempt recorded once; no delivery pending for ever |
| Proposals (`features/proposals`) | status, one-time codes | send, respond with a code, convert | invoices, mail | attempts, superseded codes, double conversion | answered once; invoiced once |
| Contracts (`features/contracts`) | status, signature, documents | send, sign, expire, render | PDF jobs, mail | two signatures; signature racing expiry | signed once, the signed document set once |
| Time and expenses (`features/timeTracking`, `features/expenses`) | entries, timers, `invoiced_in_id` | start, stop, edit, bill | invoices, schedules | timers running while billed | one timer per user; an entry billed once and frozen then |
| Trash, purge, storage (`features/trash`, `lib/storage`, `features/attachments`) | `deleted_at`, deletion queue | soft delete, restore, purge, drain | every table; S3 | restore racing a purge; crash between commit and object delete | no object deleted that a row still names; every released object goes in the end |
| Backups, restore, key rotation (`lib/backups`, `scripts/core`) | advisory lock, archives | back up, restore, rotate | the whole database | overlap of operator and sweep | one of them at a time |
| Rate limiting (`lib/rateLimit`) | window counters | count, trip | requests | Redis failing over to memory | at most the limit in a window |
| Team, setup, settings, data export, clients, projects, tasks, leads | their tables | CRUD, invitations, conversion | | few multi-step operations | |
| Authentication, API, UI, templates, reports, dashboard, health, i18n, scripts | sessions of a library, read models | | | | not modelled (section 8) |

## 2. Plan

| # | Module | Scope | Abstract spec, runs, theorems | State |
|---|---|---|---|---|
| 1 | `CentSums`, `InvoiceLedger` (+ proofs) | payments, notes, fees, issue and trash of an invoice, one action per transaction | one pass run; inductive invariant and seven theorems | done |
| 2 | `RecurringSchedule`, `RecurringGeneration` (+ proofs) | the schedule as one row; the queue, workers, crashes, stalls and retries under it | refinement; an occurrence billed once; liveness of a due schedule; five theorems | done |
| 3 | `WebhookDelivery` (+ proofs) | producer, attempts statement by statement, redelivery, exhaustion, streak, pruning, the owner's switches | two pass runs; liveness of a queued delivery; six theorems | done |
| 4 | `DocumentDelivery` (+ proofs) | PDF render, mail, reminder claim, both sweeps, a late fee clearing the pointer | one pass run, one violation; five theorems | done |
| 5 | `IssuedDocument`, `ProposalResponse`, `ContractSigning` (+ proofs) | drafts, links, one-time codes, answers, signatures, stored copies | two pass runs; both refine `IssuedDocument`; six theorems each | done |
| 6 | `BillableWork` (+ proofs) | time entries, expenses and proposals billed by conversions, retainers and edits; trash and purge of an invoice | one pass run, two violations; five theorems | done |
| 7 | `LedgerTransactions` | READ COMMITTED statements and row locks under the ledger's transactions; dates and numbers | refines `InvoiceLedger` (INSTANCE); deadlock freedom of the credit-note lock order | open |
| 8 | `RetentionPurge` (+ proofs) | the nightly purge and the erasure of a client beside the writers of rows and objects; the deletion queue | one pass run with liveness of the purge and of the queue; four theorems | done |
| 9 | `BackupLock` | advisory lock of backup, restore and rotation | mutual exclusion | open |
| 10 | `InvoiceArithmetic` | discount allocation, totals, fee rounding, next run date | against reference definitions over bounded inputs | open |

Recursion in a module with theorems is written with recursive functions or cardinalities, never
RECURSIVE operators, so that every state machine can be proved about. Each invariant is a
conjunction of named parts. Every safety and action property that a passing run checks is also a theorem
(section 5). The modules marked open are not written, so nothing is claimed of them; in particular the lock
that makes each action of `InvoiceLedger` one step is argued for in section 3, not proved.

## 3. How the modules correspond to the code

### `InvoiceLedger`

State. `invoice`, `payment` and `note` are the three tables. An invoice row keeps the columns that
the ledger decides by: `status`, `total`, `lateFee` (`Null` until charged), `amountPaid`, whether
`paid_at` is set, whether `deleted_at` is set. Status `"none"` is a row not inserted yet; a payment or a
note not inserted has invoice `Null`. Dates, numbers, lines, currencies, audit rows and events
are left out; totals and amounts are naturals, and lines are abstracted to their total.

Atomicity. An action is one transaction, or one conditional `UPDATE`. This is justified by the
lock: `lockInvoice` takes `FOR UPDATE` on the live invoice before anything is summed
(`src/features/payments/paymentWrites.ts:385`), every writer of payments, settled notes and adjusted fees goes through it, and
under READ COMMITTED a sum taken after the lock sees all that committed before. What a request
reads *before* it holds the lock is a separate action, and what it read stays in a variable:

| Variable | Read by | Used by | Source |
|---|---|---|---|
| `crediting` | `ReadCreditedInvoice` | `CreateCreditNote` | `creditNotes/mutations.ts:50-61`, then `:70-97` |
| `restoringNote` | `ReadDeletedCreditNote` | `RestoreCreditNote` | `creditNotes/mutations.ts:141-162`, then `:164-174` |
| `restoring` | `ReadDeletedPayment` | `RestorePayment` | `paymentWrites.ts:224-240`, then `:242-268` |
| `assessed` | `AssessLateFee` | `ChargeLateFee` | `lateFees.ts:43-47`, then `:96-116` |
| `appending` | `ReadBillingTarget` | `AppendToBillingInvoice` | `billing.ts:259-290`, then `:344-353` |

A use does not consume what was read, because any number of requests may have read it; only the
sweep, of which there is one, consumes its price. A request that dies is one that never takes
its second step, so crashes need no action of their own.

`uncommitted` is the one transaction that is not atomic: a credit note whose invoice is in the trash.
`resettleInvoiceWrite` then finds nothing to lock, returns, and the transaction commits later
(`CommitUnsettledNote`) or not at all (`RollBackNote`). While a note is being inserted
its foreign key holds a key-share lock on the invoice, which `FOR UPDATE` waits for (`KeyShared`,
`Lockable`), and the settings row that `claimCreditNoteNumber` locks lets one insertion at a time go on.

`staleNotes`, `miscounted` and `rewritten` are history variables: no action reads them, they name the
invoices that met one of the hazards of section 6, so that the other invariants can be
stated exactly instead of being given up.

Guards come from the code's rejections (`not_found`, `invoice_not_issued`, `overpaid`,
`duplicate`), its conditional `UPDATE`s and its check constraints: a transaction that
would break `chk_invoices_amount_paid` or `chk_invoices_totals` aborts, so its action is not enabled.

`CentSums` gives the SQL `sum(amount_cents)` as the cardinality of a set of pairs <row, cent>, which
needs no recursion and lets its laws be proved from the library's theorems on finite sets.

### `RecurringSchedule` and `RecurringGeneration`

`RecurringSchedule` is the abstract specification: the row of `recurring_invoices`, the day, and the
invoices raised from each schedule, named by the occurrence they bill. A user's request is one action; a
run either closes the schedule (`Complete`) or raises the invoice of the occurrence the schedule
stands at and moves it on (`Generate`), in one step.

`RecurringGeneration` implements it with the same three variables and those of the queue:

| Variable | In the code |
|---|---|
| `job` | BullMQ's record under the id `recurring.invoice.generate.<schedule>.<occurrence>` (`recurringInvoices/jobs.ts:43-47`): state, owner, attempts made, stalled once, days since it finished |
| `worker` | where `generateRecurringInvoice` stands: taken, inside its transaction with the row it locked, or past the commit and about to announce |
| `swept` | the 02:00 job of `schedules.ts:34` has run today |
| `announced` | the invoices whose render and mail were enqueued |
| `editing` | an `updateRecurringInvoice` that has passed its status check (`mutations.ts:98-104`) and not yet written |
| `edits`, `faults` | history: bounds (an edit counts against both), and the premise of the properties about unedited schedules |

The transaction is two steps, `LockSchedule` (lines 71-96) and `CommitGeneration` (127-192), so that another
worker, a request, a crash or a stall can come between them; while it is open, requests on that row and other
transactions wait for the `FOR UPDATE` lock (`Locked`). Selections without a lock (the sweep, the read of
`updateRecurringInvoice`) do not wait. `SkipRun` and `CompleteRun` write at most one column and are one step.

The queue is modelled from how `lib/jobs` uses BullMQ (external): an id that is still known, finished or
not, is not added again; a worker whose lock ran out goes on running while its job is given to another one,
and its own result is then ignored (`Left`); a job that stalls twice fails; finished jobs are dropped some
time after `removeOnComplete.age` or `removeOnFail.age`. A worker runs one job at a time
(`WORKER_CONCURRENCY`); two workers are the old and the new process of a deploy, or a worker and
the one that replaced it when it was believed dead.

Left out: what the invoice says, and with it the blueprint (the forms require a line, so the branch that
skips an empty one is not taken), the retainer's hours (`BillableWork`), the calendar (a period is
`Cadence` days; `computeNextRunDate` is planned in `InvoiceArithmetic`), the parents in the trash that
block a restore, and the backoff between attempts.

### `WebhookDelivery`

| Variable | In the code |
|---|---|
| `endpoint` | the rows of `webhook_endpoints`: on, off and why, failure streak, deleted |
| `delivery` | the rows of `webhook_deliveries`: status, attempt count, the outcomes logged, and an age in three classes (fresh; stranded, over a day; expired, over the retention) |
| `job` | BullMQ's record under `webhook-delivery-<id>`: state, owner, attempts made, stalled once |
| `actor` | where `sendWebhookDelivery` stands in each worker, and `settleExhaustedWebhookDelivery` for each delivery, with what it has read: the attempt count, whether the endpoint was on, the ages at `attemptedAt` |
| `selected`, `unqueued` | an `enqueueWebhookEvent` between its select and its insert, and between its insert and each enqueue |
| `counted` | history: how often a delivery extended a streak |
| `failures`, `crashes`, `losses` | history: how much went wrong |

Every SQL statement is an action: `LoadDelivery`, then the request (`AttemptDelivery`: an inactive endpoint is not
called, any other call ends in any outcome), the conditional update (`RecordAttempt`, or `RecordTooLate` when it
touches no row), the two statements of `settleEndpoint` (`ExtendStreak`, `DisableEndpoint`) or the one of a success
(`ClearStreak`), and the two of `pruneDeliveries` (`FailStranded`, `TrimHistory`). Between any two a worker may fail
(`FailAttempt`: the database cannot be reached), die (`Crash`), or have its job taken by BullMQ and go on
(`Stall`); a worker that no longer owns its job moves it no more (`Leave`). A job whose last attempt fails starts its
handler (`FailJob`), which runs beside everything else and is not repeated when it fails (`LoseHandler`). BullMQ is external: a
job that stalls twice fails, and whether that counts as its last attempt and starts the handler is left open
when only one attempt was left.

Left out: the payload, the signature and the address checks (they end in an outcome), the secret and its
rotation, event subscriptions (any selection of endpoints that are on), the backoff (any delay), audit rows.

### `DocumentDelivery`

| Variable | In the code |
|---|---|
| `invoice` | status, whether its late fee is charged, `pdf_upload_id` (as the total the PDF states), `reminded_at` (the day), trash, and whether the client can be reached; `total` counts the changes of the total |
| `queue`, `finished` | BullMQ's waiting jobs, with attempts and whether they stalled; the ids of finished jobs it still remembers |
| `worker` | the job a worker runs, where it stands in its handler and what it has read |
| `announced`, `mailed` | the audit entries the sweep and `sendDocumentEmail` look for |
| `heard`, `accepted`, `nudged`, `bare` | the outside world: subscribers told, mails the provider took, reminders by day of claim, mails without an attachment; `unread` are the mails whose stored PDF object storage did not hand out |
| `overtaken`, `resent`, `forsaken` | history: exemptions, named where a property makes them |

`resent` names what was doubled: a mail or a reminder whose worker was lost between the provider's yes and the record
of it, or that had its job taken, and, as `<<i, Null>>`, an invoice that two sweeps had before them, unannounced, at the
same time (`Unannounced`).

Every statement of `renderInvoicePdf`, `sendInvoiceEmail`, `sendInvoiceReminder`, `sendDocumentEmail`, the overdue sweep
and the reminder sweep is an action, and so is a call to the provider, which may take a mail and time out. `FailAttempt`,
`Crash` and `Stall` come between any two. A mail that has a PDF loads it first (`LoadAttachment`); when object storage does
not hand it out it goes without, rather than not at all (`email/documentEmail.ts:176-178`). A render has no job id, a mail and a reminder have one (`Render`, `KnownIds`).
`SendInvoice`, `SettleInvoice`, `AdjustLateFee` and `EditInvoice` (trash, restore, link withdrawn) are the web process.

Left out: prices, `email_logs`, wording, an unconfigured provider, the other kinds of document (their jobs are built
alike). The two reads of a sweep are one step; finished jobs are forgotten when the day changes.

### `IssuedDocument`, `ProposalResponse` and `ContractSigning`

`IssuedDocument` is what both documents promise the client: a draft is rewritten freely, what is issued says the same
for ever, it is answered once, and the answer stands on one piece of evidence. A proposal's evidence is the
code it spent, a contract's is its signature. `ProposalResponse` and `ContractSigning` map their rows to it
(`ImplementsIssuedDocument`); `face` is what the row itself says: the text, whether there is any, the dates. What a render
merges in from other rows, and the status, are not part of it.

`ProposalResponse`: `proposal` and `code` are rows (codes are numbered by `created_at`), `request` is where a request of
the client or the owner stands and what it has read, `told` and `mailed` are the audit log and the provider. Issuing a
code is two statements of a transaction, `Supersede` and `IssueCode`; what the first will invalidate is fixed when
it begins, as under READ COMMITTED, and those codes stay locked until the second (`Locked`). Then the mail
(`DeliverCode`), and a failed one's withdrawal. A verification reads (`FindCode`), writes code and proposal in
one transaction (`RecordResponse`), and audits; a wrong code writes the count it has read
(`CountFailedAttempt`). A request may die between any two (`Die`). Left out: the web rate limit; a respondent whose
address does not match (nothing is sent); the render and mail jobs of the proposal; duplication. The reads of the
target and of the last code are one step. The end of the window is asked for in the read, and not again in the write.

`ContractSigning`: `contract` and `signature` are rows, `request`, `queue` and `worker` as above, `mails` the mails chained
behind the as-sent copy. `details` counts the revisions of what a contract's document says and its row does not: the client,
the business and the page settings, which are taken to be read in one step. It is the clock of the model, too: `issued_at` and
`signed_at` are the count at that moment. `ReadDraft` / `SendContract` and `ReadSigningTarget` / `RecordSignature` are the
reads and the writes that follow them; `QueueContractPdf` and `QueueSignedPdf` the enqueues after the commit. A render reads
its pointer, reads the row for its text and status (`BuildDocument`), merges in the details of the moment
(`MergeDetails`), and links what it stored if the pointer is still NULL; a stored copy is told apart by its worker, its text,
its status and its details. Of a blank contract, as of one in the trash, there is no document: the job ends, without a
PDF, a mail or another try. `expired` is derived, never stored. Left out: audit
entries and events, numbers and address details, the steps of the mail job, duplication, and
`createContractFromProposal`, which the unique index `contracts_proposal_id_unique_idx` makes single.

### `BillableWork`

`item` is the rows of `time_entries` and `expenses` (state, amount, trash, `invoiced_in_id`), `invoice` the
invoices with what each charges for each item and the proposal it was made from, `request` what a handler has read
and not yet written: a stop, an edit or a deletion, a confirmed plan, a retainer's sum, a conversion of a proposal.

| Read | Write | Source |
|---|---|---|
| `ReadItem` | `StopTimer`, `UpdateTimeEntry`, `UpdateExpense`, `SoftDeleteTimeEntry`, `SoftDeleteExpense` | `timeTracking/mutations.ts:268-306`, `expenses/mutations.ts` |
| `ConfirmPlan` | `CommitBilling` (invoice, lines, stamps, all or none) | `invoices/billing.ts:151-392` |
| `SumRetainer` | `CommitRetainer` | `recurringInvoices/jobs.ts:120-182`, `:248-278` |
| `ReadProposal` | `InvoiceProposal` | `invoices/conversion.ts:48-137` |

The writes of a transaction are one step: the rows it has written stay locked until it commits, and `stampBilled` counts
what it could stamp (`CountMatches`), so a plan of which part is gone rolls back as a whole. One user, one
project and one schedule: the timer's index is per user, a retainer sums one project. Restores and `updateInvoice` are one
step. Left out: two retainers on one project, the purge of the entries themselves, receipts, rates.

### `RetentionPurge`

A row can be deleted in a transaction and its object cannot. Writers therefore store the object before its row, and an
erasure deletes rows and queues objects in one transaction, which a drain deletes afterwards.

| Variable | In the code |
|---|---|
| `record`, `signed` | one row each of `clients`, `invoices`, `contracts` and `templates`: live, in the trash, due (past its window), gone; and the uploads it names (attachments, `pdf_upload_id`, image blocks) |
| `uploads`, `store` | the rows of `uploads`, and the objects in the buckets; `Files` are both, since a key is never used twice |
| `untried`, `tried` | the rows of `object_deletions`, without and with a `last_attempt_at`, the latter in its order |
| `process` | where a handler stands, with what it has read: an erasure its snapshot and the rows it deletes, a drain the keys it has still to try, a form the file its blocks name |
| `written` | what has been written since the snapshot of each open erasure |
| `stranded`, `unguarded` | history: exemptions, named where `FilesMatchRows` makes them |
| `faults` | bound |

| Steps | Source |
|---|---|
| `BeginPurge`, `CommitErasure`, `AbortErasure` | `trash/purge.ts:122-181`, `:186-265` |
| `BeginForget` and the same two | `clients/forget.ts:60-221`, `forgetMutations.ts:51-70` |
| `Released` | `objectDeletions.ts:70-175`, `objectOwnership.ts:14-21` |
| `BeginSweep`, `DeleteObject`, `Dequeue`, `RecordFailure` | `objectDeletions.ts:187-291` |
| `StartRender`, `PutObject`, `RecordUpload`, `LinkPdf` | `invoices/pdfRenderJob.ts:28-90`, `storeDocumentPdf.ts:35-58` |
| `StartAttach`, `InsertAttachment`; `StartRemove`, `RemoveRow`, `DropObject` | `attachments/mutations.ts:44-180` |
| `UploadImage` or `OpenForm`, `CheckImages`, `SaveBlocks` | `templates/mutations.ts:113-159`, `:319-353`, `:493-508`; `contracts/mutations.ts:71-111`, `:222-268` |

PostgreSQL is external: a transaction at repeatable read reads one snapshot, and is rolled back if it would delete a row that
was written since, or that a new row refers to (`Conflicts`, from `written`). An attachment another process deleted meanwhile
is still in the snapshot, so its upload is not released twice. An erasure is two steps, its snapshot and its commit, with
whatever order of other steps between. `WindowPasses` waits until no handler is under way, because a window is a day at
least; forms stay open for as long as they like. The order of keys no drain has tried is left open
(`created_at` is the same for all keys of an erasure).

Left out: the other tables of the purge, credit notes and projects among them; the expiry of exports; avatars, logos, receipts and
client images; batches of 500; a purge of one item by the owner, who has none but `forgetClient`.

## 4. Runs

The runs of the ledger use `MCInvoiceLedger`: one invoice, two payment rows, one credit note, one Stripe intent of
one cent, totals 0 and 2, amounts 1 and 2, a late fee of 50 %, and an owner who may waive it (adjust it to 0).

| Run | Expect | What it shows |
|---|---|---|
| `ledger` | pass | `TypeOK`, `AggregateIsSumOfPayments`, `PaidExactlyWhenSettled`, `MoneyOnlyOnIssued`, `IntentBookedOnce`, `FaceValueFixed` and `FeeOnlyOnDebt` hold over about 1.5 million states; there is no deadlock |

Why these bounds are enough. Invoices interact in nothing the properties mention (each transaction
locks one invoice; a payment's and a note's invoice never changes), so one suffices. Two
payment rows are the least that make a sum, an overpayment by the second, and a Stripe row beside a
manual one; one note beside them makes "credited and then paid". Total 2 with amounts 1 and 2
reaches partly paid, exactly paid and refused; total 0 is the free invoice that must not read
as paid. The fee is 1 (50 % of 2), below its cap of 5, and an
adjustment to 0 waives it. No counter needs a cap: rows and amounts
are finite and a fee is charged once, so the state space is finite as it stands.

No fairness is assumed in the ledger: no handler promises to happen.

Each property has a mutant, an operator named beside the definition it changes, under which
TLC finds it violated: an update that forgets the draft condition, a payment on a draft, a
duplicate check that skips deleted rows, an edit that counts the old amount too, a settlement
decided before the note is written, a charge that does not ask whether the invoice has been
paid, and an adjustment with neither overpayment check nor constraint.

The runs of the recurring invoices use `MCRecurringGeneration`: one schedule, two workers, days 0 and 1 and
whatever comes after, a period of one day, schedules that end after two occurrences, by a date or never, two
attempts, retained for one day (completed) or two (failed).

| Run | Expect | What it shows |
|---|---|---|
| `generation` | pass | with two faults anywhere, one of which may be an edit: `TypeOK`, `NoOccurrenceLostOrRepeated`, `EndsWithLastOccurrence`, `ImplementsSchedule`, and under fairness `DueIsSettled` (273,000 states) |

Why these bounds are enough. A job names one schedule and its transaction locks one row, so schedules
do not interact. Two workers are the least that race. With a period of one day and days 0 and 1, a
schedule can be late by one occurrence, meet its end after two, and fall off the end of the calendar. Two faults
with two attempts exhaust a job; a stall of a job that has stalled needs two as well. One edit is what a stale edit
needs, and a fault beside it leaves its job to a retry. The calendar ends at its last day: after it the days go on, sweeps run and jobs age, but `today` stays, so
`DueIsSettled` is not met by running out of days.

Fairness (`FairSpec`), used by `DueIsSettled` only: the days pass; the repeatable job
fires each day (`registerRepeatableJobs` runs at every start of the worker); BullMQ drops finished jobs past
their age and finds the jobs of dead workers; a worker that runs gets on with its work. All weak: each stays
enabled until taken. Requests, failures, crashes and stalls of living workers are not fair, and at
most `MaxFaults` of the last three happen, because no queue bills anything if every attempt fails.

The runs of the webhooks use `MCWebhookDelivery`: one endpoint, two workers, two attempts.

| Run | Expect | What it shows |
|---|---|---|
| `webhooks` | pass | one delivery, with two failures, one crash and one loss anywhere: `TypeOK`, `LogTellsTheStory`, `CountedOnce`, `EndsOnce`, and under fairness `DeliveryEnds` (230,000 states) |
| `webhook_streak` | pass | two deliveries, one failure, off after two: `StreakOfDistinctDeliveries` (1.3 million states up to symmetry) |

Why these bounds are enough. Deliveries meet only in their endpoint's streak and in `pruneDeliveries`: the races of one
delivery (two workers and its handler) need one, the streak needs two. Two attempts make a retry and
a last attempt. A failure with a crash, a stall or a lost handler covers each pair of faults the code could
confuse; two failures are what it takes to exhaust a job before it records anything. Workers and
deliveries are interchangeable, and no property tells them apart, so the invariant run uses symmetry; the
temporal ones do not. Deadlock is not checked: once the endpoint is deleted and the jobs are done nothing happens.

Fairness, used by `DeliveryEnds` only: weak, for a producer that has inserted, a worker and a handler that have
begun, waiting jobs (BullMQ hands them out), jobs of dead workers (BullMQ's check) and the passing of time.
Nothing obliges the owner, an event or a fault. `DeliveryEnds` promises nothing once something was lost (a job
taken from a live worker, an enqueue, a handler), and there is one crash, because more is not survived: BullMQ
fails a job that stalls twice without calling its handler. What is left pending then waits for `pruneDeliveries`,
which runs when another delivery ends.

The runs of the invoice's delivery use `MCDocumentDelivery`: one invoice due on day 0, a reminder on day 1, two attempts.

| Run | Expect | What it shows |
|---|---|---|
| `delivery` | pass | two workers, a total that changes twice, one request of the owner after the send and one fault anywhere, without a provider that recognises repeats: `TypeOK`, `NothingSentTwice`, `MailCarriesPdf`, `NothingForgotten` (3.0 million states up to symmetry) |
| `reminder_lost` | violation of `ReminderSurvivesFailure` | section 6, first finding: one worker, one fault, a provider that recognises repeats |

Why these bounds are enough. Jobs of two invoices share nothing but the sweeps, which take invoices one by one. Two workers
race on one document; two changes of the total are a fee and an adjustment during one render; one fault
is each single failure at each place, an object that cannot be read among them. The second attempt is the retry every exemption is about. Deadlock is not
checked: with the days over and the queue empty, nothing happens. Fairness, used by `reminder_lost` only: weak, for the steps of
a worker and the taking of jobs; faults, the owner and the days are not fair.

The runs of the documents use `MCProposalResponse` and `MCContractSigning`: one document, two requests, days 0 and 1.

| Run | Expect | What it shows |
|---|---|---|
| `proposals` | pass | two codes, two tries, one edit and one fault: `TypeOK`, `SpentExactlyWhenAnswered`, `OneLiveCode`, `IssuedAsEdited`, `ImplementsIssuedDocument` (1.6 million states up to symmetry) |
| `contracts` | pass | two signatures, two workers, two attempts, two edits or revisions and two faults: `TypeOK`, `CopyStatesTheContract`, `CopyIsNotForgotten`, `CopyIsKept`, `ImplementsIssuedDocument` (3.8 million states up to symmetry) |

Why these bounds are enough. No step looks at two documents. Two requests are two answers, an answer and a new code, a
send and an edit, or two sends; a third would repeat one of them. Two codes make one supersede the other, and
let a failed attempt meet both; two tries make a failure and the last. An offer that ends on day 0 has lapsed on day 1, one without
a date never lapses. The edit of a proposal is the one that falls between read and write. For a contract, the two edits are any of an edit between
read and write, a termination or a revision between signature and render, a trip to the trash and a withdrawn link; two
faults exhaust a job, or kill a request and a worker. Its contract ends on day 0: on that day it is as one without a last day, and
on day 1 it has lapsed. Rows, workers, requests and
the two answers are interchangeable; the refinement is a safety property, which symmetry does not weaken. No fairness:
clients owe no answer. Deadlock is not checked, because every document may be closed and the edits used up.

The runs of billable work use `MCBillableWork`: one time entry, one expense, one accepted proposal, two invoices, two requests,
amounts 1 (logged) and 2 (amended), and three edits, trips to the trash or purges (four in the runs that expect a violation).

| Run | Expect | What it shows |
|---|---|---|
| `billing` | pass | `TypeOK`, `BilledOnce`, `StampedWhereCharged`, `BilledWorkIsFrozen` (946,000 states up to symmetry) |
| `frozen_hours` | violation of `InvoicedHoursStay` | section 6, second finding |
| `double_invoice` | violation of `OneInvoicePerProposal` | section 6, third finding |

Why these bounds are enough. A double billing needs one item and two invoices; a plan of which part is gone needs two
items. An entry and an expense are both kinds of item. Two requests race; with two amounts an edit can be told
from what was billed. Three edits are a trash, a restore and an edit, or a trash, a purge and an edit, in one run; the
theorems of section 5 have no such bound. No handler promises to happen, so no fairness.

The run of the purge uses `MCRetentionPurge`: one record of each kind, two files, one of which the store refuses to delete, one
worker and one request, a drain that stops at the first failure, and one fault or restore anywhere.

| Run | Expect | What it shows |
|---|---|---|
| `retention` | pass | `TypeOK`, `FilesMatchRows`, `PurgeTakesOnlyTheDue`, and under fairness `ReleasedInTheEnd` (396,000 states) |

Why these bounds are enough. What holds one record back from erasure is another that names it or its file; the four kinds are
the ways the code has to name one: a foreign key that cascades, one that is cleared, blocks without a key, and a document
that names its client. Two files are a refused one and one queued behind it, or one replaced by another. A worker and a
request are the least that race, and the largest pair the code has: jobs run one at a time, and one owner erases or
edits. A limit of one failure in a row is the hardest on the keys behind. One fault is each single death, failure or
restore at each place. Deadlock is not checked: with everything gone nothing happens.

Fairness, used by `ReleasedInTheEnd` only: weak, for a handler that has begun; strong, for the purge and the sweep, because the
worker may be busy with other jobs when they are due, and BullMQ takes waiting jobs in the order in which they came, so that
each has its turn. Owners, forms, renders and faults are not fair. Restores count as faults: an owner who
restores something whenever a purge runs makes every purge fail.

## 5. What is proved

`InvoiceLedgerProofs` (TLAPS: Z3, Zenon, LS4), for any finite sets of payments and notes, any
invoices, any intents, amounts and policy that meet the four named assumptions of `InvoiceLedger`
(finite tables; natural amounts, positive where a constraint says so; an intent has an invoice and a
positive amount; `Null` is none of the values):

| Theorem | States |
|---|---|
| `LedgerInvariant` | `Spec => []IInv` |
| `TypeCorrect` | `Spec => []TypeOK` |
| `AggregateCorrect` | `Spec => []AggregateIsSumOfPayments` |
| `SettlementCorrect` | `Spec => []PaidExactlyWhenSettled` |
| `NoMoneyOnDrafts` | `Spec => []MoneyOnlyOnIssued` |
| `FaceValueCorrect` | `Spec => FaceValueFixed` |
| `LateFeeCorrect` | `Spec => FeeOnlyOnDebt` |
| `IntentCorrect` | `Spec => []IntentBookedOnce` |

`IInv` is the conjunction of the checked invariants that need each other and of four parts
that make them inductive: `UnissuedIsBlank` (an invoice not issued has received nothing, is not paid
and carries no fee, so that sending it preserves the settlement), `PaidWithinTotal` (the
aggregate never exceeds the total, `chk_invoices_amount_paid`, so that a settled
invoice cannot overpay), `PricedOnSomething` (a price waiting to be charged is positive, so that
charging it to an unpaid invoice leaves it unpaid), and `UncommittedOwned` (an uncommitted note has an
invoice). The argument is the usual one: `Init => IInv`, one lemma per action for
`IInv /\ [Next]_vars => IInv'`, and PTL. What a sum does when one row is added, removed or
changed is proved once, at the head of the module, from `FiniteSetTheorems` and cited by name.
`IntentBookedOnce` has an induction of its own. TLC checked `IInv` as an invariant before it was proved.

`RecurringGenerationProofs`, for any schedules, workers, days, end counts, period and bounds that meet the two
assumptions of `RecurringGeneration` (days and counts are naturals, the period and the attempts are positive, `Null`
is neither a number nor a worker):

| Theorem | States |
|---|---|
| `TypeCorrect` | `Spec => []TypeOK` |
| `CounterIsExact` | `Spec => []CounterCountsInvoices` |
| `OccurrencesAreExact` | `Spec => []NoOccurrenceLostOrRepeated` |
| `ClosesOnTime` | `Spec => []EndsWithLastOccurrence` |
| `Implementation` | `Spec => ImplementsSchedule`, that is `Rows!Spec` |

The inductive invariant has three parts. `TypeInv` adds to the types that an owned job is active, so
that an attempt is only counted on a job that had one left, and that a busy worker holds a job it took no later than
today. `LockInv` is the argument: the row a writing worker has read is the row in the table
(`WriterHasTheRow`), because every action that changes a row asks that nobody writes it, and the lock has one
holder (`OneWriter`). From it follows `CommitAdvances`: what a commit writes is the row advanced from its current
value, which makes the commit a `Generate` of the abstract schedule and every other step one of its
steps or a stutter. `RowInv` relates a row to its invoices and is preserved by the four operations on a
row alone (`CreatedAgrees`, `AdvancedAgrees`, `RetainedAgrees`, and an edit, which only the counter survives).

`CounterIsExact` has no run of its own: the counter is a term of the other two, and the theorem covers edits too.

`WebhookDeliveryProofs`, for any endpoints, workers, bounds and finite set of deliveries that meet `WebhookAssumption`
(attempts and threshold are positive, `Null` names nothing):

| Theorem | States |
|---|---|
| `Inductive` | `Spec => []IInv` |
| `TypeCorrect` | `Spec => []TypeOK` |
| `LogIsTrue` | `Spec => []LogTellsTheStory` |
| `CountsOnce` | `Spec => []CountedOnce` |
| `StreakOfDistinct` | `Spec => []StreakOfDistinctDeliveries` |
| `EndedStays` | `Spec => EndsOnce` |

The argument is who may still count an ended delivery. One conditional update ends a delivery; whoever made it is the
only actor that goes on to settle it (`OneSettles`), and nobody has counted it before (`Task`). The streak is then
bounded by a cardinality, that of the deliveries counted (`Streak`), which only grows. `Queued` says that a job still
to be tried has attempts left, without which the log could outgrow them.

`DocumentDeliveryProofs`, for any finite sets of invoices and workers, and any days, reminders and bounds that meet
`DeliveryAssumption`, with a provider that recognises repeats or one that does not:

| Theorem | States |
|---|---|
| `Inductive` | `Spec => []IInv` |
| `TypeCorrect` | `Spec => []TypeOK` |
| `NothingTwice` | `Spec => []NothingSentTwice` |
| `PdfGoesFirst` | `Spec => []MailCarriesPdf` |
| `NothingIsForgotten` | `Spec => []NothingForgotten` |

The invariant has six parts, each inductive once those before it hold. `BaseInv`: types, and which jobs a worker may
hold at each place. `StoredInv`: what is mailed was stored, or is `unread`, and a render links the total it has read unless that is
`overtaken`. `CarriedInv`: a mail waits in one place or is carried by one worker that owns it, unless `resent`; so what
was accepted is recorded, or about to be by the worker that sent it. `ClaimInv`: a day is claimed once, and sent for by
the worker that claimed it. `AnnounceInv`: an invoice is before one sweep, then announced by it, then heard of.
`WaitingInv`: the render and the mail of a sent invoice are queued, owned, done or `forsaken`. A finished mail was accepted
or given up, which is why an add that the queue ignores loses nothing. The proof of `AnnounceInv` found a hole in an
earlier version of the model, which excused a doubled announcement after a stall only: two days' sweeps overlap too.

`ProposalResponseProofs`, for any proposals, requests, answers, days and bounds that meet `ProposalAssumption`, and
`ContractSigningProofs`, for any contracts, signatures, requests, workers, days and bounds that meet
`ContractAssumption` (a day 0, ends among the days, a positive number of tries or attempts, `Null` names nothing):

| Theorem | States |
|---|---|
| `Inductive` (of each) | `Spec => []IInv` |
| `TypeCorrect` (of each) | `Spec => []TypeOK` |
| `Implementation` (of each) | `Spec => ImplementsIssuedDocument`, that is `Issued!Spec` |
| `SpentExactly` (proposals) | `Spec => []SpentExactlyWhenAnswered` |
| `OneCodeAlive` (proposals) | `Spec => []OneLiveCode` |
| `SentAsEdited` (proposals) | `Spec => []IssuedAsEdited` |
| `CopyIsTrue` (contracts) | `Spec => []CopyStatesTheContract` |
| `NoCopyForgotten` (contracts) | `Spec => []CopyIsNotForgotten` |
| `CopyKept` (contracts) | `Spec => CopyIsKept` |

For proposals the argument is what a request may rely on of what it has read (`Reads`): the proposal and the action of a
code never change, so a right answer spends a code of the proposal it answers (`SpentInv`); the codes a request is about
to supersede are locked, so they are unspent still, and all there are, when it inserts its own (`OutstandingInv`,
`SupersededInv`), which leaves one alive (`OneLive`); a draft carries the date last given to it, and so does what a send has
read (`DraftInv`). For contracts it is that nothing is rendered before the contract was sent, nor the executed copy before
it was signed (`Due`), wherever the job is: in the queue, at a worker (`Holds`) or with a request about to queue it
(`Reads`). What was sent keeps its text and only moves on in its status (`Kept`), it knows since when (`DatedRow`), and
the count of revisions only grows; so a render under way, and the copy it stores, states that text, a status the contract
has had and details of no earlier time (`Says`, `Since`, `RowsInv`). What is sent has something in it (`FilledInv`). Both refinements go step by step: the actions that change what is issued are each shown to be the step of
`IssuedDocument` they stand for (`...Implements`), and all others leave its variables alone.

`BillableWorkProofs`, for any disjoint sets of entries and expenses, any proposals, invoices, requests, amounts and bound
that meet `WorkAssumption`:

| Theorem | States |
|---|---|
| `Inductive` | `Spec => []IInv` |
| `TypeCorrect` | `Spec => []TypeOK` |
| `NothingBilledTwice` | `Spec => []BilledOnce` |
| `StampsAndLinesAgree` | `Spec => []StampedWhereCharged` |
| `BilledWorkStays` | `Spec => []BilledWorkIsFrozen` |

The argument is what a request may believe when it writes (`Believes`): what it read of an item still holds, or the item is in
`raced`, or, for a retainer's sum, in `pooled`; every action that writes an item must mark those that have read it
(`Marked`). `Row` then relates an item's stamp to the lines that charge for it, and `OneRun` (the schedule's row is
locked) keeps two sums apart.

`RetentionPurgeProofs`, for any finite set of files, any refused keys and images among them, any disjoint workers and
requests, and any bounds that meet `PurgeAssumption`:

| Theorem | States |
|---|---|
| `Inductive` | `Spec => []IInv` |
| `TypeCorrect` | `Spec => []TypeOK` |
| `FilesAgree` | `Spec => []FilesMatchRows` |
| `TakesOnlyTheDue` | `Spec => PurgeTakesOnlyTheDue` |

`FilesMatchRows` is not inductive: a drain that holds a key of a live upload, or an erasure whose snapshot is wrong about
who names a file, would break it at the next step. The invariant adds what each handler relies on. A file on its way in is known to
its handler alone, to no row, queue, drain or snapshot (`BringingInv`), so nothing can delete it before its row is there. What
a handler has in hand is in the state its next step needs (`Hands`): a drain's keys are no uploads, a removed
attachment's row is gone. Images are named by blocks only (`KindsInv`), so the removal of an attachment takes no name from them. An
open erasure (`ErasureInv`) sees every name in a row not written since, and in a client or an invoice whatever was added since
is a file it does not know (`Sees`); and those of its rows not written since are still what made it choose them (`Chose`).

Two lemmas carry the argument. `Frame` says what a step of one handler may change (`Leaves`) for the others' parts of the invariant to
survive, so that each action is proved about its own handler only. `ReleasedIsUnnamed` is why `selectReleasedUploadIds`
is right although it reads an old snapshot: a row that survives and names a released file is a block saved since. At
the commit `Chose`, with no conflict, is `TakesOnlyTheDue`.

Every inductive invariant was checked by TLC too, on instances like those of the runs. The assumptions are those
that the modules name; TLC evaluates them in every run.

Only model-checked: the three violations, because a counterexample is TLC's to give; deadlock freedom; and
`DueIsSettled`, `DeliveryEnds` and `ReleasedInTheEnd`, because liveness under fairness is beyond the prover.

## 6. What the source says and the code does not keep

1. *A reminder lost to one failure* (`reminder_lost`). `sendInvoiceReminder` claims the day before it sends. A provider that
   refuses the mail makes the job retry, the retry finds its own claim and returns, and the reminder
   of that offset is never sent, against `invoices/jobs.ts:130-131`.
2. *A stamped timer that runs on* (`frozen_hours`). A retainer's run stamps every unbilled entry of the project, a
   running timer among them, whose duration it counts as nothing; `stopTimer` asks only whether the timer
   still runs, and writes hours that no invoice has counted and none will, against `timeTracking/mutations.ts:279-280`.
3. *Two invoices of one proposal* (`double_invoice`). `createInvoiceFromProposal` looks for an invoice outside the
   transaction that inserts one, and no unique index stands behind it as it does for contracts, where it "is what makes
   `a proposal converts once` structural" (`database/schema/contracts.ts:63-66`). `conversion.ts:170-172` concedes that two
   conversions at once "are serialized by nothing at the database level today", and calls the guard of `:57-65`
   ("This proposal has already been invoiced", `lib/i18n/locales/en.tsx:2809`) what there is; convert, trash, convert,
   restore ends the same way with nothing at once, because a restore does not ask.

The passing properties carve out exactly these cases, and those below that disturb them, through history variables, and hold
everywhere else.

Read off the code while modelling it, and part of the models, but without a run of their own. The ledger:

- A credit note written, deleted or restored while its invoice is in the trash finds no row to lock, and `restoreInvoice`
  decides no settlement, so the restored invoice may be covered and open, or paid with money owed, against
  `paymentSettlement.ts:25-28` (`staleNotes`).
- `restorePaymentWrite` adds the amount it read before the lock (`paymentWrites.ts:224`, `:246`); another restore, an edit and a
  delete of the same payment in between leave `amount_paid_cents` off the sum until the next write sums afresh
  (`miscounted`).
- `appendToBillingInvoice` updates by id alone (`billing.ts:344`) after an unlocked draft check, so work may be appended
  to an invoice already sent, against `canTransitionInvoiceStatus.ts:9-12` (`rewritten`).
- `lateFees.ts:43` prices all candidates from one read, and `chargeLateFee` does not ask again what is outstanding, against
  `services/lateFee.ts:99-101`.

Delivery and documents:

- A total that changes during a render leaves the PDF of the old one stored: the pointer was cleared and is still NULL when
  the render links, and the next render finds it set (`overtaken`), against `lateFees.ts:92-94`.
- A mail whose fee has cleared the pointer meanwhile goes without its PDF, against `invoices/pdfRenderJob.ts:104-105`; SMTP has no
  idempotency key, so a crash between the provider's yes and the audit entry sends the mail again (`resent`).
- A mail whose stored PDF object storage does not hand out goes without it, and is recorded as sent (`unread`), which
  `email/documentEmail.ts:176-178` says is meant.
- A contract's copies are rendered from the row, the client, the business and the page settings as they are then, so a contract
  terminated between signature and render gets an executed copy that calls it terminated, and a client renamed between send
  and render is named as now, where `database/schema/contracts.ts:33-37` calls the stored object the snapshot of what
  was sent; `contracts/publicDocument.ts:46-50` says as much of the page settings. `CopyStatesTheContract` says what does hold.
- An invoice or a contract in the trash while its render waits is never rendered or mailed, even when restored; a sweep that
  dies between a fee and its enqueue leaves no PDF; a signature whose enqueue is lost never gets its executed
  copy (`forsaken`).
- `markInvoicePaid` and Stripe queue no receipt, and one receipt goes per invoice, ever.
- Two sweeps at the same time, one whose job was given to another worker or a late one beside the next day's, each read an
  invoice before the other has announced it, and announce it twice (`resent`).
- Two codes issued at the same time both stay live (`overlapped`). A failed attempt writes the count it read and
  clears `invalidated_at`, so a superseded code comes back (`revived`).
- `sendProposal` and `sendInvoice` write dates read before an edit that committed in between (`overwritten`). `updateContract`
  may empty a contract between the read of its blocks in `sendContract` (`contracts/mutations.ts:317-326`) and its `UPDATE`,
  and so it is sent blank (`CopyStatesTheContract` exempts it). It is then never rendered nor mailed
  (`publicDocument.ts:56-58`, `contracts/pdfRenderJob.ts:43-54`), though it may be signed, and `CopyIsNotForgotten` owes it nothing.
- The audit entry `contract.signed_pdf_rendered` is written even when the conditional update touched no row, and the
  upload is then nobody's.

Billable work:

- `stampBilled` asks only that the rows are unstamped: an edit or a deletion between plan and stamp is billed as it was. The
  update and the deletion of an entry check `invoiced_in_id` in a read, not in their `UPDATE` (`raced`).
- A retainer's stamp is not counted against its sum: time added in between is stamped and never charged, time billed by
  a conversion in between is charged twice (`pooled`), where `ARCHITECTURE.md:162-165` says the two go the same way.
- `updateInvoice` replaces a draft's lines and keeps the stamps, so work taken off is billed by nobody (`dropped`).

Queue, schedules and webhooks:

- After a generation's commit nothing remembers that the announcement is owed; a crash, a failure there or a lost
  enqueue leaves an auto-sent invoice unrendered and unmailed, against `lib/jobs/queue.ts:7-10`.
- A worker whose job has been taken records a retry and throws to nobody; the worker that has the job finds the count
  moved and completes it, against `webhooks/delivery.ts:39`. The delivery waits for `pruneDeliveries` to fail it.
- The streak is extended and acted on in two statements, the second conditional on `active` alone, so an endpoint just turned
  on again may be switched off at a streak of zero, against `settings/webhooks/mutations.ts:155-156`.
- A retry after a crash bills the next occurrence of a late schedule, because `generateRecurringInvoice` never looks at
  its job's `occurrenceKey`, where `recurringInvoices/jobs.ts:68-69` says nothing is written. No invoice is
  wrong (`NoOccurrenceLostOrRepeated`): the comment is.
- The id of a finished job is kept for a day, or a week when it failed, and an add under it is ignored, so a schedule
  still due is not always enqueued at the next sweep, against `lib/jobs/enqueue.ts:20-21`. The delay ends
  (`DueIsSettled`).
- `updateRecurringInvoice` checks the status before its `UPDATE` and not in it, so a schedule cancelled in between is
  edited, against `recurringInvoices/mutations.ts:100-101`.
- A webhook's request goes out before the conditional update that `webhooks/delivery.ts:51-53` relies on, so a job given
  to a second worker posts again under the same attempt number. What is recorded and counted is still one
  (`LogTellsTheStory`, `CountedOnce`).
- The last delivery of an instance, its enqueue lost, is never failed as stranded, against
  `services/deliveryPolicy.ts:19-21`.

Files and erasures:

- Contracts are saved without a look at their images, and blocks have no foreign key: a contract saved while the last
  other record to name an image is being erased names an upload that is gone, against `forget.ts:46` and
  `database/schema/objectDeletions.ts:19-21` (`unguarded`). A template checks, but not in its `UPDATE`.
- A purge and an erasure at the same time each see the other's record name a file that both share, and neither releases it; the
  same holds for an attachment removed meanwhile whose own deletion fails (`stranded`).
- The PDF a late fee replaced, an image taken off a template, and a render that came too late leave an upload that
  nothing references; releases only look at what was referenced before (`objectOwnership.ts:11-13`), so it stays, also when its
  client is erased, where `forget.ts:46-50` says the files go too.
- `removeAttachment` deletes the object itself, once; a failure is logged and no queue remembers the key.
- `README.md:194` of the repository says that an erasure leaves stored files; since `object_deletions` it does not.

## 7. Hazards

`PROJECT.json` lists every hazard at its line with the properties that cover it; those without a
property are the work list of the plan above.

## 8. Not modelled, and why

Duplication of documents, document numbers and the dates of an invoice (planned in `LedgerTransactions`, or without a property).
Backups, key rotation, rate limiting and data export: modules of the plan not written yet. The other tables of
the purge, and the images and receipts that follow the same path as an attachment. Team, setup, projects, tasks, leads and
clients but for their erasure: tables with few rules between two of their rows.
User interface, rendering, reports, dashboard, health, activity log: presentation and read-only
queries. Authentication: sessions and tokens belong to a library. Scripts, migrations and
deployment: I/O. Currency: an invoice has one, and every amount is in it. Integer width: cents are
`bigint` read as JavaScript numbers, exact below 2^53; no sum the schema admits in practice comes near.
