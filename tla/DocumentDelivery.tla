--------------------------- MODULE DocumentDelivery ---------------------------
(***************************************************************************)
(* How an invoice reaches its client: the PDF rendered and stored, the     *)
(* mail chained behind it, the reminders, and the nightly sweep that       *)
(* announces an invoice as overdue and charges a late fee, which makes the *)
(* stored PDF out of date.                                                 *)
(*                                                                         *)
(* Each SQL statement of the worker's handlers is an action, as is each    *)
(* call to the mail provider; the web process changes invoices in between. *)
(* Amounts are left out: an invoice's total is the number of times it has  *)
(* changed, and a PDF is the total it states.                              *)
(***************************************************************************)
EXTENDS Integers, FiniteSets

CONSTANTS
  Invoices, Workers, Null,
  Days, DueDay,
  ReminderOn,    \* resolveDueReminder: the reminder due on a day, or Null
  Deduplicates,  \* whether the provider honours an idempotency key (Resend does, SMTP has none)
  MaxAttempts,   \* attempts of a job (queue.ts)
  MaxTotal,      \* bound: how often a total changes
  MaxEdits,      \* bound: requests of the owner after the invoice is sent
  MaxFaults      \* bound: attempts that fail, workers that die, jobs taken from a live worker,
                 \* lost enqueues, objects that cannot be read

Occasions == {"sent", "receipt"}
Reminders == {ReminderOn[d] : d \in Days} \ {Null}
Mails     == Invoices \X (Occasions \cup Reminders)

ASSUME DeliveryAssumption ==
  /\ Days \subseteq Nat /\ 0 \in Days /\ DueDay \in Int
  /\ DOMAIN ReminderOn = Days /\ Occasions \cap Reminders = {}
  /\ IsFiniteSet(Invoices) /\ IsFiniteSet(Workers) /\ Deduplicates \in BOOLEAN
  /\ {MaxAttempts, MaxTotal} \subseteq Nat \ {0} /\ {MaxEdits, MaxFaults} \subseteq Nat
  /\ Null \notin Invoices \cup Workers \cup Nat \cup Occasions

VARIABLES
  today,
  invoice,    \* the rows of invoices
  queue,      \* the jobs waiting in the queue
  finished,   \* the ids of finished jobs that BullMQ still remembers
  worker,     \* where each worker stands in its handler, and what it has read
  announced,  \* audit_log: the invoices announced as overdue
  mailed,     \* audit_log: the mails recorded as sent
  heard,      \* how often the subscribers were told that an invoice is overdue
  accepted,   \* how often the provider accepted each mail
  nudged,     \* how many reminders it accepted, by invoice and the day they were claimed for
  bare,       \* history: the mails that went without an attachment
  unread,     \* history: the mails whose stored PDF object storage did not hand out
  overtaken,  \* history: invoices whose total changed while a worker was rendering the old one
  resent,     \* history: mails whose worker was lost before it could record them, or doubled,
              \* and announcements that two sweeps had before them
  forsaken,   \* history: what a fault, a trash or a withdrawn link left undone
  edits, faults

log     == <<announced, mailed>>
outside == <<heard, accepted, nudged, bare, unread>>
history == <<overtaken, resent, forsaken>>
vars == <<today, invoice, queue, finished, worker, log, outside, history, edits, faults>>

\* total counts its own changes; pdf is the total the stored PDF states; reachable: the
\* client has an address and the public link is not revoked.
Invoice == [status : {"draft", "sent", "paid"}, total : 0..MaxTotal, charged : BOOLEAN,
            pdf : (0..MaxTotal) \cup {Null}, reminded : Days \cup {Null},
            trashed : BOOLEAN, reachable : BOOLEAN]
Draft   == [status |-> "draft", total |-> 0, charged |-> FALSE, pdf |-> Null,
            reminded |-> Null, trashed |-> FALSE, reachable |-> TRUE]

\* n tells apart the jobs added without an id of their own.
Job(kind, i, occ, n) ==
  [kind |-> kind, inv |-> i, occ |-> occ, n |-> n, tries |-> 0, stalled |-> FALSE]
Jobs == [kind : {"render", "mail", "remind", "overdueSweep", "reminderSweep"},
         inv : Invoices \cup {Null}, occ : Occasions \cup Reminders \cup {Null},
         n : Nat, tries : 0..MaxAttempts, stalled : BOOLEAN]
Id(j) == [j EXCEPT !.tries = 0, !.stalled = FALSE]

\* read: the total a render has read, or the PDF a mail attaches; on: the day of the claim;
\* inv, todo: the invoice a sweep is at, and those its loop has still to visit.
WorkerState == [pc : {"idle", "taken", "reading", "rendering", "chaining", "composing",
                      "attaching", "checking", "loading", "sending", "accepted", "announcing",
                      "emitting", "charging", "charged"},
                job : Jobs \cup {Null}, owner : BOOLEAN, read : (0..MaxTotal) \cup {Null},
                on : Days \cup {Null}, inv : Invoices \cup {Null}, todo : SUBSET Invoices]
Idle == [pc |-> "idle", job |-> Null, owner |-> FALSE, read |-> Null,
         on |-> Null, inv |-> Null, todo |-> {}]

Live(i)    == ~invoice[i].trashed
Overdue(i) == invoice[i].status = "sent" /\ Live(i) /\ today > DueDay

Of(w)         == <<worker[w].job.inv, worker[w].job.occ>>
At(w, k, pc)  == worker[w].pc = pc /\ worker[w].job.kind \in k
Goto(w, pc)   == worker' = [worker EXCEPT ![w].pc = pc]

-----------------------------------------------------------------------------
(* The queue. *)

\* An id that is waiting, running or remembered is not added again.
KnownIds == finished \cup {Id(j) : j \in queue}
            \cup {Id(worker[w].job) : w \in {v \in Workers : worker[v].owner}}

\* Mutant: renders have an id, so that one asked for during another is lost.
RenderById(i, occ) == Job("render", i, occ, 0)

\* A render is added without an id, so it is always a new job.
Render(i, occ) ==
  CHOOSE j \in {Job("render", i, occ, n) : n \in 0..Cardinality(KnownIds)} : j \notin KnownIds

\* enqueueJob: an enqueue that Redis refuses is logged and forgotten.
Enqueue(jobs) ==
  \/ /\ queue' = queue \cup {j \in jobs : j \notin KnownIds}
     /\ UNCHANGED <<forsaken, faults>>
  \/ /\ jobs # {} /\ faults < MaxFaults
     /\ faults' = faults + 1
     /\ forsaken' = forsaken \cup {<<j.inv, j.occ>> : j \in jobs}
     /\ UNCHANGED queue

\* BullMQ (external): a worker is handed a job.
TakeJob(w, j) ==
  /\ worker[w].pc = "idle"
  /\ queue' = queue \ {j}
  /\ worker' = [worker EXCEPT ![w] = [Idle EXCEPT !.pc = "taken", !.job = j, !.owner = TRUE]]
  /\ UNCHANGED <<today, invoice, finished, log, outside, history, edits, faults>>

\* The job ends, done or failed; the anonymous ones need not be remembered.
Ended(w) == IF worker[w].owner /\ worker[w].job.kind \in {"mail", "remind"}
              THEN finished \cup {Id(worker[w].job)} ELSE finished

\* The handler returns.
Return(w) ==
  /\ worker' = [worker EXCEPT ![w] = Idle]
  /\ finished' = Ended(w)

\* The handler returns with nothing done, and nothing left that would do it.
GiveUp(w) ==
  /\ Return(w)
  /\ forsaken' = forsaken \cup {Of(w)}
  /\ UNCHANGED <<today, invoice, queue, log, outside, overtaken, resent, edits, faults>>

\* What is left undone when a worker loses its place: a claimed reminder, an invoice charged
\* and not yet queued for a render.
Dropped(w) ==
  (IF worker[w].job.kind = "remind" /\ worker[w].pc \notin {"taken", "accepted"} THEN {Of(w)} ELSE {})
  \cup (IF worker[w].pc = "charged" THEN {<<worker[w].inv, Null>>} ELSE {})

\* The place is lost: the job waits for another run (next), or has none left ({}).
Lose(w, next) ==
  /\ worker[w].pc # "idle" /\ faults < MaxFaults
  /\ faults' = faults + 1
  /\ worker' = [worker EXCEPT ![w] = Idle]
  /\ IF worker[w].owner /\ next = {}
       THEN /\ finished' = Ended(w)
            /\ forsaken' = forsaken \cup Dropped(w) \cup {Of(w)}
            /\ UNCHANGED queue
       ELSE /\ queue' = IF worker[w].owner THEN queue \cup next ELSE queue
            /\ forsaken' = forsaken \cup Dropped(w)
            /\ UNCHANGED finished
  /\ resent' = IF worker[w].pc = "accepted" THEN resent \cup {Of(w)} ELSE resent
  /\ UNCHANGED <<today, invoice, log, outside, overtaken, edits>>

\* A statement, the renderer or the provider fails: the attempt counts.
FailAttempt(w) ==
  LET j == worker[w].job
  IN  Lose(w, IF j.tries + 1 < MaxAttempts THEN {[j EXCEPT !.tries = @ + 1]} ELSE {})

\* The worker dies; BullMQ finds its job stalled and lets it run again, once.
Crash(w) ==
  LET j == worker[w].job
  IN  Lose(w, IF j.stalled THEN {} ELSE {[j EXCEPT !.stalled = TRUE]})

\* The lock of a live worker's job runs out: the job is run again beside it.
Stall(w) ==
  LET j == worker[w].job
  IN  /\ worker[w].owner /\ ~j.stalled /\ faults < MaxFaults
      /\ faults' = faults + 1
      /\ worker' = [worker EXCEPT ![w].owner = FALSE]
      /\ queue' = queue \cup {[j EXCEPT !.stalled = TRUE]}
      /\ resent' = IF j.kind \in {"mail", "remind"} THEN resent \cup {Of(w)} ELSE resent
      /\ UNCHANGED <<today, invoice, finished, log, outside, overtaken, forsaken, edits>>

-----------------------------------------------------------------------------
(* renderInvoicePdf *)

\* An invoice that has its PDF still owes its mail.
ReadPointer(w) ==
  /\ At(w, {"render"}, "taken")
  /\ Goto(w, IF invoice[worker[w].job.inv].pdf = Null THEN "reading" ELSE "chaining")
  /\ UNCHANGED <<today, invoice, queue, finished, log, outside, history, edits, faults>>

\* Mutant: the mail is queued beside the render instead of behind it.
ReadDocumentMailing(w) ==
  LET j == worker[w].job
  IN  /\ At(w, {"render"}, "reading")
      /\ worker' = [worker EXCEPT ![w].pc = "rendering", ![w].read = invoice[j.inv].total]
      /\ Enqueue(IF j.occ = Null THEN {} ELSE {Job("mail", j.inv, j.occ, 0)})
      /\ UNCHANGED <<today, invoice, finished, log, outside, overtaken, resent, edits>>

\* buildInvoiceDocumentData: nothing is rendered of an invoice in the trash.
ReadDocument(w) ==
  LET i == worker[w].job.inv
  IN  /\ At(w, {"render"}, "reading")
      /\ IF Live(i)
           THEN /\ worker' = [worker EXCEPT ![w].pc = "rendering", ![w].read = invoice[i].total]
                /\ UNCHANGED <<today, invoice, queue, finished, log, outside, history, edits, faults>>
           ELSE GiveUp(w)

\* The object and its row are stored, and linked if the pointer is still null.
LinkPdf(w) ==
  /\ At(w, {"render"}, "rendering")
  /\ invoice' = [invoice EXCEPT ![worker[w].job.inv].pdf = IF @ = Null THEN worker[w].read ELSE @]
  /\ worker' = [worker EXCEPT ![w].pc = "chaining", ![w].read = Null]
  /\ UNCHANGED <<today, queue, finished, log, outside, history, edits, faults>>

\* enqueueInvoiceEmail.
ChainMail(w) ==
  LET j == worker[w].job
  IN  /\ At(w, {"render"}, "chaining")
      /\ Enqueue(IF j.occ = Null THEN {} ELSE {Job("mail", j.inv, j.occ, 0)})
      /\ Return(w)
      /\ UNCHANGED <<today, invoice, log, outside, overtaken, resent, edits>>

-----------------------------------------------------------------------------
(* sendInvoiceEmail, sendInvoiceReminder and sendDocumentEmail *)

\* Mutant: a claim made out to the next day.
ClaimedAhead(i) == [invoice EXCEPT ![i].reminded = today + 1]

\* Mutant: a claim that does not look at the last one.
ClaimableAgain(i) == invoice[i].status # "paid" /\ Live(i)

\* claimReminder: the conditional UPDATE that lets one reminder a day through.
Claimable(i) == invoice[i].status # "paid" /\ Live(i) /\ invoice[i].reminded # today
Claimed(i)   == [invoice EXCEPT ![i].reminded = today]

ClaimReminder(w) ==
  LET i == worker[w].job.inv
  IN  /\ At(w, {"remind"}, "taken")
      /\ IF Claimable(i)
           THEN /\ invoice' = Claimed(i)
                /\ worker' = [worker EXCEPT ![w].pc = "composing", ![w].on = today]
                /\ UNCHANGED finished
           ELSE Return(w) /\ UNCHANGED invoice
      /\ UNCHANGED <<today, queue, log, outside, history, edits, faults>>

StartMail(w) ==
  /\ At(w, {"mail"}, "taken")
  /\ Goto(w, "composing")
  /\ UNCHANGED <<today, invoice, queue, finished, log, outside, history, edits, faults>>

\* An invoice in the trash, without a link or without an address is not mailed about.
ComposeMail(w) ==
  LET i == worker[w].job.inv
  IN  /\ At(w, {"mail", "remind"}, "composing")
      /\ IF Live(i) /\ invoice[i].reachable
           THEN /\ Goto(w, "attaching")
                /\ UNCHANGED <<today, invoice, queue, finished, log, outside, history, edits, faults>>
           ELSE GiveUp(w)

\* getInvoicePdfAttachment.
AttachPdf(w) ==
  LET i == worker[w].job.inv
  IN  /\ At(w, {"mail", "remind"}, "attaching")
      /\ worker' = [worker EXCEPT ![w].pc = "checking",
                                  ![w].read = IF Live(i) THEN invoice[i].pdf ELSE Null]
      /\ forsaken' = IF Live(i) THEN forsaken ELSE forsaken \cup {Of(w)}
      /\ UNCHANGED <<today, invoice, queue, finished, log, outside, overtaken, resent, edits, faults>>

\* hasAlreadySent.
CheckSent(w) ==
  /\ At(w, {"mail", "remind"}, "checking")
  /\ IF Of(w) \in mailed THEN Return(w) ELSE Goto(w, "loading") /\ UNCHANGED finished
  /\ UNCHANGED <<today, invoice, queue, log, outside, history, edits, faults>>

\* loadAttachment: a stored PDF that cannot be read is left out of the mail, not waited for.
LoadAttachment(w) ==
  /\ At(w, {"mail", "remind"}, "loading")
  /\ \/ Goto(w, "sending") /\ UNCHANGED <<unread, faults>>
     \/ /\ worker[w].read # Null /\ faults < MaxFaults
        /\ faults' = faults + 1
        /\ worker' = [worker EXCEPT ![w].pc = "sending", ![w].read = Null]
        /\ unread' = unread \cup {Of(w)}
  /\ UNCHANGED <<today, invoice, queue, finished, log, heard, accepted, nudged, bare, history, edits>>

\* The provider accepts the message; its refusal is a FailAttempt here, and a timeout of what it
\* has accepted a FailAttempt after this step.
Deliver(w) ==
  LET m == Of(w)
      again == Deduplicates /\ accepted[m] > 0
  IN  /\ At(w, {"mail", "remind"}, "sending")
      /\ Goto(w, "accepted")
      /\ accepted' = [accepted EXCEPT ![m] = IF again THEN @ ELSE @ + 1]
      /\ nudged' = IF worker[w].on = Null \/ again THEN nudged
                     ELSE [nudged EXCEPT ![<<m[1], worker[w].on>>] = @ + 1]
      /\ bare' = IF worker[w].read = Null THEN bare \cup {m} ELSE bare
      /\ UNCHANGED <<today, invoice, queue, finished, log, heard, unread, history, edits, faults>>

RecordSent(w) ==
  /\ At(w, {"mail", "remind"}, "accepted")
  /\ mailed' = mailed \cup {Of(w)}
  /\ Return(w)
  /\ UNCHANGED <<today, invoice, queue, announced, outside, history, edits, faults>>

-----------------------------------------------------------------------------
(* runOverdueSweep, applyLateFees and runReminderSweep *)

\* What another sweep has found and not announced yet.
Unannounced(w, i) == worker[w].pc \in {"announcing", "emitting"} /\ i \in worker[w].todo

\* The candidates, less those the audit log has announced; two sweeps at the same time find the same.
FindOverdue(w) ==
  LET overdue == {i \in Invoices : Overdue(i)}
      todo    == overdue \ announced
  IN  /\ At(w, {"overdueSweep"}, "taken")
      /\ IF overdue = {}
           THEN Return(w) /\ UNCHANGED resent
           ELSE /\ worker' = [worker EXCEPT ![w].pc = "announcing", ![w].todo = todo]
                /\ resent' = resent \cup {<<i, Null>> : i \in {k \in todo : \E v \in Workers : Unannounced(v, k)}}
                /\ UNCHANGED finished
      /\ UNCHANGED <<today, invoice, queue, log, outside, overtaken, forsaken, edits, faults>>

\* announceOverdue: the audit first ...
AuditOverdue(w, i) ==
  /\ worker[w].pc = "announcing" /\ i \in worker[w].todo
  /\ announced' = announced \cup {i}
  /\ worker' = [worker EXCEPT ![w].pc = "emitting", ![w].inv = i, ![w].todo = @ \ {i}]
  /\ UNCHANGED <<today, invoice, queue, finished, mailed, outside, history, edits, faults>>

\* ... then the event.
EmitOverdue(w) ==
  /\ worker[w].pc = "emitting"
  /\ heard' = [heard EXCEPT ![worker[w].inv] = @ + 1]
  /\ worker' = [worker EXCEPT ![w].pc = "announcing", ![w].inv = Null]
  /\ UNCHANGED <<today, invoice, queue, finished, log, accepted, nudged, bare, unread, history, edits, faults>>

\* getLateFeeCandidates.
AssessFees(w) ==
  /\ worker[w].pc = "announcing" /\ worker[w].todo = {}
  /\ worker' = [worker EXCEPT ![w].pc = "charging",
                              ![w].todo = {i \in Invoices : Overdue(i) /\ ~invoice[i].charged}]
  /\ UNCHANGED <<today, invoice, queue, finished, log, outside, history, edits, faults>>

\* The invoices some worker is rendering from what it read of them.
Rendering == {worker[w].job.inv : w \in {v \in Workers : worker[v].pc = "rendering"}}

\* A new total makes the stored PDF untrue.
Repriced(row) == [row EXCEPT !.total = @ + 1, !.charged = TRUE, !.pdf = Null]

\* chargeLateFee: the conditional UPDATE that charges an invoice once.
ChargeLateFee(w, i) ==
  LET due == invoice[i].status = "sent" /\ Live(i) /\ ~invoice[i].charged
  IN  /\ worker[w].pc = "charging" /\ i \in worker[w].todo
      /\ IF due
           THEN /\ invoice' = [invoice EXCEPT ![i] = Repriced(@)]
                /\ worker' = [worker EXCEPT ![w].pc = "charged", ![w].inv = i, ![w].todo = @ \ {i}]
                /\ overtaken' = overtaken \cup ({i} \cap Rendering)
           ELSE /\ worker' = [worker EXCEPT ![w].todo = @ \ {i}]
                /\ UNCHANGED <<invoice, overtaken>>
      /\ UNCHANGED <<today, queue, finished, log, outside, resent, forsaken, edits, faults>>

RequestRender(w) ==
  /\ worker[w].pc = "charged"
  /\ Enqueue({Render(worker[w].inv, Null)})
  /\ worker' = [worker EXCEPT ![w].pc = "charging", ![w].inv = Null]
  /\ UNCHANGED <<today, invoice, finished, log, outside, overtaken, resent, edits>>

EndSweep(w) ==
  /\ worker[w].pc = "charging" /\ worker[w].todo = {}
  /\ Return(w)
  /\ UNCHANGED <<today, invoice, queue, log, outside, history, edits, faults>>

\* The id of a reminder names the invoice and the offset.
RunReminderSweep(w) ==
  /\ At(w, {"reminderSweep"}, "taken")
  /\ Enqueue(IF ReminderOn[today] = Null THEN {}
             ELSE {Job("remind", i, ReminderOn[today], 0) :
                     i \in {k \in Invoices : invoice[k].status = "sent" /\ Live(k)}})
  /\ Return(w)
  /\ UNCHANGED <<today, invoice, log, outside, overtaken, resent, edits>>

\* schedules.ts: both sweeps are added every night.  BullMQ (external) remembers a finished job
\* for a day at least (removeOnComplete, removeOnFail).
NextDay ==
  /\ today + 1 \in Days
  /\ today' = today + 1
  /\ queue' = queue \cup {Job(kind, Null, Null, today + 1) : kind \in {"overdueSweep", "reminderSweep"}}
  /\ finished' \in SUBSET finished
  /\ UNCHANGED <<invoice, worker, log, outside, history, edits, faults>>

-----------------------------------------------------------------------------
(* The web process. *)

SendInvoice(i) ==
  /\ invoice[i].status = "draft" /\ Live(i)
  /\ invoice' = [invoice EXCEPT ![i].status = "sent"]
  /\ Enqueue({Render(i, "sent")})
  /\ UNCHANGED <<today, finished, worker, log, outside, overtaken, resent, edits>>

\* recordPayment, when it settles the invoice, owes a receipt; markInvoicePaid and a Stripe
\* payment do not.
SettleInvoice(i) ==
  /\ invoice[i].status = "sent" /\ Live(i) /\ edits < MaxEdits
  /\ edits' = edits + 1
  /\ invoice' = [invoice EXCEPT ![i].status = "paid"]
  /\ \E jobs \in {{}, {Render(i, "receipt")}} : Enqueue(jobs)
  /\ UNCHANGED <<today, finished, worker, log, outside, overtaken, resent>>

\* adjustInvoiceLateFee: a waived fee may settle the invoice, a higher one reopen it.
AdjustLateFee(i) ==
  /\ invoice[i].charged /\ Live(i) /\ edits < MaxEdits /\ invoice[i].total < MaxTotal
  /\ edits' = edits + 1
  /\ \E st \in {"sent", "paid"} : invoice' = [invoice EXCEPT ![i] = [Repriced(@) EXCEPT !.status = st]]
  /\ overtaken' = overtaken \cup ({i} \cap Rendering)
  /\ Enqueue({Render(i, Null)})
  /\ UNCHANGED <<today, finished, worker, log, outside, resent>>

\* Requests that queue nothing: the payment is deleted, the invoice trashed or restored, its
\* link withdrawn or renewed.
EditInvoice(i) ==
  /\ edits < MaxEdits /\ invoice[i].status # "draft"
  /\ edits' = edits + 1
  /\ \/ Live(i) /\ invoice[i].status = "paid" /\ invoice' = [invoice EXCEPT ![i].status = "sent"]
     \/ invoice' = [invoice EXCEPT ![i].trashed = ~@]
     \/ Live(i) /\ invoice' = [invoice EXCEPT ![i].reachable = ~@]
  /\ UNCHANGED <<today, queue, finished, worker, log, outside, history, faults>>

-----------------------------------------------------------------------------
Init ==
  /\ today = 0
  /\ invoice = [i \in Invoices |-> Draft]
  /\ queue = {} /\ finished = {}
  /\ worker = [w \in Workers |-> Idle]
  /\ announced = {} /\ mailed = {}
  /\ heard = [i \in Invoices |-> 0]
  /\ accepted = [m \in Mails |-> 0]
  /\ nudged = [c \in Invoices \X Days |-> 0]
  /\ bare = {} /\ unread = {} /\ overtaken = {} /\ resent = {} /\ forsaken = {}
  /\ edits = 0 /\ faults = 0

Handle(w) ==
  \/ ReadPointer(w) \/ ReadDocument(w) \/ LinkPdf(w) \/ ChainMail(w)
  \/ ClaimReminder(w) \/ StartMail(w) \/ ComposeMail(w) \/ AttachPdf(w)
  \/ CheckSent(w) \/ LoadAttachment(w) \/ Deliver(w) \/ RecordSent(w)
  \/ FindOverdue(w) \/ EmitOverdue(w) \/ AssessFees(w) \/ RequestRender(w) \/ EndSweep(w)
  \/ \E i \in Invoices : AuditOverdue(w, i) \/ ChargeLateFee(w, i)
  \/ RunReminderSweep(w)

Next ==
  \/ NextDay
  \/ \E i \in Invoices : SendInvoice(i) \/ SettleInvoice(i) \/ AdjustLateFee(i) \/ EditInvoice(i)
  \/ \E w \in Workers : Handle(w) \/ FailAttempt(w) \/ Crash(w) \/ Stall(w)
  \/ \E w \in Workers, j \in queue : TakeJob(w, j)

Spec == Init /\ [][Next]_vars

\* The workers get on with what they hold, and with what waits for them.
FairSpec ==
  /\ Spec
  /\ \A w \in Workers : WF_vars(Handle(w))
  /\ WF_vars(\E w \in Workers, j \in queue : TakeJob(w, j))

-----------------------------------------------------------------------------
(* Properties. *)

TypeOK ==
  /\ today \in Days
  /\ invoice \in [Invoices -> Invoice]
  /\ queue \subseteq Jobs /\ finished \subseteq Jobs
  /\ worker \in [Workers -> WorkerState]
  /\ announced \subseteq Invoices /\ mailed \subseteq Mails
  /\ heard \in [Invoices -> Nat] /\ accepted \in [Mails -> Nat]
  /\ nudged \in [Invoices \X Days -> Nat] /\ bare \subseteq Mails /\ unread \subseteq Mails
  /\ overtaken \subseteq Invoices
  /\ resent \subseteq (Invoices \cup {Null}) \X (Occasions \cup Reminders \cup {Null})
  /\ forsaken \subseteq (Invoices \cup {Null}) \X (Occasions \cup Reminders \cup {Null})
  /\ edits \in 0..MaxEdits /\ faults \in 0..MaxFaults

\* Nothing goes twice, whatever is retried, taken over or run beside itself: one claim of
\* claimReminder leads to one message at most, so a client is chased once a day; a mail is
\* accepted once, unless its worker was lost, or doubled, before it could record it in the audit log;
\* and an invoice is announced as overdue once, unless two sweeps had it before them at the same time.
NothingSentTwice ==
  /\ \A c \in Invoices \X Days : nudged[c] <= 1
  /\ \A m \in Mails \ resent : accepted[m] <= 1
  /\ \A i \in Invoices : <<i, Null>> \notin resent => heard[i] <= 1

\* The PDF is stored before the mail is queued: a mail travels without one only if the total has
\* changed since, the invoice was in the trash, or object storage did not hand out what is stored.
MailCarriesPdf ==
  \A m \in bare : m[2] \in Occasions => invoice[m[1]].total > 0 \/ m \in forsaken \/ m \in unread

\* A sent invoice gets its PDF and reaches its client.  Of one whose stored PDF does not state its
\* total a render is queued, under way or about to be asked for, unless the total changed during
\* a rendering; one whose mail was not accepted has it queued or under way, behind
\* its render or on its own; unless a fault, the trash or a withdrawn link came between.
NothingForgotten ==
  LET carries(j, i) == j.kind \in {"render", "mail"} /\ j.inv = i /\ j.occ = "sent"
      Rendered(i) ==
        \/ ~Live(i) \/ invoice[i].pdf = invoice[i].total
        \/ invoice[i].pdf # Null /\ i \in overtaken
        \/ \E p \in forsaken : p[1] = i
        \/ \E j \in queue : j.kind = "render" /\ j.inv = i
        \/ \E w \in Workers, pc \in {"taken", "reading", "rendering"} :
             At(w, {"render"}, pc) /\ worker[w].job.inv = i
        \/ \E w \in Workers : worker[w].pc = "charged" /\ worker[w].inv = i
      Reached(i) ==
        \/ accepted[<<i, "sent">>] > 0 \/ <<i, "sent">> \in forsaken
        \/ \E j \in queue : carries(j, i)
        \/ \E w \in Workers : worker[w].pc # "idle" /\ carries(worker[w].job, i)
  IN  \A i \in Invoices : invoice[i].status # "draft" => Rendered(i) /\ Reached(i)

\* jobs.ts: a mail provider failure retries that one invoice with backoff.  One failure before the
\* last attempt should cost a claimed reminder nothing.
ReminderSurvivesFailure ==
  \A i \in Invoices, o \in Reminders :
    (\E w \in Workers : At(w, {"remind"}, "sending") /\ Of(w) = <<i, o>>) ~> accepted[<<i, o>>] > 0
=============================================================================
