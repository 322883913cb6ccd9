------------------------- MODULE RecurringGeneration -------------------------
(***************************************************************************)
(* The jobs that raise invoices from recurring schedules:                  *)
(* features/recurringInvoices/jobs.ts on the queue of lib/jobs.            *)
(*                                                                         *)
(* A daily sweep enqueues one job per due schedule, under an id made of    *)
(* the schedule and the occurrence.  A worker runs it in one transaction,  *)
(* which locks the schedule's row, decides from it and writes the invoice  *)
(* and the advanced row, and then announces the invoice.  A worker may     *)
(* fail or die at any point, and BullMQ may give the job of a worker it    *)
(* believes dead to another while the first goes on.                       *)
(*                                                                         *)
(* Requests on the schedule are the actions of RecurringSchedule.  A day   *)
(* past the last of Days is like the last: sweeps go on, no occurrence     *)
(* falls due any more.                                                     *)
(***************************************************************************)
EXTENDS Integers, Sequences, FiniteSets

CONSTANTS Schedules, Days, EndCounts, Cadence, Null,
          Workers,                   \* worker processes, two of them during a deploy
          MaxAttempts,               \* DEFAULT_JOB_OPTIONS.attempts
          KeptCompleted, KeptFailed, \* removeOnComplete.age and removeOnFail.age, in days
          MaxFaults,                 \* bound: failures, crashes, edits and switches in a behaviour
          MaxEdits                   \* bound: edits of one schedule

ASSUME CalendarAssumption ==
  /\ Days \subseteq Nat /\ 0 \in Days /\ EndCounts \subseteq Nat \ {0}
  /\ Cadence \in Nat \ {0}
  /\ Null \notin Nat

ASSUME QueueAssumption ==
  /\ MaxAttempts \in Nat \ {0} /\ KeptCompleted \in Nat \ {0} /\ KeptFailed \in Nat \ {0}
  /\ MaxFaults \in Nat /\ MaxEdits \in Nat
  /\ Null \notin Workers

VARIABLES
  today, schedule, issued,  \* as in RecurringSchedule
  announced,  \* for each schedule, the invoices (by position in issued) announced
  job,        \* BullMQ's record of recurring.invoice.generate.<schedule>.<occurrence>
  worker,     \* what each worker is doing
  swept,      \* today's sweep has run
  editing,    \* schedules an updateRecurringInvoice request has found editable
  edits,      \* history: updates of each schedule so far
  faults      \* history: failures, crashes, edits and switches so far, bounded together

queue == <<announced, job, worker, swept>>
vars  == <<today, schedule, issued, queue, editing, edits, faults>>

\* The abstract specification, over the same three variables.
Rows == INSTANCE RecurringSchedule

Keys == Schedules \X Days

JobRow == [state : {"none", "waiting", "active", "completed", "failed"},
           owner : Workers \cup {Null}, attempts : 0..MaxAttempts, stalled : BOOLEAN,
           age : Nat]
NoJob  == [state |-> "none", owner |-> Null, attempts |-> 0, stalled |-> FALSE, age |-> 0]

\* key: the job a worker runs; on: the day it took it; row: the schedule as locked;
\* invoice: the position of the invoice it has raised.
WorkerState == [pc : {"idle", "taken", "writing", "announcing"},
                key : Keys \cup {Null}, on : Nat, row : Rows!ScheduleRow, invoice : Nat]
Idle == [pc |-> "idle", key |-> Null, on |-> 0, row |-> Rows!NoSchedule, invoice |-> 0]

\* The FOR UPDATE lock on the schedule's row.
Locked(s) == \E w \in Workers : worker[w].pc = "writing" /\ worker[w].key[1] = s

\* A finished job keeps its id for a time ...
Retained(k) == job[k].state \in {"completed", "failed"}

\* ... and may be dropped from then on.
Outlived(k) == \/ job[k].state = "completed" /\ job[k].age >= KeptCompleted
               \/ job[k].state = "failed" /\ job[k].age >= KeptFailed

\* listDueRecurringInvoices.
Due(s) == /\ schedule[s].status = "active" /\ ~schedule[s].trashed
          /\ schedule[s].nextRun <= today

Init ==
  /\ Rows!Init
  /\ announced = [s \in Schedules |-> {}]
  /\ job = [k \in Keys |-> NoJob]
  /\ worker = [w \in Workers |-> Idle]
  /\ swept = FALSE
  /\ editing = {}
  /\ edits = [s \in Schedules |-> 0]
  /\ faults = 0

-----------------------------------------------------------------------------
\* Requests: features/recurringInvoices/mutations.ts.  A write to a row waits for its lock.  To
\* pause, resume, cancel, trash or restore a schedule is to switch it.

Request(s) ==
  /\ ~Locked(s)
  /\ \/ \E d \in Days, after \in EndCounts \cup {Null}, by \in Days \cup {Null} :
          Rows!CreateSchedule(s, d, after, by) /\ UNCHANGED faults
     \/ /\ \/ \E to \in {"paused", "active", "cancelled"} : Rows!ChangeScheduleStatus(s, to)
           \/ Rows!SoftDeleteSchedule(s) \/ Rows!RestoreSchedule(s)
        /\ faults < MaxFaults /\ faults' = faults + 1
  /\ UNCHANGED <<queue, editing, edits>>

\* updateRecurringInvoice reads that the schedule is not terminal ...
ReadSchedule(s) ==
  /\ Rows!Live(s) /\ ~Rows!Terminal(s)
  /\ edits[s] < MaxEdits /\ faults < MaxFaults
  /\ editing' = editing \cup {s}
  /\ UNCHANGED <<today, schedule, issued, queue, edits, faults>>

\* ... and writes it with no such condition.
UpdateSchedule(s) ==
  /\ s \in editing /\ ~Locked(s)
  /\ edits[s] < MaxEdits /\ faults < MaxFaults
  /\ edits' = [edits EXCEPT ![s] = @ + 1] /\ faults' = faults + 1
  /\ editing' = editing \ {s}
  /\ \E d \in Days, after \in EndCounts \cup {Null}, by \in Days \cup {Null} :
       Rows!UpdateSchedule(s, d, after, by)
  /\ UNCHANGED queue

-----------------------------------------------------------------------------
\* The queue: lib/jobs and, behind it, BullMQ.

\* Midnight: the day's sweep is owed and finished jobs grow older.
NextDay ==
  /\ \/ Rows!NextDay
     \/ today + 1 \notin Days /\ UNCHANGED <<today, schedule, issued>>
  /\ swept' = FALSE
  /\ job' = [k \in Keys |->
               IF Retained(k) /\ ~Outlived(k)
               THEN [job[k] EXCEPT !.age = @ + 1] ELSE job[k]]
  /\ UNCHANGED <<announced, worker, editing, edits, faults>>

\* enqueueJob: Redis may be out of reach, and then the job is lost and nobody is told.
Enqueued(lost) == /\ lost => faults < MaxFaults
                  /\ faults' = IF lost THEN faults + 1 ELSE faults

\* Mutant: only the schedules whose day it is, not those already late.
RunScheduleSweepToday ==
  /\ ~swept /\ swept' = TRUE
  /\ \E lost \in SUBSET Schedules :
       /\ Enqueued(lost # {})
       /\ job' = [k \in Keys |->
                    IF /\ Due(k[1]) /\ k[2] = schedule[k[1]].nextRun /\ k[1] \notin lost
                       /\ k[2] = today /\ job[k].state = "none"
                    THEN [NoJob EXCEPT !.state = "waiting"] ELSE job[k]]
  /\ UNCHANGED <<today, schedule, issued, announced, worker, editing, edits>>

\* runScheduleSweep.  An id BullMQ still knows, finished or not, is not added again.
RunScheduleSweep ==
  /\ ~swept /\ swept' = TRUE
  /\ \E lost \in SUBSET Schedules :
       /\ Enqueued(lost # {})
       /\ job' = [k \in Keys |->
                    IF /\ Due(k[1]) /\ k[2] = schedule[k[1]].nextRun /\ k[1] \notin lost
                       /\ job[k].state = "none"
                    THEN [NoJob EXCEPT !.state = "waiting"] ELSE job[k]]
  /\ UNCHANGED <<today, schedule, issued, announced, worker, editing, edits>>

\* removeOnComplete and removeOnFail, as other jobs finish.
RemoveRetained(k) ==
  /\ Outlived(k)
  /\ job' = [job EXCEPT ![k] = NoJob]
  /\ UNCHANGED <<today, schedule, issued, announced, worker, swept, editing, edits, faults>>

\* The lock of an active job ran out: its worker is gone, or too slow to renew it.  BullMQ
\* returns the job to the queue the first time and fails it the second.
Stall(k) ==
  /\ job[k].state = "active"
  /\ \/ job[k].owner = Null /\ UNCHANGED faults
     \/ job[k].owner # Null /\ faults < MaxFaults /\ faults' = faults + 1
  /\ job' = [job EXCEPT ![k] =
                [@ EXCEPT !.state = IF job[k].stalled THEN "failed" ELSE "waiting",
                          !.owner = Null, !.stalled = TRUE]]
  /\ UNCHANGED <<today, schedule, issued, announced, worker, swept, editing, edits>>

\* The job as its worker leaves it: untouched if it has been taken away meanwhile.
Left(w, k, row) == IF job[k].owner = w THEN [job EXCEPT ![k] = row] ELSE job

Done(w, k) == Left(w, k, [job[k] EXCEPT !.state = "completed", !.owner = Null, !.age = 0])

-----------------------------------------------------------------------------
\* A worker: generateRecurringInvoice.

TakeJob(w, k) ==
  /\ worker[w].pc = "idle"
  /\ job[k].state = "waiting"
  /\ job' = [job EXCEPT ![k].state = "active", ![k].owner = w]
  /\ worker' = [worker EXCEPT ![w] = [Idle EXCEPT !.pc = "taken", !.key = k, !.on = today]]
  /\ UNCHANGED <<today, schedule, issued, announced, swept, editing, edits, faults>>

\* The schedule is gone, inactive or not due any more.
SkipRun(w) ==
  LET k == worker[w].key
      row == schedule[k[1]]
  IN  /\ worker[w].pc = "taken" /\ ~Locked(k[1])
      /\ row.trashed \/ ~(Rows!Finished(row) \/ Rows!Generates(row, worker[w].on))
      /\ job' = Done(w, k)
      /\ worker' = [worker EXCEPT ![w] = Idle]
      /\ UNCHANGED <<today, schedule, issued, announced, swept, editing, edits, faults>>

CompleteRun(w) ==
  LET k == worker[w].key
  IN  /\ worker[w].pc = "taken" /\ ~Locked(k[1])
      /\ Rows!Complete(k[1])
      /\ job' = Done(w, k)
      /\ worker' = [worker EXCEPT ![w] = Idle]
      /\ UNCHANGED <<announced, swept, editing, edits, faults>>

\* Mutant: an optimistic read instead of FOR UPDATE.
LockScheduleOptimistically(w) ==
  LET s == worker[w].key[1]
  IN  /\ worker[w].pc = "taken"
      /\ ~schedule[s].trashed /\ Rows!Generates(schedule[s], worker[w].on)
      /\ worker' = [worker EXCEPT ![w].pc = "writing", ![w].row = schedule[s]]
      /\ UNCHANGED <<today, schedule, issued, announced, job, swept, editing, edits, faults>>

\* Mutant: the job's id is trusted and the decision is not taken again.
LockScheduleTrustingJob(w) ==
  LET s == worker[w].key[1]
  IN  /\ worker[w].pc = "taken" /\ ~Locked(s)
      /\ ~schedule[s].trashed /\ schedule[s].status = "active" /\ ~Rows!Ended(schedule[s])
      /\ worker' = [worker EXCEPT ![w].pc = "writing", ![w].row = schedule[s]]
      /\ UNCHANGED <<today, schedule, issued, announced, job, swept, editing, edits, faults>>

\* The row is locked, and due.
LockSchedule(w) ==
  LET s == worker[w].key[1]
  IN  /\ worker[w].pc = "taken" /\ ~Locked(s)
      /\ ~schedule[s].trashed /\ Rows!Generates(schedule[s], worker[w].on)
      /\ worker' = [worker EXCEPT ![w].pc = "writing", ![w].row = schedule[s]]
      /\ UNCHANGED <<today, schedule, issued, announced, job, swept, editing, edits, faults>>

\* writeSystemInvoice, the update of the schedule and the commit, all from the row read.
CommitGeneration(w) ==
  LET s == worker[w].key[1]
      row == worker[w].row
  IN  /\ worker[w].pc = "writing"
      /\ issued' = [issued EXCEPT ![s] = Append(@, row.nextRun)]
      /\ schedule' = [schedule EXCEPT ![s] =
                        LET next == Rows!Advanced(row)
                        IN  [@ EXCEPT !.nextRun = next.nextRun, !.generated = next.generated,
                                      !.status = next.status]]
      /\ worker' = [worker EXCEPT ![w].pc = "announcing", ![w].row = Rows!NoSchedule,
                                  ![w].invoice = Len(issued[s]) + 1]
      /\ UNCHANGED <<today, announced, job, swept, editing, edits, faults>>

\* announceGeneration, to the enqueued PDF render and mail.
AnnounceGeneration(w) ==
  LET k == worker[w].key
  IN  /\ worker[w].pc = "announcing"
      /\ \E lost \in BOOLEAN :
           /\ Enqueued(lost)
           /\ announced' = IF lost THEN announced
                           ELSE [announced EXCEPT ![k[1]] = @ \cup {worker[w].invoice}]
      /\ job' = Done(w, k)
      /\ worker' = [worker EXCEPT ![w] = Idle]
      /\ UNCHANGED <<today, schedule, issued, swept, editing, edits>>

\* Mutant: an exhausted job is not settled, only logged.
FailAttemptUnsettled(w) ==
  LET k == worker[w].key
      made == job[k].attempts + 1
  IN  /\ worker[w].pc # "idle"
      /\ faults < MaxFaults /\ faults' = faults + 1
      /\ job' = Left(w, k, [job[k] EXCEPT !.owner = Null, !.attempts = made, !.age = 0,
                                          !.state = "waiting"])
      /\ worker' = [worker EXCEPT ![w] = Idle]
      /\ UNCHANGED <<today, schedule, issued, announced, swept, editing, edits>>

\* The handler throws: a transaction under way rolls back, and the job waits for its next
\* attempt or has had its last.
FailAttempt(w) ==
  LET k == worker[w].key
      made == job[k].attempts + 1
  IN  /\ worker[w].pc # "idle"
      /\ faults < MaxFaults /\ faults' = faults + 1
      /\ job' = Left(w, k, [job[k] EXCEPT !.owner = Null, !.attempts = made, !.age = 0,
                              !.state = IF made >= MaxAttempts THEN "failed" ELSE "waiting"])
      /\ worker' = [worker EXCEPT ![w] = Idle]
      /\ UNCHANGED <<today, schedule, issued, announced, swept, editing, edits>>

\* The process dies: its transaction rolls back and its job is left without an owner.
Crash(w) ==
  LET k == worker[w].key
  IN  /\ worker[w].pc # "idle"
      /\ faults < MaxFaults /\ faults' = faults + 1
      /\ job' = Left(w, k, [job[k] EXCEPT !.owner = Null])
      /\ worker' = [worker EXCEPT ![w] = Idle]
      /\ UNCHANGED <<today, schedule, issued, announced, swept, editing, edits>>

-----------------------------------------------------------------------------
Run(w) == SkipRun(w) \/ CompleteRun(w) \/ LockSchedule(w) \/ CommitGeneration(w)
          \/ AnnounceGeneration(w)

Work(w) == Run(w) \/ \E k \in Keys : TakeJob(w, k)

Next ==
  \/ \E s \in Schedules : Request(s) \/ ReadSchedule(s) \/ UpdateSchedule(s)
  \/ NextDay \/ RunScheduleSweep
  \/ \E k \in Keys : RemoveRetained(k) \/ Stall(k)
  \/ \E w \in Workers : Work(w) \/ FailAttempt(w) \/ Crash(w)

Spec == Init /\ [][Next]_vars

\* The days pass, the scheduler fires, BullMQ cleans up after itself and looks for stalled
\* jobs, and a worker that is running gets on with its work.  Requests, failures and crashes
\* need never happen; there are at most MaxFaults edits, switches, failures and crashes.
Fairness ==
  /\ WF_vars(NextDay) /\ WF_vars(RunScheduleSweep)
  /\ \A k \in Keys : WF_vars(RemoveRetained(k)) /\ WF_vars(job[k].owner = Null /\ Stall(k))
  /\ \A w \in Workers : WF_vars(Work(w))

FairSpec == Spec /\ Fairness

-----------------------------------------------------------------------------
\* Properties.

\* Every variable holds a value of its type; a job that can still run has an attempt left.
TypeOK ==
  /\ Rows!ScheduleTypeOK
  /\ announced \in [Schedules -> SUBSET Nat]
  /\ job \in [Keys -> JobRow]
  /\ \A k \in Keys : job[k].state \in {"waiting", "active"} => job[k].attempts < MaxAttempts
  /\ worker \in [Workers -> WorkerState]
  /\ swept \in BOOLEAN
  /\ editing \subseteq Schedules
  /\ edits \in [Schedules -> 0..MaxEdits] /\ faults \in 0..MaxFaults

\* Through retries, stalls and crashes the invoices of a schedule nobody has edited are
\* raised for one period after another, none missed and none twice.
NoOccurrenceLostOrRepeated ==
  \A s \in Schedules : edits[s] = 0 =>
    \A k \in 1..Len(issued[s]) - 1 : issued[s][k + 1] = issued[s][k] + Cadence

\* occurrences_generated is the number of invoices raised: no run's update is lost.
CounterCountsInvoices == Rows!CounterCountsInvoices

\* A schedule nobody has edited closes with its last occurrence, neither before it nor at
\* some later run (jobs.ts: the final occurrence closes it here).
EndsWithLastOccurrence ==
  \A s \in Schedules : edits[s] = 0 =>
    /\ schedule[s].status \in {"active", "paused"} => ~Rows!Ended(schedule[s])
    /\ schedule[s].status = "completed" => Rows!Ended(schedule[s])

\* The queue, the workers and their transactions together do nothing RecurringSchedule does
\* not allow: an invoice is raised only for an owed and due occurrence, and exactly once.
ImplementsSchedule == Rows!Spec

\* Time and again nothing is due, for what is due is billed, closed, paused or deleted in the end: neither
\* failures nor finished jobs that keep an id taken leave a schedule due for ever.
DueIsSettled == \A s \in Schedules : []<>~Due(s)
=============================================================================
