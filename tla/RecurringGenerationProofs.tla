---------------------- MODULE RecurringGenerationProofs ----------------------
(***************************************************************************)
(* Proofs about RecurringGeneration, for any schedules, workers, days and  *)
(* bounds: its types, that the queue and the workers implement             *)
(* RecurringSchedule, and the invariants that keep the invoices of a       *)
(* schedule and its counter together.                                      *)
(*                                                                         *)
(* The argument is the row lock.  Every action that writes a schedule's    *)
(* row asks that no worker is writing, so the row a writing worker has     *)
(* read is still the row in the table, and at most one worker writes:      *)
(* what it commits is then a step of the abstract schedule.                *)
(***************************************************************************)
EXTENDS RecurringGeneration, TLAPS

\* A job in a worker's hands is active.
OwnedIsActive == \A k \in Keys : job[k].owner # Null => job[k].state = "active"

\* A busy worker runs a job, taken today or earlier.
BusyHasJob ==
  \A w \in Workers : worker[w].pc # "idle" => worker[w].key \in Keys /\ worker[w].on <= today

\* The row a worker is about to advance is the row in the table, and due.
WriterHasTheRow ==
  \A w \in Workers : worker[w].pc = "writing" =>
    LET s == worker[w].key[1]
    IN  /\ worker[w].row = schedule[s]
        /\ ~schedule[s].trashed /\ Rows!Generates(schedule[s], worker[w].on)

\* The lock has one holder.
OneWriter ==
  \A v, w \in Workers :
    worker[v].pc = "writing" /\ worker[w].pc = "writing" /\ worker[v].key[1] = worker[w].key[1]
      => v = w

\* A schedule's row, the invoices raised from it and the number of its edits agree: the row
\* counts the invoices, and if nobody has edited it stands one period after the last of them,
\* which are a period apart, and is closed exactly when its end condition is met.
RowAgrees(row, raised, updates) ==
  /\ row.generated = Len(raised)
  /\ row.status = "none" => raised = <<>>
  /\ updates = 0 =>
       /\ raised # <<>> => row.nextRun = raised[Len(raised)] + Cadence
       /\ \A k \in 1..Len(raised) - 1 : raised[k + 1] = raised[k] + Cadence
       /\ row.status \in {"active", "paused"} => ~Rows!Ended(row)
       /\ row.status = "completed" => Rows!Ended(row)

TypeInv == TypeOK /\ OwnedIsActive /\ BusyHasJob
LockInv == WriterHasTheRow /\ OneWriter
RowInv  == \A s \in Schedules : RowAgrees(schedule[s], issued[s], edits[s])
IInv    == TypeInv /\ LockInv /\ RowInv

USE CalendarAssumption, QueueAssumption

-----------------------------------------------------------------------------
\* Types.

\* The rows' types alone, without the queue's.
RowsOK == Rows!ScheduleTypeOK /\ edits \in [Schedules -> 0..MaxEdits]

LEMMA AdvancedType ==
  ASSUME NEW row \in Rows!ScheduleRow
  PROVE  Rows!Advanced(row) \in Rows!ScheduleRow
<1> DEFINE next == [row EXCEPT !.nextRun = @ + Cadence, !.generated = @ + 1]
<1>1. next \in Rows!ScheduleRow
  <2> DEFINE moved == [row EXCEPT !.nextRun = @ + Cadence]
  <2>1. moved \in Rows!ScheduleRow
    BY DEF Rows!ScheduleRow
  <2> HIDE DEF moved
  <2>2. next = [moved EXCEPT !.generated = moved.generated + 1]
    BY DEF moved
  <2>3. [moved EXCEPT !.generated = moved.generated + 1] \in Rows!ScheduleRow
    BY <2>1 DEF Rows!ScheduleRow
  <2> QED BY <2>2, <2>3
<1>2. Rows!Advanced(row) = [next EXCEPT !.status = IF Rows!Finished(next) THEN "completed" ELSE @]
  BY DEF Rows!Advanced
<1> HIDE DEF next
<1>3. CASE Rows!Finished(next)
  <2>1. Rows!Advanced(row) = [next EXCEPT !.status = "completed"]
    BY <1>2, <1>3
  <2> QED BY <1>1, <2>1 DEF Rows!ScheduleRow
<1>4. CASE ~Rows!Finished(next)
  <2>1. Rows!Advanced(row) = next
    BY <1>1, <1>2, <1>4 DEF Rows!ScheduleRow
  <2> QED BY <1>1, <2>1
<1> QED BY <1>3, <1>4

LEMMA SubmittedType ==
  ASSUME NEW row \in Rows!ScheduleRow, NEW d \in Days,
         NEW after \in EndCounts \cup {Null}, NEW by \in Days \cup {Null}
  PROVE  Rows!Submitted(row, d, after, by) \in Rows!ScheduleRow
BY DEF Rows!ScheduleRow, Rows!Submitted

LEMMA TrashedType ==
  ASSUME NEW row \in Rows!ScheduleRow
  PROVE  /\ [row EXCEPT !.trashed = TRUE] \in Rows!ScheduleRow
         /\ [row EXCEPT !.trashed = FALSE] \in Rows!ScheduleRow
BY DEF Rows!ScheduleRow

LEMMA StatusType ==
  ASSUME NEW row \in Rows!ScheduleRow,
         NEW st \in {"none", "active", "paused", "completed", "cancelled"}
  PROVE  [row EXCEPT !.status = st] \in Rows!ScheduleRow
BY DEF Rows!ScheduleRow

\* One row replaced by a row of the type leaves the table typed.
LEMMA RowReplaced ==
  ASSUME schedule \in [Schedules -> Rows!ScheduleRow],
         NEW s \in Schedules, NEW row \in Rows!ScheduleRow,
         schedule' = [schedule EXCEPT ![s] = row]
  PROVE  schedule' \in [Schedules -> Rows!ScheduleRow]
OBVIOUS

LEMMA UserRowType ==
  ASSUME TypeOK, NEW s \in Schedules, Request(s) \/ UpdateSchedule(s)
  PROVE  RowsOK' /\ today' = today
<1>1. CASE Request(s)
  <2>1. ASSUME NEW d \in Days, NEW after \in EndCounts \cup {Null},
               NEW by \in Days \cup {Null}, Rows!CreateSchedule(s, d, after, by)
        PROVE  Rows!ScheduleTypeOK' /\ today' = today
    <3>1. [Rows!NoSchedule EXCEPT !.status = "active"] \in Rows!ScheduleRow
      BY DEF Rows!ScheduleRow, Rows!NoSchedule
    <3>2. Rows!Submitted([Rows!NoSchedule EXCEPT !.status = "active"], d, after, by)
            \in Rows!ScheduleRow
      BY <3>1, SubmittedType
    <3> QED BY <2>1, <3>2 DEF Rows!CreateSchedule, Rows!ScheduleTypeOK, TypeOK
  <2>2. ASSUME NEW to \in {"paused", "active", "cancelled"}, Rows!ChangeScheduleStatus(s, to)
        PROVE  Rows!ScheduleTypeOK' /\ today' = today
    <3>1. schedule[s] \in Rows!ScheduleRow /\ schedule \in [Schedules -> Rows!ScheduleRow]
      BY DEF TypeOK, Rows!ScheduleTypeOK
    <3>2. [schedule[s] EXCEPT !.status = to] \in Rows!ScheduleRow
      BY <3>1, StatusType
    <3>3. schedule' = [schedule EXCEPT ![s] = [schedule[s] EXCEPT !.status = to]]
          /\ UNCHANGED <<today, issued>>
      BY <2>2, <3>1 DEF Rows!ChangeScheduleStatus
    <3>4. schedule' \in [Schedules -> Rows!ScheduleRow]
      BY <3>1, <3>2, <3>3, RowReplaced
    <3> QED BY <3>3, <3>4 DEF Rows!ScheduleTypeOK, TypeOK
  <2>3. ASSUME Rows!SoftDeleteSchedule(s) \/ Rows!RestoreSchedule(s)
        PROVE  Rows!ScheduleTypeOK' /\ today' = today
    <3>1. CASE Rows!SoftDeleteSchedule(s)
      BY <3>1, TrashedType DEF Rows!SoftDeleteSchedule, Rows!ScheduleTypeOK, TypeOK
    <3>2. CASE Rows!RestoreSchedule(s)
      BY <3>2, TrashedType DEF Rows!RestoreSchedule, Rows!ScheduleTypeOK, TypeOK
    <3> QED BY <2>3, <3>1, <3>2
  <2> QED BY <1>1, <2>1, <2>2, <2>3 DEF Request, RowsOK, TypeOK
<1>2. CASE UpdateSchedule(s)
  <2> PICK d \in Days, after \in EndCounts \cup {Null}, by \in Days \cup {Null} :
        Rows!UpdateSchedule(s, d, after, by)
    BY <1>2 DEF UpdateSchedule
  <2>1. Rows!Submitted(schedule[s], d, after, by) \in Rows!ScheduleRow
    BY SubmittedType DEF TypeOK, Rows!ScheduleTypeOK
  <2> QED BY <1>2, <2>1 DEF Rows!UpdateSchedule, Rows!ScheduleTypeOK, TypeOK, RowsOK,
                            UpdateSchedule
<1> QED BY <1>1, <1>2

LEMMA CommitRowType ==
  ASSUME TypeInv, NEW w \in Workers, CommitGeneration(w)
  PROVE  RowsOK' /\ today' = today
<1> DEFINE s == worker[w].key[1]
           row == worker[w].row
           next == Rows!Advanced(row)
<1>1. s \in Schedules /\ row \in Rows!ScheduleRow
  BY DEF CommitGeneration, TypeInv, TypeOK, BusyHasJob, Keys, WorkerState
<1>2. next \in Rows!ScheduleRow
  BY <1>1, AdvancedType
<1>3. schedule[s] \in Rows!ScheduleRow /\ row.nextRun \in Nat /\ issued[s] \in Seq(Nat)
  BY <1>1 DEF TypeInv, TypeOK, Rows!ScheduleTypeOK, Rows!ScheduleRow
<1>4. schedule' \in [Schedules -> Rows!ScheduleRow]
  <2> HIDE DEF next
  <2> DEFINE new == [schedule[s] EXCEPT !.nextRun = next.nextRun, !.generated = next.generated,
                                        !.status = next.status]
  <2>1. new \in Rows!ScheduleRow
    BY <1>2, <1>3 DEF Rows!ScheduleRow
  <2>2. schedule' = [schedule EXCEPT ![s] = new]
    BY DEF CommitGeneration, next
  <2> QED BY <2>1, <2>2 DEF TypeInv, TypeOK, Rows!ScheduleTypeOK
<1>5. issued' \in [Schedules -> Seq(Nat)]
  BY <1>1, <1>3 DEF CommitGeneration, TypeInv, TypeOK, Rows!ScheduleTypeOK
<1> QED BY <1>4, <1>5 DEF CommitGeneration, TypeInv, TypeOK, Rows!ScheduleTypeOK, RowsOK

\* The queue's types alone.
JobsOK == /\ job \in [Keys -> JobRow]
          /\ \A k \in Keys : job[k].state \in {"waiting", "active"} => job[k].attempts < MaxAttempts
          /\ OwnedIsActive

LEMMA LeftKeepsJobs ==
  ASSUME JobsOK, NEW w \in Workers, NEW k \in Keys, NEW row, job' = Left(w, k, row),
         job[k].owner = w =>
           /\ row \in JobRow /\ row.owner = Null
           /\ row.state \in {"waiting", "active"} => row.attempts < MaxAttempts
  PROVE  JobsOK'
<1>1. CASE job[k].owner = w
  <2>1. job' = [job EXCEPT ![k] = row]
    BY <1>1 DEF Left
  <2> QED BY <1>1, <2>1 DEF JobsOK, OwnedIsActive
<1>2. CASE job[k].owner # w
  <2>1. job' = job
    BY <1>2 DEF Left
  <2> QED BY <2>1 DEF JobsOK, OwnedIsActive
<1> QED BY <1>1, <1>2

LEMMA DoneKeepsJobs ==
  ASSUME JobsOK, NEW w \in Workers, NEW k \in Keys, job' = Done(w, k)
  PROVE  JobsOK'
<1> DEFINE row == [job[k] EXCEPT !.state = "completed", !.owner = Null, !.age = 0]
<1>1. row \in JobRow /\ row.owner = Null /\ row.state = "completed"
  BY DEF JobsOK, JobRow
<1>2. job' = Left(w, k, row)
  BY DEF Done
<1> HIDE DEF row
<1> QED BY <1>1, <1>2, LeftKeepsJobs

\* A worker's types alone.
WorkersOK == worker \in [Workers -> WorkerState] /\ BusyHasJob

LEMMA IdleType == Idle \in WorkerState /\ Idle.pc = "idle"
BY DEF Idle, WorkerState, Rows!NoSchedule, Rows!ScheduleRow

LEMMA IdleKeepsWorkers ==
  ASSUME WorkersOK, NEW w \in Workers, worker' = [worker EXCEPT ![w] = Idle], today' = today
  PROVE  WorkersOK'
BY IdleType DEF WorkersOK, BusyHasJob

\* The rest of TypeOK.
RestOK == announced \in [Schedules -> SUBSET Nat] /\ swept \in BOOLEAN
          /\ editing \subseteq Schedules /\ faults \in 0..MaxFaults

LEMMA TypeParts == TypeInv <=> RowsOK /\ JobsOK /\ WorkersOK /\ RestOK
BY DEF TypeInv, TypeOK, RowsOK, JobsOK, WorkersOK, RestOK

LEMMA TypeInit == Init => TypeInv
<1> SUFFICES ASSUME Init PROVE RowsOK /\ JobsOK /\ WorkersOK /\ RestOK
  BY TypeParts
<1>1. RowsOK
  BY DEF Init, Rows!Init, RowsOK, Rows!ScheduleTypeOK, Rows!NoSchedule, Rows!ScheduleRow
<1>2. JobsOK
  BY DEF Init, JobsOK, OwnedIsActive, NoJob, JobRow
<1>3. WorkersOK
  BY IdleType DEF Init, WorkersOK, BusyHasJob
<1>4. RestOK
  <2>1. swept \in BOOLEAN
    BY DEF Init
  <2>2. announced \in [Schedules -> SUBSET Nat] /\ editing \subseteq Schedules
        /\ faults \in 0..MaxFaults
    BY DEF Init
  <2> QED BY <2>1, <2>2 DEF RestOK
<1> QED BY <1>1, <1>2, <1>3, <1>4

LEMMA TypeStep ==
  ASSUME TypeInv, [Next]_vars
  PROVE  TypeInv'
<1> USE TypeParts
<1> SUFFICES RowsOK' /\ JobsOK' /\ WorkersOK' /\ RestOK'
  BY DEF TypeInv, TypeOK, RowsOK, JobsOK, WorkersOK, RestOK, OwnedIsActive, BusyHasJob
<1>1. ASSUME NEW s \in Schedules, Request(s) \/ UpdateSchedule(s)
      PROVE  RowsOK' /\ JobsOK' /\ WorkersOK' /\ RestOK'
  <2>1. RowsOK' /\ today' = today
    BY <1>1, UserRowType DEF TypeInv
  <2>2. UNCHANGED queue /\ editing' \subseteq editing
        /\ (faults' = faults \/ (faults < MaxFaults /\ faults' = faults + 1))
    BY <1>1 DEF Request, UpdateSchedule
  <2>3. faults' \in 0..MaxFaults
    BY <2>2, QueueAssumption DEF TypeInv, TypeOK, RestOK
  <2> QED BY <2>1, <2>2, <2>3 DEF JobsOK, OwnedIsActive, WorkersOK, BusyHasJob, RestOK, queue
<1>2. ASSUME NEW s \in Schedules, ReadSchedule(s)
      PROVE  RowsOK' /\ JobsOK' /\ WorkersOK' /\ RestOK'
  BY <1>2 DEF ReadSchedule, queue, RowsOK, Rows!ScheduleTypeOK, JobsOK, OwnedIsActive,
              WorkersOK, BusyHasJob, RestOK
<1>3. CASE NextDay
  <2>1. today' \in Days /\ today \in Nat /\ today <= today' /\ UNCHANGED <<schedule, issued, edits>>
    BY <1>3 DEF NextDay, Rows!NextDay, RowsOK, Rows!ScheduleTypeOK
  <2>2. RowsOK' /\ RestOK'
    BY <1>3, <2>1 DEF NextDay, RowsOK, Rows!ScheduleTypeOK, RestOK
  <2>3. WorkersOK'
    <3>1. worker' = worker
      BY <1>3 DEF NextDay
    <3> QED BY <2>1, <3>1 DEF WorkersOK, BusyHasJob, WorkerState
  <2>4. JobsOK'
    <3>1. \A k \in Keys : job'[k] \in JobRow /\ job'[k].state = job[k].state
                          /\ job'[k].owner = job[k].owner /\ job'[k].attempts = job[k].attempts
      <4> TAKE k \in Keys
      <4>1. job[k] \in JobRow
        BY DEF JobsOK
      <4>2. job'[k] = [job[k] EXCEPT !.age = @ + 1] \/ job'[k] = job[k]
        BY <1>3 DEF NextDay
      <4> QED BY <4>1, <4>2 DEF JobRow
    <3>2. job' = [k \in Keys |-> job'[k]]
      BY <1>3 DEF NextDay
    <3> QED BY <3>1, <3>2 DEF JobsOK, OwnedIsActive
  <2> QED BY <2>2, <2>3, <2>4
<1>4. CASE RunScheduleSweep
  <2>1. RowsOK' /\ WorkersOK' /\ RestOK'
    BY <1>4 DEF RunScheduleSweep, Enqueued, RowsOK, Rows!ScheduleTypeOK, WorkersOK, BusyHasJob,
                RestOK
  <2>2. JobsOK'
    <3> DEFINE waiting == [NoJob EXCEPT !.state = "waiting"]
    <3>1. waiting \in JobRow /\ waiting.owner = Null /\ waiting.attempts = 0
      <4>1. NoJob \in JobRow /\ NoJob.owner = Null /\ NoJob.attempts = 0
        BY DEF NoJob, JobRow
      <4> QED BY <4>1 DEF JobRow
    <3>2. \A k \in Keys : job'[k] = waiting \/ job'[k] = job[k]
      BY <1>4 DEF RunScheduleSweep
    <3>3. job' = [k \in Keys |-> job'[k]]
      BY <1>4 DEF RunScheduleSweep
    <3> HIDE DEF waiting
    <3> QED BY <3>1, <3>2, <3>3 DEF JobsOK, OwnedIsActive
  <2> QED BY <2>1, <2>2
<1>5. ASSUME NEW k \in Keys, RemoveRetained(k) \/ Stall(k)
      PROVE  RowsOK' /\ JobsOK' /\ WorkersOK' /\ RestOK'
  <2>1. RowsOK' /\ WorkersOK' /\ RestOK'
    BY <1>5 DEF RemoveRetained, Stall, RowsOK, Rows!ScheduleTypeOK, WorkersOK, BusyHasJob, RestOK
  <2>2. CASE RemoveRetained(k)
    <3>1. NoJob \in JobRow /\ NoJob.owner = Null /\ NoJob.state = "none"
      BY DEF NoJob, JobRow
    <3> QED BY <2>1, <2>2, <3>1 DEF RemoveRetained, JobsOK, OwnedIsActive
  <2>3. CASE Stall(k)
    <3>1. PICK st \in {"failed", "waiting"} :
            job' = [job EXCEPT ![k] = [@ EXCEPT !.state = st, !.owner = Null, !.stalled = TRUE]]
      BY <2>3 DEF Stall
    <3> DEFINE row == [job[k] EXCEPT !.state = st, !.owner = Null, !.stalled = TRUE]
    <3>2. row \in JobRow /\ row.owner = Null /\ row.attempts = job[k].attempts
      BY DEF JobsOK, JobRow
    <3>3. job' = [job EXCEPT ![k] = row] /\ job[k].state = "active"
      BY <2>3, <3>1 DEF Stall
    <3> HIDE DEF row
    <3> QED BY <2>1, <3>2, <3>3 DEF JobsOK, OwnedIsActive
  <2> QED BY <1>5, <2>2, <2>3
<1>6. ASSUME NEW w \in Workers, NEW k \in Keys, TakeJob(w, k)
      PROVE  RowsOK' /\ JobsOK' /\ WorkersOK' /\ RestOK'
  <2>1. RowsOK' /\ RestOK'
    BY <1>6 DEF TakeJob, RowsOK, Rows!ScheduleTypeOK, RestOK
  <2>2. JobsOK'
    <3> DEFINE row == [job[k] EXCEPT !.state = "active", !.owner = w]
    <3>1. row \in JobRow /\ row.state = "active" /\ row.attempts = job[k].attempts
      BY DEF JobsOK, JobRow
    <3>2. job' = [job EXCEPT ![k] = row] /\ job[k].state = "waiting"
      BY <1>6 DEF TakeJob
    <3> HIDE DEF row
    <3> QED BY <3>1, <3>2 DEF JobsOK, OwnedIsActive
  <2>3. WorkersOK'
    <3> DEFINE taken == [Idle EXCEPT !.pc = "taken", !.key = k, !.on = today]
    <3>1. taken \in WorkerState /\ taken.key = k /\ taken.on = today
      BY IdleType DEF WorkerState, RowsOK, Rows!ScheduleTypeOK, Idle
    <3>2. worker' = [worker EXCEPT ![w] = taken] /\ today' = today /\ today \in Nat
      BY <1>6 DEF TakeJob, RowsOK, Rows!ScheduleTypeOK
    <3> HIDE DEF taken
    <3> QED BY <3>1, <3>2 DEF WorkersOK, BusyHasJob
  <2> QED BY <2>1, <2>2, <2>3
<1>7. ASSUME NEW w \in Workers, SkipRun(w) \/ CompleteRun(w)
      PROVE  RowsOK' /\ JobsOK' /\ WorkersOK' /\ RestOK'
  <2> DEFINE k == worker[w].key
  <2>1. k \in Keys /\ k[1] \in Schedules
    BY <1>7 DEF SkipRun, CompleteRun, WorkersOK, BusyHasJob, Keys
  <2>2. job' = Done(w, k) /\ worker' = [worker EXCEPT ![w] = Idle] /\ today' = today
        /\ UNCHANGED <<issued, announced, swept, editing, edits, faults>>
    BY <1>7 DEF SkipRun, CompleteRun, Rows!Complete
  <2>3. JobsOK' /\ WorkersOK' /\ RestOK'
    BY <2>1, <2>2, DoneKeepsJobs, IdleKeepsWorkers DEF RestOK
  <2>4. RowsOK'
    <3>1. schedule' = schedule
          \/ schedule' = [schedule EXCEPT ![k[1]] = [schedule[k[1]] EXCEPT !.status = "completed"]]
      BY <1>7 DEF SkipRun, CompleteRun, Rows!Complete
    <3>2. schedule[k[1]] \in Rows!ScheduleRow /\ schedule \in [Schedules -> Rows!ScheduleRow]
      BY <2>1 DEF RowsOK, Rows!ScheduleTypeOK
    <3>3. [schedule[k[1]] EXCEPT !.status = "completed"] \in Rows!ScheduleRow
      BY <3>2, StatusType
    <3>4. schedule' \in [Schedules -> Rows!ScheduleRow]
      BY <2>1, <3>1, <3>2, <3>3, RowReplaced
    <3> QED BY <2>2, <3>4 DEF RowsOK, Rows!ScheduleTypeOK
  <2> QED BY <2>3, <2>4
<1>8. ASSUME NEW w \in Workers, LockSchedule(w)
      PROVE  RowsOK' /\ JobsOK' /\ WorkersOK' /\ RestOK'
  <2>1. RowsOK' /\ JobsOK' /\ RestOK'
    BY <1>8 DEF LockSchedule, RowsOK, Rows!ScheduleTypeOK, JobsOK, OwnedIsActive, RestOK
  <2> DEFINE row == schedule[worker[w].key[1]]
             held == [worker[w] EXCEPT !.pc = "writing", !.row = row]
  <2>2. worker[w] \in WorkerState /\ worker[w].key \in Keys /\ row \in Rows!ScheduleRow
    BY <1>8 DEF LockSchedule, WorkersOK, BusyHasJob, Keys, RowsOK, Rows!ScheduleTypeOK
  <2>3. held \in WorkerState /\ held.key = worker[w].key /\ held.on = worker[w].on
    BY <2>2 DEF WorkerState
  <2>4. worker' = [worker EXCEPT ![w] = held] /\ today' = today /\ worker[w].pc # "idle"
    BY <1>8 DEF LockSchedule
  <2> HIDE DEF held
  <2> QED BY <2>1, <2>3, <2>4 DEF WorkersOK, BusyHasJob
<1>9. ASSUME NEW w \in Workers, CommitGeneration(w)
      PROVE  RowsOK' /\ JobsOK' /\ WorkersOK' /\ RestOK'
  <2>1. RowsOK' /\ today' = today
    BY <1>9, CommitRowType
  <2>2. JobsOK' /\ RestOK'
    BY <1>9 DEF CommitGeneration, JobsOK, OwnedIsActive, RestOK
  <2> DEFINE n == Len(issued[worker[w].key[1]]) + 1
             told == [worker[w] EXCEPT !.pc = "announcing", !.row = Rows!NoSchedule,
                                       !.invoice = n]
  <2>3. worker[w] \in WorkerState /\ worker[w].key[1] \in Schedules
    BY <1>9 DEF CommitGeneration, WorkersOK, BusyHasJob, Keys
  <2>4. n \in Nat
    BY <2>3 DEF RowsOK, Rows!ScheduleTypeOK
  <2>5. Rows!NoSchedule \in Rows!ScheduleRow
    BY DEF Rows!NoSchedule, Rows!ScheduleRow
  <2>6. worker' = [worker EXCEPT ![w] = told] /\ worker[w].pc # "idle"
    BY <1>9 DEF CommitGeneration
  <2> HIDE DEF n
  <2>7. told \in WorkerState /\ told.key = worker[w].key /\ told.on = worker[w].on
    BY <2>3, <2>4, <2>5 DEF WorkerState
  <2> HIDE DEF told
  <2> QED BY <2>1, <2>2, <2>6, <2>7 DEF WorkersOK, BusyHasJob
<1>10. ASSUME NEW w \in Workers, AnnounceGeneration(w)
       PROVE  RowsOK' /\ JobsOK' /\ WorkersOK' /\ RestOK'
  <2> DEFINE k == worker[w].key
  <2>1. k \in Keys /\ k[1] \in Schedules /\ worker[w].invoice \in Nat
    BY <1>10 DEF AnnounceGeneration, WorkersOK, BusyHasJob, Keys, WorkerState
  <2>2. job' = Done(w, k) /\ worker' = [worker EXCEPT ![w] = Idle]
        /\ UNCHANGED <<today, schedule, issued, swept, editing, edits>>
    BY <1>10 DEF AnnounceGeneration
  <2>3. JobsOK' /\ WorkersOK' /\ RowsOK'
    BY <2>1, <2>2, DoneKeepsJobs, IdleKeepsWorkers DEF RowsOK, Rows!ScheduleTypeOK
  <2>4. RestOK'
    BY <1>10, <2>1, <2>2 DEF AnnounceGeneration, Enqueued, RestOK
  <2> QED BY <2>3, <2>4
<1>11. ASSUME NEW w \in Workers, FailAttempt(w) \/ Crash(w)
       PROVE  RowsOK' /\ JobsOK' /\ WorkersOK' /\ RestOK'
  <2> DEFINE k == worker[w].key
             made == job[k].attempts + 1
  <2>1. k \in Keys
    BY <1>11 DEF FailAttempt, Crash, WorkersOK, BusyHasJob
  <2>2. worker' = [worker EXCEPT ![w] = Idle] /\ faults' = faults + 1 /\ faults < MaxFaults
        /\ UNCHANGED <<today, schedule, issued, announced, swept, editing, edits>>
    BY <1>11 DEF FailAttempt, Crash
  <2>3. WorkersOK' /\ RowsOK' /\ RestOK'
    <3>1. WorkersOK' /\ RowsOK'
      BY <2>2, IdleKeepsWorkers DEF RowsOK, Rows!ScheduleTypeOK
    <3>2. faults' \in 0..MaxFaults
      BY <2>2 DEF RestOK
    <3> QED BY <2>2, <3>1, <3>2, Zenon DEF RestOK
  <2>4. job[k] \in JobRow /\ (job[k].owner = w => job[k].state = "active" /\ made \in 0..MaxAttempts)
    BY <2>1 DEF JobsOK, OwnedIsActive, JobRow
  <2>5. JobsOK'
    <3>1. CASE FailAttempt(w)
      <4> DEFINE st == IF made >= MaxAttempts THEN "failed" ELSE "waiting"
                 row == [job[k] EXCEPT !.owner = Null, !.attempts = made, !.age = 0, !.state = st]
      <4>1. st \in {"failed", "waiting"} /\ (st = "waiting" /\ made \in Nat => made < MaxAttempts)
        OBVIOUS
      <4>2. job' = Left(w, k, row)
        BY <3>1 DEF FailAttempt
      <4> HIDE DEF st, made
      <4>3. job[k].owner = w => /\ row \in JobRow /\ row.owner = Null
                                /\ row.state = st /\ row.attempts = made
        BY <2>4, <4>1 DEF JobRow
      <4> HIDE DEF row
      <4> QED BY <2>1, <2>4, <4>1, <4>2, <4>3, LeftKeepsJobs
    <3>2. CASE Crash(w)
      <4> DEFINE row == [job[k] EXCEPT !.owner = Null]
      <4>1. job' = Left(w, k, row)
        BY <3>2 DEF Crash
      <4>2. row \in JobRow /\ row.owner = Null
            /\ row.state = job[k].state /\ row.attempts = job[k].attempts
        BY <2>4 DEF JobRow
      <4> HIDE DEF row
      <4> QED BY <2>1, <4>1, <4>2, LeftKeepsJobs DEF JobsOK
    <3> QED BY <1>11, <3>1, <3>2
  <2> QED BY <2>3, <2>5
<1>12. CASE UNCHANGED vars
  BY <1>12 DEF vars, queue, RowsOK, Rows!ScheduleTypeOK, JobsOK, OwnedIsActive, WorkersOK,
               BusyHasJob, RestOK
<1> QED BY <1>1, <1>2, <1>3, <1>4, <1>5, <1>6, <1>7, <1>8, <1>9, <1>10, <1>11, <1>12
        DEF Next, Work, Run

-----------------------------------------------------------------------------
\* The row lock.

LEMMA LockInit == Init => LockInv
BY DEF Init, Idle, LockInv, WriterHasTheRow, OneWriter

\* A step that starts no writing and leaves alone the rows being written.
LEMMA LocksRespected ==
  ASSUME LockInv,
         \A w \in Workers : worker'[w].pc = "writing" =>
           worker'[w] = worker[w] /\ schedule'[worker[w].key[1]] = schedule[worker[w].key[1]]
  PROVE  LockInv'
<1>1. WriterHasTheRow'
  BY DEF LockInv, WriterHasTheRow
<1>2. OneWriter'
  BY DEF LockInv, OneWriter
<1> QED BY <1>1, <1>2 DEF LockInv

LEMMA UserLeavesOthers ==
  ASSUME NEW s \in Schedules, Request(s) \/ UpdateSchedule(s), TypeInv
  PROVE  /\ ~Locked(s) /\ UNCHANGED worker
         /\ \A t \in Schedules : t # s => schedule'[t] = schedule[t]
BY DEF Request, UpdateSchedule, queue, Rows!CreateSchedule, Rows!UpdateSchedule,
       Rows!ChangeScheduleStatus, Rows!SoftDeleteSchedule, Rows!RestoreSchedule, TypeInv, TypeOK,
       Rows!ScheduleTypeOK

\* What a writer commits is the row advanced.
LEMMA CommitAdvances ==
  ASSUME TypeInv, LockInv, NEW w \in Workers, CommitGeneration(w),
         NEW s, s = worker[w].key[1]
  PROVE  /\ s \in Schedules /\ ~schedule[s].trashed /\ Rows!Generates(schedule[s], worker[w].on)
         /\ schedule' = [schedule EXCEPT ![s] = Rows!Advanced(schedule[s])]
         /\ issued' = [issued EXCEPT ![s] = Append(issued[s], schedule[s].nextRun)]
<1>1. /\ s \in Schedules /\ schedule[s] \in Rows!ScheduleRow
      /\ worker[w].row = schedule[s] /\ ~schedule[s].trashed
      /\ Rows!Generates(schedule[s], worker[w].on)
  BY DEF CommitGeneration, TypeInv, TypeOK, BusyHasJob, Keys, LockInv, WriterHasTheRow,
         Rows!ScheduleTypeOK
<1> DEFINE row == schedule[s]
           next == Rows!Advanced(row)
<1>2. schedule' = [schedule EXCEPT ![s] = [row EXCEPT !.nextRun = next.nextRun,
                     !.generated = next.generated, !.status = next.status]]
      /\ issued' = [issued EXCEPT ![s] = Append(issued[s], row.nextRun)]
  BY <1>1 DEF CommitGeneration
<1>3. next \in Rows!ScheduleRow
  BY <1>1, AdvancedType
<1>4. next.endAfter = row.endAfter /\ next.endBy = row.endBy /\ next.trashed = row.trashed
  BY <1>1 DEF Rows!Advanced, Rows!ScheduleRow
<1> HIDE DEF next
<1>5. [row EXCEPT !.nextRun = next.nextRun, !.generated = next.generated,
                  !.status = next.status] = next
  BY <1>1, <1>3, <1>4 DEF Rows!ScheduleRow
<1> QED BY <1>1, <1>2, <1>5 DEF next

LEMMA LockStep ==
  ASSUME TypeInv, LockInv, [Next]_vars
  PROVE  LockInv'
<1>1. ASSUME NEW s \in Schedules, Request(s) \/ UpdateSchedule(s)
      PROVE  LockInv'
  <2>1. ~Locked(s) /\ UNCHANGED worker /\ \A t \in Schedules : t # s => schedule'[t] = schedule[t]
    BY <1>1, UserLeavesOthers
  <2>2. ASSUME NEW w \in Workers, worker[w].pc = "writing"
        PROVE  worker[w].key[1] \in Schedules /\ worker[w].key[1] # s
    BY <2>1, <2>2 DEF Locked, TypeInv, BusyHasJob, Keys
  <2> QED BY <2>1, <2>2, LocksRespected
<1>2. ASSUME NEW s \in Schedules, ReadSchedule(s) PROVE LockInv'
  BY <1>2, LocksRespected DEF ReadSchedule, queue
<1>3. CASE NextDay
  BY <1>3, LocksRespected DEF NextDay, Rows!NextDay
<1>4. CASE RunScheduleSweep
  BY <1>4, LocksRespected DEF RunScheduleSweep
<1>5. ASSUME NEW k \in Keys, RemoveRetained(k) \/ Stall(k) PROVE LockInv'
  BY <1>5, LocksRespected DEF RemoveRetained, Stall
<1>6. ASSUME NEW w \in Workers, NEW k \in Keys, TakeJob(w, k) PROVE LockInv'
  <2>1. UNCHANGED schedule /\ worker' = [worker EXCEPT ![w] = worker'[w]]
        /\ worker'[w].pc = "taken"
    BY <1>6 DEF TakeJob, TypeInv, TypeOK, Idle
  <2> QED BY <2>1, LocksRespected DEF TypeInv, TypeOK
<1>7. ASSUME NEW w \in Workers, SkipRun(w) \/ AnnounceGeneration(w) \/ FailAttempt(w) \/ Crash(w)
      PROVE  LockInv'
  <2>1. UNCHANGED schedule /\ worker' = [worker EXCEPT ![w] = Idle] /\ Idle.pc = "idle"
    BY <1>7, IdleType DEF SkipRun, AnnounceGeneration, FailAttempt, Crash
  <2> QED BY <2>1, LocksRespected DEF TypeInv, TypeOK
<1>8. ASSUME NEW w \in Workers, CompleteRun(w) PROVE LockInv'
  <2> DEFINE s == worker[w].key[1]
  <2>1. ~Locked(s) /\ worker' = [worker EXCEPT ![w] = Idle] /\ Idle.pc = "idle"
        /\ schedule' = [schedule EXCEPT ![s].status = "completed"]
    BY <1>8, IdleType DEF CompleteRun, Rows!Complete
  <2>2. ASSUME NEW v \in Workers, worker'[v].pc = "writing"
        PROVE  worker'[v] = worker[v] /\ worker[v].key[1] \in Schedules /\ worker[v].key[1] # s
    BY <2>1, <2>2 DEF Locked, TypeInv, TypeOK, BusyHasJob, Keys
  <2> QED BY <2>1, <2>2, LocksRespected DEF TypeInv, TypeOK, Rows!ScheduleTypeOK
<1>9. ASSUME NEW w \in Workers, LockSchedule(w) PROVE LockInv'
  <2> DEFINE s == worker[w].key[1]
  <2>1. ~Locked(s) /\ ~schedule[s].trashed /\ Rows!Generates(schedule[s], worker[w].on)
        /\ UNCHANGED schedule
    BY <1>9 DEF LockSchedule
  <2>2. worker[w] \in WorkerState
    BY DEF TypeInv, TypeOK
  <2>3. /\ worker'[w].row = schedule[s] /\ worker'[w].key = worker[w].key
        /\ worker'[w].on = worker[w].on
        /\ \A v \in Workers : v # w => worker'[v] = worker[v]
    BY <1>9, <2>2 DEF LockSchedule, TypeInv, TypeOK, WorkerState
  <2>4. WriterHasTheRow'
    BY <2>1, <2>3 DEF LockInv, WriterHasTheRow
  <2>5. OneWriter'
    BY <2>1, <2>3 DEF LockInv, OneWriter, Locked
  <2> QED BY <2>4, <2>5 DEF LockInv
<1>10. ASSUME NEW w \in Workers, CommitGeneration(w) PROVE LockInv'
  <2> DEFINE s == worker[w].key[1]
  <2>1. s \in Schedules /\ schedule' = [schedule EXCEPT ![s] = Rows!Advanced(schedule[s])]
    BY <1>10, CommitAdvances
  <2>2. worker[w].pc = "writing" /\ worker'[w].pc = "announcing"
        /\ \A v \in Workers : v # w => worker'[v] = worker[v]
    BY <1>10 DEF CommitGeneration, TypeInv, TypeOK, WorkerState
  <2>3. ASSUME NEW v \in Workers, worker'[v].pc = "writing"
        PROVE  worker'[v] = worker[v] /\ worker[v].key[1] \in Schedules /\ worker[v].key[1] # s
    BY <2>2, <2>3 DEF LockInv, OneWriter, TypeInv, BusyHasJob, Keys
  <2> QED BY <2>1, <2>3, LocksRespected DEF TypeInv, TypeOK, Rows!ScheduleTypeOK
<1>11. CASE UNCHANGED vars
  BY <1>11, LocksRespected DEF vars, queue
<1> QED BY <1>1, <1>2, <1>3, <1>4, <1>5, <1>6, <1>7, <1>8, <1>9, <1>10, <1>11
        DEF Next, Work, Run

-----------------------------------------------------------------------------
\* A row and its invoices.

LEMMA RowInit == Init => RowInv
BY DEF Init, Rows!Init, Rows!NoSchedule, RowInv, RowAgrees

LEMMA CreatedAgrees ==
  ASSUME NEW raised, NEW updates, RowAgrees(Rows!NoSchedule, raised, updates),
         NEW d \in Days, NEW after \in EndCounts \cup {Null}, NEW by \in Days \cup {Null},
         Rows!Submittable(d, after, by),
         NEW row, row = Rows!Submitted([Rows!NoSchedule EXCEPT !.status = "active"], d, after, by)
  PROVE  RowAgrees(row, raised, updates)
<1>1. raised = <<>>
  BY DEF RowAgrees, Rows!NoSchedule
<1>2. /\ row.status = "active" /\ row.nextRun = d /\ row.generated = 0
      /\ row.endAfter = after /\ row.endBy = by
  BY DEF Rows!Submitted, Rows!NoSchedule
<1>3. ~Rows!Ended(row)
  BY <1>2 DEF Rows!Ended, Rows!Submittable
<1> QED BY <1>1, <1>2, <1>3 DEF RowAgrees

LEMMA AdvancedAgrees ==
  ASSUME NEW row \in Rows!ScheduleRow, NEW raised \in Seq(Nat), NEW updates,
         RowAgrees(row, raised, updates), row.status = "active"
  PROVE  RowAgrees(Rows!Advanced(row), Append(raised, row.nextRun), updates)
<1> DEFINE next == [row EXCEPT !.nextRun = @ + Cadence, !.generated = @ + 1]
           last == Rows!Advanced(row)
           all == Append(raised, row.nextRun)
<1>1. /\ next.status = "active" /\ next.nextRun = row.nextRun + Cadence
      /\ next.generated = row.generated + 1
      /\ row.nextRun \in Nat /\ row.generated \in Nat
  BY DEF Rows!ScheduleRow
<1>2. last = [next EXCEPT !.status = IF Rows!Finished(next) THEN "completed" ELSE @]
  BY DEF Rows!Advanced
<1>3. /\ last.nextRun = next.nextRun /\ last.generated = next.generated
      /\ last.endAfter = next.endAfter /\ last.endBy = next.endBy
      /\ last.status = IF Rows!Finished(next) THEN "completed" ELSE "active"
  BY <1>1, <1>2 DEF Rows!ScheduleRow
<1>4. Rows!Ended(last) = Rows!Ended(next) /\ Rows!Finished(next) = Rows!Ended(next)
  BY <1>1, <1>3 DEF Rows!Ended, Rows!Finished
<1> HIDE DEF next, last
<1>5. /\ Len(all) = Len(raised) + 1 /\ all[Len(all)] = row.nextRun /\ all # <<>>
      /\ \A k \in 1..Len(raised) : all[k] = raised[k]
  BY <1>1
<1>6. last.generated = Len(all) /\ last.status # "none"
  BY <1>1, <1>3, <1>5 DEF RowAgrees
<1>7. ASSUME updates = 0
      PROVE  \A k \in 1..Len(all) - 1 : all[k + 1] = all[k] + Cadence
  <2> HIDE DEF all
  <2> TAKE k \in 1..Len(all) - 1
  <2>1. CASE k = Len(raised)
    <3>1. raised # <<>> /\ all[k] = raised[Len(raised)] /\ all[k + 1] = row.nextRun
      BY <1>5, <2>1
    <3> QED BY <3>1, <1>7 DEF RowAgrees
  <2>2. CASE k # Len(raised)
    <3>1. k \in 1..Len(raised) - 1 /\ all[k] = raised[k] /\ all[k + 1] = raised[k + 1]
      BY <1>5, <2>2
    <3> QED BY <3>1, <1>7 DEF RowAgrees
  <2> QED BY <2>1, <2>2
<1>8. last.nextRun = all[Len(all)] + Cadence
  BY <1>1, <1>3, <1>5
<1>9. /\ last.status \in {"active", "paused"} => ~Rows!Ended(last)
      /\ last.status = "completed" => Rows!Ended(last)
  BY <1>3, <1>4
<1> HIDE DEF all
<1>10. RowAgrees(last, all, updates)
  BY <1>5, <1>6, <1>7, <1>8, <1>9 DEF RowAgrees
<1> QED BY <1>10 DEF last, all

\* Nothing but the row's status and its place in the trash changes.
LEMMA RetainedAgrees ==
  ASSUME NEW row \in Rows!ScheduleRow, NEW new \in Rows!ScheduleRow, NEW raised, NEW updates,
         RowAgrees(row, raised, updates),
         new.nextRun = row.nextRun, new.generated = row.generated,
         new.endAfter = row.endAfter, new.endBy = row.endBy,
         \/ new.status = row.status
         \/ row.status \in {"active", "paused"} /\ new.status \in {"active", "paused", "cancelled"}
         \/ Rows!Finished(row) /\ new.status = "completed"
  PROVE  RowAgrees(new, raised, updates)
<1>1. Rows!Ended(new) = Rows!Ended(row)
  BY DEF Rows!Ended
<1> QED BY <1>1 DEF RowAgrees, Rows!Finished

LEMMA RowStep ==
  ASSUME TypeInv, LockInv, RowInv, [Next]_vars
  PROVE  RowInv'
<1>1. ASSUME NEW s \in Schedules, Request(s) PROVE RowInv'
  <2> USE DEF TypeInv, TypeOK, Rows!ScheduleTypeOK
  <2>1. /\ UNCHANGED <<issued, edits>> /\ schedule[s] \in Rows!ScheduleRow
        /\ RowAgrees(schedule[s], issued[s], edits[s])
        /\ \A t \in Schedules : t # s => schedule'[t] = schedule[t]
    BY <1>1, UserLeavesOthers DEF Request, RowInv, Rows!CreateSchedule,
       Rows!ChangeScheduleStatus, Rows!SoftDeleteSchedule, Rows!RestoreSchedule
  <2>2. ASSUME NEW d \in Days, NEW after \in EndCounts \cup {Null},
               NEW by \in Days \cup {Null}, Rows!CreateSchedule(s, d, after, by)
        PROVE  RowAgrees(schedule'[s], issued[s], edits[s])
    <3>1. schedule'[s] = Rows!Submitted([Rows!NoSchedule EXCEPT !.status = "active"], d, after, by)
          /\ Rows!Submittable(d, after, by) /\ schedule[s].status = "none"
      BY <2>2 DEF Rows!CreateSchedule
    <3>2. RowAgrees(Rows!NoSchedule, issued[s], edits[s])
      BY <2>1, <3>1 DEF RowAgrees, Rows!NoSchedule
    <3> QED BY <3>1, <3>2, CreatedAgrees
  <2>3. ASSUME NEW to \in {"paused", "active", "cancelled"}, Rows!ChangeScheduleStatus(s, to)
        PROVE  RowAgrees(schedule'[s], issued[s], edits[s])
    <3> DEFINE new == [schedule[s] EXCEPT !.status = to]
    <3>1. schedule'[s] = new /\ schedule[s].status \in {"active", "paused"}
      BY <2>3 DEF Rows!ChangeScheduleStatus, Rows!CanTransition
    <3>2. /\ new \in Rows!ScheduleRow /\ new.status = to
          /\ new.nextRun = schedule[s].nextRun /\ new.generated = schedule[s].generated
          /\ new.endAfter = schedule[s].endAfter /\ new.endBy = schedule[s].endBy
      BY <2>1 DEF Rows!ScheduleRow
    <3> HIDE DEF new
    <3> QED BY <2>1, <3>1, <3>2, RetainedAgrees
  <2>4. ASSUME Rows!SoftDeleteSchedule(s) \/ Rows!RestoreSchedule(s)
        PROVE  RowAgrees(schedule'[s], issued[s], edits[s])
    <3>1. /\ schedule'[s] \in Rows!ScheduleRow /\ schedule'[s].status = schedule[s].status
          /\ schedule'[s].nextRun = schedule[s].nextRun
          /\ schedule'[s].generated = schedule[s].generated
          /\ schedule'[s].endAfter = schedule[s].endAfter
          /\ schedule'[s].endBy = schedule[s].endBy
      <4>1. CASE Rows!SoftDeleteSchedule(s)
        BY <4>1, <2>1 DEF Rows!SoftDeleteSchedule, Rows!ScheduleRow
      <4>2. CASE Rows!RestoreSchedule(s)
        BY <4>2, <2>1 DEF Rows!RestoreSchedule, Rows!ScheduleRow
      <4> QED BY <2>4, <4>1, <4>2
    <3> QED BY <2>1, <3>1, RetainedAgrees
  <2> QED BY <1>1, <2>1, <2>2, <2>3, <2>4 DEF Request, RowInv
<1>2. ASSUME NEW s \in Schedules, UpdateSchedule(s) PROVE RowInv'
  <2> PICK d \in Days, after \in EndCounts \cup {Null}, by \in Days \cup {Null} :
        Rows!UpdateSchedule(s, d, after, by)
    BY <1>2 DEF UpdateSchedule
  <2>1. /\ schedule' = [schedule EXCEPT ![s] = Rows!Submitted(schedule[s], d, after, by)]
        /\ UNCHANGED issued /\ edits' = [edits EXCEPT ![s] = @ + 1]
        /\ schedule[s].status # "none"
    BY <1>2 DEF Rows!UpdateSchedule, UpdateSchedule, Rows!Live
  <2>2. /\ schedule'[s].status = schedule[s].status
        /\ schedule'[s].generated = schedule[s].generated /\ edits'[s] # 0
    BY <2>1 DEF Rows!Submitted, TypeInv, TypeOK, Rows!ScheduleTypeOK, Rows!ScheduleRow
  <2>3. RowAgrees(schedule'[s], issued'[s], edits'[s])
    BY <2>1, <2>2 DEF RowInv, RowAgrees
  <2> QED BY <2>1, <2>3 DEF RowInv, TypeInv, TypeOK, Rows!ScheduleTypeOK
<1>3. ASSUME NEW w \in Workers, CompleteRun(w) PROVE RowInv'
  <2> DEFINE s == worker[w].key[1]
             new == [schedule[s] EXCEPT !.status = "completed"]
  <2>1. /\ s \in Schedules /\ schedule[s] \in Rows!ScheduleRow /\ Rows!Finished(schedule[s])
        /\ schedule' = [schedule EXCEPT ![s] = new] /\ UNCHANGED <<issued, edits>>
    BY <1>3 DEF CompleteRun, Rows!Complete, TypeInv, TypeOK, Rows!ScheduleTypeOK, BusyHasJob, Keys
  <2>2. /\ new \in Rows!ScheduleRow /\ new.status = "completed"
        /\ new.nextRun = schedule[s].nextRun /\ new.generated = schedule[s].generated
        /\ new.endAfter = schedule[s].endAfter /\ new.endBy = schedule[s].endBy
    BY <2>1 DEF Rows!ScheduleRow
  <2> HIDE DEF new
  <2>3. RowAgrees(new, issued[s], edits[s])
    BY <2>1, <2>2, RetainedAgrees DEF RowInv
  <2> QED BY <2>1, <2>3 DEF RowInv, TypeInv, TypeOK, Rows!ScheduleTypeOK
<1>4. ASSUME NEW w \in Workers, CommitGeneration(w) PROVE RowInv'
  <2> DEFINE s == worker[w].key[1]
  <2>1. /\ s \in Schedules /\ Rows!Generates(schedule[s], worker[w].on)
        /\ schedule' = [schedule EXCEPT ![s] = Rows!Advanced(schedule[s])]
        /\ issued' = [issued EXCEPT ![s] = Append(issued[s], schedule[s].nextRun)]
        /\ UNCHANGED edits
    BY <1>4, CommitAdvances DEF CommitGeneration
  <2>2. RowAgrees(Rows!Advanced(schedule[s]), Append(issued[s], schedule[s].nextRun), edits[s])
    BY <2>1, AdvancedAgrees DEF RowInv, TypeInv, TypeOK, Rows!ScheduleTypeOK, Rows!Generates
  <2> QED BY <2>1, <2>2 DEF RowInv, TypeInv, TypeOK, Rows!ScheduleTypeOK
<1>5. CASE UNCHANGED <<schedule, issued, edits>>
  BY <1>5 DEF RowInv
<1>6. \/ \E s \in Schedules : Request(s) \/ UpdateSchedule(s)
      \/ \E w \in Workers : CompleteRun(w) \/ CommitGeneration(w)
      \/ UNCHANGED <<schedule, issued, edits>>
  BY DEF Next, Work, Run, ReadSchedule, NextDay, Rows!NextDay, RunScheduleSweep, RemoveRetained,
         Stall, TakeJob, SkipRun, LockSchedule, AnnounceGeneration, FailAttempt, Crash, vars
<1> QED BY <1>1, <1>2, <1>3, <1>4, <1>5, <1>6

LEMMA Inductive == Spec => []IInv
<1>1. Init => IInv
  BY TypeInit, LockInit, RowInit DEF IInv
<1>2. IInv /\ [Next]_vars => IInv'
  BY TypeStep, LockStep, RowStep DEF IInv
<1> QED BY <1>1, <1>2, PTL DEF Spec

-----------------------------------------------------------------------------
\* Every reachable state is well typed.
THEOREM TypeCorrect == Spec => []TypeOK
<1>1. IInv => TypeOK
  BY DEF IInv, TypeInv
<1> QED BY <1>1, Inductive, PTL

\* The counter of a schedule is the number of invoices raised from it, through every retry,
\* stall, crash and edit.
THEOREM CounterIsExact == Spec => []CounterCountsInvoices
<1>1. IInv => CounterCountsInvoices
  BY DEF IInv, RowInv, RowAgrees, CounterCountsInvoices, Rows!CounterCountsInvoices
<1> QED BY <1>1, Inductive, PTL

\* An unedited schedule's invoices are one period apart: none lost, none twice.
THEOREM OccurrencesAreExact == Spec => []NoOccurrenceLostOrRepeated
<1>1. IInv => NoOccurrenceLostOrRepeated
  BY DEF IInv, RowInv, RowAgrees, NoOccurrenceLostOrRepeated
<1> QED BY <1>1, Inductive, PTL

\* An unedited schedule closes with its last occurrence.
THEOREM ClosesOnTime == Spec => []EndsWithLastOccurrence
<1>1. IInv => EndsWithLastOccurrence
  BY DEF IInv, RowInv, RowAgrees, EndsWithLastOccurrence
<1> QED BY <1>1, Inductive, PTL

\* The queue, its workers and their transactions implement the schedule as one row that
\* raises an invoice and moves on in one step.
THEOREM Implementation == Spec => ImplementsSchedule
<1>1. Init => Rows!Init
  BY DEF Init
<1>2. IInv /\ [Next]_vars => [Rows!Next]_(Rows!vars)
  <2> SUFFICES ASSUME IInv, [Next]_vars PROVE [Rows!Next]_(Rows!vars)
    OBVIOUS
  <2>1. ASSUME NEW s \in Schedules, Request(s) \/ UpdateSchedule(s)
        PROVE  Rows!Next
    <3>1. Rows!UserStep(s)
      BY <2>1 DEF Request, UpdateSchedule, Rows!UserStep
    <3> QED BY <3>1 DEF Rows!Next
  <2>2. ASSUME NEW w \in Workers, CompleteRun(w)
        PROVE  Rows!Next
    <3>1. worker[w].key[1] \in Schedules
      BY <2>2 DEF CompleteRun, IInv, TypeInv, BusyHasJob, Keys
    <3> QED BY <2>2, <3>1 DEF CompleteRun, Rows!Next
  <2>3. ASSUME NEW w \in Workers, CommitGeneration(w)
        PROVE  Rows!Next
    <3> DEFINE s == worker[w].key[1]
    <3>1. /\ s \in Schedules /\ ~schedule[s].trashed /\ Rows!Generates(schedule[s], worker[w].on)
          /\ schedule' = [schedule EXCEPT ![s] = Rows!Advanced(schedule[s])]
          /\ issued' = [issued EXCEPT ![s] = Append(issued[s], schedule[s].nextRun)]
      BY <2>3, CommitAdvances DEF IInv
    <3>2. today' = today /\ worker[w].on <= today /\ worker[w].on \in Nat /\ today \in Nat
          /\ schedule[s].nextRun \in Nat
      BY <2>3, <3>1 DEF CommitGeneration, IInv, TypeInv, TypeOK, BusyHasJob, WorkerState,
         Rows!ScheduleTypeOK, Rows!ScheduleRow
    <3>3. Rows!Generates(schedule[s], today)
      BY <3>1, <3>2 DEF Rows!Generates
    <3>4. Rows!Generate(s)
      BY <3>1, <3>2, <3>3 DEF Rows!Generate
    <3> QED BY <3>1, <3>4 DEF Rows!Next
  <2>4. CASE NextDay
    BY <2>4 DEF NextDay, Rows!Next, Rows!vars
  <2>5. CASE UNCHANGED <<today, schedule, issued>>
    BY <2>5 DEF Rows!vars
  <2>6. \/ \E s \in Schedules : Request(s) \/ UpdateSchedule(s)
        \/ \E w \in Workers : CompleteRun(w) \/ CommitGeneration(w)
        \/ NextDay \/ UNCHANGED <<today, schedule, issued>>
    BY DEF Next, Work, Run, ReadSchedule, RunScheduleSweep, RemoveRetained, Stall, TakeJob,
           SkipRun, LockSchedule, AnnounceGeneration, FailAttempt, Crash, vars
  <2> QED BY <2>1, <2>2, <2>3, <2>4, <2>5, <2>6
<1> QED BY <1>1, <1>2, Inductive, PTL DEF Spec, ImplementsSchedule, Rows!Spec
=============================================================================
