-------------------------- MODULE RecurringSchedule --------------------------
(***************************************************************************)
(* What a recurring invoice promises, one row of recurring_invoices and    *)
(* the invoices raised from it: an invoice is raised only for the          *)
(* occurrence the schedule stands at, when it is due and owed, and raising *)
(* it moves the schedule on, in one step.  Nothing here says how:          *)
(* RecurringGeneration adds the queue, the workers and the transactions    *)
(* that implement it.                                                      *)
(*                                                                         *)
(* A day is a number.  Cadence is the length of a period in days.          *)
(***************************************************************************)
EXTENDS Integers, Sequences

CONSTANTS Schedules,  \* the rows that may ever exist
          Days,       \* the days a form may submit and the calendar may reach
          EndCounts,  \* the numbers of occurrences a form may end a schedule after
          Cadence, Null

VARIABLES today, schedule,
          issued  \* for each schedule, the days of the invoices raised from it, in order
vars == <<today, schedule, issued>>

ScheduleRow == [status : {"none", "active", "paused", "completed", "cancelled"},
                nextRun : Nat, generated : Nat,
                endAfter : Nat \cup {Null}, endBy : Nat \cup {Null}, trashed : BOOLEAN]

NoSchedule == [status |-> "none", nextRun |-> 0, generated |-> 0,
               endAfter |-> Null, endBy |-> Null, trashed |-> FALSE]

Live(s)     == schedule[s].status # "none" /\ ~schedule[s].trashed
Terminal(s) == schedule[s].status \in {"completed", "cancelled"}

\* toScheduleColumns: at most one of the two end conditions is set.
Submitted(row, d, after, by) ==
  [row EXCEPT !.nextRun = d, !.endAfter = after, !.endBy = by]

Submittable(d, after, by) == (after = Null \/ by = Null) /\ (by # Null => by >= d)

\* shouldGenerateInvoice: the end conditions come before due-ness.
Ended(row) ==
  \/ row.endAfter # Null /\ row.generated >= row.endAfter
  \/ row.endBy # Null /\ row.nextRun > row.endBy

Finished(row)      == row.status = "active" /\ Ended(row)
Generates(row, on) == row.status = "active" /\ ~Ended(row) /\ row.nextRun <= on

\* Mutant: the end condition is left for a later run to notice.
AdvancedOpen(row) == [row EXCEPT !.nextRun = @ + Cadence, !.generated = @ + 1]

\* What a run leaves behind: the next occurrence, counted from the one just billed, and a
\* schedule already closed if that was its last.
Advanced(row) ==
  LET next == [row EXCEPT !.nextRun = @ + Cadence, !.generated = @ + 1]
  IN  [next EXCEPT !.status = IF Finished(next) THEN "completed" ELSE @]

-----------------------------------------------------------------------------
Init ==
  /\ today = 0
  /\ schedule = [s \in Schedules |-> NoSchedule]
  /\ issued = [s \in Schedules |-> <<>>]

NextDay ==
  /\ today + 1 \in Days
  /\ today' = today + 1
  /\ UNCHANGED <<schedule, issued>>

\* createRecurringInvoice.
CreateSchedule(s, d, after, by) ==
  /\ schedule[s].status = "none"
  /\ Submittable(d, after, by)
  /\ schedule' = [schedule EXCEPT ![s] =
                    Submitted([NoSchedule EXCEPT !.status = "active"], d, after, by)]
  /\ UNCHANGED <<today, issued>>

\* updateRecurringInvoice's UPDATE: the row may have become terminal since it was read.
UpdateSchedule(s, d, after, by) ==
  /\ Live(s)
  /\ Submittable(d, after, by)
  /\ schedule' = [schedule EXCEPT ![s] = Submitted(@, d, after, by)]
  /\ UNCHANGED <<today, issued>>

\* canTransitionRecurringInvoiceStatus, for the transitions a user may ask for.
CanTransition(from, to) ==
  \/ from = "active" /\ to \in {"paused", "cancelled"}
  \/ from = "paused" /\ to \in {"active", "cancelled"}

\* pauseRecurringInvoice, resumeRecurringInvoice and cancelRecurringInvoice: the status the
\* decision was taken on is a condition of the UPDATE.
ChangeScheduleStatus(s, to) ==
  /\ Live(s)
  /\ CanTransition(schedule[s].status, to)
  /\ schedule' = [schedule EXCEPT ![s].status = to]
  /\ UNCHANGED <<today, issued>>

SoftDeleteSchedule(s) ==
  /\ Live(s)
  /\ schedule' = [schedule EXCEPT ![s].trashed = TRUE]
  /\ UNCHANGED <<today, issued>>

RestoreSchedule(s) ==
  /\ schedule[s].trashed
  /\ schedule' = [schedule EXCEPT ![s].trashed = FALSE]
  /\ UNCHANGED <<today, issued>>

\* A run that finds the end condition met closes the schedule ...
Complete(s) ==
  /\ ~schedule[s].trashed /\ Finished(schedule[s])
  /\ schedule' = [schedule EXCEPT ![s].status = "completed"]
  /\ UNCHANGED <<today, issued>>

\* ... and one that finds it due raises the invoice and moves it on.
Generate(s) ==
  /\ ~schedule[s].trashed /\ Generates(schedule[s], today)
  /\ issued' = [issued EXCEPT ![s] = Append(@, schedule[s].nextRun)]
  /\ schedule' = [schedule EXCEPT ![s] = Advanced(@)]
  /\ UNCHANGED today

UserStep(s) ==
  \/ \E d \in Days, after \in EndCounts \cup {Null}, by \in Days \cup {Null} :
       CreateSchedule(s, d, after, by) \/ UpdateSchedule(s, d, after, by)
  \/ \E to \in {"paused", "active", "cancelled"} : ChangeScheduleStatus(s, to)
  \/ SoftDeleteSchedule(s) \/ RestoreSchedule(s)

Next == NextDay \/ \E s \in Schedules : UserStep(s) \/ Complete(s) \/ Generate(s)

Spec == Init /\ [][Next]_vars

-----------------------------------------------------------------------------
\* Every column holds a value of its type.
ScheduleTypeOK ==
  /\ today \in Days
  /\ schedule \in [Schedules -> ScheduleRow]
  /\ issued \in [Schedules -> Seq(Nat)]

\* occurrences_generated counts the invoices raised, whoever raised them and however the
\* schedule was edited in between.
CounterCountsInvoices == \A s \in Schedules : schedule[s].generated = Len(issued[s])
=============================================================================
