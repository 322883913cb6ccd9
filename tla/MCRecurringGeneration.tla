------------------------ MODULE MCRecurringGeneration ------------------------
(***************************************************************************)
(* A small instance of RecurringGeneration for TLC.                        *)
(***************************************************************************)
EXTENDS RecurringGeneration

\* The calendar: days 0 and 1.
MCDays == 0..1
=============================================================================
