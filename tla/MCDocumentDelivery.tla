-------------------------- MODULE MCDocumentDelivery --------------------------
(***************************************************************************)
(* A small instance of DocumentDelivery for TLC: an invoice due on day 0   *)
(* and a reminder for the day after.                                       *)
(***************************************************************************)
EXTENDS DocumentDelivery, TLC

MCDays       == 0..1
MCReminderOn == 0 :> Null @@ 1 :> "late"

\* Workers are interchangeable.
Symmetric == Permutations(Workers)
=============================================================================
