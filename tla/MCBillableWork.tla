---------------------------- MODULE MCBillableWork ----------------------------
(***************************************************************************)
(* Small instances of BillableWork for TLC.                                *)
(***************************************************************************)
EXTENDS BillableWork, TLC

\* Rows and requests are interchangeable.
Symmetric == Permutations(TimeEntries) \cup Permutations(Invoices) \cup Permutations(Requests)
=============================================================================
