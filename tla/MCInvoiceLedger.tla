-------------------------- MODULE MCInvoiceLedger ---------------------------
(***************************************************************************)
(* A small instance of InvoiceLedger for TLC.                              *)
(***************************************************************************)
EXTENDS InvoiceLedger, TLC

CONSTANTS i1, k1

\* Every intent is for the first invoice and one cent.
MCIntentInvoice == [k \in Intents |-> i1]
MCIntentAmount  == [k \in Intents |-> 1]
=============================================================================
