-------------------------- MODULE MCWebhookDelivery --------------------------
(***************************************************************************)
(* A small instance of WebhookDelivery for TLC.                            *)
(***************************************************************************)
EXTENDS WebhookDelivery, TLC

\* Workers and deliveries are interchangeable; the actors of both kinds move with them.
Symmetric == Permutations(Workers) \cup Permutations(Deliveries)
=============================================================================
