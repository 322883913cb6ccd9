------------------------------ MODULE CentSums ------------------------------
(***************************************************************************)
(* Sums of integer cents over a set of table rows, the model of            *)
(* `coalesce(sum(amount_cents), 0)` in the repository's queries.  A sum of *)
(* naturals is the number of pairs <<row, cent>>, so it is a cardinality   *)
(* and needs no recursion: the facts about it that the ledger's proofs     *)
(* rest on follow from the library's theorems on finite sets.              *)
(***************************************************************************)
EXTENDS Naturals, FiniteSets

\* One pair for each cent of each row of S; rows[x].amount is the row's amount.
CentsOf(S, rows) == UNION {{x} \X (1..rows[x].amount) : x \in S}

SumCents(S, rows) == Cardinality(CentsOf(S, rows))
=============================================================================
