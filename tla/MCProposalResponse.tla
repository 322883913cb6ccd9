-------------------------- MODULE MCProposalResponse --------------------------
(***************************************************************************)
(* A small instance of ProposalResponse for TLC: one proposal, open for a  *)
(* day or two.                                                             *)
(***************************************************************************)
EXTENDS ProposalResponse, TLC

MCDays == 0..1
MCEnds == {0, Null}

\* Requests are interchangeable, and so are the two answers.
Symmetric == Permutations(Requests) \cup Permutations(Answers)
=============================================================================
