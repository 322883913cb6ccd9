--------------------------- MODULE MCContractSigning ---------------------------
(***************************************************************************)
(* A small instance of ContractSigning for TLC: one contract, which lapses *)
(* the next day; until then it is as one that never does.                  *)
(***************************************************************************)
EXTENDS ContractSigning, TLC

MCDays == 0..1
MCEnds == {0}

\* Rows, requests and workers are interchangeable.
Symmetric == Permutations(Signatures) \cup Permutations(Requests)
             \cup Permutations(Workers)
=============================================================================
