---------------------------- MODULE IssuedDocument ----------------------------
(***************************************************************************)
(* What a proposal and a contract promise the client they are sent to.  A  *)
(* document is rewritten freely while it is a draft.  Once issued its own  *)
(* record says the same for ever, the client answers it once, and an       *)
(* answer stands on one piece of evidence: the code that was spent, or the *)
(* signature.                                                              *)
(***************************************************************************)
CONSTANTS Documents, Evidence, Answers, Null

VARIABLES
  stage,     \* "none", "draft", "issued" or "closed"
  face,      \* what the document's own record says
  outcome,   \* what it was closed with
  evidence   \* what the client's answer stands on

vars == <<stage, face, outcome, evidence>>

Init ==
  /\ stage = [d \in Documents |-> "none"]
  /\ face = [d \in Documents |-> face[d]]
  /\ outcome = [d \in Documents |-> Null]
  /\ evidence = [d \in Documents |-> {}]

\* What a document says is left open: anything, of this document alone.
Rewritten(d) == face' = [face EXCEPT ![d] = face'[d]]

Write(d) ==
  /\ stage[d] \in {"none", "draft"}
  /\ stage' = [stage EXCEPT ![d] = "draft"]
  /\ Rewritten(d)
  /\ UNCHANGED <<outcome, evidence>>

\* Issuing may still fill in a date the draft left open.
Issue(d) ==
  /\ stage[d] = "draft"
  /\ stage' = [stage EXCEPT ![d] = "issued"]
  /\ Rewritten(d)
  /\ UNCHANGED <<outcome, evidence>>

Answer(d, a, e) ==
  /\ stage[d] = "issued"
  /\ stage' = [stage EXCEPT ![d] = "closed"]
  /\ outcome' = [outcome EXCEPT ![d] = a]
  /\ evidence' = [evidence EXCEPT ![d] = {e}]
  /\ UNCHANGED face

\* The owner ends what is issued, answered or not; an answer keeps its evidence.
Terminate(d) ==
  /\ stage[d] \in {"issued", "closed"} /\ outcome[d] # "terminated"
  /\ stage' = [stage EXCEPT ![d] = "closed"]
  /\ outcome' = [outcome EXCEPT ![d] = "terminated"]
  /\ UNCHANGED <<face, evidence>>

Next ==
  \E d \in Documents :
    \/ Write(d) \/ Issue(d)
    \/ \E a \in Answers, e \in Evidence : Answer(d, a, e)
    \/ Terminate(d)

Spec == Init /\ [][Next]_vars
=============================================================================
