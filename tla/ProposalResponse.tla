--------------------------- MODULE ProposalResponse ---------------------------
(***************************************************************************)
(* A proposal from its draft to the client's answer.  The client asks for  *)
(* a code for one of two actions, is mailed it, and answers by typing it.  *)
(* The owner edits, sends, trashes and withdraws meanwhile.                *)
(*                                                                         *)
(* Requests run side by side in the web process.  A step is a transaction, *)
(* a single statement, or a call to the mail provider; issuing a code is   *)
(* two statements in one transaction, and each sees what was committed     *)
(* when it began (READ COMMITTED).  A request may die between two steps.   *)
(***************************************************************************)
EXTENDS Integers, FiniteSets

CONSTANTS
  Proposals, Requests, Null,
  Answers,    \* accepted and rejected
  Days,       \* the calendar
  Ends,       \* what valid_until may be given as: days, and Null
  ValidFor,   \* settings.proposalValidityDays; 0 leaves the proposal open
  MaxTries,   \* PROPOSAL_OTP_MAX_ATTEMPTS
  MaxCodes,   \* bound: codes ever issued
  MaxEdits,   \* bound: edits of a draft, and of the link and the trash of what was sent
  MaxFaults   \* bound: requests that die, and mails that fail

ASSUME ProposalAssumption ==
  /\ Days \subseteq Nat /\ 0 \in Days /\ Ends \subseteq Days \cup {Null} /\ ValidFor \in Nat
  /\ MaxTries \in Nat \ {0} /\ {MaxCodes, MaxEdits, MaxFaults} \subseteq Nat
  /\ Null \notin Nat \cup Proposals \cup Answers
  /\ Answers \cap {"none", "draft", "sent"} = {}

Codes == 1..MaxCodes   \* the rows of proposal_otps, in the order of created_at
Dates == Nat \cup {Null}

VARIABLES
  today,
  proposal,    \* the rows of proposals
  code,        \* the rows of proposal_otps
  request,     \* where each request stands, and what it has read
  told,        \* audit_log: the answers recorded
  mailed,      \* the codes the provider accepted for delivery
  edited,      \* history: the valid_until last submitted for each proposal
  overwritten, \* history: proposals edited between a send's read and its write
  overlapped,  \* history: proposals for which two codes were issued at the same time
  revived,     \* history: dead codes a failed attempt has brought back to life
  stranded,    \* history: codes whose request died before it could mail or withdraw them
  edits, faults

rows    == <<today, proposal, code>>
log     == <<told, mailed>>
history == <<edited, overwritten, overlapped, revived, stranded>>
bounds  == <<edits, faults>>
vars    == <<rows, request, log, history, bounds>>

\* text stands for all a draft says but the day it is open until; linked: public_token.
Proposal   == [status : {"none", "draft", "sent"} \cup Answers, text : Nat, until : Dates,
               trashed : BOOLEAN, linked : BOOLEAN]
NoProposal == [status |-> "none", text |-> 0, until |-> Null, trashed |-> FALSE, linked |-> TRUE]

Code   == [proposal : Proposals \cup {Null}, action : Answers \cup {Null}, tries : 0..MaxTries,
           used : BOOLEAN, invalidated : BOOLEAN, expired : BOOLEAN]
NoCode == [proposal |-> Null, action |-> Null, tries |-> 0,
           used |-> FALSE, invalidated |-> FALSE, expired |-> FALSE]

\* code, tries: the row a verification has read; outstanding: the codes an issue supersedes.
Request == [pc : {"idle", "issuing", "superseded", "mailing", "withdrawing",
                  "right", "wrong", "answered", "sending"},
            proposal : Proposals \cup {Null}, action : Answers \cup {Null},
            code : Codes \cup {Null}, tries : 0..MaxTries, outstanding : SUBSET Codes,
            until : Dates]
Idle    == [pc |-> "idle", proposal |-> Null, action |-> Null, code |-> Null, tries |-> 0,
            outstanding |-> {}, until |-> Null]

Live(p)     == proposal[p].status # "none" /\ ~proposal[p].trashed
At(r, pc)   == request[r].pc = pc
Goto(r, pc) == request' = [request EXCEPT ![r].pc = pc]
Begin(r, next) == request' = [request EXCEPT ![r] = next]
Return(r)   == Begin(r, Idle)

CodesOf(p)  == {c \in Codes : code[c].proposal = p}
Unspent(c)  == ~code[c].used /\ ~code[c].invalidated
Free        == {c \in Codes : code[c] = NoCode}

\* getProposalResponseTarget: what the link leads to, and may still be answered.
Answerable(p) ==
  /\ Live(p) /\ proposal[p].linked /\ proposal[p].status = "sent"
  /\ proposal[p].until # Null => today <= proposal[p].until

\* The rows a transaction that has not committed has written.
Locked(c) == \E q \in Requests : At(q, "superseded") /\ c \in request[q].outstanding

-----------------------------------------------------------------------------
(* requestProposalOtp *)

ReadTarget(r, p, a) ==
  /\ At(r, "idle") /\ Answerable(p) /\ Free # {}
  /\ Begin(r, [Idle EXCEPT !.pc = "issuing", !.proposal = p, !.action = a])
  /\ UNCHANGED <<rows, log, history, bounds>>

\* Mutant: only the codes for the same action are superseded.
SupersedeSameAction(r) ==
  LET p == request[r].proposal
  IN  /\ At(r, "issuing") /\ Free # {}
      /\ request' = [request EXCEPT ![r].pc = "superseded", ![r].outstanding =
                       {c \in CodesOf(p) : Unspent(c) /\ code[c].action = request[r].action}]
      /\ overlapped' = IF \E q \in Requests : At(q, "superseded") /\ request[q].proposal = p
                         THEN overlapped \cup {p} ELSE overlapped
      /\ UNCHANGED <<rows, log, edited, overwritten, revived, stranded, bounds>>

\* The transaction's UPDATE: it will invalidate what is unspent now.
Supersede(r) ==
  LET p == request[r].proposal
  IN  /\ At(r, "issuing") /\ Free # {}
      /\ request' = [request EXCEPT ![r].pc = "superseded",
                                    ![r].outstanding = {c \in CodesOf(p) : Unspent(c)}]
      /\ overlapped' = IF \E q \in Requests : At(q, "superseded") /\ request[q].proposal = p
                         THEN overlapped \cup {p} ELSE overlapped
      /\ UNCHANGED <<rows, log, edited, overwritten, revived, stranded, bounds>>

\* Its INSERT and the commit.  Another transaction that waited for the same rows finds them
\* invalidated, and passes over them.
IssueCode(r) ==
  /\ At(r, "superseded")
  /\ \E new \in Free :
       /\ \A c \in Free : new <= c
       /\ code' = [c \in Codes |->
                     IF c = new THEN [NoCode EXCEPT !.proposal = request[r].proposal,
                                                    !.action = request[r].action]
                     ELSE IF c \in request[r].outstanding THEN [code[c] EXCEPT !.invalidated = TRUE]
                     ELSE code[c]]
       /\ request' = [q \in Requests |->
                        IF q = r THEN [Idle EXCEPT !.pc = "mailing", !.code = new]
                        ELSE [request[q] EXCEPT !.outstanding = @ \ request[r].outstanding]]
  /\ UNCHANGED <<today, proposal, log, history, bounds>>

\* deliverProposalOtp: the provider accepts the mail, refuses it, or accepts it and times out.
DeliverCode(r) ==
  /\ At(r, "mailing")
  /\ \/ /\ Return(r)
        /\ mailed' = mailed \cup {request[r].code}
        /\ UNCHANGED faults
     \/ /\ faults < MaxFaults
        /\ faults' = faults + 1
        /\ Goto(r, "withdrawing")
        /\ mailed' \in {mailed, mailed \cup {request[r].code}}
  /\ UNCHANGED <<rows, told, history, edits>>

\* Mutant: the code is marked whatever has become of it.
InvalidatedAnyway(c) == [code EXCEPT ![c].invalidated = TRUE]

\* A code is used or invalidated, never both (chk_proposal_otps_used_invalidated).
Invalidated(c) == [code EXCEPT ![c].invalidated = ~code[c].used]

\* invalidateProposalOtp.
WithdrawCode(r) ==
  LET c == request[r].code
  IN  /\ At(r, "withdrawing") /\ ~Locked(c)
      /\ code' = Invalidated(c)
      /\ Return(r)
      /\ UNCHANGED <<today, proposal, log, history, bounds>>

-----------------------------------------------------------------------------
(* verifyProposalOtp *)

\* findLatestProposalOtp and evaluateProposalOtp: the latest code for the action, if it is usable.
\* Only who was mailed it can type it.
FindCode(r, p, a) ==
  LET asked  == {d \in CodesOf(p) : code[d].action = a}
  IN  /\ At(r, "idle") /\ Answerable(p)
      /\ \E c \in asked :
           /\ \A d \in asked : d <= c
           /\ Unspent(c) /\ ~code[c].expired /\ code[c].tries < MaxTries
           /\ \/ Begin(r, [Idle EXCEPT !.pc = "wrong", !.code = c, !.tries = code[c].tries])
              \/ c \in mailed /\ Begin(r, [Idle EXCEPT !.pc = "right", !.proposal = p, !.action = a,
                                                      !.code = c])
      /\ UNCHANGED <<rows, log, history, bounds>>

\* countFailedProposalOtpAttempt writes the count it has read, one higher, and a fresh invalidatedAt
\* or NULL, whatever the row holds by then.
CountFailedAttempt(r) ==
  LET c == request[r].code
      attempts == request[r].tries + 1
      exhausted == attempts >= MaxTries
  IN  /\ At(r, "wrong") /\ ~Locked(c)
      /\ code' = IF exhausted /\ code[c].used THEN code
                 ELSE [code EXCEPT ![c].tries = attempts, ![c].invalidated = exhausted]
      /\ revived' = IF code[c].invalidated /\ ~exhausted THEN revived \cup {c} ELSE revived
      /\ Return(r)
      /\ UNCHANGED <<today, proposal, log, edited, overwritten, overlapped, stranded, bounds>>

\* Mutant: the code is spent even though the proposal refuses the answer.
RecordResponseInTwo(r) ==
  LET c == request[r].code
      p == request[r].proposal
  IN  /\ At(r, "right") /\ ~Locked(c)
      /\ IF Unspent(c)
           THEN /\ code' = [code EXCEPT ![c].used = TRUE]
                /\ proposal' = IF proposal[p].status = "sent" /\ Live(p)
                                 THEN [proposal EXCEPT ![p].status = request[r].action] ELSE proposal
                /\ Begin(r, [request[r] EXCEPT !.pc = "answered", !.code = Null])
           ELSE Return(r) /\ UNCHANGED <<code, proposal>>
      /\ UNCHANGED <<today, log, history, bounds>>

\* recordProposalResponse: the code and the proposal change together, or neither does.
RecordResponse(r) ==
  LET c == request[r].code
      p == request[r].proposal
  IN  /\ At(r, "right") /\ ~Locked(c)
      /\ IF Unspent(c) /\ proposal[p].status = "sent" /\ Live(p)
           THEN /\ code' = [code EXCEPT ![c].used = TRUE]
                /\ proposal' = [proposal EXCEPT ![p].status = request[r].action]
                /\ Begin(r, [request[r] EXCEPT !.pc = "answered", !.code = Null])
           ELSE Return(r) /\ UNCHANGED <<code, proposal>>
      /\ UNCHANGED <<today, log, history, bounds>>

AuditResponse(r) ==
  /\ At(r, "answered")
  /\ told' = told \cup {<<request[r].proposal, request[r].action>>}
  /\ Return(r)
  /\ UNCHANGED <<rows, mailed, history, bounds>>

\* The web process stops in the middle of a request; an open transaction is rolled back.
Die(r) ==
  /\ ~At(r, "idle") /\ faults < MaxFaults
  /\ faults' = faults + 1
  /\ stranded' = IF request[r].pc \in {"mailing", "withdrawing"}
                   THEN stranded \cup {request[r].code} ELSE stranded
  /\ Return(r)
  /\ UNCHANGED <<rows, log, edited, overwritten, overlapped, revived, edits>>

-----------------------------------------------------------------------------
(* The owner, and time. *)

Written(p, u) == [proposal EXCEPT ![p].status = "draft", ![p].text = @ + 1, ![p].until = u]

\* A read-and-check of the same guard comes before the transaction, and decides nothing.
WriteDraft(p, u, from) ==
  /\ proposal[p].status = from /\ ~proposal[p].trashed
  /\ proposal' = Written(p, u)
  /\ edited' = [edited EXCEPT ![p] = u]
  /\ overwritten' = IF \E r \in Requests : At(r, "sending") /\ request[r].proposal = p
                      THEN overwritten \cup {p} ELSE overwritten
  /\ UNCHANGED <<today, code, request, log, overlapped, revived, stranded, faults>>

Edit == edits < MaxEdits /\ edits' = edits + 1

CreateProposal(p, u) == WriteDraft(p, u, "none") /\ UNCHANGED edits

\* Mutant: the draft that was read is written, whatever has become of it.
UpdateProposalUnasked(p, u) == Edit /\ \E from \in {"draft", "sent"} : WriteDraft(p, u, from)

UpdateProposal(p, u) == Edit /\ WriteDraft(p, u, "draft")

\* sendProposal reads the draft ...
ReadDraft(r, p) ==
  /\ At(r, "idle") /\ Live(p) /\ proposal[p].status = "draft"
  /\ Begin(r, [Idle EXCEPT !.pc = "sending", !.proposal = p, !.until = proposal[p].until])
  /\ UNCHANGED <<rows, log, history, bounds>>

\* calculateProposalValidUntil.
DefaultUntil == IF ValidFor = 0 THEN Null ELSE today + ValidFor

\* Mutant: the default replaces the date the owner chose.
OpenUntilDefault(read) == DefaultUntil

OpenUntil(read) == IF read = Null THEN DefaultUntil ELSE read

\* ... and writes the date it has read, or the default.
SendProposal(r) ==
  LET p == request[r].proposal
  IN  /\ At(r, "sending")
      /\ proposal' = IF proposal[p].status = "draft" /\ Live(p)
                       THEN [proposal EXCEPT ![p].status = "sent",
                                             ![p].until = OpenUntil(request[r].until)]
                       ELSE proposal
      /\ Return(r)
      /\ UNCHANGED <<today, code, log, history, bounds>>

\* softDeleteProposal, restoreProposal; revokeProposalPublicLink, rotateProposalPublicLink.
EditProposal(p) ==
  /\ proposal[p].status # "none" /\ Edit
  /\ \/ proposal' = [proposal EXCEPT ![p].trashed = ~@]
     \/ /\ Live(p) /\ proposal[p].status # "draft"
        /\ proposal' = [proposal EXCEPT ![p].linked = ~@]
  /\ UNCHANGED <<today, code, request, log, history, faults>>

\* Only the age of a code that can still be spent matters.
ExpireCode(c) ==
  /\ code[c].proposal # Null /\ Unspent(c) /\ ~code[c].expired
  /\ code' = [code EXCEPT ![c].expired = TRUE]
  /\ UNCHANGED <<today, proposal, request, log, history, bounds>>

NextDay ==
  /\ today + 1 \in Days
  /\ today' = today + 1
  /\ UNCHANGED <<proposal, code, request, log, history, bounds>>

-----------------------------------------------------------------------------
Init ==
  /\ today = 0
  /\ proposal = [p \in Proposals |-> NoProposal]
  /\ code = [c \in Codes |-> NoCode]
  /\ request = [r \in Requests |-> Idle]
  /\ told = {} /\ mailed = {}
  /\ edited = [p \in Proposals |-> Null]
  /\ overwritten = {} /\ overlapped = {} /\ revived = {} /\ stranded = {}
  /\ edits = 0 /\ faults = 0

ClientStep(r) ==
  \/ \E p \in Proposals, a \in Answers : ReadTarget(r, p, a) \/ FindCode(r, p, a)
  \/ Supersede(r) \/ IssueCode(r) \/ DeliverCode(r) \/ WithdrawCode(r)
  \/ CountFailedAttempt(r) \/ RecordResponse(r) \/ AuditResponse(r)

OwnerStep ==
  \/ \E p \in Proposals, u \in Ends : CreateProposal(p, u) \/ UpdateProposal(p, u)
  \/ \E p \in Proposals, r \in Requests : ReadDraft(r, p)
  \/ \E r \in Requests : SendProposal(r)
  \/ \E p \in Proposals : EditProposal(p)

Next ==
  \/ \E r \in Requests : ClientStep(r) \/ Die(r)
  \/ OwnerStep
  \/ \E c \in Codes : ExpireCode(c)
  \/ NextDay

Spec == Init /\ [][Next]_vars

-----------------------------------------------------------------------------
(* Properties. *)

TypeOK ==
  /\ today \in Days
  /\ proposal \in [Proposals -> Proposal]
  /\ code \in [Codes -> Code]
  /\ request \in [Requests -> Request]
  /\ told \subseteq Proposals \X Answers
  /\ {mailed, revived, stranded} \subseteq SUBSET Codes
  /\ edited \in [Proposals -> Dates]
  /\ {overwritten, overlapped} \subseteq SUBSET Proposals
  /\ edits \in 0..MaxEdits /\ faults \in 0..MaxFaults
  /\ \A c \in Codes : ~(code[c].used /\ code[c].invalidated)

\* A code is spent exactly when its proposal is answered, one code a proposal, and on the answer it
\* was issued for: the two updates of recordProposalResponse never come apart.  And the answer the audit
\* log tells is the one that stands, whatever other requests, codes and actions were under way.
SpentExactlyWhenAnswered ==
  /\ \A p \in Proposals :
       LET spent == {c \in CodesOf(p) : code[c].used}
       IN  IF proposal[p].status \in Answers
             THEN \E c \in spent : spent = {c} /\ code[c].action = proposal[p].status
             ELSE spent = {}
  /\ \A t \in told : proposal[t[1]].status = t[2]

\* Asking again leaves one code alive, the client's to spend: unless two were issued at the same time
\* or a failed attempt brought a dead one back (countFailedProposalOtpAttempt), no proposal has two,
\* and a live code was mailed, or its request is still about to mail or to withdraw it or has died.
OneLiveCode ==
  /\ \A p \in Proposals \ overlapped :
       Cardinality({c \in CodesOf(p) \ revived : Unspent(c)}) <= 1
  /\ \A c \in Codes \ (revived \cup stranded) :
       \/ code[c] = NoCode \/ ~Unspent(c) \/ c \in mailed
       \/ \E r \in Requests : request[r].pc \in {"mailing", "withdrawing"} /\ request[r].code = c

\* A proposal is sent with the date its owner last gave it, unless that edit came between the read
\* and the write of sendProposal.
IssuedAsEdited ==
  \A p \in Proposals \ overwritten :
    proposal[p].status \notin {"none", "draft"} /\ edited[p] # Null => proposal[p].until = edited[p]

\* The abstract specification: what was issued is never rewritten, and answered once, on one code.
Issued == INSTANCE IssuedDocument WITH
  Documents <- Proposals,
  Evidence  <- Codes,
  stage     <- [p \in Proposals |-> CASE proposal[p].status = "sent" -> "issued"
                                      [] proposal[p].status \in Answers -> "closed"
                                      [] OTHER -> proposal[p].status],
  face      <- [p \in Proposals |-> <<proposal[p].text, proposal[p].until>>],
  outcome   <- [p \in Proposals |-> IF proposal[p].status \in Answers THEN proposal[p].status ELSE Null],
  evidence  <- [p \in Proposals |-> {c \in CodesOf(p) : code[c].used}]

ImplementsIssuedDocument == Issued!Spec
=============================================================================
