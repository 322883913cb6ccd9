------------------------ MODULE ProposalResponseProofs ------------------------
(***************************************************************************)
(* Proofs about ProposalResponse, for any proposals, requests, answers,    *)
(* days and bounds: its types, the invariants the runs check, and that it  *)
(* implements IssuedDocument.                                              *)
(*                                                                         *)
(* The argument is what a request may still rely on of what it has read.   *)
(* The proposal and the action of a code never change, so that the code a  *)
(* right answer spends is one of the proposal it answers; and the codes a  *)
(* request is about to supersede are locked, so that they are still        *)
(* unspent, and all there are, when it inserts its own.                    *)
(***************************************************************************)
EXTENDS ProposalResponse, FiniteSetTheorems, TLAPS

\* What a request that is this far has read.
Reads(q) ==
  /\ q.pc \in {"issuing", "superseded", "right", "answered"} =>
       q.proposal \in Proposals /\ q.action \in Answers
  /\ q.pc = "sending" => q.proposal \in Proposals
  /\ q.pc \in {"mailing", "withdrawing", "right", "wrong"} =>
       q.code \in Codes /\ code[q.code].proposal # Null
  /\ q.pc = "wrong" => q.tries < MaxTries
  /\ q.pc = "right" => code[q.code].proposal = q.proposal /\ code[q.code].action = q.action
  /\ q.pc = "answered" => proposal[q.proposal].status = q.action

RequestInv == \A r \in Requests : Reads(request[r])

\* The codes a request is about to supersede are unspent codes of its proposal ...
OutstandingInv ==
  \A r \in Requests : At(r, "superseded") =>
    \A c \in request[r].outstanding : Unspent(c) /\ code[c].proposal = request[r].proposal

\* ... and all of them, unless two requests issue a code of it at the same time.
SupersededInv ==
  \A r \in Requests : At(r, "superseded") /\ request[r].proposal \notin overlapped =>
    /\ \A c \in CodesOf(request[r].proposal) \ revived : Unspent(c) => c \in request[r].outstanding
    /\ \A q \in Requests :
         At(q, "superseded") /\ request[q].proposal = request[r].proposal => q = r

\* A draft carries the date its owner last gave it, and so does what a send has read of it.
DraftInv ==
  /\ \A p \in Proposals : proposal[p].status = "draft" => proposal[p].until = edited[p]
  /\ \A r \in Requests :
       LET p == request[r].proposal
       IN  At(r, "sending") /\ p \notin overwritten /\ proposal[p].status = "draft" =>
             request[r].until = edited[p]

\* SpentExactlyWhenAnswered, code by code.
SpentInv ==
  /\ \A p \in Proposals :
       IF proposal[p].status \in Answers
         THEN \E c \in Codes :
                /\ code[c].proposal = p /\ code[c].used /\ code[c].action = proposal[p].status
                /\ \A d \in Codes : code[d].proposal = p /\ code[d].used => d = c
         ELSE \A c \in Codes : ~(code[c].proposal = p /\ code[c].used)
  /\ \A t \in told : proposal[t[1]].status = t[2]

\* OneLiveCode, without counting.
OneLive ==
  \A p \in Proposals \ overlapped : \A c, d \in CodesOf(p) \ revived :
    Unspent(c) /\ Unspent(d) => c = d

LiveIsMailed ==
  \A c \in Codes \ (revived \cup stranded) :
    \/ code[c] = NoCode \/ ~Unspent(c) \/ c \in mailed
    \/ \E r \in Requests : request[r].pc \in {"mailing", "withdrawing"} /\ request[r].code = c

TypeInv  == TypeOK /\ RequestInv /\ OutstandingInv
LiveInv  == SupersededInv /\ OneLive
DatesInv == DraftInv /\ IssuedAsEdited
IInv     == TypeInv /\ SpentInv /\ LiveInv /\ LiveIsMailed /\ DatesInv

USE ProposalAssumption

-----------------------------------------------------------------------------
\* What no step takes back: the proposal and the action of a code that was issued, and an answer.
Kept ==
  /\ \A c \in Codes : code[c].proposal # Null =>
       code'[c].proposal = code[c].proposal /\ code'[c].action = code[c].action
  /\ \A p \in Proposals : proposal[p].status \in Answers => proposal'[p].status = proposal[p].status

-----------------------------------------------------------------------------
\* Types.

LEMMA CodeReplaced ==
  ASSUME code \in [Codes -> Code], NEW c \in Codes, NEW row \in Code,
         code' = [code EXCEPT ![c] = row]
  PROVE  /\ code' \in [Codes -> Code]
         /\ code'[c] = row
         /\ \A d \in Codes : d # c => code'[d] = code[d]
OBVIOUS

LEMMA ProposalReplaced ==
  ASSUME proposal \in [Proposals -> Proposal], NEW p \in Proposals, NEW row \in Proposal,
         proposal' = [proposal EXCEPT ![p] = row]
  PROVE  /\ proposal' \in [Proposals -> Proposal]
         /\ proposal'[p] = row
         /\ \A o \in Proposals : o # p => proposal'[o] = proposal[o]
OBVIOUS

LEMMA ProposalTypes ==
  ASSUME NEW row \in Proposal, NEW st \in {"none", "draft", "sent"} \cup Answers, NEW u \in Dates
  PROVE  /\ NoProposal \in Proposal
         /\ [row EXCEPT !.status = st] \in Proposal
         /\ [row EXCEPT !.status = st, !.until = u] \in Proposal
         /\ [row EXCEPT !.status = st, !.text = @ + 1, !.until = u] \in Proposal
         /\ [row EXCEPT !.trashed = ~@] \in Proposal
         /\ [row EXCEPT !.linked = ~@] \in Proposal
<1>1. NoProposal \in Proposal
  BY DEF Proposal, NoProposal, Dates
<1>2. [row EXCEPT !.status = st] \in Proposal
  BY DEF Proposal
<1>3. [row EXCEPT !.status = st, !.until = u] \in Proposal
  BY DEF Proposal
<1>4. [row EXCEPT !.status = st, !.text = @ + 1, !.until = u] \in Proposal
  <2> DEFINE moved == [row EXCEPT !.status = st]
             reworded == [moved EXCEPT !.text = @ + 1]
  <2>1. moved \in Proposal
    BY <1>2
  <2> HIDE DEF moved
  <2>2. moved.text + 1 \in Nat
    BY <2>1 DEF Proposal
  <2>3. reworded \in Proposal
    BY <2>1, <2>2 DEF Proposal
  <2> HIDE DEF reworded
  <2>4. [reworded EXCEPT !.until = u] \in Proposal
    BY <2>3 DEF Proposal
  <2>5. moved.text = row.text
    BY DEF moved, Proposal
  <2> QED BY <2>4, <2>5 DEF reworded, moved
<1>5. [row EXCEPT !.trashed = ~@] \in Proposal
  BY DEF Proposal
<1>6. [row EXCEPT !.linked = ~@] \in Proposal
  BY DEF Proposal
<1> QED BY <1>1, <1>2, <1>3, <1>4, <1>5, <1>6

LEMMA CodeTypes ==
  /\ NoCode \in Code
  /\ \A p \in Proposals, a \in Answers : [NoCode EXCEPT !.proposal = p, !.action = a] \in Code
  /\ \A row \in Code, b \in BOOLEAN :
       /\ [row EXCEPT !.invalidated = b] \in Code
       /\ [row EXCEPT !.used = b] \in Code
       /\ [row EXCEPT !.expired = b] \in Code
  /\ \A row \in Code, n \in 0..MaxTries, b \in BOOLEAN :
       [row EXCEPT !.tries = n, !.invalidated = b] \in Code
<1>1. NoCode \in Code
  BY DEF Code, NoCode
<1>2. ASSUME NEW p \in Proposals, NEW a \in Answers
      PROVE  [NoCode EXCEPT !.proposal = p, !.action = a] \in Code
  BY <1>1 DEF Code
<1>3. ASSUME NEW row \in Code, NEW b \in BOOLEAN
      PROVE  [row EXCEPT !.invalidated = b] \in Code
  BY DEF Code
<1>4. ASSUME NEW row \in Code, NEW b \in BOOLEAN
      PROVE  [row EXCEPT !.used = b] \in Code /\ [row EXCEPT !.expired = b] \in Code
  BY DEF Code
<1>5. ASSUME NEW row \in Code, NEW n \in 0..MaxTries, NEW b \in BOOLEAN
      PROVE  [row EXCEPT !.tries = n, !.invalidated = b] \in Code
  BY DEF Code
<1> QED BY <1>1, <1>2, <1>3, <1>4, <1>5

LEMMA RequestTypes ==
  /\ Idle \in Request
  /\ \A p \in Proposals, a \in Answers :
       [Idle EXCEPT !.pc = "issuing", !.proposal = p, !.action = a] \in Request
  /\ \A c \in Codes : [Idle EXCEPT !.pc = "mailing", !.code = c] \in Request
  /\ \A c \in Codes, n \in 0..MaxTries :
       [Idle EXCEPT !.pc = "wrong", !.code = c, !.tries = n] \in Request
  /\ \A p \in Proposals, a \in Answers, c \in Codes :
       [Idle EXCEPT !.pc = "right", !.proposal = p, !.action = a, !.code = c] \in Request
  /\ \A p \in Proposals, u \in Dates :
       [Idle EXCEPT !.pc = "sending", !.proposal = p, !.until = u] \in Request
<1>1. Idle \in Request
  BY DEF Request, Idle, Dates
<1>2. ASSUME NEW p \in Proposals, NEW a \in Answers
      PROVE  [Idle EXCEPT !.pc = "issuing", !.proposal = p, !.action = a] \in Request
  BY <1>1 DEF Request
<1>3. ASSUME NEW c \in Codes
      PROVE  [Idle EXCEPT !.pc = "mailing", !.code = c] \in Request
  BY <1>1 DEF Request
<1>4. ASSUME NEW c \in Codes, NEW n \in 0..MaxTries
      PROVE  [Idle EXCEPT !.pc = "wrong", !.code = c, !.tries = n] \in Request
  BY <1>1 DEF Request
<1>5. ASSUME NEW p \in Proposals, NEW a \in Answers, NEW c \in Codes
      PROVE  [Idle EXCEPT !.pc = "right", !.proposal = p, !.action = a, !.code = c] \in Request
  BY <1>1 DEF Request
<1>6. ASSUME NEW p \in Proposals, NEW u \in Dates
      PROVE  [Idle EXCEPT !.pc = "sending", !.proposal = p, !.until = u] \in Request
  BY <1>1 DEF Request
<1> QED BY <1>1, <1>2, <1>3, <1>4, <1>5, <1>6

LEMMA RequestMoved ==
  ASSUME NEW q \in Request, NEW cs \in SUBSET Codes
  PROVE  /\ [q EXCEPT !.pc = "superseded", !.outstanding = cs] \in Request
         /\ [q EXCEPT !.pc = "withdrawing"] \in Request
         /\ [q EXCEPT !.pc = "answered", !.code = Null] \in Request
         /\ [q EXCEPT !.outstanding = cs] \in Request
BY DEF Request

LEMMA RequestReplaced ==
  ASSUME request \in [Requests -> Request], NEW r \in Requests, NEW next \in Request,
         request' = [request EXCEPT ![r] = next]
  PROVE  /\ request' \in [Requests -> Request]
         /\ request'[r] = next
         /\ \A q \in Requests : q # r => request'[q] = request[q]
OBVIOUS

LEMMA Begun ==
  ASSUME request \in [Requests -> Request], NEW r \in Requests, NEW next \in Request,
         Begin(r, next)
  PROVE  /\ request' \in [Requests -> Request]
         /\ request'[r] = next
         /\ \A q \in Requests : q # r => request'[q] = request[q]
BY RequestReplaced DEF Begin

LEMMA Returned ==
  ASSUME request \in [Requests -> Request], NEW r \in Requests, Return(r)
  PROVE  /\ request' \in [Requests -> Request]
         /\ request'[r] = Idle
         /\ \A q \in Requests : q # r => request'[q] = request[q]
BY Begun, RequestTypes DEF Return

\* A request that has read this still has, as long as nothing is taken back.
LEMMA ReadsKept ==
  ASSUME TypeOK, Kept, NEW r \in Requests, Reads(request[r]), request'[r] = request[r]
  PROVE  Reads(request[r])'
BY DEF TypeOK, Kept, Reads, Request

\* A step of one request that leaves the codes others have locked as they are.
LEMMA OneRequest ==
  ASSUME TypeInv, TypeOK', Kept, NEW r \in Requests,
         \A q \in Requests : q # r => request'[q] = request[q],
         Reads(request[r])',
         request'[r].pc = "superseded" => \A c \in request'[r].outstanding :
           Unspent(c)' /\ code'[c].proposal = request'[r].proposal,
         \A c \in Codes : Locked(c) => (Unspent(c) => Unspent(c)')
  PROVE  TypeInv'
<1>1. RequestInv'
  <2> SUFFICES ASSUME NEW q \in Requests
               PROVE  Reads(request[q])'
    BY DEF RequestInv
  <2>1. CASE q = r
    BY <2>1
  <2>2. CASE q # r
    BY <2>2, ReadsKept DEF TypeInv, RequestInv
  <2> QED BY <2>1, <2>2
<1>2. OutstandingInv'
  <2> SUFFICES ASSUME NEW q \in Requests, request'[q].pc = "superseded",
                      NEW c \in request'[q].outstanding
               PROVE  Unspent(c)' /\ code'[c].proposal = request'[q].proposal
    BY DEF OutstandingInv, At
  <2>1. CASE q = r
    BY <2>1
  <2>2. CASE q # r
    <3>1. /\ request'[q] = request[q] /\ request[q] \in Request
          /\ Reads(request[q])
      BY <2>2 DEF TypeInv, TypeOK, RequestInv
    <3>2. /\ c \in Codes /\ Locked(c) /\ Unspent(c)
          /\ code[c].proposal = request[q].proposal
          /\ code[c].proposal # Null
      BY <3>1 DEF TypeInv, OutstandingInv, At, Locked, Request, Reads
    <3> QED BY <3>1, <3>2 DEF Kept
  <2> QED BY <2>1, <2>2
<1> QED BY <1>1, <1>2 DEF TypeInv

-----------------------------------------------------------------------------
\* The steps of the client's requests.

LEMMA ReadTargetType ==
  ASSUME TypeInv, NEW r \in Requests, NEW p \in Proposals, NEW a \in Answers, ReadTarget(r, p, a)
  PROVE  TypeInv' /\ Kept
<1> DEFINE next == [Idle EXCEPT !.pc = "issuing", !.proposal = p, !.action = a]
<1>1. next \in Request
  BY RequestTypes
<1>2. /\ request' \in [Requests -> Request] /\ request'[r] = next
      /\ \A q \in Requests : q # r => request'[q] = request[q]
  <2> HIDE DEF next
  <2> QED BY <1>1, Begun DEF ReadTarget, TypeInv, TypeOK, next
<1>3. TypeOK' /\ Kept /\ UNCHANGED <<code, proposal>>
  BY <1>2 DEF ReadTarget, TypeInv, TypeOK, Kept, rows, log, history, bounds
<1>4. Reads(request[r])' /\ request'[r].pc # "superseded"
  BY <1>2, <1>3 DEF Reads, Idle
<1> QED BY <1>2, <1>3, <1>4, OneRequest DEF Unspent

LEMMA SupersedeType ==
  ASSUME TypeInv, NEW r \in Requests, Supersede(r)
  PROVE  TypeInv' /\ Kept
<1> DEFINE old  == {c \in CodesOf(request[r].proposal) : Unspent(c)}
           next == [request[r] EXCEPT !.pc = "superseded", !.outstanding = old]
<1>1. request[r] \in Request /\ request \in [Requests -> Request] /\ old \in SUBSET Codes
      /\ At(r, "issuing")
  BY DEF TypeInv, TypeOK, CodesOf, Supersede
<1>2. next \in Request
  <2> HIDE DEF old
  <2> QED BY <1>1, RequestMoved
<1>3. /\ request' \in [Requests -> Request] /\ request'[r] = next
      /\ \A q \in Requests : q # r => request'[q] = request[q]
  <2>1. request' = [request EXCEPT ![r] = next]
    BY <1>1 DEF Supersede
  <2> HIDE DEF next
  <2> QED BY <1>1, <1>2, <2>1, RequestReplaced
<1>4. UNCHANGED <<today, code, proposal, told, mailed, edited, overwritten, revived, stranded, edits, faults>>
  BY DEF Supersede, rows, log, bounds
<1>5. overlapped' \in SUBSET Proposals
  BY <1>1 DEF Supersede, TypeInv, TypeOK, RequestInv, Reads, At
<1>6. TypeOK' /\ Kept
  BY <1>3, <1>4, <1>5 DEF TypeInv, TypeOK, Kept
<1>7. Reads(request[r])'
  BY <1>1, <1>3, <1>4 DEF TypeInv, RequestInv, Reads, At, Request
<1>8. \A c \in request'[r].outstanding : Unspent(c)' /\ code'[c].proposal = request'[r].proposal
  BY <1>1, <1>3, <1>4 DEF Request, CodesOf, Unspent
<1> QED BY <1>3, <1>4, <1>6, <1>7, <1>8, OneRequest DEF Unspent

LEMMA DeliverCodeType ==
  ASSUME TypeInv, NEW r \in Requests, DeliverCode(r)
  PROVE  TypeInv' /\ Kept
<1>1. /\ request[r] \in Request /\ request \in [Requests -> Request]
      /\ At(r, "mailing") /\ request[r].code \in Codes
  BY DEF TypeInv, TypeOK, RequestInv, Reads, At, DeliverCode
<1>2. UNCHANGED <<today, code, proposal, told, edited, overwritten, overlapped, revived, stranded, edits>>
  BY DEF DeliverCode, rows, history
<1>3. mailed' \in SUBSET Codes /\ faults' \in 0..MaxFaults
  BY <1>1 DEF DeliverCode, TypeInv, TypeOK
<1>4. \E next \in Request :
        /\ next = Idle \/ next = [request[r] EXCEPT !.pc = "withdrawing"]
        /\ request' = [request EXCEPT ![r] = next]
  <2>1. CASE Return(r)
    BY <2>1, RequestTypes DEF Return, Begin
  <2>2. CASE Goto(r, "withdrawing")
    BY <2>2, <1>1, RequestMoved DEF Goto
  <2> QED BY <2>1, <2>2 DEF DeliverCode
<1>5. PICK next \in Request :
        /\ next = Idle \/ next = [request[r] EXCEPT !.pc = "withdrawing"]
        /\ request' = [request EXCEPT ![r] = next]
  BY <1>4
<1>6. /\ request' \in [Requests -> Request] /\ request'[r] = next
      /\ \A q \in Requests : q # r => request'[q] = request[q]
  BY <1>1, <1>5, RequestReplaced
<1>7. TypeOK' /\ Kept
  BY <1>2, <1>3, <1>6 DEF TypeInv, TypeOK, Kept
<1>8. Reads(request[r])' /\ request'[r].pc # "superseded"
  <2>1. CASE next = Idle
    BY <2>1, <1>6 DEF Reads, Idle
  <2>2. CASE next = [request[r] EXCEPT !.pc = "withdrawing"]
    BY <2>2, <1>1, <1>2, <1>6 DEF TypeInv, RequestInv, Reads, Request, At
  <2> QED BY <2>1, <2>2, <1>5
<1> QED BY <1>2, <1>6, <1>7, <1>8, OneRequest DEF Unspent

\* A step that writes the row of one code and ends its request.
LEMMA OneCode ==
  ASSUME TypeInv, NEW r \in Requests, NEW c \in Codes, NEW row \in Code, ~Locked(c),
         code' = [code EXCEPT ![c] = row] \/ code' = code,
         row.proposal = code[c].proposal, row.action = code[c].action,
         ~(row.used /\ row.invalidated),
         Return(r), revived' \in SUBSET Codes,
         UNCHANGED <<today, proposal, log, edited, overwritten, overlapped, stranded, bounds>>
  PROVE  TypeInv' /\ Kept
<1>1. /\ request' \in [Requests -> Request] /\ request'[r] = Idle
      /\ \A q \in Requests : q # r => request'[q] = request[q]
  BY Returned DEF TypeInv, TypeOK
<1>2. /\ code' \in [Codes -> Code]
      /\ code'[c] = row \/ code'[c] = code[c]
      /\ \A d \in Codes : d # c => code'[d] = code[d]
  BY CodeReplaced DEF TypeInv, TypeOK
<1>3. \A d \in Codes : ~(code'[d].used /\ code'[d].invalidated)
  BY <1>2 DEF TypeInv, TypeOK
<1>4. TypeOK' /\ Kept
  BY <1>1, <1>2, <1>3 DEF TypeInv, TypeOK, Kept, log, bounds
<1>5. Reads(request[r])' /\ request'[r].pc # "superseded"
  BY <1>1 DEF Reads, Idle
<1>6. \A d \in Codes : Locked(d) => (Unspent(d) => Unspent(d)')
  BY <1>2 DEF Unspent
<1> QED BY <1>1, <1>4, <1>5, <1>6, OneRequest

LEMMA WithdrawCodeType ==
  ASSUME TypeInv, NEW r \in Requests, WithdrawCode(r)
  PROVE  TypeInv' /\ Kept
<1> DEFINE c   == request[r].code
           row == [code[c] EXCEPT !.invalidated = ~code[c].used]
<1>1. c \in Codes /\ code[c] \in Code /\ ~Locked(c)
  BY DEF WithdrawCode, At, TypeInv, TypeOK, RequestInv, Reads
<1>2. row \in Code /\ row.proposal = code[c].proposal /\ row.action = code[c].action
      /\ ~(row.used /\ row.invalidated)
  BY <1>1 DEF Code
<1>3. code' = [code EXCEPT ![c] = row]
  BY <1>1 DEF WithdrawCode, Invalidated, TypeInv, TypeOK
<1>4. revived' \in SUBSET Codes /\ Return(r)
      /\ UNCHANGED <<today, proposal, log, edited, overwritten, overlapped, stranded, bounds>>
  BY DEF WithdrawCode, history, TypeInv, TypeOK
<1> HIDE DEF c, row
<1> QED BY <1>1, <1>2, <1>3, <1>4, OneCode

LEMMA FindCodeType ==
  ASSUME TypeInv, NEW r \in Requests, NEW p \in Proposals, NEW a \in Answers, FindCode(r, p, a)
  PROVE  TypeInv' /\ Kept
<1>1. PICK c \in CodesOf(p) :
        /\ code[c].action = a /\ code[c].tries < MaxTries
        /\ \/ Begin(r, [Idle EXCEPT !.pc = "wrong", !.code = c, !.tries = code[c].tries])
           \/ Begin(r, [Idle EXCEPT !.pc = "right", !.proposal = p, !.action = a, !.code = c])
  BY DEF FindCode
<1>2. c \in Codes /\ code[c].proposal = p /\ code[c].proposal # Null /\ code[c].tries \in 0..MaxTries
  BY DEF CodesOf, TypeInv, TypeOK, Code
<1>3. PICK next \in Request :
        /\ \/ next = [Idle EXCEPT !.pc = "wrong", !.code = c, !.tries = code[c].tries]
           \/ next = [Idle EXCEPT !.pc = "right", !.proposal = p, !.action = a, !.code = c]
        /\ Begin(r, next)
  <2>1. /\ [Idle EXCEPT !.pc = "wrong", !.code = c, !.tries = code[c].tries] \in Request
        /\ [Idle EXCEPT !.pc = "right", !.proposal = p, !.action = a, !.code = c] \in Request
    BY <1>2, RequestTypes
  <2> QED BY <1>1, <2>1
<1>4. /\ request' \in [Requests -> Request] /\ request'[r] = next
      /\ \A q \in Requests : q # r => request'[q] = request[q]
  BY <1>3, Begun DEF TypeInv, TypeOK
<1>5. TypeOK' /\ Kept /\ UNCHANGED <<code, proposal>>
  BY <1>4 DEF FindCode, TypeInv, TypeOK, Kept, rows, log, history, bounds
<1>6. Reads(request[r])' /\ request'[r].pc # "superseded"
  <2>1. CASE next = [Idle EXCEPT !.pc = "wrong", !.code = c, !.tries = code[c].tries]
    BY <2>1, <1>1, <1>2, <1>4, <1>5 DEF Reads, Idle
  <2>2. CASE next = [Idle EXCEPT !.pc = "right", !.proposal = p, !.action = a, !.code = c]
    BY <2>2, <1>1, <1>2, <1>4, <1>5 DEF Reads, Idle
  <2> QED BY <2>1, <2>2, <1>3
<1> QED BY <1>4, <1>5, <1>6, OneRequest DEF Unspent

LEMMA CountFailedAttemptType ==
  ASSUME TypeInv, NEW r \in Requests, CountFailedAttempt(r)
  PROVE  TypeInv' /\ Kept
<1> DEFINE c   == request[r].code
           n   == request[r].tries + 1
           row == IF n >= MaxTries /\ code[c].used THEN code[c]
                  ELSE [code[c] EXCEPT !.tries = n, !.invalidated = n >= MaxTries]
<1>1. c \in Codes /\ code[c] \in Code /\ ~Locked(c) /\ n \in 0..MaxTries
      /\ ~(code[c].used /\ code[c].invalidated)
  BY DEF CountFailedAttempt, At, TypeInv, TypeOK, RequestInv, Reads, Request
<1>2. row \in Code /\ row.proposal = code[c].proposal /\ row.action = code[c].action
      /\ ~(row.used /\ row.invalidated)
  <2> HIDE DEF n, c
  <2>1. CASE n >= MaxTries /\ code[c].used
    BY <1>1, <2>1
  <2>2. CASE ~(n >= MaxTries /\ code[c].used)
    <3> DEFINE b == n >= MaxTries
    <3>1. b \in BOOLEAN /\ (b => ~code[c].used) /\ row = [code[c] EXCEPT !.tries = n, !.invalidated = b]
      BY <2>2
    <3> HIDE DEF b, row
    <3> QED BY <1>1, <3>1, CodeTypes DEF Code
  <2> QED BY <2>1, <2>2
<1>3. code' = [code EXCEPT ![c] = row] \/ code' = code
  BY <1>1 DEF CountFailedAttempt, TypeInv, TypeOK
<1>4. revived' \in SUBSET Codes /\ Return(r)
      /\ UNCHANGED <<today, proposal, log, edited, overwritten, overlapped, stranded, bounds>>
  BY <1>1 DEF CountFailedAttempt, TypeInv, TypeOK
<1> HIDE DEF c, n, row
<1> QED BY <1>1, <1>2, <1>3, <1>4, OneCode

LEMMA RecordResponseType ==
  ASSUME TypeInv, NEW r \in Requests, RecordResponse(r)
  PROVE  TypeInv' /\ Kept
<1> DEFINE c    == request[r].code
           p    == request[r].proposal
           a    == request[r].action
           next == [request[r] EXCEPT !.pc = "answered", !.code = Null]
           used     == [code[c] EXCEPT !.used = TRUE]
           answered == [proposal[p] EXCEPT !.status = a]
<1>1. /\ request[r] \in Request /\ At(r, "right") /\ Reads(request[r])
      /\ c \in Codes /\ code[c] \in Code /\ ~Locked(c)
      /\ p \in Proposals /\ proposal[p] \in Proposal /\ a \in Answers
  BY DEF RecordResponse, At, TypeInv, TypeOK, RequestInv, Reads
<1>2. UNCHANGED <<today, log, history, bounds>>
  BY DEF RecordResponse
<1>3. CASE Unspent(c) /\ proposal[p].status = "sent" /\ Live(p)
  <2>1. /\ code' = [code EXCEPT ![c] = used]
        /\ proposal' = [proposal EXCEPT ![p] = answered]
        /\ Begin(r, next)
    BY <1>1, <1>3 DEF RecordResponse, TypeInv, TypeOK
  <2>2. used \in Code /\ answered \in Proposal /\ next \in Request
    BY <1>1, CodeTypes, RequestMoved DEF Proposal
  <2>3. /\ request' \in [Requests -> Request] /\ request'[r] = next
        /\ \A q \in Requests : q # r => request'[q] = request[q]
    <3> HIDE DEF next
    <3> QED BY <2>1, <2>2, Begun DEF TypeInv, TypeOK
  <2>4. /\ code' \in [Codes -> Code] /\ code'[c] = used
        /\ \A d \in Codes : d # c => code'[d] = code[d]
    <3> HIDE DEF used, c
    <3> QED BY <1>1, <2>1, <2>2, CodeReplaced DEF TypeInv, TypeOK
  <2>5. /\ proposal' \in [Proposals -> Proposal] /\ proposal'[p] = answered
        /\ \A o \in Proposals : o # p => proposal'[o] = proposal[o]
    <3> HIDE DEF answered, p
    <3> QED BY <1>1, <2>1, <2>2, ProposalReplaced DEF TypeInv, TypeOK
  <2>6. \A d \in Codes : ~(code'[d].used /\ code'[d].invalidated)
    BY <1>1, <1>3, <2>4 DEF TypeInv, TypeOK, Unspent, Code
  <2>7. TypeOK'
    BY <1>2, <2>3, <2>4, <2>5, <2>6 DEF TypeInv, TypeOK, log, history, bounds
  <2>8. Kept
    BY <1>1, <1>3, <2>4, <2>5 DEF Kept, Code
  <2>9. Reads(request[r])' /\ request'[r].pc # "superseded"
    BY <1>1, <2>3, <2>5 DEF Reads, Request, Proposal
  <2>10. \A d \in Codes : Locked(d) => (Unspent(d) => Unspent(d)')
    BY <1>1, <2>4 DEF Unspent
  <2> QED BY <2>3, <2>7, <2>8, <2>9, <2>10, OneRequest
<1>4. CASE ~(Unspent(c) /\ proposal[p].status = "sent" /\ Live(p))
  <2>1. Return(r) /\ UNCHANGED <<code, proposal>>
    BY <1>4 DEF RecordResponse
  <2>2. /\ request' \in [Requests -> Request] /\ request'[r] = Idle
        /\ \A q \in Requests : q # r => request'[q] = request[q]
    BY <2>1, Returned DEF TypeInv, TypeOK
  <2>3. TypeOK' /\ Kept
    BY <1>2, <2>1, <2>2 DEF TypeInv, TypeOK, Kept, log, history, bounds
  <2>4. Reads(request[r])' /\ request'[r].pc # "superseded"
    BY <2>2 DEF Reads, Idle
  <2> QED BY <2>1, <2>2, <2>3, <2>4, OneRequest DEF Unspent
<1> QED BY <1>3, <1>4

LEMMA AuditResponseType ==
  ASSUME TypeInv, NEW r \in Requests, AuditResponse(r)
  PROVE  TypeInv' /\ Kept
<1>1. /\ request' \in [Requests -> Request] /\ request'[r] = Idle
      /\ \A q \in Requests : q # r => request'[q] = request[q]
  BY Returned DEF AuditResponse, TypeInv, TypeOK
<1>2. request[r].proposal \in Proposals /\ request[r].action \in Answers
  BY DEF AuditResponse, At, TypeInv, RequestInv, Reads
<1>3. TypeOK' /\ Kept /\ UNCHANGED <<code, proposal>>
  BY <1>1, <1>2 DEF AuditResponse, TypeInv, TypeOK, Kept, rows, history, bounds
<1>4. Reads(request[r])' /\ request'[r].pc # "superseded"
  BY <1>1 DEF Reads, Idle
<1> QED BY <1>1, <1>3, <1>4, OneRequest DEF Unspent

LEMMA DieType ==
  ASSUME TypeInv, NEW r \in Requests, Die(r)
  PROVE  TypeInv' /\ Kept
<1>1. /\ request' \in [Requests -> Request] /\ request'[r] = Idle
      /\ \A q \in Requests : q # r => request'[q] = request[q]
  BY Returned DEF Die, TypeInv, TypeOK
<1>2. stranded' \in SUBSET Codes /\ faults' \in 0..MaxFaults
  BY DEF Die, TypeInv, TypeOK, RequestInv, Reads
<1>3. TypeOK' /\ Kept /\ UNCHANGED <<code, proposal>>
  BY <1>1, <1>2 DEF Die, TypeInv, TypeOK, Kept, rows, log
<1>4. Reads(request[r])' /\ request'[r].pc # "superseded"
  BY <1>1 DEF Reads, Idle
<1> QED BY <1>1, <1>3, <1>4, OneRequest DEF Unspent

\* What an insertion does to the codes and to the other requests.
Issues(r, new) ==
  /\ new \in Codes /\ code[new] = NoCode
  /\ At(r, "superseded") /\ request[r] \in Request
  /\ code' \in [Codes -> Code]
  /\ code'[new] = [NoCode EXCEPT !.proposal = request[r].proposal, !.action = request[r].action]
  /\ \A c \in Codes : c # new =>
       code'[c] = IF c \in request[r].outstanding THEN [code[c] EXCEPT !.invalidated = TRUE] ELSE code[c]
  /\ request' \in [Requests -> Request]
  /\ request'[r] = [Idle EXCEPT !.pc = "mailing", !.code = new]
  /\ \A q \in Requests : q # r =>
       request'[q] = [request[q] EXCEPT !.outstanding = @ \ request[r].outstanding]

LEMMA IssueCodeIssues ==
  ASSUME TypeInv, NEW r \in Requests, IssueCode(r)
  PROVE  \E new \in Codes : Issues(r, new)
<1>0. PICK new \in Free :
       /\ code' = [c \in Codes |->
                     IF c = new THEN [NoCode EXCEPT !.proposal = request[r].proposal,
                                                    !.action = request[r].action]
                     ELSE IF c \in request[r].outstanding THEN [code[c] EXCEPT !.invalidated = TRUE]
                     ELSE code[c]]
       /\ request' = [q \in Requests |->
                        IF q = r THEN [Idle EXCEPT !.pc = "mailing", !.code = new]
                        ELSE [request[q] EXCEPT !.outstanding = @ \ request[r].outstanding]]
  BY DEF IssueCode
<1> DEFINE row == [NoCode EXCEPT !.proposal = request[r].proposal, !.action = request[r].action]
           Dead(c) == [code[c] EXCEPT !.invalidated = TRUE]
           Left(q) == [request[q] EXCEPT !.outstanding = @ \ request[r].outstanding]
<1>1. /\ new \in Codes /\ code[new] = NoCode /\ At(r, "superseded")
      /\ \A q \in Requests : request[q] \in Request
      /\ \A c \in Codes : code[c] \in Code
      /\ request[r].proposal \in Proposals /\ request[r].action \in Answers
  BY DEF Free, IssueCode, At, TypeInv, TypeOK, RequestInv, Reads
<1>2. row \in Code
  BY <1>1, CodeTypes
<1>3. \A c \in Codes : Dead(c) \in Code
  BY <1>1, CodeTypes
<1>4. ASSUME NEW q \in Requests PROVE Left(q) \in Request
  <2>1. request[q] \in Request /\ request[q].outstanding \ request[r].outstanding \in SUBSET Codes
    BY <1>1 DEF Request
  <2> QED BY <2>1, RequestMoved
<1>5. [Idle EXCEPT !.pc = "mailing", !.code = new] \in Request
  BY <1>1, RequestTypes
<1>6. /\ code' = [c \in Codes |-> IF c = new THEN row
                                  ELSE IF c \in request[r].outstanding THEN Dead(c) ELSE code[c]]
      /\ request' = [q \in Requests |-> IF q = r THEN [Idle EXCEPT !.pc = "mailing", !.code = new]
                                        ELSE Left(q)]
  BY <1>0
<1>7. code' \in [Codes -> Code] /\ request' \in [Requests -> Request]
  <2> HIDE DEF row, Dead, Left
  <2> QED BY <1>1, <1>2, <1>3, <1>4, <1>5, <1>6
<1> QED BY <1>0, <1>1, <1>7 DEF Issues

LEMMA IssuedRows ==
  ASSUME TypeInv, NEW r \in Requests, NEW new \in Codes, Issues(r, new)
  PROVE  /\ code[new].proposal = Null /\ code[new].used = FALSE
         /\ code'[new].used = FALSE /\ code'[new].invalidated = FALSE
         /\ code'[new].proposal = request[r].proposal
         /\ \A c \in Codes : c # new =>
              /\ code'[c].proposal = code[c].proposal /\ code'[c].action = code[c].action
              /\ code'[c].used = code[c].used
              /\ c \notin request[r].outstanding => code'[c] = code[c]
<1>1. code[new] = NoCode /\ NoCode.proposal = Null /\ NoCode.used = FALSE
  BY DEF Issues, NoCode
<1>2. /\ code'[new].used = FALSE /\ code'[new].invalidated = FALSE
      /\ code'[new].proposal = request[r].proposal
  <2>1. NoCode.used = FALSE /\ NoCode.invalidated = FALSE
    BY DEF NoCode
  <2>2. code'[new] = [NoCode EXCEPT !.proposal = request[r].proposal, !.action = request[r].action]
    BY DEF Issues
  <2> QED BY <2>1, <2>2 DEF NoCode
<1>3. ASSUME NEW c \in Codes, c # new
      PROVE  /\ code'[c].proposal = code[c].proposal /\ code'[c].action = code[c].action
             /\ code'[c].used = code[c].used
             /\ c \notin request[r].outstanding => code'[c] = code[c]
  <2>1. CASE c \notin request[r].outstanding
    BY <1>3, <2>1 DEF Issues
  <2>2. CASE c \in request[r].outstanding
    <3>1. code'[c] = [code[c] EXCEPT !.invalidated = TRUE]
      BY <1>3, <2>2 DEF Issues
    <3>2. code[c] \in Code
      BY DEF TypeInv, TypeOK
    <3> QED BY <2>2, <3>1, <3>2 DEF Code
  <2> QED BY <2>1, <2>2
<1> QED BY <1>1, <1>2, <1>3

LEMMA IssueCodeType ==
  ASSUME TypeInv, NEW r \in Requests, IssueCode(r)
  PROVE  TypeInv' /\ Kept
<1> PICK new \in Codes : Issues(r, new)
  BY IssueCodeIssues
<1>1. /\ UNCHANGED <<today, proposal, log, history, bounds>>
      /\ request[r].proposal \in Proposals /\ request[r].action \in Answers
  BY DEF IssueCode, At, TypeInv, RequestInv, Reads
<1>2. /\ code[new].proposal = Null /\ ~code'[new].used /\ ~code'[new].invalidated
      /\ code'[new].proposal = request[r].proposal
      /\ \A c \in Codes : c # new =>
           /\ code'[c].proposal = code[c].proposal /\ code'[c].action = code[c].action
           /\ code'[c].used = code[c].used
           /\ c \notin request[r].outstanding => code'[c] = code[c]
  BY IssuedRows
<1>2a. ASSUME NEW c \in Codes, c # new
      PROVE  /\ code'[c].proposal = code[c].proposal /\ code'[c].action = code[c].action
             /\ c \notin request[r].outstanding => code'[c] = code[c]
             /\ c \in request[r].outstanding => ~code'[c].used
  <2>1. c \in request[r].outstanding => ~code[c].used
    BY DEF Issues, TypeInv, OutstandingInv, Unspent
  <2>2. /\ code'[c].proposal = code[c].proposal /\ code'[c].action = code[c].action
        /\ code'[c].used = code[c].used
        /\ c \notin request[r].outstanding => code'[c] = code[c]
    BY <1>2, <1>2a
  <2> QED BY <2>1, <2>2
<1>3. TypeOK'
  BY <1>1, <1>2, <1>2a DEF Issues, TypeInv, TypeOK, log, history, bounds
<1>4. Kept
  BY <1>1, <1>2, <1>2a DEF Kept
<1>5. RequestInv'
  <2> SUFFICES ASSUME NEW q \in Requests PROVE Reads(request[q])'
    BY DEF RequestInv
  <2>1. CASE q = r
    <3>1. request'[q].pc = "mailing" /\ request'[q].code = new
      BY <2>1 DEF Issues, Idle
    <3> QED BY <1>1, <1>2, <3>1 DEF Reads
  <2>2. CASE q # r
    <3>1. /\ request'[q] = [request[q] EXCEPT !.outstanding = @ \ request[r].outstanding]
          /\ request[q] \in Request /\ Reads(request[q])
      BY <2>2 DEF Issues, TypeInv, TypeOK, RequestInv
    <3> QED BY <1>1, <1>4, <3>1 DEF Kept, Reads, Request, TypeInv, TypeOK
  <2> QED BY <2>1, <2>2
<1>6. OutstandingInv'
  <2> SUFFICES ASSUME NEW q \in Requests, request'[q].pc = "superseded",
                      NEW c \in request'[q].outstanding
               PROVE  Unspent(c)' /\ code'[c].proposal = request'[q].proposal
    BY DEF OutstandingInv, At
  <2>1. /\ q # r /\ request[q] \in Request
        /\ request'[q] = [request[q] EXCEPT !.outstanding = @ \ request[r].outstanding]
    BY DEF Issues, Idle, TypeInv, TypeOK
  <2>2. /\ c \in Codes /\ At(q, "superseded") /\ c \in request[q].outstanding
        /\ c \notin request[r].outstanding /\ request'[q].proposal = request[q].proposal
    BY <2>1 DEF Request, At
  <2>3. /\ Unspent(c) /\ code[c].proposal = request[q].proposal /\ code[c].proposal # Null
    BY <2>2 DEF TypeInv, TypeOK, OutstandingInv, RequestInv, Reads, At
  <2> QED BY <1>2, <1>2a, <2>2, <2>3 DEF Unspent
<1> QED BY <1>3, <1>4, <1>5, <1>6 DEF TypeInv

-----------------------------------------------------------------------------
\* The steps of the owner, and of time.

\* A step that leaves every request where it stands.
LEMMA NoRequest ==
  ASSUME TypeInv, TypeOK', Kept, UNCHANGED request,
         \A c \in Codes : Unspent(c) => Unspent(c)'
  PROVE  TypeInv'
<1>1. RequestInv'
  BY ReadsKept DEF TypeInv, RequestInv
<1>2. OutstandingInv'
  <2> SUFFICES ASSUME NEW q \in Requests, At(q, "superseded"), NEW c \in request[q].outstanding
               PROVE  Unspent(c)' /\ code'[c].proposal = request[q].proposal
    BY DEF OutstandingInv, At
  <2>1. /\ c \in Codes /\ Unspent(c) /\ code[c].proposal = request[q].proposal
        /\ code[c].proposal # Null
    BY DEF TypeInv, TypeOK, OutstandingInv, RequestInv, Reads, At, Request
  <2> QED BY <2>1 DEF Kept
<1> QED BY <1>1, <1>2 DEF TypeInv

LEMMA WriteDraftType ==
  ASSUME TypeInv, NEW p \in Proposals, NEW u \in Ends, NEW from \in {"none", "draft"},
         WriteDraft(p, u, from), edits' \in 0..MaxEdits
  PROVE  TypeInv' /\ Kept
<1> DEFINE row == [proposal[p] EXCEPT !.status = "draft", !.text = @ + 1, !.until = u]
<1>1. proposal[p] \in Proposal /\ u \in Dates /\ proposal[p].status = from
      /\ "draft" \in {"none", "draft", "sent"} \cup Answers
  BY DEF WriteDraft, TypeInv, TypeOK, Dates
<1>2. row \in Proposal
  BY <1>1, ProposalTypes
<1>3. proposal' = [proposal EXCEPT ![p] = row]
  BY <1>1 DEF WriteDraft, Written, TypeInv, TypeOK, Proposal
<1>4. /\ proposal' \in [Proposals -> Proposal]
      /\ \A o \in Proposals : o # p => proposal'[o] = proposal[o]
  <2> HIDE DEF row
  <2> QED BY <1>2, <1>3, ProposalReplaced DEF TypeInv, TypeOK
<1>5. edited' \in [Proposals -> Dates] /\ overwritten' \in SUBSET Proposals
      /\ UNCHANGED <<today, code, request, log, overlapped, revived, stranded, faults>>
  BY <1>1 DEF WriteDraft, TypeInv, TypeOK
<1>6. TypeOK'
  BY <1>4, <1>5 DEF TypeInv, TypeOK, log
<1>7. Kept
  BY <1>1, <1>4, <1>5 DEF Kept
<1> QED BY <1>5, <1>6, <1>7, NoRequest DEF Unspent

LEMMA ReadDraftType ==
  ASSUME TypeInv, NEW r \in Requests, NEW p \in Proposals, ReadDraft(r, p)
  PROVE  TypeInv' /\ Kept
<1> DEFINE next == [Idle EXCEPT !.pc = "sending", !.proposal = p, !.until = proposal[p].until]
<1>1. next \in Request
  BY RequestTypes DEF TypeInv, TypeOK, Proposal
<1>2. /\ request' \in [Requests -> Request] /\ request'[r] = next
      /\ \A q \in Requests : q # r => request'[q] = request[q]
  <2>1. Begin(r, next) /\ request \in [Requests -> Request]
    BY DEF ReadDraft, TypeInv, TypeOK
  <2> HIDE DEF next
  <2> QED BY <1>1, <2>1, Begun
<1>3. TypeOK' /\ Kept /\ UNCHANGED <<code, proposal>>
  BY <1>2 DEF ReadDraft, TypeInv, TypeOK, Kept, rows, log, history, bounds
<1>4. Reads(request[r])' /\ request'[r].pc # "superseded"
  BY <1>2 DEF Reads, Idle
<1> QED BY <1>2, <1>3, <1>4, OneRequest DEF Unspent

LEMMA SendProposalType ==
  ASSUME TypeInv, NEW r \in Requests, SendProposal(r)
  PROVE  TypeInv' /\ Kept
<1> DEFINE p   == request[r].proposal
           u   == OpenUntil(request[r].until)
           row == [proposal[p] EXCEPT !.status = "sent", !.until = u]
<1>1. /\ p \in Proposals /\ proposal[p] \in Proposal /\ request[r] \in Request
      /\ "sent" \in {"none", "draft", "sent"} \cup Answers
  BY DEF SendProposal, TypeInv, TypeOK, RequestInv, Reads, At
<1>2. u \in Dates
  BY <1>1 DEF OpenUntil, DefaultUntil, Request, Dates, TypeInv, TypeOK
<1>3. row \in Proposal
  <2> HIDE DEF p, u
  <2> QED BY <1>1, <1>2, ProposalTypes
<1>4. /\ request' \in [Requests -> Request] /\ request'[r] = Idle
      /\ \A q \in Requests : q # r => request'[q] = request[q]
  BY Returned DEF SendProposal, TypeInv, TypeOK
<1>5. \/ proposal[p].status = "draft" /\ proposal' = [proposal EXCEPT ![p] = row]
      \/ proposal' = proposal
  BY <1>1 DEF SendProposal, TypeInv, TypeOK
<1>6. /\ proposal' \in [Proposals -> Proposal]
      /\ \A o \in Proposals : proposal'[o] = proposal[o] \/ proposal[o].status = "draft"
  <2> HIDE DEF row, p
  <2> QED BY <1>1, <1>3, <1>5, ProposalReplaced DEF TypeInv, TypeOK
<1>7. TypeOK' /\ Kept /\ UNCHANGED code
  BY <1>4, <1>6 DEF SendProposal, TypeInv, TypeOK, Kept, log, history, bounds
<1>8. Reads(request[r])' /\ request'[r].pc # "superseded"
  BY <1>4 DEF Reads, Idle
<1> QED BY <1>4, <1>7, <1>8, OneRequest DEF Unspent

LEMMA EditProposalType ==
  ASSUME TypeInv, NEW p \in Proposals, EditProposal(p)
  PROVE  TypeInv' /\ Kept /\ \A o \in Proposals : proposal'[o].status = proposal[o].status
                                               /\ proposal'[o].text = proposal[o].text
                                               /\ proposal'[o].until = proposal[o].until
<1>1. proposal[p] \in Proposal
  BY DEF TypeInv, TypeOK
<1>2. PICK row \in Proposal :
        /\ row.status = proposal[p].status /\ row.text = proposal[p].text
        /\ row.until = proposal[p].until
        /\ proposal' = [proposal EXCEPT ![p] = row]
  <2>1. CASE proposal' = [proposal EXCEPT ![p].trashed = ~@]
    <3> DEFINE row == [proposal[p] EXCEPT !.trashed = ~@]
    <3>1. row \in Proposal /\ row.status = proposal[p].status /\ row.text = proposal[p].text
          /\ row.until = proposal[p].until
      BY <1>1 DEF Proposal
    <3>2. proposal' = [proposal EXCEPT ![p] = row]
      BY <2>1 DEF TypeInv, TypeOK
    <3> HIDE DEF row
    <3> QED BY <3>1, <3>2
  <2>2. CASE proposal' = [proposal EXCEPT ![p].linked = ~@]
    <3> DEFINE row == [proposal[p] EXCEPT !.linked = ~@]
    <3>1. row \in Proposal /\ row.status = proposal[p].status /\ row.text = proposal[p].text
          /\ row.until = proposal[p].until
      BY <1>1 DEF Proposal
    <3>2. proposal' = [proposal EXCEPT ![p] = row]
      BY <2>2 DEF TypeInv, TypeOK
    <3> HIDE DEF row
    <3> QED BY <3>1, <3>2
  <2> QED BY <2>1, <2>2 DEF EditProposal
<1>3. /\ proposal' \in [Proposals -> Proposal]
      /\ \A o \in Proposals : proposal'[o].status = proposal[o].status
                              /\ proposal'[o].text = proposal[o].text
                              /\ proposal'[o].until = proposal[o].until
  BY <1>2, ProposalReplaced DEF TypeInv, TypeOK
<1>4. UNCHANGED <<today, code, request, log, history, faults>> /\ edits' \in 0..MaxEdits
  BY DEF EditProposal, Edit, TypeInv, TypeOK
<1>5. TypeOK' /\ Kept
  BY <1>3, <1>4 DEF TypeInv, TypeOK, Kept, log, history
<1> QED BY <1>3, <1>4, <1>5, NoRequest DEF Unspent

LEMMA ExpireCodeType ==
  ASSUME TypeInv, NEW c \in Codes, ExpireCode(c)
  PROVE  TypeInv' /\ Kept
<1> DEFINE row == [code[c] EXCEPT !.expired = TRUE]
<1>1. /\ code[c] \in Code
      /\ row \in Code /\ row.proposal = code[c].proposal /\ row.action = code[c].action
      /\ row.used = code[c].used /\ row.invalidated = code[c].invalidated
  <2>1. code[c] \in Code
    BY DEF TypeInv, TypeOK
  <2> QED BY <2>1 DEF Code
<1>2. code' = [code EXCEPT ![c] = row]
  BY DEF ExpireCode, TypeInv, TypeOK
<1>3. /\ code' \in [Codes -> Code] /\ code'[c] = row
      /\ \A d \in Codes : d # c => code'[d] = code[d]
  <2> HIDE DEF row
  <2> QED BY <1>1, <1>2, CodeReplaced DEF TypeInv, TypeOK
<1> HIDE DEF row
<1>4. UNCHANGED <<today, proposal, request, log, history, bounds>>
  BY DEF ExpireCode
<1>5. TypeOK' /\ Kept
  BY <1>1, <1>3, <1>4 DEF TypeInv, TypeOK, Kept, log, history, bounds
<1>6. \A d \in Codes : Unspent(d) => Unspent(d)'
  BY <1>1, <1>3 DEF Unspent
<1> QED BY <1>4, <1>5, <1>6, NoRequest

LEMMA NextDayType ==
  ASSUME TypeInv, NextDay
  PROVE  TypeInv' /\ Kept
<1>1. TypeOK' /\ Kept /\ UNCHANGED <<code, request>>
  BY DEF NextDay, TypeInv, TypeOK, Kept, log, history, bounds
<1> QED BY <1>1, NoRequest DEF Unspent

\* A step is one of these.
LEMMA Steps ==
  ASSUME Next
  PROVE  \/ \E r \in Requests, p \in Proposals, a \in Answers : ReadTarget(r, p, a) \/ FindCode(r, p, a)
         \/ \E r \in Requests :
              \/ Supersede(r) \/ IssueCode(r) \/ DeliverCode(r) \/ WithdrawCode(r)
              \/ CountFailedAttempt(r) \/ RecordResponse(r) \/ AuditResponse(r) \/ Die(r)
              \/ SendProposal(r)
         \/ \E p \in Proposals, u \in Ends, from \in {"none", "draft"} :
              WriteDraft(p, u, from) /\ (Edit \/ UNCHANGED edits)
         \/ \E p \in Proposals, r \in Requests : ReadDraft(r, p)
         \/ \E p \in Proposals : EditProposal(p)
         \/ \E c \in Codes : ExpireCode(c)
         \/ NextDay
BY DEF Next, ClientStep, OwnerStep, CreateProposal, UpdateProposal

LEMMA TypeStep ==
  ASSUME TypeInv, [Next]_vars
  PROVE  TypeInv' /\ Kept
<1>1. CASE UNCHANGED vars
  <2>1. TypeOK' /\ Kept /\ UNCHANGED <<code, request>>
    BY <1>1 DEF vars, rows, log, history, bounds, TypeInv, TypeOK, Kept
  <2> QED BY <2>1, NoRequest DEF Unspent
<1>2. ASSUME NEW p \in Proposals, NEW u \in Ends, NEW from \in {"none", "draft"},
             WriteDraft(p, u, from), Edit \/ UNCHANGED edits
      PROVE  TypeInv' /\ Kept
  <2>1. edits' \in 0..MaxEdits
    BY <1>2 DEF Edit, TypeInv, TypeOK
  <2> QED BY <1>2, <2>1, WriteDraftType
<1> QED BY <1>1, <1>2, Steps, ReadTargetType, FindCodeType, SupersedeType, IssueCodeType,
           DeliverCodeType, WithdrawCodeType, CountFailedAttemptType, RecordResponseType,
           AuditResponseType, DieType, SendProposalType, ReadDraftType, EditProposalType,
           ExpireCodeType, NextDayType

-----------------------------------------------------------------------------
\* A code is spent exactly when its proposal is answered.

\* A step that spends no code and ends no proposal.
LEMMA NothingSpent ==
  ASSUME TypeInv, SpentInv,
         \A c \in Codes : code'[c].used = code[c].used
                          /\ (code[c].used => code'[c].proposal = code[c].proposal
                                              /\ code'[c].action = code[c].action),
         \A p \in Proposals : \/ proposal'[p].status = proposal[p].status
                              \/ proposal[p].status \notin Answers /\ proposal'[p].status \notin Answers,
         \A t \in told' : t \in told \/ proposal'[t[1]].status = t[2]
  PROVE  SpentInv'
<1>1. ASSUME NEW p \in Proposals
      PROVE  IF proposal'[p].status \in Answers
               THEN \E c \in Codes :
                      /\ code'[c].proposal = p /\ code'[c].used /\ code'[c].action = proposal'[p].status
                      /\ \A d \in Codes : code'[d].proposal = p /\ code'[d].used => d = c
               ELSE \A c \in Codes : ~(code'[c].proposal = p /\ code'[c].used)
  BY DEF SpentInv
<1>2. \A t \in told' : proposal'[t[1]].status = t[2]
  <2> SUFFICES ASSUME NEW t \in told, t \in told' PROVE proposal'[t[1]].status = t[2]
    OBVIOUS
  <2>1. t[1] \in Proposals /\ t[2] \in Answers /\ proposal[t[1]].status = t[2]
    BY DEF SpentInv, TypeInv, TypeOK
  <2> QED BY <2>1
<1> QED BY <1>1, <1>2 DEF SpentInv

LEMMA RecordSpends ==
  ASSUME TypeInv, Kept, SpentInv, NEW r \in Requests, RecordResponse(r)
  PROVE  SpentInv'
<1> DEFINE c == request[r].code
           q == request[r].proposal
<1>1. /\ At(r, "right") /\ c \in Codes /\ code[c] \in Code
      /\ q \in Proposals /\ proposal[q] \in Proposal /\ request[r].action \in Answers
      /\ code[c].proposal = q /\ code[c].action = request[r].action
      /\ UNCHANGED told
  BY DEF RecordResponse, At, TypeInv, TypeOK, RequestInv, Reads, log
<1>2. CASE UNCHANGED <<code, proposal>>
  BY <1>1, <1>2, NothingSpent
<1>3. CASE /\ proposal[q].status = "sent"
           /\ code' = [code EXCEPT ![c].used = TRUE]
           /\ proposal' = [proposal EXCEPT ![q].status = request[r].action]
  <2>1. /\ proposal'[q].status = request[r].action
        /\ \A p \in Proposals : p # q => proposal'[p] = proposal[p]
        /\ code'[c].used /\ code'[c].proposal = q /\ code'[c].action = request[r].action
        /\ \A d \in Codes : d # c => code'[d] = code[d]
    BY <1>1, <1>3 DEF TypeInv, TypeOK, Proposal, Code
  <2>2. \A d \in Codes : ~(code[d].proposal = q /\ code[d].used)
    BY <1>1, <1>3 DEF SpentInv
  <2>3. ASSUME NEW p \in Proposals
        PROVE  IF proposal'[p].status \in Answers
                 THEN \E d \in Codes :
                        /\ code'[d].proposal = p /\ code'[d].used /\ code'[d].action = proposal'[p].status
                        /\ \A e \in Codes : code'[e].proposal = p /\ code'[e].used => e = d
                 ELSE \A d \in Codes : ~(code'[d].proposal = p /\ code'[d].used)
    <3> HIDE DEF c, q
    <3>1. CASE p = q
      BY <1>1, <2>1, <2>2, <3>1
    <3>2. CASE p # q
      <4>1. CASE proposal[p].status \in Answers
        <5>1. PICK d \in Codes :
                /\ code[d].proposal = p /\ code[d].used /\ code[d].action = proposal[p].status
                /\ \A e \in Codes : code[e].proposal = p /\ code[e].used => e = d
          BY <4>1 DEF SpentInv
        <5> QED BY <1>1, <2>1, <3>2, <4>1, <5>1
      <4>2. CASE proposal[p].status \notin Answers
        BY <1>1, <2>1, <3>2, <4>2 DEF SpentInv
      <4> QED BY <4>1, <4>2
    <3> QED BY <3>1, <3>2
  <2>4. \A t \in told' : proposal'[t[1]].status = t[2]
    <3> SUFFICES ASSUME NEW t \in told PROVE proposal'[t[1]].status = t[2]
      BY <1>1
    <3>1. t[1] \in Proposals /\ t[2] \in Answers /\ proposal[t[1]].status = t[2]
      BY DEF SpentInv, TypeInv, TypeOK
    <3> QED BY <3>1 DEF Kept
  <2> QED BY <2>3, <2>4 DEF SpentInv
<1> QED BY <1>2, <1>3 DEF RecordResponse

\* What the steps other than RecordResponse do to the codes that are spent and to the answers.
LEMMA SpentStep ==
  ASSUME TypeInv, SpentInv, [Next]_vars
  PROVE  SpentInv'
<1>0. TypeInv' /\ Kept
  BY TypeStep
<1>1. CASE UNCHANGED <<code, proposal, told>>
  BY <1>1, NothingSpent
<1>2. ASSUME NEW r \in Requests, IssueCode(r) PROVE SpentInv'
  <2>1. PICK new \in Codes : Issues(r, new)
    BY <1>2, IssueCodeIssues
  <2>2. ASSUME NEW c \in Codes
        PROVE  /\ code'[c].used = code[c].used
               /\ code[c].used => code'[c].proposal = code[c].proposal /\ code'[c].action = code[c].action
    <3>1. CASE c = new
      BY <2>1, <3>1, IssuedRows
    <3>2. CASE c # new
      BY <2>1, <3>2, IssuedRows
    <3> QED BY <3>1, <3>2
  <2> QED BY <1>2, <2>2, NothingSpent DEF IssueCode, log
<1>3. ASSUME NEW r \in Requests, WithdrawCode(r) \/ CountFailedAttempt(r) PROVE SpentInv'
  <2>1. request[r].code \in Codes
    BY <1>3 DEF WithdrawCode, CountFailedAttempt, At, TypeInv, RequestInv, Reads
  <2>2. ASSUME NEW c \in Codes
        PROVE  /\ code'[c].used = code[c].used /\ code'[c].proposal = code[c].proposal
               /\ code'[c].action = code[c].action
    BY <1>3, <2>1 DEF WithdrawCode, Invalidated, CountFailedAttempt, TypeInv, TypeOK, Code
  <2> QED BY <1>3, <2>2, NothingSpent DEF WithdrawCode, CountFailedAttempt, log
<1>4. ASSUME NEW r \in Requests, AuditResponse(r) PROVE SpentInv'
  <2>1. request[r].proposal \in Proposals /\ proposal[request[r].proposal].status = request[r].action
    BY <1>4 DEF AuditResponse, At, TypeInv, RequestInv, Reads
  <2>2. UNCHANGED <<code, proposal>> /\ told' = told \cup {<<request[r].proposal, request[r].action>>}
    BY <1>4 DEF AuditResponse, rows
  <2>3. \A t \in told' : t \in told \/ proposal'[t[1]].status = t[2]
    BY <2>1, <2>2
  <2> QED BY <2>2, <2>3, NothingSpent
<1>5. ASSUME NEW p \in Proposals, NEW u \in Ends, NEW from \in {"none", "draft"},
             WriteDraft(p, u, from)
      PROVE  SpentInv'
  <2>1. /\ \A o \in Proposals : o # p => proposal'[o] = proposal[o]
        /\ proposal[p].status = from /\ proposal'[p].status = "draft"
        /\ UNCHANGED <<code, told>>
    BY <1>5 DEF WriteDraft, Written, TypeInv, TypeOK, Proposal, log
  <2> QED BY <2>1, NothingSpent
<1>6. ASSUME NEW r \in Requests, SendProposal(r) PROVE SpentInv'
  <2>1. request[r].proposal \in Proposals
    BY <1>6 DEF SendProposal, At, TypeInv, RequestInv, Reads
  <2>2. /\ \A o \in Proposals : \/ proposal'[o] = proposal[o]
                                \/ proposal[o].status = "draft" /\ proposal'[o].status = "sent"
        /\ UNCHANGED <<code, told>>
    BY <1>6, <2>1 DEF SendProposal, TypeInv, TypeOK, Proposal, log
  <2> QED BY <2>2, NothingSpent
<1>7. ASSUME NEW p \in Proposals, EditProposal(p) PROVE SpentInv'
  <2>1. \A o \in Proposals : proposal'[o].status = proposal[o].status
    BY <1>7, EditProposalType
  <2> QED BY <1>7, <2>1, NothingSpent DEF EditProposal, log
<1>8. ASSUME NEW c \in Codes, ExpireCode(c) PROVE SpentInv'
  <2>1. \A d \in Codes : /\ code'[d].used = code[d].used /\ code'[d].proposal = code[d].proposal
                         /\ code'[d].action = code[d].action
    BY <1>8 DEF ExpireCode, TypeInv, TypeOK, Code
  <2> QED BY <1>8, <2>1, NothingSpent DEF ExpireCode, log
<1>9. ASSUME NEW r \in Requests, Supersede(r) \/ DeliverCode(r) \/ Die(r)
      PROVE  UNCHANGED <<code, proposal, told>>
  BY <1>9 DEF Supersede, DeliverCode, Die, rows, log
<1>10. ASSUME NEW r \in Requests, NEW p \in Proposals, NEW a \in Answers,
              ReadTarget(r, p, a) \/ FindCode(r, p, a)
       PROVE  UNCHANGED <<code, proposal, told>>
  BY <1>10 DEF ReadTarget, FindCode, rows, log
<1>11. ASSUME NEW r \in Requests, NEW p \in Proposals, ReadDraft(r, p)
       PROVE  UNCHANGED <<code, proposal, told>>
  BY <1>11 DEF ReadDraft, rows, log
<1>12. ASSUME NextDay \/ UNCHANGED vars
       PROVE  UNCHANGED <<code, proposal, told>>
  BY <1>12 DEF NextDay, vars, rows, log
<1> QED BY <1>0, <1>1, <1>2, <1>3, <1>4, <1>5, <1>6, <1>7, <1>8, <1>9, <1>10, <1>11, <1>12,
           RecordSpends, Steps

-----------------------------------------------------------------------------
\* One code alive.

\* A step that brings no code to life, and takes no request as far as its insertion.
LEMMA NothingIssued ==
  ASSUME LiveInv,
         overlapped \subseteq overlapped', revived \subseteq revived',
         \A c \in Codes : c \notin revived' /\ Unspent(c)' =>
           Unspent(c) /\ code'[c].proposal = code[c].proposal,
         \A q \in Requests : request'[q].pc = "superseded" => request'[q] = request[q]
  PROVE  LiveInv'
<1>1. OneLive'
  BY DEF LiveInv, OneLive, CodesOf
<1>2. SupersededInv'
  <2> SUFFICES ASSUME NEW r \in Requests, request'[r].pc = "superseded",
                      request'[r].proposal \notin overlapped'
               PROVE  /\ \A c \in Codes : /\ code'[c].proposal = request'[r].proposal
                                          /\ c \notin revived' /\ Unspent(c)'
                                          => c \in request'[r].outstanding
                      /\ \A q \in Requests :
                           request'[q].pc = "superseded" /\ request'[q].proposal = request'[r].proposal
                             => q = r
    BY DEF SupersededInv, At, CodesOf
  <2>1. /\ request'[r] = request[r] /\ At(r, "superseded") /\ request[r].proposal \notin overlapped
    BY DEF At
  <2>2. ASSUME NEW c \in Codes, code'[c].proposal = request'[r].proposal,
               c \notin revived', Unspent(c)'
        PROVE  c \in request'[r].outstanding
    BY <2>1, <2>2 DEF LiveInv, SupersededInv, CodesOf
  <2>3. ASSUME NEW q \in Requests, request'[q].pc = "superseded",
               request'[q].proposal = request'[r].proposal
        PROVE  q = r
    BY <2>1, <2>3 DEF LiveInv, SupersededInv, At
  <2> QED BY <2>2, <2>3
<1> QED BY <1>1, <1>2 DEF LiveInv

\* The codes a supersession reads are all there are ...
LEMMA SupersedeLive ==
  ASSUME TypeInv, LiveInv, NEW r \in Requests, Supersede(r)
  PROVE  LiveInv'
<1> DEFINE p == request[r].proposal
<1>1. /\ UNCHANGED <<code, revived>> /\ At(r, "issuing") /\ request[r] \in Request /\ p \in Proposals
      /\ request'[r].pc = "superseded" /\ request'[r].proposal = p
      /\ request'[r].outstanding = {c \in CodesOf(p) : Unspent(c)}
      /\ \A q \in Requests : q # r => request'[q] = request[q]
      /\ overlapped' = IF \E q \in Requests : At(q, "superseded") /\ request[q].proposal = p
                         THEN overlapped \cup {p} ELSE overlapped
  BY DEF Supersede, rows, TypeInv, TypeOK, RequestInv, Reads, At, Request
<1>2. OneLive'
  BY <1>1 DEF LiveInv, OneLive, CodesOf, Unspent
<1>3. SupersededInv'
  <2> SUFFICES ASSUME NEW s \in Requests, request'[s].pc = "superseded",
                      request'[s].proposal \notin overlapped'
               PROVE  /\ \A c \in Codes : /\ code[c].proposal = request'[s].proposal
                                          /\ c \notin revived /\ Unspent(c)
                                          => c \in request'[s].outstanding
                      /\ \A q \in Requests :
                           request'[q].pc = "superseded" /\ request'[q].proposal = request'[s].proposal
                             => q = s
    BY <1>1 DEF SupersededInv, At, CodesOf, Unspent
  <2>1. overlapped \subseteq overlapped'
    BY <1>1
  <2>2. CASE s = r
    <3>1. \A q \in Requests : ~(At(q, "superseded") /\ request[q].proposal = p)
      BY <1>1, <2>2
    <3> QED BY <1>1, <2>2, <3>1 DEF CodesOf, At
  <2>3. CASE s # r
    <3>1. /\ request'[s] = request[s] /\ At(s, "superseded") /\ request[s].proposal \notin overlapped
      BY <1>1, <2>1, <2>3 DEF At
    <3>2. p # request[s].proposal
      BY <1>1, <3>1
    <3>3. /\ \A c \in CodesOf(request[s].proposal) \ revived : Unspent(c) => c \in request[s].outstanding
          /\ \A q \in Requests :
               At(q, "superseded") /\ request[q].proposal = request[s].proposal => q = s
      BY <3>1 DEF LiveInv, SupersededInv
    <3> QED BY <1>1, <3>1, <3>2, <3>3 DEF CodesOf, At
  <2> QED BY <2>2, <2>3
<1> QED BY <1>2, <1>3 DEF LiveInv

\* ... so that the code the insertion adds is the only one left alive.
LEMMA IssueCodeLive ==
  ASSUME TypeInv, LiveInv, NEW r \in Requests, IssueCode(r)
  PROVE  LiveInv'
<1> PICK new \in Codes : Issues(r, new)
  BY IssueCodeIssues
<1> DEFINE p == request[r].proposal
<1>1. /\ UNCHANGED <<overlapped, revived>> /\ At(r, "superseded") /\ p \in Proposals
      /\ code'[new].proposal = p /\ request'[r].pc = "mailing"
  BY DEF IssueCode, history, Issues, NoCode, Idle, TypeInv, RequestInv, Reads, At
<1>2. ASSUME NEW c \in Codes, c # new
      PROVE  /\ code'[c].proposal = code[c].proposal
             /\ c \in request[r].outstanding => ~Unspent(c)'
             /\ c \notin request[r].outstanding => (Unspent(c)' => Unspent(c))
  <2>1. code[c] \in Code
    BY DEF TypeInv, TypeOK
  <2> QED BY <1>2, <2>1 DEF Issues, Code, Unspent
<1>3. ASSUME NEW q \in Requests, q # r
      PROVE  /\ request'[q].pc = request[q].pc /\ request'[q].proposal = request[q].proposal
             /\ request'[q].outstanding = request[q].outstanding \ request[r].outstanding
  <2>1. request[q] \in Request
    BY DEF TypeInv, TypeOK
  <2> QED BY <1>3, <2>1 DEF Issues, Request
<1>4. p \notin overlapped =>
        /\ \A c \in Codes : c \notin revived /\ code[c].proposal = p /\ Unspent(c) =>
             c \in request[r].outstanding
        /\ \A q \in Requests : At(q, "superseded") /\ request[q].proposal = p => q = r
  BY <1>1 DEF LiveInv, SupersededInv, CodesOf
<1>5. OneLive'
  <2> SUFFICES ASSUME NEW o \in Proposals, o \notin overlapped,
                      NEW c \in Codes, code'[c].proposal = o, c \notin revived, Unspent(c)',
                      NEW d \in Codes, code'[d].proposal = o, d \notin revived, Unspent(d)'
               PROVE  c = d
    BY <1>1 DEF OneLive, CodesOf
  <2>1. CASE o = p
    <3>1. ASSUME NEW e \in Codes, code'[e].proposal = o, e \notin revived, Unspent(e)'
          PROVE  e = new
      BY <1>2, <1>4, <2>1, <3>1
    <3> QED BY <3>1
  <2>2. CASE o # p
    <3>1. c # new /\ d # new
      BY <1>1, <2>2
    <3>2. Unspent(c) /\ Unspent(d) /\ code[c].proposal = o /\ code[d].proposal = o
      BY <1>2, <3>1
    <3> QED BY <3>2 DEF LiveInv, OneLive, CodesOf
  <2> QED BY <2>1, <2>2
<1>6. SupersededInv'
  <2> SUFFICES ASSUME NEW s \in Requests, request'[s].pc = "superseded",
                      request'[s].proposal \notin overlapped
               PROVE  /\ \A c \in Codes : /\ code'[c].proposal = request'[s].proposal
                                          /\ c \notin revived /\ Unspent(c)'
                                          => c \in request'[s].outstanding
                      /\ \A q \in Requests :
                           request'[q].pc = "superseded" /\ request'[q].proposal = request'[s].proposal
                             => q = s
    BY <1>1 DEF SupersededInv, At, CodesOf
  <2>1. s # r /\ At(s, "superseded") /\ request[s].proposal \notin overlapped
    BY <1>1, <1>3 DEF At
  <2>2. request[s].proposal # p
    BY <1>4, <2>1
  <2>3. /\ \A c \in Codes : c \notin revived /\ code[c].proposal = request[s].proposal /\ Unspent(c) =>
             c \in request[s].outstanding
        /\ \A q \in Requests :
             At(q, "superseded") /\ request[q].proposal = request[s].proposal => q = s
    BY <2>1 DEF LiveInv, SupersededInv, CodesOf
  <2>4. ASSUME NEW c \in Codes, code'[c].proposal = request'[s].proposal, c \notin revived, Unspent(c)'
        PROVE  c \in request'[s].outstanding
    <3>1. c # new
      BY <1>1, <1>3, <2>1, <2>2, <2>4
    <3>2. /\ code[c].proposal = request[s].proposal /\ Unspent(c) /\ c \notin request[r].outstanding
      BY <1>2, <1>3, <2>1, <2>4, <3>1
    <3> QED BY <1>3, <2>1, <2>3, <2>4, <3>2
  <2>5. ASSUME NEW q \in Requests, request'[q].pc = "superseded",
               request'[q].proposal = request'[s].proposal
        PROVE  q = s
    BY <1>1, <1>3, <2>1, <2>3, <2>5 DEF At
  <2> QED BY <2>4, <2>5
<1> QED BY <1>5, <1>6 DEF LiveInv

\* A step that ends or begins one request short of its insertion.
LEMMA NotSuperseded ==
  ASSUME request \in [Requests -> Request], NEW r \in Requests, NEW next,
         request' = [request EXCEPT ![r] = next], next.pc # "superseded"
  PROVE  \A q \in Requests : request'[q].pc = "superseded" => request'[q] = request[q]
OBVIOUS

LEMMA LiveStep ==
  ASSUME TypeInv, LiveInv, [Next]_vars
  PROVE  LiveInv'
<1>0. TypeInv' /\ Kept /\ request \in [Requests -> Request] /\ Idle.pc = "idle"
  BY TypeStep DEF TypeInv, TypeOK, Idle
<1>1. ASSUME NEW r \in Requests, NEW p \in Proposals, NEW a \in Answers,
             ReadTarget(r, p, a) \/ FindCode(r, p, a)
      PROVE  LiveInv'
  <2>1. UNCHANGED <<code, overlapped, revived>>
    BY <1>1 DEF ReadTarget, FindCode, rows, history
  <2>2. \A q \in Requests : request'[q].pc = "superseded" => request'[q] = request[q]
    <3>1. \E next : next.pc # "superseded" /\ Begin(r, next)
      BY <1>1 DEF ReadTarget, FindCode, Idle
    <3> QED BY <1>0, <3>1, NotSuperseded DEF Begin
  <2> QED BY <2>1, <2>2, NothingIssued DEF Unspent
<1>2. ASSUME NEW r \in Requests, DeliverCode(r) \/ AuditResponse(r) \/ Die(r) \/ SendProposal(r)
      PROVE  LiveInv'
  <2>1. UNCHANGED <<code, overlapped, revived>>
    BY <1>2 DEF DeliverCode, AuditResponse, Die, SendProposal, rows, history
  <2>2. \A q \in Requests : request'[q].pc = "superseded" => request'[q] = request[q]
    BY <1>0, <1>2 DEF DeliverCode, AuditResponse, Die, SendProposal, Return, Begin, Goto, Request
  <2> QED BY <2>1, <2>2, NothingIssued DEF Unspent
<1>3. ASSUME NEW r \in Requests, NEW p \in Proposals, ReadDraft(r, p)
      PROVE  LiveInv'
  <2>1. UNCHANGED <<code, overlapped, revived>>
    BY <1>3 DEF ReadDraft, rows, history
  <2>2. \A q \in Requests : request'[q].pc = "superseded" => request'[q] = request[q]
    BY <1>0, <1>3 DEF ReadDraft, Begin, Idle
  <2> QED BY <2>1, <2>2, NothingIssued DEF Unspent
<1>4. ASSUME NEW r \in Requests, WithdrawCode(r)
      PROVE  LiveInv'
  <2>1. request[r].code \in Codes /\ UNCHANGED <<overlapped, revived>>
    BY <1>4 DEF WithdrawCode, At, TypeInv, RequestInv, Reads, history
  <2>2. \A c \in Codes : Unspent(c)' => Unspent(c) /\ code'[c].proposal = code[c].proposal
    BY <1>4, <2>1 DEF WithdrawCode, Invalidated, TypeInv, TypeOK, Code, Unspent
  <2>3. \A q \in Requests : request'[q].pc = "superseded" => request'[q] = request[q]
    BY <1>0, <1>4 DEF WithdrawCode, Return, Begin
  <2> QED BY <2>1, <2>2, <2>3, NothingIssued
<1>5. ASSUME NEW r \in Requests, CountFailedAttempt(r)
      PROVE  LiveInv'
  <2>1. request[r].code \in Codes /\ overlapped' = overlapped /\ revived \subseteq revived'
    BY <1>5 DEF CountFailedAttempt, At, TypeInv, RequestInv, Reads
  <2>2. ASSUME NEW c \in Codes, c \notin revived', Unspent(c)'
        PROVE  Unspent(c) /\ code'[c].proposal = code[c].proposal
    BY <1>5, <2>1, <2>2 DEF CountFailedAttempt, TypeInv, TypeOK, Code, Unspent
  <2>3. \A q \in Requests : request'[q].pc = "superseded" => request'[q] = request[q]
    BY <1>0, <1>5 DEF CountFailedAttempt, Return, Begin
  <2> QED BY <2>1, <2>2, <2>3, NothingIssued
<1>6. ASSUME NEW r \in Requests, RecordResponse(r)
      PROVE  LiveInv'
  <2>1. request[r].code \in Codes /\ UNCHANGED <<overlapped, revived>>
    BY <1>6 DEF RecordResponse, At, TypeInv, RequestInv, Reads, history
  <2>2. \A c \in Codes : Unspent(c)' => Unspent(c) /\ code'[c].proposal = code[c].proposal
    BY <1>6, <2>1 DEF RecordResponse, TypeInv, TypeOK, Code, Unspent
  <2>3. \A q \in Requests : request'[q].pc = "superseded" => request'[q] = request[q]
    <3> DEFINE next == [request[r] EXCEPT !.pc = "answered", !.code = Null]
    <3>1. next.pc # "superseded" /\ request[r] \in Request
      BY <1>0 DEF Request
    <3>2. Begin(r, next) \/ Begin(r, Idle)
      BY <1>6 DEF RecordResponse, Return
    <3> HIDE DEF next
    <3> QED BY <1>0, <3>1, <3>2, NotSuperseded DEF Begin
  <2> QED BY <2>1, <2>2, <2>3, NothingIssued
<1>7. ASSUME NEW c \in Codes, ExpireCode(c)
      PROVE  LiveInv'
  <2>1. \A d \in Codes : Unspent(d)' => Unspent(d) /\ code'[d].proposal = code[d].proposal
    BY <1>7 DEF ExpireCode, TypeInv, TypeOK, Code, Unspent
  <2> QED BY <1>7, <2>1, NothingIssued DEF ExpireCode, history
<1>8. CASE UNCHANGED <<code, request, overlapped, revived>>
  BY <1>8, NothingIssued DEF Unspent
<1>9. ASSUME NEW p \in Proposals, NEW u \in Ends, NEW from \in {"none", "draft"},
             WriteDraft(p, u, from)
      PROVE  UNCHANGED <<code, request, overlapped, revived>>
  BY <1>9 DEF WriteDraft, history
<1>10. ASSUME NEW p \in Proposals, EditProposal(p)
       PROVE  UNCHANGED <<code, request, overlapped, revived>>
  BY <1>10 DEF EditProposal, history
<1>11. ASSUME NextDay \/ UNCHANGED vars
       PROVE  UNCHANGED <<code, request, overlapped, revived>>
  BY <1>11 DEF NextDay, vars, rows, history
<1> QED BY <1>1, <1>2, <1>3, <1>4, <1>5, <1>6, <1>7, <1>8, <1>9, <1>10, <1>11,
           SupersedeLive, IssueCodeLive, Steps

-----------------------------------------------------------------------------
\* A live code was mailed, or somebody still has it in hand.

\* A step that issues no code, and lets none go unmailed.
LEMMA NothingLost ==
  ASSUME LiveIsMailed,
         revived \subseteq revived', stranded \subseteq stranded', mailed \subseteq mailed',
         \A c \in Codes : code[c] = NoCode => code'[c] = NoCode,
         \A c \in Codes : c \notin revived' /\ Unspent(c)' => Unspent(c),
         \A r \in Requests : request[r].pc \in {"mailing", "withdrawing"} =>
           \/ request'[r].pc \in {"mailing", "withdrawing"} /\ request'[r].code = request[r].code
           \/ request[r].code \in mailed' \cup stranded'
           \/ \A c \in Codes : Unspent(c)' => c # request[r].code
  PROVE  LiveIsMailed'
<1> SUFFICES ASSUME NEW c \in Codes, c \notin revived' \cup stranded',
                    code'[c] # NoCode, Unspent(c)', c \notin mailed'
             PROVE  \E r \in Requests :
                      request'[r].pc \in {"mailing", "withdrawing"} /\ request'[r].code = c
  BY DEF LiveIsMailed
<1>1. /\ c \notin revived \cup stranded \cup mailed /\ code[c] # NoCode /\ Unspent(c)
  OBVIOUS
<1>2. PICK r \in Requests : request[r].pc \in {"mailing", "withdrawing"} /\ request[r].code = c
  BY <1>1 DEF LiveIsMailed
<1> QED BY <1>2

LEMMA IssueCodeMailed ==
  ASSUME TypeInv, LiveIsMailed, NEW r \in Requests, IssueCode(r)
  PROVE  LiveIsMailed'
<1> PICK new \in Codes : Issues(r, new)
  BY IssueCodeIssues
<1>1. /\ UNCHANGED <<mailed, revived, stranded>> /\ At(r, "superseded")
      /\ request'[r].pc = "mailing" /\ request'[r].code = new
  BY DEF IssueCode, Issues, log, history, Idle
<1> SUFFICES ASSUME NEW c \in Codes, c \notin revived \cup stranded,
                    code'[c] # NoCode, Unspent(c)', c \notin mailed
             PROVE  \E q \in Requests :
                      request'[q].pc \in {"mailing", "withdrawing"} /\ request'[q].code = c
  BY <1>1 DEF LiveIsMailed
<1>2. CASE c = new
  BY <1>1, <1>2
<1>3. CASE c # new
  <2>1. Unspent(c) /\ code[c] # NoCode
    <3>1. code[c] \in Code
      BY DEF TypeInv, TypeOK
    <3> QED BY <1>3, <3>1 DEF Issues, Code, Unspent
  <2>2. PICK q \in Requests : request[q].pc \in {"mailing", "withdrawing"} /\ request[q].code = c
    BY <2>1 DEF LiveIsMailed
  <2>3. q # r /\ request[q] \in Request
    BY <1>1, <2>2 DEF At, TypeInv, TypeOK
  <2>4. request'[q].pc = request[q].pc /\ request'[q].code = request[q].code
    BY <2>3 DEF Issues, Request
  <2> QED BY <2>2, <2>4
<1> QED BY <1>2, <1>3

LEMMA MailedStep ==
  ASSUME TypeInv, LiveIsMailed, [Next]_vars
  PROVE  LiveIsMailed'
<1>0. request \in [Requests -> Request] /\ code \in [Codes -> Code] /\ NoCode.proposal = Null
  BY DEF TypeInv, TypeOK, NoCode
<1>1. CASE UNCHANGED <<code, request, mailed, revived, stranded>>
  BY <1>1, NothingLost DEF Unspent
<1>2. ASSUME NEW r \in Requests, NEW next, At(r, "idle") \/ At(r, "issuing") \/ At(r, "answered") \/ At(r, "sending"),
             request' = [request EXCEPT ![r] = next],
             UNCHANGED <<code, mailed, revived, stranded>>
      PROVE  LiveIsMailed'
  <2>1. \A q \in Requests : request[q].pc \in {"mailing", "withdrawing"} => request'[q] = request[q]
    BY <1>0, <1>2 DEF At
  <2> QED BY <1>2, <2>1, NothingLost DEF Unspent
<1>3. ASSUME NEW r \in Requests, NEW p \in Proposals, NEW a \in Answers,
             ReadTarget(r, p, a) \/ FindCode(r, p, a)
      PROVE  LiveIsMailed'
  BY <1>2, <1>3 DEF ReadTarget, FindCode, Begin, rows, log, history
<1>4. ASSUME NEW r \in Requests, NEW p \in Proposals, ReadDraft(r, p)
      PROVE  LiveIsMailed'
  BY <1>2, <1>4 DEF ReadDraft, Begin, rows, log, history
<1>5. ASSUME NEW r \in Requests, Supersede(r)
      PROVE  LiveIsMailed'
  <2>1. request' = [request EXCEPT ![r] = [request[r] EXCEPT !.pc = "superseded",
                      !.outstanding = {c \in CodesOf(request[r].proposal) : Unspent(c)}]]
    BY <1>0, <1>5 DEF Supersede
  <2> QED BY <1>2, <1>5, <2>1 DEF Supersede, rows, log
<1>6. ASSUME NEW r \in Requests, AuditResponse(r)
      PROVE  LiveIsMailed'
  BY <1>2, <1>6 DEF AuditResponse, Return, Begin, rows, history
<1>7. ASSUME NEW r \in Requests, SendProposal(r)
      PROVE  LiveIsMailed'
  BY <1>2, <1>7 DEF SendProposal, Return, Begin, log, history
<1>8. ASSUME NEW r \in Requests, DeliverCode(r)
      PROVE  LiveIsMailed'
  <2>1. At(r, "mailing") /\ UNCHANGED <<code, revived, stranded>> /\ mailed \subseteq mailed'
    BY <1>8 DEF DeliverCode, rows, history
  <2>2. CASE Return(r) /\ request[r].code \in mailed'
    <3>1. \A q \in Requests : q # r => request'[q] = request[q]
      BY <1>0, <2>2 DEF Return, Begin
    <3> QED BY <2>1, <2>2, <3>1, NothingLost DEF Unspent
  <2>3. CASE Goto(r, "withdrawing")
    <3>1. \A q \in Requests : q # r => request'[q] = request[q]
      BY <1>0, <2>3 DEF Goto
    <3>2. request'[r].pc = "withdrawing" /\ request'[r].code = request[r].code
      BY <1>0, <2>3 DEF Goto, Request
    <3> QED BY <2>1, <3>1, <3>2, NothingLost DEF Unspent
  <2> QED BY <1>8, <2>2, <2>3 DEF DeliverCode
<1>9. ASSUME NEW r \in Requests, WithdrawCode(r)
      PROVE  LiveIsMailed'
  <2>1. /\ request[r].code \in Codes /\ code[request[r].code].proposal # Null
        /\ UNCHANGED <<mailed, revived, stranded>>
        /\ \A q \in Requests : q # r => request'[q] = request[q]
    BY <1>0, <1>9 DEF WithdrawCode, Return, Begin, log, history, At, TypeInv, RequestInv, Reads
  <2> DEFINE c == request[r].code
  <2>2. /\ code'[c].used \/ code'[c].invalidated
        /\ \A d \in Codes : d # c => code'[d] = code[d]
    <3>1. code' = [code EXCEPT ![c].invalidated = ~code[c].used] /\ c \in Codes
      BY <1>9, <2>1 DEF WithdrawCode, Invalidated
    <3>2. code[c] \in Code
      BY <1>0, <3>1
    <3> HIDE DEF c
    <3> QED BY <1>0, <3>1, <3>2 DEF Code
  <2>3. ASSUME NEW d \in Codes
        PROVE  /\ code[d] = NoCode => code'[d] = NoCode
               /\ Unspent(d)' => Unspent(d) /\ d # c
    <3> HIDE DEF c
    <3>1. CASE d = c
      BY <1>0, <2>1, <2>2, <3>1 DEF Unspent, c
    <3>2. CASE d # c
      BY <2>2, <3>2 DEF Unspent
    <3> QED BY <3>1, <3>2
  <2> QED BY <2>1, <2>3, NothingLost
<1>10. ASSUME NEW r \in Requests, CountFailedAttempt(r) \/ RecordResponse(r)
      PROVE  LiveIsMailed'
  <2>1. /\ request[r].code \in Codes /\ code[request[r].code].proposal # Null
        /\ UNCHANGED <<mailed, stranded>> /\ revived \subseteq revived'
        /\ request[r].pc \notin {"mailing", "withdrawing"}
    BY <1>10 DEF CountFailedAttempt, RecordResponse, log, history, At, TypeInv, RequestInv, Reads
  <2>2. \A q \in Requests : q # r => request'[q] = request[q]
    BY <1>0, <1>10 DEF CountFailedAttempt, RecordResponse, Return, Begin
  <2>3. \A c \in Codes : c # request[r].code => code'[c] = code[c]
    BY <1>0, <1>10 DEF CountFailedAttempt, RecordResponse
  <2>4. ASSUME NEW c \in Codes, c = request[r].code, c \notin revived', Unspent(c)'
        PROVE  Unspent(c)
    <3>1. CASE CountFailedAttempt(r)
      BY <1>0, <2>4, <3>1 DEF CountFailedAttempt, Unspent, Code
    <3>2. CASE RecordResponse(r)
      BY <1>0, <2>4, <3>2 DEF RecordResponse, Unspent, Code
    <3> QED BY <1>10, <3>1, <3>2
  <2>5. ASSUME NEW c \in Codes
        PROVE  /\ code[c] = NoCode => code'[c] = NoCode
               /\ c \notin revived' /\ Unspent(c)' => Unspent(c)
    <3>1. CASE c = request[r].code
      BY <1>0, <2>1, <2>4, <3>1
    <3>2. CASE c # request[r].code
      BY <2>3, <3>2 DEF Unspent
    <3> QED BY <3>1, <3>2
  <2> QED BY <2>1, <2>2, <2>5, NothingLost
<1>11. ASSUME NEW r \in Requests, Die(r)
       PROVE  LiveIsMailed'
  <2>1. UNCHANGED <<code, mailed, revived>> /\ stranded \subseteq stranded'
        /\ (request[r].pc \in {"mailing", "withdrawing"} => request[r].code \in stranded')
        /\ \A q \in Requests : q # r => request'[q] = request[q]
    BY <1>0, <1>11 DEF Die, Return, Begin, rows, log
  <2> QED BY <2>1, NothingLost DEF Unspent
<1>12. ASSUME NEW c \in Codes, ExpireCode(c)
       PROVE  LiveIsMailed'
  <2>1. /\ code[c].proposal # Null /\ UNCHANGED <<request, mailed, revived, stranded>>
        /\ \A d \in Codes : d # c => code'[d] = code[d]
        /\ Unspent(c)' => Unspent(c)
    BY <1>0, <1>12 DEF ExpireCode, log, history, Code, Unspent
  <2>2. \A d \in Codes : /\ code[d] = NoCode => code'[d] = NoCode
                         /\ Unspent(d)' => Unspent(d)
    BY <1>0, <2>1 DEF Unspent
  <2> QED BY <2>1, <2>2, NothingLost
<1>13. ASSUME NEW p \in Proposals, NEW u \in Ends, NEW from \in {"none", "draft"},
             WriteDraft(p, u, from)
       PROVE  UNCHANGED <<code, request, mailed, revived, stranded>>
  BY <1>13 DEF WriteDraft, log
<1>14. ASSUME NEW p \in Proposals, EditProposal(p)
       PROVE  UNCHANGED <<code, request, mailed, revived, stranded>>
  BY <1>14 DEF EditProposal, log, history
<1>15. ASSUME NextDay \/ UNCHANGED vars
       PROVE  UNCHANGED <<code, request, mailed, revived, stranded>>
  BY <1>15 DEF NextDay, vars, rows, log, history
<1> QED BY <1>1, <1>3, <1>4, <1>5, <1>6, <1>7, <1>8, <1>9, <1>10, <1>11, <1>12, <1>13, <1>14, <1>15,
           IssueCodeMailed, Steps

-----------------------------------------------------------------------------
\* A proposal is sent with the date its owner last gave it.

\* A step that changes no proposal's status or date, and begins no send.
LEMMA NothingDated ==
  ASSUME DatesInv, \A r \in Requests : At(r, "sending") => request[r].proposal \in Proposals,
         \A p \in Proposals : proposal'[p].status = proposal[p].status
                              /\ proposal'[p].until = proposal[p].until,
         UNCHANGED <<edited, overwritten>>,
         \A r \in Requests : request'[r].pc = "sending" => request'[r] = request[r]
  PROVE  DatesInv'
<1>1. IssuedAsEdited'
  BY DEF DatesInv, IssuedAsEdited
<1>2. \A r \in Requests : request'[r].pc = "sending" =>
        At(r, "sending") /\ request'[r] = request[r] /\ request[r].proposal \in Proposals
  BY DEF At
<1>3. DraftInv'
  BY <1>2 DEF DatesInv, DraftInv, At
<1> QED BY <1>1, <1>3 DEF DatesInv

LEMMA DatesStep ==
  ASSUME TypeInv, DatesInv, [Next]_vars
  PROVE  DatesInv'
<1>0. /\ request \in [Requests -> Request] /\ proposal \in [Proposals -> Proposal]
      /\ \A r \in Requests : At(r, "sending") => request[r].proposal \in Proposals
      /\ Idle.pc = "idle"
  BY DEF TypeInv, TypeOK, RequestInv, Reads, At, Idle
<1>1. ASSUME NEW p \in Proposals, NEW u \in Ends, NEW from \in {"none", "draft"},
             WriteDraft(p, u, from)
      PROVE  DatesInv'
  <2>1. /\ proposal[p].status \in {"none", "draft"}
        /\ proposal'[p].status = "draft" /\ proposal'[p].until = u /\ edited'[p] = u
        /\ \A o \in Proposals : o # p => proposal'[o] = proposal[o] /\ edited'[o] = edited[o]
        /\ UNCHANGED request
    BY <1>0, <1>1 DEF WriteDraft, Written, Proposal, TypeInv, TypeOK
  <2>2. /\ overwritten \subseteq overwritten'
        /\ \A r \in Requests : At(r, "sending") /\ request[r].proposal = p => p \in overwritten'
    BY <1>1 DEF WriteDraft
  <2>3. IssuedAsEdited'
    BY <2>1, <2>2 DEF DatesInv, IssuedAsEdited
  <2>4. DraftInv'
    BY <1>0, <2>1, <2>2 DEF DatesInv, DraftInv, At
  <2> QED BY <2>3, <2>4 DEF DatesInv
<1>2. ASSUME NEW r \in Requests, NEW p \in Proposals, ReadDraft(r, p)
      PROVE  DatesInv'
  <2>1. /\ request'[r].proposal = p /\ request'[r].until = proposal[p].until
        /\ proposal[p].status = "draft"
        /\ \A q \in Requests : q # r => request'[q] = request[q]
        /\ UNCHANGED <<proposal, edited, overwritten>>
    BY <1>0, <1>2 DEF ReadDraft, Begin, Idle, rows, history
  <2>2. IssuedAsEdited'
    BY <2>1 DEF DatesInv, IssuedAsEdited
  <2>3. DraftInv'
    BY <2>1 DEF DatesInv, DraftInv, At
  <2> QED BY <2>2, <2>3 DEF DatesInv
<1>3. ASSUME NEW r \in Requests, SendProposal(r)
      PROVE  DatesInv'
  <2> DEFINE p == request[r].proposal
  <2>1. /\ At(r, "sending") /\ p \in Proposals /\ request'[r].pc = "idle"
        /\ \A q \in Requests : q # r => request'[q] = request[q]
        /\ UNCHANGED <<edited, overwritten>>
    BY <1>0, <1>3 DEF SendProposal, Return, Begin, history
  <2>2. CASE proposal' = proposal
    BY <1>0, <2>1, <2>2, NothingDated
  <2>3. CASE /\ proposal[p].status = "draft"
             /\ proposal' = [proposal EXCEPT ![p].status = "sent", ![p].until = OpenUntil(request[r].until)]
    <3>1. /\ proposal'[p].status = "sent" /\ proposal'[p].until = OpenUntil(request[r].until)
          /\ \A o \in Proposals : o # p => proposal'[o] = proposal[o]
      BY <1>0, <2>1, <2>3 DEF Proposal
    <3>2. p \notin overwritten => request[r].until = edited[p]
      BY <2>1, <2>3 DEF DatesInv, DraftInv
    <3>3. p \notin overwritten /\ edited[p] # Null => proposal'[p].until = edited[p]
      BY <3>1, <3>2 DEF OpenUntil
    <3> HIDE DEF p
    <3>4. IssuedAsEdited'
      BY <2>1, <3>1, <3>3 DEF DatesInv, IssuedAsEdited
    <3>5. DraftInv'
      <4>1. \A o \in Proposals : proposal'[o].status = "draft" => o # p /\ proposal'[o] = proposal[o]
        BY <2>1, <3>1
      <4>2. \A q \in Requests : request'[q].pc = "sending" =>
              At(q, "sending") /\ request'[q] = request[q] /\ request[q].proposal \in Proposals
        BY <1>0, <2>1 DEF At
      <4> QED BY <2>1, <4>1, <4>2 DEF DatesInv, DraftInv, At
    <3> QED BY <3>4, <3>5 DEF DatesInv
  <2> QED BY <1>3, <2>2, <2>3 DEF SendProposal
<1>4. ASSUME NEW r \in Requests, RecordResponse(r)
      PROVE  DatesInv'
  <2> DEFINE p == request[r].proposal
             next == [request[r] EXCEPT !.pc = "answered", !.code = Null]
  <2>1. /\ p \in Proposals /\ request[r].action \in Answers /\ UNCHANGED <<edited, overwritten>>
        /\ request[r] \in Request /\ next.pc = "answered"
    BY <1>0, <1>4 DEF RecordResponse, history, At, TypeInv, RequestInv, Reads, Request
  <2>2. \A q \in Requests : request'[q].pc = "sending" => request'[q] = request[q]
    <3>1. Begin(r, next) \/ Begin(r, Idle)
      BY <1>4 DEF RecordResponse, Return
    <3> HIDE DEF next
    <3> QED BY <1>0, <2>1, <3>1 DEF Begin
  <2>3. CASE proposal' = proposal
    BY <1>0, <2>1, <2>2, <2>3, NothingDated
  <2>4. CASE /\ proposal[p].status = "sent"
             /\ proposal' = [proposal EXCEPT ![p].status = request[r].action]
    <3>1. /\ proposal'[p].status = request[r].action /\ proposal'[p].until = proposal[p].until
          /\ \A o \in Proposals : o # p => proposal'[o] = proposal[o]
      BY <1>0, <2>1, <2>4 DEF Proposal
    <3> HIDE DEF p
    <3>2. IssuedAsEdited'
      BY <2>1, <2>4, <3>1 DEF DatesInv, IssuedAsEdited
    <3>3. DraftInv'
      <4>1. \A o \in Proposals : proposal'[o].status = "draft" => o # p /\ proposal'[o] = proposal[o]
        BY <2>1, <3>1
      <4>2. \A q \in Requests : request'[q].pc = "sending" =>
              At(q, "sending") /\ request'[q] = request[q] /\ request[q].proposal \in Proposals
        BY <1>0, <2>2 DEF At
      <4> QED BY <2>1, <4>1, <4>2 DEF DatesInv, DraftInv, At
    <3> QED BY <3>2, <3>3 DEF DatesInv
  <2> QED BY <1>4, <2>3, <2>4 DEF RecordResponse
<1>5. CASE /\ UNCHANGED <<proposal, edited, overwritten>>
           /\ \A r \in Requests : request'[r].pc = "sending" => request'[r] = request[r]
  BY <1>0, <1>5, NothingDated
<1>6. ASSUME NEW r \in Requests, NEW p \in Proposals, NEW a \in Answers,
             ReadTarget(r, p, a) \/ FindCode(r, p, a)
      PROVE  DatesInv'
  <2>1. \E next : next.pc # "sending" /\ Begin(r, next)
    BY <1>6 DEF ReadTarget, FindCode, Idle
  <2>2. \A q \in Requests : request'[q].pc = "sending" => request'[q] = request[q]
    BY <1>0, <2>1 DEF Begin
  <2> QED BY <1>5, <1>6, <2>2 DEF ReadTarget, FindCode, rows, history
<1>7. ASSUME NEW r \in Requests,
             DeliverCode(r) \/ WithdrawCode(r) \/ CountFailedAttempt(r) \/ AuditResponse(r) \/ Die(r)
      PROVE  DatesInv'
  <2>1. UNCHANGED <<proposal, edited, overwritten>>
    BY <1>7 DEF DeliverCode, WithdrawCode, CountFailedAttempt, AuditResponse, Die, rows, history
  <2>2. Return(r) \/ Goto(r, "withdrawing")
    BY <1>7 DEF DeliverCode, WithdrawCode, CountFailedAttempt, AuditResponse, Die
  <2>3. \A q \in Requests : request'[q].pc = "sending" => request'[q] = request[q]
    BY <1>0, <2>2 DEF Return, Begin, Goto, Request
  <2> QED BY <1>5, <2>1, <2>3
<1>8. ASSUME NEW r \in Requests, Supersede(r)
      PROVE  DatesInv'
  <2>1. \A q \in Requests : request'[q].pc = "sending" => request'[q] = request[q]
    BY <1>0, <1>8 DEF Supersede, Request
  <2> QED BY <1>5, <1>8, <2>1 DEF Supersede, rows
<1>9. ASSUME NEW r \in Requests, IssueCode(r)
      PROVE  DatesInv'
  <2> PICK new \in Codes : Issues(r, new)
    BY <1>9, IssueCodeIssues
  <2>1. ASSUME NEW q \in Requests, request'[q].pc = "sending"
        PROVE  At(q, "sending") /\ request'[q].proposal = request[q].proposal
               /\ request'[q].until = request[q].until
    <3>1. q # r /\ request[q] \in Request
      BY <1>0, <2>1 DEF Issues, Idle
    <3> QED BY <2>1, <3>1 DEF Issues, Request, At
  <2>2. UNCHANGED <<proposal, edited, overwritten>>
    BY <1>9 DEF IssueCode, history
  <2>3. IssuedAsEdited'
    BY <2>2 DEF DatesInv, IssuedAsEdited
  <2>4. DraftInv'
    BY <2>1, <2>2 DEF DatesInv, DraftInv, At
  <2> QED BY <2>3, <2>4 DEF DatesInv
<1>10. ASSUME NEW p \in Proposals, EditProposal(p)
       PROVE  DatesInv'
  <2>1. /\ \A o \in Proposals : proposal'[o].status = proposal[o].status
                                /\ proposal'[o].until = proposal[o].until
        /\ UNCHANGED <<request, edited, overwritten>>
    BY <1>10, EditProposalType DEF EditProposal, history
  <2> QED BY <1>0, <2>1, NothingDated
<1>11. ASSUME NEW c \in Codes, ExpireCode(c)
       PROVE  DatesInv'
  BY <1>5, <1>11 DEF ExpireCode, history
<1>12. CASE NextDay \/ UNCHANGED vars
  BY <1>5, <1>12 DEF NextDay, vars, rows, history
<1> QED BY <1>1, <1>2, <1>3, <1>4, <1>6, <1>7, <1>8, <1>9, <1>10, <1>11, <1>12, Steps

-----------------------------------------------------------------------------
\* The inductive invariant.

LEMMA InitInv == Init => IInv
<1> SUFFICES ASSUME Init PROVE IInv
  OBVIOUS
<1>1. TypeOK
  <2>1. Idle \in Request /\ NoCode \in Code
    BY RequestTypes, CodeTypes
  <2>2. NoProposal \in Proposal
    BY DEF Proposal, NoProposal, Dates
  <2>3. \A c \in Codes : ~(code[c].used /\ code[c].invalidated)
    BY DEF Init, NoCode
  <2> QED BY <2>1, <2>2, <2>3 DEF Init, TypeOK, Dates
<1>2. RequestInv /\ OutstandingInv /\ SupersededInv
  BY DEF Init, RequestInv, Reads, OutstandingInv, SupersededInv, At, Idle
<1>3. SpentInv
  BY DEF Init, SpentInv, NoProposal, NoCode
<1>4. OneLive /\ LiveIsMailed
  <2>1. \A p \in Proposals : CodesOf(p) = {}
    BY DEF Init, CodesOf, NoCode
  <2> QED BY <2>1 DEF Init, OneLive, LiveIsMailed
<1>5. DatesInv
  BY DEF Init, DatesInv, DraftInv, IssuedAsEdited, NoProposal, At, Idle
<1> QED BY <1>1, <1>2, <1>3, <1>4, <1>5 DEF IInv, TypeInv, LiveInv

\* Every part of the invariant holds of every state.
THEOREM Inductive == Spec => []IInv
<1>1. IInv /\ [Next]_vars => IInv'
  BY TypeStep, SpentStep, LiveStep, MailedStep, DatesStep DEF IInv
<1> QED BY InitInv, <1>1, PTL DEF Spec

\* The tables, the requests and the logs keep their types, and no code is both used and invalidated.
THEOREM TypeCorrect == Spec => []TypeOK
<1>1. IInv => TypeOK
  BY DEF IInv, TypeInv
<1> QED BY <1>1, Inductive, PTL

\* A code is spent exactly when its proposal is answered, on the answer it was issued for, and
\* the audit log tells the answer that stands (recordProposalResponse).
THEOREM SpentExactly == Spec => []SpentExactlyWhenAnswered
<1>1. ASSUME SpentInv PROVE SpentExactlyWhenAnswered
  <2>1. ASSUME NEW p \in Proposals, proposal[p].status \in Answers
        PROVE  LET spent == {c \in CodesOf(p) : code[c].used}
               IN  \E c \in spent : spent = {c} /\ code[c].action = proposal[p].status
    <3>1. PICK c \in Codes :
            /\ code[c].proposal = p /\ code[c].used /\ code[c].action = proposal[p].status
            /\ \A d \in Codes : code[d].proposal = p /\ code[d].used => d = c
      BY <1>1, <2>1 DEF SpentInv
    <3>2. {d \in CodesOf(p) : code[d].used} = {c}
      BY <3>1 DEF CodesOf
    <3> QED BY <3>1, <3>2
  <2>2. ASSUME NEW p \in Proposals, proposal[p].status \notin Answers
        PROVE  {c \in CodesOf(p) : code[c].used} = {}
    BY <1>1, <2>2 DEF SpentInv, CodesOf
  <2> QED BY <1>1, <2>1, <2>2 DEF SpentExactlyWhenAnswered, SpentInv
<1>2. IInv => SpentExactlyWhenAnswered
  BY <1>1 DEF IInv
<1> QED BY <1>2, Inductive, PTL

\* Asking again leaves one code alive, and a live code was mailed or is still in hand
\* (requestProposalOtp).
THEOREM OneCodeAlive == Spec => []OneLiveCode
<1>1. ASSUME OneLive, NEW p \in Proposals \ overlapped
      PROVE  Cardinality({c \in CodesOf(p) \ revived : Unspent(c)}) <= 1
  <2> DEFINE live == {c \in CodesOf(p) \ revived : Unspent(c)}
  <2>1. \A c, d \in live : c = d
    BY <1>1 DEF OneLive
  <2> HIDE DEF live
  <2>2. CASE live = {}
    BY <2>2, FS_EmptySet DEF live
  <2>3. CASE live # {}
    <3>1. PICK c \in live : live = {c}
      BY <2>1, <2>3
    <3> QED BY <3>1, FS_Singleton DEF live
  <2> QED BY <2>2, <2>3
<1>2. IInv => OneLiveCode
  BY <1>1 DEF IInv, LiveInv, LiveIsMailed, OneLiveCode
<1> QED BY <1>2, Inductive, PTL

\* A proposal is sent with the date its owner last gave it (sendProposal).
THEOREM SentAsEdited == Spec => []IssuedAsEdited
<1>1. IInv => IssuedAsEdited
  BY DEF IInv, DatesInv
<1> QED BY <1>1, Inductive, PTL

-----------------------------------------------------------------------------
\* What the client is promised.

\* The proposal as the abstract specification sees it.
Stage(p)    == CASE proposal[p].status = "sent" -> "issued"
                 [] proposal[p].status \in Answers -> "closed"
                 [] OTHER -> proposal[p].status
Face(p)     == <<proposal[p].text, proposal[p].until>>
Outcome(p)  == IF proposal[p].status \in Answers THEN proposal[p].status ELSE Null
Spent(p)    == {c \in CodesOf(p) : code[c].used}

LEMMA Views ==
  /\ Issued!vars = << [p \in Proposals |-> Stage(p)], [p \in Proposals |-> Face(p)],
                      [p \in Proposals |-> Outcome(p)], [p \in Proposals |-> Spent(p)] >>
  /\ Issued!vars' = << [p \in Proposals |-> Stage(p)'], [p \in Proposals |-> Face(p)'],
                       [p \in Proposals |-> Outcome(p)'], [p \in Proposals |-> Spent(p)'] >>
BY DEF Issued!vars, Stage, Face, Outcome, Spent

\* A step that changes nothing of this.
LEMMA Stutters ==
  ASSUME \A p \in Proposals : /\ proposal'[p].status = proposal[p].status
                              /\ proposal'[p].text = proposal[p].text
                              /\ proposal'[p].until = proposal[p].until,
         \A c \in Codes : code'[c].used = code[c].used
                          /\ (code[c].used => code'[c].proposal = code[c].proposal)
  PROVE  UNCHANGED Issued!vars
<1>1. ASSUME NEW p \in Proposals
      PROVE  Stage(p)' = Stage(p) /\ Face(p)' = Face(p) /\ Outcome(p)' = Outcome(p)
  BY DEF Stage, Face, Outcome
<1>2. ASSUME NEW p \in Proposals
      PROVE  Spent(p)' = Spent(p)
  BY DEF Spent, CodesOf
<1> QED BY <1>1, <1>2, Views

\* A step that changes one proposal, and spends no code.
LEMMA OneProposal ==
  ASSUME NEW p \in Proposals,
         \A o \in Proposals : o # p => proposal'[o] = proposal[o],
         proposal[p].status \notin Answers, proposal'[p].status \notin Answers,
         UNCHANGED code
  PROVE  /\ \A o \in Proposals : Outcome(o)' = Outcome(o) /\ Spent(o)' = Spent(o)
         /\ \A o \in Proposals : o # p => Stage(o)' = Stage(o) /\ Face(o)' = Face(o)
BY DEF Stage, Face, Outcome, Spent, CodesOf

LEMMA WriteImplements ==
  ASSUME TypeInv, NEW p \in Proposals, NEW u \in Ends, NEW from \in {"none", "draft"},
         WriteDraft(p, u, from)
  PROVE  Issued!Write(p)
<1>1. /\ proposal[p].status = from /\ proposal'[p].status = "draft" /\ UNCHANGED code
      /\ \A o \in Proposals : o # p => proposal'[o] = proposal[o]
  BY DEF WriteDraft, Written, TypeInv, TypeOK, Proposal
<1>2. /\ \A o \in Proposals : Outcome(o)' = Outcome(o) /\ Spent(o)' = Spent(o)
      /\ \A o \in Proposals : o # p => Stage(o)' = Stage(o) /\ Face(o)' = Face(o)
  BY <1>1, OneProposal
<1>3. Stage(p) = from /\ Stage(p)' = "draft"
  BY <1>1 DEF Stage
<1>4. [o \in Proposals |-> Stage(o)'] = [[o \in Proposals |-> Stage(o)] EXCEPT ![p] = "draft"]
  BY <1>2, <1>3
<1>5. [o \in Proposals |-> Face(o)'] =
        [[o \in Proposals |-> Face(o)] EXCEPT ![p] = [o \in Proposals |-> Face(o)'][p]]
  BY <1>2
<1>6. [o \in Proposals |-> Outcome(o)'] = [o \in Proposals |-> Outcome(o)]
      /\ [o \in Proposals |-> Spent(o)'] = [o \in Proposals |-> Spent(o)]
  BY <1>2
<1> QED BY <1>3, <1>4, <1>5, <1>6 DEF Issued!Write, Issued!Rewritten, Stage, Face, Outcome, Spent

LEMMA SendImplements ==
  ASSUME TypeInv, NEW r \in Requests, SendProposal(r)
  PROVE  UNCHANGED Issued!vars \/ \E p \in Proposals : Issued!Issue(p)
<1>0. PICK p \in Proposals : p = request[r].proposal
  BY DEF SendProposal, At, TypeInv, RequestInv, Reads
<1>1. p \in Proposals /\ UNCHANGED code
  BY DEF SendProposal
<1>2. CASE proposal' = proposal
  BY <1>1, <1>2, Stutters
<1>3. CASE /\ proposal[p].status = "draft"
           /\ proposal' = [proposal EXCEPT ![p].status = "sent", ![p].until = OpenUntil(request[r].until)]
  <2>1. /\ proposal'[p].status = "sent"
        /\ \A o \in Proposals : o # p => proposal'[o] = proposal[o]
    BY <1>1, <1>3 DEF TypeInv, TypeOK, Proposal
  <2>2. /\ \A o \in Proposals : Outcome(o)' = Outcome(o) /\ Spent(o)' = Spent(o)
        /\ \A o \in Proposals : o # p => Stage(o)' = Stage(o) /\ Face(o)' = Face(o)
    BY <1>1, <1>3, <2>1, OneProposal
  <2>3. \A o \in Proposals : o = p => Stage(o) = "draft" /\ Stage(o)' = "issued"
    BY <1>3, <2>1 DEF Stage
  <2>4. [o \in Proposals |-> Stage(o)'] = [[o \in Proposals |-> Stage(o)] EXCEPT ![p] = "issued"]
    BY <1>1, <2>2, <2>3
  <2>5. [o \in Proposals |-> Face(o)'] =
          [[o \in Proposals |-> Face(o)] EXCEPT ![p] = [o \in Proposals |-> Face(o)'][p]]
    BY <1>1, <2>2
  <2>6. [o \in Proposals |-> Outcome(o)'] = [o \in Proposals |-> Outcome(o)]
        /\ [o \in Proposals |-> Spent(o)'] = [o \in Proposals |-> Spent(o)]
    BY <2>2
  <2>7. [o \in Proposals |-> Stage(o)][p] = "draft"
    BY <1>1, <2>3
  <2>8. Issued!Issue(p)
    BY <2>4, <2>5, <2>6, <2>7 DEF Issued!Issue, Issued!Rewritten, Stage, Face, Outcome, Spent
  <2> QED BY <1>1, <2>8
<1> QED BY <1>0, <1>2, <1>3 DEF SendProposal

LEMMA RecordImplements ==
  ASSUME TypeInv, SpentInv, NEW r \in Requests, RecordResponse(r)
  PROVE  UNCHANGED Issued!vars
         \/ \E p \in Proposals, a \in Answers, c \in Codes : Issued!Answer(p, a, c)
<1>0. PICK p \in Proposals, c \in Codes, a \in Answers :
        p = request[r].proposal /\ c = request[r].code /\ a = request[r].action
  BY DEF RecordResponse, At, TypeInv, RequestInv, Reads
<1>1. code[c] \in Code /\ code[c].proposal = p
  BY <1>0 DEF RecordResponse, At, TypeInv, TypeOK, RequestInv, Reads
<1>2. CASE UNCHANGED <<code, proposal>>
  BY <1>2, Stutters
<1>3. CASE /\ proposal[p].status = "sent"
           /\ code' = [code EXCEPT ![c].used = TRUE]
           /\ proposal' = [proposal EXCEPT ![p].status = a]
  <2>1. /\ proposal'[p].status = a /\ proposal'[p].text = proposal[p].text
        /\ proposal'[p].until = proposal[p].until
        /\ \A o \in Proposals : o # p => proposal'[o] = proposal[o]
        /\ code'[c].used /\ code'[c].proposal = p
        /\ \A d \in Codes : d # c => code'[d] = code[d]
    BY <1>1, <1>3 DEF TypeInv, TypeOK, Proposal, Code
  <2>2. \A d \in Codes : ~(code[d].proposal = p /\ code[d].used)
    BY <1>1, <1>3 DEF SpentInv
  <2>3. \A o \in Proposals : o # p => /\ Stage(o)' = Stage(o) /\ Outcome(o)' = Outcome(o)
                                      /\ Spent(o)' = Spent(o)
    BY <1>1, <2>1 DEF Stage, Outcome, Spent, CodesOf
  <2>4. \A o \in Proposals : o = p => /\ Stage(o) = "issued" /\ Stage(o)' = "closed"
                                      /\ Outcome(o)' = a /\ Spent(o)' = {c}
    <3>1. {d \in Codes : code'[d].proposal = p /\ code'[d].used} = {c}
      BY <1>1, <2>1, <2>2
    <3>2. \A o \in Proposals : o = p => Spent(o)' = {c}
      BY <3>1 DEF Spent, CodesOf
    <3>3. \A o \in Proposals : o = p => Stage(o) = "issued" /\ Stage(o)' = "closed" /\ Outcome(o)' = a
      BY <1>1, <1>3, <2>1 DEF Stage, Outcome
    <3> QED BY <3>2, <3>3
  <2>5. [o \in Proposals |-> Stage(o)'] = [[o \in Proposals |-> Stage(o)] EXCEPT ![p] = "closed"]
    BY <1>1, <2>3, <2>4
  <2>6. [o \in Proposals |-> Outcome(o)'] = [[o \in Proposals |-> Outcome(o)] EXCEPT ![p] = a]
    BY <1>1, <2>3, <2>4
  <2>7. [o \in Proposals |-> Spent(o)'] = [[o \in Proposals |-> Spent(o)] EXCEPT ![p] = {c}]
    BY <1>1, <2>3, <2>4
  <2>8. [o \in Proposals |-> Face(o)'] = [o \in Proposals |-> Face(o)]
    <3>1. \A o \in Proposals : Face(o)' = Face(o)
      BY <2>1 DEF Face
    <3> QED BY <3>1
  <2>9. [o \in Proposals |-> Stage(o)][p] = "issued"
    BY <1>1, <2>4
  <2>10. Issued!Answer(p, a, c)
    BY <2>5, <2>6, <2>7, <2>8, <2>9 DEF Issued!Answer, Stage, Face, Outcome, Spent
  <2> QED BY <1>1, <2>10
<1> QED BY <1>0, <1>2, <1>3 DEF RecordResponse

LEMMA ImplementsStep ==
  ASSUME IInv, [Next]_vars
  PROVE  [Issued!Next]_(Issued!vars)
<1> USE DEF IInv
<1>1. ASSUME NEW p \in Proposals, NEW u \in Ends, NEW from \in {"none", "draft"},
             WriteDraft(p, u, from)
      PROVE  Issued!Next
  BY <1>1, WriteImplements DEF Issued!Next
<1>2. ASSUME NEW r \in Requests, SendProposal(r)
      PROVE  [Issued!Next]_(Issued!vars)
  BY <1>2, SendImplements DEF Issued!Next
<1>3. ASSUME NEW r \in Requests, RecordResponse(r)
      PROVE  [Issued!Next]_(Issued!vars)
  BY <1>3, RecordImplements DEF Issued!Next
<1>4. CASE UNCHANGED <<code, proposal>>
  BY <1>4, Stutters
<1>5. CASE /\ proposal' = proposal
           /\ \A c \in Codes : code'[c].used = code[c].used
                               /\ (code[c].used => code'[c].proposal = code[c].proposal)
  BY <1>5, Stutters
<1>6. ASSUME NEW r \in Requests, IssueCode(r)
      PROVE  UNCHANGED Issued!vars
  <2> PICK new \in Codes : Issues(r, new)
    BY <1>6, IssueCodeIssues
  <2>1. ASSUME NEW c \in Codes
        PROVE  code'[c].used = code[c].used /\ (code[c].used => code'[c].proposal = code[c].proposal)
    <3>1. CASE c = new
      BY <3>1, IssuedRows
    <3>2. CASE c # new
      BY <3>2, IssuedRows
    <3> QED BY <3>1, <3>2
  <2> QED BY <1>6, <2>1, Stutters DEF IssueCode
<1>7. ASSUME NEW r \in Requests, WithdrawCode(r) \/ CountFailedAttempt(r)
      PROVE  UNCHANGED Issued!vars
  <2>1. request[r].code \in Codes
    BY <1>7 DEF WithdrawCode, CountFailedAttempt, At, TypeInv, RequestInv, Reads
  <2>2. ASSUME NEW c \in Codes
        PROVE  code'[c].used = code[c].used /\ code'[c].proposal = code[c].proposal
    BY <1>7, <2>1 DEF WithdrawCode, Invalidated, CountFailedAttempt, TypeInv, TypeOK, Code
  <2> QED BY <1>7, <2>2, Stutters DEF WithdrawCode, CountFailedAttempt
<1>8. ASSUME NEW c \in Codes, ExpireCode(c)
      PROVE  UNCHANGED Issued!vars
  <2>1. \A d \in Codes : code'[d].used = code[d].used /\ code'[d].proposal = code[d].proposal
    BY <1>8 DEF ExpireCode, TypeInv, TypeOK, Code
  <2> QED BY <1>8, <2>1, Stutters DEF ExpireCode
<1>9. ASSUME NEW p \in Proposals, EditProposal(p)
      PROVE  UNCHANGED Issued!vars
  BY <1>9, EditProposalType, Stutters DEF EditProposal
<1>10. ASSUME NEW r \in Requests, NEW p \in Proposals, NEW a \in Answers,
              ReadTarget(r, p, a) \/ FindCode(r, p, a)
       PROVE  UNCHANGED <<code, proposal>>
  BY <1>10 DEF ReadTarget, FindCode, rows
<1>11. ASSUME NEW r \in Requests, NEW p \in Proposals, ReadDraft(r, p)
       PROVE  UNCHANGED <<code, proposal>>
  BY <1>11 DEF ReadDraft, rows
<1>12. ASSUME NEW r \in Requests, Supersede(r) \/ DeliverCode(r) \/ AuditResponse(r) \/ Die(r)
       PROVE  UNCHANGED <<code, proposal>>
  BY <1>12 DEF Supersede, DeliverCode, AuditResponse, Die, rows
<1>13. ASSUME NextDay \/ UNCHANGED vars
       PROVE  UNCHANGED <<code, proposal>>
  BY <1>13 DEF NextDay, vars, rows
<1> QED BY <1>1, <1>2, <1>3, <1>4, <1>6, <1>7, <1>8, <1>9, <1>10, <1>11, <1>12, <1>13, Steps

\* A proposal implements the issued document: what was sent is never rewritten, it is answered
\* once, and the answer stands on one code.
THEOREM Implementation == Spec => ImplementsIssuedDocument
<1>1. Init => Issued!Init
  <2> SUFFICES ASSUME Init PROVE Issued!Init
    OBVIOUS
  <2>1. \A p \in Proposals : Stage(p) = "none" /\ Outcome(p) = Null /\ Spent(p) = {}
    BY DEF Init, NoProposal, NoCode, Stage, Outcome, Spent, CodesOf
  <2>2. /\ [p \in Proposals |-> Stage(p)] = [p \in Proposals |-> "none"]
        /\ [p \in Proposals |-> Outcome(p)] = [p \in Proposals |-> Null]
        /\ [p \in Proposals |-> Spent(p)] = [p \in Proposals |-> {}]
    BY <2>1
  <2> QED BY <2>2 DEF Issued!Init, Stage, Outcome, Spent
<1>2. IInv /\ [Next]_vars => [Issued!Next]_(Issued!vars)
  BY ImplementsStep
<1> QED BY <1>1, <1>2, Inductive, PTL DEF Spec, ImplementsIssuedDocument, Issued!Spec
=============================================================================
