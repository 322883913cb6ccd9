------------------------- MODULE ContractSigningProofs -------------------------
(***************************************************************************)
(* Proofs about ContractSigning, for any contracts, signatures, requests,  *)
(* workers, days and bounds: its types, the invariants the runs check,     *)
(* that a stored copy is kept, and that it implements IssuedDocument.      *)
(*                                                                         *)
(* The argument is that nothing is rendered before the contract was sent,  *)
(* nor the executed copy before it was signed: every job, wherever it is,  *)
(* and every request that is about to queue one is of such a contract,     *)
(* whose text no longer changes, whose status only moves on, and which     *)
(* knows the moment from which the details it merges are counted.          *)
(***************************************************************************)
EXTENDS ContractSigning, TLAPS

Sent(c)   == contract[c].status \in {"sent", "signed", "terminated"}
Closed(c) == contract[c].status \in {"signed", "terminated"}

\* A job is of a contract that was sent, and of the signature it was signed with.
Due(j) == Sent(j.contract) /\ (j.signature # Null => signature[j.signature].contract = j.contract)

\* What a document of c may call it, and a count of revisions that was right since a moment.
Called(st, c) ==
  \/ st = "sent"
  \/ st = "signed" /\ SignedBy(c) # {}
  \/ st = "terminated" /\ contract[c].status = "terminated"
Since(n, moment) == moment \in Nat /\ n \in Nat /\ moment <= n /\ n <= details

\* The moment a job was asked for: the issue of the contract, or its signature.
Asked(j) == IF j.signature = Null THEN contract[j.contract].issuedAt ELSE signature[j.signature].signedAt

\* What a document of a job may say.
Says(j, text, st) ==
  /\ text = contract[j.contract].text /\ Called(st, j.contract)
  /\ j.signature # Null => st # "sent"

\* What a request that is this far has read.
Reads(q) ==
  /\ q.pc # "idle" => q.contract \in Contracts
  /\ q.pc \in {"sending", "sent"} => q.signature = Null
  /\ q.pc = "sending" => contract[q.contract].status # "none"
  /\ q.pc = "sent" => Sent(q.contract)
  /\ q.pc = "signed" => q.signature \in Signatures /\ signature[q.signature].contract = q.contract

\* What a worker that is this far has read.
Holds(v) ==
  /\ v.owner => v.pc # "idle"
  /\ v.pc # "idle" => v.job \in Jobs /\ Due(v.job)
  /\ v.pc \in {"merging", "rendering"} => Says(v.job, v.text, v.status)
  /\ v.pc = "rendering" => Since(v.details, Asked(v.job))
  /\ v.pc = "chaining" => v.job.signature = Null /\ contract[v.job.contract].pdf # Null

\* A copy states what was sent, and a signature is of a contract that is closed.
ContractRow(c)  ==
  LET copy == contract[c].pdf
  IN  copy # Null => /\ Sent(c) /\ copy.text = contract[c].text /\ Called(copy.status, c)
                     /\ Since(copy.details, contract[c].issuedAt)
SignatureRow(s) ==
  LET row == signature[s]
  IN  /\ row.contract # Null => Closed(row.contract) /\ Since(details, row.signedAt)
      /\ row.contract = Null => row.signedAt = Null
      /\ row.copy # Null => /\ row.contract # Null /\ row.copy.text = contract[row.contract].text
                            /\ Called(row.copy.status, row.contract) /\ row.copy.status # "sent"
                            /\ Since(row.copy.details, row.signedAt)

\* A contract that was sent knows since when, and one that is signed has its signature.
DatedRow(c) ==
  /\ Sent(c) => Since(details, contract[c].issuedAt)
  /\ contract[c].status = "signed" => SignedBy(c) # {}

\* What was sent has something in it, and so has what is about to be.
FilledInv ==
  /\ \A c \in Contracts \ overwritten : Sent(c) => contract[c].filled
  /\ \A r \in Requests :
       LET c == request[r].contract
       IN  At(r, "sending") /\ c \notin overwritten /\ contract[c].status = "draft" => contract[c].filled

TypeInv == /\ TypeOK
           /\ \A r \in Requests : Reads(request[r])
           /\ \A w \in Workers : Holds(worker[w])
           /\ \A j \in queue : Due(j)
RowsInv == /\ \A c \in Contracts : ContractRow(c) /\ DatedRow(c)
           /\ \A s \in Signatures : SignatureRow(s)
IInv    == TypeInv /\ RowsInv /\ FilledInv /\ CopyIsNotForgotten

USE ContractAssumption

-----------------------------------------------------------------------------
\* What no step takes back.
Kept ==
  /\ details' \in Nat /\ details <= details'
  /\ \A c \in Contracts :
       /\ contract[c].status # "none" => contract'[c].status # "none"
       /\ Sent(c) => /\ Sent(c)' /\ contract'[c].text = contract[c].text
                     /\ contract'[c].filled = contract[c].filled
                     /\ contract'[c].until = contract[c].until
                     /\ contract'[c].issuedAt = contract[c].issuedAt
       /\ Closed(c) => Closed(c)'
       /\ contract[c].status = "terminated" => contract'[c].status = "terminated"
       /\ contract[c].pdf # Null => contract'[c].pdf = contract[c].pdf
  /\ \A s \in Signatures :
       /\ signature[s].contract # Null => /\ signature'[s].contract = signature[s].contract
                                          /\ signature'[s].signedAt = signature[s].signedAt
       /\ signature[s].copy # Null => signature'[s].copy = signature[s].copy

LEMMA DueKept ==
  ASSUME TypeOK, Kept, NEW j \in Jobs, Due(j)
  PROVE  Due(j)'
BY DEF TypeOK, Kept, Due, Jobs

LEMMA ReadsKept ==
  ASSUME TypeOK, Kept, NEW r \in Requests, Reads(request[r]), request'[r] = request[r]
  PROVE  Reads(request[r])'
BY DEF TypeOK, Kept, Reads, Request

LEMMA CalledKept ==
  ASSUME TypeOK, Kept, NEW c \in Contracts, NEW st, Called(st, c)
  PROVE  Called(st, c)'
<1>1. SignedBy(c) # {} => SignedBy(c)' # {}
  BY DEF SignedBy, Kept
<1> QED BY <1>1 DEF Called, Kept

LEMMA SinceKept ==
  ASSUME Kept, NEW n, NEW moment, Since(n, moment), details \in Nat
  PROVE  n \in Nat /\ moment \in Nat /\ moment <= n /\ n <= details'
BY DEF Since, Kept

LEMMA AskedKept ==
  ASSUME TypeOK, Kept, NEW j \in Jobs, Due(j)
  PROVE  Asked(j)' = Asked(j)
<1>1. CASE j.signature = Null
  BY <1>1 DEF Asked, Due, Kept, Jobs
<1>2. CASE j.signature # Null
  <2>1. PICK s \in Signatures : s = j.signature /\ signature[s].contract = j.contract /\ j.contract \in Contracts
    BY <1>2 DEF Due, Jobs
  <2> QED BY <1>2, <2>1 DEF Asked, Kept
<1> QED BY <1>1, <1>2

LEMMA SaysKept ==
  ASSUME TypeOK, Kept, NEW j \in Jobs, Due(j), NEW text, NEW st, Says(j, text, st)
  PROVE  Says(j, text, st)'
<1>1. j.contract \in Contracts
  BY DEF Jobs
<1> QED BY <1>1, CalledKept DEF Says, Due, Kept

LEMMA HoldsKept ==
  ASSUME TypeOK, Kept, NEW w \in Workers, Holds(worker[w]), worker'[w] = worker[w]
  PROVE  Holds(worker[w])'
<1>1. worker[w] \in WorkerState /\ details \in Nat
  BY DEF TypeOK
<1>2. CASE worker[w].pc = "idle"
  BY <1>2 DEF Holds
<1>3. CASE worker[w].pc # "idle"
  <2>1. PICK j \in Jobs : j = worker[w].job /\ Due(j)
    BY <1>3 DEF Holds
  <2>2. Due(j)' /\ j.contract \in Contracts
    BY <2>1, DueKept DEF Jobs
  <2>3. worker[w].pc \in {"merging", "rendering"} => Says(j, worker[w].text, worker[w].status)'
    BY <2>1, SaysKept DEF Holds
  <2>4. worker[w].pc = "rendering" => Since(worker[w].details, Asked(j))'
    <3>1. Asked(j)' = Asked(j)
      BY <2>1, AskedKept
    <3>2. worker[w].pc = "rendering" => Since(worker[w].details, Asked(j))
      BY <2>1 DEF Holds
    <3> QED BY <1>1, <3>1, <3>2, SinceKept DEF Since
  <2>5. worker[w].pc = "chaining" => contract'[j.contract].pdf # Null
    BY <2>1, <2>2 DEF Holds, Kept
  <2> QED BY <1>3, <2>1, <2>2, <2>3, <2>4, <2>5 DEF Holds
<1> QED BY <1>2, <1>3

\* A row that is left alone still holds what it held.
LEMMA ContractRowKept ==
  ASSUME TypeInv, RowsInv, Kept, NEW c \in Contracts, contract'[c].pdf = contract[c].pdf
  PROVE  ContractRow(c)'
<1> SUFFICES ASSUME contract[c].pdf # Null PROVE ContractRow(c)'
  BY DEF ContractRow
<1>1. /\ Sent(c) /\ contract[c].pdf.text = contract[c].text /\ Called(contract[c].pdf.status, c)
      /\ Since(contract[c].pdf.details, contract[c].issuedAt)
  BY DEF RowsInv, ContractRow
<1>2. Called(contract[c].pdf.status, c)'
  BY <1>1, CalledKept DEF TypeInv
<1>3. details \in Nat
  BY DEF TypeInv, TypeOK
<1>4. Since(contract[c].pdf.details, contract[c].issuedAt)'
  BY <1>1, <1>3, SinceKept DEF Since, Kept
<1> QED BY <1>1, <1>2, <1>4 DEF ContractRow, Kept

LEMMA DatedRowKept ==
  ASSUME TypeInv, RowsInv, Kept, NEW c \in Contracts, contract'[c].status = contract[c].status
  PROVE  DatedRow(c)'
<1>1. Sent(c)' => Since(details, contract[c].issuedAt)'
  <2> SUFFICES ASSUME Sent(c) PROVE Since(details, contract[c].issuedAt)'
    BY DEF Sent
  <2>1. Since(details, contract[c].issuedAt) /\ contract'[c].issuedAt = contract[c].issuedAt
    BY DEF RowsInv, DatedRow, Kept
  <2> QED BY <2>1 DEF Since, Kept
<1>2. contract[c].status = "signed" => SignedBy(c)' # {}
  BY DEF RowsInv, DatedRow, SignedBy, Kept
<1> QED BY <1>1, <1>2 DEF DatedRow

LEMMA SignatureRowKept ==
  ASSUME TypeInv, RowsInv, Kept, NEW s \in Signatures, signature'[s] = signature[s]
  PROVE  SignatureRow(s)'
<1>1. SignatureRow(s) /\ signature[s].contract \in Contracts \cup {Null} /\ details \in Nat
  BY DEF RowsInv, TypeInv, TypeOK, Signature
<1>2. signature[s].contract # Null => Closed(signature[s].contract)' /\ Since(details, signature[s].signedAt)'
  BY <1>1 DEF SignatureRow, Kept, Since
<1>3. ASSUME signature[s].copy # Null, NEW c \in Contracts, c = signature[s].contract
      PROVE  /\ signature[s].copy.text = contract'[c].text /\ Called(signature[s].copy.status, c)'
             /\ signature[s].copy.status # "sent" /\ Since(signature[s].copy.details, signature[s].signedAt)'
  <2>1. /\ signature[s].copy.text = contract[c].text /\ Called(signature[s].copy.status, c) /\ Sent(c)
        /\ signature[s].copy.status # "sent" /\ Since(signature[s].copy.details, signature[s].signedAt)
    BY <1>1, <1>3 DEF SignatureRow, Closed, Sent
  <2>2. Called(signature[s].copy.status, c)'
    BY <2>1, CalledKept DEF TypeInv
  <2>3. Since(signature[s].copy.details, signature[s].signedAt)'
    BY <1>1, <2>1, SinceKept DEF Since
  <2> QED BY <2>1, <2>2, <2>3 DEF Kept
<1> QED BY <1>1, <1>2, <1>3 DEF SignatureRow

\* A step keeps the invariant if what it changes agrees with it.
LEMMA Frame ==
  ASSUME TypeInv, RowsInv, TypeOK', Kept,
         \A r \in Requests : request'[r] = request[r] \/ Reads(request[r])',
         \A w \in Workers : worker'[w] = worker[w] \/ Holds(worker[w])',
         \A j \in queue' : j \in queue \/ Due(j)',
         \A c \in Contracts : contract'[c].pdf = contract[c].pdf \/ ContractRow(c)',
         \A c \in Contracts : contract'[c].status = contract[c].status \/ DatedRow(c)',
         \A s \in Signatures : signature'[s] = signature[s] \/ SignatureRow(s)'
  PROVE  TypeInv' /\ RowsInv'
<1>1. \A r \in Requests : Reads(request[r])'
  BY ReadsKept DEF TypeInv
<1>2. \A w \in Workers : Holds(worker[w])'
  BY HoldsKept DEF TypeInv
<1>3. \A j \in queue' : Due(j)'
  <2> SUFFICES ASSUME NEW j \in queue PROVE Due(j)'
    OBVIOUS
  <2> QED BY DueKept DEF TypeInv, TypeOK
<1>4. \A c \in Contracts : ContractRow(c)' /\ DatedRow(c)'
  BY ContractRowKept, DatedRowKept
<1>5. \A s \in Signatures : SignatureRow(s)'
  BY SignatureRowKept
<1> QED BY <1>1, <1>2, <1>3, <1>4, <1>5 DEF TypeInv, RowsInv

-----------------------------------------------------------------------------
\* Types.

LEMMA ContractTypes ==
  /\ NoContract \in Contract
  /\ \A row \in Contract, st \in Statuses : [row EXCEPT !.status = st] \in Contract
  /\ \A row \in Contract, n \in Nat : [row EXCEPT !.status = "sent", !.issuedAt = n] \in Contract
  /\ \A row \in Contract, b \in BOOLEAN :
       [row EXCEPT !.trashed = b] \in Contract /\ [row EXCEPT !.linked = b] \in Contract
  /\ \A row \in Contract, copy \in Copy \cup {Null} : [row EXCEPT !.pdf = copy] \in Contract
  /\ \A row \in Contract, b \in BOOLEAN, u \in Nat \cup {Null}, n \in Nat :
       [row EXCEPT !.text = n, !.filled = b, !.until = u] \in Contract
<1>1. NoContract \in Contract
  BY DEF Contract, NoContract, Statuses
<1>2. ASSUME NEW row \in Contract, NEW st \in Statuses
      PROVE  [row EXCEPT !.status = st] \in Contract
  BY DEF Contract
<1>7. ASSUME NEW row \in Contract, NEW n \in Nat
      PROVE  [row EXCEPT !.status = "sent", !.issuedAt = n] \in Contract
  <2>1. "sent" \in Statuses
    BY DEF Statuses
  <2> QED BY <2>1 DEF Contract
<1>3. ASSUME NEW row \in Contract, NEW b \in BOOLEAN
      PROVE  [row EXCEPT !.trashed = b] \in Contract
  BY DEF Contract
<1>4. ASSUME NEW row \in Contract, NEW b \in BOOLEAN
      PROVE  [row EXCEPT !.linked = b] \in Contract
  BY DEF Contract
<1>5. ASSUME NEW row \in Contract, NEW copy \in Copy \cup {Null}
      PROVE  [row EXCEPT !.pdf = copy] \in Contract
  BY DEF Contract
<1>6. ASSUME NEW row \in Contract, NEW b \in BOOLEAN, NEW u \in Nat \cup {Null}, NEW n \in Nat
      PROVE  [row EXCEPT !.text = n, !.filled = b, !.until = u] \in Contract
  BY DEF Contract
<1> QED BY <1>1, <1>2, <1>3, <1>4, <1>5, <1>6, <1>7

LEMMA RequestTypes ==
  /\ Idle \in Request
  /\ \A c \in Contracts : /\ [Idle EXCEPT !.pc = "sending", !.contract = c] \in Request
                          /\ [Idle EXCEPT !.pc = "signing", !.contract = c] \in Request
  /\ \A q \in Request : [q EXCEPT !.pc = "sent"] \in Request
  /\ \A q \in Request, s \in Signatures : [q EXCEPT !.pc = "signed", !.signature = s] \in Request
<1>1. Idle \in Request
  BY DEF Request, Idle
<1>2. ASSUME NEW c \in Contracts
      PROVE  [Idle EXCEPT !.pc = "sending", !.contract = c] \in Request
  BY <1>1 DEF Request
<1>3. ASSUME NEW c \in Contracts
      PROVE  [Idle EXCEPT !.pc = "signing", !.contract = c] \in Request
  BY <1>1 DEF Request
<1>4. ASSUME NEW q \in Request
      PROVE  [q EXCEPT !.pc = "sent"] \in Request
  BY DEF Request
<1>5. ASSUME NEW q \in Request, NEW s \in Signatures
      PROVE  [q EXCEPT !.pc = "signed", !.signature = s] \in Request
  BY DEF Request
<1> QED BY <1>1, <1>2, <1>3, <1>4, <1>5

LEMMA JobTypes ==
  /\ \A c \in Contracts, s \in Signatures \cup {Null} : Job(c, s) \in Jobs
  /\ \A j \in Jobs : j.tries + 1 < MaxAttempts => [j EXCEPT !.tries = @ + 1] \in Jobs
  /\ \A j \in Jobs : [j EXCEPT !.stalled = TRUE] \in Jobs
<1>1. \A c \in Contracts, s \in Signatures \cup {Null} : Job(c, s) \in Jobs
  BY DEF Job, Jobs
<1>2. ASSUME NEW j \in Jobs, j.tries + 1 < MaxAttempts
      PROVE  [j EXCEPT !.tries = @ + 1] \in Jobs
  <2>1. j.tries + 1 \in 0..(MaxAttempts - 1)
    BY <1>2 DEF Jobs
  <2> QED BY <2>1 DEF Jobs
<1>3. ASSUME NEW j \in Jobs
      PROVE  [j EXCEPT !.stalled = TRUE] \in Jobs
  BY DEF Jobs
<1> QED BY <1>1, <1>2, <1>3

LEMMA WorkerTypes ==
  /\ Resting \in WorkerState
  /\ \A j \in Jobs : [Resting EXCEPT !.pc = "taken", !.job = j, !.owner = TRUE] \in WorkerState
  /\ \A v \in WorkerState : [v EXCEPT !.pc = "building"] \in WorkerState
  /\ \A v \in WorkerState : [v EXCEPT !.pc = "chaining"] \in WorkerState
  /\ \A v \in WorkerState, n \in Nat, st \in Statuses :
       [v EXCEPT !.pc = "merging", !.text = n, !.status = st] \in WorkerState
  /\ \A v \in WorkerState, n \in Nat : [v EXCEPT !.pc = "rendering", !.details = n] \in WorkerState
  /\ \A j \in Jobs, b \in BOOLEAN :
       [Resting EXCEPT !.pc = "chaining", !.job = j, !.owner = b] \in WorkerState
  /\ \A v \in WorkerState : [v EXCEPT !.owner = FALSE] \in WorkerState
<1>1. Resting \in WorkerState
  BY DEF WorkerState, Resting
<1>2. ASSUME NEW j \in Jobs
      PROVE  [Resting EXCEPT !.pc = "taken", !.job = j, !.owner = TRUE] \in WorkerState
  BY <1>1 DEF WorkerState
<1>3. ASSUME NEW v \in WorkerState
      PROVE  [v EXCEPT !.pc = "building"] \in WorkerState
  BY DEF WorkerState
<1>4. ASSUME NEW v \in WorkerState
      PROVE  [v EXCEPT !.pc = "chaining"] \in WorkerState
  BY DEF WorkerState
<1>5. ASSUME NEW v \in WorkerState, NEW n \in Nat
      PROVE  [v EXCEPT !.pc = "rendering", !.details = n] \in WorkerState
  BY DEF WorkerState
<1>6. ASSUME NEW j \in Jobs, NEW b \in BOOLEAN
      PROVE  [Resting EXCEPT !.pc = "chaining", !.job = j, !.owner = b] \in WorkerState
  BY <1>1 DEF WorkerState
<1>8. ASSUME NEW v \in WorkerState, NEW n \in Nat, NEW st \in Statuses
      PROVE  [v EXCEPT !.pc = "merging", !.text = n, !.status = st] \in WorkerState
  BY DEF WorkerState
<1>7. ASSUME NEW v \in WorkerState
      PROVE  [v EXCEPT !.owner = FALSE] \in WorkerState
  BY DEF WorkerState
<1> QED BY <1>1, <1>2, <1>3, <1>4, <1>5, <1>6, <1>7, <1>8

LEMMA ContractReplaced ==
  ASSUME TypeOK, NEW c \in Contracts, NEW row \in Contract, contract' = [contract EXCEPT ![c] = row]
  PROVE  /\ contract' \in [Contracts -> Contract] /\ contract'[c] = row
         /\ \A d \in Contracts : d # c => contract'[d] = contract[d]
BY DEF TypeOK

LEMMA SignatureReplaced ==
  ASSUME TypeOK, NEW s \in Signatures, NEW row \in Signature, signature' = [signature EXCEPT ![s] = row]
  PROVE  /\ signature' \in [Signatures -> Signature] /\ signature'[s] = row
         /\ \A t \in Signatures : t # s => signature'[t] = signature[t]
BY DEF TypeOK

LEMMA RequestReplaced ==
  ASSUME TypeOK, NEW r \in Requests, NEW next \in Request, request' = [request EXCEPT ![r] = next]
  PROVE  /\ request' \in [Requests -> Request] /\ request'[r] = next
         /\ \A q \in Requests : q # r => request'[q] = request[q]
BY DEF TypeOK

LEMMA Returned ==
  ASSUME TypeOK, NEW r \in Requests, Return(r)
  PROVE  /\ request' \in [Requests -> Request] /\ request'[r] = Idle
         /\ \A q \in Requests : q # r => request'[q] = request[q]
BY RequestTypes, RequestReplaced DEF Return

LEMMA WorkerReplaced ==
  ASSUME TypeOK, NEW w \in Workers, NEW next \in WorkerState, worker' = [worker EXCEPT ![w] = next]
  PROVE  /\ worker' \in [Workers -> WorkerState] /\ worker'[w] = next
         /\ \A v \in Workers : v # w => worker'[v] = worker[v]
BY DEF TypeOK

\* Places at rest.
LEMMA AtRest ==
  /\ Idle.pc = "idle" /\ Resting.pc = "idle" /\ ~Resting.owner
  /\ \A r \in Requests : request'[r] = Idle => Reads(request[r])'
  /\ \A w \in Workers : worker'[w] = Resting => Holds(worker[w])'
BY DEF Idle, Resting, Reads, Holds

-----------------------------------------------------------------------------
\* The steps of the owner.

LEMMA CreateContractType ==
  ASSUME TypeInv, RowsInv, NEW c \in Contracts, NEW full \in BOOLEAN, NEW u \in Ends,
         CreateContract(c, full, u)
  PROVE  TypeInv' /\ RowsInv' /\ Kept
<1> DEFINE row == [NoContract EXCEPT !.status = "draft", !.filled = full, !.until = u]
<1>1. row \in Contract /\ row.status = "draft" /\ row.pdf = Null
  <2>1. u \in Nat \cup {Null}
    OBVIOUS
  <2> QED BY <2>1 DEF Contract, NoContract, Statuses
<1>2. /\ contract' \in [Contracts -> Contract] /\ contract'[c] = row
      /\ \A d \in Contracts : d # c => contract'[d] = contract[d]
      /\ UNCHANGED <<today, details, signature, request, queue, worker, mails, history, bounds>>
      /\ contract[c].status = "none"
  <2>1. contract' = [contract EXCEPT ![c] = row] /\ contract[c].status = "none"
        /\ UNCHANGED <<today, details, signature, request, queue, worker, mails, history, bounds>>
    BY DEF CreateContract
  <2> HIDE DEF row
  <2> QED BY <1>1, <2>1, ContractReplaced DEF TypeInv
<1> HIDE DEF row
<1>3. TypeOK'
  BY <1>2 DEF TypeInv, TypeOK, history, bounds
<1>4. Kept
  BY <1>1, <1>2 DEF Kept, Sent, Closed, RowsInv, ContractRow, TypeInv, TypeOK
<1>5. \A d \in Contracts : contract'[d].pdf = contract[d].pdf \/ ContractRow(d)'
  BY <1>1, <1>2 DEF ContractRow
<1>6. \A d \in Contracts : contract'[d].status = contract[d].status \/ DatedRow(d)'
  BY <1>1, <1>2 DEF DatedRow, Sent
<1> QED BY <1>2, <1>3, <1>4, <1>5, <1>6, Frame

LEMMA UpdateContractType ==
  ASSUME TypeInv, RowsInv, NEW c \in Contracts, NEW full \in BOOLEAN, NEW u \in Ends,
         UpdateContract(c, full, u)
  PROVE  TypeInv' /\ RowsInv' /\ Kept
<1> DEFINE n   == contract[c].text + 1
           row == [contract[c] EXCEPT !.text = n, !.filled = full, !.until = u]
<1>1. contract[c] \in Contract /\ n \in Nat /\ u \in Nat \cup {Null}
  <2>1. contract[c] \in Contract
    BY DEF TypeInv, TypeOK
  <2>2. n \in Nat
    BY <2>1 DEF Contract
  <2> HIDE DEF n
  <2> QED BY <2>1, <2>2
<1>2. row \in Contract /\ row.status = contract[c].status /\ row.pdf = contract[c].pdf
  <2> HIDE DEF n
  <2>1. row.status = contract[c].status /\ row.pdf = contract[c].pdf
    BY <1>1 DEF Contract
  <2> QED BY <1>1, <2>1, ContractTypes
<1>3. contract' = [contract EXCEPT ![c] = row]
  BY <1>1 DEF UpdateContract, TypeInv, TypeOK, Contract
<1> HIDE DEF row
<1>4. /\ contract' \in [Contracts -> Contract] /\ contract'[c] = row
      /\ \A d \in Contracts : d # c => contract'[d] = contract[d]
  BY <1>2, <1>3, ContractReplaced DEF TypeInv
<1>5. /\ contract[c].status = "draft" /\ overwritten' \in SUBSET Contracts /\ edits' \in 0..MaxEdits
      /\ UNCHANGED <<today, details, signature, request, queue, worker, mails, forsaken, faults>>
  BY DEF UpdateContract, TypeInv, TypeOK
<1>6. TypeOK'
  BY <1>4, <1>5 DEF TypeInv, TypeOK
<1>7. Kept
  BY <1>2, <1>4, <1>5 DEF Kept, Sent, Closed, TypeInv, TypeOK
<1>8. \A d \in Contracts : contract'[d].pdf = contract[d].pdf /\ contract'[d].status = contract[d].status
  BY <1>2, <1>4
<1> QED BY <1>5, <1>6, <1>7, <1>8, Frame

\* A step that moves one contract on, or its link or its place in the trash.
LEMMA OneContract ==
  ASSUME TypeInv, RowsInv, NEW c \in Contracts, NEW row \in Contract,
         contract' = [contract EXCEPT ![c] = row],
         row.text = contract[c].text, row.filled = contract[c].filled,
         row.until = contract[c].until, row.pdf = contract[c].pdf,
         row.issuedAt = contract[c].issuedAt \/ ~Sent(c),
         \/ row.status = contract[c].status
         \/ row.status = "sent" /\ contract[c].status = "draft"
         \/ row.status = "terminated" /\ Sent(c)
  PROVE  /\ contract' \in [Contracts -> Contract] /\ contract'[c] = row
         /\ \A d \in Contracts : d # c => contract'[d] = contract[d]
         /\ \A d \in Contracts : contract'[d].pdf = contract[d].pdf
         /\ UNCHANGED <<signature, details>> => Kept
<1>1. /\ contract' \in [Contracts -> Contract] /\ contract'[c] = row
      /\ \A d \in Contracts : d # c => contract'[d] = contract[d]
  BY ContractReplaced DEF TypeInv
<1> QED BY <1>1 DEF Kept, Sent, Closed, TypeInv, TypeOK

LEMMA TerminateContractType ==
  ASSUME TypeInv, RowsInv, NEW c \in Contracts, TerminateContract(c)
  PROVE  TypeInv' /\ RowsInv' /\ Kept
<1> DEFINE row == [contract[c] EXCEPT !.status = "terminated"]
<1>1. contract[c] \in Contract
  BY DEF TypeInv, TypeOK
<1>2. /\ row \in Contract /\ row.status = "terminated" /\ row.text = contract[c].text
      /\ row.filled = contract[c].filled /\ row.until = contract[c].until /\ row.pdf = contract[c].pdf
      /\ row.issuedAt = contract[c].issuedAt
  BY <1>1 DEF Contract, Statuses
<1>3. /\ contract' = [contract EXCEPT ![c] = row] /\ Sent(c) /\ edits' \in 0..MaxEdits
      /\ UNCHANGED <<today, details, signature, request, queue, worker, mails, history, faults>>
  BY DEF TerminateContract, Sent, TypeInv, TypeOK
<1> HIDE DEF row
<1>4. /\ Kept /\ contract' \in [Contracts -> Contract] /\ contract'[c] = row
      /\ \A d \in Contracts : d # c => contract'[d] = contract[d]
      /\ \A d \in Contracts : contract'[d].pdf = contract[d].pdf
  BY <1>2, <1>3, OneContract
<1>5. TypeOK'
  BY <1>3, <1>4 DEF TypeInv, TypeOK, history
<1>6. DatedRow(c)'
  BY <1>2, <1>3, <1>4 DEF DatedRow, RowsInv, Since
<1> QED BY <1>3, <1>4, <1>5, <1>6, Frame

LEMMA EditContractType ==
  ASSUME TypeInv, RowsInv, NEW c \in Contracts, EditContract(c)
  PROVE  /\ TypeInv' /\ RowsInv' /\ Kept
         /\ \A d \in Contracts : /\ contract'[d].status = contract[d].status
                                 /\ contract'[d].text = contract[d].text
                                 /\ contract'[d].filled = contract[d].filled
                                 /\ contract'[d].until = contract[d].until
                                 /\ contract'[d].issuedAt = contract[d].issuedAt
<1>1. contract[c] \in Contract
  BY DEF TypeInv, TypeOK
<1>2. PICK row \in Contract :
        /\ contract' = [contract EXCEPT ![c] = row]
        /\ row.status = contract[c].status /\ row.text = contract[c].text
        /\ row.filled = contract[c].filled /\ row.until = contract[c].until /\ row.pdf = contract[c].pdf
        /\ row.issuedAt = contract[c].issuedAt
  <2>1. CASE contract' = [contract EXCEPT ![c].trashed = ~@]
    <3> DEFINE row == [contract[c] EXCEPT !.trashed = ~@]
    <3>1. /\ row \in Contract /\ row.status = contract[c].status /\ row.text = contract[c].text
          /\ row.filled = contract[c].filled /\ row.until = contract[c].until /\ row.pdf = contract[c].pdf
          /\ row.issuedAt = contract[c].issuedAt
      BY <1>1 DEF Contract
    <3>2. contract' = [contract EXCEPT ![c] = row]
      BY <2>1 DEF TypeInv, TypeOK
    <3> HIDE DEF row
    <3> QED BY <3>1, <3>2
  <2>2. CASE contract' = [contract EXCEPT ![c].linked = ~@]
    <3> DEFINE row == [contract[c] EXCEPT !.linked = ~@]
    <3>1. /\ row \in Contract /\ row.status = contract[c].status /\ row.text = contract[c].text
          /\ row.filled = contract[c].filled /\ row.until = contract[c].until /\ row.pdf = contract[c].pdf
          /\ row.issuedAt = contract[c].issuedAt
      BY <1>1 DEF Contract
    <3>2. contract' = [contract EXCEPT ![c] = row]
      BY <2>2 DEF TypeInv, TypeOK
    <3> HIDE DEF row
    <3> QED BY <3>1, <3>2
  <2> QED BY <2>1, <2>2 DEF EditContract
<1>3. /\ Kept /\ contract' \in [Contracts -> Contract] /\ contract'[c] = row
      /\ \A d \in Contracts : d # c => contract'[d] = contract[d]
      /\ \A d \in Contracts : contract'[d].pdf = contract[d].pdf
      /\ UNCHANGED <<today, details, signature, request, queue, worker, mails, history, faults>>
  BY <1>2, OneContract DEF EditContract
<1>4. edits' \in 0..MaxEdits
  BY DEF EditContract, TypeInv, TypeOK
<1>5. TypeOK'
  BY <1>3, <1>4 DEF TypeInv, TypeOK, history
<1> QED BY <1>2, <1>3, <1>5, Frame

\* What is merged in later only makes the span longer that it may come from.
LEMMA ReviseDetailsType ==
  ASSUME TypeInv, RowsInv, ReviseDetails
  PROVE  TypeInv' /\ RowsInv' /\ Kept
<1>1. /\ UNCHANGED <<today, contract, signature, request, queue, worker, mails, overwritten, forsaken, faults>>
      /\ details \in Nat /\ details' = details + 1 /\ edits' \in 0..MaxEdits
  BY DEF ReviseDetails, TypeInv, TypeOK, rows, history
<1>2. TypeOK' /\ Kept
  BY <1>1 DEF TypeInv, TypeOK, Kept, Sent, Closed
<1> QED BY <1>1, <1>2, Frame

-----------------------------------------------------------------------------
\* The steps of the requests.

\* A step that only moves one request.
LEMMA OnlyRequest ==
  ASSUME TypeInv, RowsInv, NEW r \in Requests, NEW next \in Request,
         request' = [request EXCEPT ![r] = next], Reads(request[r])',
         UNCHANGED <<today, details, rows, queue, worker, mails, history, bounds>>
  PROVE  TypeInv' /\ RowsInv' /\ Kept
<1>1. /\ request' \in [Requests -> Request]
      /\ \A q \in Requests : q # r => request'[q] = request[q]
  BY RequestReplaced DEF TypeInv
<1>2. TypeOK' /\ Kept
  BY <1>1 DEF TypeInv, TypeOK, Kept, rows, history, bounds, Sent, Closed
<1>3. UNCHANGED <<contract, signature, queue, worker>>
  BY DEF rows
<1> QED BY <1>1, <1>2, <1>3, Frame

LEMMA ReadDraftType ==
  ASSUME TypeInv, RowsInv, NEW r \in Requests, NEW c \in Contracts, ReadDraft(r, c)
  PROVE  TypeInv' /\ RowsInv' /\ Kept
<1> DEFINE next == [Idle EXCEPT !.pc = "sending", !.contract = c]
<1>1. next \in Request /\ request' = [request EXCEPT ![r] = next]
      /\ UNCHANGED <<today, details, rows, queue, worker, mails, history, bounds>>
  BY RequestTypes DEF ReadDraft
<1>2. Reads(request[r])'
  <2>1. request'[r] = next /\ contract'[c].status # "none"
    BY <1>1 DEF ReadDraft, Live, TypeInv, TypeOK, rows
  <2> QED BY <2>1 DEF Reads, Idle
<1> HIDE DEF next
<1> QED BY <1>1, <1>2, OnlyRequest

LEMMA ReadSigningTargetType ==
  ASSUME TypeInv, RowsInv, NEW r \in Requests, NEW c \in Contracts, ReadSigningTarget(r, c)
  PROVE  TypeInv' /\ RowsInv' /\ Kept
<1> DEFINE next == [Idle EXCEPT !.pc = "signing", !.contract = c]
<1>1. next \in Request /\ request' = [request EXCEPT ![r] = next]
      /\ UNCHANGED <<today, details, rows, queue, worker, mails, history, bounds>>
  BY RequestTypes DEF ReadSigningTarget
<1>2. Reads(request[r])'
  <2>1. request'[r] = next
    BY <1>1 DEF TypeInv, TypeOK
  <2> QED BY <2>1 DEF Reads, Idle
<1> HIDE DEF next
<1> QED BY <1>1, <1>2, OnlyRequest

LEMMA SendContractType ==
  ASSUME TypeInv, RowsInv, NEW r \in Requests, SendContract(r)
  PROVE  TypeInv' /\ RowsInv' /\ Kept
<1>0. PICK c \in Contracts : c = request[r].contract
  BY DEF SendContract, At, TypeInv, Reads
<1>1. contract[c] \in Contract /\ request[r] \in Request /\ request[r].signature = Null
      /\ UNCHANGED <<today, details, signature, queue, worker, mails, history, bounds>>
  BY DEF SendContract, At, TypeInv, TypeOK, Reads
<1>2. CASE Return(r) /\ UNCHANGED contract
  <2>1. Reads(request[r])'
    BY <1>2, Returned, AtRest DEF TypeInv
  <2> QED BY <1>1, <1>2, <2>1, RequestTypes, OnlyRequest DEF Return, rows
<1>3. CASE /\ contract[c].status = "draft"
           /\ contract' = [contract EXCEPT ![c].status = "sent", ![c].issuedAt = details]
           /\ request' = [request EXCEPT ![r].pc = "sent"]
  <2> DEFINE row  == [contract[c] EXCEPT !.status = "sent", !.issuedAt = details]
             next == [request[r] EXCEPT !.pc = "sent"]
  <2>1. /\ row \in Contract /\ row.status = "sent" /\ row.text = contract[c].text
        /\ row.filled = contract[c].filled /\ row.until = contract[c].until /\ row.pdf = contract[c].pdf
        /\ row.issuedAt = details /\ details \in Nat
    <3>1. details \in Nat
      BY DEF TypeInv, TypeOK
    <3>2. row \in Contract
      BY <1>1, <3>1, ContractTypes
    <3> QED BY <1>1, <3>1, <3>2 DEF Contract
  <2>2. next \in Request /\ next.pc = "sent" /\ next.contract = c /\ next.signature = Null
    BY <1>0, <1>1 DEF Request
  <2>3. contract' = [contract EXCEPT ![c] = row] /\ request' = [request EXCEPT ![r] = next]
    BY <1>3 DEF TypeInv, TypeOK
  <2> HIDE DEF row, next
  <2>4. /\ Kept /\ contract' \in [Contracts -> Contract] /\ contract'[c] = row
        /\ \A d \in Contracts : d # c => contract'[d] = contract[d]
        /\ \A d \in Contracts : contract'[d].pdf = contract[d].pdf
    <3>1. /\ ~Sent(c) /\ row.status = "sent" /\ contract[c].status = "draft"
          /\ contract' = [contract EXCEPT ![c] = row]
      BY <1>3, <2>1, <2>3 DEF Sent
    <3>2. /\ row.text = contract[c].text /\ row.filled = contract[c].filled
          /\ row.until = contract[c].until /\ row.pdf = contract[c].pdf
      BY <2>1
    <3>3. /\ contract' \in [Contracts -> Contract] /\ contract'[c] = row
          /\ \A d \in Contracts : d # c => contract'[d] = contract[d]
          /\ \A d \in Contracts : contract'[d].pdf = contract[d].pdf
          /\ UNCHANGED <<signature, details>> => Kept
      BY <2>1, <3>1, <3>2, OneContract
    <3> QED BY <1>1, <3>3
  <2>5. /\ request' \in [Requests -> Request] /\ request'[r] = next
        /\ \A q \in Requests : q # r => request'[q] = request[q]
    BY <2>2, <2>3, RequestReplaced DEF TypeInv
  <2>6. TypeOK'
    BY <1>1, <2>4, <2>5 DEF TypeInv, TypeOK, history, bounds
  <2>7. Reads(request[r])'
    BY <2>1, <2>2, <2>4, <2>5 DEF Reads, Sent
  <2>8. DatedRow(c)'
    BY <1>1, <2>1, <2>4 DEF DatedRow, Since
  <2> QED BY <1>1, <2>4, <2>5, <2>6, <2>7, <2>8, Frame
<1> QED BY <1>0, <1>2, <1>3 DEF SendContract

LEMMA Enqueued ==
  ASSUME TypeInv, NEW j \in Jobs, Enqueue(j)
  PROVE  /\ queue' \subseteq Jobs /\ \A k \in queue' : k \in queue \/ k = j
         /\ queue \subseteq queue' /\ forsaken \subseteq forsaken'
         /\ j \in queue' \/ Doc(j) \in forsaken'
         /\ forsaken' \subseteq Contracts \cup Signatures /\ faults' \in 0..MaxFaults
<1>1. Doc(j) \in Contracts \cup Signatures
  BY DEF Doc, Jobs
<1>2. CASE queue' = queue \cup {j} /\ UNCHANGED <<forsaken, faults>>
  BY <1>2 DEF TypeInv, TypeOK
<1>3. CASE /\ faults < MaxFaults /\ faults' = faults + 1
           /\ forsaken' = forsaken \cup {Doc(j)}
           /\ UNCHANGED queue
  <2>1. faults' \in 0..MaxFaults
    BY <1>3 DEF TypeInv, TypeOK
  <2> QED BY <1>1, <1>3, <2>1 DEF TypeInv, TypeOK
<1> QED BY <1>2, <1>3 DEF Enqueue

\* The job a request queues is of what it has sent, or of what was signed by it.
LEMMA QueueType ==
  ASSUME TypeInv, RowsInv, NEW r \in Requests, NEW j \in Jobs, Due(j), Enqueue(j), Return(r),
         UNCHANGED <<today, details, rows, worker, mails, overwritten, edits>>
  PROVE  TypeInv' /\ RowsInv' /\ Kept
<1>1. /\ queue' \subseteq Jobs /\ \A k \in queue' : k \in queue \/ k = j
      /\ forsaken' \subseteq Contracts \cup Signatures /\ faults' \in 0..MaxFaults
  BY Enqueued
<1>2. /\ request' \in [Requests -> Request]
      /\ \A q \in Requests : request'[q] = request[q] \/ Reads(request[q])'
  BY Returned, AtRest DEF TypeInv
<1>3. TypeOK' /\ Kept
  BY <1>1, <1>2 DEF TypeInv, TypeOK, Kept, rows, Sent, Closed
<1>4. Due(j)' /\ UNCHANGED <<contract, signature, worker>>
  BY <1>3, DueKept DEF TypeInv, rows
<1> QED BY <1>1, <1>2, <1>3, <1>4, Frame

LEMMA QueueContractPdfType ==
  ASSUME TypeInv, RowsInv, NEW r \in Requests, QueueContractPdf(r)
  PROVE  TypeInv' /\ RowsInv' /\ Kept
<1>1. PICK c \in Contracts : c = request[r].contract /\ Sent(c)
  BY DEF QueueContractPdf, At, TypeInv, Reads
<1>2. PICK j \in Jobs : j = Job(c, Null)
  BY JobTypes
<1>3. Due(j)
  BY <1>1, <1>2 DEF Due, Job
<1>4. /\ Enqueue(j) /\ Return(r)
      /\ UNCHANGED <<today, details, rows, worker, mails, overwritten, edits>>
  BY <1>1, <1>2 DEF QueueContractPdf
<1> QED BY <1>3, <1>4, QueueType

LEMMA QueueSignedPdfType ==
  ASSUME TypeInv, RowsInv, NEW r \in Requests, QueueSignedPdf(r)
  PROVE  TypeInv' /\ RowsInv' /\ Kept
<1>1. PICK c \in Contracts, s \in Signatures :
        c = request[r].contract /\ s = request[r].signature /\ signature[s].contract = c
  BY DEF QueueSignedPdf, At, TypeInv, Reads
<1>2. PICK j \in Jobs : j = Job(c, s)
  BY JobTypes
<1>3. Due(j)
  <2>1. Closed(c)
    BY <1>1 DEF RowsInv, SignatureRow
  <2> QED BY <1>1, <1>2, <2>1 DEF Due, Job, Sent, Closed
<1>4. /\ Enqueue(j) /\ Return(r)
      /\ UNCHANGED <<today, details, rows, worker, mails, overwritten, edits>>
  BY <1>1, <1>2 DEF QueueSignedPdf
<1> QED BY <1>3, <1>4, QueueType

LEMMA DieType ==
  ASSUME TypeInv, RowsInv, NEW r \in Requests, Die(r)
  PROVE  TypeInv' /\ RowsInv' /\ Kept
<1>1. /\ Return(r) /\ faults' \in 0..MaxFaults
      /\ UNCHANGED <<today, details, rows, queue, worker, mails, overwritten, edits>>
  BY DEF Die, TypeInv, TypeOK
<1>2. /\ request' \in [Requests -> Request]
      /\ \A q \in Requests : request'[q] = request[q] \/ Reads(request[q])'
  BY <1>1, Returned, AtRest DEF TypeInv
<1>3. forsaken' \subseteq Contracts \cup Signatures
  BY DEF Die, At, TypeInv, TypeOK, Reads
<1>4. TypeOK' /\ Kept
  BY <1>1, <1>2, <1>3 DEF TypeInv, TypeOK, Kept, rows, Sent, Closed
<1>5. UNCHANGED <<contract, signature, queue, worker>>
  BY <1>1 DEF rows
<1> QED BY <1>2, <1>4, <1>5, Frame

\* The signature and the status are written together, and only while the contract is sent: it
\* has no other signature.
LEMMA RecordSignatureType ==
  ASSUME TypeInv, RowsInv, NEW r \in Requests, NEW s \in Signatures, RecordSignature(r, s)
  PROVE  TypeInv' /\ RowsInv' /\ Kept
<1>0. PICK c \in Contracts : c = request[r].contract
  BY DEF RecordSignature, At, TypeInv, Reads
<1>1. contract[c] \in Contract /\ request[r] \in Request /\ signature[s] = NoSignature
      /\ UNCHANGED <<today, details, queue, worker, mails, history, bounds>>
  BY DEF RecordSignature, TypeInv, TypeOK
<1>2. CASE Return(r) /\ UNCHANGED rows
  <2>1. Reads(request[r])'
    BY <1>2, Returned, AtRest DEF TypeInv
  <2> QED BY <1>1, <1>2, <2>1, RequestTypes, OnlyRequest DEF Return
<1>3. CASE /\ contract[c].status = "sent"
           /\ contract' = [contract EXCEPT ![c].status = "signed"]
           /\ signature' = [signature EXCEPT ![s].contract = c, ![s].signedAt = details]
           /\ request' = [request EXCEPT ![r].pc = "signed", ![r].signature = s]
  <2> DEFINE row  == [contract[c] EXCEPT !.status = "signed"]
             sig  == [signature[s] EXCEPT !.contract = c, !.signedAt = details]
             next == [request[r] EXCEPT !.pc = "signed", !.signature = s]
  <2>1. /\ row \in Contract /\ row.status = "signed" /\ row.text = contract[c].text
        /\ row.filled = contract[c].filled /\ row.until = contract[c].until /\ row.pdf = contract[c].pdf
        /\ row.issuedAt = contract[c].issuedAt
    BY <1>1 DEF Contract, Statuses
  <2>2. next \in Request /\ next.pc = "signed" /\ next.contract = c /\ next.signature = s
    BY <1>0, <1>1 DEF Request
  <2>3. sig \in Signature /\ sig.contract = c /\ sig.copy = Null /\ sig.signedAt = details /\ details \in Nat
    <3>1. signature[s] \in Signature /\ signature[s].copy = Null /\ details \in Nat
      BY <1>1 DEF NoSignature, TypeInv, TypeOK
    <3> QED BY <3>1 DEF Signature
  <2>4. contract' = [contract EXCEPT ![c] = row] /\ signature' = [signature EXCEPT ![s] = sig]
    BY <1>3 DEF TypeInv, TypeOK
  <2>5. request' = [request EXCEPT ![r] = next]
    BY <1>3 DEF TypeInv, TypeOK
  <2> HIDE DEF row, sig, next
  <2>6. /\ contract' \in [Contracts -> Contract] /\ contract'[c] = row
        /\ \A d \in Contracts : d # c => contract'[d] = contract[d]
    BY <2>1, <2>4, ContractReplaced DEF TypeInv
  <2>7. /\ signature' \in [Signatures -> Signature] /\ signature'[s] = sig
        /\ \A t \in Signatures : t # s => signature'[t] = signature[t]
    BY <2>3, <2>4, SignatureReplaced DEF TypeInv
  <2>8. /\ request' \in [Requests -> Request] /\ request'[r] = next
        /\ \A q \in Requests : q # r => request'[q] = request[q]
    BY <2>2, <2>5, RequestReplaced DEF TypeInv
  <2>9. TypeOK'
    BY <1>1, <2>6, <2>7, <2>8 DEF TypeInv, TypeOK, history, bounds
  <2>10. Kept
    BY <1>1, <1>3, <2>1, <2>3, <2>6, <2>7 DEF Kept, Sent, Closed, NoSignature
  <2>11. Reads(request[r])'
    BY <2>2, <2>3, <2>7, <2>8 DEF Reads
  <2>12. SignatureRow(s)'
    BY <1>1, <2>1, <2>3, <2>6, <2>7 DEF SignatureRow, Closed, Since
  <2>13. \A d \in Contracts : contract'[d].pdf = contract[d].pdf
    BY <2>1, <2>6
  <2>14. DatedRow(c)'
    <3>1. Sent(c) /\ contract'[c].issuedAt = contract[c].issuedAt
      BY <1>3, <2>1, <2>6 DEF Sent
    <3>2. SignedBy(c)' # {}
      BY <2>3, <2>7 DEF SignedBy
    <3> QED BY <1>1, <3>1, <3>2 DEF DatedRow, RowsInv, Since
  <2>15. \A d \in Contracts : contract'[d].status = contract[d].status \/ DatedRow(d)'
    BY <2>6, <2>14
  <2> QED BY <1>1, <2>7, <2>8, <2>9, <2>10, <2>11, <2>12, <2>13, <2>15, Frame
<1> QED BY <1>0, <1>2, <1>3 DEF RecordSignature

-----------------------------------------------------------------------------
\* The steps of a worker.

\* A step of a worker that changes no row.
LEMMA OnlyWorker ==
  ASSUME TypeInv, RowsInv, NEW w \in Workers, NEW next \in WorkerState,
         worker' = [worker EXCEPT ![w] = next], Holds(worker[w])',
         UNCHANGED <<today, details, rows, request, overwritten, edits>>,
         queue' \subseteq Jobs, \A k \in queue' : k \in queue \/ Due(k),
         mails' \subseteq Contracts, forsaken' \subseteq Contracts \cup Signatures,
         faults' \in 0..MaxFaults
  PROVE  TypeInv' /\ RowsInv' /\ Kept
<1>1. /\ worker' \in [Workers -> WorkerState]
      /\ \A v \in Workers : v # w => worker'[v] = worker[v]
  BY WorkerReplaced DEF TypeInv
<1>2. TypeOK' /\ Kept
  BY <1>1 DEF TypeInv, TypeOK, Kept, rows, Sent, Closed
<1>3. UNCHANGED <<contract, signature, request>>
  BY DEF rows
<1>4. \A k \in queue' : k \in queue \/ Due(k)'
  BY <1>3 DEF Due, Sent
<1> QED BY <1>1, <1>2, <1>3, <1>4, Frame

LEMMA TakeJobType ==
  ASSUME TypeInv, RowsInv, NEW w \in Workers, NEW j \in queue, TakeJob(w, j)
  PROVE  TypeInv' /\ RowsInv' /\ Kept
<1> DEFINE next == [Resting EXCEPT !.pc = "taken", !.job = j, !.owner = TRUE]
<1>1. j \in Jobs /\ Due(j)
  BY DEF TypeInv, TypeOK
<1>2. next \in WorkerState /\ worker' = [worker EXCEPT ![w] = next]
  BY <1>1, WorkerTypes DEF TakeJob
<1>3. UNCHANGED <<today, details, rows, request, mails, history, bounds>> /\ queue' = queue \ {j}
  BY DEF TakeJob
<1>4. Due(j)'
  BY <1>1, <1>3 DEF Due, Sent, rows
<1>5. Holds(worker[w])'
  <2>1. worker'[w] = next
    BY <1>2, WorkerReplaced DEF TypeInv
  <2> QED BY <1>1, <1>4, <2>1 DEF Holds, Resting
<1> HIDE DEF next
<1>6. /\ queue' \subseteq Jobs /\ \A k \in queue' : k \in queue
      /\ mails' \subseteq Contracts /\ forsaken' \subseteq Contracts \cup Signatures
      /\ faults' \in 0..MaxFaults /\ UNCHANGED <<today, details, rows, request, overwritten, edits>>
  BY <1>3 DEF TypeInv, TypeOK, history, bounds
<1> QED BY <1>2, <1>5, <1>6, OnlyWorker

LEMMA ReadPointerType ==
  ASSUME TypeInv, RowsInv, NEW w \in Workers, ReadPointer(w)
  PROVE  TypeInv' /\ RowsInv' /\ Kept
<1>0. PICK j \in Jobs : j = worker[w].job /\ Due(j)
  BY DEF ReadPointer, WorkerAt, TypeInv, Holds
<1>1. worker[w] \in WorkerState /\ worker[w].pc = "taken" /\ UNCHANGED <<contract, signature>>
  BY DEF ReadPointer, WorkerAt, TypeInv, TypeOK, rows
<1>2. Due(j)' /\ j.contract \in Contracts
  BY <1>0, <1>1 DEF Due, Sent, Jobs
<1>3. PICK next \in WorkerState : worker' = [worker EXCEPT ![w] = next] /\ Holds(worker[w])'
  <2>1. CASE worker' = [worker EXCEPT ![w].pc = "building"]
    <3> DEFINE next == [worker[w] EXCEPT !.pc = "building"]
    <3>1. next \in WorkerState /\ worker' = [worker EXCEPT ![w] = next]
      BY <1>1, <2>1, WorkerTypes DEF TypeInv, TypeOK
    <3>2. next.pc = "building" /\ next.job = j
      BY <1>0, <1>1 DEF WorkerState
    <3> HIDE DEF next
    <3>3. worker'[w] = next
      BY <3>1, WorkerReplaced DEF TypeInv
    <3>4. Holds(worker[w])'
      BY <1>2, <3>2, <3>3 DEF Holds
    <3> QED BY <3>1, <3>4
  <2>2. CASE /\ j.signature = Null /\ contract[j.contract].pdf # Null
             /\ worker' = [worker EXCEPT ![w].pc = "chaining"]
    <3> DEFINE next == [worker[w] EXCEPT !.pc = "chaining"]
    <3>1. next \in WorkerState /\ worker' = [worker EXCEPT ![w] = next]
      BY <1>1, <2>2, WorkerTypes DEF TypeInv, TypeOK
    <3>2. next.pc = "chaining" /\ next.job = j
      BY <1>0, <1>1 DEF WorkerState
    <3> HIDE DEF next
    <3>3. worker'[w] = next
      BY <3>1, WorkerReplaced DEF TypeInv
    <3>4. Holds(worker[w])'
      BY <1>1, <1>2, <2>2, <3>2, <3>3 DEF Holds
    <3> QED BY <3>1, <3>4
  <2>3. CASE worker' = [worker EXCEPT ![w] = Resting]
    BY <2>3, WorkerTypes, WorkerReplaced, AtRest DEF TypeInv
  <2> QED BY <1>0, <2>1, <2>2, <2>3 DEF ReadPointer, Pointer
<1>4. /\ queue' \subseteq Jobs /\ \A k \in queue' : k \in queue
      /\ mails' \subseteq Contracts /\ forsaken' \subseteq Contracts \cup Signatures
      /\ faults' \in 0..MaxFaults /\ UNCHANGED <<today, details, rows, request, overwritten, edits>>
  BY DEF ReadPointer, TypeInv, TypeOK, history, bounds
<1> QED BY <1>3, <1>4, OnlyWorker

\* What is read of a contract that was sent is its text and one of its statuses; a signature is of
\* one that is closed.
LEMMA BuildDocumentType ==
  ASSUME TypeInv, RowsInv, NEW w \in Workers, BuildDocument(w)
  PROVE  TypeInv' /\ RowsInv' /\ Kept
<1>0. PICK j \in Jobs : j = worker[w].job /\ Due(j)
  BY DEF BuildDocument, WorkerAt, TypeInv, Holds
<1>1. worker[w] \in WorkerState /\ UNCHANGED <<contract, signature>>
  BY DEF BuildDocument, TypeInv, TypeOK, rows
<1>2. Due(j)' /\ j.contract \in Contracts /\ Doc(j) \in Contracts \cup Signatures
  BY <1>0, <1>1 DEF Due, Sent, Jobs, Doc
<1>3. PICK n \in Nat, st \in Statuses : n = contract[j.contract].text /\ st = contract[j.contract].status
  BY <1>2 DEF TypeInv, TypeOK, Contract
<1>4. Says(j, n, st)'
  <2>1. Called(st, j.contract)'
    <3>1. Called(st, j.contract)
      BY <1>0, <1>2, <1>3 DEF Due, Sent, Called, RowsInv, DatedRow
    <3> QED BY <1>1, <3>1 DEF Called, SignedBy
  <2>2. j.signature # Null => st # "sent"
    <3> SUFFICES ASSUME NEW s \in Signatures, s = j.signature PROVE st # "sent"
      BY DEF Jobs
    <3>1. signature[s].contract = j.contract
      BY <1>0 DEF Due
    <3> QED BY <1>2, <1>3, <3>1 DEF RowsInv, SignatureRow, Closed
  <2> QED BY <1>1, <1>3, <2>1, <2>2 DEF Says
<1>5. PICK next \in WorkerState : worker' = [worker EXCEPT ![w] = next] /\ Holds(worker[w])'
  <2>1. CASE worker' = [worker EXCEPT ![w].pc = "merging", ![w].text = n, ![w].status = st]
    <3> DEFINE next == [worker[w] EXCEPT !.pc = "merging", !.text = n, !.status = st]
    <3>1. next \in WorkerState
      BY <1>1, WorkerTypes
    <3>2. worker' = [worker EXCEPT ![w] = next]
      BY <2>1 DEF TypeInv, TypeOK
    <3>3. next.pc = "merging" /\ next.job = j /\ next.text = n /\ next.status = st
      BY <1>0, <1>1 DEF WorkerState
    <3> HIDE DEF next
    <3>4. worker'[w] = next
      BY <3>1, <3>2, WorkerReplaced DEF TypeInv
    <3>5. Holds(worker[w])'
      BY <1>2, <1>4, <3>3, <3>4 DEF Holds
    <3> QED BY <3>1, <3>2, <3>5
  <2>2. CASE worker' = [worker EXCEPT ![w] = Resting]
    BY <2>2, WorkerTypes, WorkerReplaced, AtRest DEF TypeInv
  <2> QED BY <1>0, <1>3, <2>1, <2>2 DEF BuildDocument
<1>6. /\ queue' \subseteq Jobs /\ \A k \in queue' : k \in queue
      /\ mails' \subseteq Contracts /\ forsaken' \subseteq Contracts \cup Signatures
      /\ faults' \in 0..MaxFaults /\ UNCHANGED <<today, details, rows, request, overwritten, edits>>
  BY <1>0, <1>2 DEF BuildDocument, TypeInv, TypeOK, bounds
<1> QED BY <1>5, <1>6, OnlyWorker

\* What was asked for at some moment merges in the details of a later one.
LEMMA MergeDetailsType ==
  ASSUME TypeInv, RowsInv, NEW w \in Workers, MergeDetails(w)
  PROVE  TypeInv' /\ RowsInv' /\ Kept
<1>0. PICK j \in Jobs : j = worker[w].job /\ Due(j) /\ Says(j, worker[w].text, worker[w].status)
  BY DEF MergeDetails, WorkerAt, TypeInv, Holds
<1>1. worker[w] \in WorkerState /\ details \in Nat /\ UNCHANGED <<contract, signature, details>>
  BY DEF MergeDetails, TypeInv, TypeOK, rows
<1>2. PICK text, st : text = worker[w].text /\ st = worker[w].status
  OBVIOUS
<1>3. Due(j)' /\ Says(j, text, st)'
  BY <1>0, <1>1, <1>2 DEF Due, Sent, Says, Called, SignedBy
<1>4. Since(details, Asked(j)) /\ j.contract \in Contracts
  <2>1. j.contract \in Contracts
    BY DEF Jobs
  <2>2. CASE j.signature = Null
    BY <1>0, <2>1, <2>2 DEF Due, Asked, RowsInv, DatedRow
  <2>3. CASE j.signature # Null
    <3>1. PICK s \in Signatures : s = j.signature /\ signature[s].contract = j.contract
      BY <1>0, <2>3 DEF Due, Jobs
    <3> QED BY <2>1, <2>3, <3>1 DEF Asked, RowsInv, SignatureRow
  <2> QED BY <2>1, <2>2, <2>3
<1>5. Since(details, Asked(j))'
  BY <1>1, <1>4 DEF Since, Asked
<1> DEFINE next == [worker[w] EXCEPT !.pc = "rendering", !.details = details]
<1>6. next \in WorkerState
  BY <1>1, WorkerTypes
<1>7. worker' = [worker EXCEPT ![w] = next]
  BY DEF MergeDetails, TypeInv, TypeOK
<1>8. /\ next.pc = "rendering" /\ next.job = j /\ next.details = details
      /\ next.text = text /\ next.status = st
  BY <1>0, <1>1, <1>2 DEF WorkerState
<1> HIDE DEF next
<1>9. worker'[w] = next
  BY <1>6, <1>7, WorkerReplaced DEF TypeInv
<1>10. Holds(worker[w])'
  BY <1>1, <1>5, <1>8, <1>9, <1>3 DEF Holds
<1>11. /\ queue' \subseteq Jobs /\ \A k \in queue' : k \in queue
       /\ mails' \subseteq Contracts /\ forsaken' \subseteq Contracts \cup Signatures
       /\ faults' \in 0..MaxFaults /\ UNCHANGED <<today, details, rows, request, overwritten, edits>>
  BY DEF MergeDetails, TypeInv, TypeOK, history, bounds
<1> QED BY <1>6, <1>7, <1>10, <1>11, OnlyWorker

LEMMA ChainMailType ==
  ASSUME TypeInv, RowsInv, NEW w \in Workers, ChainMail(w)
  PROVE  TypeInv' /\ RowsInv' /\ Kept
<1>0. PICK c \in Contracts : c = worker[w].job.contract
  BY DEF ChainMail, WorkerAt, TypeInv, Holds, Jobs
<1>1. /\ queue' \subseteq Jobs /\ \A k \in queue' : k \in queue
      /\ mails' \subseteq Contracts /\ forsaken' \subseteq Contracts \cup Signatures
      /\ faults' \in 0..MaxFaults /\ UNCHANGED <<today, details, rows, request, overwritten, edits>>
  BY <1>0 DEF ChainMail, TypeInv, TypeOK
<1>2. worker' = [worker EXCEPT ![w] = Resting] /\ Holds(worker[w])'
  <2>1. worker' = [worker EXCEPT ![w] = Resting]
    BY DEF ChainMail
  <2> QED BY <2>1, WorkerTypes, WorkerReplaced, AtRest DEF TypeInv
<1> QED BY <1>1, <1>2, WorkerTypes, OnlyWorker

\* The job that waits again is of the same contract, or of the same signature.
LEMMA LoseType ==
  ASSUME TypeInv, RowsInv, NEW w \in Workers, NEW next \in SUBSET Jobs, Lose(w, next),
         \A k \in next : k.contract = worker[w].job.contract /\ k.signature = worker[w].job.signature
  PROVE  TypeInv' /\ RowsInv' /\ Kept
<1>0. PICK j \in Jobs : j = worker[w].job /\ Due(j)
  BY DEF Lose, WorkerAt, TypeInv, Holds
<1>1. Doc(j) \in Contracts \cup Signatures /\ \A k \in next : Due(k)
  BY <1>0 DEF Doc, Jobs, Due, Sent
<1>2. /\ queue' \subseteq Jobs /\ \A k \in queue' : k \in queue \/ Due(k)
      /\ forsaken' \subseteq Contracts \cup Signatures
  BY <1>0, <1>1 DEF Lose, TypeInv, TypeOK
<1>3. /\ mails' \subseteq Contracts
      /\ faults' \in 0..MaxFaults /\ UNCHANGED <<today, details, rows, request, overwritten, edits>>
  BY DEF Lose, TypeInv, TypeOK
<1>4. worker' = [worker EXCEPT ![w] = Resting] /\ Holds(worker[w])'
  <2>1. worker' = [worker EXCEPT ![w] = Resting]
    BY DEF Lose
  <2> QED BY <2>1, WorkerTypes, WorkerReplaced, AtRest DEF TypeInv
<1> QED BY <1>2, <1>3, <1>4, WorkerTypes, OnlyWorker

\* What a failed attempt and a crash leave for another run.
LEMMA AnotherRun ==
  ASSUME TypeInv, NEW w \in Workers, FailAttempt(w) \/ Crash(w)
  PROVE  \E next \in SUBSET Jobs :
           /\ Lose(w, next)
           /\ \A k \in next : /\ k.contract = worker[w].job.contract
                              /\ k.signature = worker[w].job.signature
<1>0. PICK j \in Jobs : j = worker[w].job
  BY DEF FailAttempt, Crash, Lose, WorkerAt, TypeInv, Holds
<1> DEFINE again == [j EXCEPT !.tries = @ + 1]
           run   == [j EXCEPT !.stalled = TRUE]
<1>1. /\ again.contract = j.contract /\ again.signature = j.signature
      /\ run.contract = j.contract /\ run.signature = j.signature
  BY DEF Jobs
<1>2. (j.tries + 1 < MaxAttempts => again \in Jobs) /\ run \in Jobs
  BY JobTypes
<1>3. \E next \in {{}, {run}} : Lose(w, next) \/ (j.tries + 1 < MaxAttempts /\ Lose(w, {again}))
  BY <1>0 DEF FailAttempt, Crash
<1> HIDE DEF again, run
<1>4. {} \in SUBSET Jobs /\ {run} \in SUBSET Jobs /\ (j.tries + 1 < MaxAttempts => {again} \in SUBSET Jobs)
  BY <1>2
<1> QED BY <1>0, <1>1, <1>3, <1>4

LEMMA StallType ==
  ASSUME TypeInv, RowsInv, NEW w \in Workers, Stall(w)
  PROVE  TypeInv' /\ RowsInv' /\ Kept
<1>0. PICK j \in Jobs : j = worker[w].job /\ Due(j)
  BY DEF Stall, TypeInv, Holds
<1> DEFINE next == [worker[w] EXCEPT !.owner = FALSE]
           run  == [j EXCEPT !.stalled = TRUE]
<1>1. worker[w] \in WorkerState /\ Holds(worker[w]) /\ UNCHANGED <<contract, signature>>
  BY DEF Stall, TypeInv, TypeOK, rows
<1>2. run \in Jobs /\ run.contract = j.contract /\ run.signature = j.signature
  BY JobTypes DEF Jobs
<1>3. next \in WorkerState /\ worker' = [worker EXCEPT ![w] = next]
  BY <1>1, WorkerTypes DEF Stall, TypeInv, TypeOK
<1>4. /\ next.pc = worker[w].pc /\ next.job = j /\ ~next.owner /\ next.text = worker[w].text
      /\ next.status = worker[w].status /\ next.details = worker[w].details
  BY <1>0, <1>1 DEF WorkerState
<1>5. /\ queue' = queue \cup {run} /\ faults' \in 0..MaxFaults
      /\ UNCHANGED <<today, details, rows, request, mails, history, edits>>
  BY <1>0 DEF Stall, TypeInv, TypeOK
<1> HIDE DEF next, run
<1>6. Due(run) /\ Due(j)'
  BY <1>0, <1>1, <1>2 DEF Due, Sent
<1>7. Holds(worker[w])'
  <2>1. worker'[w] = next
    BY <1>3, WorkerReplaced DEF TypeInv
  <2>2. UNCHANGED details
    BY DEF Stall
  <2>3. PICK pc, text, st, n :
          pc = worker[w].pc /\ text = worker[w].text /\ st = worker[w].status /\ n = worker[w].details
    OBVIOUS
  <2>4. pc \in {"merging", "rendering"} => Says(j, text, st)'
    <3>1. pc \in {"merging", "rendering"} => Says(j, text, st)
      BY <1>0, <1>1, <2>3 DEF Holds
    <3> QED BY <1>1, <3>1 DEF Says, Called, SignedBy
  <2>5. pc = "rendering" => Since(n, Asked(j))'
    <3>1. pc = "rendering" => Since(n, Asked(j))
      BY <1>0, <1>1, <2>3 DEF Holds
    <3>2. Asked(j)' = Asked(j)
      BY <1>1 DEF Asked
    <3> QED BY <2>2, <3>1, <3>2 DEF Since
  <2> QED BY <1>0, <1>1, <1>4, <1>6, <2>1, <2>3, <2>4, <2>5 DEF Holds
<1>8. /\ queue' \subseteq Jobs /\ \A k \in queue' : k \in queue \/ Due(k)
      /\ mails' \subseteq Contracts /\ forsaken' \subseteq Contracts \cup Signatures
      /\ UNCHANGED <<today, details, rows, request, overwritten, edits>>
  BY <1>2, <1>5, <1>6 DEF TypeInv, TypeOK, history
<1> QED BY <1>3, <1>5, <1>7, <1>8, OnlyWorker

\* The copy that is linked states what was read, which is still what the contract says.
LEMMA LinkPdfType ==
  ASSUME TypeInv, RowsInv, NEW w \in Workers, LinkPdf(w)
  PROVE  TypeInv' /\ RowsInv' /\ Kept
<1>0. PICK j \in Jobs : j = worker[w].job /\ Due(j)
  BY DEF LinkPdf, WorkerAt, TypeInv, Holds
<1>1. PICK c \in Contracts : c = j.contract
  BY DEF Jobs
<1>2. /\ worker[w] \in WorkerState /\ worker[w].job = j /\ Says(j, worker[w].text, worker[w].status)
      /\ Since(worker[w].details, Asked(j)) /\ contract[c] \in Contract /\ Sent(c)
      /\ UNCHANGED <<today, details, request, queue, mails, history, bounds>>
  BY <1>0, <1>1 DEF LinkPdf, WorkerAt, TypeInv, TypeOK, Holds, Due
<1> DEFINE copy == [by |-> w, text |-> worker[w].text, status |-> worker[w].status,
                    details |-> worker[w].details]
<1>3. /\ copy \in Copy /\ copy # Null /\ copy.text = contract[c].text /\ Called(copy.status, c)
      /\ (j.signature # Null => copy.status # "sent") /\ Since(copy.details, Asked(j))
  <2>1. worker[w].text \in Nat /\ worker[w].details \in Nat /\ worker[w].status \in Statuses
    BY <1>1, <1>2 DEF Contract, Says, Since, Called, Statuses
  <2>2. copy \in Copy
    BY <2>1 DEF Copy
  <2>3. /\ copy.text = worker[w].text /\ copy.status = worker[w].status
        /\ copy.details = worker[w].details
    OBVIOUS
  <2> HIDE DEF copy
  <2> QED BY <1>1, <1>2, <2>2, <2>3 DEF Says
<1>4. CASE /\ j.signature = Null
           /\ contract' = [contract EXCEPT ![c].pdf = Linked(@, copy)]
           /\ worker' = [worker EXCEPT ![w] = [Resting EXCEPT !.pc = "chaining", !.job = j,
                                                             !.owner = worker[w].owner]]
           /\ UNCHANGED signature
  <2>0. PICK new : new = IF contract[c].pdf = Null THEN copy ELSE contract[c].pdf
    OBVIOUS
  <2> DEFINE row  == [contract[c] EXCEPT !.pdf = new]
             next == [Resting EXCEPT !.pc = "chaining", !.job = j, !.owner = worker[w].owner]
  <2>1. /\ new \in Copy \cup {Null} /\ new # Null /\ new.text = contract[c].text
        /\ Called(new.status, c) /\ Since(new.details, contract[c].issuedAt)
        /\ contract[c].pdf # Null => new = contract[c].pdf
    <3> HIDE DEF copy
    <3>1. Asked(j) = contract[c].issuedAt
      BY <1>1, <1>4 DEF Asked
    <3> QED BY <1>2, <1>3, <2>0, <3>1 DEF Contract, RowsInv, ContractRow
  <2>2. contract' = [contract EXCEPT ![c] = row]
    BY <1>4, <2>0 DEF Linked, TypeInv, TypeOK
  <2>3. worker' = [worker EXCEPT ![w] = next]
    BY <1>4 DEF TypeInv, TypeOK
  <2>4. next \in WorkerState /\ next.pc = "chaining" /\ next.job = j /\ next.owner = worker[w].owner
    <3>1. worker[w].owner \in BOOLEAN
      BY <1>2 DEF WorkerState
    <3> QED BY <3>1, WorkerTypes DEF Resting
  <2>5. /\ row \in Contract /\ row.status = contract[c].status /\ row.text = contract[c].text
        /\ row.filled = contract[c].filled /\ row.until = contract[c].until /\ row.pdf = new
        /\ row.issuedAt = contract[c].issuedAt
    BY <1>2, <2>1 DEF Contract
  <2> HIDE DEF row, next
  <2>6. /\ contract' \in [Contracts -> Contract] /\ contract'[c] = row
        /\ \A d \in Contracts : d # c => contract'[d] = contract[d]
    BY <2>2, <2>5, ContractReplaced DEF TypeInv
  <2>7. /\ worker' \in [Workers -> WorkerState] /\ worker'[w] = next
        /\ \A v \in Workers : v # w => worker'[v] = worker[v]
    BY <2>3, <2>4, WorkerReplaced DEF TypeInv
  <2>8. TypeOK'
    BY <1>2, <1>4, <2>6, <2>7 DEF TypeInv, TypeOK, history, bounds
  <2>9. Kept
    <3>1. details' \in Nat /\ details <= details'
      BY <1>2 DEF TypeInv, TypeOK
    <3>2. UNCHANGED signature
      BY <1>4
    <3>3. contract[c].pdf # Null => contract'[c].pdf = contract[c].pdf
      BY <2>1, <2>5, <2>6
    <3>4. /\ contract'[c].status = contract[c].status /\ contract'[c].text = contract[c].text
          /\ contract'[c].filled = contract[c].filled /\ contract'[c].until = contract[c].until
          /\ contract'[c].issuedAt = contract[c].issuedAt
      BY <2>5, <2>6
    <3> QED BY <2>6, <3>1, <3>2, <3>3, <3>4 DEF Kept, Sent, Closed
  <2>10. ContractRow(c)'
    <3>1. Called(new.status, c)'
      BY <1>4, <2>1, <2>5, <2>6 DEF Called, SignedBy
    <3>2. Since(new.details, contract[c].issuedAt)'
      BY <1>2, <2>1, <2>5, <2>6 DEF Since
    <3> QED BY <1>2, <2>1, <2>5, <2>6, <3>1, <3>2 DEF ContractRow, Sent
  <2>11. Due(j)'
    BY <1>0, <2>9, DueKept DEF TypeInv
  <2>12. Holds(worker[w])'
    BY <1>1, <1>4, <2>1, <2>4, <2>5, <2>6, <2>7, <2>11 DEF Holds
  <2>13. \A d \in Contracts : /\ contract'[d].pdf = contract[d].pdf \/ ContractRow(d)'
                              /\ contract'[d].status = contract[d].status
    BY <2>5, <2>6, <2>10
  <2> QED BY <1>2, <1>4, <2>7, <2>8, <2>9, <2>12, <2>13, Frame
<1>5. CASE /\ j.signature # Null
           /\ signature' = [signature EXCEPT ![j.signature].copy = Linked(@, copy)]
           /\ worker' = [worker EXCEPT ![w] = Resting]
           /\ UNCHANGED contract
  <2>0. PICK s \in Signatures : s = j.signature
    BY <1>5 DEF Jobs
  <2>1. signature[s] \in Signature /\ signature[s].contract = c
    BY <1>0, <1>1, <1>5, <2>0 DEF Due, TypeInv, TypeOK
  <2>10. PICK new : new = IF signature[s].copy = Null THEN copy ELSE signature[s].copy
    OBVIOUS
  <2> DEFINE sig == [signature[s] EXCEPT !.copy = new]
  <2>2. /\ new \in Copy \cup {Null} /\ new # Null /\ new.text = contract[c].text
        /\ Called(new.status, c) /\ new.status # "sent" /\ Since(new.details, signature[s].signedAt)
        /\ signature[s].copy # Null => new = signature[s].copy
    <3> HIDE DEF copy
    <3>1. Asked(j) = signature[s].signedAt /\ SignatureRow(s)
      BY <1>5, <2>0 DEF Asked, RowsInv
    <3> QED BY <1>3, <1>5, <2>1, <2>10, <3>1 DEF Signature, SignatureRow
  <2>3. signature' = [signature EXCEPT ![s] = sig]
    BY <1>5, <2>0, <2>10 DEF Linked, TypeInv, TypeOK
  <2>4. sig \in Signature /\ sig.contract = c /\ sig.copy = new /\ sig.signedAt = signature[s].signedAt
    BY <2>1, <2>2 DEF Signature
  <2> HIDE DEF sig
  <2>5. /\ signature' \in [Signatures -> Signature] /\ signature'[s] = sig
        /\ \A t \in Signatures : t # s => signature'[t] = signature[t]
    BY <2>3, <2>4, SignatureReplaced DEF TypeInv
  <2>6. /\ worker' \in [Workers -> WorkerState]
        /\ \A v \in Workers : worker'[v] = worker[v] \/ Holds(worker[v])'
    BY <1>5, WorkerTypes, WorkerReplaced, AtRest DEF TypeInv
  <2>7. TypeOK'
    BY <1>2, <1>5, <2>5, <2>6 DEF TypeInv, TypeOK, history, bounds
  <2>8. Kept
    <3>1. details' \in Nat /\ details <= details'
      BY <1>2 DEF TypeInv, TypeOK
    <3>2. UNCHANGED contract
      BY <1>5
    <3>3. /\ signature'[s].contract = signature[s].contract /\ signature'[s].signedAt = signature[s].signedAt
          /\ signature[s].copy # Null => signature'[s].copy = signature[s].copy
      BY <2>1, <2>2, <2>4, <2>5
    <3> QED BY <2>5, <3>1, <3>2, <3>3 DEF Kept, Sent, Closed
  <2>9. SignatureRow(s)'
    <3>1. Closed(c) /\ Since(details, signature[s].signedAt)
      BY <2>1 DEF RowsInv, SignatureRow
    <3>2. Closed(c)' /\ Since(details, signature[s].signedAt)'
      BY <1>2, <1>5, <2>4, <2>5, <3>1 DEF Closed, Since
    <3>3. Called(new.status, c)'
      BY <2>2, <2>8, CalledKept DEF TypeInv
    <3>4. Since(new.details, signature[s].signedAt)'
      BY <1>2, <2>2, <2>4, <2>5 DEF Since
    <3>5. new.text = contract'[c].text /\ signature'[s].contract = c /\ signature'[s].copy = new
      BY <1>5, <2>2, <2>4, <2>5
    <3> QED BY <2>2, <3>2, <3>3, <3>4, <3>5 DEF SignatureRow
  <2> QED BY <1>2, <1>5, <2>5, <2>6, <2>7, <2>8, <2>9, Frame
<1> QED BY <1>0, <1>1, <1>4, <1>5 DEF LinkPdf

LEMMA NextDayType ==
  ASSUME TypeInv, RowsInv, NextDay
  PROVE  TypeInv' /\ RowsInv' /\ Kept
<1>1. /\ UNCHANGED <<details, contract, signature, request, queue, worker, mails, overwritten, forsaken,
                      edits, faults>>
      /\ today' \in Days
  BY DEF NextDay, rows, history, bounds
<1>2. TypeOK' /\ Kept
  BY <1>1 DEF TypeInv, TypeOK, Kept, Sent, Closed
<1> QED BY <1>1, <1>2, Frame

LEMMA StutterType ==
  ASSUME TypeInv, RowsInv, UNCHANGED vars
  PROVE  TypeInv' /\ RowsInv' /\ Kept
<1>1. UNCHANGED <<today, details, contract, signature, request, queue, worker, mails, overwritten, forsaken,
                  edits, faults>>
  BY DEF vars, rows, history, bounds
<1>2. TypeOK' /\ Kept
  BY <1>1 DEF TypeInv, TypeOK, Kept, Sent, Closed
<1> QED BY <1>1, <1>2, Frame

-----------------------------------------------------------------------------
\* The types and the rows, and what no step takes back.

LEMMA InitInv ==
  ASSUME Init
  PROVE  IInv
<1>1. /\ contract = [c \in Contracts |-> NoContract] /\ signature = [s \in Signatures |-> NoSignature]
      /\ request = [r \in Requests |-> Idle] /\ worker = [w \in Workers |-> Resting]
      /\ queue = {} /\ mails = {} /\ overwritten = {} /\ forsaken = {}
      /\ today = 0 /\ details = 0 /\ edits = 0 /\ faults = 0
  BY DEF Init
<1>2. TypeOK
  <2>1. NoSignature \in Signature
    BY DEF Signature, NoSignature
  <2>2. 0 \in 0..MaxEdits /\ 0 \in 0..MaxFaults
    OBVIOUS
  <2> QED BY <1>1, <2>1, <2>2, ContractTypes, RequestTypes, WorkerTypes DEF TypeOK
<1>3. \A c \in Contracts : ~Sent(c) /\ contract[c].pdf = Null /\ contract[c].status = "none"
  BY <1>1 DEF Sent, NoContract
<1>4. \A s \in Signatures :
        signature[s].contract = Null /\ signature[s].signedAt = Null /\ signature[s].copy = Null
  BY <1>1 DEF NoSignature
<1>5. \A r \in Requests : Reads(request[r]) /\ request[r].pc = "idle"
  BY <1>1 DEF Reads, Idle
<1>6. \A w \in Workers : Holds(worker[w])
  BY <1>1 DEF Holds, Resting
<1>7. TypeInv
  BY <1>1, <1>2, <1>5, <1>6 DEF TypeInv
<1>8. RowsInv
  BY <1>3, <1>4 DEF RowsInv, ContractRow, DatedRow, SignatureRow
<1>9. FilledInv
  BY <1>3, <1>5 DEF FilledInv, At
<1>10. CopyIsNotForgotten
  <2>1. \A s \in Signatures : signature[s] = NoSignature
    BY <1>1
  <2> QED BY <1>3, <2>1 DEF CopyIsNotForgotten
<1> QED BY <1>7, <1>8, <1>9, <1>10 DEF IInv

\* The actions of Next, one by one.
LEMMA Steps ==
  ASSUME Next
  PROVE  \/ \E c \in Contracts, full \in BOOLEAN, u \in Ends :
              CreateContract(c, full, u) \/ UpdateContract(c, full, u)
         \/ \E c \in Contracts : TerminateContract(c) \/ EditContract(c)
         \/ ReviseDetails
         \/ \E r \in Requests :
              \/ \E c \in Contracts : ReadDraft(r, c) \/ ReadSigningTarget(r, c)
              \/ \E s \in Signatures : RecordSignature(r, s)
              \/ SendContract(r) \/ QueueContractPdf(r) \/ QueueSignedPdf(r) \/ Die(r)
         \/ \E w \in Workers :
              \/ \E j \in queue : TakeJob(w, j)
              \/ ReadPointer(w) \/ BuildDocument(w) \/ MergeDetails(w) \/ LinkPdf(w) \/ ChainMail(w)
              \/ FailAttempt(w) \/ Crash(w) \/ Stall(w)
         \/ NextDay
<1>1. CASE OwnerStep
  BY <1>1 DEF OwnerStep
<1>2. CASE \E r \in Requests : ClientStep(r) \/ Die(r)
  BY <1>2 DEF ClientStep
<1>3. CASE \E w \in Workers : WorkerStep(w)
  BY <1>3 DEF WorkerStep
<1> QED BY <1>1, <1>2, <1>3 DEF Next

LEMMA StepType ==
  ASSUME TypeInv, RowsInv, [Next]_vars
  PROVE  TypeInv' /\ RowsInv' /\ Kept
<1>1. CASE \E c \in Contracts, full \in BOOLEAN, u \in Ends :
             CreateContract(c, full, u) \/ UpdateContract(c, full, u)
  BY <1>1, CreateContractType, UpdateContractType
<1>2. CASE \E c \in Contracts : TerminateContract(c) \/ EditContract(c)
  BY <1>2, TerminateContractType, EditContractType
<1>3. CASE \E r \in Requests :
             \/ \E c \in Contracts : ReadDraft(r, c) \/ ReadSigningTarget(r, c)
             \/ \E s \in Signatures : RecordSignature(r, s)
             \/ SendContract(r) \/ QueueContractPdf(r) \/ QueueSignedPdf(r) \/ Die(r)
  BY <1>3, ReadDraftType, ReadSigningTargetType, RecordSignatureType, SendContractType,
     QueueContractPdfType, QueueSignedPdfType, DieType
<1>4. CASE \E w \in Workers :
             \/ \E j \in queue : TakeJob(w, j)
             \/ ReadPointer(w) \/ BuildDocument(w) \/ MergeDetails(w) \/ LinkPdf(w) \/ ChainMail(w) \/ Stall(w)
  BY <1>4, TakeJobType, ReadPointerType, BuildDocumentType, MergeDetailsType, LinkPdfType, ChainMailType,
     StallType
<1>5. CASE \E w \in Workers : FailAttempt(w) \/ Crash(w)
  BY <1>5, AnotherRun, LoseType
<1>6. CASE ReviseDetails \/ NextDay
  BY <1>6, ReviseDetailsType, NextDayType
<1>7. CASE UNCHANGED vars
  BY <1>7, StutterType
<1> QED BY <1>1, <1>2, <1>3, <1>4, <1>5, <1>6, <1>7, Steps

-----------------------------------------------------------------------------
\* What was sent has something in it.

\* What StepType says of every step.
Stepped == TypeInv' /\ RowsInv' /\ Kept

LEMMA FilledFrame ==
  ASSUME IInv, Stepped, overwritten \subseteq overwritten',
         \A c \in Contracts \ overwritten' : Sent(c)' => Sent(c) \/ contract'[c].filled,
         \A c \in Contracts \ overwritten', r \in Requests :
           contract[c].status # "none" /\ At(r, "sending") /\ request[r].contract = c
             => contract'[c].filled = contract[c].filled,
         \A r \in Requests, c \in Contracts \ overwritten' :
           At(r, "sending")' /\ request'[r].contract = c
             => request'[r] = request[r] \/ contract'[c].filled
  PROVE  FilledInv'
<1>1. \A c \in Contracts \ overwritten' : Sent(c)' => contract'[c].filled
  BY DEF IInv, Stepped, FilledInv, Kept
<1>2. ASSUME NEW r \in Requests, NEW c \in Contracts, c \notin overwritten',
             request'[r].contract = c, At(r, "sending")', contract'[c].status = "draft"
      PROVE  contract'[c].filled
  <2> SUFFICES ASSUME request'[r] = request[r] PROVE contract'[c].filled
    BY <1>2
  <2>1. At(r, "sending") /\ request[r].contract = c /\ contract[c].status # "none"
    BY <1>2 DEF At, IInv, TypeInv, Reads
  <2>2. contract[c].status = "draft"
    <3>1. contract[c].status \in {"none", "draft", "sent", "signed", "terminated"}
      BY DEF IInv, TypeInv, TypeOK, Contract, Statuses
    <3> QED BY <1>2, <2>1, <3>1 DEF Stepped, Kept, Sent
  <2> QED BY <1>2, <2>1, <2>2 DEF IInv, FilledInv
<1>3. \A r \in Requests : At(r, "sending")' => request'[r].contract \in Contracts
  BY DEF Stepped, TypeInv, Reads, At
<1> QED BY <1>1, <1>2, <1>3 DEF FilledInv, At

\* A step that sends nothing, edits nothing and reads no draft.
LEMMA FilledRest ==
  ASSUME IInv, Stepped, UNCHANGED overwritten,
         \A c \in Contracts : /\ contract'[c].filled = contract[c].filled
                              /\ Sent(c)' => Sent(c),
         \A r \in Requests : request'[r] = request[r] \/ request'[r].pc # "sending"
  PROVE  FilledInv'
BY FilledFrame DEF IInv, FilledInv, At, Stepped, Kept

\* Only the pointer of a row is written when a copy is linked.
LEMMA PointerOnly ==
  ASSUME TypeOK, NEW w \in Workers, LinkPdf(w)
  PROVE  /\ \A c \in Contracts : /\ contract'[c].status = contract[c].status
                                 /\ contract'[c].text = contract[c].text
                                 /\ contract'[c].filled = contract[c].filled
                                 /\ contract'[c].until = contract[c].until
                                 /\ contract'[c].issuedAt = contract[c].issuedAt
         /\ \A s \in Signatures : signature'[s].contract = signature[s].contract
<1>1. CASE \E d, copy : contract' = [contract EXCEPT ![d].pdf = copy] /\ UNCHANGED signature
  BY <1>1 DEF TypeOK, Contract
<1>2. CASE \E t, copy : signature' = [signature EXCEPT ![t].copy = copy] /\ UNCHANGED contract
  BY <1>2 DEF TypeOK, Signature
<1> QED BY <1>1, <1>2 DEF LinkPdf

\* Where the requests go.
LEMMA RequestMoves ==
  ASSUME TypeOK, NEW r \in Requests,
         \/ Return(r)
         \/ request' = [request EXCEPT ![r].pc = "sent"]
         \/ \E s \in Signatures : request' = [request EXCEPT ![r].pc = "signed", ![r].signature = s]
  PROVE  /\ request'[r].pc # "sending"
         /\ \A q \in Requests : q # r => request'[q] = request[q]
<1>1. request[r] \in Request
  BY DEF TypeOK
<1>2. CASE Return(r)
  BY <1>2, Returned, AtRest
<1>3. CASE request' = [request EXCEPT ![r].pc = "sent"]
  BY <1>1, <1>3 DEF TypeOK, Request
<1>4. CASE \E s \in Signatures : request' = [request EXCEPT ![r].pc = "signed", ![r].signature = s]
  <2>1. PICK s \in Signatures :
          request' = [request EXCEPT ![r] = [request[r] EXCEPT !.pc = "signed", !.signature = s]]
    BY <1>4 DEF TypeOK
  <2>2. request'[r].pc = "signed" /\ \A q \in Requests : q # r => request'[q] = request[q]
    BY <1>1, <2>1 DEF TypeOK, Request
  <2> QED BY <2>2
<1> QED BY <1>2, <1>3, <1>4

LEMMA UpdateContractFilled ==
  ASSUME IInv, Stepped, NEW c \in Contracts, NEW full \in BOOLEAN, NEW u \in Ends,
         UpdateContract(c, full, u)
  PROVE  FilledInv'
<1>1. /\ contract[c].status = "draft" /\ UNCHANGED request
      /\ overwritten' = IF \E r \in Requests : At(r, "sending") /\ request[r].contract = c
                          THEN overwritten \cup {c} ELSE overwritten
  BY DEF UpdateContract
<1>2. /\ contract'[c].status = "draft"
      /\ \A d \in Contracts : d # c => contract'[d] = contract[d]
  BY <1>1 DEF UpdateContract, IInv, TypeInv, TypeOK, Contract
<1>3. \A d \in Contracts \ overwritten' : Sent(d)' => Sent(d)
  BY <1>2 DEF Sent
<1>4. ASSUME NEW d \in Contracts \ overwritten', NEW r \in Requests,
             At(r, "sending"), request[r].contract = d
      PROVE  contract'[d].filled = contract[d].filled
  BY <1>1, <1>2, <1>4
<1>5. \A r \in Requests : request'[r] = request[r]
  BY <1>1
<1>6. overwritten \subseteq overwritten'
  BY <1>1
<1> QED BY <1>3, <1>4, <1>5, <1>6, FilledFrame

\* A draft that was edited after the request had read it is marked; any other still has what it had.
LEMMA SendContractFilled ==
  ASSUME IInv, Stepped, NEW r \in Requests, SendContract(r)
  PROVE  FilledInv'
<1>0. PICK c \in Contracts : c = request[r].contract /\ At(r, "sending")
  BY DEF SendContract, At, IInv, TypeInv, Reads
<1>1. UNCHANGED overwritten
  BY DEF SendContract, history
<1>2. \A q \in Requests : request'[q] = request[q] \/ request'[q].pc # "sending"
  BY RequestMoves DEF SendContract, IInv, TypeInv
<1>3. CASE UNCHANGED contract
  BY <1>1, <1>2, <1>3, FilledRest DEF Sent
<1>4. CASE /\ contract[c].status = "draft"
           /\ contract' = [contract EXCEPT ![c].status = "sent", ![c].issuedAt = details]
  <2>1. /\ contract'[c].filled = contract[c].filled
        /\ \A d \in Contracts : d # c => contract'[d] = contract[d]
    BY <1>4 DEF IInv, TypeInv, TypeOK, Contract
  <2>2. c \notin overwritten => contract[c].filled
    BY <1>0, <1>4 DEF IInv, FilledInv
  <2> QED BY <1>1, <1>2, <2>1, <2>2, FilledFrame DEF Sent, At
<1> QED BY <1>0, <1>3, <1>4 DEF SendContract

LEMMA StepFilled ==
  ASSUME IInv, [Next]_vars
  PROVE  FilledInv'
<1>0. Stepped
  BY StepType DEF IInv, Stepped
<1>1. ASSUME NEW c \in Contracts, NEW full \in BOOLEAN, NEW u \in Ends, CreateContract(c, full, u)
      PROVE  FilledInv'
  <2>1. /\ contract'[c].status = "draft" /\ contract[c].status = "none"
        /\ \A d \in Contracts : d # c => contract'[d] = contract[d]
        /\ UNCHANGED <<request, overwritten>>
    BY <1>1 DEF CreateContract, NoContract, IInv, TypeInv, TypeOK, history
  <2> QED BY <1>0, <2>1, FilledFrame DEF Sent, At
<1>2. ASSUME NEW c \in Contracts, NEW full \in BOOLEAN, NEW u \in Ends, UpdateContract(c, full, u)
      PROVE  FilledInv'
  BY <1>0, <1>2, UpdateContractFilled
<1>3. ASSUME NEW c \in Contracts, TerminateContract(c)
      PROVE  FilledInv'
  <2>1. /\ Sent(c) /\ contract'[c].filled = contract[c].filled
        /\ \A d \in Contracts : d # c => contract'[d] = contract[d]
        /\ UNCHANGED <<request, overwritten>>
    BY <1>3 DEF TerminateContract, Sent, IInv, TypeInv, TypeOK, Contract, history
  <2>2. \A d \in Contracts : contract'[d].filled = contract[d].filled /\ (Sent(d)' => Sent(d))
    BY <2>1 DEF Sent
  <2> QED BY <1>0, <2>1, <2>2, FilledRest
<1>4. ASSUME NEW c \in Contracts, EditContract(c)
      PROVE  FilledInv'
  <2>1. \A d \in Contracts : contract'[d].filled = contract[d].filled /\ (Sent(d)' => Sent(d))
    BY <1>4, EditContractType DEF IInv, Sent
  <2>2. UNCHANGED <<request, overwritten>>
    BY <1>4 DEF EditContract, history
  <2> QED BY <1>0, <2>1, <2>2, FilledRest
<1>5. ASSUME NEW r \in Requests, NEW c \in Contracts, ReadDraft(r, c)
      PROVE  FilledInv'
  <2>1. /\ request'[r].contract = c /\ contract[c].filled
        /\ \A q \in Requests : q # r => request'[q] = request[q]
        /\ UNCHANGED <<contract, overwritten>>
    BY <1>5 DEF ReadDraft, Idle, IInv, TypeInv, TypeOK, rows, history
  <2> QED BY <1>0, <2>1, FilledFrame DEF Sent, At
<1>6. ASSUME NEW r \in Requests, SendContract(r)
      PROVE  FilledInv'
  BY <1>0, <1>6, SendContractFilled
<1>7. ASSUME NEW r \in Requests, NEW c \in Contracts, ReadSigningTarget(r, c)
      PROVE  FilledInv'
  <2>1. /\ \A q \in Requests : request'[q] = request[q] \/ request'[q].pc # "sending"
        /\ UNCHANGED <<contract, overwritten>>
    BY <1>7 DEF ReadSigningTarget, Idle, IInv, TypeInv, TypeOK, rows, history
  <2> QED BY <1>0, <2>1, FilledRest DEF Sent
<1>8. ASSUME NEW r \in Requests, NEW s \in Signatures, RecordSignature(r, s)
      PROVE  FilledInv'
  <2>0. PICK c \in Contracts : c = request[r].contract
    BY <1>8 DEF RecordSignature, At, IInv, TypeInv, Reads
  <2>1. UNCHANGED overwritten
    BY <1>8 DEF RecordSignature, history
  <2>2. \A q \in Requests : request'[q] = request[q] \/ request'[q].pc # "sending"
    BY <1>8, RequestMoves DEF RecordSignature, IInv, TypeInv
  <2>3. CASE UNCHANGED contract
    BY <1>0, <2>1, <2>2, <2>3, FilledRest DEF Sent
  <2>4. CASE contract[c].status = "sent" /\ contract' = [contract EXCEPT ![c].status = "signed"]
    <3>1. \A d \in Contracts : contract'[d].filled = contract[d].filled /\ (Sent(d)' => Sent(d))
      BY <2>4 DEF Sent, IInv, TypeInv, TypeOK, Contract
    <3> QED BY <1>0, <2>1, <2>2, <3>1, FilledRest
  <2> QED BY <1>8, <2>0, <2>3, <2>4 DEF RecordSignature, rows
<1>9. ASSUME NEW r \in Requests, QueueContractPdf(r) \/ QueueSignedPdf(r) \/ Die(r)
      PROVE  FilledInv'
  <2>1. Return(r) /\ UNCHANGED <<contract, overwritten>>
    BY <1>9 DEF QueueContractPdf, QueueSignedPdf, Die, rows
  <2>2. \A q \in Requests : request'[q] = request[q] \/ request'[q].pc # "sending"
    BY <2>1, RequestMoves DEF IInv, TypeInv
  <2> QED BY <1>0, <2>1, <2>2, FilledRest DEF Sent
<1>10. ASSUME NEW w \in Workers, LinkPdf(w)
       PROVE  FilledInv'
  <2>1. UNCHANGED <<request, overwritten>>
    BY <1>10 DEF LinkPdf, history
  <2> QED BY <1>0, <1>10, <2>1, PointerOnly, FilledRest DEF Sent, IInv, TypeInv
<1>11. CASE UNCHANGED <<contract, request, overwritten>>
  BY <1>0, <1>11, FilledRest DEF Sent
<1>12. ASSUME NEW w \in Workers,
              \/ \E j \in queue : TakeJob(w, j)
              \/ ReadPointer(w) \/ BuildDocument(w) \/ MergeDetails(w) \/ ChainMail(w)
              \/ FailAttempt(w) \/ Crash(w) \/ Stall(w)
       PROVE  FilledInv'
  BY <1>11, <1>12 DEF TakeJob, ReadPointer, BuildDocument, MergeDetails, ChainMail, FailAttempt, Crash,
                      Lose, Stall, rows, history
<1>13. CASE ReviseDetails \/ NextDay \/ UNCHANGED vars
  BY <1>11, <1>13 DEF ReviseDetails, NextDay, vars, rows, history
<1> QED BY <1>1, <1>2, <1>3, <1>4, <1>5, <1>6, <1>7, <1>8, <1>9, <1>10, <1>12, <1>13, Steps

-----------------------------------------------------------------------------
\* No copy is forgotten.

\* The copy of c, or of its signature s, is there, on its way, not owed, or lost to a fault or the trash.
Cared(c, s) ==
  \/ InHand(c, s)
  \/ ~contract[c].filled
  \/ (IF s = Null THEN c ELSE s) \in forsaken
  \/ IF s = Null THEN contract[c].pdf # Null /\ c \in mails ELSE signature[s].copy # Null

\* A job that waits or is held, and a request that is about to queue one, hold a copy in hand.
LEMMA HandedOn ==
  ASSUME NEW c, NEW s,
         \/ \E j \in queue' : j.contract = c /\ j.signature = s
         \/ \E w \in Workers : /\ worker'[w].owner
                               /\ worker'[w].job.contract = c /\ worker'[w].job.signature = s
         \/ \E r \in Requests : /\ request'[r].pc = (IF s = Null THEN "sent" ELSE "signed")
                                /\ request'[r].contract = c /\ request'[r].signature = s
  PROVE  Cared(c, s)'
BY Zenon DEF Cared, InHand

LEMMA CareFrame ==
  ASSUME IInv, Stepped, mails \subseteq mails', forsaken \subseteq forsaken',
         \A j \in queue : j \in queue' \/ Cared(j.contract, j.signature)',
         \A w \in Workers, j \in Jobs :
           worker[w].owner /\ worker[w].job = j =>
             (worker'[w].owner /\ worker'[w].job = j) \/ Cared(j.contract, j.signature)',
         \A r \in Requests, c \in Contracts :
           At(r, "sent") /\ request[r].contract = c => request'[r] = request[r] \/ Cared(c, Null)',
         \A r \in Requests, c \in Contracts, s \in Signatures :
           At(r, "signed") /\ request[r].contract = c /\ request[r].signature = s
             => request'[r] = request[r] \/ Cared(c, s)',
         \A c \in Contracts : Sent(c)' => Sent(c) \/ Cared(c, Null)',
         \A c \in Contracts, s \in Signatures :
           signature'[s].contract = c => signature[s].contract = c \/ Cared(c, s)'
  PROVE  CopyIsNotForgotten'
<1>1. ASSUME NEW c \in Contracts, NEW s \in Signatures \cup {Null}, InHand(c, s)
      PROVE  Cared(c, s)'
  <2>1. CASE \E j \in queue : j.contract = c /\ j.signature = s
    <3>1. PICK j \in queue : j.contract = c /\ j.signature = s
      BY <2>1
    <3>2. CASE j \in queue'
      BY <3>1, <3>2 DEF Cared, InHand
    <3> QED BY <3>1, <3>2
  <2>2. CASE \E w \in Workers : /\ worker[w].owner /\ worker[w].job.contract = c
                                /\ worker[w].job.signature = s
    <3>1. PICK w \in Workers : /\ worker[w].owner /\ worker[w].job.contract = c
                               /\ worker[w].job.signature = s
      BY <2>2
    <3>2. PICK j \in Jobs : j = worker[w].job
      BY <3>1 DEF IInv, TypeInv, Holds
    <3>3. CASE worker'[w].owner /\ worker'[w].job = j
      BY <3>1, <3>2, <3>3 DEF Cared, InHand
    <3> QED BY <3>1, <3>2, <3>3
  <2>3. CASE \E r \in Requests : /\ request[r].pc = (IF s = Null THEN "sent" ELSE "signed")
                                 /\ request[r].contract = c /\ request[r].signature = s
    <3>1. PICK r \in Requests : /\ request[r].pc = (IF s = Null THEN "sent" ELSE "signed")
                               /\ request[r].contract = c /\ request[r].signature = s
      BY <2>3
    <3>2. request'[r] = request[r] \/ Cared(c, s)'
      <4>1. CASE s = Null
        BY <3>1, <4>1 DEF At
      <4>2. CASE s # Null
        BY <3>1, <4>2 DEF At
      <4> QED BY <4>1, <4>2
    <3>3. CASE request'[r] = request[r]
      BY <3>1, <3>3 DEF Cared, InHand
    <3> QED BY <3>2, <3>3
  <2> QED BY <1>1, <2>1, <2>2, <2>3, Zenon DEF InHand
<1>2. ASSUME NEW c \in Contracts, c \notin forsaken', Sent(c)'
      PROVE  Cared(c, Null)'
  <2>1. CASE Sent(c)
    <3>1. (contract[c].pdf # Null /\ c \in mails) \/ InHand(c, Null) \/ ~contract[c].filled
      BY <1>2, <2>1 DEF IInv, CopyIsNotForgotten, Sent
    <3>2. CASE contract[c].pdf # Null /\ c \in mails
      BY <3>2 DEF Cared, Stepped, Kept
    <3>3. CASE ~contract[c].filled
      BY <2>1, <3>3 DEF Cared, Stepped, Kept
    <3> QED BY <1>1, <3>1, <3>2, <3>3
  <2> QED BY <1>2, <2>1
<1>3. ASSUME NEW c \in Contracts, NEW s \in Signatures, s \notin forsaken', signature'[s].contract = c
      PROVE  Cared(c, s)'
  <2>1. CASE signature[s].contract = c
    <3>1. signature[s].copy # Null \/ InHand(c, s) \/ ~contract[c].filled
      BY <1>3, <2>1 DEF IInv, CopyIsNotForgotten, NoSignature
    <3>2. CASE signature[s].copy # Null
      BY <3>2 DEF Cared, Stepped, Kept
    <3>3. CASE ~contract[c].filled
      <4>1. Sent(c)
        BY <1>3, <2>1 DEF IInv, RowsInv, SignatureRow, Closed, Sent
      <4> QED BY <3>3, <4>1 DEF Cared, Stepped, Kept
    <3> QED BY <1>1, <3>1, <3>2, <3>3
  <2> QED BY <1>3, <2>1
<1>4. ASSUME NEW c \in Contracts \ forsaken', contract'[c].status \notin {"none", "draft"}, contract'[c].filled
      PROVE  (contract'[c].pdf # Null /\ c \in mails') \/ InHand(c, Null)'
  <2>1. Sent(c)'
    BY <1>4 DEF Stepped, TypeInv, TypeOK, Contract, Statuses, Sent
  <2> QED BY <1>2, <1>4, <2>1 DEF Cared
<1>5. ASSUME NEW s \in Signatures \ forsaken', signature'[s] # NoSignature,
             contract'[signature'[s].contract].filled
      PROVE  signature'[s].copy # Null \/ InHand(signature[s].contract, s)'
  <2>1. PICK row \in Signature : row = signature'[s]
    BY DEF Stepped, TypeInv, TypeOK
  <2>2. row.contract # Null
    <3>1. row.contract = Null => row.copy = Null /\ row.signedAt = Null
      BY <2>1 DEF Stepped, RowsInv, SignatureRow
    <3> QED BY <1>5, <2>1, <3>1 DEF Signature, NoSignature
  <2>3. PICK c \in Contracts : c = signature'[s].contract
    BY <2>1, <2>2 DEF Signature
  <2>4. InHand(c, s)' => InHand(signature[s].contract, s)'
    BY <2>3 DEF InHand
  <2> QED BY <1>3, <1>5, <2>3, <2>4 DEF Cared
<1> QED BY <1>4, <1>5 DEF CopyIsNotForgotten

\* A step that sends nothing, signs nothing and moves no job.
LEMMA CareRest ==
  ASSUME IInv, Stepped, UNCHANGED <<queue, worker, signature, mails, forsaken>>,
         \A c \in Contracts : Sent(c)' => Sent(c),
         \A r \in Requests : request'[r] = request[r] \/ request[r].pc \notin {"sent", "signed"}
  PROVE  CopyIsNotForgotten'
BY CareFrame DEF At

LEMMA SendContractCare ==
  ASSUME IInv, Stepped, NEW r \in Requests, SendContract(r)
  PROVE  CopyIsNotForgotten'
<1>0. PICK c \in Contracts : c = request[r].contract /\ request[r].pc = "sending" /\ request[r].signature = Null
  BY DEF SendContract, At, IInv, TypeInv, Reads
<1>1. UNCHANGED <<queue, worker, signature, mails, forsaken>>
  BY DEF SendContract, history
<1>2. CASE Return(r) /\ UNCHANGED contract
  <2>1. \A q \in Requests : q # r => request'[q] = request[q]
    BY <1>2, RequestMoves DEF IInv, TypeInv
  <2> QED BY <1>0, <1>1, <1>2, <2>1, CareRest DEF Sent
<1>3. CASE /\ contract' = [contract EXCEPT ![c].status = "sent", ![c].issuedAt = details]
           /\ request' = [request EXCEPT ![r].pc = "sent"]
  <2>1. /\ \A q \in Requests : q # r => request'[q] = request[q]
        /\ request'[r].pc = "sent" /\ request'[r].contract = c /\ request'[r].signature = Null
    BY <1>0, <1>3 DEF IInv, TypeInv, TypeOK, Request
  <2>2. Cared(c, Null)'
    BY <2>1, HandedOn
  <2>3. \A d \in Contracts : Sent(d)' => Sent(d) \/ Cared(d, Null)'
    BY <1>3, <2>2 DEF Sent, IInv, TypeInv, TypeOK
  <2>4. \A q \in Requests : request'[q] = request[q] \/ request[q].pc \notin {"sent", "signed"}
    BY <1>0, <2>1
  <2> QED BY <1>1, <2>3, <2>4, CareFrame DEF At
<1> QED BY <1>0, <1>2, <1>3 DEF SendContract

LEMMA RecordSignatureCare ==
  ASSUME IInv, Stepped, NEW r \in Requests, NEW s \in Signatures, RecordSignature(r, s)
  PROVE  CopyIsNotForgotten'
<1>0. PICK c \in Contracts : c = request[r].contract /\ request[r].pc = "signing"
  BY DEF RecordSignature, At, IInv, TypeInv, Reads
<1>1. UNCHANGED <<queue, worker, mails, forsaken>>
  BY DEF RecordSignature, history
<1>2. CASE Return(r) /\ UNCHANGED rows
  <2>1. \A q \in Requests : q # r => request'[q] = request[q]
    BY <1>2, RequestMoves DEF IInv, TypeInv
  <2> QED BY <1>0, <1>1, <1>2, <2>1, CareRest DEF Sent, rows
<1>3. CASE /\ contract[c].status = "sent"
           /\ contract' = [contract EXCEPT ![c].status = "signed"]
           /\ signature' = [signature EXCEPT ![s].contract = c, ![s].signedAt = details]
           /\ request' = [request EXCEPT ![r].pc = "signed", ![r].signature = s]
  <2>1. request' = [request EXCEPT ![r] = [request[r] EXCEPT !.pc = "signed", !.signature = s]]
    BY <1>3 DEF IInv, TypeInv, TypeOK
  <2>2. /\ \A q \in Requests : q # r => request'[q] = request[q]
        /\ request'[r].pc = "signed" /\ request'[r].contract = c /\ request'[r].signature = s
    BY <1>0, <2>1 DEF IInv, TypeInv, TypeOK, Request
  <2>3. Cared(c, s)'
    BY <2>2, HandedOn
  <2>4. \A d \in Contracts : Sent(d)' => Sent(d)
    BY <1>3 DEF Sent, IInv, TypeInv, TypeOK
  <2>5. \A d \in Contracts, t \in Signatures :
          signature'[t].contract = d => signature[t].contract = d \/ Cared(d, t)'
    <3>1. /\ \A t \in Signatures : t # s => signature'[t] = signature[t]
          /\ signature'[s].contract = c
      BY <1>3 DEF IInv, TypeInv, TypeOK, Signature
    <3> QED BY <2>3, <3>1
  <2>6. \A q \in Requests : request'[q] = request[q] \/ request[q].pc \notin {"sent", "signed"}
    BY <1>0, <2>2
  <2> QED BY <1>1, <2>4, <2>5, <2>6, CareFrame DEF At
<1> QED BY <1>0, <1>2, <1>3 DEF RecordSignature

\* The request that queues a job passes it on, or Redis refuses it.
LEMMA QueueCare ==
  ASSUME IInv, Stepped, NEW r \in Requests, NEW c \in Contracts, NEW s \in Signatures \cup {Null},
         request[r].pc = (IF s = Null THEN "sent" ELSE "signed"),
         request[r].contract = c, request[r].signature = s,
         Enqueue(Job(c, s)), Return(r), UNCHANGED <<rows, worker, mails>>
  PROVE  CopyIsNotForgotten'
<1>1. PICK j \in Jobs : j = Job(c, s) /\ j.contract = c /\ j.signature = s
  BY JobTypes DEF Job
<1>2. /\ queue \subseteq queue' /\ forsaken \subseteq forsaken'
      /\ j \in queue' \/ Doc(j) \in forsaken'
  BY <1>1, Enqueued DEF IInv
<1>3. Cared(c, s)'
  <2>1. CASE j \in queue'
    BY <1>1, <2>1, HandedOn
  <2>2. CASE Doc(j) \in forsaken'
    BY <1>1, <2>2 DEF Doc, Cared
  <2> QED BY <1>2, <2>1, <2>2
<1>4. \A q \in Requests : q # r => request'[q] = request[q]
  BY RequestMoves DEF IInv, TypeInv
<1>5. \A q \in Requests, d \in Contracts :
        At(q, "sent") /\ request[q].contract = d => request'[q] = request[q] \/ Cared(d, Null)'
  BY <1>3, <1>4 DEF At
<1>6. \A q \in Requests, d \in Contracts, t \in Signatures :
        At(q, "signed") /\ request[q].contract = d /\ request[q].signature = t
          => request'[q] = request[q] \/ Cared(d, t)'
  BY <1>3, <1>4 DEF At
<1> QED BY <1>2, <1>5, <1>6, CareFrame DEF Sent, rows

LEMMA QueueContractPdfCare ==
  ASSUME IInv, Stepped, NEW r \in Requests, QueueContractPdf(r)
  PROVE  CopyIsNotForgotten'
<1>1. PICK c \in Contracts : c = request[r].contract /\ request[r].signature = Null
                             /\ request[r].pc = "sent"
  BY DEF QueueContractPdf, At, IInv, TypeInv, Reads
<1>2. Enqueue(Job(c, Null)) /\ Return(r) /\ UNCHANGED <<rows, worker, mails>>
  BY <1>1 DEF QueueContractPdf
<1> QED BY <1>1, <1>2, QueueCare

LEMMA QueueSignedPdfCare ==
  ASSUME IInv, Stepped, NEW r \in Requests, QueueSignedPdf(r)
  PROVE  CopyIsNotForgotten'
<1>1. PICK c \in Contracts, s \in Signatures :
        c = request[r].contract /\ s = request[r].signature /\ request[r].pc = "signed"
  BY DEF QueueSignedPdf, At, IInv, TypeInv, Reads
<1>2. Enqueue(Job(c, s)) /\ Return(r) /\ UNCHANGED <<rows, worker, mails>>
  BY <1>1 DEF QueueSignedPdf
<1>3. s # Null
  OBVIOUS
<1> QED BY <1>1, <1>2, <1>3, QueueCare

LEMMA DieCare ==
  ASSUME IInv, Stepped, NEW r \in Requests, Die(r)
  PROVE  CopyIsNotForgotten'
<1>1. Return(r) /\ UNCHANGED <<contract, signature, queue, worker, mails>> /\ forsaken \subseteq forsaken'
  BY DEF Die, rows, At
<1>2. \A q \in Requests : q # r => request'[q] = request[q]
  BY <1>1, RequestMoves DEF IInv, TypeInv
<1>3. \A c \in Contracts : At(r, "sent") /\ request[r].contract = c => Cared(c, Null)'
  BY DEF Die, At, Cared
<1>4. \A c \in Contracts, s \in Signatures :
        At(r, "signed") /\ request[r].contract = c /\ request[r].signature = s => Cared(c, s)'
  BY DEF Die, At, Cared
<1>5. \A q \in Requests, d \in Contracts :
        At(q, "sent") /\ request[q].contract = d => request'[q] = request[q] \/ Cared(d, Null)'
  BY <1>2, <1>3
<1>6. \A q \in Requests, d \in Contracts, t \in Signatures :
        At(q, "signed") /\ request[q].contract = d /\ request[q].signature = t
          => request'[q] = request[q] \/ Cared(d, t)'
  BY <1>2, <1>4
<1> QED BY <1>1, <1>5, <1>6, CareFrame DEF Sent

\* A worker that owned a job still does, or has passed it on, or is done.
LEMMA WorkerCare ==
  ASSUME IInv, Stepped, NEW w \in Workers,
         \A v \in Workers : v # w => worker'[v] = worker[v],
         UNCHANGED request, mails \subseteq mails', forsaken \subseteq forsaken',
         \A c \in Contracts : Sent(c)' => Sent(c),
         \A s \in Signatures : signature'[s].contract = signature[s].contract,
         \A j \in queue : j \in queue' \/ Cared(j.contract, j.signature)',
         \A j \in Jobs :
           worker[w].owner /\ worker[w].job = j =>
             (worker'[w].owner /\ worker'[w].job = j) \/ Cared(j.contract, j.signature)'
  PROVE  CopyIsNotForgotten'
<1>1. \A v \in Workers, j \in Jobs :
        worker[v].owner /\ worker[v].job = j =>
          (worker'[v].owner /\ worker'[v].job = j) \/ Cared(j.contract, j.signature)'
  OBVIOUS
<1> QED BY <1>1, CareFrame

LEMMA TakeJobCare ==
  ASSUME IInv, Stepped, NEW w \in Workers, NEW j \in queue, TakeJob(w, j)
  PROVE  CopyIsNotForgotten'
<1>1. ~worker[w].owner
  BY DEF TakeJob, WorkerAt, IInv, TypeInv, Holds, TypeOK, WorkerState
<1>2. /\ \A v \in Workers : v # w => worker'[v] = worker[v]
      /\ worker'[w].owner /\ worker'[w].job = j
  BY DEF TakeJob, Resting, IInv, TypeInv, TypeOK
<1>3. /\ queue' = queue \ {j}
      /\ UNCHANGED <<contract, signature, request, mails, forsaken>>
  BY DEF TakeJob, rows, history
<1>4. Cared(j.contract, j.signature)'
  BY <1>2, HandedOn
<1> QED BY <1>1, <1>2, <1>3, <1>4, WorkerCare DEF Sent

LEMMA ReadPointerCare ==
  ASSUME IInv, Stepped, NEW w \in Workers, ReadPointer(w)
  PROVE  CopyIsNotForgotten'
<1>0. PICK j \in Jobs : j = worker[w].job
  BY DEF ReadPointer, WorkerAt, IInv, TypeInv, Holds
<1>1. /\ \A v \in Workers : v # w => worker'[v] = worker[v]
      /\ UNCHANGED <<contract, signature, request, queue, mails, forsaken>>
  BY DEF ReadPointer, IInv, TypeInv, TypeOK, rows, history
<1>2. worker[w].owner => (worker'[w].owner /\ worker'[w].job = j) \/ Cared(j.contract, j.signature)'
  <2>1. worker[w] \in WorkerState
    BY DEF IInv, TypeInv, TypeOK
  <2>2. CASE \E pc : worker' = [worker EXCEPT ![w].pc = pc]
    BY <1>0, <2>1, <2>2 DEF IInv, TypeInv, TypeOK, WorkerState
  <2>3. CASE Pointer(j) # Null /\ j.signature # Null
    BY <1>1, <2>3 DEF Pointer, Cared
  <2> QED BY <1>0, <2>2, <2>3 DEF ReadPointer
<1> QED BY <1>0, <1>1, <1>2, WorkerCare DEF Sent

LEMMA BuildDocumentCare ==
  ASSUME IInv, Stepped, NEW w \in Workers, BuildDocument(w)
  PROVE  CopyIsNotForgotten'
<1>0. PICK j \in Jobs : j = worker[w].job
  BY DEF BuildDocument, WorkerAt, IInv, TypeInv, Holds
<1>1. /\ \A v \in Workers : v # w => worker'[v] = worker[v]
      /\ UNCHANGED <<contract, signature, request, queue, mails>> /\ forsaken \subseteq forsaken'
  BY DEF BuildDocument, IInv, TypeInv, TypeOK, rows
<1>2. worker[w].owner => (worker'[w].owner /\ worker'[w].job = j) \/ Cared(j.contract, j.signature)'
  <2>1. worker[w] \in WorkerState
    BY DEF IInv, TypeInv, TypeOK
  <2>2. CASE \E n, st : worker' = [worker EXCEPT ![w] = [worker[w] EXCEPT !.pc = "merging", !.text = n,
                                                                           !.status = st]]
    <3>1. PICK n, st : worker' = [worker EXCEPT ![w] = [worker[w] EXCEPT !.pc = "merging", !.text = n,
                                                                        !.status = st]]
      BY <2>2
    <3> DEFINE next == [worker[w] EXCEPT !.pc = "merging", !.text = n, !.status = st]
    <3>2. next.owner = worker[w].owner /\ next.job = worker[w].job
      BY <2>1 DEF WorkerState
    <3>3. worker' = [worker EXCEPT ![w] = next]
      BY <3>1
    <3> HIDE DEF next
    <3>4. worker'[w] = next
      BY <3>3 DEF IInv, TypeInv, TypeOK
    <3> QED BY <1>0, <3>2, <3>4
  <2>3. CASE Doc(j) \in forsaken'
    BY <2>3 DEF Doc, Cared
  <2>4. CASE ~contract[j.contract].filled
    BY <1>1, <2>4 DEF Cared
  <2> QED BY <1>0, <2>2, <2>3, <2>4 DEF BuildDocument
<1> QED BY <1>0, <1>1, <1>2, WorkerCare DEF Sent

LEMMA MergeDetailsCare ==
  ASSUME IInv, Stepped, NEW w \in Workers, MergeDetails(w)
  PROVE  CopyIsNotForgotten'
<1>1. /\ \A v \in Workers : v # w => worker'[v] = worker[v]
      /\ worker'[w].owner = worker[w].owner /\ worker'[w].job = worker[w].job
  <2>1. worker' = [worker EXCEPT ![w] = [worker[w] EXCEPT !.pc = "rendering", !.details = details]]
        /\ worker[w] \in WorkerState
    BY DEF MergeDetails, IInv, TypeInv, TypeOK
  <2> QED BY <2>1 DEF IInv, TypeInv, TypeOK, WorkerState
<1>2. UNCHANGED <<contract, signature, request, queue, mails, forsaken>>
  BY DEF MergeDetails, rows, history
<1> QED BY <1>1, <1>2, WorkerCare DEF Sent

LEMMA LinkPdfCare ==
  ASSUME IInv, Stepped, NEW w \in Workers, LinkPdf(w)
  PROVE  CopyIsNotForgotten'
<1>0. PICK j \in Jobs : j = worker[w].job
  BY DEF LinkPdf, WorkerAt, IInv, TypeInv, Holds
<1>1. /\ \A v \in Workers : v # w => worker'[v] = worker[v]
      /\ UNCHANGED <<request, queue, mails, forsaken>>
  BY DEF LinkPdf, IInv, TypeInv, TypeOK, history
<1>2. worker[w].owner => (worker'[w].owner /\ worker'[w].job = j) \/ Cared(j.contract, j.signature)'
  <2>1. CASE worker' = [worker EXCEPT ![w] = [Resting EXCEPT !.pc = "chaining", !.job = j,
                                                             !.owner = worker[w].owner]]
    BY <2>1 DEF Resting, IInv, TypeInv, TypeOK
  <2>2. CASE j.signature # Null
    <3>1. PICK s \in Signatures : s = j.signature
      BY <2>2 DEF Jobs
    <3>2. PICK copy \in Copy : signature' = [signature EXCEPT ![s].copy = Linked(@, copy)]
      <4>1. PICK n \in Nat, st \in Statuses, k \in Nat :
              n = worker[w].text /\ st = worker[w].status /\ k = worker[w].details
        <5>1. /\ worker[w].job.contract \in Contracts
              /\ Says(worker[w].job, worker[w].text, worker[w].status)
              /\ Since(worker[w].details, Asked(worker[w].job))
          BY <1>0 DEF LinkPdf, WorkerAt, IInv, TypeInv, Holds, Jobs
        <5>2. worker[w].text \in Nat /\ worker[w].details \in Nat
          BY <5>1 DEF Says, Since, IInv, TypeInv, TypeOK, Contract
        <5>3. worker[w].status \in Statuses
          BY <5>1 DEF Says, Called, Statuses
        <5> QED BY <5>2, <5>3
      <4>2. [by |-> w, text |-> n, status |-> st, details |-> k] \in Copy
        BY DEF Copy
      <4> QED BY <1>0, <2>2, <3>1, <4>1, <4>2 DEF LinkPdf
    <3>3. signature'[s].copy # Null
      BY <3>2 DEF Linked, IInv, TypeInv, TypeOK, Signature
    <3> QED BY <2>2, <3>1, <3>3 DEF Cared
  <2> QED BY <1>0, <2>1, <2>2 DEF LinkPdf
<1>3. (\A c \in Contracts : Sent(c)' => Sent(c)) /\ \A s \in Signatures : signature'[s].contract = signature[s].contract
  BY PointerOnly DEF Sent, IInv, TypeInv
<1> QED BY <1>0, <1>1, <1>2, <1>3, WorkerCare

\* The mail of a contract is queued by the worker that has found its PDF, or has linked it.
LEMMA ChainMailCare ==
  ASSUME IInv, Stepped, NEW w \in Workers, ChainMail(w)
  PROVE  CopyIsNotForgotten'
<1>0. PICK j \in Jobs : /\ j = worker[w].job /\ j.contract \in Contracts
                        /\ j.signature = Null /\ contract[j.contract].pdf # Null
  BY DEF ChainMail, WorkerAt, IInv, TypeInv, Holds, Jobs
<1>1. /\ \A v \in Workers : v # w => worker'[v] = worker[v]
      /\ UNCHANGED <<contract, signature, request, queue>>
      /\ mails \subseteq mails' /\ forsaken \subseteq forsaken'
  BY DEF ChainMail, IInv, TypeInv, TypeOK, rows
<1>2. Cared(j.contract, j.signature)'
  <2>1. j.contract \in mails' \/ j.contract \in forsaken'
    BY <1>0 DEF ChainMail
  <2> QED BY <1>0, <1>1, <2>1 DEF Cared
<1> QED BY <1>0, <1>1, <1>2, WorkerCare DEF Sent

LEMMA LoseCare ==
  ASSUME IInv, Stepped, NEW w \in Workers, NEW next \in SUBSET Jobs, Lose(w, next),
         \A k \in next : k.contract = worker[w].job.contract /\ k.signature = worker[w].job.signature
  PROVE  CopyIsNotForgotten'
<1>0. PICK j \in Jobs : j = worker[w].job
  BY DEF Lose, WorkerAt, IInv, TypeInv, Holds
<1>1. /\ \A v \in Workers : v # w => worker'[v] = worker[v]
      /\ UNCHANGED <<contract, signature, request, mails>>
      /\ queue \subseteq queue' /\ forsaken \subseteq forsaken'
  BY DEF Lose, IInv, TypeInv, TypeOK, rows
<1>2. worker[w].owner => Cared(j.contract, j.signature)'
  <2>1. CASE worker[w].owner /\ next = {}
    <3>1. Doc(j) \in forsaken'
      BY <1>0, <2>1 DEF Lose
    <3> QED BY <3>1 DEF Doc, Cared
  <2>2. CASE worker[w].owner /\ next # {}
    <3>1. PICK k \in next : k \in queue' /\ k.contract = j.contract /\ k.signature = j.signature
      BY <1>0, <2>2 DEF Lose
    <3> QED BY <3>1, HandedOn
  <2> QED BY <2>1, <2>2
<1> QED BY <1>0, <1>1, <1>2, WorkerCare DEF Sent

LEMMA StallCare ==
  ASSUME IInv, Stepped, NEW w \in Workers, Stall(w)
  PROVE  CopyIsNotForgotten'
<1>0. PICK j \in Jobs : j = worker[w].job
  BY DEF Stall, IInv, TypeInv, Holds
<1>1. /\ \A v \in Workers : v # w => worker'[v] = worker[v]
      /\ UNCHANGED <<contract, signature, request, mails, forsaken>>
      /\ queue \subseteq queue'
  BY DEF Stall, IInv, TypeInv, TypeOK, rows, history
<1> DEFINE k == [j EXCEPT !.stalled = TRUE]
<1>2. k.contract = j.contract /\ k.signature = j.signature
  BY DEF Jobs
<1>3. k \in queue'
  BY <1>0 DEF Stall
<1> HIDE DEF k
<1>4. Cared(j.contract, j.signature)'
  BY <1>2, <1>3, HandedOn
<1> QED BY <1>0, <1>1, <1>4, WorkerCare DEF Sent

LEMMA StepCare ==
  ASSUME IInv, [Next]_vars
  PROVE  CopyIsNotForgotten'
<1>0. Stepped /\ TypeInv /\ RowsInv
  BY StepType DEF IInv, Stepped
<1>1. ASSUME NEW c \in Contracts, NEW full \in BOOLEAN, NEW u \in Ends,
             CreateContract(c, full, u) \/ UpdateContract(c, full, u)
      PROVE  CopyIsNotForgotten'
  <2>1. UNCHANGED <<queue, worker, signature, mails, forsaken, request>>
    BY <1>1 DEF CreateContract, UpdateContract, history
  <2>2. /\ contract'[c].status = "draft"
        /\ \A d \in Contracts : d # c => contract'[d] = contract[d]
    <3>1. CASE CreateContract(c, full, u)
      BY <3>1 DEF CreateContract, NoContract, IInv, TypeInv, TypeOK
    <3>2. CASE UpdateContract(c, full, u)
      BY <3>2 DEF UpdateContract, IInv, TypeInv, TypeOK, Contract
    <3> QED BY <1>1, <3>1, <3>2
  <2>3. \A d \in Contracts : Sent(d)' => Sent(d)
    BY <2>2 DEF Sent
  <2> QED BY <1>0, <2>1, <2>3, CareRest
<1>2. ASSUME NEW c \in Contracts, TerminateContract(c) \/ EditContract(c)
      PROVE  CopyIsNotForgotten'
  <2>1. UNCHANGED <<queue, worker, signature, mails, forsaken, request>>
    BY <1>2 DEF TerminateContract, EditContract, history
  <2>2. \A d \in Contracts : Sent(d)' => Sent(d)
    <3>1. CASE TerminateContract(c)
      BY <3>1 DEF TerminateContract, Sent, IInv, TypeInv, TypeOK
    <3>2. CASE EditContract(c)
      BY <1>0, <3>2, EditContractType DEF Sent
    <3> QED BY <1>2, <3>1, <3>2
  <2> QED BY <1>0, <2>1, <2>2, CareRest
<1>3. ASSUME NEW r \in Requests, NEW c \in Contracts, ReadDraft(r, c) \/ ReadSigningTarget(r, c)
      PROVE  CopyIsNotForgotten'
  <2>1. UNCHANGED <<queue, worker, contract, signature, mails, forsaken>>
    BY <1>3 DEF ReadDraft, ReadSigningTarget, rows, history
  <2>2. \A q \in Requests : request'[q] = request[q] \/ request[q].pc \notin {"sent", "signed"}
    BY <1>3 DEF ReadDraft, ReadSigningTarget, At, IInv, TypeInv, TypeOK
  <2> QED BY <1>0, <2>1, <2>2, CareRest DEF Sent
<1>4. ASSUME NEW r \in Requests,
             \/ SendContract(r) \/ \E s \in Signatures : RecordSignature(r, s)
             \/ QueueContractPdf(r) \/ QueueSignedPdf(r) \/ Die(r)
      PROVE  CopyIsNotForgotten'
  BY <1>0, <1>4, SendContractCare, RecordSignatureCare, QueueContractPdfCare, QueueSignedPdfCare, DieCare
<1>5. ASSUME NEW w \in Workers,
             \/ \E j \in queue : TakeJob(w, j)
             \/ ReadPointer(w) \/ BuildDocument(w) \/ MergeDetails(w) \/ LinkPdf(w) \/ ChainMail(w) \/ Stall(w)
      PROVE  CopyIsNotForgotten'
  BY <1>0, <1>5, TakeJobCare, ReadPointerCare, BuildDocumentCare, MergeDetailsCare, LinkPdfCare,
     ChainMailCare, StallCare
<1>6. ASSUME NEW w \in Workers, FailAttempt(w) \/ Crash(w)
      PROVE  CopyIsNotForgotten'
  BY <1>0, <1>6, AnotherRun, LoseCare
<1>7. CASE ReviseDetails \/ NextDay \/ UNCHANGED vars
  <2>1. UNCHANGED <<queue, worker, contract, signature, mails, forsaken, request>>
    BY <1>7 DEF ReviseDetails, NextDay, vars, rows, history
  <2> QED BY <1>0, <2>1, CareRest DEF Sent
<1> QED BY <1>1, <1>2, <1>3, <1>4, <1>5, <1>6, <1>7, Steps

-----------------------------------------------------------------------------
\* The theorems.

\* Every part of the invariant holds of every state.
THEOREM Inductive == Spec => []IInv
<1>1. IInv /\ [Next]_vars => IInv'
  BY StepType, StepFilled, StepCare DEF IInv
<1> QED BY InitInv, <1>1, PTL DEF Spec

\* The rows, the requests, the queue and the workers keep their types.
THEOREM TypeCorrect == Spec => []TypeOK
<1>1. IInv => TypeOK
  BY DEF IInv, TypeInv
<1> QED BY <1>1, Inductive, PTL

\* What was sent has something in it, and every stored PDF states the text that was issued, a status
\* the contract has had since it was issued or signed, and details of some time since then
\* (buildContractPdfDocument reads the row when the job runs, and renderContractDocument the details
\* that it merges in, however late).
THEOREM CopyIsTrue == Spec => []CopyStatesTheContract
<1>1. IInv => CopyStatesTheContract
  <2> SUFFICES ASSUME IInv PROVE CopyStatesTheContract
    OBVIOUS
  <2>1. \A c \in Contracts \ overwritten : contract[c].status \notin {"none", "draft"} => contract[c].filled
    BY DEF IInv, TypeInv, TypeOK, Contract, Statuses, FilledInv, Sent
  <2>2. ASSUME NEW n, NEW moment, Since(n, moment), details \in Nat
        PROVE  n \in moment..details
    BY <2>2 DEF Since
  <2>3. details \in Nat
    BY DEF IInv, TypeInv, TypeOK
  <2>4. ASSUME NEW c \in Contracts, contract[c].pdf # Null
        PROVE  /\ Called(contract[c].pdf.status, c)
               /\ MadeSince(contract[c].pdf, c, contract[c].issuedAt)
    BY <2>2, <2>3, <2>4 DEF IInv, RowsInv, ContractRow, MadeSince
  <2>5. ASSUME NEW s \in Signatures, signature[s].copy # Null
        PROVE  /\ Called(signature[s].copy.status, signature[s].contract) /\ signature[s].copy.status # "sent"
               /\ MadeSince(signature[s].copy, signature[s].contract, signature[s].signedAt)
    BY <2>2, <2>3, <2>5 DEF IInv, RowsInv, SignatureRow, MadeSince
  <2> QED BY <2>1, <2>4, <2>5 DEF CopyStatesTheContract, Called
<1> QED BY <1>1, Inductive, PTL

\* A contract that was sent has its PDF and its mail, and a signature its executed copy, or a job or
\* a request is on its way there, unless a fault or the trash got in between, or it was issued blank
\* (enqueueJob after the commit, the attempts of a job, BullMQ's stalled jobs; a blank contract has no
\* document).
THEOREM NoCopyForgotten == Spec => []CopyIsNotForgotten
<1>1. IInv => CopyIsNotForgotten
  BY DEF IInv
<1> QED BY <1>1, Inductive, PTL

\* A copy that was stored is never replaced (the conditional UPDATE of linkContractPdf).
THEOREM CopyKept == Spec => CopyIsKept
<1>1. IInv /\ [Next]_vars =>
        [ /\ \A c \in Contracts : contract[c].pdf # Null => contract'[c].pdf = contract[c].pdf
          /\ \A s \in Signatures : signature[s].copy # Null => signature'[s].copy = signature[s].copy ]_vars
  BY StepType DEF IInv, Kept
<1> QED BY <1>1, Inductive, PTL DEF Spec, CopyIsKept

-----------------------------------------------------------------------------
\* What the client is promised.

\* The contract as the abstract specification sees it.
Stage(c)   == CASE contract[c].status = "sent" -> "issued"
                [] contract[c].status \in {"signed", "terminated"} -> "closed"
                [] OTHER -> contract[c].status
Face(c)    == <<contract[c].text, contract[c].filled, contract[c].until, contract[c].issuedAt>>
Outcome(c) == IF contract[c].status \in {"signed", "terminated"} THEN contract[c].status ELSE Null

LEMMA Views ==
  /\ Issued!vars = << [c \in Contracts |-> Stage(c)], [c \in Contracts |-> Face(c)],
                      [c \in Contracts |-> Outcome(c)], [c \in Contracts |-> SignedBy(c)] >>
  /\ Issued!vars' = << [c \in Contracts |-> Stage(c)'], [c \in Contracts |-> Face(c)'],
                       [c \in Contracts |-> Outcome(c)'], [c \in Contracts |-> SignedBy(c)'] >>
BY DEF Issued!vars, Stage, Face, Outcome

\* A step that changes nothing of this.
LEMMA Stutters ==
  ASSUME \A c \in Contracts : /\ contract'[c].status = contract[c].status
                              /\ contract'[c].text = contract[c].text
                              /\ contract'[c].filled = contract[c].filled
                              /\ contract'[c].until = contract[c].until
                              /\ contract'[c].issuedAt = contract[c].issuedAt,
         \A s \in Signatures : signature'[s].contract = signature[s].contract
  PROVE  UNCHANGED Issued!vars
<1>1. ASSUME NEW c \in Contracts
      PROVE  Stage(c)' = Stage(c) /\ Face(c)' = Face(c) /\ Outcome(c)' = Outcome(c)
  BY DEF Stage, Face, Outcome
<1>2. ASSUME NEW c \in Contracts
      PROVE  SignedBy(c)' = SignedBy(c)
  BY DEF SignedBy
<1> QED BY <1>1, <1>2, Views

\* A draft is written, or issued.
LEMMA DraftImplements ==
  ASSUME NEW c \in Contracts, contract[c].status \in {"none", "draft"},
         \A d \in Contracts : d # c => contract'[d] = contract[d],
         UNCHANGED signature
  PROVE  /\ contract'[c].status = "draft" => Issued!Write(c)
         /\ contract[c].status = "draft" /\ contract'[c].status = "sent" => Issued!Issue(c)
<1>1. ASSUME NEW st \in {"draft", "issued"}, Stage(c)' = st, Outcome(c)' = Null
      PROVE  /\ [d \in Contracts |-> Stage(d)'] = [[d \in Contracts |-> Stage(d)] EXCEPT ![c] = st]
             /\ [d \in Contracts |-> Face(d)'] =
                  [[d \in Contracts |-> Face(d)] EXCEPT ![c] = [d \in Contracts |-> Face(d)'][c]]
             /\ [d \in Contracts |-> Outcome(d)'] = [d \in Contracts |-> Outcome(d)]
             /\ [d \in Contracts |-> SignedBy(d)'] = [d \in Contracts |-> SignedBy(d)]
  <2>1. \A d \in Contracts : d # c => Stage(d)' = Stage(d) /\ Face(d)' = Face(d)
    BY DEF Stage, Face
  <2>2. \A d \in Contracts : Outcome(d)' = Outcome(d)
    BY <1>1 DEF Outcome
  <2>3. \A d \in Contracts : SignedBy(d)' = SignedBy(d)
    BY DEF SignedBy
  <2> QED BY <1>1, <2>1, <2>2, <2>3
<1>2. [d \in Contracts |-> Stage(d)][c] = contract[c].status
  BY DEF Stage
<1>3. ASSUME contract'[c].status = "draft"
      PROVE  Issued!Write(c)
  <2>1. Stage(c)' = "draft" /\ Outcome(c)' = Null
    BY <1>3 DEF Stage, Outcome
  <2> QED BY <1>1, <1>2, <2>1 DEF Issued!Write, Issued!Rewritten, Stage, Face, Outcome
<1>4. ASSUME contract[c].status = "draft", contract'[c].status = "sent"
      PROVE  Issued!Issue(c)
  <2>1. Stage(c)' = "issued" /\ Outcome(c)' = Null
    BY <1>4 DEF Stage, Outcome
  <2> QED BY <1>1, <1>2, <1>4, <2>1 DEF Issued!Issue, Issued!Rewritten, Stage, Face, Outcome
<1> QED BY <1>3, <1>4

\* A contract is ended, signed or not.
LEMMA TerminateImplements ==
  ASSUME TypeInv, NEW c \in Contracts, TerminateContract(c)
  PROVE  Issued!Terminate(c)
<1>1. /\ contract[c].status \in {"sent", "signed"} /\ contract'[c].status = "terminated"
      /\ contract'[c].text = contract[c].text /\ contract'[c].filled = contract[c].filled
      /\ contract'[c].until = contract[c].until /\ contract'[c].issuedAt = contract[c].issuedAt
      /\ \A d \in Contracts : d # c => contract'[d] = contract[d]
      /\ UNCHANGED signature
  BY DEF TerminateContract, TypeInv, TypeOK, Contract
<1>2. /\ \A d \in Contracts : d # c => Stage(d)' = Stage(d) /\ Outcome(d)' = Outcome(d)
      /\ \A d \in Contracts : Face(d)' = Face(d)
      /\ \A d \in Contracts : SignedBy(d)' = SignedBy(d)
  BY <1>1 DEF Stage, Outcome, Face, SignedBy
<1>3. /\ Stage(c) \in {"issued", "closed"} /\ Stage(c)' = "closed"
      /\ Outcome(c) # "terminated" /\ Outcome(c)' = "terminated"
  <2>1. Null # "terminated"
    BY DEF Statuses
  <2> QED BY <1>1, <2>1 DEF Stage, Outcome
<1>4. [d \in Contracts |-> Stage(d)'] = [[d \in Contracts |-> Stage(d)] EXCEPT ![c] = "closed"]
  BY <1>2, <1>3
<1>5. [d \in Contracts |-> Outcome(d)'] = [[d \in Contracts |-> Outcome(d)] EXCEPT ![c] = "terminated"]
  BY <1>2, <1>3
<1>6. /\ [d \in Contracts |-> Face(d)'] = [d \in Contracts |-> Face(d)]
      /\ [d \in Contracts |-> SignedBy(d)'] = [d \in Contracts |-> SignedBy(d)]
  BY <1>2
<1>7. [d \in Contracts |-> Stage(d)][c] \in {"issued", "closed"}
      /\ [d \in Contracts |-> Outcome(d)][c] # "terminated"
  BY <1>3
<1> QED BY <1>4, <1>5, <1>6, <1>7 DEF Issued!Terminate, Stage, Face, Outcome

\* A contract that can still be signed has no signature.
LEMMA SignatureImplements ==
  ASSUME TypeInv, RowsInv, NEW r \in Requests, NEW s \in Signatures, RecordSignature(r, s)
  PROVE  UNCHANGED Issued!vars \/ \E c \in Contracts : Issued!Answer(c, "signed", s)
<1>0. PICK c \in Contracts : c = request[r].contract
  BY DEF RecordSignature, At, TypeInv, Reads
<1>1. CASE UNCHANGED rows
  BY <1>1, Stutters DEF rows
<1>2. CASE /\ contract[c].status = "sent" /\ signature[s] = NoSignature
           /\ contract' = [contract EXCEPT ![c].status = "signed"]
           /\ signature' = [signature EXCEPT ![s].contract = c, ![s].signedAt = details]
  <2>1. /\ contract'[c].status = "signed"
        /\ contract'[c].text = contract[c].text /\ contract'[c].filled = contract[c].filled
        /\ contract'[c].until = contract[c].until /\ contract'[c].issuedAt = contract[c].issuedAt
        /\ \A d \in Contracts : d # c => contract'[d] = contract[d]
    BY <1>2 DEF TypeInv, TypeOK, Contract
  <2>2. /\ signature[s].contract = Null /\ signature'[s].contract = c
        /\ \A t \in Signatures : t # s => signature'[t] = signature[t]
    BY <1>2 DEF NoSignature, TypeInv, TypeOK, Signature
  <2>3. \A t \in Signatures : signature[t].contract # c
    BY <1>2 DEF RowsInv, SignatureRow, Closed
  <2>4. SignedBy(c)' = {s}
    BY <2>2, <2>3 DEF SignedBy
  <2>5. \A d \in Contracts : d # c => /\ Stage(d)' = Stage(d) /\ Outcome(d)' = Outcome(d)
                                      /\ SignedBy(d)' = SignedBy(d)
    BY <2>1, <2>2 DEF Stage, Outcome, SignedBy
  <2>6. Stage(c) = "issued" /\ Stage(c)' = "closed" /\ Outcome(c)' = "signed"
    BY <1>2, <2>1 DEF Stage, Outcome
  <2>7. [d \in Contracts |-> Stage(d)'] = [[d \in Contracts |-> Stage(d)] EXCEPT ![c] = "closed"]
    BY <2>5, <2>6
  <2>8. [d \in Contracts |-> Outcome(d)'] = [[d \in Contracts |-> Outcome(d)] EXCEPT ![c] = "signed"]
    BY <2>5, <2>6
  <2>9. [d \in Contracts |-> SignedBy(d)'] = [[d \in Contracts |-> SignedBy(d)] EXCEPT ![c] = {s}]
    BY <2>4, <2>5
  <2>10. [d \in Contracts |-> Face(d)'] = [d \in Contracts |-> Face(d)]
    <3>1. \A d \in Contracts : Face(d)' = Face(d)
      BY <2>1 DEF Face
    <3> QED BY <3>1
  <2>11. [d \in Contracts |-> Stage(d)][c] = "issued"
    BY <2>6
  <2>12. Issued!Answer(c, "signed", s)
    BY <2>7, <2>8, <2>9, <2>10, <2>11 DEF Issued!Answer, Stage, Face, Outcome
  <2> QED BY <2>12
<1> QED BY <1>0, <1>1, <1>2 DEF RecordSignature

LEMMA ImplementsStep ==
  ASSUME IInv, [Next]_vars
  PROVE  [Issued!Next]_(Issued!vars)
<1>0. TypeInv /\ TypeOK /\ RowsInv
  BY DEF IInv, TypeInv
<1>1. ASSUME NEW c \in Contracts, NEW full \in BOOLEAN, NEW u \in Ends,
             CreateContract(c, full, u) \/ UpdateContract(c, full, u)
      PROVE  Issued!Next
  <2>1. /\ contract[c].status \in {"none", "draft"} /\ contract'[c].status = "draft"
        /\ \A d \in Contracts : d # c => contract'[d] = contract[d]
        /\ UNCHANGED signature
    <3>1. CASE CreateContract(c, full, u)
      BY <1>0, <3>1 DEF CreateContract, NoContract, TypeOK
    <3>2. CASE UpdateContract(c, full, u)
      BY <1>0, <3>2 DEF UpdateContract, TypeOK, Contract
    <3> QED BY <1>1, <3>1, <3>2
  <2>2. Issued!Write(c)
    BY <2>1, DraftImplements
  <2> QED BY <2>2 DEF Issued!Next
<1>2. ASSUME NEW c \in Contracts, TerminateContract(c)
      PROVE  Issued!Next
  BY <1>0, <1>2, TerminateImplements DEF Issued!Next
<1>3. ASSUME NEW c \in Contracts, EditContract(c)
      PROVE  UNCHANGED Issued!vars
  BY <1>0, <1>3, EditContractType, Stutters DEF EditContract
<1>4. ASSUME NEW r \in Requests, SendContract(r)
      PROVE  [Issued!Next]_(Issued!vars)
  <2>0. PICK c \in Contracts : c = request[r].contract
    BY <1>0, <1>4 DEF SendContract, At, TypeInv, Reads
  <2>1. CASE UNCHANGED <<contract, signature>>
    BY <2>1, Stutters
  <2>2. CASE /\ contract[c].status = "draft"
             /\ contract' = [contract EXCEPT ![c].status = "sent", ![c].issuedAt = details]
             /\ UNCHANGED signature
    <3>1. contract'[c].status = "sent" /\ \A d \in Contracts : d # c => contract'[d] = contract[d]
      BY <1>0, <2>2 DEF TypeOK, Contract
    <3>2. Issued!Issue(c)
      BY <2>2, <3>1, DraftImplements
    <3> QED BY <3>2 DEF Issued!Next
  <2> QED BY <1>4, <2>0, <2>1, <2>2 DEF SendContract
<1>5. ASSUME NEW r \in Requests, NEW s \in Signatures, RecordSignature(r, s)
      PROVE  [Issued!Next]_(Issued!vars)
  BY <1>0, <1>5, SignatureImplements DEF Issued!Next
<1>6. ASSUME NEW w \in Workers, LinkPdf(w)
      PROVE  UNCHANGED Issued!vars
  BY <1>0, <1>6, PointerOnly, Stutters
<1>7. CASE UNCHANGED <<contract, signature>>
  BY <1>7, Stutters
<1>8. ASSUME NEW r \in Requests, NEW c \in Contracts, ReadDraft(r, c) \/ ReadSigningTarget(r, c)
      PROVE  UNCHANGED <<contract, signature>>
  BY <1>8 DEF ReadDraft, ReadSigningTarget, rows
<1>9. ASSUME NEW r \in Requests, QueueContractPdf(r) \/ QueueSignedPdf(r) \/ Die(r)
      PROVE  UNCHANGED <<contract, signature>>
  BY <1>9 DEF QueueContractPdf, QueueSignedPdf, Die, rows
<1>10. ASSUME NEW w \in Workers,
              \/ \E j \in queue : TakeJob(w, j)
              \/ ReadPointer(w) \/ BuildDocument(w) \/ MergeDetails(w) \/ ChainMail(w)
              \/ FailAttempt(w) \/ Crash(w) \/ Stall(w)
       PROVE  UNCHANGED <<contract, signature>>
  BY <1>10 DEF TakeJob, ReadPointer, BuildDocument, MergeDetails, ChainMail, FailAttempt, Crash, Lose,
               Stall, rows
<1>11. ASSUME ReviseDetails \/ NextDay \/ UNCHANGED vars
       PROVE  UNCHANGED <<contract, signature>>
  BY <1>11 DEF ReviseDetails, NextDay, vars, rows
<1> QED BY <1>1, <1>2, <1>3, <1>4, <1>5, <1>6, <1>7, <1>8, <1>9, <1>10, <1>11, Steps

\* A contract implements the issued document: what was sent is never rewritten, and it is signed
\* once, on one signature, before it is ended if it is.
THEOREM Implementation == Spec => ImplementsIssuedDocument
<1>1. Init => Issued!Init
  <2> SUFFICES ASSUME Init PROVE Issued!Init
    OBVIOUS
  <2>1. \A c \in Contracts : Stage(c) = "none" /\ Outcome(c) = Null /\ SignedBy(c) = {}
    BY DEF Init, NoContract, NoSignature, Stage, Outcome, SignedBy
  <2>2. /\ [c \in Contracts |-> Stage(c)] = [c \in Contracts |-> "none"]
        /\ [c \in Contracts |-> Outcome(c)] = [c \in Contracts |-> Null]
        /\ [c \in Contracts |-> SignedBy(c)] = [c \in Contracts |-> {}]
    BY <2>1
  <2> QED BY <2>2 DEF Issued!Init, Stage, Outcome
<1>2. IInv /\ [Next]_vars => [Issued!Next]_(Issued!vars)
  BY ImplementsStep
<1> QED BY <1>1, <1>2, Inductive, PTL DEF Spec, ImplementsIssuedDocument, Issued!Spec
=============================================================================
