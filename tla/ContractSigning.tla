---------------------------- MODULE ContractSigning ----------------------------
(***************************************************************************)
(* A contract from its draft to the executed copy.  It is written, sent,   *)
(* and signed by the client behind its public link; the worker renders it  *)
(* twice, as it was sent and with the signature.                           *)
(*                                                                         *)
(* A step of a request or of the worker is one statement, one transaction  *)
(* or one rendering; the audit entries and events between them are left    *)
(* out.  What a worker has stored is told apart by the worker that stored  *)
(* it and by what it states: the text and the status of the row it read,   *)
(* and the details of others that it merged in.  A moment is told by how   *)
(* often those details had been revised by then.                           *)
(***************************************************************************)
EXTENDS Integers, FiniteSets

CONSTANTS
  Contracts, Signatures,   \* rows, used at most once each
  Requests, Workers, Null,
  Days,         \* the calendar
  Ends,         \* what effective_until may be given as: days, and Null
  MaxAttempts,  \* attempts of a job (queue.ts)
  MaxEdits,     \* bound: edits of a draft, of the link and of the trash, terminations and revisions
  MaxFaults     \* bound: requests and workers that die, renders that fail, lost enqueues

Statuses == {"none", "draft", "sent", "signed", "terminated"}

\* A stored PDF.
Copy == [by : Workers, text : Nat, status : Statuses, details : Nat]

ASSUME ContractAssumption ==
  /\ Days \subseteq Nat /\ 0 \in Days /\ Ends \subseteq Days \cup {Null}
  /\ MaxAttempts \in Nat \ {0} /\ {MaxEdits, MaxFaults} \subseteq Nat
  /\ Null \notin Nat \cup Contracts \cup Signatures \cup Workers \cup Copy \cup Statuses

VARIABLES
  today,
  details,     \* how often the client, the business or the page settings were revised
  contract,    \* the rows of contracts
  signature,   \* the rows of contract_signatures
  request,     \* where each request stands, and what it has read
  queue,       \* the render jobs that wait
  worker,      \* where each worker stands in its handler, and what it has read
  mails,       \* the contracts whose mail has been queued
  overwritten, \* history: contracts edited between a send's read and its write
  forsaken,    \* history: contracts and signatures that a fault or the trash left without a copy
  edits, faults

rows    == <<contract, signature>>
history == <<overwritten, forsaken>>
bounds  == <<edits, faults>>
vars    == <<today, details, rows, request, queue, worker, mails, history, bounds>>

\* text stands for the blocks, the title and the dates; filled: some block is not hidden; until:
\* effective_until.
Contract   == [status : Statuses, text : Nat, filled : BOOLEAN, until : Nat \cup {Null},
               issuedAt : Nat \cup {Null}, linked : BOOLEAN, trashed : BOOLEAN,
               pdf : Copy \cup {Null}]
NoContract == [status |-> "none", text |-> 0, filled |-> FALSE, until |-> Null, issuedAt |-> Null,
               linked |-> TRUE, trashed |-> FALSE, pdf |-> Null]

Signature   == [contract : Contracts \cup {Null}, signedAt : Nat \cup {Null},
                copy : Copy \cup {Null}]
NoSignature == [contract |-> Null, signedAt |-> Null, copy |-> Null]

Request == [pc : {"idle", "sending", "sent", "signing", "signed"},
            contract : Contracts \cup {Null}, signature : Signatures \cup {Null}]
Idle    == [pc |-> "idle", contract |-> Null, signature |-> Null]

\* A job with a signature renders the executed copy, one without the contract as sent.
Job(c, s) == [contract |-> c, signature |-> s, tries |-> 0, stalled |-> FALSE]
Jobs      == [contract : Contracts, signature : Signatures \cup {Null},
              tries : 0..(MaxAttempts - 1), stalled : BOOLEAN]

\* text, status, details: what the document to be rendered says.
WorkerState == [pc : {"idle", "taken", "building", "merging", "rendering", "chaining"},
                job : Jobs \cup {Null}, owner : BOOLEAN, text : Nat \cup {Null},
                status : Statuses \cup {Null}, details : Nat \cup {Null}]
Resting     == [pc |-> "idle", job |-> Null, owner |-> FALSE, text |-> Null, status |-> Null,
                details |-> Null]

Live(c)      == contract[c].status # "none" /\ ~contract[c].trashed
SignedBy(c)  == {s \in Signatures : signature[s].contract = c}
Doc(j)       == IF j.signature = Null THEN j.contract ELSE j.signature

At(r, pc)    == request[r].pc = pc
Return(r)    == request' = [request EXCEPT ![r] = Idle]
WorkerAt(w, pc) == worker[w].pc = pc
Goto(w, pc)  == worker' = [worker EXCEPT ![w].pc = pc]

\* enqueueJob: an enqueue that Redis refuses is logged and forgotten.
Enqueue(j) ==
  \/ queue' = queue \cup {j} /\ UNCHANGED <<forsaken, faults>>
  \/ /\ faults < MaxFaults /\ faults' = faults + 1
     /\ forsaken' = forsaken \cup {Doc(j)}
     /\ UNCHANGED queue

-----------------------------------------------------------------------------
(* The owner *)

CreateContract(c, full, u) ==
  /\ contract[c].status = "none"
  /\ contract' = [contract EXCEPT ![c] = [NoContract EXCEPT !.status = "draft", !.filled = full,
                                                            !.until = u]]
  /\ UNCHANGED <<today, details, signature, request, queue, worker, mails, history, bounds>>

\* A read-and-check of the same guard comes before, and decides nothing.
UpdateContract(c, full, u) ==
  /\ Live(c) /\ contract[c].status = "draft" /\ edits < MaxEdits
  /\ edits' = edits + 1
  /\ contract' = [contract EXCEPT ![c].text = @ + 1, ![c].filled = full, ![c].until = u]
  /\ overwritten' = IF \E r \in Requests : At(r, "sending") /\ request[r].contract = c
                      THEN overwritten \cup {c} ELSE overwritten
  /\ UNCHANGED <<today, details, signature, request, queue, worker, mails, forsaken, faults>>

\* Mutant: the render is queued before the contract is marked as sent.
ReadDraftQueueing(r, c) ==
  /\ At(r, "idle") /\ Live(c) /\ contract[c].status = "draft" /\ contract[c].filled
  /\ request' = [request EXCEPT ![r] = [Idle EXCEPT !.pc = "sending", !.contract = c]]
  /\ Enqueue(Job(c, Null))
  /\ UNCHANGED <<today, details, rows, worker, mails, overwritten, edits>>

\* sendContract reads the draft and its blocks ...
ReadDraft(r, c) ==
  /\ At(r, "idle") /\ Live(c) /\ contract[c].status = "draft" /\ contract[c].filled
  /\ request' = [request EXCEPT ![r] = [Idle EXCEPT !.pc = "sending", !.contract = c]]
  /\ UNCHANGED <<today, details, rows, queue, worker, mails, history, bounds>>

\* ... marks it as sent, if it is still a draft ...
SendContract(r) ==
  LET c == request[r].contract
  IN  /\ At(r, "sending")
      /\ IF Live(c) /\ contract[c].status = "draft"
           THEN /\ contract' = [contract EXCEPT ![c].status = "sent", ![c].issuedAt = details]
                /\ request' = [request EXCEPT ![r].pc = "sent"]
           ELSE Return(r) /\ UNCHANGED contract
      /\ UNCHANGED <<today, details, signature, queue, worker, mails, history, bounds>>

\* ... and asks for its PDF.
QueueContractPdf(r) ==
  /\ At(r, "sent")
  /\ Enqueue(Job(request[r].contract, Null))
  /\ Return(r)
  /\ UNCHANGED <<today, details, rows, worker, mails, overwritten, edits>>

TerminateContract(c) ==
  /\ Live(c) /\ contract[c].status \in {"sent", "signed"} /\ edits < MaxEdits
  /\ edits' = edits + 1
  /\ contract' = [contract EXCEPT ![c].status = "terminated"]
  /\ UNCHANGED <<today, details, signature, request, queue, worker, mails, history, faults>>

\* softDeleteContract, restoreContract; revokeContractPublicLink, rotateContractPublicLink.
EditContract(c) ==
  /\ contract[c].status # "none" /\ edits < MaxEdits
  /\ edits' = edits + 1
  /\ \/ contract' = [contract EXCEPT ![c].trashed = ~@]
     \/ /\ Live(c) /\ contract[c].status # "draft"
        /\ contract' = [contract EXCEPT ![c].linked = ~@]
  /\ UNCHANGED <<today, details, signature, request, queue, worker, mails, history, faults>>

\* updateClient; the settings of the business and the template a contract is linked to are edited
\* in the same way: no contract is looked at.
ReviseDetails ==
  /\ edits < MaxEdits
  /\ edits' = edits + 1
  /\ details' = details + 1
  /\ UNCHANGED <<today, rows, request, queue, worker, mails, history, faults>>

-----------------------------------------------------------------------------
(* The client: signPublicContract *)

\* getContractSigningTarget: a link that leads to a contract sent and not lapsed.
ReadSigningTarget(r, c) ==
  /\ At(r, "idle") /\ Live(c) /\ contract[c].linked /\ contract[c].status = "sent"
  /\ contract[c].until # Null => today <= contract[c].until
  /\ request' = [request EXCEPT ![r] = [Idle EXCEPT !.pc = "signing", !.contract = c]]
  /\ UNCHANGED <<today, details, rows, queue, worker, mails, history, bounds>>

\* Mutant: the status that was read is not asked for again.
RecordSignatureUnasked(r, s) ==
  LET c == request[r].contract
  IN  /\ At(r, "signing") /\ signature[s] = NoSignature
      /\ contract' = [contract EXCEPT ![c].status = "signed"]
      /\ signature' = [signature EXCEPT ![s].contract = c, ![s].signedAt = details]
      /\ request' = [request EXCEPT ![r].pc = "signed", ![r].signature = s]
      /\ UNCHANGED <<today, details, queue, worker, mails, history, bounds>>

\* recordContractSignature: the status and the signature, or neither.
RecordSignature(r, s) ==
  LET c == request[r].contract
  IN  /\ At(r, "signing") /\ signature[s] = NoSignature
      /\ IF Live(c) /\ contract[c].status = "sent"
           THEN /\ contract' = [contract EXCEPT ![c].status = "signed"]
                /\ signature' = [signature EXCEPT ![s].contract = c, ![s].signedAt = details]
                /\ request' = [request EXCEPT ![r].pc = "signed", ![r].signature = s]
           ELSE Return(r) /\ UNCHANGED rows
      /\ UNCHANGED <<today, details, queue, worker, mails, history, bounds>>

QueueSignedPdf(r) ==
  /\ At(r, "signed")
  /\ Enqueue(Job(request[r].contract, request[r].signature))
  /\ Return(r)
  /\ UNCHANGED <<today, details, rows, worker, mails, overwritten, edits>>

\* The web process stops in the middle of a request.
Die(r) ==
  /\ ~At(r, "idle") /\ faults < MaxFaults
  /\ faults' = faults + 1
  /\ forsaken' = CASE At(r, "sent")   -> forsaken \cup {request[r].contract}
                   [] At(r, "signed") -> forsaken \cup {request[r].signature}
                   [] OTHER           -> forsaken
  /\ Return(r)
  /\ UNCHANGED <<today, details, rows, queue, worker, mails, overwritten, edits>>

-----------------------------------------------------------------------------
(* The worker: renderContractPdf and renderSignedContractPdf *)

\* BullMQ (external): a worker is handed a job.
TakeJob(w, j) ==
  /\ WorkerAt(w, "idle")
  /\ queue' = queue \ {j}
  /\ worker' = [worker EXCEPT ![w] = [Resting EXCEPT !.pc = "taken", !.job = j, !.owner = TRUE]]
  /\ UNCHANGED <<today, details, rows, request, mails, history, bounds>>

\* Mutant: a contract that has its PDF needs no other.
PointerOfContract(j) == contract[j.contract].pdf

\* Each copy has a pointer of its own: pdf_upload_id, signed_pdf_upload_id.
Pointer(j) == IF j.signature = Null THEN contract[j.contract].pdf ELSE signature[j.signature].copy

\* A contract that has its PDF still owes its mail; nobody is mailed the executed copy.
ReadPointer(w) ==
  LET j == worker[w].job
  IN  /\ WorkerAt(w, "taken")
      /\ worker' = IF Pointer(j) = Null THEN [worker EXCEPT ![w].pc = "building"]
                   ELSE IF j.signature = Null THEN [worker EXCEPT ![w].pc = "chaining"]
                   ELSE [worker EXCEPT ![w] = Resting]
      /\ UNCHANGED <<today, details, rows, request, queue, mails, history, bounds>>

\* buildContractPdfDocument, buildSignedContractPdfDocument read the row, once.  There is no document
\* of a contract in the trash, nor of a blank one: the job ends, and is not tried again.
BuildDocument(w) ==
  LET j == worker[w].job
      c == j.contract
  IN  /\ WorkerAt(w, "building")
      /\ worker' = IF Live(c) /\ contract[c].filled
                     THEN [worker EXCEPT ![w] = [@ EXCEPT !.pc = "merging", !.text = contract[c].text,
                                                          !.status = contract[c].status]]
                     ELSE [worker EXCEPT ![w] = Resting]
      /\ forsaken' = IF Live(c) THEN forsaken ELSE forsaken \cup {Doc(j)}
      /\ UNCHANGED <<today, details, rows, request, queue, mails, overwritten, bounds>>

\* renderContractDocument merges in the client, the business and the page settings of the moment.
MergeDetails(w) ==
  /\ WorkerAt(w, "merging")
  /\ worker' = [worker EXCEPT ![w].pc = "rendering", ![w].details = details]
  /\ UNCHANGED <<today, details, rows, request, queue, mails, history, bounds>>

\* Mutant: the last rendering is linked.
LinkedAgain(pointer, copy) == copy

\* The conditional UPDATE.
Linked(pointer, copy) == IF pointer = Null THEN copy ELSE pointer

\* The PDF is rendered, stored, and linked.
LinkPdf(w) ==
  LET j == worker[w].job
      copy == [by |-> w, text |-> worker[w].text, status |-> worker[w].status,
               details |-> worker[w].details]
  IN  /\ WorkerAt(w, "rendering")
      /\ IF j.signature = Null
           THEN /\ contract' = [contract EXCEPT ![j.contract].pdf = Linked(@, copy)]
                /\ worker' = [worker EXCEPT ![w] = [Resting EXCEPT !.pc = "chaining", !.job = j,
                                                               !.owner = worker[w].owner]]
                /\ UNCHANGED signature
           ELSE /\ signature' = [signature EXCEPT ![j.signature].copy = Linked(@, copy)]
                /\ worker' = [worker EXCEPT ![w] = Resting]
                /\ UNCHANGED contract
      /\ UNCHANGED <<today, details, request, queue, mails, history, bounds>>

\* enqueueDocumentEmail; the job has an id of its own, so it is queued once.
ChainMail(w) ==
  LET c == worker[w].job.contract
  IN  /\ WorkerAt(w, "chaining")
      /\ \/ mails' = mails \cup {c} /\ UNCHANGED <<forsaken, faults>>
         \/ /\ faults < MaxFaults /\ faults' = faults + 1
            /\ forsaken' = forsaken \cup {c}
            /\ UNCHANGED mails
      /\ worker' = [worker EXCEPT ![w] = Resting]
      /\ UNCHANGED <<today, details, rows, request, queue, overwritten, edits>>

\* The place is lost: the job waits for another run (next), or has none left ({}).
Lose(w, next) ==
  /\ ~WorkerAt(w, "idle") /\ faults < MaxFaults
  /\ faults' = faults + 1
  /\ worker' = [worker EXCEPT ![w] = Resting]
  /\ IF worker[w].owner
       THEN /\ queue' = queue \cup next
            /\ forsaken' = IF next = {} THEN forsaken \cup {Doc(worker[w].job)} ELSE forsaken
       ELSE UNCHANGED <<queue, forsaken>>
  /\ UNCHANGED <<today, details, rows, request, mails, overwritten, edits>>

\* Mutant: one attempt too many.
FailAttemptOnceMore(w) ==
  LET j == worker[w].job
  IN  Lose(w, IF j.tries < MaxAttempts THEN {[j EXCEPT !.tries = @ + 1]} ELSE {})

\* A statement, the renderer or the store fails: the attempt counts.
FailAttempt(w) ==
  LET j == worker[w].job
  IN  Lose(w, IF j.tries + 1 < MaxAttempts THEN {[j EXCEPT !.tries = @ + 1]} ELSE {})

\* The worker dies; BullMQ finds its job stalled and lets it run again, once.
Crash(w) ==
  LET j == worker[w].job
  IN  Lose(w, IF j.stalled THEN {} ELSE {[j EXCEPT !.stalled = TRUE]})

\* The lock of a live worker's job runs out: the job is run again beside it.
Stall(w) ==
  LET j == worker[w].job
  IN  /\ worker[w].owner /\ ~j.stalled /\ faults < MaxFaults
      /\ faults' = faults + 1
      /\ worker' = [worker EXCEPT ![w].owner = FALSE]
      /\ queue' = queue \cup {[j EXCEPT !.stalled = TRUE]}
      /\ UNCHANGED <<today, details, rows, request, mails, history, edits>>

NextDay ==
  /\ today + 1 \in Days
  /\ today' = today + 1
  /\ UNCHANGED <<details, rows, request, queue, worker, mails, history, bounds>>

-----------------------------------------------------------------------------
Init ==
  /\ today = 0 /\ details = 0
  /\ contract = [c \in Contracts |-> NoContract]
  /\ signature = [s \in Signatures |-> NoSignature]
  /\ request = [r \in Requests |-> Idle]
  /\ queue = {} /\ worker = [w \in Workers |-> Resting]
  /\ mails = {} /\ overwritten = {} /\ forsaken = {}
  /\ edits = 0 /\ faults = 0

OwnerStep ==
  \/ \E c \in Contracts, full \in BOOLEAN, u \in Ends :
       CreateContract(c, full, u) \/ UpdateContract(c, full, u)
  \/ \E c \in Contracts : TerminateContract(c) \/ EditContract(c)
  \/ ReviseDetails
  \/ \E r \in Requests :
       \/ \E c \in Contracts : ReadDraft(r, c)
       \/ SendContract(r) \/ QueueContractPdf(r)

ClientStep(r) ==
  \/ \E c \in Contracts : ReadSigningTarget(r, c)
  \/ \E s \in Signatures : RecordSignature(r, s)
  \/ QueueSignedPdf(r)

WorkerStep(w) ==
  \/ \E j \in queue : TakeJob(w, j)
  \/ ReadPointer(w) \/ BuildDocument(w) \/ MergeDetails(w) \/ LinkPdf(w) \/ ChainMail(w)
  \/ FailAttempt(w) \/ Crash(w) \/ Stall(w)

Next ==
  \/ OwnerStep
  \/ \E r \in Requests : ClientStep(r) \/ Die(r)
  \/ \E w \in Workers : WorkerStep(w)
  \/ NextDay

Spec == Init /\ [][Next]_vars

-----------------------------------------------------------------------------
(* Properties. *)

TypeOK ==
  /\ today \in Days /\ details \in Nat
  /\ contract \in [Contracts -> Contract]
  /\ signature \in [Signatures -> Signature]
  /\ request \in [Requests -> Request]
  /\ queue \subseteq Jobs
  /\ worker \in [Workers -> WorkerState]
  /\ {mails, overwritten} \subseteq SUBSET Contracts
  /\ forsaken \subseteq Contracts \cup Signatures
  /\ edits \in 0..MaxEdits /\ faults \in 0..MaxFaults

\* A copy was made since a moment: it states the text of the row, and details that were right at
\* some time since then.
MadeSince(copy, c, moment) ==
  copy.text = contract[c].text /\ copy.details \in moment..details

\* A contract is issued with something in it, unless it was emptied between the read and the write
\* of sendContract.  A copy is rendered late, and still states the blocks, the title and the dates
\* that were issued; it was made after they were, and the executed one after they were signed: it
\* never calls the contract what it has not been since, though it may call it terminated, and its
\* details are of some time between that moment and now.
CopyStatesTheContract ==
  /\ \A c \in Contracts \ overwritten : contract[c].status \notin {"none", "draft"} => contract[c].filled
  /\ \A c \in Contracts :
       LET copy == contract[c].pdf
       IN  copy # Null =>
             /\ \/ copy.status = "sent"
                \/ copy.status = "signed" /\ SignedBy(c) # {}
                \/ copy.status = "terminated" /\ contract[c].status = "terminated"
             /\ MadeSince(copy, c, contract[c].issuedAt)
  /\ \A s \in Signatures :
       LET copy == signature[s].copy
           c    == signature[s].contract
       IN  copy # Null =>
             /\ \/ copy.status = "signed"
                \/ copy.status = "terminated" /\ contract[c].status = "terminated"
             /\ MadeSince(copy, c, signature[s].signedAt)

\* What is stored is the record: a rendering that was retried, or ran twice at once, never replaces
\* the copy the client already holds.
CopyIsKept ==
  [][ /\ \A c \in Contracts : contract[c].pdf # Null => contract'[c].pdf = contract[c].pdf
      /\ \A s \in Signatures : signature[s].copy # Null => signature'[s].copy = signature[s].copy ]_vars

InHand(c, s) ==
  \/ \E j \in queue : j.contract = c /\ j.signature = s
  \/ \E w \in Workers : worker[w].owner /\ worker[w].job.contract = c /\ worker[w].job.signature = s
  \/ \E r \in Requests : request[r].pc = (IF s = Null THEN "sent" ELSE "signed")
                         /\ request[r].contract = c /\ request[r].signature = s

\* What was issued is rendered and mailed, and what was signed has its executed copy, or a job or a
\* request is on its way to that; unless a fault or the trash got in between, or the contract was
\* issued blank.
CopyIsNotForgotten ==
  /\ \A c \in Contracts \ forsaken :
       contract[c].status \notin {"none", "draft"} /\ contract[c].filled =>
         (contract[c].pdf # Null /\ c \in mails) \/ InHand(c, Null)
  /\ \A s \in Signatures \ forsaken :
       signature[s] # NoSignature /\ contract[signature[s].contract].filled =>
         signature[s].copy # Null \/ InHand(signature[s].contract, s)

\* The abstract specification: what was issued is never rewritten, and signed once.
Issued == INSTANCE IssuedDocument WITH
  Documents <- Contracts,
  Evidence  <- Signatures,
  Answers   <- {"signed"},
  stage     <- [c \in Contracts |-> CASE contract[c].status = "sent" -> "issued"
                                      [] contract[c].status \in {"signed", "terminated"} -> "closed"
                                      [] OTHER -> contract[c].status],
  face      <- [c \in Contracts |-> <<contract[c].text, contract[c].filled, contract[c].until,
                                      contract[c].issuedAt>>],
  outcome   <- [c \in Contracts |-> IF contract[c].status \in {"signed", "terminated"}
                                      THEN contract[c].status ELSE Null],
  evidence  <- [c \in Contracts |-> SignedBy(c)]

ImplementsIssuedDocument == Issued!Spec
=============================================================================
