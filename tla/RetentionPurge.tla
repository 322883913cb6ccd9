---------------------------- MODULE RetentionPurge ----------------------------
(***************************************************************************)
(* What becomes of the files of deleted records: the nightly purge of what *)
(* has been in the trash for long enough, the erasure of a client, and the *)
(* queue through which the stored objects follow their rows.               *)
(*                                                                         *)
(* A row can be deleted in a transaction, an object cannot.  Writers store *)
(* the object before its row; an erasure deletes the rows and queues the   *)
(* objects in one transaction, at repeatable read, and a drain deletes     *)
(* them afterwards.  Each of these steps is an action, so that another     *)
(* process, a crash or a refusing store can come in between.               *)
(*                                                                         *)
(* One record of each kind that matters: a client with its attachments, an *)
(* invoice with its PDF, and a template and a contract whose blocks name   *)
(* an image with no foreign key behind it.  The invoice and the contract   *)
(* name the client.                                                        *)
(***************************************************************************)
EXTENDS Integers, SequencesExt

CONSTANTS
  Files,         \* an upload: the id of its row and, since keys are random, the key of its object
  Refused,       \* the keys that the store never deletes
  Images,        \* bound: the keys drawn for images; the others are for PDFs and attachments
  Workers, Requests, Null,
  FailureLimit,  \* CONSECUTIVE_FAILURE_LIMIT
  MaxFaults      \* bound: processes that die, deletions that fail, and restores (an owner who
                 \* restores something whenever a purge runs puts it off for ever)

Documents == {"invoice", "contract"}
Blocks    == {"template", "contract"}
Records   == {"client", "template"} \cup Documents
Processes == Workers \cup Requests

ASSUME PurgeAssumption ==
  /\ IsFiniteSet(Files) /\ {Refused, Images} \subseteq SUBSET Files
  /\ FailureLimit \in Nat \ {0} /\ MaxFaults \in Nat
  /\ Workers \cap Requests = {} /\ Null \notin Files \cup Processes \cup Records

VARIABLES
  record,    \* the rows of clients, invoices, contracts and templates, with the uploads they name
  signed,    \* the contract has a signature
  uploads,   \* the rows of uploads
  store,     \* the objects in the buckets
  untried,   \* the rows of object_deletions that no drain has tried yet
  tried,     \* the others, the least recently tried first
  process,   \* where each handler stands, and what it has read
  written,   \* what was written since the snapshot of each open erasure
  stranded,  \* history: objects left without a row by a handler that died or was turned away
  unguarded, \* history: files released while blocks that the release could not see named them
  faults

rows    == <<record, signed, uploads>>
queue   == <<untried, tried>>
history == <<stranded, unguarded>>
vars    == <<rows, store, queue, process, written, history, faults>>

\* due: in the trash for longer than its window.
Record == [state : {"none", "live", "trashed", "due", "gone"}, files : SUBSET Files]

\* on: the blocks a form is for; file: the upload in hand; snap, doomed: what an erasure sees of the
\* files, and the rows it deletes; todo, failed: what a drain has still to try, and how often in a
\* row it failed.
Process == [pc : {"idle", "storing", "recording", "linking", "attaching", "removing", "dropping",
                  "editing", "saving", "erasing", "deleting", "dequeuing"},
            on : Blocks \cup {Null}, file : Files \cup {Null},
            snap : [Records -> SUBSET Files] \cup {Null}, doomed : SUBSET Records,
            todo : Seq(Files), failed : 0..FailureLimit]
Idle    == [pc |-> "idle", on |-> Null, file |-> Null, snap |-> Null, doomed |-> {},
            todo |-> <<>>, failed |-> 0]

Live(r)     == record[r].state = "live"
Exists(r)   == record[r].state \notin {"none", "gone"}
At(p, pc)   == process[p].pc = pc
Become(p, next) == process' = [process EXCEPT ![p] = next]
Return(p)   == Become(p, Idle)

\* readUploadReferences.
References == UNION {record[r].files : r \in Records}

\* A key nobody has ever used: nothing remembers it.
Fresh(f) ==
  /\ f \notin uploads \cup store \cup untried \cup Range(tried) \cup References \cup unguarded
  /\ \A p \in Processes : f # process[p].file /\ f \notin Range(process[p].todo)
                          /\ (At(p, "erasing") => \A r \in Records : f \notin process[p].snap[r])

\* A row, or a row that refers to it, is written while erasures are open; ended: those just done with.
Wrote(rs, ended) == [p \in Processes |-> IF At(p, "erasing") /\ p \notin ended THEN written[p] \cup rs ELSE {}]
Write(r, row) == record' = [record EXCEPT ![r] = row] /\ written' = Wrote({r}, {})

-----------------------------------------------------------------------------
(* The render of an invoice: renderInvoicePdf and storeDocumentPdf. *)

\* The invoice, which has no PDF, is read and rendered, and a key is drawn.
StartRender(w, f) ==
  /\ At(w, "idle") /\ Live("invoice") /\ record["invoice"].files = {} /\ Fresh(f)
  /\ Become(w, [Idle EXCEPT !.pc = "storing", !.file = f])
  /\ UNCHANGED <<rows, store, queue, written, history, faults>>

\* Storage first ...
PutObject(w) ==
  /\ At(w, "storing")
  /\ store' = store \cup {process[w].file}
  /\ Become(w, [process[w] EXCEPT !.pc = "recording"])
  /\ UNCHANGED <<rows, queue, written, history, faults>>

\* ... row second ...
RecordUpload(w) ==
  /\ At(w, "recording")
  /\ uploads' = uploads \cup {process[w].file}
  /\ Become(w, [process[w] EXCEPT !.pc = "linking"])
  /\ UNCHANGED <<record, signed, store, queue, written, history, faults>>

\* ... and the pointer, if it is still null.  An invoice in the trash gets it too; if the invoice is
\* gone, or the pointer taken, the upload stays, and nothing names it.
LinkPdf(w) ==
  /\ At(w, "linking")
  /\ IF Exists("invoice") /\ record["invoice"].files = {}
       THEN Write("invoice", [record["invoice"] EXCEPT !.files = {process[w].file}])
       ELSE UNCHANGED <<record, written>>
  /\ Return(w)
  /\ UNCHANGED <<signed, uploads, store, queue, history, faults>>

-----------------------------------------------------------------------------
(* Erasures: runRetentionPurge by the worker, forgetClientWrite by a request. *)

\* Mutant of Due: a client goes by its own window alone.
DueByOwnWindow ==
  LET documents == {d \in Documents : record[d].state = "due" /\ ~(d = "contract" /\ signed)}
  IN  documents \cup {r \in {"template", "client"} : record[r].state = "due"}

\* selectDuePurges: a signed contract is never due, nor is a client that a document names which
\* this purge leaves.
Due ==
  LET documents == {d \in Documents : record[d].state = "due" /\ ~(d = "contract" /\ signed)}
  IN  documents
      \cup {t \in {"template"} : record[t].state = "due"}
      \cup {c \in {"client"} : record[c].state = "due" /\ \A d \in Documents \ documents : ~Exists(d)}

\* The transaction takes its snapshot.
BeginErasure(p, doomed) ==
  /\ At(p, "idle") /\ doomed # {}
  /\ Become(p, [Idle EXCEPT !.pc = "erasing", !.doomed = doomed,
                            !.snap = [r \in Records |-> record[r].files]])
  /\ UNCHANGED <<rows, store, queue, written, history, faults>>

BeginPurge(w) == BeginErasure(w, Due)

\* A client is erased from wherever it is, with everything that names it, unless a contract of its is
\* signed.
BeginForget(q) ==
  /\ Exists("client") /\ ~(Exists("contract") /\ signed)
  /\ BeginErasure(q, {r \in Documents \cup {"client"} : Exists(r)})

\* PostgreSQL (external) refuses to delete, from a snapshot, a row written since, or one that a new
\* row refers to.
Conflicts(p) == process[p].doomed \cap written[p] # {}

\* Mutant of Released: who else names the file is not asked.
ReleasedAnyway(p) == uploads \cap (UNION {process[p].snap[r] : r \in process[p].doomed})

\* selectReleasedUploadIds: referenced before the deletes and not after them, both as the
\* snapshot shows it.  An attachment that another process removed meanwhile is still there in it.
\* A name with no row behind it releases nothing.
Released(p) ==
  LET snap    == process[p].snap
      deleted == process[p].doomed
      kept    == (UNION {snap[r] : r \in Records \ deleted}) \cup (UNION {snap[r] \ record[r].files : r \in deleted})
  IN  uploads \cap ((UNION {snap[r] : r \in deleted}) \ kept)

\* Mutant of Pending: the rows that failed come first.
PendingFailedFirst == {tried \o new : new \in SetToSeqs(untried)}

\* The order in which a drain takes the rows of object_deletions.
Pending == {new \o tried : new \in SetToSeqs(untried)}

\* What a form has in hand, or has saved since the snapshot: no foreign key holds it back.
Unseen(p) ==
  {process[q].file : q \in {r \in Requests : At(r, "editing") \/ At(r, "saving")}}
  \cup (UNION {record[r].files : r \in Blocks \cap written[p]})

\* The rows go, with the uploads they were the last to name, and the objects are queued.
CommitErasure(p) ==
  /\ At(p, "erasing") /\ ~Conflicts(p)
  /\ record' = [r \in Records |-> IF r \in process[p].doomed THEN [state |-> "gone", files |-> {}] ELSE record[r]]
  /\ uploads' = uploads \ Released(p)
  /\ untried' = untried \cup Released(p)
  /\ unguarded' = unguarded \cup (Released(p) \cap Unseen(p))
  /\ written' = Wrote(process[p].doomed, {p})
  /\ \E s \in SetToSeqs(Released(p)) :
       Become(p, IF s = <<>> THEN Idle ELSE [Idle EXCEPT !.pc = "deleting", !.todo = s])
  /\ UNCHANGED <<signed, store, tried, stranded, faults>>

\* The transaction is rolled back: the next purge, or the owner, tries again.
AbortErasure(p) ==
  /\ At(p, "erasing") /\ Conflicts(p)
  /\ Return(p)
  /\ written' = Wrote({}, {p})
  /\ UNCHANGED <<rows, store, queue, history, faults>>

-----------------------------------------------------------------------------
(* drainObjectDeletions *)

\* The hourly job reads the whole queue; an erasure drains what it queued itself.
BeginSweep(w) ==
  /\ At(w, "idle") /\ untried \cup Range(tried) # {}
  /\ \E s \in Pending : Become(w, [Idle EXCEPT !.pc = "deleting", !.todo = s])
  /\ UNCHANGED <<rows, store, queue, written, history, faults>>

\* On with the next key, unless the store has failed too often in a row.
Proceed(p, failed) ==
  Become(p, IF Len(process[p].todo) = 1 \/ failed = FailureLimit THEN Idle
              ELSE [process[p] EXCEPT !.pc = "deleting", !.todo = Tail(@), !.failed = failed])

\* The object first; deleting one that is gone succeeds ...
DeleteObject(p) ==
  /\ At(p, "deleting") /\ Head(process[p].todo) \notin Refused
  /\ store' = store \ {Head(process[p].todo)}
  /\ Become(p, [process[p] EXCEPT !.pc = "dequeuing"])
  /\ UNCHANGED <<rows, queue, written, history, faults>>

\* ... then its row.
Dequeue(p) ==
  LET f == Head(process[p].todo)
  IN  /\ At(p, "dequeuing")
      /\ untried' = untried \ {f} /\ tried' = RemoveFirst(tried, f)
      /\ Proceed(p, 0)
      /\ UNCHANGED <<rows, store, written, history, faults>>

\* Mutant of RecordFailure: the failed key is queued once more.
RecordFailureAgain(p) ==
  LET f == Head(process[p].todo)
  IN  /\ At(p, "deleting") /\ f \in Refused
      /\ untried' = untried \ {f} /\ tried' = Append(tried, f)
      /\ Proceed(p, process[p].failed + 1)
      /\ UNCHANGED <<rows, store, written, history, faults>>

\* recordFailedAttempt: a key that was refused goes behind all others.
RecordFailure(p) ==
  LET f == Head(process[p].todo)
  IN  /\ \/ At(p, "deleting") /\ f \in Refused /\ UNCHANGED faults
         \/ (At(p, "deleting") \/ At(p, "dequeuing")) /\ faults < MaxFaults /\ faults' = faults + 1
      /\ IF f \in untried \cup Range(tried)
           THEN untried' = untried \ {f} /\ tried' = Append(RemoveFirst(tried, f), f)
           ELSE UNCHANGED queue
      /\ Proceed(p, process[p].failed + 1)
      /\ UNCHANGED <<rows, store, written, history>>

-----------------------------------------------------------------------------
(* Attachments: addAttachment and removeAttachment. *)

\* The browser has stored the object; the parent is read.
StartAttach(q, f) ==
  /\ At(q, "idle") /\ Live("client") /\ Fresh(f)
  /\ store' = store \cup {f}
  /\ Become(q, [Idle EXCEPT !.pc = "attaching", !.file = f])
  /\ UNCHANGED <<rows, queue, written, history, faults>>

\* Upload and attachment in one transaction, which the foreign key refuses if the client is gone.
InsertAttachment(q) ==
  LET f == process[q].file
  IN  /\ At(q, "attaching")
      /\ IF Exists("client")
           THEN /\ Write("client", [record["client"] EXCEPT !.files = @ \cup {f}])
                /\ uploads' = uploads \cup {f}
                /\ UNCHANGED stranded
           ELSE /\ stranded' = stranded \cup {f}
                /\ UNCHANGED <<record, uploads, written>>
      /\ Return(q)
      /\ UNCHANGED <<signed, store, queue, unguarded, faults>>

StartRemove(q, f) ==
  /\ At(q, "idle") /\ f \in record["client"].files
  /\ Become(q, [Idle EXCEPT !.pc = "removing", !.file = f])
  /\ UNCHANGED <<rows, store, queue, written, history, faults>>

\* The row of the upload goes, and takes the attachment with it ...
RemoveRow(q) ==
  LET f == process[q].file
  IN  /\ At(q, "removing")
      /\ uploads' = uploads \ {f}
      /\ record' = [record EXCEPT !["client"].files = @ \ {f}]
      /\ Become(q, [process[q] EXCEPT !.pc = "dropping"])
      /\ UNCHANGED <<signed, store, queue, written, history, faults>>

\* ... then the object, at the first try or not at all: no queue remembers it.
DropObject(q) ==
  LET f == process[q].file
  IN  /\ At(q, "dropping")
      /\ \/ f \notin Refused /\ store' = store \ {f} /\ UNCHANGED <<stranded, faults>>
         \/ /\ f \in Refused \/ faults < MaxFaults
            /\ faults' = IF f \in Refused THEN faults ELSE faults + 1
            /\ stranded' = stranded \cup ({f} \cap store)
            /\ UNCHANGED store
      /\ Return(q)
      /\ UNCHANGED <<rows, queue, written, unguarded>>

-----------------------------------------------------------------------------
(* Templates and contracts: forms whose blocks name an image. *)

\* confirmTemplateImageUpload: the object, stored by the browser, and its row.
UploadImage(q, f) ==
  /\ At(q, "idle") /\ Live("template") /\ Fresh(f)
  /\ store' = store \cup {f} /\ uploads' = uploads \cup {f}
  /\ Become(q, [Idle EXCEPT !.pc = "editing", !.on = "template", !.file = f])
  /\ UNCHANGED <<record, signed, queue, written, history, faults>>

\* A template that is there, a draft of a contract, or a new contract for a client that is there.
Savable(b) ==
  \/ Live(b) /\ ~(b = "contract" /\ signed)
  \/ b = "contract" /\ record[b].state = "none" /\ Live("client")

\* A form starts from what the row or, for a contract, the template names.
OpenForm(q, b, f) ==
  /\ At(q, "idle") /\ Savable(b)
  /\ f \in (IF Live(b) THEN record[b].files ELSE {})
           \cup (IF b = "contract" /\ Live("template") THEN record["template"].files ELSE {})
  /\ Become(q, [Idle EXCEPT !.pc = "editing", !.on = b, !.file = f])
  /\ UNCHANGED <<rows, store, queue, written, history, faults>>

\* findMissingImageUpload: a template is saved only if the rows of its images are there.
CheckImages(q) ==
  /\ At(q, "editing") /\ process[q].on = "template"
  /\ Become(q, IF process[q].file \in uploads THEN [process[q] EXCEPT !.pc = "saving"] ELSE Idle)
  /\ UNCHANGED <<rows, store, queue, written, history, faults>>

\* updateTemplate; updateContract and createContract, which look for no uploads.
SaveBlocks(q) ==
  LET b == process[q].on
      f == process[q].file
  IN  /\ At(q, IF b = "contract" THEN "editing" ELSE "saving")
      /\ IF Savable(b)
           THEN /\ record' = [record EXCEPT ![b] = [state |-> "live", files |-> {f}]]
                /\ written' = Wrote(IF Live(b) THEN {b} ELSE {b, "client"}, {})
           ELSE UNCHANGED <<record, written>>
      /\ Return(q)
      /\ UNCHANGED <<signed, uploads, store, queue, history, faults>>

\* The form is closed.
Discard(q) ==
  /\ At(q, "editing")
  /\ Return(q)
  /\ UNCHANGED <<rows, store, queue, written, history, faults>>

-----------------------------------------------------------------------------
(* The owner and the client, one statement each. *)

CreateInvoice ==
  /\ record["invoice"].state = "none" /\ Live("client")
  /\ record' = [record EXCEPT !["invoice"].state = "live"]
  /\ written' = Wrote({"invoice", "client"}, {})
  /\ UNCHANGED <<signed, uploads, store, queue, process, history, faults>>

\* A late fee clears the pointer to the PDF; the upload stays, and nothing names it.
RepriceInvoice ==
  /\ Live("invoice") /\ record["invoice"].files # {}
  /\ Write("invoice", [record["invoice"] EXCEPT !.files = {}])
  /\ UNCHANGED <<signed, uploads, store, queue, process, history, faults>>

SignContract ==
  /\ Live("contract") /\ ~signed
  /\ signed' = TRUE
  /\ written' = Wrote({"contract"}, {})
  /\ UNCHANGED <<record, uploads, store, queue, process, history, faults>>

SoftDelete(r) ==
  /\ Live(r)
  /\ Write(r, [record[r] EXCEPT !.state = "trashed"])
  /\ UNCHANGED <<signed, uploads, store, queue, process, history, faults>>

\* A document is not restored while its client is in the trash.
Restore(r) ==
  /\ record[r].state \in {"trashed", "due"} /\ faults < MaxFaults
  /\ r \in Documents => Live("client")
  /\ faults' = faults + 1
  /\ Write(r, [record[r] EXCEPT !.state = "live"])
  /\ UNCHANGED <<signed, uploads, store, queue, process, history>>

\* A window, of a day at least, runs out: no request and no job lasts that long.
WindowPasses(r) ==
  /\ record[r].state = "trashed"
  /\ \A p \in Processes : At(p, "idle") \/ At(p, "editing")
  /\ record' = [record EXCEPT ![r].state = "due"]
  /\ UNCHANGED <<signed, uploads, store, queue, process, written, history, faults>>

\* The process dies: a transaction rolls back; an object without its row, or a row without its
\* object, is left as it is.
Crash(p) ==
  /\ ~At(p, "idle") /\ faults < MaxFaults
  /\ faults' = faults + 1
  /\ stranded' = IF \/ At(p, "recording") \/ At(p, "attaching") \/ At(p, "dropping")
                   THEN stranded \cup ({process[p].file} \cap store) ELSE stranded
  /\ Return(p)
  /\ written' = Wrote({}, {p})
  /\ UNCHANGED <<rows, store, queue, unguarded>>

-----------------------------------------------------------------------------
Init ==
  /\ record = [r \in Records |-> [state |-> IF r \in Documents THEN "none" ELSE "live", files |-> {}]]
  /\ signed = FALSE
  /\ uploads = {} /\ store = {} /\ untried = {} /\ tried = <<>>
  /\ process = [p \in Processes |-> Idle]
  /\ written = [p \in Processes |-> {}]
  /\ stranded = {} /\ unguarded = {}
  /\ faults = 0

\* What a handler does once it has begun.
Handle(p) ==
  \/ PutObject(p) \/ RecordUpload(p) \/ LinkPdf(p)
  \/ CommitErasure(p) \/ AbortErasure(p)
  \/ DeleteObject(p) \/ Dequeue(p) \/ RecordFailure(p)
  \/ InsertAttachment(p) \/ RemoveRow(p) \/ DropObject(p)

Work(w) == (\E f \in Files \ Images : StartRender(w, f)) \/ BeginPurge(w) \/ BeginSweep(w)

Ask(q) ==
  \/ BeginForget(q)
  \/ \E f \in Files \ Images : StartAttach(q, f) \/ StartRemove(q, f)
  \/ \E f \in Images : UploadImage(q, f)
  \/ \E b \in Blocks, f \in Files : OpenForm(q, b, f)
  \/ CheckImages(q) \/ SaveBlocks(q) \/ Discard(q)

Owner ==
  \/ CreateInvoice \/ RepriceInvoice \/ SignContract
  \/ \E r \in Records : SoftDelete(r) \/ Restore(r) \/ WindowPasses(r)

Next ==
  \/ \E p \in Processes : Handle(p) \/ Crash(p)
  \/ \E w \in Workers : Work(w)
  \/ \E q \in Requests : Ask(q)
  \/ Owner

Spec == Init /\ [][Next]_vars

\* A worker goes on; the jobs of the two schedules wait in a queue that is first in, first out, so
\* that each has its turn whatever else the worker does.  Requests may stop anywhere.
FairSpec ==
  /\ Spec
  /\ \A w \in Workers : WF_vars(Handle(w)) /\ SF_vars(BeginPurge(w)) /\ SF_vars(BeginSweep(w))

-----------------------------------------------------------------------------
(* Properties. *)

TypeOK ==
  /\ record \in [Records -> Record]
  /\ signed \in BOOLEAN
  /\ uploads \subseteq Files /\ store \subseteq Files
  /\ untried \subseteq Files /\ tried \in Seq(Files)
  /\ IsInjective(tried) /\ untried \cap Range(tried) = {}
  /\ process \in [Processes -> Process]
  /\ written \in [Processes -> SUBSET Records]
  /\ stranded \subseteq Files /\ unguarded \subseteq Files
  /\ faults \in 0..MaxFaults

\* The objects some handler is in the middle of storing or deleting.
InHand == {process[p].file : p \in {p \in Processes : \E pc \in {"recording", "attaching", "dropping"} : At(p, pc)}}

\* Rows and objects agree, through every interleaving and crash: no row names an upload that is gone, except
\* blocks that were saved behind an erasure's back; no upload has lost its object; what is queued for deletion
\* is no upload any more; and every object has its upload, or waits for its deletion, or a handler has it
\* in hand, unless one died or was turned away before it could say so.
FilesMatchRows ==
  /\ \A r \in Records : record[r].files \subseteq uploads \cup (IF r \in Blocks THEN unguarded ELSE {})
  /\ uploads \subseteq store
  /\ uploads \cap (untried \cup Range(tried)) = {}
  /\ store \subseteq uploads \cup untried \cup Range(tried) \cup InHand \cup stranded

\* A purge takes what is due and nothing else: not a record restored while it ran, not a contract signed
\* meanwhile, not a client that a document still names.  Only an erasure takes what is not in the
\* trash, and it leaves no document of the client behind.
PurgeTakesOnlyTheDue ==
  [][ \A r \in Records : Exists(r) /\ record'[r].state = "gone" =>
        /\ \/ record[r].state = "due"
           \/ r # "template" /\ \E q \in Requests : At(q, "erasing")
        /\ r = "contract" => ~signed
        /\ r = "client" => \A d \in Documents : record'[d].state \in {"none", "gone"} ]_vars

\* Whatever is due leaves in the end, or is restored, and so does every key from the queue: a store that
\* refuses one key does not keep the others.
ReleasedInTheEnd ==
  /\ []<>(Due = {})
  /\ \A f \in Files \ Refused : []<>(f \notin untried \cup Range(tried))
=============================================================================
