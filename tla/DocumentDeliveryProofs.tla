------------------------ MODULE DocumentDeliveryProofs ------------------------
(***************************************************************************)
(* Proofs about DocumentDelivery, for any invoices, workers, days,         *)
(* reminders and bounds: its types, and the safety properties of its run.  *)
(*                                                                         *)
(* The invariant is split as the argument is.  Each part is inductive once *)
(* the parts before it hold: what jobs and workers are (Base), what a mail *)
(* finds stored (Stored), who carries a mail (Carried), who has claimed a  *)
(* day (Claimed), who announces an invoice (Announced), and what waits for *)
(* a document that is not done (Waiting).                                  *)
(***************************************************************************)
EXTENDS DocumentDelivery, FiniteSetTheorems, TLAPS

Mailing(j) == j.kind \in {"mail", "remind"}
For(j)     == <<j.inv, j.occ>>
Busy(w)    == worker[w].pc # "idle"

\* Where a worker stands with a mail; since it has looked for the PDF; since it has looked for the mail.
Claiming == {"composing", "attaching", "checking", "loading", "sending", "accepted"}
Attached == {"checking", "loading", "sending"}
Checked  == {"loading", "sending"}

-----------------------------------------------------------------------------
(* The invariant. *)

\* A mail and a reminder have one id for each invoice and occasion, and a render is of an invoice.
WellMade(j) ==
  /\ j.kind = "mail"   => j.inv \in Invoices /\ j.occ \in Occasions /\ j.n = 0
  /\ j.kind = "remind" => j.inv \in Invoices /\ j.occ \in Reminders /\ j.n = 0
  /\ j.kind = "render" => j.inv \in Invoices /\ j.occ \in Occasions \cup {Null}

Place(v) ==
  /\ v.owner => v.pc # "idle"
  /\ v.pc # "idle" => v.job \in Jobs /\ WellMade(v.job)
  /\ v.pc \in {"reading", "rendering", "chaining"} => v.job.kind = "render"
  /\ v.pc \in Claiming => Mailing(v.job)
  /\ v.pc \in {"announcing", "emitting", "charging", "charged"} => v.job.kind = "overdueSweep"
  /\ v.pc \in {"emitting", "charged"} => v.inv \in Invoices

Places == (Invoices \cup {Null}) \X (Occasions \cup Reminders \cup {Null})

\* Only the fee changes a total, and only an invoice that was sent is charged one.
Sane(row) == (row.charged \/ row.total = 0) /\ (row.charged => row.status # "draft")

RowsOK    == /\ today \in Days /\ invoice \in [Invoices -> Invoice]
             /\ \A i \in Invoices : Sane(invoice[i])
WaitingOK == queue \subseteq Jobs /\ IsFiniteSet(queue) /\ \A j \in queue : WellMade(j)
DoneOK    == finished \subseteq Jobs /\ IsFiniteSet(finished)
WorkersOK == worker \in [Workers -> WorkerState] /\ \A w \in Workers : Place(worker[w])
LogOK     == announced \subseteq Invoices /\ mailed \subseteq Mails
OutsideOK == /\ heard \in [Invoices -> Nat] /\ accepted \in [Mails -> Nat]
             /\ nudged \in [Invoices \X Days -> Nat] /\ bare \subseteq Mails /\ unread \subseteq Mails
HistoryOK == overtaken \subseteq Invoices /\ resent \subseteq Places
LeftOK    == forsaken \subseteq Places
EditsOK   == edits \in 0..MaxEdits
FaultsOK  == faults \in 0..MaxFaults

BaseInv ==
  /\ RowsOK /\ WaitingOK /\ DoneOK /\ WorkersOK /\ LogOK /\ OutsideOK /\ HistoryOK /\ LeftOK
  /\ EditsOK /\ FaultsOK

\* What is mailed was stored, and is stored still unless the total has changed.
Stored(i) == invoice[i].pdf # Null \/ invoice[i].total > 0
Backed(j) == j.kind = "mail" => Stored(j.inv)

\* What worker w has read of the document is true of it, or excused.
ReadsTrue(w) ==
  LET i == worker[w].job.inv
  IN  /\ Busy(w) => Backed(worker[w].job)
      /\ worker[w].pc = "rendering" =>
           worker[w].read # Null /\ (worker[w].read = invoice[i].total \/ i \in overtaken)
      /\ worker[w].pc = "chaining" => Stored(i)
      /\ worker[w].pc \in Attached /\ worker[w].job.kind = "mail" /\ worker[w].read = Null =>
           invoice[i].total > 0 \/ Of(w) \in forsaken \/ Of(w) \in unread

StoredInv ==
  /\ \A i \in Invoices : invoice[i].pdf # Null => invoice[i].pdf = invoice[i].total \/ i \in overtaken
  /\ \A j \in queue : Backed(j)
  /\ \A w \in Workers : ReadsTrue(w)
  /\ MailCarriesPdf

\* A mail waits in one place, or is carried by one worker that owns it, or was doubled.
OneCarrier ==
  /\ \A j, k \in queue : Mailing(j) /\ Mailing(k) /\ For(j) = For(k) => j = k
  /\ \A w \in Workers : Busy(w) /\ Mailing(worker[w].job) =>
       /\ worker[w].owner \/ Of(w) \in resent
       /\ worker[w].owner => \A j \in queue : Mailing(j) => For(j) # Of(w)
       /\ \A v \in Workers : worker[w].owner /\ worker[v].owner /\ Mailing(worker[v].job) /\ Of(v) = Of(w) => v = w

AcceptedInv ==
  /\ \A m \in mailed : accepted[m] > 0
  /\ \A w \in Workers : worker[w].pc = "accepted" => accepted[Of(w)] > 0

\* What was accepted is recorded, or about to be.
SentOnce(m) ==
  /\ accepted[m] <= 1
  /\ accepted[m] # 0 => m \in mailed \/ \E w \in Workers : worker[w].pc = "accepted" /\ Of(w) = m
  /\ m \in mailed => \A w \in Workers : worker[w].pc \in Checked => Of(w) # m

CarriedInv == OneCarrier /\ AcceptedInv /\ \A m \in Mails \ resent : SentOnce(m)

\* A day is claimed once, by the one worker that sends for it.
DayTaken(i, d) == d <= today /\ (d = today => invoice[i].reminded = d)

ClaimInv ==
  /\ \A c \in Invoices \X Days : nudged[c] <= 1 /\ (nudged[c] # 0 => DayTaken(c[1], c[2]))
  /\ \A w \in Workers : worker[w].on # Null =>
       /\ worker[w].pc \in Claiming
       /\ DayTaken(worker[w].job.inv, worker[w].on)
       /\ worker[w].pc # "accepted" => nudged[<<worker[w].job.inv, worker[w].on>>] = 0
       /\ \A v \in Workers : worker[v].on = worker[w].on /\ worker[v].job.inv = worker[w].job.inv => v = w

\* An invoice is before one sweep, then announced by it, then heard of.
Emitting(w, i) == worker[w].pc = "emitting" /\ worker[w].inv = i
AnnouncedOnce(i) ==
  /\ heard[i] <= 1 /\ (heard[i] # 0 => i \in announced)
  /\ \A w \in Workers : Unannounced(w, i) => i \notin announced
  /\ \A w \in Workers : Emitting(w, i) => i \in announced /\ heard[i] = 0
  /\ \A v, w \in Workers : Unannounced(v, i) /\ Unannounced(w, i) => v = w
  /\ \A v, w \in Workers : Emitting(v, i) /\ Emitting(w, i) => v = w

AnnounceInv == \A i \in Invoices : <<i, Null>> \notin resent => AnnouncedOnce(i)

\* What waits for the PDF of i, and for the mail that says it was sent.
Rendered(i) ==
  \/ invoice[i].pdf # Null
  \/ \E p \in forsaken : p[1] = i
  \/ \E j \in queue : j.kind = "render" /\ j.inv = i
  \/ \E w \in Workers : /\ worker[w].owner /\ worker[w].pc \in {"taken", "reading", "rendering"}
                        /\ worker[w].job.kind = "render" /\ worker[w].job.inv = i
  \/ \E w \in Workers : worker[w].pc = "charged" /\ worker[w].inv = i

Carries(j, i) == j.kind \in {"render", "mail"} /\ j.inv = i /\ j.occ = "sent"
Reached(i) ==
  \/ accepted[<<i, "sent">>] > 0 \/ <<i, "sent">> \in forsaken
  \/ \E j \in queue : Carries(j, i)
  \/ \E w \in Workers : worker[w].owner /\ Carries(worker[w].job, i)

\* A finished mail was accepted, or given up.
FinishedWell ==
  \A j \in finished : j.kind = "mail" => For(j) \in Mails /\ (accepted[For(j)] > 0 \/ For(j) \in forsaken)

WaitingInv ==
  /\ FinishedWell
  /\ \A i \in Invoices : invoice[i].status # "draft" => Rendered(i) /\ Reached(i)

IInv == BaseInv /\ StoredInv /\ CarriedInv /\ ClaimInv /\ AnnounceInv /\ WaitingInv

USE DeliveryAssumption DEF Claiming, Attached, Checked

-----------------------------------------------------------------------------
(* Jobs and workers. *)

LEMMA IdleTyped == Idle \in WorkerState /\ Place(Idle) /\ Idle.pc = "idle" /\ Idle.on = Null /\ ~Idle.owner
BY DEF Idle, WorkerState, Place

LEMMA IdTyped ==
  ASSUME NEW j \in Jobs
  PROVE  /\ Id(j) \in Jobs /\ Id(j).kind = j.kind /\ Id(j).inv = j.inv /\ Id(j).occ = j.occ
         /\ Id(j).n = j.n /\ Id(j).tries = 0 /\ Id(j).stalled = FALSE
         /\ (j.tries = 0 /\ ~j.stalled => Id(j) = j)
<1> DEFINE untried == [j EXCEPT !.tries = 0]
<1>1. /\ untried \in Jobs /\ untried.kind = j.kind /\ untried.inv = j.inv /\ untried.occ = j.occ
      /\ untried.n = j.n /\ untried.tries = 0 /\ untried.stalled = j.stalled /\ (j.tries = 0 => untried = j)
  BY DEF Jobs
<1>2. Id(j) = [untried EXCEPT !.stalled = FALSE]
  BY DEF Id
<1> HIDE DEF untried
<1>3. /\ Id(j) \in Jobs /\ Id(j).kind = untried.kind /\ Id(j).inv = untried.inv
      /\ Id(j).occ = untried.occ /\ Id(j).n = untried.n /\ Id(j).tries = 0 /\ Id(j).stalled = FALSE
  BY <1>1, <1>2 DEF Jobs
<1>4. ASSUME j.tries = 0, ~j.stalled
      PROVE  Id(j) = j
  <2>1. untried = j /\ j.stalled = FALSE
    BY <1>1, <1>4 DEF Jobs
  <2> QED BY <1>2, <2>1 DEF Jobs
<1> QED BY <1>1, <1>3, <1>4

LEMMA JobTyped ==
  ASSUME NEW kind \in {"render", "mail", "remind", "overdueSweep", "reminderSweep"},
         NEW i \in Invoices \cup {Null}, NEW occ \in Occasions \cup Reminders \cup {Null}, NEW n \in Nat,
         NEW j, j = Job(kind, i, occ, n)
  PROVE  j \in Jobs /\ j.kind = kind /\ j.inv = i /\ j.occ = occ /\ j.n = n /\ Id(j) = j
<1>1. j \in Jobs /\ j.kind = kind /\ j.inv = i /\ j.occ = occ /\ j.n = n /\ j.tries = 0 /\ ~j.stalled
  BY DEF Job, Jobs
<1> QED BY <1>1, IdTyped

LEMMA WorkerReplaced ==
  ASSUME WorkersOK, NEW w \in Workers, NEW v \in WorkerState, worker' = [worker EXCEPT ![w] = v]
  PROVE  /\ worker' \in [Workers -> WorkerState] /\ worker'[w] = v
         /\ \A u \in Workers : u # w => worker'[u] = worker[u]
         /\ Place(v) => WorkersOK'
BY DEF WorkersOK

LEMMA InvoiceReplaced ==
  ASSUME RowsOK, NEW i \in Invoices, NEW row \in Invoice, invoice' = [invoice EXCEPT ![i] = row]
  PROVE  /\ invoice' \in [Invoices -> Invoice] /\ invoice'[i] = row
         /\ \A k \in Invoices : k # i => invoice'[k] = invoice[k]
BY DEF RowsOK

\* A worker that has a job stands at it.
LEMMA AtHand ==
  ASSUME BaseInv, NEW w \in Workers, worker[w].pc # "idle"
  PROVE  /\ worker[w] \in WorkerState /\ worker[w].job \in Jobs /\ WellMade(worker[w].job)
         /\ Of(w) = For(worker[w].job) /\ Of(w) \in Places
         /\ Mailing(worker[w].job) => Of(w) \in Mails
<1>1. worker[w] \in WorkerState /\ worker[w].job \in Jobs /\ WellMade(worker[w].job)
  BY DEF BaseInv, WorkersOK, Place
<1>2. worker[w].job.inv \in Invoices \cup {Null} /\ worker[w].job.occ \in Occasions \cup Reminders \cup {Null}
  BY <1>1 DEF Jobs
<1>3. Mailing(worker[w].job) => worker[w].job.inv \in Invoices /\ worker[w].job.occ \in Occasions \cup Reminders
  BY <1>1 DEF WellMade, Mailing
<1> QED BY <1>1, <1>2, <1>3 DEF Of, For, Places, Mails

LEMMA KnownFinite ==
  ASSUME BaseInv
  PROVE  IsFiniteSet(KnownIds)
<1> DEFINE waiting == {Id(j) : j \in queue}
           owners == {v \in Workers : worker[v].owner}
           owned == {Id(worker[w].job) : w \in owners}
<1>1. IsFiniteSet(waiting)
  <2>1. [j \in queue |-> Id(j)] \in Surjection(queue, waiting)
    BY DEF Surjection
  <2> QED BY <2>1, FS_Surjection DEF BaseInv, WaitingOK
<1>2. IsFiniteSet(owners)
  BY FS_Subset
<1>3. IsFiniteSet(owned)
  <2>1. [w \in owners |-> Id(worker[w].job)] \in Surjection(owners, owned)
    BY DEF Surjection
  <2> QED BY <1>2, <2>1, FS_Surjection
<1>4. IsFiniteSet(finished)
  BY DEF BaseInv, DoneOK
<1> QED BY <1>1, <1>3, <1>4, FS_Union DEF KnownIds

\* A render is always a new job (Render).
LEMMA FreshRender ==
  ASSUME BaseInv, NEW i \in Invoices, NEW occ \in Occasions \cup {Null}
  PROVE  Render(i, occ) \notin KnownIds /\ \E n \in Nat : Render(i, occ) = Job("render", i, occ, n)
<1> DEFINE c == Cardinality(KnownIds)
           f == [n \in 0..c |-> Job("render", i, occ, n)]
           candidates == {Job("render", i, occ, n) : n \in 0..c}
<1>1. IsFiniteSet(KnownIds) /\ c \in Nat
  BY KnownFinite, FS_CardinalityType
<1>2. \E j \in candidates : j \notin KnownIds
  <2> SUFFICES ASSUME \A n \in 0..c : Job("render", i, occ, n) \in KnownIds PROVE FALSE
    OBVIOUS
  <2>1. \A n \in 0..c : Job("render", i, occ, n).n = n
    BY <1>1, JobTyped
  <2>2. f \in Injection(0..c, KnownIds)
    BY <2>1 DEF Injection, IsInjective
  <2>3. Cardinality(0..c) <= Cardinality(KnownIds)
    BY <1>1, <2>2, FS_Injection
  <2>4. Cardinality(0..c) = c + 1
    BY <1>1, FS_Interval
  <2> QED BY <1>1, <2>3, <2>4
<1>3. Render(i, occ) \in candidates /\ Render(i, occ) \notin KnownIds
  BY <1>2 DEF Render
<1> QED BY <1>1, <1>3

LEMMA RenderTyped ==
  ASSUME BaseInv, NEW i \in Invoices, NEW occ \in Occasions \cup {Null}
  PROVE  LET j == Render(i, occ)
         IN  /\ j \in Jobs /\ WellMade(j) /\ j.kind = "render" /\ j.inv = i /\ j.occ = occ
             /\ j \notin KnownIds
<1>1. PICK n \in Nat : Render(i, occ) = Job("render", i, occ, n)
  BY FreshRender
<1> QED BY <1>1, FreshRender, JobTyped DEF WellMade

\* The mail of an invoice, and its reminder, have the id of what they are about.
LEMMA MailTyped ==
  ASSUME NEW i \in Invoices, NEW occ \in Occasions
  PROVE  LET j == Job("mail", i, occ, 0)
         IN  j \in Jobs /\ WellMade(j) /\ j.kind = "mail" /\ j.inv = i /\ j.occ = occ /\ Id(j) = j
BY JobTyped DEF WellMade

LEMMA RemindTyped ==
  ASSUME NEW i \in Invoices, NEW occ \in Reminders
  PROVE  LET j == Job("remind", i, occ, 0)
         IN  j \in Jobs /\ WellMade(j) /\ j.kind = "remind" /\ j.inv = i /\ j.occ = occ /\ Id(j) = j
BY JobTyped DEF WellMade

LEMMA Enqueued ==
  ASSUME BaseInv, NEW jobs \in SUBSET Jobs, IsFiniteSet(jobs), \A j \in jobs : WellMade(j), Enqueue(jobs)
  PROVE  WaitingOK' /\ LeftOK' /\ FaultsOK' /\ forsaken \subseteq forsaken'
<1> DEFINE new == {j \in jobs : j \notin KnownIds}
           left == {<<j.inv, j.occ>> : j \in jobs}
<1>1. WaitingOK /\ LeftOK /\ FaultsOK
  BY DEF BaseInv
<1>2. CASE queue' = queue \cup new /\ UNCHANGED <<forsaken, faults>>
  <2>1. IsFiniteSet(new)
    BY FS_Subset
  <2>2. IsFiniteSet(queue \cup new)
    BY <1>1, <2>1, FS_Union DEF WaitingOK
  <2>3. WaitingOK'
    BY <1>1, <1>2, <2>2 DEF WaitingOK
  <2> QED BY <1>1, <1>2, <2>3 DEF LeftOK, FaultsOK
<1>3. CASE faults < MaxFaults /\ faults' = faults + 1 /\ forsaken' = forsaken \cup left /\ UNCHANGED queue
  <2>1. left \subseteq Places
    BY DEF Jobs, Places
  <2>2. FaultsOK' /\ LeftOK'
    BY <1>1, <1>3, <2>1 DEF FaultsOK, LeftOK
  <2>3. WaitingOK'
    BY <1>1, <1>3 DEF WaitingOK
  <2> QED BY <1>3, <2>2, <2>3
<1> QED BY <1>2, <1>3 DEF Enqueue

LEMMA Returned ==
  ASSUME BaseInv, NEW w \in Workers, worker[w].pc # "idle", Return(w)
  PROVE  /\ WorkersOK' /\ DoneOK' /\ worker'[w] = Idle
         /\ \A u \in Workers : u # w => worker'[u] = worker[u]
<1>1. WorkersOK' /\ worker'[w] = Idle /\ \A u \in Workers : u # w => worker'[u] = worker[u]
  BY IdleTyped, WorkerReplaced DEF Return, BaseInv
<1>2. DoneOK /\ Id(worker[w].job) \in Jobs
  BY AtHand, IdTyped DEF BaseInv
<1>3. IsFiniteSet(finished \cup {Id(worker[w].job)})
  BY <1>2, FS_AddElement DEF DoneOK
<1>4. DoneOK'
  BY <1>2, <1>3 DEF Return, Ended, DoneOK
<1> QED BY <1>1, <1>4

\* A job that waits again is the same job.
Same(k, j) == k.kind = j.kind /\ k.inv = j.inv /\ k.occ = j.occ /\ k.n = j.n

LEMMA TriedAgain ==
  ASSUME NEW j \in Jobs
  PROVE  /\ j.tries + 1 < MaxAttempts => [j EXCEPT !.tries = @ + 1] \in Jobs /\ Same([j EXCEPT !.tries = @ + 1], j)
         /\ [j EXCEPT !.stalled = TRUE] \in Jobs /\ Same([j EXCEPT !.stalled = TRUE], j)
<1>1. ASSUME j.tries + 1 < MaxAttempts
      PROVE  [j EXCEPT !.tries = @ + 1] \in Jobs /\ Same([j EXCEPT !.tries = @ + 1], j)
  <2>1. j.tries + 1 \in 0..MaxAttempts
    BY <1>1 DEF Jobs
  <2> QED BY <2>1 DEF Jobs, Same
<1>2. [j EXCEPT !.stalled = TRUE] \in Jobs /\ Same([j EXCEPT !.stalled = TRUE], j)
  BY DEF Jobs, Same
<1> QED BY <1>1, <1>2

LEMMA LostCases ==
  ASSUME BaseInv, NEW w \in Workers, FailAttempt(w) \/ Crash(w)
  PROVE  \E next \in SUBSET Jobs :
           /\ Lose(w, next) /\ IsFiniteSet(next)
           /\ \A k \in next : Same(k, worker[w].job)
           /\ \A k, l \in next : k = l
<1> DEFINE j == worker[w].job
<1>1. worker[w].pc # "idle" /\ j \in Jobs
  BY AtHand DEF FailAttempt, Crash, Lose
<1>2. CASE FailAttempt(w)
  <2> DEFINE next == IF j.tries + 1 < MaxAttempts THEN {[j EXCEPT !.tries = @ + 1]} ELSE {}
  <2>1. Lose(w, next)
    BY <1>2 DEF FailAttempt
  <2>2. /\ next \subseteq Jobs /\ \A k \in next : Same(k, j)
        /\ next = {} \/ \E k : next = {k}
    BY <1>1, TriedAgain
  <2> HIDE DEF next, j
  <2>3. IsFiniteSet(next) /\ \A k, l \in next : k = l
    <3>1. CASE next = {}
      BY <3>1, FS_EmptySet
    <3>2. ASSUME NEW k, next = {k}
          PROVE  IsFiniteSet(next) /\ \A l, m \in next : l = m
      <4>1. IsFiniteSet({k})
        BY FS_Singleton
      <4> QED BY <3>2, <4>1
    <3> QED BY <2>2, <3>1, <3>2
  <2> QED BY <2>1, <2>2, <2>3 DEF j
<1>3. CASE Crash(w)
  <2> DEFINE next == IF j.stalled THEN {} ELSE {[j EXCEPT !.stalled = TRUE]}
  <2>1. Lose(w, next)
    BY <1>3 DEF Crash
  <2>2. /\ next \subseteq Jobs /\ \A k \in next : Same(k, j)
        /\ next = {} \/ \E k : next = {k}
    BY <1>1, TriedAgain
  <2> HIDE DEF next, j
  <2>3. IsFiniteSet(next) /\ \A k, l \in next : k = l
    <3>1. CASE next = {}
      BY <3>1, FS_EmptySet
    <3>2. ASSUME NEW k, next = {k}
          PROVE  IsFiniteSet(next) /\ \A l, m \in next : l = m
      <4>1. IsFiniteSet({k})
        BY FS_Singleton
      <4> QED BY <3>2, <4>1
    <3> QED BY <2>2, <3>1, <3>2
  <2> QED BY <2>1, <2>2, <2>3 DEF j
<1> QED BY <1>2, <1>3

LEMMA SameWellMade ==
  ASSUME NEW j, NEW k, WellMade(j), Same(k, j)
  PROVE  WellMade(k)
BY DEF WellMade, Same

LEMMA LostBase ==
  ASSUME BaseInv, NEW w \in Workers, NEW next \in SUBSET Jobs, Lose(w, next), IsFiniteSet(next),
         \A k \in next : Same(k, worker[w].job)
  PROVE  BaseInv' /\ worker'[w] = Idle /\ \A u \in Workers : u # w => worker'[u] = worker[u]
<1>1. worker[w].pc # "idle" /\ worker' = [worker EXCEPT ![w] = Idle]
  BY DEF Lose
<1>2. WorkersOK' /\ worker'[w] = Idle /\ \A u \in Workers : u # w => worker'[u] = worker[u]
  BY <1>1, IdleTyped, WorkerReplaced DEF BaseInv
<1>3. RowsOK' /\ LogOK' /\ OutsideOK' /\ EditsOK' /\ FaultsOK'
  BY DEF Lose, BaseInv, RowsOK, LogOK, OutsideOK, EditsOK, FaultsOK, log, outside
<1>4. Of(w) \in Places /\ Dropped(w) \subseteq Places
  <2>1. Of(w) \in Places
    BY <1>1, AtHand
  <2>2. worker[w].pc = "charged" => <<worker[w].inv, Null>> \in Places
    BY DEF BaseInv, WorkersOK, Place, Places
  <2> QED BY <2>1, <2>2 DEF Dropped
<1>5. LeftOK' /\ HistoryOK'
  BY <1>4 DEF Lose, BaseInv, LeftOK, HistoryOK
<1>6. DoneOK'
  <2>1. DoneOK /\ Id(worker[w].job) \in Jobs
    BY <1>1, AtHand, IdTyped DEF BaseInv
  <2>2. IsFiniteSet(finished \cup {Id(worker[w].job)})
    BY <2>1, FS_AddElement DEF DoneOK
  <2> QED BY <2>1, <2>2 DEF Lose, Ended, DoneOK
<1>7. WaitingOK'
  <2>1. WaitingOK /\ \A k \in next : WellMade(k)
    BY <1>1, AtHand, SameWellMade DEF BaseInv
  <2>2. IsFiniteSet(queue \cup next)
    BY <2>1, FS_Union DEF WaitingOK
  <2>3. queue' = queue \/ queue' = queue \cup next
    BY DEF Lose
  <2> QED BY <2>1, <2>2, <2>3 DEF WaitingOK
<1> QED BY <1>2, <1>3, <1>5, <1>6, <1>7 DEF BaseInv

-----------------------------------------------------------------------------
(* What a step of a handler does to its worker. *)

WorkerPcs == {"idle", "taken", "reading", "rendering", "chaining", "composing", "attaching", "checking",
              "loading", "sending", "accepted", "announcing", "emitting", "charging", "charged"}

\* Worker w goes on with its job.
Turns(w, pc, read, on, inv, todo) ==
  /\ worker[w].pc # "idle"
  /\ worker'[w].pc = pc /\ worker'[w].job = worker[w].job /\ worker'[w].owner = worker[w].owner
  /\ worker'[w].read = read /\ worker'[w].on = on /\ worker'[w].inv = inv /\ worker'[w].todo = todo
  /\ \A u \in Workers : u # w => worker'[u] = worker[u]

LEMMA Turned ==
  ASSUME BaseInv, NEW w \in Workers, worker[w].pc # "idle", NEW v \in WorkerState,
         worker' = [worker EXCEPT ![w] = v], v.job = worker[w].job, v.owner = worker[w].owner
  PROVE  /\ worker' \in [Workers -> WorkerState]
         /\ Turns(w, v.pc, v.read, v.on, v.inv, v.todo)
BY WorkerReplaced DEF BaseInv, Turns

LEMMA GotoTurns ==
  ASSUME BaseInv, NEW w \in Workers, NEW pc \in WorkerPcs, worker[w].pc # "idle", Goto(w, pc)
  PROVE  /\ worker' \in [Workers -> WorkerState]
         /\ Turns(w, pc, worker[w].read, worker[w].on, worker[w].inv, worker[w].todo)
<1> DEFINE v == [worker[w] EXCEPT !.pc = pc]
<1>1. worker[w] \in WorkerState /\ worker[w].pc # "idle"
  BY DEF BaseInv, WorkersOK
<1>2. /\ v \in WorkerState /\ v.job = worker[w].job /\ v.owner = worker[w].owner
      /\ v.pc = pc /\ v.read = worker[w].read /\ v.on = worker[w].on /\ v.inv = worker[w].inv /\ v.todo = worker[w].todo
  BY <1>1 DEF WorkerState, WorkerPcs
<1>3. worker' = [worker EXCEPT ![w] = v]
  BY DEF Goto
<1> HIDE DEF v
<1>4. worker' \in [Workers -> WorkerState] /\ Turns(w, v.pc, v.read, v.on, v.inv, v.todo)
  BY <1>1, <1>2, <1>3, Turned
<1> QED BY <1>2, <1>4

LEMMA ReadTurns ==
  ASSUME BaseInv, NEW w \in Workers, worker[w].pc # "idle", NEW pc \in WorkerPcs, NEW read \in (0..MaxTotal) \cup {Null},
         worker' = [worker EXCEPT ![w].pc = pc, ![w].read = read]
  PROVE  /\ worker' \in [Workers -> WorkerState]
         /\ Turns(w, pc, read, worker[w].on, worker[w].inv, worker[w].todo)
<1> DEFINE moved == [worker[w] EXCEPT !.pc = pc]
           v == [moved EXCEPT !.read = read]
<1>1. worker[w] \in WorkerState /\ worker[w].pc # "idle"
  BY DEF BaseInv, WorkersOK
<1>2. /\ v \in WorkerState /\ v.job = worker[w].job /\ v.owner = worker[w].owner
      /\ v.pc = pc /\ v.read = read /\ v.on = worker[w].on /\ v.inv = worker[w].inv /\ v.todo = worker[w].todo
  <2>1. /\ moved \in WorkerState /\ moved.job = worker[w].job /\ moved.owner = worker[w].owner /\ moved.pc = pc
        /\ moved.read = worker[w].read /\ moved.on = worker[w].on /\ moved.inv = worker[w].inv /\ moved.todo = worker[w].todo
    BY <1>1 DEF WorkerState, WorkerPcs
  <2> HIDE DEF moved
  <2> QED BY <1>1, <2>1 DEF WorkerState, WorkerPcs
<1>3. worker' = [worker EXCEPT ![w] = v]
  OBVIOUS
<1> HIDE DEF v
<1>4. worker' \in [Workers -> WorkerState] /\ Turns(w, v.pc, v.read, v.on, v.inv, v.todo)
  BY <1>1, <1>2, <1>3, Turned
<1> QED BY <1>2, <1>4

LEMMA ClaimTurns ==
  ASSUME BaseInv, NEW w \in Workers, worker[w].pc # "idle", NEW pc \in WorkerPcs, NEW on \in Days,
         worker' = [worker EXCEPT ![w].pc = pc, ![w].on = on]
  PROVE  /\ worker' \in [Workers -> WorkerState]
         /\ Turns(w, pc, worker[w].read, on, worker[w].inv, worker[w].todo)
<1> DEFINE moved == [worker[w] EXCEPT !.pc = pc]
           v == [moved EXCEPT !.on = on]
<1>1. worker[w] \in WorkerState /\ worker[w].pc # "idle"
  BY DEF BaseInv, WorkersOK
<1>2. /\ v \in WorkerState /\ v.job = worker[w].job /\ v.owner = worker[w].owner
      /\ v.pc = pc /\ v.read = worker[w].read /\ v.on = on /\ v.inv = worker[w].inv /\ v.todo = worker[w].todo
  <2>1. /\ moved \in WorkerState /\ moved.job = worker[w].job /\ moved.owner = worker[w].owner /\ moved.pc = pc
        /\ moved.read = worker[w].read /\ moved.on = worker[w].on /\ moved.inv = worker[w].inv /\ moved.todo = worker[w].todo
    BY <1>1 DEF WorkerState, WorkerPcs
  <2> HIDE DEF moved
  <2> QED BY <1>1, <2>1 DEF WorkerState, WorkerPcs
<1>3. worker' = [worker EXCEPT ![w] = v]
  OBVIOUS
<1> HIDE DEF v
<1>4. worker' \in [Workers -> WorkerState] /\ Turns(w, v.pc, v.read, v.on, v.inv, v.todo)
  BY <1>1, <1>2, <1>3, Turned
<1> QED BY <1>2, <1>4

LEMMA TodoTurns ==
  ASSUME BaseInv, NEW w \in Workers, worker[w].pc # "idle", NEW pc \in WorkerPcs, NEW todo \in SUBSET Invoices,
         worker' = [worker EXCEPT ![w].pc = pc, ![w].todo = todo]
  PROVE  /\ worker' \in [Workers -> WorkerState]
         /\ Turns(w, pc, worker[w].read, worker[w].on, worker[w].inv, todo)
<1> DEFINE moved == [worker[w] EXCEPT !.pc = pc]
           v == [moved EXCEPT !.todo = todo]
<1>1. worker[w] \in WorkerState /\ worker[w].pc # "idle"
  BY DEF BaseInv, WorkersOK
<1>2. /\ v \in WorkerState /\ v.job = worker[w].job /\ v.owner = worker[w].owner
      /\ v.pc = pc /\ v.read = worker[w].read /\ v.on = worker[w].on /\ v.inv = worker[w].inv /\ v.todo = todo
  <2>1. /\ moved \in WorkerState /\ moved.job = worker[w].job /\ moved.owner = worker[w].owner /\ moved.pc = pc
        /\ moved.read = worker[w].read /\ moved.on = worker[w].on /\ moved.inv = worker[w].inv /\ moved.todo = worker[w].todo
    BY <1>1 DEF WorkerState, WorkerPcs
  <2> HIDE DEF moved
  <2> QED BY <1>1, <2>1 DEF WorkerState, WorkerPcs
<1>3. worker' = [worker EXCEPT ![w] = v]
  OBVIOUS
<1> HIDE DEF v
<1>4. worker' \in [Workers -> WorkerState] /\ Turns(w, v.pc, v.read, v.on, v.inv, v.todo)
  BY <1>1, <1>2, <1>3, Turned
<1> QED BY <1>2, <1>4

LEMMA StrikeTurns ==
  ASSUME BaseInv, NEW w \in Workers, worker[w].pc # "idle", NEW i \in Invoices,
         worker' = [worker EXCEPT ![w].todo = @ \ {i}]
  PROVE  /\ worker' \in [Workers -> WorkerState]
         /\ Turns(w, worker[w].pc, worker[w].read, worker[w].on, worker[w].inv, worker[w].todo \ {i})
<1> DEFINE v == [worker[w] EXCEPT !.todo = worker[w].todo \ {i}]
<1>1. worker[w] \in WorkerState /\ worker[w].pc # "idle"
  BY DEF BaseInv, WorkersOK
<1>2. /\ v \in WorkerState /\ v.job = worker[w].job /\ v.owner = worker[w].owner
      /\ v.pc = worker[w].pc /\ v.read = worker[w].read /\ v.on = worker[w].on /\ v.inv = worker[w].inv /\ v.todo = worker[w].todo \ {i}
  BY <1>1 DEF WorkerState
<1>3. worker' = [worker EXCEPT ![w] = v]
  OBVIOUS
<1> HIDE DEF v
<1>4. worker' \in [Workers -> WorkerState] /\ Turns(w, v.pc, v.read, v.on, v.inv, v.todo)
  BY <1>1, <1>2, <1>3, Turned
<1> QED BY <1>2, <1>4

LEMMA VisitTurns ==
  ASSUME BaseInv, NEW w \in Workers, worker[w].pc # "idle", NEW pc \in WorkerPcs, NEW i \in Invoices,
         worker' = [worker EXCEPT ![w].pc = pc, ![w].inv = i, ![w].todo = @ \ {i}]
  PROVE  /\ worker' \in [Workers -> WorkerState]
         /\ Turns(w, pc, worker[w].read, worker[w].on, i, worker[w].todo \ {i})
<1> DEFINE moved == [worker[w] EXCEPT !.pc = pc]
           v == [moved EXCEPT !.inv = i, !.todo = worker[w].todo \ {i}]
<1>1. worker[w] \in WorkerState /\ worker[w].pc # "idle"
  BY DEF BaseInv, WorkersOK
<1>2. /\ v \in WorkerState /\ v.job = worker[w].job /\ v.owner = worker[w].owner
      /\ v.pc = pc /\ v.read = worker[w].read /\ v.on = worker[w].on /\ v.inv = i /\ v.todo = worker[w].todo \ {i}
  <2>1. /\ moved \in WorkerState /\ moved.job = worker[w].job /\ moved.owner = worker[w].owner /\ moved.pc = pc
        /\ moved.read = worker[w].read /\ moved.on = worker[w].on /\ moved.inv = worker[w].inv /\ moved.todo = worker[w].todo
    BY <1>1 DEF WorkerState, WorkerPcs
  <2> HIDE DEF moved
  <2> QED BY <1>1, <2>1 DEF WorkerState, WorkerPcs
<1>3. worker' = [worker EXCEPT ![w] = v]
  OBVIOUS
<1> HIDE DEF v
<1>4. worker' \in [Workers -> WorkerState] /\ Turns(w, v.pc, v.read, v.on, v.inv, v.todo)
  BY <1>1, <1>2, <1>3, Turned
<1> QED BY <1>2, <1>4

LEMMA LeaveTurns ==
  ASSUME BaseInv, NEW w \in Workers, worker[w].pc # "idle", NEW pc \in WorkerPcs,
         worker' = [worker EXCEPT ![w].pc = pc, ![w].inv = Null]
  PROVE  /\ worker' \in [Workers -> WorkerState]
         /\ Turns(w, pc, worker[w].read, worker[w].on, Null, worker[w].todo)
<1> DEFINE moved == [worker[w] EXCEPT !.pc = pc]
           v == [moved EXCEPT !.inv = Null]
<1>1. worker[w] \in WorkerState /\ worker[w].pc # "idle"
  BY DEF BaseInv, WorkersOK
<1>2. /\ v \in WorkerState /\ v.job = worker[w].job /\ v.owner = worker[w].owner
      /\ v.pc = pc /\ v.read = worker[w].read /\ v.on = worker[w].on /\ v.inv = Null /\ v.todo = worker[w].todo
  <2>1. /\ moved \in WorkerState /\ moved.job = worker[w].job /\ moved.owner = worker[w].owner /\ moved.pc = pc
        /\ moved.read = worker[w].read /\ moved.on = worker[w].on /\ moved.inv = worker[w].inv /\ moved.todo = worker[w].todo
    BY <1>1 DEF WorkerState, WorkerPcs
  <2> HIDE DEF moved
  <2> QED BY <1>1, <2>1 DEF WorkerState, WorkerPcs
<1>3. worker' = [worker EXCEPT ![w] = v]
  OBVIOUS
<1> HIDE DEF v
<1>4. worker' \in [Workers -> WorkerState] /\ Turns(w, v.pc, v.read, v.on, v.inv, v.todo)
  BY <1>1, <1>2, <1>3, Turned
<1> QED BY <1>2, <1>4

\* What each handler does to its worker.
LEMMA ReadPointerDoes ==
  ASSUME BaseInv, NEW w \in Workers, ReadPointer(w)
  PROVE  /\ worker[w].pc = "taken" /\ worker[w].job.kind = "render" /\ worker[w].job.inv \in Invoices
         /\ worker' \in [Workers -> WorkerState]
         /\ \E pc \in {"reading", "chaining"} :
              /\ Turns(w, pc, worker[w].read, worker[w].on, worker[w].inv, worker[w].todo)
              /\ pc = "chaining" <=> invoice[worker[w].job.inv].pdf # Null
<1>1. worker[w].pc = "taken" /\ worker[w].job.kind = "render" /\ worker[w].job.inv \in Invoices
  BY AtHand DEF ReadPointer, At, WellMade
<1>2. PICK pc \in {"reading", "chaining"} :
        Goto(w, pc) /\ (pc = "chaining" <=> invoice[worker[w].job.inv].pdf # Null)
  BY DEF ReadPointer
<1>3. /\ worker' \in [Workers -> WorkerState]
      /\ Turns(w, pc, worker[w].read, worker[w].on, worker[w].inv, worker[w].todo)
  BY <1>1, <1>2, GotoTurns DEF WorkerPcs
<1> QED BY <1>1, <1>2, <1>3

LEMMA ReadDocumentDoes ==
  ASSUME BaseInv, NEW w \in Workers, ReadDocument(w)
  PROVE  /\ worker[w].pc = "reading" /\ worker[w].job.kind = "render" /\ worker[w].job.inv \in Invoices
         /\ \/ GiveUp(w)
            \/ /\ worker' \in [Workers -> WorkerState]
               /\ Turns(w, "rendering", invoice[worker[w].job.inv].total, worker[w].on, worker[w].inv, worker[w].todo)
               /\ UNCHANGED <<today, invoice, queue, finished, log, outside, history, edits, faults>>
<1>1. worker[w].pc = "reading" /\ worker[w].job.kind = "render" /\ worker[w].job.inv \in Invoices
  BY AtHand DEF ReadDocument, At, WellMade
<1>2. CASE Live(worker[w].job.inv)
  <2>1. invoice[worker[w].job.inv].total \in (0..MaxTotal) \cup {Null}
    BY <1>1 DEF BaseInv, RowsOK, Invoice
  <2>2. /\ worker' = [worker EXCEPT ![w].pc = "rendering", ![w].read = invoice[worker[w].job.inv].total]
        /\ UNCHANGED <<today, invoice, queue, finished, log, outside, history, edits, faults>>
    BY <1>2 DEF ReadDocument
  <2> QED BY <1>1, <2>1, <2>2, ReadTurns DEF WorkerPcs
<1> QED BY <1>1, <1>2 DEF ReadDocument

LEMMA LinkPdfDoes ==
  ASSUME BaseInv, NEW w \in Workers, LinkPdf(w)
  PROVE  /\ worker[w].pc = "rendering" /\ worker[w].job.kind = "render" /\ worker[w].job.inv \in Invoices
         /\ worker' \in [Workers -> WorkerState]
         /\ Turns(w, "chaining", Null, worker[w].on, worker[w].inv, worker[w].todo)
         /\ \E row \in Invoice :
              /\ invoice' = [invoice EXCEPT ![worker[w].job.inv] = row]
              /\ row = [invoice[worker[w].job.inv] EXCEPT !.pdf = row.pdf]
              /\ row.pdf = IF invoice[worker[w].job.inv].pdf = Null THEN worker[w].read
                             ELSE invoice[worker[w].job.inv].pdf
<1>1. worker[w].pc = "rendering" /\ worker[w].job.kind = "render" /\ worker[w].job.inv \in Invoices
  BY AtHand DEF LinkPdf, At, WellMade
<1>2. worker' = [worker EXCEPT ![w].pc = "chaining", ![w].read = Null]
  BY DEF LinkPdf
<1>3. /\ worker' \in [Workers -> WorkerState]
      /\ Turns(w, "chaining", Null, worker[w].on, worker[w].inv, worker[w].todo)
  BY <1>1, <1>2, ReadTurns DEF WorkerPcs
<1> DEFINE i == worker[w].job.inv
           pdf == IF invoice[i].pdf = Null THEN worker[w].read ELSE invoice[i].pdf
           row == [invoice[i] EXCEPT !.pdf = pdf]
<1>4. invoice[i] \in Invoice /\ pdf \in (0..MaxTotal) \cup {Null}
  BY <1>1 DEF BaseInv, RowsOK, WorkersOK, WorkerState, Invoice
<1>5. invoice' = [invoice EXCEPT ![i] = row]
  BY DEF LinkPdf
<1> HIDE DEF pdf
<1>6. row \in Invoice /\ row.pdf = pdf
  BY <1>4 DEF Invoice
<1>7. row = [invoice[i] EXCEPT !.pdf = row.pdf]
  BY <1>6
<1> HIDE DEF row
<1> QED BY <1>1, <1>3, <1>5, <1>6, <1>7 DEF pdf

LEMMA ClaimReminderDoes ==
  ASSUME BaseInv, NEW w \in Workers, ClaimReminder(w)
  PROVE  /\ worker[w].pc = "taken" /\ worker[w].job.kind = "remind" /\ worker[w].job.inv \in Invoices
         /\ \/ Return(w) /\ UNCHANGED invoice
            \/ /\ worker' \in [Workers -> WorkerState]
               /\ Turns(w, "composing", worker[w].read, today, worker[w].inv, worker[w].todo)
               /\ invoice[worker[w].job.inv].reminded # today
               /\ invoice' = Claimed(worker[w].job.inv)
               /\ UNCHANGED finished
<1>1. worker[w].pc = "taken" /\ worker[w].job.kind = "remind" /\ worker[w].job.inv \in Invoices
  BY AtHand DEF ClaimReminder, At, WellMade
<1>2. CASE Claimable(worker[w].job.inv)
  <2>1. /\ worker' = [worker EXCEPT ![w].pc = "composing", ![w].on = today] /\ today \in Days
        /\ invoice[worker[w].job.inv].reminded # today
        /\ invoice' = Claimed(worker[w].job.inv) /\ UNCHANGED finished
    BY <1>2 DEF ClaimReminder, Claimable, BaseInv, RowsOK
  <2>2. /\ worker' \in [Workers -> WorkerState]
        /\ Turns(w, "composing", worker[w].read, today, worker[w].inv, worker[w].todo)
    BY <1>1, <2>1, ClaimTurns DEF WorkerPcs
  <2> QED BY <1>1, <2>1, <2>2
<1> QED BY <1>1, <1>2 DEF ClaimReminder

LEMMA StartMailDoes ==
  ASSUME BaseInv, NEW w \in Workers, StartMail(w)
  PROVE  /\ worker[w].pc = "taken" /\ worker[w].job.kind = "mail"
         /\ worker' \in [Workers -> WorkerState]
         /\ Turns(w, "composing", worker[w].read, worker[w].on, worker[w].inv, worker[w].todo)
BY GotoTurns DEF StartMail, At, WorkerPcs

LEMMA ComposeMailDoes ==
  ASSUME BaseInv, NEW w \in Workers, ComposeMail(w)
  PROVE  /\ worker[w].pc = "composing" /\ Mailing(worker[w].job)
         /\ \/ GiveUp(w)
            \/ /\ worker' \in [Workers -> WorkerState]
               /\ Turns(w, "attaching", worker[w].read, worker[w].on, worker[w].inv, worker[w].todo)
               /\ UNCHANGED <<today, invoice, queue, finished, log, outside, history, edits, faults>>
<1>1. worker[w].pc = "composing" /\ Mailing(worker[w].job)
  BY DEF ComposeMail, At, Mailing
<1>2. GiveUp(w) \/ (/\ Goto(w, "attaching")
                    /\ UNCHANGED <<today, invoice, queue, finished, log, outside, history, edits, faults>>)
  BY DEF ComposeMail
<1> QED BY <1>1, <1>2, GotoTurns DEF WorkerPcs

LEMMA AttachPdfDoes ==
  ASSUME BaseInv, NEW w \in Workers, AttachPdf(w)
  PROVE  /\ worker[w].pc = "attaching" /\ Mailing(worker[w].job) /\ worker[w].job.inv \in Invoices
         /\ worker' \in [Workers -> WorkerState]
         /\ \E pdf \in (0..MaxTotal) \cup {Null} :
              /\ Turns(w, "checking", pdf, worker[w].on, worker[w].inv, worker[w].todo)
              /\ Live(worker[w].job.inv) => pdf = invoice[worker[w].job.inv].pdf
<1>1. worker[w].pc = "attaching" /\ Mailing(worker[w].job) /\ worker[w].job.inv \in Invoices
  BY AtHand DEF AttachPdf, At, Mailing, WellMade
<1>2. PICK pdf \in (0..MaxTotal) \cup {Null} :
        /\ worker' = [worker EXCEPT ![w].pc = "checking", ![w].read = pdf]
        /\ Live(worker[w].job.inv) => pdf = invoice[worker[w].job.inv].pdf
  <2>1. invoice[worker[w].job.inv].pdf \in (0..MaxTotal) \cup {Null}
    BY <1>1 DEF BaseInv, RowsOK, Invoice
  <2> QED BY <2>1 DEF AttachPdf
<1>3. /\ worker' \in [Workers -> WorkerState]
      /\ Turns(w, "checking", pdf, worker[w].on, worker[w].inv, worker[w].todo)
  BY <1>1, <1>2, ReadTurns DEF WorkerPcs
<1> QED BY <1>1, <1>2, <1>3

LEMMA CheckSentDoes ==
  ASSUME BaseInv, NEW w \in Workers, CheckSent(w)
  PROVE  /\ worker[w].pc = "checking" /\ Mailing(worker[w].job)
         /\ \/ Of(w) \in mailed /\ Return(w)
            \/ /\ Of(w) \notin mailed /\ UNCHANGED finished
               /\ worker' \in [Workers -> WorkerState]
               /\ Turns(w, "loading", worker[w].read, worker[w].on, worker[w].inv, worker[w].todo)
<1>1. worker[w].pc = "checking" /\ Mailing(worker[w].job)
  BY DEF CheckSent, At, Mailing
<1>2. \/ Of(w) \in mailed /\ Return(w)
      \/ Of(w) \notin mailed /\ UNCHANGED finished /\ Goto(w, "loading")
  BY DEF CheckSent
<1> QED BY <1>1, <1>2, GotoTurns DEF WorkerPcs

LEMMA LoadAttachmentDoes ==
  ASSUME BaseInv, NEW w \in Workers, LoadAttachment(w)
  PROVE  /\ worker[w].pc = "loading" /\ Mailing(worker[w].job) /\ Of(w) \in Mails
         /\ worker' \in [Workers -> WorkerState]
         /\ \E read \in (0..MaxTotal) \cup {Null} :
              /\ Turns(w, "sending", read, worker[w].on, worker[w].inv, worker[w].todo)
              /\ read = worker[w].read \/ Of(w) \in unread'
<1>1. worker[w].pc = "loading" /\ Mailing(worker[w].job)
  BY DEF LoadAttachment, At, Mailing
<1>2. CASE Goto(w, "sending")
  <2>1. worker[w].read \in (0..MaxTotal) \cup {Null}
    BY DEF BaseInv, WorkersOK, WorkerState
  <2>2. /\ worker' \in [Workers -> WorkerState]
        /\ Turns(w, "sending", worker[w].read, worker[w].on, worker[w].inv, worker[w].todo)
    BY <1>1, <1>2, GotoTurns DEF WorkerPcs
  <2> QED BY <1>1, <2>1, <2>2, AtHand
<1>3. CASE /\ worker' = [worker EXCEPT ![w].pc = "sending", ![w].read = Null]
           /\ unread' = unread \cup {Of(w)}
  <2>1. /\ worker' \in [Workers -> WorkerState]
        /\ Turns(w, "sending", Null, worker[w].on, worker[w].inv, worker[w].todo)
    BY <1>1, <1>3, ReadTurns DEF WorkerPcs
  <2> QED BY <1>1, <1>3, <2>1, AtHand
<1> QED BY <1>2, <1>3 DEF LoadAttachment

LEMMA DeliverDoes ==
  ASSUME BaseInv, NEW w \in Workers, Deliver(w)
  PROVE  /\ worker[w].pc = "sending" /\ Mailing(worker[w].job) /\ Of(w) \in Mails
         /\ worker' \in [Workers -> WorkerState]
         /\ Turns(w, "accepted", worker[w].read, worker[w].on, worker[w].inv, worker[w].todo)
<1>1. worker[w].pc = "sending" /\ Mailing(worker[w].job)
  BY DEF Deliver, At, Mailing
<1>2. Goto(w, "accepted")
  BY DEF Deliver
<1> QED BY <1>1, <1>2, AtHand, GotoTurns DEF WorkerPcs

LEMMA FindOverdueDoes ==
  ASSUME BaseInv, NEW w \in Workers, FindOverdue(w)
  PROVE  /\ worker[w].pc = "taken" /\ worker[w].job.kind = "overdueSweep"
         /\ \/ Return(w) /\ UNCHANGED resent
            \/ \E todo \in SUBSET (Invoices \ announced) :
                 /\ worker' \in [Workers -> WorkerState] /\ UNCHANGED finished
                 /\ Turns(w, "announcing", worker[w].read, worker[w].on, worker[w].inv, todo)
                 /\ resent' = resent \cup {<<i, Null>> : i \in {k \in todo : \E v \in Workers : Unannounced(v, k)}}
<1>1. worker[w].pc = "taken" /\ worker[w].job.kind = "overdueSweep"
  BY DEF FindOverdue, At
<1>2. ASSUME NEW todo \in SUBSET (Invoices \ announced),
             worker' = [worker EXCEPT ![w].pc = "announcing", ![w].todo = todo]
      PROVE  /\ worker' \in [Workers -> WorkerState]
             /\ Turns(w, "announcing", worker[w].read, worker[w].on, worker[w].inv, todo)
  BY <1>1, <1>2, TodoTurns DEF WorkerPcs
<1> DEFINE overdue == {i \in Invoices : Overdue(i)}
           todo == overdue \ announced
<1>3. \/ Return(w) /\ UNCHANGED resent
      \/ /\ worker' = [worker EXCEPT ![w].pc = "announcing", ![w].todo = todo] /\ UNCHANGED finished
         /\ resent' = resent \cup {<<i, Null>> : i \in {k \in todo : \E v \in Workers : Unannounced(v, k)}}
  BY DEF FindOverdue
<1>4. todo \in SUBSET (Invoices \ announced)
  OBVIOUS
<1> HIDE DEF todo
<1> QED BY <1>1, <1>2, <1>3, <1>4

LEMMA AuditOverdueDoes ==
  ASSUME BaseInv, NEW w \in Workers, NEW i \in Invoices, AuditOverdue(w, i)
  PROVE  /\ worker[w].pc = "announcing" /\ worker' \in [Workers -> WorkerState]
         /\ Turns(w, "emitting", worker[w].read, worker[w].on, i, worker[w].todo \ {i})
BY VisitTurns DEF AuditOverdue, WorkerPcs

LEMMA EmitOverdueDoes ==
  ASSUME BaseInv, NEW w \in Workers, EmitOverdue(w)
  PROVE  /\ worker[w].pc = "emitting" /\ worker[w].inv \in Invoices /\ worker' \in [Workers -> WorkerState]
         /\ Turns(w, "announcing", worker[w].read, worker[w].on, Null, worker[w].todo)
BY LeaveTurns DEF EmitOverdue, WorkerPcs, BaseInv, WorkersOK, Place

LEMMA AssessFeesDoes ==
  ASSUME BaseInv, NEW w \in Workers, AssessFees(w)
  PROVE  /\ worker[w].pc = "announcing" /\ worker' \in [Workers -> WorkerState]
         /\ \E todo \in SUBSET Invoices :
              Turns(w, "charging", worker[w].read, worker[w].on, worker[w].inv, todo)
<1> DEFINE todo == {i \in Invoices : Overdue(i) /\ ~invoice[i].charged}
<1>1. worker[w].pc = "announcing" /\ worker' = [worker EXCEPT ![w].pc = "charging", ![w].todo = todo]
  BY DEF AssessFees
<1>2. todo \in SUBSET Invoices
  OBVIOUS
<1> HIDE DEF todo
<1> QED BY <1>1, <1>2, TodoTurns DEF WorkerPcs

LEMMA ChargeLateFeeDoes ==
  ASSUME BaseInv, NEW w \in Workers, NEW i \in Invoices, ChargeLateFee(w, i)
  PROVE  /\ worker[w].pc = "charging" /\ worker' \in [Workers -> WorkerState]
         /\ \/ /\ ~invoice[i].charged /\ invoice[i].status = "sent"
               /\ invoice' = [invoice EXCEPT ![i] = Repriced(invoice[i])]
               /\ overtaken' = overtaken \cup ({i} \cap Rendering)
               /\ Turns(w, "charged", worker[w].read, worker[w].on, i, worker[w].todo \ {i})
            \/ /\ UNCHANGED <<invoice, overtaken>>
               /\ Turns(w, "charging", worker[w].read, worker[w].on, worker[w].inv, worker[w].todo \ {i})
<1>1. worker[w].pc = "charging"
  BY DEF ChargeLateFee
<1>2. CASE invoice[i].status = "sent" /\ Live(i) /\ ~invoice[i].charged
  <2>1. /\ invoice' = [invoice EXCEPT ![i] = Repriced(@)]
        /\ overtaken' = overtaken \cup ({i} \cap Rendering)
        /\ worker' = [worker EXCEPT ![w].pc = "charged", ![w].inv = i, ![w].todo = @ \ {i}]
    BY <1>2 DEF ChargeLateFee
  <2> QED BY <1>1, <1>2, <2>1, VisitTurns DEF WorkerPcs
<1>3. CASE ~(invoice[i].status = "sent" /\ Live(i) /\ ~invoice[i].charged)
  <2>1. UNCHANGED <<invoice, overtaken>> /\ worker' = [worker EXCEPT ![w].todo = @ \ {i}]
    BY <1>3 DEF ChargeLateFee
  <2>2. /\ worker' \in [Workers -> WorkerState]
        /\ Turns(w, worker[w].pc, worker[w].read, worker[w].on, worker[w].inv, worker[w].todo \ {i})
    BY <1>1, <2>1, StrikeTurns
  <2> QED BY <1>1, <2>1, <2>2
<1> QED BY <1>2, <1>3

LEMMA RequestRenderDoes ==
  ASSUME BaseInv, NEW w \in Workers, RequestRender(w)
  PROVE  /\ worker[w].pc = "charged" /\ worker[w].inv \in Invoices /\ worker' \in [Workers -> WorkerState]
         /\ Turns(w, "charging", worker[w].read, worker[w].on, Null, worker[w].todo)
BY LeaveTurns DEF RequestRender, WorkerPcs, BaseInv, WorkersOK, Place

-----------------------------------------------------------------------------
(* BaseInv. *)

LEMMA TurnPlaced ==
  ASSUME BaseInv, NEW w \in Workers, NEW pc, NEW read, NEW on, NEW inv, NEW todo,
         Turns(w, pc, read, on, inv, todo), worker' \in [Workers -> WorkerState], pc # "idle",
         pc \in {"reading", "rendering", "chaining"} => worker[w].job.kind = "render",
         pc \in Claiming => Mailing(worker[w].job),
         pc \in {"announcing", "emitting", "charging", "charged"} =>
           \/ worker[w].job.kind = "overdueSweep"
           \/ worker[w].pc \in {"announcing", "emitting", "charging", "charged"},
         pc \in {"emitting", "charged"} => inv \in Invoices
  PROVE  WorkersOK'
<1>1. worker[w].pc # "idle" /\ Place(worker[w])
  BY DEF Turns, BaseInv, WorkersOK
<1>2. Place(worker'[w])
  BY <1>1 DEF Place, Turns
<1>3. \A u \in Workers : Place(worker'[u])
  BY <1>2 DEF Turns, BaseInv, WorkersOK
<1> QED BY <1>3 DEF WorkersOK

\* Only a worker has moved.
LEMMA StillBase ==
  ASSUME BaseInv, WorkersOK',
         UNCHANGED <<today, invoice, queue, finished, log, outside, history, edits, faults>>
  PROVE  BaseInv'
BY DEF BaseInv, RowsOK, WaitingOK, DoneOK, LogOK, OutsideOK, HistoryOK, LeftOK, EditsOK, FaultsOK,
       log, outside, history

LEMMA GiveUpBase ==
  ASSUME BaseInv, NEW w \in Workers, worker[w].pc # "idle", GiveUp(w)
  PROVE  BaseInv'
<1>1. WorkersOK' /\ DoneOK'
  BY Returned DEF GiveUp
<1>2. LeftOK'
  BY AtHand DEF GiveUp, BaseInv, LeftOK
<1> QED BY <1>1, <1>2 DEF GiveUp, BaseInv, RowsOK, WaitingOK, LogOK, OutsideOK, HistoryOK, EditsOK,
                          FaultsOK, log, outside

\* What an assignment to the row of an invoice must keep.
LEMMA RowBase ==
  ASSUME BaseInv, NEW i \in Invoices, NEW row \in Invoice, invoice' = [invoice EXCEPT ![i] = row],
         Sane(row), UNCHANGED today
  PROVE  RowsOK' /\ invoice'[i] = row /\ \A k \in Invoices : k # i => invoice'[k] = invoice[k]
<1>1. RowsOK
  BY DEF BaseInv
<1>2. /\ invoice' \in [Invoices -> Invoice] /\ invoice'[i] = row
      /\ \A k \in Invoices : k # i => invoice'[k] = invoice[k]
  BY <1>1, InvoiceReplaced
<1> QED BY <1>1, <1>2 DEF RowsOK

LEMMA RenderStepBase ==
  ASSUME BaseInv, NEW w \in Workers,
         ReadPointer(w) \/ ReadDocument(w) \/ LinkPdf(w) \/ ChainMail(w)
  PROVE  BaseInv'
<1>1. CASE ReadPointer(w)
  <2>1. WorkersOK'
    BY <1>1, ReadPointerDoes, TurnPlaced
  <2> QED BY <1>1, <2>1, StillBase DEF ReadPointer
<1>2. CASE ReadDocument(w)
  <2>1. ASSUME ~GiveUp(w) PROVE WorkersOK'
    BY <1>2, <2>1, ReadDocumentDoes, TurnPlaced
  <2> QED BY <1>2, <2>1, ReadDocumentDoes, StillBase, GiveUpBase
<1>3. CASE LinkPdf(w)
  <2>1. WorkersOK'
    BY <1>3, LinkPdfDoes, TurnPlaced
  <2>2. PICK row \in Invoice :
          /\ invoice' = [invoice EXCEPT ![worker[w].job.inv] = row]
          /\ row = [invoice[worker[w].job.inv] EXCEPT !.pdf = row.pdf]
    BY <1>3, LinkPdfDoes
  <2>3. Sane(row)
    <3>1. invoice[worker[w].job.inv] \in Invoice /\ Sane(invoice[worker[w].job.inv])
      BY <1>3, LinkPdfDoes DEF BaseInv, RowsOK
    <3> QED BY <2>2, <3>1 DEF Invoice, Sane
  <2>4. RowsOK'
    BY <1>3, <2>2, <2>3, LinkPdfDoes, RowBase DEF LinkPdf
  <2> QED BY <1>3, <2>1, <2>4 DEF LinkPdf, BaseInv, WaitingOK, DoneOK, LogOK, OutsideOK, HistoryOK,
                                  LeftOK, EditsOK, FaultsOK, log, outside, history
<1>4. CASE ChainMail(w)
  <2> DEFINE j == worker[w].job
             jobs == IF j.occ = Null THEN {} ELSE {Job("mail", j.inv, j.occ, 0)}
  <2>1. worker[w].pc # "idle" /\ j.inv \in Invoices /\ j.occ \in Occasions \cup {Null}
    BY <1>4, AtHand DEF ChainMail, At, WellMade
  <2>2. Enqueue(jobs) /\ Return(w)
    BY <1>4 DEF ChainMail
  <2>3. jobs \subseteq Jobs /\ \A k \in jobs : WellMade(k)
    BY <2>1, MailTyped
  <2>4. IsFiniteSet(jobs)
    BY FS_EmptySet, FS_Singleton
  <2> HIDE DEF jobs
  <2>5. WaitingOK' /\ LeftOK' /\ FaultsOK' /\ WorkersOK' /\ DoneOK'
    BY <2>1, <2>2, <2>3, <2>4, Enqueued, Returned
  <2> QED BY <1>4, <2>5 DEF ChainMail, BaseInv, RowsOK, LogOK, OutsideOK, HistoryOK, EditsOK, log, outside
<1> QED BY <1>1, <1>2, <1>3, <1>4

LEMMA MailStepBase ==
  ASSUME BaseInv, NEW w \in Workers,
         \/ ClaimReminder(w) \/ StartMail(w) \/ ComposeMail(w) \/ AttachPdf(w)
         \/ CheckSent(w) \/ LoadAttachment(w) \/ Deliver(w) \/ RecordSent(w)
  PROVE  BaseInv'
<1>1. CASE ClaimReminder(w)
  <2>1. WorkersOK' /\ DoneOK'
    BY <1>1, ClaimReminderDoes, TurnPlaced, Returned DEF Mailing, BaseInv, DoneOK
  <2>2. RowsOK'
    <3>1. CASE UNCHANGED invoice
      BY <1>1, <3>1 DEF ClaimReminder, BaseInv, RowsOK
    <3>2. CASE invoice' = Claimed(worker[w].job.inv)
      <4> DEFINE i == worker[w].job.inv
                 row == [invoice[i] EXCEPT !.reminded = today]
      <4>1. i \in Invoices /\ invoice[i] \in Invoice /\ Sane(invoice[i]) /\ today \in Days
        BY <1>1, ClaimReminderDoes DEF BaseInv, RowsOK
      <4>2. row \in Invoice /\ Sane(row)
        BY <4>1 DEF Invoice, Sane
      <4>3. invoice' = [invoice EXCEPT ![i] = row]
        BY <3>2 DEF Claimed
      <4> HIDE DEF row, i
      <4> QED BY <1>1, <4>1, <4>2, <4>3, RowBase DEF ClaimReminder
    <3> QED BY <1>1, <3>1, <3>2, ClaimReminderDoes
  <2> QED BY <1>1, <2>1, <2>2 DEF ClaimReminder, BaseInv, WaitingOK, LogOK, OutsideOK, HistoryOK,
                                  LeftOK, EditsOK, FaultsOK, log, outside, history
<1>2. CASE StartMail(w)
  <2>1. WorkersOK'
    BY <1>2, StartMailDoes, TurnPlaced DEF Mailing
  <2> QED BY <1>2, <2>1, StillBase DEF StartMail
<1>3. CASE ComposeMail(w)
  <2>1. ASSUME ~GiveUp(w) PROVE WorkersOK'
    BY <1>3, <2>1, ComposeMailDoes, TurnPlaced
  <2> QED BY <1>3, <2>1, ComposeMailDoes, StillBase, GiveUpBase
<1>4. CASE AttachPdf(w)
  <2>1. WorkersOK'
    <3>1. PICK pdf \in (0..MaxTotal) \cup {Null} :
            Turns(w, "checking", pdf, worker[w].on, worker[w].inv, worker[w].todo)
      BY <1>4, AttachPdfDoes
    <3> QED BY <1>4, <3>1, AttachPdfDoes, TurnPlaced
  <2>2. LeftOK'
    BY <1>4, AttachPdfDoes, AtHand DEF AttachPdf, BaseInv, LeftOK
  <2> QED BY <1>4, <2>1, <2>2 DEF AttachPdf, BaseInv, RowsOK, WaitingOK, DoneOK, LogOK, OutsideOK, HistoryOK,
                                  EditsOK, FaultsOK, log, outside
<1>5. CASE CheckSent(w)
  <2>1. WorkersOK' /\ DoneOK'
    BY <1>5, CheckSentDoes, TurnPlaced, Returned DEF BaseInv, DoneOK
  <2> QED BY <1>5, <2>1 DEF CheckSent, BaseInv, RowsOK, WaitingOK, LogOK, OutsideOK, HistoryOK, LeftOK,
                            EditsOK, FaultsOK, log, outside, history
<1>6. CASE Deliver(w)
  <2>1. WorkersOK'
    BY <1>6, DeliverDoes, TurnPlaced
  <2>2. OutsideOK'
    <3> DEFINE again == Deduplicates /\ accepted[Of(w)] > 0
    <3>1. accepted' \in [Mails -> Nat] /\ nudged' \in [Invoices \X Days -> Nat]
      <4>1. OutsideOK /\ accepted[Of(w)] + 1 \in Nat
        BY <1>6, DeliverDoes DEF BaseInv, OutsideOK
      <4>2. accepted' = [accepted EXCEPT ![Of(w)] = IF again THEN @ ELSE @ + 1]
        BY <1>6 DEF Deliver
      <4>3. nudged' = IF worker[w].on = Null \/ again THEN nudged
                        ELSE [nudged EXCEPT ![<<Of(w)[1], worker[w].on>>] = @ + 1]
        BY <1>6 DEF Deliver
      <4> HIDE DEF again
      <4>4. accepted' \in [Mails -> Nat]
        BY <4>1, <4>2 DEF OutsideOK
      <4>5. nudged' \in [Invoices \X Days -> Nat]
        <5>1. CASE worker[w].on = Null \/ again
          BY <4>1, <4>3, <5>1 DEF OutsideOK
        <5>2. CASE ~(worker[w].on = Null \/ again)
          <6> DEFINE c == <<Of(w)[1], worker[w].on>>
          <6>1. c \in Invoices \X Days
            BY <1>6, <5>2, DeliverDoes DEF BaseInv, WorkersOK, WorkerState, Mails
          <6>2. nudged' = [nudged EXCEPT ![c] = @ + 1]
            BY <4>3, <5>2
          <6> HIDE DEF c
          <6> QED BY <4>1, <6>1, <6>2 DEF OutsideOK
        <5> QED BY <5>1, <5>2
      <4> QED BY <4>4, <4>5
    <3>2. heard' = heard /\ bare' \in SUBSET Mails /\ unread' = unread
      BY <1>6, DeliverDoes DEF Deliver, BaseInv, OutsideOK
    <3> QED BY <3>1, <3>2 DEF BaseInv, OutsideOK
  <2> QED BY <1>6, <2>1, <2>2 DEF Deliver, BaseInv, RowsOK, WaitingOK, DoneOK, LogOK, HistoryOK, LeftOK,
                                  EditsOK, FaultsOK, log, history
<1>7. CASE RecordSent(w)
  <2>1. worker[w].pc # "idle" /\ Of(w) \in Mails /\ Return(w)
    BY <1>7, AtHand DEF RecordSent, At, Mailing
  <2>2. WorkersOK' /\ DoneOK'
    BY <2>1, Returned
  <2> QED BY <1>7, <2>1, <2>2 DEF RecordSent, BaseInv, RowsOK, WaitingOK, LogOK, OutsideOK, HistoryOK, LeftOK,
                                  EditsOK, FaultsOK, outside, history
<1>8. CASE LoadAttachment(w)
  <2>1. PICK read \in (0..MaxTotal) \cup {Null} :
          Turns(w, "sending", read, worker[w].on, worker[w].inv, worker[w].todo)
    BY <1>8, LoadAttachmentDoes
  <2>2. WorkersOK'
    BY <1>8, <2>1, LoadAttachmentDoes, TurnPlaced
  <2>3. /\ UNCHANGED <<heard, accepted, nudged, bare>>
        /\ unread' = unread \/ unread' = unread \cup {Of(w)}
        /\ faults' = faults \/ (faults < MaxFaults /\ faults' = faults + 1)
    BY <1>8 DEF LoadAttachment
  <2>4. OutsideOK' /\ FaultsOK'
    BY <1>8, <2>3, LoadAttachmentDoes DEF BaseInv, OutsideOK, FaultsOK
  <2> QED BY <1>8, <2>2, <2>4 DEF LoadAttachment, BaseInv, RowsOK, WaitingOK, DoneOK, LogOK, HistoryOK, LeftOK,
                                  EditsOK, log, history
<1> QED BY <1>1, <1>2, <1>3, <1>4, <1>5, <1>6, <1>7, <1>8

\* A new total: the row is charged, and counts one change more.
LEMMA RepricedTyped ==
  ASSUME NEW row \in Invoice, row.total < MaxTotal
  PROVE  /\ Repriced(row) \in Invoice /\ Repriced(row).charged /\ Repriced(row).total = row.total + 1
         /\ Repriced(row).pdf = Null /\ Repriced(row).status = row.status
         /\ Repriced(row).reminded = row.reminded
<1>1. row.total + 1 \in 0..MaxTotal
  BY DEF Invoice
<1> DEFINE dearer == [row EXCEPT !.total = row.total + 1]
           charged == [dearer EXCEPT !.charged = TRUE]
<1>2. /\ dearer \in Invoice /\ dearer.total = row.total + 1 /\ dearer.status = row.status
      /\ dearer.reminded = row.reminded
  BY <1>1 DEF Invoice
<1> HIDE DEF dearer
<1>3. /\ charged \in Invoice /\ charged.total = row.total + 1 /\ charged.status = row.status
      /\ charged.reminded = row.reminded /\ charged.charged
  BY <1>2 DEF Invoice
<1> HIDE DEF charged
<1>4. Repriced(row) = [charged EXCEPT !.pdf = Null]
  BY DEF Repriced, charged, dearer
<1> QED BY <1>3, <1>4 DEF Invoice

LEMMA SweepStepBase ==
  ASSUME BaseInv, NEW w \in Workers,
         \/ FindOverdue(w) \/ EmitOverdue(w) \/ AssessFees(w) \/ RequestRender(w) \/ EndSweep(w)
         \/ \E i \in Invoices : AuditOverdue(w, i) \/ ChargeLateFee(w, i)
  PROVE  BaseInv'
<1>1. CASE FindOverdue(w)
  <2>1. WorkersOK' /\ DoneOK' /\ HistoryOK'
    <3>1. CASE Return(w) /\ UNCHANGED resent
      BY <1>1, <3>1, FindOverdueDoes, Returned DEF FindOverdue, BaseInv, HistoryOK
    <3>2. ASSUME NEW todo \in SUBSET (Invoices \ announced),
                 /\ worker' \in [Workers -> WorkerState] /\ UNCHANGED finished
                 /\ Turns(w, "announcing", worker[w].read, worker[w].on, worker[w].inv, todo)
                 /\ resent' = resent \cup {<<i, Null>> : i \in {k \in todo : \E v \in Workers : Unannounced(v, k)}}
          PROVE  WorkersOK' /\ DoneOK' /\ HistoryOK'
      <4>1. WorkersOK'
        BY <1>1, <3>2, FindOverdueDoes, TurnPlaced
      <4>2. DoneOK'
        BY <3>2 DEF BaseInv, DoneOK
      <4>3. {<<i, Null>> : i \in {k \in todo : \E v \in Workers : Unannounced(v, k)}} \subseteq Places
        BY DEF Places
      <4>4. HistoryOK'
        BY <1>1, <3>2, <4>3 DEF FindOverdue, BaseInv, HistoryOK
      <4> QED BY <4>1, <4>2, <4>4
    <3> QED BY <1>1, <3>1, <3>2, FindOverdueDoes
  <2> QED BY <1>1, <2>1 DEF FindOverdue, BaseInv, RowsOK, WaitingOK, LogOK, OutsideOK, LeftOK, EditsOK,
                            FaultsOK, log, outside
<1>2. CASE EmitOverdue(w)
  <2>1. WorkersOK'
    BY <1>2, EmitOverdueDoes, TurnPlaced
  <2>2. OutsideOK'
    <3>1. OutsideOK /\ worker[w].inv \in Invoices
      BY <1>2, EmitOverdueDoes DEF BaseInv
    <3>2. heard' \in [Invoices -> Nat]
      BY <1>2, <3>1 DEF EmitOverdue, OutsideOK
    <3> QED BY <1>2, <3>1, <3>2 DEF EmitOverdue, OutsideOK
  <2> QED BY <1>2, <2>1, <2>2 DEF EmitOverdue, BaseInv, RowsOK, WaitingOK, DoneOK, LogOK, HistoryOK, LeftOK,
                                  EditsOK, FaultsOK, log, history
<1>3. CASE AssessFees(w)
  <2>1. PICK todo \in SUBSET Invoices :
          Turns(w, "charging", worker[w].read, worker[w].on, worker[w].inv, todo)
    BY <1>3, AssessFeesDoes
  <2>2. WorkersOK'
    BY <1>3, <2>1, AssessFeesDoes, TurnPlaced
  <2> QED BY <1>3, <2>2, StillBase DEF AssessFees
<1>4. CASE RequestRender(w)
  <2>1. WorkersOK'
    BY <1>4, RequestRenderDoes, TurnPlaced
  <2> DEFINE j == Render(worker[w].inv, Null)
  <2>2. j \in Jobs /\ WellMade(j)
    BY <1>4, RequestRenderDoes, RenderTyped
  <2>3. Enqueue({j})
    BY <1>4 DEF RequestRender
  <2>4. IsFiniteSet({j})
    BY FS_Singleton
  <2> HIDE DEF j
  <2>5. WaitingOK' /\ LeftOK' /\ FaultsOK'
    BY <2>2, <2>3, <2>4, Enqueued
  <2> QED BY <1>4, <2>1, <2>5 DEF RequestRender, BaseInv, RowsOK, DoneOK, LogOK, OutsideOK, HistoryOK, EditsOK,
                                  log, outside
<1>5. CASE EndSweep(w)
  <2>1. WorkersOK' /\ DoneOK'
    BY <1>5, Returned DEF EndSweep
  <2> QED BY <1>5, <2>1 DEF EndSweep, BaseInv, RowsOK, WaitingOK, LogOK, OutsideOK, HistoryOK, LeftOK,
                            EditsOK, FaultsOK, log, outside, history
<1>6. ASSUME NEW i \in Invoices, AuditOverdue(w, i) PROVE BaseInv'
  <2>1. WorkersOK'
    BY <1>6, AuditOverdueDoes, TurnPlaced
  <2>2. LogOK'
    BY <1>6 DEF AuditOverdue, BaseInv, LogOK
  <2> QED BY <1>6, <2>1, <2>2 DEF AuditOverdue, BaseInv, RowsOK, WaitingOK, DoneOK, OutsideOK, HistoryOK, LeftOK,
                                  EditsOK, FaultsOK, outside, history
<1>7. ASSUME NEW i \in Invoices, ChargeLateFee(w, i) PROVE BaseInv'
  <2>1. WorkersOK'
    BY <1>7, ChargeLateFeeDoes, TurnPlaced
  <2>2. RowsOK' /\ overtaken' \subseteq Invoices
    <3>1. CASE UNCHANGED <<invoice, overtaken>>
      BY <1>7, <3>1 DEF ChargeLateFee, BaseInv, RowsOK, HistoryOK
    <3>2. CASE /\ ~invoice[i].charged /\ invoice[i].status = "sent"
               /\ invoice' = [invoice EXCEPT ![i] = Repriced(invoice[i])]
               /\ overtaken' = overtaken \cup ({i} \cap Rendering)
      <4>1. invoice[i] \in Invoice /\ invoice[i].total < MaxTotal
        BY <3>2 DEF BaseInv, RowsOK, Sane
      <4>2. Repriced(invoice[i]) \in Invoice /\ Sane(Repriced(invoice[i]))
        BY <3>2, <4>1, RepricedTyped DEF Sane
      <4>3. UNCHANGED today
        BY <1>7 DEF ChargeLateFee
      <4>4. RowsOK'
        BY <3>2, <4>2, <4>3, RowBase
      <4> QED BY <3>2, <4>4 DEF BaseInv, HistoryOK
    <3> QED BY <1>7, <3>1, <3>2, ChargeLateFeeDoes
  <2> QED BY <1>7, <2>1, <2>2 DEF ChargeLateFee, BaseInv, WaitingOK, DoneOK, LogOK, OutsideOK, HistoryOK,
                                  LeftOK, EditsOK, FaultsOK, log, outside
<1> QED BY <1>1, <1>2, <1>3, <1>4, <1>5, <1>6, <1>7

\* The reminders of one day, one for each invoice chosen.
LEMMA RemindersFinite ==
  ASSUME NEW occ, NEW chosen \in SUBSET Invoices,
         NEW jobs, \A j : j \in jobs <=> \E i \in chosen : j = Job("remind", i, occ, 0)
  PROVE  IsFiniteSet(jobs)
<1>1. IsFiniteSet(chosen)
  BY FS_Subset
<1>2. [i \in chosen |-> Job("remind", i, occ, 0)] \in Surjection(chosen, jobs)
  BY DEF Surjection
<1> QED BY <1>1, <1>2, FS_Surjection

LEMMA ReminderSweepDoes ==
  ASSUME BaseInv, NEW w \in Workers, RunReminderSweep(w)
  PROVE  /\ worker[w].pc = "taken" /\ worker[w].job.kind = "reminderSweep" /\ Return(w)
         /\ \E jobs \in SUBSET Jobs :
              /\ Enqueue(jobs) /\ IsFiniteSet(jobs)
              /\ \A j \in jobs : WellMade(j) /\ j.kind = "remind" /\ Id(j) = j
              /\ \A j, k \in jobs : For(j) = For(k) => j = k
<1> DEFINE chosen == {k \in Invoices : invoice[k].status = "sent" /\ Live(k)}
           occ == ReminderOn[today]
           jobs == IF occ = Null THEN {} ELSE {Job("remind", i, occ, 0) : i \in chosen}
<1>1. worker[w].pc = "taken" /\ worker[w].job.kind = "reminderSweep" /\ Return(w) /\ Enqueue(jobs)
  BY DEF RunReminderSweep, At
<1>2. CASE occ = Null
  <2>1. jobs = {} /\ IsFiniteSet(jobs)
    BY <1>2, FS_EmptySet
  <2> QED BY <1>1, <2>1
<1>3. CASE occ # Null
  <2>1. occ \in Reminders
    BY <1>3 DEF Reminders, BaseInv, RowsOK
  <2>2. jobs = {Job("remind", i, occ, 0) : i \in chosen} /\ chosen \subseteq Invoices
    BY <1>3
  <2>3. /\ jobs \subseteq Jobs /\ IsFiniteSet(jobs) /\ \A j \in jobs : WellMade(j) /\ j.kind = "remind" /\ Id(j) = j
        /\ \A j, k \in jobs : For(j) = For(k) => j = k
    <3> HIDE DEF occ, chosen, jobs
    <3>1. jobs \subseteq Jobs /\ IsFiniteSet(jobs) /\ \A j \in jobs : WellMade(j) /\ j.kind = "remind" /\ Id(j) = j
      <4>1. chosen \in SUBSET Invoices /\ \A j : j \in jobs <=> \E i \in chosen : j = Job("remind", i, occ, 0)
        BY <2>2
      <4>2. IsFiniteSet(jobs)
        BY <4>1, RemindersFinite
      <4>3. ASSUME NEW j \in jobs PROVE j \in Jobs /\ WellMade(j) /\ j.kind = "remind" /\ Id(j) = j
        <5>1. PICK i \in Invoices : j = Job("remind", i, occ, 0)
          BY <4>1
        <5> QED BY <2>1, <5>1, RemindTyped
      <4> QED BY <4>2, <4>3
    <3>2. ASSUME NEW j \in jobs, NEW k \in jobs, For(j) = For(k) PROVE j = k
      <4>1. PICK i \in chosen : j = Job("remind", i, occ, 0)
        BY <2>2
      <4>2. PICK l \in chosen : k = Job("remind", l, occ, 0)
        BY <2>2
      <4>3. j.inv = i /\ k.inv = l
        BY <2>1, <2>2, <4>1, <4>2, RemindTyped
      <4> QED BY <3>2, <4>1, <4>2, <4>3 DEF For
    <3> QED BY <3>1, <3>2
  <2> HIDE DEF jobs
  <2> QED BY <1>1, <2>3
<1> QED BY <1>2, <1>3

LEMMA ReminderSweepBase ==
  ASSUME BaseInv, NEW w \in Workers, RunReminderSweep(w)
  PROVE  BaseInv'
<1>1. PICK jobs \in SUBSET Jobs : Enqueue(jobs) /\ IsFiniteSet(jobs) /\ \A j \in jobs : WellMade(j)
  BY ReminderSweepDoes
<1>2. WaitingOK' /\ LeftOK' /\ FaultsOK'
  BY <1>1, Enqueued
<1>3. WorkersOK' /\ DoneOK'
  BY ReminderSweepDoes, Returned
<1> QED BY <1>2, <1>3 DEF RunReminderSweep, BaseInv, RowsOK, LogOK, OutsideOK, HistoryOK, EditsOK, log, outside

Sweep(kind) == Job(kind, Null, Null, today + 1)

LEMMA NextDayDoes ==
  ASSUME BaseInv, NextDay
  PROVE  /\ today' = today + 1 /\ today' \in Days
         /\ queue' = queue \cup {Sweep("overdueSweep"), Sweep("reminderSweep")}
         /\ \A kind \in {"overdueSweep", "reminderSweep"} :
              Sweep(kind) \in Jobs /\ Sweep(kind).kind = kind /\ WellMade(Sweep(kind))
<1>1. today' = today + 1 /\ today' \in Days /\ today + 1 \in Nat
  BY DEF NextDay, BaseInv, RowsOK
<1>2. queue' = queue \cup {Sweep("overdueSweep"), Sweep("reminderSweep")}
  BY DEF NextDay, Sweep
<1>3. ASSUME NEW kind \in {"overdueSweep", "reminderSweep"}
      PROVE  Sweep(kind) \in Jobs /\ Sweep(kind).kind = kind /\ WellMade(Sweep(kind))
  <2>1. Sweep(kind) \in Jobs /\ Sweep(kind).kind = kind
    BY <1>1, JobTyped DEF Sweep
  <2> QED BY <2>1 DEF WellMade
<1> QED BY <1>1, <1>2, <1>3

LEMMA NextDayBase ==
  ASSUME BaseInv, NextDay
  PROVE  BaseInv'
<1>1. RowsOK'
  BY NextDayDoes DEF NextDay, BaseInv, RowsOK
<1>2. WaitingOK'
  <2>1. WaitingOK
    BY DEF BaseInv
  <2>2. IsFiniteSet(queue \cup {Sweep("overdueSweep")})
    BY <2>1, FS_AddElement DEF WaitingOK
  <2>3. IsFiniteSet((queue \cup {Sweep("overdueSweep")}) \cup {Sweep("reminderSweep")})
    BY <2>2, FS_AddElement
  <2>4. queue' = (queue \cup {Sweep("overdueSweep")}) \cup {Sweep("reminderSweep")}
    BY NextDayDoes
  <2>5. queue' \subseteq Jobs /\ \A j \in queue' : WellMade(j)
    BY <2>1, NextDayDoes DEF WaitingOK
  <2> QED BY <2>3, <2>4, <2>5 DEF WaitingOK
<1>3. DoneOK'
  <2>1. finished' \subseteq finished /\ DoneOK
    BY DEF NextDay, BaseInv
  <2> QED BY <2>1, FS_Subset DEF DoneOK
<1> QED BY <1>1, <1>2, <1>3 DEF NextDay, BaseInv, WorkersOK, LogOK, OutsideOK, HistoryOK, LeftOK, EditsOK,
                                FaultsOK, log, outside, history

-----------------------------------------------------------------------------
(* The web process. *)

\* What a request leaves of a row that does not change its total.
Alike(r, s) ==
  r.total = s.total /\ r.charged = s.charged /\ r.pdf = s.pdf /\ r.reminded = s.reminded

LEMMA StatusTyped ==
  ASSUME NEW row \in Invoice, NEW st \in {"sent", "paid"}, Sane(row)
  PROVE  LET new == [row EXCEPT !.status = st]
         IN  new \in Invoice /\ Sane(new) /\ Alike(new, row) /\ new.status = st
BY DEF Invoice, Sane, Alike

LEMMA FlagsTyped ==
  ASSUME NEW row \in Invoice, Sane(row), NEW new, NEW b \in BOOLEAN,
         new = [row EXCEPT !.trashed = b] \/ new = [row EXCEPT !.reachable = b]
  PROVE  new \in Invoice /\ Sane(new) /\ Alike(new, row) /\ new.status = row.status
BY DEF Invoice, Sane, Alike

LEMMA SendInvoiceDoes ==
  ASSUME BaseInv, NEW i \in Invoices, SendInvoice(i)
  PROVE  /\ \E row \in Invoice :
              /\ invoice' = [invoice EXCEPT ![i] = row]
              /\ Sane(row) /\ Alike(row, invoice[i]) /\ row.status = "sent"
         /\ Enqueue({Render(i, "sent")}) /\ Render(i, "sent") \in Jobs /\ WellMade(Render(i, "sent"))
         /\ IsFiniteSet({Render(i, "sent")})
<1> DEFINE row == [invoice[i] EXCEPT !.status = "sent"]
<1>1. invoice' = [invoice EXCEPT ![i] = row] /\ Enqueue({Render(i, "sent")})
  BY DEF SendInvoice
<1>2. invoice[i] \in Invoice /\ Sane(invoice[i])
  BY DEF BaseInv, RowsOK
<1>3. row \in Invoice /\ Sane(row) /\ Alike(row, invoice[i]) /\ row.status = "sent"
  BY <1>2, StatusTyped
<1>4. IsFiniteSet({Render(i, "sent")})
  BY FS_Singleton
<1>5. Render(i, "sent") \in Jobs /\ WellMade(Render(i, "sent"))
  BY RenderTyped DEF Occasions
<1> HIDE DEF row
<1> QED BY <1>1, <1>3, <1>4, <1>5

LEMMA SettleInvoiceDoes ==
  ASSUME BaseInv, NEW i \in Invoices, SettleInvoice(i)
  PROVE  /\ \E row \in Invoice :
              /\ invoice' = [invoice EXCEPT ![i] = row]
              /\ Sane(row) /\ Alike(row, invoice[i])
         /\ invoice[i].status = "sent"
         /\ \E jobs \in SUBSET Jobs :
              Enqueue(jobs) /\ IsFiniteSet(jobs) /\ \A j \in jobs : WellMade(j) /\ j.kind = "render"
<1> DEFINE row == [invoice[i] EXCEPT !.status = "paid"]
           j == Render(i, "receipt")
<1>1. invoice' = [invoice EXCEPT ![i] = row] /\ invoice[i].status = "sent"
  BY DEF SettleInvoice
<1>2. invoice[i] \in Invoice /\ Sane(invoice[i])
  BY DEF BaseInv, RowsOK
<1>3. row \in Invoice /\ Sane(row) /\ Alike(row, invoice[i])
  BY <1>2, StatusTyped
<1>4. j \in Jobs /\ WellMade(j) /\ j.kind = "render"
  BY RenderTyped DEF Occasions
<1>5. PICK jobs \in {{}, {j}} : Enqueue(jobs)
  BY DEF SettleInvoice
<1>6. IsFiniteSet({}) /\ IsFiniteSet({j})
  BY FS_EmptySet, FS_Singleton
<1> HIDE DEF row, j
<1>7. jobs \in SUBSET Jobs /\ IsFiniteSet(jobs) /\ \A k \in jobs : WellMade(k) /\ k.kind = "render"
  BY <1>4, <1>5, <1>6
<1> QED BY <1>1, <1>3, <1>5, <1>7

LEMMA AdjustLateFeeDoes ==
  ASSUME BaseInv, NEW i \in Invoices, AdjustLateFee(i)
  PROVE  /\ \E row \in Invoice :
              /\ invoice' = [invoice EXCEPT ![i] = row]
              /\ Sane(row) /\ row.total = invoice[i].total + 1 /\ row.pdf = Null
              /\ row.reminded = invoice[i].reminded
         /\ invoice[i].charged
         /\ overtaken' = overtaken \cup ({i} \cap Rendering)
         /\ Enqueue({Render(i, Null)}) /\ Render(i, Null) \in Jobs /\ WellMade(Render(i, Null))
         /\ IsFiniteSet({Render(i, Null)})
<1>1. invoice[i] \in Invoice /\ invoice[i].charged /\ invoice[i].total < MaxTotal
  BY DEF BaseInv, RowsOK, AdjustLateFee
<1>2. PICK st \in {"sent", "paid"} : invoice' = [invoice EXCEPT ![i] = [Repriced(@) EXCEPT !.status = st]]
  BY DEF AdjustLateFee
<1> DEFINE dearer == Repriced(invoice[i])
           row == [dearer EXCEPT !.status = st]
<1>3. invoice' = [invoice EXCEPT ![i] = row]
  BY <1>2
<1>4. /\ dearer \in Invoice /\ dearer.charged /\ dearer.total = invoice[i].total + 1 /\ dearer.pdf = Null
      /\ dearer.reminded = invoice[i].reminded
  BY <1>1, RepricedTyped
<1> HIDE DEF dearer
<1>5. /\ row \in Invoice /\ Sane(row) /\ row.total = invoice[i].total + 1 /\ row.pdf = Null
      /\ row.reminded = invoice[i].reminded
  BY <1>4 DEF Invoice, Sane
<1>6. IsFiniteSet({Render(i, Null)})
  BY FS_Singleton
<1>7. Render(i, Null) \in Jobs /\ WellMade(Render(i, Null))
  BY RenderTyped
<1>8. overtaken' = overtaken \cup ({i} \cap Rendering) /\ Enqueue({Render(i, Null)})
  BY DEF AdjustLateFee
<1> HIDE DEF row
<1> QED BY <1>1, <1>3, <1>5, <1>6, <1>7, <1>8

LEMMA EditInvoiceDoes ==
  ASSUME BaseInv, NEW i \in Invoices, EditInvoice(i)
  PROVE  /\ \E row \in Invoice :
              invoice' = [invoice EXCEPT ![i] = row] /\ Sane(row) /\ Alike(row, invoice[i])
         /\ invoice[i].status # "draft"
<1>1. invoice[i] \in Invoice /\ Sane(invoice[i])
  BY DEF BaseInv, RowsOK
<1>2. PICK row :
        /\ invoice' = [invoice EXCEPT ![i] = row]
        /\ \/ row = [invoice[i] EXCEPT !.status = "sent"]
           \/ row = [invoice[i] EXCEPT !.trashed = ~invoice[i].trashed]
           \/ row = [invoice[i] EXCEPT !.reachable = ~invoice[i].reachable]
  BY DEF EditInvoice
<1>3. row \in Invoice /\ Sane(row) /\ Alike(row, invoice[i])
  <2>1. invoice[i].trashed \in BOOLEAN /\ invoice[i].reachable \in BOOLEAN
    BY <1>1 DEF Invoice
  <2>2. (~invoice[i].trashed) \in BOOLEAN /\ (~invoice[i].reachable) \in BOOLEAN
    BY <2>1
  <2>3. CASE row = [invoice[i] EXCEPT !.status = "sent"]
    BY <1>1, <2>3, StatusTyped
  <2>4. CASE row = [invoice[i] EXCEPT !.trashed = ~invoice[i].trashed]
    BY <1>1, <2>2, <2>4, FlagsTyped
  <2>5. CASE row = [invoice[i] EXCEPT !.reachable = ~invoice[i].reachable]
    BY <1>1, <2>2, <2>5, FlagsTyped
  <2> QED BY <1>2, <2>3, <2>4, <2>5
<1> QED BY <1>2, <1>3 DEF EditInvoice

LEMMA RequestBase ==
  ASSUME BaseInv, NEW i \in Invoices,
         SendInvoice(i) \/ SettleInvoice(i) \/ AdjustLateFee(i) \/ EditInvoice(i)
  PROVE  BaseInv'
<1>1. UNCHANGED <<today, finished, worker, log, outside, resent>>
  BY DEF SendInvoice, SettleInvoice, AdjustLateFee, EditInvoice, history
<1>2. RowsOK'
  <2>1. PICK row \in Invoice : invoice' = [invoice EXCEPT ![i] = row] /\ Sane(row)
    BY SendInvoiceDoes, SettleInvoiceDoes, AdjustLateFeeDoes, EditInvoiceDoes
  <2> QED BY <1>1, <2>1, RowBase
<1>3. WaitingOK' /\ LeftOK' /\ FaultsOK'
  <2>1. CASE \E jobs \in SUBSET Jobs : Enqueue(jobs) /\ IsFiniteSet(jobs) /\ \A j \in jobs : WellMade(j)
    BY <2>1, Enqueued
  <2>2. CASE EditInvoice(i)
    BY <2>2 DEF EditInvoice, history, BaseInv, WaitingOK, LeftOK, FaultsOK
  <2>3. CASE SettleInvoice(i)
    BY <2>1, <2>3, SettleInvoiceDoes
  <2>4. CASE SendInvoice(i)
    <3> DEFINE jobs == {Render(i, "sent")}
    <3>1. jobs \in SUBSET Jobs /\ IsFiniteSet(jobs) /\ Enqueue(jobs) /\ \A j \in jobs : WellMade(j)
      BY <2>4, SendInvoiceDoes
    <3> HIDE DEF jobs
    <3> QED BY <3>1, Enqueued
  <2>5. CASE AdjustLateFee(i)
    <3> DEFINE jobs == {Render(i, Null)}
    <3>1. jobs \in SUBSET Jobs /\ IsFiniteSet(jobs) /\ Enqueue(jobs) /\ \A j \in jobs : WellMade(j)
      BY <2>5, AdjustLateFeeDoes
    <3> HIDE DEF jobs
    <3> QED BY <3>1, Enqueued
  <2> QED BY <2>2, <2>3, <2>4, <2>5
<1>4. overtaken' \subseteq Invoices
  BY DEF SendInvoice, SettleInvoice, AdjustLateFee, EditInvoice, history, BaseInv, HistoryOK
<1>5. EditsOK'
  BY DEF SendInvoice, SettleInvoice, AdjustLateFee, EditInvoice, BaseInv, EditsOK
<1> QED BY <1>1, <1>2, <1>3, <1>4, <1>5 DEF BaseInv, DoneOK, WorkersOK, LogOK, OutsideOK, HistoryOK, log, outside

-----------------------------------------------------------------------------
(* The queue. *)

LEMMA TakeJobDoes ==
  ASSUME BaseInv, NEW w \in Workers, NEW j \in queue, TakeJob(w, j)
  PROVE  /\ WorkersOK' /\ worker[w].pc = "idle" /\ queue' = queue \ {j} /\ j \in Jobs /\ WellMade(j)
         /\ worker'[w].pc = "taken" /\ worker'[w].job = j /\ worker'[w].owner /\ worker'[w].read = Null
         /\ worker'[w].on = Null /\ worker'[w].inv = Null /\ worker'[w].todo = {}
         /\ \A u \in Workers : u # w => worker'[u] = worker[u]
<1> DEFINE v == [Idle EXCEPT !.pc = "taken", !.job = j, !.owner = TRUE]
<1>1. j \in Jobs /\ WellMade(j)
  BY DEF BaseInv, WaitingOK
<1>2. /\ v \in WorkerState /\ v.pc = "taken" /\ v.job = j /\ v.owner /\ v.read = Null
      /\ v.on = Null /\ v.inv = Null /\ v.todo = {}
  BY <1>1 DEF WorkerState, Idle
<1>3. worker' = [worker EXCEPT ![w] = v] /\ worker[w].pc = "idle" /\ queue' = queue \ {j}
  BY DEF TakeJob
<1> HIDE DEF v
<1>4. Place(v)
  BY <1>1, <1>2 DEF Place
<1>5. WorkersOK' /\ worker'[w] = v /\ \A u \in Workers : u # w => worker'[u] = worker[u]
  BY <1>2, <1>3, <1>4, WorkerReplaced DEF BaseInv
<1> QED BY <1>1, <1>2, <1>3, <1>5

LEMMA TakeJobBase ==
  ASSUME BaseInv, NEW w \in Workers, NEW j \in queue, TakeJob(w, j)
  PROVE  BaseInv'
<1>1. IsFiniteSet(queue \ {j})
  BY FS_RemoveElement DEF BaseInv, WaitingOK
<1>2. WaitingOK' /\ WorkersOK'
  BY <1>1, TakeJobDoes DEF BaseInv, WaitingOK
<1> QED BY <1>2 DEF TakeJob, BaseInv, RowsOK, DoneOK, LogOK, OutsideOK, HistoryOK, LeftOK, EditsOK, FaultsOK,
                    log, outside, history

LEMMA StallDoes ==
  ASSUME BaseInv, NEW w \in Workers, Stall(w)
  PROVE  /\ WorkersOK' /\ worker[w].pc # "idle" /\ worker[w].owner /\ ~worker'[w].owner
         /\ worker'[w].pc = worker[w].pc /\ worker'[w].job = worker[w].job /\ worker'[w].read = worker[w].read
         /\ worker'[w].on = worker[w].on /\ worker'[w].inv = worker[w].inv /\ worker'[w].todo = worker[w].todo
         /\ \A u \in Workers : u # w => worker'[u] = worker[u]
         /\ \E k \in Jobs : Same(k, worker[w].job) /\ queue' = queue \cup {k}
         /\ Mailing(worker[w].job) => resent' = resent \cup {Of(w)}
         /\ ~Mailing(worker[w].job) => resent' = resent
<1> DEFINE v == [worker[w] EXCEPT !.owner = FALSE]
<1>1. worker[w] \in WorkerState /\ Place(worker[w]) /\ worker[w].owner /\ worker[w].pc # "idle"
  BY DEF BaseInv, WorkersOK, Place, Stall
<1>2. /\ v \in WorkerState /\ v.pc = worker[w].pc /\ v.job = worker[w].job /\ ~v.owner
      /\ v.read = worker[w].read /\ v.on = worker[w].on /\ v.inv = worker[w].inv /\ v.todo = worker[w].todo
  BY <1>1 DEF WorkerState
<1>3. worker' = [worker EXCEPT ![w] = v]
  BY DEF Stall
<1> HIDE DEF v
<1>4. Place(v)
  BY <1>1, <1>2 DEF Place
<1>5. WorkersOK' /\ worker'[w] = v /\ \A u \in Workers : u # w => worker'[u] = worker[u]
  BY <1>2, <1>3, <1>4, WorkerReplaced DEF BaseInv
<1> DEFINE k == [worker[w].job EXCEPT !.stalled = TRUE]
<1>6. k \in Jobs /\ Same(k, worker[w].job)
  BY <1>1, AtHand, TriedAgain
<1>7. /\ queue' = queue \cup {k}
      /\ resent' = IF worker[w].job.kind \in {"mail", "remind"} THEN resent \cup {Of(w)} ELSE resent
  BY DEF Stall
<1> HIDE DEF k
<1> QED BY <1>1, <1>2, <1>5, <1>6, <1>7 DEF Mailing

LEMMA StallBase ==
  ASSUME BaseInv, NEW w \in Workers, Stall(w)
  PROVE  BaseInv'
<1>1. PICK k \in Jobs : Same(k, worker[w].job) /\ queue' = queue \cup {k}
  BY StallDoes
<1>2. WellMade(k)
  BY <1>1, StallDoes, AtHand, SameWellMade
<1>3. IsFiniteSet(queue \cup {k})
  BY FS_AddElement DEF BaseInv, WaitingOK
<1>4. WaitingOK'
  BY <1>1, <1>2, <1>3 DEF BaseInv, WaitingOK
<1>5. WorkersOK' /\ HistoryOK'
  <2>1. WorkersOK' /\ Of(w) \in Places
    BY StallDoes, AtHand
  <2>2. HistoryOK /\ overtaken' = overtaken /\ (resent' = resent \/ resent' = resent \cup {Of(w)})
    BY StallDoes DEF Stall, BaseInv
  <2>3. HistoryOK'
    BY <2>1, <2>2 DEF HistoryOK
  <2> QED BY <2>1, <2>3
<1>6. FaultsOK'
  BY DEF Stall, BaseInv, FaultsOK
<1> QED BY <1>4, <1>5, <1>6 DEF Stall, BaseInv, RowsOK, DoneOK, LogOK, OutsideOK, LeftOK, EditsOK, log, outside

LEMMA LossBase ==
  ASSUME BaseInv, NEW w \in Workers, FailAttempt(w) \/ Crash(w)
  PROVE  BaseInv'
BY LostCases, LostBase

LEMMA BaseInit == Init => BaseInv
<1> SUFFICES ASSUME Init PROVE BaseInv
  OBVIOUS
<1>1. RowsOK
  BY DEF Init, RowsOK, Draft, Invoice, Sane
<1>2. WaitingOK /\ DoneOK
  BY FS_EmptySet DEF Init, WaitingOK, DoneOK
<1>3. WorkersOK
  BY IdleTyped DEF Init, WorkersOK
<1>4. LogOK /\ HistoryOK /\ LeftOK /\ EditsOK /\ FaultsOK
  BY DEF Init, LogOK, HistoryOK, LeftOK, EditsOK, FaultsOK
<1>5. OutsideOK
  BY DEF Init, OutsideOK
<1> QED BY <1>1, <1>2, <1>3, <1>4, <1>5 DEF BaseInv

LEMMA BaseNext == BaseInv /\ [Next]_vars => BaseInv'
<1> SUFFICES ASSUME BaseInv, [Next]_vars PROVE BaseInv'
  OBVIOUS
<1>1. ASSUME NEW w \in Workers, Handle(w) PROVE BaseInv'
  BY <1>1, RenderStepBase, MailStepBase, SweepStepBase, ReminderSweepBase DEF Handle
<1>2. ASSUME NEW w \in Workers, FailAttempt(w) \/ Crash(w) \/ Stall(w) PROVE BaseInv'
  BY <1>2, LossBase, StallBase
<1>3. ASSUME NEW i \in Invoices, SendInvoice(i) \/ SettleInvoice(i) \/ AdjustLateFee(i) \/ EditInvoice(i)
      PROVE  BaseInv'
  BY <1>3, RequestBase
<1>4. CASE UNCHANGED vars
  BY <1>4 DEF vars, log, outside, history, BaseInv, RowsOK, WaitingOK, DoneOK, WorkersOK, LogOK, OutsideOK,
              HistoryOK, LeftOK, EditsOK, FaultsOK
<1> QED BY <1>1, <1>2, <1>3, <1>4, TakeJobBase, NextDayBase DEF Next

-----------------------------------------------------------------------------
(* StoredInv. *)

\* Totals only grow; a PDF is replaced only with its total, by what a worker has rendered; and
\* whoever renders an old total is overtaken.
Links(i, pdf) ==
  \E w \in Workers : worker[w].pc = "rendering" /\ worker[w].job.inv = i /\ worker[w].read = pdf
Grows ==
  /\ overtaken \subseteq overtaken' /\ forsaken \subseteq forsaken'
  /\ \A i \in Invoices :
       \/ /\ invoice'[i].total = invoice[i].total
          /\ invoice'[i].pdf = invoice[i].pdf \/ (invoice[i].pdf = Null /\ Links(i, invoice'[i].pdf))
       \/ /\ invoice'[i].total = invoice[i].total + 1 /\ invoice'[i].pdf = Null
          /\ \A w \in Workers : worker[w].pc = "rendering" /\ worker[w].job.inv = i => i \in overtaken'

LEMMA QuietGrows ==
  ASSUME BaseInv, UNCHANGED <<invoice, overtaken>>, forsaken \subseteq forsaken'
  PROVE  Grows
BY DEF Grows

LEMMA RowGrows ==
  ASSUME BaseInv, NEW i \in Invoices, NEW row \in Invoice, invoice' = [invoice EXCEPT ![i] = row],
         overtaken \subseteq overtaken', forsaken \subseteq forsaken',
         \/ row.total = invoice[i].total /\ (row.pdf = invoice[i].pdf \/ (invoice[i].pdf = Null /\ Links(i, row.pdf)))
         \/ /\ row.total = invoice[i].total + 1 /\ row.pdf = Null
            /\ overtaken' = overtaken \cup ({i} \cap Rendering)
  PROVE  Grows
<1>1. /\ invoice'[i] = row /\ \A k \in Invoices : k # i => invoice'[k] = invoice[k]
  BY InvoiceReplaced DEF BaseInv
<1>2. ASSUME overtaken' = overtaken \cup ({i} \cap Rendering), NEW w \in Workers,
             worker[w].pc = "rendering", worker[w].job.inv = i
      PROVE  i \in overtaken'
  BY <1>2 DEF Rendering
<1> QED BY <1>1, <1>2 DEF Grows

LEMMA EnqueueForsakes ==
  ASSUME NEW jobs, Enqueue(jobs)
  PROVE  forsaken \subseteq forsaken'
BY DEF Enqueue

LEMMA HandleGrows ==
  ASSUME BaseInv, NEW w \in Workers, Handle(w)
  PROVE  Grows
<1>1. CASE ReadPointer(w) \/ StartMail(w) \/ CheckSent(w) \/ LoadAttachment(w) \/ Deliver(w) \/ RecordSent(w)
           \/ EmitOverdue(w) \/ AssessFees(w) \/ EndSweep(w)
  BY <1>1, QuietGrows DEF ReadPointer, StartMail, CheckSent, LoadAttachment, Deliver, RecordSent, EmitOverdue,
                          AssessFees, EndSweep, history
<1>2. CASE FindOverdue(w) \/ \E i \in Invoices : AuditOverdue(w, i)
  BY <1>2, QuietGrows DEF FindOverdue, AuditOverdue, history
<1>3. CASE ReadDocument(w) \/ ComposeMail(w)
  <2>1. CASE GiveUp(w)
    BY <2>1, QuietGrows DEF GiveUp
  <2> QED BY <1>3, <2>1, QuietGrows DEF ReadDocument, ComposeMail, history
<1>4. CASE AttachPdf(w)
  BY <1>4, QuietGrows DEF AttachPdf
<1>5. CASE ChainMail(w) \/ RequestRender(w) \/ RunReminderSweep(w)
  BY <1>5, EnqueueForsakes, QuietGrows DEF ChainMail, RequestRender, RunReminderSweep
<1>6. CASE LinkPdf(w)
  <2>1. PICK row \in Invoice :
          /\ invoice' = [invoice EXCEPT ![worker[w].job.inv] = row]
          /\ row = [invoice[worker[w].job.inv] EXCEPT !.pdf = row.pdf]
          /\ row.pdf = IF invoice[worker[w].job.inv].pdf = Null THEN worker[w].read
                         ELSE invoice[worker[w].job.inv].pdf
    BY <1>6, LinkPdfDoes
  <2>2. worker[w].job.inv \in Invoices /\ UNCHANGED <<overtaken, forsaken>>
    BY <1>6, LinkPdfDoes DEF LinkPdf, history
  <2>3. row.total = invoice[worker[w].job.inv].total
    BY <2>1, <2>2 DEF BaseInv, RowsOK, Invoice
  <2>4. Links(worker[w].job.inv, worker[w].read)
    BY <1>6 DEF LinkPdf, At, Links
  <2> QED BY <2>1, <2>2, <2>3, <2>4, RowGrows
<1>7. CASE ClaimReminder(w)
  <2> DEFINE i == worker[w].job.inv
             row == [invoice[i] EXCEPT !.reminded = today]
  <2>1. i \in Invoices /\ invoice[i] \in Invoice /\ today \in Days /\ UNCHANGED <<overtaken, forsaken>>
    BY <1>7, ClaimReminderDoes DEF BaseInv, RowsOK, ClaimReminder, history
  <2>2. CASE UNCHANGED invoice
    BY <2>1, <2>2, QuietGrows
  <2>3. CASE invoice' = Claimed(i)
    <3>1. row \in Invoice /\ row.total = invoice[i].total /\ row.pdf = invoice[i].pdf
      BY <2>1 DEF Invoice
    <3>2. invoice' = [invoice EXCEPT ![i] = row]
      BY <2>3 DEF Claimed
    <3> HIDE DEF row, i
    <3> QED BY <2>1, <3>1, <3>2, RowGrows
  <2> QED BY <1>7, <2>2, <2>3, ClaimReminderDoes
<1>8. ASSUME NEW i \in Invoices, ChargeLateFee(w, i) PROVE Grows
  <2>1. UNCHANGED forsaken
    BY <1>8 DEF ChargeLateFee
  <2>2. CASE UNCHANGED <<invoice, overtaken>>
    BY <2>1, <2>2, QuietGrows
  <2>3. CASE /\ ~invoice[i].charged /\ invoice[i].status = "sent"
             /\ invoice' = [invoice EXCEPT ![i] = Repriced(invoice[i])]
             /\ overtaken' = overtaken \cup ({i} \cap Rendering)
    <3>1. invoice[i] \in Invoice /\ invoice[i].total < MaxTotal
      BY <2>3 DEF BaseInv, RowsOK, Sane
    <3>2. /\ Repriced(invoice[i]) \in Invoice /\ Repriced(invoice[i]).total = invoice[i].total + 1
          /\ Repriced(invoice[i]).pdf = Null
      BY <3>1, RepricedTyped
    <3> QED BY <2>1, <2>3, <3>2, RowGrows
  <2> QED BY <1>8, <2>2, <2>3, ChargeLateFeeDoes
<1> QED BY <1>1, <1>2, <1>3, <1>4, <1>5, <1>6, <1>7, <1>8 DEF Handle

LEMMA RequestGrows ==
  ASSUME BaseInv, NEW i \in Invoices,
         SendInvoice(i) \/ SettleInvoice(i) \/ AdjustLateFee(i) \/ EditInvoice(i)
  PROVE  Grows
<1>1. forsaken \subseteq forsaken'
  BY EnqueueForsakes DEF SendInvoice, SettleInvoice, AdjustLateFee, EditInvoice, history
<1>2. CASE SendInvoice(i) \/ SettleInvoice(i) \/ EditInvoice(i)
  <2>1. PICK row \in Invoice : invoice' = [invoice EXCEPT ![i] = row] /\ Alike(row, invoice[i])
    BY <1>2, SendInvoiceDoes, SettleInvoiceDoes, EditInvoiceDoes
  <2>2. UNCHANGED overtaken
    BY <1>2 DEF SendInvoice, SettleInvoice, EditInvoice, history
  <2> QED BY <1>1, <2>1, <2>2, RowGrows DEF Alike
<1>3. CASE AdjustLateFee(i)
  <2>1. PICK row \in Invoice : /\ invoice' = [invoice EXCEPT ![i] = row]
                               /\ row.total = invoice[i].total + 1 /\ row.pdf = Null
    BY <1>3, AdjustLateFeeDoes
  <2> QED BY <1>1, <1>3, <2>1, AdjustLateFeeDoes, RowGrows
<1> QED BY <1>2, <1>3

LEMMA Grown ==
  ASSUME BaseInv, [Next]_vars
  PROVE  Grows
<1>1. ASSUME NEW w \in Workers, FailAttempt(w) \/ Crash(w) \/ Stall(w) PROVE Grows
  <2>1. CASE Stall(w)
    BY <2>1, QuietGrows DEF Stall
  <2>2. CASE FailAttempt(w) \/ Crash(w)
    <3>1. PICK next \in SUBSET Jobs : Lose(w, next)
      BY <2>2, LostCases
    <3> QED BY <3>1, QuietGrows DEF Lose
  <2> QED BY <1>1, <2>1, <2>2
<1>2. ASSUME NEW w \in Workers, NEW j \in queue, TakeJob(w, j) PROVE Grows
  BY <1>2, QuietGrows DEF TakeJob, history
<1>3. CASE NextDay
  BY <1>3, QuietGrows DEF NextDay, history
<1>4. CASE UNCHANGED vars
  BY <1>4, QuietGrows DEF vars, history
<1> QED BY <1>1, <1>2, <1>3, <1>4, HandleGrows, RequestGrows DEF Next

\* What could not be read once stays known.
LEMMA UnreadGrows ==
  ASSUME BaseInv, [Next]_vars
  PROVE  unread \subseteq unread'
<1>1. ASSUME NEW w \in Workers, Handle(w) PROVE unread \subseteq unread'
  BY <1>1 DEF Handle, ReadPointer, ReadDocument, LinkPdf, ChainMail, ClaimReminder, StartMail, ComposeMail, AttachPdf,
              CheckSent, LoadAttachment, Deliver, RecordSent, FindOverdue, EmitOverdue, AssessFees, RequestRender,
              EndSweep, AuditOverdue, ChargeLateFee, RunReminderSweep, GiveUp, outside
<1>2. ASSUME NEW w \in Workers, FailAttempt(w) \/ Crash(w) \/ Stall(w) PROVE unread' = unread
  BY <1>2, LostCases DEF Stall, Lose, outside
<1>3. ASSUME NEW i \in Invoices, SendInvoice(i) \/ SettleInvoice(i) \/ AdjustLateFee(i) \/ EditInvoice(i)
      PROVE  unread' = unread
  BY <1>3 DEF SendInvoice, SettleInvoice, AdjustLateFee, EditInvoice, outside
<1>4. CASE NextDay \/ (\E w \in Workers, j \in queue : TakeJob(w, j)) \/ UNCHANGED vars
  BY <1>4 DEF NextDay, TakeJob, vars, outside
<1> QED BY <1>1, <1>2, <1>3, <1>4 DEF Next

\* A worker that stands where it stood, with what it had.
Stands(u) ==
  worker'[u].pc = worker[u].pc /\ worker'[u].job = worker[u].job /\ worker'[u].read = worker[u].read

StillStored(i)  == invoice'[i].pdf # Null \/ invoice'[i].total > 0
StillBacked(j)  == j.kind = "mail" => StillStored(j.inv)
StillExcused(m) == invoice'[m[1]].total > 0 \/ m \in forsaken' \/ m \in unread'

LEMMA StoredGrows ==
  ASSUME BaseInv, Grows, NEW i \in Invoices, Stored(i)
  PROVE  StillStored(i)
<1>1. invoice[i].total \in Nat
  BY DEF BaseInv, RowsOK, Invoice
<1> QED BY <1>1 DEF Grows, Stored, StillStored

LEMMA BackedGrows ==
  ASSUME BaseInv, Grows, NEW j, WellMade(j), Backed(j)
  PROVE  StillBacked(j)
BY StoredGrows DEF Backed, StillBacked, WellMade

\* Once mailed without its PDF for a reason, always so.
Excused(m) == invoice[m[1]].total > 0 \/ m \in forsaken \/ m \in unread

LEMMA ExcusedGrows ==
  ASSUME BaseInv, Grows, unread \subseteq unread', NEW m \in Mails, Excused(m)
  PROVE  StillExcused(m)
<1>1. m[1] \in Invoices /\ invoice[m[1]].total \in Nat
  BY DEF Mails, BaseInv, RowsOK, Invoice
<1> QED BY <1>1 DEF Grows, Excused, StillExcused

LEMMA ReadsStay ==
  ASSUME BaseInv, Grows, unread \subseteq unread', NEW u \in Workers, ReadsTrue(u), Stands(u)
  PROVE  ReadsTrue(u)'
<1> DEFINE i == worker[u].job.inv
<1>1. Busy(u) => StillBacked(worker[u].job)
  BY AtHand, BackedGrows DEF Busy, ReadsTrue
<1>2. ASSUME worker[u].pc = "rendering"
      PROVE  worker[u].read # Null /\ (worker[u].read = invoice'[i].total \/ i \in overtaken')
  <2>1. i \in Invoices
    BY <1>2, AtHand DEF BaseInv, WorkersOK, Place, WellMade
  <2> QED BY <1>2, <2>1 DEF ReadsTrue, Grows
<1>3. ASSUME worker[u].pc = "chaining"
      PROVE  StillStored(i)
  <2>1. i \in Invoices
    BY <1>3, AtHand DEF BaseInv, WorkersOK, Place, WellMade
  <2> QED BY <1>3, <2>1, StoredGrows DEF ReadsTrue
<1>4. ASSUME worker[u].pc \in Attached, worker[u].job.kind = "mail", worker[u].read = Null
      PROVE  StillExcused(Of(u))
  <2>1. Of(u) \in Mails /\ Excused(Of(u))
    BY <1>4, AtHand DEF Mailing, ReadsTrue, Excused, Of
  <2> QED BY <2>1, ExcusedGrows
<1> QED BY <1>1, <1>2, <1>3, <1>4 DEF ReadsTrue, Stands, Busy, StillExcused, StillBacked, StillStored, Of, Backed, Stored

\* A worker with another position, of which nothing has to be known.
LEMMA ReadsIdle ==
  ASSUME NEW u \in Workers, worker'[u].pc = "idle"
  PROVE  ReadsTrue(u)'
BY DEF ReadsTrue, Busy

LEMMA RowsStayTrue ==
  ASSUME BaseInv, Grows, StoredInv, NEW i \in Invoices, invoice'[i].pdf # Null
  PROVE  invoice'[i].pdf = invoice'[i].total \/ i \in overtaken'
<1>1. CASE invoice'[i].total = invoice[i].total /\ invoice'[i].pdf = invoice[i].pdf
  BY <1>1 DEF Grows, StoredInv
<1>2. ASSUME invoice'[i].total = invoice[i].total, NEW w \in Workers,
             worker[w].pc = "rendering", worker[w].job.inv = i, worker[w].read = invoice'[i].pdf
      PROVE  invoice'[i].pdf = invoice'[i].total \/ i \in overtaken'
  BY <1>2 DEF Grows, StoredInv, ReadsTrue
<1> QED BY <1>1, <1>2 DEF Grows, Links

\* A mail that waits was waiting, or was taken by a worker, or is chained behind its render.
Known(k) ==
  \/ k \in queue \/ k.kind # "mail"
  \/ \E w \in Workers : worker[w].pc # "idle" /\ Same(k, worker[w].job)
  \/ \E w \in Workers : worker[w].pc = "chaining" /\ worker[w].job.inv = k.inv

LEMMA KnownBacked ==
  ASSUME BaseInv, Grows, StoredInv, NEW k, Known(k), WellMade(k)
  PROVE  StillBacked(k)
<1>1. CASE k \in queue
  BY <1>1, BackedGrows DEF StoredInv, Backed
<1>2. CASE k.kind # "mail"
  BY <1>2 DEF StillBacked
<1>3. ASSUME NEW w \in Workers, worker[w].pc # "idle", Same(k, worker[w].job) PROVE StillBacked(k)
  <2>1. Backed(k)
    BY <1>3 DEF StoredInv, ReadsTrue, Busy, Backed, Same
  <2> QED BY <2>1, BackedGrows
<1>4. ASSUME NEW w \in Workers, worker[w].pc = "chaining", worker[w].job.inv = k.inv PROVE StillBacked(k)
  <2>1. Stored(k.inv)
    BY <1>4 DEF StoredInv, ReadsTrue
  <2>2. Backed(k)
    BY <2>1 DEF Backed
  <2> QED BY <2>2, BackedGrows
<1> QED BY <1>1, <1>2, <1>3, <1>4 DEF Known

LEMMA EnqueueKnown ==
  ASSUME NEW jobs, Enqueue(jobs), \A k \in jobs : Known(k)
  PROVE  \A k \in queue' : Known(k)
<1>1. queue' \subseteq queue \cup jobs
  BY DEF Enqueue
<1> QED BY <1>1 DEF Known

LEMMA QueueKnown ==
  ASSUME BaseInv, [Next]_vars
  PROVE  \A k \in queue' : Known(k)
<1>1. CASE UNCHANGED queue
  BY <1>1 DEF Known
<1>2. ASSUME NEW w \in Workers, Handle(w) PROVE \A k \in queue' : Known(k)
  <2>1. CASE ChainMail(w)
    <3> DEFINE j == worker[w].job
               jobs == IF j.occ = Null THEN {} ELSE {Job("mail", j.inv, j.occ, 0)}
    <3>1. worker[w].pc = "chaining" /\ j.inv \in Invoices /\ j.occ \in Occasions \cup {Null} /\ Enqueue(jobs)
      BY <2>1, AtHand DEF ChainMail, At, WellMade
    <3>2. \A k \in jobs : k.inv = j.inv
      BY <3>1, MailTyped
    <3>3. \A k \in jobs : Known(k)
      BY <3>1, <3>2 DEF Known
    <3> HIDE DEF jobs
    <3> QED BY <3>1, <3>3, EnqueueKnown
  <2>2. CASE RequestRender(w)
    <3> DEFINE j == Render(worker[w].inv, Null)
    <3>1. j.kind = "render" /\ Enqueue({j})
      <4>1. worker[w].inv \in Invoices /\ Enqueue({j})
        BY <2>2, RequestRenderDoes DEF RequestRender
      <4> QED BY <4>1, RenderTyped
    <3> HIDE DEF j
    <3>2. \A k \in {j} : Known(k)
      BY <3>1 DEF Known
    <3> QED BY <3>1, <3>2, EnqueueKnown
  <2>3. CASE RunReminderSweep(w)
    <3>1. PICK jobs \in SUBSET Jobs : Enqueue(jobs) /\ \A j \in jobs : j.kind = "remind"
      BY <2>3, ReminderSweepDoes
    <3>2. \A k \in jobs : Known(k)
      BY <3>1 DEF Known
    <3> QED BY <3>1, <3>2, EnqueueKnown
  <2>4. CASE ReadDocument(w) \/ ComposeMail(w)
    BY <1>1, <2>4 DEF ReadDocument, ComposeMail, GiveUp
  <2>5. CASE ReadPointer(w) \/ StartMail(w) \/ CheckSent(w) \/ Deliver(w) \/ RecordSent(w) \/ EmitOverdue(w)
             \/ AssessFees(w) \/ EndSweep(w) \/ LinkPdf(w) \/ ClaimReminder(w) \/ AttachPdf(w) \/ FindOverdue(w)
             \/ LoadAttachment(w)
    BY <1>1, <2>5 DEF ReadPointer, StartMail, CheckSent, LoadAttachment, Deliver, RecordSent, EmitOverdue,
                      AssessFees, EndSweep, LinkPdf, ClaimReminder, AttachPdf, FindOverdue, LoadAttachment
  <2>6. ASSUME NEW i \in Invoices, AuditOverdue(w, i) \/ ChargeLateFee(w, i) PROVE UNCHANGED queue
    BY <2>6 DEF AuditOverdue, ChargeLateFee
  <2> QED BY <1>1, <1>2, <2>1, <2>2, <2>3, <2>4, <2>5, <2>6 DEF Handle
<1>3. ASSUME NEW w \in Workers, FailAttempt(w) \/ Crash(w) PROVE \A k \in queue' : Known(k)
  <2>1. PICK next \in SUBSET Jobs : Lose(w, next) /\ \A k \in next : Same(k, worker[w].job)
    BY <1>3, LostCases
  <2>2. worker[w].pc # "idle" /\ queue' \subseteq queue \cup next
    BY <2>1 DEF Lose
  <2> QED BY <2>1, <2>2 DEF Known
<1>4. ASSUME NEW w \in Workers, Stall(w) PROVE \A k \in queue' : Known(k)
  BY <1>4, StallDoes DEF Known
<1>5. ASSUME NEW w \in Workers, NEW j \in queue, TakeJob(w, j) PROVE \A k \in queue' : Known(k)
  BY <1>5 DEF TakeJob, Known
<1>6. CASE NextDay
  BY <1>6, NextDayDoes DEF Known
<1>7. ASSUME NEW i \in Invoices, SendInvoice(i) \/ AdjustLateFee(i) PROVE \A k \in queue' : Known(k)
  <2>1. PICK occ \in Occasions \cup {Null} : Enqueue({Render(i, occ)})
    BY <1>7 DEF SendInvoice, AdjustLateFee, Occasions
  <2> DEFINE j == Render(i, occ)
  <2>2. j.kind = "render" /\ Enqueue({j})
    BY <2>1, RenderTyped
  <2> HIDE DEF j
  <2>3. \A k \in {j} : Known(k)
    BY <2>2 DEF Known
  <2> QED BY <2>2, <2>3, EnqueueKnown
<1>8. ASSUME NEW i \in Invoices, SettleInvoice(i) PROVE \A k \in queue' : Known(k)
  <2>1. PICK jobs \in SUBSET Jobs : Enqueue(jobs) /\ \A j \in jobs : j.kind = "render"
    BY <1>8, SettleInvoiceDoes
  <2>2. \A k \in jobs : Known(k)
    BY <2>1 DEF Known
  <2> QED BY <2>1, <2>2, EnqueueKnown
<1>9. ASSUME NEW i \in Invoices, EditInvoice(i) PROVE UNCHANGED queue
  BY <1>9 DEF EditInvoice
<1>10. CASE UNCHANGED vars
  BY <1>1, <1>10 DEF vars
<1> QED BY <1>1, <1>2, <1>3, <1>4, <1>5, <1>6, <1>7, <1>8, <1>9, <1>10 DEF Next

LEMMA ReadsReturn ==
  ASSUME BaseInv, NEW w \in Workers, worker[w].pc # "idle", Return(w)
  PROVE  ReadsTrue(w)' /\ \A u \in Workers : u # w => Stands(u)
BY Returned, IdleTyped, ReadsIdle DEF Stands

LEMMA ReadsTurn ==
  ASSUME BaseInv, Grows, StoredInv, NEW w \in Workers, NEW pc, NEW read, NEW on, NEW inv, NEW todo,
         Turns(w, pc, read, on, inv, todo),
         pc = "rendering" => read # Null /\ read = invoice'[worker[w].job.inv].total,
         pc = "chaining" => StillStored(worker[w].job.inv),
         pc \in Attached /\ worker[w].job.kind = "mail" /\ read = Null => StillExcused(Of(w))
  PROVE  ReadsTrue(w)' /\ \A u \in Workers : u # w => Stands(u)
<1>1. StillBacked(worker[w].job)
  BY AtHand, BackedGrows DEF Turns, StoredInv, ReadsTrue, Busy
<1>2. ReadsTrue(w)'
  BY <1>1 DEF Turns, ReadsTrue, Busy, Backed, Stored, StillBacked, StillStored, StillExcused, Of
<1> QED BY <1>2 DEF Turns, Stands

LEMMA HandleReads ==
  ASSUME BaseInv, Grows, unread \subseteq unread', StoredInv, NEW w \in Workers, Handle(w)
  PROVE  ReadsTrue(w)' /\ \A u \in Workers : u # w => Stands(u)
<1>1. CASE ReadPointer(w)
  <2>1. PICK pc \in {"reading", "chaining"} :
          /\ Turns(w, pc, worker[w].read, worker[w].on, worker[w].inv, worker[w].todo)
          /\ pc = "chaining" <=> invoice[worker[w].job.inv].pdf # Null
    BY <1>1, ReadPointerDoes
  <2>2. pc = "chaining" => StillStored(worker[w].job.inv)
    BY <1>1, <2>1, ReadPointerDoes, StoredGrows DEF Stored
  <2> QED BY <2>1, <2>2, ReadsTurn
<1>2. CASE ReadDocument(w) /\ ~GiveUp(w)
  <2>1. /\ Turns(w, "rendering", invoice[worker[w].job.inv].total, worker[w].on, worker[w].inv, worker[w].todo)
        /\ UNCHANGED invoice /\ worker[w].job.inv \in Invoices
    BY <1>2, ReadDocumentDoes
  <2>2. invoice[worker[w].job.inv].total # Null
    BY <2>1 DEF BaseInv, RowsOK, Invoice
  <2> QED BY <2>1, <2>2, ReadsTurn
<1>3. CASE LinkPdf(w)
  <2>1. /\ Turns(w, "chaining", Null, worker[w].on, worker[w].inv, worker[w].todo)
        /\ worker[w].job.inv \in Invoices /\ worker[w].pc = "rendering"
    BY <1>3, LinkPdfDoes
  <2>2. PICK row \in Invoice :
          /\ invoice' = [invoice EXCEPT ![worker[w].job.inv] = row]
          /\ row.pdf = IF invoice[worker[w].job.inv].pdf = Null THEN worker[w].read
                         ELSE invoice[worker[w].job.inv].pdf
    BY <1>3, LinkPdfDoes
  <2>3. invoice'[worker[w].job.inv].pdf # Null
    BY <2>1, <2>2 DEF StoredInv, ReadsTrue, BaseInv, RowsOK
  <2> QED BY <2>1, <2>3, ReadsTurn DEF StillStored
<1>4. CASE ClaimReminder(w) /\ ~Return(w)
  <2>1. Turns(w, "composing", worker[w].read, today, worker[w].inv, worker[w].todo)
    BY <1>4, ClaimReminderDoes
  <2> QED BY <2>1, ReadsTurn
<1>5. CASE StartMail(w)
  <2>1. Turns(w, "composing", worker[w].read, worker[w].on, worker[w].inv, worker[w].todo)
    BY <1>5, StartMailDoes
  <2> QED BY <2>1, ReadsTurn
<1>6. CASE ComposeMail(w) /\ ~GiveUp(w)
  <2>1. Turns(w, "attaching", worker[w].read, worker[w].on, worker[w].inv, worker[w].todo)
    BY <1>6, ComposeMailDoes
  <2> QED BY <2>1, ReadsTurn
<1>7. CASE AttachPdf(w)
  <2> DEFINE i == worker[w].job.inv
  <2>1. PICK pdf \in (0..MaxTotal) \cup {Null} :
          /\ Turns(w, "checking", pdf, worker[w].on, worker[w].inv, worker[w].todo)
          /\ Live(i) => pdf = invoice[i].pdf
    BY <1>7, AttachPdfDoes
  <2>2. ASSUME worker[w].job.kind = "mail", pdf = Null PROVE StillExcused(Of(w))
    <3>1. CASE Live(i)
      <4>1. invoice[i].total > 0
        BY <1>7, <2>1, <2>2, <3>1, AttachPdfDoes DEF StoredInv, ReadsTrue, Busy, Backed, Stored
      <4>2. Of(w) \in Mails /\ Excused(Of(w))
        BY <1>7, <4>1, AttachPdfDoes, AtHand DEF Excused, Of
      <4> QED BY <4>2, ExcusedGrows
    <3>2. CASE ~Live(i)
      BY <1>7, <3>2 DEF AttachPdf, StillExcused
    <3> QED BY <3>1, <3>2
  <2> QED BY <2>1, <2>2, ReadsTurn
<1>8. CASE CheckSent(w) /\ ~Return(w)
  <2>1. Turns(w, "loading", worker[w].read, worker[w].on, worker[w].inv, worker[w].todo)
    BY <1>8, CheckSentDoes
  <2>2. ASSUME worker[w].job.kind = "mail", worker[w].read = Null PROVE StillExcused(Of(w))
    <3>1. Of(w) \in Mails /\ Excused(Of(w))
      BY <1>8, <2>2, CheckSentDoes, AtHand DEF StoredInv, ReadsTrue, Excused, Of
    <3> QED BY <3>1, ExcusedGrows
  <2> QED BY <2>1, <2>2, ReadsTurn
<1>9. CASE Deliver(w)
  <2>1. Turns(w, "accepted", worker[w].read, worker[w].on, worker[w].inv, worker[w].todo)
    BY <1>9, DeliverDoes
  <2> QED BY <2>1, ReadsTurn
<1>10. CASE FindOverdue(w) /\ ~Return(w)
  <2>1. PICK todo : Turns(w, "announcing", worker[w].read, worker[w].on, worker[w].inv, todo)
    BY <1>10, FindOverdueDoes
  <2> QED BY <2>1, ReadsTurn
<1>11. ASSUME NEW i \in Invoices, AuditOverdue(w, i)
       PROVE  ReadsTrue(w)' /\ \A u \in Workers : u # w => Stands(u)
  <2>1. Turns(w, "emitting", worker[w].read, worker[w].on, i, worker[w].todo \ {i})
    BY <1>11, AuditOverdueDoes
  <2> QED BY <2>1, ReadsTurn
<1>12. CASE EmitOverdue(w)
  <2>1. Turns(w, "announcing", worker[w].read, worker[w].on, Null, worker[w].todo)
    BY <1>12, EmitOverdueDoes
  <2> QED BY <2>1, ReadsTurn
<1>13. CASE AssessFees(w)
  <2>1. PICK todo : Turns(w, "charging", worker[w].read, worker[w].on, worker[w].inv, todo)
    BY <1>13, AssessFeesDoes
  <2> QED BY <2>1, ReadsTurn
<1>14. ASSUME NEW i \in Invoices, ChargeLateFee(w, i)
       PROVE  ReadsTrue(w)' /\ \A u \in Workers : u # w => Stands(u)
  <2> DEFINE left == worker[w].todo \ {i}
  <2>1. \/ Turns(w, "charged", worker[w].read, worker[w].on, i, left)
        \/ Turns(w, "charging", worker[w].read, worker[w].on, worker[w].inv, left)
    BY <1>14, ChargeLateFeeDoes
  <2> HIDE DEF left
  <2> QED BY <2>1, ReadsTurn
<1>15. CASE RequestRender(w)
  <2>1. Turns(w, "charging", worker[w].read, worker[w].on, Null, worker[w].todo)
    BY <1>15, RequestRenderDoes
  <2> QED BY <2>1, ReadsTurn
<1>16. CASE worker[w].pc # "idle" /\ Return(w)
  BY <1>16, ReadsReturn
<1>17. CASE worker[w].pc # "idle" /\ GiveUp(w)
  BY <1>17, ReadsReturn DEF GiveUp
<1>18. CASE ChainMail(w) \/ RecordSent(w) \/ EndSweep(w) \/ RunReminderSweep(w)
  BY <1>16, <1>18 DEF ChainMail, RecordSent, EndSweep, RunReminderSweep, At
<1>19. CASE (ReadDocument(w) \/ ComposeMail(w)) /\ GiveUp(w)
  BY <1>17, <1>19 DEF ReadDocument, ComposeMail, At
<1>20. CASE (ClaimReminder(w) \/ CheckSent(w) \/ FindOverdue(w)) /\ Return(w)
  BY <1>16, <1>20 DEF ClaimReminder, CheckSent, FindOverdue, At
<1>21. CASE LoadAttachment(w)
  <2>1. PICK read \in (0..MaxTotal) \cup {Null} :
          /\ Turns(w, "sending", read, worker[w].on, worker[w].inv, worker[w].todo)
          /\ read = worker[w].read \/ Of(w) \in unread'
    BY <1>21, LoadAttachmentDoes
  <2>2. ASSUME worker[w].job.kind = "mail", read = Null PROVE StillExcused(Of(w))
    <3>1. CASE Of(w) \in unread'
      BY <3>1 DEF StillExcused
    <3>2. CASE read = worker[w].read
      <4>1. Of(w) \in Mails /\ Excused(Of(w))
        BY <1>21, <2>2, <3>2, LoadAttachmentDoes DEF StoredInv, ReadsTrue, Excused, Of
      <4> QED BY <4>1, ExcusedGrows
    <3> QED BY <2>1, <3>1, <3>2
  <2> QED BY <2>1, <2>2, ReadsTurn
<1> QED BY <1>1, <1>2, <1>3, <1>4, <1>5, <1>6, <1>7, <1>8, <1>9, <1>10, <1>11, <1>12, <1>13, <1>14, <1>15,
           <1>18, <1>19, <1>20, <1>21 DEF Handle

LEMMA MailsStayExcused ==
  ASSUME BaseInv, Grows, unread \subseteq unread', StoredInv, [Next]_vars
  PROVE  MailCarriesPdf'
<1>1. ASSUME NEW m \in Mails, m[2] \in Occasions, m \in bare PROVE StillExcused(m)
  BY <1>1, ExcusedGrows DEF StoredInv, MailCarriesPdf, Excused
<1>2. CASE bare' = bare
  BY <1>1, <1>2 DEF MailCarriesPdf, StillExcused, BaseInv, OutsideOK
<1>3. ASSUME NEW w \in Workers, Deliver(w), worker[w].read = Null, Of(w)[2] \in Occasions
      PROVE  StillExcused(Of(w))
  <2>1. worker[w].pc = "sending" /\ Of(w) \in Mails /\ Mailing(worker[w].job) /\ WellMade(worker[w].job)
    BY <1>3, DeliverDoes, AtHand
  <2>2. worker[w].job.kind = "mail"
    BY <1>3, <2>1 DEF Mailing, WellMade, Of
  <2>3. Excused(Of(w))
    BY <1>3, <2>1, <2>2 DEF StoredInv, ReadsTrue, Excused, Of
  <2> QED BY <2>1, <2>3, ExcusedGrows
<1>4. ASSUME NEW w \in Workers, Deliver(w) PROVE MailCarriesPdf'
  <2>1. bare' = bare \/ (worker[w].read = Null /\ bare' = bare \cup {Of(w)})
    BY <1>4 DEF Deliver
  <2>2. ASSUME NEW m \in bare', m[2] \in Occasions PROVE StillExcused(m)
    BY <1>1, <1>3, <1>4, <2>1, <2>2 DEF BaseInv, OutsideOK
  <2> QED BY <2>2 DEF MailCarriesPdf, StillExcused
<1>5. ASSUME NEW w \in Workers, Handle(w), ~Deliver(w) PROVE bare' = bare
  BY <1>5 DEF Handle, ReadPointer, ReadDocument, LinkPdf, ChainMail, ClaimReminder, StartMail, ComposeMail, AttachPdf,
              CheckSent, LoadAttachment, RecordSent, FindOverdue, EmitOverdue, AssessFees, RequestRender, EndSweep,
              AuditOverdue, ChargeLateFee, RunReminderSweep, GiveUp, outside
<1>6. ASSUME NEW w \in Workers, FailAttempt(w) \/ Crash(w) \/ Stall(w) PROVE bare' = bare
  BY <1>6, LostCases DEF Stall, Lose, outside
<1>7. ASSUME NEW i \in Invoices, SendInvoice(i) \/ SettleInvoice(i) \/ AdjustLateFee(i) \/ EditInvoice(i)
      PROVE  bare' = bare
  BY <1>7 DEF SendInvoice, SettleInvoice, AdjustLateFee, EditInvoice, outside
<1>8. CASE NextDay \/ (\E w \in Workers, j \in queue : TakeJob(w, j)) \/ UNCHANGED vars
  BY <1>2, <1>8 DEF NextDay, TakeJob, vars, outside
<1> QED BY <1>2, <1>4, <1>5, <1>6, <1>7, <1>8 DEF Next

LEMMA StoredInit == Init => StoredInv
BY DEF Init, StoredInv, MailCarriesPdf, Draft, Idle, ReadsTrue, Busy

LEMMA StoredNext == BaseInv /\ StoredInv /\ [Next]_vars => StoredInv'
<1> SUFFICES ASSUME BaseInv, StoredInv, [Next]_vars PROVE StoredInv'
  OBVIOUS
<1>1. Grows /\ unread \subseteq unread' /\ BaseInv'
  BY Grown, UnreadGrows, BaseNext
<1>2. \A i \in Invoices : invoice'[i].pdf # Null => invoice'[i].pdf = invoice'[i].total \/ i \in overtaken'
  BY <1>1, RowsStayTrue
<1>3. \A j \in queue' : StillBacked(j)
  <2>1. \A j \in queue' : WellMade(j)
    BY <1>1 DEF BaseInv, WaitingOK
  <2> QED BY <1>1, <2>1, QueueKnown, KnownBacked
<1>4. \A u \in Workers : ReadsTrue(u)'
  <2>1. ASSUME NEW u \in Workers, Stands(u) PROVE ReadsTrue(u)'
    BY <1>1, <2>1, ReadsStay DEF StoredInv
  <2>2. ASSUME NEW w \in Workers, Handle(w) PROVE \A u \in Workers : ReadsTrue(u)'
    BY <1>1, <2>1, <2>2, HandleReads
  <2>3. ASSUME NEW w \in Workers, FailAttempt(w) \/ Crash(w) PROVE \A u \in Workers : ReadsTrue(u)'
    <3>1. worker'[w] = Idle /\ \A u \in Workers : u # w => worker'[u] = worker[u]
      BY <2>3, LostCases, LostBase
    <3>2. ReadsTrue(w)'
      BY <3>1, IdleTyped, ReadsIdle
    <3> QED BY <2>1, <3>1, <3>2 DEF Stands
  <2>4. ASSUME NEW w \in Workers, Stall(w) PROVE \A u \in Workers : Stands(u)
    BY <2>4, StallDoes DEF Stands
  <2>5. ASSUME NEW w \in Workers, NEW j \in queue, TakeJob(w, j) PROVE \A u \in Workers : ReadsTrue(u)'
    <3>1. worker'[w].pc = "taken" /\ worker'[w].job = j /\ \A u \in Workers : u # w => worker'[u] = worker[u]
      BY <2>5, TakeJobDoes
    <3>2. StillBacked(j)
      BY <1>1, BackedGrows DEF StoredInv, BaseInv, WaitingOK
    <3>3. ReadsTrue(w)'
      BY <3>1, <3>2 DEF ReadsTrue, Backed, Stored, StillBacked, StillStored
    <3> QED BY <2>1, <3>1, <3>3 DEF Stands
  <2>6. ASSUME NEW i \in Invoices, SendInvoice(i) \/ SettleInvoice(i) \/ AdjustLateFee(i) \/ EditInvoice(i)
        PROVE  \A u \in Workers : Stands(u)
    BY <2>6 DEF SendInvoice, SettleInvoice, AdjustLateFee, EditInvoice, Stands
  <2>7. CASE NextDay \/ UNCHANGED vars
    BY <2>1, <2>7 DEF NextDay, vars, Stands
  <2> QED BY <2>1, <2>2, <2>3, <2>4, <2>5, <2>6, <2>7 DEF Next
<1>5. MailCarriesPdf'
  BY <1>1, MailsStayExcused
<1> QED BY <1>2, <1>3, <1>4, <1>5 DEF StoredInv, Backed, Stored, StillBacked, StillStored

-----------------------------------------------------------------------------
(* Which way a handler goes, and what it leaves alone. *)

Moves(from, to) ==
  <<from, to>> \in
    {<<"taken", "reading">>, <<"taken", "chaining">>, <<"reading", "rendering">>, <<"rendering", "chaining">>,
     <<"taken", "composing">>, <<"composing", "attaching">>, <<"attaching", "checking">>,
     <<"checking", "loading">>, <<"loading", "sending">>, <<"sending", "accepted">>,
     <<"taken", "announcing">>, <<"announcing", "emitting">>, <<"emitting", "announcing">>,
     <<"announcing", "charging">>, <<"charging", "charging">>, <<"charging", "charged">>, <<"charged", "charging">>}

\* Worker w returns, or goes on; and why, where it matters.
Leaves(w) == worker[w].pc # "idle" /\ Return(w) /\ (worker[w].pc = "accepted" => RecordSent(w))
Goes(w) ==
  \E pc, read, on, inv, todo :
    /\ Turns(w, pc, read, on, inv, todo) /\ Moves(worker[w].pc, pc)
    /\ on = worker[w].on \/ ClaimReminder(w)
    /\ pc = "loading" => Of(w) \notin mailed
    /\ pc = "accepted" => Deliver(w)
    /\ pc = "charged" => \E i \in Invoices : ChargeLateFee(w, i)
    /\ pc \in {"announcing", "emitting"} =>
         FindOverdue(w) \/ EmitOverdue(w) \/ \E i \in Invoices : AuditOverdue(w, i)

LEMMA HandleMoves ==
  ASSUME BaseInv, NEW w \in Workers, Handle(w)
  PROVE  Leaves(w) \/ Goes(w)
<1>1. CASE ReadPointer(w)
  <2>1. PICK pc \in {"reading", "chaining"} : Turns(w, pc, worker[w].read, worker[w].on, worker[w].inv, worker[w].todo)
    BY <1>1, ReadPointerDoes
  <2> QED BY <1>1, <2>1, ReadPointerDoes DEF Goes, Moves
<1>2. CASE ReadDocument(w) /\ ~GiveUp(w)
  <2>1. Turns(w, "rendering", invoice[worker[w].job.inv].total, worker[w].on, worker[w].inv, worker[w].todo)
    BY <1>2, ReadDocumentDoes
  <2> QED BY <1>2, <2>1, ReadDocumentDoes DEF Goes, Moves
<1>3. CASE LinkPdf(w)
  <2>1. Turns(w, "chaining", Null, worker[w].on, worker[w].inv, worker[w].todo)
    BY <1>3, LinkPdfDoes
  <2> QED BY <1>3, <2>1, LinkPdfDoes DEF Goes, Moves
<1>4. CASE ClaimReminder(w) /\ ~Return(w)
  <2>1. Turns(w, "composing", worker[w].read, today, worker[w].inv, worker[w].todo)
    BY <1>4, ClaimReminderDoes
  <2> QED BY <1>4, <2>1, ClaimReminderDoes DEF Goes, Moves
<1>5. CASE StartMail(w)
  <2>1. Turns(w, "composing", worker[w].read, worker[w].on, worker[w].inv, worker[w].todo)
    BY <1>5, StartMailDoes
  <2> QED BY <1>5, <2>1, StartMailDoes DEF Goes, Moves
<1>6. CASE ComposeMail(w) /\ ~GiveUp(w)
  <2>1. Turns(w, "attaching", worker[w].read, worker[w].on, worker[w].inv, worker[w].todo)
    BY <1>6, ComposeMailDoes
  <2> QED BY <1>6, <2>1, ComposeMailDoes DEF Goes, Moves
<1>7. CASE AttachPdf(w)
  <2>1. PICK pdf : Turns(w, "checking", pdf, worker[w].on, worker[w].inv, worker[w].todo)
    BY <1>7, AttachPdfDoes
  <2> QED BY <1>7, <2>1, AttachPdfDoes DEF Goes, Moves
<1>8. CASE CheckSent(w) /\ ~Return(w)
  <2>1. Turns(w, "loading", worker[w].read, worker[w].on, worker[w].inv, worker[w].todo) /\ Of(w) \notin mailed
    BY <1>8, CheckSentDoes
  <2> QED BY <1>8, <2>1, CheckSentDoes DEF Goes, Moves
<1>9. CASE Deliver(w)
  <2>1. Turns(w, "accepted", worker[w].read, worker[w].on, worker[w].inv, worker[w].todo)
    BY <1>9, DeliverDoes
  <2> QED BY <1>9, <2>1, DeliverDoes DEF Goes, Moves
<1>10. CASE FindOverdue(w) /\ ~Return(w)
  <2>1. PICK todo : Turns(w, "announcing", worker[w].read, worker[w].on, worker[w].inv, todo)
    BY <1>10, FindOverdueDoes
  <2> QED BY <1>10, <2>1, FindOverdueDoes DEF Goes, Moves
<1>11. ASSUME NEW i \in Invoices, AuditOverdue(w, i) PROVE Goes(w)
  <2>1. Turns(w, "emitting", worker[w].read, worker[w].on, i, worker[w].todo \ {i})
    BY <1>11, AuditOverdueDoes
  <2> QED BY <1>11, <2>1, AuditOverdueDoes DEF Goes, Moves
<1>12. CASE EmitOverdue(w)
  <2>1. Turns(w, "announcing", worker[w].read, worker[w].on, Null, worker[w].todo)
    BY <1>12, EmitOverdueDoes
  <2> QED BY <1>12, <2>1, EmitOverdueDoes DEF Goes, Moves
<1>13. CASE AssessFees(w)
  <2>1. PICK todo : Turns(w, "charging", worker[w].read, worker[w].on, worker[w].inv, todo)
    BY <1>13, AssessFeesDoes
  <2> QED BY <1>13, <2>1, AssessFeesDoes DEF Goes, Moves
<1>14. ASSUME NEW i \in Invoices, ChargeLateFee(w, i) PROVE Goes(w)
  <2> DEFINE left == worker[w].todo \ {i}
  <2>1. \/ Turns(w, "charged", worker[w].read, worker[w].on, i, left)
        \/ Turns(w, "charging", worker[w].read, worker[w].on, worker[w].inv, left)
    BY <1>14, ChargeLateFeeDoes
  <2> HIDE DEF left
  <2>2. PICK pc, inv : Turns(w, pc, worker[w].read, worker[w].on, inv, left) /\ pc \in {"charging", "charged"}
    BY <2>1
  <2>3. worker[w].pc = "charging"
    BY <1>14, ChargeLateFeeDoes
  <2>4. Moves(worker[w].pc, pc) /\ pc \notin {"loading", "accepted", "announcing", "emitting"}
    BY <2>2, <2>3 DEF Moves
  <2>5. \E k \in Invoices : ChargeLateFee(w, k)
    BY <1>14
  <2> QED BY <2>2, <2>4, <2>5 DEF Goes
<1>15. CASE RequestRender(w)
  <2>1. Turns(w, "charging", worker[w].read, worker[w].on, Null, worker[w].todo)
    BY <1>15, RequestRenderDoes
  <2> QED BY <1>15, <2>1, RequestRenderDoes DEF Goes, Moves
<1>16. CASE ChainMail(w) \/ RecordSent(w) \/ EndSweep(w) \/ RunReminderSweep(w)
  BY <1>16 DEF ChainMail, RecordSent, EndSweep, RunReminderSweep, At, Leaves
<1>17. CASE (ReadDocument(w) \/ ComposeMail(w)) /\ GiveUp(w)
  BY <1>17 DEF ReadDocument, ComposeMail, GiveUp, At, Leaves
<1>18. CASE (ClaimReminder(w) \/ CheckSent(w) \/ FindOverdue(w)) /\ Return(w)
  BY <1>18 DEF ClaimReminder, CheckSent, FindOverdue, At, Leaves
<1>19. CASE LoadAttachment(w)
  <2>1. PICK read : Turns(w, "sending", read, worker[w].on, worker[w].inv, worker[w].todo)
    BY <1>19, LoadAttachmentDoes
  <2> QED BY <1>19, <2>1, LoadAttachmentDoes DEF Goes, Moves
<1> QED BY <1>1, <1>2, <1>3, <1>4, <1>5, <1>6, <1>7, <1>8, <1>9, <1>10, <1>11, <1>12, <1>13, <1>14, <1>15,
           <1>16, <1>17, <1>18, <1>19 DEF Handle

LEMMA HandleLeaves ==
  ASSUME BaseInv, NEW w \in Workers, Handle(w)
  PROVE  /\ UNCHANGED today
         /\ queue' = queue \/ ChainMail(w) \/ RequestRender(w) \/ RunReminderSweep(w)
         /\ UNCHANGED <<accepted, nudged>> \/ Deliver(w)
         /\ mailed' = mailed \/ RecordSent(w)
         /\ resent' = resent \/ FindOverdue(w)
         /\ announced' = announced \/ \E i \in Invoices : AuditOverdue(w, i)
         /\ heard' = heard \/ EmitOverdue(w)
BY DEF Handle, ReadPointer, ReadDocument, LinkPdf, ChainMail, ClaimReminder, StartMail, ComposeMail, AttachPdf,
       CheckSent, LoadAttachment, Deliver, RecordSent, FindOverdue, EmitOverdue, AssessFees, RequestRender, EndSweep,
       AuditOverdue, ChargeLateFee, RunReminderSweep, GiveUp, log, outside, history

-----------------------------------------------------------------------------
(* CarriedInv: who carries a mail. *)

\* A mail, or a reminder, has one id.
LEMMA SameIds ==
  ASSUME NEW j \in Jobs, NEW k \in Jobs, WellMade(j), WellMade(k), Mailing(j), Mailing(k), For(j) = For(k)
  PROVE  Id(j) = Id(k)
<1>1. j.inv = k.inv /\ j.occ = k.occ
  BY DEF For
<1>2. j.kind = k.kind /\ j.n = k.n
  BY <1>1 DEF Mailing, WellMade
<1> DEFINE a == Id(j)
           b == Id(k)
<1>3. /\ a \in Jobs /\ a.kind = j.kind /\ a.inv = j.inv /\ a.occ = j.occ /\ a.n = j.n
      /\ a.tries = 0 /\ a.stalled = FALSE
  BY IdTyped
<1>4. /\ b \in Jobs /\ b.kind = k.kind /\ b.inv = k.inv /\ b.occ = k.occ /\ b.n = k.n
      /\ b.tries = 0 /\ b.stalled = FALSE
  BY IdTyped
<1> HIDE DEF a, b
<1>5. a = b
  BY <1>1, <1>2, <1>3, <1>4 DEF Jobs
<1> QED BY <1>5 DEF a, b

OfNext(u) == <<worker'[u].job.inv, worker'[u].job.occ>>

\* The workers keep their jobs or drop them, and nothing known is queued again.
Adds(new) ==
  /\ queue' \subseteq queue \cup new /\ resent \subseteq resent'
  /\ \A j \in new : Mailing(j) => j \in Jobs /\ WellMade(j) /\ Id(j) = j /\ j \notin KnownIds
  /\ \A j, k \in new : Mailing(j) /\ Mailing(k) /\ For(j) = For(k) => j = k

KeepsJob(u) ==
  \/ worker'[u] = worker[u] \/ worker'[u] = Idle
  \/ Busy(u) /\ worker'[u].job = worker[u].job /\ worker'[u].owner = worker[u].owner

LEMMA CarriersStay ==
  ASSUME BaseInv, OneCarrier, NEW new, Adds(new), \A u \in Workers : KeepsJob(u)
  PROVE  OneCarrier'
<1>1. ASSUME NEW j \in new, Mailing(j) PROVE \A k \in queue : Mailing(k) => For(k) # For(j)
  <2> SUFFICES ASSUME NEW k \in queue, Mailing(k), For(k) = For(j) PROVE FALSE
    OBVIOUS
  <2>1. Id(k) = j
    BY <1>1, SameIds DEF Adds, BaseInv, WaitingOK
  <2> QED BY <1>1, <2>1 DEF Adds, KnownIds
<1>2. ASSUME NEW j \in new, Mailing(j) PROVE \A w \in Workers : worker[w].owner /\ Mailing(worker[w].job) => Of(w) # For(j)
  <2> SUFFICES ASSUME NEW w \in Workers, worker[w].owner, Mailing(worker[w].job), Of(w) = For(j) PROVE FALSE
    OBVIOUS
  <2>1. worker[w].job \in Jobs /\ WellMade(worker[w].job) /\ Of(w) = For(worker[w].job)
    BY AtHand DEF BaseInv, WorkersOK, Place
  <2>2. Id(worker[w].job) = j
    BY <1>2, <2>1, SameIds DEF Adds
  <2> QED BY <1>2, <2>2 DEF Adds, KnownIds
<1>3. \A j, k \in queue' : Mailing(j) /\ Mailing(k) /\ For(j) = For(k) => j = k
  BY <1>1 DEF Adds, OneCarrier
<1>4. ASSUME NEW w \in Workers, Busy(w)' PROVE Busy(w) /\ worker'[w].job = worker[w].job /\ worker'[w].owner = worker[w].owner
  BY <1>4, IdleTyped DEF KeepsJob, Busy
<1>5. ASSUME NEW w \in Workers, worker'[w].owner PROVE worker[w].owner /\ worker'[w].job = worker[w].job
  BY <1>5, IdleTyped DEF KeepsJob
<1>6. ASSUME NEW w \in Workers, Busy(w)', Mailing(worker'[w].job)
      PROVE  /\ worker'[w].owner \/ OfNext(w) \in resent'
             /\ worker'[w].owner => \A j \in queue' : Mailing(j) => For(j) # OfNext(w)
             /\ \A v \in Workers :
                  worker'[w].owner /\ worker'[v].owner /\ Mailing(worker'[v].job) /\ OfNext(v) = OfNext(w) => v = w
  <2>1. Busy(w) /\ Mailing(worker[w].job) /\ worker'[w].job = worker[w].job /\ worker'[w].owner = worker[w].owner
    BY <1>4, <1>6
  <2>2. worker'[w].owner \/ Of(w) \in resent'
    BY <2>1 DEF OneCarrier, Adds
  <2>3. worker'[w].owner => \A j \in queue' : Mailing(j) => For(j) # Of(w)
    BY <1>2, <2>1 DEF OneCarrier, Adds
  <2>4. ASSUME NEW v \in Workers, worker'[w].owner, worker'[v].owner, Mailing(worker'[v].job), OfNext(v) = OfNext(w)
        PROVE  v = w
    BY <1>5, <2>1, <2>4 DEF OneCarrier, Of, OfNext
  <2>5. OfNext(w) = Of(w)
    BY <2>1 DEF Of, OfNext
  <2> QED BY <2>1, <2>2, <2>3, <2>4, <2>5
<1> QED BY <1>3, <1>6 DEF OneCarrier, Of, OfNext, Mailing, For, Busy

LEMMA EnqueueAdds ==
  ASSUME BaseInv, NEW jobs, Enqueue(jobs), resent \subseteq resent',
         \A j \in jobs : Mailing(j) => j \in Jobs /\ WellMade(j) /\ Id(j) = j,
         \A j, k \in jobs : Mailing(j) /\ Mailing(k) /\ For(j) = For(k) => j = k
  PROVE  \E new : Adds(new)
<1> DEFINE new == {j \in jobs : j \notin KnownIds}
<1>1. queue' \subseteq queue \cup new
  BY DEF Enqueue
<1>2. Adds(new)
  BY <1>1 DEF Adds
<1> QED BY <1>2

LEMMA NothingAdded ==
  ASSUME queue' \subseteq queue, resent \subseteq resent'
  PROVE  \E new : Adds(new)
<1>1. Adds({})
  BY DEF Adds
<1> QED BY <1>1

LEMMA HandleAdds ==
  ASSUME BaseInv, NEW w \in Workers, Handle(w)
  PROVE  \E new : Adds(new)
<1>1. resent \subseteq resent'
  BY HandleLeaves DEF FindOverdue
<1>2. CASE queue' = queue
  BY <1>1, <1>2, NothingAdded
<1>3. CASE ChainMail(w)
  <2> DEFINE j == worker[w].job
             k == Job("mail", j.inv, j.occ, 0)
             jobs == IF j.occ = Null THEN {} ELSE {k}
  <2>1. j.inv \in Invoices /\ j.occ \in Occasions \cup {Null} /\ Enqueue(jobs)
    BY <1>3, AtHand DEF ChainMail, At, WellMade
  <2>2. j.occ # Null => k \in Jobs /\ WellMade(k) /\ Id(k) = k
    BY <2>1, MailTyped
  <2> HIDE DEF k
  <2>3. \A l \in jobs : l \in Jobs /\ WellMade(l) /\ Id(l) = l
    BY <2>2
  <2>4. \A l, m \in jobs : l = m
    OBVIOUS
  <2> HIDE DEF jobs
  <2> QED BY <1>1, <2>1, <2>3, <2>4, EnqueueAdds
<1>4. CASE RequestRender(w)
  <2> DEFINE j == Render(worker[w].inv, Null)
  <2>1. worker[w].inv \in Invoices /\ Enqueue({j})
    BY <1>4, RequestRenderDoes DEF RequestRender
  <2>2. ~Mailing(j)
    BY <2>1, RenderTyped DEF Mailing
  <2> HIDE DEF j
  <2> QED BY <1>1, <2>1, <2>2, EnqueueAdds
<1>5. CASE RunReminderSweep(w)
  BY <1>1, <1>5, ReminderSweepDoes, EnqueueAdds
<1> QED BY <1>2, <1>3, <1>4, <1>5, HandleLeaves

LEMMA RequestAdds ==
  ASSUME BaseInv, NEW i \in Invoices,
         SendInvoice(i) \/ SettleInvoice(i) \/ AdjustLateFee(i) \/ EditInvoice(i)
  PROVE  \E new : Adds(new)
<1>1. resent' = resent
  BY DEF SendInvoice, SettleInvoice, AdjustLateFee, EditInvoice, history
<1>2. ASSUME NEW jobs, Enqueue(jobs), \A j \in jobs : j.kind = "render" PROVE \E new : Adds(new)
  BY <1>1, <1>2, EnqueueAdds DEF Mailing
<1>3. CASE SendInvoice(i) \/ AdjustLateFee(i)
  <2>1. PICK occ \in Occasions \cup {Null} : Enqueue({Render(i, occ)})
    BY <1>3 DEF SendInvoice, AdjustLateFee, Occasions
  <2> DEFINE j == Render(i, occ)
  <2>2. j.kind = "render" /\ Enqueue({j})
    BY <2>1, RenderTyped
  <2> HIDE DEF j
  <2> QED BY <1>2, <2>2
<1>4. CASE SettleInvoice(i)
  BY <1>2, <1>4, SettleInvoiceDoes
<1>5. CASE EditInvoice(i)
  BY <1>1, <1>5, NothingAdded DEF EditInvoice
<1> QED BY <1>3, <1>4, <1>5

LEMMA HandleKeepsJobs ==
  ASSUME BaseInv, NEW w \in Workers, Handle(w)
  PROVE  \A u \in Workers : KeepsJob(u)
<1>1. CASE Leaves(w)
  BY <1>1, Returned DEF Leaves, KeepsJob
<1>2. CASE Goes(w)
  BY <1>2 DEF Goes, Turns, KeepsJob, Busy
<1> QED BY <1>1, <1>2, HandleMoves

\* A job that is given back was carried by its owner alone.
LEMMA GivenBack ==
  ASSUME BaseInv, OneCarrier, NEW w \in Workers, worker[w].owner, NEW next \in SUBSET Jobs,
         \A k \in next : Same(k, worker[w].job), \A k, l \in next : k = l,
         queue' = queue \cup next, ~worker'[w].owner, resent \subseteq resent',
         worker'[w].pc = "idle" \/ (worker'[w].job = worker[w].job /\ (Mailing(worker[w].job) => Of(w) \in resent')),
         \A u \in Workers : u # w => worker'[u] = worker[u]
  PROVE  OneCarrier'
<1>1. worker[w].pc # "idle" /\ Of(w) = For(worker[w].job)
  BY AtHand DEF BaseInv, WorkersOK, Place
<1>2. \A k \in next : For(k) = Of(w) /\ (Mailing(k) <=> Mailing(worker[w].job))
  BY <1>1 DEF Same, For, Mailing
<1>3. \A k \in next : Mailing(k) => \A j \in queue : Mailing(j) => For(j) # For(k)
  BY <1>1, <1>2 DEF OneCarrier, Busy
<1>4. \A j, k \in queue' : Mailing(j) /\ Mailing(k) /\ For(j) = For(k) => j = k
  BY <1>3 DEF OneCarrier
<1>5. ASSUME NEW u \in Workers, worker'[u].owner PROVE u # w /\ worker'[u] = worker[u]
  BY <1>5
<1>6. ASSUME NEW u \in Workers, Busy(u)', Mailing(worker'[u].job)
      PROVE  /\ worker'[u].owner \/ OfNext(u) \in resent'
             /\ worker'[u].owner => \A j \in queue' : Mailing(j) => For(j) # OfNext(u)
             /\ \A v \in Workers :
                  worker'[u].owner /\ worker'[v].owner /\ Mailing(worker'[v].job) /\ OfNext(v) = OfNext(u) => v = u
  <2>1. CASE u = w
    BY <1>5, <1>6, <2>1 DEF Of, OfNext, Busy
  <2>2. CASE u # w
    <3>1. worker'[u] = worker[u] /\ Busy(u) /\ OfNext(u) = Of(u)
      BY <1>6, <2>2 DEF Busy, Of, OfNext
    <3>2. worker'[u].owner \/ OfNext(u) \in resent'
      BY <1>6, <3>1 DEF OneCarrier
    <3>3. worker'[u].owner => \A j \in queue' : Mailing(j) => For(j) # OfNext(u)
      <4> SUFFICES ASSUME worker[u].owner, NEW j \in queue', Mailing(j), For(j) = Of(u) PROVE FALSE
        BY <3>1
      <4>1. Mailing(worker[u].job)
        BY <1>6, <3>1
      <4>2. j \notin queue
        BY <3>1, <4>1 DEF OneCarrier
      <4>3. Mailing(worker[w].job) /\ Of(w) = Of(u)
        BY <1>2, <4>2
      <4> QED BY <1>1, <2>2, <3>1, <4>1, <4>3 DEF OneCarrier, Busy
    <3>4. \A v \in Workers :
            worker'[u].owner /\ worker'[v].owner /\ Mailing(worker'[v].job) /\ OfNext(v) = OfNext(u) => v = u
      <4> SUFFICES ASSUME NEW v \in Workers, worker'[u].owner, worker'[v].owner,
                          Mailing(worker'[v].job), OfNext(v) = OfNext(u)
                   PROVE  v = u
        OBVIOUS
      <4>1. worker'[v] = worker[v] /\ OfNext(v) = Of(v)
        BY <1>5 DEF Of, OfNext
      <4>2. worker[u].owner /\ worker[v].owner /\ Mailing(worker[u].job) /\ Mailing(worker[v].job) /\ Of(v) = Of(u)
        BY <1>6, <3>1, <4>1
      <4> QED BY <3>1, <4>2 DEF OneCarrier
    <3> QED BY <3>2, <3>3, <3>4
  <2> QED BY <2>1, <2>2
<1> QED BY <1>4, <1>6 DEF OneCarrier, Of, OfNext, Mailing, For, Busy

LEMMA TakenAlone ==
  ASSUME BaseInv, OneCarrier, NEW w \in Workers, NEW j \in queue, TakeJob(w, j)
  PROVE  OneCarrier'
<1>1. /\ worker[w].pc = "idle" /\ queue' = queue \ {j} /\ worker'[w].job = j /\ worker'[w].owner
      /\ \A u \in Workers : u # w => worker'[u] = worker[u]
  BY TakeJobDoes
<1>2. resent' = resent
  BY DEF TakeJob, history
<1>3. \A k, l \in queue' : Mailing(k) /\ Mailing(l) /\ For(k) = For(l) => k = l
  BY <1>1 DEF OneCarrier
<1>4. OfNext(w) = For(j) /\ \A u \in Workers : u # w => OfNext(u) = Of(u)
  BY <1>1 DEF OfNext, Of, For
<1>5. ASSUME NEW u \in Workers, Busy(u)', Mailing(worker'[u].job)
      PROVE  /\ worker'[u].owner \/ OfNext(u) \in resent'
             /\ worker'[u].owner => \A k \in queue' : Mailing(k) => For(k) # OfNext(u)
             /\ \A v \in Workers :
                  worker'[u].owner /\ worker'[v].owner /\ Mailing(worker'[v].job) /\ OfNext(v) = OfNext(u) => v = u
  <2>1. \A v \in Workers \ {w} : worker[v].owner /\ Mailing(worker[v].job) /\ Mailing(j) => Of(v) # For(j)
    BY DEF OneCarrier, Busy, BaseInv, WorkersOK, Place
  <2>2. CASE u = w
    <3>1. \A k \in queue' : Mailing(k) => For(k) # OfNext(u)
      BY <1>1, <1>4, <1>5, <2>2 DEF OneCarrier
    <3>2. \A v \in Workers : worker'[v].owner /\ Mailing(worker'[v].job) /\ OfNext(v) = OfNext(u) => v = u
      BY <1>1, <1>4, <1>5, <2>1, <2>2
    <3> QED BY <1>1, <2>2, <3>1, <3>2
  <2>3. CASE u # w
    <3>1. worker'[u] = worker[u] /\ Busy(u) /\ OfNext(u) = Of(u)
      BY <1>1, <1>4, <1>5, <2>3 DEF Busy
    <3>2. worker'[u].owner \/ OfNext(u) \in resent'
      BY <1>2, <1>5, <3>1 DEF OneCarrier
    <3>3. worker'[u].owner => \A k \in queue' : Mailing(k) => For(k) # OfNext(u)
      BY <1>1, <1>5, <3>1 DEF OneCarrier
    <3>4. \A v \in Workers :
            worker'[u].owner /\ worker'[v].owner /\ Mailing(worker'[v].job) /\ OfNext(v) = OfNext(u) => v = u
      BY <1>1, <1>4, <1>5, <2>1, <2>3, <3>1 DEF OneCarrier
    <3> QED BY <3>2, <3>3, <3>4
  <2> QED BY <2>2, <2>3
<1> QED BY <1>3, <1>5 DEF OneCarrier, Of, OfNext, Mailing, For, Busy

LEMMA OneCarrierInit == Init => OneCarrier
BY DEF Init, OneCarrier, Busy, Idle

LEMMA OneCarrierNext == BaseInv /\ OneCarrier /\ [Next]_vars => OneCarrier'
<1> SUFFICES ASSUME BaseInv, OneCarrier, [Next]_vars PROVE OneCarrier'
  OBVIOUS
<1>1. ASSUME NEW w \in Workers, Handle(w) PROVE OneCarrier'
  BY <1>1, HandleAdds, HandleKeepsJobs, CarriersStay
<1>2. ASSUME NEW w \in Workers, FailAttempt(w) \/ Crash(w) PROVE OneCarrier'
  <2>1. PICK next \in SUBSET Jobs :
          /\ Lose(w, next) /\ IsFiniteSet(next)
          /\ \A k \in next : Same(k, worker[w].job)
          /\ \A k, l \in next : k = l
    BY <1>2, LostCases
  <2>2. worker'[w] = Idle /\ \A u \in Workers : u # w => worker'[u] = worker[u]
    BY <2>1, LostBase
  <2>3. resent \subseteq resent'
    BY <2>1 DEF Lose
  <2>4. CASE worker[w].owner
    <3>1. queue' = queue \cup next
      BY <2>1, <2>4 DEF Lose
    <3> QED BY <2>1, <2>2, <2>3, <2>4, <3>1, IdleTyped, GivenBack
  <2>5. CASE ~worker[w].owner
    <3>1. queue' = queue
      BY <2>1, <2>5 DEF Lose
    <3>2. PICK new : Adds(new)
      BY <2>3, <3>1, NothingAdded
    <3> QED BY <2>2, <3>2, CarriersStay DEF KeepsJob
  <2> QED BY <2>4, <2>5
<1>3. ASSUME NEW w \in Workers, Stall(w) PROVE OneCarrier'
  <2>1. PICK k \in Jobs : Same(k, worker[w].job) /\ queue' = queue \cup {k}
    BY <1>3, StallDoes
  <2>2. /\ worker[w].owner /\ ~worker'[w].owner /\ worker'[w].job = worker[w].job
        /\ \A u \in Workers : u # w => worker'[u] = worker[u]
        /\ Mailing(worker[w].job) => resent' = resent \cup {Of(w)}
        /\ ~Mailing(worker[w].job) => resent' = resent
    BY <1>3, StallDoes
  <2>3. resent \subseteq resent' /\ (Mailing(worker[w].job) => Of(w) \in resent')
    BY <2>2
  <2> DEFINE next == {k}
  <2>4. /\ next \in SUBSET Jobs /\ queue' = queue \cup next
        /\ \A l \in next : Same(l, worker[w].job)
        /\ \A l, m \in next : l = m
    BY <2>1
  <2> HIDE DEF next
  <2> QED BY <2>2, <2>3, <2>4, GivenBack
<1>4. ASSUME NEW i \in Invoices, SendInvoice(i) \/ SettleInvoice(i) \/ AdjustLateFee(i) \/ EditInvoice(i)
      PROVE  OneCarrier'
  <2>1. worker' = worker
    BY <1>4 DEF SendInvoice, SettleInvoice, AdjustLateFee, EditInvoice
  <2>2. PICK new : Adds(new)
    BY <1>4, RequestAdds
  <2> QED BY <2>1, <2>2, CarriersStay DEF KeepsJob
<1>5. CASE NextDay
  <2>1. queue' = queue \cup {Sweep("overdueSweep"), Sweep("reminderSweep")}
    BY <1>5, NextDayDoes
  <2>2. ~Mailing(Sweep("overdueSweep")) /\ ~Mailing(Sweep("reminderSweep"))
    BY <1>5, NextDayDoes DEF Mailing
  <2>3. Adds({Sweep("overdueSweep"), Sweep("reminderSweep")})
    BY <1>5, <2>1, <2>2 DEF Adds, NextDay, history
  <2> QED BY <1>5, <2>3, CarriersStay DEF KeepsJob, NextDay
<1>6. CASE UNCHANGED vars
  <2>1. PICK new : Adds(new)
    BY <1>6, NothingAdded DEF vars, history
  <2> QED BY <1>6, <2>1, CarriersStay DEF KeepsJob, vars
<1> QED BY <1>1, <1>2, <1>3, <1>4, <1>5, <1>6, TakenAlone DEF Next

\* Who is sending or has sent m is so still, or was lost.
MailStays(u) ==
  /\ worker'[u].pc = "accepted" => worker[u].pc = "accepted" /\ OfNext(u) = Of(u)
  /\ worker[u].pc = "accepted" => (worker'[u].pc = "accepted" /\ OfNext(u) = Of(u)) \/ Of(u) \in resent'
  /\ worker'[u].pc \in Checked => (worker[u].pc \in Checked /\ OfNext(u) = Of(u)) \/ OfNext(u) \notin mailed

MailInv == AcceptedInv /\ \A m \in Mails \ resent : SentOnce(m)

LEMMA MailStill ==
  ASSUME BaseInv, MailInv, UNCHANGED <<accepted, mailed>>, resent \subseteq resent', \A u \in Workers : MailStays(u)
  PROVE  MailInv'
<1>1. AcceptedInv'
  BY DEF MailInv, AcceptedInv, MailStays, Of, OfNext
<1>2. ASSUME NEW m \in Mails \ resent' PROVE SentOnce(m)'
  <2>1. SentOnce(m) /\ m \notin resent'
    BY <1>2 DEF MailInv
  <2>2. accepted'[m] <= 1
    BY <2>1 DEF SentOnce
  <2>3. ASSUME accepted'[m] # 0, m \notin mailed' PROVE \E w \in Workers : worker'[w].pc = "accepted" /\ OfNext(w) = m
    <3>1. PICK w \in Workers : worker[w].pc = "accepted" /\ Of(w) = m
      BY <2>1, <2>3 DEF SentOnce
    <3> QED BY <2>1, <3>1 DEF MailStays
  <2>4. ASSUME m \in mailed', NEW w \in Workers, worker'[w].pc \in Checked PROVE OfNext(w) # m
    BY <2>1, <2>4 DEF MailStays, SentOnce
  <2> QED BY <2>2, <2>3, <2>4 DEF SentOnce, Of, OfNext
<1> QED BY <1>1, <1>2 DEF MailInv

LEMMA UntouchedMail ==
  ASSUME NEW u \in Workers, worker'[u] = worker[u]
  PROVE  MailStays(u)
BY DEF MailStays, Of, OfNext

LEMMA HandleMail ==
  ASSUME BaseInv, MailInv, NEW w \in Workers, Handle(w), ~Deliver(w), ~RecordSent(w)
  PROVE  MailInv'
<1>1. UNCHANGED <<accepted, mailed>> /\ resent \subseteq resent'
  BY HandleLeaves DEF FindOverdue
<1>2. CASE Leaves(w)
  <2>1. MailStays(w) /\ \A u \in Workers : u # w => worker'[u] = worker[u]
    BY <1>2, Returned, IdleTyped DEF Leaves, MailStays
  <2> QED BY <1>1, <2>1, UntouchedMail, MailStill
<1>3. CASE Goes(w)
  <2>1. PICK pc, read, on, inv, todo :
          /\ Turns(w, pc, read, on, inv, todo) /\ Moves(worker[w].pc, pc)
          /\ pc = "loading" => Of(w) \notin mailed
          /\ pc # "accepted"
    BY <1>3 DEF Goes
  <2>2. worker[w].pc # "accepted" /\ (pc \in Checked => worker[w].pc \in Checked \/ Of(w) \notin mailed)
    BY <2>1 DEF Moves
  <2>3. OfNext(w) = Of(w) /\ worker'[w].pc = pc /\ \A u \in Workers : u # w => worker'[u] = worker[u]
    BY <2>1 DEF Turns, Of, OfNext
  <2>4. MailStays(w)
    BY <2>1, <2>2, <2>3 DEF MailStays
  <2> QED BY <1>1, <2>3, <2>4, UntouchedMail, MailStill
<1> QED BY <1>2, <1>3, HandleMoves

\* What is not doubled is sent by its owner alone.
LEMMA OneSender ==
  ASSUME BaseInv, OneCarrier, NEW v \in Workers, NEW w \in Workers, Busy(v), Busy(w),
         Mailing(worker[v].job), Mailing(worker[w].job), Of(v) = Of(w), Of(w) \notin resent
  PROVE  v = w
BY DEF OneCarrier

LEMMA DeliverMail ==
  ASSUME BaseInv, OneCarrier, MailInv, NEW w \in Workers, Deliver(w)
  PROVE  MailInv'
<1> DEFINE n == Of(w)
<1>1. /\ worker[w].pc = "sending" /\ Mailing(worker[w].job) /\ n \in Mails /\ Busy(w)
      /\ worker'[w].pc = "accepted" /\ OfNext(w) = n
      /\ \A u \in Workers : u # w => worker'[u] = worker[u] /\ OfNext(u) = Of(u)
  BY DeliverDoes DEF Turns, Of, OfNext, Busy
<1>2. UNCHANGED <<mailed, resent>>
  BY DEF Deliver, log, history
<1>3. /\ accepted'[n] >= accepted[n] /\ accepted'[n] > 0 /\ accepted'[n] <= accepted[n] + 1
      /\ \A m \in Mails : m # n => accepted'[m] = accepted[m]
  <2>1. accepted \in [Mails -> Nat]
    BY DEF BaseInv, OutsideOK
  <2>2. \/ accepted' = [accepted EXCEPT ![n] = @] /\ accepted[n] > 0
        \/ accepted' = [accepted EXCEPT ![n] = @ + 1]
    BY DEF Deliver
  <2> HIDE DEF n
  <2> QED BY <1>1, <2>1, <2>2
<1>4. AcceptedInv'
  <2>1. \A m \in mailed' : accepted'[m] > 0
    BY <1>2, <1>3 DEF MailInv, AcceptedInv, BaseInv, LogOK
  <2>2. ASSUME NEW u \in Workers, worker'[u].pc = "accepted" PROVE accepted'[OfNext(u)] > 0
    <3>1. CASE u = w
      BY <1>1, <1>3, <3>1
    <3>2. CASE u # w
      <4>1. worker[u].pc = "accepted" /\ OfNext(u) = Of(u)
        BY <1>1, <2>2, <3>2
      <4>2. accepted[Of(u)] > 0 /\ Of(u) \in Mails
        BY <4>1, AtHand DEF MailInv, AcceptedInv, BaseInv, WorkersOK, Place
      <4> QED BY <1>3, <4>1, <4>2
    <3> QED BY <3>1, <3>2
  <2> QED BY <2>1, <2>2 DEF AcceptedInv, Of, OfNext
<1>5. ASSUME NEW m \in Mails \ resent' PROVE SentOnce(m)'
  <2>1. SentOnce(m) /\ m \notin resent
    BY <1>2, <1>5 DEF MailInv
  <2>2. CASE m = n
    <3>1. m \notin mailed
      BY <1>1, <2>1, <2>2 DEF SentOnce
    <3>2. \A v \in Workers : worker[v].pc = "accepted" => Of(v) # m
      <4> SUFFICES ASSUME NEW v \in Workers, worker[v].pc = "accepted", Of(v) = m PROVE FALSE
        OBVIOUS
      <4>1. Busy(v) /\ Mailing(worker[v].job)
        BY DEF Busy, BaseInv, WorkersOK, Place
      <4> QED BY <1>1, <2>1, <2>2, <4>1, OneSender
    <3>3. accepted[m] = 0
      BY <2>1, <3>1, <3>2 DEF SentOnce
    <3>4. accepted'[m] <= 1
      BY <1>3, <2>2, <3>3
    <3> QED BY <1>1, <1>2, <2>2, <3>1, <3>4 DEF SentOnce, OfNext, Of
  <2>3. CASE m # n
    <3>1. accepted'[m] = accepted[m] /\ mailed' = mailed
      BY <1>2, <1>3, <2>3
    <3>2. \A v \in Workers : worker'[v].pc \in Checked => OfNext(v) = Of(v) /\ worker[v].pc \in Checked
      BY <1>1
    <3>3. \A v \in Workers : worker[v].pc = "accepted" => worker'[v].pc = "accepted" /\ OfNext(v) = Of(v)
      BY <1>1
    <3> QED BY <2>1, <3>1, <3>2, <3>3 DEF SentOnce, OfNext, Of
  <2> QED BY <2>2, <2>3
<1> QED BY <1>4, <1>5 DEF MailInv

LEMMA RecordMail ==
  ASSUME BaseInv, OneCarrier, MailInv, NEW w \in Workers, RecordSent(w)
  PROVE  MailInv'
<1> DEFINE n == Of(w)
<1>1. worker[w].pc = "accepted" /\ Mailing(worker[w].job) /\ Busy(w) /\ Return(w)
  BY DEF RecordSent, At, Mailing, Busy
<1>2. worker'[w].pc = "idle" /\ \A u \in Workers : u # w => worker'[u] = worker[u] /\ OfNext(u) = Of(u)
  BY <1>1, Returned, IdleTyped DEF OfNext, Of
<1>3. UNCHANGED <<accepted, resent>> /\ mailed' = mailed \cup {n}
  BY DEF RecordSent, outside, history
<1>4. accepted[n] > 0
  BY <1>1 DEF MailInv, AcceptedInv
<1>5. AcceptedInv'
  BY <1>2, <1>3, <1>4 DEF MailInv, AcceptedInv, OfNext, Of
<1>6. ASSUME NEW m \in Mails \ resent' PROVE SentOnce(m)'
  <2>1. SentOnce(m) /\ m \notin resent
    BY <1>3, <1>6 DEF MailInv
  <2>2. accepted'[m] <= 1
    BY <1>3, <2>1 DEF SentOnce
  <2>3. ASSUME accepted'[m] # 0, m \notin mailed' PROVE \E v \in Workers : worker'[v].pc = "accepted" /\ OfNext(v) = m
    BY <1>2, <1>3, <2>1, <2>3 DEF SentOnce
  <2>4. ASSUME m \in mailed', NEW v \in Workers, worker'[v].pc \in Checked, OfNext(v) = m PROVE FALSE
    <3>1. v # w /\ worker[v].pc \in Checked /\ Of(v) = m
      BY <1>2, <2>4
    <3>2. Busy(v) /\ Mailing(worker[v].job)
      BY <3>1 DEF Busy, BaseInv, WorkersOK, Place
    <3>3. CASE m = n
      BY <1>1, <2>1, <3>1, <3>2, <3>3, OneSender
    <3>4. CASE m # n
      BY <1>3, <2>1, <2>4, <3>1, <3>4 DEF SentOnce
    <3> QED BY <3>3, <3>4
  <2> QED BY <2>2, <2>3, <2>4 DEF SentOnce, OfNext, Of
<1> QED BY <1>5, <1>6 DEF MailInv

LEMMA MailInit == Init => MailInv
BY DEF Init, MailInv, AcceptedInv, SentOnce, Idle

LEMMA MailNext == BaseInv /\ OneCarrier /\ MailInv /\ [Next]_vars => MailInv'
<1> SUFFICES ASSUME BaseInv, OneCarrier, MailInv, [Next]_vars PROVE MailInv'
  OBVIOUS
<1>1. ASSUME NEW w \in Workers, Handle(w) PROVE MailInv'
  BY <1>1, HandleMail, DeliverMail, RecordMail
<1>2. ASSUME NEW w \in Workers, FailAttempt(w) \/ Crash(w) PROVE MailInv'
  <2>1. PICK next \in SUBSET Jobs :
          /\ Lose(w, next) /\ IsFiniteSet(next)
          /\ \A k \in next : Same(k, worker[w].job)
    BY <1>2, LostCases
  <2>2. worker'[w] = Idle /\ \A u \in Workers : u # w => worker'[u] = worker[u]
    BY <2>1, LostBase
  <2>3. UNCHANGED <<accepted, mailed>>
    <3>1. UNCHANGED <<log, outside>>
      BY <2>1 DEF Lose
    <3> QED BY <3>1 DEF log, outside
  <2>4. resent \subseteq resent' /\ (worker[w].pc = "accepted" => Of(w) \in resent')
    BY <2>1 DEF Lose
  <2>5. MailStays(w)
    BY <2>2, <2>4, IdleTyped DEF MailStays
  <2> QED BY <2>2, <2>3, <2>4, <2>5, UntouchedMail, MailStill
<1>3. ASSUME NEW w \in Workers, Stall(w) PROVE MailInv'
  <2>1. /\ worker'[w].pc = worker[w].pc /\ worker'[w].job = worker[w].job
        /\ \A u \in Workers : u # w => worker'[u] = worker[u]
        /\ resent' = resent \/ resent' = resent \cup {Of(w)}
    BY <1>3, StallDoes
  <2>2. MailStays(w)
    BY <2>1 DEF MailStays, Of, OfNext
  <2>3. UNCHANGED <<accepted, mailed>>
    BY <1>3 DEF Stall, log, outside
  <2> QED BY <2>1, <2>2, <2>3, UntouchedMail, MailStill
<1>4. ASSUME NEW w \in Workers, NEW j \in queue, TakeJob(w, j) PROVE MailInv'
  <2>1. worker[w].pc = "idle" /\ worker'[w].pc = "taken" /\ \A u \in Workers : u # w => worker'[u] = worker[u]
    BY <1>4, TakeJobDoes
  <2>2. MailStays(w)
    BY <2>1 DEF MailStays
  <2>3. UNCHANGED <<accepted, mailed, resent>>
    BY <1>4 DEF TakeJob, log, outside, history
  <2> QED BY <2>1, <2>2, <2>3, UntouchedMail, MailStill
<1>5. CASE UNCHANGED <<worker, accepted, mailed, resent>>
  BY <1>5, UntouchedMail, MailStill
<1>6. ASSUME NEW i \in Invoices, SendInvoice(i) \/ SettleInvoice(i) \/ AdjustLateFee(i) \/ EditInvoice(i)
      PROVE  MailInv'
  BY <1>5, <1>6 DEF SendInvoice, SettleInvoice, AdjustLateFee, EditInvoice, log, outside, history
<1>7. CASE NextDay \/ UNCHANGED vars
  BY <1>5, <1>7 DEF NextDay, vars, log, outside, history
<1> QED BY <1>1, <1>2, <1>3, <1>4, <1>6, <1>7 DEF Next

LEMMA CarriedInit == Init => CarriedInv
BY OneCarrierInit, MailInit DEF CarriedInv, MailInv

LEMMA CarriedNext == BaseInv /\ CarriedInv /\ [Next]_vars => CarriedInv'
BY OneCarrierNext, MailNext DEF CarriedInv, MailInv

-----------------------------------------------------------------------------
(* ClaimInv: who has claimed a day. *)

\* What worker u claimed it holds still, if it does, and is as far with it.
ClaimStays(u) ==
  worker'[u].on # Null =>
    /\ worker'[u].on = worker[u].on /\ worker'[u].job.inv = worker[u].job.inv
    /\ worker'[u].pc \in Claiming /\ (worker'[u].pc # "accepted" => worker[u].pc # "accepted")

LEMMA ClaimsStill ==
  ASSUME BaseInv, ClaimInv, UNCHANGED <<today, nudged>>, \A i \in Invoices : invoice'[i].reminded = invoice[i].reminded,
         \A u \in Workers : ClaimStays(u)
  PROVE  ClaimInv'
<1>1. ASSUME NEW i \in Invoices, NEW d, DayTaken(i, d) PROVE d <= today' /\ (d = today' => invoice'[i].reminded = d)
  BY <1>1 DEF DayTaken
<1>2. ASSUME NEW w \in Workers, worker'[w].on # Null
      PROVE  /\ worker'[w].pc \in Claiming /\ worker'[w].job.inv \in Invoices
             /\ DayTaken(worker'[w].job.inv, worker'[w].on)
             /\ worker'[w].pc # "accepted" => nudged'[<<worker'[w].job.inv, worker'[w].on>>] = 0
             /\ \A v \in Workers : worker'[v].on = worker'[w].on /\ worker'[v].job.inv = worker'[w].job.inv => v = w
  <2>1. worker[w].on # Null /\ worker'[w].on = worker[w].on /\ worker'[w].job.inv = worker[w].job.inv
    BY <1>2 DEF ClaimStays
  <2>2. worker[w].job.inv \in Invoices
    BY <2>1, AtHand DEF ClaimInv, BaseInv, WorkersOK, Place, WellMade, Mailing
  <2>3. worker'[w].pc # "accepted" => nudged'[<<worker'[w].job.inv, worker'[w].on>>] = 0
    BY <1>2, <2>1 DEF ClaimStays, ClaimInv
  <2> QED BY <1>2, <2>1, <2>2, <2>3 DEF ClaimStays, ClaimInv
<1>3. \A c \in Invoices \X Days : nudged'[c] <= 1 /\ (nudged'[c] # 0 => DayTaken(c[1], c[2])')
  BY <1>1 DEF ClaimInv, DayTaken
<1> QED BY <1>1, <1>2, <1>3 DEF ClaimInv, DayTaken

LEMMA RemindedStays ==
  ASSUME BaseInv, NEW w \in Workers, Handle(w), ~ClaimReminder(w)
  PROVE  \A i \in Invoices : invoice'[i].reminded = invoice[i].reminded
<1>1. CASE UNCHANGED invoice
  BY <1>1
<1>2. CASE LinkPdf(w)
  <2>1. PICK row \in Invoice :
          /\ invoice' = [invoice EXCEPT ![worker[w].job.inv] = row]
          /\ row = [invoice[worker[w].job.inv] EXCEPT !.pdf = row.pdf]
    BY <1>2, LinkPdfDoes
  <2>2. worker[w].job.inv \in Invoices /\ row.reminded = invoice[worker[w].job.inv].reminded
    BY <1>2, <2>1, LinkPdfDoes DEF BaseInv, RowsOK, Invoice
  <2> QED BY <2>1, <2>2, InvoiceReplaced DEF BaseInv
<1>3. ASSUME NEW i \in Invoices, ChargeLateFee(w, i)
      PROVE  \A k \in Invoices : invoice'[k].reminded = invoice[k].reminded
  <2>1. CASE ~invoice[i].charged /\ invoice' = [invoice EXCEPT ![i] = Repriced(invoice[i])]
    <3>1. invoice[i] \in Invoice /\ invoice[i].total < MaxTotal
      BY <2>1 DEF BaseInv, RowsOK, Sane
    <3>2. Repriced(invoice[i]) \in Invoice /\ Repriced(invoice[i]).reminded = invoice[i].reminded
      BY <3>1, RepricedTyped
    <3> QED BY <2>1, <3>2, InvoiceReplaced DEF BaseInv
  <2> QED BY <1>1, <1>3, <2>1, ChargeLateFeeDoes
<1>4. ASSUME ~LinkPdf(w), \A i \in Invoices : ~ChargeLateFee(w, i) PROVE UNCHANGED invoice
  BY <1>4 DEF Handle, ReadPointer, ReadDocument, ChainMail, StartMail, ComposeMail, AttachPdf,
              CheckSent, LoadAttachment, Deliver, RecordSent, FindOverdue, EmitOverdue, AssessFees, RequestRender,
              EndSweep, AuditOverdue, RunReminderSweep, GiveUp
<1> QED BY <1>1, <1>2, <1>3, <1>4

LEMMA RemindedStaysToo ==
  ASSUME BaseInv, NEW i \in Invoices,
         SendInvoice(i) \/ SettleInvoice(i) \/ AdjustLateFee(i) \/ EditInvoice(i)
  PROVE  \A k \in Invoices : invoice'[k].reminded = invoice[k].reminded
<1>1. PICK row \in Invoice : invoice' = [invoice EXCEPT ![i] = row] /\ row.reminded = invoice[i].reminded
  BY SendInvoiceDoes, SettleInvoiceDoes, AdjustLateFeeDoes, EditInvoiceDoes DEF Alike
<1> QED BY <1>1, InvoiceReplaced DEF BaseInv

LEMMA UntouchedClaim ==
  ASSUME ClaimInv, NEW u \in Workers, worker'[u] = worker[u]
  PROVE  ClaimStays(u)
BY DEF ClaimStays, ClaimInv

LEMMA HandleClaims ==
  ASSUME BaseInv, ClaimInv, NEW w \in Workers, Handle(w), ~ClaimReminder(w), ~Deliver(w)
  PROVE  ClaimInv'
<1>1. UNCHANGED <<today, nudged>> /\ \A i \in Invoices : invoice'[i].reminded = invoice[i].reminded
  BY HandleLeaves, RemindedStays
<1>2. CASE Leaves(w)
  <2>1. ClaimStays(w) /\ \A u \in Workers : u # w => worker'[u] = worker[u]
    BY <1>2, Returned, IdleTyped DEF Leaves, ClaimStays
  <2> QED BY <1>1, <2>1, UntouchedClaim, ClaimsStill
<1>3. CASE Goes(w)
  <2>1. PICK pc, read, on, inv, todo :
          /\ Turns(w, pc, read, on, inv, todo) /\ Moves(worker[w].pc, pc)
          /\ on = worker[w].on /\ pc # "accepted"
    BY <1>3 DEF Goes
  <2>2. \A u \in Workers : u # w => worker'[u] = worker[u]
    BY <2>1 DEF Turns
  <2>3. worker[w].on # Null => worker[w].pc \in Claiming
    BY DEF ClaimInv
  <2>4. worker[w].pc # "accepted" /\ (worker[w].pc \in Claiming => pc \in Claiming)
    BY <2>1 DEF Moves
  <2>5. ClaimStays(w)
    BY <2>1, <2>3, <2>4 DEF ClaimStays, Turns
  <2> QED BY <1>1, <2>2, <2>5, UntouchedClaim, ClaimsStill
<1> QED BY <1>2, <1>3, HandleMoves

LEMMA ClaimReminderClaims ==
  ASSUME BaseInv, ClaimInv, NEW w \in Workers, ClaimReminder(w)
  PROVE  ClaimInv'
<1> DEFINE i == worker[w].job.inv
<1>1. UNCHANGED <<today, nudged>> /\ today \in Nat
  BY DEF ClaimReminder, outside, BaseInv, RowsOK
<1>2. CASE Return(w) /\ UNCHANGED invoice
  <2>1. ClaimStays(w) /\ \A u \in Workers : u # w => worker'[u] = worker[u]
    BY <1>2, ClaimReminderDoes, Returned, IdleTyped DEF ClaimStays
  <2> QED BY <1>1, <1>2, <2>1, UntouchedClaim, ClaimsStill
<1>3. CASE /\ Turns(w, "composing", worker[w].read, today, worker[w].inv, worker[w].todo)
           /\ invoice[i].reminded # today /\ invoice' = Claimed(i)
  <2>1. /\ i \in Invoices /\ worker'[w].on = today /\ worker'[w].job.inv = i /\ worker'[w].pc = "composing"
        /\ \A u \in Workers : u # w => worker'[u] = worker[u]
    BY <1>3, ClaimReminderDoes DEF Turns
  <2>2. invoice'[i].reminded = today /\ \A k \in Invoices : k # i => invoice'[k] = invoice[k]
    BY <1>3, <2>1 DEF Claimed, BaseInv, RowsOK, Invoice
  <2>3. ~DayTaken(i, today)
    BY <1>1, <1>3 DEF DayTaken
  <2>4. ASSUME NEW k \in Invoices, NEW d \in Days, DayTaken(k, d) PROVE DayTaken(k, d)'
    BY <1>1, <2>2, <2>4 DEF DayTaken
  <2>5. nudged'[<<i, today>>] = 0
    BY <1>1, <2>1, <2>3 DEF ClaimInv, BaseInv, RowsOK
  <2>6. \A c \in Invoices \X Days : nudged'[c] <= 1 /\ (nudged'[c] # 0 => DayTaken(c[1], c[2])')
    BY <1>1, <2>4 DEF ClaimInv
  <2>7. ASSUME NEW v \in Workers \ {w}, worker[v].on # Null
        PROVE  worker[v].job.inv \in Invoices /\ worker[v].on \in Days /\ ~(worker[v].job.inv = i /\ worker[v].on = today)
    <3>1. worker[v].job.inv \in Invoices
      BY <2>7, AtHand DEF ClaimInv, BaseInv, WorkersOK, Place, WellMade, Mailing
    <3>2. worker[v].on \in Days
      BY <2>7 DEF BaseInv, WorkersOK, WorkerState
    <3> QED BY <2>3, <2>7, <3>1, <3>2 DEF ClaimInv
  <2>8. ASSUME NEW u \in Workers, worker'[u].on # Null
        PROVE  /\ worker'[u].pc \in Claiming
               /\ DayTaken(worker[u].job.inv, worker[u].on)'
               /\ worker'[u].pc # "accepted" => nudged'[<<worker'[u].job.inv, worker'[u].on>>] = 0
               /\ \A v \in Workers : worker'[v].on = worker'[u].on /\ worker'[v].job.inv = worker'[u].job.inv => v = u
    <3>1. CASE u = w
      <4>1. \A v \in Workers : worker'[v].on = today /\ worker'[v].job.inv = i => v = w
        BY <1>1, <2>1, <2>7
      <4> QED BY <1>1, <2>1, <2>2, <2>5, <3>1, <4>1 DEF Claiming, DayTaken
    <3>2. CASE u # w
      <4>1. worker'[u] = worker[u] /\ worker[u].on # Null
        BY <2>1, <2>8, <3>2
      <4>2. worker[u].job.inv \in Invoices /\ worker[u].on \in Days /\ ~(worker[u].job.inv = i /\ worker[u].on = today)
        BY <2>7, <3>2, <4>1
      <4> QED BY <1>1, <2>1, <2>2, <4>1, <4>2 DEF Claiming, DayTaken, ClaimInv
    <3> QED BY <3>1, <3>2
  <2> QED BY <2>1, <2>6, <2>8 DEF ClaimInv, DayTaken
<1> QED BY <1>2, <1>3, ClaimReminderDoes

LEMMA DeliverClaims ==
  ASSUME BaseInv, ClaimInv, NEW w \in Workers, Deliver(w)
  PROVE  ClaimInv'
<1> DEFINE i == worker[w].job.inv
           again == Deduplicates /\ accepted[Of(w)] > 0
<1>1. /\ worker[w].pc = "sending" /\ i \in Invoices /\ worker'[w].pc = "accepted"
      /\ worker'[w].on = worker[w].on /\ worker'[w].job = worker[w].job
      /\ \A u \in Workers : u # w => worker'[u] = worker[u]
  BY DeliverDoes, AtHand DEF Turns, Mailing, WellMade
<1>2. UNCHANGED <<today, invoice>>
  BY DEF Deliver
<1>3. \A u \in Workers : ClaimStays(u)
  <2>1. ClaimStays(w)
    BY <1>1 DEF ClaimStays
  <2> QED BY <1>1, <2>1, UntouchedClaim
<1>4. CASE worker[w].on = Null \/ again
  <2>1. nudged' = nudged
    BY <1>4 DEF Deliver
  <2> QED BY <1>2, <1>3, <2>1, ClaimsStill
<1>5. CASE ~(worker[w].on = Null \/ again)
  <2> DEFINE n == <<i, worker[w].on>>
  <2>1. n \in Invoices \X Days /\ nudged[n] = 0 /\ DayTaken(i, worker[w].on) /\ nudged \in [Invoices \X Days -> Nat]
    BY <1>1, <1>5 DEF ClaimInv, BaseInv, WorkersOK, WorkerState, OutsideOK
  <2>2. nudged' = [nudged EXCEPT ![n] = @ + 1]
    BY <1>5 DEF Deliver, Of
  <2>3. nudged'[n] = 1 /\ \A c \in Invoices \X Days : c # n => nudged'[c] = nudged[c]
    <3> HIDE DEF n
    <3> QED BY <2>1, <2>2
  <2>4. ASSUME NEW c \in Invoices \X Days
        PROVE  nudged'[c] <= 1 /\ (nudged'[c] # 0 => DayTaken(c[1], c[2]))
    <3>1. CASE c = n
      BY <2>1, <2>3, <3>1
    <3>2. CASE c # n
      BY <2>3, <3>2 DEF ClaimInv
    <3> QED BY <3>1, <3>2
  <2>5. ASSUME NEW u \in Workers, worker'[u].on # Null
        PROVE  /\ worker'[u].pc \in Claiming
               /\ worker'[u].on = worker[u].on /\ worker'[u].job.inv = worker[u].job.inv
               /\ DayTaken(worker[u].job.inv, worker[u].on)
               /\ worker'[u].pc # "accepted" => nudged'[<<worker[u].job.inv, worker[u].on>>] = 0
               /\ \A v \in Workers : worker'[v].on = worker'[u].on /\ worker'[v].job.inv = worker'[u].job.inv => v = u
    <3>1. /\ worker'[u].pc \in Claiming /\ worker'[u].on = worker[u].on /\ worker'[u].job.inv = worker[u].job.inv
          /\ DayTaken(worker[u].job.inv, worker[u].on) /\ worker[u].on # Null
      BY <1>3, <2>5 DEF ClaimStays, ClaimInv
    <3>2. \A v \in Workers : worker[v].on = worker[u].on /\ worker[v].job.inv = worker[u].job.inv => v = u
      BY <3>1 DEF ClaimInv
    <3>3. \A v \in Workers : worker'[v].on = worker'[u].on /\ worker'[v].job.inv = worker'[u].job.inv => v = u
      BY <1>1, <3>1, <3>2
    <3>4. ASSUME worker'[u].pc # "accepted" PROVE nudged'[<<worker[u].job.inv, worker[u].on>>] = 0
      <4>1. u # w /\ worker[u].pc # "accepted"
        BY <1>1, <3>4
      <4>2. <<worker[u].job.inv, worker[u].on>> # n
        BY <3>2, <4>1
      <4>3. worker[u].job.inv \in Invoices
        BY <3>1, AtHand DEF ClaimInv, BaseInv, WorkersOK, Place, WellMade, Mailing
      <4>4. worker[u].on \in Days
        BY <3>1 DEF BaseInv, WorkersOK, WorkerState
      <4> QED BY <2>3, <3>1, <4>1, <4>2, <4>3, <4>4 DEF ClaimInv
    <3> QED BY <3>1, <3>3, <3>4
  <2> QED BY <1>2, <2>4, <2>5 DEF ClaimInv, DayTaken
<1> QED BY <1>4, <1>5

LEMMA NextDayClaims ==
  ASSUME BaseInv, ClaimInv, NextDay
  PROVE  ClaimInv'
<1>1. today' = today + 1 /\ today \in Nat
  BY DEF NextDay, BaseInv, RowsOK
<1>2. UNCHANGED <<worker, invoice, nudged>>
  BY DEF NextDay, outside
<1>3. ASSUME NEW i, NEW d \in Days, DayTaken(i, d) PROVE DayTaken(i, d)'
  <2>1. d \in Nat /\ d <= today
    BY <1>3 DEF DayTaken
  <2>2. d <= today' /\ d # today'
    BY <1>1, <2>1
  <2> QED BY <2>2 DEF DayTaken
<1>4. \A c \in Invoices \X Days : nudged'[c] <= 1 /\ (nudged'[c] # 0 => DayTaken(c[1], c[2])')
  BY <1>2, <1>3 DEF ClaimInv
<1>5. ASSUME NEW u \in Workers, worker[u].on # Null
      PROVE  worker[u].on <= today' /\ worker[u].on # today'
  <2>1. worker[u].on \in Nat /\ worker[u].on <= today
    BY <1>5 DEF ClaimInv, DayTaken, BaseInv, WorkersOK, WorkerState
  <2> QED BY <1>1, <2>1
<1> QED BY <1>2, <1>4, <1>5 DEF ClaimInv, DayTaken

LEMMA ClaimInit == Init => ClaimInv
BY DEF Init, ClaimInv, Idle

LEMMA ClaimNext == BaseInv /\ ClaimInv /\ [Next]_vars => ClaimInv'
<1> SUFFICES ASSUME BaseInv, ClaimInv, [Next]_vars PROVE ClaimInv'
  OBVIOUS
<1>1. ASSUME NEW w \in Workers, Handle(w) PROVE ClaimInv'
  BY <1>1, HandleClaims, ClaimReminderClaims, DeliverClaims
<1>2. ASSUME NEW w \in Workers, FailAttempt(w) \/ Crash(w) PROVE ClaimInv'
  <2>1. PICK next \in SUBSET Jobs :
          /\ Lose(w, next) /\ IsFiniteSet(next)
          /\ \A k \in next : Same(k, worker[w].job)
    BY <1>2, LostCases
  <2>2. worker'[w] = Idle /\ \A u \in Workers : u # w => worker'[u] = worker[u]
    BY <2>1, LostBase
  <2>3. UNCHANGED <<today, invoice, nudged>>
    <3>1. UNCHANGED <<today, invoice, outside>>
      BY <2>1 DEF Lose
    <3> QED BY <3>1 DEF outside
  <2>4. ClaimStays(w)
    BY <2>2, IdleTyped DEF ClaimStays
  <2> QED BY <2>2, <2>3, <2>4, UntouchedClaim, ClaimsStill
<1>3. ASSUME NEW w \in Workers, Stall(w) PROVE ClaimInv'
  <2>1. /\ worker'[w].pc = worker[w].pc /\ worker'[w].job = worker[w].job /\ worker'[w].on = worker[w].on
        /\ \A u \in Workers : u # w => worker'[u] = worker[u]
    BY <1>3, StallDoes
  <2>2. ClaimStays(w)
    BY <2>1 DEF ClaimStays, ClaimInv
  <2>3. UNCHANGED <<today, invoice, nudged>>
    BY <1>3 DEF Stall, outside
  <2> QED BY <2>1, <2>2, <2>3, UntouchedClaim, ClaimsStill
<1>4. ASSUME NEW w \in Workers, NEW j \in queue, TakeJob(w, j) PROVE ClaimInv'
  <2>1. worker'[w].on = Null /\ \A u \in Workers : u # w => worker'[u] = worker[u]
    BY <1>4, TakeJobDoes
  <2>2. ClaimStays(w)
    BY <2>1 DEF ClaimStays
  <2>3. UNCHANGED <<today, invoice, nudged>>
    BY <1>4 DEF TakeJob, outside
  <2> QED BY <2>1, <2>2, <2>3, UntouchedClaim, ClaimsStill
<1>5. ASSUME NEW i \in Invoices, SendInvoice(i) \/ SettleInvoice(i) \/ AdjustLateFee(i) \/ EditInvoice(i)
      PROVE  ClaimInv'
  <2>1. UNCHANGED <<today, worker, nudged>>
    BY <1>5 DEF SendInvoice, SettleInvoice, AdjustLateFee, EditInvoice, outside
  <2> QED BY <1>5, <2>1, RemindedStaysToo, UntouchedClaim, ClaimsStill
<1>6. CASE UNCHANGED vars
  BY <1>6, UntouchedClaim, ClaimsStill DEF vars, outside
<1> QED BY <1>1, <1>2, <1>3, <1>4, <1>5, <1>6, NextDayClaims DEF Next

-----------------------------------------------------------------------------
(* AnnounceInv: who announces an invoice. *)

SweepsTo(u, i) == worker'[u].pc \in {"announcing", "emitting"} /\ i \in worker'[u].todo
EmitsTo(u, i)  == worker'[u].pc = "emitting" /\ worker'[u].inv = i

\* Worker u has nothing more to announce of i than it had.
AnnounceStays(u, i) == (SweepsTo(u, i) => Unannounced(u, i)) /\ (EmitsTo(u, i) => Emitting(u, i))

LEMMA AnnouncedStill ==
  ASSUME NEW i \in Invoices, AnnouncedOnce(i), heard'[i] = heard[i], i \in announced' <=> i \in announced,
         \A u \in Workers : AnnounceStays(u, i)
  PROVE  AnnouncedOnce(i)'
BY DEF AnnouncedOnce, AnnounceStays, SweepsTo, EmitsTo, Unannounced, Emitting

LEMMA AnnounceStill ==
  ASSUME AnnounceInv, UNCHANGED <<heard, announced>>, resent \subseteq resent',
         \A u \in Workers, i \in Invoices : AnnounceStays(u, i)
  PROVE  AnnounceInv'
<1>1. ASSUME NEW i \in Invoices, <<i, Null>> \notin resent' PROVE AnnouncedOnce(i)'
  <2>1. AnnouncedOnce(i)
    BY <1>1 DEF AnnounceInv
  <2> QED BY <2>1, AnnouncedStill
<1> QED BY <1>1 DEF AnnounceInv

LEMMA UntouchedSweep ==
  ASSUME NEW u \in Workers, worker'[u] = worker[u]
  PROVE  \A i \in Invoices : AnnounceStays(u, i)
BY DEF AnnounceStays, SweepsTo, EmitsTo, Unannounced, Emitting

LEMMA HandleAnnounces ==
  ASSUME BaseInv, AnnounceInv, NEW w \in Workers, Handle(w), ~FindOverdue(w), ~EmitOverdue(w),
         \A i \in Invoices : ~AuditOverdue(w, i)
  PROVE  AnnounceInv'
<1>1. UNCHANGED <<heard, announced, resent>>
  BY HandleLeaves
<1>2. \A u \in Workers : u # w => worker'[u] = worker[u]
  <2>1. CASE Leaves(w)
    BY <2>1, Returned DEF Leaves
  <2>2. CASE Goes(w)
    BY <2>2 DEF Goes, Turns
  <2> QED BY <2>1, <2>2, HandleMoves
<1>3. worker'[w].pc \notin {"announcing", "emitting"}
  <2>1. CASE Leaves(w)
    BY <2>1, Returned, IdleTyped DEF Leaves
  <2>2. CASE Goes(w)
    BY <2>2 DEF Goes, Turns
  <2> QED BY <2>1, <2>2, HandleMoves
<1>4. \A i \in Invoices : AnnounceStays(w, i)
  BY <1>3 DEF AnnounceStays, SweepsTo, EmitsTo
<1> QED BY <1>1, <1>2, <1>4, UntouchedSweep, AnnounceStill

LEMMA FindAnnounces ==
  ASSUME BaseInv, AnnounceInv, NEW w \in Workers, FindOverdue(w)
  PROVE  AnnounceInv'
<1>1. UNCHANGED <<heard, announced>>
  BY DEF FindOverdue, log, outside
<1>2. CASE Return(w) /\ UNCHANGED resent
  <2>1. worker'[w].pc = "idle" /\ \A u \in Workers : u # w => worker'[u] = worker[u]
    BY <1>2, FindOverdueDoes, Returned, IdleTyped
  <2>2. \A i \in Invoices : AnnounceStays(w, i)
    BY <2>1 DEF AnnounceStays, SweepsTo, EmitsTo
  <2> QED BY <1>1, <1>2, <2>1, <2>2, UntouchedSweep, AnnounceStill
<1>3. ASSUME NEW todo \in SUBSET (Invoices \ announced),
             Turns(w, "announcing", worker[w].read, worker[w].on, worker[w].inv, todo),
             resent' = resent \cup {<<i, Null>> : i \in {k \in todo : \E v \in Workers : Unannounced(v, k)}}
      PROVE  AnnounceInv'
  <2>1. ASSUME NEW i \in Invoices, <<i, Null>> \notin resent' PROVE AnnouncedOnce(i)'
    <3>1. AnnouncedOnce(i) /\ (i \in todo => \A v \in Workers : ~Unannounced(v, i))
      BY <1>3, <2>1 DEF AnnounceInv
    <3>2. \A u \in Workers : (SweepsTo(u, i) => Unannounced(u, i) \/ (u = w /\ i \in todo)) /\ (EmitsTo(u, i) => Emitting(u, i))
      BY <1>3 DEF Turns, SweepsTo, EmitsTo, Unannounced, Emitting
    <3>3. \A u \in Workers : SweepsTo(u, i) => i \notin announced
      BY <3>1, <3>2 DEF AnnouncedOnce
    <3>4. \A u, v \in Workers : SweepsTo(u, i) /\ SweepsTo(v, i) => u = v
      <4>1. CASE i \in todo
        BY <3>1, <3>2, <4>1
      <4>2. CASE i \notin todo
        BY <3>1, <3>2, <4>2 DEF AnnouncedOnce
      <4> QED BY <4>1, <4>2
    <3> QED BY <1>1, <3>1, <3>2, <3>3, <3>4 DEF AnnouncedOnce, SweepsTo, EmitsTo, Unannounced, Emitting
  <2> QED BY <2>1 DEF AnnounceInv
<1> QED BY <1>2, <1>3, FindOverdueDoes

LEMMA AuditAnnounces ==
  ASSUME BaseInv, AnnounceInv, NEW w \in Workers, NEW k \in Invoices, AuditOverdue(w, k)
  PROVE  AnnounceInv'
<1>1. UNCHANGED <<heard, resent>> /\ announced' = announced \cup {k} /\ Unannounced(w, k)
  BY DEF AuditOverdue, outside, history, Unannounced
<1>2. Turns(w, "emitting", worker[w].read, worker[w].on, k, worker[w].todo \ {k}) /\ worker[w].pc = "announcing"
  BY AuditOverdueDoes
<1>3. ASSUME NEW i \in Invoices, <<i, Null>> \notin resent' PROVE AnnouncedOnce(i)'
  <2>1. AnnouncedOnce(i)
    BY <1>1, <1>3 DEF AnnounceInv
  <2>2. \A u \in Workers : (SweepsTo(u, i) => Unannounced(u, i) /\ (u = w => i # k))
                           /\ (EmitsTo(u, i) => Emitting(u, i) \/ (u = w /\ i = k))
    BY <1>2 DEF Turns, SweepsTo, EmitsTo, Unannounced, Emitting
  <2>3. CASE i # k
    <3>1. \A u \in Workers : AnnounceStays(u, i)
      BY <2>2, <2>3 DEF AnnounceStays
    <3> QED BY <1>1, <2>1, <2>3, <3>1, AnnouncedStill
  <2>4. CASE i = k
    <3>1. i \notin announced /\ heard[i] = 0
      BY <1>1, <2>1, <2>4 DEF AnnouncedOnce, BaseInv, OutsideOK
    <3>2. \A u \in Workers : ~SweepsTo(u, i)
      BY <1>1, <2>1, <2>2, <2>4 DEF AnnouncedOnce
    <3>3. \A u \in Workers : EmitsTo(u, i) => u = w
      BY <2>1, <2>2, <3>1 DEF AnnouncedOnce
    <3> QED BY <1>1, <2>4, <3>1, <3>2, <3>3 DEF AnnouncedOnce, SweepsTo, EmitsTo, Unannounced, Emitting
  <2> QED BY <2>3, <2>4
<1> QED BY <1>3 DEF AnnounceInv

LEMMA EmitAnnounces ==
  ASSUME BaseInv, AnnounceInv, NEW w \in Workers, EmitOverdue(w)
  PROVE  AnnounceInv'
<1> DEFINE k == worker[w].inv
<1>1. UNCHANGED <<announced, resent>> /\ k \in Invoices /\ Emitting(w, k)
  BY EmitOverdueDoes DEF EmitOverdue, log, history, Emitting
<1>2. Turns(w, "announcing", worker[w].read, worker[w].on, Null, worker[w].todo) /\ worker[w].pc = "emitting"
  BY EmitOverdueDoes
<1>3. heard'[k] = heard[k] + 1 /\ \A i \in Invoices : i # k => heard'[i] = heard[i]
  <2>1. heard' = [heard EXCEPT ![k] = @ + 1] /\ heard \in [Invoices -> Nat]
    BY DEF EmitOverdue, BaseInv, OutsideOK
  <2> HIDE DEF k
  <2> QED BY <1>1, <2>1
<1>4. ASSUME NEW i \in Invoices, <<i, Null>> \notin resent' PROVE AnnouncedOnce(i)'
  <2>1. AnnouncedOnce(i)
    BY <1>1, <1>4 DEF AnnounceInv
  <2>2. \A u \in Workers : AnnounceStays(u, i) /\ (EmitsTo(u, i) => u # w)
    BY <1>2 DEF AnnounceStays, Turns, SweepsTo, EmitsTo, Unannounced, Emitting
  <2>3. CASE i # k
    BY <1>1, <1>3, <2>1, <2>2, <2>3, AnnouncedStill
  <2>4. CASE i = k
    <3>1. i \in announced /\ heard'[i] = 1
      BY <1>1, <1>3, <2>1, <2>4 DEF AnnouncedOnce
    <3>2. \A u \in Workers : ~EmitsTo(u, i)
      BY <1>1, <2>1, <2>2, <2>4 DEF AnnouncedOnce, AnnounceStays
    <3>3. \A u \in Workers : ~SweepsTo(u, i)
      BY <2>1, <2>2, <3>1 DEF AnnouncedOnce, AnnounceStays
    <3> QED BY <1>1, <3>1, <3>2, <3>3 DEF AnnouncedOnce, SweepsTo, EmitsTo, Unannounced, Emitting
  <2> QED BY <2>3, <2>4
<1> QED BY <1>4 DEF AnnounceInv

LEMMA AnnounceInit == Init => AnnounceInv
BY DEF Init, AnnounceInv, AnnouncedOnce, Unannounced, Emitting, Idle

LEMMA AnnounceNext == BaseInv /\ AnnounceInv /\ [Next]_vars => AnnounceInv'
<1> SUFFICES ASSUME BaseInv, AnnounceInv, [Next]_vars PROVE AnnounceInv'
  OBVIOUS
<1>1. ASSUME NEW w \in Workers, Handle(w) PROVE AnnounceInv'
  BY <1>1, HandleAnnounces, FindAnnounces, AuditAnnounces, EmitAnnounces
<1>2. ASSUME NEW w \in Workers, FailAttempt(w) \/ Crash(w) PROVE AnnounceInv'
  <2>1. PICK next \in SUBSET Jobs :
          /\ Lose(w, next) /\ IsFiniteSet(next)
          /\ \A k \in next : Same(k, worker[w].job)
    BY <1>2, LostCases
  <2>2. worker'[w] = Idle /\ \A u \in Workers : u # w => worker'[u] = worker[u]
    BY <2>1, LostBase
  <2>3. UNCHANGED <<heard, announced>> /\ resent \subseteq resent'
    BY <2>1 DEF Lose, log, outside
  <2>4. \A i \in Invoices : AnnounceStays(w, i)
    BY <2>2, IdleTyped DEF AnnounceStays, SweepsTo, EmitsTo
  <2> QED BY <2>2, <2>3, <2>4, UntouchedSweep, AnnounceStill
<1>3. ASSUME NEW w \in Workers, Stall(w) PROVE AnnounceInv'
  <2>1. /\ worker'[w].pc = worker[w].pc /\ worker'[w].inv = worker[w].inv /\ worker'[w].todo = worker[w].todo
        /\ \A u \in Workers : u # w => worker'[u] = worker[u]
    BY <1>3, StallDoes
  <2>2. \A i \in Invoices : AnnounceStays(w, i)
    BY <2>1 DEF AnnounceStays, SweepsTo, EmitsTo, Unannounced, Emitting
  <2>3. UNCHANGED <<heard, announced>> /\ resent \subseteq resent'
    BY <1>3 DEF Stall, log, outside
  <2> QED BY <2>1, <2>2, <2>3, UntouchedSweep, AnnounceStill
<1>4. ASSUME NEW w \in Workers, NEW j \in queue, TakeJob(w, j) PROVE AnnounceInv'
  <2>1. worker'[w].pc = "taken" /\ \A u \in Workers : u # w => worker'[u] = worker[u]
    BY <1>4, TakeJobDoes
  <2>2. \A i \in Invoices : AnnounceStays(w, i)
    BY <2>1 DEF AnnounceStays, SweepsTo, EmitsTo
  <2>3. UNCHANGED <<heard, announced, resent>>
    BY <1>4 DEF TakeJob, log, outside, history
  <2> QED BY <2>1, <2>2, <2>3, UntouchedSweep, AnnounceStill
<1>5. CASE UNCHANGED <<worker, heard, announced, resent>>
  BY <1>5, UntouchedSweep, AnnounceStill
<1>6. ASSUME NEW i \in Invoices, SendInvoice(i) \/ SettleInvoice(i) \/ AdjustLateFee(i) \/ EditInvoice(i)
      PROVE  AnnounceInv'
  BY <1>5, <1>6 DEF SendInvoice, SettleInvoice, AdjustLateFee, EditInvoice, log, outside, history
<1>7. CASE NextDay \/ UNCHANGED vars
  BY <1>5, <1>7 DEF NextDay, vars, log, outside, history
<1> QED BY <1>1, <1>2, <1>3, <1>4, <1>6, <1>7 DEF Next

-----------------------------------------------------------------------------
(* WaitingInv: what waits for a document that is not done. *)

LEMMA AcceptedGrows ==
  ASSUME BaseInv, [Next]_vars, NEW m \in Mails, accepted[m] > 0
  PROVE  accepted'[m] > 0
<1>1. CASE UNCHANGED accepted
  BY <1>1
<1>2. ASSUME NEW w \in Workers, Deliver(w) PROVE accepted'[m] > 0
  <2>1. accepted \in [Mails -> Nat] /\ Of(w) \in Mails
    BY <1>2, DeliverDoes DEF BaseInv, OutsideOK
  <2>2. accepted' = [accepted EXCEPT ![Of(w)] = @] \/ accepted' = [accepted EXCEPT ![Of(w)] = @ + 1]
    BY <1>2 DEF Deliver
  <2>3. accepted[m] + 1 > 0
    BY <2>1
  <2> QED BY <2>1, <2>2, <2>3
<1>3. ASSUME NEW w \in Workers, FailAttempt(w) \/ Crash(w) PROVE UNCHANGED accepted
  <2>1. PICK next \in SUBSET Jobs : Lose(w, next)
    BY <1>3, LostCases
  <2> QED BY <2>1 DEF Lose, outside
<1>4. ASSUME NEW i \in Invoices, SendInvoice(i) \/ SettleInvoice(i) \/ AdjustLateFee(i) \/ EditInvoice(i)
      PROVE  UNCHANGED accepted
  BY <1>4 DEF SendInvoice, SettleInvoice, AdjustLateFee, EditInvoice, outside
<1>5. CASE NextDay \/ UNCHANGED vars \/ (\E w \in Workers : Stall(w)) \/ \E w \in Workers, j \in queue : TakeJob(w, j)
  BY <1>5 DEF NextDay, vars, Stall, TakeJob, outside
<1> QED BY <1>1, <1>2, <1>3, <1>4, <1>5, HandleLeaves DEF Next

EndedWell(m) == accepted[m] > 0 \/ m \in forsaken'

\* A mail is over when it was accepted, or given up.
LEMMA HandleEnds ==
  ASSUME BaseInv, AcceptedInv, NEW w \in Workers, Handle(w), worker[w].job.kind = "mail", worker'[w].pc = "idle"
  PROVE  EndedWell(Of(w))
<1>1. CASE GiveUp(w)
  BY <1>1 DEF GiveUp, EndedWell
<1>2. CASE RecordSent(w)
  BY <1>2 DEF RecordSent, At, AcceptedInv, EndedWell
<1>3. CASE CheckSent(w)
  <2>1. Of(w) \in mailed
    BY <1>3, CheckSentDoes DEF Turns
  <2> QED BY <2>1 DEF AcceptedInv, EndedWell
<1>4. ASSUME ~GiveUp(w), ~RecordSent(w), ~CheckSent(w) PROVE FALSE
  <2>1. CASE Goes(w)
    BY <2>1 DEF Goes, Turns, Moves
  <2>2. CASE Leaves(w)
    <3>1. CASE ReadPointer(w) \/ ReadDocument(w) \/ LinkPdf(w) \/ ChainMail(w) \/ ClaimReminder(w)
               \/ FindOverdue(w) \/ RunReminderSweep(w)
      BY <3>1 DEF ReadPointer, ReadDocument, LinkPdf, ChainMail, ClaimReminder, FindOverdue, RunReminderSweep, At
    <3>2. CASE StartMail(w)
      BY <3>2, StartMailDoes DEF Turns
    <3>3. CASE ComposeMail(w)
      BY <1>4, <3>3, ComposeMailDoes DEF Turns
    <3>4. CASE AttachPdf(w)
      BY <3>4, AttachPdfDoes DEF Turns
    <3>5. CASE Deliver(w) \/ LoadAttachment(w)
      BY <3>5, DeliverDoes, LoadAttachmentDoes DEF Turns
    <3>6. CASE EmitOverdue(w)
      BY <3>6, EmitOverdueDoes DEF Turns
    <3>7. CASE AssessFees(w)
      BY <3>7, AssessFeesDoes DEF Turns
    <3>8. CASE RequestRender(w)
      BY <3>8, RequestRenderDoes DEF Turns
    <3>9. CASE EndSweep(w)
      BY <3>9 DEF EndSweep, BaseInv, WorkersOK, Place
    <3>10. ASSUME NEW i \in Invoices, AuditOverdue(w, i) PROVE FALSE
      BY <3>10, AuditOverdueDoes DEF Turns
    <3>11. ASSUME NEW i \in Invoices, ChargeLateFee(w, i) PROVE FALSE
      BY <3>11, ChargeLateFeeDoes DEF Turns
    <3> QED BY <1>4, <3>1, <3>2, <3>3, <3>4, <3>5, <3>6, <3>7, <3>8, <3>9, <3>10, <3>11 DEF Handle
  <2> QED BY <2>1, <2>2, HandleMoves
<1> QED BY <1>1, <1>2, <1>3, <1>4

-----------------------------------------------------------------------------
(* What is left when a worker stops, and what an enqueue leaves. *)

\* A busy worker is moved by its own handler, or by a fault of its own.
LEMMA WorkerSteps ==
  ASSUME BaseInv, [Next]_vars, NEW w \in Workers, Busy(w)
  PROVE  worker'[w] = worker[w] \/ Handle(w) \/ FailAttempt(w) \/ Crash(w) \/ Stall(w)
<1>1. ASSUME NEW u \in Workers, Handle(u), u # w PROVE worker'[w] = worker[w]
  <2>1. CASE Leaves(u)
    BY <1>1, <2>1, Returned DEF Leaves
  <2>2. CASE Goes(u)
    BY <1>1, <2>2 DEF Goes, Turns
  <2> QED BY <1>1, <2>1, <2>2, HandleMoves
<1>2. ASSUME NEW u \in Workers, FailAttempt(u) \/ Crash(u), u # w PROVE worker'[w] = worker[w]
  <2>1. PICK next \in SUBSET Jobs :
          /\ Lose(u, next) /\ IsFiniteSet(next)
          /\ \A k \in next : Same(k, worker[u].job)
    BY <1>2, LostCases
  <2> QED BY <1>2, <2>1, LostBase
<1>3. ASSUME NEW u \in Workers, Stall(u), u # w PROVE worker'[w] = worker[w]
  BY <1>3, StallDoes
<1>4. ASSUME NEW u \in Workers, NEW j \in queue, TakeJob(u, j) PROVE worker'[w] = worker[w]
  BY <1>4, TakeJobDoes DEF Busy
<1>5. ASSUME NEW i \in Invoices, SendInvoice(i) \/ SettleInvoice(i) \/ AdjustLateFee(i) \/ EditInvoice(i)
      PROVE  worker' = worker
  BY <1>5 DEF SendInvoice, SettleInvoice, AdjustLateFee, EditInvoice
<1>6. CASE NextDay \/ UNCHANGED vars
  BY <1>6 DEF NextDay, vars
<1> QED BY <1>1, <1>2, <1>3, <1>4, <1>5, <1>6 DEF Next

\* The job of a worker that stops waits again, or is given up; a charged invoice is given up.
LEMMA LossLeaves ==
  ASSUME BaseInv, NEW w \in Workers, FailAttempt(w) \/ Crash(w)
  PROVE  /\ worker[w].owner => Of(w) \in forsaken' \/ \E k \in queue' : Same(k, worker[w].job)
         /\ worker[w].pc = "charged" => <<worker[w].inv, Null>> \in forsaken'
         /\ queue \subseteq queue' /\ worker'[w].pc = "idle"
         /\ \A j \in finished' : j \in finished \/ (j = Id(worker[w].job) /\ Of(w) \in forsaken')
<1>1. PICK next \in SUBSET Jobs :
        Lose(w, next) /\ IsFiniteSet(next) /\ \A k \in next : Same(k, worker[w].job)
  BY LostCases
<1>2. worker'[w].pc = "idle"
  BY <1>1, LostBase, IdleTyped
<1>3. CASE worker[w].owner /\ next = {}
  <2>1. finished' = Ended(w) /\ forsaken' = forsaken \cup Dropped(w) \cup {Of(w)} /\ UNCHANGED queue
    BY <1>1, <1>3 DEF Lose
  <2> QED BY <1>2, <2>1 DEF Ended, Dropped
<1>4. CASE ~(worker[w].owner /\ next = {})
  <2>1. /\ queue' = IF worker[w].owner THEN queue \cup next ELSE queue
        /\ forsaken' = forsaken \cup Dropped(w)
        /\ UNCHANGED finished
    BY <1>1, <1>4 DEF Lose
  <2> QED BY <1>1, <1>2, <1>4, <2>1 DEF Dropped
<1> QED BY <1>3, <1>4

\* What is queued waits until a worker takes it.
LEMMA EnqueueKeeps ==
  ASSUME NEW jobs, Enqueue(jobs)
  PROVE  queue \subseteq queue'
BY DEF Enqueue

LEMMA QueueStays ==
  ASSUME BaseInv, [Next]_vars, NEW j \in queue
  PROVE  j \in queue' \/ \E w \in Workers : TakeJob(w, j)
<1>1. ASSUME NEW w \in Workers, Handle(w) PROVE queue \subseteq queue'
  <2>1. CASE ChainMail(w) \/ RequestRender(w) \/ RunReminderSweep(w)
    BY <2>1, EnqueueKeeps DEF ChainMail, RequestRender, RunReminderSweep
  <2> QED BY <1>1, <2>1, HandleLeaves
<1>2. ASSUME NEW w \in Workers, Stall(w) PROVE queue \subseteq queue'
  BY <1>2 DEF Stall
<1>3. ASSUME NEW i \in Invoices, SendInvoice(i) \/ SettleInvoice(i) \/ AdjustLateFee(i) \/ EditInvoice(i)
      PROVE  queue \subseteq queue'
  BY <1>3, EnqueueKeeps DEF SendInvoice, SettleInvoice, AdjustLateFee, EditInvoice
<1>4. ASSUME NEW w \in Workers, NEW k \in queue, TakeJob(w, k) PROVE j \in queue' \/ k = j
  BY <1>4 DEF TakeJob
<1>5. CASE NextDay \/ UNCHANGED vars
  BY <1>5 DEF NextDay, vars
<1> QED BY <1>1, <1>2, <1>3, <1>4, <1>5, LossLeaves DEF Next

\* A render that is asked for waits, or is lost with the enqueue.
LEMMA RenderAsked ==
  ASSUME BaseInv, NEW i \in Invoices, NEW occ \in Occasions \cup {Null}, Enqueue({Render(i, occ)})
  PROVE  \/ <<i, occ>> \in forsaken'
         \/ \E j \in queue' : j.kind = "render" /\ j.inv = i /\ j.occ = occ
<1> DEFINE j == Render(i, occ)
<1>1. j.kind = "render" /\ j.inv = i /\ j.occ = occ /\ j \notin KnownIds /\ Enqueue({j})
  BY RenderTyped
<1> HIDE DEF j
<1>2. CASE queue' = queue \cup {k \in {j} : k \notin KnownIds}
  BY <1>1, <1>2
<1>3. CASE forsaken' = forsaken \cup {<<k.inv, k.occ>> : k \in {j}}
  BY <1>1, <1>3
<1> QED BY <1>1, <1>2, <1>3 DEF Enqueue

-----------------------------------------------------------------------------
(* The PDF of a sent invoice. *)

RenderQueued(i) == \E j \in queue : j.kind = "render" /\ j.inv = i
RenderAt(w, i)  == /\ worker[w].owner /\ worker[w].pc \in {"taken", "reading", "rendering"}
                   /\ worker[w].job.kind = "render" /\ worker[w].job.inv = i
ChargedAt(w, i) == worker[w].pc = "charged" /\ worker[w].inv = i
Forsaken(i)     == \E p \in forsaken : p[1] = i

LEMMA RenderedParts ==
  ASSUME NEW i \in Invoices
  PROVE  /\ Rendered(i) <=> \/ invoice[i].pdf # Null \/ Forsaken(i) \/ RenderQueued(i)
                            \/ \E w \in Workers : RenderAt(w, i) \/ ChargedAt(w, i)
         /\ Rendered(i)' <=> (\/ invoice[i].pdf # Null \/ Forsaken(i) \/ RenderQueued(i)
                              \/ \E w \in Workers : RenderAt(w, i) \/ ChargedAt(w, i))'
BY DEF Rendered, RenderQueued, RenderAt, ChargedAt, Forsaken

LEMMA RenderAwaited ==
  ASSUME BaseInv, NEW i \in Invoices, NEW occ \in Occasions \cup {Null}, Enqueue({Render(i, occ)})
  PROVE  Rendered(i)'
<1>1. CASE <<i, occ>> \in forsaken'
  <2>1. <<i, occ>>[1] = i
    OBVIOUS
  <2>2. Forsaken(i)'
    BY <1>1, <2>1 DEF Forsaken
  <2> QED BY <2>2, RenderedParts
<1>2. CASE \E j \in queue' : j.kind = "render" /\ j.inv = i /\ j.occ = occ
  <2>1. RenderQueued(i)'
    BY <1>2 DEF RenderQueued
  <2> QED BY <2>1, RenderedParts
<1> QED BY <1>1, <1>2, RenderAsked

\* A stored PDF goes with its total only.
LEMMA PdfLost ==
  ASSUME BaseInv, [Next]_vars, NEW i \in Invoices, invoice[i].pdf # Null, invoice'[i].pdf = Null
  PROVE  AdjustLateFee(i) \/ \E w \in Workers : ChargedAt(w, i)'
<1>1. CASE UNCHANGED invoice
  BY <1>1
<1>2. ASSUME NEW k \in Invoices, NEW row \in Invoice, invoice' = [invoice EXCEPT ![k] = row],
             row.pdf = invoice[k].pdf
      PROVE  FALSE
  BY <1>2, InvoiceReplaced DEF BaseInv
<1>3. ASSUME NEW k \in Invoices, SendInvoice(k) \/ SettleInvoice(k) \/ EditInvoice(k) PROVE FALSE
  <2>1. PICK row \in Invoice : invoice' = [invoice EXCEPT ![k] = row] /\ Alike(row, invoice[k])
    BY <1>3, SendInvoiceDoes, SettleInvoiceDoes, EditInvoiceDoes
  <2>2. row.pdf = invoice[k].pdf
    BY <2>1 DEF Alike
  <2> QED BY <1>2, <2>1, <2>2
<1>4. ASSUME NEW k \in Invoices, AdjustLateFee(k) PROVE AdjustLateFee(i)
  <2>1. PICK row \in Invoice : invoice' = [invoice EXCEPT ![k] = row]
    BY <1>4, AdjustLateFeeDoes
  <2>2. k = i
    BY <2>1, InvoiceReplaced DEF BaseInv
  <2> QED BY <1>4, <2>2
<1>5. ASSUME NEW w \in Workers, LinkPdf(w) PROVE FALSE
  <2> DEFINE k == worker[w].job.inv
  <2>1. PICK row \in Invoice :
          /\ invoice' = [invoice EXCEPT ![k] = row]
          /\ row.pdf = IF invoice[k].pdf = Null THEN worker[w].read ELSE invoice[k].pdf
    BY <1>5, LinkPdfDoes
  <2>2. k \in Invoices
    BY <1>5, LinkPdfDoes
  <2> HIDE DEF k
  <2> QED BY <2>1, <2>2, InvoiceReplaced DEF BaseInv
<1>6. ASSUME NEW w \in Workers, ClaimReminder(w) PROVE FALSE
  <2> DEFINE k == worker[w].job.inv
             row == [invoice[k] EXCEPT !.reminded = today]
  <2>1. k \in Invoices /\ (UNCHANGED invoice \/ invoice' = [invoice EXCEPT ![k] = row])
    BY <1>6, ClaimReminderDoes DEF Claimed
  <2>2. row \in Invoice /\ row.pdf = invoice[k].pdf
    BY <2>1 DEF BaseInv, RowsOK, Invoice
  <2> HIDE DEF k, row
  <2> QED BY <1>1, <1>2, <2>1, <2>2
<1>7. ASSUME NEW w \in Workers, NEW k \in Invoices, ChargeLateFee(w, k) PROVE ChargedAt(w, i)'
  <2>1. CASE invoice' = [invoice EXCEPT ![k] = Repriced(invoice[k])] /\ worker'[w].pc = "charged" /\ worker'[w].inv = k
    <3>1. k = i
      BY <2>1 DEF BaseInv, RowsOK
    <3> QED BY <2>1, <3>1 DEF ChargedAt
  <2> QED BY <1>1, <1>7, <2>1, ChargeLateFeeDoes DEF Turns
<1>8. ASSUME NEW w \in Workers, Handle(w), ~LinkPdf(w), ~ClaimReminder(w), \A k \in Invoices : ~ChargeLateFee(w, k)
      PROVE  UNCHANGED invoice
  BY <1>8 DEF Handle, ReadPointer, ReadDocument, ChainMail, StartMail, ComposeMail, AttachPdf,
              CheckSent, LoadAttachment, Deliver, RecordSent, FindOverdue, EmitOverdue, AssessFees, RequestRender,
              EndSweep, AuditOverdue, RunReminderSweep, GiveUp
<1>9. ASSUME NEW w \in Workers, FailAttempt(w) \/ Crash(w) PROVE UNCHANGED invoice
  <2>1. PICK next \in SUBSET Jobs : Lose(w, next)
    BY <1>9, LostCases
  <2> QED BY <2>1 DEF Lose
<1>10. CASE NextDay \/ UNCHANGED vars \/ (\E w \in Workers : Stall(w)) \/ \E w \in Workers, j \in queue : TakeJob(w, j)
  BY <1>1, <1>10 DEF NextDay, vars, Stall, TakeJob
<1> QED BY <1>1, <1>3, <1>4, <1>5, <1>6, <1>7, <1>8, <1>9, <1>10 DEF Next

\* A render goes on until the PDF is linked, or is given up.
LEMMA RenderGoesOn ==
  ASSUME BaseInv, StoredInv, [Next]_vars, NEW i \in Invoices, NEW w \in Workers, RenderAt(w, i)
  PROVE  Rendered(i)'
<1>1. worker[w].pc # "idle" /\ Of(w)[1] = i /\ Busy(w)
  BY DEF RenderAt, Of, Busy
<1>2. CASE worker'[w] = worker[w]
  BY <1>2, RenderedParts DEF RenderAt
<1>3. CASE Stall(w)
  <2>1. PICK k \in Jobs : Same(k, worker[w].job) /\ queue' = queue \cup {k}
    BY <1>3, StallDoes
  <2>2. RenderQueued(i)'
    BY <2>1 DEF RenderAt, RenderQueued, Same
  <2> QED BY <2>2, RenderedParts
<1>4. CASE FailAttempt(w) \/ Crash(w)
  <2>1. Of(w) \in forsaken' \/ \E k \in queue' : Same(k, worker[w].job)
    BY <1>4, LossLeaves DEF RenderAt
  <2>2. Forsaken(i)' \/ RenderQueued(i)'
    BY <1>1, <2>1 DEF RenderAt, RenderQueued, Same, Forsaken
  <2> QED BY <2>2, RenderedParts
<1>5. CASE ReadPointer(w)
  <2>1. PICK pc \in {"reading", "chaining"} :
          /\ Turns(w, pc, worker[w].read, worker[w].on, worker[w].inv, worker[w].todo)
          /\ pc = "chaining" <=> invoice[worker[w].job.inv].pdf # Null
    BY <1>5, ReadPointerDoes
  <2>2. invoice' = invoice
    BY <1>5 DEF ReadPointer
  <2>3. invoice'[i].pdf # Null \/ RenderAt(w, i)'
    BY <2>1, <2>2 DEF RenderAt, Turns
  <2> QED BY <2>3, RenderedParts
<1>6. CASE ReadDocument(w)
  <2>1. CASE GiveUp(w)
    <3>1. Forsaken(i)'
      BY <1>1, <2>1 DEF GiveUp, Forsaken
    <3> QED BY <3>1, RenderedParts
  <2>2. CASE Turns(w, "rendering", invoice[worker[w].job.inv].total, worker[w].on, worker[w].inv, worker[w].todo)
    <3>1. RenderAt(w, i)'
      BY <2>2 DEF RenderAt, Turns
    <3> QED BY <3>1, RenderedParts
  <2> QED BY <1>6, <2>1, <2>2, ReadDocumentDoes
<1>7. CASE LinkPdf(w)
  <2>1. PICK row \in Invoice :
          /\ invoice' = [invoice EXCEPT ![i] = row]
          /\ row.pdf = IF invoice[i].pdf = Null THEN worker[w].read ELSE invoice[i].pdf
    BY <1>7, LinkPdfDoes DEF RenderAt
  <2>2. worker[w].read # Null
    BY <1>7, LinkPdfDoes DEF StoredInv, ReadsTrue
  <2>3. invoice'[i].pdf # Null
    BY <2>1, <2>2, InvoiceReplaced DEF BaseInv
  <2> QED BY <2>3, RenderedParts
<1>8. CASE Handle(w) /\ ~ReadPointer(w) /\ ~ReadDocument(w) /\ ~LinkPdf(w)
  <2>1. worker[w].job.kind = "render" /\ worker[w].pc \in {"taken", "reading", "rendering"}
    BY DEF RenderAt
  <2>2. FALSE
    BY <1>8, <2>1 DEF Handle, ChainMail, ClaimReminder, StartMail, ComposeMail, AttachPdf, CheckSent,
                      LoadAttachment, Deliver, RecordSent, FindOverdue, EmitOverdue, AssessFees, RequestRender,
                      EndSweep, AuditOverdue, ChargeLateFee, RunReminderSweep, At
  <2> QED BY <2>2
<1> QED BY <1>1, <1>2, <1>3, <1>4, <1>5, <1>6, <1>7, <1>8, WorkerSteps

\* Of an invoice that was charged a fee, a render is asked for.
LEMMA ChargedGoesOn ==
  ASSUME BaseInv, [Next]_vars, NEW i \in Invoices, NEW w \in Workers, ChargedAt(w, i)
  PROVE  Rendered(i)'
<1>1. worker[w].pc = "charged" /\ worker[w].inv = i /\ Busy(w)
  BY DEF ChargedAt, Busy
<1>2. CASE worker'[w] = worker[w] \/ Stall(w)
  <2>1. ChargedAt(w, i)'
    BY <1>1, <1>2, StallDoes DEF ChargedAt
  <2> QED BY <2>1, RenderedParts
<1>3. CASE FailAttempt(w) \/ Crash(w)
  <2>1. <<i, Null>> \in forsaken'
    BY <1>1, <1>3, LossLeaves
  <2>2. Forsaken(i)'
    BY <2>1 DEF Forsaken
  <2> QED BY <2>2, RenderedParts
<1>4. CASE Handle(w)
  <2>1. RequestRender(w)
    BY <1>1, <1>4 DEF Handle, ReadPointer, ReadDocument, LinkPdf, ChainMail, ClaimReminder, StartMail, ComposeMail,
                      AttachPdf, CheckSent, LoadAttachment, Deliver, RecordSent, FindOverdue, EmitOverdue,
                      AssessFees, EndSweep, AuditOverdue, ChargeLateFee, RunReminderSweep, At
  <2>2. Enqueue({Render(i, Null)})
    BY <1>1, <2>1 DEF RequestRender
  <2> QED BY <2>2, RenderAwaited
<1> QED BY <1>1, <1>2, <1>3, <1>4, WorkerSteps

LEMMA RenderedStays ==
  ASSUME BaseInv, StoredInv, [Next]_vars, NEW i \in Invoices, Rendered(i)
  PROVE  Rendered(i)'
<1>1. CASE invoice[i].pdf # Null
  <2>1. CASE AdjustLateFee(i)
    <3>1. Enqueue({Render(i, Null)})
      BY <2>1, AdjustLateFeeDoes
    <3> QED BY <3>1, RenderAwaited
  <2> QED BY <1>1, <2>1, PdfLost, RenderedParts
<1>2. CASE Forsaken(i)
  <2>1. Forsaken(i)'
    BY <1>2, Grown DEF Grows, Forsaken
  <2> QED BY <2>1, RenderedParts
<1>3. CASE RenderQueued(i)
  <2>1. PICK j \in queue : j.kind = "render" /\ j.inv = i
    BY <1>3 DEF RenderQueued
  <2>2. CASE j \in queue'
    BY <2>1, <2>2, RenderedParts DEF RenderQueued
  <2>3. ASSUME NEW w \in Workers, TakeJob(w, j) PROVE Rendered(i)'
    <3>1. RenderAt(w, i)'
      BY <2>1, <2>3, TakeJobDoes DEF RenderAt
    <3> QED BY <3>1, RenderedParts
  <2> QED BY <2>2, <2>3, QueueStays
<1> QED BY <1>1, <1>2, <1>3, RenderGoesOn, ChargedGoesOn, RenderedParts

-----------------------------------------------------------------------------
(* The mail of a sent invoice. *)

CarriedBy(w, i) == worker[w].owner /\ Carries(worker[w].job, i)
MailQueued(i)   == \E j \in queue : Carries(j, i)
MailOver(i)     == accepted[<<i, "sent">>] > 0 \/ <<i, "sent">> \in forsaken

LEMMA ReachedParts ==
  ASSUME NEW i \in Invoices
  PROVE  /\ Reached(i) <=> MailOver(i) \/ MailQueued(i) \/ \E w \in Workers : CarriedBy(w, i)
         /\ Reached(i)' <=> (MailOver(i) \/ MailQueued(i) \/ \E w \in Workers : CarriedBy(w, i))'
BY DEF Reached, MailOver, MailQueued, CarriedBy

LEMMA SentMail ==
  ASSUME NEW i \in Invoices
  PROVE  <<i, "sent">> \in Mails
BY DEF Mails, Occasions

LEMMA MailStaysOver ==
  ASSUME BaseInv, [Next]_vars, NEW m \in Mails, accepted[m] > 0 \/ m \in forsaken
  PROVE  accepted'[m] > 0 \/ m \in forsaken'
BY AcceptedGrows, Grown DEF Grows

LEMMA FinishedFrom ==
  ASSUME BaseInv, [Next]_vars, NEW j \in finished', j \notin finished
  PROVE  \E w \in Workers : /\ Busy(w) /\ j = Id(worker[w].job)
                            /\ Of(w) \in forsaken' \/ (Handle(w) /\ worker'[w].pc = "idle")
<1>1. ASSUME NEW w \in Workers, Handle(w), finished' # finished
      PROVE  Busy(w) /\ j = Id(worker[w].job) /\ worker'[w].pc = "idle"
  <2>1. Leaves(w) \/ finished' = finished
    <3>1. Return(w) \/ finished' = finished
      BY <1>1 DEF Handle, ReadPointer, ReadDocument, LinkPdf, ChainMail, ClaimReminder, StartMail, ComposeMail,
                  AttachPdf, CheckSent, LoadAttachment, Deliver, RecordSent, FindOverdue, EmitOverdue, AssessFees,
                  RequestRender, EndSweep, AuditOverdue, ChargeLateFee, RunReminderSweep, GiveUp
    <3>2. CASE Goes(w) /\ Return(w)
      <4>1. worker'[w].pc # "idle" /\ worker[w].pc # "idle"
        BY <3>2 DEF Goes, Turns, Moves
      <4> QED BY <3>2, <4>1, Returned, IdleTyped
    <3> QED BY <1>1, <3>1, <3>2, HandleMoves
  <2>2. worker[w].pc # "idle" /\ Return(w)
    BY <1>1, <2>1 DEF Leaves
  <2>3. worker'[w].pc = "idle"
    BY <2>2, Returned, IdleTyped
  <2>4. j = Id(worker[w].job)
    BY <2>2 DEF Return, Ended
  <2> QED BY <2>2, <2>3, <2>4 DEF Busy
<1>2. ASSUME NEW w \in Workers, FailAttempt(w) \/ Crash(w)
      PROVE  Busy(w) /\ j = Id(worker[w].job) /\ Of(w) \in forsaken'
  BY <1>2, LossLeaves DEF FailAttempt, Crash, Lose, Busy
<1>3. ASSUME NEW i \in Invoices, SendInvoice(i) \/ SettleInvoice(i) \/ AdjustLateFee(i) \/ EditInvoice(i)
      PROVE  FALSE
  BY <1>3 DEF SendInvoice, SettleInvoice, AdjustLateFee, EditInvoice
<1>4. CASE NextDay \/ UNCHANGED vars \/ (\E w \in Workers : Stall(w)) \/ \E w \in Workers, k \in queue : TakeJob(w, k)
  BY <1>4 DEF NextDay, vars, Stall, TakeJob
<1> QED BY <1>1, <1>2, <1>3, <1>4 DEF Next

LEMMA FinishedWellNext ==
  ASSUME BaseInv, AcceptedInv, FinishedWell, [Next]_vars
  PROVE  FinishedWell'
<1> SUFFICES ASSUME NEW j \in finished', j.kind = "mail"
             PROVE  For(j) \in Mails /\ (accepted'[For(j)] > 0 \/ For(j) \in forsaken')
  BY DEF FinishedWell, For
<1>1. CASE j \in finished
  BY <1>1, MailStaysOver DEF FinishedWell
<1>2. CASE j \notin finished
  <2>1. PICK w \in Workers : /\ Busy(w) /\ j = Id(worker[w].job)
                             /\ Of(w) \in forsaken' \/ (Handle(w) /\ worker'[w].pc = "idle")
    BY <1>2, FinishedFrom
  <2>2. worker[w].job \in Jobs /\ Of(w) = For(worker[w].job) /\ (Mailing(worker[w].job) => Of(w) \in Mails)
    BY <2>1, AtHand DEF Busy
  <2>3. worker[w].job.kind = "mail" /\ For(j) = Of(w) /\ Of(w) \in Mails
    BY <2>1, <2>2, IdTyped DEF For, Mailing
  <2>4. CASE Handle(w) /\ worker'[w].pc = "idle"
    BY <2>3, <2>4, HandleEnds, MailStaysOver DEF EndedWell
  <2> QED BY <2>1, <2>3, <2>4
<1> QED BY <1>1, <1>2

\* A render ends by chaining its mail, or by giving it up.
LEMMA RenderEnds ==
  ASSUME BaseInv, NEW w \in Workers, Handle(w), worker[w].job.kind = "render", worker'[w].pc = "idle"
  PROVE  ChainMail(w) \/ GiveUp(w)
<1>1. CASE ReadPointer(w)
  BY <1>1, ReadPointerDoes DEF Turns
<1>2. CASE ReadDocument(w)
  BY <1>2, ReadDocumentDoes DEF Turns
<1>3. CASE LinkPdf(w)
  BY <1>3, LinkPdfDoes DEF Turns
<1>4. CASE ClaimReminder(w) \/ StartMail(w) \/ ComposeMail(w) \/ AttachPdf(w) \/ CheckSent(w)
           \/ LoadAttachment(w) \/ Deliver(w)
           \/ RecordSent(w) \/ FindOverdue(w) \/ RunReminderSweep(w)
  BY <1>4 DEF ClaimReminder, StartMail, ComposeMail, AttachPdf, CheckSent, LoadAttachment, Deliver, RecordSent,
              FindOverdue, RunReminderSweep, At
<1>5. worker[w].pc \notin {"announcing", "emitting", "charging", "charged"}
  BY DEF BaseInv, WorkersOK, Place
<1>6. CASE EmitOverdue(w) \/ AssessFees(w) \/ RequestRender(w) \/ EndSweep(w)
  BY <1>5, <1>6 DEF EmitOverdue, AssessFees, RequestRender, EndSweep
<1>7. ASSUME NEW i \in Invoices, AuditOverdue(w, i) \/ ChargeLateFee(w, i) PROVE FALSE
  BY <1>5, <1>7 DEF AuditOverdue, ChargeLateFee
<1> QED BY <1>1, <1>2, <1>3, <1>4, <1>6, <1>7 DEF Handle

\* The mail behind a render is queued by it, or is known already.
LEMMA ChainedMail ==
  ASSUME BaseInv, FinishedWell, [Next]_vars, NEW i \in Invoices, NEW w \in Workers,
         ChainMail(w), Carries(worker[w].job, i)
  PROVE  Reached(i)'
<1> DEFINE m == Job("mail", i, "sent", 0)
<1>1. /\ worker[w].pc = "chaining" /\ worker[w].job.kind = "render" /\ worker[w].job.inv = i /\ worker[w].job.occ = "sent"
      /\ Enqueue({m}) /\ Return(w)
  <2>1. worker[w].job.occ # Null
    BY DEF Carries, Occasions
  <2> QED BY <2>1 DEF ChainMail, At, Carries
<1>2. m \in Jobs /\ m.kind = "mail" /\ m.inv = i /\ m.occ = "sent"
  BY MailTyped DEF Occasions
<1> HIDE DEF m
<1>3. CASE forsaken' = forsaken \cup {<<j.inv, j.occ>> : j \in {m}}
  <2>1. MailOver(i)'
    BY <1>2, <1>3 DEF MailOver
  <2> QED BY <2>1, ReachedParts
<1>4. CASE queue' = queue \cup {j \in {m} : j \notin KnownIds}
  <2>1. CASE m \notin KnownIds
    <3>1. MailQueued(i)'
      BY <1>2, <1>4, <2>1 DEF MailQueued, Carries
    <3> QED BY <3>1, ReachedParts
  <2>2. CASE m \in finished
    <3>1. For(m) = <<i, "sent">>
      BY <1>2 DEF For
    <3>2. accepted[<<i, "sent">>] > 0 \/ <<i, "sent">> \in forsaken
      BY <1>2, <2>2, <3>1 DEF FinishedWell
    <3>3. MailOver(i)'
      BY <3>2, SentMail, MailStaysOver DEF MailOver
    <3> QED BY <3>3, ReachedParts
  <2>3. ASSUME NEW j \in queue, Id(j) = m PROVE Reached(i)'
    <3>1. j \in Jobs
      BY DEF BaseInv, WaitingOK
    <3>2. j.kind = "mail" /\ j.inv = i /\ j.occ = "sent"
      BY <1>2, <2>3, <3>1, IdTyped
    <3>3. MailQueued(i)'
      BY <1>4, <3>2 DEF MailQueued, Carries
    <3> QED BY <3>3, ReachedParts
  <2>4. ASSUME NEW v \in Workers, worker[v].owner, Id(worker[v].job) = m PROVE Reached(i)'
    <3>1. worker[v].job \in Jobs
      BY <2>4 DEF BaseInv, WorkersOK, Place
    <3>2. worker[v].job.kind = "mail" /\ worker[v].job.inv = i /\ worker[v].job.occ = "sent"
      BY <1>2, <2>4, <3>1, IdTyped
    <3>3. worker'[v] = worker[v]
      BY <1>1, <3>2, Returned
    <3>4. CarriedBy(v, i)'
      BY <2>4, <3>2, <3>3 DEF CarriedBy, Carries
    <3> QED BY <3>4, ReachedParts
  <2> QED BY <2>1, <2>2, <2>3, <2>4 DEF KnownIds
<1> QED BY <1>1, <1>3, <1>4 DEF Enqueue

\* Who carries the mail of an invoice passes it on, or ends it.
LEMMA CarrierGoesOn ==
  ASSUME BaseInv, AcceptedInv, FinishedWell, [Next]_vars, NEW i \in Invoices, NEW w \in Workers, CarriedBy(w, i)
  PROVE  Reached(i)'
<1>1. /\ worker[w].owner /\ Carries(worker[w].job, i) /\ Busy(w) /\ Of(w) = <<i, "sent">>
      /\ worker[w].job.kind \in {"render", "mail"}
  BY DEF CarriedBy, Carries, Of, Busy, BaseInv, WorkersOK, Place
<1>2. CASE <<i, "sent">> \in forsaken'
  BY <1>2, ReachedParts DEF MailOver
<1>3. ASSUME worker'[w].owner, worker'[w].job = worker[w].job PROVE Reached(i)'
  <2>1. CarriedBy(w, i)'
    BY <1>1, <1>3 DEF CarriedBy
  <2> QED BY <2>1, ReachedParts
<1>4. ASSUME NEW k \in queue', Same(k, worker[w].job) PROVE Reached(i)'
  <2>1. MailQueued(i)'
    BY <1>1, <1>4 DEF MailQueued, Carries, Same
  <2> QED BY <2>1, ReachedParts
<1>5. CASE FailAttempt(w) \/ Crash(w)
  BY <1>1, <1>2, <1>4, <1>5, LossLeaves
<1>6. CASE Stall(w)
  BY <1>4, <1>6, StallDoes
<1>7. CASE Handle(w) /\ Goes(w)
  BY <1>1, <1>3, <1>7 DEF Goes, Turns
<1>8. CASE Handle(w) /\ Leaves(w)
  <2>1. worker'[w].pc = "idle"
    BY <1>8, Returned, IdleTyped DEF Leaves
  <2>2. CASE worker[w].job.kind = "mail"
    <3>1. accepted[<<i, "sent">>] > 0 \/ <<i, "sent">> \in forsaken'
      BY <1>1, <1>8, <2>1, <2>2, HandleEnds DEF EndedWell
    <3>2. MailOver(i)'
      BY <3>1, SentMail, AcceptedGrows DEF MailOver
    <3> QED BY <3>2, ReachedParts
  <2>3. CASE worker[w].job.kind = "render"
    <3>1. CASE GiveUp(w)
      BY <1>1, <1>2, <3>1 DEF GiveUp
    <3> QED BY <1>1, <1>8, <2>1, <2>3, <3>1, RenderEnds, ChainedMail
  <2> QED BY <1>1, <2>2, <2>3
<1> QED BY <1>1, <1>3, <1>5, <1>6, <1>7, <1>8, HandleMoves, WorkerSteps

LEMMA ReachedStays ==
  ASSUME BaseInv, AcceptedInv, FinishedWell, [Next]_vars, NEW i \in Invoices, Reached(i)
  PROVE  Reached(i)'
<1>1. CASE MailOver(i)
  <2>1. MailOver(i)'
    BY <1>1, SentMail, MailStaysOver DEF MailOver
  <2> QED BY <2>1, ReachedParts
<1>2. CASE MailQueued(i)
  <2>1. PICK j \in queue : Carries(j, i)
    BY <1>2 DEF MailQueued
  <2>2. CASE j \in queue'
    <3>1. MailQueued(i)'
      BY <2>1, <2>2 DEF MailQueued, Carries
    <3> QED BY <3>1, ReachedParts
  <2>3. ASSUME NEW w \in Workers, TakeJob(w, j) PROVE Reached(i)'
    <3>1. CarriedBy(w, i)'
      BY <2>1, <2>3, TakeJobDoes DEF CarriedBy, Carries
    <3> QED BY <3>1, ReachedParts
  <2> QED BY <2>2, <2>3, QueueStays
<1> QED BY <1>1, <1>2, CarrierGoesOn, ReachedParts

LEMMA SentFromDraft ==
  ASSUME BaseInv, [Next]_vars, NEW i \in Invoices, invoice'[i].status # "draft", invoice[i].status = "draft"
  PROVE  SendInvoice(i)
<1>1. CASE UNCHANGED invoice
  BY <1>1
<1>2. ASSUME NEW k \in Invoices, NEW row \in Invoice, invoice' = [invoice EXCEPT ![k] = row],
             row.status = invoice[k].status \/ invoice[k].status # "draft"
      PROVE  FALSE
  BY <1>2, InvoiceReplaced DEF BaseInv
<1>3. ASSUME NEW k \in Invoices, SendInvoice(k) PROVE k = i
  BY <1>3 DEF SendInvoice, BaseInv, RowsOK
<1>4. ASSUME NEW k \in Invoices, SettleInvoice(k) \/ EditInvoice(k) PROVE FALSE
  <2>1. PICK row \in Invoice : invoice' = [invoice EXCEPT ![k] = row]
    BY <1>4, SettleInvoiceDoes, EditInvoiceDoes
  <2>2. invoice[k].status # "draft"
    BY <1>4, SettleInvoiceDoes, EditInvoiceDoes
  <2> QED BY <1>2, <2>1, <2>2
<1>5. ASSUME NEW k \in Invoices, AdjustLateFee(k) PROVE FALSE
  <2>1. invoice[k].status # "draft"
    BY <1>5, AdjustLateFeeDoes DEF BaseInv, RowsOK, Sane
  <2> QED BY <1>2, <1>5, <2>1, AdjustLateFeeDoes
<1>6. ASSUME NEW w \in Workers, LinkPdf(w) PROVE FALSE
  <2> DEFINE k == worker[w].job.inv
  <2>1. PICK row \in Invoice : invoice' = [invoice EXCEPT ![k] = row] /\ row = [invoice[k] EXCEPT !.pdf = row.pdf]
    BY <1>6, LinkPdfDoes
  <2>2. k \in Invoices
    BY <1>6, LinkPdfDoes
  <2>3. row.status = invoice[k].status
    BY <2>1, <2>2 DEF BaseInv, RowsOK, Invoice
  <2> HIDE DEF k
  <2> QED BY <1>2, <2>1, <2>2, <2>3
<1>7. ASSUME NEW w \in Workers, ClaimReminder(w) PROVE FALSE
  <2> DEFINE k == worker[w].job.inv
             row == [invoice[k] EXCEPT !.reminded = today]
  <2>1. k \in Invoices /\ (UNCHANGED invoice \/ invoice' = [invoice EXCEPT ![k] = row])
    BY <1>7, ClaimReminderDoes DEF Claimed
  <2>2. row \in Invoice /\ row.status = invoice[k].status
    BY <2>1 DEF BaseInv, RowsOK, Invoice
  <2> HIDE DEF k, row
  <2> QED BY <1>1, <1>2, <2>1, <2>2
<1>8. ASSUME NEW w \in Workers, NEW k \in Invoices, ChargeLateFee(w, k) PROVE FALSE
  <2>1. CASE invoice' = [invoice EXCEPT ![k] = Repriced(invoice[k])] /\ ~invoice[k].charged
    <3>1. invoice[k] \in Invoice /\ invoice[k].total < MaxTotal
      BY <2>1 DEF BaseInv, RowsOK, Sane
    <3>2. Repriced(invoice[k]) \in Invoice /\ Repriced(invoice[k]).status = invoice[k].status
      BY <3>1, RepricedTyped
    <3> QED BY <1>2, <2>1, <3>2
  <2> QED BY <1>1, <1>8, <2>1, ChargeLateFeeDoes
<1>9. ASSUME NEW w \in Workers, Handle(w), ~LinkPdf(w), ~ClaimReminder(w), \A k \in Invoices : ~ChargeLateFee(w, k)
      PROVE  UNCHANGED invoice
  BY <1>9 DEF Handle, ReadPointer, ReadDocument, ChainMail, StartMail, ComposeMail, AttachPdf,
              CheckSent, LoadAttachment, Deliver, RecordSent, FindOverdue, EmitOverdue, AssessFees, RequestRender,
              EndSweep, AuditOverdue, RunReminderSweep, GiveUp
<1>10. ASSUME NEW w \in Workers, FailAttempt(w) \/ Crash(w) PROVE UNCHANGED invoice
  <2>1. PICK next \in SUBSET Jobs : Lose(w, next)
    BY <1>10, LostCases
  <2> QED BY <2>1 DEF Lose
<1>11. CASE NextDay \/ UNCHANGED vars \/ (\E w \in Workers : Stall(w)) \/ \E w \in Workers, j \in queue : TakeJob(w, j)
  BY <1>1, <1>11 DEF NextDay, vars, Stall, TakeJob
<1> QED BY <1>1, <1>3, <1>4, <1>5, <1>6, <1>7, <1>8, <1>9, <1>10, <1>11 DEF Next

LEMMA SendWaits ==
  ASSUME BaseInv, NEW i \in Invoices, SendInvoice(i)
  PROVE  Rendered(i)' /\ Reached(i)'
<1>1. Enqueue({Render(i, "sent")}) /\ "sent" \in Occasions \cup {Null}
  BY SendInvoiceDoes DEF Occasions
<1>2. Rendered(i)'
  BY <1>1, RenderAwaited
<1>3. CASE <<i, "sent">> \in forsaken'
  BY <1>2, <1>3, ReachedParts DEF MailOver
<1>4. CASE \E j \in queue' : j.kind = "render" /\ j.inv = i /\ j.occ = "sent"
  <2>1. MailQueued(i)'
    BY <1>4 DEF MailQueued, Carries
  <2> QED BY <1>2, <2>1, ReachedParts
<1> QED BY <1>1, <1>3, <1>4, RenderAsked

LEMMA WaitingInit == Init => WaitingInv
BY DEF Init, WaitingInv, FinishedWell, Draft

LEMMA WaitingNext ==
  BaseInv /\ StoredInv /\ CarriedInv /\ WaitingInv /\ [Next]_vars => WaitingInv'
<1> SUFFICES ASSUME BaseInv, StoredInv, CarriedInv, WaitingInv, [Next]_vars PROVE WaitingInv'
  OBVIOUS
<1>1. AcceptedInv /\ FinishedWell
  BY DEF CarriedInv, WaitingInv
<1>2. FinishedWell'
  BY <1>1, FinishedWellNext
<1>3. ASSUME NEW i \in Invoices, invoice'[i].status # "draft" PROVE Rendered(i)' /\ Reached(i)'
  <2>1. CASE invoice[i].status # "draft"
    <3>1. Rendered(i) /\ Reached(i)
      BY <2>1 DEF WaitingInv
    <3> QED BY <1>1, <3>1, RenderedStays, ReachedStays
  <2>2. CASE invoice[i].status = "draft"
    BY <1>3, <2>2, SentFromDraft, SendWaits
  <2> QED BY <2>1, <2>2
<1> QED BY <1>2, <1>3 DEF WaitingInv

-----------------------------------------------------------------------------
(* The theorems. *)

\* Every part of the invariant holds of every state: of each step a part needs only the parts before it.
THEOREM Inductive == Spec => []IInv
<1>1. Init => IInv
  BY BaseInit, StoredInit, CarriedInit, ClaimInit, AnnounceInit, WaitingInit DEF IInv
<1>2. IInv /\ [Next]_vars => IInv'
  BY BaseNext, StoredNext, CarriedNext, ClaimNext, AnnounceNext, WaitingNext DEF IInv
<1> QED BY <1>1, <1>2, PTL DEF Spec

\* Every variable keeps its type.
THEOREM TypeCorrect == Spec => []TypeOK
<1>1. IInv => TypeOK
  BY DEF IInv, BaseInv, RowsOK, WaitingOK, DoneOK, WorkersOK, LogOK, OutsideOK, HistoryOK, LeftOK, EditsOK, FaultsOK,
         Places, TypeOK
<1> QED BY <1>1, Inductive, PTL

\* Whatever is retried, taken over or run beside itself, the client is chased once for a claim, a mail
\* is accepted once and an invoice is announced as overdue once, but where a worker was lost before its
\* record, or two had the same thing before them.
THEOREM NothingTwice == Spec => []NothingSentTwice
<1>1. IInv => NothingSentTwice
  BY DEF IInv, CarriedInv, SentOnce, ClaimInv, AnnounceInv, AnnouncedOnce, NothingSentTwice
<1> QED BY <1>1, Inductive, PTL

\* A mail goes without its PDF only when the total has changed since the PDF was stored, or the invoice
\* was in the trash.
THEOREM PdfGoesFirst == Spec => []MailCarriesPdf
<1>1. IInv => MailCarriesPdf
  BY DEF IInv, StoredInv
<1> QED BY <1>1, Inductive, PTL

\* A sent invoice has a PDF that states its total, or a render that comes; and its mail was accepted, or
\* comes: unless a fault, the trash or a withdrawn link came between.
THEOREM NothingIsForgotten == Spec => []NothingForgotten
<1>1. IInv => NothingForgotten
  <2> SUFFICES ASSUME IInv PROVE NothingForgotten
    OBVIOUS
  <2>1. ASSUME NEW i \in Invoices, invoice[i].status # "draft"
        PROVE  \/ ~Live(i) \/ invoice[i].pdf = invoice[i].total
               \/ invoice[i].pdf # Null /\ i \in overtaken
               \/ \E p \in forsaken : p[1] = i
               \/ \E j \in queue : j.kind = "render" /\ j.inv = i
               \/ \E w \in Workers, pc \in {"taken", "reading", "rendering"} :
                    At(w, {"render"}, pc) /\ worker[w].job.inv = i
               \/ \E w \in Workers : worker[w].pc = "charged" /\ worker[w].inv = i
    <3>1. Rendered(i)
      BY <2>1 DEF IInv, WaitingInv
    <3>2. CASE invoice[i].pdf # Null
      BY <3>2 DEF IInv, StoredInv
    <3>3. ASSUME NEW w \in Workers, worker[w].pc \in {"taken", "reading", "rendering"},
                 worker[w].job.kind = "render", worker[w].job.inv = i
          PROVE  \E v \in Workers, pc \in {"taken", "reading", "rendering"} :
                   At(v, {"render"}, pc) /\ worker[v].job.inv = i
      BY <3>3 DEF At
    <3> QED BY <3>1, <3>2, <3>3 DEF Rendered
  <2>2. ASSUME NEW i \in Invoices, invoice[i].status # "draft"
        PROVE  \/ accepted[<<i, "sent">>] > 0 \/ <<i, "sent">> \in forsaken
               \/ \E j \in queue : j.kind \in {"render", "mail"} /\ j.inv = i /\ j.occ = "sent"
               \/ \E w \in Workers : /\ worker[w].pc # "idle"
                                     /\ worker[w].job.kind \in {"render", "mail"} /\ worker[w].job.inv = i
                                     /\ worker[w].job.occ = "sent"
    <3>1. Reached(i)
      BY <2>2 DEF IInv, WaitingInv
    <3>2. \A w \in Workers : worker[w].owner => worker[w].pc # "idle"
      BY DEF IInv, BaseInv, WorkersOK, Place
    <3> QED BY <3>1, <3>2 DEF Reached, Carries
  <2> QED BY <2>1, <2>2 DEF NothingForgotten
<1> QED BY <1>1, Inductive, PTL
=============================================================================
