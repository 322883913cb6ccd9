-------------------------- MODULE BillableWorkProofs --------------------------
(***************************************************************************)
(* Proofs about BillableWork, for any entries, expenses, proposals,        *)
(* invoices, requests, amounts and bounds: its types, and the three        *)
(* invariants of its run.                                                  *)
(*                                                                         *)
(* The argument is about what a request may believe when it writes: what   *)
(* it has read of an item still holds, or the item is among those that     *)
(* were written in between (raced, and pooled for the runs of a retainer). *)
(***************************************************************************)
EXTENDS BillableWork, FiniteSetTheorems, TLAPS

\* What request r may still believe of item i.
Believes(r, i) ==
  /\ request[r].pc \in {"editing", "deleting"} /\ request[r].item = i =>
       i \in raced \/ Unbilled(i)
  /\ At(r, "confirmed") /\ request[r].plan[i] # Null =>
       /\ item[i].state = "done"
       /\ i \in raced \/ (~item[i].trashed /\ request[r].plan[i] = item[i].amount)
  /\ At(r, "summed") /\ i \in Expenses => request[r].plan[i] = Null
  /\ At(r, "summed") /\ i \in TimeEntries /\ i \notin pooled =>
       /\ request[r].plan[i] # Null =>
            i \in Pool /\ item[i].state = "done" /\ request[r].plan[i] = item[i].amount
       /\ i \in Pool /\ item[i].state = "done" => request[r].plan[i] # Null

\* What the rows say of item i.
Charged(i, n) == invoice[n].charged[i] # Null
Row(i) ==
  /\ item[i].state = "none" => Unbilled(i)
  /\ item[i].state = "running" /\ ~Unbilled(i) => i \in pooled
  /\ i \notin pooled => \A n \in Invoices : Charged(i, n) => item[i].invoice = n
  /\ i \notin pooled \cup dropped => \A n \in Invoices : item[i].invoice = n => Charged(i, n)
  /\ i \notin raced \cup pooled \cup dropped =>
       \A n \in Invoices : item[i].invoice = n => Live(i) /\ invoice[n].charged[i] = item[i].amount

\* A stamp names an invoice that is there.
StampsIssued == \A i \in Items : item[i].invoice # Null => Issued(item[i].invoice)

\* What a request that is this far has read.
Reads(r) ==
  /\ request[r].pc \in {"stopping", "editing", "deleting"} => request[r].item \in Items
  /\ \A i \in Items : Believes(r, i)

\* The schedule's row is locked: its runs come one at a time.
OneRun == \A r, q \in Requests : At(r, "summed") /\ At(q, "summed") => r = q

IInv == TypeOK /\ (\A r \in Requests : Reads(r)) /\ OneRun /\ (\A i \in Items : Row(i))

USE WorkAssumption

-----------------------------------------------------------------------------
\* What a step must mark.

\* What another request has read of an item that is written is no longer to be believed.
Marked ==
  \A i \in Items : item'[i] # item[i] =>
    \A r \in Requests : request'[r] = request[r] =>
      /\ request[r].item = i \/ request[r].plan[i] # Null => i \in raced'
      /\ At(r, "summed") /\ i \in TimeEntries => i \in pooled'

Grown ==
  /\ raced \subseteq raced' /\ pooled \subseteq pooled' /\ dropped \subseteq dropped'
  /\ \A i \in Items : item[i].state = "done" => item'[i].state = "done"

LEMMA BelievesKept ==
  ASSUME TypeOK, Marked, Grown, NEW r \in Requests, NEW i \in Items,
         request'[r] = request[r], Believes(r, i)
  PROVE  Believes(r, i)'
<1>1. CASE item'[i] = item[i]
  BY <1>1 DEF Believes, Grown, At, Unbilled, Pool, Live
<1>2. CASE item'[i] # item[i]
  BY <1>2 DEF Believes, Marked, Grown, At
<1> QED BY <1>1, <1>2

LEMMA RowKept ==
  ASSUME Grown, NEW i \in Items, item'[i] = item[i], Row(i),
         \A n \in Invoices : invoice'[n].charged[i] = invoice[n].charged[i]
  PROVE  Row(i)'
BY DEF Row, Grown, Charged, Unbilled, Live

\* A step keeps the invariant if what it changes agrees with it.
LEMMA Frame ==
  ASSUME IInv, TypeOK', Marked, Grown, OneRun',
         \A r \in Requests : request'[r] = request[r] \/ Reads(r)',
         \A i \in Items :
           \/ item'[i] = item[i] /\ \A n \in Invoices : invoice'[n].charged[i] = invoice[n].charged[i]
           \/ Row(i)'
  PROVE  IInv'
<1>1. \A r \in Requests : Reads(r)'
  <2> SUFFICES ASSUME NEW r \in Requests, request'[r] = request[r] PROVE Reads(r)'
    OBVIOUS
  <2>1. Reads(r)
    BY DEF IInv
  <2>2. \A i \in Items : Believes(r, i)'
    BY <2>1, BelievesKept DEF IInv, Reads
  <2> QED BY <2>1, <2>2 DEF Reads
<1>2. \A i \in Items : Row(i)'
  BY RowKept DEF IInv
<1> QED BY <1>1, <1>2 DEF IInv

\* Race marks what Marked asks for.
LEMMA RaceMarks ==
  ASSUME TypeOK, NEW r \in Requests \cup {Null}, NEW S \in SUBSET Items, Race(r, S),
         \A i \in Items \ S : item'[i] = item[i],
         r \in Requests => request'[r].pc # request[r].pc
  PROVE  /\ Marked
         /\ raced \subseteq raced' /\ raced' \subseteq Items
         /\ pooled \subseteq pooled' /\ pooled' \subseteq Items
<1>1. /\ raced \subseteq raced' /\ raced' \subseteq Items
      /\ pooled \subseteq pooled' /\ pooled' \subseteq Items
  BY DEF Race, TypeOK, Items
<1>2. ASSUME NEW i \in S, NEW q \in Requests, request'[q] = request[q]
      PROVE  /\ request[q].item = i \/ request[q].plan[i] # Null => i \in raced'
             /\ At(q, "summed") /\ i \in TimeEntries => i \in pooled'
  <2>1. q \in Requests \ {r}
    BY <1>2
  <2> QED BY <2>1 DEF Race, Planned
<1> QED BY <1>1, <1>2 DEF Marked

-----------------------------------------------------------------------------
\* Types.

LEMMA Returned ==
  ASSUME TypeOK, NEW r \in Requests, Return(r)
  PROVE  /\ request' \in [Requests -> Request] /\ request'[r] = Idle /\ Reads(r)'
         /\ \A q \in Requests : q # r => request'[q] = request[q]
<1>1. Idle \in Request
  BY DEF Request, Idle, Charges, Nothing
<1>2. /\ request' \in [Requests -> Request] /\ request'[r] = Idle
      /\ \A q \in Requests : q # r => request'[q] = request[q]
  BY <1>1 DEF Return, TypeOK
<1>3. Reads(r)'
  BY <1>2 DEF Reads, Believes, At, Idle
<1> QED BY <1>2, <1>3

LEMMA RequestReplaced ==
  ASSUME TypeOK, NEW r \in Requests, NEW next \in Request, request' = [request EXCEPT ![r] = next]
  PROVE  /\ request' \in [Requests -> Request] /\ request'[r] = next
         /\ \A q \in Requests : q # r => request'[q] = request[q]
BY DEF TypeOK

LEMMA ItemReplaced ==
  ASSUME TypeOK, NEW i \in Items, NEW row \in Item, item' = [item EXCEPT ![i] = row]
  PROVE  /\ item' \in [Items -> Item] /\ item'[i] = row
         /\ \A j \in Items : j # i => item'[j] = item[j]
BY DEF TypeOK

LEMMA InvoiceReplaced ==
  ASSUME TypeOK, NEW n \in Invoices, NEW row \in Invoice, invoice' = [invoice EXCEPT ![n] = row]
  PROVE  /\ invoice' \in [Invoices -> Invoice] /\ invoice'[n] = row
         /\ \A m \in Invoices : m # n => invoice'[m] = invoice[m]
BY DEF TypeOK

\* No second run of the retainer is begun.
LEMMA NoRun ==
  ASSUME IInv, \A r \in Requests : request'[r] = request[r] \/ request'[r].pc # "summed"
  PROVE  OneRun'
BY DEF IInv, OneRun, At

-----------------------------------------------------------------------------
\* Reading changes nothing but the request.

LEMMA OnlyRequest ==
  ASSUME IInv, NEW r \in Requests, NEW next \in Request, request' = [request EXCEPT ![r] = next],
         UNCHANGED <<item, invoice, history, edits>>, Reads(r)', OneRun'
  PROVE  IInv'
<1>1. /\ request' \in [Requests -> Request]
      /\ \A q \in Requests : q # r => request'[q] = request[q]
  BY RequestReplaced DEF IInv
<1>2. UNCHANGED <<item, invoice, raced, pooled, dropped, edits>>
  BY DEF history
<1>3. TypeOK' /\ Marked /\ Grown
  BY <1>1, <1>2 DEF IInv, TypeOK, Marked, Grown, Issued
<1> QED BY <1>1, <1>2, <1>3, Frame

LEMMA ReadItemStep ==
  ASSUME IInv, NEW r \in Requests, NEW i \in Items, NEW pc \in {"stopping", "editing", "deleting"},
         ReadItem(r, i, pc)
  PROVE  IInv'
<1> DEFINE next == [Begin(r, pc) EXCEPT !.item = i]
<1>1. next \in Request /\ next.pc = pc /\ next.item = i
  BY DEF Begin, Idle, Request, Charges, Nothing
<1>2. /\ request' = [request EXCEPT ![r] = next] /\ UNCHANGED <<item, invoice, history, edits>>
      /\ pc # "stopping" => Unbilled(i)
  BY DEF ReadItem
<1> HIDE DEF next
<1>3. request'[r] = next /\ \A q \in Requests : q # r => request'[q] = request[q]
  BY <1>1, <1>2, RequestReplaced DEF IInv
<1>4. Reads(r)'
  BY <1>1, <1>2, <1>3 DEF Reads, Believes, At, Unbilled
<1>5. OneRun'
  BY <1>1, <1>3, NoRun
<1> QED BY <1>1, <1>2, <1>4, <1>5, OnlyRequest

LEMMA ConfirmPlanStep ==
  ASSUME IInv, NEW r \in Requests, NEW chosen \in SUBSET Items, NEW target \in Invoices \cup {Null},
         ConfirmPlan(r, chosen, target)
  PROVE  IInv'
<1> DEFINE plan == [i \in Items |-> IF i \in chosen THEN item[i].amount ELSE Null]
           next == [Begin(r, "confirmed") EXCEPT !.plan = plan, !.target = target]
<1>1. plan \in Charges
  <2>1. \A i \in Items : item[i].amount \in Amounts
    BY DEF IInv, TypeOK, Item
  <2> QED BY <2>1 DEF Charges
<1>2. next \in Request /\ next.pc = "confirmed" /\ next.plan = plan
  <2> HIDE DEF plan
  <2> QED BY <1>1 DEF Begin, Idle, Request, Charges, Nothing
<1>3. request' = [request EXCEPT ![r] = next] /\ UNCHANGED <<item, invoice, history, edits>>
      /\ chosen \subseteq Billable
  BY DEF ConfirmPlan
<1>4. \A i \in Items : next.plan[i] # Null =>
        item[i].state = "done" /\ ~item[i].trashed /\ next.plan[i] = item[i].amount
  BY <1>2, <1>3 DEF Billable, Live
<1> HIDE DEF next, plan
<1>5. request'[r] = next /\ \A q \in Requests : q # r => request'[q] = request[q]
  BY <1>2, <1>3, RequestReplaced DEF IInv
<1>6. Reads(r)'
  BY <1>2, <1>3, <1>4, <1>5 DEF Reads, Believes, At
<1>7. OneRun'
  BY <1>2, <1>5, NoRun
<1> QED BY <1>2, <1>3, <1>6, <1>7, OnlyRequest

LEMMA SumRetainerStep ==
  ASSUME IInv, NEW r \in Requests, SumRetainer(r)
  PROVE  IInv'
<1> DEFINE plan == [i \in Items |-> IF i \in Pool /\ item[i].state = "done" THEN item[i].amount ELSE Null]
           next == [Begin(r, "summed") EXCEPT !.plan = plan]
<1>0. \A i \in Items : item[i].amount \in Amounts /\ item[i].amount # Null
  <2>1. Amounts \subseteq Nat /\ Null \notin Nat
    BY DEF Amounts
  <2>2. \A i \in Items : item[i].amount \in Amounts
    BY DEF IInv, TypeOK, Item
  <2> QED BY <2>1, <2>2
<1>1. plan \in Charges
  BY <1>0 DEF Charges
<1>2. next \in Request /\ next.pc = "summed" /\ next.plan = plan
  <2> HIDE DEF plan
  <2> QED BY <1>1 DEF Begin, Idle, Request, Charges, Nothing
<1>3. request' = [request EXCEPT ![r] = next] /\ UNCHANGED <<item, invoice, history, edits>>
      /\ \A q \in Requests : ~At(q, "summed")
  BY DEF SumRetainer
<1>4. \A i \in Items :
        /\ next.plan[i] # Null => i \in Pool /\ item[i].state = "done" /\ next.plan[i] = item[i].amount
        /\ i \in Pool /\ item[i].state = "done" => next.plan[i] # Null
  BY <1>0, <1>2
<1> HIDE DEF next, plan
<1>5. request'[r] = next /\ \A q \in Requests : q # r => request'[q] = request[q]
  BY <1>2, <1>3, RequestReplaced DEF IInv
<1>6. Pool' = Pool
  BY <1>3 DEF Pool, Live, Unbilled
<1>7. ASSUME NEW i \in Items
      PROVE  Believes(r, i)'
  <2>1. i \in Expenses => i \notin Pool
    BY DEF Pool
  <2> QED BY <1>2, <1>3, <1>4, <1>5, <1>6, <2>1 DEF Believes, At
<1>8. Reads(r)'
  BY <1>2, <1>5, <1>7 DEF Reads
<1>9. OneRun'
  BY <1>3, <1>5 DEF OneRun, At
<1> QED BY <1>2, <1>3, <1>8, <1>9, OnlyRequest

LEMMA ReadProposalStep ==
  ASSUME IInv, NEW r \in Requests, NEW p \in Proposals, ReadProposal(r, p)
  PROVE  IInv'
<1> DEFINE next == [Begin(r, "converting") EXCEPT !.proposal = p]
<1>1. next \in Request /\ next.pc = "converting"
  BY DEF Begin, Idle, Request, Charges, Nothing
<1>2. request' = [request EXCEPT ![r] = next] /\ UNCHANGED <<item, invoice, history, edits>>
  BY DEF ReadProposal
<1> HIDE DEF next
<1>3. request'[r] = next /\ \A q \in Requests : q # r => request'[q] = request[q]
  BY <1>1, <1>2, RequestReplaced DEF IInv
<1>4. Reads(r)'
  BY <1>1, <1>3 DEF Reads, Believes, At
<1>5. OneRun'
  BY <1>1, <1>3, NoRun
<1> QED BY <1>1, <1>2, <1>4, <1>5, OnlyRequest

-----------------------------------------------------------------------------
\* The work.

\* A step that writes one item, and no invoice.
LEMMA OneItem ==
  ASSUME IInv, NEW r \in Requests \cup {Null}, NEW i \in Items, NEW row \in Item,
         item' = [item EXCEPT ![i] = row], row.invoice = item[i].invoice,
         item[i].state = "done" => row.state = "done",
         Race(r, {i}), UNCHANGED <<invoice, dropped>>, edits' \in 0..MaxEdits,
         request' \in [Requests -> Request], OneRun',
         r \in Requests => request'[r].pc # request[r].pc,
         \A q \in Requests : request'[q] = request[q] \/ Reads(q)',
         Row(i)'
  PROVE  IInv'
<1>1. /\ item' \in [Items -> Item] /\ item'[i] = row
      /\ \A j \in Items : j # i => item'[j] = item[j]
  BY ItemReplaced DEF IInv
<1>2. /\ Marked
      /\ raced \subseteq raced' /\ raced' \subseteq Items
      /\ pooled \subseteq pooled' /\ pooled' \subseteq Items
  <2>1. {i} \in SUBSET Items /\ \A j \in Items \ {i} : item'[j] = item[j]
    BY <1>1
  <2> QED BY <2>1, RaceMarks DEF IInv
<1>3. Grown
  BY <1>1, <1>2 DEF Grown
<1>4. TypeOK'
  <2>1. \A j \in Items : item'[j].invoice = item[j].invoice
    BY <1>1
  <2>2. StampsIssued'
    BY <2>1 DEF IInv, TypeOK, Issued, StampsIssued
  <2> QED BY <1>1, <1>2, <2>2 DEF IInv, TypeOK, StampsIssued
<1>5. \A j \in Items :
        \/ item'[j] = item[j] /\ \A n \in Invoices : invoice'[n].charged[j] = invoice[n].charged[j]
        \/ Row(j)'
  BY <1>1
<1> QED BY <1>2, <1>3, <1>4, <1>5, Frame

\* A row that is begun carries no stamp, and is on no invoice unless time was pooled.
LEMMA LogStep ==
  ASSUME IInv, NEW i \in Items, NEW state \in {"running", "done"}, NEW a \in Amounts, Log(i, state, a)
  PROVE  IInv'
<1> DEFINE row == [NoItem EXCEPT !.state = state, !.amount = a]
<1>1. row \in Item /\ row.invoice = Null
  BY DEF Item, NoItem
<1>2. item' = [item EXCEPT ![i] = row] /\ item[i].state = "none" /\ Race(Null, {i})
      /\ UNCHANGED <<invoice, request, dropped, edits>>
  BY DEF Log
<1> HIDE DEF row
<1>3. item'[i] = row /\ Unbilled(i) /\ Row(i) /\ pooled \subseteq pooled'
  BY <1>1, <1>2, ItemReplaced DEF IInv, Row, Race
<1>4. Row(i)'
  BY <1>1, <1>2, <1>3 DEF Row, Charged, Unbilled
<1>5. /\ edits' \in 0..MaxEdits /\ request' \in [Requests -> Request] /\ OneRun'
      /\ row.invoice = item[i].invoice
  BY <1>1, <1>2, <1>3, NoRun DEF IInv, TypeOK, Unbilled
<1> QED BY <1>1, <1>2, <1>4, <1>5, OneItem

LEMMA RestoreStep ==
  ASSUME IInv, NEW i \in Items, Restore(i)
  PROVE  IInv'
<1> DEFINE row == [item[i] EXCEPT !.trashed = FALSE]
<1>1. item[i] \in Item
  BY DEF IInv, TypeOK
<1>2. /\ row \in Item /\ row.invoice = item[i].invoice /\ row.state = item[i].state
      /\ row.amount = item[i].amount
  BY <1>1 DEF Item
<1>3. /\ item' = [item EXCEPT ![i] = row] /\ item[i].trashed /\ Race(Null, {i})
      /\ UNCHANGED <<invoice, request, dropped>> /\ edits' \in 0..MaxEdits
  BY DEF Restore, Edit, IInv, TypeOK
<1> HIDE DEF row
<1>4. item'[i] = row /\ raced \subseteq raced' /\ pooled \subseteq pooled'
  BY <1>2, <1>3, ItemReplaced DEF IInv, Race
<1>5. Row(i)'
  BY <1>2, <1>3, <1>4 DEF IInv, Row, Charged, Unbilled, Live
<1>6. request' \in [Requests -> Request] /\ OneRun'
  BY <1>3, NoRun DEF IInv, TypeOK
<1> QED BY <1>2, <1>3, <1>5, <1>6, OneItem

\* An edit or a deletion that finds its item billed by then is raced; a stop finds its timer running.
LEMMA WriteStep ==
  ASSUME IInv, NEW r \in Requests, NEW pc \in {"stopping", "editing", "deleting"},
         NEW i, i = request[r].item, NEW row \in Item,
         i \in Items => /\ row.invoice = item[i].invoice
                        /\ row.state = IF pc = "stopping" THEN "done" ELSE item[i].state,
         Write(r, pc, row), edits' \in 0..MaxEdits
  PROVE  IInv'
<1>1. i \in Items /\ request[r].pc = pc /\ Reads(r) /\ Row(i)
  BY DEF Write, At, IInv, Reads
<1>2. /\ request' \in [Requests -> Request] /\ request'[r] = Idle /\ Reads(r)'
      /\ \A q \in Requests : q # r => request'[q] = request[q]
  BY Returned DEF Write, IInv
<1>3. OneRun' /\ Idle.pc = "idle"
  BY <1>2, NoRun DEF Idle
<1>4. UNCHANGED <<invoice, dropped>>
  BY DEF Write
<1>5. CASE UNCHANGED <<item, raced, pooled>>
  <2>1. TypeOK' /\ Marked /\ Grown
    BY <1>2, <1>4, <1>5 DEF IInv, TypeOK, Marked, Grown, Issued
  <2> QED BY <1>2, <1>3, <1>4, <1>5, <2>1, Frame
<1>6. CASE /\ item' = [item EXCEPT ![i] = row] /\ Race(r, {i})
           /\ pc = "stopping" => item[i].state = "running"
  <2>1. item'[i] = row /\ raced \subseteq raced' /\ pooled \subseteq pooled'
    BY <1>1, <1>6, ItemReplaced DEF IInv, Race
  <2>2. i \notin raced \cup pooled => Unbilled(i)
    <3>1. CASE pc = "stopping"
      BY <1>1, <1>6, <3>1 DEF Row
    <3>2. CASE pc \in {"editing", "deleting"}
      BY <1>1, <3>2 DEF Reads, Believes
    <3> QED BY <3>1, <3>2
  <2>3. Row(i)'
    BY <1>1, <1>4, <1>6, <2>1, <2>2 DEF Row, Charged, Unbilled
  <2>4. item[i].state = "done" => row.state = "done"
    BY <1>1
  <2> QED BY <1>1, <1>2, <1>3, <1>4, <1>6, <2>3, <2>4, OneItem
<1> QED BY <1>5, <1>6 DEF Write

LEMMA WorkStepInv ==
  ASSUME IInv, WorkStep
  PROVE  IInv'
<1>1. \A a \in Logged \cup Amended \cup {0} : a \in Amounts
  BY DEF Amounts
<1>2. TimeEntries \subseteq Items /\ Expenses \subseteq Items
  BY DEF Items
<1>3. ASSUME NEW e \in Items,
             \/ Restore(e) \/ Log(e, "running", 0)
             \/ \E a \in Logged : Log(e, "done", a)
      PROVE  IInv'
  BY <1>1, <1>3, RestoreStep, LogStep
<1>4. ASSUME NEW r \in Requests, NEW i \in Items, NEW pc \in {"stopping", "editing", "deleting"},
             ReadItem(r, i, pc)
      PROVE  IInv'
  BY <1>4, ReadItemStep
<1>5. ASSUME NEW r \in Requests, NEW a \in Logged, StopTimer(r, a)
      PROVE  IInv'
  <2> DEFINE i   == request[r].item
             row == [item[i] EXCEPT !.state = "done", !.amount = a]
  <2>1. i \in Items /\ item[i] \in Item
    BY <1>5 DEF StopTimer, Write, At, IInv, Reads, TypeOK
  <2>2. row \in Item /\ row.invoice = item[i].invoice /\ row.state = "done"
    BY <1>1, <2>1 DEF Item
  <2>3. Write(r, "stopping", row) /\ edits' \in 0..MaxEdits
    BY <1>5 DEF StopTimer, IInv, TypeOK
  <2> HIDE DEF row
  <2> QED BY <2>2, <2>3, WriteStep
<1>6. ASSUME NEW r \in Requests, NEW a \in Amended, Rewrite(r, a)
      PROVE  IInv'
  <2> DEFINE i   == request[r].item
             row == [item[i] EXCEPT !.amount = a]
  <2>1. i \in Items /\ item[i] \in Item
    BY <1>6 DEF Rewrite, Write, At, IInv, Reads, TypeOK
  <2>2. row \in Item /\ row.invoice = item[i].invoice /\ row.state = item[i].state
    BY <1>1, <2>1 DEF Item
  <2>3. Write(r, "editing", row) /\ edits' \in 0..MaxEdits
    BY <1>6 DEF Rewrite, Edit, IInv, TypeOK
  <2> HIDE DEF row
  <2> QED BY <2>2, <2>3, WriteStep
<1>7. ASSUME NEW r \in Requests, Discard(r)
      PROVE  IInv'
  <2> DEFINE i   == request[r].item
             row == [item[i] EXCEPT !.trashed = TRUE]
  <2>1. i \in Items /\ item[i] \in Item
    BY <1>7 DEF Discard, Write, At, IInv, Reads, TypeOK
  <2>2. row \in Item /\ row.invoice = item[i].invoice /\ row.state = item[i].state
    BY <2>1 DEF Item
  <2>3. Write(r, "deleting", row) /\ edits' \in 0..MaxEdits
    BY <1>7 DEF Discard, Edit, IInv, TypeOK
  <2> HIDE DEF row
  <2> QED BY <2>2, <2>3, WriteStep
<1> QED BY <1>2, <1>3, <1>4, <1>5, <1>6, <1>7
        DEF WorkStep, StartTimer, CreateManualTimeEntry, CreateExpense, RestoreTimeEntry, RestoreExpense,
            UpdateTimeEntry, UpdateExpense, SoftDeleteTimeEntry, SoftDeleteExpense

-----------------------------------------------------------------------------
\* The invoices.

\* The requests where they were, or back with nothing read.
Progressed ==
  /\ request' \in [Requests -> Request]
  /\ \A q \in Requests : request'[q] = request[q] \/ (Reads(q)' /\ request'[q].pc # "summed")

\* The lines a row of invoices leaves out are known to be dropped.
Keeps(row, n) ==
  \A i \in Items : row.charged[i] = invoice[n].charged[i] \/ (row.charged[i] = Null /\ i \in dropped')

\* A step that writes one invoice, and no item.
LEMMA OneInvoice ==
  ASSUME IInv, NEW n \in Invoices, NEW row \in Invoice, invoice' = [invoice EXCEPT ![n] = row],
         row.status \in {"draft", "sent"}, edits' \in 0..MaxEdits,
         UNCHANGED <<item, raced, pooled>>, dropped \subseteq dropped', dropped' \subseteq Items,
         Keeps(row, n), Progressed
  PROVE  IInv'
<1>1. /\ invoice' \in [Invoices -> Invoice] /\ invoice'[n] = row
      /\ \A m \in Invoices : m # n => invoice'[m] = invoice[m]
  BY InvoiceReplaced DEF IInv
<1>2. TypeOK'
  <2>1. StampsIssued'
    BY <1>1 DEF IInv, TypeOK, Item, Issued, StampsIssued
  <2> QED BY <1>1, <2>1 DEF IInv, TypeOK, StampsIssued, Progressed
<1>3. Marked /\ Grown /\ OneRun'
  BY NoRun DEF Marked, Grown, Progressed
<1>4. ASSUME NEW i \in Items
      PROVE  \/ \A m \in Invoices : invoice'[m].charged[i] = invoice[m].charged[i]
             \/ Row(i)'
  <2>1. CASE row.charged[i] = invoice[n].charged[i]
    BY <1>1, <2>1
  <2>2. CASE row.charged[i] = Null /\ i \in dropped'
    BY <1>1, <2>2 DEF IInv, Row, Charged, Unbilled
  <2> QED BY <2>1, <2>2 DEF Keeps
<1> QED BY <1>2, <1>3, <1>4, Frame DEF Progressed

LEMMA UpdateInvoiceStep ==
  ASSUME IInv, NEW n \in Invoices, NEW i \in Items, UpdateInvoice(n, i)
  PROVE  IInv'
<1> DEFINE charged == [invoice[n].charged EXCEPT ![i] = Null]
           row     == [invoice[n] EXCEPT !.charged = charged]
<1>1. invoice[n] \in Invoice /\ invoice[n].charged \in Charges
  BY DEF IInv, TypeOK, Invoice
<1>2. charged \in Charges /\ charged[i] = Null
      /\ \A j \in Items : j # i => charged[j] = invoice[n].charged[j]
  BY <1>1 DEF Charges
<1>3. /\ invoice' = [invoice EXCEPT ![n] = row] /\ invoice[n].status = "draft"
      /\ dropped' = dropped \cup {i} /\ UNCHANGED <<item, request, raced, pooled>>
      /\ edits' \in 0..MaxEdits
  BY DEF UpdateInvoice, Edit, IInv, TypeOK
<1> HIDE DEF charged
<1>4. row \in Invoice /\ row.status = invoice[n].status /\ row.charged = charged
  BY <1>1, <1>2 DEF Invoice
<1> HIDE DEF row
<1>5. Progressed /\ dropped' \subseteq Items
  BY <1>3 DEF IInv, TypeOK, Progressed
<1>6. Keeps(row, n)
  BY <1>2, <1>3, <1>4 DEF Keeps
<1>7. row.status \in {"draft", "sent"} /\ dropped \subseteq dropped'
  BY <1>3, <1>4
<1>8. UNCHANGED <<item, raced, pooled>>
  BY <1>3
<1> QED BY <1>3, <1>4, <1>5, <1>6, <1>7, <1>8, OneInvoice

\* A step that leaves the lines of the invoice alone.
LEMMA SameLines ==
  ASSUME IInv, NEW n \in Invoices, NEW row \in Invoice, invoice' = [invoice EXCEPT ![n] = row],
         row.status \in {"draft", "sent"}, row.charged = invoice[n].charged, edits' \in 0..MaxEdits,
         UNCHANGED <<item, history>>, Progressed
  PROVE  IInv'
<1>1. Keeps(row, n)
  BY DEF Keeps
<1> QED BY <1>1, OneInvoice DEF history, IInv, TypeOK

LEMMA SendInvoiceStep ==
  ASSUME IInv, NEW n \in Invoices, SendInvoice(n)
  PROVE  IInv'
<1> DEFINE row == [invoice[n] EXCEPT !.status = "sent"]
<1>1. invoice[n] \in Invoice
  BY DEF IInv, TypeOK
<1>2. row \in Invoice /\ row.status = "sent" /\ row.charged = invoice[n].charged
  BY <1>1 DEF Invoice
<1>3. invoice' = [invoice EXCEPT ![n] = row] /\ UNCHANGED <<item, request, history, edits>>
  BY DEF SendInvoice
<1>4. edits' \in 0..MaxEdits /\ Progressed
  BY <1>3 DEF IInv, TypeOK, Progressed
<1> HIDE DEF row
<1> QED BY <1>2, <1>3, <1>4, SameLines

LEMMA TrashInvoiceStep ==
  ASSUME IInv, NEW n \in Invoices, TrashInvoice(n)
  PROVE  IInv'
<1> DEFINE row == [invoice[n] EXCEPT !.trashed = ~@]
<1>1. invoice[n] \in Invoice
  BY DEF IInv, TypeOK
<1>2. row \in Invoice /\ row.status = invoice[n].status /\ row.charged = invoice[n].charged
  BY <1>1 DEF Invoice
<1>3. /\ invoice' = [invoice EXCEPT ![n] = row] /\ UNCHANGED <<item, request, history>>
      /\ invoice[n].status \in {"draft", "sent"} /\ edits' \in 0..MaxEdits
  BY DEF TrashInvoice, Issued, Edit, IInv, TypeOK
<1>4. Progressed
  BY <1>3 DEF IInv, TypeOK, Progressed
<1> HIDE DEF row
<1> QED BY <1>2, <1>3, <1>4, SameLines

LEMMA InvoiceProposalStep ==
  ASSUME IInv, NEW r \in Requests, NEW n \in Invoices, InvoiceProposal(r, n)
  PROVE  IInv'
<1> DEFINE p   == request[r].proposal
           row == [invoice[n] EXCEPT !.status = "draft", !.proposal = p]
<1>1. invoice[n] \in Invoice /\ p \in Proposals \cup {Null}
  BY DEF IInv, TypeOK, Request
<1>2. row \in Invoice /\ row.status = "draft" /\ row.charged = invoice[n].charged
  <2> HIDE DEF p
  <2> QED BY <1>1 DEF Invoice
<1>3. invoice' = [invoice EXCEPT ![n] = row] /\ Return(r) /\ UNCHANGED <<item, history, edits>>
  BY DEF InvoiceProposal, IInv, TypeOK
<1> HIDE DEF row, p
<1>4. Progressed
  BY <1>3, Returned DEF IInv, Idle, Progressed
<1>5. edits' \in 0..MaxEdits
  BY <1>3 DEF IInv, TypeOK
<1> QED BY <1>2, <1>3, <1>4, <1>5, SameLines

\* The lines go with the invoice, and the stamps.
LEMMA PurgeInvoiceStep ==
  ASSUME IInv, NEW n \in Invoices, PurgeInvoice(n)
  PROVE  IInv'
<1> DEFINE S   == {i \in Items : item[i].invoice = n}
           row == [NoInvoice EXCEPT !.status = "purged"]
<1>1. row \in Invoice /\ \A i \in Items : row.charged[i] = Null
  BY DEF Invoice, NoInvoice, Charges, Nothing
<1>2. /\ invoice' = [invoice EXCEPT ![n] = row] /\ item' = Unstamped(n) /\ Race(Null, S)
      /\ UNCHANGED <<request, dropped>> /\ edits' \in 0..MaxEdits
  BY DEF PurgeInvoice, Edit, IInv, TypeOK
<1> HIDE DEF row
<1>3. /\ invoice' \in [Invoices -> Invoice] /\ \A i \in Items : invoice'[n].charged[i] = Null
      /\ \A m \in Invoices : m # n => invoice'[m] = invoice[m]
  BY <1>1, <1>2, InvoiceReplaced DEF IInv
<1>4. item' \in [Items -> Item] /\ \A i \in Items \ S : item'[i] = item[i]
  BY <1>2 DEF Unstamped, IInv, TypeOK, Item
<1>5. \A i \in S : item'[i].invoice = Null /\ item'[i].state = item[i].state
  BY <1>2 DEF Unstamped, IInv, TypeOK, Item
<1>6. Marked /\ raced \subseteq raced' /\ raced' \subseteq Items /\ pooled \subseteq pooled' /\ pooled' \subseteq Items
  BY <1>2, <1>4, RaceMarks DEF IInv
<1>7. Grown
  BY <1>2, <1>4, <1>5, <1>6 DEF Grown
<1>8. TypeOK'
  <2>1. StampsIssued'
    BY <1>3, <1>4, <1>5 DEF IInv, TypeOK, Item, Issued, StampsIssued
  <2> QED BY <1>2, <1>3, <1>4, <1>6, <2>1 DEF IInv, TypeOK, StampsIssued
<1>9. ASSUME NEW i \in Items
      PROVE  Row(i)'
  <2>1. CASE i \in S
    BY <1>3, <1>5, <1>6, <2>1 DEF IInv, Row, Charged, Unbilled
  <2>2. CASE i \notin S
    BY <1>2, <1>3, <1>4, <1>6, <2>2 DEF IInv, Row, Charged, Unbilled, Live
  <2> QED BY <2>1, <2>2
<1>10. OneRun'
  BY <1>2, NoRun
<1> QED BY <1>2, <1>6, <1>7, <1>8, <1>9, <1>10, Frame

LEMMA ChargeLines ==
  ASSUME TypeOK, NEW n \in Invoices, NEW plan \in Charges
  PROVE  /\ Charge(n, plan) \in Charges
         /\ \A i \in Items : Charge(n, plan)[i] = IF plan[i] = Null THEN invoice[n].charged[i] ELSE plan[i]
<1>1. invoice[n].charged \in Charges
  BY DEF TypeOK, Invoice
<1> QED BY <1>1 DEF Charge, Charges

LEMMA StampedRows ==
  ASSUME TypeOK, NEW n \in Invoices, NEW S \in SUBSET Items, \A i \in S : Unbilled(i)
  PROVE  /\ Stamped(S, n) \in [Items -> Item]
         /\ \A i \in Items \ S : Stamped(S, n)[i] = item[i]
         /\ \A i \in S : LET row == Stamped(S, n)[i]
                         IN  /\ row.invoice = n /\ row.state = item[i].state
                             /\ row.amount = item[i].amount /\ row.trashed = item[i].trashed
<1>1. ASSUME NEW i \in S
      PROVE  LET row == Stamped(S, n)[i]
             IN  /\ row \in Item /\ row.invoice = n /\ row.state = item[i].state
                 /\ row.amount = item[i].amount /\ row.trashed = item[i].trashed
  <2>1. Stamped(S, n)[i] = [item[i] EXCEPT !.invoice = n]
    BY DEF Stamped
  <2>2. item[i] \in Item
    BY DEF TypeOK
  <2> QED BY <2>1, <2>2 DEF Item
<1>2. \A i \in Items \ S : Stamped(S, n)[i] = item[i] /\ item[i] \in Item
  BY DEF Stamped, TypeOK
<1> QED BY <1>1, <1>2 DEF Stamped

\* Invoice n has stamped the items S, and charges what is planned.
Billed(n, S, plan) ==
  /\ item' \in [Items -> Item] /\ invoice' \in [Invoices -> Invoice]
  /\ \A i \in Items \ S : item'[i] = item[i]
  /\ \A i \in S : /\ item'[i].invoice = n /\ item'[i].state = item[i].state
                  /\ item'[i].amount = item[i].amount /\ item'[i].trashed = item[i].trashed
  /\ \A i \in Items, m \in Invoices :
       invoice'[m].charged[i] = IF m = n /\ plan[i] # Null THEN plan[i] ELSE invoice[m].charged[i]

\* What an invoice takes on and stamps: the items S, all unbilled.
LEMMA BillingTypes ==
  ASSUME IInv, NEW n \in Invoices, NEW S \in SUBSET Items, CountMatches(S),
         NEW plan \in Charges, NEW row \in Invoice, row.charged = Charge(n, plan),
         row.status \in {"draft", "sent"},
         invoice' = [invoice EXCEPT ![n] = row], item' = Stamped(S, n)
  PROVE  StampsIssued' /\ Billed(n, S, plan)
<1>1. /\ item' \in [Items -> Item] /\ \A i \in Items \ S : item'[i] = item[i]
      /\ \A i \in S : /\ item'[i].invoice = n /\ item'[i].state = item[i].state
                      /\ item'[i].amount = item[i].amount /\ item'[i].trashed = item[i].trashed
  BY StampedRows DEF IInv, CountMatches
<1>2. /\ invoice' \in [Invoices -> Invoice] /\ invoice'[n] = row
      /\ \A m \in Invoices : m # n => invoice'[m] = invoice[m]
  BY InvoiceReplaced DEF IInv
<1>3. StampsIssued'
  BY <1>1, <1>2 DEF IInv, TypeOK, Item, Issued, StampsIssued
<1>4. \A i \in Items : row.charged[i] = IF plan[i] = Null THEN invoice[n].charged[i] ELSE plan[i]
  BY ChargeLines DEF IInv
<1>5. \A i \in Items, m \in Invoices :
        invoice'[m].charged[i] = IF m = n /\ plan[i] # Null THEN plan[i] ELSE invoice[m].charged[i]
  BY <1>2, <1>4
<1> QED BY <1>1, <1>2, <1>3, <1>5 DEF Billed

\* A conversion that commits stamps what it counted, at the amounts it read, or the item is raced.
LEMMA CommitBillingStep ==
  ASSUME IInv, NEW r \in Requests, NEW n \in Invoices, CommitBilling(r, n)
  PROVE  IInv'
<1>a. request[r].plan \in Charges /\ Planned(r) \in SUBSET Items
  BY DEF IInv, TypeOK, Request, Planned
<1>b. \A i \in Items : i \in Planned(r) <=> request[r].plan[i] # Null
  BY DEF Planned
<1>0. PICK S \in SUBSET Items, plan \in Charges :
        S = Planned(r) /\ plan = request[r].plan /\ \A i \in Items : i \in S <=> plan[i] # Null
  BY <1>a, <1>b, Zenon
<1>1. request[r] \in Request /\ At(r, "confirmed")
  BY DEF CommitBilling, IInv, TypeOK
<1>2. /\ request' \in [Requests -> Request] /\ request'[r] = Idle /\ Reads(r)'
      /\ \A q \in Requests : q # r => request'[q] = request[q]
  BY Returned DEF CommitBilling, IInv
<1>3. OneRun' /\ Idle.pc = "idle"
  BY <1>2, NoRun DEF Idle
<1>4. UNCHANGED <<dropped, edits>>
  BY DEF CommitBilling
<1>5. CASE UNCHANGED <<item, invoice, raced, pooled>>
  <2>1. TypeOK' /\ Marked /\ Grown
    BY <1>2, <1>4, <1>5 DEF IInv, TypeOK, Marked, Grown, Issued
  <2> QED BY <1>2, <1>3, <1>5, <2>1, Frame
<1>6. CASE ~ UNCHANGED <<item, invoice, raced, pooled>>
  <2> DEFINE new == request[r].target = Null
             row == [invoice[n] EXCEPT !.status = IF new THEN "draft" ELSE @, !.charged = Charge(n, plan)]
  <2>1. /\ CountMatches(S)
        /\ new \/ invoice[n].status \in {"draft", "sent"}
        /\ invoice' = [invoice EXCEPT ![n].status = IF new THEN "draft" ELSE @,
                                      ![n].charged = Charge(n, plan)]
        /\ item' = Stamped(S, n) /\ Race(r, S)
    BY <1>0, <1>6 DEF CommitBilling, Issued
  <2>2. invoice[n] \in Invoice /\ Charge(n, plan) \in Charges
    BY ChargeLines DEF IInv, TypeOK
  <2>3. invoice' = [invoice EXCEPT ![n] = row]
    BY <2>1, <2>2 DEF IInv, TypeOK, Invoice
  <2> HIDE DEF new
  <2>4. row \in Invoice /\ row.status \in {"draft", "sent"} /\ row.charged = Charge(n, plan)
    <3> DEFINE charged == Charge(n, plan)
    <3>1. charged \in Charges
      BY <2>2
    <3> HIDE DEF charged
    <3> QED BY <2>1, <2>2, <3>1 DEF Invoice
  <2> HIDE DEF row
  <2>5. StampsIssued' /\ Billed(n, S, plan)
    BY <2>1, <2>3, <2>4, BillingTypes
  <2>6. request'[r].pc # request[r].pc
    BY <1>1, <1>2, <1>3 DEF At
  <2>7. Marked /\ raced \subseteq raced' /\ raced' \subseteq Items /\ pooled \subseteq pooled' /\ pooled' \subseteq Items
    BY <2>1, <2>5, <2>6, RaceMarks DEF IInv, Billed
  <2>8. Grown
    BY <1>4, <2>5, <2>7 DEF Grown, Billed
  <2>9. TypeOK'
    BY <1>2, <1>4, <2>5, <2>7 DEF IInv, TypeOK, StampsIssued, Billed
  <2>10. ASSUME NEW i \in S
         PROVE  Row(i)'
    <3>1. /\ plan[i] # Null /\ item[i].state = "done" /\ Row(i) /\ Unbilled(i)
          /\ i \in raced \/ (~item[i].trashed /\ plan[i] = item[i].amount)
      BY <1>0, <1>1, <2>1, <2>10 DEF IInv, Reads, Believes, CountMatches
    <3>2. /\ item'[i].invoice = n /\ item'[i].state = "done"
          /\ item'[i].amount = item[i].amount /\ item'[i].trashed = item[i].trashed
          /\ \A m \in Invoices : invoice'[m].charged[i] = IF m = n THEN plan[i] ELSE invoice[m].charged[i]
      BY <2>5, <2>10, <3>1 DEF Billed
    <3> QED BY <1>4, <2>7, <3>1, <3>2 DEF Row, Charged, Unbilled, Live
  <2>11. ASSUME NEW i \in Items \ S
         PROVE  item'[i] = item[i] /\ \A m \in Invoices : invoice'[m].charged[i] = invoice[m].charged[i]
    BY <1>0, <2>5, <2>11 DEF Billed
  <2> QED BY <1>2, <1>3, <2>7, <2>8, <2>9, <2>10, <2>11, Frame
<1> QED BY <1>5, <1>6

\* A retainer's run stamps the pool as it is by then, uncounted: what was not in the sum is pooled.
LEMMA CommitRetainerStep ==
  ASSUME IInv, NEW r \in Requests, NEW n \in Invoices, NEW status \in {"draft", "sent"},
         CommitRetainer(r, n, status)
  PROVE  IInv'
<1>0. PICK S \in SUBSET Items, plan \in Charges : S = Pool /\ plan = request[r].plan
  BY DEF IInv, TypeOK, Request, Pool, Items
<1> DEFINE row  == [invoice[n] EXCEPT !.status = status, !.charged = Charge(n, plan)]
<1>1. /\ request[r] \in Request /\ At(r, "summed")
      /\ S \subseteq TimeEntries /\ CountMatches(S) /\ \A i \in S : Unbilled(i) /\ Live(i)
  BY <1>0 DEF CommitRetainer, IInv, TypeOK, Pool, CountMatches
<1>2. /\ request' \in [Requests -> Request] /\ request'[r] = Idle /\ Reads(r)'
      /\ \A q \in Requests : q # r => request'[q] = request[q]
  BY Returned DEF CommitRetainer, IInv
<1>3. OneRun' /\ Idle.pc = "idle"
  BY <1>2, NoRun DEF Idle
<1>4. /\ invoice' = [invoice EXCEPT ![n].status = status, ![n].charged = Charge(n, plan)]
      /\ item' = Stamped(S, n) /\ UNCHANGED <<dropped, edits>>
      /\ raced' = raced \cup {i \in S : \E q \in Requests \ {r} : request[q].item = i \/ i \in Planned(q)}
      /\ pooled' = pooled \cup {e \in S : item[e].state = "running"}
  BY <1>0 DEF CommitRetainer, Generated
<1>5. invoice[n] \in Invoice /\ Charge(n, plan) \in Charges
  BY ChargeLines DEF IInv, TypeOK
<1>6. invoice' = [invoice EXCEPT ![n] = row]
  BY <1>4, <1>5 DEF IInv, TypeOK, Invoice
<1>7. row \in Invoice /\ row.status = status /\ row.charged = Charge(n, plan)
  <2> DEFINE charged == Charge(n, plan)
  <2>1. charged \in Charges
    BY <1>5
  <2> HIDE DEF charged
  <2> QED BY <1>5, <2>1 DEF Invoice
<1> HIDE DEF row
<1>8. StampsIssued' /\ Billed(n, S, plan)
  BY <1>1, <1>4, <1>6, <1>7, BillingTypes
<1>9. raced \subseteq raced' /\ raced' \subseteq Items /\ pooled \subseteq pooled' /\ pooled' \subseteq Items
  BY <1>1, <1>4 DEF IInv, TypeOK
<1>10. Marked
  <2> SUFFICES ASSUME NEW i \in S, NEW q \in Requests, request'[q] = request[q]
               PROVE  /\ request[q].item = i \/ request[q].plan[i] # Null => i \in raced'
                      /\ ~At(q, "summed")
    BY <1>8 DEF Marked, Billed
  <2>1. q # r
    BY <1>1, <1>2, <1>3 DEF At
  <2> QED BY <1>1, <1>4, <2>1 DEF Planned, IInv, OneRun
<1>11. Grown
  BY <1>4, <1>8, <1>9 DEF Grown, Billed
<1>12. TypeOK'
  BY <1>2, <1>4, <1>8, <1>9 DEF IInv, TypeOK, StampsIssued, Billed
<1>13. ASSUME NEW i \in Items
       PROVE  Believes(r, i) /\ Row(i)
  BY DEF IInv, Reads
<1>14. ASSUME NEW i \in S
       PROVE  Row(i)'
  <2>1. Row(i) /\ Unbilled(i) /\ item[i].state # "none" /\ ~item[i].trashed /\ i \in TimeEntries
    BY <1>1, <1>13, <1>14 DEF Live
  <2>2. /\ item'[i].invoice = n /\ item'[i].state = item[i].state
        /\ item'[i].amount = item[i].amount /\ item'[i].trashed = item[i].trashed
        /\ \A m \in Invoices : m # n => invoice'[m].charged[i] = invoice[m].charged[i]
    BY <1>1, <1>8, <1>14 DEF Billed
  <2>3. i \notin pooled' => item[i].state = "done"
    BY <1>4, <2>1 DEF IInv, TypeOK, Item, Items
  <2>4. i \notin pooled' => plan[i] # Null /\ plan[i] = item[i].amount
    BY <1>0, <1>1, <1>4, <1>13, <1>14, <2>1, <2>3 DEF Believes
  <2>5. i \notin pooled' => invoice'[n].charged[i] # Null /\ invoice'[n].charged[i] = item[i].amount
    BY <1>1, <1>8, <2>4 DEF Billed
  <2> QED BY <1>1, <1>4, <1>9, <2>1, <2>2, <2>3, <2>5 DEF Row, Charged, Unbilled, Live
<1>15. ASSUME NEW i \in Items \ S
       PROVE  \/ item'[i] = item[i] /\ \A m \in Invoices : invoice'[m].charged[i] = invoice[m].charged[i]
              \/ Row(i)'
  <2>1. CASE plan[i] = Null
    BY <1>8, <1>15, <2>1 DEF Billed
  <2>2. CASE plan[i] # Null
    <3>1. i \in pooled
      BY <1>0, <1>1, <1>13, <1>15, <2>2 DEF Believes, Items
    <3> QED BY <1>8, <1>9, <1>13, <3>1 DEF Row, Unbilled, Billed
  <2> QED BY <2>1, <2>2
<1> QED BY <1>2, <1>3, <1>10, <1>11, <1>12, <1>14, <1>15, Frame

-----------------------------------------------------------------------------
\* The theorems.

LEMMA InitInv == Init => IInv
<1> SUFFICES ASSUME Init PROVE IInv
  OBVIOUS
<1>1. NoItem \in Item /\ NoInvoice \in Invoice /\ Idle \in Request
  <2>1. Nothing \in Charges
    BY DEF Nothing, Charges
  <2>2. NoItem \in Item
    BY DEF Item, NoItem, Amounts
  <2>3. NoInvoice \in Invoice
    BY <2>1 DEF Invoice, NoInvoice
  <2>4. Idle \in Request
    BY <2>1 DEF Request, Idle
  <2> QED BY <2>2, <2>3, <2>4
<1>2. TypeOK
  BY <1>1 DEF Init, TypeOK, NoItem
<1>3. \A r \in Requests : Reads(r) /\ ~At(r, "summed")
  BY DEF Init, Reads, Believes, At, Idle
<1>4. \A i \in Items : Row(i)
  BY DEF Init, Row, Charged, Unbilled, NoItem, NoInvoice, Nothing
<1> QED BY <1>2, <1>3, <1>4 DEF IInv, OneRun

LEMMA StepInv ==
  ASSUME IInv, [Next]_vars
  PROVE  IInv'
<1>1. CASE WorkStep
  BY <1>1, WorkStepInv
<1>2. CASE BillingStep
  BY <1>2, ConfirmPlanStep, SumRetainerStep, ReadProposalStep, CommitBillingStep, InvoiceProposalStep,
     CommitRetainerStep, SendInvoiceStep, TrashInvoiceStep, PurgeInvoiceStep, UpdateInvoiceStep
     DEF BillingStep
<1>3. CASE UNCHANGED vars
  <2>1. TypeOK' /\ Marked /\ Grown /\ OneRun'
    BY <1>3, NoRun DEF vars, history, IInv, TypeOK, Marked, Grown, Issued
  <2> QED BY <1>3, <2>1, Frame DEF vars
<1> QED BY <1>1, <1>2, <1>3 DEF Next

\* Every part of the invariant holds of every state.
THEOREM Inductive == Spec => []IInv
BY InitInv, StepInv, PTL DEF Spec

\* The rows and the requests keep their types, and no stamp names an invoice that is not there (the
\* foreign key of invoiced_in_id).
THEOREM TypeCorrect == Spec => []TypeOK
<1>1. IInv => TypeOK
  BY DEF IInv
<1> QED BY <1>1, Inductive, PTL

\* No work is billed twice, by two conversions at once or after its invoice went to the trash
\* (stampBilled counts the rows it stamps).
THEOREM NothingBilledTwice == Spec => []BilledOnce
<1>1. ASSUME IInv, NEW i \in Items \ pooled
      PROVE  Cardinality({n \in Invoices : invoice[n].charged[i] # Null}) <= 1
  <2> DEFINE on == {n \in Invoices : invoice[n].charged[i] # Null}
  <2>0. Row(i)
    BY <1>1 DEF IInv
  <2>1. \A n \in on : item[i].invoice = n
    BY <1>1, <2>0 DEF Row, Charged
  <2> SUFFICES Cardinality(on) <= 1
    OBVIOUS
  <2> HIDE DEF on
  <2>2. CASE on = {}
    BY <2>2, FS_EmptySet
  <2>3. CASE on # {}
    <3>1. PICK n \in on : TRUE
      BY <2>3
    <3>2. on = {n}
      BY <2>1, <3>1
    <3> QED BY <3>2, FS_Singleton
  <2> QED BY <2>2, <2>3
<1>2. IInv => BilledOnce
  BY <1>1 DEF BilledOnce
<1> QED BY <1>2, Inductive, PTL

\* What carries the stamp of an invoice is on that invoice, and the other way round (the stamp and
\* the lines are written in one transaction).
THEOREM StampsAndLinesAgree == Spec => []StampedWhereCharged
<1>1. IInv => StampedWhereCharged
  BY DEF IInv, Row, Charged, StampedWhereCharged
<1> QED BY <1>1, Inductive, PTL

\* What was billed stays, at the amount it was billed at, unless a change and a billing of the same
\* work were under way at once (updateTimeEntry and updateExpense refuse what is billed).
THEOREM BilledWorkStays == Spec => []BilledWorkIsFrozen
<1>1. ASSUME IInv PROVE BilledWorkIsFrozen
  <2> SUFFICES ASSUME NEW i \in Items \ (raced \cup pooled \cup dropped), item[i].invoice # Null
               PROVE  Live(i) /\ invoice[item[i].invoice].charged[i] = item[i].amount
    BY DEF BilledWorkIsFrozen
  <2>1. item[i].invoice \in Invoices
    BY <1>1 DEF IInv, TypeOK, Item
  <2> QED BY <1>1, <2>1 DEF IInv, Row
<1> QED BY <1>1, Inductive, PTL
=============================================================================
