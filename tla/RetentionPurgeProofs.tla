------------------------ MODULE RetentionPurgeProofs ------------------------
(***************************************************************************)
(* Proofs about RetentionPurge, for any files, workers, requests and       *)
(* bounds: its types, that rows and objects agree, and that a purge takes  *)
(* only what is due.                                                       *)
(*                                                                         *)
(* The argument is about two kinds of memory.  A file on its way in is     *)
(* known to nobody but the handler that brings it, so that no erasure and  *)
(* no drain can reach it before its row is there.  And an open erasure     *)
(* sees old rows, but whatever changed since its snapshot is in written,   *)
(* so that the rows it deletes are still what it saw, and a name it did    *)
(* not see is that of a file it does not know or of a block saved since.   *)
(***************************************************************************)
EXTENDS RetentionPurge, SequenceTheorems, FiniteSetTheorems, TLAPS

Bringing(p) == process[p].pc \in {"storing", "recording", "linking", "attaching"}
Holding(p)  == Bringing(p) \/ process[p].pc \in {"removing", "dropping", "editing", "saving"}
Draining(p) == process[p].pc \in {"deleting", "dequeuing"}
Opened(p)   == process[p].pc \in {"editing", "saving"}

\* What a handler that is this far has in hand.
Reads(p) ==
  /\ Holding(p) => process[p].file \in Files
  /\ Opened(p) => process[p].on \in Blocks /\ process[p].file \in Images
  /\ At(p, "saving") => process[p].on = "template"
  /\ At(p, "erasing") => process[p].snap \in [Records -> SUBSET Files]
  /\ Draining(p) => process[p].todo # <<>> /\ process[p].failed < FailureLimit
  /\ p \in Workers => process[p].pc \in {"idle", "storing", "recording", "linking", "erasing", "deleting", "dequeuing"}
  /\ p \in Requests => ~(process[p].pc \in {"storing", "recording", "linking"})

TypeInv == TypeOK /\ \A p \in Processes : Reads(p)

\* Images are named by blocks only, and an attachment is no PDF.
KindsInv ==
  /\ \A b \in Blocks : record[b].files \subseteq Images
  /\ record["client"].files \cap record["invoice"].files = {}

\* What rows, queues, drains and erasures remember of files.
Known(f) ==
  \/ \E r \in Records : f \in record[r].files
  \/ f \in untried \/ f \in Range(tried)
  \/ \E p \in Processes : \/ f \in Range(process[p].todo)
                          \/ At(p, "erasing") /\ \E r \in Records : f \in process[p].snap[r]

\* A file on its way in is known to its handler alone.
BringingInv ==
  \A p \in Processes : Bringing(p) =>
    /\ ~Known(process[p].file)
    /\ \A q \in Processes : q # p => process[q].file # process[p].file

\* The row of a file and its object, as a handler needs them for its next step.
Hands(p) ==
  /\ At(p, "recording") \/ At(p, "attaching") => process[p].file \in store
  /\ At(p, "linking") => process[p].file \in uploads
  /\ At(p, "removing") => process[p].file \notin Images \cup record["invoice"].files
  /\ At(p, "dropping") => process[p].file \notin uploads
  /\ Opened(p) => process[p].file \in uploads \cup unguarded
  /\ Draining(p) => Range(process[p].todo) \cap uploads = {}
  /\ At(p, "dequeuing") => Head(process[p].todo) \notin store

HandsInv == \A p \in Processes : Hands(p)

\* The names that an open erasure sees: all there are in the rows not written since, and in a client or
\* an invoice whatever was added since is a file it does not know.
Sees(p) ==
  /\ \A r \in Records \ written[p] : record[r].files \subseteq process[p].snap[r]
  /\ \A r \in Records \ Blocks, x \in Records :
       record[r].files \cap process[p].snap[x] \subseteq process[p].snap[r]

\* The rows an open erasure will delete, unless it is refused, are still what made it choose them.
Chosen(p) == process[p].doomed \ written[p]
Chose(p) ==
  /\ p \in Workers => \A r \in Chosen(p) : record[r].state = "due"
  /\ p \in Requests => "template" \notin process[p].doomed
  /\ "contract" \in Chosen(p) => ~signed
  /\ "client" \in Chosen(p) => \A d \in Documents \ process[p].doomed : ~Exists(d)

ErasureInv == \A p \in Processes : At(p, "erasing") => Sees(p) /\ Chose(p)

IInv == TypeInv /\ KindsInv /\ BringingInv /\ HandsInv /\ ErasureInv /\ FilesMatchRows

-----------------------------------------------------------------------------
\* Sequences.

\* Taking an element out of a sequence without repetitions takes out that element and nothing else.
LEMMA RemoveFirstProperties ==
  ASSUME NEW S, NEW s \in Seq(S), IsInjective(s), NEW e
  PROVE  /\ RemoveFirst(s, e) \in Seq(S)
         /\ IsInjective(RemoveFirst(s, e))
         /\ Range(RemoveFirst(s, e)) = Range(s) \ {e}
<1>1. Len(s) \in Nat /\ DOMAIN s = 1..Len(s) /\ \A i \in 1..Len(s) : s[i] \in S
  BY LenProperties, ElementOfSeq
<1>2. Range(s) = {s[i] : i \in 1..Len(s)}
  BY RangeEquality
<1>3. CASE ~\E i \in 1..Len(s) : s[i] = e
  BY <1>2, <1>3 DEF RemoveFirst
<1>4. CASE \E i \in 1..Len(s) : s[i] = e
  <2>1. PICK k \in 1..Len(s) : s[k] = e
    BY <1>4
  <2>2. \A i \in 1..Len(s) : s[i] = e <=> i = k
    BY <1>1, <2>1 DEF IsInjective
  <2>3. {i \in 1..Len(s) : s[i] = e} = {k}
    BY <2>2
  <2>4. Min({k}) = k
    BY <1>1, <2>1 DEF Min
  <2>5. SelectInSeq(s, LAMBDA v : v = e) = k
    BY <2>3, <2>4 DEF SelectInSeq
  <2> DEFINE before == SubSeq(s, 1, k - 1)
             after  == SubSeq(s, k + 1, Len(s))
  <2>6. RemoveFirst(s, e) = before \o after
    BY <1>4, <2>5 DEF RemoveFirst, RemoveAt
  <2>7. /\ before \in Seq(S) /\ Len(before) = k - 1
        /\ \A i \in 1..k - 1 : before[i] = s[i]
    BY <1>1, <2>1, SubSeqProperties
  <2>8. /\ after \in Seq(S) /\ Len(after) = Len(s) - k
        /\ \A i \in 1..Len(s) - k : after[i] = s[i + k]
    <3>1. k + 1 \in Int /\ Len(s) \in Int /\ \A i \in k + 1..Len(s) : s[i] \in S
      BY <1>1, <2>1
    <3>2. /\ after \in Seq(S)
          /\ Len(after) = IF k + 1 <= Len(s) THEN Len(s) - (k + 1) + 1 ELSE 0
          /\ \A i \in 1..Len(s) - (k + 1) + 1 : after[i] = s[k + 1 + i - 1]
      BY <3>1, SubSeqProperties
    <3> HIDE DEF after
    <3>3. Len(after) = Len(s) - k
      <4>1. Len(s) \in Nat /\ k \in Nat /\ k <= Len(s)
        BY <1>1, <2>1
      <4>2. (IF k + 1 <= Len(s) THEN Len(s) - (k + 1) + 1 ELSE 0) = Len(s) - k
        BY <4>1
      <4> QED BY <3>2, <4>2
    <3>4. \A i \in 1..Len(s) - k : after[i] = s[i + k]
      <4>1. ASSUME NEW i \in 1..Len(s) - k PROVE after[i] = s[i + k]
        <5>1. i \in 1..Len(s) - (k + 1) + 1 /\ k + 1 + i - 1 = i + k
          BY <1>1, <2>1
        <5> QED BY <3>2, <5>1
      <4> QED BY <4>1
    <3> QED BY <3>2, <3>3, <3>4
  <2> HIDE DEF before, after
  <2> DEFINE t == before \o after
  <2>9. /\ t \in Seq(S) /\ Len(t) = Len(s) - 1
        /\ \A i \in 1..Len(s) - 1 : t[i] = IF i < k THEN s[i] ELSE s[i + 1]
    <3>1. /\ t \in Seq(S) /\ Len(t) = Len(before) + Len(after)
          /\ \A i \in 1..Len(before) + Len(after) :
               t[i] = IF i <= Len(before) THEN before[i] ELSE after[i - Len(before)]
      BY <2>7, <2>8, ConcatProperties
    <3> HIDE DEF t
    <3>2. Len(t) = Len(s) - 1
      BY <1>1, <2>1, <2>7, <2>8, <3>1
    <3>3. \A i \in 1..Len(s) - 1 : t[i] = IF i < k THEN s[i] ELSE s[i + 1]
      <4>1. ASSUME NEW i \in 1..Len(s) - 1 PROVE t[i] = IF i < k THEN s[i] ELSE s[i + 1]
        <5>1. /\ Len(s) \in Nat /\ k \in Nat /\ 1 <= k /\ k <= Len(s)
              /\ i \in Nat /\ 1 <= i /\ i <= Len(s) - 1
          BY <1>1, <2>1
        <5>2. i \in 1..Len(before) + Len(after)
          BY <2>7, <2>8, <5>1
        <5>3. t[i] = IF i <= Len(before) THEN before[i] ELSE after[i - Len(before)]
          BY <3>1, <5>2
        <5>4. CASE i < k
          <6>1. i <= Len(before) /\ i \in 1..k - 1
            BY <2>7, <5>1, <5>4
          <6> QED BY <2>7, <5>3, <5>4, <6>1
        <5>5. CASE ~(i < k)
          <6>1. ~(i <= Len(before)) /\ i - Len(before) \in 1..Len(s) - k /\ i - Len(before) + k = i + 1
            BY <2>7, <5>1, <5>5
          <6>2. after[i - Len(before)] = s[i - Len(before) + k]
            BY <2>8, <6>1
          <6> QED BY <5>3, <5>5, <6>1, <6>2
        <5> QED BY <5>4, <5>5
      <4> QED BY <4>1
    <3> QED BY <3>1, <3>2, <3>3
  <2> HIDE DEF t
  <2>10. DOMAIN t = 1..Len(s) - 1 /\ Range(t) = {t[i] : i \in 1..Len(s) - 1}
    BY <2>9, LenProperties, RangeEquality
  <2>11. IsInjective(t)
    <3>1. ASSUME NEW i \in 1..Len(s) - 1
          PROVE  \E j \in 1..Len(s) : t[i] = s[j] /\ j = IF i < k THEN i ELSE i + 1
      BY <1>1, <2>1, <2>9, <3>1
    <3>2. ASSUME NEW i \in 1..Len(s) - 1, NEW j \in 1..Len(s) - 1, t[i] = t[j] PROVE i = j
      <4>1. PICK m \in 1..Len(s) : t[i] = s[m] /\ m = IF i < k THEN i ELSE i + 1
        BY <3>1
      <4>2. PICK n \in 1..Len(s) : t[j] = s[n] /\ n = IF j < k THEN j ELSE j + 1
        BY <3>1
      <4>3. m = n
        BY <1>1, <3>2, <4>1, <4>2 DEF IsInjective
      <4>4. i \in Int /\ j \in Int /\ k \in Int
        BY <1>1, <2>1
      <4> QED BY <4>1, <4>2, <4>3, <4>4
    <3> QED BY <2>10, <3>2 DEF IsInjective
  <2>12. Range(t) \subseteq Range(s) \ {e}
    <3>1. \A i \in 1..Len(s) - 1 : t[i] \in {s[j] : j \in 1..Len(s)} /\ t[i] # e
      BY <1>1, <2>1, <2>2, <2>9
    <3> QED BY <1>2, <2>10, <3>1
  <2>13. Range(s) \ {e} \subseteq Range(t)
    <3>1. \A i \in 1..Len(s) : i < k => s[i] = t[i] /\ i \in 1..Len(s) - 1
      BY <1>1, <2>1, <2>9
    <3>2. \A i \in 1..Len(s) : i > k => s[i] = t[i - 1] /\ i - 1 \in 1..Len(s) - 1
      BY <1>1, <2>1, <2>9
    <3>3. \A i \in 1..Len(s) : i # k => \E j \in 1..Len(s) - 1 : s[i] = t[j]
      BY <1>1, <2>1, <3>1, <3>2
    <3> QED BY <1>2, <2>1, <2>10, <3>3
  <2> QED BY <2>6, <2>9, <2>11, <2>12, <2>13 DEF t
<1> QED BY <1>3, <1>4

\* One more at the end.
LEMMA AppendRange ==
  ASSUME NEW S, NEW s \in Seq(S), IsInjective(s), NEW e \in S, e \notin Range(s)
  PROVE  /\ Append(s, e) \in Seq(S)
         /\ IsInjective(Append(s, e))
         /\ Range(Append(s, e)) = Range(s) \cup {e}
<1> DEFINE t == Append(s, e)
<1>1. Len(s) \in Nat /\ DOMAIN s = 1..Len(s) /\ Range(s) = {s[i] : i \in 1..Len(s)}
  BY LenProperties, RangeEquality
<1>2. /\ t \in Seq(S) /\ Len(t) = Len(s) + 1 /\ t[Len(s) + 1] = e
      /\ \A i \in 1..Len(s) : t[i] = s[i]
  BY AppendProperties
<1> HIDE DEF t
<1>3. DOMAIN t = 1..Len(s) + 1 /\ Range(t) = {t[i] : i \in 1..Len(s) + 1}
  BY <1>2, LenProperties, RangeEquality
<1>4. IsInjective(t)
  BY <1>1, <1>2, <1>3 DEF IsInjective
<1>5. Range(t) = Range(s) \cup {e}
  BY <1>1, <1>2, <1>3
<1> QED BY <1>2, <1>4, <1>5 DEF t

\* The rest of a queue.
LEMMA TailRange ==
  ASSUME NEW S, NEW s \in Seq(S), s # <<>>
  PROVE  /\ Head(s) \in Range(s)
         /\ Tail(s) \in Seq(S) /\ Range(Tail(s)) \subseteq Range(s)
         /\ Len(s) # 1 => Tail(s) # <<>>
<1>1. Len(s) \in Nat \ {0} /\ Range(s) = {s[i] : i \in 1..Len(s)}
  BY EmptySeq, RangeEquality
<1>2. /\ Tail(s) \in Seq(S) /\ Len(Tail(s)) = Len(s) - 1
      /\ \A i \in 1..Len(s) - 1 : Tail(s)[i] = s[i + 1]
  BY HeadTailProperties
<1>3. Range(Tail(s)) = {Tail(s)[i] : i \in 1..Len(s) - 1}
  BY <1>2, RangeEquality
<1>4. \A i \in 1..Len(s) - 1 : Tail(s)[i] \in {s[j] : j \in 1..Len(s)}
  BY <1>1, <1>2
<1>5. Head(s) = s[1]
  BY <1>1
<1>6. Len(s) # 1 => Tail(s) # <<>>
  <2>1. ASSUME Tail(s) = <<>> PROVE Len(s) = 1
    <3>1. Len(s) - 1 = 0
      BY <1>2, <2>1, EmptySeq
    <3> QED BY <1>1, <3>1
  <2> QED BY <2>1
<1> QED BY <1>1, <1>2, <1>3, <1>4, <1>5, <1>6

\* The elements of a finite set in some order.
LEMMA InSomeOrder ==
  ASSUME NEW S, IsFiniteSet(S), NEW s \in SetToSeqs(S)
  PROVE  s \in Seq(S) /\ Range(s) \subseteq S /\ (S # {} => s # <<>>)
<1>1. Cardinality(S) \in Nat /\ (S # {} => Cardinality(S) # 0)
  BY FS_CardinalityType, FS_EmptySet
<1>2. s \in [1..Cardinality(S) -> S]
  BY DEF SetToSeqs
<1>3. s \in Seq(S)
  BY <1>1, <1>2, SeqDef
<1>4. Range(s) \subseteq S
  BY <1>3, RangeOfSeq
<1>5. S # {} => s # <<>>
  <2>1. ASSUME s = <<>> PROVE S = {}
    <3>1. Len(s) = 0 /\ DOMAIN s = 1..Len(s)
      BY <1>3, <2>1, EmptySeq, LenProperties
    <3>2. DOMAIN s = 1..Cardinality(S)
      BY <1>2
    <3> QED BY <1>1, <3>1, <3>2
  <2> QED BY <2>1
<1> QED BY <1>3, <1>4, <1>5

-----------------------------------------------------------------------------
\* Types.

USE PurgeAssumption

LEMMA Becomes ==
  ASSUME process \in [Processes -> Process], NEW p \in Processes, NEW next \in Process, Become(p, next)
  PROVE  /\ process' \in [Processes -> Process]
         /\ process'[p] = next
         /\ \A q \in Processes \ {p} : process'[q] = process[q]
BY DEF Become

Pcs == {"idle", "storing", "recording", "linking", "attaching", "removing", "dropping",
        "editing", "saving", "erasing", "deleting", "dequeuing"}

\* A field of a handler's record is set.
LEMMA FieldTypes ==
  ASSUME NEW row \in Process
  PROVE  /\ \A pc \in Pcs : [row EXCEPT !.pc = pc] \in Process
         /\ \A b \in Blocks : [row EXCEPT !.on = b] \in Process
         /\ \A f \in Files : [row EXCEPT !.file = f] \in Process
         /\ \A snap \in [Records -> SUBSET Files] : [row EXCEPT !.snap = snap] \in Process
         /\ \A doomed \in SUBSET Records : [row EXCEPT !.doomed = doomed] \in Process
         /\ \A s \in Seq(Files) : [row EXCEPT !.todo = s] \in Process
         /\ \A n \in 0..FailureLimit : [row EXCEPT !.failed = n] \in Process
BY DEF Process, Pcs

LEMMA IdleType == Idle \in Process
<1>1. <<>> \in Seq(Files)
  BY EmptySeq
<1> QED BY <1>1 DEF Idle, Process

\* The records of a handler that begins or goes on.
WithFile(pc, f)            == [Idle EXCEPT !.pc = pc, !.file = f]
WithForm(b, f)             == [Idle EXCEPT !.pc = "editing", !.on = b, !.file = f]
WithSnapshot(doomed, snap) == [Idle EXCEPT !.pc = "erasing", !.doomed = doomed, !.snap = snap]
WithQueue(s)               == [Idle EXCEPT !.pc = "deleting", !.todo = s]
GoingOn(row, pc)           == [row EXCEPT !.pc = pc]
NextKey(row, n)            == [row EXCEPT !.pc = "deleting", !.todo = Tail(@), !.failed = n]

LEMMA BeginWithFile ==
  ASSUME NEW pc \in Pcs, NEW f \in Files
  PROVE  LET next == WithFile(pc, f)
         IN  next \in Process /\ next.pc = pc /\ next.file = f /\ next.todo = <<>>
<1> DEFINE next == WithFile(pc, f)
           one == [Idle EXCEPT !.pc = pc]
<1>1. one \in Process
  BY IdleType, FieldTypes
<1>2. one.pc = pc /\ one.todo = <<>>
  BY DEF Idle
<1> HIDE DEF one
<1>3. next = [one EXCEPT !.file = f]
  BY DEF one, WithFile
<1> HIDE DEF next
<1>4. next.pc = pc /\ next.file = f /\ next.todo = <<>>
  BY <1>1, <1>2, <1>3 DEF Process
<1>5. [one EXCEPT !.file = f] \in Process
  BY <1>1, FieldTypes
<1> QED BY <1>3, <1>4, <1>5 DEF next

LEMMA BeginWithForm ==
  ASSUME NEW b \in Blocks, NEW f \in Files
  PROVE  LET next == WithForm(b, f)
         IN  next \in Process /\ next.pc = "editing" /\ next.on = b /\ next.file = f /\ next.todo = <<>>
<1> DEFINE next == WithForm(b, f)
           one == [Idle EXCEPT !.pc = "editing"]
           two == [one EXCEPT !.on = b]
<1>1. one \in Process
  BY IdleType, FieldTypes DEF Pcs
<1>2. one.pc = "editing" /\ one.todo = <<>>
  BY DEF Idle
<1> HIDE DEF one
<1>3. two \in Process
  BY <1>1, FieldTypes
<1>4. two.pc = "editing" /\ two.on = b /\ two.todo = <<>>
  BY <1>1, <1>2 DEF Process
<1> HIDE DEF two
<1>5. next = [two EXCEPT !.file = f]
  BY DEF one, two, WithForm
<1> HIDE DEF next
<1>6. next.pc = "editing" /\ next.on = b /\ next.file = f /\ next.todo = <<>>
  BY <1>3, <1>4, <1>5 DEF Process
<1>7. [two EXCEPT !.file = f] \in Process
  BY <1>3, FieldTypes
<1> QED BY <1>5, <1>6, <1>7 DEF next

LEMMA BeginWithSnapshot ==
  ASSUME NEW doomed \in SUBSET Records, NEW snap \in [Records -> SUBSET Files]
  PROVE  LET next == WithSnapshot(doomed, snap)
         IN  /\ next \in Process /\ next.pc = "erasing" /\ next.file = Null /\ next.todo = <<>>
             /\ next.doomed = doomed /\ next.snap = snap
<1> DEFINE next == WithSnapshot(doomed, snap)
           one == [Idle EXCEPT !.pc = "erasing"]
           two == [one EXCEPT !.doomed = doomed]
<1>1. one \in Process
  BY IdleType, FieldTypes DEF Pcs
<1>2. one.pc = "erasing" /\ one.file = Null /\ one.todo = <<>>
  BY DEF Idle
<1> HIDE DEF one
<1>3. two \in Process
  BY <1>1, FieldTypes
<1>4. two.pc = "erasing" /\ two.file = Null /\ two.todo = <<>> /\ two.doomed = doomed
  BY <1>1, <1>2 DEF Process
<1> HIDE DEF two
<1>5. next = [two EXCEPT !.snap = snap]
  BY DEF one, two, WithSnapshot
<1> HIDE DEF next
<1>6. /\ next.pc = "erasing" /\ next.file = Null /\ next.todo = <<>>
      /\ next.doomed = doomed /\ next.snap = snap
  BY <1>3, <1>4, <1>5 DEF Process
<1>7. [two EXCEPT !.snap = snap] \in Process
  BY <1>3, FieldTypes
<1> QED BY <1>5, <1>6, <1>7 DEF next

LEMMA BeginWithQueue ==
  ASSUME NEW s \in Seq(Files)
  PROVE  LET next == WithQueue(s)
         IN  /\ next \in Process /\ next.pc = "deleting" /\ next.file = Null
             /\ next.todo = s /\ next.failed = 0
<1> DEFINE next == WithQueue(s)
           one == [Idle EXCEPT !.pc = "deleting"]
<1>1. one \in Process
  BY IdleType, FieldTypes DEF Pcs
<1>2. one.pc = "deleting" /\ one.file = Null /\ one.failed = 0
  BY DEF Idle
<1> HIDE DEF one
<1>3. next = [one EXCEPT !.todo = s]
  BY DEF one, WithQueue
<1> HIDE DEF next
<1>4. next.pc = "deleting" /\ next.file = Null /\ next.todo = s /\ next.failed = 0
  BY <1>1, <1>2, <1>3 DEF Process
<1>5. [one EXCEPT !.todo = s] \in Process
  BY <1>1, FieldTypes
<1> QED BY <1>3, <1>4, <1>5 DEF next

LEMMA GoOn ==
  ASSUME NEW row \in Process, NEW pc \in Pcs
  PROVE  LET next == GoingOn(row, pc)
         IN  /\ next \in Process /\ next.pc = pc /\ next.on = row.on /\ next.file = row.file
             /\ next.todo = row.todo /\ next.failed = row.failed
<1> DEFINE next == GoingOn(row, pc)
<1>1. /\ next.pc = pc /\ next.on = row.on /\ next.file = row.file
      /\ next.todo = row.todo /\ next.failed = row.failed
  BY DEF Process, GoingOn
<1>2. next \in Process
  BY FieldTypes DEF GoingOn
<1> QED BY <1>1, <1>2

LEMMA GoOnDraining ==
  ASSUME NEW row \in Process, row.todo # <<>>, NEW n \in 0..FailureLimit
  PROVE  LET next == NextKey(row, n)
         IN  /\ next \in Process /\ next.pc = "deleting" /\ next.file = row.file
             /\ next.todo = Tail(row.todo) /\ next.failed = n
<1> DEFINE next == NextKey(row, n)
           one == [row EXCEPT !.pc = "deleting"]
           two == [one EXCEPT !.todo = Tail(row.todo)]
<1>1. Tail(row.todo) \in Seq(Files)
  BY TailRange DEF Process
<1>2. one \in Process
  BY FieldTypes DEF Pcs
<1>3. one.pc = "deleting" /\ one.file = row.file /\ one.todo = row.todo
  BY DEF Process
<1>4. next = [[one EXCEPT !.todo = Tail(row.todo)] EXCEPT !.failed = n]
  BY <1>3 DEF NextKey
<1> HIDE DEF one, next
<1>5. two \in Process
  BY <1>1, <1>2, FieldTypes
<1>6. two.pc = "deleting" /\ two.file = row.file /\ two.todo = Tail(row.todo)
  BY <1>2, <1>3 DEF Process
<1>7. next = [two EXCEPT !.failed = n]
  BY <1>4
<1> HIDE DEF two
<1>8. /\ next.pc = "deleting" /\ next.file = row.file
      /\ next.todo = Tail(row.todo) /\ next.failed = n
  BY <1>5, <1>6, <1>7 DEF Process
<1>9. [two EXCEPT !.failed = n] \in Process
  BY <1>5, FieldTypes
<1> QED BY <1>7, <1>8, <1>9 DEF next

LEMMA RecordReplaced ==
  ASSUME record \in [Records -> Record], NEW r \in Records, NEW row \in Record,
         record' = [record EXCEPT ![r] = row]
  PROVE  /\ record' \in [Records -> Record]
         /\ record'[r] = row
         /\ \A x \in Records \ {r} : record'[x] = record[x]
OBVIOUS

LEMMA WroteNothing ==
  ASSUME written \in [Processes -> SUBSET Records], NEW p
  PROVE  /\ Wrote({}, {p}) \in [Processes -> SUBSET Records]
         /\ \A q \in Processes \ {p} : At(q, "erasing") => Wrote({}, {p})[q] = written[q]
BY DEF Wrote

-----------------------------------------------------------------------------
\* What a step of p leaves alone.  (p = Null: a step that is of no handler.)

\* What changes in the rows is in written, for an erasure that q has open.
Noted(q) ==
  /\ written[q] \subseteq written'[q]
  /\ \A r \in Records \ written'[q] :
       /\ record'[r].files \subseteq record[r].files
       /\ record[r].state = "due" => record'[r].state = "due"
  /\ "client" \notin written'[q] => \A d \in Documents : Exists(d)' => Exists(d)
  /\ "contract" \notin written'[q] => (signed' => signed)

InHandOf(p, f) == p \in Processes /\ f = process[p].file

\* A file that comes in is one that p brings, or that nobody has ever used.
Incoming(p, f) == Fresh(f) \/ (InHandOf(p, f) /\ Bringing(p))

Leaves(p) ==
  /\ \A q \in Processes \ {p} :
       /\ process'[q] = process[q]
       /\ At(q, "erasing") => Noted(q)
       /\ Opened(q) => process[q].file \in uploads' \cup unguarded'
  /\ \A f : f \in uploads' \ uploads \/ f \in store' \ store => Incoming(p, f)
  /\ \A f : f \in uploads \ uploads' \/ f \in store \ store' => Known(f) \/ InHandOf(p, f)
  /\ \A r \in Records \ Blocks : \A f \in record'[r].files : f \in record[r].files \/ Incoming(p, f)
  /\ \A f : Known(f)' => Known(f) \/ InHandOf(p, f)

\* What the step of p leaves p with.
LeftWith(p) ==
  /\ Reads(p)' /\ Hands(p)'
  /\ At(p, "erasing")' => Sees(p)' /\ Chose(p)'
  /\ \/ process'[p].file \in {Null, process[p].file}
     \/ Fresh(process'[p].file)
     \/ Known(process'[p].file)
  /\ \A f : Bringing(p)' /\ f = process'[p].file => Incoming(p, f) /\ ~Known(f)'

LEMMA IncomingIsUnknown ==
  ASSUME BringingInv, NEW p, NEW f, Incoming(p, f)
  PROVE  ~Known(f) /\ \A q \in Processes \ {p} : process[q].file # f
<1>1. CASE Fresh(f)
  BY <1>1 DEF Fresh, Known, References
<1>2. CASE InHandOf(p, f) /\ Bringing(p)
  BY <1>2 DEF BringingInv, InHandOf
<1> QED BY <1>1, <1>2 DEF Incoming

LEMMA BringingLeft ==
  ASSUME TypeInv, BringingInv, NEW p, Leaves(p), p \in Processes => LeftWith(p)
  PROVE  BringingInv'
<1>1. ASSUME NEW q \in Processes, q # p, Bringing(q)'
      PROVE  (~Known(process[q].file))' /\ process'[q].file = process[q].file
             /\ ~Known(process[q].file) /\ process[q].file \in Files
             /\ \A o \in Processes : o # q => process[o].file # process[q].file
  <2>1. process'[q] = process[q] /\ Bringing(q)
    BY <1>1 DEF Leaves, Bringing
  <2>2. ~Known(process[q].file) /\ \A o \in Processes : o # q => process[o].file # process[q].file
    BY <2>1 DEF BringingInv
  <2>3. ~InHandOf(p, process[q].file)
    BY <1>1, <2>2 DEF InHandOf
  <2>4. process[q].file \in Files
    BY <2>1 DEF TypeInv, Reads, Holding
  <2>5. ~Known(process[q].file)'
    <3>1. \A g : Known(g)' => Known(g) \/ InHandOf(p, g)
      BY DEF Leaves
    <3> QED BY <2>1, <2>2, <2>3, <3>1 DEF Known
  <2> QED BY <2>1, <2>2, <2>4, <2>5 DEF Leaves
<1>2. ASSUME NEW q \in Processes, NEW o \in Processes, Bringing(q)', o # q, q # p, o # p
      PROVE  process'[o].file # process'[q].file
  BY <1>1, <1>2 DEF Leaves
<1>3. ASSUME NEW q \in Processes, Bringing(q)', q # p, p \in Processes
      PROVE  process'[p].file # process'[q].file
  <2>1. process'[q].file = process[q].file /\ ~Known(process[q].file) /\ process[q].file \in Files
        /\ process[p].file # process[q].file
    BY <1>1, <1>3
  <2>2. ~Fresh(process[q].file)
    BY DEF Fresh
  <2> QED BY <1>3, <2>1, <2>2 DEF LeftWith
<1>4. ASSUME p \in Processes, Bringing(p)', NEW o \in Processes, o # p
      PROVE  process'[o].file # process'[p].file
  <2>1. process'[o] = process[o]
    BY <1>4 DEF Leaves
  <2> QED BY <1>4, <2>1, IncomingIsUnknown DEF LeftWith
<1>5. ASSUME p \in Processes, Bringing(p)' PROVE (~Known(process[p].file))'
  BY <1>5 DEF LeftWith, Known
<1>6. SUFFICES ASSUME NEW q \in Processes, Bringing(q)'
               PROVE  /\ (~Known(process[q].file))'
                      /\ \A o \in Processes : o # q => process'[o].file # process'[q].file
  BY DEF BringingInv
<1> QED BY <1>1, <1>2, <1>3, <1>4, <1>5, <1>6

LEMMA HandsLeft ==
  ASSUME TypeInv, BringingInv, HandsInv, NEW p, Leaves(p), NEW q \in Processes \ {p}
  PROVE  Hands(q)'
<1>1. process'[q] = process[q] /\ Hands(q)
  BY DEF Leaves, HandsInv
<1>2. \A f : f \in uploads' \ uploads \/ f \in store' \ store => ~Known(f) /\ process[q].file # f
  BY IncomingIsUnknown DEF Leaves
<1>3. \A f \in record'["invoice"].files : f \in record["invoice"].files \/ process[q].file # f
  <2>1. "invoice" \in Records \ Blocks
    BY DEF Records, Documents, Blocks
  <2> QED BY <2>1, IncomingIsUnknown DEF Leaves
<1>4. Bringing(q) => process[q].file \notin uploads \ uploads' /\ process[q].file \notin store \ store'
  BY DEF Leaves, BringingInv, InHandOf
<1>5. At(q, "recording") \/ At(q, "attaching") => process[q].file \in store'
  BY <1>1, <1>4 DEF Hands, At, Bringing
<1>6. At(q, "linking") => process[q].file \in uploads'
  BY <1>1, <1>4 DEF Hands, At, Bringing
<1>7. At(q, "removing") => process[q].file \notin Images \cup record'["invoice"].files
  BY <1>1, <1>3 DEF Hands
<1>8. At(q, "dropping") => process[q].file \notin uploads'
  BY <1>1, <1>2 DEF Hands
<1>9. Opened(q) => process[q].file \in uploads' \cup unguarded'
  BY DEF Leaves
<1>10. Draining(q) => Range(process[q].todo) \cap uploads' = {}
  <2>1. \A f \in Range(process[q].todo) : Known(f)
    BY DEF Known
  <2> QED BY <1>1, <1>2, <2>1 DEF Hands
<1>11. At(q, "dequeuing") => Head(process[q].todo) \notin store'
  <2>1. ASSUME At(q, "dequeuing") PROVE Head(process[q].todo) \in Range(process[q].todo)
    <3>1. process[q].todo \in Seq(Files) /\ process[q].todo # <<>>
      BY <2>1 DEF TypeInv, TypeOK, Process, Reads, Draining, At
    <3> QED BY <3>1, TailRange
  <2>2. At(q, "dequeuing") => Known(Head(process[q].todo))
    BY <2>1 DEF Known
  <2> QED BY <1>1, <1>2, <2>2 DEF Hands
<1> QED BY <1>1, <1>5, <1>6, <1>7, <1>8, <1>9, <1>10, <1>11 DEF Hands, At, Opened, Draining

LEMMA SeesLeft ==
  ASSUME TypeInv, BringingInv, ErasureInv, NEW p, Leaves(p),
         NEW q \in Processes \ {p}, At(q, "erasing")
  PROVE  Sees(q)'
<1>1. process'[q] = process[q] /\ Sees(q) /\ Noted(q)
  BY DEF Leaves, ErasureInv
<1>2. \A r \in Records \ written'[q] : record'[r].files \subseteq process[q].snap[r]
  BY <1>1 DEF Sees, Noted
<1>3. ASSUME NEW r \in Records \ Blocks, NEW x \in Records,
             NEW f \in record'[r].files, f \in process[q].snap[x]
      PROVE  f \in process[q].snap[r]
  <2>1. Known(f)
    BY <1>3 DEF Known
  <2>2. f \in record[r].files
    BY <1>3, <2>1, IncomingIsUnknown DEF Leaves
  <2> QED BY <1>1, <1>3, <2>2 DEF Sees
<1> QED BY <1>1, <1>2, <1>3 DEF Sees

LEMMA ChoseLeft ==
  ASSUME TypeInv, ErasureInv, NEW p, Leaves(p), NEW q \in Processes \ {p}, At(q, "erasing")
  PROVE  Chose(q)'
<1>1. process'[q] = process[q] /\ Chose(q) /\ Noted(q)
  BY DEF Leaves, ErasureInv
<1>2. Chosen(q)' \subseteq Chosen(q) /\ Chosen(q)' \cap written'[q] = {}
  BY <1>1 DEF Chosen, Noted
<1>3. q \in Workers => \A r \in Chosen(q)' : record'[r].state = "due"
  <2>1. ASSUME q \in Workers, NEW r \in Chosen(q)' PROVE record'[r].state = "due"
    <3>1. record[r].state = "due" /\ r \notin written'[q]
      BY <1>1, <1>2, <2>1 DEF Chose
    <3>2. r \in Records
      BY <1>2 DEF TypeInv, TypeOK, Process, Chosen
    <3> QED BY <1>1, <3>1, <3>2 DEF Noted
  <2> QED BY <2>1
<1>4. "contract" \in Chosen(q)' => ~signed'
  BY <1>1, <1>2 DEF Chose, Noted
<1>5. "client" \in Chosen(q)' => \A d \in Documents \ process[q].doomed : ~Exists(d)'
  BY <1>1, <1>2 DEF Chose, Noted
<1> QED BY <1>1, <1>3, <1>4, <1>5 DEF Chose

\* A step that leaves alone what it must, and leaves its handler in order, keeps what is not about rows
\* and objects.
LEMMA Frame ==
  ASSUME IInv, TypeOK', NEW p, Leaves(p), p \in Processes => LeftWith(p), KindsInv', FilesMatchRows'
  PROVE  IInv'
<1>1. TypeInv'
  <2>1. ASSUME NEW q \in Processes, q # p PROVE Reads(q)'
    <3>1. process'[q] = process[q] /\ Reads(q)
      BY <2>1 DEF Leaves, IInv, TypeInv
    <3> QED BY <3>1 DEF Reads, Holding, Bringing, Opened, Draining, At
  <2> QED BY <2>1 DEF TypeInv, LeftWith
<1>2. BringingInv'
  BY BringingLeft DEF IInv
<1>3. HandsInv'
  <2>1. ASSUME NEW q \in Processes, q # p PROVE Hands(q)'
    BY <2>1, HandsLeft DEF IInv
  <2> QED BY <2>1 DEF HandsInv, LeftWith
<1>4. ErasureInv'
  <2>1. ASSUME NEW q \in Processes, q # p, At(q, "erasing")' PROVE Sees(q)' /\ Chose(q)'
    <3>1. At(q, "erasing")
      BY <2>1 DEF Leaves, At
    <3> QED BY <2>1, <3>1, SeesLeft, ChoseLeft DEF IInv
  <2> QED BY <2>1 DEF ErasureInv, LeftWith
<1> QED BY <1>1, <1>2, <1>3, <1>4 DEF IInv

\* What is known after a step: what was known, and what the step adds to the rows.
LEMMA KnownLeft ==
  ASSUME NEW p, NEW X,
         \A q \in Processes \ {p} : process'[q] = process[q],
         \A r \in Records : \A f \in record'[r].files : Known(f) \/ f \in X,
         \A f \in untried' \cup Range(tried') : Known(f),
         p \in Processes => \A f \in Range(process'[p].todo) : Known(f),
         p \in Processes /\ process'[p].pc = "erasing" => \A r \in Records : \A f \in process'[p].snap[r] : Known(f)
  PROVE  \A f : Known(f)' => Known(f) \/ f \in X
<1> SUFFICES ASSUME NEW f, Known(f)' PROVE Known(f) \/ f \in X
  OBVIOUS
<1>1. CASE \E r \in Records : f \in record'[r].files
  BY <1>1
<1>2. CASE f \in untried' \/ f \in Range(tried')
  BY <1>2
<1>3. CASE \E q \in Processes : \/ f \in Range(process'[q].todo)
                                \/ process'[q].pc = "erasing" /\ \E r \in Records : f \in process'[q].snap[r]
  <2>1. PICK q \in Processes : \/ f \in Range(process'[q].todo)
                               \/ process'[q].pc = "erasing" /\ \E r \in Records : f \in process'[q].snap[r]
    BY <1>3
  <2>2. CASE q = p
    BY <2>1, <2>2
  <2>3. CASE q # p
    BY <2>1, <2>3 DEF Known, At
  <2> QED BY <2>2, <2>3
<1> QED BY <1>1, <1>2, <1>3 DEF Known, At

LEMMA NotedUnchanged ==
  ASSUME UNCHANGED <<record, signed>>, NEW q \in Processes, written[q] \subseteq written'[q]
  PROVE  Noted(q)
BY DEF Noted, Exists

\* The files in hand: only the handler that takes a step can put one down.
LEMMA InHandLeft ==
  ASSUME NEW p, \A q \in Processes \ {p} : process'[q] = process[q], NEW f \in InHand
  PROVE  \/ f \in InHand'
         \/ p \in Processes /\ f = process[p].file /\ (At(p, "recording") \/ At(p, "attaching") \/ At(p, "dropping"))
<1>1. PICK q \in Processes : /\ f = process[q].file
                             /\ At(q, "recording") \/ At(q, "attaching") \/ At(q, "dropping")
  BY DEF InHand
<1>2. CASE q = p
  BY <1>1, <1>2
<1>3. CASE q # p
  BY <1>1, <1>3 DEF InHand, At
<1> QED BY <1>2, <1>3

LEMMA InHandThen ==
  ASSUME NEW p \in Processes,
         process'[p].pc = "recording" \/ process'[p].pc = "attaching" \/ process'[p].pc = "dropping"
  PROVE  process'[p].file \in InHand'
BY DEF InHand, At

LEMMA EmptyRange == Range(<<>>) = {}
<1>1. <<>> \in Seq({}) /\ Len(<<>>) = 0
  BY EmptySeq
<1>2. Range(<<>>) \subseteq {}
  BY <1>1, RangeOfSeq
<1> QED BY <1>2

LEMMA ReturnLeavesNothing ==
  ASSUME NEW p \in Processes, process'[p] = Idle
  PROVE  LeftWith(p) /\ Range(process'[p].todo) = {} /\ process'[p].pc # "erasing"
<1>1. /\ process'[p].pc = "idle" /\ process'[p].file = Null /\ process'[p].todo = <<>>
  BY DEF Idle
<1>2. Range(<<>>) = {}
  BY EmptyRange
<1>3. Reads(p)' /\ Hands(p)' /\ ~At(p, "erasing")' /\ ~Bringing(p)'
  BY <1>1 DEF Reads, Hands, Holding, Bringing, Opened, Draining, At
<1> QED BY <1>1, <1>2, <1>3 DEF LeftWith

\* A step that changes no row, no object and no queue.
LEMMA JustMoves ==
  ASSUME IInv, NEW p \in Processes, NEW next \in Process, Become(p, next),
         UNCHANGED <<rows, store, queue, unguarded>>,
         stranded \subseteq stranded', stranded' \subseteq Files, faults' \in 0..MaxFaults,
         written' \in [Processes -> SUBSET Records],
         \A q \in Processes \ {p} : At(q, "erasing") => written'[q] = written[q],
         (At(p, "recording") \/ At(p, "attaching") \/ At(p, "dropping")) /\ process[p].file \in store
           => process[p].file \in stranded',
         \A f \in Range(next.todo) : Known(f),
         next.pc = "erasing" => \A r \in Records : next.snap[r] \subseteq record[r].files,
         LeftWith(p)
  PROVE  IInv'
<1>1. TypeOK
  BY DEF IInv, TypeInv
<1>2. /\ process' \in [Processes -> Process] /\ process'[p] = next
      /\ \A q \in Processes \ {p} : process'[q] = process[q]
  BY <1>1, Becomes DEF TypeOK
<1>3. TypeOK'
  BY <1>1, <1>2 DEF TypeOK, rows, queue
<1>4. \A f : Known(f)' => Known(f) \/ f \in {}
  <2>1. \A f \in untried' \cup Range(tried') : Known(f)
    BY DEF Known, queue
  <2>2. \A r \in Records : \A f \in record'[r].files : Known(f)
    BY DEF Known, rows
  <2>3. next.pc = "erasing" => \A r \in Records : \A f \in next.snap[r] : Known(f)
    BY DEF Known
  <2> QED BY <1>2, <2>1, <2>2, <2>3, KnownLeft
<1>5. \A q \in Processes \ {p} : /\ At(q, "erasing") => Noted(q)
                                 /\ Opened(q) => process[q].file \in uploads' \cup unguarded'
  BY <1>1, NotedUnchanged DEF rows, IInv, HandsInv, Hands
<1>6. Leaves(p)
  BY <1>2, <1>4, <1>5 DEF Leaves, rows
<1>7. KindsInv'
  BY DEF IInv, KindsInv, rows
<1>8. FilesMatchRows'
  <2>1. store' \subseteq uploads' \cup untried' \cup Range(tried') \cup InHand' \cup stranded'
    <3>1. ASSUME NEW f \in store PROVE f \in uploads \cup untried \cup Range(tried) \cup InHand' \cup stranded'
      <4>1. f \in uploads \cup untried \cup Range(tried) \cup InHand \cup stranded
        BY <3>1 DEF IInv, FilesMatchRows
      <4>2. CASE f \in InHand
        BY <1>2, <3>1, <4>2, InHandLeft
      <4> QED BY <4>1, <4>2
    <3> QED BY <3>1 DEF rows, queue
  <2> QED BY <2>1 DEF IInv, FilesMatchRows, rows, queue
<1> QED BY <1>3, <1>6, <1>7, <1>8, Frame

-----------------------------------------------------------------------------
\* The steps that only move their handler.

LEMMA FreshFile ==
  ASSUME NEW f, Fresh(f)
  PROVE  ~Known(f) /\ \A q \in Processes : process[q].file # f
BY DEF Fresh, Known, References

LEMMA RenderStarts ==
  ASSUME IInv, NEW w \in Workers, NEW f \in Files, StartRender(w, f)
  PROVE  IInv'
<1> DEFINE next == WithFile("storing", f)
<1>1. w \in Processes /\ process \in [Processes -> Process]
  BY DEF Processes, IInv, TypeInv, TypeOK
<1>2. next \in Process /\ next.pc = "storing" /\ next.file = f /\ next.todo = <<>>
  BY BeginWithFile DEF Pcs
<1>3. Become(w, next) /\ Fresh(f)
  BY DEF StartRender, WithFile
<1> HIDE DEF next
<1>4. process'[w] = next
  BY <1>1, <1>2, <1>3, Becomes
<1>5. UNCHANGED <<rows, store, queue, written, history, faults>>
  BY DEF StartRender
<1>6. ~Known(f)'
  <2>1. \A g : Known(g)' => Known(g) \/ g \in {}
    <3>1. \A q \in Processes \ {w} : process'[q] = process[q]
      BY <1>1, <1>2, <1>3, Becomes
    <3> QED BY <1>2, <1>4, <1>5, <3>1, EmptyRange, KnownLeft DEF Known, rows, queue
  <2> QED BY <1>3, <2>1, FreshFile
<1>7. LeftWith(w)
  <2>1. Reads(w)' /\ Hands(w)' /\ ~At(w, "erasing")'
    BY <1>2, <1>4 DEF Reads, Hands, Holding, Bringing, Opened, Draining, At, Processes
  <2> QED BY <1>2, <1>3, <1>4, <1>6, <2>1 DEF LeftWith, Incoming
<1>8. ~(At(w, "recording") \/ At(w, "attaching") \/ At(w, "dropping"))
  BY DEF StartRender, At
<1> QED BY <1>1, <1>2, <1>3, <1>5, <1>7, <1>8, EmptyRange, JustMoves DEF history, IInv, TypeInv, TypeOK

LEMMA JustReturns ==
  ASSUME IInv, NEW p \in Processes, Return(p),
         UNCHANGED <<rows, store, queue, unguarded>>,
         stranded \subseteq stranded', stranded' \subseteq Files, faults' \in 0..MaxFaults,
         written' \in [Processes -> SUBSET Records],
         \A q \in Processes \ {p} : At(q, "erasing") => written'[q] = written[q],
         (At(p, "recording") \/ At(p, "attaching") \/ At(p, "dropping")) /\ process[p].file \in store
           => process[p].file \in stranded'
  PROVE  IInv'
<1>1. process \in [Processes -> Process] /\ Become(p, Idle)
  BY DEF IInv, TypeInv, TypeOK, Return
<1>2. process'[p] = Idle
  BY <1>1, IdleType, Becomes
<1>3. LeftWith(p) /\ Range(Idle.todo) = {} /\ Idle.pc # "erasing"
  BY <1>2, ReturnLeavesNothing
<1> QED BY <1>1, <1>3, IdleType, JustMoves

LEMMA ErasureBegins ==
  ASSUME IInv, NEW p \in Processes, NEW doomed \in SUBSET Records, BeginErasure(p, doomed),
         p \in Workers => \A r \in doomed : record[r].state = "due",
         p \in Requests => "template" \notin doomed,
         "contract" \in doomed => ~signed,
         "client" \in doomed => \A d \in Documents \ doomed : ~Exists(d)
  PROVE  IInv'
<1> DEFINE snap == [r \in Records |-> record[r].files]
           next == WithSnapshot(doomed, snap)
<1>1. TypeOK /\ process \in [Processes -> Process]
  BY DEF IInv, TypeInv, TypeOK
<1>2. snap \in [Records -> SUBSET Files]
  BY <1>1 DEF TypeOK, Record
<1>3. \A r \in Records : snap[r] = record[r].files
  OBVIOUS
<1>4. Become(p, next)
  BY DEF BeginErasure, WithSnapshot
<1> HIDE DEF snap
<1>5. /\ next \in Process /\ next.pc = "erasing" /\ next.file = Null /\ next.todo = <<>>
      /\ next.doomed = doomed /\ next.snap = snap
  BY <1>2, BeginWithSnapshot
<1> HIDE DEF next
<1>6. process'[p] = next
  BY <1>1, <1>4, <1>5, Becomes
<1>7. UNCHANGED <<rows, store, queue, written, history, faults>> /\ At(p, "idle")
  BY DEF BeginErasure
<1>8. Reads(p)' /\ Hands(p)' /\ ~Bringing(p)'
  <2>1. p \in Workers \/ p \in Requests
    BY DEF Processes
  <2> QED BY <1>2, <1>5, <1>6, <2>1 DEF Reads, Hands, Holding, Bringing, Opened, Draining, At
<1>9. Sees(p)'
  BY <1>3, <1>5, <1>6, <1>7 DEF Sees, rows
<1>10. Chose(p)'
  <2>1. Chosen(p)' \subseteq doomed /\ process'[p].doomed = doomed
    BY <1>5, <1>6 DEF Chosen
  <2> QED BY <1>7, <2>1 DEF Chose, Exists, rows
<1>11. LeftWith(p)
  BY <1>5, <1>6, <1>8, <1>9, <1>10 DEF LeftWith
<1>12. ~(At(p, "recording") \/ At(p, "attaching") \/ At(p, "dropping"))
  BY <1>7 DEF At
<1> QED BY <1>1, <1>3, <1>4, <1>5, <1>7, <1>11, <1>12, EmptyRange, JustMoves DEF history, TypeOK

LEMMA PurgeBegins ==
  ASSUME IInv, NEW w \in Workers, BeginPurge(w)
  PROVE  IInv'
<1>1. Due \in SUBSET Records
  BY DEF Due, Documents, Records
<1>2. \A r \in Due : record[r].state = "due"
  BY DEF Due
<1>3. "contract" \in Due => ~signed
  BY DEF Due, Documents
<1>4. "client" \in Due => \A d \in Documents \ Due : ~Exists(d)
  BY DEF Due, Documents
<1> QED BY <1>1, <1>2, <1>3, <1>4, ErasureBegins DEF BeginPurge, Processes

LEMMA ForgetBegins ==
  ASSUME IInv, NEW q \in Requests, BeginForget(q)
  PROVE  IInv'
<1> DEFINE doomed == {r \in Documents \cup {"client"} : Exists(r)}
<1>1. doomed \in SUBSET Records /\ "template" \notin doomed
  BY DEF Documents, Records
<1>2. "contract" \in doomed => ~signed
  BY DEF BeginForget
<1>3. \A d \in Documents \ doomed : ~Exists(d)
  OBVIOUS
<1>4. BeginErasure(q, doomed)
  BY DEF BeginForget
<1> HIDE DEF doomed
<1> QED BY <1>1, <1>2, <1>3, <1>4, ErasureBegins DEF Processes

LEMMA SweepBegins ==
  ASSUME IInv, NEW w \in Workers, BeginSweep(w)
  PROVE  IInv'
<1>1. TypeOK /\ w \in Processes /\ process \in [Processes -> Process]
  BY DEF IInv, TypeInv, TypeOK, Processes
<1>2. PICK s \in Pending : Become(w, WithQueue(s))
  BY DEF BeginSweep, WithQueue
<1>3. PICK new \in SetToSeqs(untried) : s = new \o tried
  BY <1>2 DEF Pending
<1>4. new \in Seq(untried) /\ Range(new) \subseteq untried /\ (untried # {} => new # <<>>)
  <2>1. IsFiniteSet(untried)
    BY <1>1, FS_Subset DEF TypeOK
  <2> QED BY <2>1, InSomeOrder
<1>5. new \in Seq(Files) /\ tried \in Seq(Files)
  BY <1>1, <1>4, SeqMonotonic DEF TypeOK
<1>6. s \in Seq(Files) /\ Range(s) \subseteq untried \cup Range(tried)
  BY <1>3, <1>4, <1>5, ConcatProperties, RangeConcatenation
<1>7. s # <<>>
  <2>1. untried # {} \/ tried # <<>>
    BY EmptyRange DEF BeginSweep
  <2> QED BY <1>3, <1>4, <1>5, <2>1, ConcatEqualIffEmpty
<1> DEFINE next == WithQueue(s)
<1>8. /\ next \in Process /\ next.pc = "deleting" /\ next.file = Null
      /\ next.todo = s /\ next.failed = 0
  BY <1>6, BeginWithQueue
<1> HIDE DEF next
<1>9. Become(w, next) /\ process'[w] = next
  BY <1>1, <1>2, <1>8, Becomes DEF next
<1>10. UNCHANGED <<rows, store, queue, written, history, faults>> /\ At(w, "idle")
  BY DEF BeginSweep
<1>11. Range(s) \cap uploads = {}
  BY <1>6 DEF IInv, FilesMatchRows
<1>12. Reads(w)' /\ Hands(w)' /\ ~Bringing(w)' /\ ~At(w, "erasing")'
  BY <1>1, <1>7, <1>8, <1>9, <1>10, <1>11 DEF Reads, Hands, Holding, Bringing, Opened, Draining, At, rows, Processes
<1>13. LeftWith(w)
  BY <1>8, <1>9, <1>12 DEF LeftWith
<1>14. \A f \in Range(s) : Known(f)
  BY <1>6 DEF Known
<1>15. ~(At(w, "recording") \/ At(w, "attaching") \/ At(w, "dropping"))
  BY <1>10 DEF At
<1> QED BY <1>1, <1>8, <1>9, <1>10, <1>13, <1>14, <1>15, JustMoves DEF history, TypeOK

LEMMA RemovalStarts ==
  ASSUME IInv, NEW q \in Requests, NEW f \in Files \ Images, StartRemove(q, f)
  PROVE  IInv'
<1> DEFINE next == WithFile("removing", f)
<1>1. TypeOK /\ q \in Processes /\ process \in [Processes -> Process] /\ q \notin Workers
  BY DEF IInv, TypeInv, TypeOK, Processes
<1>2. next \in Process /\ next.pc = "removing" /\ next.file = f /\ next.todo = <<>>
  BY BeginWithFile DEF Pcs
<1>3. Become(q, next)
  BY DEF StartRemove, WithFile
<1> HIDE DEF next
<1>4. process'[q] = next
  BY <1>1, <1>2, <1>3, Becomes
<1>5. UNCHANGED <<rows, store, queue, written, history, faults>> /\ At(q, "idle")
  BY DEF StartRemove
<1>6. f \in record["client"].files /\ f \notin record["invoice"].files
  BY DEF StartRemove, IInv, KindsInv
<1>7. Reads(q)' /\ Hands(q)' /\ ~Bringing(q)' /\ ~At(q, "erasing")'
  BY <1>1, <1>2, <1>4, <1>5, <1>6 DEF Reads, Hands, Holding, Bringing, Opened, Draining, At, rows
<1>8. Known(f)
  BY <1>6 DEF Known, Records
<1>9. LeftWith(q)
  BY <1>2, <1>4, <1>7, <1>8 DEF LeftWith
<1>10. ~(At(q, "recording") \/ At(q, "attaching") \/ At(q, "dropping"))
  BY <1>5 DEF At
<1> QED BY <1>1, <1>2, <1>3, <1>5, <1>9, <1>10, EmptyRange, JustMoves DEF history, TypeOK

LEMMA FormOpens ==
  ASSUME IInv, NEW q \in Requests, NEW b \in Blocks, NEW f \in Files, OpenForm(q, b, f)
  PROVE  IInv'
<1> DEFINE next == WithForm(b, f)
<1>1. TypeOK /\ q \in Processes /\ process \in [Processes -> Process] /\ q \notin Workers
  BY DEF IInv, TypeInv, TypeOK, Processes
<1>2. /\ next \in Process /\ next.pc = "editing" /\ next.on = b /\ next.file = f /\ next.todo = <<>>
  BY BeginWithForm
<1>3. Become(q, next)
  BY DEF OpenForm, WithForm
<1> HIDE DEF next
<1>4. process'[q] = next
  BY <1>1, <1>2, <1>3, Becomes
<1>5. UNCHANGED <<rows, store, queue, written, history, faults>> /\ At(q, "idle")
  BY DEF OpenForm
<1>6. \E c \in Blocks : f \in record[c].files
  BY DEF OpenForm, Blocks
<1>7. f \in Images /\ f \in uploads \cup unguarded /\ Known(f)
  <2>1. Blocks \subseteq Records
    BY DEF Blocks, Records, Documents
  <2> QED BY <1>6, <2>1 DEF IInv, KindsInv, FilesMatchRows, Known
<1>8. Reads(q)' /\ Hands(q)' /\ ~Bringing(q)' /\ ~At(q, "erasing")'
  BY <1>1, <1>2, <1>4, <1>5, <1>7 DEF Reads, Hands, Holding, Bringing, Opened, Draining, At, rows, history
<1>9. LeftWith(q)
  BY <1>2, <1>4, <1>7, <1>8 DEF LeftWith
<1>10. ~(At(q, "recording") \/ At(q, "attaching") \/ At(q, "dropping"))
  BY <1>5 DEF At
<1> QED BY <1>1, <1>2, <1>3, <1>5, <1>9, <1>10, EmptyRange, JustMoves DEF history, TypeOK

LEMMA ImagesChecked ==
  ASSUME IInv, NEW q \in Requests, CheckImages(q)
  PROVE  IInv'
<1>1. /\ TypeOK /\ q \in Processes /\ process \in [Processes -> Process] /\ q \notin Workers
      /\ process[q] \in Process
  BY DEF IInv, TypeInv, TypeOK, Processes
<1>2. /\ UNCHANGED <<rows, store, queue, written, history, faults>>
      /\ At(q, "editing") /\ process[q].on = "template"
  BY DEF CheckImages
<1>3. ~(At(q, "recording") \/ At(q, "attaching") \/ At(q, "dropping"))
  BY <1>2 DEF At
<1>4. CASE process[q].file \in uploads
  <2> DEFINE next == GoingOn(process[q], "saving")
  <2>1. /\ next \in Process /\ next.pc = "saving" /\ next.on = process[q].on /\ next.file = process[q].file
        /\ next.todo = process[q].todo
    BY <1>1, GoOn DEF Pcs
  <2>2. Become(q, next)
    BY <1>4 DEF CheckImages, GoingOn
  <2> HIDE DEF next
  <2>3. process'[q] = next
    BY <1>1, <2>1, <2>2, Becomes
  <2>4. Reads(q) /\ Hands(q) /\ Opened(q)
    BY <1>1, <1>2 DEF IInv, TypeInv, HandsInv, Opened, At
  <2>5. Reads(q)' /\ Hands(q)' /\ ~Bringing(q)' /\ ~At(q, "erasing")'
    BY <1>1, <1>2, <1>4, <2>1, <2>3, <2>4 DEF Reads, Hands, Holding, Bringing, Opened, Draining, At, rows, history
  <2>6. LeftWith(q)
    BY <2>1, <2>3, <2>5 DEF LeftWith
  <2>7. \A f \in Range(next.todo) : Known(f)
    BY <1>1, <2>1 DEF Known
  <2> QED BY <1>1, <1>2, <1>3, <2>1, <2>2, <2>6, <2>7, JustMoves DEF history, TypeOK
<1>5. CASE process[q].file \notin uploads
  <2>1. Return(q)
    BY <1>5 DEF CheckImages, Return
  <2> QED BY <1>1, <1>2, <1>3, <2>1, JustReturns DEF history, TypeOK
<1> QED BY <1>4, <1>5

LEMMA FormCloses ==
  ASSUME IInv, NEW q \in Requests, Discard(q)
  PROVE  IInv'
<1>1. TypeOK /\ q \in Processes
  BY DEF IInv, TypeInv, Processes
<1>2. ~(At(q, "recording") \/ At(q, "attaching") \/ At(q, "dropping"))
  BY DEF Discard, At
<1> QED BY <1>1, <1>2, JustReturns DEF Discard, history, TypeOK

LEMMA ErasureAborts ==
  ASSUME IInv, NEW p \in Processes, AbortErasure(p)
  PROVE  IInv'
<1>1. TypeOK
  BY DEF IInv, TypeInv
<1>2. /\ written' \in [Processes -> SUBSET Records]
      /\ \A q \in Processes \ {p} : At(q, "erasing") => written'[q] = written[q]
  BY <1>1, WroteNothing DEF AbortErasure, TypeOK
<1>3. ~(At(p, "recording") \/ At(p, "attaching") \/ At(p, "dropping"))
  BY DEF AbortErasure, At
<1> QED BY <1>1, <1>2, <1>3, JustReturns DEF AbortErasure, history, TypeOK

\* A process that dies with an object in hand leaves it stranded.
LEMMA ProcessDies ==
  ASSUME IInv, NEW p \in Processes, Crash(p)
  PROVE  IInv'
<1>1. TypeOK
  BY DEF IInv, TypeInv
<1>2. /\ written' \in [Processes -> SUBSET Records]
      /\ \A q \in Processes \ {p} : At(q, "erasing") => written'[q] = written[q]
  BY <1>1, WroteNothing DEF Crash, TypeOK
<1>3. stranded \subseteq stranded' /\ stranded' \subseteq Files
  BY <1>1 DEF Crash, TypeOK
<1>4. (At(p, "recording") \/ At(p, "attaching") \/ At(p, "dropping")) /\ process[p].file \in store
        => process[p].file \in stranded'
  BY DEF Crash
<1>5. faults' \in 0..MaxFaults
  BY <1>1 DEF Crash, TypeOK
<1> QED BY <1>2, <1>3, <1>4, <1>5, JustReturns DEF Crash

-----------------------------------------------------------------------------
\* The steps that store an object, write or delete the row of one, or delete an object.

\* No row is written that an erasure would have to know of.
LEMMA RowsStay ==
  ASSUME IInv, NEW p \in Processes, \A q \in Processes \ {p} : process'[q] = process[q],
         \A r \in Records : record'[r].files \subseteq record[r].files /\ record'[r].state = record[r].state,
         UNCHANGED <<signed, written, unguarded>>,
         \A f \in untried' \cup Range(tried') : f \in untried \cup Range(tried),
         process'[p].pc # "erasing",
         \A f \in Range(process'[p].todo) : Known(f),
         \A f : f \in uploads' \ uploads \/ f \in store' \ store => Incoming(p, f),
         \A f : f \in uploads \ uploads' \/ f \in store \ store' => Known(f) \/ InHandOf(p, f),
         \A f \in uploads \ uploads' : f \notin Images
  PROVE  Leaves(p) /\ \A f : Known(f)' => Known(f)
<1>1. \A f : Known(f)' => Known(f) \/ f \in {}
  <2>1. \A r \in Records : \A f \in record'[r].files : Known(f)
    BY DEF Known
  <2>2. \A f \in untried' \cup Range(tried') : Known(f)
    BY DEF Known
  <2> QED BY <2>1, <2>2, KnownLeft
<1>2. ASSUME NEW q \in Processes \ {p}, At(q, "erasing") PROVE Noted(q)
  BY DEF Noted, Exists, Documents, Records
<1>3. ASSUME NEW q \in Processes \ {p}, Opened(q) PROVE process[q].file \in uploads' \cup unguarded'
  BY <1>3 DEF IInv, TypeInv, HandsInv, Hands, Reads
<1> QED BY <1>1, <1>2, <1>3 DEF Leaves

LEMMA ObjectPut ==
  ASSUME IInv, NEW w \in Processes, PutObject(w)
  PROVE  IInv'
<1> DEFINE next == GoingOn(process[w], "recording")
           f == process[w].file
<1>1. /\ TypeOK /\ process \in [Processes -> Process] /\ process[w] \in Process
      /\ Bringing(w) /\ Reads(w) /\ f \in Files
  BY DEF IInv, TypeInv, TypeOK, PutObject, At, Bringing, Reads, Holding
<1>2. /\ next \in Process /\ next.pc = "recording" /\ next.file = f /\ next.todo = process[w].todo
  BY <1>1, GoOn DEF Pcs
<1>3. Become(w, next)
  BY DEF PutObject, GoingOn
<1> HIDE DEF next
<1>4. /\ process' \in [Processes -> Process] /\ process'[w] = next
      /\ \A q \in Processes \ {w} : process'[q] = process[q]
  BY <1>1, <1>2, <1>3, Becomes
<1>5. /\ UNCHANGED <<rows, queue, written, history, faults>>
      /\ store' = store \cup {f} /\ At(w, "storing")
  BY DEF PutObject
<1>6. TypeOK'
  BY <1>1, <1>4, <1>5 DEF TypeOK, rows, queue, history
<1>7. Incoming(w, f) /\ ~Known(f)
  BY <1>1 DEF Incoming, InHandOf, IInv, BringingInv
<1>8. Leaves(w) /\ \A g : Known(g)' => Known(g)
  <2>1. \A g \in Range(next.todo) : Known(g)
    BY <1>2 DEF Known
  <2> QED BY <1>2, <1>4, <1>5, <1>7, <2>1, RowsStay DEF rows, queue, history
<1>9. LeftWith(w)
  <2>1. Reads(w)' /\ Hands(w)' /\ ~At(w, "erasing")'
    BY <1>1, <1>2, <1>4, <1>5 DEF Reads, Hands, Holding, Bringing, Opened, Draining, At
  <2>2. \A g : g = f => ~Known(g)'
    BY <1>7, <1>8
  <2> QED BY <1>2, <1>4, <1>7, <2>1, <2>2 DEF LeftWith
<1>10. KindsInv'
  BY <1>5 DEF IInv, KindsInv, rows
<1>11. FilesMatchRows'
  <2>1. f \in InHand'
    BY <1>2, <1>4, InHandThen
  <2>2. ASSUME NEW g \in store PROVE g \in uploads \cup untried \cup Range(tried) \cup InHand' \cup stranded
    BY <1>4, <1>5, <2>2, InHandLeft DEF IInv, FilesMatchRows, At
  <2> QED BY <1>5, <2>1, <2>2 DEF IInv, FilesMatchRows, rows, queue, history
<1> QED BY <1>6, <1>8, <1>9, <1>10, <1>11, Frame

LEMMA UploadRecorded ==
  ASSUME IInv, NEW w \in Processes, RecordUpload(w)
  PROVE  IInv'
<1> DEFINE next == GoingOn(process[w], "linking")
           f == process[w].file
<1>1. /\ TypeOK /\ process \in [Processes -> Process] /\ process[w] \in Process
      /\ Bringing(w) /\ Reads(w) /\ f \in Files /\ f \in store
  BY DEF IInv, TypeInv, TypeOK, RecordUpload, At, Bringing, Reads, Holding, HandsInv, Hands
<1>2. /\ next \in Process /\ next.pc = "linking" /\ next.file = f /\ next.todo = process[w].todo
  BY <1>1, GoOn DEF Pcs
<1>3. Become(w, next)
  BY DEF RecordUpload, GoingOn
<1> HIDE DEF next
<1>4. /\ process' \in [Processes -> Process] /\ process'[w] = next
      /\ \A q \in Processes \ {w} : process'[q] = process[q]
  BY <1>1, <1>2, <1>3, Becomes
<1>5. /\ UNCHANGED <<record, signed, store, queue, written, history, faults>>
      /\ uploads' = uploads \cup {f} /\ At(w, "recording")
  BY DEF RecordUpload
<1>6. TypeOK'
  BY <1>1, <1>4, <1>5 DEF TypeOK, queue, history
<1>7. Incoming(w, f) /\ ~Known(f)
  BY <1>1 DEF Incoming, InHandOf, IInv, BringingInv
<1>8. Leaves(w) /\ \A g : Known(g)' => Known(g)
  <2>1. \A g \in Range(next.todo) : Known(g)
    BY <1>2 DEF Known
  <2> QED BY <1>2, <1>4, <1>5, <1>7, <2>1, RowsStay DEF queue, history
<1>9. LeftWith(w)
  <2>1. Reads(w)' /\ Hands(w)' /\ ~At(w, "erasing")'
    BY <1>1, <1>2, <1>4, <1>5 DEF Reads, Hands, Holding, Bringing, Opened, Draining, At
  <2>2. \A g : g = f => ~Known(g)'
    BY <1>7, <1>8
  <2> QED BY <1>2, <1>4, <1>7, <2>1, <2>2 DEF LeftWith
<1>10. KindsInv'
  BY <1>5 DEF IInv, KindsInv
<1>11. FilesMatchRows'
  <2>1. ASSUME NEW g \in store
        PROVE  g \in uploads' \cup untried \cup Range(tried) \cup InHand' \cup stranded
    BY <1>4, <1>5, <2>1, InHandLeft DEF IInv, FilesMatchRows
  <2>2. f \notin untried \cup Range(tried)
    BY <1>7 DEF Known
  <2> QED BY <1>1, <1>5, <2>1, <2>2 DEF IInv, FilesMatchRows, queue, history
<1> QED BY <1>6, <1>8, <1>9, <1>10, <1>11, Frame

LEMMA ObjectDeleted ==
  ASSUME IInv, NEW p \in Processes, DeleteObject(p)
  PROVE  IInv'
<1> DEFINE next == GoingOn(process[p], "dequeuing")
           f == Head(process[p].todo)
<1>1. /\ TypeOK /\ process \in [Processes -> Process] /\ process[p] \in Process
      /\ Reads(p) /\ Hands(p) /\ Draining(p)
  BY DEF IInv, TypeInv, TypeOK, HandsInv, DeleteObject, At, Draining
<1>2. /\ next \in Process /\ next.pc = "dequeuing" /\ next.file = process[p].file
      /\ next.todo = process[p].todo /\ next.failed = process[p].failed
  BY <1>1, GoOn DEF Pcs
<1>3. Become(p, next)
  BY DEF DeleteObject, GoingOn
<1> HIDE DEF next
<1>4. /\ process' \in [Processes -> Process] /\ process'[p] = next
      /\ \A q \in Processes \ {p} : process'[q] = process[q]
  BY <1>1, <1>2, <1>3, Becomes
<1>5. /\ UNCHANGED <<rows, queue, written, history, faults>>
      /\ store' = store \ {f} /\ At(p, "deleting")
  BY DEF DeleteObject
<1>6. f \in Range(process[p].todo) /\ f \notin uploads /\ Known(f)
  <2>1. f \in Range(process[p].todo)
    BY <1>1, TailRange DEF Reads, Process
  <2> QED BY <1>1, <2>1 DEF Hands, Known
<1>7. TypeOK'
  BY <1>1, <1>4, <1>5 DEF TypeOK, rows, queue, history
<1>8. Leaves(p)
  <2>1. \A g \in Range(next.todo) : Known(g)
    BY <1>2 DEF Known
  <2> QED BY <1>2, <1>4, <1>5, <1>6, <2>1, RowsStay DEF rows, queue, history
<1>9. LeftWith(p)
  <2>1. Reads(p)' /\ Hands(p)' /\ ~At(p, "erasing")' /\ ~Bringing(p)'
    BY <1>1, <1>2, <1>4, <1>5 DEF Reads, Hands, Holding, Bringing, Opened, Draining, At, rows
  <2> QED BY <1>2, <1>4, <2>1 DEF LeftWith
<1>10. KindsInv'
  BY <1>5 DEF IInv, KindsInv, rows
<1>11. FilesMatchRows'
  <2>1. ASSUME NEW g \in store PROVE g \in uploads \cup untried \cup Range(tried) \cup InHand' \cup stranded
    BY <1>4, <1>5, <2>1, InHandLeft DEF IInv, FilesMatchRows, At
  <2> QED BY <1>5, <1>6, <2>1 DEF IInv, FilesMatchRows, rows, queue, history
<1> QED BY <1>7, <1>8, <1>9, <1>10, <1>11, Frame

\* A drain stops, or goes on with the next of its keys.
LEMMA Proceeds ==
  ASSUME IInv, NEW p \in Processes, Draining(p), NEW n \in 0..FailureLimit, Proceed(p, n),
         UNCHANGED <<uploads, store>>
  PROVE  /\ process' \in [Processes -> Process]
         /\ \A q \in Processes \ {p} : process'[q] = process[q]
         /\ Range(process'[p].todo) \subseteq Range(process[p].todo)
         /\ process'[p].pc # "erasing"
         /\ LeftWith(p)
<1>1. /\ process \in [Processes -> Process] /\ process[p] \in Process /\ Reads(p) /\ Hands(p)
      /\ process[p].todo \in Seq(Files) /\ process[p].todo # <<>>
  BY DEF IInv, TypeInv, TypeOK, HandsInv, Reads, Process
<1>2. CASE Len(process[p].todo) = 1 \/ n = FailureLimit
  <2>1. Become(p, Idle)
    BY <1>2 DEF Proceed
  <2>2. /\ process' \in [Processes -> Process] /\ process'[p] = Idle
        /\ \A q \in Processes \ {p} : process'[q] = process[q]
    BY <1>1, <2>1, IdleType, Becomes
  <2> QED BY <2>2, ReturnLeavesNothing
<1>3. CASE ~(Len(process[p].todo) = 1 \/ n = FailureLimit)
  <2> DEFINE next == NextKey(process[p], n)
  <2>1. /\ next \in Process /\ next.pc = "deleting" /\ next.file = process[p].file
        /\ next.todo = Tail(process[p].todo) /\ next.failed = n
    BY <1>1, GoOnDraining
  <2>2. Become(p, next)
    BY <1>3 DEF Proceed, NextKey
  <2> HIDE DEF next
  <2>3. /\ process' \in [Processes -> Process] /\ process'[p] = next
        /\ \A q \in Processes \ {p} : process'[q] = process[q]
    BY <1>1, <2>1, <2>2, Becomes
  <2>4. Range(next.todo) \subseteq Range(process[p].todo) /\ next.todo # <<>>
    BY <1>1, <1>3, <2>1, TailRange
  <2>5. n < FailureLimit
    BY <1>3
  <2>6. Reads(p)' /\ Hands(p)' /\ ~At(p, "erasing")' /\ ~Bringing(p)'
    BY <1>1, <2>1, <2>3, <2>4, <2>5 DEF Reads, Hands, Holding, Bringing, Opened, Draining, At
  <2> QED BY <2>1, <2>3, <2>4, <2>6 DEF LeftWith
<1> QED BY <1>2, <1>3

\* A key leaves the queue only when its object is gone.
LEMMA KeyDequeued ==
  ASSUME IInv, NEW p \in Processes, Dequeue(p)
  PROVE  IInv'
<1> DEFINE f == Head(process[p].todo)
<1>1. /\ TypeOK /\ Reads(p) /\ Hands(p) /\ Draining(p) /\ f \notin store
  BY DEF IInv, TypeInv, HandsInv, Hands, Dequeue, At, Draining
<1>2. /\ UNCHANGED <<rows, store, written, history, faults>> /\ At(p, "dequeuing")
      /\ untried' = untried \ {f} /\ tried' = RemoveFirst(tried, f) /\ Proceed(p, 0)
  BY DEF Dequeue
<1>3. tried' \in Seq(Files) /\ IsInjective(tried') /\ Range(tried') = Range(tried) \ {f}
  BY <1>1, <1>2, RemoveFirstProperties DEF TypeOK
<1>4. /\ process' \in [Processes -> Process]
      /\ \A q \in Processes \ {p} : process'[q] = process[q]
      /\ Range(process'[p].todo) \subseteq Range(process[p].todo)
      /\ process'[p].pc # "erasing"
      /\ LeftWith(p)
  <2>1. 0 \in 0..FailureLimit
    OBVIOUS
  <2> QED BY <1>1, <1>2, <2>1, Proceeds DEF rows
<1>5. TypeOK'
  BY <1>1, <1>2, <1>3, <1>4 DEF TypeOK, rows, history
<1>6. Leaves(p)
  <2>1. \A g \in Range(process'[p].todo) : Known(g)
    BY <1>4 DEF Known
  <2> QED BY <1>2, <1>3, <1>4, <2>1, RowsStay DEF rows, history
<1>7. KindsInv'
  BY <1>2 DEF IInv, KindsInv, rows
<1>8. FilesMatchRows'
  <2>1. ASSUME NEW g \in store PROVE g \in uploads \cup untried' \cup Range(tried') \cup InHand' \cup stranded
    BY <1>1, <1>2, <1>3, <1>4, <2>1, InHandLeft DEF IInv, FilesMatchRows, At
  <2> QED BY <1>2, <1>3, <2>1 DEF IInv, FilesMatchRows, rows, history
<1> QED BY <1>4, <1>5, <1>6, <1>7, <1>8, Frame

\* A key that failed stays queued, once.
LEMMA FailureRecorded ==
  ASSUME IInv, NEW p \in Processes, RecordFailure(p)
  PROVE  IInv'
<1> DEFINE f == Head(process[p].todo)
<1>1. /\ TypeOK /\ Reads(p) /\ Draining(p) /\ process[p] \in Process
      /\ f \in Files
  <2>1. TypeOK /\ Reads(p) /\ Draining(p) /\ process[p] \in Process
    BY DEF IInv, TypeInv, TypeOK, RecordFailure, At, Draining
  <2>2. process[p].todo \in Seq(Files) /\ process[p].todo # <<>>
    BY <2>1 DEF Reads, Process
  <2> QED BY <2>1, <2>2, HeadTailProperties
<1>2. /\ UNCHANGED <<rows, store, written, history>> /\ Proceed(p, process[p].failed + 1)
      /\ faults' \in 0..MaxFaults
  BY <1>1 DEF RecordFailure, TypeOK
<1>3. /\ untried' \subseteq Files /\ tried' \in Seq(Files) /\ IsInjective(tried')
      /\ untried' \cap Range(tried') = {}
      /\ untried' \cup Range(tried') = untried \cup Range(tried)
  <2>1. CASE f \in untried \cup Range(tried)
    <3> DEFINE rest == RemoveFirst(tried, f)
    <3>1. untried' = untried \ {f} /\ tried' = Append(rest, f)
      BY <2>1 DEF RecordFailure
    <3>2. rest \in Seq(Files) /\ IsInjective(rest) /\ Range(rest) = Range(tried) \ {f}
      BY <1>1, RemoveFirstProperties DEF TypeOK
    <3> HIDE DEF rest
    <3>3. tried' \in Seq(Files) /\ IsInjective(tried') /\ Range(tried') = Range(rest) \cup {f}
      BY <1>1, <3>1, <3>2, AppendRange
    <3> QED BY <1>1, <2>1, <3>1, <3>2, <3>3 DEF TypeOK
  <2>2. CASE f \notin untried \cup Range(tried)
    BY <1>1, <2>2 DEF RecordFailure, TypeOK, queue
  <2> QED BY <2>1, <2>2
<1>4. /\ process' \in [Processes -> Process]
      /\ \A q \in Processes \ {p} : process'[q] = process[q]
      /\ Range(process'[p].todo) \subseteq Range(process[p].todo)
      /\ process'[p].pc # "erasing"
      /\ LeftWith(p)
  <2>1. process[p].failed + 1 \in 0..FailureLimit
    BY <1>1 DEF Reads, Process
  <2> QED BY <1>1, <1>2, <2>1, Proceeds DEF rows
<1>5. TypeOK'
  BY <1>1, <1>2, <1>3, <1>4 DEF TypeOK, rows, history
<1>6. Leaves(p)
  <2>1. \A g \in Range(process'[p].todo) : Known(g)
    BY <1>4 DEF Known
  <2> QED BY <1>2, <1>3, <1>4, <2>1, RowsStay DEF rows, history
<1>7. KindsInv'
  BY <1>2 DEF IInv, KindsInv, rows
<1>8. FilesMatchRows'
  <2>1. ASSUME NEW g \in store PROVE g \in uploads \cup untried' \cup Range(tried') \cup InHand' \cup stranded
    BY <1>1, <1>3, <1>4, <2>1, InHandLeft DEF IInv, FilesMatchRows, At, Draining
  <2> QED BY <1>2, <1>3, <2>1 DEF IInv, FilesMatchRows, rows, history
<1> QED BY <1>4, <1>5, <1>6, <1>7, <1>8, Frame

LEMMA AttachmentStarts ==
  ASSUME IInv, NEW q \in Requests, NEW f \in Files, StartAttach(q, f)
  PROVE  IInv'
<1> DEFINE next == WithFile("attaching", f)
<1>1. TypeOK /\ q \in Processes /\ process \in [Processes -> Process] /\ q \notin Workers
  BY DEF IInv, TypeInv, TypeOK, Processes
<1>2. next \in Process /\ next.pc = "attaching" /\ next.file = f /\ next.todo = <<>>
  BY BeginWithFile DEF Pcs
<1>3. Become(q, next) /\ Fresh(f)
  BY DEF StartAttach, WithFile
<1> HIDE DEF next
<1>4. /\ process' \in [Processes -> Process] /\ process'[q] = next
      /\ \A o \in Processes \ {q} : process'[o] = process[o]
  BY <1>1, <1>2, <1>3, Becomes
<1>5. /\ UNCHANGED <<rows, queue, written, history, faults>>
      /\ store' = store \cup {f} /\ At(q, "idle")
  BY DEF StartAttach
<1>6. TypeOK'
  BY <1>1, <1>4, <1>5 DEF TypeOK, rows, queue, history
<1>7. Incoming(q, f) /\ ~Known(f)
  BY <1>3, FreshFile DEF Incoming
<1>8. Leaves(q) /\ \A g : Known(g)' => Known(g)
  BY <1>1, <1>2, <1>4, <1>5, <1>7, EmptyRange, RowsStay DEF rows, queue, history
<1>9. LeftWith(q)
  <2>1. Reads(q)' /\ Hands(q)' /\ ~At(q, "erasing")'
    BY <1>1, <1>2, <1>4, <1>5 DEF Reads, Hands, Holding, Bringing, Opened, Draining, At
  <2>2. ~Known(f)'
    BY <1>7, <1>8
  <2> QED BY <1>2, <1>3, <1>4, <1>7, <2>1, <2>2 DEF LeftWith
<1>10. KindsInv'
  BY <1>5 DEF IInv, KindsInv, rows
<1>11. FilesMatchRows'
  <2>1. f \in InHand'
    BY <1>1, <1>2, <1>4, InHandThen
  <2>2. ASSUME NEW g \in store PROVE g \in uploads \cup untried \cup Range(tried) \cup InHand' \cup stranded
    BY <1>4, <1>5, <2>2, InHandLeft DEF IInv, FilesMatchRows, At
  <2> QED BY <1>5, <2>1, <2>2 DEF IInv, FilesMatchRows, rows, queue, history
<1> QED BY <1>6, <1>8, <1>9, <1>10, <1>11, Frame

LEMMA ImageUploaded ==
  ASSUME IInv, NEW q \in Requests, NEW f \in Images, UploadImage(q, f)
  PROVE  IInv'
<1> DEFINE next == WithForm("template", f)
<1>1. /\ TypeOK /\ q \in Processes /\ process \in [Processes -> Process] /\ q \notin Workers
      /\ f \in Files
  BY DEF IInv, TypeInv, TypeOK, Processes
<1>2. /\ next \in Process /\ next.pc = "editing" /\ next.on = "template" /\ next.file = f /\ next.todo = <<>>
  BY <1>1, BeginWithForm DEF Blocks
<1>3. Become(q, next) /\ Fresh(f)
  BY DEF UploadImage, WithForm
<1> HIDE DEF next
<1>4. /\ process' \in [Processes -> Process] /\ process'[q] = next
      /\ \A o \in Processes \ {q} : process'[o] = process[o]
  BY <1>1, <1>2, <1>3, Becomes
<1>5. /\ UNCHANGED <<record, signed, queue, written, history, faults>>
      /\ store' = store \cup {f} /\ uploads' = uploads \cup {f} /\ At(q, "idle")
  BY DEF UploadImage
<1>6. TypeOK'
  BY <1>1, <1>4, <1>5 DEF TypeOK, queue, history
<1>7. Incoming(q, f) /\ ~Known(f)
  BY <1>3, FreshFile DEF Incoming
<1>8. Leaves(q)
  BY <1>1, <1>2, <1>4, <1>5, <1>7, EmptyRange, RowsStay DEF queue, history
<1>9. LeftWith(q)
  <2>1. Reads(q)' /\ Hands(q)' /\ ~At(q, "erasing")' /\ ~Bringing(q)'
    BY <1>1, <1>2, <1>4, <1>5 DEF Reads, Hands, Holding, Bringing, Opened, Draining, At, Blocks
  <2> QED BY <1>2, <1>3, <1>4, <2>1 DEF LeftWith
<1>10. KindsInv'
  BY <1>5 DEF IInv, KindsInv
<1>11. FilesMatchRows'
  <2>1. f \notin untried \cup Range(tried)
    BY <1>7 DEF Known
  <2>2. ASSUME NEW g \in store PROVE g \in uploads \cup untried \cup Range(tried) \cup InHand' \cup stranded
    BY <1>4, <1>5, <2>2, InHandLeft DEF IInv, FilesMatchRows, At
  <2> QED BY <1>5, <2>1, <2>2 DEF IInv, FilesMatchRows, queue, history
<1> QED BY <1>6, <1>8, <1>9, <1>10, <1>11, Frame

\* The row of an upload goes, and with it the only name it has.
LEMMA RowRemoved ==
  ASSUME IInv, NEW q \in Requests, RemoveRow(q)
  PROVE  IInv'
<1> DEFINE next == GoingOn(process[q], "dropping")
           f == process[q].file
<1>1. /\ TypeOK /\ q \in Processes /\ process \in [Processes -> Process] /\ process[q] \in Process
      /\ q \notin Workers /\ Reads(q) /\ Hands(q) /\ At(q, "removing") /\ Holding(q)
  BY DEF IInv, TypeInv, TypeOK, HandsInv, RemoveRow, At, Holding, Processes
<1>2. /\ next \in Process /\ next.pc = "dropping" /\ next.file = f /\ next.todo = process[q].todo
  BY <1>1, GoOn DEF Pcs
<1>3. Become(q, next)
  BY DEF RemoveRow, GoingOn
<1> HIDE DEF next
<1>4. /\ process' \in [Processes -> Process] /\ process'[q] = next
      /\ \A o \in Processes \ {q} : process'[o] = process[o]
  BY <1>1, <1>2, <1>3, Becomes
<1>5. /\ UNCHANGED <<signed, store, queue, written, history, faults>>
      /\ uploads' = uploads \ {f}
  BY DEF RemoveRow
<1>6. f \in Files /\ f \notin Images /\ f \notin record["invoice"].files
  BY <1>1 DEF Reads, Hands
<1>7. /\ record' \in [Records -> Record]
      /\ \A r \in Records : record'[r].files \subseteq record[r].files /\ record'[r].state = record[r].state
      /\ f \notin record'["client"].files
  <2> DEFINE row == [record["client"] EXCEPT !.files = record["client"].files \ {f}]
  <2>1. record \in [Records -> Record] /\ "client" \in Records /\ record["client"] \in Record
    BY <1>1 DEF TypeOK, Records
  <2>2. record["client"].files \ {f} \in SUBSET Files
    BY <2>1 DEF Record
  <2>3. row \in Record /\ row.files = record["client"].files \ {f} /\ row.state = record["client"].state
    BY <2>1, <2>2 DEF Record
  <2>4. record' = [record EXCEPT !["client"] = row]
    BY DEF RemoveRow
  <2> HIDE DEF row
  <2>5. /\ record' \in [Records -> Record] /\ record'["client"] = row
        /\ \A x \in Records \ {"client"} : record'[x] = record[x]
    BY <2>1, <2>3, <2>4, RecordReplaced
  <2> QED BY <2>3, <2>5
<1>8. TypeOK'
  BY <1>1, <1>4, <1>5, <1>7 DEF TypeOK, queue, history
<1>9. Leaves(q)
  <2>1. \A g \in Range(next.todo) : Known(g)
    BY <1>1, <1>2 DEF Known
  <2>2. \A g \in uploads \ uploads' : InHandOf(q, g) /\ g \notin Images
    BY <1>1, <1>5, <1>6 DEF InHandOf
  <2>3. uploads' \ uploads = {} /\ store' = store
    BY <1>5
  <2> QED BY <1>1, <1>2, <1>4, <1>5, <1>7, <2>1, <2>2, <2>3, RowsStay DEF queue, history
<1>10. LeftWith(q)
  <2>1. Reads(q)' /\ Hands(q)' /\ ~At(q, "erasing")' /\ ~Bringing(q)'
    BY <1>1, <1>2, <1>4, <1>5, <1>6 DEF Reads, Hands, Holding, Bringing, Opened, Draining, At
  <2> QED BY <1>2, <1>4, <2>1 DEF LeftWith
<1>11. KindsInv'
  BY <1>7 DEF IInv, KindsInv, Blocks, Records, Documents
<1>12. FilesMatchRows'
  <2>1. f \in InHand'
    BY <1>1, <1>2, <1>4, InHandThen
  <2>2. ASSUME NEW g \in store PROVE g \in uploads' \cup untried \cup Range(tried) \cup InHand' \cup stranded
    BY <1>1, <1>4, <1>5, <2>1, <2>2, InHandLeft DEF IInv, FilesMatchRows, At
  <2>3. \A r \in Records : f \notin record'[r].files
    <3>1. \A b \in Blocks : f \notin record[b].files
      BY <1>6 DEF IInv, KindsInv
    <3> QED BY <1>6, <1>7, <3>1 DEF Records, Documents, Blocks
  <2> QED BY <1>5, <1>7, <2>2, <2>3 DEF IInv, FilesMatchRows, queue, history
<1> QED BY <1>8, <1>9, <1>10, <1>11, <1>12, Frame

\* The object of a row that is gone is deleted, or stranded.
LEMMA ObjectDropped ==
  ASSUME IInv, NEW q \in Requests, DropObject(q)
  PROVE  IInv'
<1> DEFINE f == process[q].file
<1>1. /\ TypeOK /\ q \in Processes /\ process \in [Processes -> Process]
      /\ Reads(q) /\ Hands(q) /\ At(q, "dropping") /\ f \in Files /\ f \notin uploads
  BY DEF IInv, TypeInv, TypeOK, HandsInv, Hands, Reads, DropObject, At, Holding, Processes
<1>2. /\ UNCHANGED <<rows, queue, written, unguarded>> /\ Become(q, Idle)
  BY DEF DropObject, Return
<1>3. /\ process' \in [Processes -> Process] /\ process'[q] = Idle
      /\ \A o \in Processes \ {q} : process'[o] = process[o]
  BY <1>1, <1>2, IdleType, Becomes
<1>4. /\ store' \subseteq store /\ store \ store' \subseteq {f}
      /\ stranded \subseteq stranded' /\ stranded' \subseteq Files
      /\ f \in store' => f \in stranded'
      /\ faults' \in 0..MaxFaults
  BY <1>1 DEF DropObject, TypeOK
<1>5. TypeOK'
  BY <1>1, <1>2, <1>3, <1>4 DEF TypeOK, rows, queue
<1>6. LeftWith(q) /\ Range(process'[q].todo) = {} /\ process'[q].pc # "erasing"
  BY <1>1, <1>3, ReturnLeavesNothing
<1>7. Leaves(q)
  <2>1. \A g \in store \ store' : InHandOf(q, g)
    BY <1>1, <1>4 DEF InHandOf
  <2> QED BY <1>1, <1>2, <1>3, <1>4, <1>6, <2>1, RowsStay DEF rows, queue
<1>8. KindsInv'
  BY <1>2 DEF IInv, KindsInv, rows
<1>9. FilesMatchRows'
  <2>1. ASSUME NEW g \in store' PROVE g \in uploads \cup untried \cup Range(tried) \cup InHand' \cup stranded'
    BY <1>1, <1>3, <1>4, <2>1, InHandLeft DEF IInv, FilesMatchRows
  <2>2. uploads \subseteq store'
    BY <1>1, <1>4 DEF IInv, FilesMatchRows
  <2> QED BY <1>2, <2>1, <2>2 DEF IInv, FilesMatchRows, rows, queue
<1> QED BY <1>1, <1>5, <1>6, <1>7, <1>8, <1>9, Frame

-----------------------------------------------------------------------------
\* The steps that write a row.

\* A row that is there is written, and every open erasure has that in written.
LEMMA RowWritten ==
  ASSUME IInv, NEW r \in Records, Exists(r), NEW row \in Record, Write(r, row), UNCHANGED signed
  PROVE  /\ record' \in [Records -> Record] /\ record'[r] = row
         /\ \A x \in Records \ {r} : record'[x] = record[x]
         /\ written' \in [Processes -> SUBSET Records]
         /\ \A q \in Processes : At(q, "erasing") => Noted(q)
<1>1. record \in [Records -> Record] /\ written \in [Processes -> SUBSET Records]
  BY DEF IInv, TypeInv, TypeOK
<1>2. record' = [record EXCEPT ![r] = row] /\ written' = Wrote({r}, {})
  BY DEF Write
<1>3. /\ record' \in [Records -> Record] /\ record'[r] = row
      /\ \A x \in Records \ {r} : record'[x] = record[x]
  BY <1>1, <1>2, RecordReplaced
<1>4. /\ written' \in [Processes -> SUBSET Records]
      /\ \A q \in Processes : At(q, "erasing") => written'[q] = written[q] \cup {r}
  BY <1>1, <1>2 DEF Wrote
<1>5. ASSUME NEW q \in Processes, At(q, "erasing") PROVE Noted(q)
  BY <1>3, <1>4, <1>5 DEF Noted, Exists, Documents, Records
<1> QED BY <1>3, <1>4, <1>5

LEMMA PdfLinked ==
  ASSUME IInv, NEW w \in Processes, LinkPdf(w)
  PROVE  IInv'
<1> DEFINE f == process[w].file
           row == [record["invoice"] EXCEPT !.files = {f}]
<1>1. /\ TypeOK /\ process \in [Processes -> Process] /\ At(w, "linking")
      /\ Bringing(w) /\ Reads(w) /\ f \in Files /\ f \in uploads
  BY DEF IInv, TypeInv, TypeOK, LinkPdf, At, Bringing, Reads, Holding, HandsInv, Hands
<1>2. /\ UNCHANGED <<signed, uploads, store, queue, history, faults>> /\ Become(w, Idle)
  BY DEF LinkPdf, Return
<1>3. /\ process' \in [Processes -> Process] /\ process'[w] = Idle
      /\ \A q \in Processes \ {w} : process'[q] = process[q]
  BY <1>1, <1>2, IdleType, Becomes
<1>4. LeftWith(w) /\ Range(process'[w].todo) = {} /\ process'[w].pc # "erasing"
  BY <1>3, ReturnLeavesNothing
<1>5. CASE ~(Exists("invoice") /\ record["invoice"].files = {})
  <2>1. Return(w) /\ UNCHANGED <<record, written>>
    BY <1>5 DEF LinkPdf
  <2>2. ~(At(w, "recording") \/ At(w, "attaching") \/ At(w, "dropping"))
    BY <1>1 DEF At
  <2> QED BY <1>1, <1>2, <2>1, <2>2, JustReturns DEF rows, history, TypeOK
<1>6. CASE Exists("invoice") /\ record["invoice"].files = {}
  <2>1. Write("invoice", row)
    BY <1>6 DEF LinkPdf
  <2>2. "invoice" \in Records \ Blocks /\ record["invoice"] \in Record
    BY <1>1 DEF TypeOK, Records, Documents, Blocks
  <2>3. row \in Record /\ row.files = {f}
    BY <1>1, <2>2 DEF Record
  <2> HIDE DEF row
  <2>4. /\ record' \in [Records -> Record] /\ record'["invoice"] = row
        /\ \A x \in Records \ {"invoice"} : record'[x] = record[x]
        /\ written' \in [Processes -> SUBSET Records]
        /\ \A q \in Processes : At(q, "erasing") => Noted(q)
    BY <1>2, <1>6, <2>1, <2>2, <2>3, RowWritten
  <2>5. TypeOK'
    BY <1>1, <1>2, <1>3, <2>4 DEF TypeOK, queue, history
  <2>6. Incoming(w, f) /\ ~Known(f)
    BY <1>1 DEF Incoming, InHandOf, IInv, BringingInv
  <2>7. \A g : Known(g)' => Known(g) \/ g \in {f}
    <3>1. \A r \in Records : \A g \in record'[r].files : Known(g) \/ g \in {f}
      BY <2>3, <2>4 DEF Known
    <3>2. \A g \in untried' \cup Range(tried') : Known(g)
      BY <1>2 DEF Known, queue
    <3> QED BY <1>3, <1>4, <3>1, <3>2, KnownLeft
  <2>8. Leaves(w)
    <3>1. \A q \in Processes \ {w} : Opened(q) => process[q].file \in uploads' \cup unguarded'
      BY <1>2 DEF IInv, HandsInv, Hands, history
    <3>2. \A r \in Records \ Blocks : \A g \in record'[r].files : g \in record[r].files \/ Incoming(w, g)
      BY <2>3, <2>4, <2>6
    <3>3. \A g : Known(g)' => Known(g) \/ InHandOf(w, g)
      BY <2>7 DEF InHandOf
    <3> QED BY <1>2, <1>3, <2>4, <3>1, <3>2, <3>3 DEF Leaves
  <2>9. KindsInv'
    <3>1. f \notin record["client"].files
      BY <2>6 DEF Known, Records
    <3> QED BY <2>2, <2>3, <2>4, <3>1 DEF IInv, KindsInv, Records, Blocks, Documents
  <2>10. FilesMatchRows'
    <3>1. ASSUME NEW g \in store
          PROVE  g \in uploads \cup untried \cup Range(tried) \cup InHand' \cup stranded
      BY <1>1, <1>3, <3>1, InHandLeft DEF IInv, FilesMatchRows
    <3> QED BY <1>1, <1>2, <2>3, <2>4, <3>1 DEF IInv, FilesMatchRows, queue, history
  <2> QED BY <1>4, <2>5, <2>8, <2>9, <2>10, Frame
<1> QED BY <1>5, <1>6

LEMMA AttachmentInserted ==
  ASSUME IInv, NEW q \in Requests, InsertAttachment(q)
  PROVE  IInv'
<1> DEFINE f == process[q].file
           row == [record["client"] EXCEPT !.files = record["client"].files \cup {f}]
<1>1. /\ TypeOK /\ q \in Processes /\ process \in [Processes -> Process] /\ At(q, "attaching")
      /\ Bringing(q) /\ Reads(q) /\ f \in Files /\ f \in store
  BY DEF IInv, TypeInv, TypeOK, InsertAttachment, At, Bringing, Reads, Holding, HandsInv, Hands, Processes
<1>2. /\ UNCHANGED <<signed, store, queue, unguarded, faults>> /\ Become(q, Idle)
  BY DEF InsertAttachment, Return
<1>3. /\ process' \in [Processes -> Process] /\ process'[q] = Idle
      /\ \A o \in Processes \ {q} : process'[o] = process[o]
  BY <1>1, <1>2, IdleType, Becomes
<1>4. LeftWith(q) /\ Range(process'[q].todo) = {} /\ process'[q].pc # "erasing"
  BY <1>1, <1>3, ReturnLeavesNothing
<1>5. CASE ~Exists("client")
  <2>1. Return(q) /\ UNCHANGED <<record, uploads, written>> /\ stranded' = stranded \cup {f}
    BY <1>5 DEF InsertAttachment
  <2>2. stranded' \subseteq Files /\ faults' \in 0..MaxFaults /\ written' \in [Processes -> SUBSET Records]
    BY <1>1, <1>2, <2>1 DEF TypeOK
  <2>3. UNCHANGED <<rows, store, queue, unguarded>>
    BY <1>2, <2>1 DEF rows
  <2> QED BY <1>1, <2>1, <2>2, <2>3, JustReturns
<1>6. CASE Exists("client")
  <2>1. Write("client", row) /\ uploads' = uploads \cup {f} /\ stranded' = stranded
    BY <1>6 DEF InsertAttachment
  <2>2. "client" \in Records \ Blocks /\ record["client"] \in Record
    BY <1>1 DEF TypeOK, Records, Blocks
  <2>3. row \in Record /\ row.files = record["client"].files \cup {f}
    <3>1. record["client"].files \cup {f} \in SUBSET Files
      BY <1>1, <2>2 DEF Record
    <3> QED BY <2>2, <3>1 DEF Record
  <2> HIDE DEF row
  <2>4. /\ record' \in [Records -> Record] /\ record'["client"] = row
        /\ \A x \in Records \ {"client"} : record'[x] = record[x]
        /\ written' \in [Processes -> SUBSET Records]
        /\ \A o \in Processes : At(o, "erasing") => Noted(o)
    BY <1>2, <1>6, <2>1, <2>2, <2>3, RowWritten
  <2>5. TypeOK'
    BY <1>1, <1>2, <1>3, <2>1, <2>4 DEF TypeOK, queue
  <2>6. Incoming(q, f) /\ ~Known(f)
    BY <1>1 DEF Incoming, InHandOf, IInv, BringingInv
  <2>7. \A g : Known(g)' => Known(g) \/ g \in {f}
    <3>1. \A r \in Records : \A g \in record'[r].files : Known(g) \/ g \in {f}
      BY <2>3, <2>4 DEF Known
    <3>2. \A g \in untried' \cup Range(tried') : Known(g)
      BY <1>2 DEF Known, queue
    <3> QED BY <1>3, <1>4, <3>1, <3>2, KnownLeft
  <2>8. Leaves(q)
    <3>1. \A o \in Processes \ {q} : Opened(o) => process[o].file \in uploads' \cup unguarded'
      BY <1>2, <2>1 DEF IInv, HandsInv, Hands
    <3>2. \A r \in Records \ Blocks : \A g \in record'[r].files : g \in record[r].files \/ Incoming(q, g)
      BY <2>3, <2>4, <2>6
    <3>3. \A g : Known(g)' => Known(g) \/ InHandOf(q, g)
      BY <1>1, <2>7 DEF InHandOf
    <3> QED BY <1>2, <1>3, <2>1, <2>4, <2>6, <3>1, <3>2, <3>3 DEF Leaves
  <2>9. KindsInv'
    <3>1. f \notin record["invoice"].files
      BY <2>6 DEF Known, Records, Documents
    <3> QED BY <2>2, <2>3, <2>4, <3>1 DEF IInv, KindsInv, Records, Blocks, Documents
  <2>10. FilesMatchRows'
    <3>1. ASSUME NEW g \in store
          PROVE  g \in uploads' \cup untried \cup Range(tried) \cup InHand' \cup stranded
      BY <1>1, <1>3, <2>1, <3>1, InHandLeft DEF IInv, FilesMatchRows
    <3>2. f \notin untried \cup Range(tried)
      BY <2>6 DEF Known
    <3> QED BY <1>1, <1>2, <2>1, <2>3, <2>4, <3>1, <3>2 DEF IInv, FilesMatchRows, queue
  <2> QED BY <1>1, <1>4, <2>5, <2>8, <2>9, <2>10, Frame
<1> QED BY <1>5, <1>6

\* A form is saved only over a row that may be edited, and names a file it had in hand.
LEMMA BlocksSaved ==
  ASSUME IInv, NEW q \in Requests, SaveBlocks(q)
  PROVE  IInv'
<1> DEFINE b == process[q].on
           f == process[q].file
           row == [state |-> "live", files |-> {f}]
           rs == IF Live(b) THEN {b} ELSE {b, "client"}
<1>1. /\ TypeOK /\ q \in Processes /\ process \in [Processes -> Process]
      /\ Reads(q) /\ Hands(q) /\ (At(q, "editing") \/ At(q, "saving"))
  BY DEF IInv, TypeInv, TypeOK, HandsInv, SaveBlocks, Processes
<1>2. b \in Blocks /\ b \in Records /\ f \in Images /\ f \in Files /\ f \in uploads \cup unguarded
  BY <1>1 DEF Reads, Hands, Holding, Opened, At, Blocks, Records, Documents
<1>3. /\ UNCHANGED <<signed, uploads, store, queue, history, faults>> /\ Become(q, Idle)
  BY DEF SaveBlocks, Return
<1>4. /\ process' \in [Processes -> Process] /\ process'[q] = Idle
      /\ \A o \in Processes \ {q} : process'[o] = process[o]
  BY <1>1, <1>3, IdleType, Becomes
<1>5. LeftWith(q) /\ Range(process'[q].todo) = {} /\ process'[q].pc # "erasing"
  BY <1>1, <1>4, ReturnLeavesNothing
<1>6. ~(At(q, "recording") \/ At(q, "attaching") \/ At(q, "dropping"))
  BY <1>1 DEF At
<1>7. CASE ~Savable(b)
  <2>1. Return(q) /\ UNCHANGED <<record, written>>
    BY <1>7 DEF SaveBlocks
  <2> QED BY <1>1, <1>3, <1>6, <2>1, JustReturns DEF rows, history, TypeOK
<1>8. CASE Savable(b)
  <2>1. record' = [record EXCEPT ![b] = row] /\ written' = Wrote(rs, {})
    BY <1>8 DEF SaveBlocks
  <2>2. row \in Record /\ row.files = {f}
    BY <1>2 DEF Record
  <2>3. rs \in SUBSET Records /\ b \in rs /\ ("client" \notin rs => Live(b))
    BY <1>2 DEF Records
  <2> HIDE DEF row, rs
  <2>4. /\ record' \in [Records -> Record] /\ record'[b] = row
        /\ \A x \in Records \ {b} : record'[x] = record[x]
    BY <1>1, <1>2, <2>1, <2>2, RecordReplaced DEF TypeOK
  <2>5. /\ written' \in [Processes -> SUBSET Records]
        /\ \A o \in Processes : At(o, "erasing") => written'[o] = written[o] \cup rs
    BY <1>1, <2>1, <2>3 DEF TypeOK, Wrote
  <2>6. ASSUME NEW o \in Processes, At(o, "erasing") PROVE Noted(o)
    <3>1. "client" \notin written'[o] => \A d \in Documents : Exists(d)' => Exists(d)
      BY <2>3, <2>4, <2>5, <2>6 DEF Exists, Live, Documents, Records
    <3> QED BY <1>3, <2>3, <2>4, <2>5, <2>6, <3>1 DEF Noted
  <2>7. TypeOK'
    BY <1>1, <1>3, <1>4, <2>4, <2>5 DEF TypeOK, queue, history
  <2>8. \A g : Known(g)' => Known(g) \/ g \in {f}
    <3>1. \A r \in Records : \A g \in record'[r].files : Known(g) \/ g \in {f}
      BY <2>2, <2>4 DEF Known
    <3>2. \A g \in untried' \cup Range(tried') : Known(g)
      BY <1>3 DEF Known, queue
    <3> QED BY <1>4, <1>5, <3>1, <3>2, KnownLeft
  <2>9. Leaves(q)
    <3>1. \A o \in Processes \ {q} : Opened(o) => process[o].file \in uploads' \cup unguarded'
      BY <1>3 DEF IInv, HandsInv, Hands, history
    <3>2. \A r \in Records \ Blocks : \A g \in record'[r].files : g \in record[r].files \/ Incoming(q, g)
      BY <1>2, <2>4
    <3>3. \A g : Known(g)' => Known(g) \/ InHandOf(q, g)
      BY <1>1, <2>8 DEF InHandOf
    <3> QED BY <1>3, <1>4, <2>6, <3>1, <3>2, <3>3 DEF Leaves
  <2>10. KindsInv'
    BY <1>2, <2>2, <2>4 DEF IInv, KindsInv, Blocks, Records, Documents
  <2>11. FilesMatchRows'
    <3>1. ASSUME NEW g \in store
          PROVE  g \in uploads \cup untried \cup Range(tried) \cup InHand' \cup stranded
      BY <1>4, <1>6, <3>1, InHandLeft DEF IInv, FilesMatchRows
    <3>2. \A r \in Records : record'[r].files \subseteq uploads \cup (IF r \in Blocks THEN unguarded ELSE {})
      BY <1>2, <2>2, <2>4 DEF IInv, FilesMatchRows
    <3> QED BY <1>3, <3>1, <3>2 DEF IInv, FilesMatchRows, queue, history
  <2> QED BY <1>1, <1>5, <2>7, <2>9, <2>10, <2>11, Frame
<1> QED BY <1>7, <1>8

\* The heart of the matter: a row that survives the erasure names no upload that the erasure releases,
\* unless it is a block saved since the snapshot.
LEMMA ReleasedIsUnnamed ==
  ASSUME IInv, NEW p \in Processes, At(p, "erasing"),
         NEW r \in Records \ process[p].doomed, NEW f \in record[r].files, f \in Released(p)
  PROVE  r \in Blocks /\ f \in Unseen(p)
<1> DEFINE snap == process[p].snap
<1>1. Sees(p)
  BY DEF IInv, ErasureInv
<1>2. PICK x \in process[p].doomed : f \in snap[x]
  BY DEF Released
<1>3. f \notin snap[r]
  <2>1. f \notin (UNION {snap[y] : y \in Records \ process[p].doomed})
    BY DEF Released
  <2> QED BY <2>1
<1>4. x \in Records
  BY DEF IInv, TypeInv, TypeOK, Process
<1>5. r \in Blocks
  BY <1>1, <1>2, <1>3, <1>4 DEF Sees
<1>6. r \in written[p]
  BY <1>1, <1>3 DEF Sees
<1> QED BY <1>5, <1>6 DEF Unseen

LEMMA ErasureCommits ==
  ASSUME IInv, NEW p \in Processes, CommitErasure(p)
  PROVE  IInv'
<1> DEFINE R == Released(p)
           D == process[p].doomed
           gone == [state |-> "gone", files |-> {}]
<1>1. /\ TypeOK /\ process \in [Processes -> Process] /\ process[p] \in Process
      /\ At(p, "erasing") /\ D \in SUBSET Records
  BY DEF IInv, TypeInv, TypeOK, CommitErasure, Process
<1>2. /\ record' = [r \in Records |-> IF r \in D THEN gone ELSE record[r]]
      /\ uploads' = uploads \ R /\ untried' = untried \cup R
      /\ unguarded' = unguarded \cup (R \cap Unseen(p))
      /\ written' = Wrote(D, {p})
      /\ UNCHANGED <<signed, store, tried, stranded, faults>>
  BY DEF CommitErasure
<1>3. R \subseteq uploads /\ R \subseteq Files /\ \A f \in R : \E r \in Records : f \in process[p].snap[r]
  BY <1>1 DEF Released, TypeOK
<1>4. PICK s \in SetToSeqs(R) :
        Become(p, IF s = <<>> THEN Idle ELSE [Idle EXCEPT !.pc = "deleting", !.todo = s])
  BY DEF CommitErasure
<1>5. s \in Seq(Files) /\ Range(s) \subseteq R
  <2>1. IsFiniteSet(R)
    BY <1>3, FS_Subset
  <2>2. s \in Seq(R) /\ Range(s) \subseteq R
    BY <2>1, InSomeOrder
  <2> QED BY <1>3, <2>2, SeqMonotonic
<1> HIDE DEF R
<1>6. /\ process' \in [Processes -> Process]
      /\ \A q \in Processes \ {p} : process'[q] = process[q]
      /\ Range(process'[p].todo) \subseteq R
      /\ process'[p].pc # "erasing"
      /\ LeftWith(p)
  <2>1. CASE s = <<>>
    <3>1. /\ process' \in [Processes -> Process] /\ process'[p] = Idle
          /\ \A q \in Processes \ {p} : process'[q] = process[q]
      BY <1>1, <1>4, <2>1, IdleType, Becomes
    <3> QED BY <3>1, ReturnLeavesNothing
  <2>2. CASE s # <<>>
    <3> DEFINE next == WithQueue(s)
    <3>1. /\ next \in Process /\ next.pc = "deleting" /\ next.file = Null
          /\ next.todo = s /\ next.failed = 0
      BY <1>5, BeginWithQueue
    <3>2. Become(p, next)
      BY <1>4, <2>2 DEF WithQueue
    <3> HIDE DEF next
    <3>3. /\ process' \in [Processes -> Process] /\ process'[p] = next
          /\ \A q \in Processes \ {p} : process'[q] = process[q]
      BY <1>1, <3>1, <3>2, Becomes
    <3>4. Reads(p)' /\ Hands(p)' /\ ~At(p, "erasing")' /\ ~Bringing(p)'
      BY <1>2, <1>5, <2>2, <3>1, <3>3 DEF Reads, Hands, Holding, Bringing, Opened, Draining, At, Processes
    <3> QED BY <1>5, <3>1, <3>3, <3>4 DEF LeftWith
  <2> QED BY <2>1, <2>2
<1>7. /\ record' \in [Records -> Record]
      /\ \A r \in Records : /\ record'[r].files \subseteq record[r].files
                            /\ r \notin D => record'[r] = record[r]
                            /\ r \in D => record'[r].state = "gone" /\ record'[r].files = {}
  <2>1. gone \in Record /\ gone.state = "gone" /\ gone.files = {}
    BY DEF Record
  <2> HIDE DEF gone
  <2> QED BY <1>1, <1>2, <2>1 DEF TypeOK
<1>8. /\ written' \in [Processes -> SUBSET Records]
      /\ \A q \in Processes \ {p} : At(q, "erasing") => written'[q] = written[q] \cup D
  BY <1>1, <1>2 DEF TypeOK, Wrote
<1>9. TypeOK'
  <2>1. untried' \subseteq Files /\ untried' \cap Range(tried) = {} /\ unguarded' \subseteq Files
    BY <1>1, <1>2, <1>3 DEF TypeOK, IInv, FilesMatchRows
  <2> QED BY <1>1, <1>2, <1>6, <1>7, <1>8, <2>1 DEF TypeOK
<1>10. \A f \in R : Known(f)
  BY <1>1, <1>3 DEF Known
<1>11. Leaves(p)
  <2>1. ASSUME NEW q \in Processes \ {p}, At(q, "erasing") PROVE Noted(q)
    BY <1>2, <1>7, <1>8, <2>1 DEF Noted, Exists, Documents, Records
  <2>2. ASSUME NEW q \in Processes \ {p}, Opened(q) PROVE process[q].file \in uploads' \cup unguarded'
    <3>1. q \in Requests /\ process[q].file \in uploads \cup unguarded
      BY <2>2 DEF IInv, TypeInv, Reads, HandsInv, Hands, Opened, Processes
    <3>2. process[q].file \in Unseen(p)
      BY <2>2, <3>1 DEF Unseen, Opened, At
    <3> QED BY <1>2, <3>1, <3>2
  <2>3. \A f : Known(f)' => Known(f) \/ f \in {}
    <3>1. \A r \in Records : \A f \in record'[r].files : Known(f)
      BY <1>7 DEF Known
    <3>2. \A f \in untried' \cup Range(tried') : Known(f)
      BY <1>2, <1>10 DEF Known
    <3>3. \A f \in Range(process'[p].todo) : Known(f)
      BY <1>6, <1>10
    <3> QED BY <1>6, <3>1, <3>2, <3>3, KnownLeft
  <2>4. uploads' \ uploads = {} /\ uploads \ uploads' \subseteq R
    BY <1>2
  <2> QED BY <1>2, <1>6, <1>7, <1>10, <2>1, <2>2, <2>3, <2>4 DEF Leaves
<1>12. KindsInv'
  BY <1>7 DEF IInv, KindsInv, Blocks, Records, Documents
<1>13. FilesMatchRows'
  <2>1. \A r \in Records : record'[r].files \subseteq uploads' \cup (IF r \in Blocks THEN unguarded' ELSE {})
    <3>1. ASSUME NEW r \in Records, NEW f \in record'[r].files
          PROVE  f \in uploads' \cup (IF r \in Blocks THEN unguarded' ELSE {})
      <4>1. r \notin D /\ f \in record[r].files
        BY <1>7, <3>1
      <4>2. f \in uploads \cup (IF r \in Blocks THEN unguarded ELSE {})
        BY <4>1 DEF IInv, FilesMatchRows
      <4>3. f \in R => r \in Blocks /\ f \in Unseen(p)
        BY <1>1, <4>1, ReleasedIsUnnamed DEF R
      <4> QED BY <1>2, <4>2, <4>3
    <3> QED BY <3>1
  <2>2. ASSUME NEW g \in store
        PROVE  g \in uploads' \cup untried' \cup Range(tried) \cup InHand' \cup stranded
    BY <1>1, <1>2, <1>6, <2>2, InHandLeft DEF IInv, FilesMatchRows, At
  <2>3. uploads' \subseteq store /\ uploads' \cap (untried' \cup Range(tried)) = {}
    BY <1>2 DEF IInv, FilesMatchRows
  <2> QED BY <1>2, <2>1, <2>2, <2>3 DEF FilesMatchRows
<1> QED BY <1>6, <1>9, <1>11, <1>12, <1>13, Frame

-----------------------------------------------------------------------------
\* The steps of the owner and of the client.

LEMMA NobodyMoves ==
  ASSUME IInv, UNCHANGED <<uploads, store, queue, process, history>>,
         record' \in [Records -> Record], written' \in [Processes -> SUBSET Records],
         signed' \in BOOLEAN, faults' \in 0..MaxFaults,
         \A r \in Records : record'[r].files \subseteq record[r].files,
         \A q \in Processes : At(q, "erasing") => Noted(q)
  PROVE  IInv'
<1>1. TypeOK' /\ Null \notin Processes
  BY DEF IInv, TypeInv, TypeOK, queue, history
<1>2. Leaves(Null)
  <2>1. \A q \in Processes : Opened(q) => process[q].file \in uploads' \cup unguarded'
    BY DEF IInv, HandsInv, Hands, history
  <2>2. \A f : Known(f)' => Known(f)
    BY DEF Known, At, queue
  <2> QED BY <1>1, <2>1, <2>2 DEF Leaves
<1>3. KindsInv'
  BY DEF IInv, KindsInv, Blocks, Records, Documents
<1>4. FilesMatchRows'
  <2>1. InHand' = InHand
    BY DEF InHand, At
  <2> QED BY <2>1 DEF IInv, FilesMatchRows, queue, history
<1> QED BY <1>1, <1>2, <1>3, <1>4, Frame

LEMMA InvoiceCreated == ASSUME IInv, CreateInvoice PROVE IInv'
<1> DEFINE row == [record["invoice"] EXCEPT !.state = "live"]
           rs  == {"invoice", "client"}
<1>1. /\ record \in [Records -> Record] /\ written \in [Processes -> SUBSET Records]
      /\ "invoice" \in Records /\ record["invoice"] \in Record /\ signed \in BOOLEAN /\ faults \in 0..MaxFaults
  BY DEF IInv, TypeInv, TypeOK, Records, Documents
<1>2. record' = [record EXCEPT !["invoice"] = row] /\ written' = Wrote(rs, {})
  BY DEF CreateInvoice
<1>3. row \in Record /\ row.files = record["invoice"].files
  BY <1>1 DEF Record
<1> HIDE DEF row
<1>4. /\ record' \in [Records -> Record] /\ record'["invoice"] = row
      /\ \A x \in Records \ {"invoice"} : record'[x] = record[x]
  BY <1>1, <1>2, <1>3, RecordReplaced
<1>5. rs \in SUBSET Records /\ "client" \in rs /\ "invoice" \in rs
  BY DEF Records, Documents
<1> HIDE DEF rs
<1>6. /\ written' \in [Processes -> SUBSET Records]
      /\ \A q \in Processes : At(q, "erasing") => written'[q] = written[q] \cup rs
  BY <1>1, <1>2, <1>5 DEF Wrote
<1>7. UNCHANGED <<signed, uploads, store, queue, process, history, faults>>
  BY DEF CreateInvoice
<1>8. \A q \in Processes : At(q, "erasing") => Noted(q)
  BY <1>4, <1>5, <1>6, <1>7 DEF Noted
<1> QED BY <1>1, <1>3, <1>4, <1>6, <1>7, <1>8, NobodyMoves

LEMMA OneRowWritten ==
  ASSUME IInv, NEW r \in Records, Exists(r), NEW row \in Record, row.files \subseteq record[r].files,
         Write(r, row), UNCHANGED <<signed, uploads, store, queue, process, history>>,
         faults' \in 0..MaxFaults
  PROVE  IInv'
<1>1. signed \in BOOLEAN
  BY DEF IInv, TypeInv, TypeOK
<1>2. /\ record' \in [Records -> Record] /\ record'[r] = row
      /\ \A x \in Records \ {r} : record'[x] = record[x]
      /\ written' \in [Processes -> SUBSET Records]
      /\ \A q \in Processes : At(q, "erasing") => Noted(q)
  BY RowWritten
<1> QED BY <1>1, <1>2, NobodyMoves

LEMMA InvoiceRepriced == ASSUME IInv, RepriceInvoice PROVE IInv'
<1> DEFINE row == [record["invoice"] EXCEPT !.files = {}]
<1>1. "invoice" \in Records /\ record["invoice"] \in Record /\ faults \in 0..MaxFaults
  BY DEF IInv, TypeInv, TypeOK, Records, Documents
<1>2. row \in Record /\ row.files = {}
  BY <1>1 DEF Record
<1>3. Write("invoice", row) /\ Exists("invoice")
  BY DEF RepriceInvoice, Live, Exists
<1> HIDE DEF row
<1> QED BY <1>1, <1>2, <1>3, OneRowWritten DEF RepriceInvoice

LEMMA ContractSigned == ASSUME IInv, SignContract PROVE IInv'
<1>1. /\ record \in [Records -> Record] /\ written \in [Processes -> SUBSET Records]
      /\ faults \in 0..MaxFaults /\ "contract" \in Records
  BY DEF IInv, TypeInv, TypeOK, Records, Documents
<1>2. /\ written' \in [Processes -> SUBSET Records]
      /\ \A q \in Processes : At(q, "erasing") => written'[q] = written[q] \cup {"contract"}
  BY <1>1 DEF SignContract, Wrote
<1>3. signed' = TRUE /\ UNCHANGED <<record, uploads, store, queue, process, history, faults>>
  BY DEF SignContract
<1>4. \A q \in Processes : At(q, "erasing") => Noted(q)
  BY <1>2, <1>3 DEF Noted, Exists
<1> QED BY <1>1, <1>2, <1>3, <1>4, NobodyMoves

LEMMA RecordTrashed == ASSUME IInv, NEW r \in Records, SoftDelete(r) PROVE IInv'
<1> DEFINE row == [record[r] EXCEPT !.state = "trashed"]
<1>1. record[r] \in Record /\ faults \in 0..MaxFaults
  BY DEF IInv, TypeInv, TypeOK
<1>2. row \in Record /\ row.files = record[r].files
  BY <1>1 DEF Record
<1>3. Write(r, row) /\ Exists(r)
  BY DEF SoftDelete, Live, Exists
<1> HIDE DEF row
<1> QED BY <1>1, <1>2, <1>3, OneRowWritten DEF SoftDelete

LEMMA RecordRestored == ASSUME IInv, NEW r \in Records, Restore(r) PROVE IInv'
<1> DEFINE row == [record[r] EXCEPT !.state = "live"]
<1>1. record[r] \in Record /\ faults \in 0..MaxFaults
  BY DEF IInv, TypeInv, TypeOK
<1>2. row \in Record /\ row.files = record[r].files
  BY <1>1 DEF Record
<1>3. Write(r, row) /\ Exists(r) /\ faults' \in 0..MaxFaults
  BY <1>1 DEF Restore, Exists
<1> HIDE DEF row
<1> QED BY <1>1, <1>2, <1>3, OneRowWritten DEF Restore

LEMMA WindowPassed == ASSUME IInv, NEW r \in Records, WindowPasses(r) PROVE IInv'
<1> DEFINE row == [record[r] EXCEPT !.state = "due"]
<1>1. /\ record \in [Records -> Record] /\ written \in [Processes -> SUBSET Records]
      /\ record[r] \in Record /\ signed \in BOOLEAN /\ faults \in 0..MaxFaults
  BY DEF IInv, TypeInv, TypeOK
<1>2. row \in Record /\ row.files = record[r].files /\ row.state = "due"
  BY <1>1 DEF Record
<1>3. /\ record' = [record EXCEPT ![r] = row] /\ record[r].state = "trashed"
      /\ UNCHANGED <<signed, uploads, store, queue, process, written, history, faults>>
  BY DEF WindowPasses
<1> HIDE DEF row
<1>4. /\ record' \in [Records -> Record] /\ record'[r] = row
      /\ \A x \in Records \ {r} : record'[x] = record[x]
  BY <1>1, <1>2, <1>3, RecordReplaced
<1>5. \A q \in Processes : At(q, "erasing") => Noted(q)
  BY <1>2, <1>3, <1>4 DEF Noted, Exists, Documents, Records
<1> QED BY <1>1, <1>2, <1>3, <1>4, <1>5, NobodyMoves

-----------------------------------------------------------------------------
\* The theorems.

LEMMA InitInv == Init => IInv
<1> SUFFICES ASSUME Init PROVE IInv
  OBVIOUS
<1>1. \A r \in Records : record[r].state \in {"none", "live"} /\ record[r].files = {}
  BY DEF Init
<1>2. <<>> \in Seq(Files) /\ IsInjective(<<>>) /\ Range(<<>>) = {}
  BY EmptySeq, EmptyRange DEF IsInjective
<1>3. \A p \in Processes : /\ process[p] = Idle /\ process[p].pc = "idle" /\ process[p].file = Null
                           /\ process[p].todo = <<>>
  BY DEF Init, Idle
<1>4. TypeOK
  <2>1. record \in [Records -> Record]
    BY DEF Init, Record
  <2>2. process \in [Processes -> Process] /\ written \in [Processes -> SUBSET Records]
    BY IdleType DEF Init
  <2>3. uploads = {} /\ store = {} /\ untried = {} /\ tried = <<>> /\ stranded = {} /\ unguarded = {}
        /\ faults = 0 /\ signed = FALSE
    BY DEF Init
  <2>4. tried \in Seq(Files) /\ IsInjective(tried) /\ untried \cap Range(tried) = {}
    BY <1>2, <2>3
  <2>5. /\ uploads \subseteq Files /\ store \subseteq Files /\ untried \subseteq Files
        /\ stranded \subseteq Files /\ unguarded \subseteq Files
    BY <2>3
  <2>6. MaxFaults \in Nat /\ faults = 0
    BY <2>3
  <2>7. faults \in 0..MaxFaults
    BY <2>6
  <2>8. signed \in BOOLEAN
    BY <2>3
  <2> QED BY <2>1, <2>2, <2>4, <2>5, <2>7, <2>8 DEF TypeOK
<1>5. TypeInv /\ HandsInv /\ BringingInv /\ ErasureInv
  BY <1>3, <1>4 DEF TypeInv, Reads, HandsInv, Hands, BringingInv, ErasureInv, Holding, Bringing, Opened, Draining, At
<1>6. KindsInv
  BY <1>1 DEF KindsInv, Records, Blocks, Documents
<1>7. FilesMatchRows
  BY <1>1, <1>2 DEF Init, FilesMatchRows
<1> QED BY <1>5, <1>6, <1>7 DEF IInv

LEMMA HandlerSteps == ASSUME IInv, NEW p \in Processes, Handle(p) \/ Crash(p) PROVE IInv'
<1>1. ASSUME At(p, "attaching") \/ At(p, "removing") \/ At(p, "dropping") PROVE p \in Requests
  BY <1>1 DEF IInv, TypeInv, Reads, At, Processes
<1>2. CASE InsertAttachment(p)
  BY <1>1, <1>2, AttachmentInserted DEF InsertAttachment
<1>3. CASE RemoveRow(p)
  BY <1>1, <1>3, RowRemoved DEF RemoveRow
<1>4. CASE DropObject(p)
  BY <1>1, <1>4, ObjectDropped DEF DropObject
<1>5. CASE PutObject(p) \/ RecordUpload(p) \/ LinkPdf(p)
  BY <1>5, ObjectPut, UploadRecorded, PdfLinked
<1>6. CASE CommitErasure(p) \/ AbortErasure(p) \/ Crash(p)
  BY <1>6, ErasureCommits, ErasureAborts, ProcessDies
<1>7. CASE DeleteObject(p) \/ Dequeue(p) \/ RecordFailure(p)
  BY <1>7, ObjectDeleted, KeyDequeued, FailureRecorded
<1> QED BY <1>2, <1>3, <1>4, <1>5, <1>6, <1>7 DEF Handle

LEMMA WorkSteps == ASSUME IInv, NEW w \in Workers, Work(w) PROVE IInv'
BY RenderStarts, PurgeBegins, SweepBegins DEF Work

LEMMA AskSteps == ASSUME IInv, NEW q \in Requests, Ask(q) PROVE IInv'
<1>1. CASE BeginForget(q)
  BY <1>1, ForgetBegins
<1>2. CASE \E f \in Files \ Images : StartAttach(q, f) \/ StartRemove(q, f)
  BY <1>2, AttachmentStarts, RemovalStarts
<1>3. CASE \E f \in Images : UploadImage(q, f)
  BY <1>3, ImageUploaded
<1>4. CASE \E b \in Blocks, f \in Files : OpenForm(q, b, f)
  BY <1>4, FormOpens
<1>5. CASE CheckImages(q) \/ SaveBlocks(q) \/ Discard(q)
  BY <1>5, ImagesChecked, BlocksSaved, FormCloses
<1> QED BY <1>1, <1>2, <1>3, <1>4, <1>5 DEF Ask

LEMMA OwnerSteps == ASSUME IInv, Owner PROVE IInv'
BY InvoiceCreated, InvoiceRepriced, ContractSigned, RecordTrashed, RecordRestored, WindowPassed DEF Owner

LEMMA Stuttering == ASSUME IInv, UNCHANGED vars PROVE IInv'
<1>1. UNCHANGED <<uploads, store, queue, process, history, record, written, signed, faults>>
  BY DEF vars, rows
<1>2. TypeOK
  BY DEF IInv, TypeInv
<1>3. \A q \in Processes : At(q, "erasing") => Noted(q)
  BY <1>1, NotedUnchanged
<1> QED BY <1>1, <1>2, <1>3, NobodyMoves DEF TypeOK

LEMMA NextInv == IInv /\ [Next]_vars => IInv'
BY HandlerSteps, WorkSteps, AskSteps, OwnerSteps, Stuttering DEF Next

\* What a file on its way in, a file in hand, an open erasure and a drain rely on holds through
\* every interleaving of renders, uploads, removals, edits, purges, drains and crashes.
THEOREM Inductive == Spec => []IInv
BY InitInv, NextInv, PTL DEF Spec

\* The rows, objects and queues keep their types; in particular a failed key is queued once, and never in
\* both parts of the queue: recordFailedAttempt moves the row of object_deletions, it adds none.
THEOREM TypeCorrect == Spec => []TypeOK
<1>1. IInv => TypeOK
  BY DEF IInv, TypeInv
<1> QED BY <1>1, Inductive, PTL

\* Rows and objects agree: whatever selectReleasedUploadIds releases is named by no surviving row except a
\* block saved behind the erasure's back, and an object is deleted only when its upload is gone.
THEOREM FilesAgree == Spec => []FilesMatchRows
<1>1. IInv => FilesMatchRows
  BY DEF IInv
<1> QED BY <1>1, Inductive, PTL

-----------------------------------------------------------------------------
\* What a purge takes.

Takes(r) == Exists(r) /\ record'[r].state = "gone"

LEMMA HandlersTakeNothing ==
  ASSUME TypeOK, NEW r \in Records, NEW p \in Processes,
         Handle(p) \/ Crash(p), ~CommitErasure(p)
  PROVE  ~Takes(r)
<1>1. record \in [Records -> Record] /\ {"client", "invoice"} \subseteq Records
  BY DEF TypeOK, Records, Documents
<1>2. UNCHANGED record => ~Takes(r)
  BY DEF Takes, Exists
<1>3. CASE LinkPdf(p)
  <2> DEFINE row == [record["invoice"] EXCEPT !.files = {process[p].file}]
  <2>1. UNCHANGED record \/ (Exists("invoice") /\ record' = [record EXCEPT !["invoice"] = row])
    BY <1>3 DEF LinkPdf, Write
  <2>2. Exists("invoice") /\ record' = [record EXCEPT !["invoice"] = row] => record'[r].state = record[r].state
    BY <1>1 DEF Record
  <2> QED BY <1>2, <2>1, <2>2 DEF Takes, Exists
<1>4. CASE InsertAttachment(p)
  <2> DEFINE row == [record["client"] EXCEPT !.files = @ \cup {process[p].file}]
  <2>1. UNCHANGED record \/ record' = [record EXCEPT !["client"] = row]
    BY <1>4 DEF InsertAttachment, Write
  <2>2. record' = [record EXCEPT !["client"] = row] => record'[r].state = record[r].state
    BY <1>1 DEF Record
  <2> QED BY <1>2, <2>1, <2>2 DEF Takes, Exists
<1>5. CASE RemoveRow(p)
  <2>1. record' = [record EXCEPT !["client"].files = @ \ {process[p].file}]
    BY <1>5 DEF RemoveRow
  <2>2. record'[r].state = record[r].state
    BY <1>1, <2>1 DEF Record
  <2> QED BY <2>2 DEF Takes, Exists
<1>6. CASE PutObject(p) \/ RecordUpload(p) \/ AbortErasure(p) \/ DropObject(p) \/ Crash(p)
  BY <1>2, <1>6 DEF PutObject, RecordUpload, AbortErasure, DropObject, Crash, rows
<1>7. CASE DeleteObject(p) \/ Dequeue(p) \/ RecordFailure(p)
  BY <1>2, <1>7 DEF DeleteObject, Dequeue, RecordFailure, rows
<1> QED BY <1>3, <1>4, <1>5, <1>6, <1>7 DEF Handle

LEMMA WorkersTakeNothing == ASSUME NEW r \in Records, NEW w \in Workers, Work(w) PROVE ~Takes(r)
BY DEF Work, StartRender, BeginPurge, BeginErasure, BeginSweep, rows, Takes, Exists

LEMMA RequestsTakeNothing ==
  ASSUME TypeOK, NEW r \in Records, NEW q \in Requests, Ask(q)
  PROVE  ~Takes(r)
<1>1. record \in [Records -> Record]
  BY DEF TypeOK
<1>2. UNCHANGED record => ~Takes(r)
  BY DEF Takes, Exists
<1>3. CASE SaveBlocks(q)
  <2>1. UNCHANGED record \/ record' = [record EXCEPT ![process[q].on] = [state |-> "live", files |-> {process[q].file}]]
    BY <1>3 DEF SaveBlocks
  <2>2. record' = [record EXCEPT ![process[q].on] = [state |-> "live", files |-> {process[q].file}]]
          => record'[r] = record[r] \/ record'[r].state = "live"
    BY <1>1
  <2> QED BY <1>2, <2>1, <2>2 DEF Takes, Exists
<1>4. CASE BeginForget(q) \/ CheckImages(q) \/ Discard(q)
  BY <1>2, <1>4 DEF BeginForget, BeginErasure, CheckImages, Discard, rows
<1>5. CASE \E f \in Files \ Images : StartAttach(q, f) \/ StartRemove(q, f)
  BY <1>2, <1>5 DEF StartAttach, StartRemove, rows
<1>6. CASE \E f \in Images : UploadImage(q, f)
  BY <1>2, <1>6 DEF UploadImage
<1>7. CASE \E b \in Blocks, f \in Files : OpenForm(q, b, f)
  BY <1>2, <1>7 DEF OpenForm, rows
<1> QED BY <1>3, <1>4, <1>5, <1>6, <1>7 DEF Ask

LEMMA OwnerTakesNothing == ASSUME TypeOK, NEW r \in Records, Owner PROVE ~Takes(r)
<1>1. record \in [Records -> Record] /\ "invoice" \in Records
  BY DEF TypeOK, Records, Documents
<1>2. CASE CreateInvoice
  <2>1. record' = [record EXCEPT !["invoice"].state = "live"]
    BY <1>2 DEF CreateInvoice
  <2> QED BY <1>1, <2>1 DEF Record, Takes, Exists
<1>3. CASE RepriceInvoice
  <2>1. record' = [record EXCEPT !["invoice"] = [record["invoice"] EXCEPT !.files = {}]]
    BY <1>3 DEF RepriceInvoice, Write
  <2> QED BY <1>1, <2>1 DEF Record, Takes, Exists
<1>4. CASE SignContract
  BY <1>4 DEF SignContract, Takes, Exists
<1>5. CASE \E x \in Records : SoftDelete(x) \/ Restore(x) \/ WindowPasses(x)
  <2>1. PICK x \in Records : SoftDelete(x) \/ Restore(x) \/ WindowPasses(x)
    BY <1>5
  <2>2. PICK state \in {"live", "trashed", "due"} : record' = [record EXCEPT ![x] = [record[x] EXCEPT !.state = state]]
    BY <2>1 DEF SoftDelete, Restore, WindowPasses, Write
  <2> QED BY <1>1, <2>2 DEF Record, Takes, Exists
<1> QED BY <1>2, <1>3, <1>4, <1>5 DEF Owner

\* An erasure that commits takes what it chose, and the reasons for its choice still stand.
LEMMA ErasureTakesTheDue ==
  ASSUME IInv, NEW p \in Processes, CommitErasure(p), NEW r \in Records, Takes(r)
  PROVE  /\ \/ record[r].state = "due"
            \/ r # "template" /\ \E q \in Requests : At(q, "erasing")
         /\ r = "contract" => ~signed
         /\ r = "client" => \A d \in Documents : record'[d].state \in {"none", "gone"}
<1>1. At(p, "erasing") /\ process[p].doomed \cap written[p] = {} /\ Chose(p)
  BY DEF CommitErasure, Conflicts, IInv, ErasureInv
<1>2. record' = [x \in Records |-> IF x \in process[p].doomed THEN [state |-> "gone", files |-> {}] ELSE record[x]]
  BY DEF CommitErasure
<1>3. r \in process[p].doomed
  BY <1>2 DEF Takes, Exists
<1>4. r \in Chosen(p)
  BY <1>1, <1>3 DEF Chosen
<1>5. record[r].state = "due" \/ (r # "template" /\ \E q \in Requests : At(q, "erasing"))
  BY <1>1, <1>3, <1>4 DEF Chose, Processes
<1>6. r = "contract" => ~signed
  BY <1>1, <1>4 DEF Chose
<1>7. r = "client" => \A d \in Documents : record'[d].state \in {"none", "gone"}
  BY <1>1, <1>2, <1>4 DEF Chose, Exists, Records
<1> QED BY <1>5, <1>6, <1>7

\* A purge takes what is due and nothing else.  Between the snapshot of runRetentionPurge and its commit a
\* record may be restored, a contract signed and a new document written for a client: each of these
\* writes a row that the purge would delete, and the database refuses it.  So does it for
\* forgetClientWrite, the only other way for a record to go.
THEOREM TakesOnlyTheDue == Spec => PurgeTakesOnlyTheDue
<1> DEFINE Right(r) == /\ \/ record[r].state = "due"
                          \/ r # "template" /\ \E q \in Requests : At(q, "erasing")
                       /\ r = "contract" => ~signed
                       /\ r = "client" => \A d \in Documents : record'[d].state \in {"none", "gone"}
<1>1. ASSUME IInv, [Next]_vars, NEW r \in Records, Takes(r) PROVE Right(r)
  <2>1. TypeOK
    BY <1>1 DEF IInv, TypeInv
  <2>2. \E p \in Processes : CommitErasure(p)
    <3>1. ~UNCHANGED vars
      BY <1>1 DEF Takes, Exists, vars, rows
    <3> QED BY <1>1, <2>1, <3>1, HandlersTakeNothing, WorkersTakeNothing, RequestsTakeNothing,
               OwnerTakesNothing DEF Next
  <2> QED BY <1>1, <2>2, ErasureTakesTheDue
<1>2. IInv /\ [Next]_vars =>
        \A r \in Records : Exists(r) /\ record'[r].state = "gone" =>
          /\ \/ record[r].state = "due"
             \/ r # "template" /\ \E q \in Requests : At(q, "erasing")
          /\ r = "contract" => ~signed
          /\ r = "client" => \A d \in Documents : record'[d].state \in {"none", "gone"}
  BY <1>1 DEF Takes
<1> QED BY <1>2, Inductive, PTL DEF Spec, PurgeTakesOnlyTheDue
=============================================================================
