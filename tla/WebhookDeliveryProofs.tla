------------------------ MODULE WebhookDeliveryProofs ------------------------
(***************************************************************************)
(* Proofs about WebhookDelivery, for any endpoints, deliveries, workers    *)
(* and bounds: its types, and the safety properties the runs check.        *)
(*                                                                         *)
(* The argument is who may still count an ended delivery.  A delivery is   *)
(* ended by one conditional update, which asks for a pending row: whoever  *)
(* makes it is the only actor that goes on to settle the delivery, and     *)
(* nobody has counted it before.                                           *)
(***************************************************************************)
EXTENDS WebhookDelivery, FiniteSetTheorems, TLAPS

\* Types.  The rows are functions, which a TypeOK that TLC can evaluate leaves open.
EndpointOK ==
  /\ endpoint \in [Endpoints -> Endpoint]
  /\ \A e \in Endpoints : endpoint[e].state = "off" <=> endpoint[e].disabledReason # Null
DeliveryOK == delivery = [d \in Deliveries |-> delivery[d]] /\ \A d \in Deliveries : delivery[d] \in Delivery
CountedOK  == counted \in [Deliveries -> Nat]
JobOK      == job \in [Deliveries -> Job]
ActorOK    == actor \in [Actors -> Actor]
ProducerOK == selected \subseteq SUBSET Deliveries /\ unqueued \subseteq Deliveries
FaultsOK   == failures \in 0..MaxFailures /\ crashes \in 0..MaxCrashes /\ losses \in 0..MaxLosses

TypeInv == EndpointOK /\ DeliveryOK /\ CountedOK /\ JobOK /\ ActorOK /\ ProducerOK /\ FaultsOK

Undelivered(d) == \A k \in 1..Len(delivery[d].attempts) : delivery[d].attempts[k] # "delivered"

\* LogTellsTheStory, delivery by delivery.
Story(d) ==
  LET log == delivery[d].attempts
  IN  /\ Len(log) = delivery[d].attemptCount /\ Len(log) <= MaxAttempts
      /\ \A k \in 1..Len(log) - 1 : log[k] = "retryable"
      /\ Pending(d) /\ log # <<>> => log[Len(log)] = "retryable" /\ Len(log) < MaxAttempts
      /\ delivery[d].status = "succeeded" => log # <<>> /\ log[Len(log)] = "delivered"
      /\ delivery[d].status = "failed" => Undelivered(d)

\* CountedOnce, delivery by delivery.
Once(d) ==
  counted[d] <= 1 /\ (counted[d] = 1 => delivery[d].status \in {"failed", "deleted"} /\ Undelivered(d))

\* A delivery has an endpoint; one that is not inserted has nothing else.
Row(d) ==
  /\ delivery[d].status # "none" => delivery[d].endpoint \in Endpoints
  /\ delivery[d].status = "none" => delivery[d].attempts = <<>> /\ d \notin unqueued

\* A job that may still be tried has attempts left.
Queued(d) ==
  /\ job[d].owner # Null => job[d].state = "active"
  /\ job[d].state \in {"waiting", "active"} => job[d].made < MaxAttempts
  /\ delivery[d].status = "none" \/ d \in unqueued => job[d] = NoJob

\* A delivery that is chosen is in one batch, and not inserted yet.
Chosen ==
  \A batch \in selected : \A d \in batch :
    /\ delivery[d].status = "none" /\ delivery[d].endpoint \in Endpoints
    /\ \A other \in selected : d \in other => other = batch

\* The deliveries of e that count as failed.
FailedOf(e) == {d \in Deliveries : delivery[d].endpoint = e /\ counted[d] > 0}

\* What an actor that is this far may rely on.  One that settles a delivery has ended it, and nobody
\* has counted it.
Task(a) ==
  LET d == actor[a].id
  IN  /\ a \in Workers => actor[a].pc # "exhausted"
      /\ a \in Deliveries =>
           /\ actor[a].pc \in {"idle", "exhausted", "settling", "disabling", "pruning", "trimming"}
           /\ actor[a].pc # "idle" => d = a
      /\ actor[a].pc # "idle" => d \in Deliveries /\ delivery[d].status # "none"
      /\ actor[a].pc = "recording" =>
           /\ actor[a].outcome \in Outcomes
           /\ actor[a].decision = Decide(actor[a].outcome, actor[a].count + 1)
      /\ actor[a].pc = "settling" =>
           /\ counted[d] = 0
           /\ \/ actor[a].decision = "succeeded" /\ delivery[d].status \in {"succeeded", "deleted"}
              \/ /\ actor[a].decision = "failed" /\ delivery[d].status \in {"failed", "deleted"}
                 /\ Undelivered(d)
      /\ actor[a].pc = "disabling" =>
           \A e \in Endpoints : delivery[d].endpoint = e => Cardinality(FailedOf(e)) >= DisableAfter

\* An ended delivery has at most one actor left to count it.
OneSettles ==
  \A a, b \in Actors :
    actor[a].pc = "settling" /\ actor[b].pc = "settling" /\ actor[a].id = actor[b].id => a = b

\* StreakOfDistinctDeliveries, endpoint by endpoint.
Streak(e) ==
  /\ endpoint[e].consecutiveFailures <= Cardinality(FailedOf(e))
  /\ endpoint[e].disabledReason = "consecutive_failures" => Cardinality(FailedOf(e)) >= DisableAfter

IInv ==
  /\ TypeInv
  /\ \A d \in Deliveries : Story(d) /\ Once(d) /\ Row(d) /\ Queued(d)
  /\ Chosen
  /\ \A a \in Actors : Task(a)
  /\ OneSettles
  /\ \A e \in Endpoints : Streak(e)

USE WebhookAssumption

-----------------------------------------------------------------------------
\* What every step leaves to those that come after it.

\* An ended delivery stays as it ended, and a failure stays counted.
Onward(d) ==
  /\ delivery[d].status # "none" =>
       delivery'[d].status # "none" /\ delivery'[d].endpoint = delivery[d].endpoint
  /\ Ended(d) => /\ delivery'[d].status \in {delivery[d].status, "deleted"}
                 /\ delivery'[d].attempts = delivery[d].attempts
  /\ counted[d] <= counted'[d]

Forward == \A d \in Deliveries : Onward(d)

Kept == IInv' /\ Forward

LEMMA FailedFinite ==
  ASSUME NEW e
  PROVE  IsFiniteSet(FailedOf(e)) /\ Cardinality(FailedOf(e)) \in Nat
BY FS_Subset, FS_CardinalityType DEF FailedOf

LEMMA FailedGrow ==
  ASSUME IInv, CountedOK', Forward, NEW e \in Endpoints
  PROVE  /\ Cardinality(FailedOf(e)) <= Cardinality(FailedOf(e)')
         /\ Cardinality(FailedOf(e)) \in Nat /\ Cardinality(FailedOf(e)') \in Nat
<1>1. FailedOf(e) \subseteq FailedOf(e)'
  <2> SUFFICES ASSUME NEW d \in FailedOf(e) PROVE d \in FailedOf(e)'
    OBVIOUS
  <2>1. d \in Deliveries /\ delivery[d].endpoint = e /\ counted[d] > 0
    BY DEF FailedOf
  <2>2. counted[d] \in Nat /\ counted'[d] \in Nat /\ Once(d) /\ Onward(d)
    BY <2>1 DEF IInv, TypeInv, CountedOK, Forward
  <2>3. delivery[d].status # "none"
    BY <2>1, <2>2 DEF Once
  <2> QED BY <2>1, <2>2, <2>3 DEF FailedOf, Onward
<1>2. FailedOf(e)' \in SUBSET Deliveries
  BY DEF FailedOf
<1>3. IsFiniteSet(FailedOf(e)')
  BY <1>2, FS_Subset
<1> QED BY <1>1, <1>3, FS_Subset, FS_CardinalityType

LEMMA TaskKept ==
  ASSUME IInv, CountedOK', Forward, NEW a \in Actors, actor'[a] = actor[a],
         actor[a].pc = "settling" => counted'[actor[a].id] = counted[actor[a].id]
  PROVE  Task(a)'
<1>1. Task(a)
  BY DEF IInv
<1>2. CASE actor[a].pc = "idle"
  BY <1>1, <1>2 DEF Task
<1>3. CASE actor[a].pc # "idle"
  <2>1. PICK d \in Deliveries : actor[a].id = d /\ delivery[d].status # "none" /\ Onward(d)
    BY <1>1, <1>3 DEF Task, Forward
  <2>2. actor'[a].id = d /\ delivery'[d].status # "none" /\ delivery'[d].endpoint = delivery[d].endpoint
    BY <2>1 DEF Onward
  <2>3. actor[a].pc = "settling" => counted'[d] = 0
        /\ \/ actor[a].decision = "succeeded" /\ delivery'[d].status \in {"succeeded", "deleted"}
           \/ /\ actor[a].decision = "failed" /\ delivery'[d].status \in {"failed", "deleted"}
              /\ Undelivered(d)'
    BY <1>1, <2>1 DEF Task, Onward, Ended, Undelivered
  <2>4. ASSUME actor[a].pc = "disabling", NEW e \in Endpoints, delivery'[d].endpoint = e
        PROVE  Cardinality(FailedOf(e)') >= DisableAfter
    BY <1>1, <2>1, <2>2, <2>4, FailedGrow DEF Task
  <2> QED BY <1>1, <2>1, <2>2, <2>3, <2>4 DEF Task
<1> QED BY <1>2, <1>3

LEMMA StreakKept ==
  ASSUME IInv, CountedOK', Forward, NEW e \in Endpoints, EndpointOK',
         \/ endpoint'[e].consecutiveFailures = 0
         \/ endpoint'[e].consecutiveFailures <= endpoint[e].consecutiveFailures,
         \/ endpoint'[e].disabledReason # "consecutive_failures"
         \/ endpoint[e].disabledReason = "consecutive_failures"
         \/ Cardinality(FailedOf(e)) >= DisableAfter
  PROVE  Streak(e)'
<1>1. /\ endpoint[e].consecutiveFailures \in Nat /\ endpoint'[e].consecutiveFailures \in Nat
  BY DEF IInv, TypeInv, EndpointOK, Endpoint
<1> QED BY <1>1, FailedGrow DEF IInv, Streak

\* A delivery whose log is not written, and that at most ends.
Moves(d) ==
  /\ delivery'[d].endpoint = delivery[d].endpoint
  /\ delivery'[d].attempts = delivery[d].attempts /\ delivery'[d].attemptCount = delivery[d].attemptCount
  /\ \/ delivery'[d].status = delivery[d].status
     \/ delivery[d].status # "none" /\ delivery'[d].status = "deleted"
     \/ Pending(d) /\ delivery'[d].status = "failed"

LEMMA PendingUndelivered ==
  ASSUME IInv, NEW d \in Deliveries, Pending(d)
  PROVE  Undelivered(d) /\ counted[d] = 0 /\ Len(delivery[d].attempts) < MaxAttempts
         /\ \A k \in 1..Len(delivery[d].attempts) : delivery[d].attempts[k] = "retryable"
<1>1. /\ Story(d) /\ Once(d) /\ counted[d] \in Nat /\ delivery[d].attempts \in Seq(Outcomes)
  BY DEF IInv, TypeInv, CountedOK, DeliveryOK, Delivery
<1>2. counted[d] = 0
  BY <1>1 DEF Once, Pending
<1>3. CASE delivery[d].attempts = <<>>
  BY <1>1, <1>2, <1>3 DEF Story, Undelivered
<1>4. CASE delivery[d].attempts # <<>>
  <2> DEFINE log == delivery[d].attempts
  <2>1. Len(log) \in Nat /\ log[Len(log)] = "retryable" /\ Len(log) < MaxAttempts
        /\ \A k \in 1..Len(log) - 1 : log[k] = "retryable"
    BY <1>1, <1>4 DEF Story
  <2> HIDE DEF log
  <2>2. \A k \in 1..Len(log) : log[k] = "retryable"
    BY <2>1
  <2> USE DEF log
  <2> QED BY <1>2, <2>1, <2>2 DEF Undelivered
<1> QED BY <1>3, <1>4

LEMMA MovesKept ==
  ASSUME IInv, NEW d \in Deliveries, Moves(d), counted'[d] = counted[d],
         d \in unqueued' => d \in unqueued
  PROVE  Onward(d) /\ Story(d)' /\ Once(d)' /\ Row(d)'
<1>1. Story(d) /\ Once(d) /\ Row(d) /\ counted[d] \in Nat
  BY DEF IInv, TypeInv, CountedOK
<1>2. Undelivered(d)' <=> Undelivered(d)
  BY DEF Undelivered, Moves
<1>3. Pending(d) => Undelivered(d)
  BY PendingUndelivered
<1>4. Onward(d)
  BY <1>1 DEF Onward, Moves, Ended, Pending
<1>5. Story(d)'
  BY <1>1, <1>2, <1>3 DEF Story, Moves, Pending
<1>6. Once(d)'
  BY <1>1, <1>2, <1>3 DEF Once, Moves, Pending
<1>7. Row(d)'
  BY <1>1 DEF Row, Moves, Pending
<1> QED BY <1>4, <1>5, <1>6, <1>7

LEMMA QueuedKept ==
  ASSUME IInv, NEW d \in Deliveries, job'[d] = job[d],
         delivery'[d].status = "none" => delivery[d].status = "none",
         d \in unqueued' => d \in unqueued
  PROVE  Queued(d)'
BY DEF IInv, Queued

LEMMA NobodyElseSettles ==
  ASSUME IInv, \A a \in Actors : actor'[a] = actor[a] \/ actor'[a].pc # "settling"
  PROVE  OneSettles'
BY DEF IInv, OneSettles

-----------------------------------------------------------------------------
\* Steps of a kind.

\* A step that starts no delivery, writes no log and counts nothing keeps the invariant if what else
\* it writes agrees with it.
LEMMA MovingStep ==
  ASSUME IInv, DeliveryOK', \A d \in Deliveries : Moves(d), counted' = counted,
         EndpointOK', JobOK', ActorOK', FaultsOK', unqueued' \subseteq unqueued, selected' = selected,
         \A d \in Deliveries : job'[d] = job[d] \/ Queued(d)',
         \A a \in Actors : actor'[a] = actor[a] \/ Task(a)',
         OneSettles',
         \A e \in Endpoints : endpoint'[e] = endpoint[e] \/ Streak(e)'
  PROVE  Kept
<1>1. CountedOK' /\ ProducerOK'
  BY DEF IInv, TypeInv, CountedOK, ProducerOK
<1>2. \A d \in Deliveries : Onward(d) /\ Story(d)' /\ Once(d)' /\ Row(d)'
  BY MovesKept
<1>3. Forward
  BY <1>2 DEF Forward
<1>4. \A d \in Deliveries : Queued(d)'
  BY QueuedKept DEF Moves, Pending
<1>5. Chosen'
  <2> SUFFICES ASSUME NEW batch \in selected, NEW d \in batch
               PROVE  delivery'[d].status = "none" /\ delivery'[d].endpoint \in Endpoints
    BY DEF Chosen, IInv
  <2>1. d \in Deliveries /\ delivery[d].status = "none" /\ delivery[d].endpoint \in Endpoints
    BY DEF IInv, TypeInv, ProducerOK, Chosen
  <2> QED BY <2>1 DEF Moves, Pending
<1>6. \A a \in Actors : Task(a)'
  BY <1>1, <1>3, TaskKept
<1>7. \A e \in Endpoints : Streak(e)'
  <2> SUFFICES ASSUME NEW e \in Endpoints, endpoint'[e] = endpoint[e] PROVE Streak(e)'
    OBVIOUS
  <2>1. endpoint[e].consecutiveFailures \in Nat
    BY DEF IInv, TypeInv, EndpointOK, Endpoint
  <2> QED BY <1>1, <1>3, <2>1, StreakKept DEF IInv, Streak
<1> QED BY <1>1, <1>2, <1>3, <1>4, <1>5, <1>6, <1>7 DEF Kept, IInv, TypeInv

\* A step that leaves the rows of the database alone, and settles nothing.
LEMMA QueueStep ==
  ASSUME IInv, UNCHANGED <<endpoint, delivery, selected, counted>>, unqueued' \subseteq unqueued,
         JobOK', ActorOK', FaultsOK',
         \A d \in Deliveries : job'[d] = job[d] \/ Queued(d)',
         \A a \in Actors : actor'[a] = actor[a] \/ (Task(a)' /\ actor'[a].pc # "settling")
  PROVE  Kept
<1>1. DeliveryOK' /\ EndpointOK'
  BY DEF IInv, TypeInv, DeliveryOK, EndpointOK
<1>2. \A d \in Deliveries : Moves(d)
  BY DEF Moves
<1>3. OneSettles'
  BY NobodyElseSettles
<1> QED BY <1>1, <1>2, <1>3, MovingStep

LEMMA ActorReplaced ==
  ASSUME IInv, NEW a \in Actors, NEW next \in Actor, actor' = [actor EXCEPT ![a] = next]
  PROVE  /\ ActorOK' /\ actor'[a] = next
         /\ \A b \in Actors : b # a => actor'[b] = actor[b]
BY DEF IInv, TypeInv, ActorOK

LEMMA JobReplaced ==
  ASSUME IInv, NEW d \in Deliveries, NEW row \in Job, job' = [job EXCEPT ![d] = row]
  PROVE  /\ JobOK' /\ job'[d] = row
         /\ \A c \in Deliveries : c # d => job'[c] = job[c]
BY DEF IInv, TypeInv, JobOK

LEMMA EndpointReplaced ==
  ASSUME IInv, NEW e \in Endpoints, NEW row \in Endpoint, endpoint' = [endpoint EXCEPT ![e] = row],
         row.state = "off" <=> row.disabledReason # Null
  PROVE  /\ EndpointOK' /\ endpoint'[e] = row
         /\ \A f \in Endpoints : f # e => endpoint'[f] = endpoint[f]
BY DEF IInv, TypeInv, EndpointOK

LEMMA IdleTask ==
  ASSUME NEW a \in Actors, actor'[a] = Idle
  PROVE  Task(a)' /\ actor'[a].pc = "idle"
BY DEF Task, Idle

LEMMA IdleActor == Idle \in Actor
<1>1. [d \in Deliveries |-> "fresh"] \in [Deliveries -> Ages]
  BY DEF Ages
<1> QED BY <1>1 DEF Idle, Actor

LEMMA FaultsKept ==
  ASSUME IInv, UNCHANGED faults \/ Fail \/ Die \/ Lose
  PROVE  FaultsOK'
BY DEF IInv, TypeInv, FaultsOK, Fail, Die, Lose, faults

-----------------------------------------------------------------------------
\* The owner.

LEMMA EndpointStep ==
  ASSUME IInv, NEW e \in Endpoints, NEW row \in Endpoint, endpoint' = [endpoint EXCEPT ![e] = row],
         row.state = "off" <=> row.disabledReason # Null,
         row.consecutiveFailures \in {0, endpoint[e].consecutiveFailures},
         row.disabledReason # "consecutive_failures",
         UNCHANGED <<delivery, job, actor, producer, counted, faults>>
  PROVE  Kept
<1>1. /\ EndpointOK' /\ endpoint'[e] = row
      /\ \A f \in Endpoints : f # e => endpoint'[f] = endpoint[f]
  BY EndpointReplaced
<1>2. /\ DeliveryOK' /\ JobOK' /\ ActorOK' /\ FaultsOK' /\ CountedOK'
      /\ \A d \in Deliveries : Moves(d) /\ Onward(d)
  BY MovesKept DEF IInv, TypeInv, DeliveryOK, JobOK, ActorOK, FaultsOK, faults, CountedOK, Moves, producer
<1>3. Streak(e)'
  <2>1. endpoint[e].consecutiveFailures \in Nat
    BY DEF IInv, TypeInv, EndpointOK, Endpoint
  <2> QED BY <1>1, <1>2, <2>1, StreakKept DEF Forward
<1>4. OneSettles'
  BY NobodyElseSettles
<1> QED BY <1>1, <1>2, <1>3, <1>4, MovingStep DEF producer

LEMMA SwitchStep ==
  ASSUME IInv, NEW e \in Endpoints,
         CreateWebhookEndpoint(e) \/ \E active \in BOOLEAN : SetWebhookEndpointActive(e, active)
  PROVE  Kept
<1>1. /\ endpoint[e] \in Endpoint /\ endpoint[e].consecutiveFailures \in Nat
      /\ endpoint[e].state = "off" <=> endpoint[e].disabledReason # Null
  BY DEF IInv, TypeInv, EndpointOK, Endpoint
<1>2. CASE CreateWebhookEndpoint(e)
  <2> DEFINE row == [endpoint[e] EXCEPT !.state = "on"]
  <2>1. /\ row \in Endpoint /\ row.state = "on" /\ row.disabledReason = Null
        /\ row.consecutiveFailures = endpoint[e].consecutiveFailures
    BY <1>1, <1>2 DEF CreateWebhookEndpoint, Endpoint
  <2>2. /\ endpoint' = [endpoint EXCEPT ![e] = row]
        /\ UNCHANGED <<delivery, job, actor, producer, counted, faults>>
    BY <1>2 DEF CreateWebhookEndpoint
  <2> HIDE DEF row
  <2> QED BY <2>1, <2>2, EndpointStep
<1>3. ASSUME NEW active \in BOOLEAN, SetWebhookEndpointActive(e, active)
      PROVE  Kept
  <2> DEFINE row == IF active THEN [NoEndpoint EXCEPT !.state = "on"]
                    ELSE [endpoint[e] EXCEPT !.state = "off", !.disabledReason = "manual"]
  <2>1. /\ row \in Endpoint
        /\ row.state = "off" <=> row.disabledReason # Null
        /\ row.consecutiveFailures \in {0, endpoint[e].consecutiveFailures}
        /\ row.disabledReason # "consecutive_failures"
    BY <1>1 DEF Endpoint, NoEndpoint
  <2>2. /\ endpoint' = [endpoint EXCEPT ![e] = row]
        /\ UNCHANGED <<delivery, job, actor, producer, counted, faults>>
    BY <1>3 DEF SetWebhookEndpointActive
  <2> HIDE DEF row
  <2> QED BY <2>1, <2>2, EndpointStep
<1> QED BY <1>2, <1>3

LEMMA DeleteWebhookEndpointStep ==
  ASSUME IInv, NEW e \in Endpoints, DeleteWebhookEndpoint(e)
  PROVE  Kept
<1> DEFINE row == [NoEndpoint EXCEPT !.state = "deleted"]
<1>1. row \in Endpoint /\ row.state = "deleted" /\ row.disabledReason = Null /\ row.consecutiveFailures = 0
  BY DEF Endpoint, NoEndpoint
<1>2. /\ endpoint' = [endpoint EXCEPT ![e] = row]
      /\ UNCHANGED <<job, actor, producer, counted, faults>>
  BY DEF DeleteWebhookEndpoint
<1> HIDE DEF row
<1>3. /\ EndpointOK' /\ endpoint'[e] = row
      /\ \A f \in Endpoints : f # e => endpoint'[f] = endpoint[f]
  BY <1>1, <1>2, EndpointReplaced
<1>4. DeliveryOK' /\ \A d \in Deliveries : Moves(d)
  BY DEF DeleteWebhookEndpoint, IInv, TypeInv, DeliveryOK, Delivery, Moves
<1>5. /\ JobOK' /\ ActorOK' /\ FaultsOK' /\ CountedOK' /\ Forward
  BY <1>2, <1>4, MovesKept DEF IInv, TypeInv, JobOK, ActorOK, FaultsOK, faults, CountedOK, Forward, producer
<1>6. Streak(e)'
  BY <1>1, <1>3, <1>5, StreakKept
<1>7. OneSettles'
  BY <1>2, NobodyElseSettles
<1> QED BY <1>2, <1>3, <1>4, <1>5, <1>6, <1>7, MovingStep DEF producer

-----------------------------------------------------------------------------
\* The producer.

\* A step that writes only rows that are not inserted yet.
LEMMA StartingStep ==
  ASSUME IInv, DeliveryOK', ProducerOK', UNCHANGED <<endpoint, job, actor, counted, faults>>, Chosen',
         \A d \in Deliveries :
           \/ delivery'[d] = delivery[d] /\ (d \in unqueued' => d \in unqueued)
           \/ delivery[d].status = "none" /\ Story(d)' /\ Row(d)'
  PROVE  Kept
<1>1. EndpointOK' /\ CountedOK' /\ JobOK' /\ ActorOK' /\ FaultsOK'
  BY DEF IInv, TypeInv, EndpointOK, CountedOK, JobOK, ActorOK, FaultsOK, faults
<1>2. \A d \in Deliveries : Onward(d) /\ Story(d)' /\ Once(d)' /\ Row(d)' /\ Queued(d)'
  <2> SUFFICES ASSUME NEW d \in Deliveries
               PROVE  Onward(d) /\ Story(d)' /\ Once(d)' /\ Row(d)' /\ Queued(d)'
    OBVIOUS
  <2>1. CASE delivery'[d] = delivery[d] /\ (d \in unqueued' => d \in unqueued)
    <3>1. Moves(d)
      BY <2>1 DEF Moves
    <3> QED BY <2>1, <3>1, MovesKept, QueuedKept
  <2>2. CASE delivery[d].status = "none" /\ Story(d)' /\ Row(d)'
    <3>1. Once(d) /\ counted[d] \in Nat /\ Queued(d)
      BY DEF IInv, TypeInv, CountedOK
    <3>2. counted[d] = 0 /\ job[d] = NoJob
      BY <2>2, <3>1 DEF Once, Queued
    <3>3. Queued(d)'
      BY <3>2 DEF Queued, NoJob
    <3>4. Once(d)' /\ Onward(d)
      BY <2>2, <3>1, <3>2 DEF Once, Onward, Ended
    <3> QED BY <2>2, <3>3, <3>4
  <2> QED BY <2>1, <2>2
<1>3. Forward
  BY <1>2 DEF Forward
<1>4. \A a \in Actors : Task(a)'
  BY <1>1, <1>3, TaskKept
<1>5. OneSettles'
  BY NobodyElseSettles
<1>6. ASSUME NEW e \in Endpoints
      PROVE  Streak(e)'
  <2>1. endpoint[e].consecutiveFailures \in Nat
    BY DEF IInv, TypeInv, EndpointOK, Endpoint
  <2> QED BY <1>1, <1>3, <2>1, StreakKept DEF IInv, Streak
<1> QED BY <1>1, <1>2, <1>3, <1>4, <1>5, <1>6 DEF Kept, IInv, TypeInv

LEMMA UnstartedStory ==
  ASSUME NEW d \in Deliveries, delivery'[d].attempts = <<>>, delivery'[d].attemptCount = 0,
         delivery'[d].status \in {"none", "pending"}
  PROVE  Story(d)'
BY DEF Story, Pending

LEMMA SelectEndpointsStep ==
  ASSUME IInv, NEW batch \in SUBSET Deliveries, SelectEndpoints(batch)
  PROVE  Kept
<1>1. /\ \A d \in batch : delivery[d] = NoDelivery
      /\ selected' = selected \cup {batch} /\ UNCHANGED <<endpoint, job, actor, unqueued, counted, faults>>
  BY DEF SelectEndpoints
<1>2. PICK of \in [batch -> {e \in Endpoints : endpoint[e].state = "on"}] :
        delivery' = [d \in Deliveries |-> IF d \in batch THEN [NoDelivery EXCEPT !.endpoint = of[d]]
                                          ELSE delivery[d]]
  BY DEF SelectEndpoints
<1>3. \A d \in Deliveries \ batch : delivery'[d] = delivery[d] /\ delivery[d] \in Delivery
  BY <1>2 DEF IInv, TypeInv, DeliveryOK
<1>4. ASSUME NEW d \in batch
      PROVE  /\ delivery'[d] \in Delivery /\ delivery'[d].status = "none"
             /\ delivery'[d].endpoint \in Endpoints /\ delivery'[d].attempts = <<>>
             /\ delivery'[d].attemptCount = 0
  <2>1. delivery'[d] = [NoDelivery EXCEPT !.endpoint = of[d]] /\ of[d] \in Endpoints
    BY <1>2
  <2>2. NoDelivery \in Delivery
    BY DEF Delivery, NoDelivery, Ages
  <2>3. NoDelivery.status = "none" /\ NoDelivery.attempts = <<>> /\ NoDelivery.attemptCount = 0
    BY DEF NoDelivery
  <2> QED BY <2>1, <2>2, <2>3 DEF Delivery
<1>5. DeliveryOK' /\ ProducerOK'
  BY <1>1, <1>2, <1>3, <1>4 DEF DeliveryOK, ProducerOK, IInv, TypeInv
<1>6. ASSUME NEW old \in selected, NEW d \in old
      PROVE  /\ d \in Deliveries \ batch /\ delivery[d].status = "none" /\ delivery[d].endpoint \in Endpoints
             /\ \A other \in selected : d \in other => other = old
  BY <1>1 DEF IInv, TypeInv, ProducerOK, Chosen, NoDelivery
<1>7. Chosen'
  <2>1. ASSUME NEW old \in selected, NEW d \in old
        PROVE  /\ delivery'[d].status = "none" /\ delivery'[d].endpoint \in Endpoints
               /\ \A other \in selected' : d \in other => other = old
    BY <1>1, <1>3, <1>6
  <2>2. ASSUME NEW d \in batch
        PROVE  /\ delivery'[d].status = "none" /\ delivery'[d].endpoint \in Endpoints
               /\ \A other \in selected' : d \in other => other = batch
    BY <1>1, <1>4, <1>6
  <2> QED BY <1>1, <2>1, <2>2 DEF Chosen
<1>8. ASSUME NEW d \in batch
      PROVE  delivery[d].status = "none" /\ Story(d)' /\ Row(d)'
  <2>1. delivery[d].status = "none" /\ d \notin unqueued'
    BY <1>1 DEF NoDelivery, IInv, Row
  <2> QED BY <1>4, <2>1, UnstartedStory DEF Row
<1> QED BY <1>1, <1>3, <1>5, <1>7, <1>8, StartingStep

LEMMA InsertDeliveriesStep ==
  ASSUME IInv, NEW batch \in SUBSET Deliveries, InsertDeliveries(batch)
  PROVE  Kept
<1> DEFINE inserted == \A d \in batch : Exists(delivery[d].endpoint)
<1>1. /\ batch \in selected /\ selected' = selected \ {batch}
      /\ delivery' = [d \in Deliveries |-> IF d \notin batch THEN delivery[d]
                                           ELSE IF inserted THEN [delivery[d] EXCEPT !.status = "pending"]
                                           ELSE NoDelivery]
      /\ unqueued' = IF inserted THEN unqueued \cup batch ELSE unqueued
      /\ UNCHANGED <<endpoint, job, actor, counted, faults>>
  BY DEF InsertDeliveries
<1> HIDE DEF inserted
<1>2. \A d \in Deliveries \ batch :
        delivery'[d] = delivery[d] /\ delivery[d] \in Delivery /\ (d \in unqueued' => d \in unqueued)
  BY <1>1 DEF IInv, TypeInv, DeliveryOK
<1>3. ASSUME NEW d \in batch
      PROVE  /\ delivery[d] \in Delivery /\ delivery[d].status = "none" /\ delivery[d].endpoint \in Endpoints
             /\ delivery[d].attempts = <<>> /\ delivery[d].attemptCount = 0 /\ d \notin unqueued
  <2>1. /\ delivery[d] \in Delivery /\ Story(d) /\ Row(d)
        /\ delivery[d].status = "none" /\ delivery[d].endpoint \in Endpoints
    BY <1>1 DEF IInv, TypeInv, DeliveryOK, Chosen
  <2> QED BY <2>1 DEF Story, Row
<1>4. ASSUME NEW d \in batch
      PROVE  /\ delivery'[d] \in Delivery
             /\ delivery'[d].attempts = <<>> /\ delivery'[d].attemptCount = 0
             /\ IF inserted THEN delivery'[d].status = "pending" /\ delivery'[d].endpoint \in Endpoints
                ELSE delivery'[d].status = "none" /\ d \notin unqueued'
  <2>1. CASE inserted
    <3>1. delivery'[d] = [delivery[d] EXCEPT !.status = "pending"]
      BY <1>1, <2>1
    <3> QED BY <1>3, <2>1, <3>1 DEF Delivery
  <2>2. CASE ~inserted
    <3>1. delivery'[d] = NoDelivery /\ d \notin unqueued'
      BY <1>1, <1>3, <2>2
    <3> QED BY <2>2, <3>1 DEF Delivery, NoDelivery, Ages
  <2> QED BY <2>1, <2>2
<1>5. DeliveryOK' /\ ProducerOK'
  BY <1>1, <1>2, <1>4 DEF DeliveryOK, ProducerOK, IInv, TypeInv
<1>6. Chosen'
  <2> SUFFICES ASSUME NEW old \in selected, old # batch, NEW d \in old
               PROVE  delivery'[d].status = "none" /\ delivery'[d].endpoint \in Endpoints
    BY <1>1 DEF IInv, Chosen
  <2>1. d \in Deliveries \ batch /\ delivery[d].status = "none" /\ delivery[d].endpoint \in Endpoints
    BY <1>1 DEF IInv, TypeInv, ProducerOK, Chosen
  <2> QED BY <1>2, <2>1
<1>7. ASSUME NEW d \in batch
      PROVE  delivery[d].status = "none" /\ Story(d)' /\ Row(d)'
  BY <1>3, <1>4, UnstartedStory DEF Row
<1> QED BY <1>1, <1>2, <1>5, <1>6, <1>7, StartingStep

LEMMA EnqueueDeliveryStep ==
  ASSUME IInv, NEW d \in Deliveries, EnqueueDelivery(d)
  PROVE  Kept
<1>1. d \in unqueued /\ unqueued' = unqueued \ {d} /\ UNCHANGED <<endpoint, delivery, actor, selected, counted>>
  BY DEF EnqueueDelivery
<1>2. job[d] = NoJob /\ delivery[d].status # "none"
  BY <1>1 DEF IInv, Queued, Row
<1>3. ActorOK' /\ FaultsOK'
  BY <1>1, FaultsKept DEF EnqueueDelivery, IInv, TypeInv, ActorOK
<1>4. CASE UNCHANGED job
  <2>1. JobOK'
    BY <1>4 DEF IInv, TypeInv, JobOK
  <2> QED BY <1>1, <1>3, <1>4, <2>1, QueueStep
<1>5. CASE job' = [job EXCEPT ![d].state = "waiting"]
  <2> DEFINE row == [NoJob EXCEPT !.state = "waiting"]
  <2>0. NoJob \in Job /\ NoJob.owner = Null /\ NoJob.made = 0
    BY DEF Job, NoJob
  <2>1. row \in Job /\ row.owner = Null /\ row.made = 0 /\ row.state = "waiting"
    BY <2>0 DEF Job
  <2>2. job' = [job EXCEPT ![d] = row]
    BY <1>2, <1>5
  <2> HIDE DEF row
  <2>3. JobOK' /\ job'[d] = row /\ \A c \in Deliveries : c # d => job'[c] = job[c]
    BY <2>1, <2>2, JobReplaced
  <2>4. Queued(d)'
    BY <1>1, <1>2, <2>1, <2>3 DEF Queued
  <2> QED BY <1>1, <1>3, <2>3, <2>4, QueueStep
<1> QED BY <1>4, <1>5 DEF EnqueueDelivery

LEMMA AgeStep ==
  ASSUME IInv, NEW d \in Deliveries, Age(d)
  PROVE  Kept
<1> DEFINE row == [delivery[d] EXCEPT !.age = IF @ = "fresh" THEN "stranded" ELSE "expired"]
<1>1. delivery[d] \in Delivery
  BY DEF IInv, TypeInv, DeliveryOK
<1>2. /\ row \in Delivery /\ row.endpoint = delivery[d].endpoint /\ row.status = delivery[d].status
      /\ row.attempts = delivery[d].attempts /\ row.attemptCount = delivery[d].attemptCount
  BY <1>1 DEF Delivery, Ages
<1>3. delivery' = [delivery EXCEPT ![d] = row] /\ UNCHANGED <<endpoint, job, actor, producer, counted, faults>>
  BY DEF Age
<1> HIDE DEF row
<1>4. DeliveryOK' /\ \A c \in Deliveries : Moves(c)
  BY <1>2, <1>3 DEF IInv, TypeInv, DeliveryOK, Moves
<1>5. EndpointOK' /\ JobOK' /\ ActorOK' /\ FaultsOK'
  BY <1>3 DEF IInv, TypeInv, EndpointOK, JobOK, ActorOK, FaultsOK, faults
<1>6. OneSettles'
  BY <1>3, NobodyElseSettles
<1> QED BY <1>3, <1>4, <1>5, <1>6, MovingStep DEF producer

-----------------------------------------------------------------------------
\* The queue.

\* A worker's job is a delivery's that was inserted and queued.
LEMMA LeftJob ==
  ASSUME IInv, NEW w \in Workers, NEW d \in Deliveries, d = actor[w].id, NEW row, Leave(w, row),
         job[d].owner = w => /\ row \in Job
                             /\ row.owner # Null => row.state = "active"
                             /\ row.state \in {"waiting", "active"} => row.made < MaxAttempts,
         \A c \in Deliveries : delivery'[c].status = "none" => delivery[c].status = "none",
         unqueued' = unqueued
  PROVE  JobOK' /\ \A c \in Deliveries : job'[c] = job[c] \/ Queued(c)'
<1>1. CASE job[d].owner # w
  <2>1. job' = job
    BY <1>1 DEF Leave
  <2> QED BY <2>1 DEF JobOK, IInv, TypeInv
<1>2. CASE job[d].owner = w
  <2>1. job' = [job EXCEPT ![d] = row]
    BY <1>2 DEF Leave
  <2>2. /\ row \in Job
        /\ row.state \in {"waiting", "active"} => row.made < MaxAttempts
        /\ row.owner # Null => row.state = "active"
    BY <1>2
  <2>3. JobOK' /\ job'[d] = row /\ \A c \in Deliveries : c # d => job'[c] = job[c]
    BY <2>1, <2>2, JobReplaced
  <2>4. delivery[d].status # "none" /\ d \notin unqueued
    BY <1>2 DEF IInv, Queued, NoJob
  <2>5. Queued(d)'
    BY <2>2, <2>3, <2>4 DEF Queued
  <2> QED BY <2>3, <2>5
<1> QED BY <1>1, <1>2

LEMMA HandlerTask ==
  ASSUME IInv, NEW d \in Deliveries, delivery[d].status # "none", delivery' = delivery
  PROVE  /\ Handler(d) \in Actor
         /\ actor'[d] = Handler(d) => Task(d)' /\ actor'[d].pc # "settling"
<1> DEFINE next == Handler(d)
<1>1. AgesNow \in [Deliveries -> Ages]
  BY DEF AgesNow, IInv, TypeInv, DeliveryOK, Delivery
<1>2. next \in Actor /\ next.pc = "exhausted" /\ next.id = d
  <2>1. Idle \in Actor
    BY IdleActor
  <2> HIDE DEF Idle
  <2> QED BY <1>1, <2>1 DEF Handler, Actor
<1> HIDE DEF next
<1>3. actor'[d] = next => Task(d)' /\ actor'[d].pc # "settling"
  BY <1>2 DEF Task
<1> USE DEF next
<1> QED BY <1>2, <1>3

LEMMA StallStep ==
  ASSUME IInv, NEW d \in Deliveries, Stall(d)
  PROVE  Kept
<1> DEFINE row == [job[d] EXCEPT !.owner = Null, !.stalled = TRUE,
                                 !.state = IF job[d].stalled THEN "failed" ELSE "waiting"]
<1>1. job[d] \in Job /\ job[d].state = "active" /\ job[d].made < MaxAttempts
  BY DEF Stall, IInv, TypeInv, JobOK, Queued
<1>2. row \in Job /\ row.owner = Null /\ row.made = job[d].made
  BY <1>1 DEF Job
<1>3. job' = [job EXCEPT ![d] = row] /\ UNCHANGED <<endpoint, delivery, producer, counted>>
  BY <1>1 DEF Stall, IInv, TypeInv, JobOK, Job
<1> HIDE DEF row
<1>4. JobOK' /\ job'[d] = row /\ \A c \in Deliveries : c # d => job'[c] = job[c]
  BY <1>2, <1>3, JobReplaced
<1>5. delivery[d].status # "none" /\ d \notin unqueued
  BY <1>1 DEF IInv, Queued, NoJob
<1>6. Queued(d)'
  BY <1>1, <1>2, <1>3, <1>4, <1>5 DEF Queued, producer
<1>7. FaultsOK'
  BY FaultsKept DEF Stall
<1>8. ActorOK' /\ \A a \in Actors : actor'[a] = actor[a] \/ (Task(a)' /\ actor'[a].pc # "settling")
  <2>1. CASE actor' = actor
    BY <2>1 DEF ActorOK, IInv, TypeInv
  <2>2. CASE actor' = [actor EXCEPT ![d] = Handler(d)]
    <3>1. Handler(d) \in Actor /\ d \in Actors
      BY <1>3, <1>5, HandlerTask DEF Actors
    <3>2. ActorOK' /\ actor'[d] = Handler(d) /\ \A b \in Actors : b # d => actor'[b] = actor[b]
      BY <2>2, <3>1, ActorReplaced
    <3> QED BY <1>3, <1>5, <3>2, HandlerTask
  <2> QED BY <2>1, <2>2 DEF Stall
<1> QED BY <1>3, <1>4, <1>6, <1>7, <1>8, QueueStep DEF producer

LEMMA TakeJobStep ==
  ASSUME IInv, NEW w \in Workers, NEW d \in Deliveries, TakeJob(w, d)
  PROVE  Kept
<1> DEFINE row  == [job[d] EXCEPT !.state = "active", !.owner = w]
           next == [Idle EXCEPT !.pc = "loading", !.id = d]
<1>1. job[d] \in Job /\ job[d].state = "waiting" /\ job[d].made < MaxAttempts
  BY DEF TakeJob, IInv, TypeInv, JobOK, Queued
<1>2. row \in Job /\ row.state = "active" /\ row.made = job[d].made
  BY <1>1 DEF Job
<1>3. next \in Actor /\ next.pc = "loading" /\ next.id = d
  <2>1. Idle \in Actor
    BY IdleActor
  <2> QED BY <2>1 DEF Actor
<1>4. /\ job' = [job EXCEPT ![d] = row] /\ actor' = [actor EXCEPT ![w] = next]
      /\ UNCHANGED <<endpoint, delivery, producer, counted, faults>>
  BY <1>1 DEF TakeJob, IInv, TypeInv, JobOK, Job
<1> HIDE DEF row, next
<1>5. JobOK' /\ job'[d] = row /\ \A c \in Deliveries : c # d => job'[c] = job[c]
  BY <1>2, <1>4, JobReplaced
<1>6. w \in Actors
  BY DEF Actors
<1>7. ActorOK' /\ actor'[w] = next /\ \A b \in Actors : b # w => actor'[b] = actor[b]
  BY <1>3, <1>4, <1>6, ActorReplaced
<1>8. delivery[d].status # "none" /\ d \notin unqueued
  BY <1>1 DEF IInv, Queued, NoJob
<1>9. Queued(d)'
  BY <1>1, <1>2, <1>4, <1>5, <1>8 DEF Queued, producer
<1>10. Task(w)'
  BY <1>3, <1>4, <1>7, <1>8 DEF Task
<1>11. FaultsOK'
  BY <1>4, FaultsKept
<1> QED BY <1>3, <1>4, <1>5, <1>7, <1>9, <1>10, <1>11, QueueStep DEF producer

\* Whoever takes the job away, a worker that completes it is done.
LEMMA Completed ==
  ASSUME IInv, NEW w \in Workers, actor[w].pc # "idle", CompleteJob(w),
         \A c \in Deliveries : delivery'[c].status = "none" => delivery[c].status = "none",
         unqueued' = unqueued
  PROVE  /\ JobOK' /\ \A c \in Deliveries : job'[c] = job[c] \/ Queued(c)'
         /\ ActorOK' /\ \A a \in Actors : actor'[a] = actor[a] \/ (Task(a)' /\ actor'[a].pc # "settling")
<1>1. PICK d \in Deliveries : d = actor[w].id
  BY DEF IInv, Task, Actors
<1> DEFINE row == [job[d] EXCEPT !.state = "completed", !.owner = Null]
<1>2. row \in Job /\ row.state = "completed" /\ row.owner = Null
  BY DEF IInv, TypeInv, JobOK, Job
<1>3. Leave(w, row) /\ actor' = [actor EXCEPT ![w] = Idle]
  BY <1>1 DEF CompleteJob
<1> HIDE DEF row
<1>4. JobOK' /\ \A c \in Deliveries : job'[c] = job[c] \/ Queued(c)'
  BY <1>1, <1>2, <1>3, LeftJob
<1>5. w \in Actors
  BY DEF Actors
<1>6. ActorOK' /\ actor'[w] = Idle /\ \A b \in Actors : b # w => actor'[b] = actor[b]
  BY <1>3, <1>5, IdleActor, ActorReplaced
<1>7. Task(w)' /\ actor'[w].pc = "idle"
  BY <1>5, <1>6, IdleTask
<1> QED BY <1>4, <1>6, <1>7

LEMMA FailJobStep ==
  ASSUME IInv, NEW w \in Workers, actor[w].pc # "idle", FailJob(w), FaultsOK',
         UNCHANGED <<endpoint, delivery, producer, counted>>
  PROVE  Kept
<1>1. PICK d \in Deliveries : d = actor[w].id /\ delivery[d].status # "none"
  BY DEF IInv, Task, Actors
<1> DEFINE row == [job[d] EXCEPT !.state = IF Final(d) THEN "failed" ELSE "waiting",
                                 !.owner = Null, !.made = @ + 1]
<1>2. /\ Leave(w, row)
      /\ actor' = IF job[d].owner = w /\ Final(d)
                  THEN [actor EXCEPT ![w] = Idle, ![d] = Handler(d)]
                  ELSE [actor EXCEPT ![w] = Idle]
  BY <1>1 DEF FailJob
<1>3. job[d].owner = w => job[d] \in Job /\ job[d].made < MaxAttempts
  BY DEF IInv, TypeInv, JobOK, Queued
<1>4. job[d].owner = w => /\ row \in Job /\ row.owner = Null
                          /\ row.state \in {"waiting", "active"} => row.made < MaxAttempts
  <2> SUFFICES ASSUME job[d].owner = w
               PROVE  /\ row \in Job /\ row.owner = Null
                      /\ row.state = "waiting" => row.made < MaxAttempts
                      /\ row.state \in {"waiting", "failed"}
    OBVIOUS
  <2>1. job[d] \in Job /\ job[d].made + 1 \in 0..MaxAttempts
    BY <1>3 DEF Job
  <2>2. CASE Final(d)
    BY <2>1, <2>2 DEF Job
  <2>3. CASE ~Final(d)
    <3>1. job[d].made + 1 < MaxAttempts
      BY <2>1, <2>3 DEF Final
    <3> QED BY <2>1, <2>3, <3>1 DEF Job
  <2> QED BY <2>2, <2>3
<1> HIDE DEF row
<1>5. JobOK' /\ \A c \in Deliveries : job'[c] = job[c] \/ Queued(c)'
  BY <1>1, <1>2, <1>4, LeftJob DEF producer
<1>6. w \in Actors /\ d \in Actors /\ w # d
  BY DEF Actors
<1>7. Handler(d) \in Actor /\ Idle \in Actor
  BY <1>1, HandlerTask, IdleActor
<1>8. /\ ActorOK' /\ actor'[w] = Idle /\ actor'[d] \in {actor[d], Handler(d)}
      /\ \A b \in Actors \ {w, d} : actor'[b] = actor[b]
  BY <1>2, <1>6, <1>7 DEF IInv, TypeInv, ActorOK
<1>9. Task(w)' /\ actor'[w].pc = "idle"
  BY <1>6, <1>8, IdleTask
<1>10. actor'[d] = actor[d] \/ (Task(d)' /\ actor'[d].pc # "settling")
  BY <1>1, <1>8, HandlerTask
<1>11. \A a \in Actors : actor'[a] = actor[a] \/ (Task(a)' /\ actor'[a].pc # "settling")
  BY <1>8, <1>9, <1>10
<1> QED BY <1>5, <1>8, <1>11, QueueStep DEF producer

\* An actor that stops.
LEMMA StopStep ==
  ASSUME IInv, NEW a \in Actors, actor' = [actor EXCEPT ![a] = Idle], FaultsOK',
         UNCHANGED <<endpoint, delivery, producer, counted>>,
         JobOK', \A d \in Deliveries : job'[d] = job[d] \/ Queued(d)'
  PROVE  Kept
<1>1. ActorOK' /\ actor'[a] = Idle /\ \A b \in Actors : b # a => actor'[b] = actor[b]
  BY IdleActor, ActorReplaced
<1>2. Task(a)' /\ actor'[a].pc = "idle"
  BY <1>1, IdleTask
<1> QED BY <1>1, <1>2, QueueStep DEF producer

LEMMA CrashStep ==
  ASSUME IInv, NEW w \in Workers, Crash(w)
  PROVE  Kept
<1>1. PICK d \in Deliveries : d = actor[w].id
  BY DEF Crash, IInv, Task, Actors
<1> DEFINE row == [job[d] EXCEPT !.owner = Null]
<1>2. /\ Leave(w, row) /\ actor' = [actor EXCEPT ![w] = Idle]
      /\ UNCHANGED <<endpoint, delivery, producer, counted>>
  BY <1>1 DEF Crash
<1>3. job[d] \in Job /\ Queued(d)
  BY DEF IInv, TypeInv, JobOK
<1>4. /\ row \in Job /\ row.owner = Null
      /\ row.state \in {"waiting", "active"} => row.made < MaxAttempts
  BY <1>3 DEF Job, Queued
<1> HIDE DEF row
<1>5. JobOK' /\ \A c \in Deliveries : job'[c] = job[c] \/ Queued(c)'
  BY <1>1, <1>2, <1>4, LeftJob DEF producer
<1>6. FaultsOK' /\ w \in Actors
  BY FaultsKept DEF Crash, Actors
<1> QED BY <1>2, <1>5, <1>6, StopStep

LEMMA LoseHandlerStep ==
  ASSUME IInv, NEW d \in Deliveries, LoseHandler(d)
  PROVE  Kept
<1>1. /\ actor' = [actor EXCEPT ![d] = Idle] /\ job' = job
      /\ UNCHANGED <<endpoint, delivery, producer, counted>>
  BY DEF LoseHandler
<1>2. FaultsOK' /\ d \in Actors /\ JobOK'
  BY <1>1, FaultsKept DEF LoseHandler, Actors, IInv, TypeInv, JobOK
<1> QED BY <1>1, <1>2, StopStep

-----------------------------------------------------------------------------
\* One attempt.

LEMMA Decided ==
  ASSUME NEW outcome \in Outcomes, NEW n \in Nat
  PROVE  /\ Decide(outcome, n) \in Decision
         /\ Decide(outcome, n) = "succeeded" <=> outcome = "delivered"
         /\ Decide(outcome, n) = "retry" <=> outcome = "retryable" /\ n < MaxAttempts
<1>1. Decide(outcome, n) = IF outcome = "delivered" THEN "succeeded"
                           ELSE IF outcome = "retryable" /\ n < MaxAttempts THEN "retry" ELSE "failed"
  BY DEF Decide
<1> QED BY <1>1 DEF Decision

LEMMA FailAttemptStep ==
  ASSUME IInv, NEW w \in Workers, FailAttempt(w)
  PROVE  Kept
<1>1. actor[w].pc # "idle" /\ FailJob(w) /\ UNCHANGED <<endpoint, delivery, producer, counted>>
  BY DEF FailAttempt
<1>2. FaultsOK'
  BY FaultsKept DEF FailAttempt
<1> QED BY <1>1, <1>2, FailJobStep

LEMMA ThrowRetryStep ==
  ASSUME IInv, NEW w \in Workers, ThrowRetry(w)
  PROVE  Kept
<1>1. actor[w].pc # "idle" /\ FailJob(w) /\ UNCHANGED <<endpoint, delivery, producer, counted>>
  BY DEF ThrowRetry
<1>2. FaultsOK'
  BY FaultsKept DEF ThrowRetry
<1> QED BY <1>1, <1>2, FailJobStep

LEMMA CompleteStep ==
  ASSUME IInv, NEW w \in Workers, actor[w].pc # "idle", CompleteJob(w),
         UNCHANGED <<endpoint, delivery, producer, counted, faults>>
  PROVE  Kept
<1>1. /\ JobOK' /\ \A c \in Deliveries : job'[c] = job[c] \/ Queued(c)'
      /\ ActorOK' /\ \A a \in Actors : actor'[a] = actor[a] \/ (Task(a)' /\ actor'[a].pc # "settling")
  BY Completed DEF producer
<1>2. FaultsOK'
  BY FaultsKept
<1> QED BY <1>1, <1>2, QueueStep DEF producer

LEMMA LoadDeliveryStep ==
  ASSUME IInv, NEW w \in Workers, LoadDelivery(w)
  PROVE  Kept
<1>1. PICK d \in Deliveries : d = actor[w].id /\ delivery[d].status # "none"
  BY DEF LoadDelivery, IInv, Task, Actors
<1>2. CASE CompleteJob(w)
  BY <1>2, CompleteStep DEF LoadDelivery
<1>3. CASE ~CompleteJob(w)
  <2> DEFINE next == [actor[w] EXCEPT !.pc = "posting", !.count = delivery[d].attemptCount,
                                      !.active = endpoint[delivery[d].endpoint].state = "on",
                                      !.age = AgesNow]
  <2>1. /\ actor' = [actor EXCEPT ![w] = next]
        /\ UNCHANGED <<endpoint, delivery, job, producer, counted, faults>>
    BY <1>1, <1>3 DEF LoadDelivery
  <2>2. /\ actor[w] \in Actor /\ AgesNow \in [Deliveries -> Ages] /\ delivery[d].attemptCount \in Nat
        /\ w \in Actors
    BY DEF IInv, TypeInv, ActorOK, DeliveryOK, Delivery, AgesNow, Actors
  <2>3. next \in Actor /\ next.pc = "posting" /\ next.id = d
    <3> DEFINE active == endpoint[delivery[d].endpoint].state = "on"
    <3>1. active \in BOOLEAN
      OBVIOUS
    <3> HIDE DEF active
    <3> QED BY <1>1, <2>2, <3>1 DEF Actor
  <2> HIDE DEF next
  <2>4. ActorOK' /\ actor'[w] = next /\ \A b \in Actors : b # w => actor'[b] = actor[b]
    BY <2>1, <2>2, <2>3, ActorReplaced
  <2>5. Task(w)'
    BY <1>1, <2>1, <2>3, <2>4 DEF Task
  <2>6. JobOK' /\ FaultsOK'
    BY <2>1, FaultsKept DEF IInv, TypeInv, JobOK
  <2> QED BY <2>1, <2>3, <2>4, <2>5, <2>6, QueueStep DEF producer
<1> QED BY <1>2, <1>3

LEMMA AttemptDeliveryStep ==
  ASSUME IInv, NEW w \in Workers, AttemptDelivery(w)
  PROVE  Kept
<1>1. PICK outcome \in Outcomes :
        /\ actor' = [actor EXCEPT ![w] = [@ EXCEPT !.pc = "recording", !.outcome = outcome,
                                                   !.decision = Decide(outcome, actor[w].count + 1)]]
        /\ UNCHANGED <<endpoint, delivery, job, producer, counted, faults>> /\ actor[w].pc = "posting"
  BY DEF AttemptDelivery
<1>2. /\ actor[w] \in Actor /\ w \in Actors /\ Task(w) /\ actor[w].count + 1 \in Nat
  BY DEF IInv, TypeInv, ActorOK, Actors, Actor
<1>3. PICK decision \in Decision : decision = Decide(outcome, actor[w].count + 1)
  BY <1>2, Decided
<1> DEFINE next == [actor[w] EXCEPT !.pc = "recording", !.outcome = outcome, !.decision = decision]
<1>4. /\ next \in Actor /\ next.pc = "recording" /\ next.outcome = outcome /\ next.decision = decision
      /\ next.id = actor[w].id /\ next.count = actor[w].count
  BY <1>2 DEF Actor
<1>5. actor' = [actor EXCEPT ![w] = next]
  BY <1>1, <1>3
<1> HIDE DEF next
<1>6. ActorOK' /\ actor'[w] = next /\ \A b \in Actors : b # w => actor'[b] = actor[b]
  BY <1>2, <1>4, <1>5, ActorReplaced
<1>7. actor'[w].id \in Deliveries /\ delivery'[actor'[w].id].status # "none"
  BY <1>1, <1>2, <1>4, <1>6 DEF Task
<1>8. actor'[w].decision = Decide(actor'[w].outcome, actor'[w].count + 1) /\ actor'[w].outcome \in Outcomes
  BY <1>3, <1>4, <1>6
<1>9. Task(w)' /\ actor'[w].pc # "settling"
  <2>1. actor'[w].pc = "recording" /\ w \notin Deliveries
    BY <1>4, <1>6
  <2> QED BY <1>7, <1>8, <2>1 DEF Task
<1>10. JobOK' /\ FaultsOK'
  BY <1>1, FaultsKept DEF IInv, TypeInv, JobOK
<1> QED BY <1>1, <1>6, <1>9, <1>10, QueueStep DEF producer

LEMMA RecordTooLateStep ==
  ASSUME IInv, NEW w \in Workers, RecordTooLate(w)
  PROVE  Kept
BY CompleteStep DEF RecordTooLate

\* An actor that goes on with its delivery.
LEMMA NextPc ==
  ASSUME IInv, NEW a \in Actors, actor[a].pc # "idle",
         NEW pc \in {"pruning", "trimming", "disabling", "throwing"},
         actor' = [actor EXCEPT ![a].pc = pc]
  PROVE  /\ ActorOK' /\ actor'[a].pc = pc /\ actor'[a].id = actor[a].id
         /\ \A b \in Actors : b # a => actor'[b] = actor[b]
         /\ (pc # "disabling" /\ (a \in Deliveries => pc # "throwing")
             /\ delivery'[actor[a].id].status # "none") => Task(a)'
<1> DEFINE next == [actor[a] EXCEPT !.pc = pc]
<1>1. actor[a] \in Actor /\ Task(a)
  BY DEF IInv, TypeInv, ActorOK
<1>2. next \in Actor /\ next.pc = pc /\ next.id = actor[a].id
  BY <1>1 DEF Actor
<1>3. actor' = [actor EXCEPT ![a] = next]
  OBVIOUS
<1> HIDE DEF next
<1>4. ActorOK' /\ actor'[a] = next /\ \A b \in Actors : b # a => actor'[b] = actor[b]
  <2>1. next \in Actor
    BY <1>2
  <2> QED BY <1>3, <2>1, ActorReplaced, Zenon
<1>5. (a \in Deliveries => actor[a].id = a) /\ actor[a].id \in Deliveries
  BY <1>1 DEF Task
<1>6. actor'[a].pc = pc /\ actor'[a].id = actor[a].id
  BY <1>2, <1>4
<1>7. ASSUME pc # "disabling", a \in Deliveries => pc # "throwing",
             delivery'[actor[a].id].status # "none"
      PROVE  Task(a)'
  <2>1. pc \notin {"idle", "exhausted", "recording", "settling", "disabling"}
    BY <1>7
  <2>2. a \in Deliveries => pc \in {"pruning", "trimming"}
    BY <1>7
  <2> QED BY <1>5, <1>6, <1>7, <2>1, <2>2 DEF Task
<1> QED BY <1>4, <1>6, <1>7

\* Nobody settles a delivery that is pending: whoever ends it is the first.
LEMMA FirstSettles ==
  ASSUME IInv, NEW a \in Actors, NEW d \in Deliveries, Pending(d),
         actor'[a].id = d \/ actor'[a].pc # "settling",
         \A b \in Actors : b # a => actor'[b] = actor[b]
  PROVE  OneSettles'
<1>1. \A b \in Actors : actor[b].pc = "settling" => actor[b].id # d
  BY DEF IInv, Task, Pending
<1> QED BY <1>1 DEF IInv, OneSettles

LEMMA LogAppended ==
  ASSUME NEW log \in Seq(Outcomes), NEW outcome \in Outcomes
  PROVE  LET new == Append(log, outcome)
         IN  /\ new \in Seq(Outcomes) /\ Len(new) = Len(log) + 1 /\ new # <<>>
             /\ new[Len(log) + 1] = outcome /\ \A k \in 1..Len(log) : new[k] = log[k]
OBVIOUS

\* The log grows by one attempt, and the delivery ends as that attempt says.
LEMMA RecordAttemptStep ==
  ASSUME IInv, NEW w \in Workers, RecordAttempt(w)
  PROVE  Kept
<1>1. PICK d \in Deliveries : d = actor[w].id /\ Pending(d) /\ delivery[d].attemptCount = actor[w].count
  BY DEF RecordAttempt, Unmoved, IInv, Task, Actors
<1>2. PICK outcome \in Outcomes : outcome = actor[w].outcome
  BY DEF RecordAttempt, IInv, Task, Actors
<1>3. /\ actor[w] \in Actor /\ w \in Actors /\ w \notin Deliveries /\ Task(w)
      /\ delivery[d] \in Delivery /\ Story(d)
  BY DEF IInv, TypeInv, ActorOK, Actors, DeliveryOK
<1>4. PICK log \in Seq(Outcomes), n \in Nat :
        /\ log = delivery[d].attempts /\ n = Len(log) /\ n = delivery[d].attemptCount /\ n < MaxAttempts
        /\ \A k \in 1..n : log[k] = "retryable"
  <2>1. delivery[d].attempts \in Seq(Outcomes) /\ delivery[d].attemptCount = Len(delivery[d].attempts)
    BY <1>3 DEF Delivery, Story
  <2>2. Len(delivery[d].attempts) < MaxAttempts /\ Len(delivery[d].attempts) \in Nat
    BY <1>1, <2>1, PendingUndelivered
  <2> QED BY <1>1, <2>1, <2>2, PendingUndelivered
<1>5. PICK decision \in Decision :
        /\ decision = actor[w].decision
        /\ decision = "succeeded" <=> outcome = "delivered"
        /\ decision = "retry" <=> outcome = "retryable" /\ n + 1 < MaxAttempts
  <2>1. actor[w].decision = Decide(outcome, n + 1) /\ n + 1 \in Nat
    BY <1>1, <1>2, <1>3, <1>4 DEF RecordAttempt, Task
  <2> QED BY <2>1, Decided
<1> DEFINE new    == Append(log, outcome)
           status == IF decision = "retry" THEN "pending" ELSE decision
           row    == [delivery[d] EXCEPT !.attemptCount = n + 1, !.attempts = new, !.status = status]
<1>6. /\ new \in Seq(Outcomes) /\ Len(new) = n + 1 /\ new # <<>>
      /\ new[n + 1] = outcome /\ \A k \in 1..n : new[k] = "retryable"
  <2>1. /\ new \in Seq(Outcomes) /\ Len(new) = Len(log) + 1 /\ new # <<>>
        /\ new[Len(log) + 1] = outcome /\ \A k \in 1..Len(log) : new[k] = log[k]
    BY LogAppended
  <2> HIDE DEF new
  <2> QED BY <1>4, <2>1
<1>7. /\ status \in {"pending", "succeeded", "failed"}
      /\ status = "pending" <=> decision = "retry"
      /\ status # "pending" => status = decision
  BY DEF Decision
<1>8. /\ delivery' = [delivery EXCEPT ![d] = row]
      /\ actor' = [actor EXCEPT ![w].pc = IF decision = "retry" THEN "throwing"
                                          ELSE IF outcome = "endpoint_inactive" THEN "pruning" ELSE "settling"]
      /\ UNCHANGED <<endpoint, job, producer, counted, faults>>
  BY <1>1, <1>2, <1>4, <1>5 DEF RecordAttempt, Record
<1> HIDE DEF new, status
<1>9. /\ row \in Delivery /\ row.status = status /\ row.attempts = new /\ row.attemptCount = n + 1
      /\ row.endpoint = delivery[d].endpoint
  <2>1. /\ delivery[d] \in Delivery /\ new \in Seq(Outcomes) /\ n + 1 \in Nat
        /\ status \in {"none", "pending", "succeeded", "failed", "deleted"}
    BY <1>3, <1>6, <1>7
  <2> QED BY <2>1 DEF Delivery
<1> HIDE DEF row
<1>10. DeliveryOK' /\ delivery'[d] = row /\ \A c \in Deliveries : c # d => delivery'[c] = delivery[c]
  BY <1>8, <1>9 DEF IInv, TypeInv, DeliveryOK
<1>11. status = "failed" => Undelivered(d)'
  <2>1. status = "failed" => outcome # "delivered"
    BY <1>5, <1>7
  <2> QED BY <1>6, <1>9, <1>10, <2>1 DEF Undelivered
<1>12. Onward(d) /\ Story(d)' /\ Once(d)' /\ Row(d)'
  <2>1. Story(d)'
    <3>1. \A k \in 1..(n + 1) - 1 : new[k] = "retryable"
      BY <1>6
    <3>2. status = "pending" => new[n + 1] = "retryable" /\ n + 1 < MaxAttempts
      BY <1>5, <1>6, <1>7
    <3>3. status = "succeeded" => new[n + 1] = "delivered"
      BY <1>5, <1>6, <1>7
    <3> QED BY <1>4, <1>6, <1>9, <1>10, <1>11, <3>1, <3>2, <3>3 DEF Story, Pending
  <2>2. counted[d] = 0 /\ counted'[d] = 0
    BY <1>1, <1>8, PendingUndelivered
  <2>3. Row(d)
    BY DEF IInv
  <2>4. Once(d)' /\ Row(d)' /\ Onward(d)
    BY <1>1, <1>7, <1>8, <1>9, <1>10, <2>2, <2>3 DEF Once, Row, Onward, Ended, Pending
  <2> QED BY <2>1, <2>4
<1>13. ASSUME NEW c \in Deliveries
       PROVE  Onward(c) /\ Story(c)' /\ Once(c)' /\ Row(c)' /\ Queued(c)'
  <2>1. CASE c = d
    BY <1>1, <1>7, <1>8, <1>9, <1>10, <1>12, <2>1, QueuedKept DEF producer, Pending
  <2>2. CASE c # d
    <3>1. Moves(c)
      BY <1>10, <2>2 DEF Moves
    <3> QED BY <1>8, <1>10, <2>2, <3>1, MovesKept, QueuedKept DEF producer
  <2> QED BY <2>1, <2>2
<1>14. /\ Forward /\ EndpointOK' /\ CountedOK' /\ JobOK' /\ ProducerOK' /\ FaultsOK'
  BY <1>8, <1>13 DEF Forward, IInv, TypeInv, EndpointOK, CountedOK, JobOK, ProducerOK, FaultsOK, faults, producer
<1>15. Chosen'
  BY <1>1, <1>8, <1>10 DEF IInv, TypeInv, ProducerOK, Chosen, Pending, producer
<1>16. PICK pc \in {"throwing", "pruning", "settling"} :
         /\ actor' = [actor EXCEPT ![w].pc = pc]
         /\ pc = "settling" => decision # "retry"
  BY <1>8
<1>17. /\ ActorOK' /\ actor'[w].pc = pc /\ actor'[w].id = d /\ actor'[w].decision = decision
       /\ \A b \in Actors : b # w => actor'[b] = actor[b]
  <2> DEFINE next == [actor[w] EXCEPT !.pc = pc]
  <2>1. next \in Actor /\ next.pc = pc /\ next.id = d /\ next.decision = decision
    BY <1>1, <1>3, <1>5 DEF Actor
  <2>2. actor' = [actor EXCEPT ![w] = next]
    BY <1>16
  <2> HIDE DEF next
  <2> QED BY <1>3, <2>1, <2>2, ActorReplaced
<1>18. Task(w)'
  <2>1. counted'[d] = 0 /\ delivery'[d].status = status /\ status # "none"
    BY <1>1, <1>7, <1>8, <1>9, <1>10, PendingUndelivered
  <2>2. pc = "settling" => decision = status /\ status \in {"succeeded", "failed"}
    BY <1>7, <1>16
  <2> QED BY <1>3, <1>11, <1>17, <2>1, <2>2 DEF Task
<1>19. \A a \in Actors : Task(a)'
  BY <1>8, <1>14, <1>17, <1>18, TaskKept
<1>20. OneSettles'
  BY <1>1, <1>3, <1>17, FirstSettles
<1>21. ASSUME NEW e \in Endpoints
       PROVE  Streak(e)'
  <2>1. endpoint[e].consecutiveFailures \in Nat
    BY DEF IInv, TypeInv, EndpointOK, Endpoint
  <2> QED BY <1>8, <1>14, <2>1, StreakKept DEF IInv, Streak
<1> QED BY <1>10, <1>13, <1>14, <1>15, <1>17, <1>19, <1>20, <1>21 DEF Kept, IInv, TypeInv

-----------------------------------------------------------------------------
\* The end of a delivery.

LEMMA SettleExhaustedStep ==
  ASSUME IInv, NEW d \in Deliveries, SettleExhausted(d)
  PROVE  Kept
<1>1. /\ actor[d].pc = "exhausted" /\ d \in Actors /\ actor[d] \in Actor /\ Task(d)
      /\ UNCHANGED <<endpoint, job, producer, counted, faults>>
  BY DEF SettleExhausted, IInv, TypeInv, ActorOK, Actors
<1>2. EndpointOK' /\ JobOK' /\ FaultsOK'
  BY <1>1, FaultsKept DEF IInv, TypeInv, EndpointOK, JobOK
<1>3. CASE ~Pending(d)
  <2>1. UNCHANGED delivery /\ actor' = [actor EXCEPT ![d] = Idle]
    BY <1>3 DEF SettleExhausted
  <2> QED BY <1>1, <1>2, <2>1, StopStep
<1>4. CASE Pending(d)
  <2> DEFINE row  == [delivery[d] EXCEPT !.status = "failed"]
             next == [actor[d] EXCEPT !.pc = "settling", !.decision = "failed"]
  <2>1. delivery' = [delivery EXCEPT ![d] = row] /\ actor' = [actor EXCEPT ![d] = next]
    BY <1>1, <1>4 DEF SettleExhausted, Actor, IInv, TypeInv, ActorOK
  <2>2. next \in Actor /\ next.pc = "settling" /\ next.decision = "failed" /\ next.id = d
    BY <1>1 DEF Actor, Decision, Task
  <2>3. delivery[d] \in Delivery
    BY DEF IInv, TypeInv, DeliveryOK
  <2>4. /\ row \in Delivery /\ row.status = "failed" /\ row.endpoint = delivery[d].endpoint
        /\ row.attempts = delivery[d].attempts /\ row.attemptCount = delivery[d].attemptCount
    BY <2>3 DEF Delivery
  <2> HIDE DEF row, next
  <2>5. DeliveryOK' /\ delivery'[d] = row /\ \A c \in Deliveries : Moves(c)
    BY <1>4, <2>1, <2>4 DEF IInv, TypeInv, DeliveryOK, Moves
  <2>6. ActorOK' /\ actor'[d] = next /\ \A b \in Actors : b # d => actor'[b] = actor[b]
    BY <1>1, <2>1, <2>2, ActorReplaced
  <2>7. Undelivered(d)' /\ counted'[d] = 0
    BY <1>1, <1>4, <2>4, <2>5, PendingUndelivered DEF Undelivered
  <2>8. Task(d)'
    BY <1>1, <2>2, <2>4, <2>5, <2>6, <2>7 DEF Task
  <2>9. OneSettles'
    BY <1>1, <1>4, <2>2, <2>6, FirstSettles
  <2> QED BY <1>1, <1>2, <2>5, <2>6, <2>8, <2>9, MovingStep DEF producer
<1> QED BY <1>3, <1>4

\* What an actor that ends a delivery has at hand.
LEMMA AtHand ==
  ASSUME IInv, NEW a \in Actors, actor[a].pc # "idle"
  PROVE  \E d \in Deliveries, e \in Endpoints :
           /\ d = actor[a].id /\ e = delivery[d].endpoint /\ delivery[d].status # "none"
           /\ endpoint[e] \in Endpoint /\ endpoint[e].consecutiveFailures \in Nat
           /\ endpoint[e].state = "off" <=> endpoint[e].disabledReason # Null
<1>1. PICK d \in Deliveries : d = actor[a].id /\ delivery[d].status # "none"
  BY DEF IInv, Task
<1>2. PICK e \in Endpoints : e = delivery[d].endpoint
  BY <1>1 DEF IInv, Row
<1>3. /\ endpoint[e] \in Endpoint /\ endpoint[e].consecutiveFailures \in Nat
      /\ endpoint[e].state = "off" <=> endpoint[e].disabledReason # Null
  BY DEF IInv, TypeInv, EndpointOK, Endpoint
<1> QED BY <1>1, <1>2, <1>3

\* A step that writes at most one endpoint, and leaves its actor to go on.
LEMMA SettlingStep ==
  ASSUME IInv, NEW a \in Actors, actor[a].pc # "idle",
         NEW pc \in {"pruning", "trimming"}, actor' = [actor EXCEPT ![a].pc = pc],
         UNCHANGED <<job, producer, counted, faults>>, EndpointOK', DeliveryOK',
         \A d \in Deliveries : Moves(d),
         \A e \in Endpoints : endpoint'[e] = endpoint[e] \/ Streak(e)'
  PROVE  Kept
<1>1. actor[a].id \in Deliveries /\ delivery[actor[a].id].status # "none"
  BY AtHand
<1>2. delivery'[actor[a].id].status # "none"
  BY <1>1 DEF Moves
<1>3. /\ ActorOK' /\ actor'[a].pc = pc /\ Task(a)'
      /\ \A b \in Actors : b # a => actor'[b] = actor[b]
  BY <1>2, NextPc
<1>4. OneSettles'
  BY <1>3, NobodyElseSettles
<1>5. JobOK' /\ FaultsOK'
  BY FaultsKept DEF IInv, TypeInv, JobOK
<1> QED BY <1>3, <1>4, <1>5, MovingStep DEF producer

LEMMA ClearStreakStep ==
  ASSUME IInv, NEW a \in Actors, ClearStreak(a)
  PROVE  Kept
<1>1. actor[a].pc # "idle" /\ actor' = [actor EXCEPT ![a].pc = "pruning"]
      /\ UNCHANGED <<delivery, job, producer, counted, faults>>
  BY DEF ClearStreak
<1>2. PICK d \in Deliveries, e \in Endpoints :
        /\ d = actor[a].id /\ e = delivery[d].endpoint /\ delivery[d].status # "none"
        /\ endpoint[e] \in Endpoint /\ endpoint[e].consecutiveFailures \in Nat
        /\ endpoint[e].state = "off" <=> endpoint[e].disabledReason # Null
  BY <1>1, AtHand
<1>3. /\ DeliveryOK' /\ CountedOK' /\ \A c \in Deliveries : Moves(c) /\ Onward(c)
  BY <1>1, MovesKept DEF IInv, TypeInv, DeliveryOK, CountedOK, Moves, producer
<1>4. CASE endpoint' = endpoint
  <2>1. EndpointOK'
    BY <1>4 DEF IInv, TypeInv, EndpointOK
  <2> QED BY <1>1, <1>3, <1>4, <2>1, SettlingStep
<1>5. CASE endpoint' = [endpoint EXCEPT ![e].consecutiveFailures = 0]
  <2> DEFINE row == [endpoint[e] EXCEPT !.consecutiveFailures = 0]
  <2>1. /\ row \in Endpoint /\ row.consecutiveFailures = 0
        /\ row.state = endpoint[e].state /\ row.disabledReason = endpoint[e].disabledReason
    BY <1>2 DEF Endpoint
  <2>2. endpoint' = [endpoint EXCEPT ![e] = row]
    BY <1>5
  <2> HIDE DEF row
  <2>a. row.state = "off" <=> row.disabledReason # Null
    BY <1>2, <2>1
  <2>3. EndpointOK' /\ endpoint'[e] = row /\ \A f \in Endpoints : f # e => endpoint'[f] = endpoint[f]
    BY <2>1, <2>2, <2>a, EndpointReplaced
  <2>4. Streak(e)'
    BY <1>3, <2>1, <2>3, StreakKept DEF Forward
  <2> QED BY <1>1, <1>3, <2>3, <2>4, SettlingStep
<1> QED BY <1>2, <1>4, <1>5 DEF ClearStreak

LEMMA DisableEndpointStep ==
  ASSUME IInv, NEW a \in Actors, DisableEndpoint(a)
  PROVE  Kept
<1>1. actor[a].pc = "disabling" /\ actor' = [actor EXCEPT ![a].pc = "pruning"]
      /\ UNCHANGED <<delivery, job, producer, counted, faults>>
  BY DEF DisableEndpoint
<1>2. PICK d \in Deliveries, e \in Endpoints :
        /\ d = actor[a].id /\ e = delivery[d].endpoint /\ delivery[d].status # "none"
        /\ endpoint[e] \in Endpoint /\ endpoint[e].consecutiveFailures \in Nat
        /\ endpoint[e].state = "off" <=> endpoint[e].disabledReason # Null
  BY <1>1, AtHand
<1>3. /\ DeliveryOK' /\ CountedOK' /\ \A c \in Deliveries : Moves(c) /\ Onward(c)
  BY <1>1, MovesKept DEF IInv, TypeInv, DeliveryOK, CountedOK, Moves, producer
<1>4. CASE endpoint' = endpoint
  <2>1. EndpointOK'
    BY <1>4 DEF IInv, TypeInv, EndpointOK
  <2> QED BY <1>1, <1>3, <1>4, <2>1, SettlingStep
<1>5. CASE /\ endpoint' = [endpoint EXCEPT ![e].state = "off", ![e].disabledReason = "consecutive_failures"]
  <2> DEFINE row == [endpoint[e] EXCEPT !.state = "off", !.disabledReason = "consecutive_failures"]
  <2>1. /\ row \in Endpoint /\ row.consecutiveFailures = endpoint[e].consecutiveFailures
        /\ row.state = "off" /\ row.disabledReason = "consecutive_failures"
    BY <1>2 DEF Endpoint
  <2>2. endpoint' = [endpoint EXCEPT ![e] = row]
    BY <1>2, <1>5 DEF IInv, TypeInv, EndpointOK, Endpoint
  <2> HIDE DEF row
  <2>3. EndpointOK' /\ endpoint'[e] = row /\ \A f \in Endpoints : f # e => endpoint'[f] = endpoint[f]
    BY <2>1, <2>2, EndpointReplaced
  <2>4. Cardinality(FailedOf(e)) >= DisableAfter
    BY <1>1, <1>2 DEF IInv, Task
  <2>5. Streak(e)'
    BY <1>2, <1>3, <2>1, <2>3, <2>4, StreakKept DEF Forward
  <2> QED BY <1>1, <1>3, <2>3, <2>5, SettlingStep
<1> QED BY <1>2, <1>4, <1>5 DEF DisableEndpoint

LEMMA FailStrandedStep ==
  ASSUME IInv, NEW a \in Actors, FailStranded(a)
  PROVE  Kept
<1>1. actor[a].pc # "idle" /\ actor' = [actor EXCEPT ![a].pc = "trimming"]
      /\ UNCHANGED <<endpoint, job, producer, counted, faults>>
  BY DEF FailStranded
<1>2. EndpointOK'
  BY <1>1 DEF IInv, TypeInv, EndpointOK
<1>3. DeliveryOK' /\ \A d \in Deliveries : Moves(d)
  BY DEF FailStranded, IInv, TypeInv, DeliveryOK, Delivery, Moves
<1> QED BY <1>1, <1>2, <1>3, SettlingStep

LEMMA TrimHistoryStep ==
  ASSUME IInv, NEW a \in Actors, TrimHistory(a)
  PROVE  Kept
<1>1. actor[a].pc # "idle" /\ UNCHANGED <<endpoint, producer, counted, faults>>
  BY DEF TrimHistory
<1>2. DeliveryOK' /\ \A d \in Deliveries : Moves(d)
  <2>1. /\ \A d \in Deliveries :
             \/ delivery'[d] = delivery[d]
             \/ delivery[d].status # "none" /\ delivery'[d] = [delivery[d] EXCEPT !.status = "deleted"]
        /\ delivery' = [d \in Deliveries |-> delivery'[d]]
    BY DEF TrimHistory
  <2>2. ASSUME NEW d \in Deliveries
        PROVE  delivery'[d] \in Delivery /\ Moves(d)
    <3>1. delivery[d] \in Delivery
      BY DEF IInv, TypeInv, DeliveryOK
    <3> QED BY <2>1, <3>1 DEF Delivery, Moves
  <2> QED BY <2>1, <2>2 DEF DeliveryOK
<1>3. EndpointOK' /\ FaultsOK'
  BY <1>1, FaultsKept DEF IInv, TypeInv, EndpointOK
<1>4. /\ JobOK' /\ \A c \in Deliveries : job'[c] = job[c] \/ Queued(c)'
      /\ ActorOK' /\ \A b \in Actors : actor'[b] = actor[b] \/ (Task(b)' /\ actor'[b].pc # "settling")
  <2>1. CASE a \in Workers
    <3>1. CompleteJob(a)
      BY <2>1 DEF TrimHistory
    <3>2. \A c \in Deliveries : delivery'[c].status = "none" => delivery[c].status = "none"
      BY <1>2 DEF Moves
    <3> QED BY <1>1, <2>1, <3>1, <3>2, Completed DEF producer
  <2>2. CASE a \notin Workers
    <3>1. job' = job /\ actor' = [actor EXCEPT ![a] = Idle]
      BY <2>2 DEF TrimHistory
    <3>2. ActorOK' /\ actor'[a] = Idle /\ \A b \in Actors : b # a => actor'[b] = actor[b]
      BY <3>1, IdleActor, ActorReplaced
    <3>3. Task(a)' /\ actor'[a].pc = "idle"
      BY <3>2, IdleTask
    <3>4. JobOK'
      BY <3>1 DEF IInv, TypeInv, JobOK
    <3> QED BY <3>1, <3>2, <3>3, <3>4
  <2> QED BY <2>1, <2>2
<1>5. OneSettles'
  BY <1>4, NobodyElseSettles
<1> QED BY <1>1, <1>2, <1>3, <1>4, <1>5, MovingStep DEF producer

\* Of the failures of one endpoint there is one more.
LEMMA OneMoreFailed ==
  ASSUME IInv, NEW d \in Deliveries, NEW e \in Endpoints, e = delivery[d].endpoint, counted[d] = 0,
         delivery' = delivery, counted' = [counted EXCEPT ![d] = @ + 1]
  PROVE  /\ Cardinality(FailedOf(e)') = Cardinality(FailedOf(e)) + 1
         /\ Cardinality(FailedOf(e)) \in Nat
<1>1. counted'[d] = 1 /\ \A c \in Deliveries : c # d => counted'[c] = counted[c]
  BY DEF IInv, TypeInv, CountedOK
<1>2. FailedOf(e)' = FailedOf(e) \cup {d} /\ d \notin FailedOf(e)
  BY <1>1 DEF FailedOf
<1>3. IsFiniteSet(FailedOf(e)) /\ Cardinality(FailedOf(e)) \in Nat
  BY FailedFinite
<1>4. PICK old, new : old = FailedOf(e) /\ new = FailedOf(e)'
  OBVIOUS
<1>5. new = old \cup {d} /\ d \notin old /\ IsFiniteSet(old) /\ Cardinality(old) \in Nat
  BY <1>2, <1>3, <1>4
<1>6. Cardinality(new) = Cardinality(old) + 1
  BY <1>5, FS_AddElement
<1> QED BY <1>4, <1>5, <1>6

\* The one actor that settles the delivery counts it, once.
LEMMA ExtendStreakStep ==
  ASSUME IInv, NEW a \in Actors, ExtendStreak(a)
  PROVE  Kept
<1>1. actor[a].pc = "settling" /\ actor[a].decision = "failed" /\ UNCHANGED <<delivery, job, producer, faults>>
  BY DEF ExtendStreak
<1>2. PICK d \in Deliveries, e \in Endpoints :
        /\ d = actor[a].id /\ e = delivery[d].endpoint /\ delivery[d].status # "none"
        /\ endpoint[e] \in Endpoint /\ endpoint[e].consecutiveFailures \in Nat
        /\ endpoint[e].state = "off" <=> endpoint[e].disabledReason # Null
  BY <1>1, AtHand
<1> DEFINE streak == endpoint[e].consecutiveFailures + 1
<1>3. counted[d] = 0 /\ delivery[d].status \in {"failed", "deleted"} /\ Undelivered(d)
  BY <1>1, <1>2 DEF IInv, Task
<1>4. PICK pc \in {"pruning", "disabling"} :
        /\ actor' = [actor EXCEPT ![a].pc = pc]
        /\ pc = "disabling" => endpoint[e].state = "on" /\ streak >= DisableAfter
  BY <1>2 DEF ExtendStreak
<1>5. CASE ~Exists(e)
  <2>1. pc = "pruning"
    BY <1>4, <1>5 DEF Exists
  <2>2. UNCHANGED <<endpoint, counted>>
    BY <1>2, <1>5 DEF ExtendStreak
  <2>3. EndpointOK' /\ DeliveryOK' /\ \A c \in Deliveries : Moves(c)
    <3>1. EndpointOK' /\ DeliveryOK'
      BY <1>1, <2>2 DEF IInv, TypeInv, EndpointOK, DeliveryOK
    <3> QED BY <1>1, <3>1 DEF Moves
  <2>4. actor' = [actor EXCEPT ![a].pc = "pruning"] /\ actor[a].pc # "idle"
    BY <1>1, <1>4, <2>1
  <2> QED BY <1>1, <2>2, <2>3, <2>4, SettlingStep
<1>6. CASE Exists(e)
  <2> DEFINE row == [endpoint[e] EXCEPT !.consecutiveFailures = streak]
  <2>1. /\ row \in Endpoint /\ row.consecutiveFailures = streak
        /\ row.state = endpoint[e].state /\ row.disabledReason = endpoint[e].disabledReason
    <3>1. endpoint[e] \in Endpoint /\ streak \in Nat
      BY <1>2
    <3> HIDE DEF streak
    <3> QED BY <3>1 DEF Endpoint
  <2>2. endpoint' = [endpoint EXCEPT ![e] = row] /\ counted' = [counted EXCEPT ![d] = @ + 1]
    BY <1>2, <1>6 DEF ExtendStreak
  <2> HIDE DEF row
  <2>3. row.state = "off" <=> row.disabledReason # Null
    BY <1>2, <2>1
  <2>4. EndpointOK' /\ endpoint'[e] = row /\ \A f \in Endpoints : f # e => endpoint'[f] = endpoint[f]
    BY <2>1, <2>2, <2>3, EndpointReplaced
  <2>5. /\ counted'[d] = 1 /\ CountedOK'
        /\ \A c \in Deliveries : c # d => counted'[c] = counted[c]
    BY <1>3, <2>2 DEF IInv, TypeInv, CountedOK
  <2>6. Cardinality(FailedOf(e)') = Cardinality(FailedOf(e)) + 1 /\ Cardinality(FailedOf(e)) \in Nat
    BY <1>1, <1>2, <1>3, <2>2, OneMoreFailed
  <2>7. DeliveryOK' /\ JobOK' /\ ProducerOK' /\ FaultsOK' /\ Chosen'
    <3>1. UNCHANGED <<delivery, job, selected, unqueued, failures, crashes, losses>>
      BY <1>1 DEF producer, faults
    <3>2. DeliveryOK' /\ JobOK'
      BY <3>1 DEF IInv, TypeInv, DeliveryOK, JobOK
    <3>3. ProducerOK' /\ FaultsOK'
      BY <3>1 DEF IInv, TypeInv, ProducerOK, FaultsOK
    <3>4. Chosen'
      BY <3>1 DEF IInv, Chosen
    <3> QED BY <3>2, <3>3, <3>4
  <2>8. ASSUME NEW c \in Deliveries
        PROVE  Onward(c) /\ Story(c)' /\ Once(c)' /\ Row(c)' /\ Queued(c)'
    <3>1. Queued(c)'
      BY <1>1, QueuedKept DEF producer
    <3>2. CASE c # d
      <4>1. Moves(c)
        BY <1>1 DEF Moves
      <4> QED BY <1>1, <2>5, <3>1, <3>2, <4>1, MovesKept DEF producer
    <3>3. CASE c = d
      <4>1. Story(c)' /\ Row(c)'
        BY <1>1 DEF IInv, Story, Row, Pending, Undelivered, producer
      <4>2. Once(c)' /\ Onward(c)
        BY <1>1, <1>3, <2>5, <3>3 DEF Once, Onward, Undelivered
      <4> QED BY <3>1, <4>1, <4>2
    <3> QED BY <3>2, <3>3
  <2>9. Forward
    BY <2>8 DEF Forward
  <2>10. /\ ActorOK' /\ actor'[a].pc = pc /\ actor'[a].id = d
         /\ \A b \in Actors : b # a => actor'[b] = actor[b]
         /\ pc = "pruning" => Task(a)'
    BY <1>1, <1>2, <1>4, NextPc
  <2>11. endpoint[e].consecutiveFailures <= Cardinality(FailedOf(e)) /\ Streak(e)
    BY DEF IInv, Streak
  <2>12. streak <= Cardinality(FailedOf(e)') /\ Cardinality(FailedOf(e)') \in Nat
    BY <1>2, <2>6, <2>11
  <2>13. pc = "disabling" => Cardinality(FailedOf(e)') >= DisableAfter
    BY <1>2, <1>4, <2>12
  <2>14. Task(a)'
    <3> SUFFICES ASSUME pc = "disabling" PROVE Task(a)'
      BY <2>10
    <3>1. \A f \in Endpoints : delivery'[d].endpoint = f => Cardinality(FailedOf(f)') >= DisableAfter
      BY <1>1, <1>2, <2>13
    <3>2. a \in Deliveries => d = a
      BY <1>1, <1>2 DEF IInv, Task
    <3>3. ActorOK' /\ actor'[a].pc = "disabling" /\ actor'[a].id = d /\ delivery'[d].status # "none"
      BY <1>1, <1>2, <2>10
    <3> QED BY <3>1, <3>2, <3>3 DEF Task
  <2>15. \A b \in Actors : Task(b)'
    <3> SUFFICES ASSUME NEW b \in Actors, b # a PROVE Task(b)'
      BY <2>14
    <3>1. actor[b].pc = "settling" => actor[b].id \in Deliveries /\ actor[b].id # d
      BY <1>1, <1>2 DEF IInv, OneSettles, Task
    <3> QED BY <2>5, <2>9, <2>10, <3>1, TaskKept
  <2>16. OneSettles'
    BY <2>10, NobodyElseSettles
  <2>17. ASSUME NEW f \in Endpoints
         PROVE  Streak(f)'
    <3>1. CASE f = e
      <4>1. row.disabledReason = "consecutive_failures" => Cardinality(FailedOf(e)') >= DisableAfter
        BY <2>1, <2>6, <2>11 DEF Streak
      <4> QED BY <2>1, <2>4, <2>12, <3>1, <4>1 DEF Streak
    <3>2. CASE f # e
      <4>1. endpoint[f].consecutiveFailures \in Nat /\ endpoint'[f] = endpoint[f]
        BY <2>4, <3>2 DEF IInv, TypeInv, EndpointOK, Endpoint
      <4> QED BY <2>4, <2>5, <2>9, <4>1, StreakKept DEF IInv, Streak
    <3> QED BY <3>1, <3>2
  <2> QED BY <2>4, <2>5, <2>7, <2>8, <2>9, <2>10, <2>15, <2>16, <2>17 DEF Kept, IInv, TypeInv
<1> QED BY <1>5, <1>6

LEMMA SettleStep ==
  ASSUME IInv, NEW a \in Actors, Settle(a)
  PROVE  Kept
BY ClearStreakStep, ExtendStreakStep, DisableEndpointStep, FailStrandedStep, TrimHistoryStep DEF Settle

-----------------------------------------------------------------------------
\* The invariant.

LEMMA InitInv == Init => IInv
<1> SUFFICES ASSUME Init PROVE IInv
  OBVIOUS
<1>1. NoEndpoint \in Endpoint /\ NoEndpoint.state = "none" /\ NoEndpoint.disabledReason = Null
      /\ NoEndpoint.consecutiveFailures = 0
  BY DEF NoEndpoint, Endpoint
<1>2. NoDelivery \in Delivery /\ NoDelivery.status = "none" /\ NoDelivery.attempts = <<>>
      /\ NoDelivery.attemptCount = 0
  BY DEF NoDelivery, Delivery, Ages
<1>3. NoJob \in Job /\ NoJob.owner = Null /\ NoJob.state = "none"
  BY DEF NoJob, Job
<1>4. Idle \in Actor /\ Idle.pc = "idle"
  BY IdleActor DEF Idle
<1>5. TypeInv
  BY <1>1, <1>2, <1>3, <1>4
     DEF Init, TypeInv, EndpointOK, DeliveryOK, CountedOK, JobOK, ActorOK, ProducerOK, FaultsOK
<1>6. ASSUME NEW d \in Deliveries
      PROVE  Story(d) /\ Once(d) /\ Row(d) /\ Queued(d)
  <2>1. delivery[d] = NoDelivery /\ counted[d] = 0 /\ job[d] = NoJob /\ d \notin unqueued
    BY DEF Init
  <2>2. Story(d)
    BY <1>2, <2>1 DEF Story, Pending
  <2> QED BY <1>2, <1>3, <2>1, <2>2 DEF Once, Row, Queued
<1>7. \A a \in Actors : actor[a] = Idle /\ Task(a)
  BY <1>4 DEF Init, Task
<1>8. Chosen /\ OneSettles
  BY <1>4, <1>7 DEF Init, Chosen, OneSettles
<1>9. ASSUME NEW e \in Endpoints
      PROVE  Streak(e)
  <2>1. endpoint[e].consecutiveFailures = 0 /\ endpoint[e].disabledReason = Null
    BY <1>1 DEF Init
  <2> QED BY <2>1, FailedFinite DEF Streak
<1> QED BY <1>5, <1>6, <1>7, <1>8, <1>9 DEF IInv

LEMMA StepInv ==
  ASSUME IInv, [Next]_vars
  PROVE  Kept
<1>1. ASSUME NEW e \in Endpoints,
             \/ CreateWebhookEndpoint(e) \/ DeleteWebhookEndpoint(e)
             \/ \E active \in BOOLEAN : SetWebhookEndpointActive(e, active)
      PROVE  Kept
  BY <1>1, SwitchStep, DeleteWebhookEndpointStep
<1>2. ASSUME NEW batch \in SUBSET Deliveries, SelectEndpoints(batch) \/ InsertDeliveries(batch)
      PROVE  Kept
  BY <1>2, SelectEndpointsStep, InsertDeliveriesStep
<1>3. ASSUME NEW d \in Deliveries,
             EnqueueDelivery(d) \/ Age(d) \/ Stall(d) \/ SettleExhausted(d) \/ Settle(d) \/ LoseHandler(d)
      PROVE  Kept
  BY <1>3, EnqueueDeliveryStep, AgeStep, StallStep, SettleExhaustedStep, SettleStep, LoseHandlerStep DEF Actors
<1>4. ASSUME NEW w \in Workers,
             (\E d \in Deliveries : TakeJob(w, d)) \/ Attempt(w) \/ FailAttempt(w) \/ Crash(w)
      PROVE  Kept
  <2>1. w \in Actors
    BY DEF Actors
  <2>2. CASE Attempt(w)
    BY <2>1, <2>2, LoadDeliveryStep, AttemptDeliveryStep, RecordAttemptStep, RecordTooLateStep,
       ThrowRetryStep, SettleStep DEF Attempt
  <2> QED BY <1>4, <2>2, TakeJobStep, FailAttemptStep, CrashStep
<1>5. CASE UNCHANGED vars
  <2>1. /\ UNCHANGED <<endpoint, delivery, selected, unqueued, counted, job, actor, faults>>
    BY <1>5 DEF vars, producer
  <2>2. JobOK' /\ ActorOK' /\ FaultsOK'
    BY <2>1, FaultsKept DEF IInv, TypeInv, JobOK, ActorOK
  <2> QED BY <2>1, <2>2, QueueStep
<1> QED BY <1>1, <1>2, <1>3, <1>4, <1>5 DEF Next

\* Every part of the invariant holds of every state.
THEOREM Inductive == Spec => []IInv
<1>1. IInv /\ [Next]_vars => IInv'
  BY StepInv DEF Kept
<1> QED BY <1>1, InitInv, PTL DEF Spec

\* Every row, job, actor and bound has its type, and an inactive endpoint says why it is inactive
\* (chk_webhook_endpoints_disabled_reason).
THEOREM TypeCorrect == Spec => []TypeOK
<1>1. IInv => TypeOK
  BY DEF IInv, TypeInv, TypeOK, EndpointOK, DeliveryOK, CountedOK, JobOK, ActorOK, ProducerOK, FaultsOK
<1> QED BY <1>1, Inductive, PTL

\* However attempts overlap, the log holds each once, and says why the delivery is where it is
\* (recordAttempt asks for a pending row and the attempt count that was read).
THEOREM LogIsTrue == Spec => []LogTellsTheStory
<1>1. IInv => LogTellsTheStory
  BY DEF IInv, Story, Undelivered, LogTellsTheStory
<1> QED BY <1>1, Inductive, PTL

\* A delivery extends a failure streak at most once, and only if it was not delivered
\* (settleEndpoint runs after the one update that ended the delivery).
THEOREM CountsOnce == Spec => []CountedOnce
<1>1. IInv => CountedOnce
  BY DEF IInv, Once, Undelivered, CountedOnce
<1> QED BY <1>1, Inductive, PTL

\* The streak is of distinct deliveries that failed, and switches the endpoint off only when there
\* are as many as the threshold.
THEOREM StreakOfDistinct == Spec => []StreakOfDistinctDeliveries
<1>1. IInv => StreakOfDistinctDeliveries
  BY DEF IInv, Streak, FailedOf, StreakOfDistinctDeliveries
<1> QED BY <1>1, Inductive, PTL

\* What has ended stays as it ended, attempts and all, until it is deleted (the updates ask for a
\* pending row).
THEOREM EndedStays == Spec => EndsOnce
<1>1. IInv /\ [Next]_vars =>
        [\A d \in Deliveries : Ended(d) =>
             /\ delivery'[d].status \in {delivery[d].status, "deleted"}
             /\ delivery'[d].attempts = delivery[d].attempts]_vars
  BY StepInv DEF Kept, Forward, Onward
<1> QED BY <1>1, Inductive, PTL DEF Spec, EndsOnce
=============================================================================
