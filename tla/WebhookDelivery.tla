--------------------------- MODULE WebhookDelivery ---------------------------
(***************************************************************************)
(* Outbound webhooks: features/webhooks on the queue of lib/jobs, and the  *)
(* owner's switches in features/settings/webhooks.                         *)
(*                                                                         *)
(* A delivery is a row and a job.  An attempt reads the row, posts to the  *)
(* receiver, records what came of it on condition that nothing moved       *)
(* meanwhile, and, if the delivery has ended, settles the endpoint's       *)
(* failure streak and prunes.  A job whose attempts are used up is settled *)
(* by a handler of its own.  Each statement is a step, and a worker may    *)
(* fail, die or lose its job between any two.                              *)
(***************************************************************************)
EXTENDS Integers, Sequences, FiniteSets

CONSTANTS Endpoints, Deliveries, Workers, Null,
          MaxAttempts,   \* WEBHOOK_MAX_ATTEMPTS, of the decision and of the job
          DisableAfter,  \* WEBHOOK_DISABLE_AFTER_FAILURES
          MaxFailures,   \* bound: attempts that throw for want of the database
          MaxCrashes,    \* bound: workers that die
          MaxLosses      \* bound: jobs taken from a live worker, lost enqueues, lost handlers

ASSUME WebhookAssumption ==
  /\ MaxAttempts \in Nat \ {0} /\ DisableAfter \in Nat \ {0}
  /\ MaxFailures \in Nat /\ MaxCrashes \in Nat /\ MaxLosses \in Nat
  /\ IsFiniteSet(Deliveries) /\ Workers \cap Deliveries = {}
  /\ Null \notin Workers \cup Deliveries \cup Endpoints \cup {"manual", "consecutive_failures"}

VARIABLES
  endpoint,  \* webhook_endpoints
  delivery,  \* webhook_deliveries
  job,       \* BullMQ's record of webhook-delivery-<id>
  actor,     \* what each worker, and each exhausted handler, is doing
  selected,  \* batches of deliveries a producer has chosen endpoints for
  unqueued,  \* deliveries a producer has inserted and not yet enqueued
  counted,   \* history: how often a delivery extended a failure streak
  failures, crashes, losses  \* history: how much went wrong so far

producer == <<selected, unqueued>>
faults   == <<failures, crashes, losses>>
vars     == <<endpoint, delivery, job, actor, producer, counted, faults>>

Endpoint   == [state : {"none", "on", "off", "deleted"},
               disabledReason : {Null, "manual", "consecutive_failures"},
               consecutiveFailures : Nat]
NoEndpoint == [state |-> "none", disabledReason |-> Null, consecutiveFailures |-> 0]

\* retryable: http_error, timeout, network_error; permanent: redirect, blocked.
Outcomes == {"delivered", "retryable", "permanent", "endpoint_inactive"}

\* older than getStrandedDeliveryCutoff; older than WEBHOOK_DELIVERY_RETENTION_DAYS too.
Ages == {"fresh", "stranded", "expired"}

\* attempts: the outcomes recorded, in order.
Delivery   == [status : {"none", "pending", "succeeded", "failed", "deleted"},
               endpoint : Endpoints \cup {Null}, attemptCount : Nat,
               attempts : Seq(Outcomes), age : Ages]
NoDelivery == [status |-> "none", endpoint |-> Null, attemptCount |-> 0,
               attempts |-> <<>>, age |-> "fresh"]

Job   == [state : {"none", "waiting", "active", "completed", "failed"},
          owner : Workers \cup {Null}, made : 0..MaxAttempts, stalled : BOOLEAN]
NoJob == [state |-> "none", owner |-> Null, made |-> 0, stalled |-> FALSE]

Actors   == Workers \cup Deliveries  \* the exhausted handler of a job is named after its delivery
Decision == {"succeeded", "retry", "failed"}

\* id: the delivery at hand; count, active: the row as loaded; age: of every row, when the
\* attempt began; then what came of it.
Actor == [pc : {"idle", "loading", "posting", "recording", "throwing", "exhausted",
                "settling", "disabling", "pruning", "trimming"},
          id : Deliveries \cup {Null}, count : Nat, active : BOOLEAN,
          age : [Deliveries -> Ages],
          outcome : Outcomes \cup {Null}, decision : Decision \cup {Null}]
Idle  == [pc |-> "idle", id |-> Null, count |-> 0, active |-> FALSE,
          age |-> [d \in Deliveries |-> "fresh"], outcome |-> Null, decision |-> Null]

\* decideWebhookDelivery.
Decide(outcome, attemptNumber) ==
  CASE outcome = "delivered" -> "succeeded"
    [] outcome = "retryable" /\ attemptNumber < MaxAttempts -> "retry"
    [] OTHER -> "failed"

Exists(e)  == endpoint[e].state \in {"on", "off"}
Pending(d) == delivery[d].status = "pending"
Ended(d)   == delivery[d].status \in {"succeeded", "failed", "deleted"}
AgesNow    == [d \in Deliveries |-> delivery[d].age]

Init ==
  /\ endpoint = [e \in Endpoints |-> NoEndpoint]
  /\ delivery = [d \in Deliveries |-> NoDelivery]
  /\ job = [d \in Deliveries |-> NoJob]
  /\ actor = [a \in Actors |-> Idle]
  /\ selected = {} /\ unqueued = {}
  /\ counted = [d \in Deliveries |-> 0]
  /\ failures = 0 /\ crashes = 0 /\ losses = 0

Fail == failures < MaxFailures /\ failures' = failures + 1 /\ UNCHANGED <<crashes, losses>>
Die  == crashes < MaxCrashes /\ crashes' = crashes + 1 /\ UNCHANGED <<failures, losses>>
Lose == losses < MaxLosses /\ losses' = losses + 1 /\ UNCHANGED <<failures, crashes>>

-----------------------------------------------------------------------------
\* The owner: features/settings/webhooks/mutations.ts.

CreateWebhookEndpoint(e) ==
  /\ endpoint[e].state = "none"
  /\ endpoint' = [endpoint EXCEPT ![e].state = "on"]
  /\ UNCHANGED <<delivery, job, actor, producer, counted, faults>>

\* Mutant: an endpoint switched on keeps the reason it was switched off for.
SetWebhookEndpointActiveKeepingReason(e, active) ==
  /\ Exists(e)
  /\ endpoint' = [endpoint EXCEPT ![e] =
                    IF active THEN [@ EXCEPT !.state = "on", !.consecutiveFailures = 0]
                    ELSE [@ EXCEPT !.state = "off", !.disabledReason = "manual"]]
  /\ UNCHANGED <<delivery, job, actor, producer, counted, faults>>

SetWebhookEndpointActive(e, active) ==
  /\ Exists(e)
  /\ endpoint' = [endpoint EXCEPT ![e] =
                    IF active THEN [NoEndpoint EXCEPT !.state = "on"]
                    ELSE [@ EXCEPT !.state = "off", !.disabledReason = "manual"]]
  /\ UNCHANGED <<delivery, job, actor, producer, counted, faults>>

\* The deliveries go with their endpoint.
DeleteWebhookEndpoint(e) ==
  /\ Exists(e)
  /\ endpoint' = [endpoint EXCEPT ![e] = [NoEndpoint EXCEPT !.state = "deleted"]]
  /\ delivery' = [d \in Deliveries |->
                    IF delivery[d].endpoint = e /\ delivery[d].status # "none"
                    THEN [delivery[d] EXCEPT !.status = "deleted"] ELSE delivery[d]]
  /\ UNCHANGED <<job, actor, producer, counted, faults>>

-----------------------------------------------------------------------------
\* The producer: deliveries.ts.

\* An event selects the endpoints that are on and subscribed to it, a test one of them ...
SelectEndpoints(batch) ==
  /\ batch # {} /\ \A d \in batch : delivery[d] = NoDelivery
  /\ \E of \in [batch -> {e \in Endpoints : endpoint[e].state = "on"}] :
       /\ \A c, d \in batch : of[c] = of[d] => c = d
       /\ delivery' = [d \in Deliveries |->
                         IF d \in batch THEN [NoDelivery EXCEPT !.endpoint = of[d]]
                         ELSE delivery[d]]
  /\ selected' = selected \cup {batch}
  /\ UNCHANGED <<endpoint, job, actor, unqueued, counted, faults>>

\* ... one statement inserts a row for each, on or off by now, or none if one is gone ...
InsertDeliveries(batch) ==
  /\ batch \in selected /\ selected' = selected \ {batch}
  /\ LET inserted == \A d \in batch : Exists(delivery[d].endpoint)
     IN  /\ delivery' = [d \in Deliveries |->
                           IF d \notin batch THEN delivery[d]
                           ELSE IF inserted THEN [delivery[d] EXCEPT !.status = "pending"]
                           ELSE NoDelivery]
         /\ unqueued' = IF inserted THEN unqueued \cup batch ELSE unqueued
  /\ UNCHANGED <<endpoint, job, actor, counted, faults>>

\* ... and a job for each is queued, unless Redis is out of reach or the process dies.
EnqueueDelivery(d) ==
  /\ d \in unqueued /\ unqueued' = unqueued \ {d}
  /\ \/ job' = [job EXCEPT ![d].state = "waiting"] /\ UNCHANGED faults
     \/ Lose /\ UNCHANGED job
  /\ UNCHANGED <<endpoint, delivery, actor, selected, counted>>

\* A day, and then a month, go by for a row.
Age(d) ==
  /\ delivery[d].status \notin {"none", "deleted"} /\ delivery[d].age # "expired"
  /\ delivery' = [delivery EXCEPT ![d].age = IF @ = "fresh" THEN "stranded" ELSE "expired"]
  /\ UNCHANGED <<endpoint, job, actor, producer, counted, faults>>

-----------------------------------------------------------------------------
\* The queue: lib/jobs and, behind it, BullMQ.

\* isFinalJobAttempt, of the attempt that is failing.
Final(d) == job[d].made + 1 >= MaxAttempts

Handler(d) == [Idle EXCEPT !.pc = "exhausted", !.id = d, !.age = AgesNow]

\* The lock of an active job ran out: its worker is gone, or too slow to renew it.  BullMQ
\* returns the job to the queue the first time and fails it the second, as its last attempt
\* or not.
Stall(d) ==
  /\ job[d].state = "active"
  /\ \/ job[d].owner = Null /\ UNCHANGED faults
     \/ job[d].owner # Null /\ Lose
  /\ job' = [job EXCEPT ![d].owner = Null, ![d].stalled = TRUE,
                        ![d].state = IF job[d].stalled THEN "failed" ELSE "waiting"]
  /\ \/ UNCHANGED actor
     \/ /\ job[d].stalled /\ Final(d)
        /\ actor' = [actor EXCEPT ![d] = Handler(d)]
  /\ UNCHANGED <<endpoint, delivery, producer, counted>>

TakeJob(w, d) ==
  /\ actor[w].pc = "idle" /\ job[d].state = "waiting"
  /\ job' = [job EXCEPT ![d].state = "active", ![d].owner = w]
  /\ actor' = [actor EXCEPT ![w] = [Idle EXCEPT !.pc = "loading", !.id = d]]
  /\ UNCHANGED <<endpoint, delivery, producer, counted, faults>>

\* A worker leaves its job as row, unless it has been taken away meanwhile.
Leave(w, row) ==
  LET d == actor[w].id
  IN  job' = IF job[d].owner = w THEN [job EXCEPT ![d] = row] ELSE job

CompleteJob(w) ==
  LET d == actor[w].id
  IN  /\ Leave(w, [job[d] EXCEPT !.state = "completed", !.owner = Null])
      /\ actor' = [actor EXCEPT ![w] = Idle]

\* Mutant: a job whose attempts are used up is only logged.
FailJobUnsettled(w) ==
  LET d == actor[w].id
  IN  /\ Leave(w, [job[d] EXCEPT !.state = IF Final(d) THEN "failed" ELSE "waiting",
                                 !.owner = Null, !.made = @ + 1])
      /\ actor' = [actor EXCEPT ![w] = Idle]

\* The worker's failed event: the job waits for its next attempt, or its exhausted handler starts.
FailJob(w) ==
  LET d == actor[w].id
  IN  /\ Leave(w, [job[d] EXCEPT !.state = IF Final(d) THEN "failed" ELSE "waiting",
                                 !.owner = Null, !.made = @ + 1])
      /\ actor' = IF job[d].owner = w /\ Final(d)
                  THEN [actor EXCEPT ![w] = Idle, ![d] = Handler(d)]
                  ELSE [actor EXCEPT ![w] = Idle]

\* The database is out of reach of one of the attempt's statements.
FailAttempt(w) ==
  /\ actor[w].pc \notin {"idle", "posting", "throwing"}
  /\ Fail /\ FailJob(w)
  /\ UNCHANGED <<endpoint, delivery, producer, counted>>

\* The process dies, and its job is left without an owner.
Crash(w) ==
  /\ actor[w].pc # "idle"
  /\ Die
  /\ Leave(w, [job[actor[w].id] EXCEPT !.owner = Null])
  /\ actor' = [actor EXCEPT ![w] = Idle]
  /\ UNCHANGED <<endpoint, delivery, producer, counted>>

\* An exhausted handler is not tried again when it fails or dies.
LoseHandler(d) ==
  /\ actor[d].pc # "idle"
  /\ Lose
  /\ actor' = [actor EXCEPT ![d] = Idle]
  /\ UNCHANGED <<endpoint, delivery, job, producer, counted>>

-----------------------------------------------------------------------------
\* One attempt: sendWebhookDelivery.

\* A row still to be delivered is read, or the job has nothing to do.
LoadDelivery(w) ==
  LET d == actor[w].id
  IN  /\ actor[w].pc = "loading"
      /\ \/ ~Pending(d) /\ CompleteJob(w)
         \/ /\ Pending(d)
            /\ actor' = [actor EXCEPT ![w] =
                           [@ EXCEPT !.pc = "posting", !.count = delivery[d].attemptCount,
                                     !.active = endpoint[delivery[d].endpoint].state = "on",
                                     !.age = AgesNow]]
            /\ UNCHANGED job
      /\ UNCHANGED <<endpoint, delivery, producer, counted, faults>>

\* The request and its answer, or no request to an endpoint that was off.
AttemptDelivery(w) ==
  /\ actor[w].pc = "posting"
  /\ \E outcome \in Outcomes :
       /\ (outcome = "endpoint_inactive") <=> ~actor[w].active
       /\ actor' = [actor EXCEPT ![w] =
                      [@ EXCEPT !.pc = "recording", !.outcome = outcome,
                                !.decision = Decide(outcome, actor[w].count + 1)]]
  /\ UNCHANGED <<endpoint, delivery, job, producer, counted, faults>>

\* recordAttempt, and where the attempt goes from there; nothing moved since the row was read.
Record(w) ==
  LET d == actor[w].id
      decision == actor[w].decision
  IN  /\ delivery' = [delivery EXCEPT ![d] =
                        [@ EXCEPT !.attemptCount = actor[w].count + 1,
                                  !.attempts = Append(delivery[d].attempts, actor[w].outcome),
                                  !.status = IF decision = "retry" THEN "pending" ELSE decision]]
      /\ actor' = [actor EXCEPT ![w].pc =
                     IF decision = "retry" THEN "throwing"
                     ELSE IF actor[w].outcome = "endpoint_inactive" THEN "pruning"
                     ELSE "settling"]
      /\ UNCHANGED <<endpoint, job, producer, counted, faults>>

Unmoved(w) == delivery[actor[w].id].attemptCount = actor[w].count

\* Mutant: the update does not ask for the attempt count that was read.
RecordAttemptUncounted(w) ==
  actor[w].pc = "recording" /\ Pending(actor[w].id) /\ Record(w)

\* Mutant: the update does not ask for a delivery still pending.
RecordAttemptReopening(w) ==
  /\ actor[w].pc = "recording" /\ Unmoved(w)
  /\ delivery[actor[w].id].status # "deleted"
  /\ Record(w)

RecordAttempt(w) ==
  actor[w].pc = "recording" /\ Pending(actor[w].id) /\ Unmoved(w) /\ Record(w)

RecordTooLate(w) ==
  /\ actor[w].pc = "recording" /\ ~(Pending(actor[w].id) /\ Unmoved(w))
  /\ CompleteJob(w)
  /\ UNCHANGED <<endpoint, delivery, producer, counted, faults>>

\* WebhookRetryError.
ThrowRetry(w) ==
  /\ actor[w].pc = "throwing"
  /\ FailJob(w)
  /\ UNCHANGED <<endpoint, delivery, producer, counted, faults>>

-----------------------------------------------------------------------------
\* The end of a delivery, for a worker and for an exhausted handler alike.

\* Mutant: the handler asks only that the delivery has not succeeded.
SettleExhaustedAgain(d) ==
  /\ actor[d].pc = "exhausted"
  /\ \/ /\ delivery[d].status \in {"pending", "failed"}
        /\ delivery' = [delivery EXCEPT ![d].status = "failed"]
        /\ actor' = [actor EXCEPT ![d].pc = "settling", ![d].decision = "failed"]
     \/ ~Pending(d) /\ UNCHANGED delivery /\ actor' = [actor EXCEPT ![d] = Idle]
  /\ UNCHANGED <<endpoint, job, producer, counted, faults>>

\* settleExhaustedWebhookDelivery: only a delivery that is still pending.
SettleExhausted(d) ==
  /\ actor[d].pc = "exhausted"
  /\ \/ /\ Pending(d)
        /\ delivery' = [delivery EXCEPT ![d].status = "failed"]
        /\ actor' = [actor EXCEPT ![d].pc = "settling", ![d].decision = "failed"]
     \/ ~Pending(d) /\ UNCHANGED delivery /\ actor' = [actor EXCEPT ![d] = Idle]
  /\ UNCHANGED <<endpoint, job, producer, counted, faults>>

\* settleEndpoint: a success clears the streak ...
ClearStreak(a) ==
  LET e == delivery[actor[a].id].endpoint
  IN  /\ actor[a].pc = "settling" /\ actor[a].decision = "succeeded"
      /\ endpoint' = IF Exists(e) THEN [endpoint EXCEPT ![e].consecutiveFailures = 0] ELSE endpoint
      /\ actor' = [actor EXCEPT ![a].pc = "pruning"]
      /\ UNCHANGED <<delivery, job, producer, counted, faults>>

\* ... a failure extends it, and at the threshold ...
ExtendStreak(a) ==
  LET d == actor[a].id
      e == delivery[d].endpoint
      streak == endpoint[e].consecutiveFailures + 1
  IN  /\ actor[a].pc = "settling" /\ actor[a].decision = "failed"
      /\ IF Exists(e)
         THEN /\ endpoint' = [endpoint EXCEPT ![e].consecutiveFailures = streak]
              /\ counted' = [counted EXCEPT ![d] = @ + 1]
         ELSE UNCHANGED <<endpoint, counted>>
      /\ actor' = [actor EXCEPT ![a].pc =
                     IF endpoint[e].state = "on" /\ streak >= DisableAfter
                     THEN "disabling" ELSE "pruning"]
      /\ UNCHANGED <<delivery, job, producer, faults>>

\* ... a second statement switches the endpoint off, if it is on.
DisableEndpoint(a) ==
  LET e == delivery[actor[a].id].endpoint
  IN  /\ actor[a].pc = "disabling"
      /\ endpoint' = IF endpoint[e].state = "on"
                     THEN [endpoint EXCEPT ![e].state = "off",
                                           ![e].disabledReason = "consecutive_failures"]
                     ELSE endpoint
      /\ actor' = [actor EXCEPT ![a].pc = "pruning"]
      /\ UNCHANGED <<delivery, job, producer, counted, faults>>

\* pruneDeliveries: every stranded delivery fails ...
FailStranded(a) ==
  /\ actor[a].pc = "pruning"
  /\ delivery' = [d \in Deliveries |->
                    IF Pending(d) /\ actor[a].age[d] # "fresh"
                    THEN [delivery[d] EXCEPT !.status = "failed"] ELSE delivery[d]]
  /\ actor' = [actor EXCEPT ![a].pc = "trimming"]
  /\ UNCHANGED <<endpoint, job, producer, counted, faults>>

\* ... and the endpoint's history is trimmed, which is the last thing either does.
TrimHistory(a) ==
  LET e == delivery[actor[a].id].endpoint
  IN  /\ actor[a].pc = "trimming"
      /\ delivery' = [d \in Deliveries |->
                        IF /\ delivery[d].endpoint = e /\ delivery[d].status # "none"
                           /\ ~Pending(d) /\ actor[a].age[d] = "expired"
                        THEN [delivery[d] EXCEPT !.status = "deleted"] ELSE delivery[d]]
      /\ IF a \in Workers THEN CompleteJob(a)
         ELSE UNCHANGED job /\ actor' = [actor EXCEPT ![a] = Idle]
      /\ UNCHANGED <<endpoint, producer, counted, faults>>

Settle(a) == ClearStreak(a) \/ ExtendStreak(a) \/ DisableEndpoint(a)
             \/ FailStranded(a) \/ TrimHistory(a)

Attempt(w) == LoadDelivery(w) \/ AttemptDelivery(w) \/ RecordAttempt(w) \/ RecordTooLate(w)
              \/ ThrowRetry(w) \/ Settle(w)

Next ==
  \/ \E e \in Endpoints :
       \/ CreateWebhookEndpoint(e) \/ DeleteWebhookEndpoint(e)
       \/ \E active \in BOOLEAN : SetWebhookEndpointActive(e, active)
  \/ \E batch \in SUBSET Deliveries : SelectEndpoints(batch) \/ InsertDeliveries(batch)
  \/ \E d \in Deliveries :
       EnqueueDelivery(d) \/ Age(d) \/ Stall(d) \/ SettleExhausted(d) \/ Settle(d) \/ LoseHandler(d)
  \/ \E w \in Workers :
       (\E d \in Deliveries : TakeJob(w, d)) \/ Attempt(w) \/ FailAttempt(w) \/ Crash(w)

Spec == Init /\ [][Next]_vars

\* Time passes; a producer, a worker and a handler that have begun go on; BullMQ hands out the
\* jobs that wait and looks for those whose owner is gone.  The owner, events and faults need
\* never come, and of the faults there are only as many as the bounds say.
Fairness ==
  /\ \A d \in Deliveries : WF_vars(Age(d)) /\ WF_vars(EnqueueDelivery(d))
                           /\ WF_vars(job[d].owner = Null /\ Stall(d))
                           /\ WF_vars(SettleExhausted(d) \/ Settle(d))
  /\ \A w \in Workers : WF_vars(Attempt(w) \/ \E d \in Deliveries : TakeJob(w, d))

FairSpec == Spec /\ Fairness

-----------------------------------------------------------------------------
\* Properties.

\* Every variable holds a value of its type; an inactive endpoint always says why and no other
\* carries a stale reason (chk_webhook_endpoints_disabled_reason), whoever switches it and when.
TypeOK ==
  /\ endpoint \in [Endpoints -> Endpoint]
  /\ \A e \in Endpoints : endpoint[e].state = "off" <=> endpoint[e].disabledReason # Null
  /\ \A d \in Deliveries : delivery[d] \in Delivery /\ counted[d] \in Nat
  /\ job \in [Deliveries -> Job]
  /\ actor \in [Actors -> Actor]
  /\ selected \subseteq SUBSET Deliveries /\ unqueued \subseteq Deliveries
  /\ failures \in 0..MaxFailures /\ crashes \in 0..MaxCrashes /\ losses \in 0..MaxLosses

\* However attempts overlap, the log holds each once: a delivery still to be tried has recorded
\* only attempts worth a retry, fewer than all, and only one that was delivered has succeeded.
LogTellsTheStory ==
  \A d \in Deliveries :
    LET log == delivery[d].attempts
    IN  /\ Len(log) = delivery[d].attemptCount /\ Len(log) <= MaxAttempts
        /\ \A k \in 1..Len(log) - 1 : log[k] = "retryable"
        /\ Pending(d) /\ log # <<>> => log[Len(log)] = "retryable" /\ Len(log) < MaxAttempts
        /\ delivery[d].status = "succeeded" => log # <<>> /\ log[Len(log)] = "delivered"
        /\ delivery[d].status = "failed" =>
             \A k \in 1..Len(log) : log[k] # "delivered"

\* A worker that is late, an exhausted handler and a prune never settle one delivery twice: it
\* extends a failure streak at most once, and only if it was not delivered.
CountedOnce ==
  \A d \in Deliveries :
    /\ counted[d] <= 1
    /\ counted[d] = 1 => /\ delivery[d].status \in {"failed", "deleted"}
                         /\ \A k \in 1..Len(delivery[d].attempts) :
                              delivery[d].attempts[k] # "delivered"

\* The streak is of deliveries, not of attempts, jobs or handlers: it never exceeds the number of
\* the endpoint's deliveries that failed, and without so many the endpoint is not switched off.
StreakOfDistinctDeliveries ==
  \A e \in Endpoints :
    LET failed == Cardinality({d \in Deliveries : delivery[d].endpoint = e /\ counted[d] > 0})
    IN  /\ endpoint[e].consecutiveFailures <= failed
        /\ endpoint[e].disabledReason = "consecutive_failures" => failed >= DisableAfter

\* A delivery that has ended stays as it ended, attempts and all, until it is deleted.
EndsOnce ==
  [][\A d \in Deliveries : Ended(d) =>
       /\ delivery'[d].status \in {delivery[d].status, "deleted"}
       /\ delivery'[d].attempts = delivery[d].attempts]_vars

\* However often the database fails an attempt, and though a worker dies in the middle of one, a
\* delivery whose job is queued ends: by its attempts, or by the exhausted handler.  Only a job
\* taken from a live worker, a lost enqueue or a lost handler may leave it pending.
DeliveryEnds == \A d \in Deliveries : Pending(d) ~> Ended(d) \/ losses > 0
=============================================================================
