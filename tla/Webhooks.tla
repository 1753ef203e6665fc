------------------------------ MODULE Webhooks ------------------------------
(***************************************************************************)
(* The webhooks of one workspace: an endpoint, the deliveries queued for   *)
(* it, the worker that attempts them in parallel, the owner's resends and  *)
(* test events, and the health that turns a failing endpoint off.          *)
(*                                                                         *)
(* An attempt loads the endpoint, posts, saves the delivery from the copy  *)
(* it was given and then the endpoint's health from the copy it loaded.    *)
(* Times are counted down in ticks of the worker's ticker.                 *)
(***************************************************************************)
EXTENDS Integers, FiniteSets

CONSTANTS Deliveries,     \* rows that events of the workspace may queue
          Tests, Resends, \* requests for a test event and for a resend
          MaxHookAttempts, HookBatch, DisableAfter, Hour,
          MaxHookChanges  \* bound on changes, tests, resends and restarts

ASSUME WebhooksAssumption ==
  /\ Deliveries \cap Tests = {} /\ Deliveries \cup Tests # {}
  /\ MaxHookAttempts \in Nat \ {0} /\ HookBatch \in Nat \ {0} /\ DisableAfter \in Nat
  /\ Hour \in Nat \ {0} /\ MaxHookChanges \in Nat

VARIABLES endpoint,    \* the webhookEndpoints row
          delivery,    \* webhookDeliveries, status "none" for no row
          job,         \* AttemptWebhookDelivery calls under way, with their copies
          hookWorker,      \* where RunWebhookDeliveries is
          kicked, hookTicked,      \* webhookKick and the ticker's channel
          refusals,    \* history: automatic attempts refused since it was queued
          excused,     \* history: a permanent refusal, or the endpoint was off
          posts,       \* history: times a test was posted unasked, up to 2
          sinceFailing,  \* history: a success noted since the failing clock last changed
          hookChanges    \* bounded counter

webhookVars == <<endpoint, delivery, job, hookWorker, kicked, hookTicked,
                 refusals, excused, posts, sinceFailing, hookChanges>>
history == <<refusals, excused, posts, sinceFailing>>

Rows == Deliveries \cup Tests    \* a test's row carries the name of its request
Jobs == ({"worker"} \X Rows) \cup ({"test"} \X Tests) \cup ({"resend"} \X Resends)
DeliveryStatuses == {"none", "pending", "succeeded", "failed"}
DeliveryRow == [status : DeliveryStatuses, attempts : 0..MaxHookAttempts, wait : 0..Hour]
NoDelivery == [status |-> "none", attempts |-> 0, wait |-> 0]

\* failing: 0 for no failingSince, else 1 + the ticks since, up to the cut-off.
CutOff == DisableAfter + 2
Endpoint == [exists : BOOLEAN, enabled : BOOLEAN, failing : 0..CutOff]

Results == {"none", "ok", "refused", "permanent"}
Job == [pc : {"idle", "created", "queued", "posting", "posted", "health"}, row : Rows,
        status : DeliveryStatuses, attempts : 0..MaxHookAttempts, failing : BOOLEAN, result : Results]
NoJob == [pc |-> "idle", row |-> CHOOSE r \in Rows : TRUE, status |-> "none",
          attempts |-> 0, failing |-> FALSE, result |-> "none"]

Manual(j) == j[1] = "resend"
IsTest(r) == r \in Tests
WebhookDue(r) == delivery[r].status = "pending" /\ delivery[r].wait = 0
Copied(r, pc) == [NoJob EXCEPT !.pc = pc, !.row = r, !.status = delivery[r].status,
                               !.attempts = delivery[r].attempts]
Done(j) == job' = [job EXCEPT ![j] = NoJob]

WebhooksInit ==
  /\ endpoint = [exists |-> TRUE, enabled |-> TRUE, failing |-> 0]
  /\ delivery = [r \in Rows |-> NoDelivery]
  /\ job = [j \in Jobs |-> NoJob]
  /\ hookWorker = "query" /\ kicked = FALSE /\ hookTicked = FALSE
  /\ refusals = [r \in Deliveries |-> 0] /\ excused = [r \in Deliveries |-> FALSE]
  /\ posts = [t \in Tests |-> 0] /\ sinceFailing = FALSE
  /\ hookChanges = 0

-----------------------------------------------------------------------------
(* Queueing. *)

\* queueWebhookDelivery with the after-create hook, which kicks the worker.
Queued(r) ==
  /\ delivery' = [delivery EXCEPT ![r] = [NoDelivery EXCEPT !.status = "pending"]]
  /\ kicked' = TRUE

\* EmitWebhookEvent, for an event the endpoint subscribes to.
EmitWebhookEvent(r) ==
  /\ r \in Deliveries /\ delivery[r].status = "none" /\ refusals[r] = 0
  /\ endpoint.exists /\ endpoint.enabled
  /\ Queued(r)
  /\ UNCHANGED <<endpoint, job, hookWorker, hookTicked, history, hookChanges>>

\* SendWebhookTest queues a delivery like any other and then postpones it.
SendWebhookTest(t) ==
  /\ hookChanges < MaxHookChanges /\ hookChanges' = hookChanges + 1
  /\ endpoint.exists /\ delivery[t].status = "none" /\ posts[t] = 0
  /\ Queued(t)
  /\ job' = [job EXCEPT ![<<"test", t>>] =
                [NoJob EXCEPT !.pc = "created", !.row = t, !.status = "pending"]]
  /\ UNCHANGED <<endpoint, hookWorker, hookTicked, history>>

PostponeTest(t) ==
  /\ job[<<"test", t>>].pc = "created"
  /\ job' = [job EXCEPT ![<<"test", t>>].pc = "queued"]
  /\ delivery' = IF delivery[t].status = "none" THEN delivery
                 ELSE [delivery EXCEPT ![t].wait = Hour]
  /\ UNCHANGED <<endpoint, hookWorker, kicked, hookTicked, history, hookChanges>>

\* ReplayWebhookDeliveries: one UPDATE, then a kick.
ReplayWebhookDeliveries ==
  /\ hookChanges < MaxHookChanges /\ hookChanges' = hookChanges + 1
  /\ endpoint.exists /\ endpoint.enabled
  /\ LET failed == {r \in Rows : delivery[r].status = "failed"}
     IN /\ failed # {}
        /\ delivery' = [r \in Rows |-> IF r \in failed THEN [NoDelivery EXCEPT !.status = "pending"]
                                       ELSE delivery[r]]
        /\ refusals' = [r \in Deliveries |-> IF r \in failed THEN 0 ELSE refusals[r]]
        /\ excused' = [r \in Deliveries |-> r \notin failed /\ excused[r]]
  /\ kicked' = TRUE
  /\ UNCHANGED <<endpoint, job, hookWorker, hookTicked, posts, sinceFailing>>

\* resendWebhookDelivery loads the delivery, whatever its status.
Resend(p, r) ==
  /\ hookChanges < MaxHookChanges /\ hookChanges' = hookChanges + 1
  /\ job[<<"resend", p>>].pc = "idle" /\ delivery[r].status # "none"
  /\ job' = [job EXCEPT ![<<"resend", p>>] = Copied(r, "queued")]
  /\ UNCHANGED <<endpoint, delivery, hookWorker, kicked, hookTicked, history>>

-----------------------------------------------------------------------------
(* AttemptWebhookDelivery. *)

\* The endpoint is loaded; one that is gone or turned off ends the attempt.
LoadEndpoint(j) ==
  LET r == job[j].row
      off == ~Manual(j) /\ ~endpoint.enabled
  IN /\ job[j].pc = "queued"
     /\ IF ~endpoint.exists \/ off
        THEN /\ Done(j)
             /\ delivery' = IF ~endpoint.exists THEN [delivery EXCEPT ![r] = NoDelivery]
                            ELSE IF delivery[r].status = "none" THEN delivery
                            ELSE [delivery EXCEPT ![r].status = "failed"]
             /\ excused' = [d \in Deliveries |-> d = r \/ excused[d]]
        ELSE /\ job' = [job EXCEPT ![j].pc = "posting", ![j].failing = endpoint.failing # 0]
             /\ UNCHANGED <<delivery, excused>>
     /\ UNCHANGED <<endpoint, hookWorker, kicked, hookTicked, refusals, posts, sinceFailing, hookChanges>>

PostWebhook(j) ==
  /\ job[j].pc = "posting"
  /\ \E result \in Results \ {"none"} :
       /\ job' = [job EXCEPT ![j].pc = "posted", ![j].result = result]
       /\ posts' = [t \in Tests |-> IF t = job[j].row /\ ~Manual(j) /\ posts[t] < 2
                                  THEN posts[t] + 1 ELSE posts[t]]
  /\ UNCHANGED <<endpoint, delivery, hookWorker, kicked, hookTicked, refusals, excused, sinceFailing,
                 hookChanges>>

\* What the save of the delivery leaves in the stored row: the columns that differ
\* from the copy. A resend only ever marks it succeeded.
AfterAttempt(j, row) ==
  LET n == job[j].attempts + 1
      gone == job[j].result = "permanent" \/ n >= MaxHookAttempts \/ IsTest(job[j].row)
  IN IF job[j].result = "ok"
     THEN IF job[j].status = "succeeded" THEN row ELSE [row EXCEPT !.status = "succeeded"]
     ELSE IF Manual(j) THEN row
     ELSE [row EXCEPT !.attempts = n, !.status = IF gone THEN "failed" ELSE @,
                      !.wait = IF gone THEN @ ELSE 1]

RecordAttempt(j) ==
  LET r == job[j].row
      auto == job[j].result # "ok" /\ ~Manual(j)
  IN /\ job[j].pc = "posted"
     /\ job' = [job EXCEPT ![j].pc = "health"]
     /\ delivery' = IF delivery[r].status = "none" THEN delivery
                    ELSE [delivery EXCEPT ![r] = AfterAttempt(j, @)]
     /\ refusals' = [d \in Deliveries |-> IF d = r /\ auto /\ refusals[d] < MaxHookAttempts
                                         THEN refusals[d] + 1 ELSE refusals[d]]
     /\ excused' = [d \in Deliveries |->
                    excused[d] \/ (d = r /\ auto /\ job[j].result = "permanent")]
     /\ UNCHANGED <<endpoint, hookWorker, kicked, hookTicked, posts, sinceFailing, hookChanges>>

\* noteEndpointHealth: only a transition, seen from the copy loaded before.
NoteEndpointHealth(j) ==
  LET ok == job[j].result = "ok"
  IN /\ job[j].pc = "health" /\ Done(j)
     /\ IF ok = job[j].failing /\ endpoint.exists
        THEN /\ endpoint' = [endpoint EXCEPT !.failing = IF ok THEN 0 ELSE 1]
             /\ sinceFailing' = FALSE
        ELSE UNCHANGED endpoint /\ sinceFailing' = (sinceFailing \/ ok)
     /\ UNCHANGED <<delivery, hookWorker, kicked, hookTicked, refusals, excused, posts, hookChanges>>

AttemptWebhook(j) == LoadEndpoint(j) \/ PostWebhook(j) \/ RecordAttempt(j) \/ NoteEndpointHealth(j)

-----------------------------------------------------------------------------
(* RunWebhookDeliveries. *)

workerFrame == UNCHANGED <<endpoint, delivery, kicked, hookTicked, history, hookChanges>>

\* deliverDueWebhooks: one batch, all of it attempted at once.
QueryDue ==
  LET due == {r \in Rows : WebhookDue(r)}
  IN /\ hookWorker = "query" /\ workerFrame
     /\ IF due = {} THEN hookWorker' = "wait" /\ UNCHANGED job
        ELSE \E batch \in SUBSET due :
               /\ IF Cardinality(due) < HookBatch THEN batch = due
                  ELSE Cardinality(batch) = HookBatch
               /\ job' = [j \in Jobs |-> IF j[1] = "worker" /\ j[2] \in batch
                                         THEN Copied(j[2], "queued") ELSE job[j]]
               /\ hookWorker' = IF Cardinality(batch) < HookBatch THEN "last" ELSE "full"

BatchDone ==
  /\ hookWorker \in {"last", "full"} /\ workerFrame
  /\ \A r \in Rows : job[<<"worker", r>>].pc = "idle"
  /\ hookWorker' = IF hookWorker = "full" THEN "query" ELSE "wait"
  /\ UNCHANGED job

TakeWebhookKick ==
  /\ hookWorker = "wait" /\ kicked
  /\ kicked' = FALSE /\ hookWorker' = "query"
  /\ UNCHANGED <<endpoint, delivery, job, hookTicked, history, hookChanges>>

\* Variant: a tick only turns failing endpoints off; deliveries wait for a kick.
TakeWebhookTickDisabling ==
  /\ hookWorker = "wait" /\ hookTicked
  /\ hookTicked' = FALSE
  /\ hookWorker' = IF endpoint.exists /\ endpoint.enabled /\ endpoint.failing = CutOff
                   THEN "disable" ELSE "wait"
  /\ UNCHANGED <<endpoint, delivery, job, kicked, history, hookChanges>>

\* disableFailingEndpoints loads the endpoints past the cut-off, then saves each.
TakeWebhookTick ==
  /\ hookWorker = "wait" /\ hookTicked
  /\ hookTicked' = FALSE
  /\ hookWorker' = IF endpoint.exists /\ endpoint.enabled /\ endpoint.failing = CutOff
               THEN "disable" ELSE "query"
  /\ UNCHANGED <<endpoint, delivery, job, kicked, history, hookChanges>>

DisableFailingEndpoint ==
  /\ hookWorker = "disable" /\ hookWorker' = "query"
  /\ endpoint' = IF endpoint.exists THEN [endpoint EXCEPT !.enabled = FALSE] ELSE endpoint
  /\ UNCHANGED <<delivery, job, kicked, hookTicked, history, hookChanges>>

WebhookTick ==
  /\ hookTicked' = TRUE
  /\ delivery' = [r \in Rows |-> [delivery[r] EXCEPT !.wait = IF @ > 0 THEN @ - 1 ELSE @]]
  /\ endpoint' = [endpoint EXCEPT !.failing = IF @ \in 1..(CutOff - 1) THEN @ + 1 ELSE @]
  /\ UNCHANGED <<job, hookWorker, kicked, history, hookChanges>>

RunWebhookDeliveries ==
  QueryDue \/ BatchDone \/ TakeWebhookKick \/ TakeWebhookTick \/ DisableFailingEndpoint

-----------------------------------------------------------------------------
(* The owner's endpoint, and restarts. *)

\* updateWebhookEndpoint; turning it on again clears the failing clock.
UpdateWebhookEndpoint(enabled) ==
  /\ hookChanges < MaxHookChanges /\ hookChanges' = hookChanges + 1
  /\ endpoint.exists /\ endpoint.enabled # enabled
  /\ endpoint' = [endpoint EXCEPT !.enabled = enabled, !.failing = IF enabled THEN 0 ELSE @]
  /\ UNCHANGED <<delivery, job, hookWorker, kicked, hookTicked, history>>

\* The deliveries go with the endpoint.
DeleteWebhookEndpoint ==
  /\ hookChanges < MaxHookChanges /\ hookChanges' = hookChanges + 1
  /\ endpoint.exists
  /\ endpoint' = [endpoint EXCEPT !.exists = FALSE]
  /\ delivery' = [r \in Rows |-> NoDelivery]
  /\ UNCHANGED <<job, hookWorker, kicked, hookTicked, history>>

RestartWebhooks ==
  /\ hookChanges < MaxHookChanges /\ hookChanges' = hookChanges + 1
  /\ job' = [j \in Jobs |-> NoJob]
  /\ hookWorker' = "query" /\ kicked' = FALSE /\ hookTicked' = FALSE
  /\ UNCHANGED <<endpoint, delivery, history>>

-----------------------------------------------------------------------------
WebhooksNext ==
  \/ \E r \in Rows : EmitWebhookEvent(r) \/ \E p \in Resends : Resend(p, r)
  \/ \E t \in Tests : SendWebhookTest(t) \/ PostponeTest(t)
  \/ \E j \in Jobs : AttemptWebhook(j)
  \/ ReplayWebhookDeliveries \/ RunWebhookDeliveries \/ WebhookTick
  \/ \E b \in BOOLEAN : UpdateWebhookEndpoint(b)
  \/ DeleteWebhookEndpoint \/ RestartWebhooks

\* The worker's goroutines and the ticker run; nobody is obliged to resend.
WebhooksFairness ==
  /\ WF_webhookVars(RunWebhookDeliveries) /\ WF_webhookVars(WebhookTick)
  /\ \A r \in Rows : WF_webhookVars(AttemptWebhook(<<"worker", r>>))

WebhooksSpec == WebhooksInit /\ [][WebhooksNext]_webhookVars /\ WebhooksFairness

-----------------------------------------------------------------------------
WebhooksTypeOK ==
  /\ endpoint \in Endpoint /\ delivery \in [Rows -> DeliveryRow]
  /\ job \in [Jobs -> Job]
  /\ hookWorker \in {"query", "last", "full", "wait", "disable"}
  /\ kicked \in BOOLEAN /\ hookTicked \in BOOLEAN
  /\ refusals \in [Deliveries -> 0..MaxHookAttempts] /\ excused \in [Deliveries -> BOOLEAN]
  /\ posts \in [Tests -> 0..2] /\ sinceFailing \in BOOLEAN
  /\ hookChanges \in 0..MaxHookChanges

\* An event is given up only after every automatic attempt was refused, on a
\* permanent refusal or with the endpoint off: resends, replays and restarts in
\* between neither count nor use attempts up (AttemptWebhookDelivery).
GivenUpAfterAll ==
  \A r \in Deliveries : delivery[r].status = "failed" => excused[r] \/ refusals[r] = MaxHookAttempts

\* Whatever is queued is settled, also when the server restarted with it in
\* flight: the worker finds it again (deliverDueWebhooks).
QueuedIsSettled == \A r \in Rows : delivery[r].status = "pending" ~> delivery[r].status # "pending"

\* SendWebhookTest: "It is tried once and never retried", "The worker must not pick
\* it up while this attempt is in flight."
TestTriedOnce == \A t \in Tests : posts[t] <= 1

\* disableFailingEndpoints: webhookDisableAfter "is how long an endpoint may fail
\* without a single success before it is turned off".
OffOnlyWithoutSuccess == [][DisableFailingEndpoint => ~sinceFailing]_webhookVars
=============================================================================
