--------------------------- MODULE GrantDeliveries ---------------------------
(***************************************************************************)
(* The grant outbox of one server: requests that change a grant or mail it *)
(* queue a row and kick the worker; the worker delivers what is due, backs *)
(* off, gives up, and on its beat settles lapsed grants and prunes the     *)
(* table. The server may stop between any two statements.                  *)
(*                                                                         *)
(* Time is counted in beats of the worker's ticker (30 s, which is also    *)
(* the first retry delay). All mails go to one address.                    *)
(***************************************************************************)
EXTENDS Integers, FiniteSets

CONSTANTS Ids,         \* bound on the rows ever queued
          Grants,      \* links that answer a request
          Requests,    \* concurrent requests of the grants' owner
          Kinds,       \* kinds of rows a change of a grant queues: peer, callback
          Batch,       \* deliveryBatch
          MaxAttempts, \* maxDeliveryAttempts
          MaxDelay,    \* maxRetryDelay, in beats
          Retention,   \* deliveryRetention, in beats
          SuppressFor, \* GrantEmailSuppressFor, in beats
          MaxEdits,    \* bound on owner requests
          MaxFaults,   \* bound on crashes and failing statements together
          MaxEvents    \* bound on requests and faults together

ASSUME DeliveriesAssumption ==
  /\ IsFiniteSet(Ids) /\ Ids # {} /\ IsFiniteSet(Grants) /\ Grants # {}
  /\ Kinds \subseteq {"peer", "callback"}
  /\ Batch \in Nat \ {0} /\ MaxAttempts \in Nat \ {0} /\ MaxDelay \in Nat \ {0}
  /\ Retention \in Nat /\ SuppressFor \in Nat
  /\ MaxEdits \in Nat /\ MaxFaults \in Nat /\ MaxEvents \in Nat

VARIABLES outbox,   \* the grantDeliveries table
          status,   \* per grant: the stored status
          lapsed,   \* grants past their expiresAt
          request,  \* per request: where it is and the grant it announces
          kick,     \* deliveryKick, a channel of capacity 1
          ticked,   \* the ticker's channel, capacity 1
          worker,   \* the delivery goroutine
          accepted, \* deliveries their receiver accepted
          refused,  \* deliveries it refused, or that were not to be sent
          told,     \* deliveries whose owner was told of the failure
          muted,    \* deliveries whose failure had nobody to tell, or could not be told
          edits, crashes, errors \* bounded counters

vars == <<outbox, status, lapsed, request, kick, ticked, worker, accepted, refused, told,
          muted, edits, crashes, errors>>

Statuses == {"active", "paused", "expired", "deleted"}
Row == [stage : {"none", "queued", "delivered", "failed", "pruned"},
        kind : {"peer", "callback", "email"}, grant : Grants,
        attempts : 0..MaxAttempts,
        wait : 0..MaxDelay,       \* beats until nextAttemptAt
        age : 0..(Retention + 1)] \* beats since deliveredAt or failedAt, capped

\* todo: the batch being worked through, of deliveries or of grants.
Worker == [pc : {"query", "attempt", "record", "select", "sweep", "settle", "announce"},
           rows : SUBSET Ids, full : BOOLEAN, links : SUBSET Grants,
           row : Ids, link : Grants, outcome : {"ok", "retry", "permanent"}]

Request == [pc : {"idle", "announce", "kick"}, grant : Grants]

AnyId == CHOOSE d \in Ids : TRUE
AnyGrant == CHOOSE g \in Grants : TRUE
Unused == [stage |-> "none", kind |-> "peer", grant |-> AnyGrant, attempts |-> 0,
           wait |-> 0, age |-> 0]
Starting == [pc |-> "query", rows |-> {}, full |-> FALSE, links |-> {},
             row |-> AnyId, link |-> AnyGrant, outcome |-> "ok"]
Resting == [pc |-> "idle", grant |-> AnyGrant]

Init == /\ outbox = [d \in Ids |-> Unused]
        /\ status = [g \in Grants |-> "active"]
        /\ lapsed = {}
        /\ request = [r \in Requests |-> Resting]
        /\ kick = FALSE /\ ticked = FALSE
        /\ worker = Starting
        /\ accepted = {} /\ refused = {} /\ told = {} /\ muted = {}
        /\ edits = 0 /\ crashes = 0 /\ errors = 0

counters == <<edits, crashes, errors>>
receivers == <<accepted, refused, told, muted>>

Stage(d) == outbox[d].stage
At(pc) == worker.pc = pc
Eventful == edits + crashes + errors < MaxEvents
MayFail == Eventful /\ crashes + errors < MaxFaults
Errs == MayFail /\ errors' = errors + 1 /\ UNCHANGED <<edits, crashes>>

-----------------------------------------------------------------------------
(* Requests. *)

\* enqueueDelivery: one row, due at once. Past the bound on rows nothing is queued.
Enqueue(kind, g) ==
  LET free == {d \in Ids : Stage(d) = "none"} IN
    IF free = {} THEN UNCHANGED outbox
    ELSE LET d == CHOOSE d \in free : TRUE IN
           outbox' = [outbox EXCEPT ![d] = [Unused EXCEPT !.stage = "queued",
                                                          !.kind = kind, !.grant = g]]

Edits == Eventful /\ edits < MaxEdits /\ edits' = edits + 1 /\ UNCHANGED <<crashes, errors>>

\* The save of a link with a new status, or its delete; the hook announces it next, unless
\* it deletes a grant that is closed already. A revoke is as a pause here.
Change(r) ==
  /\ request[r].pc = "idle"
  /\ Edits
  /\ \E g \in Grants : \E s \in {"active", "paused", "deleted"} \ {status[g]} :
       /\ status[g] # "deleted"
       /\ status' = [status EXCEPT ![g] = s]
       /\ request' = IF s = "deleted" /\ status[g] = "expired" THEN request
                     ELSE [request EXCEPT ![r] = [pc |-> "announce", grant |-> g]]
  /\ UNCHANGED <<outbox, lapsed, kick, ticked, worker, receivers>>

\* DispatchGrantEvents: the row is committed before its hook wakes the worker.
Announce(r) ==
  /\ request[r].pc = "announce"
  /\ \E kind \in Kinds : Enqueue(kind, request[r].grant)
  /\ request' = [request EXCEPT ![r] = [Resting EXCEPT !.pc = "kick"]]
  /\ UNCHANGED <<status, lapsed, kick, ticked, worker, receivers, counters>>

\* A failure to queue is logged, and the change stands.
AnnounceFails(r) ==
  /\ request[r].pc = "announce"
  /\ Errs
  /\ request' = [request EXCEPT ![r] = Resting]
  /\ UNCHANGED <<outbox, status, lapsed, kick, ticked, worker, receivers>>

\* EnqueueGrantEmail for a grant that resolves.
Mail(r) ==
  /\ request[r].pc = "idle"
  /\ Edits
  /\ \E g \in Grants : /\ status[g] = "active"
                       /\ Enqueue("email", g)
                       /\ request' = [request EXCEPT ![r] = [Resting EXCEPT !.pc = "kick"]]
  /\ UNCHANGED <<status, lapsed, kick, ticked, worker, receivers>>

\* Variant: the channel has no buffer, so only a waiting worker is woken.
KickUnbuffered(r) ==
  /\ request[r].pc = "kick"
  /\ kick' = (kick \/ At("select"))
  /\ request' = [request EXCEPT ![r] = Resting]
  /\ UNCHANGED <<outbox, status, lapsed, ticked, worker, receivers, counters>>

\* KickGrantDeliveries: a full channel already holds a wake-up.
Kick(r) ==
  /\ request[r].pc = "kick"
  /\ kick' = TRUE
  /\ request' = [request EXCEPT ![r] = Resting]
  /\ UNCHANGED <<outbox, status, lapsed, ticked, worker, receivers, counters>>

-----------------------------------------------------------------------------
(* deliverDue. *)

Due(d) == Stage(d) = "queued" /\ outbox[d].wait = 0

\* One batch of due rows; which ones go first is left open.
Query ==
  /\ At("query")
  /\ LET due == {d \in Ids : Due(d)} IN
       IF due = {} THEN worker' = [worker EXCEPT !.pc = "select"]
       ELSE \E rows \in SUBSET due :
              /\ Cardinality(rows) = IF Cardinality(due) < Batch THEN Cardinality(due) ELSE Batch
              /\ worker' = [worker EXCEPT !.pc = "attempt", !.rows = rows,
                                          !.full = Cardinality(rows) = Batch]
  /\ UNCHANGED <<outbox, status, lapsed, request, kick, ticked, receivers, counters>>

QueryFails ==
  /\ At("query")
  /\ Errs
  /\ worker' = [worker EXCEPT !.pc = "select"]
  /\ UNCHANGED <<outbox, status, lapsed, request, kick, ticked, receivers>>

Replies == {"2xx", "timeout", "busy", "refused"}

\* Variant: a timeout passes for a delivery.
ClassifyTimeoutAsSent(reply) ==
  IF reply \in {"2xx", "timeout"} THEN "ok" ELSE IF reply = "busy" THEN "retry" ELSE "permanent"

\* classifyStatus and the transport errors around it: 408, 429, 5xx and an unreachable
\* receiver are tried again, any other refusal is final.
Classify(reply) ==
  CASE reply = "2xx" -> "ok"
    [] reply \in {"timeout", "busy"} -> "retry"
    [] reply = "refused" -> "permanent"

\* GrantEmailSuppressed: a failed mail to the address is still in the table.
Suppressed == \E d \in Ids : /\ outbox[d].kind = "email" /\ Stage(d) = "failed"
                             /\ outbox[d].age < SuppressFor

\* deliverGrantEmail refuses for good before anything is sent.
MailRefused(d) == outbox[d].kind = "email" /\ (status[outbox[d].grant] # "active" \/ Suppressed)

\* Variant: the last attempt is one too early.
SpentEarly(d, outcome) == outcome = "permanent" \/ outbox[d].attempts + 2 >= MaxAttempts
Spent(d, outcome) == outcome = "permanent" \/ outbox[d].attempts + 1 >= MaxAttempts

\* Variant: nobody is told of a mail that was given up.
TellCallbackOwner(d) == /\ told' = IF outbox[d].kind = "callback" THEN told \cup {d} ELSE told
                        /\ UNCHANGED <<muted, counters>>
\* deliveryGivenUp tells the owner of a callback or a mail, nobody of a peer's row. The
\* notice is best effort: for a grant that is deleted there is none, and one that cannot be
\* saved, or whose request is gone, is dropped (a failure within the bound on those).
TellOwner(d) ==
  LET gone == outbox[d].kind = "email" /\ status[outbox[d].grant] = "deleted" IN
    CASE outbox[d].kind = "peer" -> UNCHANGED <<told, muted, counters>>
      [] outbox[d].kind # "peer" /\ gone -> muted' = muted \cup {d} /\ UNCHANGED <<told, counters>>
      [] OTHER -> \/ told' = told \cup {d} /\ UNCHANGED <<muted, counters>>
                  \/ muted' = muted \cup {d} /\ Errs /\ UNCHANGED told

\* attemptDelivery up to the save: a receiver that timed out may have accepted.
Attempt(d) ==
  /\ At("attempt") /\ d \in worker.rows
  /\ \E reply \in Replies :
       /\ MailRefused(d) => reply = "refused"
       /\ \/ reply = "2xx" /\ accepted' = accepted \cup {d}
          \/ reply = "timeout" /\ accepted' \in {accepted, accepted \cup {d}}
          \/ reply \in {"busy", "refused"} /\ UNCHANGED accepted
       /\ refused' = IF reply = "refused" THEN refused \cup {d} ELSE refused
       /\ worker' = [worker EXCEPT !.pc = "record", !.row = d, !.outcome = Classify(reply)]
       /\ IF Classify(reply) # "ok" /\ Spent(d, Classify(reply))
          THEN TellOwner(d) ELSE UNCHANGED <<told, muted, counters>>
  /\ UNCHANGED <<outbox, status, lapsed, request, kick, ticked>>

\* RetryDelay in beats: doubling from the first, capped.
RetryDelay(attempts) ==
  LET doubled == 2 ^ (attempts - 1) IN IF doubled \in 0..MaxDelay THEN doubled ELSE MaxDelay

\* What the save writes: deliveredAt, failedAt or the next attempt.
Outcome(d) ==
  LET row == [outbox[d] EXCEPT !.attempts = @ + 1] IN
    IF worker.outcome = "ok" THEN [row EXCEPT !.stage = "delivered"]
    ELSE IF Spent(d, worker.outcome) THEN [row EXCEPT !.stage = "failed"]
    ELSE [row EXCEPT !.wait = RetryDelay(row.attempts)]

\* The next row of the batch, another batch after a full one, or the wait.
NextRow == worker' = [worker EXCEPT
             !.rows = @ \ {worker.row}, !.row = AnyId, !.outcome = "ok",
             !.pc = IF worker.rows # {worker.row} THEN "attempt"
                    ELSE IF worker.full THEN "query" ELSE "select"]

Record ==
  /\ At("record")
  /\ outbox' = [outbox EXCEPT ![worker.row] = Outcome(worker.row)]
  /\ NextRow
  /\ UNCHANGED <<status, lapsed, request, kick, ticked, receivers, counters>>

\* The outcome is lost and the row stays due.
RecordFails ==
  /\ At("record")
  /\ Errs
  /\ NextRow
  /\ UNCHANGED <<outbox, status, lapsed, request, kick, ticked, receivers>>

-----------------------------------------------------------------------------
(* The worker's wait and its beat. *)

TakeKick ==
  /\ At("select") /\ kick
  /\ kick' = FALSE
  /\ worker' = [worker EXCEPT !.pc = "query"]
  /\ UNCHANGED <<outbox, status, lapsed, request, ticked, receivers, counters>>

TakeTick ==
  /\ At("select") /\ ticked
  /\ ticked' = FALSE
  /\ worker' = [worker EXCEPT !.pc = "sweep"]
  /\ UNCHANGED <<outbox, status, lapsed, request, kick, receivers, counters>>

\* Variant: the expiry is compared the wrong way round.
SweptUnlapsed(g) == g \notin lapsed /\ status[g] = "active"
\* What SweepExpiredGrants selects: active links past their expiry.
Swept(g) == g \in lapsed /\ status[g] = "active"

\* SweepExpiredGrants loads what it selects, or its query fails and it settles nothing.
Sweep ==
  /\ At("sweep")
  /\ worker' = [worker EXCEPT !.pc = "settle", !.links = {g \in Grants : Swept(g)}]
  /\ UNCHANGED <<outbox, status, lapsed, request, kick, ticked, receivers, counters>>

\* RefreshLinkStatus on the loaded copy: the status column is written whatever became
\* of the row since, if there still is one.
Settle(g) ==
  /\ At("settle") /\ g \in worker.links
  /\ status' = [status EXCEPT ![g] = IF @ = "deleted" THEN @ ELSE "expired"]
  /\ worker' = [worker EXCEPT !.pc = "announce", !.links = @ \ {g}, !.link = g]
  /\ UNCHANGED <<outbox, lapsed, request, kick, ticked, receivers, counters>>

SettleFails(g) ==
  /\ At("settle") /\ g \in worker.links
  /\ Errs
  /\ worker' = [worker EXCEPT !.links = @ \ {g}]
  /\ UNCHANGED <<outbox, status, lapsed, request, kick, ticked, receivers>>

\* The hook of that save queues grant.expired and kicks the worker's own channel.
AnnounceSettled ==
  /\ At("announce")
  /\ \E kind \in Kinds : Enqueue(kind, worker.link)
  /\ kick' = TRUE
  /\ worker' = [worker EXCEPT !.pc = "settle", !.link = AnyGrant]
  /\ UNCHANGED <<status, lapsed, request, ticked, receivers, counters>>

Settled(d) == Stage(d) \in {"delivered", "failed"}

\* pruneDeliveries after the last link, then deliverDue again.
Prune ==
  /\ At("settle") /\ worker.links = {}
  /\ outbox' = [d \in Ids |-> IF Settled(d) /\ outbox[d].age > Retention
                              THEN [outbox[d] EXCEPT !.stage = "pruned"] ELSE outbox[d]]
  /\ worker' = Starting
  /\ UNCHANGED <<status, lapsed, request, kick, ticked, receivers, counters>>

-----------------------------------------------------------------------------
(* Time and failures. *)

Older(n, cap) == IF n < cap THEN n + 1 ELSE cap

\* A beat passes; a beat the worker has not taken yet swallows the next.
Tick ==
  /\ ticked' = TRUE
  /\ outbox' = [d \in Ids |->
       [outbox[d] EXCEPT !.wait = IF @ > 0 THEN @ - 1 ELSE 0,
                         !.age = IF Settled(d) THEN Older(@, Retention + 1) ELSE @]]
  /\ UNCHANGED <<status, lapsed, request, kick, worker, receivers, counters>>

Lapse(g) ==
  /\ g \notin lapsed
  /\ lapsed' = lapsed \cup {g}
  /\ UNCHANGED <<outbox, status, request, kick, ticked, worker, receivers, counters>>

\* The server stops and starts again: rows stay, the channels and the batch do not.
Crash ==
  /\ MayFail /\ crashes' = crashes + 1 /\ UNCHANGED <<edits, errors>>
  /\ request' = [r \in Requests |-> Resting]
  /\ kick' = FALSE /\ ticked' = FALSE
  /\ worker' = Starting
  /\ UNCHANGED <<outbox, status, lapsed, receivers>>

DeliverDue == Query \/ (\E d \in Ids : Attempt(d)) \/ Record
Beat == Sweep \/ (\E g \in Grants : Settle(g)) \/ AnnounceSettled \/ Prune
Fails == QueryFails \/ RecordFails \/ \E g \in Grants : SettleFails(g)

Next == \/ \E r \in Requests : Change(r) \/ Announce(r) \/ AnnounceFails(r) \/ Mail(r) \/ Kick(r)
        \/ DeliverDue \/ TakeKick \/ TakeTick \/ Beat \/ Fails
        \/ Tick \/ Crash
        \/ \E g \in Grants : Lapse(g)

\* The worker's goroutine runs until the server stops, its ticker beats, and Go's
\* select does not starve the ticker. Requests, failures and expiry owe nothing.
Fairness == /\ WF_vars(DeliverDue) /\ WF_vars(Beat)
            /\ WF_vars(TakeKick) /\ SF_vars(TakeTick) /\ WF_vars(Tick)

Spec == Init /\ [][Next]_vars /\ Fairness
-----------------------------------------------------------------------------
(* Properties. *)

TypeOK == /\ outbox \in [Ids -> Row]
          /\ status \in [Grants -> Statuses]
          /\ lapsed \subseteq Grants
          /\ request \in [Requests -> Request]
          /\ kick \in BOOLEAN /\ ticked \in BOOLEAN
          /\ worker \in Worker
          /\ accepted \subseteq Ids /\ refused \subseteq Ids
          /\ told \subseteq Ids /\ muted \subseteq Ids
          /\ edits \in 0..MaxEdits /\ crashes \in 0..MaxFaults /\ errors \in 0..MaxFaults

Promise == INSTANCE Outbox WITH stage <- [d \in Ids |-> Stage(d)]

\* A queued delivery is settled in the end whatever the receiver answers and wherever
\* the server stops; it counts as delivered only if the receiver accepted it, and is
\* not reopened or dropped before (attemptDelivery, deliverDue, pruneDeliveries).
KeepsPromise == Promise!Spec

\* The worker never waits while a row nobody has tried is in the table and no wake-up
\* for it is under way: the one-slot channel loses none (KickGrantDeliveries after the
\* insert, deliverDue before the wait).
NoLostWakeup == errors = 0 /\ At("select") =>
                  \A d \in Ids : Stage(d) = "queued" /\ outbox[d].attempts = 0 =>
                    kick \/ \E r \in Requests : request[r].pc = "kick"

\* A delivery is given up only at a refusal or after all its attempts, counted across
\* restarts.
GivenUpRightly == \A d \in Ids : Stage(d) = "failed" =>
                    d \in refused \/ outbox[d].attempts = MaxAttempts

\* A callback or a mail does not say failed before its owner was told, as far as there was
\* somebody to tell and the notice could be saved; nobody is told of a failure before the
\* receiver refused or the last attempt; and nobody is told of one that was delivered after
\* all, unless the outcome of that attempt was lost (the notice comes before the save).
FailureTold == \A d \in Ids :
  /\ Stage(d) = "failed" /\ outbox[d].kind # "peer" => d \in told \cup muted
  /\ d \in told => d \in refused \/ outbox[d].attempts + 1 >= MaxAttempts
  /\ d \in told /\ Stage(d) = "delivered" => crashes + errors # 0

\* An active grant past its expiry is settled without anyone reading it
\* (SweepExpiredGrants: "so their holders hear grant.expired without polling").
SweepSettles == \A g \in Grants :
                  g \in lapsed /\ status[g] = "active" ~> status[g] # "active"
=============================================================================
