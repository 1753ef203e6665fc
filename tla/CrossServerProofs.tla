------------------------- MODULE CrossServerProofs -------------------------
(***************************************************************************)
(* What leaves this server and what it keeps of others, proved: that no    *)
(* wake-up of the outbox is lost and every failure is told, that the       *)
(* outbox keeps its abstract promise, that a receiver's row agrees with    *)
(* the link and no answer is kept beyond its bound, and that nothing is    *)
(* given up without cause. One inductive invariant per component, one      *)
(* lemma per action.                                                       *)
(***************************************************************************)
EXTENDS MCCrossServer, FiniteSetTheorems, TLAPS

(***************************************************************************)
(* The outbox                                                              *)
(***************************************************************************)

Untried(d) == Stage(d) = "queued" /\ outbox[d].attempts = 0

\* A queued row has attempts left, and is due until it was tried.
RowsOK == \A d \in Ids : Stage(d) = "queued" =>
            /\ outbox[d].attempts < MaxAttempts
            /\ outbox[d].attempts = 0 => outbox[d].wait = 0

\* The batch is of queued rows, and the row just attempted is one of them: its outcome says
\* what the receiver did, and whoever has to be told of a last attempt has been.
BatchOK ==
  /\ worker.pc \in {"attempt", "record"} => \A d \in worker.rows : Stage(d) = "queued"
  /\ worker.pc = "record" =>
       /\ worker.row \in worker.rows
       /\ worker.outcome = "ok" => worker.row \in accepted
       /\ worker.outcome = "permanent" => worker.row \in refused
       /\ worker.outcome # "ok" /\ Spent(worker.row, worker.outcome)
            /\ outbox[worker.row].kind # "peer" => worker.row \in told \cup muted

\* Where the worker is bound to query again before it waits.
ComesBack == \/ worker.pc \in {"query", "sweep", "settle", "announce"}
             \/ worker.pc \in {"attempt", "record"} /\ worker.full

\* An untried row is under way to the worker: in its batch, before a query, or with a kick.
Noticed(d) == \/ kick \/ \E r \in Requests : request[r].pc = "kick"
              \/ ComesBack
              \/ worker.pc \in {"attempt", "record"} /\ d \in worker.rows
UntriedNoticed == errors = 0 => \A d \in Ids : Untried(d) => Noticed(d)

\* What has failed for good was told to its owner, or could not be.
FailuresTold == \A d \in Ids : Stage(d) = "failed" /\ outbox[d].kind # "peer" => d \in told \cup muted

\* The inductive invariant.
OutboxInv == TypeOK /\ RowsOK /\ BatchOK /\ UntriedNoticed /\ GivenUpRightly /\ FailuresTold

LEMMA SomeId == AnyId \in Ids /\ AnyGrant \in Grants
BY DeliveriesAssumption DEF AnyId, AnyGrant

LEMMA WorkerStarts == Starting \in Worker /\ Starting.pc = "query"
BY SomeId DEF Starting, Worker

LEMMA UnusedRow == ASSUME NEW k \in {"peer", "callback", "email"}, NEW g \in Grants,
                          NEW new, new = [Unused EXCEPT !.stage = "queued", !.kind = k, !.grant = g]
  PROVE /\ Unused \in Row /\ Unused.stage = "none"
        /\ new \in Row /\ new.stage = "queued" /\ new.attempts = 0 /\ new.wait = 0
<1>1. 0 \in 0..MaxAttempts /\ 0 \in 0..MaxDelay /\ 0 \in 0..(Retention + 1)
  BY DeliveriesAssumption
<1>2. Unused \in Row /\ Unused.stage = "none" /\ Unused.attempts = 0 /\ Unused.wait = 0
  BY <1>1, SomeId DEF Unused, Row
<1>3. QED
  BY <1>2 DEF Row

LEMMA OutboxInit == Init => OutboxInv
<1> SUFFICES ASSUME Init PROVE OutboxInv
  OBVIOUS
<1>1. /\ outbox = [d \in Ids |-> Unused] /\ status = [g \in Grants |-> "active"] /\ lapsed = {}
      /\ request = [r \in Requests |-> Resting] /\ kick = FALSE /\ ticked = FALSE
      /\ worker = Starting /\ accepted = {} /\ refused = {} /\ told = {}
      /\ muted = {} /\ edits = 0 /\ crashes = 0 /\ errors = 0
  BY DEF Init
<1>2. Resting \in Request
  BY SomeId DEF Resting, Request
<1>3. Unused \in Row /\ Unused.stage = "none"
  BY UnusedRow, SomeId
<1>4. 0 \in 0..MaxEdits /\ 0 \in 0..MaxFaults
  BY DeliveriesAssumption
<1>5. TypeOK
  BY <1>1, <1>2, <1>3, <1>4, WorkerStarts DEF TypeOK, Statuses
<1>6. \A d \in Ids : Stage(d) = "none"
  BY <1>1, <1>3 DEF Stage
<1>7. worker.pc = "query"
  BY <1>1, WorkerStarts
<1>8. QED
  BY <1>5, <1>6, <1>7 DEF OutboxInv, RowsOK, BatchOK, UntriedNoticed, Untried, GivenUpRightly,
     FailuresTold

(***************************************************************************)
(* Steps that leave the rows and the worker as they are.                   *)
(***************************************************************************)

\* Nothing that the invariant says of rows and the worker is touched; a wake-up under way
\* stays under way, or is no longer owed.
LEMMA Elsewhere ==
  ASSUME OutboxInv, TypeOK', UNCHANGED <<outbox, worker, receivers>>,
         errors' = 0 => /\ errors = 0
                        /\ kick \/ (\E r \in Requests : request[r].pc = "kick") =>
                             kick' \/ (\E r \in Requests : request'[r].pc = "kick")
  PROVE OutboxInv'
<1>1. RowsOK' /\ BatchOK' /\ GivenUpRightly' /\ FailuresTold'
  BY DEF OutboxInv, RowsOK, BatchOK, GivenUpRightly, FailuresTold, Stage, Spent, receivers
<1>2. UntriedNoticed'
  BY DEF OutboxInv, UntriedNoticed, Untried, Noticed, ComesBack, Stage
<1>3. QED
  BY <1>1, <1>2 DEF OutboxInv

LEMMA Budgets ==
  /\ TypeOK /\ Errs => errors' \in 0..MaxFaults /\ errors' # 0 /\ UNCHANGED <<edits, crashes>>
  /\ TypeOK /\ Edits => edits' \in 0..MaxEdits /\ UNCHANGED <<crashes, errors>>
BY DeliveriesAssumption DEF TypeOK, Errs, MayFail, Eventful, Edits

LEMMA ChangeStep == ASSUME OutboxInv, NEW r \in Requests, Change(r) PROVE OutboxInv'
<1>1. TypeOK
  BY DEF OutboxInv
<1>2. PICK g \in Grants, s \in {"active", "paused", "deleted"} :
        /\ status' = [status EXCEPT ![g] = s]
        /\ request' = IF s = "deleted" /\ status[g] = "expired" THEN request
                      ELSE [request EXCEPT ![r] = [pc |-> "announce", grant |-> g]]
  BY DEF Change
<1>3. /\ request[r].pc = "idle"
      /\ UNCHANGED <<outbox, lapsed, kick, ticked, worker, receivers, crashes, errors>>
      /\ edits' \in 0..MaxEdits
  BY <1>1, Budgets DEF Change
<1>4. [pc |-> "announce", grant |-> g] \in Request
  BY <1>2 DEF Request
<1>5. TypeOK'
  BY <1>1, <1>2, <1>3, <1>4 DEF TypeOK, receivers, Statuses
<1>6. \A q \in Requests : request[q].pc = "kick" => request'[q].pc = "kick"
  BY <1>1, <1>2, <1>3 DEF TypeOK
<1>7. QED
  BY <1>3, <1>5, <1>6, Elsewhere DEF receivers

LEMMA AnnounceFailsStep == ASSUME OutboxInv, NEW r \in Requests, AnnounceFails(r) PROVE OutboxInv'
<1>1. TypeOK
  BY DEF OutboxInv
<1>2. Resting \in Request
  BY SomeId DEF Resting, Request
<1>3. TypeOK' /\ errors' # 0
  BY <1>1, <1>2, Budgets DEF TypeOK, AnnounceFails, receivers
<1>4. QED
  BY <1>3, Elsewhere DEF AnnounceFails, receivers

LEMMA KickStep == ASSUME OutboxInv, NEW r \in Requests, Kick(r) PROVE OutboxInv'
<1>1. TypeOK
  BY DEF OutboxInv
<1>2. Resting \in Request
  BY SomeId DEF Resting, Request
<1>3. TypeOK' /\ kick'
  BY <1>1, <1>2 DEF TypeOK, Kick, receivers, counters
<1>4. QED
  BY <1>3, Elsewhere DEF Kick, receivers, counters

LEMMA LapseStep == ASSUME OutboxInv, NEW g \in Grants, Lapse(g) PROVE OutboxInv'
<1>1. TypeOK'
  BY DEF OutboxInv, TypeOK, Lapse, receivers, counters
<1>2. QED
  BY <1>1, Elsewhere DEF Lapse, receivers, counters

(***************************************************************************)
(* Queueing.                                                               *)
(***************************************************************************)

\* A row is queued where there was none, or nothing is.
LEMMA EnqueueFresh ==
  ASSUME TypeOK, NEW k \in {"peer", "callback", "email"}, NEW g \in Grants, Enqueue(k, g)
  PROVE /\ outbox' \in [Ids -> Row]
        /\ \A d \in Ids : \/ outbox'[d] = outbox[d]
                          \/ /\ Stage(d) = "none" /\ outbox'[d].stage = "queued"
                             /\ outbox'[d].attempts = 0 /\ outbox'[d].wait = 0
        /\ \/ outbox' = outbox
           \/ \E d \in Ids : /\ Stage(d) = "none"
                             /\ [x \in Ids |-> outbox'[x].stage]
                                  = [[x \in Ids |-> outbox[x].stage] EXCEPT ![d] = "queued"]
<1> DEFINE free == {d \in Ids : Stage(d) = "none"}
           new == [Unused EXCEPT !.stage = "queued", !.kind = k, !.grant = g]
<1>1. CASE free = {}
  BY <1>1 DEF Enqueue, TypeOK
<1>2. CASE free # {}
  <2>1. PICK d \in free : outbox' = [outbox EXCEPT ![d] = new]
    BY <1>2 DEF Enqueue
  <2>2. new \in Row /\ new.stage = "queued" /\ new.attempts = 0 /\ new.wait = 0
    BY UnusedRow
  <2> HIDE DEF new
  <2>3. d \in Ids /\ Stage(d) = "none"
    BY <2>1
  <2> HIDE DEF free
  <2>4. outbox' \in [Ids -> Row] /\ \A x \in Ids : outbox'[x] = IF x = d THEN new ELSE outbox[x]
    BY <2>1, <2>2, <2>3 DEF TypeOK
  <2>5. [x \in Ids |-> outbox'[x].stage] = [[x \in Ids |-> outbox[x].stage] EXCEPT ![d] = "queued"]
    BY <2>2, <2>3, <2>4
  <2>6. QED
    BY <2>2, <2>3, <2>4, <2>5
<1>3. QED
  BY <1>1, <1>2

\* What queueing preserves, with a wake-up to follow.
LEMMA Queueing ==
  ASSUME OutboxInv, TypeOK',
         \A d \in Ids : \/ outbox'[d] = outbox[d]
                        \/ /\ Stage(d) = "none" /\ outbox'[d].stage = "queued"
                           /\ outbox'[d].attempts = 0 /\ outbox'[d].wait = 0,
         UNCHANGED <<receivers, errors>>,
         \/ UNCHANGED worker
         \/ worker.pc = "announce" /\ worker'.pc = "settle",
         kick' \/ \E r \in Requests : request'[r].pc = "kick"
  PROVE OutboxInv'
<1>1. TypeOK /\ RowsOK /\ BatchOK /\ GivenUpRightly /\ FailuresTold
  BY DEF OutboxInv
<1>2. RowsOK'
  BY <1>1, DeliveriesAssumption DEF RowsOK, Stage
<1>3. \A d \in Ids : Stage(d) = "queued" => outbox'[d] = outbox[d]
  BY DEF Stage
<1>4. worker \in Worker
  BY <1>1 DEF TypeOK
<1>5. BatchOK'
  <2>1. CASE UNCHANGED worker
    <3>1. worker.rows \subseteq Ids
      BY <1>4 DEF Worker
    <3>2. worker.pc \in {"attempt", "record"} => \A d \in worker.rows : outbox'[d].stage = "queued"
      BY <1>1, <1>3, <3>1 DEF BatchOK, Stage
    <3>3. worker.pc = "record" => outbox'[worker.row] = outbox[worker.row]
      BY <1>1, <1>3, <3>1 DEF BatchOK
    <3>4. QED
      BY <1>1, <2>1, <3>2, <3>3 DEF BatchOK, Stage, Spent, receivers
  <2>2. CASE worker'.pc = "settle"
    BY <2>2 DEF BatchOK
  <2>3. QED
    BY <2>1, <2>2
<1>6. UntriedNoticed'
  BY DEF UntriedNoticed, Noticed
<1>7. GivenUpRightly' /\ FailuresTold'
  BY <1>1 DEF GivenUpRightly, FailuresTold, Stage, receivers
<1>8. QED
  BY <1>2, <1>5, <1>6, <1>7 DEF OutboxInv

LEMMA AnnounceStep == ASSUME OutboxInv, NEW r \in Requests, Announce(r) PROVE OutboxInv'
<1>1. TypeOK
  BY DEF OutboxInv
<1>2. request[r].grant \in Grants
  BY <1>1 DEF TypeOK, Request
<1>3. PICK k \in Kinds : Enqueue(k, request[r].grant)
  BY DEF Announce
<1>4. k \in {"peer", "callback", "email"}
  BY <1>3, DeliveriesAssumption
<1> DEFINE next == [Resting EXCEPT !.pc = "kick"]
<1>5. next \in Request /\ next.pc = "kick"
  BY SomeId DEF Resting, Request
<1>6. request' = [request EXCEPT ![r] = next]
  BY DEF Announce
<1> HIDE DEF next
<1>7. request' \in [Requests -> Request] /\ request'[r].pc = "kick"
  BY <1>1, <1>5, <1>6 DEF TypeOK
<1>8. UNCHANGED <<status, lapsed, kick, ticked, worker, receivers, counters>>
  BY DEF Announce
<1>9. TypeOK'
  BY <1>1, <1>2, <1>3, <1>4, <1>7, <1>8, EnqueueFresh DEF TypeOK, receivers, counters
<1>10. QED
  BY <1>1, <1>2, <1>3, <1>4, <1>7, <1>8, <1>9, EnqueueFresh, Queueing DEF receivers, counters

LEMMA MailStep == ASSUME OutboxInv, NEW r \in Requests, Mail(r) PROVE OutboxInv'
<1>1. TypeOK
  BY DEF OutboxInv
<1> DEFINE next == [Resting EXCEPT !.pc = "kick"]
<1>2. PICK g \in Grants : Enqueue("email", g) /\ request' = [request EXCEPT ![r] = next]
  BY DEF Mail
<1>3. next \in Request /\ next.pc = "kick"
  BY SomeId DEF Resting, Request
<1> HIDE DEF next
<1>4. request' \in [Requests -> Request] /\ request'[r].pc = "kick"
  BY <1>1, <1>2, <1>3 DEF TypeOK
<1>5. /\ UNCHANGED <<status, lapsed, kick, ticked, worker, receivers, crashes, errors>>
      /\ edits' \in 0..MaxEdits
  BY <1>1, Budgets DEF Mail
<1>6. TypeOK'
  BY <1>1, <1>2, <1>4, <1>5, EnqueueFresh DEF TypeOK, receivers
<1>7. QED
  BY <1>1, <1>2, <1>4, <1>5, <1>6, EnqueueFresh, Queueing DEF receivers

LEMMA AnnounceSettledStep == ASSUME OutboxInv, AnnounceSettled PROVE OutboxInv'
<1>1. TypeOK
  BY DEF OutboxInv
<1>2. worker \in Worker /\ worker.link \in Grants
  BY <1>1 DEF TypeOK, Worker
<1>3. PICK k \in Kinds : Enqueue(k, worker.link)
  BY DEF AnnounceSettled
<1>4. k \in {"peer", "callback", "email"}
  BY <1>3, DeliveriesAssumption
<1> DEFINE next == [worker EXCEPT !.pc = "settle", !.link = AnyGrant]
<1>5. next \in Worker /\ next.pc = "settle"
  BY <1>2, SomeId DEF Worker
<1>6. worker' = next /\ kick' /\ worker.pc = "announce" /\ kick' \in BOOLEAN
  BY DEF AnnounceSettled, At
<1> HIDE DEF next
<1>7. UNCHANGED <<status, lapsed, request, ticked, receivers, counters>>
  BY DEF AnnounceSettled
<1>8. TypeOK'
  BY <1>1, <1>2, <1>3, <1>4, <1>5, <1>6, <1>7, EnqueueFresh DEF TypeOK, receivers, counters
<1>9. QED
  BY <1>1, <1>2, <1>3, <1>4, <1>5, <1>6, <1>7, <1>8, EnqueueFresh, Queueing DEF receivers, counters

(***************************************************************************)
(* The worker.                                                             *)
(***************************************************************************)

LEMMA QueryStep == ASSUME OutboxInv, Query PROVE OutboxInv'
<1> DEFINE due == {d \in Ids : Due(d)}
<1>1. TypeOK /\ RowsOK /\ worker \in Worker
  BY DEF OutboxInv, TypeOK
<1>2. UNCHANGED <<outbox, status, lapsed, request, kick, ticked, receivers, counters>>
  BY DEF Query
<1>3. GivenUpRightly' /\ FailuresTold' /\ RowsOK'
  BY <1>2 DEF OutboxInv, GivenUpRightly, FailuresTold, RowsOK, Stage, receivers
<1>4. \A d \in Ids : Untried(d) => d \in due
  BY <1>1 DEF RowsOK, Untried, Due
<1>5. CASE due = {}
  <2> DEFINE new == [worker EXCEPT !.pc = "select"]
  <2>1. worker' = new
    BY <1>5 DEF Query
  <2>2. new \in Worker /\ new.pc = "select"
    BY <1>1 DEF Worker
  <2> HIDE DEF new
  <2>3. TypeOK'
    BY <1>1, <1>2, <2>1, <2>2 DEF TypeOK, receivers, counters
  <2>4. BatchOK' /\ UntriedNoticed'
    BY <1>2, <1>4, <1>5, <2>1, <2>2 DEF BatchOK, receivers, UntriedNoticed, Untried, Stage
  <2>5. QED
    BY <1>3, <2>3, <2>4 DEF OutboxInv
<1>6. CASE due # {}
  <2>1. PICK rows \in SUBSET due :
          /\ Cardinality(rows) = IF Cardinality(due) < Batch THEN Cardinality(due) ELSE Batch
          /\ worker' = [worker EXCEPT !.pc = "attempt", !.rows = rows,
                                      !.full = Cardinality(rows) = Batch]
    BY <1>6 DEF Query
  <2> DEFINE new == [worker EXCEPT !.pc = "attempt", !.rows = rows,
                                   !.full = Cardinality(rows) = Batch]
  <2>2. rows \subseteq Ids
    BY <2>1
  <2>3. /\ new \in Worker /\ new.pc = "attempt" /\ new.rows = rows
        /\ new.full <=> Cardinality(rows) = Batch
    BY <1>1, <2>2 DEF Worker
  <2>4. worker' = new
    BY <2>1
  <2> HIDE DEF new
  <2>5. IsFiniteSet(due)
    BY FS_Subset, DeliveriesAssumption
  <2>6. Cardinality(rows) # Batch => rows = due
    BY <2>1, <2>5, FS_Subset
  <2>7. TypeOK'
    BY <1>1, <1>2, <2>3, <2>4 DEF TypeOK, receivers, counters
  <2>8. \A d \in rows : Stage(d) = "queued"
    BY <2>1 DEF Due
  <2>9. BatchOK'
    BY <1>2, <2>3, <2>4, <2>8 DEF BatchOK, Stage
  <2> HIDE DEF due
  <2>10. \A d \in Ids : Untried(d) => worker'.full \/ d \in worker'.rows
    BY <1>4, <2>3, <2>4, <2>6
  <2>11. \A d \in Ids : Untried(d)' => Noticed(d)'
    BY <1>2, <2>3, <2>4, <2>10 DEF Untried, Stage, Noticed, ComesBack
  <2>12. UntriedNoticed'
    BY <2>11 DEF UntriedNoticed
  <2>13. QED
    BY <1>3, <2>7, <2>9, <2>12 DEF OutboxInv
<1>7. QED
  BY <1>5, <1>6

LEMMA AttemptStep == ASSUME OutboxInv, NEW d \in Ids, Attempt(d) PROVE OutboxInv'
<1>1. TypeOK /\ BatchOK /\ RowsOK /\ worker \in Worker
  BY DEF OutboxInv, TypeOK
<1>2. worker.pc = "attempt" /\ d \in worker.rows
  BY DEF Attempt, At
<1>3. UNCHANGED <<outbox, status, lapsed, request, kick, ticked>>
  BY DEF Attempt
<1>4. PICK reply \in Replies :
       /\ \/ reply = "2xx" /\ accepted' = accepted \cup {d}
          \/ reply = "timeout" /\ accepted' \in {accepted, accepted \cup {d}}
          \/ reply \in {"busy", "refused"} /\ UNCHANGED accepted
       /\ refused' = IF reply = "refused" THEN refused \cup {d} ELSE refused
       /\ worker' = [worker EXCEPT !.pc = "record", !.row = d, !.outcome = Classify(reply)]
       /\ IF Classify(reply) # "ok" /\ Spent(d, Classify(reply))
          THEN TellOwner(d) ELSE UNCHANGED <<told, muted, counters>>
  BY DEF Attempt
<1> DEFINE outcome == Classify(reply)
           new == [worker EXCEPT !.pc = "record", !.row = d, !.outcome = outcome]
<1>5. /\ outcome \in {"ok", "retry", "permanent"}
      /\ outcome = "ok" => reply = "2xx"
      /\ outcome = "permanent" => reply = "refused"
  BY <1>4 DEF Classify, Replies
<1>6. /\ worker' = new
      /\ IF outcome # "ok" /\ Spent(d, outcome)
         THEN TellOwner(d) ELSE UNCHANGED <<told, muted, counters>>
  BY <1>4
<1> HIDE DEF outcome
<1>7. /\ new \in Worker /\ new.pc = "record" /\ new.rows = worker.rows /\ new.row = d
      /\ new.outcome = outcome /\ (new.full <=> worker.full)
  BY <1>1, <1>5 DEF Worker
<1> HIDE DEF new
<1>8. /\ accepted' \subseteq Ids /\ refused' \subseteq Ids /\ told' \subseteq Ids
      /\ accepted \subseteq accepted' /\ refused \subseteq refused' /\ told \subseteq told'
      /\ muted \subseteq muted' /\ muted' \subseteq Ids
  BY <1>1, <1>4, <1>6 DEF TypeOK, TellOwner
<1>8a. /\ edits' = edits /\ crashes' = crashes /\ errors' \in 0..MaxFaults
       /\ errors' = 0 => errors = 0
  BY <1>1, <1>6, Budgets DEF TypeOK, TellOwner, counters
<1>9. TypeOK'
  BY <1>1, <1>3, <1>6, <1>7, <1>8, <1>8a DEF TypeOK
<1>10. RowsOK' /\ GivenUpRightly' /\ FailuresTold'
  BY <1>3, <1>8 DEF OutboxInv, RowsOK, GivenUpRightly, FailuresTold, Stage
<1>11. BatchOK'
  <2>1. /\ outcome = "ok" => d \in accepted'
        /\ outcome = "permanent" => d \in refused'
    BY <1>4, <1>5
  <2>2. outcome # "ok" /\ Spent(d, outcome) /\ outbox[d].kind # "peer" => d \in told' \cup muted'
    BY <1>6 DEF TellOwner
  <2>3. \A x \in worker.rows : outbox[x].stage = "queued"
    BY <1>1, <1>2 DEF BatchOK, Stage
  <2>4. QED
    BY <1>2, <1>3, <1>6, <1>7, <2>1, <2>2, <2>3 DEF BatchOK, Stage, Spent
<1>12. UntriedNoticed'
  <2>1. errors' = 0 => errors = 0
    BY <1>8a
  <2>2. QED
    BY <1>2, <1>3, <1>6, <1>7, <2>1 DEF OutboxInv, UntriedNoticed, Untried, Noticed, ComesBack, Stage
<1>13. QED
  BY <1>9, <1>10, <1>11, <1>12 DEF OutboxInv

\* What the worker goes on with once it is through with a row.
LEMMA RowDone ==
  ASSUME worker \in Worker, worker.row \in worker.rows, NextRow
  PROVE /\ worker' \in Worker /\ worker'.pc \in {"attempt", "query", "select"}
        /\ worker'.rows = worker.rows \ {worker.row}
        /\ (worker'.full <=> worker.full)
        /\ worker'.pc = "select" => worker.rows = {worker.row} /\ ~worker.full
<1> DEFINE pc == IF worker.rows # {worker.row} THEN "attempt"
                 ELSE IF worker.full THEN "query" ELSE "select"
           new == [worker EXCEPT !.rows = @ \ {worker.row}, !.row = AnyId, !.outcome = "ok", !.pc = pc]
<1>1. worker' = new
  BY DEF NextRow
<1>2. pc \in {"attempt", "query", "select"} /\ (pc = "select" => worker.rows = {worker.row} /\ ~worker.full)
  OBVIOUS
<1> HIDE DEF pc
<1>3. /\ new \in Worker /\ new.pc = pc /\ new.rows = worker.rows \ {worker.row}
      /\ (new.full <=> worker.full)
  BY <1>2, SomeId DEF Worker
<1> HIDE DEF new
<1>4. QED
  BY <1>1, <1>2, <1>3

LEMMA RetryDelays == ASSUME NEW n PROVE RetryDelay(n) \in 0..MaxDelay
BY DeliveriesAssumption DEF RetryDelay

\* The three ways a save leaves a row of the batch.
LEMMA OutcomeCases ==
  ASSUME OutboxInv, worker.pc = "record", NEW d, d = worker.row, NEW after, after = Outcome(d)
  PROVE /\ d \in Ids /\ Stage(d) = "queued" /\ after \in Row /\ after.kind = outbox[d].kind
        /\ after.attempts = outbox[d].attempts + 1 /\ after.attempts # 0
        /\ \/ after.stage = "delivered" /\ d \in accepted
           \/ /\ after.stage = "failed" /\ (d \in refused \/ after.attempts = MaxAttempts)
              /\ after.kind # "peer" => d \in told \cup muted
           \/ after.stage = "queued" /\ after.attempts < MaxAttempts
<1>1. worker \in Worker /\ BatchOK /\ RowsOK /\ TypeOK
  BY DEF OutboxInv, TypeOK
<1>2. d \in worker.rows /\ d \in Ids /\ Stage(d) = "queued"
  BY <1>1 DEF BatchOK, Worker
<1> DEFINE old == outbox[d]
           n == old.attempts + 1
           counted == [old EXCEPT !.attempts = n]
<1>3. old \in Row /\ old.stage = "queued" /\ old.attempts < MaxAttempts
  BY <1>1, <1>2 DEF TypeOK, RowsOK, Stage
<1>4. old.attempts \in 0..MaxAttempts
  BY <1>3 DEF Row
<1>5. n \in 0..MaxAttempts /\ n # 0 /\ n <= MaxAttempts
  BY <1>3, <1>4, DeliveriesAssumption
<1>6. after = IF worker.outcome = "ok" THEN [counted EXCEPT !.stage = "delivered"]
            ELSE IF Spent(d, worker.outcome) THEN [counted EXCEPT !.stage = "failed"]
            ELSE [counted EXCEPT !.wait = RetryDelay(counted.attempts)]
  BY DEF Outcome
<1>7. Spent(d, worker.outcome) <=> worker.outcome = "permanent" \/ n >= MaxAttempts
  BY DEF Spent
<1> HIDE DEF old, n
<1>8. counted \in Row /\ counted.attempts = n /\ counted.stage = "queued" /\ counted.kind = old.kind
  BY <1>3, <1>5 DEF Row
<1> HIDE DEF counted
<1>9. CASE worker.outcome = "ok"
  <2>1. after \in Row /\ after.stage = "delivered" /\ after.kind = old.kind /\ after.attempts = n
    BY <1>6, <1>8, <1>9 DEF Row
  <2>2. QED
    BY <1>1, <1>2, <1>5, <1>9, <2>1 DEF BatchOK, old, n
<1>10. CASE worker.outcome # "ok" /\ Spent(d, worker.outcome)
  <2>1. after \in Row /\ after.stage = "failed" /\ after.kind = old.kind /\ after.attempts = n
    BY <1>6, <1>8, <1>10 DEF Row
  <2>2. worker.outcome = "permanent" => d \in refused
    BY <1>1 DEF BatchOK
  <2>3. n >= MaxAttempts => n = MaxAttempts
    BY <1>5, DeliveriesAssumption
  <2>4. old.kind # "peer" => d \in told \cup muted
    BY <1>1, <1>10 DEF BatchOK, old
  <2>5. QED
    BY <1>2, <1>5, <1>7, <1>10, <2>1, <2>2, <2>3, <2>4 DEF old, n
<1>11. CASE worker.outcome # "ok" /\ ~Spent(d, worker.outcome)
  <2>1. after \in Row /\ after.stage = "queued" /\ after.kind = old.kind /\ after.attempts = n
    BY <1>6, <1>8, <1>11, RetryDelays DEF Row
  <2>2. n < MaxAttempts
    BY <1>5, <1>7, <1>11, DeliveriesAssumption
  <2>3. QED
    BY <1>2, <1>5, <2>1, <2>2 DEF old, n
<1>12. QED
  BY <1>9, <1>10, <1>11

LEMMA RecordStep == ASSUME OutboxInv, Record PROVE OutboxInv'
<1> DEFINE d == worker.row
           after == Outcome(d)
<1>1. TypeOK /\ BatchOK /\ RowsOK /\ worker \in Worker /\ worker.pc = "record" /\ NextRow
  BY DEF OutboxInv, TypeOK, Record, At
<1>2. /\ d \in Ids /\ Stage(d) = "queued" /\ after \in Row /\ after.kind = outbox[d].kind
      /\ after.attempts = outbox[d].attempts + 1 /\ after.attempts # 0
      /\ \/ after.stage = "delivered" /\ d \in accepted
         \/ /\ after.stage = "failed" /\ (d \in refused \/ after.attempts = MaxAttempts)
            /\ after.kind # "peer" => d \in told \cup muted
         \/ after.stage = "queued" /\ after.attempts < MaxAttempts
  BY <1>1, OutcomeCases
<1>3. /\ outbox' = [outbox EXCEPT ![d] = after]
      /\ UNCHANGED <<status, lapsed, request, kick, ticked, receivers, counters>>
  BY DEF Record
<1>4. /\ worker' \in Worker /\ worker'.pc \in {"attempt", "query", "select"}
      /\ worker'.rows = worker.rows \ {d} /\ (worker'.full <=> worker.full)
      /\ worker'.pc = "select" => worker.rows = {d} /\ ~worker.full
  BY <1>1, RowDone DEF BatchOK
<1> HIDE DEF after, d
<1>5. /\ outbox' \in [Ids -> Row] /\ outbox'[d] = after
      /\ \A x \in Ids : x # d => outbox'[x] = outbox[x]
  BY <1>1, <1>2, <1>3 DEF TypeOK
<1>7. TypeOK'
  BY <1>1, <1>3, <1>4, <1>5 DEF TypeOK, counters, receivers
<1>8. RowsOK'
  <2>1. ASSUME NEW x \in Ids, outbox'[x].stage = "queued"
        PROVE outbox'[x].attempts < MaxAttempts /\ (outbox'[x].attempts = 0 => outbox'[x].wait = 0)
    BY <1>1, <1>2, <1>5, <2>1 DEF RowsOK, Stage
  <2>2. QED
    BY <2>1 DEF RowsOK, Stage
<1>9. BatchOK'
  <2>1. worker.rows \subseteq Ids
    BY <1>1 DEF Worker
  <2>2. \A x \in worker.rows \ {d} : outbox'[x].stage = "queued"
    BY <1>1, <1>5, <2>1 DEF BatchOK, Stage
  <2>3. QED
    BY <1>4, <2>2 DEF BatchOK, Stage
<1>10. UntriedNoticed'
  <2>1. SUFFICES ASSUME errors' = 0, NEW x \in Ids, Untried(x)' PROVE Noticed(x)'
    BY DEF UntriedNoticed
  <2>2. x # d /\ Untried(x)
    BY <1>2, <1>5, <2>1 DEF Untried, Stage
  <2>3. Noticed(x)
    BY <1>3, <2>1, <2>2 DEF OutboxInv, UntriedNoticed, counters
  <2>4. QED
    BY <1>1, <1>3, <1>4, <2>2, <2>3 DEF Noticed, ComesBack
<1>11. GivenUpRightly' /\ FailuresTold'
  <2>1. ASSUME NEW x \in Ids, outbox'[x].stage = "failed"
        PROVE /\ x \in refused \/ outbox'[x].attempts = MaxAttempts
              /\ outbox'[x].kind # "peer" => x \in told \cup muted
    BY <1>2, <1>5, <2>1 DEF OutboxInv, GivenUpRightly, FailuresTold, Stage
  <2>2. QED
    BY <1>3, <2>1 DEF GivenUpRightly, FailuresTold, Stage, receivers
<1>12. QED
  BY <1>7, <1>8, <1>9, <1>10, <1>11 DEF OutboxInv

\* A worker that loses an outcome, or whose query fails, only moves on.
LEMMA MovesOn ==
  ASSUME OutboxInv, worker' \in Worker, worker'.pc # "record",
         worker'.pc = "attempt" => worker'.rows \subseteq worker.rows /\ worker.pc \in {"attempt", "record"},
         UNCHANGED <<outbox, status, lapsed, receivers>>,
         request' \in [Requests -> Request], kick' \in BOOLEAN, ticked' \in BOOLEAN,
         edits' \in 0..MaxEdits, crashes' \in 0..MaxFaults, errors' \in 0..MaxFaults,
         UntriedNoticed'
  PROVE OutboxInv'
<1>1. TypeOK'
  BY DEF OutboxInv, TypeOK, receivers
<1>2. RowsOK' /\ GivenUpRightly' /\ FailuresTold'
  BY DEF OutboxInv, RowsOK, GivenUpRightly, FailuresTold, Stage, receivers
<1>3. BatchOK'
  BY DEF OutboxInv, BatchOK, Stage, receivers
<1>4. QED
  BY <1>1, <1>2, <1>3 DEF OutboxInv

LEMMA FailedStep ==
  ASSUME OutboxInv,
         QueryFails \/ RecordFails \/ \E g \in Grants : SettleFails(g)
  PROVE OutboxInv'
<1>1. TypeOK /\ BatchOK /\ worker \in Worker /\ Errs
  BY DEF OutboxInv, TypeOK, QueryFails, RecordFails, SettleFails
<1>2. errors' \in 0..MaxFaults /\ errors' # 0 /\ UNCHANGED <<edits, crashes>>
  BY <1>1, Budgets
<1>3. UNCHANGED <<outbox, status, lapsed, request, kick, ticked, receivers>>
  BY DEF QueryFails, RecordFails, SettleFails
<1>4. /\ worker' \in Worker /\ worker'.pc # "record"
      /\ worker'.pc = "attempt" => worker'.rows \subseteq worker.rows /\ worker.pc \in {"attempt", "record"}
  <2>1. CASE QueryFails
    BY <1>1, <2>1 DEF QueryFails, Worker
  <2>2. CASE RecordFails
    BY <1>1, <2>2, RowDone DEF RecordFails, At, BatchOK
  <2>3. ASSUME NEW g \in Grants, SettleFails(g) PROVE worker' \in Worker /\ worker'.pc = "settle"
    <3> DEFINE new == [worker EXCEPT !.links = @ \ {g}]
    <3>1. worker' = new /\ worker.pc = "settle"
      BY <2>3 DEF SettleFails, At
    <3>2. new \in Worker /\ new.pc = worker.pc
      BY <1>1 DEF Worker
    <3>3. QED
      BY <3>1, <3>2
  <2>4. QED
    BY <2>1, <2>2, <2>3
<1>5. QED
  BY <1>1, <1>2, <1>3, <1>4, MovesOn DEF TypeOK, UntriedNoticed, receivers

LEMMA TakeStep == ASSUME OutboxInv, TakeKick \/ TakeTick PROVE OutboxInv'
<1>1. TypeOK /\ worker \in Worker
  BY DEF OutboxInv, TypeOK
<1>2. PICK pc \in {"query", "sweep"} : worker' = [worker EXCEPT !.pc = pc]
  BY DEF TakeKick, TakeTick
<1>3. worker' \in Worker /\ worker'.pc = pc
  BY <1>1, <1>2 DEF Worker
<1>4. /\ UNCHANGED <<outbox, status, lapsed, request, receivers, counters>>
      /\ kick' \in BOOLEAN /\ ticked' \in BOOLEAN
  BY <1>1 DEF TakeKick, TakeTick, TypeOK
<1>5. UntriedNoticed'
  BY <1>2, <1>3 DEF UntriedNoticed, Noticed, ComesBack
<1>6. QED
  BY <1>1, <1>2, <1>3, <1>4, <1>5, MovesOn DEF TypeOK, receivers, counters

LEMMA SweepStep == ASSUME OutboxInv, Sweep PROVE OutboxInv'
<1>1. TypeOK /\ worker \in Worker
  BY DEF OutboxInv, TypeOK
<1> DEFINE new == [worker EXCEPT !.pc = "settle", !.links = {g \in Grants : Swept(g)}]
<1>2. worker' = new
  BY DEF Sweep
<1>3. new \in Worker /\ new.pc = "settle"
  BY <1>1 DEF Worker
<1> HIDE DEF new
<1>4. UntriedNoticed'
  BY <1>2, <1>3 DEF UntriedNoticed, Noticed, ComesBack
<1>5. QED
  BY <1>1, <1>2, <1>3, <1>4, MovesOn DEF Sweep, TypeOK, receivers, counters

LEMMA SettleStep == ASSUME OutboxInv, NEW g \in Grants, Settle(g) PROVE OutboxInv'
<1>1. TypeOK /\ worker \in Worker
  BY DEF OutboxInv, TypeOK
<1> DEFINE new == [worker EXCEPT !.pc = "announce", !.links = @ \ {g}, !.link = g]
<1>2. worker' = new
  BY DEF Settle
<1>3. new \in Worker /\ new.pc = "announce"
  BY <1>1 DEF Worker
<1> HIDE DEF new
<1>4. /\ UNCHANGED <<outbox, lapsed, request, kick, ticked, receivers, counters>>
      /\ status' = [status EXCEPT ![g] = IF @ = "deleted" THEN @ ELSE "expired"]
  BY DEF Settle
<1>5. TypeOK'
  BY <1>1, <1>2, <1>3, <1>4 DEF TypeOK, Statuses, receivers, counters
<1>6. RowsOK' /\ GivenUpRightly' /\ FailuresTold'
  BY <1>4 DEF OutboxInv, RowsOK, GivenUpRightly, FailuresTold, Stage, receivers
<1>7. BatchOK' /\ UntriedNoticed'
  BY <1>2, <1>3 DEF BatchOK, UntriedNoticed, Noticed, ComesBack
<1>8. QED
  BY <1>5, <1>6, <1>7 DEF OutboxInv

LEMMA PruneStep == ASSUME OutboxInv, Prune PROVE OutboxInv'
<1>1. TypeOK
  BY DEF OutboxInv, TypeOK
<1>2. /\ outbox' = [d \in Ids |-> IF Settled(d) /\ outbox[d].age > Retention
                                 THEN [outbox[d] EXCEPT !.stage = "pruned"] ELSE outbox[d]]
      /\ worker' = Starting
      /\ UNCHANGED <<status, lapsed, request, kick, ticked, receivers, counters>>
  BY DEF Prune
<1>3. \A d \in Ids : outbox'[d] = outbox[d] \/ (outbox'[d] \in Row /\ outbox'[d].stage = "pruned")
  <2>1. TAKE d \in Ids
  <2> DEFINE new == [outbox[d] EXCEPT !.stage = "pruned"]
  <2>2. new \in Row /\ new.stage = "pruned"
    BY <1>1 DEF TypeOK, Row
  <2>3. outbox'[d] \in {outbox[d], new}
    BY <1>2
  <2> HIDE DEF new
  <2>4. QED
    BY <2>2, <2>3
<1>4. outbox' \in [Ids -> Row]
  <2>1. \A d \in Ids : outbox'[d] \in Row
    BY <1>1, <1>3 DEF TypeOK
  <2>2. outbox' = [d \in Ids |-> outbox'[d]]
    BY <1>2
  <2>3. QED
    BY <2>1, <2>2
<1>5. worker' \in Worker /\ worker'.pc = "query"
  BY <1>2, WorkerStarts
<1>6. TypeOK'
  BY <1>1, <1>2, <1>4, <1>5 DEF TypeOK, receivers, counters
<1>7. RowsOK'
  BY <1>3 DEF OutboxInv, RowsOK, Stage
<1>8. GivenUpRightly' /\ FailuresTold'
  BY <1>2, <1>3 DEF OutboxInv, GivenUpRightly, FailuresTold, Stage, receivers
<1>9. BatchOK' /\ UntriedNoticed'
  BY <1>5 DEF BatchOK, UntriedNoticed, Noticed, ComesBack
<1>10. QED
  BY <1>6, <1>7, <1>8, <1>9 DEF OutboxInv

\* A beat ages the rows and lets their waits run, no more.
LEMMA Beaten ==
  ASSUME TypeOK, Tick, NEW d \in Ids
  PROVE /\ outbox'[d] \in Row
        /\ outbox'[d].stage = outbox[d].stage /\ outbox'[d].kind = outbox[d].kind
        /\ outbox'[d].attempts = outbox[d].attempts
        /\ outbox[d].wait = 0 => outbox'[d].wait = 0
<1> DEFINE old == outbox[d]
           wait == IF old.wait > 0 THEN old.wait - 1 ELSE 0
           age == IF Settled(d) THEN Older(old.age, Retention + 1) ELSE old.age
           new == [old EXCEPT !.wait = wait, !.age = age]
<1>1. outbox'[d] = new
  BY DEF Tick
<1>2. old \in Row
  BY DEF TypeOK
<1>3. old.wait \in 0..MaxDelay /\ old.age \in 0..(Retention + 1)
  BY <1>2 DEF Row
<1>4. wait \in 0..MaxDelay /\ (old.wait = 0 => wait = 0)
  BY <1>3, DeliveriesAssumption
<1>5. age \in 0..(Retention + 1)
  BY <1>3, DeliveriesAssumption DEF Older
<1> HIDE DEF wait, age
<1> HIDE DEF old
<1>6. /\ new \in Row /\ new.stage = old.stage /\ new.kind = old.kind /\ new.attempts = old.attempts
      /\ new.wait = wait
  BY <1>2, <1>4, <1>5 DEF Row
<1> HIDE DEF new
<1>7. QED
  BY <1>1, <1>4, <1>6 DEF old

LEMMA TickStep == ASSUME OutboxInv, Tick PROVE OutboxInv'
<1>1. TypeOK /\ worker \in Worker
  BY DEF OutboxInv, TypeOK
<1>2. outbox' = [d \in Ids |-> outbox'[d]]
  BY DEF Tick
<1>3. \A d \in Ids : /\ outbox'[d] \in Row
                     /\ outbox'[d].stage = outbox[d].stage /\ outbox'[d].kind = outbox[d].kind
                     /\ outbox'[d].attempts = outbox[d].attempts
                     /\ outbox[d].wait = 0 => outbox'[d].wait = 0
  BY <1>1, Beaten
<1>4. outbox' \in [Ids -> Row]
  BY <1>2, <1>3
<1>6. ticked' /\ UNCHANGED <<status, lapsed, request, kick, worker, receivers, counters>>
  BY DEF Tick
<1>7. ticked' \in BOOLEAN
  BY DEF Tick
<1>8. TypeOK'
  BY <1>1, <1>4, <1>6, <1>7 DEF TypeOK, counters, receivers
<1>9. RowsOK' /\ GivenUpRightly' /\ FailuresTold'
  BY <1>3, <1>6 DEF OutboxInv, RowsOK, GivenUpRightly, FailuresTold, Stage, receivers
<1>10. worker.rows \subseteq Ids /\ worker.row \in Ids
  BY <1>1 DEF Worker
<1>11. BatchOK'
  BY <1>3, <1>6, <1>10 DEF OutboxInv, BatchOK, Stage, Spent, receivers
<1>12. UntriedNoticed'
  <2>1. errors' = errors
    BY <1>6 DEF counters
  <2>2. QED
    BY <1>3, <1>6, <2>1 DEF OutboxInv, UntriedNoticed, Untried, Noticed, ComesBack, Stage
<1>13. QED
  BY <1>8, <1>9, <1>11, <1>12 DEF OutboxInv

LEMMA CrashStep == ASSUME OutboxInv, Crash PROVE OutboxInv'
<1>1. TypeOK /\ worker' \in Worker /\ worker'.pc = "query"
  BY WorkerStarts DEF OutboxInv, Crash
<1>2. Resting \in Request
  BY SomeId DEF Resting, Request
<1>3. crashes' \in 0..MaxFaults /\ UNCHANGED <<edits, errors>>
  BY <1>1, DeliveriesAssumption DEF Crash, MayFail, TypeOK
<1>4. request' \in [Requests -> Request] /\ kick' \in BOOLEAN /\ ticked' \in BOOLEAN
  BY <1>2 DEF Crash
<1>5. UntriedNoticed'
  BY <1>1 DEF UntriedNoticed, Noticed, ComesBack
<1>6. UNCHANGED <<outbox, status, lapsed, receivers>>
  BY DEF Crash
<1>7. QED
  BY <1>1, <1>3, <1>4, <1>5, <1>6, MovesOn DEF TypeOK, receivers

LEMMA OutboxStep == OutboxInv /\ [Next]_vars => OutboxInv'
<1> SUFFICES ASSUME OutboxInv, [Next]_vars PROVE OutboxInv'
  OBVIOUS
<1>1. CASE UNCHANGED vars
  BY <1>1 DEF vars, OutboxInv, TypeOK, RowsOK, BatchOK, UntriedNoticed, Untried, Noticed, ComesBack,
     GivenUpRightly, FailuresTold, Stage, Spent, receivers
<1>2. ASSUME NEW r \in Requests, Change(r) \/ Announce(r) \/ AnnounceFails(r) \/ Mail(r) \/ Kick(r)
      PROVE OutboxInv'
  BY <1>2, ChangeStep, AnnounceStep, AnnounceFailsStep, MailStep, KickStep
<1>3. CASE DeliverDue
  BY <1>3, QueryStep, AttemptStep, RecordStep DEF DeliverDue
<1>4. CASE TakeKick \/ TakeTick
  BY <1>4, TakeStep
<1>5. CASE Beat
  BY <1>5, SweepStep, SettleStep, AnnounceSettledStep, PruneStep DEF Beat
<1>6. CASE Fails
  BY <1>6, FailedStep DEF Fails
<1>7. CASE Tick \/ Crash \/ \E g \in Grants : Lapse(g)
  BY <1>7, TickStep, CrashStep, LapseStep
<1>8. QED
  BY <1>1, <1>2, <1>3, <1>4, <1>5, <1>6, <1>7 DEF Next

\* The invariant of the outbox: every row, batch and wake-up of the worker
\* (RunGrantDeliveries), whatever fails and wherever the server stops.
THEOREM OutboxInvariant == Spec => []OutboxInv
BY OutboxInit, OutboxStep, PTL DEF Spec

\* No wake-up is lost: the worker does not wait while a row nobody tried is in the table and
\* no kick for it is under way (KickGrantDeliveries, deliverDue).
THEOREM NoLostWakeupHolds == Spec => []NoLostWakeup
<1>1. OutboxInv => NoLostWakeup
  BY DEF OutboxInv, UntriedNoticed, Untried, Noticed, ComesBack, NoLostWakeup, At
<1>2. QED
  BY <1>1, OutboxInvariant, PTL

(***************************************************************************)
(* No notice too early.                                                    *)
(***************************************************************************)

\* Whoever was told of a failure: the row is still queued only while the worker holds the
\* outcome that fails it, until that outcome is lost.
NoticesOK == \A d \in told :
  /\ Stage(d) # "none"
  /\ d \in refused \/ outbox[d].attempts + 1 >= MaxAttempts
  /\ Stage(d) \in {"queued", "delivered"} /\ crashes + errors = 0 =>
       /\ Stage(d) = "queued" /\ worker.pc = "record" /\ worker.row = d
       /\ worker.outcome # "ok" /\ Spent(d, worker.outcome)

\* A step that tells nobody, and loses no outcome but by a failure.
LEMMA NoticesKept ==
  ASSUME TypeOK, NoticesOK, UNCHANGED <<refused, told>>,
         \A d \in Ids : Stage(d) # "none" =>
           /\ outbox'[d].attempts = outbox[d].attempts
           /\ outbox'[d].stage \in {outbox[d].stage, "pruned"},
         crashes' + errors' = 0 => /\ crashes + errors = 0
                                   /\ worker.pc = "record" => worker' = worker
  PROVE NoticesOK'
<1> SUFFICES ASSUME NEW d \in told
             PROVE /\ outbox'[d].stage # "none"
                   /\ d \in refused \/ outbox'[d].attempts + 1 >= MaxAttempts
                   /\ outbox'[d].stage \in {"queued", "delivered"} /\ crashes' + errors' = 0 =>
                        /\ outbox'[d].stage = "queued" /\ worker'.pc = "record" /\ worker'.row = d
                        /\ worker'.outcome # "ok" /\ Spent(d, worker.outcome)'
  BY DEF NoticesOK, Stage
<1>1. d \in Ids /\ Stage(d) # "none"
  BY DEF TypeOK, NoticesOK
<1>2. /\ d \in refused \/ outbox[d].attempts + 1 >= MaxAttempts
      /\ outbox'[d].attempts = outbox[d].attempts
      /\ outbox'[d].stage \in {outbox[d].stage, "pruned"}
  BY <1>1 DEF NoticesOK, Stage
<1>3. ASSUME outbox'[d].stage \in {"queued", "delivered"}, crashes' + errors' = 0
      PROVE /\ outbox'[d].stage = "queued" /\ worker'.pc = "record" /\ worker'.row = d
            /\ worker'.outcome # "ok" /\ Spent(d, worker.outcome)'
  <2>1. outbox[d].stage = outbox'[d].stage
    BY <1>2, <1>3
  <2>2. /\ outbox[d].stage = "queued" /\ worker.pc = "record" /\ worker.row = d
        /\ worker.outcome # "ok" /\ Spent(d, worker.outcome)
    BY <1>3, <2>1 DEF NoticesOK, Stage
  <2>3. QED
    BY <1>2, <1>3, <2>1, <2>2 DEF Spent
<1>4. QED
  BY <1>1, <1>2, <1>3 DEF Stage

LEMMA NoticesAttempt ==
  ASSUME OutboxInv, NoticesOK, NEW d \in Ids, Attempt(d), TypeOK'
  PROVE NoticesOK'
<1>1. TypeOK /\ worker \in Worker /\ worker.pc = "attempt" /\ Stage(d) = "queued"
  BY DEF OutboxInv, TypeOK, BatchOK, Attempt, At
<1>2. UNCHANGED outbox
  BY DEF Attempt
<1>3. PICK reply \in Replies :
       /\ refused' = IF reply = "refused" THEN refused \cup {d} ELSE refused
       /\ worker' = [worker EXCEPT !.pc = "record", !.row = d, !.outcome = Classify(reply)]
       /\ IF Classify(reply) # "ok" /\ Spent(d, Classify(reply))
          THEN TellOwner(d) ELSE UNCHANGED <<told, muted, counters>>
  BY DEF Attempt
<1> DEFINE outcome == Classify(reply)
           new == [worker EXCEPT !.pc = "record", !.row = d, !.outcome = outcome]
<1>4. outcome = "permanent" => reply = "refused"
  BY DEF Classify, Replies
<1>5. worker' = new /\ (told' = told \/ (told' = told \cup {d} /\ outcome # "ok" /\ Spent(d, outcome)))
  BY <1>3 DEF TellOwner
<1>6. crashes' + errors' = 0 => crashes + errors = 0
  <2>1. crashes' = crashes /\ (errors' = errors \/ errors' = errors + 1)
    <3>1. TellOwner(d) \/ UNCHANGED counters
      BY <1>3
    <3>2. TellOwner(d) => Errs \/ UNCHANGED counters
      BY DEF TellOwner
    <3>3. QED
      BY <3>1, <3>2 DEF Errs, counters
  <2>2. crashes \in Nat /\ errors \in Nat
    BY <1>1, DeliveriesAssumption DEF TypeOK
  <2>3. QED
    BY <2>1, <2>2
<1> HIDE DEF outcome
<1>7. new.pc = "record" /\ new.row = d /\ new.outcome = outcome
  BY <1>1 DEF Worker
<1> HIDE DEF new
<1>8. refused \subseteq refused' /\ (outcome = "permanent" => d \in refused')
  BY <1>3, <1>4
<1>9. ASSUME NEW x \in told'
      PROVE /\ outbox[x].stage # "none"
            /\ x \in refused' \/ outbox[x].attempts + 1 >= MaxAttempts
            /\ outbox[x].stage \in {"queued", "delivered"} /\ crashes' + errors' = 0 =>
                 /\ outbox[x].stage = "queued" /\ worker'.pc = "record" /\ worker'.row = x
                 /\ worker'.outcome # "ok" /\ Spent(x, worker.outcome)'
  <2>1. CASE x \in told
    BY <1>1, <1>6, <1>8, <2>1 DEF NoticesOK, Stage
  <2>2. CASE x \notin told
    <3>1. x = d /\ outcome # "ok" /\ Spent(d, outcome)
      BY <1>5, <1>9, <2>2
    <3>2. d \in refused' \/ outbox[d].attempts + 1 >= MaxAttempts
      BY <1>8, <3>1 DEF Spent
    <3>3. Spent(x, worker.outcome)'
      BY <1>2, <1>5, <1>7, <3>1 DEF Spent
    <3>4. QED
      BY <1>1, <1>2, <1>5, <1>7, <3>1, <3>2, <3>3 DEF Stage
  <2>3. QED
    BY <2>1, <2>2
<1>10. QED
  BY <1>2, <1>9 DEF NoticesOK, Stage, Spent

LEMMA NoticesRecord ==
  ASSUME OutboxInv, NoticesOK, Record
  PROVE NoticesOK'
<1> DEFINE d == worker.row
           after == Outcome(d)
<1>1. TypeOK /\ worker.pc = "record" /\ UNCHANGED <<receivers, counters>>
  BY DEF OutboxInv, Record, At
<1>2. /\ d \in Ids /\ after.attempts = outbox[d].attempts + 1 /\ after.stage # "none"
      /\ after \in Row /\ outbox[d] \in Row
  BY <1>1, OutcomeCases DEF TypeOK
<1>3. worker.outcome # "ok" /\ Spent(d, worker.outcome) => after.stage = "failed"
  <2>1. [outbox[d] EXCEPT !.attempts = @ + 1].stage = outbox[d].stage
    BY <1>2 DEF Row
  <2>2. QED
    BY <1>2 DEF Outcome, Row
<1>4. outbox' = [outbox EXCEPT ![d] = after]
  BY DEF Record
<1> HIDE DEF after, d
<1>5. outbox'[d] = after /\ \A x \in Ids : x # d => outbox'[x] = outbox[x]
  BY <1>1, <1>2, <1>4 DEF TypeOK
<1>6. ASSUME NEW x \in told
      PROVE /\ outbox'[x].stage # "none"
            /\ x \in refused \/ outbox'[x].attempts + 1 >= MaxAttempts
            /\ outbox'[x].stage \in {"queued", "delivered"} => crashes + errors # 0
  <2>1. x \in Ids
    BY <1>1 DEF TypeOK
  <2>2. CASE x = d
    <3>1. outbox[d].attempts + 1 >= MaxAttempts => after.attempts + 1 >= MaxAttempts
      BY <1>2, DeliveriesAssumption DEF Row
    <3>2. outbox[d].stage = "queued"
      BY DEF OutboxInv, BatchOK, Stage, d, Record, At
    <3>3. crashes + errors = 0 => after.stage = "failed"
      BY <1>3, <2>2, <3>2 DEF NoticesOK, Stage
    <3>4. QED
      BY <1>2, <1>5, <2>2, <3>1, <3>3 DEF NoticesOK
  <2>3. CASE x # d
    BY <1>5, <2>1, <2>3 DEF NoticesOK, Stage, d
  <2>4. QED
    BY <2>2, <2>3
<1>7. QED
  BY <1>1, <1>6 DEF NoticesOK, Stage, receivers, counters

LEMMA NoticesStep == OutboxInv /\ NoticesOK /\ [Next]_vars => NoticesOK'
<1> SUFFICES ASSUME OutboxInv, NoticesOK, [Next]_vars PROVE NoticesOK'
  OBVIOUS
<1>1. TypeOK /\ TypeOK' /\ worker \in Worker /\ \A d \in Ids : outbox[d] \in Row
  BY OutboxStep DEF OutboxInv, TypeOK
<1>2. CASE \E d \in Ids : Attempt(d)
  BY <1>1, <1>2, NoticesAttempt
<1>3. CASE Record
  BY <1>3, NoticesRecord
<1> DEFINE RowsKept ==
             \A d \in Ids : Stage(d) # "none" =>
               /\ outbox'[d].attempts = outbox[d].attempts
               /\ outbox'[d].stage \in {outbox[d].stage, "pruned"}
           OutcomeKept ==
             crashes' + errors' = 0 =>
               /\ crashes + errors = 0
               /\ worker.pc = "record" => worker' = worker
<1>4. ASSUME NEW kind, NEW g, Enqueue(kind, g) PROVE RowsKept
  <2>1. CASE UNCHANGED outbox
    BY <2>1
  <2>2. ~UNCHANGED outbox =>
          \E d \in Ids : \E new : Stage(d) = "none" /\ outbox' = [outbox EXCEPT ![d] = new]
    <3> SUFFICES ASSUME ~UNCHANGED outbox
                 PROVE \E d \in Ids : \E new : Stage(d) = "none" /\ outbox' = [outbox EXCEPT ![d] = new]
      OBVIOUS
    <3> DEFINE free == {d \in Ids : Stage(d) = "none"}
    <3>1. free # {}
      BY <1>4 DEF Enqueue
    <3>2. PICK new : outbox' = [outbox EXCEPT ![CHOOSE d \in free : TRUE] = new]
      BY <1>4, <3>1 DEF Enqueue
    <3>3. (CHOOSE d \in free : TRUE) \in free
      BY <3>1
    <3>4. QED
      BY <3>2, <3>3
  <2>3. CASE ~UNCHANGED outbox
    <3>1. PICK d \in Ids : \E new : Stage(d) = "none" /\ outbox' = [outbox EXCEPT ![d] = new]
      BY <2>2, <2>3
    <3>2. \A x \in Ids : x # d => outbox'[x] = outbox[x]
      BY <1>1, <3>1 DEF TypeOK
    <3>3. QED
      BY <3>1, <3>2 DEF Stage
  <2>4. QED
    BY <2>1, <2>3
<1>5. UNCHANGED outbox => RowsKept
  OBVIOUS
<1>6. UNCHANGED <<worker, crashes, errors>> => OutcomeKept
  OBVIOUS
<1>7. UNCHANGED <<crashes, errors>> /\ worker.pc # "record" => OutcomeKept
  OBVIOUS
<1>8. Errs \/ Crash => crashes' + errors' # 0
  <2>1. crashes \in Nat /\ errors \in Nat
    BY <1>1, DeliveriesAssumption DEF TypeOK
  <2>2. QED
    BY <2>1 DEF Errs, Crash
<1>9. crashes' + errors' # 0 => OutcomeKept
  OBVIOUS
<1>10. ASSUME RowsKept, OutcomeKept, UNCHANGED <<refused, told>> PROVE NoticesOK'
  BY <1>1, <1>10, NoticesKept
<1> HIDE DEF RowsKept, OutcomeKept
<1> USE DEF receivers, counters
<1>11. ASSUME NEW r \in Requests, Change(r) \/ Announce(r) \/ AnnounceFails(r) \/ Mail(r) \/ Kick(r)
       PROVE NoticesOK'
  <2>1. UNCHANGED <<refused, told, worker>>
    BY <1>11 DEF Change, Announce, AnnounceFails, Mail, Kick
  <2>2. RowsKept
    BY <1>4, <1>5, <1>11 DEF Change, Announce, AnnounceFails, Mail, Kick
  <2>3. OutcomeKept
    BY <1>6, <1>8, <1>9, <1>11, <2>1 DEF Change, Announce, AnnounceFails, Mail, Kick, Edits
  <2>4. QED
    BY <1>10, <2>1, <2>2, <2>3
<1>12. CASE Query \/ TakeKick \/ TakeTick \/ Sweep \/ \E g \in Grants : Settle(g)
  <2>1. UNCHANGED <<refused, told, outbox, crashes, errors>> /\ worker.pc # "record"
    BY <1>12 DEF Query, TakeKick, TakeTick, Sweep, Settle, At
  <2>2. QED
    BY <1>5, <1>7, <1>10, <2>1
<1>13. CASE AnnounceSettled
  <2>1. UNCHANGED <<refused, told, crashes, errors>> /\ worker.pc # "record" /\ RowsKept
    BY <1>4, <1>13 DEF AnnounceSettled, At
  <2>2. QED
    BY <1>7, <1>10, <2>1
<1>14. CASE Prune
  <2>1. UNCHANGED <<refused, told, crashes, errors>> /\ worker.pc # "record"
    BY <1>14 DEF Prune, At
  <2>2. RowsKept
    <3> SUFFICES ASSUME NEW d \in Ids
                 PROVE /\ outbox'[d].attempts = outbox[d].attempts
                       /\ outbox'[d].stage \in {outbox[d].stage, "pruned"}
      BY DEF RowsKept
    <3>1. outbox'[d] \in {outbox[d], [outbox[d] EXCEPT !.stage = "pruned"]}
      BY <1>14 DEF Prune
    <3>2. QED
      BY <1>1, <3>1 DEF Row
  <2>3. QED
    BY <1>7, <1>10, <2>1, <2>2
<1>15. CASE Fails
  <2>1. UNCHANGED <<refused, told, outbox>> /\ Errs
    BY <1>15 DEF Fails, QueryFails, RecordFails, SettleFails
  <2>2. QED
    BY <1>5, <1>8, <1>9, <1>10, <2>1
<1>16. CASE Tick
  <2>1. UNCHANGED <<refused, told, worker, crashes, errors>> /\ RowsKept
    BY <1>1, <1>16, Beaten DEF Tick, RowsKept
  <2>2. QED
    BY <1>6, <1>10, <2>1
<1>17. CASE Crash
  <2>1. UNCHANGED <<refused, told, outbox>>
    BY <1>17 DEF Crash
  <2>2. QED
    BY <1>5, <1>8, <1>9, <1>10, <1>17, <2>1
<1>18. CASE UNCHANGED vars \/ \E g \in Grants : Lapse(g)
  <2>1. UNCHANGED <<refused, told, outbox, worker, crashes, errors>>
    BY <1>18 DEF vars, Lapse
  <2>2. QED
    BY <1>5, <1>6, <1>10, <2>1
<1>19. QED
  BY <1>2, <1>3, <1>11, <1>12, <1>13, <1>14, <1>15, <1>16, <1>17, <1>18
  DEF Next, DeliverDue, Beat

\* A callback or a mail that says failed was told to its owner, as far as that was possible
\* (deliveryGivenUp); nobody is told before the last attempt or a refusal; and a delivery
\* somebody was told had failed lands only after a crash or a failing statement.
THEOREM FailureToldHolds == Spec => []FailureTold
<1>1. OutboxInv /\ NoticesOK => FailureTold
  BY DEF OutboxInv, FailuresTold, NoticesOK, FailureTold
<1>2. Init => NoticesOK
  BY DEF Init, NoticesOK
<1>3. OutboxInv /\ NoticesOK /\ [Next]_vars => NoticesOK'
  BY NoticesStep
<1>4. QED
  BY <1>1, <1>2, <1>3, OutboxInvariant, PTL DEF Spec

(***************************************************************************)
(* The outbox implements what Outbox promises, its fairness aside.         *)
(***************************************************************************)

\* Every step of the table, the requests and the worker is a step of the promise or none.
PromiseStep == [Promise!Next]_(Promise!vars)

LEMMA PromiseInit == Init => Promise!Init
<1> SUFFICES ASSUME Init PROVE Promise!Init
  OBVIOUS
<1>1. \A d \in Ids : Stage(d) = "none"
  BY UnusedRow, SomeId DEF Init, Stage
<1>2. QED
  BY <1>1 DEF Init, Promise!Init

LEMMA SameStages ==
  ASSUME \A d \in Ids : outbox'[d].stage = outbox[d].stage, UNCHANGED accepted
  PROVE PromiseStep
BY DEF PromiseStep, Promise!vars, Stage

LEMMA PromiseQueued ==
  ASSUME TypeOK, NEW k \in {"peer", "callback", "email"}, NEW g \in Grants, Enqueue(k, g),
         UNCHANGED accepted
  PROVE PromiseStep
<1>1. CASE outbox' = outbox
  BY <1>1, SameStages
<1>2. CASE outbox' # outbox
  <2>1. PICK d \in Ids : /\ Stage(d) = "none"
                         /\ [x \in Ids |-> outbox'[x].stage]
                              = [[x \in Ids |-> outbox[x].stage] EXCEPT ![d] = "queued"]
    BY <1>2, EnqueueFresh
  <2>2. Promise!Queue(d)
    BY <2>1 DEF Promise!Queue, Stage
  <2>3. QED
    BY <2>2 DEF PromiseStep, Promise!Next
<1>3. QED
  BY <1>1, <1>2

LEMMA PromiseAttempted == ASSUME OutboxInv, NEW d \in Ids, Attempt(d) PROVE PromiseStep
<1>1. Stage(d) = "queued" /\ UNCHANGED outbox
  BY DEF OutboxInv, BatchOK, Attempt, At
<1>2. accepted' = accepted \/ accepted' = accepted \cup {d}
  BY DEF Attempt
<1>3. CASE accepted' = accepted
  BY <1>1, <1>3, SameStages
<1>4. CASE accepted' = accepted \cup {d}
  <2>1. Promise!Arrive(d)
    BY <1>1, <1>4 DEF Promise!Arrive, Stage
  <2>2. QED
    BY <2>1 DEF PromiseStep, Promise!Next
<1>5. QED
  BY <1>2, <1>3, <1>4

LEMMA PromiseRecorded == ASSUME OutboxInv, Record PROVE PromiseStep
<1> DEFINE d == worker.row
           after == Outcome(d)
<1>1. worker.pc = "record"
  BY DEF Record, At
<1>2. /\ d \in Ids /\ Stage(d) = "queued"
      /\ \/ after.stage = "delivered" /\ d \in accepted
         \/ after.stage = "failed"
         \/ after.stage = "queued"
  BY <1>1, OutcomeCases
<1>3. outbox' = [outbox EXCEPT ![d] = after] /\ UNCHANGED accepted
  BY DEF Record, receivers
<1> HIDE DEF after, d
<1>4. outbox'[d] = after /\ \A x \in Ids : x # d => outbox'[x] = outbox[x]
  BY <1>2, <1>3 DEF OutboxInv, TypeOK
<1>5. CASE after.stage = "queued"
  BY <1>2, <1>3, <1>4, <1>5, SameStages DEF Stage
<1>6. CASE after.stage # "queued"
  <2>1. [x \in Ids |-> outbox'[x].stage] = [[x \in Ids |-> outbox[x].stage] EXCEPT ![d] = after.stage]
    BY <1>2, <1>4
  <2>2. Promise!Settle(d)
    BY <1>2, <1>3, <1>6, <2>1 DEF Promise!Settle, Stage
  <2>3. QED
    BY <1>2, <2>2 DEF PromiseStep, Promise!Next
<1>7. QED
  BY <1>5, <1>6

LEMMA PromisePruned == ASSUME OutboxInv, Prune PROVE PromiseStep
<1> DEFINE D == {d \in Ids : Settled(d) /\ outbox[d].age > Retention}
<1>1. \A d \in D : Stage(d) \in {"delivered", "failed"}
  BY DEF Settled
<1>2. \A d \in Ids : outbox'[d].stage = IF d \in D THEN "pruned" ELSE outbox[d].stage
  <2>1. TAKE d \in Ids
  <2> DEFINE new == [outbox[d] EXCEPT !.stage = "pruned"]
  <2>2. new.stage = "pruned"
    BY DEF OutboxInv, TypeOK, Row
  <2>3. outbox'[d] = IF d \in D THEN new ELSE outbox[d]
    BY DEF Prune
  <2> HIDE DEF new, D
  <2>4. QED
    BY <2>2, <2>3
<1>3. UNCHANGED accepted
  BY DEF Prune, receivers
<1>4. D \in SUBSET Ids
  OBVIOUS
<1> HIDE DEF D
<1>5. Promise!Prune(D)
  BY <1>1, <1>2, <1>3, <1>4 DEF Promise!Prune, Stage
<1>6. QED
  BY <1>4, <1>5 DEF PromiseStep, Promise!Next

LEMMA PromiseKept == OutboxInv /\ [Next]_vars => PromiseStep
<1> SUFFICES ASSUME OutboxInv, [Next]_vars PROVE PromiseStep
  OBVIOUS
<1>1. TypeOK
  BY DEF OutboxInv
<1>2. CASE UNCHANGED <<outbox, accepted>>
  BY <1>2, SameStages
<1>3. ASSUME NEW r \in Requests, Announce(r) \/ Mail(r) PROVE PromiseStep
  <2>1. PICK k \in {"peer", "callback", "email"}, g \in Grants : Enqueue(k, g)
    BY <1>1, <1>3, DeliveriesAssumption DEF Announce, Mail, TypeOK, Request
  <2>2. UNCHANGED accepted
    BY <1>3 DEF Announce, Mail, receivers
  <2>3. QED
    BY <1>1, <2>1, <2>2, PromiseQueued
<1>4. CASE AnnounceSettled
  <2>1. PICK k \in {"peer", "callback", "email"}, g \in Grants : Enqueue(k, g)
    BY <1>1, <1>4, DeliveriesAssumption DEF AnnounceSettled, TypeOK, Worker
  <2>2. UNCHANGED accepted
    BY <1>4 DEF AnnounceSettled, receivers
  <2>3. QED
    BY <1>1, <2>1, <2>2, PromiseQueued
<1>5. CASE Tick
  BY <1>1, <1>5, Beaten, SameStages DEF Tick, receivers
<1>6. QED
  BY <1>2, <1>3, <1>4, <1>5, PromiseAttempted, PromiseRecorded, PromisePruned
     DEF Next, vars, DeliverDue, Beat, Fails, Change, AnnounceFails, Kick, Query, QueryFails,
         RecordFails, TakeKick, TakeTick, Sweep, Settle, SettleFails, Lapse, Crash, receivers

\* The outbox keeps its promise step by step: nothing queued is dropped or reopened, and a
\* row counts as delivered only once its receiver accepted it (attemptDelivery, deliverDue,
\* pruneDeliveries). That it is settled in the end is fairness, and stays with TLC.
THEOREM OutboxRefines == Spec => Promise!Init /\ [][Promise!Next]_(Promise!vars)
<1>1. OutboxInv /\ [Next]_vars => [Promise!Next]_(Promise!vars)
  BY PromiseKept DEF PromiseStep
<1>2. QED
  BY <1>1, PromiseInit, OutboxInvariant, PTL DEF Spec

(***************************************************************************)
(* One answer on another server                                            *)
(***************************************************************************)

\* What the link says now could be read now, and what a read under way carries could be read
\* recently enough for the time it will be kept.
ReadsFresh ==
  /\ \A v \in Values : Readable(link, v) => unreadable[v] = 0
  /\ \A q \in Readers :
       LET v == reader[q].result.value IN
         reader[q].ttl > 0 /\ v # NoValue => unreadable[v] + reader[q].ttl <= MaxAge

\* An entry of the cache has time left.
CacheOK == cache.read => cache.ttl > 0

\* The requester's row stands for an answer, or for there being none yet.
RowHolds(answer) == answer.status # "none" => row.held /\ row.token = answer.token
LinkHolds(token) == link.status # "none" /\ (link.status # "deleted" => link.token = token)

\* Where the relay of an answer is, while nothing failed: which token the link has, and which
\* one the row.
RelayOK == faults = 0 =>
  /\ relay.pc = "idle" => accept.pc = "idle" /\ (link.status # "deleted" => RowHolds(link))
  /\ relay.pc \in {"changed", "post"} =>
       accept.pc = "idle" /\ LinkHolds(relay.token) /\ RowHolds(relay.before)
  /\ relay.pc = "posted" =>
       /\ accept.pc # "idle" /\ accept.token = relay.token /\ LinkHolds(relay.token)
       /\ accept.pc \in {"ask", "save", "refused"} => RowHolds(relay.before)
       /\ accept.pc \in {"remember", "accepted"} => row.held /\ row.token = relay.token
  /\ relay.pc = "undo" => accept.pc = "idle" /\ RowHolds(relay.before)
  /\ relay.pc = "undone" => accept.pc = "idle" /\ (link.status # "deleted" => RowHolds(link))

\* The inductive invariant.
RemoteInv == RemoteTypeOK /\ ReadsFresh /\ CacheOK /\ KeptAtMostMaxAge /\ RelayOK

LEMMA RemoteNumbers ==
  /\ 0 \in 0..MaxStamp /\ 0 \in 0..MaxAge /\ MaxAge \in 0..MaxAge /\ MaxAge > 0
  /\ 0 \in 0..(MaxAge + 1) /\ MaxAge + 1 \in 0..(MaxAge + 1)
  /\ 0 \in 0..MaxAnswers /\ 0 \in 0..MaxLinkEdits /\ 0 \in 0..MaxRemoteFaults
  /\ 0 \in Tokens /\ 0 \in Values /\ NoValue = 0
BY RemoteAssumption DEF Tokens, Values, NoValue

LEMMA Resting0 ==
  /\ NoLink \in Link /\ NoLink.status = "none" /\ NoRow \in RemoteRow
  /\ NoOwner \in Owner /\ NoRelay \in Relay /\ NoRelay.pc = "idle"
  /\ NoAccept \in Accept /\ NoAccept.pc = "idle"
  /\ NoCache \in Cache /\ ~NoCache.read
  /\ NoHandler \in Handler /\ NoReader \in Reader /\ NoReader.result.value = NoValue
  /\ NoReader.ttl = 0 /\ NoResult \in Result
<1>1. NoLink \in Link /\ NoLink.status = "none"
  BY RemoteNumbers DEF NoLink, Link
<1>2. NoRow \in RemoteRow
  BY RemoteNumbers DEF NoRow, RemoteRow, LinkStatuses, Live
<1>3. NoOwner \in Owner
  BY DEF NoOwner, Owner, LinkStatuses, Live
<1>4. NoRelay \in Relay /\ NoRelay.pc = "idle"
  BY <1>1, RemoteNumbers DEF NoRelay, Relay
<1>5. NoAccept \in Accept /\ NoAccept.pc = "idle"
  BY RemoteNumbers DEF NoAccept, Accept
<1>6. NoResult \in Result /\ NoResult.value = NoValue
  BY RemoteNumbers DEF NoResult, Result
<1>7. NoCache \in Cache /\ ~NoCache.read
  BY <1>6, RemoteNumbers DEF NoCache, Cache
<1>8. NoHandler \in Handler
  BY RemoteNumbers DEF NoHandler, Handler, AnEvent, Event, LinkStatuses, Live
<1>9. NoReader \in Reader /\ NoReader.result.value = NoValue /\ NoReader.ttl = 0
  BY <1>6, RemoteNumbers DEF NoReader, Reader, LinkStatuses, Live
<1>10. QED
  BY <1>1, <1>2, <1>3, <1>4, <1>5, <1>6, <1>7, <1>8, <1>9

LEMMA RemoteStarts == RemoteInit => RemoteInv
<1> SUFFICES ASSUME RemoteInit PROVE RemoteInv
  OBVIOUS
<1>1. /\ link = NoLink /\ stamp = 0 /\ owner = NoOwner /\ relay = NoRelay /\ accept = NoAccept
      /\ net = {} /\ row = NoRow /\ cache = NoCache
      /\ handler = [h \in Handlers |-> NoHandler] /\ reader = [q \in Readers |-> NoReader]
      /\ unreadable = [v \in Values |-> MaxAge + 1]
      /\ answers = 0 /\ remoteEdits = 0 /\ faults = 0
  BY DEF RemoteInit
<1>2. RemoteTypeOK
  BY <1>1, Resting0, RemoteNumbers DEF RemoteTypeOK
<1>3. ReadsFresh
  BY <1>1, Resting0 DEF ReadsFresh, Readable
<1>4. CacheOK /\ KeptAtMostMaxAge
  BY <1>1, Resting0 DEF CacheOK, KeptAtMostMaxAge
<1>5. RelayOK
  BY <1>1, Resting0 DEF RelayOK, RowHolds
<1>6. QED
  BY <1>2, <1>3, <1>4, <1>5 DEF RemoteInv

LEMMA RemoteBudgets ==
  ASSUME RemoteTypeOK
  PROVE /\ Faults => faults' \in 0..MaxRemoteFaults /\ faults' # 0 /\ UNCHANGED <<answers, remoteEdits>>
        /\ RemoteEdits => /\ remoteEdits' \in 0..MaxLinkEdits /\ UNCHANGED <<answers, faults>>
                          /\ MaxAnswers + remoteEdits + 1 \in Values
BY RemoteAssumption DEF RemoteTypeOK, Faults, RemoteEdits, MayHappen, Values

\* A change of the link leaves what is known of the values others hold, and makes its own
\* value readable now.
LEMMA Relinked ==
  ASSUME RemoteInv, NEW new \in Link, Relink(new), UNCHANGED <<reader, cache>>
  PROVE /\ link' = new /\ unreadable' \in [Values -> 0..(MaxAge + 1)]
        /\ ReadsFresh' /\ KeptAtMostMaxAge'
<1>1. RemoteTypeOK /\ ReadsFresh /\ KeptAtMostMaxAge /\ CacheOK
  BY DEF RemoteInv
<1>2. link' = new
  BY DEF Relink
<1>3. /\ unreadable' \in [Values -> 0..(MaxAge + 1)]
      /\ \A v \in Values : Readable(new, v) => unreadable'[v] = 0
      /\ \A v \in Kept : v \in Values => unreadable'[v] \in {0, unreadable[v]}
  BY <1>1, RemoteNumbers DEF Relink, RemoteTypeOK
<1>4. \A q \in Readers : /\ reader[q].result.value \in Values /\ reader[q].result.value \in Kept
                         /\ reader[q].ttl \in 0..MaxAge
  BY <1>1 DEF RemoteTypeOK, Reader, Result, Kept
<1>5. cache.result.value \in Values /\ (cache.read => cache.result.value \in Kept)
      /\ cache.ttl \in 0..MaxAge
  BY <1>1 DEF RemoteTypeOK, Cache, Result, Kept
<1>6. ReadsFresh'
  <2>1. ASSUME NEW q \in Readers, reader[q].ttl > 0, reader[q].result.value # NoValue
        PROVE unreadable'[reader[q].result.value] + reader[q].ttl <= MaxAge
    <3>1. unreadable[reader[q].result.value] + reader[q].ttl <= MaxAge
      BY <1>1, <2>1 DEF ReadsFresh
    <3>2. unreadable'[reader[q].result.value] \in {0, unreadable[reader[q].result.value]}
      BY <1>3, <1>4
    <3>3. reader[q].ttl \in 0..MaxAge
      BY <1>4
    <3>4. QED
      BY <3>1, <3>2, <3>3, RemoteAssumption
  <2>2. QED
    BY <1>2, <1>3, <2>1 DEF ReadsFresh
<1>7. KeptAtMostMaxAge'
  <2>1. ASSUME cache.read, cache.result.value # NoValue
        PROVE unreadable'[cache.result.value] + cache.ttl <= MaxAge
    <3>1. unreadable[cache.result.value] + cache.ttl <= MaxAge
      BY <1>1, <2>1 DEF KeptAtMostMaxAge
    <3>2. unreadable'[cache.result.value] \in {0, unreadable[cache.result.value]}
      BY <1>3, <1>5, <2>1
    <3>3. QED
      BY <1>5, <3>1, <3>2, RemoteAssumption
  <2>2. QED
    BY <2>1 DEF KeptAtMostMaxAge
<1>8. QED
  BY <1>2, <1>3, <1>6, <1>7

\* A step that touches neither the link nor a value someone holds.
LEMMA ReadsElsewhere ==
  ASSUME RemoteInv, UNCHANGED <<link, unreadable>>,
         \A q \in Readers : reader'[q] = reader[q] \/ reader'[q].ttl = 0
                             \/ reader'[q].result.value = NoValue,
         cache' = cache \/ ~cache'.read
  PROVE ReadsFresh' /\ CacheOK' /\ KeptAtMostMaxAge'
<1>1. ReadsFresh /\ CacheOK /\ KeptAtMostMaxAge
  BY DEF RemoteInv
<1>2. ReadsFresh'
  <2>1. ASSUME NEW q \in Readers, reader'[q].ttl > 0, reader'[q].result.value # NoValue
        PROVE unreadable[reader'[q].result.value] + reader'[q].ttl <= MaxAge
    BY <1>1, <2>1 DEF ReadsFresh
  <2>2. QED
    BY <1>1, <2>1 DEF ReadsFresh, Readable
<1>3. CacheOK' /\ KeptAtMostMaxAge'
  BY <1>1 DEF CacheOK, KeptAtMostMaxAge
<1>4. QED
  BY <1>2, <1>3

(***************************************************************************)
(* The responder's server.                                                 *)
(***************************************************************************)

LEMMA LinkShapes ==
  ASSUME RemoteTypeOK
  PROVE /\ \A s \in LinkStatuses \cup {"deleted"} : \A new : new = [link EXCEPT !.status = s] =>
             new \in Link /\ new.status = s /\ new.token = link.token
        /\ \A v \in Values : \A new : new = [link EXCEPT !.value = v] =>
             new \in Link /\ new.status = link.status /\ new.token = link.token
<1>1. link \in Link
  BY DEF RemoteTypeOK
<1>2. QED
  BY <1>1 DEF Link

\* The responder changes or deletes the link: its token stays.
LEMMA OwnersStep == ASSUME RemoteInv, SetStatus \/ EditEntry PROVE RemoteInv'
<1>1. RemoteTypeOK /\ RelayOK
  BY DEF RemoteInv
<1>2. /\ link.status \in LinkStatuses /\ RemoteEdits
      /\ UNCHANGED <<stamp, relay, accept, net, requester>>
  BY DEF SetStatus, EditEntry
<1>3. remoteEdits' \in 0..MaxLinkEdits /\ UNCHANGED <<answers, faults>> /\ MaxAnswers + remoteEdits + 1 \in Values
  BY <1>1, <1>2, RemoteBudgets
<1>4. PICK new \in Link : Relink(new) /\ new.status # "none" /\ new.token = link.token
  <2>1. CASE SetStatus
    <3>1. PICK s \in LinkStatuses \cup {"deleted"} : Relink([link EXCEPT !.status = s])
      BY <2>1 DEF SetStatus
    <3>2. QED
      BY <1>1, <3>1, LinkShapes DEF LinkStatuses, Live
  <2>2. CASE EditEntry
    <3>1. Relink([link EXCEPT !.value = MaxAnswers + remoteEdits + 1])
      BY <2>2 DEF EditEntry
    <3>2. QED
      BY <1>1, <1>2, <1>3, <3>1, LinkShapes DEF LinkStatuses, Live
  <2>3. QED
    BY <2>1, <2>2
<1>5. UNCHANGED <<row, handler, reader, cache>>
  BY <1>2 DEF requester
<1>6. /\ link' = new /\ unreadable' \in [Values -> 0..(MaxAge + 1)]
      /\ ReadsFresh' /\ KeptAtMostMaxAge'
  BY <1>4, <1>5, Relinked
<1>7. owner' \in Owner
  <2>1. CASE SetStatus
    <3>1. \A s \in LinkStatuses : [pc |-> "announce", status |-> s] \in Owner
      BY DEF Owner
    <3>2. QED
      BY <1>1, <2>1, <3>1 DEF SetStatus, RemoteTypeOK, LinkStatuses, Live
  <2>2. CASE EditEntry
    BY <1>1, <2>2 DEF EditEntry, RemoteTypeOK, Owner
  <2>3. QED
    BY <1>2, <2>1, <2>2 DEF SetStatus, EditEntry
<1>8. RemoteTypeOK'
  BY <1>1, <1>2, <1>3, <1>4, <1>5, <1>6, <1>7 DEF RemoteTypeOK
<1>9. CacheOK'
  BY <1>5 DEF RemoteInv, CacheOK
<1>10. link.status # "none" /\ link.status # "deleted"
  BY <1>2 DEF LinkStatuses, Live
<1>11. RelayOK'
  BY <1>1, <1>2, <1>3, <1>4, <1>5, <1>6, <1>10 DEF RelayOK, RowHolds, LinkHolds
<1>12. QED
  BY <1>6, <1>8, <1>9, <1>11 DEF RemoteInv

\* Announcements and the event clock.
LEMMA AnnouncingStep ==
  ASSUME RemoteInv, AnnounceRemote \/ StampTicks PROVE RemoteInv'
<1>1. RemoteTypeOK /\ RelayOK
  BY DEF RemoteInv
<1>2. UNCHANGED <<link, unreadable, relay, accept, row, handler, reader, cache, answers, remoteEdits, faults>>
  BY DEF AnnounceRemote, AnnounceEntry, AnnounceStatus, StampTicks, requester, remoteCounters
<1>3. \A s \in LinkStatuses : Send(s) => net' \subseteq Event
  BY <1>1 DEF Send, RemoteTypeOK, Event
<1>4. net' \subseteq Event
  BY <1>1, <1>3 DEF AnnounceRemote, AnnounceEntry, AnnounceStatus, StampTicks, RemoteTypeOK, Owner,
     LinkStatuses
<1>5. owner' \in Owner
  BY <1>1, Resting0 DEF AnnounceRemote, AnnounceEntry, AnnounceStatus, StampTicks, RemoteTypeOK
<1>6. stamp' \in 0..MaxStamp
  BY <1>1, RemoteAssumption DEF AnnounceRemote, AnnounceEntry, AnnounceStatus, StampTicks, RemoteTypeOK
<1>7. RemoteTypeOK'
  BY <1>1, <1>2, <1>4, <1>5, <1>6 DEF RemoteTypeOK
<1>8. ReadsFresh' /\ CacheOK' /\ KeptAtMostMaxAge'
  BY <1>2, ReadsElsewhere
<1>9. RelayOK'
  BY <1>1, <1>2 DEF RelayOK, RowHolds, LinkHolds
<1>10. QED
  BY <1>7, <1>8, <1>9 DEF RemoteInv

LEMMA SaveLinkStep == ASSUME RemoteInv, SaveLink PROVE RemoteInv'
<1> DEFINE new == [status |-> "active", token |-> answers + 1, value |-> answers + 1]
           next == [pc |-> IF link.status = "none" THEN "post" ELSE "changed",
                    token |-> answers + 1, before |-> link, remoteEdits |-> remoteEdits]
<1>1. RemoteTypeOK /\ RelayOK
  BY DEF RemoteInv
<1>2. /\ relay.pc = "idle" /\ accept.pc = "idle" /\ link.status # "deleted"
      /\ Relink(new) /\ relay' = next
      /\ answers < MaxAnswers /\ answers' = answers + 1
      /\ UNCHANGED <<remoteEdits, faults, stamp, owner, accept, net, row, handler, reader, cache>>
  BY DEF SaveLink, requester
<1>3. answers + 1 \in Tokens /\ answers + 1 \in Values /\ answers' \in 0..MaxAnswers
  BY <1>1, <1>2, RemoteAssumption DEF RemoteTypeOK, Tokens, Values
<1>4. new \in Link /\ new.status = "active" /\ new.token = answers + 1
  BY <1>3 DEF Link, LinkStatuses, Live
<1>5. /\ next \in Relay /\ next.pc \in {"changed", "post"} /\ next.token = answers + 1
      /\ next.before = link
  BY <1>1, <1>3 DEF Relay, RemoteTypeOK
<1> HIDE DEF new, next
<1>6. /\ link' = new /\ unreadable' \in [Values -> 0..(MaxAge + 1)]
      /\ ReadsFresh' /\ KeptAtMostMaxAge'
  BY <1>2, <1>4, Relinked
<1>7. RemoteTypeOK'
  BY <1>1, <1>2, <1>3, <1>4, <1>5, <1>6 DEF RemoteTypeOK
<1>8. CacheOK'
  BY <1>2 DEF RemoteInv, CacheOK
<1>9. RelayOK'
  <2>1. RowHolds(link) \/ faults # 0
    BY <1>1, <1>2 DEF RelayOK
  <2>2. row' = row /\ accept' = accept /\ faults' = faults
    BY <1>2
  <2>3. QED
    BY <1>2, <1>4, <1>5, <1>6, <2>1, <2>2 DEF RelayOK, RowHolds, LinkHolds
<1>10. QED
  BY <1>6, <1>7, <1>8, <1>9 DEF RemoteInv

\* Steps of the relay and of its handler that touch neither link nor row.
LEMMA RelayElsewhere ==
  ASSUME RemoteInv, RelayOK',
         UNCHANGED <<link, stamp, owner, unreadable, row, handler, reader, cache>>,
         relay' \in Relay, accept' \in Accept, net' \subseteq Event,
         answers' \in 0..MaxAnswers, remoteEdits' \in 0..MaxLinkEdits, faults' \in 0..MaxRemoteFaults
  PROVE RemoteInv'
<1>1. RemoteTypeOK'
  BY DEF RemoteInv, RemoteTypeOK
<1>2. ReadsFresh' /\ CacheOK' /\ KeptAtMostMaxAge'
  BY ReadsElsewhere
<1>3. QED
  BY <1>1, <1>2 DEF RemoteInv

LEMMA RelayShapes ==
  ASSUME RemoteTypeOK, NEW pc \in {"idle", "changed", "post", "posted", "undo", "undone"},
         NEW new, new = [relay EXCEPT !.pc = pc]
  PROVE /\ new \in Relay /\ new.pc = pc /\ new.token = relay.token /\ new.before = relay.before
<1>1. relay \in Relay
  BY DEF RemoteTypeOK
<1>2. QED
  BY <1>1 DEF Relay

LEMMA RelayingStep ==
  ASSUME RemoteInv, AnnounceAnswer \/ Accepted \/ Refused \/ Abandoned \/ AnnounceUndo PROVE RemoteInv'
<1>1. RemoteTypeOK /\ RelayOK
  BY DEF RemoteInv
<1>2. UNCHANGED <<link, stamp, owner, unreadable, row, handler, reader, cache, answers, remoteEdits, faults>>
  BY DEF AnnounceAnswer, Accepted, Refused, Abandoned, AnnounceUndo, responder, requester, remoteCounters
<1>3. net' \subseteq Event
  <2>1. Send("active") => net' \subseteq Event
    BY <1>1 DEF Send, RemoteTypeOK, Event, LinkStatuses, Live
  <2>2. QED
    BY <1>1, <2>1 DEF AnnounceAnswer, Accepted, Refused, Abandoned, AnnounceUndo, RemoteTypeOK
<1>4. CASE AnnounceAnswer
  <2> DEFINE new == [relay EXCEPT !.pc = "post"]
  <2>1. relay' = new /\ relay.pc = "changed" /\ accept' = accept
    BY <1>4 DEF AnnounceAnswer
  <2>2. new \in Relay /\ new.pc = "post" /\ new.token = relay.token /\ new.before = relay.before
    BY <1>1, RelayShapes
  <2> HIDE DEF new
  <2>3. RelayOK'
    BY <1>1, <1>2, <2>1, <2>2 DEF RelayOK, RowHolds, LinkHolds
  <2>4. QED
    BY <1>1, <1>2, <1>3, <2>1, <2>2, <2>3, RelayElsewhere DEF RemoteTypeOK
<1>5. CASE Accepted
  <2>1. relay' = NoRelay /\ accept' = NoAccept /\ relay.pc = "posted" /\ accept.pc = "accepted"
    BY <1>5 DEF Accepted
  <2>2. RelayOK'
    BY <1>1, <1>2, <2>1, Resting0 DEF RelayOK, RowHolds, LinkHolds
  <2>3. QED
    BY <1>1, <1>2, <1>3, <2>1, <2>2, Resting0, RelayElsewhere DEF RemoteTypeOK
<1>6. CASE Refused
  <2> DEFINE new == [relay EXCEPT !.pc = "undo"]
  <2>1. relay' = new /\ relay.pc = "posted" /\ accept.pc = "refused" /\ accept' = NoAccept
    BY <1>6 DEF Refused
  <2>2. new \in Relay /\ new.pc = "undo" /\ new.token = relay.token /\ new.before = relay.before
    BY <1>1, RelayShapes
  <2> HIDE DEF new
  <2>3. RelayOK'
    BY <1>1, <1>2, <2>1, <2>2, Resting0 DEF RelayOK, RowHolds, LinkHolds
  <2>4. QED
    BY <1>1, <1>2, <1>3, <2>1, <2>2, <2>3, Resting0, RelayElsewhere DEF RemoteTypeOK
<1>7. CASE Abandoned
  <2>1. relay' = relay /\ relay.pc # "posted" /\ accept.pc \in {"accepted", "refused"} /\ accept' = NoAccept
    BY <1>7 DEF Abandoned
  <2>2. relay.pc \in {"idle", "changed", "post", "posted", "undo", "undone"}
    BY <1>1 DEF RemoteTypeOK, Relay
  <2>3. RelayOK'
    BY <1>1, <1>2, <2>1, <2>2 DEF RelayOK
  <2>4. QED
    BY <1>1, <1>2, <1>3, <2>1, <2>3, Resting0, RelayElsewhere DEF RemoteTypeOK
<1>8. CASE AnnounceUndo
  <2>1. relay' = NoRelay /\ relay.pc = "undone" /\ accept' = accept
    BY <1>8 DEF AnnounceUndo
  <2>2. RelayOK'
    BY <1>1, <1>2, <2>1, Resting0 DEF RelayOK, RowHolds, LinkHolds
  <2>3. QED
    BY <1>1, <1>2, <1>3, <2>1, <2>2, Resting0, RelayElsewhere DEF RemoteTypeOK
<1>9. QED
  BY <1>4, <1>5, <1>6, <1>7, <1>8

LEMMA PostStep == ASSUME RemoteInv, Post PROVE RemoteInv'
<1> DEFINE new == [relay EXCEPT !.pc = "posted"]
           asked == [pc |-> "ask", token |-> relay.token, value |-> NoValue]
<1>1. RemoteTypeOK /\ RelayOK
  BY DEF RemoteInv
<1>2. /\ relay.pc = "post" /\ relay' = new /\ accept' = asked
      /\ UNCHANGED <<link, stamp, owner, unreadable, net, row, handler, reader, cache, answers, remoteEdits, faults>>
  BY DEF Post, responder, requester, remoteCounters
<1>3. new \in Relay /\ new.pc = "posted" /\ new.token = relay.token /\ new.before = relay.before
  BY <1>1, RelayShapes
<1>4. asked \in Accept /\ asked.pc = "ask" /\ asked.token = relay.token
  BY <1>1, RemoteNumbers DEF RemoteTypeOK, Relay, Accept
<1> HIDE DEF new, asked
<1>5. RelayOK'
  BY <1>1, <1>2, <1>3, <1>4 DEF RelayOK, RowHolds, LinkHolds
<1>6. QED
  BY <1>1, <1>2, <1>3, <1>4, <1>5, RelayElsewhere DEF RemoteTypeOK

LEMMA TimesOutStep == ASSUME RemoteInv, TimesOut PROVE RemoteInv'
<1> DEFINE new == [relay EXCEPT !.pc = "undo"]
<1>1. RemoteTypeOK
  BY DEF RemoteInv
<1>2. /\ relay' = new /\ Faults
      /\ UNCHANGED <<link, stamp, owner, unreadable, accept, net, row, handler, reader, cache>>
  BY DEF TimesOut, responder, requester
<1>3. new \in Relay
  BY <1>1, RelayShapes
<1> HIDE DEF new
<1>4. faults' \in 0..MaxRemoteFaults /\ faults' # 0 /\ UNCHANGED <<answers, remoteEdits>>
  BY <1>1, <1>2, RemoteBudgets
<1>5. RelayOK'
  BY <1>4 DEF RelayOK
<1>6. QED
  BY <1>1, <1>2, <1>3, <1>4, <1>5, RelayElsewhere DEF RemoteTypeOK

LEMMA LoseEventStep == ASSUME RemoteInv, LoseEvent PROVE RemoteInv'
<1>1. RemoteTypeOK /\ Faults /\ net' \subseteq net
  BY DEF RemoteInv, LoseEvent
<1>2. UNCHANGED <<link, stamp, owner, unreadable, relay, accept, row, handler, reader, cache>>
  BY DEF LoseEvent, responder, requester
<1>3. faults' \in 0..MaxRemoteFaults /\ faults' # 0 /\ UNCHANGED <<answers, remoteEdits>>
  BY <1>1, RemoteBudgets
<1>4. RelayOK'
  BY <1>3 DEF RelayOK
<1>5. QED
  BY <1>1, <1>2, <1>3, <1>4, RelayElsewhere DEF RemoteTypeOK

\* The undo gives the link the token of before, deletes it, or finds it deleted.
LEMMA UndoStep == ASSUME RemoteInv, Undo PROVE RemoteInv'
<1>1. RemoteTypeOK /\ RelayOK
  BY DEF RemoteInv
<1>2. /\ relay.pc = "undo"
      /\ UNCHANGED <<stamp, owner, accept, net, row, handler, reader, cache, answers, remoteEdits, faults>>
  BY DEF Undo, requester, remoteCounters
<1>3. CASE link.status = "deleted"
  <2>1. relay' = NoRelay /\ UNCHANGED <<link, unreadable>>
    BY <1>3 DEF Undo
  <2>2. RelayOK'
    BY <1>1, <1>2, <1>3, <2>1, Resting0 DEF RelayOK
  <2>3. QED
    BY <1>1, <1>2, <2>1, <2>2, Resting0, RelayElsewhere DEF RemoteTypeOK
<1>4. CASE link.status # "deleted"
  <2>1. PICK new \in Link :
          /\ Relink(new)
          /\ \/ new.status = "deleted" /\ relay' = NoRelay
             \/ new.token = relay.before.token /\ relay' = [relay EXCEPT !.pc = "undone"]
                /\ relay.before.status # "none"
    <3>1. CASE relay.before.status = "none"
      BY <1>1, <1>4, <3>1, LinkShapes DEF Undo
    <3>2. CASE relay.before.status # "none"
      <4> DEFINE restored == Restored(relay.before)
      <4>1. restored \in Link /\ restored.token = relay.before.token
        BY <1>1 DEF RemoteTypeOK, Relay, Link, Restored
      <4>2. Relink(restored) /\ relay' = [relay EXCEPT !.pc = "undone"]
        BY <1>4, <3>2 DEF Undo
      <4> HIDE DEF restored
      <4>3. QED
        BY <3>2, <4>1, <4>2
    <3>3. QED
      BY <3>1, <3>2
  <2>2. /\ link' = new /\ unreadable' \in [Values -> 0..(MaxAge + 1)]
        /\ ReadsFresh' /\ KeptAtMostMaxAge'
    BY <1>2, <2>1, Relinked
  <2>3. /\ relay' \in Relay /\ relay'.pc \in {"idle", "undone"}
        /\ relay'.pc = "idle" => new.status = "deleted"
        /\ relay'.pc = "undone" => new.token = relay.before.token /\ relay.before.status # "none"
    <3>1. CASE new.status = "deleted" /\ relay' = NoRelay
      BY <3>1, Resting0
    <3>2. CASE /\ new.token = relay.before.token /\ relay' = [relay EXCEPT !.pc = "undone"]
               /\ relay.before.status # "none"
      BY <1>1, <3>2, RelayShapes
    <3>3. QED
      BY <2>1, <3>1, <3>2
  <2>4. RemoteTypeOK'
    BY <1>1, <1>2, <2>1, <2>2, <2>3 DEF RemoteTypeOK
  <2>5. CacheOK'
    BY <1>2 DEF RemoteInv, CacheOK
  <2>6. RelayOK'
    BY <1>1, <1>2, <2>2, <2>3 DEF RelayOK, RowHolds
  <2>7. QED
    BY <2>2, <2>4, <2>5, <2>6 DEF RemoteInv
<1>5. QED
  BY <1>3, <1>4

(***************************************************************************)
(* The requester's server.                                                 *)
(***************************************************************************)

LEMMA AskOnceStep == ASSUME RemoteInv, AskOnce PROVE RemoteInv'
<1>1. RemoteTypeOK /\ RelayOK /\ accept \in Accept /\ link.value \in Values
  BY DEF RemoteInv, RemoteTypeOK, Link
<1>2. /\ accept.pc = "ask"
      /\ UNCHANGED <<link, stamp, owner, unreadable, relay, net, row, handler, reader, cache, answers, remoteEdits, faults>>
  BY DEF AskOnce, responder, requester, remoteCounters
<1>3. accept' \in Accept /\ accept'.pc \in {"save", "refused"} /\ accept'.token = accept.token
  <2>1. CASE accept' = [accept EXCEPT !.pc = "save", !.value = link.value]
    BY <1>1, <2>1 DEF Accept
  <2>2. CASE accept' = [accept EXCEPT !.pc = "refused"]
    BY <1>1, <2>2 DEF Accept
  <2>3. QED
    BY <2>1, <2>2 DEF AskOnce
<1>4. RelayOK'
  BY <1>1, <1>2, <1>3 DEF RelayOK, RowHolds, LinkHolds
<1>5. QED
  BY <1>1, <1>2, <1>3, <1>4, RelayElsewhere DEF RemoteTypeOK

LEMMA SaveRowStep == ASSUME RemoteInv, SaveRow PROVE RemoteInv'
<1> DEFINE new == [held |-> TRUE, token |-> accept.token, status |-> "active", statusAt |-> 0]
           next == [accept EXCEPT !.pc = "remember"]
<1>1. RemoteTypeOK /\ RelayOK /\ accept \in Accept
  BY DEF RemoteInv, RemoteTypeOK
<1>2. /\ accept.pc = "save" /\ row' = new /\ accept' = next
      /\ UNCHANGED <<link, stamp, owner, unreadable, relay, net, handler, reader, cache, answers, remoteEdits, faults>>
  BY DEF SaveRow, responder, remoteCounters
<1>3. next \in Accept /\ next.pc = "remember" /\ next.token = accept.token
  BY <1>1 DEF Accept
<1>4. new \in RemoteRow /\ new.held /\ new.token = accept.token
  BY <1>1, RemoteNumbers DEF RemoteRow, Accept, LinkStatuses, Live
<1> HIDE DEF new, next
<1>5. RemoteTypeOK'
  BY <1>1, <1>2, <1>3, <1>4 DEF RemoteTypeOK
<1>6. ReadsFresh' /\ CacheOK' /\ KeptAtMostMaxAge'
  BY <1>2, ReadsElsewhere
<1>7. relay.pc \in {"idle", "changed", "post", "posted", "undo", "undone"}
  BY <1>1 DEF RemoteTypeOK, Relay
<1>8. RelayOK'
  BY <1>1, <1>2, <1>3, <1>4, <1>7 DEF RelayOK, LinkHolds
<1>9. QED
  BY <1>5, <1>6, <1>8 DEF RemoteInv

LEMMA RememberStep == ASSUME RemoteInv, Remember PROVE RemoteInv'
<1> DEFINE new == [result |-> [status |-> "active", value |-> accept.value], ttl |-> MaxAge, read |-> FALSE]
           next == [accept EXCEPT !.pc = "accepted"]
<1>1. RemoteTypeOK /\ RelayOK /\ accept \in Accept
  BY DEF RemoteInv, RemoteTypeOK
<1>2. /\ accept.pc = "remember" /\ cache' = new /\ accept' = next
      /\ UNCHANGED <<link, stamp, owner, unreadable, relay, net, row, handler, reader, answers, remoteEdits, faults>>
  BY DEF Remember, responder, remoteCounters
<1>3. next \in Accept /\ next.pc = "accepted" /\ next.token = accept.token
  BY <1>1 DEF Accept
<1>4. new \in Cache /\ ~new.read
  <2>1. [status |-> "active", value |-> accept.value] \in Result
    BY <1>1 DEF Accept, Result, LinkStatuses, Live
  <2>2. QED
    BY <2>1, RemoteNumbers DEF Cache
<1> HIDE DEF new, next
<1>5. RemoteTypeOK'
  BY <1>1, <1>2, <1>3, <1>4 DEF RemoteTypeOK
<1>6. ReadsFresh' /\ CacheOK' /\ KeptAtMostMaxAge'
  BY <1>2, <1>4, ReadsElsewhere
<1>7. RelayOK'
  BY <1>1, <1>2, <1>3 DEF RelayOK, RowHolds, LinkHolds
<1>8. QED
  BY <1>5, <1>6, <1>7 DEF RemoteInv

LEMMA DeliverStep == ASSUME RemoteInv, NEW h \in Handlers, NEW e \in net, Deliver(h, e) PROVE RemoteInv'
<1>1. RemoteTypeOK /\ RelayOK /\ e \in Event
  BY DEF RemoteInv, RemoteTypeOK
<1>2. /\ net' \subseteq net /\ cache' \in {cache, NoCache}
      /\ UNCHANGED <<link, stamp, owner, unreadable, relay, accept, row, reader, answers, remoteEdits, faults>>
  BY DEF Deliver, responder, remoteCounters
<1>3. handler' \in [Handlers -> Handler]
  <2>1. [pc |-> "apply", event |-> e] \in Handler
    BY <1>1 DEF Handler
  <2>2. QED
    BY <1>1, <2>1 DEF Deliver, RemoteTypeOK
<1>4. RemoteTypeOK'
  BY <1>1, <1>2, <1>3, Resting0 DEF RemoteTypeOK
<1>5. ReadsFresh' /\ CacheOK' /\ KeptAtMostMaxAge'
  BY <1>2, Resting0, ReadsElsewhere
<1>6. RelayOK'
  BY <1>1, <1>2 DEF RelayOK, RowHolds, LinkHolds
<1>7. QED
  BY <1>4, <1>5, <1>6 DEF RemoteInv

\* An event and a read write only the row's status.
LEMMA RowStatusOnly ==
  ASSUME RemoteInv, row' \in RemoteRow, row'.held <=> row.held, row'.token = row.token,
         UNCHANGED <<link, stamp, owner, unreadable, relay, accept, net, cache, answers, remoteEdits, faults>>,
         handler' \in [Handlers -> Handler], reader' \in [Readers -> Reader],
         \A q \in Readers : reader'[q] = reader[q] \/ reader'[q].ttl = 0
  PROVE RemoteInv'
<1>1. RemoteTypeOK'
  BY DEF RemoteInv, RemoteTypeOK
<1>2. ReadsFresh' /\ CacheOK' /\ KeptAtMostMaxAge'
  BY ReadsElsewhere
<1>3. RelayOK'
  BY DEF RemoteInv, RelayOK, RowHolds, LinkHolds
<1>4. QED
  BY <1>1, <1>2, <1>3 DEF RemoteInv

LEMMA ApplyStep == ASSUME RemoteInv, NEW h \in Handlers, Apply(h) PROVE RemoteInv'
<1> DEFINE e == handler[h].event
           new == [row EXCEPT !.status = e.status, !.statusAt = e.at]
<1>1. RemoteTypeOK /\ row \in RemoteRow
  BY DEF RemoteInv, RemoteTypeOK
<1>2. e.status \in LinkStatuses /\ e.at \in 0..MaxStamp
  BY <1>1 DEF RemoteTypeOK, Handler, Event
<1>3. /\ row' \in {row, new} /\ handler' = [handler EXCEPT ![h] = NoHandler]
      /\ UNCHANGED <<link, stamp, owner, unreadable, relay, accept, net, reader, cache, answers, remoteEdits, faults>>
  BY DEF Apply, responder, remoteCounters
<1>4. new \in RemoteRow /\ (new.held <=> row.held) /\ new.token = row.token
  BY <1>1, <1>2 DEF RemoteRow
<1> HIDE DEF new
<1>5. handler' \in [Handlers -> Handler] /\ reader' \in [Readers -> Reader]
  BY <1>1, <1>3, Resting0 DEF RemoteTypeOK
<1>6. QED
  BY <1>1, <1>3, <1>4, <1>5, RowStatusOnly

LEMMA ReportedType == ASSUME NEW result \in Result PROVE Reported(result) \in LinkStatuses
BY DEF Reported, Result, LinkStatuses, Live

LEMMA WriteBackStep == ASSUME RemoteInv, NEW q \in Readers, WriteBack(q) PROVE RemoteInv'
<1> DEFINE new == [row EXCEPT !.status = Reported(reader[q].result)]
<1>1. RemoteTypeOK /\ row \in RemoteRow
  BY DEF RemoteInv, RemoteTypeOK
<1>2. Reported(reader[q].result) \in LinkStatuses
  BY <1>1, ReportedType DEF RemoteTypeOK, Reader
<1>3. /\ row' = new /\ reader' = [reader EXCEPT ![q] = NoReader]
      /\ UNCHANGED <<link, stamp, owner, unreadable, relay, accept, net, handler, cache, answers, remoteEdits, faults>>
  BY DEF WriteBack, Written, responder, remoteCounters
<1>4. new \in RemoteRow /\ (new.held <=> row.held) /\ new.token = row.token
  BY <1>1, <1>2 DEF RemoteRow
<1> HIDE DEF new
<1>5. /\ handler' \in [Handlers -> Handler] /\ reader' \in [Readers -> Reader]
      /\ \A x \in Readers : reader'[x] = reader[x] \/ reader'[x].ttl = 0
  BY <1>1, <1>3, Resting0 DEF RemoteTypeOK
<1>6. QED
  BY <1>3, <1>4, <1>5, RowStatusOnly

LEMMA ReadResult ==
  ASSUME RemoteTypeOK, NEW token \in Tokens, NEW result, result = Read(token)
  PROVE /\ result \in Result
        /\ result.value = NoValue \/ Readable(link, result.value)
<1>1. link \in Link
  BY DEF RemoteTypeOK
<1>2. CASE link.status \in {"none", "deleted"} \/ token # link.token
  BY <1>2, Resting0 DEF Read, NoResult
<1>3. CASE ~(link.status \in {"none", "deleted"} \/ token # link.token)
  <2> DEFINE value == IF link.status = "active" THEN link.value ELSE NoValue
  <2>1. value \in Values /\ (value = NoValue \/ Readable(link, value))
    BY <1>1, RemoteNumbers DEF Link, Readable
  <2>2. link.status \in LinkStatuses
    BY <1>1, <1>3 DEF Link
  <2>3. result = [status |-> link.status, value |-> value]
    BY <1>3 DEF Read
  <2> HIDE DEF value
  <2>4. QED
    BY <2>1, <2>2, <2>3 DEF Result
<1>4. QED
  BY <1>2, <1>3

LEMMA AskingStep == ASSUME RemoteInv, NEW q \in Readers, Ask(q) \/ Unreachable(q) PROVE RemoteInv'
<1> DEFINE new == [NoReader EXCEPT !.pc = "ask", !.token = row.token, !.status = row.status, !.ttl = MaxAge]
<1>1. RemoteTypeOK /\ RelayOK
  BY DEF RemoteInv, RemoteTypeOK
<1>2. new \in Reader /\ new.result.value = NoValue
  BY <1>1, Resting0, RemoteNumbers DEF RemoteTypeOK, Reader, RemoteRow
<1>3. \/ reader' = [reader EXCEPT ![q] = new]
      \/ reader' = [reader EXCEPT ![q] = NoReader]
  BY DEF Ask, Unreachable
<1> HIDE DEF new
<1>4. /\ reader' \in [Readers -> Reader]
      /\ \A x \in Readers : reader'[x] = reader[x] \/ reader'[x].result.value = NoValue
  BY <1>1, <1>2, <1>3, Resting0 DEF RemoteTypeOK
<1>5. UNCHANGED <<link, stamp, owner, unreadable, relay, accept, net, row, handler, cache, answers, remoteEdits, faults>>
  BY DEF Ask, Unreachable, responder, remoteCounters
<1>6. RemoteTypeOK'
  BY <1>1, <1>4, <1>5 DEF RemoteTypeOK
<1>7. ReadsFresh' /\ CacheOK' /\ KeptAtMostMaxAge'
  BY <1>4, <1>5, ReadsElsewhere
<1>8. RelayOK'
  BY <1>1, <1>5 DEF RelayOK, RowHolds, LinkHolds
<1>9. QED
  BY <1>6, <1>7, <1>8 DEF RemoteInv

LEMMA AnswerStep == ASSUME RemoteInv, NEW q \in Readers, Answer(q) PROVE RemoteInv'
<1> DEFINE result == Read(reader[q].token)
           new == [reader[q] EXCEPT !.pc = "answered", !.result = result]
<1>1. RemoteTypeOK /\ RelayOK /\ ReadsFresh /\ reader[q] \in Reader
  BY DEF RemoteInv, RemoteTypeOK
<1>2. UNCHANGED <<link, stamp, owner, unreadable, relay, accept, net, row, handler, cache, answers, remoteEdits, faults>>
  BY DEF Answer, responder, remoteCounters
<1>3. result \in Result /\ (result.value = NoValue \/ Readable(link, result.value))
  BY <1>1, ReadResult DEF Reader
<1>4. reader' = [reader EXCEPT ![q] = new]
  BY <1>1 DEF Answer, RemoteTypeOK
<1> HIDE DEF result
<1>5. new \in Reader /\ new.result = result /\ new.ttl = reader[q].ttl /\ new.ttl \in 0..MaxAge
  BY <1>1, <1>3 DEF Reader
<1> HIDE DEF new
<1>6. reader' \in [Readers -> Reader] /\ reader'[q] = new /\ \A x \in Readers : x # q => reader'[x] = reader[x]
  BY <1>1, <1>4, <1>5 DEF RemoteTypeOK
<1>7. RemoteTypeOK'
  BY <1>1, <1>2, <1>6 DEF RemoteTypeOK
<1>8. ReadsFresh'
  <2>1. ASSUME new.result.value # NoValue PROVE unreadable[new.result.value] + new.ttl <= MaxAge
    <3>1. unreadable[new.result.value] = 0
      BY <1>1, <1>3, <1>5, <2>1 DEF ReadsFresh, Result
    <3>2. QED
      BY <1>5, <3>1, RemoteAssumption
  <2>2. ASSUME NEW x \in Readers, reader'[x].ttl > 0, reader'[x].result.value # NoValue
        PROVE unreadable[reader'[x].result.value] + reader'[x].ttl <= MaxAge
    BY <1>1, <1>6, <2>1, <2>2 DEF ReadsFresh
  <2>3. QED
    BY <1>1, <1>2, <2>2 DEF ReadsFresh, Readable
<1>9. CacheOK' /\ KeptAtMostMaxAge' /\ RelayOK'
  BY <1>1, <1>2 DEF RemoteInv, CacheOK, KeptAtMostMaxAge, RelayOK, RowHolds, LinkHolds
<1>10. QED
  BY <1>7, <1>8, <1>9 DEF RemoteInv

\* The cache keeps what a read carries for what is left of its time, or nothing.
LEMMA ReceiveStep == ASSUME RemoteInv, NEW q \in Readers, Receive(q) PROVE RemoteInv'
<1> DEFINE entry == [result |-> reader[q].result, ttl |-> reader[q].ttl, read |-> TRUE]
           unset == [reader[q] EXCEPT !.pc = "write", !.ttl = 0, !.result.value = NoValue]
           new == IF Reported(reader[q].result) # reader[q].status THEN unset ELSE NoReader
<1>1. RemoteTypeOK /\ RelayOK /\ ReadsFresh /\ reader[q] \in Reader
  BY DEF RemoteInv, RemoteTypeOK
<1>2. /\ cache' = Keep(entry) /\ reader' = [reader EXCEPT ![q] = new]
      /\ UNCHANGED <<link, stamp, owner, unreadable, relay, accept, net, row, handler, answers, remoteEdits, faults>>
  BY DEF Receive, KeptFor, responder, remoteCounters
<1>3. entry \in Cache /\ entry.ttl = reader[q].ttl /\ entry.result = reader[q].result
      /\ entry.ttl \in 0..MaxAge
  BY <1>1 DEF Cache, Reader
<1>4. new \in Reader /\ new.ttl = 0
  <2>1. unset \in Reader /\ unset.ttl = 0
    BY <1>1, RemoteNumbers DEF Reader, Result
  <2> HIDE DEF unset
  <2>2. QED
    BY <2>1, Resting0
<1> HIDE DEF entry, new
<1>5. \/ cache' = NoCache
      \/ cache' = entry /\ entry.ttl # 0
  BY <1>2 DEF Keep
<1>6. /\ reader' \in [Readers -> Reader]
      /\ \A x \in Readers : reader'[x] = reader[x] \/ reader'[x].ttl = 0
  BY <1>1, <1>2, <1>4 DEF RemoteTypeOK
<1>7. RemoteTypeOK'
  BY <1>1, <1>2, <1>3, <1>5, <1>6, Resting0 DEF RemoteTypeOK
<1>8. CacheOK' /\ KeptAtMostMaxAge'
  <2>1. CASE cache' = NoCache
    BY <2>1, Resting0 DEF CacheOK, KeptAtMostMaxAge
  <2>2. CASE cache' = entry /\ entry.ttl # 0
    <3>1. entry.ttl > 0
      BY <1>3, <2>2, RemoteAssumption
    <3>2. entry.result.value # NoValue => unreadable[entry.result.value] + entry.ttl <= MaxAge
      BY <1>1, <1>3, <3>1 DEF ReadsFresh
    <3>3. QED
      BY <1>2, <2>2, <3>1, <3>2 DEF CacheOK, KeptAtMostMaxAge
  <2>3. QED
    BY <1>5, <2>1, <2>2
<1>9. ReadsFresh'
  <2>1. ASSUME NEW x \in Readers, reader'[x].ttl > 0, reader'[x].result.value # NoValue
        PROVE unreadable[reader'[x].result.value] + reader'[x].ttl <= MaxAge
    BY <1>1, <1>6, <2>1 DEF ReadsFresh
  <2>2. QED
    BY <1>1, <1>2, <2>1 DEF ReadsFresh, Readable
<1>10. RelayOK'
  BY <1>1, <1>2 DEF RelayOK, RowHolds, LinkHolds
<1>11. QED
  BY <1>7, <1>8, <1>9, <1>10 DEF RemoteInv

(***************************************************************************)
(* Time and crashes.                                                       *)
(***************************************************************************)

LEMMA ResponderCrashStep == ASSUME RemoteInv, ResponderCrash PROVE RemoteInv'
<1>1. RemoteTypeOK /\ Faults
  BY DEF RemoteInv, ResponderCrash
<1>2. /\ owner' = NoOwner /\ relay' = NoRelay
      /\ UNCHANGED <<stamp, link, unreadable, accept, net, row, handler, reader, cache>>
  BY DEF ResponderCrash, requester
<1>3. faults' \in 0..MaxRemoteFaults /\ faults' # 0 /\ UNCHANGED <<answers, remoteEdits>>
  BY <1>1, RemoteBudgets
<1>4. RemoteTypeOK'
  BY <1>1, <1>2, <1>3, Resting0 DEF RemoteTypeOK
<1>5. ReadsFresh' /\ CacheOK' /\ KeptAtMostMaxAge'
  BY <1>2, ReadsElsewhere
<1>6. RelayOK'
  BY <1>3 DEF RelayOK
<1>7. QED
  BY <1>4, <1>5, <1>6 DEF RemoteInv

LEMMA RequesterCrashStep == ASSUME RemoteInv, RequesterCrash PROVE RemoteInv'
<1>1. RemoteTypeOK /\ Faults
  BY DEF RemoteInv, RequesterCrash
<1>2. /\ cache' = NoCache /\ handler' = [h \in Handlers |-> NoHandler]
      /\ reader' = [q \in Readers |-> NoReader]
      /\ UNCHANGED <<link, stamp, owner, unreadable, relay, net, row>>
  BY DEF RequesterCrash, responder
<1>3. faults' \in 0..MaxRemoteFaults /\ faults' # 0 /\ UNCHANGED <<answers, remoteEdits>>
  BY <1>1, RemoteBudgets
<1>4. accept' \in Accept
  BY <1>1 DEF RequesterCrash, RemoteTypeOK, Accept
<1>5. /\ reader' \in [Readers -> Reader] /\ handler' \in [Handlers -> Handler]
      /\ \A q \in Readers : reader'[q].ttl = 0
  BY <1>2, Resting0
<1>6. RemoteTypeOK'
  BY <1>1, <1>2, <1>3, <1>4, <1>5, Resting0 DEF RemoteTypeOK
<1>7. ReadsFresh' /\ CacheOK' /\ KeptAtMostMaxAge'
  BY <1>2, <1>5, Resting0, ReadsElsewhere
<1>8. RelayOK'
  BY <1>3 DEF RelayOK
<1>9. QED
  BY <1>6, <1>7, <1>8 DEF RemoteInv

\* A unit of time: what is held loses one and is out of reach for one more.
LEMMA Aged ==
  ASSUME NEW u \in 0..(MaxAge + 1), NEW u2, NEW ttl \in 0..MaxAge, NEW ttl2, ttl2 = Less(ttl), ttl2 > 0,
         u + ttl <= MaxAge, u2 = 0 \/ u2 = u + 1 \/ (u2 = MaxAge + 1 /\ u > MaxAge)
  PROVE u2 + ttl2 <= MaxAge
<1>1. ttl > 0 /\ ttl2 = ttl - 1
  BY DEF Less
<1>2. u <= MaxAge
  BY <1>1, RemoteAssumption
<1>3. QED
  BY <1>1, <1>2, RemoteAssumption

LEMMA RemoteTickStep == ASSUME RemoteInv, RemoteTick PROVE RemoteInv'
<1> DEFINE aged == [cache EXCEPT !.ttl = Less(cache.ttl)]
<1>1. RemoteTypeOK /\ RelayOK /\ ReadsFresh /\ CacheOK /\ KeptAtMostMaxAge /\ cache \in Cache
  BY DEF RemoteInv, RemoteTypeOK
<1>2. /\ cache' = Keep(aged)
      /\ reader' = [q \in Readers |-> [reader[q] EXCEPT !.ttl = Less(reader[q].ttl)]]
      /\ unreadable' = [v \in Values |-> IF Readable(link, v) THEN 0
                                     ELSE IF v \in Kept /\ unreadable[v] <= MaxAge
                                     THEN unreadable[v] + 1 ELSE MaxAge + 1]
      /\ UNCHANGED <<link, stamp, owner, relay, accept, net, row, handler, answers, remoteEdits, faults>>
  BY DEF RemoteTick, remoteCounters
<1>3. \A n \in 0..MaxAge : Less(n) \in 0..MaxAge
  BY RemoteAssumption DEF Less
<1>4. /\ aged \in Cache /\ aged.result = cache.result /\ aged.ttl = Less(cache.ttl)
      /\ (aged.read <=> cache.read) /\ cache.ttl \in 0..MaxAge
  BY <1>1, <1>3 DEF Cache
<1> HIDE DEF aged
<1>5. \A q \in Readers : /\ reader'[q] \in Reader /\ reader'[q].result = reader[q].result
                         /\ reader'[q].ttl = Less(reader[q].ttl) /\ reader[q].ttl \in 0..MaxAge
  <2>1. TAKE q \in Readers
  <2> DEFINE new == [reader[q] EXCEPT !.ttl = Less(reader[q].ttl)]
  <2>2. reader[q] \in Reader
    BY <1>1 DEF RemoteTypeOK
  <2>3. reader[q].ttl \in 0..MaxAge
    BY <2>2 DEF Reader
  <2>4. Less(reader[q].ttl) \in 0..MaxAge
    BY <1>3, <2>3
  <2>5. new \in Reader /\ new.result = reader[q].result /\ new.ttl = Less(reader[q].ttl)
    BY <2>2, <2>4 DEF Reader
  <2>6. reader'[q] = new
    BY <1>2
  <2> HIDE DEF new
  <2>7. QED
    BY <2>3, <2>5, <2>6
<1>6. reader' \in [Readers -> Reader]
  <2>1. reader' = [q \in Readers |-> reader'[q]]
    BY <1>2
  <2>2. QED
    BY <1>5, <2>1
<1>7. /\ \A v \in Values : Readable(link, v) => unreadable'[v] = 0
      /\ \A v \in Values : v \in Kept =>
           \/ unreadable'[v] = 0 \/ unreadable'[v] = unreadable[v] + 1
           \/ unreadable'[v] = MaxAge + 1 /\ unreadable[v] > MaxAge
  <2>1. \A v \in Values : unreadable[v] \in 0..(MaxAge + 1)
    BY <1>1 DEF RemoteTypeOK
  <2>2. \A v \in Values : unreadable[v] <= MaxAge \/ unreadable[v] > MaxAge
    BY <2>1, RemoteAssumption
  <2>3. QED
    BY <1>2, <2>2
<1>8. unreadable' \in [Values -> 0..(MaxAge + 1)]
  <2>1. \A v \in Values : unreadable'[v] \in 0..(MaxAge + 1)
    <3>1. TAKE v \in Values
    <3>2. unreadable[v] \in 0..(MaxAge + 1)
      BY <1>1 DEF RemoteTypeOK
    <3>3. unreadable'[v] \in {0, MaxAge + 1} \/ (unreadable'[v] = unreadable[v] + 1 /\ unreadable[v] <= MaxAge)
      BY <1>2
    <3>4. QED
      BY <3>2, <3>3, RemoteAssumption
  <2>2. unreadable' = [v \in Values |-> unreadable'[v]]
    BY <1>2
  <2>3. QED
    BY <2>1, <2>2
<1>9. cache' = NoCache \/ (cache' = aged /\ aged.ttl # 0)
  BY <1>2 DEF Keep
<1>10. RemoteTypeOK'
  BY <1>1, <1>2, <1>4, <1>6, <1>8, <1>9, Resting0 DEF RemoteTypeOK
<1>11. ReadsFresh'
  <2>1. ASSUME NEW q \in Readers, reader'[q].ttl > 0, reader'[q].result.value # NoValue
        PROVE unreadable'[reader'[q].result.value] + reader'[q].ttl <= MaxAge
    <3> DEFINE v == reader[q].result.value
    <3>1. v \in Values /\ v \in Kept
      BY <1>1 DEF RemoteTypeOK, Reader, Result, Kept
    <3>2. reader[q].ttl > 0
      BY <1>5, <2>1 DEF Less
    <3>3. unreadable[v] + reader[q].ttl <= MaxAge
      BY <1>1, <1>5, <2>1, <3>2 DEF ReadsFresh
    <3>4. unreadable[v] \in 0..(MaxAge + 1)
      BY <1>1, <3>1 DEF RemoteTypeOK
    <3>5. unreadable'[v] + reader'[q].ttl <= MaxAge
      BY <1>5, <1>7, <2>1, <3>1, <3>3, <3>4, Aged
    <3>6. QED
      BY <1>5, <3>5
  <2>2. QED
    BY <1>2, <1>7, <2>1 DEF ReadsFresh
<1>12. CacheOK' /\ KeptAtMostMaxAge'
  <2>1. CASE cache' = NoCache
    BY <2>1, Resting0 DEF CacheOK, KeptAtMostMaxAge
  <2>2. CASE cache' = aged /\ aged.ttl # 0
    <3> DEFINE v == cache.result.value
    <3>1. aged.ttl > 0
      BY <1>3, <1>4, <2>2, RemoteAssumption
    <3>2. ASSUME cache.read, v # NoValue PROVE unreadable'[v] + aged.ttl <= MaxAge
      <4>1. v \in Values /\ v \in Kept
        BY <1>1, <3>2 DEF Cache, Result, Kept
      <4>2. unreadable[v] + cache.ttl <= MaxAge
        BY <1>1, <3>2 DEF KeptAtMostMaxAge
      <4>3. unreadable[v] \in 0..(MaxAge + 1)
        BY <1>1, <4>1 DEF RemoteTypeOK
      <4>4. QED
        BY <1>4, <1>7, <3>1, <4>1, <4>2, <4>3, Aged
    <3>3. QED
      BY <1>4, <2>2, <3>1, <3>2 DEF CacheOK, KeptAtMostMaxAge
  <2>3. QED
    BY <1>9, <2>1, <2>2
<1>13. RelayOK'
  BY <1>1, <1>2 DEF RelayOK, RowHolds, LinkHolds
<1>14. QED
  BY <1>10, <1>11, <1>12, <1>13 DEF RemoteInv

LEMMA RemoteStep == RemoteInv /\ [RemoteNext]_remoteVars => RemoteInv'
<1> SUFFICES ASSUME RemoteInv, [RemoteNext]_remoteVars PROVE RemoteInv'
  OBVIOUS
<1>1. CASE UNCHANGED remoteVars
  BY <1>1 DEF remoteVars, RemoteInv, RemoteTypeOK, ReadsFresh, Readable, CacheOK, KeptAtMostMaxAge,
     RelayOK, RowHolds, LinkHolds
<1>2. CASE SetStatus \/ EditEntry \/ AnnounceRemote \/ StampTicks
  BY <1>2, OwnersStep, AnnouncingStep
<1>3. CASE SaveLink \/ Settling \/ TimesOut
  BY <1>3, SaveLinkStep, RelayingStep, PostStep, UndoStep, TimesOutStep DEF Settling
<1>4. CASE Accepting
  BY <1>4, AskOnceStep, SaveRowStep, RememberStep DEF Accepting
<1>5. CASE \E h \in Handlers : Apply(h) \/ \E e \in net : Deliver(h, e)
  BY <1>5, ApplyStep, DeliverStep
<1>6. CASE \E q \in Readers : Reading(q) \/ Unreachable(q)
  BY <1>6, AskingStep, AnswerStep, ReceiveStep, WriteBackStep DEF Reading
<1>7. CASE LoseEvent \/ RemoteTick \/ ResponderCrash \/ RequesterCrash
  BY <1>7, LoseEventStep, RemoteTickStep, ResponderCrashStep, RequesterCrashStep
<1>8. QED
  BY <1>1, <1>2, <1>3, <1>4, <1>5, <1>6, <1>7 DEF RemoteNext

\* The invariant of one answer on two servers: the relay and its undo, the reads under way,
\* the cache, and events in any order.
THEOREM RemoteInvariant == RemoteSpec => []RemoteInv
BY RemoteStarts, RemoteStep, PTL DEF RemoteSpec

\* While nothing times out or crashes, the requester holds the token of the link whenever no
\* answer is under way (updateRemoteGrant, undoRemoteLink).
THEOREM TokensAgreeHolds == RemoteSpec => []TokensAgree
<1>1. RemoteInv => TokensAgree
  BY DEF RemoteInv, RelayOK, RowHolds, TokensAgree, LinkStatuses, Live
<1>2. QED
  BY <1>1, RemoteInvariant, PTL

\* A value that a read put in the cache could still be read at most maxAge ago, whatever
\* happened between the call and its answer (ResolveRemoteGrants).
THEOREM KeptAtMostMaxAgeHolds == RemoteSpec => []KeptAtMostMaxAge
<1>1. RemoteInv => KeptAtMostMaxAge
  BY DEF RemoteInv
<1>2. QED
  BY <1>1, RemoteInvariant, PTL

(***************************************************************************)
(* Webhooks                                                                *)
(***************************************************************************)

\* A pending delivery has attempts left, and no more of an event's are used up than were
\* refused since it was queued.
RetriesOK ==
  /\ \A r \in Rows : delivery[r].status = "pending" => delivery[r].attempts < MaxHookAttempts
  /\ \A r \in Deliveries : delivery[r].attempts <= refusals[r]

\* The jobs that can settle a delivery.
Automatic(j) == ~Manual(j) /\ job[j].pc \in {"queued", "posting", "posted"}

\* An automatic job has attempts left and works on the row it is named after; one under way
\* on an event has the row's place in the count, and the event has not been given up.
JobsOK ==
  \A j \in Jobs :
    /\ ~Manual(j) => /\ job[j].attempts < MaxHookAttempts
                     /\ job[j].pc # "idle" => job[j].row = j[2]
    /\ Automatic(j) /\ job[j].row \in Deliveries =>
         /\ job[j].attempts <= refusals[job[j].row]
         /\ delivery[job[j].row].status # "failed"

\* The inductive invariant.
WebhooksInv == WebhooksTypeOK /\ RetriesOK /\ JobsOK /\ GivenUpAfterAll

LEMMA HookKinds ==
  /\ \A j \in Jobs : ~Manual(j) => j[2] \in Rows
  /\ \A j \in Jobs : ~Manual(j) /\ j[2] \in Deliveries => j = <<"worker", j[2]>>
  /\ \A t \in Tests : <<"test", t>> \in Jobs /\ ~Manual(<<"test", t>>)
  /\ \A p \in Resends : <<"resend", p>> \in Jobs /\ Manual(<<"resend", p>>)
  /\ \A r \in Rows : <<"worker", r>> \in Jobs /\ ~Manual(<<"worker", r>>)
<1>1. \A j \in Jobs : ~Manual(j) => j[2] \in Rows
  BY DEF Jobs, Manual, Rows
<1>2. \A j \in Jobs : ~Manual(j) /\ j[2] \in Deliveries => j = <<"worker", j[2]>>
  BY WebhooksAssumption DEF Jobs, Manual, Rows
<1>3. \A t \in Tests : <<"test", t>> \in Jobs /\ ~Manual(<<"test", t>>)
  BY DEF Jobs, Manual
<1>4. \A p \in Resends : <<"resend", p>> \in Jobs /\ Manual(<<"resend", p>>)
  BY DEF Jobs, Manual
<1>5. \A r \in Rows : <<"worker", r>> \in Jobs /\ ~Manual(<<"worker", r>>)
  BY DEF Jobs, Manual
<1>6. QED
  BY <1>1, <1>2, <1>3, <1>4, <1>5

LEMMA HookNumbers ==
  /\ 0 \in 0..MaxHookAttempts /\ 0 < MaxHookAttempts /\ 0 \in 0..Hour /\ 1 \in 0..Hour /\ Hour \in 0..Hour
  /\ CutOff \in Nat /\ 0 \in 0..CutOff /\ 1 \in 0..CutOff /\ 0 \in 0..MaxHookChanges
BY WebhooksAssumption DEF CutOff

LEMMA NoHookRow == NoDelivery \in DeliveryRow /\ NoDelivery.status = "none" /\ NoDelivery.attempts = 0
BY HookNumbers DEF NoDelivery, DeliveryRow, DeliveryStatuses

LEMMA PendingRow ==
  ASSUME NEW new, new = [NoDelivery EXCEPT !.status = "pending"]
  PROVE new \in DeliveryRow /\ new.status = "pending" /\ new.attempts = 0
BY HookNumbers DEF NoDelivery, DeliveryRow, DeliveryStatuses

LEMMA NoHookJob == NoJob \in Job /\ NoJob.pc = "idle" /\ NoJob.attempts = 0
<1>1. (CHOOSE r \in Rows : TRUE) \in Rows
  BY WebhooksAssumption DEF Rows
<1>2. QED
  BY <1>1, HookNumbers DEF NoJob, Job, DeliveryStatuses, Results

LEMMA HooksInit == WebhooksInit => WebhooksInv
<1> SUFFICES ASSUME WebhooksInit PROVE WebhooksInv
  OBVIOUS
<1>1. /\ endpoint = [exists |-> TRUE, enabled |-> TRUE, failing |-> 0]
      /\ delivery = [r \in Rows |-> NoDelivery] /\ job = [j \in Jobs |-> NoJob]
      /\ hookWorker = "query" /\ kicked = FALSE /\ hookTicked = FALSE
      /\ refusals = [r \in Deliveries |-> 0] /\ excused = [r \in Deliveries |-> FALSE]
      /\ posts = [t \in Tests |-> 0] /\ sinceFailing = FALSE /\ hookChanges = 0
  BY DEF WebhooksInit
<1>2. endpoint \in Endpoint
  BY <1>1, HookNumbers DEF Endpoint
<1>3. WebhooksTypeOK
  <2>1. delivery \in [Rows -> DeliveryRow] /\ job \in [Jobs -> Job]
    BY <1>1, NoHookRow, NoHookJob
  <2>2. refusals \in [Deliveries -> 0..MaxHookAttempts] /\ excused \in [Deliveries -> BOOLEAN]
    BY <1>1, HookNumbers
  <2>3. posts \in [Tests -> 0..2] /\ hookChanges \in 0..MaxHookChanges
    BY <1>1, HookNumbers
  <2>4. QED
    BY <1>1, <1>2, <2>1, <2>2, <2>3 DEF WebhooksTypeOK
<1>4. RetriesOK
  <2>1. \A r \in Rows : delivery[r].status = "none" /\ delivery[r].attempts = 0
    BY <1>1, NoHookRow
  <2>2. Deliveries \subseteq Rows
    BY DEF Rows
  <2>3. QED
    BY <1>1, <2>1, <2>2 DEF RetriesOK
<1>5. JobsOK
  BY <1>1, NoHookJob, HookNumbers DEF JobsOK, Automatic
<1>6. GivenUpAfterAll
  BY <1>1, NoHookRow DEF GivenUpAfterAll, Rows
<1>7. QED
  BY <1>3, <1>4, <1>5, <1>6 DEF WebhooksInv

LEMMA HookBudget ==
  WebhooksTypeOK /\ hookChanges < MaxHookChanges /\ hookChanges' = hookChanges + 1 =>
    hookChanges' \in 0..MaxHookChanges
BY WebhooksAssumption DEF WebhooksTypeOK

\* Steps of the endpoint, the clock and the worker's loop that give nothing up.
LEMMA HooksElsewhere ==
  ASSUME WebhooksInv, WebhooksTypeOK',
         \A r \in Rows : /\ delivery'[r].attempts = delivery[r].attempts
                         /\ delivery'[r].status = delivery[r].status,
         UNCHANGED <<job, refusals, excused>>
  PROVE WebhooksInv'
<1>1. Deliveries \subseteq Rows
  BY DEF Rows
<1>2. RetriesOK'
  BY <1>1 DEF WebhooksInv, RetriesOK
<1>3. JobsOK'
  BY <1>1 DEF WebhooksInv, JobsOK, Automatic
<1>4. GivenUpAfterAll'
  BY <1>1 DEF WebhooksInv, GivenUpAfterAll
<1>5. QED
  BY <1>2, <1>3, <1>4 DEF WebhooksInv

LEMMA EndpointStep ==
  ASSUME WebhooksInv,
         \/ \E b \in BOOLEAN : UpdateWebhookEndpoint(b)
         \/ DisableFailingEndpoint
         \/ TakeWebhookKick \/ TakeWebhookTick \/ BatchDone
  PROVE WebhooksInv'
<1>1. WebhooksTypeOK /\ endpoint \in Endpoint
  BY DEF WebhooksInv, WebhooksTypeOK
<1>2. endpoint' \in Endpoint
  <2>1. ASSUME NEW b \in BOOLEAN, UpdateWebhookEndpoint(b) PROVE endpoint' \in Endpoint
    <3> DEFINE failing == IF b THEN 0 ELSE endpoint.failing
               new == [endpoint EXCEPT !.enabled = b, !.failing = failing]
    <3>1. failing \in 0..CutOff
      BY <1>1, HookNumbers DEF Endpoint
    <3> HIDE DEF failing
    <3>2. new \in Endpoint
      BY <1>1, <3>1 DEF Endpoint
    <3> HIDE DEF new
    <3>3. endpoint' = new
      BY <2>1 DEF UpdateWebhookEndpoint, new, failing
    <3>4. QED
      BY <3>2, <3>3
  <2>2. CASE DisableFailingEndpoint
    <3>1. [endpoint EXCEPT !.enabled = FALSE] \in Endpoint
      BY <1>1 DEF Endpoint
    <3>2. QED
      BY <1>1, <2>2, <3>1 DEF DisableFailingEndpoint
  <2>3. CASE TakeWebhookKick \/ TakeWebhookTick \/ BatchDone
    BY <1>1, <2>3 DEF TakeWebhookKick, TakeWebhookTick, BatchDone, workerFrame
  <2>4. QED
    BY <2>1, <2>2, <2>3
<1>3. hookChanges' \in 0..MaxHookChanges
  BY <1>1, HookBudget DEF UpdateWebhookEndpoint, DisableFailingEndpoint, TakeWebhookKick,
     TakeWebhookTick, BatchDone, workerFrame, WebhooksTypeOK
<1>4. hookWorker' \in {"query", "last", "full", "wait", "disable"}
  BY <1>1 DEF UpdateWebhookEndpoint, DisableFailingEndpoint, TakeWebhookKick, TakeWebhookTick,
     BatchDone, workerFrame, WebhooksTypeOK
<1>5. /\ UNCHANGED <<delivery, job, history>> /\ kicked' \in BOOLEAN /\ hookTicked' \in BOOLEAN
  BY <1>1 DEF UpdateWebhookEndpoint, DisableFailingEndpoint, TakeWebhookKick, TakeWebhookTick,
     BatchDone, workerFrame, WebhooksTypeOK
<1>6. WebhooksTypeOK'
  BY <1>1, <1>2, <1>3, <1>4, <1>5 DEF WebhooksTypeOK, history
<1>7. QED
  BY <1>5, <1>6, HooksElsewhere DEF history

LEMMA HookTickStep == ASSUME WebhooksInv, WebhookTick PROVE WebhooksInv'
<1>1. WebhooksTypeOK /\ endpoint \in Endpoint
  BY DEF WebhooksInv, WebhooksTypeOK
<1>2. /\ hookTicked' = TRUE
      /\ delivery' = [r \in Rows |->
           [delivery[r] EXCEPT !.wait = IF @ > 0 THEN @ - 1 ELSE @]]
      /\ endpoint' = [endpoint EXCEPT !.failing = IF @ \in 1..(CutOff - 1) THEN @ + 1 ELSE @]
      /\ UNCHANGED <<job, hookWorker, kicked, history, hookChanges>>
  BY DEF WebhookTick
<1>3. \A r \in Rows : /\ delivery'[r] \in DeliveryRow /\ delivery'[r].status = delivery[r].status
                      /\ delivery'[r].attempts = delivery[r].attempts
  <2>1. TAKE r \in Rows
  <2> DEFINE old == delivery[r]
             wait == IF old.wait > 0 THEN old.wait - 1 ELSE old.wait
             new == [old EXCEPT !.wait = wait]
  <2>2. delivery'[r] = new
    BY <1>2
  <2>3. old \in DeliveryRow
    BY <1>1 DEF WebhooksTypeOK
  <2>4. old.wait \in 0..Hour
    BY <2>3 DEF DeliveryRow
  <2>5. wait \in 0..Hour
    BY <2>4, WebhooksAssumption
  <2> HIDE DEF wait, old
  <2>6. new \in DeliveryRow /\ new.status = old.status /\ new.attempts = old.attempts
    BY <2>3, <2>5 DEF DeliveryRow
  <2> HIDE DEF new
  <2>7. QED
    BY <2>2, <2>6 DEF old
<1>4. delivery' \in [Rows -> DeliveryRow]
  <2>1. delivery' = [r \in Rows |-> delivery'[r]]
    BY <1>2
  <2>2. QED
    BY <1>3, <2>1
<1>5. endpoint' \in Endpoint
  <2> DEFINE failing == IF endpoint.failing \in 1..(CutOff - 1) THEN endpoint.failing + 1 ELSE endpoint.failing
  <2>1. endpoint.failing \in 0..CutOff
    BY <1>1 DEF Endpoint
  <2>2. failing \in 0..CutOff
    BY <2>1, HookNumbers
  <2>3. endpoint' = [endpoint EXCEPT !.failing = failing]
    BY <1>2
  <2> HIDE DEF failing
  <2>4. QED
    BY <1>1, <2>2, <2>3 DEF Endpoint
<1>6. WebhooksTypeOK'
  BY <1>1, <1>2, <1>4, <1>5 DEF WebhooksTypeOK, history
<1>7. QED
  BY <1>2, <1>3, <1>6, HooksElsewhere DEF history

(***************************************************************************)
(* Queueing, resends and deletion.                                         *)
(***************************************************************************)

LEMMA QueueStep ==
  ASSUME WebhooksInv, NEW r \in Rows, Queued(r), WebhooksTypeOK', delivery[r].status = "none",
         UNCHANGED <<refusals, excused>>,
         \A j \in Jobs : job'[j] = job[j] \/ (job'[j].row \notin Deliveries /\ job'[j].row = j[2]
                                               /\ job'[j].attempts = 0)
  PROVE WebhooksInv'
<1> DEFINE new == [NoDelivery EXCEPT !.status = "pending"]
<1>1. new \in DeliveryRow /\ new.status = "pending" /\ new.attempts = 0
  BY PendingRow
<1>2. delivery' = [delivery EXCEPT ![r] = new]
  BY DEF Queued
<1> HIDE DEF new
<1>3. delivery'[r] = new /\ \A x \in Rows : x # r => delivery'[x] = delivery[x]
  BY <1>2 DEF WebhooksInv, WebhooksTypeOK
<1>4. Deliveries \subseteq Rows /\ refusals \in [Deliveries -> 0..MaxHookAttempts]
  BY DEF Rows, WebhooksInv, WebhooksTypeOK
<1>5. RetriesOK'
  <2>1. \A x \in Rows : delivery'[x].status = "pending" => delivery'[x].attempts < MaxHookAttempts
    BY <1>1, <1>3, HookNumbers DEF WebhooksInv, RetriesOK
  <2>2. \A x \in Deliveries : 0 <= refusals[x]
    BY <1>4, WebhooksAssumption
  <2>3. \A x \in Deliveries : delivery'[x].attempts <= refusals[x]
    BY <1>1, <1>3, <1>4, <2>2 DEF WebhooksInv, RetriesOK
  <2>4. QED
    BY <2>1, <2>3 DEF RetriesOK
<1>6. JobsOK'
  <2>1. SUFFICES ASSUME NEW j \in Jobs
                 PROVE /\ ~Manual(j) => /\ job'[j].attempts < MaxHookAttempts
                                        /\ job'[j].pc # "idle" => job'[j].row = j[2]
                       /\ Automatic(j)' /\ job'[j].row \in Deliveries =>
                            /\ job'[j].attempts <= refusals[job'[j].row]
                            /\ delivery'[job'[j].row].status # "failed"
    BY DEF JobsOK
  <2>2. CASE job'[j] = job[j]
    BY <1>1, <1>3, <1>4, <2>2 DEF WebhooksInv, JobsOK, Automatic
  <2>3. CASE job'[j] # job[j]
    BY <2>3, HookNumbers
  <2>4. QED
    BY <2>2, <2>3
<1>7. GivenUpAfterAll'
  BY <1>1, <1>3, <1>4 DEF WebhooksInv, GivenUpAfterAll
<1>8. QED
  BY <1>5, <1>6, <1>7 DEF WebhooksInv

LEMMA QueuedType ==
  ASSUME WebhooksTypeOK, NEW r \in Rows, Queued(r)
  PROVE delivery' \in [Rows -> DeliveryRow] /\ kicked' \in BOOLEAN
<1> DEFINE new == [NoDelivery EXCEPT !.status = "pending"]
<1>1. new \in DeliveryRow
  BY PendingRow
<1>2. delivery' = [delivery EXCEPT ![r] = new] /\ kicked' = TRUE
  BY DEF Queued
<1> HIDE DEF new
<1>3. QED
  BY <1>1, <1>2 DEF WebhooksTypeOK

LEMMA EmitStep == ASSUME WebhooksInv, NEW r \in Rows, EmitWebhookEvent(r) PROVE WebhooksInv'
<1>1. WebhooksTypeOK
  BY DEF WebhooksInv
<1>2. /\ Queued(r) /\ delivery[r].status = "none"
      /\ UNCHANGED <<endpoint, job, hookWorker, hookTicked, history, hookChanges>>
  BY DEF EmitWebhookEvent
<1>3. WebhooksTypeOK'
  BY <1>1, <1>2, QueuedType DEF WebhooksTypeOK, history
<1>4. QED
  BY <1>2, <1>3, QueueStep DEF history

LEMMA SendTestStep == ASSUME WebhooksInv, NEW t \in Tests, SendWebhookTest(t) PROVE WebhooksInv'
<1> DEFINE j == <<"test", t>>
           new == [NoJob EXCEPT !.pc = "created", !.row = t, !.status = "pending"]
<1>1. WebhooksTypeOK
  BY DEF WebhooksInv
<1>2. t \in Rows /\ t \notin Deliveries /\ j \in Jobs /\ j[2] = t
  BY WebhooksAssumption, HookKinds DEF Rows
<1>3. /\ Queued(t) /\ delivery[t].status = "none"
      /\ job' = [job EXCEPT ![j] = new]
      /\ UNCHANGED <<endpoint, hookWorker, hookTicked, history>>
  BY DEF SendWebhookTest
<1>4. new \in Job /\ new.row = t /\ new.attempts = 0
  BY <1>2, NoHookJob DEF Job, DeliveryStatuses
<1> HIDE DEF new, j
<1>5. /\ job' \in [Jobs -> Job] /\ job'[j] = new
      /\ \A x \in Jobs : x # j => job'[x] = job[x]
  BY <1>1, <1>2, <1>3, <1>4 DEF WebhooksTypeOK
<1>6. hookChanges' \in 0..MaxHookChanges
  BY <1>1, HookBudget DEF SendWebhookTest
<1>7. WebhooksTypeOK'
  BY <1>1, <1>2, <1>3, <1>5, <1>6, QueuedType DEF WebhooksTypeOK, history
<1>8. \A x \in Jobs : job'[x] = job[x] \/ (job'[x].row \notin Deliveries /\ job'[x].row = x[2]
                                           /\ job'[x].attempts = 0)
  BY <1>2, <1>4, <1>5
<1>9. QED
  BY <1>2, <1>3, <1>7, <1>8, QueueStep DEF history

\* Steps of one job and the rows, the count of refusals left alone.
LEMMA JobsElsewhere ==
  ASSUME WebhooksInv, WebhooksTypeOK',
         \A r \in Rows : /\ delivery'[r].attempts = delivery[r].attempts
                         /\ delivery'[r].status = delivery[r].status,
         UNCHANGED <<refusals, excused>>,
         \A j \in Jobs : \/ job'[j] = job[j]
                         \/ Manual(j)
                         \/ /\ job'[j].attempts < MaxHookAttempts
                            /\ job'[j].pc # "idle" => job'[j].row = j[2]
                            /\ Automatic(j)' /\ j[2] \in Deliveries =>
                                 /\ job'[j].attempts <= refusals[j[2]]
                                 /\ delivery[j[2]].status # "failed"
  PROVE WebhooksInv'
<1>1. Deliveries \subseteq Rows
  BY DEF Rows
<1>2. RetriesOK' /\ GivenUpAfterAll'
  BY <1>1 DEF WebhooksInv, RetriesOK, GivenUpAfterAll
<1>3. JobsOK'
  <2>1. SUFFICES ASSUME NEW j \in Jobs
                 PROVE /\ ~Manual(j) => /\ job'[j].attempts < MaxHookAttempts
                                        /\ job'[j].pc # "idle" => job'[j].row = j[2]
                       /\ Automatic(j)' /\ job'[j].row \in Deliveries =>
                            /\ job'[j].attempts <= refusals[job'[j].row]
                            /\ delivery'[job'[j].row].status # "failed"
    BY DEF JobsOK
  <2>2. CASE job'[j] = job[j]
    BY <1>1, <2>2 DEF WebhooksInv, JobsOK, Automatic
  <2>3. CASE Manual(j)
    BY <2>3 DEF Automatic
  <2>4. CASE ~Manual(j) /\ job'[j] # job[j]
    BY <1>1, <2>4 DEF Automatic
  <2>5. QED
    BY <2>2, <2>3, <2>4
<1>4. QED
  BY <1>2, <1>3 DEF WebhooksInv

LEMMA PostponeStep == ASSUME WebhooksInv, NEW t \in Tests, PostponeTest(t) PROVE WebhooksInv'
<1> DEFINE j == <<"test", t>>
           new == [job[j] EXCEPT !.pc = "queued"]
           later == [delivery[t] EXCEPT !.wait = Hour]
<1>1. WebhooksTypeOK /\ JobsOK
  BY DEF WebhooksInv
<1>2. t \in Rows /\ t \notin Deliveries /\ j \in Jobs /\ j[2] = t /\ ~Manual(j)
  BY WebhooksAssumption, HookKinds DEF Rows
<1>3. /\ job[j].pc = "created"
      /\ job' = [job EXCEPT ![j] = new]
      /\ delivery' = IF delivery[t].status = "none" THEN delivery ELSE [delivery EXCEPT ![t] = later]
      /\ UNCHANGED <<endpoint, hookWorker, kicked, hookTicked, history, hookChanges>>
  BY DEF PostponeTest
<1>4. job[j] \in Job /\ delivery[t] \in DeliveryRow
  BY <1>1, <1>2 DEF WebhooksTypeOK
<1>5. new \in Job /\ new.row = job[j].row /\ new.attempts = job[j].attempts /\ new.pc = "queued"
  BY <1>4 DEF Job
<1>6. later \in DeliveryRow /\ later.status = delivery[t].status /\ later.attempts = delivery[t].attempts
  BY <1>4, HookNumbers DEF DeliveryRow
<1> HIDE DEF new, later, j
<1>7. /\ job' \in [Jobs -> Job] /\ job'[j] = new
      /\ \A x \in Jobs : x # j => job'[x] = job[x]
  BY <1>1, <1>2, <1>3, <1>5 DEF WebhooksTypeOK
<1>8. /\ delivery' \in [Rows -> DeliveryRow]
      /\ \A r \in Rows : /\ delivery'[r].attempts = delivery[r].attempts
                          /\ delivery'[r].status = delivery[r].status
  BY <1>1, <1>2, <1>3, <1>6 DEF WebhooksTypeOK
<1>9. WebhooksTypeOK'
  BY <1>1, <1>3, <1>7, <1>8 DEF WebhooksTypeOK, history
<1>10. job[j].attempts < MaxHookAttempts /\ job[j].row = j[2]
  BY <1>1, <1>2, <1>3 DEF JobsOK
<1>11. \A x \in Jobs : \/ job'[x] = job[x]
                       \/ Manual(x)
                       \/ /\ job'[x].attempts < MaxHookAttempts
                          /\ job'[x].pc # "idle" => job'[x].row = x[2]
                          /\ Automatic(x)' /\ x[2] \in Deliveries =>
                               /\ job'[x].attempts <= refusals[x[2]]
                               /\ delivery[x[2]].status # "failed"
  BY <1>2, <1>5, <1>7, <1>10
<1>12. QED
  BY <1>3, <1>8, <1>9, <1>11, JobsElsewhere DEF history

LEMMA CopiedJob ==
  ASSUME WebhooksTypeOK, NEW r \in Rows, NEW copy, copy = Copied(r, "queued")
  PROVE /\ copy \in Job /\ copy.pc = "queued" /\ copy.row = r
        /\ copy.attempts = delivery[r].attempts
<1>1. delivery[r].status \in DeliveryStatuses /\ delivery[r].attempts \in 0..MaxHookAttempts
  BY DEF WebhooksTypeOK, DeliveryRow
<1>2. QED
  BY <1>1, NoHookJob DEF Copied, Job

LEMMA ResendStep == ASSUME WebhooksInv, NEW p \in Resends, NEW r \in Rows, Resend(p, r)
                    PROVE WebhooksInv'
<1> DEFINE j == <<"resend", p>>
           new == Copied(r, "queued")
<1>1. WebhooksTypeOK
  BY DEF WebhooksInv
<1>2. j \in Jobs /\ Manual(j)
  BY HookKinds
<1>3. /\ job' = [job EXCEPT ![j] = new] /\ hookChanges' \in 0..MaxHookChanges
      /\ UNCHANGED <<endpoint, delivery, hookWorker, kicked, hookTicked, history>>
  BY <1>1, HookBudget DEF Resend
<1>4. new \in Job
  BY <1>1, CopiedJob
<1> HIDE DEF new, j
<1>5. job' \in [Jobs -> Job] /\ \A x \in Jobs : x # j => job'[x] = job[x]
  BY <1>1, <1>2, <1>3, <1>4 DEF WebhooksTypeOK
<1>6. WebhooksTypeOK'
  BY <1>1, <1>3, <1>5 DEF WebhooksTypeOK, history
<1>7. QED
  BY <1>2, <1>3, <1>5, <1>6, JobsElsewhere DEF history

LEMMA QueryDueStep == ASSUME WebhooksInv, QueryDue PROVE WebhooksInv'
<1> DEFINE due == {r \in Rows : WebhookDue(r)}
<1>1. WebhooksTypeOK /\ RetriesOK
  BY DEF WebhooksInv
<1>2. /\ UNCHANGED <<endpoint, delivery, kicked, hookTicked, history, hookChanges>>
      /\ hookWorker' \in {"query", "last", "full", "wait", "disable"}
  BY DEF QueryDue, workerFrame
<1>3. \/ UNCHANGED job
      \/ \E batch \in SUBSET due :
           job' = [j \in Jobs |-> IF j[1] = "worker" /\ j[2] \in batch
                                 THEN Copied(j[2], "queued") ELSE job[j]]
  BY DEF QueryDue
<1>4. CASE UNCHANGED job
  <2>1. WebhooksTypeOK'
    BY <1>1, <1>2, <1>4 DEF WebhooksTypeOK, history
  <2>2. QED
    BY <1>2, <1>4, <2>1, HooksElsewhere DEF history
<1>5. ASSUME NEW batch \in SUBSET due,
             job' = [j \in Jobs |-> IF j[1] = "worker" /\ j[2] \in batch
                                   THEN Copied(j[2], "queued") ELSE job[j]]
      PROVE WebhooksInv'
  <2>1. batch \subseteq Rows /\ \A r \in batch : delivery[r].status = "pending"
    BY DEF WebhookDue
  <2>2. ASSUME NEW j \in Jobs
        PROVE job'[j] \in Job /\ (job'[j] # job[j] =>
                /\ job'[j].attempts < MaxHookAttempts /\ job'[j].row = j[2]
                /\ j[2] \in Deliveries => /\ job'[j].attempts <= refusals[j[2]]
                                          /\ delivery[j[2]].status # "failed")
    <3>1. CASE j[1] = "worker" /\ j[2] \in batch
      <4> DEFINE copy == Copied(j[2], "queued")
      <4>1. job'[j] = copy
        BY <1>5, <3>1
      <4>2. copy \in Job /\ copy.row = j[2] /\ copy.attempts = delivery[j[2]].attempts
        BY <1>1, <2>1, <3>1, CopiedJob
      <4> HIDE DEF copy
      <4>3. delivery[j[2]].status = "pending" /\ delivery[j[2]].attempts < MaxHookAttempts
        BY <1>1, <2>1, <3>1 DEF RetriesOK
      <4>4. j[2] \in Deliveries => delivery[j[2]].attempts <= refusals[j[2]]
        BY <1>1 DEF RetriesOK
      <4>5. QED
        BY <4>1, <4>2, <4>3, <4>4
    <3>2. CASE ~(j[1] = "worker" /\ j[2] \in batch)
      BY <1>1, <1>5, <3>2 DEF WebhooksTypeOK
    <3>3. QED
      BY <3>1, <3>2
  <2>3. job' \in [Jobs -> Job]
    <3>1. job' = [j \in Jobs |-> job'[j]]
      BY <1>5
    <3>2. QED
      BY <2>2, <3>1
  <2>4. WebhooksTypeOK'
    BY <1>1, <1>2, <2>3 DEF WebhooksTypeOK, history
  <2>5. QED
    BY <1>2, <2>2, <2>4, JobsElsewhere DEF history
<1>6. QED
  BY <1>3, <1>4, <1>5

\* What a restart or the deletion of the endpoint leaves.
LEMMA RestartStep == ASSUME WebhooksInv, RestartWebhooks PROVE WebhooksInv'
<1>1. WebhooksTypeOK
  BY DEF WebhooksInv
<1>2. /\ job' = [j \in Jobs |-> NoJob] /\ UNCHANGED <<endpoint, delivery, history>>
      /\ hookWorker' = "query" /\ kicked' = FALSE /\ hookTicked' = FALSE
      /\ hookChanges' \in 0..MaxHookChanges
  BY <1>1, HookBudget DEF RestartWebhooks
<1>3. job' \in [Jobs -> Job] /\ \A j \in Jobs : job'[j].pc = "idle" /\ job'[j].attempts = 0
  BY <1>2, NoHookJob
<1>4. WebhooksTypeOK'
  BY <1>1, <1>2, <1>3 DEF WebhooksTypeOK, history
<1>5. QED
  BY <1>2, <1>3, <1>4, HookNumbers, JobsElsewhere DEF history, Automatic

LEMMA DeleteEndpointStep == ASSUME WebhooksInv, DeleteWebhookEndpoint PROVE WebhooksInv'
<1>1. WebhooksTypeOK
  BY DEF WebhooksInv
<1>2. /\ endpoint' = [endpoint EXCEPT !.exists = FALSE]
      /\ delivery' = [r \in Rows |-> NoDelivery]
      /\ UNCHANGED <<job, hookWorker, kicked, hookTicked, history>>
      /\ hookChanges' \in 0..MaxHookChanges
  BY <1>1, HookBudget DEF DeleteWebhookEndpoint
<1>3. \A r \in Rows : delivery'[r].status = "none" /\ delivery'[r].attempts = 0
  BY <1>2, NoHookRow
<1>4. endpoint' \in Endpoint
  BY <1>1, <1>2 DEF WebhooksTypeOK, Endpoint
<1>5. WebhooksTypeOK'
  BY <1>1, <1>2, <1>4, NoHookRow DEF WebhooksTypeOK, history
<1>6. Deliveries \subseteq Rows
  BY DEF Rows
<1>7. \A r \in Deliveries : 0 <= refusals[r]
  BY <1>1, WebhooksAssumption DEF WebhooksTypeOK
<1>8. RetriesOK' /\ GivenUpAfterAll'
  BY <1>2, <1>3, <1>6, <1>7 DEF RetriesOK, GivenUpAfterAll, history
<1>9. JobsOK'
  BY <1>2, <1>3, <1>6 DEF WebhooksInv, JobsOK, Automatic, history
<1>10. QED
  BY <1>5, <1>8, <1>9 DEF WebhooksInv

LEMMA ReplayStep == ASSUME WebhooksInv, ReplayWebhookDeliveries PROVE WebhooksInv'
<1> DEFINE failed == {r \in Rows : delivery[r].status = "failed"}
           new == [NoDelivery EXCEPT !.status = "pending"]
<1>1. WebhooksTypeOK /\ RetriesOK /\ JobsOK /\ GivenUpAfterAll
  BY DEF WebhooksInv
<1>2. /\ delivery' = [r \in Rows |-> IF r \in failed THEN new ELSE delivery[r]]
      /\ refusals' = [r \in Deliveries |-> IF r \in failed THEN 0 ELSE refusals[r]]
      /\ excused' = [r \in Deliveries |-> r \notin failed /\ excused[r]]
      /\ kicked' = TRUE /\ hookChanges' \in 0..MaxHookChanges
      /\ UNCHANGED <<endpoint, job, hookWorker, hookTicked, posts, sinceFailing>>
  BY <1>1, HookBudget DEF ReplayWebhookDeliveries
<1>3. new \in DeliveryRow /\ new.status = "pending" /\ new.attempts = 0
  BY PendingRow
<1>4. Deliveries \subseteq Rows
  BY DEF Rows
<1>5. \A r \in Rows : r \notin failed => delivery[r].status # "failed"
  OBVIOUS
<1> HIDE DEF new, failed
<1>6. delivery' \in [Rows -> DeliveryRow]
  BY <1>1, <1>2, <1>3 DEF WebhooksTypeOK
<1>7. refusals' \in [Deliveries -> 0..MaxHookAttempts] /\ excused' \in [Deliveries -> BOOLEAN]
  BY <1>1, <1>2, HookNumbers DEF WebhooksTypeOK
<1>8. WebhooksTypeOK'
  BY <1>1, <1>2, <1>6, <1>7 DEF WebhooksTypeOK
<1>9. RetriesOK'
  <2>1. \A r \in Rows : delivery'[r].status = "pending" => delivery'[r].attempts < MaxHookAttempts
    BY <1>1, <1>2, <1>3, HookNumbers DEF RetriesOK
  <2>2. \A r \in Deliveries : delivery'[r].attempts <= refusals'[r]
    BY <1>1, <1>2, <1>3, <1>4 DEF RetriesOK
  <2>3. QED
    BY <2>1, <2>2 DEF RetriesOK
<1>10. \A r \in Rows : delivery'[r].status # "failed"
  BY <1>2, <1>3, <1>5
<1>11. GivenUpAfterAll'
  BY <1>4, <1>10 DEF GivenUpAfterAll
<1>12. JobsOK'
  <2>1. \A j \in Jobs : Automatic(j) /\ job[j].row \in Deliveries => job[j].row \notin failed
    BY <1>1 DEF JobsOK, failed
  <2>2. QED
    BY <1>1, <1>2, <1>4, <1>10, <2>1 DEF JobsOK, Automatic
<1>13. QED
  BY <1>8, <1>9, <1>11, <1>12 DEF WebhooksInv

(***************************************************************************)
(* One attempt.                                                            *)
(***************************************************************************)

\* A job on a row of an event, other than its worker's, is a resend.
LEMMA OneWorkerPerEvent ==
  ASSUME WebhooksInv, NEW i \in Jobs, NEW j \in Jobs, i # j, ~Manual(i), job[i].pc # "idle",
         Automatic(j), job[j].row = job[i].row
  PROVE job[j].row \notin Deliveries
<1>1. job[i].row = i[2] /\ job[j].row = j[2] /\ ~Manual(j)
  BY DEF WebhooksInv, JobsOK, Automatic
<1>2. i[2] \in Deliveries => i = <<"worker", i[2]>> /\ j = <<"worker", j[2]>>
  BY <1>1, HookKinds
<1>3. QED
  BY <1>1, <1>2

LEMMA PostWebhookStep == ASSUME WebhooksInv, NEW j \in Jobs, PostWebhook(j) PROVE WebhooksInv'
<1>1. WebhooksTypeOK /\ JobsOK /\ job[j] \in Job
  BY DEF WebhooksInv, WebhooksTypeOK
<1>2. PICK result \in Results \ {"none"} :
       /\ job' = [job EXCEPT ![j].pc = "posted", ![j].result = result]
       /\ posts' = [t \in Tests |-> IF t = job[j].row /\ ~Manual(j) /\ posts[t] < 2
                                  THEN posts[t] + 1 ELSE posts[t]]
  BY DEF PostWebhook
<1> DEFINE new == [job[j] EXCEPT !.pc = "posted", !.result = result]
<1>3. /\ UNCHANGED <<endpoint, delivery, hookWorker, kicked, hookTicked, refusals, excused, sinceFailing,
                    hookChanges>>
      /\ job[j].pc = "posting"
  BY DEF PostWebhook
<1>4. new \in Job /\ new.row = job[j].row /\ new.attempts = job[j].attempts /\ new.pc = "posted"
  BY <1>1, <1>2 DEF Job
<1>5. job' = [job EXCEPT ![j] = new]
  BY <1>1, <1>2 DEF WebhooksTypeOK
<1> HIDE DEF new
<1>6. job' \in [Jobs -> Job] /\ job'[j] = new /\ \A x \in Jobs : x # j => job'[x] = job[x]
  BY <1>1, <1>4, <1>5 DEF WebhooksTypeOK
<1>7. posts' \in [Tests -> 0..2]
  BY <1>1, <1>2 DEF WebhooksTypeOK
<1>8. WebhooksTypeOK'
  BY <1>1, <1>3, <1>6, <1>7 DEF WebhooksTypeOK
<1>9. ~Manual(j) => /\ new.attempts < MaxHookAttempts /\ new.row = j[2]
                    /\ j[2] \in Deliveries => /\ new.attempts <= refusals[j[2]]
                                              /\ delivery[j[2]].status # "failed"
  BY <1>1, <1>3, <1>4 DEF JobsOK, Automatic
<1>10. QED
  BY <1>3, <1>6, <1>8, <1>9, JobsElsewhere

LEMMA NoteHealthStep == ASSUME WebhooksInv, NEW j \in Jobs, NoteEndpointHealth(j) PROVE WebhooksInv'
<1>1. WebhooksTypeOK /\ endpoint \in Endpoint
  BY DEF WebhooksInv, WebhooksTypeOK
<1>2. /\ job' = [job EXCEPT ![j] = NoJob]
      /\ UNCHANGED <<delivery, hookWorker, kicked, hookTicked, refusals, excused, posts, hookChanges>>
  BY DEF NoteEndpointHealth, Done
<1>3. endpoint' \in Endpoint /\ sinceFailing' \in BOOLEAN
  <2>1. [endpoint EXCEPT !.failing = 0] \in Endpoint /\ [endpoint EXCEPT !.failing = 1] \in Endpoint
    BY <1>1, HookNumbers DEF Endpoint
  <2>2. endpoint' \in {endpoint, [endpoint EXCEPT !.failing = 0], [endpoint EXCEPT !.failing = 1]}
    BY DEF NoteEndpointHealth
  <2>3. sinceFailing' \in BOOLEAN
    BY <1>1 DEF NoteEndpointHealth, WebhooksTypeOK
  <2>4. QED
    BY <1>1, <2>1, <2>2, <2>3
<1>4. job' \in [Jobs -> Job] /\ job'[j] = NoJob /\ \A x \in Jobs : x # j => job'[x] = job[x]
  BY <1>1, <1>2, NoHookJob DEF WebhooksTypeOK
<1>5. WebhooksTypeOK'
  BY <1>1, <1>2, <1>3, <1>4 DEF WebhooksTypeOK
<1>6. job'[j].pc = "idle" /\ job'[j].attempts < MaxHookAttempts
  BY <1>4, NoHookJob, HookNumbers
<1>7. QED
  BY <1>2, <1>4, <1>5, <1>6, JobsElsewhere DEF Automatic

LEMMA LoadEndpointStep == ASSUME WebhooksInv, NEW j \in Jobs, LoadEndpoint(j) PROVE WebhooksInv'
<1> DEFINE r == job[j].row
           off == ~Manual(j) /\ ~endpoint.enabled
<1>1. WebhooksTypeOK /\ JobsOK /\ RetriesOK /\ GivenUpAfterAll /\ job[j] \in Job
  BY DEF WebhooksInv, WebhooksTypeOK
<1>2. /\ job[j].pc = "queued" /\ r \in Rows
      /\ UNCHANGED <<endpoint, hookWorker, kicked, hookTicked, refusals, posts, sinceFailing, hookChanges>>
  BY <1>1 DEF LoadEndpoint, Job
<1>3. Deliveries \subseteq Rows /\ \A d \in Deliveries : 0 <= refusals[d]
  BY <1>1, WebhooksAssumption DEF Rows, WebhooksTypeOK
<1>4. CASE ~endpoint.exists \/ off
  <2> DEFINE failed == [delivery[r] EXCEPT !.status = "failed"]
             new == IF ~endpoint.exists THEN NoDelivery
                    ELSE IF delivery[r].status = "none" THEN delivery[r] ELSE failed
  <2>1. /\ job' = [job EXCEPT ![j] = NoJob]
        /\ excused' = [d \in Deliveries |-> d = r \/ excused[d]]
    BY <1>4 DEF LoadEndpoint, Done
  <2>2. failed \in DeliveryRow /\ failed.status = "failed" /\ failed.attempts = delivery[r].attempts
    BY <1>1, <1>2 DEF WebhooksTypeOK, DeliveryRow, DeliveryStatuses
  <2>3. /\ new \in DeliveryRow /\ new.attempts \in {0, delivery[r].attempts} /\ new.status # "pending"
        /\ new.status = "failed" => ~Manual(j)
    <3>1. delivery[r] \in DeliveryRow
      BY <1>1, <1>2 DEF WebhooksTypeOK
    <3> HIDE DEF failed
    <3>2. QED
      BY <1>4, <2>2, <3>1, NoHookRow
  <2>4. delivery' = [delivery EXCEPT ![r] = new]
    <3>1. delivery = [delivery EXCEPT ![r] = delivery[r]]
      BY <1>1 DEF WebhooksTypeOK
    <3>2. CASE ~endpoint.exists
      BY <3>2 DEF LoadEndpoint
    <3>3. CASE endpoint.exists /\ delivery[r].status = "none"
      BY <1>4, <3>1, <3>3 DEF LoadEndpoint
    <3>4. CASE endpoint.exists /\ delivery[r].status # "none"
      <4>1. delivery' = [delivery EXCEPT ![r].status = "failed"]
        BY <1>4, <3>4 DEF LoadEndpoint
      <4>2. QED
        BY <3>4, <4>1
    <3>5. QED
      BY <3>2, <3>3, <3>4
  <2> HIDE DEF failed, new
  <2>5. /\ delivery' \in [Rows -> DeliveryRow] /\ delivery'[r] = new
        /\ \A x \in Rows : x # r => delivery'[x] = delivery[x]
    BY <1>1, <1>2, <2>3, <2>4 DEF WebhooksTypeOK
  <2>6. job' \in [Jobs -> Job] /\ job'[j] = NoJob /\ \A x \in Jobs : x # j => job'[x] = job[x]
    BY <1>1, <2>1, NoHookJob DEF WebhooksTypeOK
  <2>7. excused' \in [Deliveries -> BOOLEAN] /\ \A d \in Deliveries : excused'[d] <=> d = r \/ excused[d]
    BY <1>1, <2>1 DEF WebhooksTypeOK
  <2>8. WebhooksTypeOK'
    BY <1>1, <1>2, <2>5, <2>6, <2>7 DEF WebhooksTypeOK
  <2>9. RetriesOK'
    BY <1>1, <1>2, <1>3, <2>3, <2>5 DEF RetriesOK
  <2>10. GivenUpAfterAll'
    BY <1>1, <1>2, <1>3, <2>5, <2>7 DEF GivenUpAfterAll
  <2>11. JobsOK'
    <3>1. SUFFICES ASSUME NEW x \in Jobs
                   PROVE /\ ~Manual(x) => /\ job'[x].attempts < MaxHookAttempts
                                          /\ job'[x].pc # "idle" => job'[x].row = x[2]
                         /\ Automatic(x)' /\ job'[x].row \in Deliveries =>
                              /\ job'[x].attempts <= refusals[job'[x].row]
                              /\ delivery'[job'[x].row].status # "failed"
      BY <1>2 DEF JobsOK
    <3>2. CASE x = j
      BY <2>6, <3>2, NoHookJob, HookNumbers DEF Automatic
    <3>3. CASE x # j
      <4>1. job'[x] = job[x]
        BY <2>6, <3>3
      <4>2. Automatic(x) /\ job[x].row \in Deliveries => delivery'[job[x].row].status # "failed"
        <5>1. SUFFICES ASSUME Automatic(x), job[x].row \in Deliveries
                       PROVE delivery'[job[x].row].status # "failed"
          OBVIOUS
        <5>2. CASE job[x].row # r
          BY <1>1, <1>3, <2>5, <5>1, <5>2 DEF JobsOK
        <5>3. CASE job[x].row = r
          <6>1. Manual(j)
            BY <1>2, <3>3, <5>1, <5>3, OneWorkerPerEvent
          <6>2. QED
            BY <2>3, <2>5, <5>3, <6>1
        <5>4. QED
          BY <5>2, <5>3
      <4>3. QED
        BY <1>1, <4>1, <4>2 DEF JobsOK, Automatic
    <3>4. QED
      BY <3>2, <3>3
  <2>12. QED
    BY <2>8, <2>9, <2>10, <2>11 DEF WebhooksInv
<1>5. CASE endpoint.exists /\ ~off
  <2> DEFINE failing == endpoint.failing # 0
             new == [job[j] EXCEPT !.pc = "posting", !.failing = failing]
  <2>1. UNCHANGED <<delivery, excused>>
    BY <1>5 DEF LoadEndpoint
  <2>2. job' = [job EXCEPT ![j].pc = "posting", ![j].failing = failing]
    BY <1>5 DEF LoadEndpoint
  <2>3. failing \in BOOLEAN
    OBVIOUS
  <2> HIDE DEF failing
  <2>4. new \in Job /\ new.row = job[j].row /\ new.attempts = job[j].attempts /\ new.pc = "posting"
    BY <1>1, <2>3 DEF Job
  <2>5. job' = [job EXCEPT ![j] = new]
    BY <1>1, <2>2 DEF WebhooksTypeOK
  <2> HIDE DEF new
  <2>6. job' \in [Jobs -> Job] /\ job'[j] = new /\ \A x \in Jobs : x # j => job'[x] = job[x]
    BY <1>1, <2>4, <2>5 DEF WebhooksTypeOK
  <2>7. WebhooksTypeOK'
    BY <1>1, <1>2, <2>1, <2>6 DEF WebhooksTypeOK
  <2>8. ~Manual(j) => /\ new.attempts < MaxHookAttempts /\ new.row = j[2]
                      /\ j[2] \in Deliveries => /\ new.attempts <= refusals[j[2]]
                                                /\ delivery[j[2]].status # "failed"
    BY <1>1, <1>2, <2>4 DEF JobsOK, Automatic
  <2>9. QED
    BY <1>2, <2>1, <2>6, <2>7, <2>8, JobsElsewhere
<1>6. QED
  BY <1>4, <1>5

\* What the save leaves of the row.
LEMMA AttemptCases ==
  ASSUME WebhooksInv, NEW j \in Jobs, job[j].pc = "posted", NEW old \in DeliveryRow,
         NEW new, new = AfterAttempt(j, old)
  PROVE LET n == job[j].attempts + 1 IN
        \/ /\ job[j].result = "ok" /\ new \in DeliveryRow
           /\ new.status \in {old.status, "succeeded"}
           /\ new.attempts = old.attempts
        \/ job[j].result # "ok" /\ Manual(j) /\ new = old
        \/ /\ job[j].result # "ok" /\ ~Manual(j) /\ new \in DeliveryRow /\ new.attempts = n
           /\ \/ /\ new.status = "failed"
                 /\ job[j].result = "permanent" \/ n = MaxHookAttempts \/ IsTest(job[j].row)
              \/ new.status = old.status /\ n < MaxHookAttempts
<1> DEFINE n == job[j].attempts + 1
           gone == job[j].result = "permanent" \/ n >= MaxHookAttempts \/ IsTest(job[j].row)
           becomes == IF gone THEN "failed" ELSE old.status
           wait == IF gone THEN old.wait ELSE 1
           again == [old EXCEPT !.attempts = n, !.status = becomes, !.wait = wait]
           done == [old EXCEPT !.status = "succeeded"]
<1>1. WebhooksTypeOK /\ JobsOK /\ job[j] \in Job /\ job[j].attempts \in 0..MaxHookAttempts
  BY DEF WebhooksInv, WebhooksTypeOK, Job
<1>2. new = IF job[j].result = "ok" THEN (IF job[j].status = "succeeded" THEN old ELSE done)
            ELSE IF Manual(j) THEN old ELSE again
  BY DEF AfterAttempt
<1>3. done \in DeliveryRow /\ done.status = "succeeded" /\ done.attempts = old.attempts
  BY DEF DeliveryRow, DeliveryStatuses
<1> HIDE DEF done
<1>4. CASE job[j].result = "ok"
  BY <1>2, <1>3, <1>4
<1>5. CASE job[j].result # "ok" /\ Manual(j)
  BY <1>2, <1>5
<1>6. CASE job[j].result # "ok" /\ ~Manual(j)
  <2>1. job[j].attempts < MaxHookAttempts
    BY <1>1, <1>6 DEF JobsOK
  <2>2. n \in 0..MaxHookAttempts /\ (n >= MaxHookAttempts => n = MaxHookAttempts)
    BY <1>1, <2>1, WebhooksAssumption
  <2>3. becomes \in DeliveryStatuses /\ wait \in 0..Hour
    BY HookNumbers DEF DeliveryRow, DeliveryStatuses
  <2>4. ~gone => n < MaxHookAttempts
    BY <2>2, WebhooksAssumption
  <2>5. /\ gone => becomes = "failed"
        /\ ~gone => becomes = old.status
        /\ gone => job[j].result = "permanent" \/ n = MaxHookAttempts \/ IsTest(job[j].row)
    BY <2>2
  <2> HIDE DEF n, becomes, wait, gone
  <2>6. again \in DeliveryRow /\ again.attempts = n /\ again.status = becomes
    BY <2>2, <2>3 DEF DeliveryRow
  <2> HIDE DEF again
  <2>7. new = again
    BY <1>2, <1>6
  <2>8. QED
    BY <1>6, <2>4, <2>5, <2>6, <2>7 DEF n
<1>7. QED
  BY <1>4, <1>5, <1>6

LEMMA RecordAttemptStep == ASSUME WebhooksInv, NEW j \in Jobs, RecordAttempt(j) PROVE WebhooksInv'
<1> DEFINE r == job[j].row
           n == job[j].attempts + 1
           auto == job[j].result # "ok" /\ ~Manual(j)
           old == delivery[r]
           new == IF old.status = "none" THEN old ELSE AfterAttempt(j, old)
           after == [job[j] EXCEPT !.pc = "health"]
<1>1. WebhooksTypeOK /\ JobsOK /\ RetriesOK /\ GivenUpAfterAll /\ job[j] \in Job
  BY DEF WebhooksInv, WebhooksTypeOK
<1>2. /\ job[j].pc = "posted" /\ r \in Rows /\ old \in DeliveryRow
      /\ job[j].attempts \in 0..MaxHookAttempts
      /\ UNCHANGED <<endpoint, hookWorker, kicked, hookTicked, posts, sinceFailing, hookChanges>>
  BY <1>1 DEF RecordAttempt, Job, WebhooksTypeOK
<1>3. /\ job' = [job EXCEPT ![j].pc = "health"]
      /\ refusals' = [d \in Deliveries |-> IF d = r /\ auto /\ refusals[d] < MaxHookAttempts
                                           THEN refusals[d] + 1 ELSE refusals[d]]
      /\ excused' = [d \in Deliveries |->
                     excused[d] \/ (d = r /\ auto /\ job[j].result = "permanent")]
  BY DEF RecordAttempt
<1>4. delivery' = [delivery EXCEPT ![r] = new]
  <2>1. delivery = [delivery EXCEPT ![r] = delivery[r]]
    BY <1>1 DEF WebhooksTypeOK
  <2>2. CASE old.status = "none"
    BY <2>1, <2>2 DEF RecordAttempt
  <2>3. CASE old.status # "none"
    BY <2>3 DEF RecordAttempt
  <2>4. QED
    BY <2>2, <2>3
<1>5. after \in Job /\ after.pc = "health" /\ after.row = r /\ after.attempts = job[j].attempts
  BY <1>1 DEF Job
<1>6. job' = [job EXCEPT ![j] = after]
  BY <1>1, <1>3 DEF WebhooksTypeOK
<1>7. \/ /\ ~auto /\ new \in DeliveryRow
         /\ new.status \in {old.status, "succeeded"} /\ new.attempts = old.attempts
      \/ old.status = "none" /\ new = old
      \/ /\ auto /\ new \in DeliveryRow /\ new.attempts = n
         /\ \/ /\ new.status = "failed"
               /\ job[j].result = "permanent" \/ n = MaxHookAttempts \/ IsTest(r)
            \/ new.status = old.status /\ n < MaxHookAttempts
  BY <1>2, AttemptCases
<1> HIDE DEF after, new
<1>8. job' \in [Jobs -> Job] /\ job'[j] = after /\ \A x \in Jobs : x # j => job'[x] = job[x]
  BY <1>1, <1>5, <1>6 DEF WebhooksTypeOK
<1>9. /\ delivery' \in [Rows -> DeliveryRow] /\ delivery'[r] = new
      /\ \A x \in Rows : x # r => delivery'[x] = delivery[x]
  BY <1>1, <1>2, <1>4, <1>7 DEF WebhooksTypeOK
<1>10. /\ refusals' \in [Deliveries -> 0..MaxHookAttempts]
       /\ \A d \in Deliveries : refusals[d] <= refusals'[d]
       /\ \A d \in Deliveries : d # r \/ ~auto => refusals'[d] = refusals[d]
       /\ auto /\ r \in Deliveries => refusals'[r] = MaxHookAttempts \/ refusals'[r] = refusals[r] + 1
  <2>1. \A d \in Deliveries : refusals[d] \in 0..MaxHookAttempts
    BY <1>1 DEF WebhooksTypeOK
  <2>2. \A d \in Deliveries :
           refusals'[d] = IF d = r /\ auto /\ refusals[d] < MaxHookAttempts
                          THEN refusals[d] + 1 ELSE refusals[d]
    BY <1>3
  <2>3. \A d \in Deliveries : /\ refusals'[d] \in 0..MaxHookAttempts
                               /\ refusals[d] <= refusals'[d]
    BY <2>1, <2>2, WebhooksAssumption
  <2>4. refusals' \in [Deliveries -> 0..MaxHookAttempts]
    BY <1>3, <2>3
  <2>5. \A d \in Deliveries : d # r \/ ~auto => refusals'[d] = refusals[d]
    BY <2>2
  <2>6. auto /\ r \in Deliveries => refusals'[r] = MaxHookAttempts \/ refusals'[r] = refusals[r] + 1
    BY <2>1, <2>2, WebhooksAssumption
  <2>7. QED
    BY <2>3, <2>4, <2>5, <2>6
<1>11. /\ excused' \in [Deliveries -> BOOLEAN]
       /\ \A d \in Deliveries : excused[d] => excused'[d]
       /\ r \in Deliveries /\ auto /\ job[j].result = "permanent" => excused'[r]
  BY <1>1, <1>3 DEF WebhooksTypeOK
<1>12. WebhooksTypeOK'
  BY <1>1, <1>2, <1>8, <1>9, <1>10, <1>11 DEF WebhooksTypeOK
<1>13. Deliveries \subseteq Rows /\ \A d \in Deliveries : d \notin Tests
  BY WebhooksAssumption DEF Rows
\* An automatic attempt had its place in the count.
<1>14. auto /\ r \in Deliveries => job[j].attempts <= refusals[r] /\ n <= refusals'[r]
  <2>1. SUFFICES ASSUME auto, r \in Deliveries PROVE job[j].attempts <= refusals[r] /\ n <= refusals'[r]
    OBVIOUS
  <2>2. job[j].attempts <= refusals[r] /\ job[j].attempts < MaxHookAttempts
    BY <1>1, <1>2, <2>1 DEF JobsOK, Automatic
  <2>3. refusals[r] \in 0..MaxHookAttempts
    BY <1>1, <2>1 DEF WebhooksTypeOK
  <2>4. n <= MaxHookAttempts /\ n <= refusals[r] + 1
    BY <1>2, <2>2, <2>3, WebhooksAssumption
  <2>5. QED
    BY <1>10, <2>1, <2>2, <2>4
<1> HIDE DEF n, auto, old, r
<1>15. RetriesOK'
  <2>1. \A x \in Rows : delivery'[x].status = "pending" => delivery'[x].attempts < MaxHookAttempts
    BY <1>1, <1>2, <1>7, <1>9 DEF RetriesOK, old
  <2>2. ASSUME NEW x \in Deliveries PROVE delivery'[x].attempts <= refusals'[x]
    <3>1. delivery[x].attempts <= refusals[x] /\ refusals[x] <= refusals'[x]
      BY <1>1, <1>10 DEF RetriesOK
    <3>2. refusals[x] \in Int /\ refusals'[x] \in Int /\ delivery[x].attempts \in Int
      BY <1>1, <1>10, <1>13, WebhooksAssumption DEF WebhooksTypeOK, DeliveryRow
    <3>3. delivery[x].attempts <= refusals'[x]
      BY <3>1, <3>2
    <3>4. delivery'[x].attempts = delivery[x].attempts \/ (x = r /\ auto /\ delivery'[x].attempts = n)
      BY <1>7, <1>9, <1>13 DEF old
    <3>5. QED
      BY <1>14, <3>3, <3>4
  <2>3. QED
    BY <2>1, <2>2 DEF RetriesOK
<1>16. GivenUpAfterAll'
  <2>1. SUFFICES ASSUME NEW x \in Deliveries, delivery'[x].status = "failed"
                 PROVE excused'[x] \/ refusals'[x] = MaxHookAttempts
    BY DEF GivenUpAfterAll
  <2>2. refusals[x] = MaxHookAttempts => refusals'[x] = MaxHookAttempts
    <3>1. refusals'[x] \in 0..MaxHookAttempts /\ refusals[x] <= refusals'[x]
      BY <1>10
    <3>2. QED
      BY <3>1, WebhooksAssumption
  <2>3. CASE delivery[x].status = "failed"
    BY <1>1, <1>11, <2>2, <2>3 DEF GivenUpAfterAll
  <2>4. CASE delivery[x].status # "failed"
    <3>1. x = r /\ auto /\ (job[j].result = "permanent" \/ n = MaxHookAttempts)
      BY <1>7, <1>9, <1>13, <2>1, <2>4 DEF old, IsTest
    <3>2. n = MaxHookAttempts => refusals'[x] = MaxHookAttempts
      <4>1. refusals'[x] \in 0..MaxHookAttempts /\ n <= refusals'[x]
        BY <1>10, <1>14, <3>1
      <4>2. QED
        BY <4>1, WebhooksAssumption
    <3>3. QED
      BY <1>11, <3>1, <3>2
  <2>5. QED
    BY <2>3, <2>4
<1>17. JobsOK'
  <2>1. SUFFICES ASSUME NEW x \in Jobs
                 PROVE /\ ~Manual(x) => /\ job'[x].attempts < MaxHookAttempts
                                        /\ job'[x].pc # "idle" => job'[x].row = x[2]
                       /\ Automatic(x)' /\ job'[x].row \in Deliveries =>
                            /\ job'[x].attempts <= refusals'[job'[x].row]
                            /\ delivery'[job'[x].row].status # "failed"
    BY DEF JobsOK
  <2>2. CASE x = j
    BY <1>1, <1>2, <1>5, <1>8, <2>2 DEF JobsOK, Automatic, r
  <2>3. CASE x # j
    <3>1. job'[x] = job[x]
      BY <1>8, <2>3
    <3>2. SUFFICES ASSUME Automatic(x), job[x].row \in Deliveries
                   PROVE /\ job[x].attempts <= refusals'[job[x].row]
                         /\ delivery'[job[x].row].status # "failed"
      BY <1>1, <3>1 DEF JobsOK, Automatic
    <3>3. job[x].attempts <= refusals[job[x].row] /\ delivery[job[x].row].status # "failed"
      BY <1>1, <3>2 DEF JobsOK
    <3>4. ~(auto /\ job[x].row = r)
      BY <1>2, <2>3, <3>2, OneWorkerPerEvent DEF r, auto
    <3>5. refusals'[job[x].row] = refusals[job[x].row]
      BY <1>10, <3>2, <3>4
    <3>6. delivery'[job[x].row].status # "failed"
      BY <1>7, <1>9, <1>13, <3>2, <3>3, <3>4 DEF old
    <3>7. QED
      BY <3>3, <3>5, <3>6
  <2>4. QED
    BY <2>2, <2>3
<1>18. QED
  BY <1>12, <1>15, <1>16, <1>17 DEF WebhooksInv

LEMMA WebhooksStep == WebhooksInv /\ [WebhooksNext]_webhookVars => WebhooksInv'
<1> SUFFICES ASSUME WebhooksInv, [WebhooksNext]_webhookVars PROVE WebhooksInv'
  OBVIOUS
<1>1. CASE UNCHANGED webhookVars
  BY <1>1 DEF webhookVars, WebhooksInv, WebhooksTypeOK, RetriesOK, JobsOK, Automatic, GivenUpAfterAll
<1>2. CASE \E r \in Rows : EmitWebhookEvent(r) \/ \E p \in Resends : Resend(p, r)
  BY <1>2, EmitStep, ResendStep
<1>3. CASE \E t \in Tests : SendWebhookTest(t) \/ PostponeTest(t)
  BY <1>3, SendTestStep, PostponeStep
<1>4. CASE \E j \in Jobs : AttemptWebhook(j)
  BY <1>4, LoadEndpointStep, PostWebhookStep, RecordAttemptStep, NoteHealthStep DEF AttemptWebhook
<1>5. CASE RunWebhookDeliveries \/ \E b \in BOOLEAN : UpdateWebhookEndpoint(b)
  BY <1>5, QueryDueStep, EndpointStep DEF RunWebhookDeliveries
<1>6. CASE ReplayWebhookDeliveries \/ WebhookTick \/ DeleteWebhookEndpoint \/ RestartWebhooks
  BY <1>6, ReplayStep, HookTickStep, DeleteEndpointStep, RestartStep
<1>7. QED
  BY <1>1, <1>2, <1>3, <1>4, <1>5, <1>6 DEF WebhooksNext

\* The invariant of the webhooks of one endpoint: deliveries, their attempts and the counts
\* that resends, tests, replays and restarts leave alone (AttemptWebhookDelivery).
THEOREM WebhooksInvariant == WebhooksSpec => []WebhooksInv
BY HooksInit, WebhooksStep, PTL DEF WebhooksSpec

(***************************************************************************)
(* The three together                                                      *)
(***************************************************************************)

LEMMA PartsStart ==
  CrossServerInit => part \in {"outbox", "remote", "webhooks"} /\ OutboxInv /\ RemoteInv /\ WebhooksInv
BY OutboxInit, RemoteStarts, HooksInit DEF CrossServerInit

LEMMA PartsStep ==
  ASSUME part \in {"outbox", "remote", "webhooks"}, OutboxInv, RemoteInv, WebhooksInv,
         [CrossServerNext]_serverVars
  PROVE (part \in {"outbox", "remote", "webhooks"} /\ OutboxInv /\ RemoteInv /\ WebhooksInv)'
<1>1. /\ part' = part /\ [Next]_vars /\ [RemoteNext]_remoteVars /\ [WebhooksNext]_webhookVars
  BY DEF CrossServerNext, OutboxPart, RemotePart, WebhookPart, serverVars
<1>2. QED
  BY <1>1, OutboxStep, RemoteStep, WebhooksStep

\* Nothing is given up without cause, in whichever order the components work: a callback or a
\* mail fails for good only when its attempts are used up or it was refused or switched off
\* (deliverDue, attemptDelivery), a webhook's event only after as many refusals as
\* AttemptWebhookDelivery allows; and every variable stays in its type.
THEOREM GivenUpForCauseHolds == CrossServerSafety => []GivenUpForCause
<1> DEFINE Inv == part \in {"outbox", "remote", "webhooks"} /\ OutboxInv /\ RemoteInv /\ WebhooksInv
<1>1. CrossServerInit => Inv
  BY PartsStart
<1>2. Inv /\ [CrossServerNext]_serverVars => Inv'
  BY PartsStep
<1>3. Inv => GivenUpForCause
  BY DEF OutboxInv, RemoteInv, WebhooksInv, GivenUpForCause, CrossServerTypeOK
<1> HIDE DEF Inv
<1>4. QED
  BY <1>1, <1>2, <1>3, PTL DEF CrossServerSafety
=============================================================================
