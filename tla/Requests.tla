------------------------------ MODULE Requests ------------------------------
(***************************************************************************)
(* The life of one request for data: submissions (of people on this server *)
(* and answers accepted from another one) that record an answer and count  *)
(* it, the owner's edits, and the tool that proposed the request.          *)
(*                                                                         *)
(* A submission decides on the row it loaded, looks for an earlier answer, *)
(* saves the answer and then saves the count: four statements, no          *)
(* transaction around them.                                                *)
(***************************************************************************)
EXTENDS Integers

CONSTANTS Submissions, \* POSTs of an answer; a probe is one that turns away
          Locals,      \* responders with an account here: answers are links
          Remotes,     \* grants on other servers: answers are remoteGrants
          Owners,      \* owner requests that edit the row
          Tools,       \* calls of the tool's close route
          Caps,        \* values of maxResponses, 0 for no cap
          MaxTime,     \* bound on the clock
          MaxChanges   \* bound on edits, withdrawals, crashes and failures

ASSUME RequestsAssumption ==
  /\ Submissions \cap (Owners \cup Tools) = {} /\ Owners \cap Tools = {}
  /\ Locals \cap Remotes = {} /\ Locals \cup Remotes # {}
  /\ Caps \subseteq Nat
  /\ MaxTime \in Nat /\ MaxChanges \in Nat

VARIABLES request,     \* the stored row
          answers,     \* per responder: rows that answer this request
          now,         \* the clock
          proc,        \* per HTTP request: where it is and its copies
          attached,    \* whether the tool's connection still exists
          minted,      \* history: answers ever created
          overlapped,  \* history: two submissions were under way at once
          ownerPaused, \* history: the owner paused it, and it is still paused
          capEdits, statusEdits,  \* history: owner edits of the cap and the status
          edits, faults           \* bounded counters

vars == <<request, answers, now, proc, attached, minted, overlapped, ownerPaused,
          capEdits, statusEdits, edits, faults>>

People == Locals \cup Remotes
Procs == Submissions \cup Owners \cup Tools
Live == {"active", "paused"}
Closed == {"revoked", "expired", "completed"}
Statuses == Live \cup Closed \cup {"deleted"}

Row == [status : Statuses, responseCount : Nat, maxResponses : Nat, expiresAt : Nat,
        heldPaused : BOOLEAN]
Blank == [status |-> "deleted", responseCount |-> 0, maxResponses |-> 0,
          expiresAt |-> 0, heldPaused |-> FALSE]

\* orig is the row as loaded, copy the record in memory, person the responder of
\* a submission, pauses whether an owner's body asks for paused.
Proc == [pc : {"idle", "gates", "create", "update", "save"}, orig : Row, copy : Row,
         person : People, pauses : BOOLEAN]
Idle == [pc |-> "idle", orig |-> Blank, copy |-> Blank,
         person |-> CHOOSE p \in People : TRUE, pauses |-> FALSE]

Lapsed(row) == row.expiresAt # 0 /\ row.expiresAt <= now
CapUsed(row) == row.maxResponses > 0 /\ row.responseCount >= row.maxResponses

Init == /\ request \in [status : {"active"}, responseCount : {0}, maxResponses : Caps,
                        expiresAt : {0} \cup 1..MaxTime, heldPaused : {FALSE}]
        /\ answers = [p \in People |-> 0]
        /\ now = 0
        /\ proc = [p \in Procs |-> Idle]
        /\ attached = TRUE
        /\ minted = 0 /\ overlapped = FALSE /\ ownerPaused = FALSE
        /\ capEdits = 0 /\ statusEdits = 0 /\ edits = 0 /\ faults = 0

bodyEdits == <<capEdits, statusEdits>>
counters == <<edits, faults>>

At(p, pc) == proc[p].pc = pc
Leaves(p) == proc' = [proc EXCEPT ![p] = Idle]

-----------------------------------------------------------------------------
(* A submission. *)

\* Variant: the cap is compared off by one.
RefreshTransitionOffByOne(row) ==
  CASE row.status \in Closed -> "none"
    [] row.status \notin Closed /\ Lapsed(row) -> "expired"
    [] /\ row.status \notin Closed /\ ~Lapsed(row)
       /\ row.maxResponses > 0 /\ row.responseCount > row.maxResponses -> "completed"
    [] OTHER -> "none"

\* The transition RefreshRequestStatus sets on the loaded copy and saves; "none" when
\* it refuses without one or lets the request go on.
RefreshTransition(row) ==
  CASE row.status \in Closed -> "none"
    [] row.status \notin Closed /\ Lapsed(row) -> "expired"
    [] row.status \notin Closed /\ ~Lapsed(row) /\ CapUsed(row) -> "completed"
    [] OTHER -> "none"

\* The row is found by its slug and RefreshRequestStatus decides on that copy: a
\* transition to save, a refusal, or the gates (password, handshake, template).
Open(s) ==
  /\ At(s, "idle")
  /\ request.status # "deleted"
  /\ LET next == RefreshTransition(request) IN
       \/ /\ next # "none"
          /\ proc' = [proc EXCEPT ![s].pc = "save", ![s].orig = request,
                                  ![s].copy = [request EXCEPT !.status = next]]
       \/ /\ next = "none" /\ request.status = "active"
          /\ \E person \in People :
               proc' = [proc EXCEPT ![s].pc = "gates", ![s].orig = request,
                                    ![s].copy = request, ![s].person = person]
       \/ /\ next = "none" /\ request.status # "active"
          /\ UNCHANGED proc
  /\ overlapped' = (overlapped \/ \E q \in Submissions \ {s} : ~At(q, "idle"))
  /\ UNCHANGED <<request, answers, now, attached, minted, ownerPaused, bodyEdits, counters>>

\* No session, a wrong password, a refused handshake or template, a grant that cannot
\* be read back, or only a probe: nothing is recorded.
TurnAway(s) ==
  /\ At(s, "gates")
  /\ Leaves(s)
  /\ UNCHANGED <<request, answers, now, attached, minted, overlapped, ownerPaused,
                 bodyEdits, counters>>

\* The responder's earlier answer is looked up: it is updated, or a new one created.
FindExisting(s) ==
  /\ At(s, "gates")
  /\ proc' = [proc EXCEPT ![s].pc = IF answers[proc[s].person] > 0 THEN "update" ELSE "create"]
  /\ UNCHANGED <<request, answers, now, attached, minted, overlapped, ownerPaused,
                 bodyEdits, counters>>

\* The copy with one more response, completed when that reaches the cap.
Counted(row) ==
  LET count == row.responseCount + 1 IN
    [row EXCEPT !.responseCount = count,
                !.status = IF row.maxResponses > 0 /\ count >= row.maxResponses
                           THEN "completed" ELSE @]

\* A new answer cannot be stored for a request that is gone (the relation is
\* validated) or, for a remote grant, twice (unique index on domain and grant).
Storable(person) == /\ request.status # "deleted"
                    /\ person \in Remotes => answers[person] = 0

\* The new answer is saved; the count follows as a save of its own. When the answer
\* cannot be stored the submission fails and nothing is counted.
CreateAnswer(s) ==
  /\ At(s, "create")
  /\ LET person == proc[s].person IN
       IF Storable(person)
       THEN /\ answers' = [answers EXCEPT ![person] = @ + 1]
            /\ minted' = minted + 1
            /\ proc' = [proc EXCEPT ![s].pc = "save", ![s].copy = Counted(@)]
       ELSE /\ Leaves(s)
            /\ UNCHANGED <<answers, minted>>
  /\ UNCHANGED <<request, now, attached, overlapped, ownerPaused, bodyEdits, counters>>

\* Variant: a re-answer is counted too.
UpdateAnswerCounted(s) ==
  /\ At(s, "update")
  /\ proc' = [proc EXCEPT ![s].pc = "save", ![s].copy = Counted(@)]
  /\ UNCHANGED <<request, answers, now, attached, minted, overlapped, ownerPaused,
                 bodyEdits, counters>>

\* A re-answer overwrites the responder's answer and is not counted.
UpdateAnswer(s) ==
  /\ At(s, "update")
  /\ Leaves(s)
  /\ UNCHANGED <<request, answers, now, attached, minted, overlapped, ownerPaused,
                 bodyEdits, counters>>

-----------------------------------------------------------------------------
(* app.Save of a loaded row. *)

\* Variant: every column is written, as loaded or changed.
MergedWhole(orig, copy) == copy

\* The columns that differ from the row as loaded, over the stored row.
Merged(orig, copy) ==
  [status        |-> IF copy.status # orig.status THEN copy.status ELSE request.status,
   responseCount |-> IF copy.responseCount # orig.responseCount THEN copy.responseCount
                                                              ELSE request.responseCount,
   maxResponses  |-> IF copy.maxResponses # orig.maxResponses THEN copy.maxResponses
                                                            ELSE request.maxResponses,
   expiresAt     |-> IF copy.expiresAt # orig.expiresAt THEN copy.expiresAt
                                                      ELSE request.expiresAt,
   heldPaused    |-> IF copy.heldPaused # orig.heldPaused THEN copy.heldPaused
                                                        ELSE request.heldPaused]

\* The UPDATE; it matches no row once the request is deleted.
Save(p) ==
  /\ At(p, "save")
  /\ IF request.status = "deleted"
     THEN UNCHANGED <<request, ownerPaused>>
     ELSE /\ request' = Merged(proc[p].orig, proc[p].copy)
          /\ ownerPaused' = (request'.status = "paused" /\ (ownerPaused \/ proc[p].pauses))
  /\ Leaves(p)
  /\ UNCHANGED <<answers, now, attached, minted, overlapped, bodyEdits, counters>>

-----------------------------------------------------------------------------
(* The owner, the responders and the tool. *)

Edits == edits + faults < MaxChanges /\ edits' = edits + 1 /\ UNCHANGED faults

Patches == [field : {"status"}, to : {"active", "paused", "revoked"}]
             \cup [field : {"maxResponses"}, to : Caps]
             \cup [field : {"expiresAt"}, to : {0} \cup 1..MaxTime]

\* The body over the loaded row. Unlike a link's, a status in it leaves heldPaused.
Patched(row, patch) ==
  CASE patch.field = "status" -> [row EXCEPT !.status = patch.to]
    [] patch.field = "maxResponses" -> [row EXCEPT !.maxResponses = patch.to]
    [] OTHER -> [row EXCEPT !.expiresAt = patch.to]

\* PATCH: the row is loaded and the body applied to the copy.
Edit(o) ==
  /\ At(o, "idle")
  /\ request.status # "deleted"
  /\ Edits
  /\ \E patch \in Patches :
       /\ proc' = [proc EXCEPT ![o].pc = "save", ![o].orig = request,
                               ![o].copy = Patched(request, patch),
                               ![o].pauses = (patch.field = "status" /\ patch.to = "paused")]
       /\ capEdits' = IF patch.field = "maxResponses" THEN capEdits + 1 ELSE capEdits
       /\ statusEdits' = IF patch.field = "status" THEN statusEdits + 1 ELSE statusEdits
  /\ UNCHANGED <<request, answers, now, attached, minted, overlapped, ownerPaused>>

\* DELETE: answers from other servers cascade with the request, local ones lose
\* their reference to it.
Delete(o) ==
  /\ At(o, "idle")
  /\ request.status # "deleted"
  /\ Edits
  /\ request' = [request EXCEPT !.status = "deleted"]
  /\ ownerPaused' = FALSE
  /\ answers' = [p \in People |-> 0]
  /\ UNCHANGED <<now, proc, attached, minted, overlapped, bodyEdits>>

\* A responder deletes the link that is their answer; the count is not taken back.
Withdraw(person) ==
  /\ answers[person] > 0
  /\ Edits
  /\ answers' = [answers EXCEPT ![person] = @ - 1]
  /\ UNCHANGED <<request, now, proc, attached, minted, overlapped, ownerPaused, bodyEdits>>

\* holdRequest, releaseRequest and closeRequest: what each stores.
Held(row) == IF row.status = "active"
             THEN [row EXCEPT !.status = "paused", !.heldPaused = TRUE] ELSE row
\* Variant: releasing wakes whatever was held, completed or closed since or not.
ReleasedAny(row) ==
  IF ~row.heldPaused THEN row ELSE [row EXCEPT !.status = "active", !.heldPaused = FALSE]
Released(row) ==
  IF ~row.heldPaused THEN row
  ELSE [row EXCEPT !.status = IF row.status = "paused" THEN "active" ELSE @,
                   !.heldPaused = FALSE]
Disconnected(row) == [row EXCEPT !.status = "revoked", !.heldPaused = FALSE]
Detached(row) == [row EXCEPT !.heldPaused = FALSE]

\* A transaction of the tool's owner loads the row and saves it.
ToolEdit(new) ==
  /\ attached
  /\ request.status # "deleted"
  /\ Edits
  /\ request' = new
  /\ ownerPaused' = (ownerPaused /\ new.status = "paused")
  /\ UNCHANGED <<answers, now, proc, minted, overlapped, bodyEdits>>

PauseConnection == ToolEdit(Held(request)) /\ UNCHANGED attached
ResumeConnection == ToolEdit(Released(request)) /\ UNCHANGED attached
DisconnectConnection == /\ ToolEdit(Disconnected(request)) \/ ToolEdit(Detached(request))
                        /\ attached' = FALSE

\* The tool disconnects itself: the connection goes, the request stays as it is.
ToolLeaves ==
  /\ attached
  /\ Edits
  /\ attached' = FALSE
  /\ UNCHANGED <<request, answers, now, proc, minted, overlapped, ownerPaused, bodyEdits>>

\* The tool closes its request: a load and a save, outside a transaction.
CloseByTool(t) ==
  /\ At(t, "idle")
  /\ attached
  /\ request.status \notin {"deleted", "revoked"}
  /\ Edits
  /\ proc' = [proc EXCEPT ![t].pc = "save", ![t].orig = request,
                          ![t].copy = Disconnected(request)]
  /\ UNCHANGED <<request, answers, now, attached, minted, overlapped, ownerPaused, bodyEdits>>

-----------------------------------------------------------------------------
(* The clock and what can fail. *)

Tick == /\ now < MaxTime
        /\ now' = now + 1
        /\ UNCHANGED <<request, answers, proc, attached, minted, overlapped, ownerPaused,
                       bodyEdits, counters>>

Fails == edits + faults < MaxChanges /\ faults' = faults + 1 /\ UNCHANGED edits

\* A statement fails: an unsaved answer ends the submission, an unsaved status or
\* count is only logged.
StatementFails(p) ==
  /\ proc[p].pc \in {"create", "update", "save"}
  /\ Fails
  /\ Leaves(p)
  /\ UNCHANGED <<request, answers, now, attached, minted, overlapped, ownerPaused, bodyEdits>>

\* The server stops between two statements and restarts: only the rows are left.
Crash == /\ Fails
         /\ proc # [p \in Procs |-> Idle]
         /\ proc' = [p \in Procs |-> Idle]
         /\ UNCHANGED <<request, answers, now, attached, minted, overlapped, ownerPaused,
                        bodyEdits>>

Next == \/ \E s \in Submissions : \/ Open(s) \/ TurnAway(s) \/ FindExisting(s)
                                  \/ CreateAnswer(s) \/ UpdateAnswer(s)
        \/ \E p \in Procs : Save(p) \/ StatementFails(p)
        \/ \E o \in Owners : Edit(o) \/ Delete(o)
        \/ \E person \in Locals : Withdraw(person)
        \/ \E t \in Tools : CloseByTool(t)
        \/ PauseConnection \/ ResumeConnection \/ DisconnectConnection \/ ToolLeaves
        \/ Tick \/ Crash

Spec == Init /\ [][Next]_vars

-----------------------------------------------------------------------------
(* Properties. *)

TypeOK == /\ request \in Row
          /\ answers \in [People -> Nat]
          /\ now \in Nat
          /\ proc \in [Procs -> Proc]
          /\ attached \in BOOLEAN /\ overlapped \in BOOLEAN /\ ownerPaused \in BOOLEAN
          /\ minted \in Nat /\ capEdits \in Nat /\ statusEdits \in Nat
          /\ edits \in Nat /\ faults \in Nat

AtRest == \A p \in Procs : At(p, "idle")

\* "Only a genuinely new response counts; an update must not inflate it": whatever
\* overlaps, fails or is retried, no more responses are counted than were created.
CountNeverInflated == request.responseCount <= minted

(* The inductive invariant: what the copies may still bring into the row. *)

\* A copy counts at most the answers there are, and only an owner's may open a
\* closed request.
CopyOK(p) == /\ proc[p].copy.responseCount <= minted
             /\ At(p, "gates") \/ At(p, "create") \/ At(p, "update") =>
                  proc[p].copy.status = proc[p].orig.status
             /\ p \notin Owners /\ At(p, "save") =>
                  proc[p].copy.status \in Closed \cup {proc[p].orig.status}

RequestsInv == TypeOK /\ CountNeverInflated /\ \A p \in Procs : CopyOK(p)

\* Submissions that do not overlap and do not fail are all counted, whatever the
\* owner, the tool and withdrawals store in between.
CountExact == AtRest /\ faults = 0 /\ ~overlapped /\ request.status # "deleted" =>
                request.responseCount = minted

\* Without overlaps and failures a request whose cap the owner leaves alone takes no
\* more answers than the cap, even reopened, paused and resumed around it; and the
\* last one closes it for good unless the owner set its status.
CapKept == /\ faults = 0 /\ ~overlapped /\ capEdits = 0 /\ request.maxResponses > 0 =>
                minted <= request.maxResponses
           /\ /\ AtRest /\ faults = 0 /\ ~overlapped /\ capEdits = 0 /\ statusEdits = 0
              /\ CapUsed(request)
              => request.status \notin Live

\* A revoked, expired or completed request is opened again only by an owner request
\* that set its status: no resume, count or late expiry brings it back.
ClosedStaysClosed ==
  [][request.status \in Closed /\ request'.status \in Live =>
       \E o \in Owners : /\ At(o, "save")
                         /\ proc[o].copy.status = request'.status
                         /\ proc[o].orig.status # request'.status]_vars

\* publicRequests.go:185 "One living grant per (request, responder): re-answering
\* updates the existing link rather than minting a duplicate".
OneAnswerEach == \A person \in People : answers[person] <= 1

\* connectionControls.go:22 "releaseLink undoes holdLink, and nothing else: a link its
\* owner paused themselves stays paused", and :56 says the same of requests: a request
\* its owner paused wakes only by the owner's own save.
OwnerPauseStays ==
  [][ownerPaused /\ request'.status = "active" => \E o \in Owners : At(o, "save")]_vars
=============================================================================
