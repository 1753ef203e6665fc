-------------------------------- MODULE Links --------------------------------
(***************************************************************************)
(* The life of one share link that answers a request: readers that refresh *)
(* its status and claim a view, owner requests that edit it, the pause and *)
(* disconnect of the tool it came from, and failures between statements.   *)
(*                                                                         *)
(* Every request works on a copy of the row it loaded; only a single SQL   *)
(* statement and a RunInTransaction block are atomic.                      *)
(***************************************************************************)
EXTENDS Integers

CONSTANTS Readers,    \* requests that open the link; the expiry sweep is one of them
          Owners,     \* owner requests that edit it
          Caps,       \* values of maxViews, 0 for no cap
          MaxTime,    \* bound on the clock
          MaxChanges, \* bound on edits, crashes and failing statements together
          MaxServed,  \* bound on views of a link without a cap
          SaveModes   \* what app.Save writes: "columns" (changed) or "row" (all)

ASSUME LinksAssumption ==
  /\ Readers \cap Owners = {}
  /\ Caps \subseteq Nat
  /\ MaxTime \in Nat /\ MaxServed \in Nat /\ MaxChanges \in Nat
  /\ SaveModes # {} /\ SaveModes \subseteq {"columns", "row"}

VARIABLES link,        \* the stored row
          index,       \* whether the entry -> grant index has rows for it
          now,         \* the clock
          proc,        \* per request: where it is and its copies of the row
          served,      \* history: views handed out
          exhaustions, \* history: claims reported as exhausting the cap
          untold,      \* history: a closing no event was queued for yet
          overlapped,  \* history: the row was stored under another request's save
          reopened,    \* history: a save opened the link under a delete that had loaded it
          attached,    \* whether the tool's connection still exists
          capEdits,    \* history: owner edits of maxViews
          edits, faults \* bounded counters

vars == <<link, index, now, proc, served, exhaustions, untold,
          overlapped, reopened, attached, capEdits, edits, faults>>

Procs == Readers \cup Owners
Live == {"active", "paused"}
Closed == {"revoked", "expired"}
Statuses == Live \cup Closed \cup {"deleted"}

Row == [status : Statuses, viewCount : Nat, maxViews : Nat, expiresAt : Nat,
        heldPaused : BOOLEAN]

\* orig is the row as loaded, copy the record in memory.
Proc == [pc : {"idle", "claim", "close", "write", "sync", "resync", "tell", "delete"},
         orig : Row, copy : Row]

Blank == [status |-> "deleted", viewCount |-> 0, maxViews |-> 0, expiresAt |-> 0,
          heldPaused |-> FALSE]
Idle == [pc |-> "idle", orig |-> Blank, copy |-> Blank]

Lapsed(row) == row.expiresAt # 0 /\ row.expiresAt <= now
CapUsed(row) == row.maxViews > 0 /\ row.viewCount >= row.maxViews

Init == /\ link \in [status : {"active"}, viewCount : {0}, maxViews : Caps,
                     expiresAt : {0} \cup 1..MaxTime, heldPaused : {FALSE}]
        /\ index = TRUE
        /\ now = 0
        /\ proc = [p \in Procs |-> Idle]
        /\ served = 0 /\ exhaustions = 0
        /\ untold = FALSE /\ overlapped = FALSE /\ reopened = FALSE /\ attached = TRUE
        /\ capEdits = 0 /\ edits = 0 /\ faults = 0

history == <<served, exhaustions, untold, overlapped, reopened, capEdits, attached>>
counters == <<edits, faults>>

At(p, pc) == proc[p].pc = pc
Goto(p, pc) == proc' = [proc EXCEPT ![p].pc = pc]
Leaves(p) == proc' = [proc EXCEPT ![p] = Idle]

\* Of a row, what the hooks after a save or a delete look at: the status.
StatusOf(row) == [Blank EXCEPT !.status = row.status]
\* p's statement is done; its hooks decide on the statuses as loaded and in memory.
Hooks(p, pc) == proc' = [proc EXCEPT ![p] = [pc |-> pc, orig |-> StatusOf(proc[p].orig),
                                             copy |-> StatusOf(proc[p].copy)]]

\* Requests that hold a copy of the row they may still save, sync or announce from.
Saving(q) == proc[q].pc \notin {"idle", "claim"}

\* The row changes to new by a statement of p; what that makes true is recorded.
Stores(p, new) ==
  /\ link' = new
  /\ untold' = (untold \/ (link.status \in Live /\ new.status \notin Live))
  /\ overlapped' = (overlapped \/ \E q \in Procs \ {p} : Saving(q))
  /\ reopened' = (reopened \/ (link.status \in Closed /\ new.status \in Live
                               /\ \E q \in Owners : At(q, "delete")))

-----------------------------------------------------------------------------
(* A reader, or the sweep, opens the link. *)

\* The transition RefreshLinkStatus sets on the loaded copy and saves; "none" when it
\* refuses without one or lets the reader go on.
RefreshTransition(row) ==
  CASE row.status \in Closed -> "none"
    [] row.status \notin Closed /\ Lapsed(row) -> "expired"
    [] row.status \notin Closed /\ ~Lapsed(row) /\ CapUsed(row) -> "revoked"
    [] OTHER -> "none"

\* A request loads the row (a missing slug is a 404) and RefreshLinkStatus decides on
\* that copy, with no statement in between: a transition to save, a refusal, or the
\* request goes on.
Open(p) ==
  /\ At(p, "idle")
  /\ link.status # "deleted"
  /\ LET next == RefreshTransition(link) IN
       \/ /\ next # "none"
          /\ proc' = [proc EXCEPT ![p] = [pc |-> "write", orig |-> link,
                                          copy |-> [link EXCEPT !.status = next]]]
       \/ /\ next = "none" /\ link.status = "active"
          /\ proc' = [proc EXCEPT ![p] = [pc |-> "claim", orig |-> link, copy |-> link]]
       \/ /\ next = "none" /\ link.status # "active"
          /\ UNCHANGED proc
  /\ UNCHANGED <<link, index, now, history, counters>>

\* A refused password or handshake, a 304, a probe, a grant read or the sweep:
\* the request ends without claiming a view.
TurnAway(r) == /\ At(r, "claim")
               /\ Leaves(r)
               /\ UNCHANGED <<link, index, now, history, counters>>

\* Variant: the cap is compared off by one.
ViewLeftOffByOne == link.maxViews = 0 \/ link.viewCount <= link.maxViews

\* The WHERE clause of the claiming UPDATE.
ViewLeft == link.maxViews = 0 \/ link.viewCount < link.maxViews

\* What ClaimLinkView reports: it counts from the copy, not from the row.
ReportedViews(copy) == copy.viewCount + 1
\* Variant: the last view is reported one too early.
ReportedLastEarly(copy) == copy.maxViews > 0 /\ ReportedViews(copy) + 1 >= copy.maxViews
ReportedLast(copy) == copy.maxViews > 0 /\ ReportedViews(copy) >= copy.maxViews

\* ClaimLinkView: one guarded UPDATE takes the view, then the copy decides whether
\* it was the last.
Claim(r) ==
  /\ At(r, "claim")
  /\ link.status # "deleted"
  /\ ViewLeft
  /\ link.maxViews = 0 => link.viewCount < MaxServed
  /\ link' = [link EXCEPT !.viewCount = @ + 1]
  /\ served' = served + 1
  /\ LET copy == proc[r].copy IN
       IF ReportedLast(copy)
       THEN /\ exhaustions' = exhaustions + 1
            /\ proc' = [proc EXCEPT ![r] = [pc |-> "close", orig |-> StatusOf(copy),
                                            copy |-> [Blank EXCEPT !.status = "revoked"]]]
       ELSE /\ UNCHANGED exhaustions
            /\ Leaves(r)
  /\ UNCHANGED <<index, now, untold, overlapped, reopened, attached, capEdits, counters>>

\* No row matched: a concurrent reader took the last view, or the link is gone.
ClaimRefused(r) == /\ At(r, "claim")
                   /\ link.status = "deleted" \/ ~ViewLeft
                   /\ Leaves(r)
                   /\ UNCHANGED <<link, index, now, history, counters>>

\* Variant: the raw UPDATE alone, telling neither the index nor the holder.
CloseAtCapSilently(r) ==
  /\ At(r, "close")
  /\ IF link.status = "deleted"
     THEN UNCHANGED <<link, untold, overlapped, reopened>>
     ELSE Stores(r, [link EXCEPT !.status = "revoked"])
  /\ Leaves(r)
  /\ UNCHANGED <<index, now, served, exhaustions, attached, capEdits, counters>>

\* The raw UPDATE of the status, which no link hook sees.
CloseAtCap(r) ==
  /\ At(r, "close")
  /\ IF link.status = "deleted"
     THEN UNCHANGED <<link, untold, overlapped, reopened>>
     ELSE Stores(r, [link EXCEPT !.status = "revoked"])
  /\ Hooks(r, "resync")
  /\ UNCHANGED <<index, now, served, exhaustions, attached, capEdits, counters>>

-----------------------------------------------------------------------------
(* app.Save and the hooks around it. *)

\* The columns that differ from the row as loaded, over the stored row.
Merged(orig, copy) ==
  [status     |-> IF copy.status # orig.status THEN copy.status ELSE link.status,
   viewCount  |-> IF copy.viewCount # orig.viewCount THEN copy.viewCount ELSE link.viewCount,
   maxViews   |-> IF copy.maxViews # orig.maxViews THEN copy.maxViews ELSE link.maxViews,
   expiresAt  |-> IF copy.expiresAt # orig.expiresAt THEN copy.expiresAt ELSE link.expiresAt,
   heldPaused |-> IF copy.heldPaused # orig.heldPaused THEN copy.heldPaused
                                                       ELSE link.heldPaused]

Saved(mode, orig, copy) == IF mode = "row" THEN copy ELSE Merged(orig, copy)

\* The UPDATE itself; it matches no row once the link is deleted.
Write(p) ==
  /\ At(p, "write")
  /\ IF link.status = "deleted"
     THEN UNCHANGED <<link, untold, overlapped, reopened>>
     ELSE \E mode \in SaveModes : Stores(p, Saved(mode, proc[p].orig, proc[p].copy))
  /\ Hooks(p, "sync")
  /\ UNCHANGED <<index, now, served, exhaustions, attached, capEdits, counters>>

\* Variant: the index follows the status as loaded.
SyncIndexBeforeChange(p) ==
  /\ proc[p].pc \in {"sync", "resync"}
  /\ index' = (proc[p].orig.status \in Live /\ link.status # "deleted")
  /\ Goto(p, "tell")
  /\ UNCHANGED <<link, now, history, counters>>

\* SyncGrantIndex with the status in memory.
SyncIndex(p) ==
  /\ proc[p].pc \in {"sync", "resync"}
  /\ index' = (proc[p].copy.status \in Live /\ link.status # "deleted")
  /\ Goto(p, "tell")
  /\ UNCHANGED <<link, now, history, counters>>

\* DispatchGrantEvents when the status differs from the loaded one; a failure to
\* queue is only logged.
Announce(p, queued) ==
  /\ At(p, "tell")
  /\ LET status == proc[p].copy.status IN
       untold' = (untold /\ ~(queued /\ status # proc[p].orig.status /\ status \in Closed))
  /\ Leaves(p)
  /\ UNCHANGED <<link, index, now, served, exhaustions, overlapped, reopened, attached, capEdits>>

Tell(p) == Announce(p, TRUE) /\ UNCHANGED counters

-----------------------------------------------------------------------------
(* The owner's requests and the tool's transactions. *)

Patches == [field : {"status"}, to : {"active", "paused", "revoked"}]
             \cup [field : {"maxViews"}, to : Caps]
             \cup [field : {"expiresAt"}, to : {0} \cup 1..MaxTime]

\* A status in the body also takes the link out of the tool's hands.
Patched(row, patch) ==
  CASE patch.field = "status" -> [row EXCEPT !.status = patch.to, !.heldPaused = FALSE]
    [] patch.field = "maxViews" -> [row EXCEPT !.maxViews = patch.to]
    [] OTHER -> [row EXCEPT !.expiresAt = patch.to]

Edits == edits + faults < MaxChanges /\ edits' = edits + 1 /\ UNCHANGED faults

\* PATCH: the row is loaded and the body applied to the copy.
Edit(o) ==
  /\ At(o, "idle")
  /\ link.status # "deleted"
  /\ Edits
  /\ \E patch \in Patches :
       /\ proc' = [proc EXCEPT ![o] = [pc |-> "write", orig |-> link, copy |-> Patched(link, patch)]]
       /\ capEdits' = IF patch.field = "maxViews" THEN capEdits + 1 ELSE capEdits
  /\ UNCHANGED <<link, index, now, served, exhaustions, untold, overlapped, reopened, attached>>

\* DELETE: the request loads the row.
OpenDelete(o) ==
  /\ At(o, "idle")
  /\ link.status # "deleted"
  /\ Edits
  /\ proc' = [proc EXCEPT ![o] = [pc |-> "delete", orig |-> StatusOf(link),
                                  copy |-> StatusOf(link)]]
  /\ UNCHANGED <<link, index, now, history>>

\* The DELETE itself: the index rows cascade with the link, whatever it has become. A
\* grant that was live as loaded is announced as a revoked one, any other not at all.
Delete(o) ==
  /\ At(o, "delete")
  /\ IF link.status = "deleted"
     THEN UNCHANGED <<link, index, untold, overlapped, reopened>>
     ELSE Stores(o, [link EXCEPT !.status = "deleted"]) /\ index' = FALSE
  /\ IF proc[o].copy.status \in Live
     THEN proc' = [proc EXCEPT ![o].pc = "tell", ![o].copy.status = "revoked"]
     ELSE Leaves(o)
  /\ UNCHANGED <<now, served, exhaustions, attached, capEdits, counters>>

\* holdLink, releaseLink, revokeLink and the detach of DisconnectConnection, each
\* inside the transaction that loads the link: what each stores.
Held(row) == IF row.status = "active"
             THEN [row EXCEPT !.status = "paused", !.heldPaused = TRUE] ELSE row
\* Variant: releasing wakes whatever was held, closed since or not.
ReleasedAny(row) ==
  IF ~row.heldPaused THEN row ELSE [row EXCEPT !.status = "active", !.heldPaused = FALSE]
Released(row) ==
  IF ~row.heldPaused THEN row
  ELSE [row EXCEPT !.status = IF row.status = "paused" THEN "active" ELSE @,
                   !.heldPaused = FALSE]
Disconnected(row) == [row EXCEPT !.status = "revoked", !.heldPaused = FALSE]
Detached(row) == [row EXCEPT !.heldPaused = FALSE]

\* A link that changes is saved with its hooks, and index and event commit with it.
ToolEdit(new) ==
  /\ attached
  /\ link.status # "deleted"
  /\ Edits
  /\ link' = new
  /\ IF new = link
     THEN UNCHANGED <<index, untold, overlapped>>
     ELSE /\ index' = (new.status \in Live)
          /\ untold' = (untold /\ ~(new.status # link.status /\ new.status \in Closed))
          /\ overlapped' = (overlapped \/ \E q \in Procs : Saving(q))
  /\ UNCHANGED <<now, proc, served, exhaustions, reopened, capEdits>>

PauseConnection == ToolEdit(Held(link)) /\ UNCHANGED attached
ResumeConnection == ToolEdit(Released(link)) /\ UNCHANGED attached
DisconnectConnection == /\ ToolEdit(Disconnected(link)) \/ ToolEdit(Detached(link))
                        /\ attached' = FALSE

-----------------------------------------------------------------------------
(* The clock and what can fail. *)

Tick == /\ now < MaxTime
        /\ now' = now + 1
        /\ UNCHANGED <<link, index, proc, history, counters>>

Fails == edits + faults < MaxChanges /\ faults' = faults + 1 /\ UNCHANGED edits

\* A statement fails: a save ends where it stood, a failed raw UPDATE of the status
\* skips the index and the event, and the claim path only logs a failed sync.
StatementFails(p) ==
  /\ proc[p].pc \in {"write", "sync", "close", "resync", "delete"}
  /\ Fails
  /\ IF At(p, "resync") THEN Goto(p, "tell") ELSE Leaves(p)
  /\ UNCHANGED <<link, index, now, history>>

QueueFails(p) == Announce(p, FALSE) /\ Fails

\* The server stops between two statements and restarts: only the row is left.
Crash == /\ Fails
         /\ proc # [p \in Procs |-> Idle]
         /\ proc' = [p \in Procs |-> Idle]
         /\ UNCHANGED <<link, index, now, history>>

Save(p) == Write(p) \/ SyncIndex(p) \/ Tell(p)

Next == \/ \E r \in Readers : Open(r) \/ TurnAway(r) \/ Claim(r) \/ ClaimRefused(r) \/ CloseAtCap(r)
        \/ \E p \in Procs : Save(p) \/ StatementFails(p) \/ QueueFails(p)
        \/ \E o \in Owners : Edit(o) \/ OpenDelete(o) \/ Delete(o)
        \/ PauseConnection \/ ResumeConnection \/ DisconnectConnection
        \/ Tick \/ Crash

Spec == Init /\ [][Next]_vars

-----------------------------------------------------------------------------
(* Properties. *)

TypeOK == /\ link \in Row
          /\ index \in BOOLEAN
          /\ now \in Nat
          /\ proc \in [Procs -> Proc]
          /\ served \in Nat /\ exhaustions \in Nat /\ capEdits \in Nat
          /\ untold \in BOOLEAN /\ overlapped \in BOOLEAN /\ reopened \in BOOLEAN /\ attached \in BOOLEAN
          /\ edits \in Nat /\ faults \in Nat

(* The inductive invariant: what the copies still say of the stored row. *)

\* A copy never counts more views than the row; while the cap is left alone it also
\* agrees on the cap; and a reader saves only a closing status.
CopyOK(p) ==
  /\ proc[p].orig.viewCount <= link.viewCount
  /\ At(p, "claim") => proc[p].copy = proc[p].orig
  /\ At(p, "write") => proc[p].copy.viewCount = proc[p].orig.viewCount
  /\ capEdits = 0 /\ proc[p].pc \in {"claim", "write"} =>
       proc[p].copy.maxViews = link.maxViews /\ proc[p].orig.maxViews = link.maxViews
  /\ p \in Readers /\ At(p, "write") => proc[p].copy.status \in Closed

\* The one exhausting claim of an unedited cap really took the last view.
LastViewOK == capEdits = 0 /\ exhaustions # 0 =>
                exhaustions = 1 /\ link.maxViews > 0 /\ link.viewCount = link.maxViews

LinksInv == /\ TypeOK
            /\ served = link.viewCount
            /\ \A p \in Procs : CopyOK(p)
            /\ LastViewOK

\* A reader was admitted when it opened the link while it was active and within
\* its expiry, and has not been answered.
Admitted == {r \in Readers : At(r, "claim")}

Budget == INSTANCE ViewBudget WITH
            cap <- link.maxViews,
            live <- link.status = "active" /\ ~Lapsed(link),
            served <- served,
            admitted <- Admitted

\* A link hands its data only to readers who opened it while it was live, and never
\* past the cap in force, however many readers, edits and failures interleave
\* (ClaimLinkView's single guarded UPDATE).
KeepsBudget == Budget!Spec

\* While the owner leaves the cap alone, at most one claim is told it took the last
\* view, and then every view is in fact used.
OneLastView == capEdits = 0 => /\ exhaustions <= 1
                               /\ exhaustions = 1 => link.viewCount = link.maxViews

\* A revoked or expired link is opened again only by an owner request that set its
\* status: no stale save, resume or auto-revoke brings it back.
ClosedStaysClosed ==
  [][link.status \in Closed /\ link'.status \in Live =>
       \E o \in Owners : /\ At(o, "write")
                         /\ proc[o].copy.status = link'.status
                         /\ proc[o].orig.status # link'.status]_vars

AtRest == \A p \in Procs : At(p, "idle")

\* Without failures, every closing of the grant (also by the raw UPDATE at the view
\* cap, which no hook sees, and by a delete) has queued an event to its holder once
\* the requests that were running are done, unless an owner's save opened the link while
\* a delete was under way that had loaded it: its hook decides on the row as loaded.
EveryClosingTold == AtRest /\ faults = 0 /\ ~reopened => ~untold

\* hooks/grants.go:71 "A deleted grant is a revoked one to whoever held it": the same,
\* whatever a delete overlaps.
EveryDeleteTold == AtRest /\ faults = 0 => ~untold

\* When saves do not overlap and none fails, the entry -> grant index holds exactly
\* the links that can still be read.
IndexCurrent == AtRest /\ faults = 0 /\ ~overlapped => (index <=> link.status \in Live)

\* links.go:69 "reports the new count plus whether this view exhausted it": once the
\* views are used and nothing failed, one of the claims said so.
LastViewReported == /\ AtRest /\ faults = 0 /\ capEdits = 0
                    /\ link.maxViews > 0 /\ link.viewCount = link.maxViews
                    => exhaustions = 1
=============================================================================
