----------------------------- MODULE LinksProofs -----------------------------
(***************************************************************************)
(* Proofs about Links for any number of readers, owners, caps and edits.   *)
(* The type invariant needs nothing of app.Save; the other theorems assume *)
(* that it writes the changed columns only, and fail without it: a whole-  *)
(* row save can roll a concurrent claim back.                              *)
(***************************************************************************)
EXTENDS Links, TLAPS

\* app.Save writes the columns that differ from the record as loaded.
ColumnSaves == SaveModes = {"columns"}

-----------------------------------------------------------------------------
(* Types. *)

LEMMA IdleType == Idle \in Proc
  BY DEF Idle, Blank, Proc, Row, Statuses, Live, Closed

\* Replacing a request's program counter, or resetting the request, keeps proc typed.
LEMMA ProcStep ==
  ASSUME TypeOK, NEW p \in Procs, NEW v \in Proc
  PROVE  [proc EXCEPT ![p] = v] \in [Procs -> Proc]
  BY DEF TypeOK

LEMMA GotoType ==
  ASSUME TypeOK, NEW p \in Procs, Goto(p, "tell")
  PROVE  proc' \in [Procs -> Proc]
  BY DEF TypeOK, Goto, Proc

\* The record of a status keeps the status and counts no view.
LEMMA StatusOfRow ==
  ASSUME NEW row \in Row
  PROVE  /\ StatusOf(row) \in Row /\ StatusOf(row).status = row.status
         /\ StatusOf(row).viewCount = 0
  BY DEF StatusOf, Blank, Row

LEMMA RevokedRow ==
  /\ [Blank EXCEPT !.status = "revoked"] \in Row
  /\ [Blank EXCEPT !.status = "revoked"].status = "revoked"
  BY DEF Blank, Row, Statuses, Closed

\* After a request's statement its hooks hold the two statuses, and nobody else moves.
LEMMA HooksMove ==
  ASSUME TypeOK, NEW p \in Procs, NEW pc \in {"sync", "resync"}, Hooks(p, pc)
  PROVE  /\ proc' \in [Procs -> Proc]
         /\ proc'[p].pc = pc /\ proc'[p].orig.viewCount = 0
         /\ proc'[p].orig.status = proc[p].orig.status
         /\ proc'[p].copy.status = proc[p].copy.status
         /\ \A q \in Procs \ {p} : proc'[q] = proc[q]
<1>1. proc \in [Procs -> Proc] /\ proc[p].orig \in Row /\ proc[p].copy \in Row
  BY DEF TypeOK, Proc
<1> DEFINE new == [pc |-> pc, orig |-> StatusOf(proc[p].orig), copy |-> StatusOf(proc[p].copy)]
<1>2. new \in Proc
  BY <1>1, StatusOfRow DEF Proc
<1>3. proc' = [proc EXCEPT ![p] = new]
  BY DEF Hooks
<1>4. /\ new.pc = pc /\ new.orig.viewCount = 0 /\ new.orig.status = proc[p].orig.status
      /\ new.copy.status = proc[p].copy.status
  BY <1>1, StatusOfRow
<1> HIDE DEF new
<1>5. proc' \in [Procs -> Proc] /\ proc'[p] = new /\ \A q \in Procs \ {p} : proc'[q] = proc[q]
  BY <1>1, <1>2, <1>3
<1>6. QED
  BY <1>4, <1>5

LEMMA LeavesType ==
  ASSUME TypeOK, NEW p \in Procs, Leaves(p)
  PROVE  proc' \in [Procs -> Proc]
  BY IdleType DEF TypeOK, Leaves

\* What a save stores is a row, in either mode.
LEMMA SavedType ==
  ASSUME TypeOK, NEW mode, NEW orig \in Row, NEW copy \in Row
  PROVE  Saved(mode, orig, copy) \in Row
  BY DEF TypeOK, Saved, Merged, Row

\* What a PATCH puts on its copy is a row.
LEMMA PatchedType ==
  ASSUME NEW row \in Row, NEW patch \in Patches
  PROVE  Patched(row, patch) \in Row
<1>1. CASE patch \in [field : {"status"}, to : {"active", "paused", "revoked"}]
  BY <1>1 DEF Patched, Row, Statuses, Live, Closed
<1>2. CASE patch \in [field : {"maxViews"}, to : Caps]
  BY <1>2, LinksAssumption DEF Patched, Row, LinksAssumption
<1>3. CASE patch \in [field : {"expiresAt"}, to : {0} \cup 1..MaxTime]
  BY <1>3, LinksAssumption DEF Patched, Row, LinksAssumption
<1>4. QED
  BY <1>1, <1>2, <1>3 DEF Patches

LEMMA StoresType ==
  ASSUME TypeOK, NEW p, NEW new \in Row, Stores(p, new)
  PROVE  /\ link' \in Row /\ untold' \in BOOLEAN /\ overlapped' \in BOOLEAN
         /\ reopened' \in BOOLEAN
  BY DEF TypeOK, Stores

LEMMA TypeInit == Init => TypeOK
<1> SUFFICES ASSUME Init
             PROVE  TypeOK
  OBVIOUS
<1>1. link \in Row
  <2>1. {0} \cup 1..MaxTime \subseteq Nat /\ Caps \subseteq Nat
    BY LinksAssumption DEF LinksAssumption
  <2>2. "active" \in Statuses
    BY DEF Statuses, Live
  <2>3. QED
    BY <2>1, <2>2 DEF Init, Row
<1>2. proc \in [Procs -> Proc]
  BY IdleType DEF Init
<1>3. QED
  BY <1>1, <1>2 DEF Init, TypeOK

\* No step of a request, the owner, the tool or a failure leaves the types.
LEMMA TypeStep == TypeOK /\ [Next]_vars => TypeOK'
<1> USE LinksAssumption DEF LinksAssumption
<1> SUFFICES ASSUME TypeOK, [Next]_vars
             PROVE  TypeOK'
  OBVIOUS
<1>1. ASSUME NEW r \in Readers, Open(r)
      PROVE  TypeOK'
  <2>1. r \in Procs
    BY DEF Procs
  <2>2. RefreshTransition(link) \in {"none", "expired", "revoked"}
    BY DEF RefreshTransition
  <2>3. proc' \in [Procs -> Proc]
    BY <1>1, <2>1, <2>2 DEF Open, TypeOK, Proc, Row, Statuses, Live, Closed
  <2>4. QED
    BY <1>1, <2>3 DEF Open, TypeOK, history, counters
<1>2. ASSUME NEW r \in Readers, TurnAway(r)
      PROVE  TypeOK'
  BY <1>2, LeavesType DEF TurnAway, TypeOK, history, counters, Procs
<1>3. ASSUME NEW r \in Readers, Claim(r)
      PROVE  TypeOK'
  <2>1. r \in Procs /\ proc[r] \in Proc
    BY DEF Procs, TypeOK
  <2>2. link' \in Row /\ served' \in Nat /\ exhaustions' \in Nat
    BY <1>3 DEF Claim, TypeOK, Row
  <2>3. CASE ReportedLast(proc[r].copy)
    <3> DEFINE new == [pc |-> "close", orig |-> StatusOf(proc[r].copy),
                       copy |-> [Blank EXCEPT !.status = "revoked"]]
    <3>0. new \in Proc
      BY <2>1, StatusOfRow, RevokedRow DEF Proc
    <3>1. proc' \in [Procs -> Proc]
      BY <1>3, <2>1, <2>3, <3>0 DEF Claim, TypeOK
    <3>2. QED
      BY <1>3, <2>2, <3>1 DEF Claim, TypeOK, counters
  <2>4. CASE ~ReportedLast(proc[r].copy)
    <3>1. proc' \in [Procs -> Proc]
      BY <1>3, <2>1, <2>4, LeavesType DEF Claim
    <3>2. QED
      BY <1>3, <2>2, <3>1 DEF Claim, TypeOK, counters
  <2>5. QED
    BY <2>3, <2>4
<1>4. ASSUME NEW r \in Readers, ClaimRefused(r)
      PROVE  TypeOK'
  BY <1>4, LeavesType DEF ClaimRefused, TypeOK, history, counters, Procs
<1>5. ASSUME NEW r \in Readers, CloseAtCap(r)
      PROVE  TypeOK'
  <2>1. proc' \in [Procs -> Proc]
    BY <1>5, HooksMove DEF CloseAtCap, Procs
  <2>2. [link EXCEPT !.status = "revoked"] \in Row
    BY DEF TypeOK, Row, Statuses, Closed
  <2>3. link' \in Row /\ untold' \in BOOLEAN /\ overlapped' \in BOOLEAN /\ reopened' \in BOOLEAN
    BY <1>5, <2>2, StoresType DEF CloseAtCap, TypeOK
  <2>4. QED
    BY <1>5, <2>1, <2>3 DEF CloseAtCap, TypeOK, counters
<1>6. ASSUME NEW p \in Procs, Write(p)
      PROVE  TypeOK'
  <2>1. proc' \in [Procs -> Proc]
    BY <1>6, HooksMove DEF Write
  <2>2. proc[p].orig \in Row /\ proc[p].copy \in Row
    BY DEF TypeOK, Proc
  <2>3. link' \in Row /\ untold' \in BOOLEAN /\ overlapped' \in BOOLEAN /\ reopened' \in BOOLEAN
    <3>1. CASE link.status = "deleted"
      BY <1>6, <3>1 DEF Write, TypeOK
    <3>2. CASE link.status # "deleted"
      <4>1. PICK mode \in SaveModes : Stores(p, Saved(mode, proc[p].orig, proc[p].copy))
        BY <1>6, <3>2 DEF Write
      <4>2. QED
        BY <4>1, <2>2, SavedType, StoresType
    <3>3. QED
      BY <3>1, <3>2
  <2>4. QED
    BY <1>6, <2>1, <2>3 DEF Write, TypeOK, counters
<1>7. ASSUME NEW p \in Procs, SyncIndex(p)
      PROVE  TypeOK'
  BY <1>7, GotoType DEF SyncIndex, TypeOK, history, counters
<1>8. ASSUME NEW p \in Procs, Tell(p)
      PROVE  TypeOK'
  <2>1. proc' \in [Procs -> Proc]
    BY <1>8, LeavesType DEF Tell, Announce
  <2>2. QED
    BY <1>8, <2>1 DEF Tell, Announce, TypeOK, counters
<1>9. ASSUME NEW p \in Procs, StatementFails(p)
      PROVE  TypeOK'
  <2>1. proc' \in [Procs -> Proc]
    BY <1>9, LeavesType, GotoType DEF StatementFails
  <2>2. QED
    BY <1>9, <2>1 DEF StatementFails, Fails, TypeOK, history
<1>10. ASSUME NEW p \in Procs, QueueFails(p)
       PROVE  TypeOK'
  <2>1. proc' \in [Procs -> Proc]
    BY <1>10, LeavesType DEF QueueFails, Announce
  <2>2. QED
    BY <1>10, <2>1 DEF QueueFails, Announce, Fails, TypeOK
<1>11. ASSUME NEW o \in Owners, Edit(o)
       PROVE  TypeOK'
  <2>1. o \in Procs
    BY DEF Procs
  <2>2. PICK patch \in Patches :
          /\ proc' = [proc EXCEPT ![o] = [pc |-> "write", orig |-> link,
                                          copy |-> Patched(link, patch)]]
          /\ capEdits' = IF patch.field = "maxViews" THEN capEdits + 1 ELSE capEdits
    BY <1>11 DEF Edit
  <2>3. Patched(link, patch) \in Row
    BY PatchedType DEF TypeOK
  <2>4. proc' \in [Procs -> Proc] /\ capEdits' \in Nat
    BY <2>1, <2>2, <2>3 DEF TypeOK, Proc
  <2>5. QED
    BY <1>11, <2>4 DEF Edit, Edits, TypeOK
<1>12. ASSUME NEW o \in Owners, OpenDelete(o)
       PROVE  TypeOK'
  <2>1. o \in Procs /\ link \in Row
    BY DEF Procs, TypeOK
  <2>2. [pc |-> "delete", orig |-> StatusOf(link), copy |-> StatusOf(link)] \in Proc
    BY <2>1, StatusOfRow DEF Proc
  <2>3. proc' \in [Procs -> Proc]
    BY <1>12, <2>1, <2>2 DEF OpenDelete, TypeOK
  <2>4. QED
    BY <1>12, <2>3 DEF OpenDelete, Edits, TypeOK, history
<1>12a. ASSUME NEW o \in Owners, Delete(o)
       PROVE  TypeOK'
  <2>1. o \in Procs
    BY DEF Procs
  <2>2. [link EXCEPT !.status = "deleted"] \in Row
    BY DEF TypeOK, Row, Statuses
  <2>3. /\ link' \in Row /\ untold' \in BOOLEAN /\ overlapped' \in BOOLEAN
        /\ reopened' \in BOOLEAN /\ index' \in BOOLEAN
    BY <1>12a, <2>2, StoresType DEF Delete, TypeOK
  <2>4. proc' \in [Procs -> Proc]
    <3>1. proc[o] \in Proc
      BY <2>1 DEF TypeOK
    <3>2. [proc[o] EXCEPT !.pc = "tell", !.copy.status = "revoked"] \in Proc
      BY <3>1 DEF Proc, Row, Statuses, Closed
    <3>3. QED
      BY <1>12a, <2>1, <3>2, LeavesType DEF Delete, TypeOK
  <2>5. QED
    BY <1>12a, <2>3, <2>4 DEF Delete, TypeOK, counters
<1>13. ASSUME PauseConnection \/ ResumeConnection \/ DisconnectConnection
       PROVE  TypeOK'
  <2>1. /\ Held(link) \in Row /\ Released(link) \in Row
        /\ Disconnected(link) \in Row /\ Detached(link) \in Row
    BY DEF Held, Released, Disconnected, Detached, TypeOK, Row, Statuses, Live, Closed
  <2>2. PICK new \in Row : ToolEdit(new)
    BY <1>13, <2>1 DEF PauseConnection, ResumeConnection, DisconnectConnection
  <2>3. attached' \in BOOLEAN
    BY <1>13 DEF PauseConnection, ResumeConnection, DisconnectConnection, TypeOK
  <2>4. QED
    <3>1. edits' \in Nat /\ faults' \in Nat
      BY <2>2 DEF ToolEdit, Edits, TypeOK
    <3>2. index' \in BOOLEAN /\ untold' \in BOOLEAN /\ overlapped' \in BOOLEAN
      <4>1. CASE new = link
        BY <2>2, <4>1 DEF ToolEdit, TypeOK
      <4>2. CASE new # link
        <5>1. index' \in BOOLEAN
          BY <2>2, <4>2 DEF ToolEdit
        <5>2. untold' \in BOOLEAN
          BY <2>2, <4>2 DEF ToolEdit
        <5>3. overlapped' \in BOOLEAN
          BY <2>2, <4>2 DEF ToolEdit, Saving
        <5>4. QED
          BY <5>1, <5>2, <5>3
      <4>3. QED
        BY <4>1, <4>2
    <3>3. link' \in Row
      BY <2>2 DEF ToolEdit
    <3>4. UNCHANGED <<now, proc, served, exhaustions, reopened, capEdits>>
      BY <2>2 DEF ToolEdit
    <3>5. QED
      BY <2>3, <3>1, <3>2, <3>3, <3>4 DEF TypeOK
<1>14. CASE Tick
  BY <1>14 DEF Tick, TypeOK, history, counters
<1>15. CASE Crash
  BY <1>15, IdleType DEF Crash, Fails, TypeOK, history
<1>16. CASE UNCHANGED vars
  BY <1>16 DEF vars, TypeOK
<1>17. QED
  BY <1>1, <1>2, <1>3, <1>4, <1>5, <1>6, <1>7, <1>8, <1>9, <1>10, <1>11, <1>12,
     <1>13, <1>14, <1>15, <1>16, <1>12a DEF Next, Save

\* The stored row, every copy of it and every counter keep their types, however
\* requests, edits and failures interleave.
THEOREM TypeCorrect == Spec => []TypeOK
<1>1. QED
  BY TypeInit, TypeStep, PTL DEF Spec

-----------------------------------------------------------------------------
(* The inductive invariant LinksInv, when app.Save writes changed columns. *)

\* What no step undoes: views only grow, and an unedited cap stays.
Grows == /\ link'.viewCount >= link.viewCount
         /\ capEdits' = 0 => capEdits = 0 /\ link'.maxViews = link.maxViews

\* A request a step leaves alone keeps its CopyOK.
LEMMA CopyKept ==
  ASSUME LinksInv, TypeOK', Grows, NEW q \in Procs, proc'[q] = proc[q]
  PROVE  CopyOK(q)'
<1>1. CopyOK(q) /\ proc[q] \in Proc /\ link \in Row /\ link' \in Row
  BY DEF LinksInv, TypeOK
<1>2. QED
  BY <1>1 DEF CopyOK, Grows, At, Proc, Row

\* A request past its last use of the copy only has its view count to keep.
LEMMA CopyPast ==
  ASSUME LinksInv, TypeOK', Grows, NEW q \in Procs,
         proc'[q].orig.viewCount \in {0, proc[q].orig.viewCount},
         proc'[q].pc \notin {"claim", "write"}
  PROVE  CopyOK(q)'
<1>1. CopyOK(q) /\ proc[q] \in Proc /\ link \in Row /\ link' \in Row
  BY DEF LinksInv, TypeOK
<1>2. QED
  BY <1>1 DEF CopyOK, Grows, At, Proc, Row

LEMMA CopyIdle ==
  ASSUME TypeOK', NEW q \in Procs, proc'[q] = Idle
  PROVE  CopyOK(q)'
  BY DEF TypeOK, CopyOK, At, Idle, Blank, Row

\* The step after which a request is idle, or needs no more of its copy than the status.
Past(p) == \/ Leaves(p)
           \/ Goto(p, "tell")
           \/ \E pc \in {"sync", "resync"} : Hooks(p, pc)

\* A step of one request that is idle or past its copy afterwards.
LEMMA CopiesAfter ==
  ASSUME LinksInv, TypeOK', Grows, NEW p \in Procs, Past(p)
  PROVE  \A q \in Procs : CopyOK(q)'
<1> SUFFICES ASSUME NEW q \in Procs
             PROVE  CopyOK(q)'
  OBVIOUS
<1>1. TypeOK /\ proc \in [Procs -> Proc]
  BY DEF LinksInv, TypeOK
<1>2. CASE q # p
  <2>1. proc'[q] = proc[q]
    BY <1>1, <1>2, HooksMove DEF Past, Leaves, Goto
  <2>2. QED
    BY <2>1, CopyKept
<1>3. CASE q = p /\ Leaves(p)
  <2>1. proc'[q] = Idle
    BY <1>1, <1>3 DEF Leaves
  <2>2. QED
    BY <2>1, CopyIdle
<1>4. CASE q = p /\ Goto(p, "tell")
  <2>1. proc[q] \in Proc
    BY <1>1
  <2>2. proc'[q].orig = proc[q].orig /\ proc'[q].pc \notin {"claim", "write"}
    BY <1>1, <1>4, <2>1 DEF Goto, Proc
  <2>3. QED
    BY <2>2, CopyPast
<1>5. CASE q = p /\ \E pc \in {"sync", "resync"} : Hooks(p, pc)
  <2>1. proc'[q].orig.viewCount = 0 /\ proc'[q].pc \notin {"claim", "write"}
    BY <1>1, <1>5, HooksMove
  <2>2. QED
    BY <2>1, CopyPast
<1>6. QED
  BY <1>2, <1>3, <1>4, <1>5 DEF Past

\* Steps that leave every counter of the invariant alone.
LEMMA LastViewKept ==
  ASSUME LinksInv, UNCHANGED <<exhaustions, served>>, link' \in Row,
         link'.viewCount = link.viewCount, Grows
  PROVE  LastViewOK' /\ served' = link'.viewCount
  BY DEF LinksInv, LastViewOK, Grows

\* A column save leaves the view count alone, and the cap too unless it was edited.
LEMMA SaveGrows ==
  ASSUME ColumnSaves, LinksInv, TypeOK', NEW p \in Procs, Write(p)
  PROVE  Grows /\ link'.viewCount = link.viewCount
<1>1. /\ CopyOK(p) /\ proc[p] \in Proc /\ link \in Row /\ capEdits' = capEdits
      /\ At(p, "write")
  BY DEF LinksInv, TypeOK, Write
<1>2. CASE link.status = "deleted"
  BY <1>1, <1>2 DEF Write, Grows, Row
<1>3. CASE link.status # "deleted"
  <2>1. link' = Merged(proc[p].orig, proc[p].copy)
    BY <1>3 DEF ColumnSaves, Write, Stores, Saved
  <2>2. proc[p].copy.viewCount = proc[p].orig.viewCount
    BY <1>1 DEF CopyOK
  <2>3. capEdits = 0 => proc[p].copy.maxViews = proc[p].orig.maxViews
    BY <1>1 DEF CopyOK, At
  <2>4. link'.viewCount = link.viewCount /\ (capEdits = 0 => link'.maxViews = link.maxViews)
    BY <2>1, <2>2, <2>3 DEF Merged
  <2>5. QED
    BY <1>1, <2>4 DEF Grows, Row
<1>4. QED
  BY <1>2, <1>3

LEMMA LinksInvInit == Init => LinksInv
<1> SUFFICES ASSUME Init
             PROVE  LinksInv
  OBVIOUS
<1>1. TypeOK
  BY TypeInit
<1>2. served = link.viewCount
  BY DEF Init
<1>3. \A p \in Procs : CopyOK(p)
  BY <1>1 DEF Init, CopyOK, At, Idle, Blank, TypeOK, Row
<1>4. LastViewOK
  BY DEF Init, LastViewOK
<1>5. QED
  BY <1>1, <1>2, <1>3, <1>4 DEF LinksInv

\* The step that takes a view.
LEMMA ClaimInv ==
  ASSUME LinksInv, TypeOK', NEW r \in Readers, Claim(r)
  PROVE  LinksInv'
<1>1. /\ r \in Procs /\ CopyOK(r) /\ proc \in [Procs -> Proc] /\ link \in Row
      /\ exhaustions \in Nat /\ LastViewOK /\ served = link.viewCount /\ At(r, "claim")
  BY DEF LinksInv, TypeOK, Procs, Claim
<1>2. /\ link'.viewCount = link.viewCount + 1 /\ link'.maxViews = link.maxViews
      /\ link.maxViews = 0 \/ link.viewCount < link.maxViews
      /\ served' = served + 1 /\ capEdits' = capEdits
  BY <1>1 DEF Claim, ViewLeft, Row
<1>3. Grows
  BY <1>1, <1>2 DEF Grows, Row
<1>4. /\ proc[r].copy = proc[r].orig /\ proc[r].orig.viewCount <= link.viewCount
      /\ proc[r].copy.viewCount \in Nat
      /\ capEdits = 0 => proc[r].copy.maxViews = link.maxViews
  BY <1>1 DEF CopyOK, At, Proc, Row
<1>5. CASE ReportedLast(proc[r].copy)
  <2>1. exhaustions' = exhaustions + 1
    BY <1>5 DEF Claim
  <2>2. \A q \in Procs : CopyOK(q)'
    <3> SUFFICES ASSUME NEW q \in Procs
                 PROVE  CopyOK(q)'
      OBVIOUS
    <3>1. CASE q # r
      <4>1. proc'[q] = proc[q]
        BY <1>1, <1>5, <3>1 DEF Claim
      <4>2. QED
        BY <1>3, <4>1, CopyKept
    <3>2. CASE q = r
      <4>1. proc[r].copy \in Row
        BY <1>1 DEF Proc
      <4>2. proc'[r].orig = StatusOf(proc[r].copy) /\ proc'[r].pc = "close"
        BY <1>1, <1>5 DEF Claim
      <4>2a. proc'[r].orig.viewCount = 0
        BY <4>1, <4>2, StatusOfRow
      <4>3. QED
        BY <1>3, <3>2, <4>2, <4>2a, CopyPast
    <3>3. QED
      BY <3>1, <3>2
  <2>3. LastViewOK'
    <3> SUFFICES ASSUME capEdits = 0
                 PROVE  /\ exhaustions' = 1 /\ link'.maxViews > 0
                        /\ link'.viewCount = link'.maxViews
      BY <1>2 DEF LastViewOK
    <3>1. proc[r].copy.maxViews > 0 /\ proc[r].copy.viewCount + 1 >= proc[r].copy.maxViews
      BY <1>5 DEF ReportedLast, ReportedViews
    <3>2. link.maxViews > 0 /\ link.viewCount < link.maxViews
      BY <1>1, <1>2, <1>4, <3>1 DEF Row
    <3>3. exhaustions = 0
      BY <1>1, <3>2 DEF LastViewOK, Row
    <3>4. link'.viewCount = link'.maxViews
      BY <1>1, <1>2, <1>4, <3>1, <3>2 DEF Row
    <3>5. QED
      BY <1>2, <2>1, <3>2, <3>3, <3>4
  <2>4. QED
    BY <1>1, <1>2, <2>2, <2>3 DEF LinksInv
<1>6. CASE ~ReportedLast(proc[r].copy)
  <2>1. exhaustions' = exhaustions /\ Leaves(r)
    BY <1>6 DEF Claim
  <2>2. \A q \in Procs : CopyOK(q)'
    BY <1>1, <1>3, <2>1, CopiesAfter DEF Past
  <2>3. LastViewOK'
    BY <1>1, <1>2, <2>1 DEF LastViewOK, Row
  <2>4. QED
    BY <1>1, <1>2, <2>2, <2>3 DEF LinksInv
<1>7. QED
  BY <1>5, <1>6

\* The steps after which a request is idle or past its copy, and that take no view.
LEMMA QuietInv ==
  ASSUME LinksInv, TypeOK', NEW p \in Procs, Past(p),
         link'.viewCount = link.viewCount, Grows,
         UNCHANGED <<served, exhaustions>>
  PROVE  LinksInv'
<1>1. \A q \in Procs : CopyOK(q)'
  BY CopiesAfter
<1>2. LastViewOK' /\ served' = link'.viewCount
  BY LastViewKept DEF TypeOK
<1>3. QED
  BY <1>1, <1>2 DEF LinksInv

\* A request that starts on a copy of the stored row, changed by next or not.
LEMMA StartInv ==
  ASSUME LinksInv, TypeOK', NEW p \in Procs, NEW pc \in {"claim", "write"}, NEW copy \in Row,
         proc' = [proc EXCEPT ![p] = [pc |-> pc, orig |-> link, copy |-> copy]],
         UNCHANGED <<link, served, exhaustions>>,
         copy.viewCount = link.viewCount,
         pc = "claim" => copy = link,
         (capEdits' = capEdits /\ copy.maxViews = link.maxViews) \/ capEdits' = capEdits + 1,
         p \in Readers /\ pc = "write" => copy.status \in Closed
  PROVE  LinksInv'
<1>1. proc \in [Procs -> Proc] /\ link \in Row /\ capEdits \in Nat
  BY DEF LinksInv, TypeOK
<1>2. Grows
  BY <1>1 DEF Grows, Row
<1>3. proc'[p] = [pc |-> pc, orig |-> link, copy |-> copy]
  BY <1>1
<1>4. CopyOK(p)'
  <2>1. proc'[p].pc = pc /\ proc'[p].orig = link /\ proc'[p].copy = copy
    BY <1>3
  <2>2. link.viewCount <= link.viewCount
    BY <1>1 DEF Row
  <2>3. capEdits' = 0 => copy.maxViews = link.maxViews
    BY <1>1
  <2>4. QED
    BY <2>1, <2>2, <2>3 DEF CopyOK, At
<1>5. \A q \in Procs : CopyOK(q)'
  <2> SUFFICES ASSUME NEW q \in Procs \ {p}
               PROVE  CopyOK(q)'
    BY <1>4
  <2>1. proc'[q] = proc[q]
    BY <1>1
  <2>2. QED
    BY <1>2, <2>1, CopyKept
<1>6. LastViewOK' /\ served' = link'.viewCount
  BY <1>1, <1>2, LastViewKept
<1>7. QED
  BY <1>5, <1>6 DEF LinksInv

\* The owner, the tool, the clock: the requests keep their copies.
LEMMA OthersInv ==
  ASSUME LinksInv, TypeOK', Grows, link'.viewCount = link.viewCount,
         UNCHANGED <<proc, served, exhaustions>>
  PROVE  LinksInv'
<1>1. \A q \in Procs : CopyOK(q)'
  BY CopyKept
<1>2. LastViewOK' /\ served' = link'.viewCount
  BY LastViewKept DEF TypeOK
<1>3. QED
  BY <1>1, <1>2 DEF LinksInv

\* No step breaks the inductive invariant.
LEMMA LinksInvStep == ColumnSaves /\ LinksInv /\ [Next]_vars => LinksInv'
<1> SUFFICES ASSUME ColumnSaves, LinksInv, [Next]_vars
             PROVE  LinksInv'
  OBVIOUS
<1> USE DEF history, counters
<1>a. TypeOK'
  BY TypeStep DEF LinksInv
<1>b. link \in Row /\ capEdits \in Nat /\ proc \in [Procs -> Proc]
  BY DEF LinksInv, TypeOK
<1>c. UNCHANGED <<link, capEdits>> => Grows /\ link'.viewCount = link.viewCount
  BY <1>b DEF Grows, Row
<1>1. ASSUME NEW r \in Readers, Open(r)
      PROVE  LinksInv'
  <2>1. r \in Procs /\ UNCHANGED <<link, served, exhaustions, capEdits>>
    BY <1>1 DEF Open, Procs
  <2> DEFINE next == RefreshTransition(link)
  <2>2. CASE next # "none"
    <3> DEFINE copy == [link EXCEPT !.status = next]
    <3>1. proc' = [proc EXCEPT ![r] = [pc |-> "write", orig |-> link, copy |-> copy]]
      BY <1>1, <2>2 DEF Open
    <3>2. next \in Closed
      BY <2>2 DEF RefreshTransition, Closed
    <3>3. /\ copy \in Row /\ copy.viewCount = link.viewCount
          /\ copy.maxViews = link.maxViews /\ copy.status \in Closed
      BY <1>b, <3>2 DEF Row, Statuses
    <3> HIDE DEF copy
    <3>4. QED
      BY <1>a, <2>1, <3>1, <3>3, StartInv
  <2>3. CASE proc' = [proc EXCEPT ![r] = [pc |-> "claim", orig |-> link, copy |-> link]]
    BY <1>a, <1>b, <2>1, <2>3, StartInv
  <2>4. CASE UNCHANGED proc
    BY <1>a, <1>c, <2>1, <2>4, OthersInv
  <2>5. QED
    BY <1>1, <2>2, <2>3, <2>4 DEF Open
<1>2. ASSUME NEW r \in Readers, TurnAway(r) \/ ClaimRefused(r)
      PROVE  LinksInv'
  BY <1>2, <1>a, <1>c, QuietInv DEF TurnAway, ClaimRefused, Procs, Past
<1>3. ASSUME NEW r \in Readers, Claim(r)
      PROVE  LinksInv'
  BY <1>3, <1>a, ClaimInv
<1>4. ASSUME NEW r \in Readers, CloseAtCap(r)
      PROVE  LinksInv'
  <2>1. Grows /\ link'.viewCount = link.viewCount
    BY <1>4, <1>b DEF CloseAtCap, Stores, Grows, Row
  <2>2. r \in Procs /\ Past(r) /\ UNCHANGED <<served, exhaustions>>
    BY <1>4 DEF CloseAtCap, Procs, Past
  <2>3. QED
    BY <1>a, <2>1, <2>2, QuietInv
<1>5. ASSUME NEW p \in Procs, Write(p)
      PROVE  LinksInv'
  <2>1. Grows /\ link'.viewCount = link.viewCount
    BY <1>5, <1>a, SaveGrows
  <2>2. Past(p) /\ UNCHANGED <<served, exhaustions>>
    BY <1>5 DEF Write, Past
  <2>3. QED
    BY <1>a, <2>1, <2>2, QuietInv
<1>6. ASSUME NEW p \in Procs, SyncIndex(p)
      PROVE  LinksInv'
  BY <1>6, <1>a, <1>c, QuietInv DEF SyncIndex, Past
<1>7. ASSUME NEW p \in Procs, Tell(p) \/ QueueFails(p)
      PROVE  LinksInv'
  <2>1. Past(p) /\ UNCHANGED <<link, served, exhaustions, capEdits>>
    BY <1>7 DEF Tell, QueueFails, Announce, Past
  <2>2. QED
    BY <1>a, <1>c, <2>1, QuietInv
<1>8. ASSUME NEW p \in Procs, StatementFails(p)
      PROVE  LinksInv'
  BY <1>8, <1>a, <1>c, QuietInv DEF StatementFails, Past
<1>9. ASSUME NEW o \in Owners, Edit(o)
      PROVE  LinksInv'
  <2>1. o \in Procs /\ o \notin Readers /\ UNCHANGED <<link, served, exhaustions>>
    BY <1>9, LinksAssumption DEF Edit, Procs, LinksAssumption
  <2>2. PICK patch \in Patches :
          /\ proc' = [proc EXCEPT ![o] = [pc |-> "write", orig |-> link,
                                          copy |-> Patched(link, patch)]]
          /\ capEdits' = IF patch.field = "maxViews" THEN capEdits + 1 ELSE capEdits
    BY <1>9 DEF Edit
  <2>3. /\ Patched(link, patch).viewCount = link.viewCount
        /\ patch.field # "maxViews" => Patched(link, patch).maxViews = link.maxViews
    BY <1>b DEF Patched, Row
  <2>4. Patched(link, patch) \in Row
    BY <1>b, PatchedType
  <2>5. QED
    BY <1>a, <2>1, <2>2, <2>3, <2>4, StartInv
<1>10. ASSUME NEW o \in Owners, OpenDelete(o) \/ Delete(o)
       PROVE  LinksInv'
  <2>1. o \in Procs /\ UNCHANGED <<served, exhaustions, capEdits>>
    BY <1>10 DEF OpenDelete, Delete, Procs
  <2>2. Grows /\ link'.viewCount = link.viewCount
    BY <1>10, <1>b, <1>c, <2>1 DEF OpenDelete, Delete, Stores, Grows, Row
  <2>3. PICK new : proc' = [proc EXCEPT ![o] = new]
    BY <1>10 DEF OpenDelete, Delete, Leaves
  <2>4. CopyOK(o)'
    <3>1. CASE OpenDelete(o)
      <4>1. proc'[o].orig = StatusOf(link) /\ proc'[o].pc = "delete"
        BY <1>b, <2>1, <3>1 DEF OpenDelete
      <4>2. proc'[o].orig.viewCount = 0
        BY <1>b, <4>1, StatusOfRow
      <4>3. QED
        BY <2>1, <2>2, <1>a, <4>1, <4>2, CopyPast
    <3>2. CASE Delete(o) /\ proc[o].copy.status \in Live
      <4>1. proc[o] \in Proc
        BY <1>b, <2>1
      <4>2. proc'[o].orig = proc[o].orig /\ proc'[o].pc = "tell"
        BY <1>b, <2>1, <3>2, <4>1 DEF Delete, Proc
      <4>3. QED
        BY <2>1, <2>2, <1>a, <4>2, CopyPast
    <3>3. CASE Delete(o) /\ proc[o].copy.status \notin Live
      <4>1. proc'[o] = Idle
        BY <1>b, <2>1, <3>3 DEF Delete, Leaves
      <4>2. QED
        BY <1>a, <2>1, <4>1, CopyIdle
    <3>4. QED
      BY <1>10, <3>1, <3>2, <3>3
  <2>5. \A q \in Procs : CopyOK(q)'
    <3> SUFFICES ASSUME NEW q \in Procs \ {o}
                 PROVE  CopyOK(q)'
      BY <2>4
    <3>1. proc'[q] = proc[q]
      BY <1>b, <2>3
    <3>2. QED
      BY <1>a, <2>2, <3>1, CopyKept
  <2>6. LastViewOK' /\ served' = link'.viewCount
    BY <1>a, <2>1, <2>2, LastViewKept DEF TypeOK
  <2>7. QED
    BY <1>a, <2>5, <2>6 DEF LinksInv
<1>11. ASSUME PauseConnection \/ ResumeConnection \/ DisconnectConnection
       PROVE  LinksInv'
  <2> DEFINE Edited == {Held(link), Released(link), Disconnected(link), Detached(link)}
  <2>1. PICK new \in Edited : ToolEdit(new)
    BY <1>11 DEF PauseConnection, ResumeConnection, DisconnectConnection
  <2>2. new.viewCount = link.viewCount /\ new.maxViews = link.maxViews
    BY <1>b DEF Held, Released, Disconnected, Detached, Row
  <2>3. link' = new /\ UNCHANGED <<proc, served, exhaustions, capEdits>>
    BY <2>1 DEF ToolEdit
  <2>4. Grows /\ link'.viewCount = link.viewCount
    BY <1>b, <2>2, <2>3 DEF Grows, Row
  <2>5. QED
    BY <1>a, <2>3, <2>4, OthersInv
<1>12. CASE Tick
  BY <1>12, <1>a, <1>c, OthersInv DEF Tick
<1>13. CASE Crash
  <2>1. \A q \in Procs : proc'[q] = Idle
    BY <1>13 DEF Crash
  <2>2. UNCHANGED <<link, served, exhaustions, capEdits>>
    BY <1>13 DEF Crash
  <2>3. \A q \in Procs : CopyOK(q)'
    BY <1>a, <2>1, CopyIdle
  <2>4. LastViewOK' /\ served' = link'.viewCount
    BY <1>b, <1>c, <2>2, LastViewKept
  <2>5. QED
    BY <1>a, <2>3, <2>4 DEF LinksInv
<1>14. CASE UNCHANGED vars
  BY <1>14, <1>a, <1>c, OthersInv DEF vars
<1>15. QED
  BY <1>1, <1>2, <1>3, <1>4, <1>5, <1>6, <1>7, <1>8, <1>9, <1>10, <1>11, <1>12, <1>13,
     <1>14 DEF Next, Save

\* The copies requests hold stay consistent with the stored row as far as LinksInv
\* says: views handed out are counted, and an unedited cap is exhausted once at most.
THEOREM LinksInvariant == ColumnSaves => (Spec => []LinksInv)
<1> SUFFICES ASSUME ColumnSaves
             PROVE  Spec => []LinksInv
  OBVIOUS
<1>1. LinksInv /\ [Next]_vars => LinksInv'
  BY LinksInvStep
<1>2. QED
  BY LinksInvInit, <1>1, PTL DEF Spec

\* However many readers race for the last view of a cap the owner leaves alone, at
\* most one of their claims is told it took it, and then all views are used.
THEOREM OneLastViewHolds == ColumnSaves => (Spec => []OneLastView)
<1> SUFFICES ASSUME ColumnSaves
             PROVE  Spec => []OneLastView
  OBVIOUS
<1>1. Spec => []LinksInv
  BY LinksInvariant
<1>2. LinksInv => OneLastView
  BY DEF LinksInv, LastViewOK, OneLastView, TypeOK
<1>3. QED
  BY <1>1, <1>2, PTL

-----------------------------------------------------------------------------
(* A closed link is reopened by an owner request only. *)

\* What brings a closed link back, in one step.
Reopens == link.status \in Closed /\ link'.status \in Live
ReopenedByOwner == \E o \in Owners : /\ At(o, "write")
                                     /\ proc[o].copy.status = link'.status
                                     /\ proc[o].orig.status # link'.status

LEMMA ReopenStep == ColumnSaves /\ LinksInv /\ [Next]_vars => (Reopens => ReopenedByOwner)
<1> SUFFICES ASSUME ColumnSaves, LinksInv, [Next]_vars, Reopens
             PROVE  ReopenedByOwner
  OBVIOUS
<1> USE DEF history, counters
<1>1. /\ link \in Row /\ link.status \in Closed /\ link'.status \in Live
      /\ Live \cap Closed = {} /\ "deleted" \notin Live
  BY DEF LinksInv, TypeOK, Reopens, Live, Closed
<1>2. link'.status # link.status
  BY <1>1
<1>3. ASSUME NEW p \in Procs, Write(p)
      PROVE  ReopenedByOwner
  <2>1. link.status # "deleted"
    BY <1>1 DEF Closed
  <2>2. link' = Merged(proc[p].orig, proc[p].copy) /\ At(p, "write")
    BY <1>3, <2>1 DEF ColumnSaves, Write, Stores, Saved
  <2>3. proc[p].copy.status = link'.status /\ proc[p].orig.status # link'.status
    BY <1>2, <2>2 DEF Merged
  <2>4. p \notin Readers
    <3>1. p \in Readers => proc[p].copy.status \in Closed
      BY <2>2 DEF LinksInv, CopyOK
    <3>2. QED
      BY <1>1, <2>3, <3>1
  <2>5. QED
    BY <2>2, <2>3, <2>4 DEF ReopenedByOwner, Procs
<1>4. ASSUME NEW r \in Readers, Claim(r) \/ CloseAtCap(r)
      PROVE  FALSE
  <2>1. CASE Claim(r)
    BY <1>1, <1>2, <2>1 DEF Claim, Row
  <2>2. CASE CloseAtCap(r)
    BY <1>1, <1>2, <2>2 DEF CloseAtCap, Stores, Row, Live
  <2>3. QED
    BY <1>4, <2>1, <2>2
<1>5. ASSUME NEW o \in Owners, Delete(o)
      PROVE  FALSE
  BY <1>1, <1>5 DEF Delete, Stores, Row
<1>6. ASSUME PauseConnection \/ ResumeConnection \/ DisconnectConnection
      PROVE  FALSE
  <2>1. link' \in {Held(link), Released(link), Disconnected(link), Detached(link)}
    BY <1>6 DEF PauseConnection, ResumeConnection, DisconnectConnection, ToolEdit
  <2>2. /\ Held(link).status \notin Live /\ Released(link).status \notin Live
        /\ Disconnected(link).status \notin Live /\ Detached(link).status \notin Live
    BY <1>1 DEF Held, Released, Disconnected, Detached, Row, Closed, Live
  <2>3. QED
    BY <1>1, <2>1, <2>2
<1>7. CASE UNCHANGED link
  BY <1>2, <1>7
<1>8. QED
  BY <1>3, <1>4, <1>5, <1>6, <1>7
  DEF Next, Save, Open, TurnAway, ClaimRefused, SyncIndex, Tell, QueueFails, Announce,
      StatementFails, Edit, OpenDelete, Tick, Crash, vars

\* The auto-revoke at the view cap, the expiry sweep, a stale save and a resume of the
\* tool never bring a revoked or expired link back; only an owner's status change does.
THEOREM ClosedStaysClosedHolds == ColumnSaves => (Spec => ClosedStaysClosed)
<1> SUFFICES ASSUME ColumnSaves
             PROVE  Spec => ClosedStaysClosed
  OBVIOUS
<1>1. Spec => []LinksInv
  BY LinksInvariant
<1>2. LinksInv /\ [Next]_vars => [Reopens => ReopenedByOwner]_vars
  BY ReopenStep
<1>3. QED
  BY <1>1, <1>2, PTL DEF Spec, ClosedStaysClosed, Reopens, ReopenedByOwner

-----------------------------------------------------------------------------
(* Links implements ViewBudget. *)

\* A step that hands nothing out and admits nobody new is a change of the budget.
LEMMA ChangeStep ==
  ASSUME TypeOK', UNCHANGED served, Admitted' \subseteq Admitted
  PROVE  Budget!Change
<1>1. link'.maxViews \in Nat
  BY DEF TypeOK, Row
<1>2. (link.status = "active" /\ ~Lapsed(link))' \in BOOLEAN
  OBVIOUS
<1>3. QED
  BY <1>1, <1>2 DEF Budget!Change

\* A request that leaves or moves past its claim admits nobody.
LEMMA NoneAdmitted ==
  ASSUME TypeOK, NEW p \in Procs, Past(p)
  PROVE  Admitted' \subseteq Admitted
<1> SUFFICES ASSUME NEW r \in Readers, At(r, "claim")'
             PROVE  At(r, "claim")
  BY DEF Admitted
<1>1. proc \in [Procs -> Proc] /\ r \in Procs
  BY DEF TypeOK, Procs
<1>2. CASE \E pc \in {"sync", "resync"} : Hooks(p, pc)
  BY <1>1, <1>2, HooksMove DEF At
<1>3. CASE Leaves(p) \/ Goto(p, "tell")
  BY <1>1, <1>3 DEF At, Leaves, Goto, Idle, Proc
<1>4. QED
  BY <1>2, <1>3 DEF Past

LEMMA BudgetInit == Init => Budget!Init
<1> SUFFICES ASSUME Init
             PROVE  Budget!Init
  OBVIOUS
<1>1. link.maxViews \in Nat
  BY TypeInit DEF TypeOK, Row
<1>2. (link.status = "active" /\ ~Lapsed(link)) \in BOOLEAN
  OBVIOUS
<1>3. Admitted = {}
  BY DEF Init, Admitted, At, Idle, Procs
<1>4. QED
  BY <1>1, <1>2, <1>3 DEF Budget!Init, Init

LEMMA BudgetStep == ColumnSaves /\ LinksInv /\ [Next]_vars => [Budget!Next]_(Budget!vars)
<1> SUFFICES ASSUME ColumnSaves, LinksInv, [Next]_vars
             PROVE  [Budget!Next]_(Budget!vars)
  OBVIOUS
<1> USE DEF history, counters
<1>a. TypeOK /\ TypeOK'
  BY TypeStep DEF LinksInv
<1>b. link \in Row /\ proc \in [Procs -> Proc] /\ served = link.viewCount
  BY <1>a DEF LinksInv, TypeOK
<1>c. Budget!Change => Budget!Next
  BY DEF Budget!Next
<1>d. UNCHANGED proc => Admitted' \subseteq Admitted
  BY DEF Admitted, At
<1>1. ASSUME NEW r \in Readers, Open(r)
      PROVE  [Budget!Next]_(Budget!vars)
  <2>1. r \in Procs /\ UNCHANGED <<link, now, served>>
    BY <1>1 DEF Open, Procs
  <2>2. CASE /\ RefreshTransition(link) = "none" /\ link.status = "active"
             /\ proc' = [proc EXCEPT ![r] = [pc |-> "claim", orig |-> link, copy |-> link]]
    <3>1. Admitted' = Admitted \cup {r}
      BY <1>b, <2>1, <2>2 DEF Admitted, At, Procs
    <3>2. ~Lapsed(link)
      BY <2>2 DEF RefreshTransition, Closed
    <3>3. UNCHANGED <<link.maxViews, (link.status = "active" /\ ~Lapsed(link))>>
      BY <2>1 DEF Lapsed
    <3>4. Budget!Admit(r)
      BY <2>1, <2>2, <3>1, <3>2, <3>3 DEF Budget!Admit
    <3>5. QED
      BY <3>4 DEF Budget!Next
  <2>3. CASE proc' = [proc EXCEPT ![r] = [pc |-> "write", orig |-> link,
                        copy |-> [link EXCEPT !.status = RefreshTransition(link)]]]
    <3>1. Admitted' \subseteq Admitted
      BY <1>b, <2>1, <2>3 DEF Admitted, At, Procs
    <3>2. QED
      BY <1>a, <1>c, <2>1, <3>1, ChangeStep
  <2>4. CASE UNCHANGED proc
    BY <1>a, <1>c, <1>d, <2>1, <2>4, ChangeStep
  <2>5. QED
    BY <1>1, <2>2, <2>3, <2>4 DEF Open
<1>2. ASSUME NEW r \in Readers, Claim(r)
      PROVE  [Budget!Next]_(Budget!vars)
  <2>1. r \in Procs /\ At(r, "claim") /\ served' = served + 1 /\ UNCHANGED now
    BY <1>2 DEF Claim, Procs
  <2>2. /\ link' = [link EXCEPT !.viewCount = @ + 1]
        /\ link.maxViews = 0 \/ served < link.maxViews
    BY <1>2, <1>b DEF Claim, ViewLeft
  <2>3. Admitted' = Admitted \ {r}
    <3>1. ~At(r, "claim")'
      BY <1>2, <1>b, <2>1 DEF Claim, At, Leaves, Idle, Proc
    <3>2. ASSUME NEW q \in Readers, q # r
          PROVE  At(q, "claim")' <=> At(q, "claim")
      <4>1. proc'[q] = proc[q]
        BY <1>2, <1>b, <3>2 DEF Claim, Leaves, Procs
      <4>2. QED
        BY <4>1 DEF At
    <3>3. QED
      BY <3>1, <3>2 DEF Admitted
  <2>4. UNCHANGED <<link.maxViews, link.status, link.expiresAt>>
    BY <1>b, <2>2 DEF Row
  <2>5. UNCHANGED (link.status = "active" /\ ~Lapsed(link))
    BY <2>1, <2>4 DEF Lapsed
  <2>6. r \in Admitted
    BY <2>1 DEF Admitted
  <2>7. Budget!Serve(r)
    BY <2>1, <2>2, <2>3, <2>4, <2>5, <2>6 DEF Budget!Serve
  <2>8. QED
    BY <2>7 DEF Budget!Next
<1>3. ASSUME NEW p \in Procs, UNCHANGED served, Past(p)
      PROVE  [Budget!Next]_(Budget!vars)
  BY <1>3, <1>a, <1>c, NoneAdmitted, ChangeStep
<1>4. ASSUME NEW r \in Readers, TurnAway(r) \/ ClaimRefused(r) \/ CloseAtCap(r)
      PROVE  [Budget!Next]_(Budget!vars)
  BY <1>3, <1>4 DEF TurnAway, ClaimRefused, CloseAtCap, Procs, Past
<1>5. ASSUME NEW p \in Procs, Save(p) \/ StatementFails(p) \/ QueueFails(p)
      PROVE  [Budget!Next]_(Budget!vars)
  BY <1>3, <1>5 DEF Save, Write, SyncIndex, Tell, QueueFails, Announce, StatementFails, Past
<1>6. ASSUME NEW o \in Owners, Edit(o) \/ OpenDelete(o) \/ Delete(o)
      PROVE  [Budget!Next]_(Budget!vars)
  <2>1. o \in Procs /\ o \notin Readers /\ UNCHANGED served
    BY <1>6, LinksAssumption DEF Edit, OpenDelete, Delete, Procs, LinksAssumption
  <2>2. \A r \in Readers : proc'[r] = proc[r]
    <3>1. PICK v : proc' = [proc EXCEPT ![o] = v]
      BY <1>6 DEF Edit, OpenDelete, Delete, Leaves
    <3>2. QED
      BY <1>b, <2>1, <3>1 DEF Procs
  <2>3. Admitted' \subseteq Admitted
    BY <2>2 DEF Admitted, At
  <2>4. QED
    BY <1>a, <1>c, <2>1, <2>3, ChangeStep
<1>7. ASSUME PauseConnection \/ ResumeConnection \/ DisconnectConnection
      PROVE  [Budget!Next]_(Budget!vars)
  <2>1. UNCHANGED <<proc, served>>
    BY <1>7 DEF PauseConnection, ResumeConnection, DisconnectConnection, ToolEdit
  <2>2. QED
    BY <1>a, <1>c, <1>d, <2>1, ChangeStep
<1>8. CASE Tick
  BY <1>8, <1>a, <1>c, <1>d, ChangeStep DEF Tick
<1>9. CASE Crash
  <2>1. Admitted' \subseteq Admitted
    BY <1>9 DEF Crash, Admitted, At, Idle, Procs
  <2>2. QED
    BY <1>9, <1>a, <1>c, <2>1, ChangeStep DEF Crash
<1>10. CASE UNCHANGED vars
  BY <1>10, <1>a, <1>c, <1>d, ChangeStep DEF vars
<1>11. QED
  BY <1>1, <1>2, <1>4, <1>5, <1>6, <1>7, <1>8, <1>9, <1>10 DEF Next

\* Links implements ViewBudget: data is handed out only to a reader who opened the
\* link while it was live, and never past the cap in force at that moment.
THEOREM KeepsBudgetHolds == ColumnSaves => (Spec => KeepsBudget)
<1> SUFFICES ASSUME ColumnSaves
             PROVE  Spec => KeepsBudget
  OBVIOUS
<1>1. Spec => []LinksInv
  BY LinksInvariant
<1>2. LinksInv /\ [Next]_vars => [Budget!Next]_(Budget!vars)
  BY BudgetStep
<1>3. QED
  BY <1>1, <1>2, BudgetInit, PTL DEF Spec, KeepsBudget, Budget!Spec

-----------------------------------------------------------------------------
(* Every closing is told, and the index follows the row: what the requests under *)
(* way still owe.                                                                *)

\* What a request's copies say of the status, from its own point of view.
StatusOK(p) ==
  /\ At(p, "claim") => proc[p].copy.status = "active"
  /\ proc[p].pc \in {"close", "resync"} => /\ proc[p].orig.status = "active"
                                           /\ proc[p].copy.status = "revoked"
  /\ At(p, "write") => proc[p].orig.status # "deleted" /\ proc[p].copy.status # "deleted"
  /\ At(p, "delete") => proc[p].orig.status = proc[p].copy.status

StatusInv == TypeOK /\ \A p \in Procs : StatusOK(p)

\* A request that has stored a closing and still has its event to queue.
Announcing(p) == /\ proc[p].pc \in {"sync", "resync", "tell"}
                 /\ proc[p].copy.status \in Closed
                 /\ proc[p].copy.status # proc[p].orig.status

\* Unless a save opens the link meanwhile, a delete that loaded it closed finds it so.
DeleteInv == ~reopened =>
  \A o \in Owners : At(o, "delete") /\ proc[o].copy.status \notin Live => link.status \notin Live

\* A closing nobody was told of yet is in the hands of a request under way.
ToldInv == faults = 0 /\ ~reopened /\ untold => \E p \in Procs : Announcing(p)

Syncing(p) == proc[p].pc \in {"sync", "resync"}
Clean == faults = 0 /\ ~overlapped

\* While no save overlaps another and none fails: a copy about to be saved has the
\* stored status, a copy about to be synced has it after the save, and the index is
\* behind the row only while such a sync is due.
IndexInv == Clean =>
  /\ \A p \in Procs : At(p, "write") => proc[p].orig.status = link.status
  /\ \A p \in Procs : At(p, "close") => link.status # "deleted"
  /\ \A p \in Procs : Syncing(p) => proc[p].copy.status = link.status
  /\ (index <=> link.status \in Live) \/ \E p \in Procs : Syncing(p)

TellInv == StatusInv /\ ToldInv /\ IndexInv

\* Nobody's copies but p's change.
OnlyMoves(p) == \A q \in Procs \ {p} : proc'[q] = proc[q]

LEMMA OnlyMovesGoto ==
  ASSUME TypeOK, NEW p \in Procs, NEW pc, Goto(p, pc)
  PROVE  /\ OnlyMoves(p) /\ proc'[p].pc = pc
         /\ proc'[p].orig = proc[p].orig /\ proc'[p].copy = proc[p].copy
<1>1. proc \in [Procs -> Proc] /\ proc[p] \in Proc
  BY DEF TypeOK
<1>2. QED
  BY <1>1 DEF Goto, OnlyMoves, Proc

LEMMA OnlyMovesHooks ==
  ASSUME TypeOK, NEW p \in Procs, NEW pc \in {"sync", "resync"}, Hooks(p, pc)
  PROVE  /\ OnlyMoves(p) /\ proc'[p].pc = pc
         /\ proc'[p].orig.status = proc[p].orig.status
         /\ proc'[p].copy.status = proc[p].copy.status
  BY HooksMove DEF OnlyMoves

LEMMA OnlyMovesLeaves ==
  ASSUME TypeOK, NEW p \in Procs, Leaves(p)
  PROVE  OnlyMoves(p) /\ proc'[p] = Idle
  BY DEF TypeOK, Leaves, OnlyMoves

LEMMA IdleSays == Idle.pc = "idle"
  BY DEF Idle

LEMMA StatusMoves ==
  ASSUME StatusInv, TypeOK', NEW p \in Procs, OnlyMoves(p), StatusOK(p)'
  PROVE  StatusInv'
  BY DEF StatusInv, StatusOK, OnlyMoves, At

\* A request moves and no closing is left without a request that will announce it.
LEMMA ToldMoves ==
  ASSUME ToldInv, NEW p \in Procs, OnlyMoves(p), faults' = 0 => faults = 0,
         reopened => reopened',
         untold' => untold \/ Announcing(p)' \/ reopened',
         Announcing(p) => Announcing(p)' \/ ~untold'
  PROVE  ToldInv'
<1> SUFFICES ASSUME faults' = 0, ~reopened', untold', ~Announcing(p)'
             PROVE  \E q \in Procs : Announcing(q)'
  BY DEF ToldInv
<1>1. PICK q \in Procs : Announcing(q)
  BY DEF ToldInv
<1>2. q # p
  BY <1>1
<1>3. Announcing(q)'
  BY <1>1, <1>2 DEF OnlyMoves, Announcing
<1>4. QED
  BY <1>3

\* A request moves without storing a status or syncing the index.
LEMMA IndexQuiet ==
  ASSUME IndexInv, NEW p \in Procs, OnlyMoves(p), Clean' => Clean,
         link'.status = link.status, index' = index,
         At(p, "write")' => proc'[p].orig.status = link.status,
         At(p, "close")' => link.status # "deleted",
         Syncing(p)' => Syncing(p) /\ proc'[p].copy = proc[p].copy,
         Syncing(p) => Syncing(p)'
  PROVE  IndexInv'
<1> SUFFICES ASSUME Clean'
             PROVE  IndexInv'
  BY DEF IndexInv
<1>0. Clean
  OBVIOUS
<1>1. \A q \in Procs : At(q, "write")' => proc'[q].orig.status = link'.status
  BY <1>0 DEF IndexInv, OnlyMoves, At
<1>2. \A q \in Procs : At(q, "close")' => link'.status # "deleted"
  BY <1>0 DEF IndexInv, OnlyMoves, At
<1>3. \A q \in Procs : Syncing(q)' => proc'[q].copy.status = link'.status
  BY <1>0 DEF IndexInv, OnlyMoves, Syncing
<1>4. (index' <=> link'.status \in Live) \/ \E q \in Procs : Syncing(q)'
  <2>1. CASE index <=> link.status \in Live
    BY <2>1
  <2>2. CASE \E q \in Procs : Syncing(q)
    BY <2>2 DEF OnlyMoves, Syncing
  <2>3. QED
    BY <1>0, <2>1, <2>2 DEF IndexInv
<1>5. QED
  BY <1>1, <1>2, <1>3, <1>4 DEF IndexInv

\* A request stores a status while nobody else is saving.
LEMMA IndexStored ==
  ASSUME NEW p \in Procs, OnlyMoves(p),
         Clean' => \A q \in Procs \ {p} : ~Saving(q),
         ~At(p, "write")', ~At(p, "close")',
         Clean' /\ Syncing(p)' => proc'[p].copy.status = link'.status,
         Syncing(p)' \/ (index' <=> link'.status \in Live)
  PROVE  IndexInv'
<1> SUFFICES ASSUME Clean'
             PROVE  IndexInv'
  BY DEF IndexInv
<1>1. \A q \in Procs \ {p} : proc'[q].pc \in {"idle", "claim"}
  BY DEF OnlyMoves, Saving
<1>2. \A q \in Procs : q # p => ~At(q, "write")' /\ ~At(q, "close")' /\ ~Syncing(q)'
  BY <1>1 DEF At, Syncing
<1>3. QED
  BY <1>2 DEF IndexInv

LEMMA TellInit == Init => TellInv
<1> SUFFICES ASSUME Init
             PROVE  TellInv
  OBVIOUS
<1>1. \A p \in Procs : At(p, "idle")
  BY IdleSays DEF Init, At
<1>2. StatusInv
  BY <1>1, TypeInit DEF StatusInv, StatusOK, At
<1>3. ToldInv
  BY DEF Init, ToldInv
<1>4. link.status = "active" /\ index = TRUE
  BY DEF Init
<1>5. IndexInv
  BY <1>1, <1>4 DEF IndexInv, At, Syncing, Live
<1>6. QED
  BY <1>2, <1>3, <1>5 DEF TellInv

\* A request starts with a fresh copy of the row, to save a status or to claim a view.
LEMMA TellStarts ==
  ASSUME TellInv, TypeOK', NEW p \in Procs, At(p, "idle"),
         NEW pc \in {"claim", "write"}, NEW copy \in Row,
         proc' = [proc EXCEPT ![p] = [pc |-> pc, orig |-> link, copy |-> copy]],
         pc = "claim" => copy.status = "active",
         link.status # "deleted", copy.status # "deleted",
         UNCHANGED <<link, index, untold, overlapped, reopened, faults>>
  PROVE  TellInv'
<1>1. proc \in [Procs -> Proc]
  BY DEF TellInv, StatusInv, TypeOK
<1>2. OnlyMoves(p)
  BY <1>1 DEF OnlyMoves
<1>3. proc'[p].pc = pc /\ proc'[p].orig = link /\ proc'[p].copy = copy
  BY <1>1
<1>4. StatusOK(p)'
  BY <1>3 DEF StatusOK, At
<1>5. StatusInv'
  BY <1>2, <1>4, StatusMoves DEF TellInv
<1>6. ~Announcing(p) /\ ~Syncing(p) /\ ~Syncing(p)' /\ ~At(p, "close")'
  BY <1>3 DEF Announcing, Syncing, At
<1>7. ToldInv'
  BY <1>2, <1>6, ToldMoves DEF TellInv
<1>8. IndexInv'
  BY <1>2, <1>3, <1>6, IndexQuiet DEF TellInv, Clean
<1>9. QED
  BY <1>5, <1>7, <1>8 DEF TellInv

\* A reader that was to claim ends without storing anything.
LEMMA TellEnds ==
  ASSUME TellInv, TypeOK', NEW p \in Procs, At(p, "claim"), Leaves(p),
         link'.status = link.status, UNCHANGED <<index, untold, overlapped, reopened, faults>>
  PROVE  TellInv'
<1>1. OnlyMoves(p) /\ At(p, "idle")'
  BY OnlyMovesLeaves, IdleSays DEF At, TellInv, StatusInv
<1>2. StatusInv'
  BY <1>1, StatusMoves DEF TellInv, StatusOK, At
<1>3. ~Announcing(p) /\ ~Syncing(p) /\ ~Syncing(p)' /\ ~At(p, "close")' /\ ~At(p, "write")'
  BY <1>1 DEF Announcing, Syncing, At
<1>4. ToldInv'
  BY <1>1, <1>3, ToldMoves DEF TellInv
<1>5. IndexInv'
  BY <1>1, <1>3, IndexQuiet DEF TellInv, Clean
<1>6. QED
  BY <1>2, <1>4, <1>5 DEF TellInv

LEMMA TellClaims ==
  ASSUME TellInv, TypeOK', NEW r \in Readers, Claim(r)
  PROVE  TellInv'
<1>1. /\ r \in Procs /\ At(r, "claim") /\ link \in Row /\ proc \in [Procs -> Proc]
      /\ proc[r] \in Proc /\ StatusOK(r)
  BY DEF Claim, Procs, TellInv, StatusInv, TypeOK
<1>2. /\ link'.status = link.status /\ link.status # "deleted"
      /\ UNCHANGED <<index, untold, overlapped, reopened, faults>>
  BY <1>1 DEF Claim, Row, counters
<1>3. CASE ReportedLast(proc[r].copy)
  <2> DEFINE new == [pc |-> "close", orig |-> StatusOf(proc[r].copy),
                     copy |-> [Blank EXCEPT !.status = "revoked"]]
  <2>0. proc' = [proc EXCEPT ![r] = new]
    BY <1>3 DEF Claim
  <2>1. /\ OnlyMoves(r) /\ proc'[r].pc = "close" /\ proc'[r].copy.status = "revoked"
        /\ proc'[r].orig.status = proc[r].copy.status
    <3>1. new.pc = "close" /\ new.orig.status = proc[r].copy.status /\ new.copy.status = "revoked"
      BY <1>1, StatusOfRow, RevokedRow DEF Proc
    <3> HIDE DEF new
    <3>2. OnlyMoves(r) /\ proc'[r] = new
      BY <1>1, <2>0 DEF OnlyMoves
    <3>3. QED
      BY <3>1, <3>2
  <2>2. StatusOK(r)'
    BY <1>1, <2>1 DEF StatusOK, At
  <2>3. StatusInv'
    BY <1>1, <2>1, <2>2, StatusMoves DEF TellInv
  <2>4. ~Announcing(r) /\ ~Syncing(r) /\ ~Syncing(r)' /\ ~At(r, "write")'
    BY <1>1, <2>1 DEF Announcing, Syncing, At
  <2>5. ToldInv'
    BY <1>1, <1>2, <2>1, <2>4, ToldMoves DEF TellInv
  <2>6. IndexInv'
    BY <1>1, <1>2, <2>1, <2>4, IndexQuiet DEF TellInv, Clean
  <2>7. QED
    BY <2>3, <2>5, <2>6 DEF TellInv
<1>4. CASE ~ReportedLast(proc[r].copy)
  <2>1. Leaves(r)
    BY <1>4 DEF Claim
  <2>2. QED
    BY <1>1, <1>2, <2>1, TellEnds
<1>5. QED
  BY <1>3, <1>4

\* The auto-revoke at the view cap: its request has index and event still to do.
LEMMA TellCloses ==
  ASSUME TellInv, TypeOK', NEW r \in Readers, CloseAtCap(r)
  PROVE  TellInv'
<1>1. /\ r \in Procs /\ At(r, "close") /\ link \in Row /\ StatusOK(r)
      /\ UNCHANGED <<index, faults>> /\ (reopened => reopened')
  BY DEF CloseAtCap, Procs, TellInv, StatusInv, TypeOK, counters, Stores
<1>2. /\ OnlyMoves(r) /\ proc'[r].pc = "resync" /\ proc'[r].orig.status = "active"
      /\ proc'[r].copy.status = "revoked"
  BY <1>1, OnlyMovesHooks DEF CloseAtCap, StatusOK, At, TellInv, StatusInv
<1>3. StatusInv'
  BY <1>1, <1>2, StatusMoves DEF TellInv, StatusOK, At
<1>4. Announcing(r)' /\ Syncing(r)' /\ ~At(r, "write")' /\ ~At(r, "close")'
  BY <1>2 DEF Announcing, Syncing, At, Closed
<1>5. ToldInv'
  BY <1>1, <1>2, <1>4, ToldMoves DEF TellInv
<1>6. IndexInv'
  <2>1. CASE link.status = "deleted"
    <3>1. ~Clean
      BY <1>1, <2>1 DEF TellInv, IndexInv
    <3>2. ~Clean'
      BY <1>1, <2>1, <3>1 DEF CloseAtCap, Clean
    <3>3. QED
      BY <3>2 DEF IndexInv
  <2>2. CASE link.status # "deleted"
    <3>1. link'.status = "revoked" /\ (Clean' => \A q \in Procs \ {r} : ~Saving(q))
      BY <1>1, <2>2 DEF CloseAtCap, Stores, Clean, Row
    <3>2. QED
      BY <1>1, <1>2, <1>4, <3>1, IndexStored
  <2>3. QED
    BY <2>1, <2>2
<1>7. QED
  BY <1>3, <1>5, <1>6 DEF TellInv

\* app.Save of changed columns: what it closes, its own status change says.
LEMMA TellWrites ==
  ASSUME ColumnSaves, TellInv, TypeOK', NEW p \in Procs, Write(p)
  PROVE  TellInv'
<1> DEFINE orig == proc[p].orig
           copy == proc[p].copy
<1>1. /\ At(p, "write") /\ link \in Row /\ StatusOK(p) /\ orig \in Row /\ copy \in Row
      /\ UNCHANGED <<index, faults>> /\ (reopened => reopened')
  BY DEF Write, TellInv, StatusInv, TypeOK, counters, Proc, Stores
<1>2. /\ OnlyMoves(p) /\ proc'[p].pc = "sync" /\ proc'[p].orig.status = orig.status
      /\ proc'[p].copy.status = copy.status
  BY OnlyMovesHooks DEF Write, TellInv, StatusInv
<1>3. StatusInv'
  BY <1>2, StatusMoves DEF TellInv, StatusOK, At
<1>4. ~Announcing(p) /\ Syncing(p)' /\ ~At(p, "write")' /\ ~At(p, "close")'
  BY <1>1, <1>2 DEF Announcing, Syncing, At
<1>5. /\ orig.status # "deleted" /\ copy.status # "deleted"
      /\ Clean => orig.status = link.status
  BY <1>1 DEF StatusOK, TellInv, IndexInv
<1>6. CASE link.status = "deleted"
  <2>1. UNCHANGED <<link, untold, overlapped, reopened>>
    BY <1>6 DEF Write
  <2>2. ToldInv'
    BY <1>1, <1>2, <1>4, <2>1, ToldMoves DEF TellInv
  <2>3. ~Clean'
    BY <1>1, <1>5, <1>6, <2>1 DEF Clean
  <2>4. QED
    BY <1>3, <2>2, <2>3 DEF TellInv, IndexInv
<1>7. CASE link.status # "deleted"
  <2>1. Stores(p, Merged(orig, copy))
    BY <1>7 DEF Write, ColumnSaves, Saved
  <2>2. link'.status = IF copy.status # orig.status THEN copy.status ELSE link.status
    BY <2>1 DEF Stores, Merged
  <2>3. untold' => untold \/ Announcing(p)'
    <3> SUFFICES ASSUME link.status \in Live, link'.status \notin Live
                 PROVE  Announcing(p)'
      BY <2>1 DEF Stores
    <3>1. copy.status # orig.status /\ copy.status \notin Live
      BY <2>2
    <3>2. copy.status \in Closed
      BY <1>1, <1>5, <3>1 DEF Row, Statuses
    <3>3. QED
      BY <1>2, <3>1, <3>2 DEF Announcing
  <2>4. ToldInv'
    BY <1>1, <1>2, <1>4, <2>3, ToldMoves DEF TellInv
  <2>5. Clean' => Clean /\ \A q \in Procs \ {p} : ~Saving(q)
    BY <1>1, <2>1 DEF Stores, Clean
  <2>6. Clean' => copy.status = link'.status
    BY <1>5, <2>2, <2>5
  <2>7. IndexInv'
    BY <1>2, <1>4, <2>5, <2>6, IndexStored
  <2>8. QED
    BY <1>3, <2>4, <2>7 DEF TellInv
<1>8. QED
  BY <1>6, <1>7

LEMMA TellSyncs ==
  ASSUME TellInv, TypeOK', NEW p \in Procs, SyncIndex(p)
  PROVE  TellInv'
<1>1. /\ Syncing(p) /\ UNCHANGED <<link, untold, overlapped, reopened, faults>>
      /\ index' = (proc[p].copy.status \in Live /\ link.status # "deleted")
  BY DEF SyncIndex, Syncing, history, counters
<1>2. /\ OnlyMoves(p) /\ proc'[p].pc = "tell" /\ proc'[p].orig = proc[p].orig
      /\ proc'[p].copy = proc[p].copy
  BY OnlyMovesGoto DEF SyncIndex, TellInv, StatusInv
<1>3. StatusInv'
  BY <1>2, StatusMoves DEF TellInv, StatusOK, At
<1>4. ToldInv'
  BY <1>1, <1>2, ToldMoves DEF TellInv, Announcing
<1>5. IndexInv'
  <2> SUFFICES ASSUME Clean
               PROVE  IndexInv'
    BY <1>1 DEF IndexInv, Clean
  <2>1. proc[p].copy.status = link.status
    BY <1>1 DEF TellInv, IndexInv
  <2>2. index' <=> link'.status \in Live
    BY <1>1, <2>1 DEF Live
  <2>3. \A q \in Procs : At(q, "write")' => proc'[q].orig.status = link'.status
    BY <1>1, <1>2 DEF TellInv, IndexInv, OnlyMoves, At
  <2>4. \A q \in Procs : At(q, "close")' => link'.status # "deleted"
    BY <1>1, <1>2 DEF TellInv, IndexInv, OnlyMoves, At
  <2>5. \A q \in Procs : Syncing(q)' => proc'[q].copy.status = link'.status
    BY <1>1, <1>2 DEF TellInv, IndexInv, OnlyMoves, Syncing
  <2>6. QED
    BY <2>2, <2>3, <2>4, <2>5 DEF IndexInv
<1>6. QED
  BY <1>3, <1>4, <1>5 DEF TellInv

LEMMA TellTells ==
  ASSUME TellInv, TypeOK', NEW p \in Procs, Tell(p)
  PROVE  TellInv'
<1>1. /\ At(p, "tell") /\ Leaves(p) /\ UNCHANGED <<link, index, overlapped, reopened, faults>>
      /\ untold' = (untold /\ ~(/\ proc[p].copy.status # proc[p].orig.status
                               /\ proc[p].copy.status \in Closed))
  BY DEF Tell, Announce, counters
<1>2. OnlyMoves(p) /\ At(p, "idle")'
  BY <1>1, OnlyMovesLeaves, IdleSays DEF At, TellInv, StatusInv
<1>3. StatusInv'
  BY <1>2, StatusMoves DEF TellInv, StatusOK, At
<1>4. ToldInv'
  BY <1>1, <1>2, ToldMoves DEF TellInv, Announcing
<1>5. ~Syncing(p) /\ ~Syncing(p)' /\ ~At(p, "close")' /\ ~At(p, "write")'
  BY <1>1, <1>2 DEF Syncing, At
<1>6. IndexInv'
  BY <1>1, <1>2, <1>5, IndexQuiet DEF TellInv, Clean
<1>7. QED
  BY <1>3, <1>4, <1>6 DEF TellInv

\* A delete under way that loaded the link closed: no step opens the link behind it
\* without the record saying so.
LEMMA DeleteStep == TypeOK /\ DeleteInv /\ [Next]_vars => DeleteInv'
<1> SUFFICES ASSUME TypeOK, DeleteInv, [Next]_vars, ~reopened', NEW o \in Owners,
                    At(o, "delete")', proc'[o].copy.status \notin Live
             PROVE  link'.status \notin Live
  BY DEF DeleteInv
<1> USE DEF history, counters
<1>a. o \in Procs /\ proc \in [Procs -> Proc] /\ link \in Row
  BY DEF TypeOK, Procs
<1>1. CASE OpenDelete(o)
  BY <1>1, <1>a, StatusOfRow DEF OpenDelete
<1>2. CASE ~OpenDelete(o)
  <2>1. At(o, "delete") /\ proc[o].copy = proc'[o].copy
    <3>1. ASSUME NEW r \in Readers, Open(r) \/ Claim(r)
          PROVE  proc'[o] = proc[o]
      BY <3>1, <1>a, LinksAssumption DEF Open, Claim, Leaves, LinksAssumption
    <3>2. ASSUME NEW p \in Procs, Leaves(p) \/ Goto(p, "tell")
          PROVE  At(o, "delete") /\ proc[o].copy = proc'[o].copy
      BY <3>2, <1>a DEF At, Leaves, Goto, Idle, Proc
    <3>3. ASSUME NEW p \in Procs, NEW pc \in {"sync", "resync"}, Hooks(p, pc)
          PROVE  At(o, "delete") /\ proc[o].copy = proc'[o].copy
      BY <3>3, <1>a, HooksMove DEF At
    <3>4. ASSUME NEW q \in Owners, Edit(q) \/ OpenDelete(q) \/ Delete(q)
          PROVE  At(o, "delete") /\ proc[o].copy = proc'[o].copy
      <4>1. CASE Edit(q)
        BY <4>1, <1>a DEF Edit, At, Procs
      <4>2. CASE OpenDelete(q)
        BY <4>2, <1>2, <1>a DEF OpenDelete, At, Procs
      <4>3. CASE Delete(q) /\ proc[q].copy.status \in Live
        <5>1. q \in Procs /\ proc[q] \in Proc /\ proc[o] \in Proc
          BY <1>a DEF Procs
        <5>2. proc' = [proc EXCEPT ![q].pc = "tell", ![q].copy.status = "revoked"]
          BY <4>3 DEF Delete
        <5>3. q # o
          BY <5>1, <5>2, <1>a DEF At, Proc
        <5>4. QED
          BY <5>1, <5>2, <5>3, <1>a DEF At
      <4>4. CASE Delete(q) /\ proc[q].copy.status \notin Live
        BY <4>4, <3>2 DEF Delete, Procs
      <4>5. QED
        BY <3>4, <4>1, <4>2, <4>3, <4>4
    <3>5. CASE Crash
      BY <3>5, <1>a DEF Crash, At, Idle
    <3>6. CASE PauseConnection \/ ResumeConnection \/ DisconnectConnection \/ Tick \/ UNCHANGED vars
      <4>1. UNCHANGED proc
        BY <3>6 DEF PauseConnection, ResumeConnection, DisconnectConnection, ToolEdit, Tick, vars
      <4>2. QED
        BY <4>1 DEF At
    <3>7. ASSUME NEW r \in Readers, TurnAway(r) \/ ClaimRefused(r) \/ CloseAtCap(r)
          PROVE  At(o, "delete") /\ proc[o].copy = proc'[o].copy
      BY <3>2, <3>3, <3>7 DEF TurnAway, ClaimRefused, CloseAtCap, Procs
    <3>8. ASSUME NEW p \in Procs, Save(p) \/ StatementFails(p) \/ QueueFails(p)
          PROVE  At(o, "delete") /\ proc[o].copy = proc'[o].copy
      BY <3>2, <3>3, <3>8
      DEF Save, Write, SyncIndex, Tell, QueueFails, Announce, StatementFails
    <3>9. QED
      BY <3>1, <3>4, <3>5, <3>6, <3>7, <3>8 DEF Next, At
  <2>2. ~reopened /\ link.status \notin Live
    <3>1. reopened => reopened'
      BY DEF Next, Save, Open, TurnAway, Claim, ClaimRefused, CloseAtCap, Write, SyncIndex,
             Tell, QueueFails, Announce, StatementFails, Edit, OpenDelete, Delete, ToolEdit,
             PauseConnection, ResumeConnection, DisconnectConnection, Tick, Crash, Stores, vars
    <3>2. QED
      BY <2>1, <3>1 DEF DeleteInv
  <2>4. ASSUME NEW p, NEW new, Stores(p, new), link.status # "deleted"
        PROVE  link'.status \notin Live
    <3>1. link.status \in Closed
      BY <1>a, <2>2, <2>4 DEF Row, Statuses
    <3>2. QED
      BY <2>1, <2>4, <3>1 DEF Stores
  <2>5. ASSUME NEW p \in Procs, Write(p)
        PROVE  link'.status \notin Live
    BY <2>2, <2>4, <2>5 DEF Write
  <2>6. ASSUME NEW r \in Readers, CloseAtCap(r)
        PROVE  link'.status \notin Live
    BY <2>2, <2>4, <2>6 DEF CloseAtCap
  <2>7. ASSUME NEW r \in Readers, Claim(r)
        PROVE  link'.status \notin Live
    BY <1>a, <2>2, <2>7 DEF Claim, Row
  <2>8. ASSUME NEW q \in Owners, Delete(q)
        PROVE  link'.status \notin Live
    BY <2>2, <2>4, <2>8 DEF Delete
  <2>9. ASSUME PauseConnection \/ ResumeConnection \/ DisconnectConnection
        PROVE  link'.status \notin Live
    <3>1. link' \in {Held(link), Released(link), Disconnected(link), Detached(link)}
      BY <2>9 DEF PauseConnection, ResumeConnection, DisconnectConnection, ToolEdit
    <3>2. QED
      BY <1>a, <2>2, <3>1 DEF Held, Released, Disconnected, Detached, Row, Live
  <2>10. CASE UNCHANGED link
    BY <2>2, <2>10
  <2>11. QED
    BY <2>5, <2>6, <2>7, <2>8, <2>9, <2>10
    DEF Next, Save, Open, TurnAway, ClaimRefused, SyncIndex, Tell, QueueFails, Announce,
        StatementFails, Edit, OpenDelete, Tick, Crash, vars
<1>3. QED
  BY <1>1, <1>2

\* A delete begins: it has the status as loaded and stores nothing yet.
LEMMA TellOpensDelete ==
  ASSUME TellInv, TypeOK', NEW o \in Owners, OpenDelete(o)
  PROVE  TellInv'
<1> DEFINE new == [pc |-> "delete", orig |-> StatusOf(link), copy |-> StatusOf(link)]
<1>1. /\ o \in Procs /\ At(o, "idle") /\ proc \in [Procs -> Proc]
      /\ proc' = [proc EXCEPT ![o] = new]
      /\ UNCHANGED <<link, index, untold, overlapped, reopened, faults>>
  BY DEF OpenDelete, Edits, Procs, TellInv, StatusInv, TypeOK, history
<1>2. new.pc = "delete" /\ new.orig = new.copy
  OBVIOUS
<1> HIDE DEF new
<1>3. OnlyMoves(o) /\ At(o, "delete")' /\ proc'[o].orig = proc'[o].copy
  BY <1>1, <1>2 DEF OnlyMoves, At
<1>4. StatusInv'
  BY <1>1, <1>3, StatusMoves DEF TellInv, StatusOK, At
<1>5. /\ ~Announcing(o) /\ ~Syncing(o) /\ ~Syncing(o)' /\ ~At(o, "close")'
      /\ ~At(o, "write")'
  BY <1>1, <1>3 DEF Announcing, Syncing, At
<1>6. ToldInv'
  BY <1>1, <1>3, <1>5, ToldMoves DEF TellInv
<1>7. IndexInv'
  BY <1>1, <1>3, <1>5, IndexQuiet DEF TellInv, Clean
<1>8. QED
  BY <1>4, <1>6, <1>7 DEF TellInv

\* A delete announces what it closes, unless the link was opened behind it.
LEMMA TellDeletes ==
  ASSUME TellInv, DeleteInv, TypeOK', NEW o \in Owners, Delete(o)
  PROVE  TellInv'
<1>1. /\ o \in Procs /\ At(o, "delete") /\ link \in Row /\ proc \in [Procs -> Proc]
      /\ proc[o] \in Proc /\ StatusOK(o) /\ faults' = faults /\ (reopened => reopened')
  BY DEF Delete, Procs, TellInv, StatusInv, TypeOK, counters, Stores
<1>2. OnlyMoves(o) /\ proc'[o].pc \in {"idle", "tell"}
  <2>1. CASE proc[o].copy.status \in Live
    BY <1>1, <2>1 DEF Delete, OnlyMoves, Proc
  <2>2. CASE proc[o].copy.status \notin Live
    BY <1>1, <2>2, OnlyMovesLeaves, IdleSays DEF Delete, TellInv, StatusInv
  <2>3. QED
    BY <2>1, <2>2
<1>3. StatusInv'
  BY <1>1, <1>2, StatusMoves DEF TellInv, StatusOK, At
<1>4. proc[o].copy.status \in Live => Announcing(o)'
  <2> SUFFICES ASSUME proc[o].copy.status \in Live
               PROVE  Announcing(o)'
    OBVIOUS
  <2>1. proc' = [proc EXCEPT ![o].pc = "tell", ![o].copy.status = "revoked"]
    BY DEF Delete
  <2>2. /\ proc'[o].pc = "tell" /\ proc'[o].copy.status = "revoked"
        /\ proc'[o].orig.status = proc[o].orig.status
    BY <1>1, <2>1 DEF Proc, Row
  <2>3. proc[o].orig.status \in Live
    BY <1>1 DEF StatusOK
  <2>4. QED
    BY <2>2, <2>3 DEF Announcing, Closed, Live
<1>5. /\ ~Announcing(o) /\ ~Syncing(o) /\ ~Syncing(o)' /\ ~At(o, "write")'
      /\ ~At(o, "close")'
  BY <1>1, <1>2 DEF Announcing, Syncing, At
<1>6. ToldInv'
  <2>1. untold' => untold \/ Announcing(o)' \/ reopened'
    <3>1. CASE link.status \notin Live
      BY <3>1 DEF Delete, Stores
    <3>2. CASE link.status \in Live /\ ~reopened
      BY <1>1, <1>4, <3>2 DEF DeleteInv
    <3>3. QED
      BY <1>1, <3>1, <3>2
  <2>2. QED
    BY <1>1, <1>2, <1>5, <2>1, ToldMoves DEF TellInv
<1>7. IndexInv'
  <2>1. CASE link.status = "deleted"
    <3>1. UNCHANGED <<link, index, overlapped>>
      BY <2>1 DEF Delete
    <3>2. QED
      BY <1>1, <1>2, <1>5, <3>1, IndexQuiet DEF TellInv, Clean
  <2>2. CASE link.status # "deleted"
    <3>1. index' = FALSE /\ Stores(o, [link EXCEPT !.status = "deleted"])
      BY <2>2 DEF Delete
    <3>2. link'.status = "deleted" /\ (Clean' => \A q \in Procs \ {o} : ~Saving(q))
      BY <1>1, <3>1 DEF Stores, Clean, Row
    <3>3. index' <=> link'.status \in Live
      BY <3>1, <3>2 DEF Live
    <3>4. QED
      BY <1>1, <1>2, <1>5, <3>2, <3>3, IndexStored
  <2>3. QED
    BY <2>1, <2>2
<1>8. QED
  BY <1>3, <1>6, <1>7 DEF TellInv

\* The tool's transaction moves row, index and event together.
LEMMA TellToolEdits ==
  ASSUME TellInv, TypeOK', NEW new, ToolEdit(new)
  PROVE  TellInv'
<1>1. UNCHANGED <<proc, faults>>
  BY DEF ToolEdit, Edits
<1>2. StatusInv'
  BY <1>1 DEF TellInv, StatusInv, StatusOK, At
<1>3. (untold' => untold) /\ reopened' = reopened
  BY DEF ToolEdit
<1>4. ToldInv'
  BY <1>1, <1>3 DEF TellInv, ToldInv, Announcing
<1>5. IndexInv'
  <2>1. CASE new = link
    BY <1>1, <2>1 DEF ToolEdit, TellInv, IndexInv, Clean, At, Syncing
  <2>2. CASE new # link
    <3> SUFFICES ASSUME Clean'
                 PROVE  IndexInv'
      BY DEF IndexInv
    <3>1. \A q \in Procs : ~Saving(q)
      BY <2>2 DEF ToolEdit, Clean
    <3>2. \A q \in Procs : ~At(q, "write")' /\ ~At(q, "close")' /\ ~Syncing(q)'
      BY <1>1, <3>1 DEF Saving, At, Syncing
    <3>3. index' <=> link'.status \in Live
      BY <2>2 DEF ToolEdit
    <3>4. QED
      BY <3>2, <3>3 DEF IndexInv
  <2>3. QED
    BY <2>1, <2>2
<1>6. QED
  BY <1>2, <1>4, <1>5 DEF TellInv

\* After a failure only the copies' own statuses are still claimed.
LEMMA TellFails ==
  ASSUME TellInv, TypeOK', Fails, \A p \in Procs : StatusOK(p)'
  PROVE  TellInv'
<1>1. faults' # 0
  BY DEF Fails, TellInv, StatusInv, TypeOK
<1>2. QED
  BY <1>1 DEF TellInv, StatusInv, ToldInv, IndexInv, Clean

LEMMA TellStep == ColumnSaves /\ TellInv /\ DeleteInv /\ [Next]_vars => TellInv'
<1> SUFFICES ASSUME ColumnSaves, TellInv, DeleteInv, [Next]_vars
             PROVE  TellInv'
  OBVIOUS
<1>a. TypeOK /\ TypeOK' /\ link \in Row /\ proc \in [Procs -> Proc]
  BY TypeStep DEF TellInv, StatusInv, TypeOK
<1>b. ASSUME NEW p \in Procs, OnlyMoves(p), proc'[p].pc \in {"idle", "tell"}
      PROVE  \A q \in Procs : StatusOK(q)'
  <2>1. StatusInv'
    BY <1>a, <1>b, StatusMoves DEF TellInv, StatusOK, At
  <2>2. QED
    BY <2>1 DEF StatusInv
<1>1. ASSUME NEW r \in Readers, Open(r)
      PROVE  TellInv'
  <2>1. /\ r \in Procs /\ At(r, "idle") /\ link.status # "deleted"
        /\ UNCHANGED <<link, index, untold, overlapped, reopened, faults>>
    BY <1>1 DEF Open, Procs, history, counters
  <2>2. CASE /\ RefreshTransition(link) # "none"
             /\ proc' = [proc EXCEPT ![r] = [pc |-> "write", orig |-> link,
                           copy |-> [link EXCEPT !.status = RefreshTransition(link)]]]
    <3>1. RefreshTransition(link) \in {"expired", "revoked"}
      BY <2>2 DEF RefreshTransition
    <3>2. /\ [link EXCEPT !.status = RefreshTransition(link)] \in Row
          /\ [link EXCEPT !.status = RefreshTransition(link)].status # "deleted"
      BY <1>a, <3>1 DEF Row, Statuses, Closed
    <3>3. QED
      BY <1>a, <2>1, <2>2, <3>2, TellStarts
  <2>3. CASE /\ link.status = "active"
             /\ proc' = [proc EXCEPT ![r] = [pc |-> "claim", orig |-> link, copy |-> link]]
    BY <1>a, <2>1, <2>3, TellStarts
  <2>4. CASE UNCHANGED proc
    BY <1>a, <2>1, <2>4
    DEF TellInv, StatusInv, StatusOK, ToldInv, Announcing, IndexInv, Clean, At, Syncing
  <2>5. QED
    BY <1>1, <2>2, <2>3, <2>4 DEF Open
<1>2. ASSUME NEW r \in Readers, TurnAway(r) \/ ClaimRefused(r)
      PROVE  TellInv'
  BY <1>2, <1>a, TellEnds DEF TurnAway, ClaimRefused, Procs, history, counters
<1>3. ASSUME NEW p \in Procs, StatementFails(p)
      PROVE  TellInv'
  <2>1. OnlyMoves(p) /\ proc'[p].pc \in {"idle", "tell"}
    BY <1>3, <1>a, OnlyMovesGoto, OnlyMovesLeaves, IdleSays DEF StatementFails
  <2>2. QED
    BY <1>3, <1>a, <1>b, <2>1, TellFails DEF StatementFails
<1>4. ASSUME NEW p \in Procs, QueueFails(p)
      PROVE  TellInv'
  <2>1. OnlyMoves(p) /\ proc'[p].pc \in {"idle", "tell"}
    BY <1>4, <1>a, OnlyMovesLeaves, IdleSays DEF QueueFails, Announce
  <2>2. QED
    BY <1>4, <1>a, <1>b, <2>1, TellFails DEF QueueFails
<1>5. ASSUME NEW o \in Owners, Edit(o)
      PROVE  TellInv'
  <2>1. /\ o \in Procs /\ At(o, "idle") /\ link.status # "deleted"
        /\ UNCHANGED <<link, index, untold, overlapped, reopened, faults>>
    BY <1>5 DEF Edit, Edits, Procs
  <2>2. PICK patch \in Patches :
          proc' = [proc EXCEPT ![o] = [pc |-> "write", orig |-> link,
                                       copy |-> Patched(link, patch)]]
    BY <1>5 DEF Edit
  <2>3. Patched(link, patch) \in Row
    BY <1>a, PatchedType
  <2>4. Patched(link, patch).status # "deleted"
    BY <1>a, <2>1 DEF Patched, Patches, Row
  <2>5. QED
    BY <1>a, <2>1, <2>2, <2>3, <2>4, TellStarts
<1>6. ASSUME PauseConnection \/ ResumeConnection \/ DisconnectConnection
      PROVE  TellInv'
  BY <1>6, <1>a, TellToolEdits DEF PauseConnection, ResumeConnection, DisconnectConnection
<1>7. CASE Crash
  <2>1. \A q \in Procs : proc'[q] = Idle
    BY <1>7 DEF Crash
  <2>2. \A q \in Procs : StatusOK(q)'
    BY <2>1, IdleSays DEF StatusOK, At
  <2>3. QED
    BY <1>7, <1>a, <2>2, TellFails DEF Crash
<1>8. CASE Tick \/ UNCHANGED vars
  <2>1. UNCHANGED <<link, index, proc, untold, overlapped, reopened, faults>>
    BY <1>8 DEF Tick, vars, history, counters
  <2>2. QED
    BY <1>a, <2>1
    DEF TellInv, StatusInv, StatusOK, ToldInv, Announcing, IndexInv, Clean, At, Syncing
<1>9. QED
  BY <1>a, <1>1, <1>2, <1>3, <1>4, <1>5, <1>6, <1>7, <1>8, TellClaims, TellCloses,
     TellWrites, TellSyncs, TellTells, TellOpensDelete, TellDeletes DEF Next, Save

\* At any moment of any interleaving: a closing nobody was told of is in the hands of
\* a request under way (until a failure, or a save that opens the link under a delete),
\* and the index is behind the stored status only while the one request that saved it
\* still has to sync it.
THEOREM TellInvariant == ColumnSaves => (Spec => [](TellInv /\ DeleteInv))
<1> SUFFICES ASSUME ColumnSaves
             PROVE  Spec => [](TellInv /\ DeleteInv)
  OBVIOUS
<1>1. TellInv /\ DeleteInv /\ [Next]_vars => TellInv' /\ DeleteInv'
  BY TellStep, DeleteStep DEF TellInv, StatusInv
<1>2. Init => DeleteInv
  BY IdleSays DEF Init, DeleteInv, At, Procs
<1>3. QED
  BY TellInit, <1>1, <1>2, PTL DEF Spec

\* Without failures every closing of a grant, by the owner, the sweep, the view cap
\* or a delete, has queued its event once the requests that were running are done,
\* unless a save opened the link while a delete was under way that had loaded it.
THEOREM EveryClosingToldHolds == ColumnSaves => (Spec => []EveryClosingTold)
<1> SUFFICES ASSUME ColumnSaves
             PROVE  Spec => []EveryClosingTold
  OBVIOUS
<1>1. Spec => [](TellInv /\ DeleteInv)
  BY TellInvariant
<1>2. TellInv => EveryClosingTold
  BY DEF TellInv, ToldInv, EveryClosingTold, AtRest, At, Announcing
<1>3. QED
  BY <1>1, <1>2, PTL

\* When no save overlaps another and none fails, the entry -> grant index lists the
\* link exactly while it can be read.
THEOREM IndexCurrentHolds == ColumnSaves => (Spec => []IndexCurrent)
<1> SUFFICES ASSUME ColumnSaves
             PROVE  Spec => []IndexCurrent
  OBVIOUS
<1>1. Spec => [](TellInv /\ DeleteInv)
  BY TellInvariant
<1>2. TellInv => IndexCurrent
  BY DEF TellInv, IndexInv, Clean, IndexCurrent, AtRest, At, Syncing
<1>3. QED
  BY <1>1, <1>2, PTL
=============================================================================
