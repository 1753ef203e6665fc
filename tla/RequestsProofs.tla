---------------------------- MODULE RequestsProofs ----------------------------
(***************************************************************************)
(* Proofs about Requests for any submissions, responders, owners and caps. *)
(***************************************************************************)
EXTENDS Requests, TLAPS

-----------------------------------------------------------------------------
(* Types. *)

LEMMA IdleType == Idle \in Proc
<1>1. (CHOOSE p \in People : TRUE) \in People
  BY RequestsAssumption DEF RequestsAssumption, People
<1>2. QED
  BY <1>1 DEF Idle, Blank, Proc, Row, Statuses, Live, Closed

LEMMA LeavesType ==
  ASSUME TypeOK, NEW p \in Procs, Leaves(p)
  PROVE  proc' \in [Procs -> Proc]
  BY IdleType DEF TypeOK, Leaves

\* What a save of one request's copy stores is a row.
LEMMA MergedType ==
  ASSUME TypeOK, NEW orig \in Row, NEW copy \in Row
  PROVE  Merged(orig, copy) \in Row
  BY DEF TypeOK, Merged, Row

LEMMA CountedType ==
  ASSUME NEW row \in Row
  PROVE  Counted(row) \in Row /\ Counted(row).responseCount = row.responseCount + 1
<1>1. "completed" \in Statuses /\ row.responseCount + 1 \in Nat
  BY DEF Statuses, Closed, Row
<1>2. CASE row.maxResponses > 0 /\ row.responseCount + 1 >= row.maxResponses
  BY <1>1, <1>2 DEF Counted, Row
<1>3. CASE ~(row.maxResponses > 0 /\ row.responseCount + 1 >= row.maxResponses)
  BY <1>1, <1>3 DEF Counted, Row
<1>4. QED
  BY <1>2, <1>3

\* What a PATCH puts on its copy is a row; it never touches the count.
LEMMA PatchedType ==
  ASSUME NEW row \in Row, NEW patch \in Patches
  PROVE  Patched(row, patch) \in Row /\ Patched(row, patch).responseCount = row.responseCount
<1>1. CASE patch \in [field : {"status"}, to : {"active", "paused", "revoked"}]
  BY <1>1 DEF Patched, Row, Statuses, Live, Closed
<1>2. CASE patch \in [field : {"maxResponses"}, to : Caps]
  BY <1>2, RequestsAssumption DEF Patched, Row, RequestsAssumption
<1>3. CASE patch \in [field : {"expiresAt"}, to : {0} \cup 1..MaxTime]
  BY <1>3, RequestsAssumption DEF Patched, Row, RequestsAssumption
<1>4. QED
  BY <1>1, <1>2, <1>3 DEF Patches

\* What the tool's transactions store is a row; none of them touches the count.
LEMMA ToolRows ==
  ASSUME NEW row \in Row,
         NEW new \in {Held(row), Released(row), Disconnected(row), Detached(row)}
  PROVE  new \in Row /\ new.responseCount = row.responseCount
  BY DEF Held, Released, Disconnected, Detached, Row, Statuses, Live, Closed

LEMMA TypeInit == Init => TypeOK
<1> SUFFICES ASSUME Init
             PROVE  TypeOK
  OBVIOUS
<1>1. request \in Row
  <2>1. {0} \cup 1..MaxTime \subseteq Nat /\ Caps \subseteq Nat
    BY RequestsAssumption DEF RequestsAssumption
  <2>2. "active" \in Statuses
    BY DEF Statuses, Live
  <2>3. QED
    BY <2>1, <2>2 DEF Init, Row
<1>2. proc \in [Procs -> Proc]
  BY IdleType DEF Init
<1>3. QED
  BY <1>1, <1>2 DEF Init, TypeOK

\* No step of a submission, the owner, the tool or a failure leaves the types.
LEMMA TypeStep == TypeOK /\ [Next]_vars => TypeOK'
<1> SUFFICES ASSUME TypeOK, [Next]_vars
             PROVE  TypeOK'
  OBVIOUS
<1> USE DEF counters, bodyEdits
<1>a. Submissions \subseteq Procs /\ Owners \subseteq Procs /\ Tools \subseteq Procs
  BY DEF Procs
<1>1. ASSUME NEW s \in Submissions, Open(s)
      PROVE  TypeOK'
  <2>1. RefreshTransition(request) \in {"none", "expired", "completed"}
    BY DEF RefreshTransition
  <2>2. proc' \in [Procs -> Proc]
    <3>1. CASE RefreshTransition(request) # "none"
      BY <1>1, <1>a, <2>1, <3>1 DEF Open, TypeOK, Proc, Row, Statuses, Closed
    <3>2. CASE RefreshTransition(request) = "none"
      BY <1>1, <1>a, <3>2 DEF Open, TypeOK, Proc
    <3>3. QED
      BY <3>1, <3>2
  <2>3. overlapped' \in BOOLEAN
    BY <1>1 DEF Open
  <2>4. QED
    BY <1>1, <2>2, <2>3 DEF Open, TypeOK
<1>2. ASSUME NEW s \in Submissions, TurnAway(s) \/ UpdateAnswer(s)
      PROVE  TypeOK'
  BY <1>2, <1>a, LeavesType DEF TurnAway, UpdateAnswer, TypeOK
<1>3. ASSUME NEW s \in Submissions, FindExisting(s)
      PROVE  TypeOK'
  <2>1. proc' \in [Procs -> Proc]
    BY <1>3, <1>a DEF FindExisting, TypeOK, Proc
  <2>2. QED
    BY <1>3, <2>1 DEF FindExisting, TypeOK
<1>4. ASSUME NEW s \in Submissions, CreateAnswer(s)
      PROVE  TypeOK'
  <2>1. proc[s] \in Proc /\ proc[s].person \in People /\ proc[s].copy \in Row
    BY <1>a DEF TypeOK, Proc
  <2>2. CASE Storable(proc[s].person)
    <3>1. proc' \in [Procs -> Proc]
      BY <1>4, <1>a, <2>1, <2>2, CountedType DEF CreateAnswer, TypeOK, Proc
    <3>2. answers' \in [People -> Nat] /\ minted' \in Nat
      BY <1>4, <2>1, <2>2 DEF CreateAnswer, TypeOK
    <3>3. QED
      BY <1>4, <3>1, <3>2 DEF CreateAnswer, TypeOK
  <2>3. CASE ~Storable(proc[s].person)
    BY <1>4, <1>a, <2>3, LeavesType DEF CreateAnswer, TypeOK
  <2>4. QED
    BY <2>2, <2>3
<1>5. ASSUME NEW p \in Procs, Save(p)
      PROVE  TypeOK'
  <2>1. proc[p].orig \in Row /\ proc[p].copy \in Row /\ proc[p].pauses \in BOOLEAN
    BY DEF TypeOK, Proc
  <2>2. request' \in Row /\ ownerPaused' \in BOOLEAN
    BY <1>5, <2>1, MergedType DEF Save, TypeOK
  <2>3. QED
    BY <1>5, <2>2, LeavesType DEF Save, TypeOK
<1>6. ASSUME NEW p \in Procs, StatementFails(p)
      PROVE  TypeOK'
  BY <1>6, LeavesType DEF StatementFails, Fails, TypeOK
<1>7. ASSUME NEW o \in Owners, Edit(o)
      PROVE  TypeOK'
  <2>1. PICK patch \in Patches :
          /\ proc' = [proc EXCEPT ![o].pc = "save", ![o].orig = request,
                                  ![o].copy = Patched(request, patch),
                                  ![o].pauses = (patch.field = "status" /\ patch.to = "paused")]
          /\ capEdits' = IF patch.field = "maxResponses" THEN capEdits + 1 ELSE capEdits
          /\ statusEdits' = IF patch.field = "status" THEN statusEdits + 1 ELSE statusEdits
    BY <1>7 DEF Edit
  <2>2. Patched(request, patch) \in Row
    BY PatchedType DEF TypeOK
  <2>3. PICK pauses \in BOOLEAN :
          proc' = [proc EXCEPT ![o].pc = "save", ![o].orig = request,
                               ![o].copy = Patched(request, patch), ![o].pauses = pauses]
    BY <2>1
  <2>4. proc' \in [Procs -> Proc]
    BY <1>a, <2>2, <2>3 DEF TypeOK, Proc
  <2>5. capEdits' \in Nat /\ statusEdits' \in Nat
    BY <2>1 DEF TypeOK
  <2>6. QED
    BY <1>7, <2>4, <2>5 DEF Edit, Edits, TypeOK
<1>8. ASSUME NEW o \in Owners, Delete(o)
      PROVE  TypeOK'
  <2>1. request' \in Row
    BY <1>8 DEF Delete, TypeOK, Row, Statuses
  <2>2. answers' \in [People -> Nat]
    BY <1>8 DEF Delete
  <2>3. ownerPaused' \in BOOLEAN
    BY <1>8 DEF Delete
  <2>4. edits' \in Nat /\ faults' \in Nat
    BY <1>8 DEF Delete, Edits, TypeOK
  <2>5. UNCHANGED <<now, proc, attached, minted, overlapped, bodyEdits>>
    BY <1>8 DEF Delete
  <2>6. QED
    BY <2>1, <2>2, <2>3, <2>4, <2>5 DEF TypeOK
<1>9. ASSUME NEW person \in Locals, Withdraw(person)
      PROVE  TypeOK'
  <2>a. person \in People
    BY DEF People
  <2>1. answers' \in [People -> Nat]
    BY <1>9, <2>a DEF Withdraw, TypeOK
  <2>2. QED
    BY <1>9, <2>1 DEF Withdraw, Edits, TypeOK
<1>10. ASSUME NEW t \in Tools, CloseByTool(t)
       PROVE  TypeOK'
  <2>1. Disconnected(request) \in Row
    BY ToolRows DEF TypeOK
  <2>2. proc' \in [Procs -> Proc]
    BY <1>10, <1>a, <2>1 DEF CloseByTool, TypeOK, Proc
  <2>3. QED
    BY <1>10, <2>2 DEF CloseByTool, Edits, TypeOK
<1>11. ASSUME PauseConnection \/ ResumeConnection \/ DisconnectConnection
       PROVE  TypeOK'
  <2>1. PICK new \in {Held(request), Released(request), Disconnected(request),
                      Detached(request)} : ToolEdit(new)
    BY <1>11 DEF PauseConnection, ResumeConnection, DisconnectConnection
  <2>2. new \in Row
    BY ToolRows DEF TypeOK
  <2>3. attached' \in BOOLEAN
    BY <1>11 DEF PauseConnection, ResumeConnection, DisconnectConnection, TypeOK
  <2>4. ownerPaused' \in BOOLEAN
    BY <2>1 DEF ToolEdit
  <2>5. edits' \in Nat /\ faults' \in Nat
    BY <2>1 DEF ToolEdit, Edits, TypeOK
  <2>6. UNCHANGED <<answers, now, proc, minted, overlapped, bodyEdits>> /\ request' \in Row
    BY <2>1, <2>2 DEF ToolEdit
  <2>7. QED
    BY <2>3, <2>4, <2>5, <2>6 DEF TypeOK
<1>12. CASE ToolLeaves
  <2>1. attached' \in BOOLEAN
    BY <1>12 DEF ToolLeaves
  <2>2. edits' \in Nat /\ faults' \in Nat
    BY <1>12 DEF ToolLeaves, Edits, TypeOK
  <2>3. UNCHANGED <<request, answers, now, proc, minted, overlapped, ownerPaused, bodyEdits>>
    BY <1>12 DEF ToolLeaves
  <2>4. QED
    BY <2>1, <2>2, <2>3 DEF TypeOK
<1>13. CASE Tick
  BY <1>13 DEF Tick, TypeOK
<1>14. CASE Crash
  BY <1>14, IdleType DEF Crash, Fails, TypeOK
<1>15. CASE UNCHANGED vars
  BY <1>15 DEF vars, TypeOK
<1>16. QED
  BY <1>1, <1>2, <1>3, <1>4, <1>5, <1>6, <1>7, <1>8, <1>9, <1>10, <1>11, <1>12,
     <1>13, <1>14, <1>15 DEF Next

\* The row, the answers, every copy and every counter keep their types, however
\* submissions, edits and failures interleave.
THEOREM TypeCorrect == Spec => []TypeOK
  BY TypeInit, TypeStep, PTL DEF Spec

-----------------------------------------------------------------------------
(* The inductive invariant. *)

\* A request a step leaves alone keeps its CopyOK: answers are never unmade.
LEMMA CopyKept ==
  ASSUME RequestsInv, TypeOK', minted' >= minted, NEW q \in Procs, proc'[q] = proc[q]
  PROVE  CopyOK(q)'
<1>1. CopyOK(q) /\ proc[q] \in Proc /\ minted \in Nat /\ minted' \in Nat
  BY DEF RequestsInv, TypeOK
<1>2. QED
  BY <1>1 DEF CopyOK, At, Proc, Row

LEMMA CopyIdle ==
  ASSUME TypeOK', NEW q \in Procs, proc'[q] = Idle
  PROVE  CopyOK(q)'
  BY DEF TypeOK, CopyOK, At, Idle, Blank

\* A step that changes one request's record only.
LEMMA CopiesAfter ==
  ASSUME RequestsInv, TypeOK', minted' >= minted, NEW p \in Procs,
         \A q \in Procs \ {p} : proc'[q] = proc[q],
         proc'[p] = Idle \/ CopyOK(p)'
  PROVE  \A q \in Procs : CopyOK(q)'
  BY CopyKept, CopyIdle

\* A step of p that ends its request.
LEMMA LeavesKeeps ==
  ASSUME RequestsInv, TypeOK', minted' = minted, NEW p \in Procs, Leaves(p)
  PROVE  \A q \in Procs : CopyOK(q)'
<1>1. proc \in [Procs -> Proc] /\ minted \in Nat
  BY DEF RequestsInv, TypeOK
<1>2. proc'[p] = Idle /\ \A q \in Procs \ {p} : proc'[q] = proc[q]
  BY <1>1 DEF Leaves
<1>3. QED
  BY <1>1, <1>2, CopiesAfter

LEMMA InvInit == Init => RequestsInv
<1> SUFFICES ASSUME Init
             PROVE  RequestsInv
  OBVIOUS
<1>1. TypeOK
  BY TypeInit
<1>2. \A p \in Procs : CopyOK(p)
  BY DEF Init, CopyOK, At, Idle, Blank
<1>3. QED
  BY <1>1, <1>2 DEF Init, RequestsInv, CountNeverInflated

\* A submission loads the row, so its copy counts no more than the row does; the
\* answer it creates is minted before the copy counts it; and a save merges one of two
\* counts that were both paid for.
LEMMA InvStep == RequestsInv /\ [Next]_vars => RequestsInv'
<1> SUFFICES ASSUME RequestsInv, [Next]_vars
             PROVE  RequestsInv'
  OBVIOUS
<1> USE DEF counters, bodyEdits
<1>a. Submissions \subseteq Procs /\ Owners \subseteq Procs /\ Tools \subseteq Procs
  BY DEF Procs
<1>b. TypeOK /\ TypeOK'
  BY TypeStep DEF RequestsInv
<1>c. /\ request \in Row /\ minted \in Nat /\ proc \in [Procs -> Proc]
      /\ request.responseCount \in Nat
      /\ request.responseCount <= minted
      /\ \A p \in Procs : CopyOK(p)
  BY <1>b DEF RequestsInv, TypeOK, CountNeverInflated, Row
<1>d. /\ Submissions \cap Owners = {} /\ Tools \cap Owners = {}
  BY RequestsAssumption DEF RequestsAssumption
<1>e. SUFFICES CountNeverInflated' /\ \A q \in Procs : CopyOK(q)'
  BY <1>b DEF RequestsInv
<1>1. ASSUME NEW s \in Submissions, Open(s)
      PROVE  CountNeverInflated' /\ \A q \in Procs : CopyOK(q)'
  <2>1. UNCHANGED <<request, minted>>
    BY <1>1 DEF Open
  <2>2. \A q \in Procs \ {s} : proc'[q] = proc[q]
    BY <1>1, <1>c DEF Open
  <2>3. CopyOK(s)'
    <3>1. CASE RefreshTransition(request) # "none"
      <4>1. RefreshTransition(request) \in Closed
        BY <3>1 DEF RefreshTransition, Closed
      <4>2. /\ proc'[s].pc = "save" /\ proc'[s].orig = request
            /\ proc'[s].copy = [request EXCEPT !.status = RefreshTransition(request)]
        BY <1>1, <1>a, <1>c, <3>1 DEF Open, Proc
      <4>3. QED
        BY <1>c, <2>1, <4>1, <4>2 DEF CopyOK, At, Row
    <3>2. CASE RefreshTransition(request) = "none" /\ request.status = "active"
      <4>1. proc'[s].pc = "gates" /\ proc'[s].orig = request /\ proc'[s].copy = request
        BY <1>1, <1>a, <1>c, <3>2 DEF Open, Proc
      <4>2. QED
        BY <1>c, <2>1, <4>1 DEF CopyOK, At
    <3>3. CASE RefreshTransition(request) = "none" /\ request.status # "active"
      BY <1>1, <1>a, <1>b, <1>c, <2>1, <3>3, CopyKept DEF Open
    <3>4. QED
      BY <3>1, <3>2, <3>3
  <2>4. QED
    BY <1>a, <1>b, <1>c, <2>1, <2>2, <2>3, CopiesAfter DEF CountNeverInflated
<1>2. ASSUME NEW s \in Submissions, TurnAway(s) \/ UpdateAnswer(s)
      PROVE  CountNeverInflated' /\ \A q \in Procs : CopyOK(q)'
  BY <1>2, <1>a, <1>b, <1>c, LeavesKeeps DEF TurnAway, UpdateAnswer, CountNeverInflated
<1>3. ASSUME NEW s \in Submissions, FindExisting(s)
      PROVE  CountNeverInflated' /\ \A q \in Procs : CopyOK(q)'
  <2>1. UNCHANGED <<request, minted>> /\ CopyOK(s) /\ proc[s].pc = "gates"
    BY <1>3, <1>a, <1>c DEF FindExisting, At
  <2>2. \A q \in Procs \ {s} : proc'[q] = proc[q]
    BY <1>3, <1>c DEF FindExisting
  <2>3. /\ proc'[s].orig = proc[s].orig /\ proc'[s].copy = proc[s].copy
        /\ proc'[s].pc \in {"update", "create"}
    BY <1>3, <1>a, <1>c DEF FindExisting, Proc
  <2>4. CopyOK(s)'
    BY <2>1, <2>3 DEF CopyOK, At
  <2>5. QED
    BY <1>a, <1>b, <1>c, <2>1, <2>2, <2>4, CopiesAfter DEF CountNeverInflated
<1>4. ASSUME NEW s \in Submissions, CreateAnswer(s)
      PROVE  CountNeverInflated' /\ \A q \in Procs : CopyOK(q)'
  <2>1. /\ request' = request /\ CopyOK(s) /\ proc[s].pc = "create"
        /\ proc[s] \in Proc /\ proc[s].copy \in Row /\ proc[s].orig \in Row
    BY <1>4, <1>a, <1>c DEF CreateAnswer, At, Proc
  <2>2. CASE Storable(proc[s].person)
    <3>1. minted' = minted + 1
      BY <1>4, <2>2 DEF CreateAnswer
    <3>2. \A q \in Procs \ {s} : proc'[q] = proc[q]
      BY <1>4, <1>c, <2>2 DEF CreateAnswer
    <3>3. /\ proc'[s].pc = "save" /\ proc'[s].orig = proc[s].orig
          /\ proc'[s].copy = Counted(proc[s].copy)
      BY <1>4, <1>a, <1>c, <2>1, <2>2 DEF CreateAnswer, Proc
    <3>4. /\ Counted(proc[s].copy).responseCount = proc[s].copy.responseCount + 1
          /\ Counted(proc[s].copy).status \in {"completed", proc[s].copy.status}
      BY <2>1, CountedType DEF Counted, Row
    <3>5. proc[s].copy.responseCount \in Nat /\ proc[s].copy.responseCount <= minted
      BY <2>1 DEF CopyOK, Row
    <3>6. proc[s].copy.status = proc[s].orig.status
      BY <2>1 DEF CopyOK, At
    <3>7. CopyOK(s)'
      BY <1>c, <3>1, <3>3, <3>4, <3>5, <3>6 DEF CopyOK, At, Closed
    <3>8. QED
      BY <1>a, <1>b, <1>c, <2>1, <3>1, <3>2, <3>7, CopiesAfter DEF CountNeverInflated
  <2>3. CASE ~Storable(proc[s].person)
    BY <1>4, <1>a, <1>b, <1>c, <2>3, LeavesKeeps DEF CreateAnswer, CountNeverInflated
  <2>4. QED
    BY <2>2, <2>3
<1>5. ASSUME NEW p \in Procs, Save(p)
      PROVE  CountNeverInflated' /\ \A q \in Procs : CopyOK(q)'
  <2>1. proc[p].copy.responseCount <= minted /\ minted' = minted
    BY <1>5, <1>c DEF CopyOK, Save
  <2>2. request'.responseCount \in {proc[p].copy.responseCount, request.responseCount}
    BY <1>5 DEF Save, Merged
  <2>3. QED
    BY <1>5, <1>b, <1>c, <2>1, <2>2, LeavesKeeps DEF Save, CountNeverInflated
<1>6. ASSUME NEW p \in Procs, StatementFails(p)
      PROVE  CountNeverInflated' /\ \A q \in Procs : CopyOK(q)'
  BY <1>6, <1>b, <1>c, LeavesKeeps DEF StatementFails, CountNeverInflated
<1>7. ASSUME NEW o \in Owners, Edit(o)
      PROVE  CountNeverInflated' /\ \A q \in Procs : CopyOK(q)'
  <2>1. UNCHANGED <<request, minted>>
    BY <1>7 DEF Edit
  <2>2. PICK patch \in Patches :
          proc' = [proc EXCEPT ![o].pc = "save", ![o].orig = request,
                               ![o].copy = Patched(request, patch),
                               ![o].pauses = (patch.field = "status" /\ patch.to = "paused")]
    BY <1>7 DEF Edit
  <2>3. \A q \in Procs \ {o} : proc'[q] = proc[q]
    BY <1>c, <2>2
  <2>4. proc'[o].pc = "save" /\ proc'[o].copy = Patched(request, patch)
    BY <1>a, <1>c, <2>2 DEF Proc
  <2>5. CopyOK(o)'
    BY <1>c, <2>1, <2>4, PatchedType DEF CopyOK, At
  <2>6. QED
    BY <1>a, <1>b, <1>c, <2>1, <2>3, <2>5, CopiesAfter DEF CountNeverInflated
<1>8. ASSUME \/ \E o \in Owners : Delete(o)
             \/ \E person \in Locals : Withdraw(person)
             \/ ToolLeaves \/ Tick \/ UNCHANGED vars
      PROVE  CountNeverInflated' /\ \A q \in Procs : CopyOK(q)'
  <2>1. proc' = proc /\ minted' = minted
    BY <1>8 DEF Delete, Withdraw, ToolLeaves, Tick, vars
  <2>2. request'.responseCount = request.responseCount
    BY <1>8, <1>c DEF Delete, Withdraw, ToolLeaves, Tick, vars, Row
  <2>3. QED
    BY <1>b, <1>c, <2>1, <2>2, CopyKept DEF CountNeverInflated
<1>9. ASSUME NEW t \in Tools, CloseByTool(t)
      PROVE  CountNeverInflated' /\ \A q \in Procs : CopyOK(q)'
  <2>1. UNCHANGED <<request, minted>>
    BY <1>9 DEF CloseByTool
  <2>2. \A q \in Procs \ {t} : proc'[q] = proc[q]
    BY <1>9, <1>c DEF CloseByTool
  <2>3. proc'[t].pc = "save" /\ proc'[t].copy = Disconnected(request)
    BY <1>9, <1>a, <1>c DEF CloseByTool, Proc
  <2>4. /\ Disconnected(request).responseCount = request.responseCount
        /\ Disconnected(request).status = "revoked"
    BY <1>c DEF Disconnected, Row
  <2>5. CopyOK(t)'
    BY <1>c, <2>1, <2>3, <2>4 DEF CopyOK, At, Closed
  <2>6. QED
    BY <1>a, <1>b, <1>c, <2>1, <2>2, <2>5, CopiesAfter DEF CountNeverInflated
<1>10. ASSUME PauseConnection \/ ResumeConnection \/ DisconnectConnection
       PROVE  CountNeverInflated' /\ \A q \in Procs : CopyOK(q)'
  <2>1. PICK new \in {Held(request), Released(request), Disconnected(request),
                      Detached(request)} : ToolEdit(new)
    BY <1>10 DEF PauseConnection, ResumeConnection, DisconnectConnection
  <2>2. new.responseCount = request.responseCount
    BY <1>c, ToolRows
  <2>3. proc' = proc /\ minted' = minted /\ request' = new
    BY <2>1 DEF ToolEdit
  <2>4. QED
    BY <1>b, <1>c, <2>2, <2>3, CopyKept DEF CountNeverInflated
<1>11. CASE Crash
  <2>1. /\ \A q \in Procs : proc'[q] = Idle
        /\ UNCHANGED <<request, minted>>
    BY <1>11 DEF Crash
  <2>2. QED
    BY <1>b, <1>c, <2>1, CopyIdle DEF CountNeverInflated
<1>12. QED
  BY <1>1, <1>2, <1>3, <1>4, <1>5, <1>6, <1>7, <1>8, <1>9, <1>10, <1>11 DEF Next

\* The invariant that carries the count: no copy, however stale, counts an answer that
\* was not created, and only an owner's copy may open a closed request.
THEOREM RequestsInvariant == Spec => []RequestsInv
  BY InvInit, InvStep, PTL DEF Spec

\* However submissions overlap, fail or are repeated, and whatever owner and tool save
\* in between, the request never counts more responses than were created.
THEOREM CountNeverInflatedHolds == Spec => []CountNeverInflated
<1>1. RequestsInv => CountNeverInflated
  BY DEF RequestsInv
<1>2. QED
  BY <1>1, RequestsInvariant, PTL

-----------------------------------------------------------------------------
(* Who reopens a closed request. *)

Reopens == request.status \in Closed /\ request'.status \in Live
ReopenedByOwner == \E o \in Owners : /\ At(o, "save")
                                     /\ proc[o].copy.status = request'.status
                                     /\ proc[o].orig.status # request'.status

LEMMA ReopenStep == RequestsInv /\ [Next]_vars => [Reopens => ReopenedByOwner]_vars
<1> SUFFICES ASSUME RequestsInv, [Next]_vars, Reopens
             PROVE  ReopenedByOwner
  OBVIOUS
<1>1. request' # request /\ request \in Row
  BY DEF Reopens, Live, Closed, RequestsInv, TypeOK
<1>2. CASE \E p \in Procs : Save(p)
  <2>1. PICK p \in Procs : Save(p)
    BY <1>2
  <2>2. request' = Merged(proc[p].orig, proc[p].copy) /\ At(p, "save")
    BY <1>1, <2>1 DEF Save
  <2>3. proc[p].copy.status # proc[p].orig.status /\ request'.status = proc[p].copy.status
    BY <2>2 DEF Merged, Reopens, Live, Closed
  <2>4. p \in Owners
    <3>1. CopyOK(p)
      BY DEF RequestsInv
    <3>2. QED
      BY <2>2, <2>3, <3>1 DEF CopyOK, Reopens, Live, Closed
  <2>5. QED
    BY <2>2, <2>3, <2>4 DEF ReopenedByOwner
<1>3. CASE PauseConnection \/ ResumeConnection \/ DisconnectConnection
  BY <1>1, <1>3 DEF PauseConnection, ResumeConnection, DisconnectConnection, ToolEdit,
     Held, Released, Disconnected, Detached, Reopens, Live, Closed, Row
<1>4. CASE \E o \in Owners : Delete(o)
  BY <1>1, <1>4 DEF Delete, Reopens, Live, Row
<1>5. CASE UNCHANGED request
  BY <1>1, <1>5
<1>6. QED
  BY <1>2, <1>3, <1>4, <1>5 DEF Next, Open, TurnAway, FindExisting, CreateAnswer,
     UpdateAnswer, StatementFails, Edit, Withdraw, CloseByTool, ToolLeaves, Tick, Crash,
     vars

\* A resume of the tool, a late count, a late expiry or the tool's own close never bring
\* a revoked, expired or completed request back; only an owner's status change does.
THEOREM ClosedStaysClosedHolds == Spec => ClosedStaysClosed
  BY RequestsInvariant, ReopenStep, PTL
     DEF Spec, ClosedStaysClosed, Reopens, ReopenedByOwner

-----------------------------------------------------------------------------
(* The exact count and the cap. *)

\* A copy in the gates is the row as it was loaded, and open; a copy that counts one more
\* answer was made from such a row, and completes it when that uses the cap.
CopyMade(p) ==
  /\ proc[p].pc \in {"gates", "create", "update"} =>
       proc[p].copy = proc[p].orig /\ proc[p].orig.status = "active"
  /\ At(p, "save") =>
       \/ proc[p].copy.responseCount = proc[p].orig.responseCount
       \/ /\ p \in Submissions /\ proc[p].orig.status = "active"
          /\ proc[p].copy = Counted(proc[p].orig)

\* A submission whose answer is created and not counted yet, and one that may create one.
Counting(s) == At(s, "save") /\ proc[s].copy.responseCount # proc[s].orig.responseCount
Answering(s) == At(s, "gates") \/ At(s, "create")

\* Without overlaps there is one submission at a time, what it counts from is what the row
\* counts, and every answer created is in the count or in its copy.
OneAtATime == \A s, q \in Submissions : s # q => At(s, "idle") \/ At(q, "idle")
Exact ==
  request.status # "deleted" =>
    /\ \A s \in Submissions : Answering(s) \/ Counting(s) =>
         proc[s].orig.responseCount = request.responseCount
    /\ (\E s \in Submissions : Counting(s)) => minted = request.responseCount + 1
    /\ (\A s \in Submissions : ~Counting(s)) => minted = request.responseCount
Undisturbed == faults = 0 /\ ~overlapped

\* While the cap is left alone every copy has it, the answers stay within it and there is
\* room for the one that may be created.
SameCap == \A p \in Procs : ~At(p, "idle") => /\ proc[p].orig.maxResponses = request.maxResponses
                                              /\ proc[p].copy.maxResponses = request.maxResponses
WithinCap == request.maxResponses > 0 =>
               /\ minted <= request.maxResponses
               /\ \A s \in Submissions : Answering(s) => minted < request.maxResponses

\* While the owner leaves the status alone too, no copy opens the request, and a used cap
\* has closed it.
ClosedAtCap == /\ \A o \in Owners : At(o, "save") => proc[o].copy.status = proc[o].orig.status
               /\ CapUsed(request) => request.status \notin Live

\* The inductive invariant.
CountInv == /\ RequestsInv
            /\ \A p \in Procs : CopyMade(p)
            /\ Undisturbed => OneAtATime /\ Exact
            /\ capEdits = 0 => /\ SameCap
                               /\ Undisturbed => WithinCap
                               /\ statusEdits = 0 => ClosedAtCap

LEMMA CountInit == Init => CountInv
<1> SUFFICES ASSUME Init PROVE CountInv
  OBVIOUS
<1>1. RequestsInv
  BY InvInit
<1>2. \A p \in Procs : proc[p] = Idle
  BY DEF Init
<1>a. Idle.pc = "idle"
  BY DEF Idle
<1>3. \A p \in Procs : At(p, "idle")
  BY <1>2, <1>a DEF At
<1>4. Submissions \subseteq Procs /\ Owners \subseteq Procs
  BY DEF Procs
<1>5. request.responseCount = 0 /\ minted = 0 /\ request.maxResponses \in Nat
  BY <1>1 DEF Init, RequestsInv, TypeOK, Row
<1>6. QED
  BY <1>1, <1>3, <1>4, <1>5 DEF CountInv, CopyMade, OneAtATime, Exact, SameCap, WithinCap,
     ClosedAtCap, CapUsed, Counting, Answering, At

\* What the invariant says, and what holds of every step.
LEMMA CountFacts ==
  ASSUME CountInv, [Next]_vars
  PROVE  /\ RequestsInv /\ RequestsInv' /\ request \in Row /\ minted \in Nat /\ minted' \in Nat
         /\ request' \in Row /\ proc \in [Procs -> Proc] /\ proc' \in [Procs -> Proc]
         /\ faults \in Nat /\ edits \in Nat /\ capEdits \in Nat /\ statusEdits \in Nat
         /\ \A p \in Procs : CopyMade(p) /\ CopyOK(p)
         /\ Submissions \subseteq Procs /\ Owners \subseteq Procs /\ Tools \subseteq Procs
         /\ Submissions \cap (Owners \cup Tools) = {} /\ Owners \cap Tools = {}
<1>1. RequestsInv /\ RequestsInv'
  BY InvStep DEF CountInv
<1>2. Submissions \subseteq Procs /\ Owners \subseteq Procs /\ Tools \subseteq Procs
  BY DEF Procs
<1>3. QED
  BY <1>1, <1>2, RequestsAssumption DEF CountInv, RequestsInv, TypeOK

\* A step of p alone: what has to be shown of p.
LEMMA OneMoves ==
  ASSUME CountInv, [Next]_vars, NEW p \in Procs, \A q \in Procs \ {p} : proc'[q] = proc[q],
         CopyMade(p)',
         request' = request, capEdits' = 0 => capEdits = 0, statusEdits' = 0 => statusEdits = 0,
         Undisturbed' => Undisturbed,
         \* one at a time
         Undisturbed' /\ p \in Submissions /\ At(p, "idle") /\ ~At(p, "idle")' =>
           \A q \in Submissions \ {p} : At(q, "idle"),
         \* what p counts from
         Undisturbed' /\ p \in Submissions /\ (Answering(p) \/ Counting(p))' /\ request.status # "deleted" =>
           \/ proc'[p].orig = request
           \/ proc'[p].orig = proc[p].orig /\ (Answering(p) \/ Counting(p)),
         Undisturbed' /\ request.status # "deleted" =>
           /\ Counting(p)' /\ p \in Submissions =>
                ~Counting(p) /\ Answering(p) /\ minted' = minted + 1
           /\ ~Counting(p)' \/ p \notin Submissions =>
                minted' = minted /\ (p \in Submissions => ~Counting(p)),
         request.status = "deleted" => minted' = minted,
         \* the cap
         ~At(p, "idle")' /\ capEdits' = 0 => proc'[p].orig.maxResponses = request.maxResponses
                              /\ proc'[p].copy.maxResponses = request.maxResponses,
         Undisturbed' /\ p \in Submissions /\ Answering(p)' =>
           Answering(p) \/ (~CapUsed(request) /\ request.status # "deleted"),
         statusEdits' = 0 /\ p \in Owners /\ At(p, "save")' =>
           proc'[p].copy.status = proc'[p].orig.status
  PROVE  CountInv'
<1>1. /\ RequestsInv /\ RequestsInv' /\ request \in Row /\ minted \in Nat /\ minted' \in Nat
      /\ \A q \in Procs : CopyMade(q)
      /\ Submissions \subseteq Procs /\ Owners \subseteq Procs
      /\ Submissions \cap Owners = {}
  BY CountFacts
<1>2. \A q \in Procs : CopyMade(q)'
  BY <1>1 DEF CopyMade, At
<1>3. \A q \in Procs \ {p} : /\ At(q, "idle")' <=> At(q, "idle")
                             /\ Answering(q)' <=> Answering(q)
                             /\ Counting(q)' <=> Counting(q)
  BY DEF At, Answering, Counting
<1>4. ASSUME Undisturbed' PROVE OneAtATime'
  <2>1. OneAtATime
    BY <1>4 DEF CountInv
  <2>2. QED
    BY <1>1, <1>3, <1>4, <2>1 DEF OneAtATime
<1>5. \A s \in Submissions : Answering(s) \/ Counting(s) => ~At(s, "idle")
  BY DEF Answering, Counting, At
<1>6. ASSUME Undisturbed', request.status # "deleted" PROVE Exact'
  <2>1. OneAtATime /\ Exact
    BY <1>6 DEF CountInv
  <2>2. \A s \in Submissions : (Answering(s) \/ Counting(s))' =>
          proc'[s].orig.responseCount = request.responseCount
    BY <1>1, <1>3, <1>6, <2>1 DEF Exact
  <2>3. CASE p \in Submissions /\ Counting(p)'
    <3>1. Answering(p) /\ ~Counting(p) /\ minted' = minted + 1
      BY <1>6, <2>3
    <3>2. \A s \in Submissions \ {p} : ~Counting(s)
      BY <1>5, <2>1, <2>3, <3>1 DEF OneAtATime
    <3>3. minted = request.responseCount
      BY <1>6, <2>1, <3>1, <3>2 DEF Exact
    <3>4. QED
      BY <2>2, <2>3, <3>1, <3>3 DEF Exact
  <2>4. CASE p \notin Submissions \/ ~Counting(p)'
    <3>1. minted' = minted /\ (p \in Submissions => ~Counting(p))
      BY <1>6, <2>4
    <3>2. \A s \in Submissions : Counting(s)' <=> Counting(s)
      BY <1>1, <1>3, <2>4, <3>1
    <3>3. QED
      BY <1>6, <2>1, <2>2, <3>1, <3>2 DEF Exact
  <2>5. QED
    BY <2>3, <2>4
<1>7. ASSUME capEdits' = 0 PROVE SameCap'
  BY <1>1, <1>3, <1>7 DEF SameCap, CountInv
<1>8. ASSUME capEdits' = 0, Undisturbed' PROVE WithinCap'
  <2>1. WithinCap /\ OneAtATime /\ Exact
    BY <1>8 DEF CountInv
  <2>2. request.responseCount \in Nat /\ request.maxResponses \in Nat
    BY <1>1 DEF Row
  <2>3. SUFFICES ASSUME request.maxResponses > 0
                 PROVE  /\ minted' <= request.maxResponses
                        /\ \A s \in Submissions : Answering(s)' => minted' < request.maxResponses
    BY DEF WithinCap
  <2>4. CASE minted' = minted
    <3>1. ASSUME NEW s \in Submissions, Answering(s)' PROVE minted < request.maxResponses
      <4>1. CASE s # p
        BY <1>1, <1>3, <2>1, <2>3, <3>1, <4>1 DEF WithinCap
      <4>2. CASE s = p /\ Answering(p)
        BY <2>1, <2>3, <3>1, <4>2 DEF WithinCap
      <4>3. CASE s = p /\ ~Answering(p) /\ ~CapUsed(request) /\ request.status # "deleted"
        <5>1. request.responseCount < request.maxResponses
          BY <2>2, <2>3, <4>3 DEF CapUsed
        <5>2. CASE At(p, "idle")
          <6>1. \A q \in Submissions : At(q, "idle")
            BY <1>8, <3>1, <4>3, <5>2 DEF Answering, At
          <6>2. minted = request.responseCount
            BY <1>5, <2>1, <4>3, <6>1 DEF Exact
          <6>3. QED
            BY <5>1, <6>2
        <5>3. CASE ~At(p, "idle")
          <6>1. Undisturbed' /\ p \in Submissions /\ Answering(p)'
            BY <1>8, <3>1, <4>3
          <6>2. ~Counting(p)'
            BY <6>1 DEF Answering, Counting, At
          <6>3. ~Counting(p)
            BY <4>3, <6>1, <6>2
          <6>4. \A q \in Submissions \ {p} : At(q, "idle")
            BY <2>1, <5>3, <6>1 DEF OneAtATime
          <6>5. \A q \in Submissions : ~Counting(q)
            BY <1>5, <6>3, <6>4
          <6>6. minted = request.responseCount
            BY <2>1, <4>3, <6>5 DEF Exact
          <6>7. QED
            BY <5>1, <6>6
        <5>4. QED
          BY <5>2, <5>3
      <4>4. QED
        BY <1>8, <3>1, <4>1, <4>2, <4>3
    <3>2. QED
      BY <2>1, <2>3, <2>4, <3>1 DEF WithinCap
  <2>5. CASE minted' # minted
    <3>1. Counting(p)' /\ p \in Submissions /\ Answering(p) /\ minted' = minted + 1
      BY <1>8, <2>5
    <3>2. minted < request.maxResponses
      BY <2>1, <2>3, <3>1 DEF WithinCap
    <3>3. \A s \in Submissions : ~Answering(s)'
      <4>1. \A s \in Submissions \ {p} : At(s, "idle")
        BY <1>5, <2>1, <3>1 DEF OneAtATime
      <4>2. ~Answering(p)'
        BY <3>1 DEF Answering, Counting, At
      <4>3. QED
        BY <1>1, <1>3, <1>5, <4>1, <4>2
    <3>4. QED
      BY <1>1, <2>2, <3>1, <3>2, <3>3
  <2>6. QED
    BY <2>4, <2>5
<1>9. ASSUME capEdits' = 0, statusEdits' = 0 PROVE ClosedAtCap'
  <2>1. ClosedAtCap
    BY <1>9 DEF CountInv
  <2>2. \A o \in Owners : At(o, "save")' => proc'[o].copy.status = proc'[o].orig.status
    BY <1>1, <1>9, <2>1 DEF ClosedAtCap, At
  <2>3. QED
    BY <2>1, <2>2 DEF ClosedAtCap, CapUsed
<1>10. Exact' \/ request.status # "deleted"
  BY DEF Exact
<1>11. QED
  BY <1>1, <1>2, <1>4, <1>6, <1>7, <1>8, <1>9, <1>10 DEF CountInv

\* A step of p that only ends its request and counts nothing.
LEMMA EndsPlainly ==
  ASSUME CountInv, [Next]_vars, NEW p \in Procs, Leaves(p),
         UNCHANGED <<request, minted, capEdits, statusEdits>>,
         Undisturbed' => Undisturbed,
         Undisturbed' /\ request.status # "deleted" /\ p \in Submissions => ~Counting(p)
  PROVE  CountInv'
<1>1. proc \in [Procs -> Proc]
  BY CountFacts
<1>2. Idle.pc = "idle"
  BY DEF Idle
<1>3. proc'[p].pc = "idle" /\ \A q \in Procs \ {p} : proc'[q] = proc[q]
  BY <1>1, <1>2 DEF Leaves
<1>4. CopyMade(p)' /\ At(p, "idle")' /\ ~Answering(p)' /\ ~Counting(p)' /\ ~At(p, "save")'
  BY <1>3 DEF CopyMade, At, Answering, Counting
<1>5. QED
  BY <1>3, <1>4, OneMoves

LEMMA CountOpen == ASSUME CountInv, NEW s \in Submissions, Open(s) PROVE CountInv'
<1>1. [Next]_vars
  BY DEF Next
<1>2. /\ s \in Procs /\ s \notin Owners /\ request \in Row /\ proc \in [Procs -> Proc] /\ CopyMade(s)
      /\ \A q \in Procs : proc[q] \in Proc
  BY <1>1, CountFacts
<1>3. /\ At(s, "idle") /\ request.status # "deleted"
      /\ UNCHANGED <<request, minted, capEdits, statusEdits, faults>>
      /\ overlapped' <=> (overlapped \/ \E q \in Submissions \ {s} : ~At(q, "idle"))
  BY DEF Open, bodyEdits, counters
<1>4. \A q \in Procs \ {s} : proc'[q] = proc[q]
  BY <1>2 DEF Open
<1>5. ~Answering(s) /\ ~Counting(s)
  BY <1>3 DEF Answering, Counting, At
<1>6. \/ UNCHANGED proc
      \/ /\ proc'[s].pc \in {"save", "gates"} /\ proc'[s].orig = request
         /\ proc'[s].copy.responseCount = request.responseCount
         /\ proc'[s].copy.maxResponses = request.maxResponses
         /\ proc'[s].pc = "gates" => /\ proc'[s].copy = request /\ request.status = "active"
                                     /\ ~CapUsed(request)
  <2>1. CASE RefreshTransition(request) # "none"
    <3>1. /\ proc'[s].pc = "save" /\ proc'[s].orig = request
          /\ proc'[s].copy = [request EXCEPT !.status = RefreshTransition(request)]
      BY <1>2, <2>1 DEF Open, Proc
    <3>2. QED
      BY <1>2, <3>1 DEF Row
  <2>2. CASE RefreshTransition(request) = "none" /\ request.status = "active"
    <3>1. /\ proc'[s].pc = "gates" /\ proc'[s].orig = request /\ proc'[s].copy = request
      BY <1>2, <2>2 DEF Open, Proc
    <3>2. ~CapUsed(request)
      BY <2>2 DEF RefreshTransition, Closed
    <3>3. QED
      BY <2>2, <3>1, <3>2
  <2>3. CASE RefreshTransition(request) = "none" /\ request.status # "active"
    BY <2>3 DEF Open
  <2>4. QED
    BY <2>1, <2>2, <2>3
<1>7. CopyMade(s)' /\ ~Counting(s)' /\ (At(s, "gates")' <=> Answering(s)')
  BY <1>2, <1>3, <1>6 DEF CopyMade, At, Counting, Answering
<1>8. Undisturbed' => Undisturbed /\ \A q \in Submissions \ {s} : At(q, "idle")
  BY <1>3 DEF Undisturbed
<1>9. Answering(s)' => proc'[s].orig = request /\ ~CapUsed(request)
  BY <1>3, <1>6, <1>7 DEF At
<1>10. ~At(s, "idle")' => /\ proc'[s].orig.maxResponses = request.maxResponses
                          /\ proc'[s].copy.maxResponses = request.maxResponses
  BY <1>3, <1>6 DEF At
<1>11. QED
  BY <1>1, <1>2, <1>3, <1>4, <1>5, <1>7, <1>8, <1>9, <1>10, OneMoves

LEMMA CountTurnAway ==
  ASSUME CountInv, NEW s \in Submissions, TurnAway(s) \/ UpdateAnswer(s) PROVE CountInv'
<1>1. [Next]_vars /\ s \in Procs
  BY DEF Next, Procs
<1>2. QED
  BY <1>1, EndsPlainly DEF TurnAway, UpdateAnswer, bodyEdits, counters, Undisturbed, Counting, At

LEMMA CountFind == ASSUME CountInv, NEW s \in Submissions, FindExisting(s) PROVE CountInv'
<1>1. [Next]_vars
  BY DEF Next
<1>2. /\ s \in Procs /\ s \notin Owners /\ proc \in [Procs -> Proc] /\ CopyMade(s)
      /\ proc[s] \in Proc
  BY <1>1, CountFacts
<1>3. /\ At(s, "gates") /\ UNCHANGED <<request, minted, capEdits, statusEdits, faults, overlapped>>
  BY DEF FindExisting, bodyEdits, counters
<1>4. /\ \A q \in Procs \ {s} : proc'[q] = proc[q]
      /\ proc'[s].pc \in {"update", "create"}
      /\ proc'[s].orig = proc[s].orig /\ proc'[s].copy = proc[s].copy
  BY <1>2 DEF FindExisting, Proc
<1>5. CopyMade(s)' /\ Answering(s) /\ ~Counting(s) /\ ~Counting(s)' /\ ~At(s, "idle") /\ ~At(s, "save")'
  BY <1>2, <1>3, <1>4 DEF CopyMade, At, Answering, Counting
<1>6. Undisturbed' => Undisturbed
  BY <1>3 DEF Undisturbed
<1>7. capEdits' = 0 => proc'[s].orig.maxResponses = request.maxResponses
                       /\ proc'[s].copy.maxResponses = request.maxResponses
  BY <1>2, <1>3, <1>4, <1>5 DEF CountInv, SameCap
<1>8. QED
  BY <1>1, <1>2, <1>3, <1>4, <1>5, <1>6, <1>7, OneMoves

LEMMA CountCreate == ASSUME CountInv, NEW s \in Submissions, CreateAnswer(s) PROVE CountInv'
<1>1. [Next]_vars
  BY DEF Next
<1>2. /\ s \in Procs /\ s \notin Owners /\ proc \in [Procs -> Proc] /\ CopyMade(s)
      /\ proc[s] \in Proc /\ proc[s].orig \in Row
  BY <1>1, CountFacts DEF Proc
<1>3. /\ At(s, "create") /\ UNCHANGED <<request, capEdits, statusEdits, faults, overlapped>>
  BY DEF CreateAnswer, bodyEdits, counters
<1>4. Undisturbed' => Undisturbed
  BY <1>3 DEF Undisturbed
<1>5. Answering(s) /\ ~Counting(s) /\ ~At(s, "idle")
  BY <1>3 DEF Answering, Counting, At
<1>6. CASE ~Storable(proc[s].person)
  BY <1>1, <1>2, <1>3, <1>4, <1>5, <1>6, EndsPlainly DEF CreateAnswer
<1>7. CASE Storable(proc[s].person)
  <2>1. request.status # "deleted" /\ minted' = minted + 1
    BY <1>7 DEF CreateAnswer, Storable
  <2>2. proc[s].copy = proc[s].orig /\ proc[s].orig.status = "active"
    BY <1>2, <1>3 DEF CopyMade, At
  <2>3. /\ \A q \in Procs \ {s} : proc'[q] = proc[q]
        /\ proc'[s].pc = "save" /\ proc'[s].orig = proc[s].orig
        /\ proc'[s].copy = Counted(proc[s].orig)
    BY <1>2, <1>7, <2>2 DEF CreateAnswer, Proc
  <2>4. /\ Counted(proc[s].orig).responseCount = proc[s].orig.responseCount + 1
        /\ Counted(proc[s].orig).maxResponses = proc[s].orig.maxResponses
        /\ proc[s].orig.responseCount \in Nat
    BY <1>2, CountedType DEF Counted, Row
  <2>5. CopyMade(s)' /\ Counting(s)' /\ ~At(s, "idle")' /\ ~Answering(s)'
    BY <2>2, <2>3, <2>4 DEF CopyMade, Counting, Answering, At
  <2>6. capEdits = 0 => proc[s].orig.maxResponses = request.maxResponses
    BY <1>2, <1>5 DEF CountInv, SameCap
  <2>7. QED
    BY <1>1, <1>2, <1>3, <1>4, <1>5, <2>1, <2>3, <2>4, <2>5, <2>6, OneMoves
<1>8. QED
  BY <1>6, <1>7

LEMMA CountFails == ASSUME CountInv, NEW p \in Procs, StatementFails(p) PROVE CountInv'
<1>1. [Next]_vars
  BY DEF Next
<1>2. faults \in Nat
  BY <1>1, CountFacts
<1>3. ~Undisturbed'
  BY <1>2 DEF StatementFails, Fails, Undisturbed
<1>4. QED
  BY <1>1, <1>3, EndsPlainly DEF StatementFails, bodyEdits

LEMMA CountEdit == ASSUME CountInv, NEW o \in Owners, Edit(o) PROVE CountInv'
<1>1. [Next]_vars
  BY DEF Next
<1>2. /\ o \in Procs /\ o \notin Submissions /\ proc \in [Procs -> Proc] /\ request \in Row
      /\ capEdits \in Nat /\ statusEdits \in Nat
  BY <1>1, CountFacts
<1>3. UNCHANGED <<request, minted, faults, overlapped>>
  BY DEF Edit, Edits
<1>4. PICK patch \in Patches :
        /\ proc' = [proc EXCEPT ![o].pc = "save", ![o].orig = request,
                                ![o].copy = Patched(request, patch),
                                ![o].pauses = (patch.field = "status" /\ patch.to = "paused")]
        /\ capEdits' = IF patch.field = "maxResponses" THEN capEdits + 1 ELSE capEdits
        /\ statusEdits' = IF patch.field = "status" THEN statusEdits + 1 ELSE statusEdits
  BY DEF Edit
<1>5. /\ \A q \in Procs \ {o} : proc'[q] = proc[q]
      /\ proc'[o].pc = "save" /\ proc'[o].orig = request /\ proc'[o].copy = Patched(request, patch)
  BY <1>2, <1>4 DEF Proc
<1>6. Patched(request, patch).responseCount = request.responseCount
  BY <1>2, PatchedType
<1>7. /\ capEdits' = 0 => capEdits = 0 /\ patch.field # "maxResponses"
      /\ statusEdits' = 0 => statusEdits = 0 /\ patch.field # "status"
  BY <1>2, <1>4
<1>8. /\ patch.field # "maxResponses" => Patched(request, patch).maxResponses = request.maxResponses
      /\ patch.field # "status" => Patched(request, patch).status = request.status
  BY <1>2 DEF Patched, Row
<1>9. CopyMade(o)' /\ ~Counting(o)'
  BY <1>5, <1>6 DEF CopyMade, At, Counting
<1>10. Undisturbed' => Undisturbed
  BY <1>3 DEF Undisturbed
<1>11. QED
  BY <1>1, <1>2, <1>3, <1>5, <1>7, <1>8, <1>9, <1>10, OneMoves

LEMMA CountClose == ASSUME CountInv, NEW t \in Tools, CloseByTool(t) PROVE CountInv'
<1>1. [Next]_vars
  BY DEF Next
<1>2. /\ t \in Procs /\ t \notin Submissions /\ t \notin Owners /\ proc \in [Procs -> Proc]
      /\ request \in Row
  BY <1>1, CountFacts
<1>3. UNCHANGED <<request, minted, faults, overlapped, capEdits, statusEdits>>
  BY DEF CloseByTool, Edits, bodyEdits
<1>4. /\ \A q \in Procs \ {t} : proc'[q] = proc[q]
      /\ proc'[t].pc = "save" /\ proc'[t].orig = request /\ proc'[t].copy = Disconnected(request)
  BY <1>2 DEF CloseByTool, Proc
<1>5. /\ Disconnected(request).responseCount = request.responseCount
      /\ Disconnected(request).maxResponses = request.maxResponses
  BY <1>2 DEF Disconnected, Row
<1>6. CopyMade(t)' /\ ~Counting(t)'
  BY <1>4, <1>5 DEF CopyMade, At, Counting
<1>7. Undisturbed' => Undisturbed
  BY <1>3 DEF Undisturbed
<1>8. QED
  BY <1>1, <1>2, <1>3, <1>4, <1>5, <1>6, <1>7, OneMoves

\* The save of a live row: a count that was due is in it now, and a cap it uses closes it.
LEMMA CountSave == ASSUME CountInv, NEW p \in Procs, Save(p) PROVE CountInv'
<1>1. [Next]_vars
  BY DEF Next
<1>2. /\ request \in Row /\ request' \in Row /\ proc \in [Procs -> Proc] /\ CopyMade(p) /\ CopyOK(p)
      /\ proc[p] \in Proc /\ proc[p].orig \in Row /\ proc[p].copy \in Row
      /\ Submissions \subseteq Procs /\ Owners \subseteq Procs /\ Submissions \cap Owners = {}
      /\ RequestsInv' /\ minted \in Nat
      /\ \A q \in Procs : CopyMade(q)
  BY <1>1, CountFacts DEF Proc
<1>3. /\ At(p, "save") /\ Leaves(p)
      /\ UNCHANGED <<minted, capEdits, statusEdits, faults, overlapped>>
  BY DEF Save, bodyEdits, counters
<1>4. Undisturbed' <=> Undisturbed
  BY <1>3 DEF Undisturbed
<1>5. CASE request.status = "deleted"
  BY <1>1, <1>3, <1>4, <1>5, EndsPlainly DEF Save
<1>6. CASE request.status # "deleted"
  <2>1. Idle.pc = "idle"
    BY DEF Idle
  <2>2. proc'[p].pc = "idle" /\ \A q \in Procs \ {p} : proc'[q] = proc[q]
    BY <1>2, <1>3, <2>1 DEF Leaves
  <2>3. request' = Merged(proc[p].orig, proc[p].copy)
    BY <1>6 DEF Save
  <2>4. /\ request'.status = IF proc[p].copy.status # proc[p].orig.status
                             THEN proc[p].copy.status ELSE request.status
        /\ request'.responseCount = IF proc[p].copy.responseCount # proc[p].orig.responseCount
                                    THEN proc[p].copy.responseCount ELSE request.responseCount
        /\ request'.maxResponses = IF proc[p].copy.maxResponses # proc[p].orig.maxResponses
                                   THEN proc[p].copy.maxResponses ELSE request.maxResponses
    BY <2>3 DEF Merged
  <2>5. \A q \in Procs : CopyMade(q)'
    BY <1>2, <2>2 DEF CopyMade, At
  <2>6. /\ At(p, "idle")' /\ ~Answering(p)' /\ ~Counting(p)' /\ ~At(p, "idle") /\ ~Answering(p)
        /\ \A q \in Procs \ {p} : /\ At(q, "idle")' <=> At(q, "idle")
                                  /\ Answering(q)' <=> Answering(q)
                                  /\ Counting(q)' <=> Counting(q)
    BY <1>3, <2>2 DEF At, Answering, Counting
  <2>7. \A s \in Submissions : Answering(s) \/ Counting(s) => ~At(s, "idle")
    BY DEF Answering, Counting, At
  <2>8. Counting(p) => /\ p \in Submissions /\ proc[p].orig.status = "active"
                       /\ proc[p].copy = Counted(proc[p].orig)
                       /\ proc[p].copy.responseCount = proc[p].orig.responseCount + 1
    <3>1. Counting(p) => p \in Submissions /\ proc[p].orig.status = "active"
                         /\ proc[p].copy = Counted(proc[p].orig)
      BY <1>2, <1>3 DEF CopyMade, Counting
    <3>2. QED
      BY <1>2, <3>1, CountedType
  <2>9. ASSUME Undisturbed' PROVE OneAtATime' /\ Exact'
    <3>1. OneAtATime /\ Exact
      BY <1>4, <2>9 DEF CountInv
    <3>2. OneAtATime'
      BY <1>2, <2>6, <3>1 DEF OneAtATime
    <3>3. CASE Counting(p)
      <4>1. \A s \in Submissions \ {p} : At(s, "idle")
        BY <2>6, <2>8, <3>1, <3>3 DEF OneAtATime
      <4>2. \A s \in Submissions : ~Answering(s)' /\ ~Counting(s)'
        BY <1>2, <2>6, <2>7, <4>1
      <4>3. minted = request.responseCount + 1 /\ proc[p].orig.responseCount = request.responseCount
        BY <1>6, <2>8, <3>1, <3>3 DEF Exact
      <4>4. request'.responseCount = request.responseCount + 1
        BY <2>4, <2>8, <3>3, <4>3 DEF Counting
      <4>5. QED
        BY <1>3, <3>2, <4>2, <4>3, <4>4 DEF Exact
    <3>4. CASE ~Counting(p)
      <4>1. request'.responseCount = request.responseCount
        BY <1>3, <2>4, <3>4 DEF Counting
      <4>2. \A s \in Submissions : /\ Counting(s)' <=> Counting(s)
                                   /\ Answering(s)' => Answering(s)
                                   /\ (Answering(s) \/ Counting(s))' => proc'[s].orig = proc[s].orig
        BY <1>2, <2>2, <2>6, <3>4
      <4>3. QED
        BY <1>3, <1>6, <3>1, <3>2, <4>1, <4>2 DEF Exact
    <3>5. QED
      BY <3>3, <3>4
  <2>10. ASSUME capEdits' = 0 PROVE SameCap' /\ request'.maxResponses = request.maxResponses
    <3>1. SameCap
      BY <1>3, <2>10 DEF CountInv
    <3>2. request'.maxResponses = request.maxResponses
      BY <2>4, <2>6, <3>1 DEF SameCap
    <3>3. QED
      BY <2>2, <2>6, <3>1, <3>2 DEF SameCap
  <2>11. ASSUME capEdits' = 0, Undisturbed' PROVE WithinCap'
    <3>1. WithinCap
      BY <1>3, <1>4, <2>11 DEF CountInv
    <3>2. \A s \in Submissions : Answering(s)' => Answering(s)
      BY <1>2, <2>6
    <3>3. QED
      BY <1>3, <2>10, <2>11, <3>1, <3>2 DEF WithinCap
  <2>12. ASSUME capEdits' = 0, statusEdits' = 0 PROVE ClosedAtCap'
    <3>1. ClosedAtCap /\ SameCap
      BY <1>3, <2>12 DEF CountInv
    <3>2. \A o \in Owners : At(o, "save")' => proc'[o].copy.status = proc'[o].orig.status
      <4>1. \A o \in Owners : At(o, "save")' => o # p
        BY <2>2 DEF At
      <4>2. QED
        BY <1>2, <2>2, <3>1, <4>1 DEF ClosedAtCap, At
    <3>3. ASSUME CapUsed(request)' PROVE request'.status \notin Live
      <4>1. CASE Counting(p)
        <5>1. proc[p].orig.maxResponses = request'.maxResponses
          BY <2>6, <2>10, <2>12, <3>1 DEF SameCap
        <5>2. /\ request'.responseCount = proc[p].orig.responseCount + 1
              /\ request'.maxResponses > 0 /\ request'.responseCount >= request'.maxResponses
          BY <2>4, <2>8, <3>3, <4>1 DEF Counting, CapUsed
        <5>3. proc[p].copy.status = "completed"
          BY <1>2, <2>8, <4>1, <5>1, <5>2 DEF Counted, Row
        <5>4. QED
          BY <2>4, <2>8, <4>1, <5>3 DEF Live
      <4>2. CASE ~Counting(p)
        <5>1. CapUsed(request)
          BY <1>3, <2>4, <2>10, <2>12, <3>3, <4>2 DEF Counting, CapUsed
        <5>2. request.status \notin Live
          BY <3>1, <5>1 DEF ClosedAtCap
        <5>3. proc[p].copy.status \in Closed \cup {proc[p].orig.status}
          BY <1>2, <1>3, <3>1 DEF CopyOK, ClosedAtCap
        <5>4. QED
          BY <2>4, <5>2, <5>3 DEF Live, Closed
      <4>3. QED
        BY <4>1, <4>2
    <3>4. QED
      BY <3>2, <3>3 DEF ClosedAtCap
  <2>13. QED
    BY <1>2, <2>5, <2>9, <2>10, <2>11, <2>12 DEF CountInv
<1>7. QED
  BY <1>5, <1>6

\* Steps that move no request of ours: the row keeps its count and cap, and is live after
\* only if it was before.
LEMMA RowsOnly ==
  ASSUME CountInv, [Next]_vars, UNCHANGED <<proc, minted, capEdits, statusEdits, faults, overlapped>>,
         request'.responseCount = request.responseCount,
         request'.maxResponses = request.maxResponses,
         request'.status # "deleted" => request.status # "deleted",
         request'.status \in Live => request.status \in Live
  PROVE  CountInv'
<1>1. RequestsInv'
  BY CountFacts
<1>2. \A p \in Procs : CopyMade(p)'
  BY DEF CountInv, CopyMade, At
<1>3. Undisturbed' <=> Undisturbed
  BY DEF Undisturbed
<1>4. ASSUME Undisturbed' PROVE OneAtATime' /\ Exact'
  BY <1>3, <1>4 DEF CountInv, OneAtATime, Exact, Answering, Counting, At
<1>5. ASSUME capEdits' = 0 PROVE SameCap'
  BY <1>5 DEF CountInv, SameCap, At
<1>6. ASSUME capEdits' = 0, Undisturbed' PROVE WithinCap'
  BY <1>3, <1>6 DEF CountInv, WithinCap, Answering, At
<1>7. ASSUME capEdits' = 0, statusEdits' = 0 PROVE ClosedAtCap'
  BY <1>7 DEF CountInv, ClosedAtCap, CapUsed, At
<1>8. QED
  BY <1>1, <1>2, <1>4, <1>5, <1>6, <1>7 DEF CountInv

LEMMA CountElse ==
  ASSUME CountInv,
         \/ \E o \in Owners : Delete(o)
         \/ \E person \in Locals : Withdraw(person)
         \/ PauseConnection \/ ResumeConnection \/ DisconnectConnection \/ ToolLeaves
         \/ Tick \/ UNCHANGED vars
  PROVE  CountInv'
<1>1. [Next]_vars
  BY DEF Next
<1>2. request \in Row
  BY <1>1, CountFacts
<1>3. CASE \E o \in Owners : Delete(o)
  <2>1. /\ request' = [request EXCEPT !.status = "deleted"]
        /\ UNCHANGED <<proc, minted, capEdits, statusEdits, faults, overlapped>>
    BY <1>3 DEF Delete, Edits, bodyEdits
  <2>2. QED
    BY <1>1, <1>2, <2>1, RowsOnly DEF Row, Live
<1>4. CASE \/ \E person \in Locals : Withdraw(person)
           \/ ToolLeaves \/ Tick \/ UNCHANGED vars
  <2>1. UNCHANGED <<request, proc, minted, capEdits, statusEdits, faults, overlapped>>
    BY <1>4 DEF Withdraw, ToolLeaves, Tick, vars, Edits, bodyEdits, counters
  <2>2. QED
    BY <1>1, <2>1, RowsOnly
<1>5. CASE PauseConnection \/ ResumeConnection \/ DisconnectConnection
  <2>1. PICK new \in {Held(request), Released(request), Disconnected(request),
                      Detached(request)} : ToolEdit(new)
    BY <1>5 DEF PauseConnection, ResumeConnection, DisconnectConnection
  <2>2. /\ request' = new /\ request.status # "deleted"
        /\ UNCHANGED <<proc, minted, capEdits, statusEdits, faults, overlapped>>
    BY <2>1 DEF ToolEdit, Edits, bodyEdits
  <2>3. /\ new.responseCount = request.responseCount
        /\ new.maxResponses = request.maxResponses
        /\ new.status \in Live => request.status \in Live
    BY <1>2, <2>1 DEF Held, Released, Disconnected, Detached, Row, Live
  <2>4. QED
    BY <1>1, <2>2, <2>3, RowsOnly
<1>6. QED
  BY <1>3, <1>4, <1>5

LEMMA CountCrash == ASSUME CountInv, Crash PROVE CountInv'
<1>1. [Next]_vars
  BY DEF Next
<1>2. faults \in Nat /\ RequestsInv' /\ Owners \subseteq Procs
  BY <1>1, CountFacts
<1>3. ~Undisturbed'
  BY <1>2 DEF Crash, Fails, Undisturbed
<1>4. Idle.pc = "idle"
  BY DEF Idle
<1>5. \A p \in Procs : proc'[p].pc = "idle"
  BY <1>4 DEF Crash
<1>6. UNCHANGED <<request, capEdits, statusEdits>>
  BY DEF Crash, bodyEdits
<1>7. \A p \in Procs : CopyMade(p)' /\ At(p, "idle")' /\ ~At(p, "save")'
  BY <1>5 DEF CopyMade, At
<1>8. QED
  BY <1>2, <1>3, <1>6, <1>7 DEF CountInv, SameCap, ClosedAtCap, CapUsed

LEMMA CountStep == CountInv /\ [Next]_vars => CountInv'
BY CountOpen, CountTurnAway, CountFind, CountCreate, CountFails, CountEdit, CountClose, CountSave,
   CountElse, CountCrash DEF Next

\* The invariant behind the count: of submissions that do not overlap there is one at a
\* time, and an answer created is in the stored count or in the copy about to be saved.
THEOREM CountInvariant == Spec => []CountInv
BY CountInit, CountStep, PTL DEF Spec

\* Submissions that neither overlap nor fail are all counted, whatever the owner, the tool
\* and withdrawals store between a submission's four statements.
THEOREM CountExactHolds == Spec => []CountExact
<1>1. CountInv => CountExact
  <2> SUFFICES ASSUME CountInv, AtRest, Undisturbed, request.status # "deleted"
               PROVE  request.responseCount = minted
    BY DEF CountExact, Undisturbed
  <2>1. Exact /\ \A s \in Submissions : ~Counting(s)
    BY DEF CountInv, AtRest, Counting, At, Procs
  <2>2. QED
    BY <2>1 DEF Exact
<1>2. QED
  BY <1>1, CountInvariant, PTL

\* A request whose cap the owner leaves alone takes no more answers than the cap, and the
\* one that uses it closes the request (CreateAnswer's count and RefreshRequestStatus).
THEOREM CapKeptHolds == Spec => []CapKept
<1>1. CountInv => CapKept
  BY DEF CountInv, CapKept, Undisturbed, WithinCap, ClosedAtCap
<1>2. QED
  BY <1>1, CountInvariant, PTL
=============================================================================
