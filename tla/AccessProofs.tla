---------------------------- MODULE AccessProofs ----------------------------
(***************************************************************************)
(* Proofs about whom a person lets in: services signed in at (SignIns),    *)
(* connected tools (Connections) and people who hand over grants           *)
(* (Contacts), for any requests, keys, items and bounds.                   *)
(***************************************************************************)
EXTENDS SignIns, Connections, Contacts, FiniteSetTheorems, TLAPS

(***************************************************************************)
(* SignIns                                                                 *)
(***************************************************************************)

\* A grant token given out before a disconnect is on a live link only if its owner
\* brought it back; a token not minted yet is on none.
EndedTokensDead ==
  /\ ended \subseteq 1..shares
  /\ LiveRow(signInLink) /\ signInLink.token \in ended => reopened

\* The inductive invariant.
SignInInv == SignInsTypeOK /\ HeldOnlyWhilePaused /\ EndedTokensDead

LEMMA SignInNumbers ==
  /\ MaxTickets \in Nat /\ MaxGenerations \in Nat /\ MaxShares \in Nat
  BY SignInsAssumption

LEMMA SignInRows ==
  ASSUME SignInsTypeOK
  PROVE  /\ signIn \in Rows /\ signInLink \in LinkRows
         /\ signInLink.held \in BOOLEAN /\ signInLink.keys \subseteq ShareKeys
         /\ signInLink.status \in {"none", "active", "paused", "revoked"}
         /\ signInLink.id \in 0..MaxShares /\ signInLink.token \in 0..MaxShares
         /\ shares \in Int /\ shares >= 0
         /\ signIn.generation \in 0..MaxGenerations /\ signIn.version \in 0..MaxGenerations
         /\ reopened \in BOOLEAN
  BY SignInNumbers DEF SignInsTypeOK, Rows, LinkRows

LEMMA SignInConstants ==
  /\ NoRow \in Rows /\ NoLink \in LinkRows /\ NoLink.held = FALSE /\ NoLink.status = "none"
  /\ IdleControl \in [op : {"idle", "pause", "resume", "disconnect", "newId"}, row : Rows]
<1>1. 0 \in 0..MaxGenerations /\ 0 \in 0..MaxShares
  BY SignInNumbers
<1>2. QED
  BY <1>1 DEF NoRow, Rows, NoLink, LinkRows, IdleControl

LEMMA SignInInit0 == SignInsInit => SignInInv
<1> SUFFICES ASSUME SignInsInit
             PROVE  SignInInv
  OBVIOUS
<1>1. 0 \in 0..MaxTickets /\ 0 \in 0..MaxShares
  BY SignInNumbers
<1>2. NoEdit \in [to : {"none", "active", "paused", "revoked"},
                  loaded : [id : 0..MaxShares, held : BOOLEAN,
                            status : {"none", "active", "paused", "revoked"}]]
  BY <1>1 DEF NoEdit, Columns, NoLink
<1>3. SignInsTypeOK
  BY <1>1, <1>2, SignInConstants DEF SignInsInit, SignInsTypeOK
<1>4. HeldOnlyWhilePaused /\ EndedTokensDead
  BY SignInConstants DEF SignInsInit, HeldOnlyWhilePaused, EndedTokensDead, LiveRow
<1>5. QED
  BY <1>3, <1>4 DEF SignInInv

LEMMA SharedRow ==
  ASSUME SignInsTypeOK, NEW chosen \in SUBSET ShareKeys, shares < MaxShares
  PROVE  /\ Shared(chosen) \in LinkRows /\ Shared(chosen).token = shares + 1
         /\ Shared(chosen).held <=> signInLink.held
         /\ shares + 1 \in 0..MaxShares
<1>1. shares + 1 \in 0..MaxShares
  BY SignInNumbers DEF SignInsTypeOK
<1>2. QED
  BY <1>1, SignInRows DEF Shared, LinkRows

LEMMA NameDroppedRow ==
  ASSUME SignInsTypeOK
  PROVE  /\ NameDropped \in LinkRows /\ NameDropped.token = signInLink.token
         /\ NameDropped.held <=> signInLink.held
         /\ LiveRow(NameDropped) => LiveRow(signInLink)
  BY SignInRows DEF NameDropped, LinkRows, LiveRow

LEMMA ApproveStep ==
  ASSUME SignInInv, Approve
  PROVE  SignInInv'
<1>1. SignInsTypeOK /\ HeldOnlyWhilePaused /\ EndedTokensDead
  BY DEF SignInInv
<1>2. /\ tickets' \in 0..MaxTickets
      /\ UNCHANGED <<control, linkEdit, access, reads, ended, tied>>
  BY <1>1, SignInNumbers DEF Approve, SignInsTypeOK
<1>3. CASE ~MayApprove
  <2>1. UNCHANGED <<signIn, signInLink, codes, shares, reopened>>
    BY <1>3 DEF Approve
  <2>2. SignInsTypeOK'
    BY <1>1, <1>2, <2>1 DEF SignInsTypeOK
  <2>3. QED
    BY <1>1, <1>2, <2>1, <2>2 DEF SignInInv, HeldOnlyWhilePaused, EndedTokensDead, LiveRow
<1>4. CASE MayApprove
  <2>1. PICK chosen \in SUBSET ShareKeys, nameAsked \in BOOLEAN :
          /\ chosen # {} => shares < MaxShares
          /\ signInLink' = CASE chosen # {} -> Shared(chosen)
                             [] chosen = {} /\ nameAsked -> NameDropped
                             [] OTHER -> signInLink
          /\ shares' = IF chosen = {} THEN shares ELSE shares + 1
          /\ reopened' = (reopened /\ chosen = {} /\ LiveRow(signInLink'))
          /\ signIn' = Recorded
          /\ codes' = codes \cup {[generation |-> signIn.generation,
                                   version |-> signIn.version]}
    BY <1>4 DEF Approve
  <2>2. ~signInLink.held
    BY <1>1, <1>4 DEF HeldOnlyWhilePaused, MayApprove
  <2>3. signIn' \in Rows
    BY <1>1, <2>1, SignInRows DEF Recorded, Rows
  <2>4. codes' \subseteq Issued /\ reopened' \in BOOLEAN
    BY <1>1, <2>1, SignInRows DEF SignInsTypeOK, Issued
  <2>5. /\ signInLink' \in LinkRows /\ ~signInLink'.held /\ shares' \in 0..MaxShares
        /\ EndedTokensDead'
    <3>1. CASE chosen # {}
      <4>1. /\ signInLink' = Shared(chosen) /\ shares' = shares + 1 /\ shares < MaxShares
        BY <2>1, <3>1
      <4>2. /\ signInLink' \in LinkRows /\ signInLink'.token = shares + 1
            /\ ~signInLink'.held /\ shares' \in 0..MaxShares
        BY <1>1, <2>2, <4>1, SharedRow
      <4>3. signInLink'.token \notin ended /\ ended \subseteq 1..(shares + 1)
        BY <1>1, <4>2, SignInRows DEF EndedTokensDead
      <4>4. QED
        BY <1>2, <4>1, <4>2, <4>3 DEF EndedTokensDead
    <3>2. CASE chosen = {}
      <4>1. signInLink' \in {NameDropped, signInLink} /\ shares' = shares
        BY <2>1, <3>2
      <4>2. /\ signInLink' \in LinkRows /\ signInLink'.token = signInLink.token
            /\ ~signInLink'.held
            /\ LiveRow(signInLink') => LiveRow(signInLink)
        BY <1>1, <2>2, <4>1, NameDroppedRow, SignInRows
      <4>3. EndedTokensDead'
        BY <1>1, <1>2, <2>1, <3>2, <4>1, <4>2 DEF EndedTokensDead
      <4>4. QED
        BY <1>1, <4>1, <4>2, <4>3 DEF SignInsTypeOK
    <3>3. QED
      BY <3>1, <3>2
  <2>6. ended' \subseteq 1..MaxShares
    BY <1>1, <1>2 DEF SignInsTypeOK
  <2>7. SignInsTypeOK'
    BY <1>1, <1>2, <2>3, <2>4, <2>5, <2>6 DEF SignInsTypeOK
  <2>8. QED
    BY <2>5, <2>7 DEF SignInInv, HeldOnlyWhilePaused
<1>5. QED
  BY <1>3, <1>4

\* Codes and tokens: neither row nor link.
LEMMA PresentStep ==
  ASSUME SignInInv, OpenRequest \/ PresentCode \/ PresentAccess \/ Answer
  PROVE  SignInInv'
<1>1. SignInsTypeOK /\ UNCHANGED <<signIn, signInLink, control, linkEdit, shares, ended, reopened>>
  BY DEF SignInInv, OpenRequest, PresentCode, PresentAccess, Answer
<1>2. tickets' \in 0..MaxTickets
  BY SignInNumbers DEF SignInInv, SignInsTypeOK, OpenRequest, PresentCode, PresentAccess, Answer
<1>3. codes' \subseteq Issued /\ reads' \subseteq Issued /\ access' \subseteq Issued
  BY DEF SignInInv, SignInsTypeOK, OpenRequest, PresentCode, PresentAccess, Answer
<1>4. tied' \in BOOLEAN
  BY DEF SignInInv, SignInsTypeOK, OpenRequest, PresentCode, PresentAccess, Answer
<1>5. SignInsTypeOK'
  BY <1>1, <1>2, <1>3, <1>4 DEF SignInsTypeOK
<1>6. QED
  BY <1>1, <1>5 DEF SignInInv, HeldOnlyWhilePaused, EndedTokensDead, LiveRow

LEMMA LoadControlStep ==
  ASSUME SignInInv, NEW c \in Controls, LoadControl(c)
  PROVE  SignInInv'
<1>1. PICK op \in {"pause", "resume", "disconnect", "newId"} :
        control' = [control EXCEPT ![c] = [op |-> op, row |-> signIn]]
  BY DEF LoadControl
<1>2. control' \in [Controls -> [op : {"idle", "pause", "resume", "disconnect", "newId"},
                                 row : Rows]]
  BY <1>1, SignInRows DEF SignInInv, SignInsTypeOK
<1>3. UNCHANGED <<signIn, signInLink, linkEdit, tickets, codes, access, reads, shares,
                  ended, reopened, tied>>
  BY DEF LoadControl
<1>4. SignInsTypeOK'
  BY <1>2, <1>3 DEF SignInInv, SignInsTypeOK
<1>5. QED
  BY <1>3, <1>4 DEF SignInInv, HeldOnlyWhilePaused, EndedTokensDead, LiveRow

LEMMA PauseOrResumeStep ==
  ASSUME SignInInv, NEW c \in Controls, PauseOrResume(c)
  PROVE  SignInInv'
<1>1. SignInsTypeOK /\ HeldOnlyWhilePaused /\ EndedTokensDead
  BY DEF SignInInv
<1>2. /\ control' = [control EXCEPT ![c] = IdleControl]
      /\ UNCHANGED <<linkEdit, tickets, codes, access, reads, shares, ended, reopened, tied>>
  BY DEF PauseOrResume
<1>3. control' \in [Controls -> [op : {"idle", "pause", "resume", "disconnect", "newId"},
                                 row : Rows]]
  BY <1>1, <1>2, SignInConstants DEF SignInsTypeOK
<1>4. /\ signIn' = [signIn EXCEPT !.status = IF control[c].op = "pause" THEN "paused"
                                                                        ELSE "active"]
      /\ signInLink' = IF control[c].op = "pause" THEN Held ELSE Released
  BY DEF PauseOrResume
<1>5. signIn' \in Rows /\ control[c].op = "pause" => signIn'.status = "paused"
  BY <1>1, <1>4, SignInRows DEF Rows
<1>6. /\ Held \in LinkRows /\ Held.token = signInLink.token
      /\ LiveRow(Held) => LiveRow(signInLink)
  BY <1>1, SignInRows DEF Held, LinkRows, LiveRow
<1>7. /\ Released \in LinkRows /\ Released.token = signInLink.token /\ ~Released.held
      /\ LiveRow(Released) => LiveRow(signInLink)
  BY <1>1, SignInRows DEF Released, LinkRows, LiveRow
<1>8. /\ signInLink' \in LinkRows /\ signInLink'.token = signInLink.token
      /\ LiveRow(signInLink') => LiveRow(signInLink)
  BY <1>4, <1>6, <1>7
<1>9. signIn' \in Rows
  BY <1>1, <1>4, SignInRows DEF Rows
<1>10. SignInsTypeOK'
  BY <1>1, <1>2, <1>3, <1>8, <1>9 DEF SignInsTypeOK
<1>11. HeldOnlyWhilePaused'
  BY <1>4, <1>5, <1>7 DEF HeldOnlyWhilePaused
<1>12. EndedTokensDead'
  BY <1>1, <1>2, <1>8 DEF EndedTokensDead
<1>13. QED
  BY <1>10, <1>11, <1>12 DEF SignInInv

LEMMA DisconnectStep ==
  ASSUME SignInInv, NEW c \in Controls, Disconnect(c)
  PROVE  SignInInv'
<1> DEFINE loaded == control[c].row
<1> DEFINE newId == control[c].op = "newId"
<1>1. SignInsTypeOK /\ loaded \in Rows
  BY DEF SignInInv, SignInsTypeOK
<1>2. /\ loaded.generation < MaxGenerations /\ loaded.version < MaxGenerations
      /\ signInLink' = DisconnectedLink(newId)
      /\ ended' = 1..shares /\ reopened' = FALSE
      /\ control' = [control EXCEPT ![c] = IdleControl]
      /\ UNCHANGED <<linkEdit, tickets, codes, access, reads, shares, tied>>
  BY DEF Disconnect
<1>3. loaded.generation + 1 \in 0..MaxGenerations /\ loaded.version + 1 \in 0..MaxGenerations
  BY <1>1, <1>2, SignInNumbers DEF Rows
<1>4. signIn' = [signIn EXCEPT
       !.status = IF loaded.status = "disconnected" THEN @ ELSE "disconnected",
       !.generation = loaded.generation + 1,
       !.version = IF newId THEN loaded.version + 1 ELSE @,
       !.newId = IF newId /\ ~loaded.newId THEN TRUE ELSE @]
  BY DEF Disconnect
<1> HIDE DEF newId
<1>5. signIn' \in Rows
  BY <1>1, <1>3, <1>4, SignInRows DEF Rows
<1>6. /\ signInLink' \in LinkRows /\ ~signInLink'.held /\ ~LiveRow(signInLink')
  BY <1>1, <1>2, SignInRows, SignInConstants DEF DisconnectedLink, LinkRows, LiveRow
<1>7. control' \in [Controls -> [op : {"idle", "pause", "resume", "disconnect", "newId"},
                                 row : Rows]]
  BY <1>1, <1>2, SignInConstants DEF SignInsTypeOK
<1>8. 1..shares \subseteq 1..MaxShares
  BY <1>1, SignInNumbers DEF SignInsTypeOK
<1>9. SignInsTypeOK'
  BY <1>1, <1>2, <1>5, <1>6, <1>7, <1>8 DEF SignInsTypeOK
<1>10. HeldOnlyWhilePaused' /\ EndedTokensDead'
  BY <1>2, <1>6 DEF HeldOnlyWhilePaused, EndedTokensDead
<1>11. QED
  BY <1>9, <1>10 DEF SignInInv

LEMMA LinkEditStep ==
  ASSUME SignInInv, LoadLinkEdit \/ SaveLinkEdit \/ DeleteLink
  PROVE  SignInInv'
<1>1. SignInsTypeOK /\ HeldOnlyWhilePaused /\ EndedTokensDead
  BY DEF SignInInv
<1>2. CASE LoadLinkEdit
  <2>1. PICK to \in {"active", "paused", "revoked"} :
          linkEdit' = [to |-> to, loaded |-> Columns(signInLink)]
    BY <1>2 DEF LoadLinkEdit
  <2>2. linkEdit' \in [to : {"none", "active", "paused", "revoked"},
                       loaded : [id : 0..MaxShares, held : BOOLEAN,
                                 status : {"none", "active", "paused", "revoked"}]]
    BY <1>1, <2>1, SignInRows DEF Columns
  <2>3. UNCHANGED <<signIn, signInLink, control, tickets, codes, access, reads, shares,
                    ended, reopened, tied>>
    BY <1>2 DEF LoadLinkEdit
  <2>4. SignInsTypeOK'
    BY <1>1, <2>2, <2>3 DEF SignInsTypeOK
  <2>5. QED
    BY <1>1, <2>3, <2>4 DEF SignInInv, HeldOnlyWhilePaused, EndedTokensDead, LiveRow
<1>3. CASE SaveLinkEdit
  <2> DEFINE new == [signInLink EXCEPT
            !.status = IF linkEdit.to # linkEdit.loaded.status THEN linkEdit.to ELSE @,
            !.held = IF linkEdit.loaded.held THEN FALSE ELSE @]
  <2>1. /\ signInLink' \in {signInLink, new} /\ linkEdit # NoEdit
        /\ reopened' = (LiveRow(signInLink') /\ (reopened \/ ~LiveRow(signInLink)))
        /\ linkEdit' = NoEdit
        /\ UNCHANGED <<signIn, control, tickets, codes, access, reads, shares, ended, tied>>
    BY <1>3 DEF SaveLinkEdit
  <2>2. linkEdit.to \in {"none", "active", "paused", "revoked"} /\ linkEdit.loaded.held \in BOOLEAN
    BY <1>1 DEF SignInsTypeOK
  <2>3. new \in LinkRows /\ new.token = signInLink.token /\ (new.held => signInLink.held)
    BY <1>1, <2>2, SignInRows DEF LinkRows
  <2> HIDE DEF new
  <2>4. /\ signInLink' \in LinkRows /\ signInLink'.token = signInLink.token
        /\ signInLink'.held => signInLink.held
    BY <1>1, <2>1, <2>3, SignInRows
  <2>5. 0 \in 0..MaxShares /\ reopened' \in BOOLEAN
    BY <2>1, SignInNumbers
  <2>6. linkEdit' \in [to : {"none", "active", "paused", "revoked"},
                       loaded : [id : 0..MaxShares, held : BOOLEAN,
                                 status : {"none", "active", "paused", "revoked"}]]
    BY <2>1, <2>5 DEF NoEdit, Columns, NoLink
  <2>7. SignInsTypeOK'
    BY <1>1, <2>1, <2>4, <2>5, <2>6 DEF SignInsTypeOK
  <2>8. HeldOnlyWhilePaused'
    BY <1>1, <2>1, <2>4 DEF HeldOnlyWhilePaused
  <2>9. EndedTokensDead'
    BY <1>1, <2>1, <2>4 DEF EndedTokensDead
  <2>10. QED
    BY <2>7, <2>8, <2>9 DEF SignInInv
<1>4. CASE DeleteLink
  <2>1. /\ signInLink' = NoLink /\ reopened' = FALSE
        /\ UNCHANGED <<signIn, control, linkEdit, tickets, codes, access, reads, shares,
                       ended, tied>>
    BY <1>4 DEF DeleteLink
  <2>2. SignInsTypeOK'
    BY <1>1, <2>1, SignInConstants DEF SignInsTypeOK
  <2>3. QED
    BY <1>1, <2>1, <2>2, SignInConstants
       DEF SignInInv, HeldOnlyWhilePaused, EndedTokensDead, LiveRow
<1>5. QED
  BY <1>2, <1>3, <1>4

LEMMA SignInStep == SignInInv /\ [SignInsNext]_signInVars => SignInInv'
<1> SUFFICES ASSUME SignInInv, [SignInsNext]_signInVars
             PROVE  SignInInv'
  OBVIOUS
<1>1. CASE UNCHANGED signInVars
  BY <1>1 DEF signInVars, SignInInv, SignInsTypeOK, HeldOnlyWhilePaused, EndedTokensDead, LiveRow
<1>2. QED
  BY <1>1, ApproveStep, PresentStep, LoadControlStep, PauseOrResumeStep, DisconnectStep,
     LinkEditStep DEF SignInsNext

\* Every reachable state of a sign-in is as SignInInv says.
THEOREM SignInInvariant == SignInsSpec => []SignInInv
  BY SignInInit0, SignInStep, PTL DEF SignInsSpec

\* Whatever pauses, resumes, disconnects, approvals and owner edits overlap, a link is
\* held only while its service is paused (PauseSignIn, ResumeSignIn, DisconnectSignIn).
THEOREM HeldOnlyWhilePausedHolds == SignInsSpec => []HeldOnlyWhilePaused
<1>1. SignInInv => HeldOnlyWhilePaused
  BY DEF SignInInv
<1>2. QED
  BY <1>1, SignInInvariant, PTL

\* A grant token handed out before a disconnect reads nothing after it, unless the owner
\* brings the link back (DisconnectSignIn, SaveSignInGrant's fresh token).
THEOREM EndedGrantsReadNothingHolds == SignInsSpec => []EndedGrantsReadNothing
<1>1. SignInInv => EndedGrantsReadNothing
  BY DEF SignInInv, EndedTokensDead, EndedGrantsReadNothing, LiveRow
<1>2. QED
  BY <1>1, SignInInvariant, PTL

(***************************************************************************)
(* Connections                                                             *)
(***************************************************************************)

\* Ids are made in order, and no row names one not made yet.
IdsMade ==
  /\ conn.id <= made
  /\ \A r \in tokenRows : r.conn <= made
  /\ \A i \in Items : items[i].conn <= made
  /\ \A o \in Owned : owned[o].copy.id <= made
  /\ conn.id = 0 => ~conn.paused

\* A code or token that was there when its connection ran out is of another connection,
\* or that one has not been renewed.
LapsedNotLive == \A r \in tokenRows : r.conn = conn.id /\ r.lapsed => ConnectionExpired

\* A control under way has loaded a connection.  While no two overlap, one is under way
\* at most, and its copy says of the connection what the row says.
ControlsAlone ==
  /\ \A o \in Owned : owned[o].op # "idle" => owned[o].copy.id # 0
  /\ ~crossed =>
       /\ \A o, p \in Owned : owned[o] # IdleOwned /\ owned[p] # IdleOwned => o = p
       /\ \A o \in Owned : owned[o].op # "idle" /\ owned[o].copy.id = conn.id
                             => (owned[o].copy.paused <=> conn.paused)

\* An item about to be inserted is not held and names a connection.  If that one is still
\* there it has not missed its end, nor a pause in force that no other control overlapped.
CheckedKept ==
  \A i \in Items :
    /\ ~Saved(i) => ~items[i].held
    /\ items[i].status = "checked" =>
         /\ items[i].conn # 0
         /\ items[i].conn = conn.id => /\ items[i].missed # "end"
                                       /\ ~crossed /\ conn.paused => items[i].missed = "pause"

\* The inductive invariant.
ConnectionInv == /\ ConnectionsTypeOK /\ IdsMade /\ LapsedNotLive
                 /\ ControlsAlone /\ CheckedKept /\ PauseAndHoldsAgree

LEMMA ConnectionNumbers ==
  /\ MaxConnections \in Nat /\ MaxConnectionTime \in Nat
  /\ ConnectionTtl \in Nat /\ ConnectionTtl > 0
  BY ConnectionsAssumption

OwnedStates == [op : {"idle", "pause", "resume", "disconnect", "revoke"}, copy : Conns]

LEMMA ConnectionRows ==
  ASSUME ConnectionsTypeOK
  PROVE  /\ conn \in Conns /\ conn.id \in 0..MaxConnections /\ conn.paused \in BOOLEAN
         /\ conn.expiresAt \in 0..(MaxConnectionTime + ConnectionTtl)
         /\ conn.id \in Int /\ conn.expiresAt \in Int
         /\ made \in 0..MaxConnections /\ made \in Int
         /\ today \in 0..MaxConnectionTime /\ today \in Int
         /\ \A r \in tokenRows : /\ r \in TokenRows /\ r.conn \in 1..MaxConnections
                                 /\ r.conn \in Int /\ r.lapsed \in BOOLEAN
                                 /\ r.holds \in {"code", "token"}
         /\ \A i \in Items : /\ items[i] \in ItemRows /\ items[i].conn \in 0..MaxConnections
                             /\ items[i].conn \in Int /\ items[i].held \in BOOLEAN
                             /\ items[i].missed \in {"nothing", "pause", "end"}
         /\ \A o \in Owned : /\ owned[o] \in OwnedStates /\ owned[o].copy \in Conns
                             /\ owned[o].copy.id \in 0..MaxConnections
                             /\ owned[o].copy.id \in Int /\ owned[o].copy.paused \in BOOLEAN
         /\ crossed \in BOOLEAN
  BY ConnectionNumbers DEF ConnectionsTypeOK, Conns, TokenRows, ItemRows, OwnedStates

LEMMA ConnectionConstants ==
  /\ NoConn \in Conns /\ NoConn.id = 0 /\ NoConn.paused = FALSE /\ NoConn.expiresAt = 0
  /\ NoItem \in ItemRows /\ NoItem.status = "none" /\ NoItem.conn = 0 /\ NoItem.held = FALSE
  /\ NoItem.origin = 0 /\ NoItem.missed = "nothing"
  /\ IdleOwned \in OwnedStates /\ IdleOwned.op = "idle" /\ IdleOwned.copy = NoConn
<1>1. 0 \in 0..MaxConnections /\ 0 \in 0..(MaxConnectionTime + ConnectionTtl)
  BY ConnectionNumbers
<1>2. QED
  BY <1>1 DEF NoConn, Conns, NoItem, ItemRows, IdleOwned, OwnedStates

LEMMA ConnectionInit == ConnectionsInit => ConnectionInv
<1> SUFFICES ASSUME ConnectionsInit
             PROVE  ConnectionInv
  OBVIOUS
<1>1. 0 \in 0..MaxConnections /\ 0 \in 0..MaxConnectionTime
  BY ConnectionNumbers
<1>2. ConnectionsTypeOK
  BY <1>1, ConnectionConstants DEF ConnectionsInit, ConnectionsTypeOK, OwnedStates
<1>3. IdsMade /\ LapsedNotLive /\ ControlsAlone
  BY ConnectionConstants DEF ConnectionsInit, IdsMade, LapsedNotLive, ControlsAlone
<1>4. CheckedKept /\ PauseAndHoldsAgree
  BY ConnectionConstants
     DEF ConnectionsInit, PauseAndHoldsAgree, PausedHoldsItems, Mine, CheckedKept, Saved
<1>5. QED
  BY <1>2, <1>3, <1>4 DEF ConnectionInv

\* One item changes: its connection is one made before, a hold is not put on, and it is
\* open under a pause only if its owner opened it or its check came before the pause.
LEMMA OneItem ==
  ASSUME ConnectionInv, NEW i \in Items, NEW new \in ItemRows,
         items' = [items EXCEPT ![i] = new], new.conn <= made,
         ~crossed /\ conn.paused /\ new.conn = conn.id /\ new.status = "active"
           => new.opened \/ new.missed = "pause",
         new.held => /\ items[i].held /\ new.conn = items[i].conn
                     /\ new.status \notin {"none", "checked"},
         new.status = "checked" => new.conn # 0 /\ ~conn.paused /\ new.missed # "end",
         UNCHANGED <<conn, tokenRows, owned, made, today, crossed>>
  PROVE  /\ items' \in [Items -> ItemRows]
         /\ IdsMade' /\ LapsedNotLive' /\ ControlsAlone' /\ CheckedKept' /\ PauseAndHoldsAgree'
<1>1. /\ ConnectionsTypeOK /\ IdsMade /\ LapsedNotLive
      /\ ControlsAlone /\ CheckedKept /\ PauseAndHoldsAgree
  BY DEF ConnectionInv
<1>2. items' \in [Items -> ItemRows]
  BY <1>1 DEF ConnectionsTypeOK
<1>3. \A j \in Items : items'[j] = IF j = i THEN new ELSE items[j]
  BY <1>1 DEF ConnectionsTypeOK
<1>4. IdsMade'
  BY <1>1, <1>3 DEF IdsMade
<1>5. LapsedNotLive' /\ ControlsAlone'
  BY <1>1 DEF LapsedNotLive, ControlsAlone, ConnectionExpired
<1>6. CheckedKept'
  <2>1. new.held => new.status \in {"active", "paused", "revoked"}
    BY DEF ItemRows
  <2>2. QED
    BY <1>1, <1>3, <2>1 DEF CheckedKept, Saved
<1>7. PauseAndHoldsAgree'
  BY <1>1, <1>3 DEF PauseAndHoldsAgree, PausedHoldsItems, Mine, CheckedKept, Saved
<1>8. QED
  BY <1>2, <1>4, <1>5, <1>6, <1>7

LEMMA AuthorizeStep ==
  ASSUME ConnectionInv, Authorize
  PROVE  ConnectionInv'
<1> DEFINE id == IF conn.id = 0 THEN made + 1 ELSE conn.id
<1> DEFINE new == [id |-> id, paused |-> FALSE, expiresAt |-> today + ConnectionTtl]
<1>1. /\ ConnectionsTypeOK /\ IdsMade /\ LapsedNotLive
      /\ ControlsAlone /\ CheckedKept /\ PauseAndHoldsAgree
  BY DEF ConnectionInv
<1>2. /\ ~conn.paused /\ conn' = new
      /\ conn.id = 0 => made < MaxConnections
      /\ made' = IF conn.id = 0 THEN made + 1 ELSE made
      /\ tokenRows' = RowsKept \cup {Code(id)}
      /\ UNCHANGED <<items, owned, calls, today, crossed, gone>>
  BY DEF Authorize
<1>3. /\ id \in 1..MaxConnections /\ id \in 0..MaxConnections /\ id \in Int
      /\ made' \in 0..MaxConnections /\ id <= made' /\ made <= made' /\ made' \in Int
      /\ today + ConnectionTtl \in 0..(MaxConnectionTime + ConnectionTtl)
      /\ id = conn.id \/ (conn.id = 0 /\ id = made + 1)
  BY <1>1, <1>2, ConnectionRows, ConnectionNumbers DEF IdsMade
<1>4. new \in Conns /\ new.id = id /\ new.paused = FALSE
  BY <1>3 DEF Conns
<1>5. Code(id) \in TokenRows /\ Code(id).conn = id /\ Code(id).lapsed = FALSE
  BY <1>3 DEF Code, TokenRows
<1> HIDE DEF new, id
<1>6. ASSUME NEW r \in tokenRows'
      PROVE  r \in TokenRows /\ r.conn <= made' /\ (r.conn = id => ~r.lapsed)
  <2>1. CASE r = Code(id)
    BY <1>3, <1>5, <2>1
  <2>2. CASE r \in RowsKept
    <3>1. r \in tokenRows /\ r \in TokenRows /\ r.conn \in 1..MaxConnections /\ r.conn <= made
      BY <1>1, <2>2, ConnectionRows DEF RowsKept, IdsMade
    <3>2. CASE conn.id = 0
      BY <1>1, <1>3, <3>1, <3>2, ConnectionRows
    <3>3. CASE conn.id # 0
      <4>1. id = conn.id
        BY <1>3, <3>3
      <4>2. CASE ConnectionExpired
        BY <2>2, <3>1, <4>1, <4>2, <1>1, <1>3, ConnectionRows DEF RowsKept
      <4>3. CASE ~ConnectionExpired
        BY <1>1, <1>3, <3>1, <4>1, <4>3, ConnectionRows DEF LapsedNotLive
      <4>4. QED
        BY <4>2, <4>3
    <3>4. QED
      BY <3>2, <3>3
  <2>3. QED
    BY <1>2, <2>1, <2>2
<1>7. ConnectionsTypeOK'
  BY <1>1, <1>2, <1>3, <1>4, <1>6 DEF ConnectionsTypeOK
<1>8. IdsMade'
  <2>1. \A i \in Items : items'[i].conn <= made'
    BY <1>1, <1>2, <1>3, ConnectionRows DEF IdsMade
  <2>2. \A o \in Owned : owned'[o].copy.id <= made'
    BY <1>1, <1>2, <1>3, ConnectionRows DEF IdsMade
  <2>3. conn'.id <= made' /\ conn'.id # 0
    BY <1>2, <1>3, <1>4
  <2>4. QED
    BY <1>6, <2>1, <2>2, <2>3 DEF IdsMade
<1>9. LapsedNotLive'
  BY <1>2, <1>4, <1>6 DEF LapsedNotLive
<1>10. ControlsAlone'
  <2>1. \A o \in Owned : owned[o].copy.id = id => owned[o].copy.id = conn.id
    BY <1>1, <1>3, ConnectionRows DEF IdsMade
  <2>2. QED
    BY <1>1, <1>2, <1>4, <2>1 DEF ControlsAlone
<1>11. CheckedKept' /\ PauseAndHoldsAgree'
  <2>1. \A i \in Items : items[i].conn = id => items[i].conn = conn.id /\ conn.id # 0
    BY <1>1, <1>3, ConnectionRows DEF IdsMade
  <2>2. QED
    BY <1>1, <1>2, <1>4, <2>1 DEF PauseAndHoldsAgree, PausedHoldsItems, Mine, CheckedKept, Saved
<1>12. QED
  BY <1>7, <1>8, <1>9, <1>10, <1>11 DEF ConnectionInv

\* Codes and tokens come and go, of the row as it is: no row lapses by it.
LEMMA TokenRowsStep ==
  ASSUME ConnectionInv, AuthorizeReuse \/ Exchange
  PROVE  ConnectionInv'
<1>1. /\ ConnectionsTypeOK /\ IdsMade /\ LapsedNotLive
      /\ ControlsAlone /\ CheckedKept /\ PauseAndHoldsAgree
  BY DEF ConnectionInv
<1>2. UNCHANGED <<conn, items, owned, calls, made, today, crossed, gone>>
  BY DEF AuthorizeReuse, Exchange
<1>3. ASSUME NEW r \in tokenRows'
      PROVE  r \in TokenRows /\ r.conn <= made /\ (r.conn = conn.id /\ r.lapsed => ConnectionExpired)
  <2>1. CASE r \in tokenRows
    BY <1>1, <2>1, ConnectionRows DEF IdsMade, LapsedNotLive
  <2>2. CASE AuthorizeReuse /\ r \notin tokenRows
    <3>1. r = Code(conn.id) /\ conn.id # 0
      BY <2>2 DEF AuthorizeReuse
    <3>2. conn.id \in 1..MaxConnections /\ conn.id <= made
      BY <1>1, <3>1, ConnectionRows DEF IdsMade
    <3>3. QED
      BY <3>1, <3>2 DEF Code, TokenRows
  <2>3. CASE Exchange /\ r \notin tokenRows
    <3>1. PICK q \in tokenRows : r = [q EXCEPT !.holds = "token"]
      BY <2>3 DEF Exchange
    <3>2. q \in TokenRows /\ q.conn <= made /\ (q.conn = conn.id /\ q.lapsed => ConnectionExpired)
      BY <1>1, <3>1, ConnectionRows DEF IdsMade, LapsedNotLive
    <3>3. r \in TokenRows /\ r.conn = q.conn /\ (r.lapsed <=> q.lapsed)
      BY <3>1, <3>2 DEF TokenRows
    <3>4. QED
      BY <3>2, <3>3
  <2>4. QED
    BY <2>1, <2>2, <2>3
<1>4. ConnectionsTypeOK'
  BY <1>1, <1>2, <1>3 DEF ConnectionsTypeOK
<1>5. IdsMade'
  BY <1>1, <1>2, <1>3 DEF IdsMade
<1>6. LapsedNotLive'
  BY <1>2, <1>3 DEF LapsedNotLive, ConnectionExpired
<1>7. ControlsAlone' /\ CheckedKept' /\ PauseAndHoldsAgree'
  BY <1>1, <1>2 DEF ControlsAlone, PauseAndHoldsAgree, PausedHoldsItems, Mine, CheckedKept, Saved
<1>8. QED
  BY <1>4, <1>5, <1>6, <1>7 DEF ConnectionInv

LEMMA LetInStep ==
  ASSUME ConnectionInv, LetIn
  PROVE  ConnectionInv'
<1>1. PICK r \in tokenRows : r.conn = conn.id /\ calls' = calls \cup {conn.id}
  BY DEF LetIn, Usable
<1>2. UNCHANGED <<conn, tokenRows, items, owned, made, today, crossed, gone>>
  BY DEF LetIn
<1>3. conn.id \in 1..MaxConnections
  BY <1>1, ConnectionRows DEF ConnectionInv
<1>4. ConnectionsTypeOK'
  BY <1>1, <1>2, <1>3 DEF ConnectionInv, ConnectionsTypeOK
<1>5. QED
  BY <1>2, <1>4 DEF ConnectionInv, IdsMade, LapsedNotLive, ConnectionExpired, ControlsAlone,
                    PauseAndHoldsAgree, PausedHoldsItems, Mine, CheckedKept, Saved

LEMMA CheckedItemStep ==
  ASSUME ConnectionInv, NEW id \in 1..MaxConnections, MayJoin(id), CheckedItem(id),
         UNCHANGED <<conn, tokenRows, owned, made, today, crossed, gone>>,
         calls' \subseteq 1..MaxConnections
  PROVE  ConnectionInv'
<1>1. id = conn.id /\ ~conn.paused
  BY DEF MayJoin
<1>2. PICK i \in Items :
        items' = [items EXCEPT ![i] = [NoItem EXCEPT !.status = "checked", !.origin = id,
                                                     !.conn = id]]
  BY DEF CheckedItem
<1> DEFINE new == [NoItem EXCEPT !.status = "checked", !.origin = id, !.conn = id]
<1>0. id \in 0..MaxConnections /\ id # 0
  OBVIOUS
<1>3. /\ new \in ItemRows /\ new.conn = id /\ ~new.held
      /\ new.status = "checked" /\ new.missed = "nothing"
  BY <1>0, ConnectionConstants DEF ItemRows
<1>4. items' = [items EXCEPT ![i] = new]
  BY <1>2
<1> HIDE DEF new
<1>5. /\ items' \in [Items -> ItemRows]
      /\ IdsMade' /\ LapsedNotLive' /\ ControlsAlone' /\ CheckedKept' /\ PauseAndHoldsAgree'
  BY <1>0, <1>1, <1>3, <1>4, OneItem DEF ConnectionInv, IdsMade
<1>6. ConnectionsTypeOK'
  BY <1>5 DEF ConnectionInv, ConnectionsTypeOK
<1>7. QED
  BY <1>5, <1>6 DEF ConnectionInv

LEMMA CheckItemStep ==
  ASSUME ConnectionInv, CheckByTool \/ CheckProposal
  PROVE  ConnectionInv'
<1>1. CASE CheckProposal
  <2>1. /\ conn.id \in 1..MaxConnections /\ MayJoin(conn.id) /\ CheckedItem(conn.id)
        /\ calls' \subseteq 1..MaxConnections
        /\ UNCHANGED <<conn, tokenRows, owned, made, today, crossed, gone>>
    BY <1>1, ConnectionRows DEF CheckProposal, ConnectionInv, ConnectionsTypeOK
  <2>2. QED
    BY <2>1, CheckedItemStep
<1>2. CASE CheckByTool
  <2>1. PICK id \in calls : /\ calls' = calls \ {id}
                            /\ IF MayJoin(id) THEN CheckedItem(id) ELSE UNCHANGED items
                            /\ UNCHANGED <<conn, tokenRows, owned, made, today, crossed, gone>>
    BY <1>2 DEF CheckByTool
  <2>2. id \in 1..MaxConnections /\ calls' \subseteq 1..MaxConnections
    BY <2>1 DEF ConnectionInv, ConnectionsTypeOK
  <2>3. CASE MayJoin(id)
    BY <2>1, <2>2, <2>3, CheckedItemStep
  <2>4. CASE ~MayJoin(id)
    <3>1. ConnectionsTypeOK'
      BY <2>1, <2>2, <2>4 DEF ConnectionInv, ConnectionsTypeOK
    <3>2. QED
      BY <2>1, <2>4, <3>1
         DEF ConnectionInv, IdsMade, LapsedNotLive, ConnectionExpired, ControlsAlone,
             PauseAndHoldsAgree, PausedHoldsItems, Mine, CheckedKept, Saved
  <2>5. QED
    BY <2>3, <2>4
<1>3. QED
  BY <1>1, <1>2

\* What an INSERT leaves: the row as it was checked, open, or no row.
LEMMA InsertedItem ==
  ASSUME ConnectionsTypeOK, NEW i \in Items, InsertItem(i)
  PROVE  \E new \in ItemRows :
           /\ items[i].status = "checked" /\ items' = [items EXCEPT ![i] = new]
           /\ \/ /\ new.status = "active" /\ new.conn = items[i].conn
                 /\ new.origin = items[i].origin
                 /\ (new.held <=> items[i].held) /\ new.missed = items[i].missed
              \/ new = NoItem
<1>1. items[i] \in ItemRows /\ items \in [Items -> ItemRows]
  BY ConnectionRows DEF ConnectionsTypeOK
<1> DEFINE open == [items[i] EXCEPT !.status = "active"]
<1>2. /\ open \in ItemRows /\ open.status = "active" /\ open.conn = items[i].conn
      /\ open.origin = items[i].origin
      /\ (open.held <=> items[i].held) /\ open.missed = items[i].missed
  BY <1>1 DEF ItemRows
<1>3. /\ items[i].status = "checked"
      /\ \/ items' = [items EXCEPT ![i] = open] \/ items' = [items EXCEPT ![i] = NoItem]
  BY <1>1 DEF InsertItem
<1> HIDE DEF open
<1>4. QED
  BY <1>2, <1>3, ConnectionConstants

LEMMA InsertItemStep ==
  ASSUME ConnectionInv, NEW i \in Items, InsertItem(i)
  PROVE  ConnectionInv'
<1>1. UNCHANGED <<conn, tokenRows, owned, calls, made, today, crossed, gone>>
  BY DEF InsertItem
<1>2. PICK new \in ItemRows :
        /\ items[i].status = "checked" /\ items' = [items EXCEPT ![i] = new]
        /\ \/ /\ new.status = "active" /\ new.conn = items[i].conn
              /\ (new.held <=> items[i].held) /\ new.missed = items[i].missed
           \/ new = NoItem
  BY InsertedItem DEF ConnectionInv
<1>3. ~items[i].held /\ items[i].conn <= made /\ 0 <= made
  BY <1>2, ConnectionRows DEF ConnectionInv, CheckedKept, Saved, IdsMade
<1>4. /\ new.conn <= made /\ ~new.held /\ new.status # "checked"
      /\ ~crossed /\ conn.paused /\ new.conn = conn.id /\ new.status = "active"
           => new.missed = "pause"
  BY <1>2, <1>3, ConnectionConstants DEF ConnectionInv, CheckedKept
<1>5. /\ items' \in [Items -> ItemRows]
      /\ IdsMade' /\ LapsedNotLive' /\ ControlsAlone' /\ CheckedKept' /\ PauseAndHoldsAgree'
  BY <1>1, <1>2, <1>4, OneItem
<1>6. ConnectionsTypeOK'
  BY <1>1, <1>5 DEF ConnectionInv, ConnectionsTypeOK
<1>7. QED
  BY <1>5, <1>6 DEF ConnectionInv

\* An edit of one item leaves it where it came from, puts no hold on it and opens it only
\* for its owner.
LEMMA EditedItem ==
  ASSUME ConnectionInv, EndByTool \/ OwnerEdits
  PROVE  \E i \in Items, new \in ItemRows :
           /\ items' = [items EXCEPT ![i] = new]
           /\ new.conn = items[i].conn /\ (new.held => items[i].held)
           /\ new.origin = items[i].origin /\ new.missed = items[i].missed
           /\ items[i].status # "checked" /\ new.status \notin {"none", "checked"}
           /\ new.status = "active" => new.opened
<1>1. CASE EndByTool
  <2>1. PICK i \in Items, clears \in BOOLEAN :
          /\ items[i].status \in {"active", "paused"}
          /\ items' = [items EXCEPT ![i].status = "revoked", ![i].opened = FALSE,
                                    ![i].held = @ /\ ~clears]
    BY <1>1 DEF EndByTool
  <2> DEFINE new == [items[i] EXCEPT !.status = "revoked", !.opened = FALSE,
                                     !.held = @ /\ ~clears]
  <2>2. items[i] \in ItemRows
    BY ConnectionRows DEF ConnectionInv
  <2>3. /\ new \in ItemRows /\ new.conn = items[i].conn /\ (new.held => items[i].held)
        /\ new.origin = items[i].origin /\ new.status = "revoked"
        /\ new.missed = items[i].missed
    BY <2>2 DEF ItemRows
  <2>4. items' = [items EXCEPT ![i] = new]
    BY <2>1, <2>2 DEF ConnectionInv, ConnectionsTypeOK
  <2> HIDE DEF new
  <2>5. QED
    BY <2>1, <2>3, <2>4
<1>2. CASE OwnerEdits
  <2>1. PICK i \in Items, status \in {"active", "paused", "revoked"}, clears \in BOOLEAN :
          /\ Saved(i)
          /\ items' = [items EXCEPT ![i].status = status, ![i].held = @ /\ ~clears,
                                    ![i].opened = status = "active"]
    BY <1>2 DEF OwnerEdits
  <2> DEFINE new == [items[i] EXCEPT !.status = status, !.held = @ /\ ~clears,
                                     !.opened = status = "active"]
  <2>2. items[i] \in ItemRows
    BY ConnectionRows DEF ConnectionInv
  <2>3. /\ new \in ItemRows /\ new.conn = items[i].conn /\ (new.held => items[i].held)
        /\ new.origin = items[i].origin /\ new.status = status
        /\ new.missed = items[i].missed
        /\ new.status = "active" => new.opened
    BY <2>2 DEF ItemRows
  <2>4. items' = [items EXCEPT ![i] = new]
    BY <2>1, <2>2 DEF ConnectionInv, ConnectionsTypeOK
  <2> HIDE DEF new
  <2>5. QED
    BY <2>1, <2>3, <2>4 DEF Saved
<1>3. QED
  BY <1>1, <1>2

LEMMA EditItemStep ==
  ASSUME ConnectionInv, EndByTool \/ OwnerEdits
  PROVE  ConnectionInv'
<1>1. /\ calls' \subseteq 1..MaxConnections
      /\ UNCHANGED <<conn, tokenRows, owned, made, today, crossed, gone>>
  BY DEF EndByTool, OwnerEdits, ConnectionInv, ConnectionsTypeOK
<1>2. PICK i \in Items, new \in ItemRows :
        /\ items' = [items EXCEPT ![i] = new]
        /\ new.conn = items[i].conn /\ (new.held => items[i].held)
        /\ new.status \notin {"none", "checked"} /\ (new.status = "active" => new.opened)
  BY EditedItem
<1>3. /\ items' \in [Items -> ItemRows]
      /\ IdsMade' /\ LapsedNotLive' /\ ControlsAlone' /\ CheckedKept' /\ PauseAndHoldsAgree'
  BY <1>1, <1>2, OneItem DEF ConnectionInv, IdsMade
<1>4. ConnectionsTypeOK'
  BY <1>1, <1>3 DEF ConnectionInv, ConnectionsTypeOK
<1>5. QED
  BY <1>3, <1>4 DEF ConnectionInv

LEMMA LoadOwnedStep ==
  ASSUME ConnectionInv, NEW o \in Owned, LoadOwned(o)
  PROVE  ConnectionInv'
<1>1. /\ ConnectionsTypeOK /\ IdsMade /\ LapsedNotLive
      /\ ControlsAlone /\ CheckedKept /\ PauseAndHoldsAgree
  BY DEF ConnectionInv
<1>2. PICK op \in {"pause", "resume", "disconnect", "revoke"} :
        owned' = [owned EXCEPT ![o] = [op |-> op, copy |-> conn]]
  BY DEF LoadOwned
<1> DEFINE new == [op |-> op, copy |-> conn]
<1>3. new \in OwnedStates /\ new.copy = conn
  BY <1>1, ConnectionRows DEF OwnedStates
<1> HIDE DEF new
<1>4. /\ conn.id # 0
      /\ crossed' = (crossed \/ \E p \in Owned \ {o} : owned[p] # IdleOwned)
      /\ UNCHANGED <<conn, tokenRows, items, calls, made, today, gone>>
  BY DEF LoadOwned
<1>5. /\ owned' \in [Owned -> OwnedStates]
      /\ \A p \in Owned : owned'[p] = IF p = o THEN new ELSE owned[p]
  BY <1>1, <1>2, <1>3 DEF ConnectionsTypeOK, OwnedStates, new
<1>6. ConnectionsTypeOK'
  BY <1>1, <1>4, <1>5 DEF ConnectionsTypeOK, OwnedStates
<1>7. IdsMade'
  BY <1>1, <1>3, <1>4, <1>5 DEF IdsMade
<1>8. LapsedNotLive'
  BY <1>1, <1>4 DEF LapsedNotLive, ConnectionExpired
<1>9. ControlsAlone'
  <2>1. ASSUME ~crossed'
        PROVE  \A p \in Owned : p # o => owned'[p] = IdleOwned
    BY <1>4, <1>5, <2>1
  <2>2. ASSUME ~crossed', NEW p \in Owned, owned'[p].op # "idle"
        PROVE  p = o /\ owned'[p].copy = conn
    BY <1>3, <1>5, <2>1, <2>2, ConnectionConstants
  <2>3. \A p \in Owned : owned'[p].op # "idle" => owned'[p].copy.id # 0
    BY <1>1, <1>3, <1>4, <1>5 DEF ControlsAlone
  <2>4. QED
    BY <1>4, <2>1, <2>2, <2>3 DEF ControlsAlone
<1>10. CheckedKept' /\ PauseAndHoldsAgree'
  BY <1>1, <1>4 DEF PauseAndHoldsAgree, PausedHoldsItems, Mine, CheckedKept, Saved
<1>11. QED
  BY <1>6, <1>7, <1>8, <1>9, <1>10 DEF ConnectionInv

\* What holding, releasing and ending leave of an item.
LEMMA HeldItemRow ==
  ASSUME NEW row \in ItemRows
  PROVE  /\ HeldItem(row) \in ItemRows /\ HeldItem(row).conn = row.conn
         /\ HeldItem(row).status # "active" /\ HeldItem(row).origin = row.origin
         /\ HeldItem(row).missed = "end" <=> row.missed = "end"
         /\ HeldItem(row).status = "none" <=> row.status = "none"
         /\ HeldItem(row).status = "checked" <=> row.status = "checked"
         /\ row.status = "checked" => /\ HeldItem(row).held <=> row.held
                                      /\ HeldItem(row).missed \in {"pause", "end"}
<1> DEFINE h == HeldItem(row)
<1>1. CASE row.status = "checked"
  <2>1. h = [row EXCEPT !.missed = IF @ = "end" THEN @ ELSE "pause"]
    BY <1>1 DEF HeldItem
  <2>2. QED
    BY <1>1, <2>1 DEF ItemRows
<1>2. CASE row.status = "active"
  <2>1. h = [row EXCEPT !.status = "paused", !.held = TRUE, !.opened = FALSE,
                        !.missed = IF @ = "end" THEN @ ELSE "nothing"]
    BY <1>2 DEF HeldItem
  <2>2. QED
    BY <1>2, <2>1 DEF ItemRows
<1>3. CASE row.status \notin {"checked", "active"}
  BY <1>3 DEF HeldItem
<1>4. QED
  BY <1>1, <1>2, <1>3

LEMMA ReleasedItemRow ==
  ASSUME NEW row \in ItemRows
  PROVE  /\ ReleasedItem(row) \in ItemRows /\ ReleasedItem(row).conn = row.conn
         /\ ~ReleasedItem(row).held /\ ReleasedItem(row).origin = row.origin
         /\ ReleasedItem(row).missed = row.missed
         /\ ReleasedItem(row).status = row.status
              \/ (ReleasedItem(row).status = "active" /\ row.status = "paused")
  BY DEF ReleasedItem, ItemRows

LEMMA EndedItemRow ==
  ASSUME NEW row \in ItemRows, NEW revoke \in BOOLEAN
  PROVE  /\ EndedItem(row, revoke) \in ItemRows /\ EndedItem(row, revoke).origin = row.origin
         /\ row.status = "checked" =>
              /\ EndedItem(row, revoke).status = "checked"
              /\ EndedItem(row, revoke).conn = row.conn
              /\ EndedItem(row, revoke).held <=> row.held
              /\ EndedItem(row, revoke).missed = "end"
         /\ row.status # "checked" =>
              /\ EndedItem(row, revoke).conn = 0
              /\ EndedItem(row, revoke).status = (IF revoke THEN "revoked" ELSE row.status)
              /\ EndedItem(row, revoke).missed = row.missed
              /\ ~revoke => (EndedItem(row, revoke).opened <=> row.opened)
<1>1. 0 \in 0..MaxConnections
  BY ConnectionNumbers
<1>2. CASE row.status = "checked"
  BY <1>2 DEF EndedItem, ItemRows
<1>3. CASE row.status # "checked"
  BY <1>1, <1>3 DEF EndedItem, ItemRows
<1>4. QED
  BY <1>2, <1>3

LEMMA PauseOrResumeConnectionStep ==
  ASSUME ConnectionInv, NEW o \in Owned, PauseOrResumeConnection(o)
  PROVE  ConnectionInv'
<1> DEFINE copy == owned[o].copy
<1> DEFINE paused == owned[o].op = "pause"
<1>1. /\ ConnectionsTypeOK /\ IdsMade /\ LapsedNotLive
      /\ ControlsAlone /\ CheckedKept /\ PauseAndHoldsAgree
  BY DEF ConnectionInv
<1>2. /\ owned[o].op \in {"pause", "resume"}
      /\ conn' = IF conn.id = copy.id /\ copy.paused # paused
                 THEN [conn EXCEPT !.paused = paused] ELSE conn
      /\ owned' = [owned EXCEPT ![o] = IdleOwned]
      /\ UNCHANGED <<tokenRows, calls, made, today, crossed, gone>>
  BY DEF PauseOrResumeConnection
<1>3. items' = [i \in Items |-> IF items[i].conn = copy.id /\ items[i].status # "none"
                                THEN (IF paused THEN HeldItem(items[i]) ELSE ReleasedItem(items[i]))
                                ELSE items[i]]
  BY DEF PauseOrResumeConnection, Each
<1>4. /\ conn' \in Conns /\ conn'.id = conn.id /\ conn'.expiresAt = conn.expiresAt
      /\ conn.id # copy.id => (conn'.paused <=> conn.paused)
  BY <1>1, <1>2, ConnectionRows DEF Conns
<1>5. conn.id = copy.id /\ ~crossed => (conn'.paused <=> paused)
  <2>1. conn.id = copy.id /\ ~crossed => (copy.paused <=> conn.paused)
    BY <1>1, <1>2 DEF ControlsAlone
  <2>2. conn.paused \in BOOLEAN /\ copy.paused \in BOOLEAN
    BY <1>1, ConnectionRows
  <2>3. conn.id = copy.id /\ (copy.paused <=> paused) => conn' = conn
    BY <1>2, <2>2
  <2>4. conn.id = copy.id /\ ~(copy.paused <=> paused) => (conn'.paused <=> paused)
    BY <1>1, <1>2, <2>2, ConnectionRows DEF Conns
  <2>5. QED
    BY <2>1, <2>3, <2>4
<1> HIDE DEF paused
<1>6. ASSUME NEW i \in Items
      PROVE  /\ items'[i] \in ItemRows /\ items'[i].conn = items[i].conn
             /\ items[i].conn # copy.id => items'[i] = items[i]
             /\ items[i].conn = copy.id /\ Saved(i) /\ paused => items'[i].status # "active"
             /\ items[i].conn = copy.id /\ Saved(i) /\ ~paused => ~items'[i].held
             /\ items[i].conn = copy.id /\ items[i].status = "checked" /\ paused
                  => items'[i].missed \in {"pause", "end"}
             /\ items'[i].status = "checked" <=> items[i].status = "checked"
             /\ items'[i].missed = "end" <=> items[i].missed = "end"
             /\ Saved(i)' <=> Saved(i)
             /\ ~Saved(i) => ~items'[i].held
  <2>1. items[i] \in ItemRows /\ (~Saved(i) => ~items[i].held)
    BY <1>1, ConnectionRows DEF CheckedKept
  <2>2. items'[i] = IF items[i].conn = copy.id /\ items[i].status # "none"
                    THEN (IF paused THEN HeldItem(items[i]) ELSE ReleasedItem(items[i]))
                    ELSE items[i]
    BY <1>3
  <2>3. CASE ~(items[i].conn = copy.id /\ items[i].status # "none")
    BY <2>1, <2>2, <2>3 DEF Saved
  <2>4. CASE items[i].conn = copy.id /\ items[i].status # "none" /\ paused
    BY <2>1, <2>2, <2>4, HeldItemRow DEF Saved, ItemRows
  <2>5. CASE items[i].conn = copy.id /\ items[i].status # "none" /\ ~paused
    BY <2>1, <2>2, <2>5, ReleasedItemRow DEF Saved, ItemRows
  <2>6. QED
    BY <2>3, <2>4, <2>5
<1>7. items' \in [Items -> ItemRows]
  BY <1>3, <1>6
<1>8. \A p \in Owned : owned'[p] = IF p = o THEN IdleOwned ELSE owned[p]
  BY <1>1, <1>2 DEF ConnectionsTypeOK
<1>9. ConnectionsTypeOK'
  BY <1>1, <1>2, <1>4, <1>7, ConnectionConstants DEF ConnectionsTypeOK, OwnedStates
<1>10. IdsMade'
  <2>1. \A p \in Owned : owned'[p].copy.id <= made'
    BY <1>1, <1>2, <1>8, ConnectionConstants, ConnectionRows DEF IdsMade
  <2>2. conn'.id = 0 => ~conn'.paused
    <3>1. copy.id # 0
      BY <1>1, <1>2 DEF ControlsAlone
    <3>2. QED
      BY <1>1, <1>4, <3>1 DEF IdsMade
  <2>3. QED
    BY <1>1, <1>2, <1>4, <1>6, <2>1, <2>2 DEF IdsMade
<1>11. LapsedNotLive'
  BY <1>1, <1>2, <1>4 DEF LapsedNotLive, ConnectionExpired
<1>12. ControlsAlone'
  <2>1. ASSUME ~crossed, NEW p \in Owned
        PROVE  owned'[p] = IdleOwned
    BY <1>1, <1>2, <1>8, <2>1, ConnectionConstants DEF ControlsAlone
  <2>2. \A p \in Owned : owned'[p].op # "idle" => owned'[p].copy.id # 0
    BY <1>1, <1>8, ConnectionConstants DEF ControlsAlone
  <2>3. QED
    BY <1>2, <2>1, <2>2, ConnectionConstants DEF ControlsAlone
<1>13. CheckedKept'
  <2> SUFFICES ASSUME NEW i \in Items
               PROVE  /\ ~Saved(i)' => ~items'[i].held
                      /\ items'[i].status = "checked" =>
                           /\ items'[i].conn # 0
                           /\ items'[i].conn = conn'.id =>
                                /\ items'[i].missed # "end"
                                /\ ~crossed /\ conn'.paused => items'[i].missed = "pause"
    BY <1>2 DEF CheckedKept
  <2>1. ~Saved(i)' => ~items'[i].held
    BY <1>6
  <2>2. ASSUME items'[i].status = "checked"
        PROVE  items'[i].conn # 0 /\ (items'[i].conn = conn'.id => items'[i].missed # "end")
    BY <1>1, <1>4, <1>6, <2>2 DEF CheckedKept
  <2>3. ASSUME items'[i].status = "checked", items'[i].conn = conn'.id, ~crossed, conn'.paused
        PROVE  items'[i].missed = "pause"
    <3>1. items[i].status = "checked" /\ items[i].conn = conn.id
      BY <1>4, <1>6, <2>3
    <3>2. CASE conn.id = copy.id
      BY <1>5, <1>6, <2>2, <2>3, <3>1, <3>2
    <3>3. CASE conn.id # copy.id
      BY <1>1, <1>4, <1>6, <2>3, <3>1, <3>3 DEF CheckedKept
    <3>4. QED
      BY <3>2, <3>3
  <2>4. QED
    BY <2>1, <2>2, <2>3
<1>14. PauseAndHoldsAgree'
  <2> SUFFICES ASSUME ~crossed, NEW i \in Items, items'[i].conn = conn'.id, Saved(i)'
               PROVE  /\ conn'.paused /\ items'[i].status = "active"
                           => items'[i].opened \/ items'[i].missed = "pause"
                      /\ conn'.id # 0 /\ ~conn'.paused => ~items'[i].held
    BY <1>2 DEF PauseAndHoldsAgree, PausedHoldsItems, Mine
  <2>1. Saved(i) /\ items[i].conn = conn.id
    BY <1>4, <1>6
  <2>2. CASE conn.id = copy.id
    BY <1>5, <1>6, <2>1, <2>2
  <2>3. CASE conn.id # copy.id
    <3>1. items'[i] = items[i]
      BY <1>6, <2>1, <2>3
    <3>2. QED
      BY <1>1, <1>4, <2>1, <2>3, <3>1 DEF PauseAndHoldsAgree, PausedHoldsItems, Mine
  <2>4. QED
    BY <2>2, <2>3
<1>15. QED
  BY <1>9, <1>10, <1>11, <1>12, <1>13, <1>14 DEF ConnectionInv

\* A connection's rows go and its items name it no longer, but for those about to be
\* inserted.
LEMMA GoneStep ==
  ASSUME ConnectionInv, NEW id \in 1..MaxConnections,
         conn' = IF conn.id = id THEN NoConn ELSE conn,
         tokenRows' = {r \in tokenRows : r.conn # id},
         items' \in [Items -> ItemRows],
         \A i \in Items : \/ items'[i] = items[i]
                          \/ items'[i].conn = 0 /\ Saved(i)'
                          \/ /\ items'[i].conn = id /\ items[i].conn = id
                             /\ ~items'[i].held /\ ~Saved(i)',
         owned' \in [Owned -> OwnedStates],
         \A o \in Owned : owned'[o] = owned[o] \/ owned'[o] = IdleOwned,
         calls' \subseteq 1..MaxConnections, gone' \subseteq 1..MaxConnections,
         UNCHANGED <<made, today, crossed>>
  PROVE  ConnectionInv'
<1>1. /\ ConnectionsTypeOK /\ IdsMade /\ LapsedNotLive
      /\ ControlsAlone /\ CheckedKept /\ PauseAndHoldsAgree
  BY DEF ConnectionInv
<1>2. conn' \in Conns /\ (conn' = conn \/ (conn'.id = 0 /\ ~conn'.paused))
  BY <1>1, ConnectionConstants, ConnectionRows
<1>3. ConnectionsTypeOK'
  BY <1>1, <1>2 DEF ConnectionsTypeOK, OwnedStates
<1>4. IdsMade'
  <2>1. \A i \in Items : items'[i].conn <= made'
    BY <1>1, ConnectionRows DEF IdsMade
  <2>2. \A o \in Owned : owned'[o].copy.id <= made'
    BY <1>1, ConnectionRows, ConnectionConstants DEF IdsMade
  <2>3. conn'.id <= made' /\ (conn'.id = 0 => ~conn'.paused)
    BY <1>1, <1>2, ConnectionRows DEF IdsMade
  <2>4. QED
    BY <1>1, <2>1, <2>2, <2>3 DEF IdsMade
<1>5. LapsedNotLive'
  <2>1. \A r \in tokenRows' : r \in tokenRows /\ r.conn # 0
    BY <1>1, ConnectionRows
  <2>2. QED
    BY <1>1, <1>2, <2>1 DEF LapsedNotLive, ConnectionExpired
<1>6. ControlsAlone'
  <2>1. \A o \in Owned : owned'[o].op # "idle" => owned'[o] = owned[o] /\ owned'[o].copy.id # 0
    BY <1>1, ConnectionConstants DEF ControlsAlone
  <2>2. \A o \in Owned : owned'[o] # IdleOwned => owned[o] # IdleOwned
    OBVIOUS
  <2>3. QED
    BY <1>1, <1>2, <2>1, <2>2 DEF ControlsAlone
<1>7. CheckedKept'
  <2>1. conn'.id # id
    BY <1>2, ConnectionConstants
  <2>2. conn' = conn \/ conn'.id = 0
    BY <1>2
  <2>3. QED
    BY <1>1, <2>1, <2>2 DEF CheckedKept, Saved
<1>8. PauseAndHoldsAgree'
  <2> SUFFICES ASSUME ~crossed, NEW i \in Items, items'[i].conn = conn'.id, Saved(i)'
               PROVE  /\ conn'.paused /\ items'[i].status = "active"
                           => items'[i].opened \/ items'[i].missed = "pause"
                      /\ conn'.id # 0 /\ ~conn'.paused => ~items'[i].held
    BY DEF PauseAndHoldsAgree, PausedHoldsItems, Mine
  <2>1. CASE conn'.id = 0
    BY <1>1, <1>2, <2>1 DEF IdsMade
  <2>2. CASE conn'.id # 0
    <3>1. conn' = conn /\ items'[i] = items[i]
      BY <1>2, <2>2
    <3>2. QED
      BY <1>1, <3>1 DEF PauseAndHoldsAgree, PausedHoldsItems, Mine, Saved
  <2>3. QED
    BY <2>1, <2>2
<1>9. QED
  BY <1>3, <1>4, <1>5, <1>6, <1>7, <1>8 DEF ConnectionInv

LEMMA LeaveStep ==
  ASSUME ConnectionInv, Leave
  PROVE  ConnectionInv'
<1>1. ConnectionsTypeOK
  BY DEF ConnectionInv
<1>2. PICK id \in calls :
        /\ calls' = calls \ {id}
        /\ conn' = IF conn.id = id THEN NoConn ELSE conn
        /\ tokenRows' = {r \in tokenRows : r.conn # id}
        /\ items' = Cleared(id)
        /\ UNCHANGED <<owned, made, today, crossed, gone>>
  BY DEF Leave
<1>3. id \in 1..MaxConnections /\ calls' \subseteq 1..MaxConnections
  BY <1>1, <1>2 DEF ConnectionsTypeOK
<1>4. 0 \in 0..MaxConnections
  BY ConnectionNumbers
<1>5. ASSUME NEW i \in Items
      PROVE  /\ items'[i] \in ItemRows
             /\ \/ items'[i] = items[i]
                \/ items'[i].conn = 0 /\ Saved(i)'
                \/ /\ items'[i].conn = id /\ items[i].conn = id
                   /\ ~items'[i].held /\ ~Saved(i)'
  <2> DEFINE cleared == [items[i] EXCEPT !.conn = 0]
  <2>1. items[i] \in ItemRows
    BY <1>1, ConnectionRows
  <2>2. cleared \in ItemRows /\ cleared.conn = 0 /\ cleared.status = items[i].status
    BY <1>4, <2>1 DEF ItemRows
  <2>3. items'[i] = IF items[i].conn = id /\ Saved(i) THEN cleared ELSE items[i]
    BY <1>2 DEF Cleared
  <2> HIDE DEF cleared
  <2>4. QED
    BY <2>1, <2>2, <2>3 DEF Saved
<1>6. items' \in [Items -> ItemRows]
  BY <1>2, <1>5 DEF Cleared
<1>7. owned' \in [Owned -> OwnedStates] /\ gone' \subseteq 1..MaxConnections
  BY <1>1, <1>2 DEF ConnectionsTypeOK, OwnedStates
<1>8. QED
  BY <1>2, <1>3, <1>5, <1>6, <1>7, GoneStep

LEMMA DisconnectToolStep ==
  ASSUME ConnectionInv, NEW o \in Owned, DisconnectTool(o)
  PROVE  ConnectionInv'
<1> DEFINE id == owned[o].copy.id
<1> DEFINE revoke == owned[o].op = "revoke"
<1>1. ConnectionsTypeOK
  BY DEF ConnectionInv
<1>2. /\ owned[o].op # "idle"
      /\ conn' = IF conn.id = id THEN NoConn ELSE conn
      /\ tokenRows' = {r \in tokenRows : r.conn # id}
      /\ gone' = IF revoke /\ conn.id = id THEN gone \cup {id} ELSE gone
      /\ owned' = [owned EXCEPT ![o] = IdleOwned]
      /\ UNCHANGED <<calls, made, today, crossed>>
  BY DEF DisconnectTool
<1>3. items' = [i \in Items |-> IF items[i].conn = id /\ items[i].status # "none"
                                THEN EndedItem(items[i], revoke) ELSE items[i]]
  BY DEF DisconnectTool, Each
<1>4. id \in 1..MaxConnections
  <2>1. id # 0
    BY <1>2 DEF ConnectionInv, ControlsAlone
  <2>2. QED
    BY <1>1, <2>1, ConnectionRows, ConnectionNumbers
<1>5. ASSUME NEW i \in Items
      PROVE  /\ items'[i] \in ItemRows
             /\ \/ items'[i] = items[i]
                \/ items'[i].conn = 0 /\ Saved(i)'
                \/ /\ items'[i].conn = id /\ items[i].conn = id
                   /\ ~items'[i].held /\ ~Saved(i)'
  <2>1. items[i] \in ItemRows /\ (~Saved(i) => ~items[i].held)
    BY <1>1, ConnectionRows DEF ConnectionInv, CheckedKept
  <2>2. CASE items[i].conn = id /\ items[i].status # "none"
    <3>0. revoke \in BOOLEAN
      OBVIOUS
    <3>1. items'[i] = EndedItem(items[i], revoke)
      BY <1>3, <2>2
    <3> HIDE DEF revoke
    <3>2. CASE items[i].status = "checked"
      BY <2>1, <2>2, <3>0, <3>1, <3>2, EndedItemRow DEF Saved
    <3>3. CASE items[i].status # "checked"
      BY <2>1, <2>2, <3>0, <3>1, <3>3, EndedItemRow DEF Saved, ItemRows
    <3>4. QED
      BY <3>2, <3>3
  <2>3. CASE ~(items[i].conn = id /\ items[i].status # "none")
    BY <1>3, <2>1, <2>3
  <2>4. QED
    BY <2>2, <2>3
<1>6. items' \in [Items -> ItemRows]
  BY <1>3, <1>5
<1>7. /\ owned' \in [Owned -> OwnedStates] /\ gone' \subseteq 1..MaxConnections
      /\ calls' \subseteq 1..MaxConnections
      /\ \A p \in Owned : owned'[p] = owned[p] \/ owned'[p] = IdleOwned
  BY <1>1, <1>2, <1>4, ConnectionConstants DEF ConnectionsTypeOK, OwnedStates
<1>8. QED
  BY <1>2, <1>4, <1>5, <1>6, <1>7, GoneStep

LEMMA TickConnectionStep ==
  ASSUME ConnectionInv, TickConnection
  PROVE  ConnectionInv'
<1>1. /\ ConnectionsTypeOK /\ IdsMade /\ LapsedNotLive
      /\ ControlsAlone /\ CheckedKept /\ PauseAndHoldsAgree
  BY DEF ConnectionInv
<1>2. /\ today < MaxConnectionTime /\ today' = today + 1
      /\ UNCHANGED <<conn, items, owned, calls, made, crossed, gone>>
  BY DEF TickConnection
<1>3. today' \in 0..MaxConnectionTime
  BY <1>1, <1>2, ConnectionRows, ConnectionNumbers
<1>4. ASSUME NEW r \in tokenRows'
      PROVE  /\ r \in TokenRows /\ r.conn <= made
             /\ r.conn = conn.id /\ r.lapsed => conn.expiresAt <= today'
  <2>1. PICK q \in tokenRows :
          r = [q EXCEPT !.lapsed = @ \/ (q.conn = conn.id /\ conn.expiresAt <= today + 1)]
    BY DEF TickConnection
  <2>2. q \in TokenRows /\ q.conn <= made /\ (q.conn = conn.id /\ q.lapsed => ConnectionExpired)
    BY <1>1, <2>1, ConnectionRows DEF IdsMade, LapsedNotLive
  <2>3. /\ r \in TokenRows /\ r.conn = q.conn
        /\ r.lapsed <=> (q.lapsed \/ (q.conn = conn.id /\ conn.expiresAt <= today + 1))
    BY <2>1, <2>2 DEF TokenRows
  <2>4. ConnectionExpired => conn.expiresAt <= today'
    BY <1>1, <1>2, ConnectionRows DEF ConnectionExpired
  <2>5. QED
    BY <1>2, <2>2, <2>3, <2>4
<1>5. ConnectionsTypeOK'
  BY <1>1, <1>2, <1>3, <1>4 DEF ConnectionsTypeOK
<1>6. IdsMade'
  BY <1>1, <1>2, <1>4 DEF IdsMade
<1>7. LapsedNotLive'
  BY <1>2, <1>4 DEF LapsedNotLive, ConnectionExpired
<1>8. ControlsAlone' /\ CheckedKept' /\ PauseAndHoldsAgree'
  BY <1>1, <1>2 DEF ControlsAlone, PauseAndHoldsAgree, PausedHoldsItems, Mine, CheckedKept, Saved
<1>9. QED
  BY <1>5, <1>6, <1>7, <1>8 DEF ConnectionInv

LEMMA ConnectionStep == ConnectionInv /\ [ConnectionsNext]_connectionVars => ConnectionInv'
<1> SUFFICES ASSUME ConnectionInv, [ConnectionsNext]_connectionVars
             PROVE  ConnectionInv'
  OBVIOUS
<1>1. CASE UNCHANGED connectionVars
  BY <1>1 DEF connectionVars, ConnectionInv, ConnectionsTypeOK, IdsMade, LapsedNotLive,
              ConnectionExpired, ControlsAlone, PauseAndHoldsAgree, PausedHoldsItems, Mine, CheckedKept, Saved
<1>2. QED
  BY <1>1, AuthorizeStep, TokenRowsStep, LetInStep, CheckItemStep, InsertItemStep,
     EditItemStep, LeaveStep,
     LoadOwnedStep, PauseOrResumeConnectionStep, DisconnectToolStep, TickConnectionStep
     DEF ConnectionsNext

\* Every reachable state of a connection is as ConnectionInv says.
THEOREM ConnectionInvariant == ConnectionsSpec => []ConnectionInv
  BY ConnectionInit, ConnectionStep, PTL DEF ConnectionsSpec

\* No code or token that was there when the connection ran out lets a call in, whatever
\* renews the connection later (the authorization that deletes a lapsed row's tokens).
THEOREM LapsedStayDeadHolds == ConnectionsSpec => []LapsedStayDead
<1>1. ConnectionInv => LapsedStayDead
  BY DEF ConnectionInv, LapsedNotLive, LapsedStayDead, Usable
<1>2. QED
  BY <1>1, ConnectionInvariant, PTL

\* While no two of the owner's controls overlap a pause holds every item of the tool but one
\* whose INSERT it came before and whose check it came after, and no hold outlasts it
\* (PauseConnection, ResumeConnection, validateLinkConnection, validateConnected).
THEOREM PauseAndHoldsAgreeHolds == ConnectionsSpec => []PauseAndHoldsAgree
<1>1. ConnectionInv => PauseAndHoldsAgree
  BY DEF ConnectionInv
<1>2. QED
  BY <1>1, ConnectionInvariant, PTL

\* An item names its connection or none.  It names the one that is there if it came from
\* it.  One that was disconnected with its items was left none that is open, and those
\* about to be inserted have missed its end.
OriginKept(i) ==
  /\ items[i].origin \in 0..made /\ items[i].conn \in {0, items[i].origin}
  /\ items[i].status = "none" => items[i].origin = 0
  /\ items[i].origin = conn.id => items[i].conn = conn.id
  /\ items[i].origin \in gone =>
       \/ items[i].missed = "end"
       \/ /\ items[i].conn = 0 /\ items[i].status # "checked"
          /\ items[i].status = "active" => items[i].opened

OriginsKept == /\ conn.id \notin gone /\ gone \subseteq 1..made
               /\ \A i \in Items : OriginKept(i)

\* The items and connections that are there stay, so do their origins.
LEMMA SameOrigins ==
  ASSUME OriginsKept, UNCHANGED <<conn, items, made, gone>>
  PROVE  OriginsKept'
  BY DEF OriginsKept, OriginKept

LEMMA AuthorizeOrigins ==
  ASSUME ConnectionInv, OriginsKept, Authorize
  PROVE  OriginsKept'
<1>1. /\ conn'.id = IF conn.id = 0 THEN made + 1 ELSE conn.id
      /\ made' = IF conn.id = 0 THEN made + 1 ELSE made
      /\ UNCHANGED <<items, gone>>
  BY DEF Authorize
<1>2. made \in Nat /\ conn.id \in Nat
  BY ConnectionRows, ConnectionNumbers DEF ConnectionInv
<1>3. conn'.id \notin gone /\ gone' \subseteq 1..made'
  BY <1>1, <1>2 DEF OriginsKept
<1>4. ASSUME NEW i \in Items PROVE OriginKept(i)'
  <2>1. OriginKept(i)
    BY DEF OriginsKept
  <2>2. items[i].origin \in 0..made' /\ (conn.id = 0 => items[i].origin # conn'.id)
    BY <1>1, <1>2, <2>1 DEF OriginKept
  <2>3. QED
    BY <1>1, <2>1, <2>2 DEF OriginKept
<1>5. QED
  BY <1>1, <1>3, <1>4 DEF OriginsKept

LEMMA CheckedItemOrigins ==
  ASSUME ConnectionInv, OriginsKept, NEW id \in 1..MaxConnections, MayJoin(id), CheckedItem(id),
         UNCHANGED <<conn, made, gone>>
  PROVE  OriginsKept'
<1>1. PICK i \in Items :
        items' = [items EXCEPT ![i] = [NoItem EXCEPT !.status = "checked", !.origin = id,
                                                     !.conn = id]]
  BY DEF CheckedItem
<1> DEFINE new == [NoItem EXCEPT !.status = "checked", !.origin = id, !.conn = id]
<1>2. new.origin = id /\ new.conn = id /\ new.status = "checked"
  BY DEF NoItem
<1>3. \A j \in Items : items'[j] = IF j = i THEN new ELSE items[j]
  BY <1>1 DEF ConnectionInv, ConnectionsTypeOK
<1> HIDE DEF new
<1>4. id = conn.id /\ id \in 0..made /\ id \notin gone
  BY ConnectionRows DEF MayJoin, OriginsKept, ConnectionInv, IdsMade
<1>5. ASSUME NEW j \in Items PROVE OriginKept(j)'
  <2>1. CASE j = i
    BY <1>2, <1>3, <1>4, <2>1 DEF OriginKept
  <2>2. CASE j # i
    BY <1>3, <2>2 DEF OriginsKept, OriginKept
  <2>3. QED
    BY <2>1, <2>2
<1>6. QED
  BY <1>5 DEF OriginsKept

LEMMA CheckItemOrigins ==
  ASSUME ConnectionInv, OriginsKept, CheckByTool \/ CheckProposal
  PROVE  OriginsKept'
<1>1. CASE CheckProposal
  <2>1. /\ conn.id \in 1..MaxConnections /\ MayJoin(conn.id) /\ CheckedItem(conn.id)
        /\ UNCHANGED <<conn, made, gone>>
    BY <1>1, ConnectionRows DEF CheckProposal, ConnectionInv
  <2>2. QED
    BY <2>1, CheckedItemOrigins
<1>2. CASE CheckByTool
  <2>1. PICK id \in calls : /\ IF MayJoin(id) THEN CheckedItem(id) ELSE UNCHANGED items
                            /\ UNCHANGED <<conn, made, gone>>
    BY <1>2 DEF CheckByTool
  <2>2. id \in 1..MaxConnections
    BY <2>1 DEF ConnectionInv, ConnectionsTypeOK
  <2>3. CASE MayJoin(id)
    BY <2>1, <2>2, <2>3, CheckedItemOrigins
  <2>4. CASE ~MayJoin(id)
    BY <2>1, <2>4, SameOrigins
  <2>5. QED
    BY <2>3, <2>4
<1>3. QED
  BY <1>1, <1>2

LEMMA InsertItemOrigins ==
  ASSUME ConnectionInv, OriginsKept, NEW i \in Items, InsertItem(i)
  PROVE  OriginsKept'
<1>1. UNCHANGED <<conn, made, gone>>
  BY DEF InsertItem
<1>2. PICK new \in ItemRows :
        /\ items[i].status = "checked" /\ items' = [items EXCEPT ![i] = new]
        /\ \/ /\ new.status = "active" /\ new.conn = items[i].conn
              /\ new.origin = items[i].origin /\ new.missed = items[i].missed
           \/ new = NoItem
  BY InsertedItem DEF ConnectionInv
<1>3. \A j \in Items : items'[j] = IF j = i THEN new ELSE items[j]
  BY <1>2 DEF ConnectionInv, ConnectionsTypeOK
<1>4. 0 \in 0..made /\ 0 \notin gone
  BY ConnectionRows DEF ConnectionInv, OriginsKept
<1>5. ASSUME NEW j \in Items PROVE OriginKept(j)'
  <2>1. CASE j # i
    BY <1>1, <1>3, <2>1 DEF OriginsKept, OriginKept
  <2>2. CASE j = i /\ new = NoItem
    BY <1>1, <1>3, <1>4, <2>2, ConnectionConstants DEF OriginKept
  <2>3. CASE j = i /\ new # NoItem
    BY <1>1, <1>2, <1>3, <2>3 DEF OriginsKept, OriginKept
  <2>4. QED
    BY <2>1, <2>2, <2>3
<1>6. QED
  BY <1>1, <1>5 DEF OriginsKept

\* What changes an item's status only keeps where it came from.
LEMMA ChangedOrigins ==
  ASSUME OriginsKept, UNCHANGED <<conn, made, gone>>,
         \A i \in Items : /\ items'[i].origin = items[i].origin /\ items'[i].conn = items[i].conn
                          /\ items'[i].status = "none" => items[i].status = "none"
                          /\ items[i].missed = "end" => items'[i].missed = "end"
                          /\ \/ items'[i] = items[i]
                             \/ /\ items'[i].status # "checked"
                                /\ items'[i].status = "active" => items'[i].opened
  PROVE  OriginsKept'
  BY DEF OriginsKept, OriginKept

LEMMA EditOrigins ==
  ASSUME ConnectionInv, OriginsKept, EndByTool \/ OwnerEdits
  PROVE  OriginsKept'
<1>1. EndByTool => UNCHANGED <<conn, made, gone>>
  BY DEF EndByTool
<1>2. OwnerEdits => UNCHANGED <<conn, made, gone>>
  BY DEF OwnerEdits
<1>3. PICK i \in Items, new \in ItemRows :
        /\ items' = [items EXCEPT ![i] = new]
        /\ new.conn = items[i].conn /\ new.origin = items[i].origin
        /\ new.missed = items[i].missed
        /\ new.status \notin {"none", "checked"} /\ (new.status = "active" => new.opened)
  BY EditedItem
<1>4. \A j \in Items : items'[j] = IF j = i THEN new ELSE items[j]
  BY <1>3 DEF ConnectionInv, ConnectionsTypeOK
<1>5. QED
  BY <1>1, <1>2, <1>3, <1>4, ChangedOrigins

LEMMA PauseOrResumeOrigins ==
  ASSUME ConnectionInv, OriginsKept, NEW o \in Owned, PauseOrResumeConnection(o)
  PROVE  OriginsKept'
<1> DEFINE id == owned[o].copy.id
<1>1. /\ owned[o].op # "idle" /\ conn'.id = conn.id
      /\ UNCHANGED <<made, gone>>
  BY ConnectionRows DEF PauseOrResumeConnection, ConnectionInv, Conns
<1>2. id # 0
  BY <1>1 DEF ConnectionInv, ControlsAlone
<1>3. ASSUME NEW i \in Items
      PROVE  /\ items'[i].origin = items[i].origin /\ items'[i].conn = items[i].conn
             /\ items'[i].status = "none" => items[i].status = "none"
             /\ items[i].missed = "end" => items'[i].missed = "end"
             /\ items[i].conn = 0 => items'[i] = items[i]
  <2>1. items[i] \in ItemRows
    BY ConnectionRows DEF ConnectionInv
  <2>2. items'[i] \in IF items[i].conn = id
                      THEN {items[i], HeldItem(items[i]), ReleasedItem(items[i])} ELSE {items[i]}
    BY DEF PauseOrResumeConnection, Each
  <2>3. ASSUME NEW row \in {HeldItem(items[i]), ReleasedItem(items[i])}
        PROVE  /\ row.origin = items[i].origin /\ row.conn = items[i].conn
               /\ row.status = "none" => items[i].status = "none"
               /\ items[i].missed = "end" => row.missed = "end"
    <3>1. CASE row = HeldItem(items[i])
      BY <2>1, <3>1, HeldItemRow
    <3>2. CASE row = ReleasedItem(items[i])
      BY <2>1, <3>2, ReleasedItemRow
    <3>3. QED
      BY <2>3, <3>1, <3>2
  <2>4. QED
    BY <1>2, <2>2, <2>3
<1>4. QED
  BY <1>1, <1>3 DEF OriginsKept, OriginKept

LEMMA LeaveOrigins ==
  ASSUME ConnectionInv, OriginsKept, Leave
  PROVE  OriginsKept'
<1>1. PICK id \in calls : /\ conn' = IF conn.id = id THEN NoConn ELSE conn
                          /\ items' = Cleared(id)
                          /\ UNCHANGED <<made, gone>>
  BY DEF Leave
<1>2. id \in 1..MaxConnections
  BY <1>1 DEF ConnectionInv, ConnectionsTypeOK
<1>3. conn'.id = IF conn.id = id THEN 0 ELSE conn.id
  BY <1>1, ConnectionConstants
<1>4. ASSUME NEW i \in Items PROVE OriginKept(i)'
  <2>1. OriginKept(i) /\ items[i] \in ItemRows
    BY ConnectionRows DEF OriginsKept, ConnectionInv
  <2>2. items'[i] = IF items[i].conn = id /\ Saved(i)
                    THEN [items[i] EXCEPT !.conn = 0] ELSE items[i]
    BY <1>1 DEF Cleared
  <2>3. /\ items'[i].origin = items[i].origin /\ items'[i].status = items[i].status
        /\ items'[i].opened = items[i].opened /\ items'[i].missed = items[i].missed
        /\ items'[i].conn = IF items[i].conn = id /\ Saved(i) THEN 0 ELSE items[i].conn
    BY <2>1, <2>2 DEF ItemRows
  <2>4. QED
    BY <1>1, <1>2, <1>3, <2>1, <2>3 DEF OriginKept
<1>5. 0 \notin gone
  BY DEF OriginsKept
<1>6. QED
  BY <1>1, <1>3, <1>4, <1>5 DEF OriginsKept

LEMMA DisconnectOrigins ==
  ASSUME ConnectionInv, OriginsKept, NEW o \in Owned, DisconnectTool(o)
  PROVE  OriginsKept'
<1> DEFINE id == owned[o].copy.id
<1> DEFINE revoke == owned[o].op = "revoke"
<1>1. /\ owned[o].op # "idle"
      /\ conn' = IF conn.id = id THEN NoConn ELSE conn
      /\ gone' = IF revoke /\ conn.id = id THEN gone \cup {id} ELSE gone
      /\ made' = made
  BY DEF DisconnectTool
<1>2. id \in 1..made
  BY <1>1, ConnectionRows, ConnectionNumbers DEF ConnectionInv, ControlsAlone, IdsMade
<1>3. conn'.id = IF conn.id = id THEN 0 ELSE conn.id
  BY <1>1, ConnectionConstants
<1>4. items' = [i \in Items |-> IF items[i].conn = id /\ items[i].status # "none"
                                THEN EndedItem(items[i], revoke) ELSE items[i]]
  BY DEF DisconnectTool, Each
<1>0. revoke \in BOOLEAN
  OBVIOUS
<1> HIDE DEF revoke
<1>5. ASSUME NEW i \in Items PROVE OriginKept(i)'
  <2>1. OriginKept(i) /\ items[i] \in ItemRows
    BY ConnectionRows DEF OriginsKept, ConnectionInv
  <2>2. items[i].conn = id => items[i].status # "none"
    BY <1>2, <2>1 DEF OriginKept
  <2>3. CASE items[i].conn = id
    <3>1. items'[i] = EndedItem(items[i], revoke)
      BY <1>4, <2>2, <2>3
    <3>2. items[i].origin = id /\ 0 # id
      BY <1>2, <2>1, <2>3 DEF OriginKept
    <3>3. CASE items[i].status = "checked"
      <4>1. /\ items'[i].origin = items[i].origin /\ items'[i].conn = items[i].conn
            /\ items'[i].status = "checked" /\ items'[i].missed = "end"
        BY <1>0, <2>1, <3>1, <3>3, EndedItemRow
      <4>2. QED
        BY <1>1, <1>2, <1>3, <2>1, <3>2, <4>1 DEF OriginKept
    <3>4. CASE items[i].status # "checked"
      <4>1. /\ items'[i].origin = items[i].origin /\ items'[i].conn = 0
            /\ items'[i].status = IF revoke THEN "revoked" ELSE items[i].status
            /\ items'[i].missed = items[i].missed
        BY <1>0, <2>1, <3>1, <3>4, EndedItemRow
      <4>2. items[i].origin \in gone' => revoke \/ items[i].missed = "end"
        BY <1>1, <1>2, <2>1, <2>3, <3>2 DEF OriginKept
      <4>3. QED
        BY <1>1, <1>2, <1>3, <2>1, <2>2, <2>3, <3>2, <3>4, <4>1, <4>2 DEF OriginKept
    <3>5. QED
      BY <3>3, <3>4
  <2>4. CASE items[i].conn # id
    <3>1. items'[i] = items[i]
      BY <1>4, <2>4
    <3>2. conn.id = id => items[i].origin # id
      BY <2>1, <2>4 DEF OriginKept
    <3>3. items[i].origin \in gone' => items[i].origin \in gone
      BY <1>1, <3>2
    <3>4. items[i].origin = conn'.id => items[i].conn = conn'.id
      BY <1>3, <2>1 DEF OriginKept
    <3>5. QED
      BY <1>1, <2>1, <3>1, <3>3, <3>4 DEF OriginKept
  <2>5. QED
    BY <2>3, <2>4
<1>6. gone' \subseteq 1..made'
  BY <1>1, <1>2 DEF OriginsKept
<1>7. conn'.id \notin gone'
  <2>1. CASE conn.id = id
    <3>1. conn'.id = 0 /\ made \in Int
      BY <1>3, <2>1, ConnectionRows DEF ConnectionInv
    <3>2. QED
      BY <1>1, <1>6, <3>1
  <2>2. CASE conn.id # id
    BY <1>1, <1>3, <2>2 DEF OriginsKept
  <2>3. QED
    BY <2>1, <2>2
<1>8. QED
  BY <1>5, <1>6, <1>7 DEF OriginsKept

LEMMA OriginsStep ==
  ConnectionInv /\ OriginsKept /\ [ConnectionsNext]_connectionVars => OriginsKept'
<1> SUFFICES ASSUME ConnectionInv, OriginsKept, [ConnectionsNext]_connectionVars
             PROVE  OriginsKept'
  OBVIOUS
<1>1. ASSUME \/ AuthorizeReuse \/ Exchange \/ LetIn \/ TickConnection
             \/ (\E o \in Owned : LoadOwned(o)) \/ UNCHANGED connectionVars
      PROVE  OriginsKept'
  <2>1. UNCHANGED <<conn, items, made, gone>>
    BY <1>1 DEF AuthorizeReuse, Exchange, LetIn, TickConnection, LoadOwned, connectionVars
  <2>2. QED
    BY <2>1, SameOrigins
<1>2. QED
  BY <1>1, AuthorizeOrigins, CheckItemOrigins, InsertItemOrigins, EditOrigins, LeaveOrigins, PauseOrResumeOrigins,
     DisconnectOrigins DEF ConnectionsNext

\* A disconnect that revokes leaves nothing of the tool open, whatever was held or loaded,
\* but what its owner opens afterwards and an item that had passed its check and was not
\* inserted yet (DisconnectConnection, validateLinkConnection).
THEOREM DisconnectEndsItemsHolds == ConnectionsSpec => []DisconnectEndsItems
<1>1. ConnectionsInit => OriginsKept
  <2>1. ConnectionsInit => conn.id = 0 /\ gone = {} /\ made = 0
    BY ConnectionConstants DEF ConnectionsInit
  <2>2. ConnectionsInit => \A i \in Items : OriginKept(i)
    BY <2>1 DEF ConnectionsInit, OriginKept, NoItem
  <2>3. QED
    BY <2>1, <2>2 DEF OriginsKept
<1>2. OriginsKept => DisconnectEndsItems
  BY DEF OriginsKept, OriginKept, DisconnectEndsItems
<1>3. QED
  BY <1>1, <1>2, OriginsStep, ConnectionInvariant, PTL DEF ConnectionsSpec

(***************************************************************************)
(* Contacts                                                                *)
(***************************************************************************)

\* What each send has read and done is of its sender: only who is in touch is found to
\* be, a blocked one goes no further, and what the ledger holds was delivered.
SendHonest(s) ==
  /\ send[s].at = "none" => send[s] = NotSent
  /\ send[s].at # "none" => send[s].from \in People
  /\ send[s].delivered => send[s].at \in {"delivered", "over"}
  /\ send[s].at = "delivered" => send[s].delivered
  /\ send[s].standing => send[s].from \in inTouch
  /\ send[s].answer \in {"account", "manual"} => send[s].from \in inTouch
  /\ s \in ledger => /\ send[s].delivered /\ send[s].at = "over"
                     /\ Other(send[s].from) \in inTouch

SendsHonest == \A s \in Sends : SendHonest(s)

TouchKnown == /\ sharing \subseteq inTouch
              /\ \A p \in People : contacts[p].user => p \in inTouch

BlockedStop == \A s \in refusing :
  send[s].at # "none" /\ Other(send[s].from) \in blocks /\ ~InFlight(s)

\* Of one's sends that the cap counts, one is under way at most and those that were
\* delivered are in the ledger; while it is, the others leave it room under the cap.
PairCounted(p) ==
  /\ \A s, t \in By(p) \ astray : InFlight(s) /\ InFlight(t) => s = t
  /\ \A s \in By(p) \ astray : send[s].delivered /\ send[s].at = "over" => s \in ledger
  /\ \A s \in By(p) \ astray : InFlight(s) /\ ~send[s].standing
                                 => Cardinality(Counted(p) \ {s}) < PairPerDay
  /\ Cardinality(Counted(p)) <= PairPerDay

PairsCounted == PairPerDay > 0 => \A p \in People : PairCounted(p)

\* The inductive invariant.
ContactInv == /\ ContactsTypeOK /\ SendsHonest /\ TouchKnown /\ BlockedStop
              /\ PairsCounted

LEMMA OtherOne ==
  ASSUME NEW p \in People
  PROVE  /\ Other(p) \in People /\ Other(p) # p /\ Other(Other(p)) = p
         /\ \A q \in People : q = p \/ q = Other(p)
<1>1. PICK a \in People, b \in People : a # b /\ People = {a, b}
  BY ContactsAssumption
<1>2. \A q \in People : Other(q) \in People /\ Other(q) # q
  BY <1>1 DEF Other
<1>3. QED
  BY <1>1, <1>2

LEMMA SendFields ==
  ASSUME ContactsTypeOK, NEW s \in Sends
  PROVE  /\ send[s] \in SendStates
         /\ send[s].at \in {"none", "minted", "resolved", "marked", "checked", "delivered", "over"}
         /\ send[s].from \in People \cup {"nobody"} /\ send[s].email \in {"here", "away"}
         /\ send[s].user \in BOOLEAN /\ send[s].recipient \in BOOLEAN
         /\ send[s].standing \in BOOLEAN /\ send[s].delivered \in BOOLEAN
         /\ send[s].answer \in {"", "account", "manual", "handed_over"}
  BY DEF ContactsTypeOK, SendStates

LEMMA NotSentState ==
  /\ NotSent \in SendStates /\ NotSent.at = "none" /\ ~NotSent.standing /\ ~NotSent.delivered
  /\ NotSent.answer = "" /\ NotSent.from = "nobody"
  BY DEF NotSent, SendStates

LEMMA OverState ==
  ASSUME ContactsTypeOK, NEW s \in Sends,
         NEW answer \in {"", "account", "manual", "handed_over"}
  PROVE  /\ Over(s, answer) \in SendStates /\ Over(s, answer).at = "over"
         /\ Over(s, answer).from = send[s].from /\ Over(s, answer).answer = answer
         /\ Over(s, answer).standing <=> send[s].standing
         /\ Over(s, answer).delivered <=> send[s].delivered
<1> DEFINE old0 == send[s]
<1>1. /\ old0.from \in People \cup {"nobody"} /\ old0.standing \in BOOLEAN
      /\ old0.delivered \in BOOLEAN
  BY SendFields
<1> HIDE DEF old0
<1>2. [NotSent EXCEPT !.at = "over", !.from = old0.from, !.answer = answer,
                      !.standing = old0.standing, !.delivered = old0.delivered]
      = Over(s, answer)
  BY DEF Over, old0
<1> DEFINE new == [NotSent EXCEPT !.at = "over", !.from = old0.from, !.answer = answer,
                      !.standing = old0.standing, !.delivered = old0.delivered]
<1>3. /\ new \in SendStates /\ new.at = "over" /\ new.from = old0.from /\ new.answer = answer
      /\ new.standing <=> old0.standing
      /\ new.delivered <=> old0.delivered
  BY <1>1, NotSentState DEF SendStates
<1>4. QED
  BY <1>2, <1>3 DEF old0

-----------------------------------------------------------------------------
(* The cap per pair. *)

LEMMA FewerSends ==
  ASSUME NEW A, NEW B \in SUBSET Sends, A \subseteq B
  PROVE  /\ IsFiniteSet(B) /\ Cardinality(A) \in Nat /\ Cardinality(B) \in Nat
         /\ Cardinality(A) <= Cardinality(B)
<1>1. IsFiniteSet(B)
  BY ContactsAssumption, FS_Subset
<1>2. IsFiniteSet(A) /\ Cardinality(A) <= Cardinality(B)
  BY <1>1, FS_Subset
<1>3. QED
  BY <1>1, <1>2, FS_CardinalityType

LEMMA PairSets ==
  ASSUME NEW p \in People
  PROVE  RecentRows(p) \in SUBSET Sends /\ Counted(p) \in SUBSET Sends
  BY DEF RecentRows, AllRows, Counted, Unsolicited, By

\* Sends come to an end, are counted no longer or leave the window; nothing that counts is
\* put in a tray.
LEMMA PairStays ==
  ASSUME NEW p \in People, PairCounted(p),
         \A s \in (By(p) \ astray)' : InFlight(s)' => /\ s \in By(p) \ astray /\ InFlight(s)
                                                      /\ send[s].standing <=> send'[s].standing,
         \A s \in (By(p) \ astray)' : send'[s].delivered /\ send'[s].at = "over" => s \in ledger',
         Counted(p)' \subseteq Counted(p)
  PROVE  PairCounted(p)'
<1>1. PairPerDay \in Nat
  BY ContactsAssumption
<1>2. \A s, t \in (By(p) \ astray)' : InFlight(s)' /\ InFlight(t)' => s = t
  BY DEF PairCounted
<1>3. ASSUME NEW s \in (By(p) \ astray)', InFlight(s)', ~send'[s].standing
      PROVE  Cardinality(Counted(p)' \ {s}) < PairPerDay
  <2>1. Cardinality(Counted(p) \ {s}) < PairPerDay
    BY <1>3 DEF PairCounted
  <2>2. Counted(p) \ {s} \in SUBSET Sends /\ Counted(p)' \ {s} \subseteq Counted(p) \ {s}
    BY PairSets
  <2>3. /\ Cardinality(Counted(p)' \ {s}) \in Nat /\ Cardinality(Counted(p) \ {s}) \in Nat
        /\ Cardinality(Counted(p)' \ {s}) <= Cardinality(Counted(p) \ {s})
    BY <2>2, FewerSends
  <2>4. QED
    BY <1>1, <2>1, <2>3
<1>4. Cardinality(Counted(p)') <= PairPerDay
  <2>1. /\ Cardinality(Counted(p)') \in Nat /\ Cardinality(Counted(p)) \in Nat
        /\ Cardinality(Counted(p)') <= Cardinality(Counted(p))
    BY PairSets, FewerSends
  <2>2. Cardinality(Counted(p)) <= PairPerDay
    BY DEF PairCounted
  <2>3. QED
    BY <1>1, <2>1, <2>2
<1>5. QED
  BY <1>2, <1>3, <1>4 DEF PairCounted

-----------------------------------------------------------------------------
(* Steps. *)

\* One send goes on, of the same sender, without being delivered or recorded; what is in
\* flight stays so or ends.
LEMMA SendGoesOn ==
  ASSUME ContactInv, NEW s \in Sends, NEW new \in SendStates,
         send' = [send EXCEPT ![s] = new], send[s].at # "none", new.at # "none",
         new.at # "delivered", new.from = send[s].from, new.delivered <=> send[s].delivered,
         new.delivered => new.at \in {"delivered", "over"},
         new.standing => new.from \in inTouch,
         new.answer \in {"account", "manual"} => new.from \in inTouch,
         s \notin ledger,
         new.at \in {"checked", "delivered"} =>
           InFlight(s) /\ (new.standing <=> send[s].standing),
         new.delivered => (new.standing <=> send[s].standing),
         new.at = "over" /\ new.delivered => s \in astray',
         astray \subseteq astray', astray' \subseteq Sends,
         UNCHANGED <<sharing, blocks, bookmarks, ledger, old, inTouch, refusing>>
  PROVE  /\ send' \in [Sends -> SendStates] /\ SendsHonest' /\ BlockedStop' /\ PairsCounted'
         /\ bookmarks' \cup ledger' \subseteq {t \in Sends : send'[t].delivered}
<1>1. ContactsTypeOK /\ SendsHonest /\ BlockedStop /\ PairsCounted
  BY DEF ContactInv
<1>2. \A t \in Sends : send'[t] = IF t = s THEN new ELSE send[t]
  BY <1>1 DEF ContactsTypeOK
<1>3. send' \in [Sends -> SendStates]
  BY <1>1 DEF ContactsTypeOK
<1>4. bookmarks' \cup ledger' \subseteq {t \in Sends : send'[t].delivered}
  BY <1>1, <1>2 DEF ContactsTypeOK
<1>5. SendHonest(s)'
  BY <1>1, <1>2 DEF SendHonest, SendsHonest
<1>6. SendsHonest'
  BY <1>1, <1>2, <1>5 DEF SendHonest, SendsHonest
<1>7. BlockedStop'
  <2>1. refusing \subseteq Sends
    BY <1>1 DEF ContactsTypeOK
  <2>2. QED
    BY <1>1, <1>2, <2>1 DEF BlockedStop, InFlight
<1>8. PairsCounted'
  <2> SUFFICES ASSUME PairPerDay > 0, NEW p \in People
               PROVE  PairCounted(p)'
    BY DEF PairsCounted
  <2>1. PairCounted(p)
    BY <1>1 DEF PairsCounted
  <2>2. By(p)' = By(p)
    BY <1>2 DEF By
  <2>3. \A t \in (By(p) \ astray)' : InFlight(t)' => /\ t \in By(p) \ astray /\ InFlight(t)
                                                     /\ send[t].standing <=> send'[t].standing
    BY <1>2, <2>2 DEF InFlight, By
  <2>4. \A t \in (By(p) \ astray)' : send'[t].delivered /\ send'[t].at = "over" => t \in ledger'
    BY <1>2, <2>1, <2>2 DEF PairCounted, By
  <2>5. Counted(p)' \subseteq Counted(p)
    BY <1>2, <2>2 DEF Counted, Unsolicited, By
  <2>6. QED
    BY <2>1, <2>3, <2>4, <2>5, PairStays
<1>9. QED
  BY <1>3, <1>4, <1>6, <1>7, <1>8

LEMMA MintGrantStep ==
  ASSUME ContactInv, NEW p \in People, NEW s \in Sends, MintGrant(p, s)
  PROVE  ContactInv'
<1> DEFINE new == [NotSent EXCEPT !.at = "minted", !.from = p, !.email = contacts[p].email,
                                  !.user = contacts[p].user]
<1>1. ContactsTypeOK /\ SendsHonest /\ TouchKnown /\ BlockedStop /\ PairsCounted
  BY DEF ContactInv
<1>2. /\ send[s].at = "none" /\ send' = [send EXCEPT ![s] = new]
      /\ refusing' = refusing \cup {t \in {s} : Other(p) \in blocks}
      /\ UNCHANGED <<contacts, sharing, blocks, bookmarks, ledger, old, edits, losses,
                     inTouch, astray, settled>>
  BY DEF MintGrant
<1>3. /\ new \in SendStates /\ new.at = "minted" /\ new.from = p /\ ~new.standing
      /\ ~new.delivered /\ new.answer = ""
  <2>1. contacts[p].email \in {"here", "away"} /\ contacts[p].user \in BOOLEAN
    BY <1>1 DEF ContactsTypeOK
  <2>2. QED
    BY <2>1 DEF NotSent, SendStates
<1> HIDE DEF new
<1>4. send[s] = NotSent /\ s \notin ledger /\ s \notin bookmarks /\ s \notin refusing
  BY <1>1, <1>2, NotSentState DEF SendsHonest, SendHonest, BlockedStop, ContactsTypeOK
<1>5. \A t \in Sends : send'[t] = IF t = s THEN new ELSE send[t]
  BY <1>1, <1>2 DEF ContactsTypeOK
<1>6. ContactsTypeOK'
  BY <1>1, <1>2, <1>3, <1>4, <1>5 DEF ContactsTypeOK
<1>7. SendsHonest' /\ TouchKnown'
  <2>1. send'[s] = new /\ s \notin ledger'
    BY <1>2, <1>4, <1>5
  <2>2. SendHonest(s)'
    BY <1>3, <2>1 DEF SendHonest
  <2>3. \A t \in Sends : t # s => SendHonest(t)'
    BY <1>1, <1>2, <1>5 DEF SendsHonest, SendHonest
  <2>4. TouchKnown'
    BY <1>1, <1>2 DEF TouchKnown
  <2>5. QED
    BY <2>2, <2>3, <2>4 DEF SendsHonest
<1>8. BlockedStop'
  <2>1. refusing \subseteq Sends
    BY <1>1 DEF ContactsTypeOK
  <2>2. ASSUME NEW t \in refusing'
        PROVE  send'[t].at # "none" /\ Other(send'[t].from) \in blocks' /\ ~InFlight(t)'
    <3>1. CASE t = s
      <4>1. send'[t] = new /\ Other(p) \in blocks
        BY <1>2, <1>4, <1>5, <2>2, <3>1
      <4>2. send'[t].at = "minted" /\ send'[t].from = p
        BY <1>3, <4>1
      <4>3. ~InFlight(t)' /\ send'[t].at # "none"
        BY <4>2 DEF InFlight
      <4>4. QED
        BY <1>2, <4>1, <4>2, <4>3
    <3>2. CASE t # s
      <4>1. t \in refusing /\ send'[t] = send[t]
        BY <1>2, <1>5, <2>1, <2>2, <3>2
      <4>2. send[t].at # "none" /\ Other(send[t].from) \in blocks /\ ~InFlight(t)
        BY <1>1, <4>1 DEF BlockedStop
      <4>3. InFlight(t)' <=> InFlight(t)
        BY <4>1 DEF InFlight
      <4>4. QED
        BY <1>2, <4>1, <4>2, <4>3
    <3>3. QED
      BY <3>1, <3>2
  <2>3. QED
    BY <2>2 DEF BlockedStop
<1>9. PairsCounted'
  <2> SUFFICES ASSUME PairPerDay > 0, NEW q \in People
               PROVE  PairCounted(q)'
    BY DEF PairsCounted
  <2>1. PairCounted(q)
    BY <1>1, <1>2 DEF PairsCounted
  <2>2. \A t \in By(q)' : t = s \/ t \in By(q)
    BY <1>5 DEF By
  <2>3. \A t \in (By(q) \ astray)' : InFlight(t)' => /\ t \in By(q) \ astray /\ InFlight(t)
                                                     /\ send[t].standing <=> send'[t].standing
    BY <1>2, <1>3, <1>5, <2>2 DEF InFlight, By
  <2>4. \A t \in (By(q) \ astray)' : send'[t].delivered /\ send'[t].at = "over" => t \in ledger'
    BY <1>2, <1>3, <1>5, <2>1, <2>2 DEF PairCounted, By
  <2>5. Counted(q)' \subseteq Counted(q)
    <3>1. ASSUME NEW t \in Unsolicited(q)'
          PROVE  t \in Unsolicited(q)
      <4>1. t \in By(q)' /\ t \in Sends /\ send'[t].delivered /\ ~send'[t].standing
        BY <3>1 DEF Unsolicited, By
      <4>2. t # s /\ send'[t] = send[t] /\ t \in By(q)
        BY <1>3, <1>5, <2>2, <4>1
      <4>3. QED
        BY <4>1, <4>2 DEF Unsolicited
    <3>2. QED
      BY <1>2, <3>1 DEF Counted
  <2>6. QED
    BY <2>1, <2>3, <2>4, <2>5, PairStays
<1>10. QED
  BY <1>6, <1>7, <1>8, <1>9 DEF ContactInv

\* Whoever is in touch was ever connected.
LEMMA ConnectedKnown ==
  ASSUME SendsHonest, TouchKnown, ContactsTypeOK, NEW p \in People, Connected(p)
  PROVE  p \in inTouch
<1>1. CASE p \in sharing
  BY <1>1 DEF TouchKnown
<1>2. CASE AllRows(Other(p)) # {}
  <2>1. PICK s \in Sends : s \in ledger /\ send[s].from = Other(p)
    BY <1>2 DEF AllRows, By
  <2>2. QED
    BY <2>1, OtherOne DEF SendsHonest, SendHonest
<1>3. QED
  BY <1>1, <1>2 DEF Connected

LEMMA ResolveContactStep ==
  ASSUME ContactInv, NEW s \in Sends, ResolveContact(s)
  PROVE  ContactInv'
<1> DEFINE here == send[s].email = "here"
<1> DEFINE stands == here /\ Standing(send[s].from)
<1> DEFINE new == [send[s] EXCEPT !.at = "resolved", !.recipient = here, !.standing = stands]
<1>1. ContactsTypeOK /\ SendsHonest /\ TouchKnown /\ BlockedStop /\ PairsCounted
  BY DEF ContactInv
<1>2. /\ send[s].at = "minted"
      /\ send' = [send EXCEPT ![s].at = "resolved", ![s].recipient = here,
                              ![s].standing = here /\ Standing(send[s].from)]
      /\ UNCHANGED <<contacts, sharing, blocks, bookmarks, ledger, old, edits, losses,
                     inTouch, refusing, astray, settled>>
  BY DEF ResolveContact, contactHistories
<1>3. send[s] \in SendStates /\ send[s].from \in People
  BY <1>1, <1>2, SendFields DEF SendsHonest, SendHonest
<1>4. stands \in BOOLEAN /\ (stands => send[s].from \in inTouch)
  BY <1>1, <1>3, ConnectedKnown DEF Standing, Connected
<1> HIDE DEF stands
<1>5. /\ new \in SendStates /\ new.at = "resolved" /\ new.from = send[s].from
      /\ new.delivered <=> send[s].delivered
      /\ new.answer = send[s].answer /\ (new.standing <=> stands)
  BY <1>3, <1>4 DEF SendStates
<1>6. send' = [send EXCEPT ![s] = new]
  BY <1>1, <1>2, <1>3 DEF ContactsTypeOK, SendStates, stands
<1> HIDE DEF new
<1>7. ~send[s].delivered /\ s \notin ledger
  BY <1>1, <1>2 DEF SendsHonest, SendHonest
<1>8. send[s].answer \in {"account", "manual"} => send[s].from \in inTouch
  BY <1>1 DEF SendsHonest, SendHonest
<1>9. astray' \subseteq Sends
  BY <1>1, <1>2 DEF ContactsTypeOK
<1>10. /\ send' \in [Sends -> SendStates] /\ SendsHonest' /\ BlockedStop' /\ PairsCounted'
       /\ bookmarks' \cup ledger' \subseteq {t \in Sends : send'[t].delivered}
  BY <1>2, <1>4, <1>5, <1>6, <1>7, <1>8, <1>9, SendGoesOn
<1>11. ContactsTypeOK' /\ TouchKnown'
  BY <1>1, <1>2, <1>10 DEF ContactsTypeOK, TouchKnown
<1>12. QED
  BY <1>10, <1>11 DEF ContactInv

LEMMA MarkContactUsedStep ==
  ASSUME ContactInv, NEW s \in Sends, MarkContactUsed(s)
  PROVE  ContactInv'
<1> DEFINE p == send[s].from
<1> DEFINE cached == send[s].recipient /\ send[s].standing
<1> DEFINE new == [send[s] EXCEPT !.at = "marked"]
<1>1. ContactsTypeOK /\ SendsHonest /\ TouchKnown /\ BlockedStop /\ PairsCounted
  BY DEF ContactInv
<1>2. /\ send[s].at = "resolved"
      /\ send' = [send EXCEPT ![s].at = "marked"]
      /\ contacts' = IF cached = send[s].user THEN contacts ELSE [contacts EXCEPT ![p].user = cached]
      /\ settled' = settled \cup {q \in {p} : contacts[p].email = send[s].email}
      /\ UNCHANGED <<sharing, blocks, bookmarks, ledger, old, edits, losses, inTouch, refusing,
                     astray>>
  BY DEF MarkContactUsed
<1>3. send[s] \in SendStates /\ p \in People /\ cached \in BOOLEAN
      /\ (cached => p \in inTouch)
  BY <1>1, <1>2, SendFields DEF SendsHonest, SendHonest
<1> HIDE DEF cached
<1>4. /\ new \in SendStates /\ new.at = "marked" /\ new.from = send[s].from
      /\ new.delivered <=> send[s].delivered
      /\ new.standing <=> send[s].standing
      /\ new.answer = send[s].answer
  BY <1>3 DEF SendStates
<1>5. send' = [send EXCEPT ![s] = new]
  BY <1>1, <1>2 DEF ContactsTypeOK
<1> HIDE DEF new
<1>6. /\ ~send[s].delivered /\ s \notin ledger
      /\ send[s].standing => send[s].from \in inTouch
      /\ send[s].answer \in {"account", "manual"} => send[s].from \in inTouch
  BY <1>1, <1>2 DEF SendsHonest, SendHonest
<1>7. astray' \subseteq Sends
  BY <1>1, <1>2 DEF ContactsTypeOK
<1>8. /\ send' \in [Sends -> SendStates] /\ SendsHonest' /\ BlockedStop' /\ PairsCounted'
      /\ bookmarks' \cup ledger' \subseteq {t \in Sends : send'[t].delivered}
  BY <1>2, <1>4, <1>5, <1>6, <1>7, SendGoesOn
<1>9. /\ contacts' \in [People -> [email : {"here", "away"}, user : BOOLEAN]]
      /\ \A q \in People : contacts'[q].user => contacts[q].user \/ (q = p /\ cached)
  <2>1. CASE contacts' = contacts
    BY <1>1, <2>1 DEF ContactsTypeOK
  <2>2. CASE contacts' = [contacts EXCEPT ![p].user = cached]
    <3>1. contacts[p] \in [email : {"here", "away"}, user : BOOLEAN]
      BY <1>1, <1>3 DEF ContactsTypeOK
    <3>2. /\ [contacts[p] EXCEPT !.user = cached] \in [email : {"here", "away"}, user : BOOLEAN]
          /\ [contacts[p] EXCEPT !.user = cached].user <=> cached
      BY <1>3, <3>1
    <3>3. contacts' = [contacts EXCEPT ![p] = [contacts[p] EXCEPT !.user = cached]]
      BY <1>1, <1>3, <2>2 DEF ContactsTypeOK
    <3>4. QED
      BY <1>1, <1>3, <3>2, <3>3 DEF ContactsTypeOK
  <2>3. QED
    BY <1>2, <2>1, <2>2
<1>10. TouchKnown'
  BY <1>1, <1>2, <1>3, <1>9 DEF TouchKnown
<1>11. settled' \subseteq People
  BY <1>1, <1>2, <1>3 DEF ContactsTypeOK
<1>12. ContactsTypeOK'
  BY <1>1, <1>2, <1>8, <1>9, <1>11 DEF ContactsTypeOK
<1>13. QED
  BY <1>8, <1>10, <1>12 DEF ContactInv

\* A send that is over said of its recipient only what its sender knew.
LEMMA AnswersKnown ==
  ASSUME ContactInv, NEW s \in Sends, NEW delivered \in BOOLEAN, send[s].at # "none"
  PROVE  /\ Answered(s, delivered) \in {"", "account", "manual", "handed_over"}
         /\ Answered(s, delivered) \in {"account", "manual"} => send[s].from \in inTouch
         /\ send[s].from \in People
  BY DEF Answered, ContactInv, SendsHonest, SendHonest

\* One send is over: as SendGoesOn, and it is astray if it was delivered and not recorded.
LEMMA SendEnds ==
  ASSUME ContactInv, NEW s \in Sends,
         NEW answer \in {"", "account", "manual", "handed_over"},
         send' = [send EXCEPT ![s] = Over(s, answer)], send[s].at # "none",
         send[s].at # "over",
         answer \in {"account", "manual"} => send[s].from \in inTouch,
         send[s].delivered => s \in astray',
         astray \subseteq astray', astray' \subseteq Sends,
         UNCHANGED <<contacts, sharing, blocks, bookmarks, ledger, old, edits, inTouch, refusing,
                     settled>>,
         losses' \in 0..MaxLosses
  PROVE  ContactInv'
<1> DEFINE new == Over(s, answer)
<1>1. /\ new \in SendStates /\ new.at = "over" /\ new.from = send[s].from
      /\ new.answer = answer /\ (new.standing <=> send[s].standing)
      /\ (new.delivered <=> send[s].delivered)
  BY OverState DEF ContactInv
<1> HIDE DEF new
<1>2. send' = [send EXCEPT ![s] = new]
  BY DEF new
<1>3. s \notin ledger /\ (send[s].standing => send[s].from \in inTouch)
  BY DEF ContactInv, SendsHonest, SendHonest
<1>4. /\ send' \in [Sends -> SendStates] /\ SendsHonest' /\ BlockedStop' /\ PairsCounted'
      /\ bookmarks' \cup ledger' \subseteq {t \in Sends : send'[t].delivered}
  BY <1>1, <1>2, <1>3, SendGoesOn
<1>5. ContactsTypeOK'
  BY <1>4 DEF ContactInv, ContactsTypeOK
<1>6. TouchKnown'
  BY DEF ContactInv, TouchKnown
<1>7. QED
  BY <1>4, <1>5, <1>6 DEF ContactInv

LEMMA LosesOne ==
  ASSUME ContactInv, losses < MaxLosses, losses' = losses + 1
  PROVE  losses' \in 0..MaxLosses
  BY ContactsAssumption DEF ContactInv, ContactsTypeOK

LEMMA EndSendStep ==
  ASSUME ContactInv, NEW s \in Sends, EmailContactGrant(s) \/ LoseWrite(s)
  PROVE  ContactInv'
<1>1. CASE EmailContactGrant(s)
  <2>1. /\ send[s].at = "marked" /\ send' = [send EXCEPT ![s] = Over(s, Answered(s, FALSE))]
        /\ UNCHANGED <<contacts, sharing, blocks, bookmarks, ledger, old, edits, losses,
                       inTouch, refusing, astray, settled>>
    BY <1>1 DEF EmailContactGrant, contactHistories
  <2>2. ~send[s].delivered /\ astray' \subseteq Sends /\ losses' \in 0..MaxLosses
    BY <2>1 DEF ContactInv, SendsHonest, SendHonest, ContactsTypeOK
  <2>3. /\ Answered(s, FALSE) \in {"", "account", "manual", "handed_over"}
        /\ Answered(s, FALSE) \in {"account", "manual"} => send[s].from \in inTouch
    BY <2>1, AnswersKnown
  <2>4. QED
    BY <2>1, <2>2, <2>3, SendEnds
<1>2. CASE LoseWrite(s)
  <2>1. /\ losses < MaxLosses /\ losses' = losses + 1
        /\ send[s].at \in {"checked", "delivered"}
        /\ send' = [send EXCEPT ![s] = Over(s, Answered(s, send[s].delivered))]
        /\ astray' = astray \cup {t \in {s} : send[s].delivered}
        /\ UNCHANGED <<contacts, sharing, blocks, bookmarks, ledger, old, edits, inTouch,
                       refusing, settled>>
    BY <1>2 DEF LoseWrite
  <2>2. send[s].delivered \in BOOLEAN
    BY SendFields DEF ContactInv
  <2>3. /\ Answered(s, send[s].delivered) \in {"", "account", "manual", "handed_over"}
        /\ Answered(s, send[s].delivered) \in {"account", "manual"} => send[s].from \in inTouch
        /\ send[s].from \in People
    BY <2>1, <2>2, AnswersKnown
  <2>4. astray' \subseteq Sends /\ losses' \in 0..MaxLosses
    BY <2>1, <2>3, LosesOne DEF ContactInv, ContactsTypeOK
  <2>5. QED
    BY <2>1, <2>3, <2>4, SendEnds
<1>3. QED
  BY <1>1, <1>2

\* What the check lets through: no block, and for a stranger room under the cap.
LEMMA CheckPassed ==
  ASSUME NEW s \in Sends, Refusal(s) = "", PairPerDay > 0
  PROVE  /\ Other(send[s].from) \notin blocks
         /\ ~send[s].standing => ~(Cardinality(RecentRows(send[s].from)) >= PairPerDay)
  BY DEF Refusal

\* What counts of one's sends is in the ledger, while none that counts is under way.
LEMMA CountedRecorded ==
  ASSUME ContactsTypeOK, SendsHonest, NEW p \in People, PairCounted(p),
         \A t \in By(p) \ astray : ~InFlight(t)
  PROVE  Counted(p) \subseteq RecentRows(p)
<1> SUFFICES ASSUME NEW t \in Counted(p)
             PROVE  t \in RecentRows(p)
  OBVIOUS
<1>1. t \in By(p) \ astray /\ t \in Sends /\ send[t].delivered /\ t \notin old
  BY DEF Counted, Unsolicited, By
<1>2. send[t].at \in {"delivered", "over"}
  BY <1>1 DEF SendsHonest, SendHonest
<1>3. t \in ledger
  BY <1>1, <1>2 DEF PairCounted, InFlight
<1>4. QED
  BY <1>1, <1>3 DEF RecentRows, AllRows

LEMMA CheckDeliveryStep ==
  ASSUME ContactInv, NEW s \in Sends, CheckDelivery(s)
  PROVE  ContactInv'
<1> DEFINE p == send[s].from
<1>1. ContactsTypeOK /\ SendsHonest /\ TouchKnown /\ BlockedStop /\ PairsCounted
  BY DEF ContactInv
<1>2. /\ send[s].at = "marked"
      /\ send' = [send EXCEPT ![s] = IF Refusal(s) = "" THEN [@ EXCEPT !.at = "checked"]
                                     ELSE Over(s, "handed_over")]
      /\ astray' = astray \cup {t \in {s} : Refusal(s) = "" /\ \E u \in By(p) \ {s} : InFlight(u)}
      /\ UNCHANGED <<contacts, sharing, blocks, bookmarks, ledger, old, edits, losses,
                     inTouch, refusing, settled>>
  BY DEF CheckDelivery
<1>3. /\ p \in People /\ ~send[s].delivered /\ s \notin ledger
      /\ send[s].standing => p \in inTouch
      /\ send[s].answer \in {"account", "manual"} => p \in inTouch
  BY <1>1, <1>2 DEF SendsHonest, SendHonest
<1>4. astray' \subseteq Sends /\ astray \subseteq astray' /\ losses' \in 0..MaxLosses
  BY <1>1, <1>2, <1>3 DEF ContactsTypeOK
<1>5. CASE Refusal(s) # ""
  <2>1. send' = [send EXCEPT ![s] = Over(s, "handed_over")]
    BY <1>1, <1>2, <1>5 DEF ContactsTypeOK
  <2>2. QED
    BY <1>2, <1>3, <1>4, <2>1, SendEnds
<1>6. CASE Refusal(s) = ""
  <2> DEFINE new == [send[s] EXCEPT !.at = "checked"]
  <2>1. send' = [send EXCEPT ![s] = new]
    BY <1>1, <1>2, <1>6 DEF ContactsTypeOK
  <2>2. /\ new \in SendStates /\ new.at = "checked" /\ new.from = p
        /\ new.delivered <=> send[s].delivered
        /\ new.standing <=> send[s].standing
        /\ new.answer = send[s].answer
    BY <1>1, SendFields DEF SendStates
  <2> HIDE DEF new
  <2>3. \A t \in Sends : send'[t] = IF t = s THEN new ELSE send[t]
    BY <1>1, <2>1 DEF ContactsTypeOK
  <2>0. UNCHANGED <<ledger, inTouch, blocks, refusing>>
    BY <1>2
  <2>4. send' \in [Sends -> SendStates]
        /\ bookmarks' \cup ledger' \subseteq {t \in Sends : send'[t].delivered}
    BY <1>1, <1>2, <2>1, <2>2, <2>3 DEF ContactsTypeOK
  <2>5. ContactsTypeOK' /\ TouchKnown'
    BY <1>1, <1>2, <1>4, <2>4 DEF ContactsTypeOK, TouchKnown
  <2>6. SendsHonest'
    <3>1. SendHonest(s)'
      <4>1. send'[s] = new /\ s \notin ledger'
        BY <1>2, <1>3, <2>3
      <4>2. /\ new.standing => new.from \in inTouch
            /\ new.answer \in {"account", "manual"} => new.from \in inTouch
            /\ ~new.delivered /\ new.from \in People
        BY <1>3, <2>2
      <4>3. QED
        BY <2>0, <2>2, <4>1, <4>2 DEF SendHonest
    <3>2. \A t \in Sends : t # s => SendHonest(t)'
      BY <1>1, <2>0, <2>3 DEF SendsHonest, SendHonest
    <3>3. QED
      BY <3>1, <3>2 DEF SendsHonest
  <2>7. BlockedStop'
    <3>1. s \notin refusing
      BY <1>1, <1>2, <1>6 DEF BlockedStop, Refusal
    <3>2. refusing \subseteq Sends
      BY <1>1 DEF ContactsTypeOK
    <3>3. \A t \in refusing : t \in Sends /\ send'[t] = send[t]
      BY <2>3, <3>1, <3>2
    <3>4. QED
      BY <1>1, <2>0, <3>3 DEF BlockedStop, InFlight
  <2>8. PairsCounted'
    <3> SUFFICES ASSUME PairPerDay > 0, NEW q \in People
                 PROVE  PairCounted(q)'
      BY DEF PairsCounted
    <3>1. PairCounted(q)
      BY <1>1, <1>4 DEF PairsCounted
    <3>2. By(q)' = By(q)
      BY <2>2, <2>3 DEF By
    <3>3. ASSUME NEW t \in By(q), InFlight(t)', t # s
          PROVE  InFlight(t) /\ (send'[t].standing <=> send[t].standing)
      BY <2>3, <3>3 DEF InFlight, By
    <3>4. \A t \in (By(q) \ astray)' : send'[t].delivered /\ send'[t].at = "over" => t \in ledger'
      <4>1. ~send'[s].delivered /\ (\A t \in By(q) : t # s => send'[t] = send[t])
        BY <1>3, <2>2, <2>3 DEF By
      <4>2. \A t \in By(q) \ astray : send[t].delivered /\ send[t].at = "over" => t \in ledger
        BY <3>1 DEF PairCounted
      <4>3. QED
        BY <1>2, <1>4, <3>2, <4>1, <4>2
    <3>5. Counted(q)' \subseteq Counted(q)
      <4>1. \A t \in By(q) : /\ send'[t].delivered <=> send[t].delivered
                             /\ send'[t].standing <=> send[t].standing
        BY <2>2, <2>3 DEF By
      <4>2. Unsolicited(q)' = Unsolicited(q)
        BY <3>2, <4>1 DEF Unsolicited
      <4>3. QED
        BY <1>2, <1>4, <4>2 DEF Counted
    <3>6. CASE s \notin (By(q) \ astray)'
      <4>1. \A t \in (By(q) \ astray)' : InFlight(t)' => /\ t \in By(q) \ astray /\ InFlight(t)
                                                         /\ send[t].standing <=> send'[t].standing
        BY <1>4, <3>2, <3>3, <3>6
      <4>2. QED
        BY <3>1, <3>4, <3>5, <4>1, PairStays
    <3>7. CASE s \in (By(q) \ astray)'
      <4>1. q = p /\ s \notin astray'
        BY <3>2, <3>7 DEF By
      <4>2. \A t \in By(q) \ {s} : ~InFlight(t)
        BY <1>2, <1>6, <4>1
      <4>3. \A t \in By(q)' : InFlight(t)' => t = s
        BY <3>2, <3>3, <4>2
      <4>4. Counted(q) \subseteq RecentRows(q)
        <5>1. ~InFlight(s)
          BY <1>2 DEF InFlight
        <5>2. \A t \in By(q) \ astray : ~InFlight(t)
          BY <4>2, <5>1
        <5>3. QED
          BY <1>1, <3>1, <5>2, CountedRecorded
      <4>5. /\ Cardinality(Counted(q)) <= Cardinality(RecentRows(q))
            /\ Cardinality(RecentRows(q)) \in Nat /\ Cardinality(Counted(q)) \in Nat
            /\ Cardinality(Counted(q)') \in Nat
            /\ Cardinality(Counted(q)') <= Cardinality(Counted(q))
        BY <3>5, <4>4, PairSets, FewerSends
      <4>6. ASSUME NEW t \in (By(q) \ astray)', InFlight(t)', ~send'[t].standing
            PROVE  Cardinality(Counted(q)' \ {t}) < PairPerDay
        <5>1. t = s /\ ~send[s].standing
          BY <2>2, <2>3, <4>3, <4>6
        <5>2. ~(Cardinality(RecentRows(q)) >= PairPerDay)
          BY <1>6, <4>1, <5>1, CheckPassed
        <5>3. Counted(q) \in SUBSET Sends /\ Counted(q)' \ {t} \subseteq Counted(q)
          BY <3>5, PairSets
        <5>4. /\ Cardinality(Counted(q)' \ {t}) \in Nat
              /\ Cardinality(Counted(q)' \ {t}) <= Cardinality(Counted(q))
          BY <5>3, FewerSends
        <5>5. QED
          BY <4>5, <5>2, <5>4, ContactsAssumption
      <4>7. Cardinality(Counted(q)') <= PairPerDay
        BY <3>1, <4>5, ContactsAssumption DEF PairCounted
      <4>8. QED
        BY <3>4, <4>3, <4>6, <4>7 DEF PairCounted
    <3>8. QED
      BY <3>6, <3>7
  <2>9. QED
    BY <2>5, <2>6, <2>7, <2>8 DEF ContactInv
<1>7. QED
  BY <1>5, <1>6

LEMMA DeliverToContactStep ==
  ASSUME ContactInv, NEW s \in Sends, DeliverToContact(s)
  PROVE  ContactInv'
<1> DEFINE p == send[s].from
<1> DEFINE new == [send[s] EXCEPT !.at = "delivered", !.delivered = TRUE]
<1>1. ContactsTypeOK /\ SendsHonest /\ TouchKnown /\ BlockedStop /\ PairsCounted
  BY DEF ContactInv
<1>2. /\ send[s].at = "checked"
      /\ send' = [send EXCEPT ![s].at = "delivered", ![s].delivered = TRUE]
      /\ bookmarks' = bookmarks \cup {s}
      /\ UNCHANGED <<contacts, sharing, blocks, ledger, old, edits, losses,
                     inTouch, refusing, astray, settled>>
  BY DEF DeliverToContact, contactHistories
<1>3. /\ new \in SendStates /\ new.at = "delivered" /\ new.from = p /\ new.delivered
      /\ new.standing <=> send[s].standing
      /\ new.answer = send[s].answer
  BY <1>1, SendFields DEF SendStates
<1>4. send' = [send EXCEPT ![s] = new]
  BY <1>1, <1>2 DEF ContactsTypeOK, SendStates
<1> HIDE DEF new
<1>5. \A t \in Sends : send'[t] = IF t = s THEN new ELSE send[t]
  BY <1>1, <1>4 DEF ContactsTypeOK
<1>6. /\ p \in People /\ ~send[s].delivered /\ s \notin ledger
      /\ send[s].standing => p \in inTouch
      /\ send[s].answer \in {"account", "manual"} => p \in inTouch
  BY <1>1, <1>2 DEF SendsHonest, SendHonest
<1>7. UNCHANGED <<ledger, inTouch, blocks, refusing, old>>
  BY <1>2
<1>8. send' \in [Sends -> SendStates]
      /\ bookmarks' \cup ledger' \subseteq {t \in Sends : send'[t].delivered}
  BY <1>1, <1>2, <1>3, <1>4, <1>5 DEF ContactsTypeOK
<1>9. ContactsTypeOK' /\ TouchKnown'
  BY <1>1, <1>2, <1>8 DEF ContactsTypeOK, TouchKnown
<1>10. SendsHonest'
  <2>1. send'[s] = new
    BY <1>5
  <2>2. /\ new.standing => new.from \in inTouch
        /\ new.answer \in {"account", "manual"} => new.from \in inTouch
        /\ new.from \in People
    BY <1>3, <1>6
  <2>3. SendHonest(s)'
    BY <1>3, <1>6, <1>7, <2>1, <2>2 DEF SendHonest
  <2>4. \A t \in Sends : t # s => SendHonest(t)'
    BY <1>1, <1>5, <1>7 DEF SendsHonest, SendHonest
  <2>5. QED
    BY <2>3, <2>4 DEF SendsHonest
<1>11. BlockedStop'
  <2>1. s \notin refusing
    BY <1>1, <1>2 DEF BlockedStop, InFlight
  <2>2. \A t \in refusing : t \in Sends /\ send'[t] = send[t]
    BY <1>1, <1>5, <2>1 DEF ContactsTypeOK
  <2>3. QED
    BY <1>1, <1>7, <2>2 DEF BlockedStop, InFlight
<1>12. PairsCounted'
  <2> SUFFICES ASSUME PairPerDay > 0, NEW q \in People
               PROVE  PairCounted(q)'
    BY DEF PairsCounted
  <2>1. PairCounted(q)
    BY <1>1, <1>2 DEF PairsCounted
  <2>2. By(q)' = By(q)
    BY <1>3, <1>5 DEF By
  <2>3. \A t \in (By(q) \ astray)' : InFlight(t)' => /\ t \in By(q) \ astray /\ InFlight(t)
                                                     /\ send[t].standing <=> send'[t].standing
    BY <1>2, <1>3, <1>5, <2>2 DEF InFlight, By
  <2>4. \A t \in (By(q) \ astray)' : send'[t].delivered /\ send'[t].at = "over" => t \in ledger'
    <3>1. send'[s].at # "over" /\ (\A t \in By(q) : t # s => send'[t] = send[t])
      BY <1>3, <1>5 DEF By
    <3>2. \A t \in By(q) \ astray : send[t].delivered /\ send[t].at = "over" => t \in ledger
      BY <2>1 DEF PairCounted
    <3>3. QED
      BY <1>2, <2>2, <3>1, <3>2
  <2>5. ASSUME NEW t \in Counted(q)'
        PROVE  t \in Counted(q) \/ (t = s /\ q = p /\ ~send[s].standing /\ s \notin astray)
    <3>1. /\ t \in By(q) /\ t \in Sends /\ send'[t].delivered /\ ~send'[t].standing
          /\ t \notin old /\ t \notin astray
      BY <1>2, <2>2, <2>5 DEF Counted, Unsolicited, By
    <3>2. CASE t = s
      BY <1>3, <1>5, <3>1, <3>2 DEF By
    <3>3. CASE t # s
      BY <1>5, <3>1, <3>3 DEF Counted, Unsolicited
    <3>4. QED
      BY <3>2, <3>3
  <2>6. CASE ~(q = p /\ ~send[s].standing /\ s \notin astray)
    BY <2>1, <2>3, <2>4, <2>5, <2>6, PairStays
  <2>7. CASE q = p /\ ~send[s].standing /\ s \notin astray
    <3> DEFINE C == Counted(q) \ {s}
    <3>1. s \in By(q) \ astray /\ InFlight(s)
      BY <1>2, <2>7 DEF By, InFlight
    <3>2. Cardinality(C) < PairPerDay
      BY <2>1, <2>7, <3>1 DEF PairCounted
    <3>3. C \in SUBSET Sends /\ C \cup {s} \in SUBSET Sends
      BY PairSets
    <3>4. Counted(q)' \subseteq C \cup {s} /\ Counted(q)' \ {s} \subseteq C
      BY <2>5
    <3> HIDE DEF C
    <3>5. /\ IsFiniteSet(C) /\ Cardinality(C) \in Nat
          /\ Cardinality(Counted(q)' \ {s}) \in Nat
          /\ Cardinality(Counted(q)' \ {s}) <= Cardinality(C)
      BY <3>3, <3>4, FewerSends
    <3>6. Cardinality(C \cup {s}) = Cardinality(C) \/ Cardinality(C \cup {s}) = Cardinality(C) + 1
      BY <3>5, FS_AddElement
    <3>7. /\ Cardinality(Counted(q)') \in Nat
          /\ Cardinality(Counted(q)') <= Cardinality(C \cup {s})
      BY <3>3, <3>4, FewerSends
    <3>8. Cardinality(Counted(q)') <= PairPerDay
      BY <3>2, <3>5, <3>6, <3>7, ContactsAssumption
    <3>9. \A t \in (By(q) \ astray)' : InFlight(t)' => t = s
      BY <2>1, <2>3, <3>1 DEF PairCounted
    <3>10. Cardinality(Counted(q)' \ {s}) < PairPerDay
      BY <3>2, <3>5, ContactsAssumption
    <3>11. QED
      BY <2>4, <3>8, <3>9, <3>10 DEF PairCounted
  <2>8. QED
    BY <2>6, <2>7
<1>13. QED
  BY <1>9, <1>10, <1>11, <1>12 DEF ContactInv

LEMMA RecordContactDeliveryStep ==
  ASSUME ContactInv, NEW s \in Sends, RecordContactDelivery(s)
  PROVE  ContactInv'
<1> DEFINE p == send[s].from
<1> DEFINE new == Over(s, Answered(s, TRUE))
<1>1. ContactsTypeOK /\ SendsHonest /\ TouchKnown /\ BlockedStop /\ PairsCounted
  BY DEF ContactInv
<1>2. /\ send[s].at = "delivered" /\ send' = [send EXCEPT ![s] = new]
      /\ ledger' = ledger \cup {s} /\ inTouch' = inTouch \cup {Other(p)}
      /\ UNCHANGED <<contacts, sharing, blocks, bookmarks, old, edits, losses, refusing,
                     astray, settled>>
  BY DEF RecordContactDelivery
<1>3. /\ Answered(s, TRUE) \in {"", "account", "manual", "handed_over"}
      /\ Answered(s, TRUE) \in {"account", "manual"} => p \in inTouch
      /\ p \in People
  BY <1>2, AnswersKnown
<1>4. /\ new \in SendStates /\ new.at = "over" /\ new.from = p /\ new.answer = Answered(s, TRUE)
      /\ new.standing <=> send[s].standing
      /\ new.delivered <=> send[s].delivered
  BY <1>1, <1>3, OverState
<1> HIDE DEF new
<1>5. \A t \in Sends : send'[t] = IF t = s THEN new ELSE send[t]
  BY <1>1, <1>2 DEF ContactsTypeOK
<1>6. s \notin ledger /\ (send[s].standing => p \in inTouch)
  BY <1>1, <1>2 DEF SendsHonest, SendHonest
<1>7. send[s].delivered /\ inTouch \subseteq inTouch' /\ inTouch' \subseteq People
  <2>1. send[s].delivered
    BY <1>1, <1>2 DEF SendsHonest, SendHonest
  <2>2. Other(p) \in People
    BY <1>3, OtherOne
  <2>3. inTouch \subseteq People
    BY <1>1 DEF ContactsTypeOK
  <2>4. QED
    BY <1>2, <2>1, <2>2, <2>3
<1>8. UNCHANGED <<contacts, sharing, blocks, bookmarks, old, refusing, astray>>
  BY <1>2
<1>9. send' \in [Sends -> SendStates]
      /\ bookmarks' \cup ledger' \subseteq {t \in Sends : send'[t].delivered}
  BY <1>1, <1>2, <1>4, <1>5, <1>7 DEF ContactsTypeOK
<1>10. ContactsTypeOK' /\ TouchKnown'
  <2>1. ContactsTypeOK'
    BY <1>1, <1>2, <1>7, <1>9 DEF ContactsTypeOK
  <2>2. QED
    BY <1>1, <1>7, <1>8, <2>1 DEF TouchKnown
<1>11. SendsHonest'
  <2>1. send'[s] = new /\ Other(p) \in inTouch'
    BY <1>2, <1>5
  <2>2. /\ new.standing => new.from \in inTouch'
        /\ new.answer \in {"account", "manual"} => new.from \in inTouch'
        /\ new.from \in People /\ new.delivered
    BY <1>3, <1>4, <1>6, <1>7
  <2>3. SendHonest(s)'
    BY <1>4, <2>1, <2>2 DEF SendHonest
  <2>4. \A t \in Sends : t # s => SendHonest(t)'
    BY <1>1, <1>2, <1>5, <1>7 DEF SendsHonest, SendHonest
  <2>5. QED
    BY <2>3, <2>4 DEF SendsHonest
<1>12. BlockedStop'
  <2>1. s \notin refusing
    BY <1>1, <1>2 DEF BlockedStop, InFlight
  <2>2. \A t \in refusing : t \in Sends /\ send'[t] = send[t]
    BY <1>1, <1>5, <2>1 DEF ContactsTypeOK
  <2>3. QED
    BY <1>1, <1>8, <2>2 DEF BlockedStop, InFlight
<1>13. PairsCounted'
  <2> SUFFICES ASSUME PairPerDay > 0, NEW q \in People
               PROVE  PairCounted(q)'
    BY DEF PairsCounted
  <2>1. PairCounted(q)
    BY <1>1, <1>2 DEF PairsCounted
  <2>2. By(q)' = By(q)
    BY <1>4, <1>5 DEF By
  <2>3. \A t \in (By(q) \ astray)' : InFlight(t)' => /\ t \in By(q) \ astray /\ InFlight(t)
                                                     /\ send[t].standing <=> send'[t].standing
    BY <1>4, <1>5, <1>8, <2>2 DEF InFlight, By
  <2>4. \A t \in (By(q) \ astray)' : send'[t].delivered /\ send'[t].at = "over" => t \in ledger'
    <3>1. \A t \in By(q) : t # s => send'[t] = send[t]
      BY <1>5 DEF By
    <3>2. \A t \in By(q) \ astray : send[t].delivered /\ send[t].at = "over" => t \in ledger
      BY <2>1 DEF PairCounted
    <3>3. QED
      BY <1>2, <1>8, <2>2, <3>1, <3>2
  <2>5. Counted(q)' \subseteq Counted(q)
    <3>1. \A t \in By(q) : /\ send'[t].delivered <=> send[t].delivered
                           /\ send'[t].standing <=> send[t].standing
      BY <1>4, <1>5 DEF By
    <3>2. QED
      BY <1>8, <2>2, <3>1 DEF Counted, Unsolicited
  <2>6. QED
    BY <2>1, <2>3, <2>4, <2>5, PairStays
<1>14. QED
  BY <1>10, <1>11, <1>12, <1>13 DEF ContactInv

\* The recipient's clearing of the tray, and rows that leave the window.
LEMMA TrayStep ==
  ASSUME ContactInv, NEW s \in Sends, RemoveBookmark(s) \/ LeaveWindow(s)
  PROVE  ContactInv'
<1>1. ContactsTypeOK /\ SendsHonest /\ TouchKnown /\ BlockedStop /\ PairsCounted
  BY DEF ContactInv
<1>2. /\ bookmarks' \subseteq bookmarks /\ old \subseteq old' /\ old' \subseteq Sends
      /\ UNCHANGED <<contacts, sharing, blocks, send, ledger, edits, losses,
                     inTouch, refusing, astray, settled>>
  BY <1>1 DEF RemoveBookmark, LeaveWindow, contactHistories, ContactsTypeOK
<1>3. ContactsTypeOK'
  BY <1>1, <1>2 DEF ContactsTypeOK
<1>4. SendsHonest' /\ TouchKnown' /\ BlockedStop'
  BY <1>1, <1>2 DEF SendsHonest, SendHonest, TouchKnown, BlockedStop, InFlight
<1>5. PairsCounted'
  <2> SUFFICES ASSUME PairPerDay > 0, NEW q \in People
               PROVE  PairCounted(q)'
    BY DEF PairsCounted
  <2>1. PairCounted(q)
    BY <1>1, <1>2 DEF PairsCounted
  <2>2. By(q)' = By(q)
    BY <1>2 DEF By
  <2>3. \A t \in (By(q) \ astray)' : InFlight(t)' => /\ t \in By(q) \ astray /\ InFlight(t)
                                                     /\ send[t].standing <=> send'[t].standing
    BY <1>2, <2>2 DEF InFlight
  <2>4. \A t \in (By(q) \ astray)' : send'[t].delivered /\ send'[t].at = "over" => t \in ledger'
    BY <1>2, <2>1, <2>2 DEF PairCounted
  <2>5. Counted(q)' \subseteq Counted(q)
    BY <1>2, <2>2 DEF Counted, Unsolicited
  <2>6. QED
    BY <2>1, <2>3, <2>4, <2>5, PairStays
<1>6. QED
  BY <1>3, <1>4, <1>5 DEF ContactInv

LEMMA CrashSendsStep ==
  ASSUME ContactInv, CrashSends
  PROVE  ContactInv'
<1> DEFINE new(t) == IF send[t].at \in {"none", "over"} THEN send[t] ELSE Over(t, "")
<1>1. ContactsTypeOK /\ SendsHonest /\ TouchKnown /\ BlockedStop /\ PairsCounted
  BY DEF ContactInv
<1>2. /\ losses < MaxLosses /\ losses' = losses + 1 /\ send' = [t \in Sends |-> new(t)]
      /\ astray' = astray \cup {t \in Sends : send[t].at = "delivered"}
      /\ UNCHANGED <<contacts, sharing, blocks, bookmarks, ledger, old, edits, inTouch,
                     refusing, settled>>
  BY DEF CrashSends
<1>3. losses' \in 0..MaxLosses
  BY <1>2, LosesOne
<1>4. UNCHANGED <<contacts, sharing, blocks, bookmarks, ledger, old, inTouch, refusing>>
  BY <1>2
<1>5. ASSUME NEW t \in Sends
      PROVE  /\ send'[t] \in SendStates /\ send'[t].from = send[t].from
             /\ send'[t].standing <=> send[t].standing
             /\ send'[t].delivered <=> send[t].delivered
             /\ send'[t].at \in {"none", "over"}
             /\ send'[t].at = "none" <=> send[t].at = "none"
             /\ send'[t] = send[t] \/ (send'[t].answer = "" /\ send[t].at # "over")
             /\ send'[t].at = "none" => send'[t] = send[t]
  <2>1. send'[t] = new(t)
    BY <1>2
  <2>2. CASE send[t].at \in {"none", "over"}
    BY <1>1, <2>1, <2>2, SendFields
  <2>3. CASE send[t].at \notin {"none", "over"}
    BY <1>1, <2>1, <2>3, OverState
  <2>4. QED
    BY <2>2, <2>3
<1>6. send' \in [Sends -> SendStates]
  <2>1. \A t \in Sends : new(t) \in SendStates
    BY <1>2, <1>5
  <2>2. QED
    BY <1>2, <2>1
<1> HIDE DEF new
<1>7. ContactsTypeOK' /\ TouchKnown'
  <2>1. bookmarks' \cup ledger' \subseteq {t \in Sends : send'[t].delivered}
    BY <1>1, <1>4, <1>5 DEF ContactsTypeOK
  <2>2. astray' \subseteq Sends
    BY <1>1, <1>2 DEF ContactsTypeOK
  <2>3. ContactsTypeOK'
    BY <1>1, <1>2, <1>3, <1>6, <2>1, <2>2 DEF ContactsTypeOK
  <2>4. QED
    BY <1>1, <1>4, <2>3 DEF TouchKnown
<1>8. SendsHonest'
  <2> SUFFICES ASSUME NEW t \in Sends
               PROVE  SendHonest(t)'
    BY DEF SendsHonest
  <2>1. SendHonest(t)
    BY <1>1 DEF SendsHonest
  <2>2. CASE send'[t] = send[t]
    BY <1>4, <2>1, <2>2 DEF SendHonest
  <2>3. CASE send'[t].answer = "" /\ send[t].at # "over"
    <3>1. t \notin ledger' /\ (send'[t].at = "none" => send'[t] = send[t])
      BY <1>4, <1>5, <2>1, <2>3 DEF SendHonest
    <3>2. CASE send'[t].at = "none"
      BY <1>4, <2>1, <3>1, <3>2 DEF SendHonest
    <3>3. CASE send'[t].at = "over"
      <4>1. /\ send'[t].from \in People
            /\ send'[t].standing => send'[t].from \in inTouch'
        BY <1>4, <1>5, <2>1, <3>3 DEF SendHonest
      <4>2. QED
        BY <2>3, <3>1, <3>3, <4>1 DEF SendHonest
    <3>4. QED
      BY <1>5, <3>2, <3>3
  <2>4. QED
    BY <1>5, <2>2, <2>3
<1>9. BlockedStop'
  <2>1. refusing \subseteq Sends
    BY <1>1 DEF ContactsTypeOK
  <2>2. ASSUME NEW t \in refusing
        PROVE  send'[t].at # "none" /\ Other(send'[t].from) \in blocks' /\ ~InFlight(t)'
    BY <1>1, <1>4, <1>5, <2>1 DEF BlockedStop, InFlight
  <2>3. QED
    BY <1>4, <2>2 DEF BlockedStop
<1>10. PairsCounted'
  <2> SUFFICES ASSUME PairPerDay > 0, NEW q \in People
               PROVE  PairCounted(q)'
    BY DEF PairsCounted
  <2>1. PairCounted(q)
    BY <1>1 DEF PairsCounted
  <2>2. By(q)' = By(q)
    BY <1>5 DEF By
  <2>3. \A t \in By(q)' : ~InFlight(t)'
    <3>1. \A t \in By(q)' : send'[t].at \in {"none", "over"}
      BY <1>5, <2>2 DEF By
    <3>2. QED
      BY <3>1 DEF InFlight
  <2>4. ASSUME NEW t \in (By(q) \ astray)', send'[t].delivered, send'[t].at = "over"
        PROVE  t \in ledger'
    <3>1. t \in By(q) /\ t \in Sends /\ send[t].delivered
      BY <1>5, <2>2, <2>4 DEF By
    <3>2. t \notin astray /\ send[t].at # "delivered"
      BY <1>2, <2>4, <3>1
    <3>3. send[t].at = "over"
      BY <1>1, <3>1, <3>2 DEF SendsHonest, SendHonest
    <3>4. QED
      BY <1>4, <2>1, <3>1, <3>2, <3>3 DEF PairCounted
  <2>5. Counted(q)' \subseteq Counted(q)
    <3>1. \A t \in By(q) : /\ send'[t].delivered <=> send[t].delivered
                           /\ send'[t].standing <=> send[t].standing
      BY <1>5 DEF By
    <3>2. QED
      BY <1>2, <1>4, <2>2, <3>1 DEF Counted, Unsolicited
  <2>6. QED
    BY <2>1, <2>3, <2>4, <2>5, PairStays
<1>11. QED
  BY <1>7, <1>8, <1>9, <1>10 DEF ContactInv

\* An edit: of the contact, the block or the workspace.  A lifted block is that of the
\* one person the sends were refused by.
LEMMA EditSomethingStep ==
  ASSUME ContactInv, EditSomething
  PROVE  ContactInv'
<1>1. ContactsTypeOK /\ SendsHonest /\ TouchKnown /\ BlockedStop /\ PairsCounted
  BY DEF ContactInv
<1>2. /\ edits < MaxEdits /\ edits' = edits + 1
      /\ UNCHANGED <<send, bookmarks, ledger, old, losses, astray>>
  BY DEF EditSomething
<1>3. PICK p \in People :
        (\E email \in {"here", "away"} : EditContact(p, email))
          \/ Block(p) \/ LiftBlock(p) \/ Share(p)
  BY DEF EditSomething
<1>4. edits' \in 0..MaxEdits
  BY <1>1, <1>2, ContactsAssumption DEF ContactsTypeOK
<1>5. PairsCounted'
  BY <1>1, <1>2 DEF PairsCounted, PairCounted, InFlight, By, Counted, Unsolicited
<1>6. /\ contacts' \in [People -> [email : {"here", "away"}, user : BOOLEAN]]
      /\ \A q \in People : contacts'[q].user <=> contacts[q].user
  <2>1. CASE contacts' = contacts
    BY <1>1, <2>1 DEF ContactsTypeOK
  <2>2. CASE \E email \in {"here", "away"} : EditContact(p, email)
    BY <1>1, <2>2 DEF EditContact, ContactsTypeOK
  <2>3. QED
    BY <1>3, <2>1, <2>2 DEF Block, LiftBlock, Share
<1>7. /\ inTouch \subseteq inTouch' /\ sharing' \subseteq sharing \cup inTouch'
      /\ inTouch' \subseteq inTouch \cup People /\ sharing' \subseteq sharing \cup People
      /\ refusing' \subseteq refusing /\ settled' \subseteq settled
      /\ blocks' \subseteq blocks \cup People
  BY <1>3 DEF EditContact, Block, LiftBlock, Share
<1>8. ContactsTypeOK'
  <2>1. /\ sharing' \subseteq People /\ blocks' \subseteq People /\ settled' \subseteq People
        /\ inTouch' \subseteq People /\ astray' \subseteq Sends /\ refusing' \subseteq Sends
    BY <1>1, <1>2, <1>7 DEF ContactsTypeOK
  <2>2. QED
    BY <1>1, <1>2, <1>4, <1>6, <2>1 DEF ContactsTypeOK
<1>9. SendsHonest' /\ TouchKnown'
  <2>1. SendsHonest'
    BY <1>1, <1>2, <1>7 DEF SendsHonest, SendHonest
  <2>2. TouchKnown'
    BY <1>1, <1>6, <1>7 DEF TouchKnown
  <2>3. QED
    BY <2>1, <2>2
<1>10. BlockedStop'
  <2> SUFFICES ASSUME NEW t \in refusing'
               PROVE  send[t].at # "none" /\ Other(send[t].from) \in blocks' /\ ~InFlight(t)
    BY <1>2 DEF BlockedStop, InFlight
  <2>1. t \in refusing /\ t \in Sends
    BY <1>1, <1>7 DEF ContactsTypeOK
  <2>2. send[t].at # "none" /\ Other(send[t].from) \in blocks /\ ~InFlight(t)
    BY <1>1, <2>1 DEF BlockedStop
  <2>3. CASE blocks \subseteq blocks'
    BY <2>2, <2>3
  <2>4. CASE LiftBlock(p)
    <3>1. blocks' = blocks \ {p} /\ refusing' = refusing \ By(Other(p))
      BY <2>4 DEF LiftBlock
    <3>2. send[t].from \in People /\ send[t].from # Other(p)
      BY <1>1, <2>1, <2>2, <3>1 DEF By, SendsHonest, SendHonest
    <3>3. Other(send[t].from) # p
      BY <3>2, OtherOne
    <3>4. QED
      BY <2>2, <3>1, <3>3
  <2>5. QED
    BY <1>3, <2>3, <2>4 DEF EditContact, Block, Share
<1>11. QED
  BY <1>5, <1>8, <1>9, <1>10 DEF ContactInv

LEMMA ContactInit == ContactsInit => ContactInv
<1> SUFFICES ASSUME ContactsInit PROVE ContactInv
  OBVIOUS
<1>1. /\ contacts = [p \in People |-> [email |-> "here", user |-> FALSE]]
      /\ sharing = {} /\ blocks = {} /\ send = [s \in Sends |-> NotSent]
      /\ bookmarks = {} /\ ledger = {} /\ old = {} /\ edits = 0 /\ losses = 0
      /\ inTouch = {} /\ refusing = {} /\ astray = {} /\ settled = {}
  BY DEF ContactsInit
<1>2. ContactsTypeOK
  <2>1. 0 \in 0..MaxEdits /\ 0 \in 0..MaxLosses
    BY ContactsAssumption
  <2>2. contacts \in [People -> [email : {"here", "away"}, user : BOOLEAN]]
    BY <1>1
  <2>3. send \in [Sends -> SendStates]
    BY <1>1, NotSentState
  <2>4. QED
    BY <1>1, <2>1, <2>2, <2>3 DEF ContactsTypeOK
<1>3. SendsHonest /\ TouchKnown /\ BlockedStop
  BY <1>1, NotSentState DEF SendsHonest, SendHonest, TouchKnown, BlockedStop
<1>4. ASSUME NEW p \in People, PairPerDay > 0 PROVE PairCounted(p)
  <2>1. \A s \in By(p) : ~InFlight(s) /\ ~send[s].delivered
    BY <1>1, NotSentState DEF InFlight, By
  <2>2. Counted(p) = {}
    BY <2>1 DEF Counted, Unsolicited
  <2>3. Cardinality(Counted(p)) = 0
    BY <2>2, FS_EmptySet
  <2>4. QED
    BY <1>4, <2>1, <2>3, ContactsAssumption DEF PairCounted
<1>5. QED
  BY <1>2, <1>3, <1>4 DEF ContactInv, PairsCounted

LEMMA ContactStep == ContactInv /\ [ContactsNext]_contactVars => ContactInv'
<1> SUFFICES ASSUME ContactInv, [ContactsNext]_contactVars
             PROVE  ContactInv'
  OBVIOUS
<1>1. CASE UNCHANGED contactVars
  <2>1. UNCHANGED <<contacts, sharing, blocks, send, bookmarks, ledger, old, edits, losses,
                    inTouch, refusing, astray, settled>>
    BY <1>1 DEF contactVars
  <2>2. ContactsTypeOK' /\ SendsHonest' /\ TouchKnown' /\ BlockedStop'
    BY <2>1 DEF ContactInv, ContactsTypeOK, SendsHonest, SendHonest, TouchKnown, BlockedStop,
                InFlight
  <2>3. PairsCounted'
    BY <2>1 DEF ContactInv, PairsCounted, PairCounted, InFlight, By, Counted, Unsolicited
  <2>4. QED
    BY <2>2, <2>3 DEF ContactInv
<1>2. QED
  BY <1>1, MintGrantStep, ResolveContactStep, MarkContactUsedStep, CheckDeliveryStep,
     EndSendStep, DeliverToContactStep, RecordContactDeliveryStep, TrayStep, CrashSendsStep,
     EditSomethingStep DEF ContactsNext

\* Every reachable state of the sends to a contact is as ContactInv says.
THEOREM ContactInvariant == ContactsSpec => []ContactInv
  BY ContactInit, ContactStep, PTL DEF ContactsSpec

\* However sends overlap, fail and go unrecorded, a stranger is told nothing of who has an
\* account here, and puts no more than PairPerDay a day in the other's tray but for those
\* checked while an earlier one was past its check and not yet in the ledger, and those
\* that were never recorded (ContactDeliveryRefusal, RecordContactDelivery,
\* contactGrantAnswer).
THEOREM StrangersBoundedHolds == ContactsSpec => []StrangersBounded
<1>1. ContactInv => StrangersBounded
  BY DEF ContactInv, StrangersBounded, StrangersToldNothing, StrangerCapKept, SendsHonest,
         SendHonest, TouchKnown, PairsCounted, PairCounted
<1>2. QED
  BY <1>1, ContactInvariant, PTL

\* A send blocked from its first step on puts nothing in the tray, however long the two
\* have been in touch (ContactDeliveryRefusal asks about the block first).
THEOREM BlockHoldsHolds == ContactsSpec => BlockHolds
<1> DEFINE Step == bookmarks' \cap refusing \subseteq bookmarks
<1>1. ContactInv /\ [ContactsNext]_contactVars => [Step]_contactVars
  <2> SUFFICES ASSUME ContactInv, ContactsNext
               PROVE  Step
    OBVIOUS
  <2>1. ASSUME NEW s \in Sends, DeliverToContact(s)
        PROVE  Step
    <3>1. s \notin refusing
      BY <2>1 DEF DeliverToContact, ContactInv, BlockedStop, InFlight
    <3>2. QED
      BY <2>1, <3>1 DEF DeliverToContact
  <2>2. CASE bookmarks' \subseteq bookmarks
    BY <2>2
  <2>3. QED
    BY <2>1, <2>2 DEF ContactsNext, MintGrant, ResolveContact, MarkContactUsed, CheckDelivery,
       EmailContactGrant, RecordContactDelivery, LoseWrite, RemoveBookmark, LeaveWindow,
       CrashSends, EditSomething
<1>2. QED
  BY <1>1, ContactInvariant, PTL DEF ContactsSpec, BlockHolds
=============================================================================
