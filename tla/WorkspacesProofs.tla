-------------------------- MODULE WorkspacesProofs --------------------------
(***************************************************************************)
(* Proofs about Workspaces for any people, requests, permission lists and  *)
(* bounds: no more join than the invite has uses, an identity asserts only *)
(* the membership it was issued in, and a revocation is for ever.          *)
(***************************************************************************)
EXTENDS Workspaces, FiniteSetTheorems, TLAPS

\* Redemptions that claimed a use and have not joined yet.
Joiners == {s \in Slots : work[s].op = "join"}

\* Every use of the invite is one membership at most, had already or still to come.
UsesCounted ==
  /\ ~standing => invite = NoInvite
  /\ standing /\ invite = NoInvite => joinedBy = 0 /\ Joiners = {}
  /\ invite # NoInvite => invite.may # {} /\ joinedBy + Cardinality(Joiners) <= invite.uses
  /\ joinedBy < joined

\* An edit of an identity that changes its status revokes it.
EditsRevoke == \A s \in Slots : work[s].op = "edit" =>
  work[s].now = work[s].was \/ work[s].now = "revoked"

\* A fingerprint that was not issued yet has neither a row nor a tombstone.
IssuedInOrder == \A i \in IdentityIds : i > issuedIds =>
  identity[i] = NoIdentity /\ i \notin tombstones

\* The inductive invariant.
WorkspaceInv == /\ WorkspacesTypeOK /\ UsesCounted /\ EditsRevoke
                /\ IssuedInOrder /\ LeaversAssertNothing

-----------------------------------------------------------------------------
(* Rows, requests and their types. *)

LEMMA WorkspaceNumbers ==
  /\ MaxUses \in Nat /\ MaxUses > 0 /\ MaxJoined \in Nat /\ MaxJoined > 0
  /\ MaxIdentities \in Nat
  BY WorkspacesAssumption

LEMMA RowTypes ==
  ASSUME WorkspacesTypeOK, NEW p \in People
  PROVE  /\ membership[p] \in Memberships
         /\ membership[p].id \in 0..MaxJoined /\ membership[p].may \subseteq Rights
         /\ membership[p].role \in {"none", "member", "admin"}
         /\ MemberScopes(membership[p]) \subseteq Rights
  BY DEF WorkspacesTypeOK, Memberships, MemberScopes

LEMMA SyncRoleType ==
  ASSUME NEW row \in Memberships
  PROVE  SyncRole(row) \in Memberships /\ SyncRole(row).id = row.id
  BY DEF SyncRole, Memberships

LEMMA ConstantTypes ==
  /\ NoMembership \in Memberships /\ NoMembership.id = 0
  /\ NoInvite \in Invites /\ NoInvite.may = {} /\ Idle \in Work /\ Idle.op = "idle"
  /\ NoIdentity \in IdentityRows /\ NoIdentity.status = "none"
<1>1. 0 \in 0..MaxJoined /\ 0 \in 0..MaxUses
  BY WorkspaceNumbers
<1>2. QED
  BY <1>1 DEF NoMembership, Memberships, NoInvite, Invites, Idle, Work, NoIdentity,
              IdentityRows

\* What a request of each kind carries.
LEMMA WorkFields ==
  ASSUME WorkspacesTypeOK, NEW s \in Slots
  PROVE  /\ work[s] \in Work
         /\ work[s].op = "change" => /\ work[s].user \in People
                                     /\ work[s].was \in Memberships
                                     /\ work[s].now \in Memberships
         /\ work[s].op = "remove" => work[s].user \in People /\ work[s].id \in 1..MaxJoined
         /\ work[s].op = "redeem" => work[s].user \in People /\ work[s].used \in 0..MaxUses
         /\ work[s].op \in {"join", "insert"} => work[s].user \in People
         /\ work[s].op = "edit" => /\ work[s].id \in IdentityIds
                                   /\ work[s].was \in IdentityStatuses
                                   /\ work[s].now \in IdentityStatuses
         /\ work[s].op = "close" => work[s].user \in People
  BY DEF WorkspacesTypeOK, Work, Idle

\* What a member's identity row is.
LEMMA IdentityRow ==
  ASSUME WorkspacesTypeOK, NEW i \in IdentityIds
  PROVE  /\ identity[i] \in IdentityRows
         /\ identity[i].user \in People =>
              /\ identity[i] # NoIdentity
              /\ identity[i].status \in IdentityStatuses /\ identity[i].since \in 0..MaxJoined
         /\ identity[i] # NoIdentity =>
              identity[i].user \in People /\ identity[i].status \in IdentityStatuses
         /\ identity[i].status = "active" => identity[i].user \in People
<1>1. identity[i] \in IdentityRows
  BY DEF WorkspacesTypeOK
<1>2. QED
  BY <1>1, WorkspacesAssumption DEF IdentityRows, NoIdentity, IdentityStatuses

-----------------------------------------------------------------------------
(* Requests that claimed a use. *)

LEMMA JoinersFinite == IsFiniteSet(Joiners) /\ Cardinality(Joiners) \in Nat
<1>1. Joiners \in SUBSET Slots
  BY DEF Joiners
<1>2. QED
  BY <1>1, WorkspacesAssumption, FS_Subset, FS_CardinalityType

LEMMA OneSlot ==
  ASSUME WorkspacesTypeOK, NEW s \in Slots, NEW new, work' = [work EXCEPT ![s] = new]
  PROVE  Joiners' = IF new.op = "join" THEN Joiners \cup {s} ELSE Joiners \ {s}
<1>1. work \in [Slots -> Work]
  BY DEF WorkspacesTypeOK
<1>2. ASSUME NEW t \in Slots
      PROVE  work'[t] = IF t = s THEN new ELSE work[t]
  BY <1>1
<1>3. Joiners' = {t \in Slots : work'[t].op = "join"}
  BY DEF Joiners
<1>4. QED
  BY <1>2, <1>3 DEF Joiners

\* A request that is none of the joining ones comes in place of one that may be.
LEMMA NoNewJoiner ==
  ASSUME WorkspacesTypeOK, NEW s \in Slots, NEW new \in Work, new.op # "join",
         work' = [work EXCEPT ![s] = new]
  PROVE  /\ Joiners' = Joiners \ {s} /\ Cardinality(Joiners') \in Nat
         /\ Cardinality(Joiners') <= Cardinality(Joiners)
         /\ work[s].op = "join" => Cardinality(Joiners') = Cardinality(Joiners) - 1
         /\ work' \in [Slots -> Work]
<1>1. Joiners' = Joiners \ {s}
  BY OneSlot
<1>2. /\ IsFiniteSet(Joiners \ {s})
      /\ Cardinality(Joiners \ {s}) =
           IF s \in Joiners THEN Cardinality(Joiners) - 1 ELSE Cardinality(Joiners)
  BY JoinersFinite, FS_RemoveElement
<1>3. Cardinality(Joiners \ {s}) \in Nat
  BY <1>2, FS_CardinalityType
<1>4. work[s].op = "join" => s \in Joiners
  BY DEF Joiners
<1>5. work' \in [Slots -> Work]
  BY DEF WorkspacesTypeOK
<1>6. QED
  BY <1>1, <1>2, <1>3, <1>4, <1>5, JoinersFinite

\* A use claimed is one more to join.
LEMMA NewJoiner ==
  ASSUME WorkspacesTypeOK, NEW s \in Slots, NEW new \in Work, new.op = "join",
         work[s].op # "join", work' = [work EXCEPT ![s] = new]
  PROVE  /\ Cardinality(Joiners') = Cardinality(Joiners) + 1 /\ work' \in [Slots -> Work]
<1>0. s \notin Joiners
  BY DEF Joiners
<1>1. Joiners' = Joiners \cup {s} /\ s \notin Joiners
  BY <1>0, OneSlot
<1>2. Cardinality(Joiners \cup {s}) =
        IF s \in Joiners THEN Cardinality(Joiners) ELSE Cardinality(Joiners) + 1
  BY JoinersFinite, FS_AddElement
<1>3. QED
  BY <1>1, <1>2 DEF WorkspacesTypeOK

\* A request is taken up or given up, or goes from its checks to nothing: the tables stay.
LEMMA OneRequest ==
  ASSUME WorkspaceInv, NEW s \in Slots, NEW new \in Work, new.op # "join",
         new.op = "edit" => new.now = new.was \/ new.now = "revoked",
         work' = [work EXCEPT ![s] = new]
  PROVE  /\ work' \in [Slots -> Work] /\ EditsRevoke'
         /\ Cardinality(Joiners') \in Nat /\ Cardinality(Joiners') <= Cardinality(Joiners)
         /\ Joiners' \subseteq Joiners
<1>1. WorkspacesTypeOK /\ EditsRevoke
  BY DEF WorkspaceInv
<1>2. ASSUME NEW t \in Slots
      PROVE  work'[t] = IF t = s THEN new ELSE work[t]
  BY <1>1 DEF WorkspacesTypeOK
<1>3. EditsRevoke'
  BY <1>1, <1>2 DEF EditsRevoke
<1>4. QED
  BY <1>1, <1>3, NoNewJoiner

\* The tables stay: what they and a request no longer joining say, stays true.
LEMMA TablesStay ==
  ASSUME WorkspaceInv, NEW s \in Slots, NEW new \in Work, new.op # "join",
         new.op = "edit" => new.now = new.was \/ new.now = "revoked",
         work' = [work EXCEPT ![s] = new],
         UNCHANGED <<accounts, standing, membership, invite, identity, tombstones, content,
                     joined, issuedIds, joinedBy>>
  PROVE  WorkspaceInv'
<1>1. /\ work' \in [Slots -> Work] /\ EditsRevoke'
      /\ Cardinality(Joiners') \in Nat /\ Cardinality(Joiners') <= Cardinality(Joiners)
      /\ Joiners' \subseteq Joiners
  BY OneRequest
<1>2. WorkspacesTypeOK'
  BY <1>1 DEF WorkspaceInv, WorkspacesTypeOK
<1>3. UsesCounted'
  <2>1. /\ invite.uses \in Int /\ joinedBy \in Int
    BY WorkspaceNumbers DEF WorkspaceInv, WorkspacesTypeOK, Invites
  <2>2. invite # NoInvite => joinedBy' + Cardinality(Joiners') <= invite'.uses
    BY <1>1, <2>1, JoinersFinite DEF WorkspaceInv, UsesCounted
  <2>3. QED
    BY <1>1, <2>2 DEF WorkspaceInv, UsesCounted
<1>4. IssuedInOrder' /\ LeaversAssertNothing'
  BY DEF WorkspaceInv, IssuedInOrder, LeaversAssertNothing
<1>5. QED
  BY <1>1, <1>2, <1>3, <1>4 DEF WorkspaceInv

-----------------------------------------------------------------------------
(* Requests taken up. *)

LEMMA OpenChangeStep ==
  ASSUME WorkspaceInv, NEW s \in Slots, NEW by \in People, NEW p \in People,
         NEW may \in Lists, OpenChange(s, by, p, may)
  PROVE  WorkspaceInv'
<1> DEFINE edited == [membership[p] EXCEPT !.may = may]
<1> DEFINE new == [op |-> "change", user |-> p, was |-> membership[p],
                   now |-> SyncRole(edited)]
<1>1. edited \in Memberships
  BY RowTypes, WorkspacesAssumption DEF WorkspaceInv, Memberships, Rights
<1>2. new \in Work /\ new.op = "change"
  BY <1>1, RowTypes, SyncRoleType DEF WorkspaceInv, Work
<1>3. /\ work' = [work EXCEPT ![s] = new]
      /\ UNCHANGED <<accounts, standing, membership, invite, identity, tombstones, content,
                     joined, issuedIds, joinedBy>>
  BY DEF OpenChange, Takes
<1> HIDE DEF new
<1>4. QED
  BY <1>2, <1>3, TablesStay

LEMMA OpenRemovalStep ==
  ASSUME WorkspaceInv, NEW s \in Slots, NEW by \in People, NEW p \in People,
         OpenRemoval(s, by, p)
  PROVE  WorkspaceInv'
<1> DEFINE new == [op |-> "remove", user |-> p, id |-> membership[p].id]
<1>1. membership[p].id \in 1..MaxJoined
  BY RowTypes, WorkspaceNumbers DEF WorkspaceInv, OpenRemoval, Member
<1>2. new \in Work /\ new.op = "remove"
  BY <1>1 DEF Work
<1>3. /\ work' = [work EXCEPT ![s] = new]
      /\ UNCHANGED <<accounts, standing, membership, invite, identity, tombstones, content,
                     joined, issuedIds, joinedBy>>
  BY DEF OpenRemoval, Takes
<1> HIDE DEF new
<1>4. QED
  BY <1>2, <1>3, TablesStay

LEMMA OpenRedemptionStep ==
  ASSUME WorkspaceInv, NEW s \in Slots, NEW p \in People, OpenRedemption(s, p)
  PROVE  WorkspaceInv'
<1> DEFINE new == [op |-> "redeem", user |-> p, used |-> invite.uses]
<1>1. invite.uses \in 0..MaxUses
  BY DEF WorkspaceInv, WorkspacesTypeOK, Invites
<1>2. new \in Work /\ new.op = "redeem"
  BY <1>1 DEF Work
<1>3. /\ work' = [work EXCEPT ![s] = new]
      /\ UNCHANGED <<accounts, standing, membership, invite, identity, tombstones, content,
                     joined, issuedIds, joinedBy>>
  BY DEF OpenRedemption, Takes, inviteFrame
<1> HIDE DEF new
<1>4. QED
  BY <1>2, <1>3, TablesStay

LEMMA OpenIdentityStep ==
  ASSUME WorkspaceInv, NEW s \in Slots, NEW p \in People, OpenIdentity(s, p)
  PROVE  WorkspaceInv'
<1> DEFINE new == [op |-> "insert", user |-> p]
<1>2. new \in Work /\ new.op = "insert"
  BY DEF Work
<1>3. /\ work' = [work EXCEPT ![s] = new]
      /\ UNCHANGED <<accounts, standing, membership, invite, identity, tombstones, content,
                     joined, issuedIds, joinedBy>>
  BY DEF OpenIdentity, Takes, identityFrame
<1> HIDE DEF new
<1>4. QED
  BY <1>2, <1>3, TablesStay

LEMMA OpenEditStep ==
  ASSUME WorkspaceInv, NEW s \in Slots, NEW p \in People, NEW i \in IdentityIds,
         NEW status \in IdentityStatuses, OpenEdit(s, p, i, status)
  PROVE  WorkspaceInv'
<1> DEFINE was == identity[i].status
<1> DEFINE new == [op |-> "edit", id |-> i, was |-> was,
                   now |-> IF was = "revoked" THEN was ELSE status]
<1>1. was \in IdentityStatuses
  BY IdentityRow DEF WorkspaceInv, OpenEdit
<1>2. new \in Work /\ new.op = "edit" /\ (new.now = new.was \/ new.now = "revoked")
  BY <1>1 DEF Work, IdentityStatuses
<1>3. /\ work' = [work EXCEPT ![s] = new]
      /\ UNCHANGED <<accounts, standing, membership, invite, identity, tombstones, content,
                     joined, issuedIds, joinedBy>>
  BY DEF OpenEdit, Takes, identityFrame
<1> HIDE DEF new
<1>4. QED
  BY <1>2, <1>3, TablesStay

LEMMA OpenClosingStep ==
  ASSUME WorkspaceInv, NEW s \in Slots, NEW p \in People, OpenClosing(s, p)
  PROVE  WorkspaceInv'
<1> DEFINE new == [op |-> "close", user |-> p, shape |-> ShapeOf(p)]
<1>1. ShapeOf(p) \in {"none", "sole", "shared"}
  BY DEF ShapeOf
<1>2. new \in Work /\ new.op = "close"
  BY <1>1 DEF Work
<1>3. /\ work' = [work EXCEPT ![s] = new]
      /\ UNCHANGED <<accounts, standing, membership, invite, identity, tombstones, content,
                     joined, issuedIds, joinedBy>>
  BY DEF OpenClosing, Takes
<1> HIDE DEF new
<1>4. QED
  BY <1>2, <1>3, TablesStay

-----------------------------------------------------------------------------
(* Members. *)

\* Nobody joins but a person without a row: the identities of others go on.
LEMMA JoinsStep ==
  ASSUME WorkspacesTypeOK, LeaversAssertNothing, NEW p \in People, NEW may \in SUBSET Rights,
         ~Member(p), joined < MaxJoined, Joins(p, may), UNCHANGED identity
  PROVE  /\ membership' \in [People -> Memberships] /\ joined' \in 1..MaxJoined
         /\ joined' = joined + 1 /\ joined \in Int
         /\ LeaversAssertNothing'
<1> DEFINE row == [id |-> joined + 1, may |-> may, role |-> "member"]
<1>1. joined + 1 \in 1..MaxJoined /\ joined + 1 \in 0..MaxJoined /\ joined \in Int
  BY WorkspaceNumbers DEF WorkspacesTypeOK
<1>2. row \in Memberships
  BY <1>1 DEF Memberships
<1>3. SyncRole(row) \in Memberships
  BY <1>2, SyncRoleType
<1>4. /\ membership' = [membership EXCEPT ![p] = SyncRole(row)] /\ joined' = joined + 1
  BY DEF Joins
<1> HIDE DEF row
<1>5. membership' \in [People -> Memberships]
  BY <1>3, <1>4 DEF WorkspacesTypeOK
<1>6. ASSUME NEW i \in IdentityIds, identity[i].status = "active", identity[i].since # 0
      PROVE  membership'[identity[i].user].id = identity[i].since
  <2>1. identity[i].user \in People /\ membership[identity[i].user].id = identity[i].since
    BY <1>6, IdentityRow DEF LeaversAssertNothing
  <2>2. identity[i].user # p
    BY <1>6, <2>1 DEF Member
  <2>3. QED
    BY <1>4, <2>1, <2>2 DEF WorkspacesTypeOK
<1>7. LeaversAssertNothing'
  BY <1>6 DEF LeaversAssertNothing
<1>8. QED
  BY <1>1, <1>4, <1>5, <1>7

LEMMA AddMemberStep ==
  ASSUME WorkspaceInv, NEW by \in People, NEW p \in People, NEW may \in Lists,
         AddMember(by, p, may)
  PROVE  WorkspaceInv'
<1>1. may \in SUBSET Rights
  BY WorkspacesAssumption DEF Rights
<1>2. /\ ~Member(p) /\ joined < MaxJoined /\ Joins(p, may)
      /\ UNCHANGED <<accounts, standing, invite, identity, tombstones, content, work,
                     issuedIds, joinedBy>>
  BY DEF AddMember, CanJoin
<1>3. /\ membership' \in [People -> Memberships] /\ joined' \in 1..MaxJoined
      /\ joined' = joined + 1 /\ joined \in Int /\ LeaversAssertNothing'
  BY <1>1, <1>2, JoinsStep DEF WorkspaceInv
<1>4. WorkspacesTypeOK'
  BY <1>2, <1>3 DEF WorkspaceInv, WorkspacesTypeOK
<1>5. Joiners' = Joiners /\ EditsRevoke' /\ IssuedInOrder'
  BY <1>2 DEF WorkspaceInv, Joiners, EditsRevoke, IssuedInOrder
<1>6. joinedBy \in Int
  BY WorkspaceNumbers DEF WorkspaceInv, WorkspacesTypeOK
<1>7. UsesCounted'
  BY <1>2, <1>3, <1>5, <1>6 DEF WorkspaceInv, UsesCounted
<1>8. QED
  BY <1>3, <1>4, <1>5, <1>7 DEF WorkspaceInv

LEMMA SaveChangeStep ==
  ASSUME WorkspaceInv, NEW s \in Slots, SaveChange(s)
  PROVE  WorkspaceInv'
<1> DEFINE w == work[s]
<1>1. /\ w.user \in People /\ w.was \in Memberships /\ w.now \in Memberships
      /\ work' = [work EXCEPT ![s] = Idle]
      /\ UNCHANGED <<accounts, standing, invite, identity, tombstones, content, joined,
                     issuedIds, joinedBy>>
  BY WorkFields DEF WorkspaceInv, SaveChange, Finish
<1>2. /\ work' \in [Slots -> Work] /\ EditsRevoke'
      /\ Cardinality(Joiners') \in Nat /\ Cardinality(Joiners') <= Cardinality(Joiners)
      /\ Joiners' \subseteq Joiners
  <2>1. Idle \in Work /\ Idle.op = "idle"
    BY ConstantTypes
  <2>2. QED
    BY <1>1, <2>1, OneRequest
<1>3. ASSUME NEW p \in People
      PROVE  membership'[p] \in Memberships /\ membership'[p].id = membership[p].id
  <2>1. membership[p] \in Memberships /\ membership[w.user] \in Memberships
    BY <1>1, RowTypes DEF WorkspaceInv
  <2>2. Saved(membership[w.user], w.was, w.now) \in Memberships
    BY <1>1, <2>1 DEF Saved, Memberships
  <2>3. Saved(membership[w.user], w.was, w.now).id = membership[w.user].id
    BY <2>1 DEF Saved, Memberships
  <2>4. membership'[p] = membership[p]
        \/ (p = w.user /\ membership'[p] = Saved(membership[w.user], w.was, w.now))
    BY <1>1, <2>1 DEF SaveChange, WorkspaceInv, WorkspacesTypeOK
  <2>5. QED
    BY <2>1, <2>2, <2>3, <2>4
<1>4. membership' \in [People -> Memberships]
  <2>1. membership' \in [People -> Memberships] \/ membership' = [membership EXCEPT ![w.user] =
                          Saved(membership[w.user], w.was, w.now)]
    BY DEF SaveChange, WorkspaceInv, WorkspacesTypeOK
  <2>2. Saved(membership[w.user], w.was, w.now) \in Memberships
    BY <1>1, RowTypes DEF WorkspaceInv, Saved, Memberships
  <2>3. QED
    BY <2>1, <2>2 DEF WorkspaceInv, WorkspacesTypeOK
<1>5. WorkspacesTypeOK'
  BY <1>1, <1>2, <1>4 DEF WorkspaceInv, WorkspacesTypeOK
<1>6. UsesCounted'
  <2>1. /\ invite.uses \in Int /\ joinedBy \in Int
    BY WorkspaceNumbers DEF WorkspaceInv, WorkspacesTypeOK, Invites
  <2>2. invite # NoInvite => joinedBy' + Cardinality(Joiners') <= invite'.uses
    BY <1>1, <1>2, <2>1, JoinersFinite DEF WorkspaceInv, UsesCounted
  <2>3. QED
    BY <1>1, <1>2, <2>2 DEF WorkspaceInv, UsesCounted
<1>7. LeaversAssertNothing'
  BY <1>1, <1>3, IdentityRow DEF WorkspaceInv, LeaversAssertNothing
<1>8. QED
  BY <1>1, <1>2, <1>5, <1>6, <1>7 DEF WorkspaceInv, IssuedInOrder

LEMMA RevokedRows ==
  ASSUME WorkspacesTypeOK, NEW rows \in SUBSET RowsOf(People), identity' = Revoked(rows)
  PROVE  /\ identity' \in [IdentityIds -> IdentityRows]
         /\ \A i \in IdentityIds :
              /\ i \in rows => identity'[i].status = "revoked" /\ identity[i] # NoIdentity
              /\ i \notin rows => identity'[i] = identity[i]
              /\ identity[i] = NoIdentity => identity'[i] = NoIdentity
              /\ identity[i] # NoIdentity => identity'[i] # NoIdentity
<1>1. ASSUME NEW i \in IdentityIds
      PROVE  /\ identity'[i] \in IdentityRows
             /\ i \in rows => identity'[i].status = "revoked" /\ identity[i] # NoIdentity
             /\ i \notin rows => identity'[i] = identity[i]
             /\ identity[i] # NoIdentity => identity'[i] # NoIdentity
  <2>1. CASE i \in rows
    <3>1. identity'[i] = [identity[i] EXCEPT !.status = "revoked"]
      BY <2>1 DEF Revoked
    <3>2. /\ identity[i].user \in People /\ identity[i] # NoIdentity
          /\ identity[i] \in [user : People, status : IdentityStatuses, since : 0..MaxJoined]
      BY <2>1, IdentityRow DEF RowsOf, IdentityRows
    <3>3. identity'[i] \in [user : People, status : IdentityStatuses, since : 0..MaxJoined]
      BY <3>1, <3>2 DEF IdentityStatuses
    <3>4. identity'[i].status = "revoked"
      BY <3>1, <3>2
    <3>5. identity'[i] # NoIdentity
      BY <3>4 DEF NoIdentity
    <3>6. QED
      BY <2>1, <3>2, <3>3, <3>4, <3>5 DEF IdentityRows
  <2>2. CASE i \notin rows
    BY <2>2, IdentityRow DEF Revoked
  <2>3. QED
    BY <2>1, <2>2
<1>2. identity' \in [IdentityIds -> IdentityRows]
  BY <1>1 DEF Revoked
<1>3. QED
  BY <1>1, <1>2

LEMMA RemoveStep ==
  ASSUME WorkspaceInv, NEW s \in Slots, Remove(s)
  PROVE  WorkspaceInv'
<1> DEFINE w == work[s]
<1>1. /\ w.user \in People /\ work' = [work EXCEPT ![s] = Idle]
      /\ UNCHANGED <<accounts, standing, invite, tombstones, content, joined, issuedIds,
                     joinedBy>>
      /\ identity' = Revoked(RowsOf({w.user}))
      /\ \/ membership' = [membership EXCEPT ![w.user] = NoMembership]
         \/ membership' = membership
  BY WorkFields DEF WorkspaceInv, Remove, Finish, RevokeWorkspaceIdentities
<1>2. /\ work' \in [Slots -> Work] /\ EditsRevoke'
      /\ Cardinality(Joiners') \in Nat /\ Cardinality(Joiners') <= Cardinality(Joiners)
      /\ Joiners' \subseteq Joiners
  <2>1. Idle \in Work /\ Idle.op = "idle"
    BY ConstantTypes
  <2>2. QED
    BY <1>1, <2>1, OneRequest
<1>3. /\ identity' \in [IdentityIds -> IdentityRows]
      /\ \A i \in IdentityIds :
           /\ i \in RowsOf({w.user}) => identity'[i].status = "revoked"
           /\ i \notin RowsOf({w.user}) => identity'[i] = identity[i]
           /\ identity[i] = NoIdentity => identity'[i] = NoIdentity
  <2>1. RowsOf({w.user}) \in SUBSET RowsOf(People)
    BY <1>1 DEF RowsOf
  <2>2. QED
    BY <1>1, <2>1, RevokedRows DEF WorkspaceInv
<1>4. membership' \in [People -> Memberships]
      /\ \A p \in People : p # w.user => membership'[p] = membership[p]
  BY <1>1, ConstantTypes DEF WorkspaceInv, WorkspacesTypeOK
<1>5. WorkspacesTypeOK'
  BY <1>1, <1>2, <1>3, <1>4 DEF WorkspaceInv, WorkspacesTypeOK
<1>6. UsesCounted'
  <2>1. /\ invite.uses \in Int /\ joinedBy \in Int
    BY WorkspaceNumbers DEF WorkspaceInv, WorkspacesTypeOK, Invites
  <2>2. invite # NoInvite => joinedBy' + Cardinality(Joiners') <= invite'.uses
    BY <1>1, <1>2, <2>1, JoinersFinite DEF WorkspaceInv, UsesCounted
  <2>3. QED
    BY <1>1, <1>2, <2>2 DEF WorkspaceInv, UsesCounted
<1>7. ASSUME NEW i \in IdentityIds, identity'[i].status = "active", identity'[i].since # 0
      PROVE  membership'[identity'[i].user].id = identity'[i].since
  <2>1. i \notin RowsOf({w.user}) /\ identity'[i] = identity[i]
    BY <1>3, <1>7
  <2>2. identity[i].user \in People /\ identity[i].user # w.user
    BY <1>7, <2>1, IdentityRow DEF WorkspaceInv, RowsOf
  <2>3. membership[identity[i].user].id = identity[i].since
    BY <1>7, <2>1 DEF WorkspaceInv, LeaversAssertNothing
  <2>4. QED
    BY <1>4, <2>1, <2>2, <2>3
<1>8. LeaversAssertNothing' /\ IssuedInOrder'
  BY <1>1, <1>3, <1>7 DEF WorkspaceInv, LeaversAssertNothing, IssuedInOrder
<1>9. QED
  BY <1>2, <1>5, <1>6, <1>8 DEF WorkspaceInv

-----------------------------------------------------------------------------
(* The invite. *)

LEMMA InviteTypes ==
  ASSUME WorkspacesTypeOK
  PROVE  /\ invite \in Invites /\ invite.uses \in 0..MaxUses /\ invite.uses \in Int
         /\ joinedBy \in Int /\ joined \in Int /\ invite.may \subseteq Rights
  BY WorkspaceNumbers DEF WorkspacesTypeOK, Invites

\* The invite changes but not its uses or rights; nothing else does but who joins less.
LEMMA InviteOnly ==
  ASSUME WorkspaceInv, invite' \in Invites, invite # NoInvite,
         invite'.may = invite.may, invite'.uses = invite.uses,
         UNCHANGED <<accounts, standing, membership, identity, tombstones, content, work,
                     joined, issuedIds, joinedBy>>
  PROVE  WorkspaceInv'
<1>1. invite' # NoInvite
  BY ConstantTypes DEF WorkspaceInv, UsesCounted
<1>2. Joiners' = Joiners /\ EditsRevoke' /\ IssuedInOrder' /\ LeaversAssertNothing'
  BY DEF WorkspaceInv, Joiners, EditsRevoke, IssuedInOrder, LeaversAssertNothing
<1>3. UsesCounted'
  BY <1>1, <1>2 DEF WorkspaceInv, UsesCounted
<1>4. QED
  BY <1>2, <1>3 DEF WorkspaceInv, WorkspacesTypeOK

LEMMA MintInviteStep ==
  ASSUME WorkspaceInv, NEW by \in People, NEW may \in Lists, MintInvite(by, may)
  PROVE  WorkspaceInv'
<1> DEFINE new == [NoInvite EXCEPT !.live = TRUE, !.may = may, !.by = by]
<1>1. /\ standing /\ invite = NoInvite /\ may # {} /\ invite' = new
      /\ UNCHANGED <<accounts, standing, membership, identity, tombstones, content, work,
                     joined, issuedIds, joinedBy>>
  BY DEF MintInvite, inviteFrame
<1>2. new \in Invites /\ new.uses = 0 /\ new.may = may
  BY ConstantTypes, WorkspacesAssumption DEF Invites, NoInvite, Rights
<1> HIDE DEF new
<1>3. Joiners = {} /\ joinedBy = 0
  BY <1>1 DEF WorkspaceInv, UsesCounted
<1>4. Joiners' = {} /\ Cardinality(Joiners') = 0
  BY <1>1, <1>3, FS_EmptySet DEF Joiners
<1>5. new # NoInvite
  BY <1>1, <1>2, ConstantTypes
<1>6. UsesCounted'
  <2>1. joinedBy' + Cardinality(Joiners') <= invite'.uses
    BY <1>1, <1>2, <1>3, <1>4
  <2>2. QED
    BY <1>1, <1>2, <1>5, <2>1 DEF WorkspaceInv, UsesCounted
<1>7. EditsRevoke' /\ IssuedInOrder' /\ LeaversAssertNothing'
  BY <1>1 DEF WorkspaceInv, EditsRevoke, IssuedInOrder, LeaversAssertNothing
<1>8. QED
  BY <1>1, <1>2, <1>6, <1>7 DEF WorkspaceInv, WorkspacesTypeOK

LEMMA SetInviteStatusStep ==
  ASSUME WorkspaceInv, NEW by \in People, SetInviteStatus(by)
  PROVE  WorkspaceInv'
<1>1. /\ invite # NoInvite /\ invite' = [invite EXCEPT !.live = ~@]
      /\ UNCHANGED <<accounts, standing, membership, identity, tombstones, content, work,
                     joined, issuedIds, joinedBy>>
  BY DEF SetInviteStatus, inviteFrame
<1>2. invite' \in Invites /\ invite'.may = invite.may /\ invite'.uses = invite.uses
  BY <1>1, InviteTypes DEF WorkspaceInv, Invites
<1>3. QED
  BY <1>1, <1>2, InviteOnly

LEMMA RefreshInviteStatusStep ==
  ASSUME WorkspaceInv, RefreshInviteStatus
  PROVE  WorkspaceInv'
<1>1. /\ invite.live /\ invite' = [invite EXCEPT !.live = FALSE]
      /\ UNCHANGED <<accounts, standing, membership, identity, tombstones, content, work,
                     joined, issuedIds, joinedBy>>
  BY DEF RefreshInviteStatus, inviteFrame
<1>2. invite # NoInvite
  BY <1>1 DEF NoInvite
<1>3. invite' \in Invites /\ invite'.may = invite.may /\ invite'.uses = invite.uses
  BY <1>1, InviteTypes DEF WorkspaceInv, Invites
<1>4. QED
  BY <1>1, <1>2, <1>3, InviteOnly

LEMMA ClaimInviteUseStep ==
  ASSUME WorkspaceInv, NEW s \in Slots, ClaimInviteUse(s)
  PROVE  WorkspaceInv'
<1> DEFINE w == work[s]
<1>1. /\ w.op = "redeem" /\ w.user \in People /\ w.used \in 0..MaxUses
      /\ UNCHANGED <<accounts, standing, membership, identity, tombstones, content,
                     joined, issuedIds, joinedBy>>
  BY WorkFields DEF WorkspaceInv, ClaimInviteUse, inviteFrame
<1>2. CASE UseLeft(w)
  <2> DEFINE new == [op |-> "join", user |-> w.user]
  <2>1. /\ invite # NoInvite /\ invite.uses < MaxUses
        /\ invite' = [invite EXCEPT !.uses = @ + 1, !.live = @ /\ w.used + 1 < MaxUses]
        /\ work' = [work EXCEPT ![s] = new]
    BY <1>2 DEF ClaimInviteUse, UseLeft
  <2>2. new \in Work /\ new.op = "join"
    BY <1>1 DEF Work
  <2> HIDE DEF new
  <2>3. /\ Cardinality(Joiners') = Cardinality(Joiners) + 1 /\ work' \in [Slots -> Work]
        /\ Cardinality(Joiners) \in Nat
    BY <1>1, <2>1, <2>2, NewJoiner, JoinersFinite DEF WorkspaceInv
  <2>4. invite.uses + 1 \in 0..MaxUses
    BY <2>1, InviteTypes, WorkspaceNumbers DEF WorkspaceInv
  <2>5. (invite.live /\ w.used + 1 < MaxUses) \in BOOLEAN
    OBVIOUS
  <2>6. /\ invite' \in Invites /\ invite'.may = invite.may
        /\ invite'.uses = invite.uses + 1
    BY <2>1, <2>4, <2>5, InviteTypes DEF WorkspaceInv, Invites
  <2>7. standing /\ invite.may # {} /\ joinedBy + Cardinality(Joiners) <= invite.uses
    BY <2>1 DEF WorkspaceInv, UsesCounted
  <2>8. invite' # NoInvite
    BY <2>6, <2>7, ConstantTypes
  <2>9. UsesCounted'
    <3>1. joinedBy' + Cardinality(Joiners') <= invite'.uses
      BY <1>1, <2>3, <2>6, <2>7, InviteTypes DEF WorkspaceInv
    <3>2. QED
      BY <1>1, <2>6, <2>7, <2>8, <3>1 DEF WorkspaceInv, UsesCounted
  <2>10. EditsRevoke'
    BY <2>1, <2>2 DEF WorkspaceInv, EditsRevoke, WorkspacesTypeOK
  <2>11. IssuedInOrder' /\ LeaversAssertNothing'
    BY <1>1 DEF WorkspaceInv, IssuedInOrder, LeaversAssertNothing
  <2>12. WorkspacesTypeOK'
    BY <1>1, <2>3, <2>6 DEF WorkspaceInv, WorkspacesTypeOK
  <2>13. QED
    BY <2>9, <2>10, <2>11, <2>12 DEF WorkspaceInv
<1>3. CASE ~UseLeft(w)
  <2>1. work' = [work EXCEPT ![s] = Idle] /\ invite' = invite
    BY <1>3 DEF ClaimInviteUse, Finish
  <2>2. Idle \in Work /\ Idle.op = "idle"
    BY ConstantTypes
  <2>3. QED
    BY <1>1, <2>1, <2>2, TablesStay
<1>4. QED
  BY <1>2, <1>3

LEMMA JoinStep ==
  ASSUME WorkspaceInv, NEW s \in Slots, Join(s)
  PROVE  WorkspaceInv'
<1> DEFINE w == work[s]
<1>1. /\ w.op = "join" /\ w.user \in People /\ joined < MaxJoined
      /\ work' = [work EXCEPT ![s] = Idle]
      /\ UNCHANGED <<accounts, standing, invite, identity, tombstones, content, issuedIds>>
  BY WorkFields DEF WorkspaceInv, Join, Finish
<1>2. Idle \in Work /\ Idle.op = "idle"
  BY ConstantTypes
<1>3. CASE CanJoin(w.user)
  <2>1. ~Member(w.user) /\ standing /\ Joins(w.user, invite.may) /\ joinedBy' = joinedBy + 1
    BY <1>3 DEF Join, CanJoin
  <2>2. /\ membership' \in [People -> Memberships] /\ joined' \in 1..MaxJoined
        /\ joined' = joined + 1 /\ joined \in Int /\ LeaversAssertNothing'
    <3>1. invite.may \in SUBSET Rights
      BY InviteTypes DEF WorkspaceInv
    <3>2. QED
      BY <1>1, <2>1, <3>1, JoinsStep DEF WorkspaceInv
  <2>3. /\ work' \in [Slots -> Work] /\ Cardinality(Joiners') = Cardinality(Joiners) - 1
        /\ Cardinality(Joiners) \in Nat
    BY <1>1, <1>2, NoNewJoiner, JoinersFinite DEF WorkspaceInv
  <2>4. EditsRevoke' /\ Joiners' \subseteq Joiners
    BY <1>1, <1>2, OneRequest
  <2>5. joinedBy < joined /\ joinedBy + 1 \in 0..MaxJoined /\ joinedBy \in Int
    BY <1>1, InviteTypes, WorkspaceNumbers DEF WorkspaceInv, UsesCounted, WorkspacesTypeOK
  <2>6. UsesCounted'
    <3>1. invite # NoInvite
      BY <1>1, <2>1 DEF WorkspaceInv, UsesCounted, Joiners
    <3>2. joinedBy + Cardinality(Joiners) <= invite.uses /\ invite.may # {}
      BY <3>1 DEF WorkspaceInv, UsesCounted
    <3>3. joinedBy' + Cardinality(Joiners') <= invite'.uses
      BY <1>1, <2>1, <2>3, <2>5, <3>2, InviteTypes DEF WorkspaceInv
    <3>4. joinedBy' < joined'
      BY <2>1, <2>2, <2>5
    <3>5. QED
      BY <1>1, <2>1, <3>1, <3>2, <3>3, <3>4 DEF UsesCounted
  <2>7. IssuedInOrder'
    BY <1>1 DEF WorkspaceInv, IssuedInOrder
  <2>8. WorkspacesTypeOK'
    BY <1>1, <2>1, <2>2, <2>3, <2>5 DEF WorkspaceInv, WorkspacesTypeOK
  <2>9. QED
    BY <2>2, <2>4, <2>6, <2>7, <2>8 DEF WorkspaceInv
<1>4. CASE ~CanJoin(w.user)
  <2>1. UNCHANGED <<membership, joined, joinedBy>>
    BY <1>4 DEF Join
  <2>2. QED
    BY <1>1, <1>2, <2>1, TablesStay
<1>5. QED
  BY <1>3, <1>4

-----------------------------------------------------------------------------
(* Identities, content, the workspace and the closing of accounts. *)

\* One step of RevocationIsForever.
RevokedStays == \A i \in IdentityIds :
  StatusOnTheWire(i) = "revoked" => StatusOnTheWire(i)' = "revoked"

\* Rows deleted under tombstones.
LEMMA DeletedRows ==
  ASSUME WorkspacesTypeOK, IssuedInOrder, NEW rows \in SUBSET RowsOf(People),
         Deleted(rows), issuedIds' = issuedIds
  PROVE  /\ identity' \in [IdentityIds -> IdentityRows] /\ tombstones' \subseteq IdentityIds
         /\ IssuedInOrder' /\ RevokedStays
         /\ \A i \in IdentityIds : /\ i \in rows => identity'[i] = NoIdentity
                                   /\ i \notin rows => identity'[i] = identity[i]
<1>1. /\ identity' = [i \in IdentityIds |-> IF i \in rows THEN NoIdentity ELSE identity[i]]
      /\ tombstones' = tombstones \cup rows
  BY DEF Deleted
<1>2. rows \subseteq IdentityIds /\ \A i \in rows : identity[i] # NoIdentity
  BY IdentityRow DEF RowsOf
<1>3. identity' \in [IdentityIds -> IdentityRows] /\ tombstones' \subseteq IdentityIds
  BY <1>1, <1>2, ConstantTypes DEF WorkspacesTypeOK
<1>4. IssuedInOrder'
  BY <1>1, <1>2 DEF IssuedInOrder
<1>5. RevokedStays
  BY <1>1 DEF RevokedStays, StatusOnTheWire
<1>6. QED
  BY <1>1, <1>3, <1>4, <1>5

LEMMA InsertIdentityStep ==
  ASSUME WorkspaceInv, NEW s \in Slots, InsertIdentity(s)
  PROVE  WorkspaceInv' /\ RevokedStays
<1> DEFINE w == work[s]
<1>1. /\ w.op = "insert" /\ w.user \in People /\ issuedIds < MaxIdentities
      /\ work' = [work EXCEPT ![s] = Idle]
      /\ UNCHANGED <<tombstones, accounts, standing, membership, invite, content, joined,
                     joinedBy>>
  BY WorkFields DEF WorkspaceInv, InsertIdentity, Finish, identityFrame
<1>2. Idle \in Work /\ Idle.op = "idle"
  BY ConstantTypes
<1>3. CASE standing /\ w.user \in accounts
  <2> DEFINE n == issuedIds + 1
  <2> DEFINE row == [user |-> w.user, status |-> "active", since |-> membership[w.user].id]
  <2>1. issuedIds' = n /\ identity' = [identity EXCEPT ![n] = row]
    BY <1>3 DEF InsertIdentity
  <2>2. n \in IdentityIds /\ n \in 0..MaxIdentities /\ n > issuedIds /\ issuedIds \in Int
    BY <1>1, WorkspaceNumbers DEF WorkspaceInv, WorkspacesTypeOK, IdentityIds
  <2>3. row \in IdentityRows
    BY <1>1, RowTypes DEF WorkspaceInv, IdentityRows, IdentityStatuses
  <2>4. row.status = "active" /\ row.user = w.user /\ row.since = membership[w.user].id
    OBVIOUS
  <2> HIDE DEF row
  <2>5. \A i \in IdentityIds : identity'[i] = IF i = n THEN row ELSE identity[i]
    BY <2>1 DEF WorkspaceInv, WorkspacesTypeOK
  <2>6. identity' \in [IdentityIds -> IdentityRows]
    BY <2>1, <2>2, <2>3 DEF WorkspaceInv, WorkspacesTypeOK
  <2>7. identity[n] = NoIdentity /\ n \notin tombstones
    BY <2>2 DEF WorkspaceInv, IssuedInOrder
  <2>8. RevokedStays
    <3>1. StatusOnTheWire(n) = "unknown"
      BY <2>7 DEF StatusOnTheWire
    <3>2. QED
      BY <1>1, <2>5, <3>1 DEF RevokedStays, StatusOnTheWire
  <2>9. IssuedInOrder'
    BY <1>1, <2>1, <2>2, <2>5 DEF WorkspaceInv, IssuedInOrder, IdentityIds
  <2>10. LeaversAssertNothing'
    BY <1>1, <2>4, <2>5 DEF WorkspaceInv, LeaversAssertNothing
  <2>11. /\ work' \in [Slots -> Work] /\ EditsRevoke'
         /\ Cardinality(Joiners') \in Nat /\ Cardinality(Joiners') <= Cardinality(Joiners)
         /\ Joiners' \subseteq Joiners
    BY <1>1, <1>2, OneRequest
  <2>12. UsesCounted'
    <3>1. invite # NoInvite => joinedBy' + Cardinality(Joiners') <= invite'.uses
      BY <1>1, <2>11, InviteTypes, JoinersFinite DEF WorkspaceInv, UsesCounted
    <3>2. QED
      BY <1>1, <2>11, <3>1 DEF WorkspaceInv, UsesCounted
  <2>13. WorkspacesTypeOK'
    BY <1>1, <2>1, <2>2, <2>6, <2>11 DEF WorkspaceInv, WorkspacesTypeOK
  <2>14. QED
    BY <2>8, <2>9, <2>10, <2>11, <2>12, <2>13 DEF WorkspaceInv
<1>4. CASE ~(standing /\ w.user \in accounts)
  <2>1. UNCHANGED <<issuedIds, identity>>
    BY <1>4 DEF InsertIdentity
  <2>2. WorkspaceInv'
    BY <1>1, <1>2, <2>1, TablesStay
  <2>3. QED
    BY <1>1, <2>1, <2>2 DEF RevokedStays, StatusOnTheWire
<1>5. QED
  BY <1>3, <1>4

LEMMA SaveEditStep ==
  ASSUME WorkspaceInv, NEW s \in Slots, SaveEdit(s)
  PROVE  WorkspaceInv' /\ RevokedStays
<1> DEFINE w == work[s]
<1>1. /\ w.op = "edit" /\ w.id \in IdentityIds /\ w.now \in IdentityStatuses
      /\ work' = [work EXCEPT ![s] = Idle]
      /\ identity' = [identity EXCEPT ![w.id] =
                        IF @ = NoIdentity THEN @ ELSE SavedStatus(@, w)]
      /\ UNCHANGED <<tombstones, issuedIds, accounts, standing, membership, invite, content,
                     joined, joinedBy>>
  BY WorkFields DEF WorkspaceInv, SaveEdit, Finish, identityFrame
<1>2. w.now = w.was \/ w.now = "revoked"
  BY <1>1 DEF WorkspaceInv, EditsRevoke
<1>3. ASSUME NEW i \in IdentityIds
      PROVE  /\ identity'[i] \in IdentityRows
             /\ identity'[i] = identity[i]
                \/ (identity[i] # NoIdentity /\ identity'[i] # NoIdentity
                    /\ identity'[i].status = "revoked")
  <2>1. CASE identity'[i] = identity[i]
    BY <2>1, IdentityRow DEF WorkspaceInv
  <2>2. CASE identity'[i] # identity[i]
    <3>1. /\ i = w.id /\ identity[i] # NoIdentity
          /\ identity'[i] = SavedStatus(identity[i], w)
      BY <1>1, <2>2 DEF WorkspaceInv, WorkspacesTypeOK
    <3>2. identity'[i] = [identity[i] EXCEPT !.status = "revoked"]
      BY <1>2, <2>2, <3>1 DEF SavedStatus
    <3>3. identity[i] \in [user : People, status : IdentityStatuses, since : 0..MaxJoined]
      BY <3>1, IdentityRow DEF WorkspaceInv, IdentityRows
    <3>4. /\ identity'[i] \in [user : People, status : IdentityStatuses, since : 0..MaxJoined]
          /\ identity'[i].status = "revoked"
      BY <3>2, <3>3 DEF IdentityStatuses
    <3>5. identity'[i] # NoIdentity
      BY <3>4 DEF NoIdentity
    <3>6. QED
      BY <3>1, <3>4, <3>5 DEF IdentityRows
  <2>3. QED
    BY <2>1, <2>2
<1>4. identity' \in [IdentityIds -> IdentityRows]
  <2>1. identity' = [i \in IdentityIds |-> identity'[i]]
    BY <1>1 DEF WorkspaceInv, WorkspacesTypeOK
  <2>2. QED
    BY <1>3, <2>1
<1>5. RevokedStays
  BY <1>1, <1>3 DEF RevokedStays, StatusOnTheWire
<1>6. IssuedInOrder'
  BY <1>1, <1>3 DEF WorkspaceInv, IssuedInOrder
<1>7. LeaversAssertNothing'
  BY <1>1, <1>3 DEF WorkspaceInv, LeaversAssertNothing
<1>8. /\ work' \in [Slots -> Work] /\ EditsRevoke'
      /\ Cardinality(Joiners') \in Nat /\ Cardinality(Joiners') <= Cardinality(Joiners)
      /\ Joiners' \subseteq Joiners
  <2>1. Idle \in Work /\ Idle.op = "idle"
    BY ConstantTypes
  <2>2. QED
    BY <1>1, <2>1, OneRequest
<1>9. UsesCounted'
  <2>1. invite # NoInvite => joinedBy' + Cardinality(Joiners') <= invite'.uses
    BY <1>1, <1>8, InviteTypes, JoinersFinite DEF WorkspaceInv, UsesCounted
  <2>2. QED
    BY <1>1, <1>8, <2>1 DEF WorkspaceInv, UsesCounted
<1>10. WorkspacesTypeOK'
  BY <1>1, <1>4, <1>8 DEF WorkspaceInv, WorkspacesTypeOK
<1>11. QED
  BY <1>5, <1>6, <1>7, <1>8, <1>9, <1>10 DEF WorkspaceInv

LEMMA DeleteIdentityStep ==
  ASSUME WorkspaceInv, NEW p \in People, NEW i \in IdentityIds, DeleteIdentity(p, i)
  PROVE  WorkspaceInv' /\ RevokedStays
<1>1. /\ Deleted({i}) /\ identity[i].user = p
      /\ UNCHANGED <<work, issuedIds, accounts, standing, membership, invite, content,
                     joined, joinedBy>>
  BY DEF DeleteIdentity, identityFrame
<1>2. {i} \in SUBSET RowsOf(People)
  BY <1>1 DEF RowsOf
<1>3. /\ identity' \in [IdentityIds -> IdentityRows] /\ tombstones' \subseteq IdentityIds
      /\ IssuedInOrder' /\ RevokedStays
      /\ \A j \in IdentityIds : identity'[j] \in {NoIdentity, identity[j]}
  BY <1>1, <1>2, DeletedRows DEF WorkspaceInv
<1>4. LeaversAssertNothing'
  BY <1>1, <1>3, ConstantTypes DEF WorkspaceInv, LeaversAssertNothing
<1>5. EditsRevoke' /\ UsesCounted' /\ WorkspacesTypeOK'
  BY <1>1, <1>3 DEF WorkspaceInv, EditsRevoke, UsesCounted, Joiners, WorkspacesTypeOK
<1>6. QED
  BY <1>3, <1>4, <1>5 DEF WorkspaceInv

LEMMA EditContentStep ==
  ASSUME WorkspaceInv, NEW p \in Writers, EditContent(p)
  PROVE  WorkspaceInv'
<1>1. content' \subseteq People
  BY WorkspacesAssumption DEF EditContent, WorkspaceInv, WorkspacesTypeOK
<1>2. UNCHANGED <<accounts, standing, membership, invite, identity, tombstones, work,
                  joined, issuedIds, joinedBy>>
  BY DEF EditContent
<1>3. QED
  BY <1>1, <1>2 DEF WorkspaceInv, WorkspacesTypeOK, EditsRevoke, UsesCounted, Joiners,
                    IssuedInOrder, LeaversAssertNothing

\* What the end of the workspace leaves.
LEMMA TornDown ==
  ASSUME WorkspacesTypeOK, IssuedInOrder, TearDownWorkspace, issuedIds' = issuedIds
  PROVE  /\ identity' \in [IdentityIds -> IdentityRows] /\ tombstones' \subseteq IdentityIds
         /\ membership' \in [People -> Memberships] /\ invite' = NoInvite
         /\ invite' \in Invites /\ content' = {} /\ standing' = FALSE
         /\ IssuedInOrder' /\ RevokedStays /\ LeaversAssertNothing'
<1>1. /\ identity' \in [IdentityIds -> IdentityRows] /\ tombstones' \subseteq IdentityIds
      /\ IssuedInOrder' /\ RevokedStays
      /\ \A i \in IdentityIds : /\ i \in RowsOf(People) => identity'[i] = NoIdentity
                                /\ i \notin RowsOf(People) => identity'[i] = identity[i]
  BY DeletedRows DEF TearDownWorkspace
<1>2. ASSUME NEW i \in IdentityIds
      PROVE  identity'[i].status # "active"
  <2>1. CASE i \in RowsOf(People)
    BY <1>1, <2>1, ConstantTypes
  <2>2. CASE i \notin RowsOf(People)
    BY <1>1, <2>2, IdentityRow DEF RowsOf
  <2>3. QED
    BY <2>1, <2>2
<1>3. LeaversAssertNothing'
  BY <1>2 DEF LeaversAssertNothing
<1>4. QED
  BY <1>1, <1>3, ConstantTypes DEF TearDownWorkspace

LEMMA DeleteWorkspaceStep ==
  ASSUME WorkspaceInv, NEW p \in People, DeleteWorkspace(p)
  PROVE  WorkspaceInv' /\ RevokedStays
<1>1. TearDownWorkspace /\ UNCHANGED <<accounts, work, joined, issuedIds, joinedBy>>
  BY DEF DeleteWorkspace
<1>2. /\ identity' \in [IdentityIds -> IdentityRows] /\ tombstones' \subseteq IdentityIds
      /\ membership' \in [People -> Memberships] /\ invite' = NoInvite
      /\ invite' \in Invites /\ content' = {} /\ standing' = FALSE
      /\ IssuedInOrder' /\ RevokedStays /\ LeaversAssertNothing'
  BY <1>1, TornDown DEF WorkspaceInv
<1>3. EditsRevoke' /\ UsesCounted' /\ WorkspacesTypeOK'
  BY <1>1, <1>2 DEF WorkspaceInv, EditsRevoke, UsesCounted, Joiners, WorkspacesTypeOK
<1>4. QED
  BY <1>2, <1>3 DEF WorkspaceInv

\* A user's rows go with the account, and the invite loses who minted it.
LEMMA UserDropped ==
  ASSUME WorkspaceInv, NEW p \in People, DropsUser(p), issuedIds' = issuedIds
  PROVE  /\ accounts' \subseteq People /\ membership' \in [People -> Memberships]
         /\ identity' \in [IdentityIds -> IdentityRows] /\ tombstones' \subseteq IdentityIds
         /\ invite' \in Invites /\ invite'.uses = invite.uses /\ invite'.may = invite.may
         /\ invite = NoInvite <=> invite' = NoInvite
         /\ IssuedInOrder' /\ RevokedStays /\ LeaversAssertNothing'
<1>1. /\ Deleted(RowsOf({p})) /\ accounts' = accounts \ {p}
      /\ membership' = [membership EXCEPT ![p] = NoMembership]
      /\ invite' = IF invite.by = p THEN [invite EXCEPT !.by = NoPerson] ELSE invite
  BY DEF DropsUser
<1>2. RowsOf({p}) \in SUBSET RowsOf(People)
  BY DEF RowsOf
<1>3. /\ identity' \in [IdentityIds -> IdentityRows] /\ tombstones' \subseteq IdentityIds
      /\ IssuedInOrder' /\ RevokedStays
      /\ \A i \in IdentityIds : /\ i \in RowsOf({p}) => identity'[i] = NoIdentity
                                /\ i \notin RowsOf({p}) => identity'[i] = identity[i]
  BY <1>1, <1>2, DeletedRows DEF WorkspaceInv
<1>4. /\ membership' \in [People -> Memberships] /\ accounts' \subseteq People
      /\ \A q \in People : q # p => membership'[q] = membership[q]
  BY <1>1, ConstantTypes DEF WorkspaceInv, WorkspacesTypeOK
<1>5. invite' \in Invites /\ invite'.uses = invite.uses /\ invite'.may = invite.may
  BY <1>1, InviteTypes DEF WorkspaceInv, Invites
<1>6. invite = NoInvite <=> invite' = NoInvite
  <2>1. CASE invite = NoInvite
    BY <1>1, <2>1, WorkspacesAssumption DEF NoInvite
  <2>2. CASE invite # NoInvite
    BY <1>5, <2>2, ConstantTypes DEF WorkspaceInv, UsesCounted
  <2>3. QED
    BY <2>1, <2>2
<1>7. ASSUME NEW i \in IdentityIds, identity'[i].status = "active", identity'[i].since # 0
      PROVE  membership'[identity'[i].user].id = identity'[i].since
  <2>1. i \notin RowsOf({p}) /\ identity'[i] = identity[i]
    BY <1>3, <1>7, ConstantTypes
  <2>2. identity[i].user \in People /\ identity[i].user # p
    BY <1>7, <2>1, IdentityRow DEF WorkspaceInv, RowsOf
  <2>3. membership[identity[i].user].id = identity[i].since
    BY <1>7, <2>1 DEF WorkspaceInv, LeaversAssertNothing
  <2>4. QED
    BY <1>4, <2>1, <2>2, <2>3
<1>8. LeaversAssertNothing'
  BY <1>7 DEF LeaversAssertNothing
<1>9. QED
  BY <1>3, <1>4, <1>5, <1>6, <1>8

LEMMA PurgeAccountStep ==
  ASSUME WorkspaceInv, NEW s \in Slots, PurgeAccount(s)
  PROVE  WorkspaceInv' /\ RevokedStays
<1> DEFINE w == work[s]
<1>1. /\ w.user \in People /\ work' = [work EXCEPT ![s] = Idle]
      /\ UNCHANGED <<joined, issuedIds, joinedBy>>
  BY WorkFields DEF WorkspaceInv, PurgeAccount, Finish
<1>2. Idle \in Work /\ Idle.op = "idle"
  BY ConstantTypes
<1>3. /\ work' \in [Slots -> Work] /\ EditsRevoke'
      /\ Cardinality(Joiners') \in Nat /\ Cardinality(Joiners') <= Cardinality(Joiners)
      /\ Joiners' \subseteq Joiners
  BY <1>1, <1>2, OneRequest
<1>4. CASE TearDownWorkspace /\ accounts' = accounts \ {w.user}
  <2>1. /\ identity' \in [IdentityIds -> IdentityRows] /\ tombstones' \subseteq IdentityIds
        /\ membership' \in [People -> Memberships] /\ invite' = NoInvite
        /\ invite' \in Invites /\ content' = {} /\ standing' = FALSE
        /\ IssuedInOrder' /\ RevokedStays /\ LeaversAssertNothing'
    BY <1>1, <1>4, TornDown DEF WorkspaceInv
  <2>2. UsesCounted' /\ WorkspacesTypeOK'
    BY <1>1, <1>3, <1>4, <2>1 DEF WorkspaceInv, UsesCounted, WorkspacesTypeOK
  <2>3. QED
    BY <1>3, <2>1, <2>2 DEF WorkspaceInv
<1>5. CASE DropsUser(w.user) /\ standing' = standing /\ content' \subseteq People
  <2>1. /\ accounts' \subseteq People /\ membership' \in [People -> Memberships]
        /\ identity' \in [IdentityIds -> IdentityRows] /\ tombstones' \subseteq IdentityIds
        /\ invite' \in Invites /\ invite'.uses = invite.uses /\ invite'.may = invite.may
        /\ invite = NoInvite <=> invite' = NoInvite
        /\ IssuedInOrder' /\ RevokedStays /\ LeaversAssertNothing'
    BY <1>1, <1>5, UserDropped
  <2>2. UsesCounted'
    <3>1. invite # NoInvite => joinedBy' + Cardinality(Joiners') <= invite'.uses
      BY <1>1, <1>3, <2>1, InviteTypes, JoinersFinite DEF WorkspaceInv, UsesCounted
    <3>2. QED
      BY <1>1, <1>3, <1>5, <2>1, <3>1 DEF WorkspaceInv, UsesCounted
  <2>3. WorkspacesTypeOK'
    BY <1>1, <1>3, <1>5, <2>1 DEF WorkspaceInv, WorkspacesTypeOK
  <2>4. QED
    BY <1>3, <2>1, <2>2, <2>3 DEF WorkspaceInv
<1>6. CASE UNCHANGED <<accounts, standing, membership, invite, identity, tombstones, content>>
  <2>1. WorkspaceInv'
    BY <1>1, <1>2, <1>6, TablesStay
  <2>2. QED
    BY <1>6, <2>1 DEF RevokedStays, StatusOnTheWire
<1>7. ASSUME NEW heir \in Successors(w.user)
      PROVE  heir \in People
  BY <1>7 DEF Successors, AdminsBut, Members
<1>8. CASE /\ standing /\ DropsUser(w.user) /\ UNCHANGED standing
           /\ \E heir \in Successors(w.user) :
                content' = IF w.user \in content THEN (content \ {w.user}) \cup {heir}
                                                 ELSE content
  <2>1. content' \subseteq People
    BY <1>7, <1>8 DEF WorkspaceInv, WorkspacesTypeOK
  <2>2. QED
    BY <1>5, <1>8, <2>1
<1>9. CASE DropsUser(w.user) /\ UNCHANGED <<standing, content>>
  BY <1>5, <1>9 DEF WorkspaceInv, WorkspacesTypeOK
<1>10. QED
  BY <1>4, <1>6, <1>8, <1>9 DEF PurgeAccount

-----------------------------------------------------------------------------
(* The theorems. *)

LEMMA WorkspaceInit == WorkspacesInit => WorkspaceInv
<1> SUFFICES ASSUME WorkspacesInit
             PROVE  WorkspaceInv
  OBVIOUS
<1> USE DEF WorkspacesInit
<1>1. 1 \in 0..MaxJoined /\ 1 \in 1..MaxJoined /\ 0 \in 0..MaxIdentities /\ 0 \in 0..MaxJoined
  BY WorkspaceNumbers
<1>2. [id |-> 1, may |-> Rights, role |-> "admin"] \in Memberships
  BY <1>1 DEF Memberships
<1>3. membership \in [People -> Memberships]
  BY <1>2, ConstantTypes
<1>4. identity \in [IdentityIds -> IdentityRows] /\ work \in [Slots -> Work]
      /\ invite \in Invites
  BY ConstantTypes
<1>5. WorkspacesTypeOK
  BY <1>1, <1>3, <1>4 DEF WorkspacesTypeOK
<1>6. Joiners = {}
  BY ConstantTypes DEF Joiners
<1>7. UsesCounted
  BY <1>6 DEF UsesCounted
<1>8. EditsRevoke /\ IssuedInOrder /\ LeaversAssertNothing
  BY ConstantTypes DEF EditsRevoke, IssuedInOrder, LeaversAssertNothing
<1>9. QED
  BY <1>5, <1>7, <1>8 DEF WorkspaceInv

LEMMA WorkspaceStep == WorkspaceInv /\ [WorkspacesNext]_workspaceVars => WorkspaceInv'
<1> SUFFICES ASSUME WorkspaceInv, [WorkspacesNext]_workspaceVars
             PROVE  WorkspaceInv'
  OBVIOUS
<1>1. CASE UNCHANGED workspaceVars
  BY <1>1 DEF workspaceVars, WorkspaceInv, WorkspacesTypeOK, EditsRevoke, UsesCounted, Joiners,
              IssuedInOrder, LeaversAssertNothing
<1>2. CASE WorkspacesNext
  BY <1>2, AddMemberStep, MintInviteStep, SetInviteStatusStep, RefreshInviteStatusStep,
     EditContentStep, DeleteWorkspaceStep, DeleteIdentityStep, OpenRemovalStep,
     OpenChangeStep, OpenRedemptionStep, OpenClosingStep, OpenIdentityStep, OpenEditStep,
     SaveChangeStep, RemoveStep, ClaimInviteUseStep, JoinStep, InsertIdentityStep,
     SaveEditStep, PurgeAccountStep
     DEF WorkspacesNext
<1>3. QED
  BY <1>1, <1>2

\* Every reachable state is as WorkspaceInv says.
THEOREM WorkspaceInvariant == WorkspacesSpec => []WorkspaceInv
  BY WorkspaceInit, WorkspaceStep, PTL DEF WorkspacesSpec

\* However redemptions, edits of the invite, failing joins and the end of the workspace
\* overlap, no more people join through an invite than it has uses (ClaimInviteUse).
THEOREM JoinsWithinUsesHolds == WorkspacesSpec => []JoinsWithinUses
<1>1. ASSUME WorkspaceInv, invite # NoInvite
      PROVE  joinedBy <= invite.uses /\ invite.uses <= MaxUses
  <2>1. joinedBy + Cardinality(Joiners) <= invite.uses
    BY <1>1 DEF WorkspaceInv, UsesCounted
  <2>2. QED
    BY <1>1, <2>1, InviteTypes, JoinersFinite, WorkspaceNumbers DEF WorkspaceInv
<1>2. WorkspaceInv => JoinsWithinUses
  BY <1>1 DEF JoinsWithinUses
<1>3. QED
  BY <1>2, WorkspaceInvariant, PTL

\* No identity outlives the membership it asserts: removal, teardown and closing revoke
\* or delete it whatever edit was under way (RevokeWorkspaceIdentities, PurgeAccount).
THEOREM LeaversAssertNothingHolds == WorkspacesSpec => []LeaversAssertNothing
<1>1. WorkspaceInv => LeaversAssertNothing
  BY DEF WorkspaceInv
<1>2. QED
  BY <1>1, WorkspaceInvariant, PTL

\* A fingerprint once answered "revoked" is answered so after every step: no edit begun
\* before, no deletion and no closing takes it back (applyRevocationTransition,
\* WriteIdentityTombstone).
THEOREM RevocationIsForeverHolds == WorkspacesSpec => RevocationIsForever
<1>1. ASSUME WorkspaceInv, [WorkspacesNext]_workspaceVars
      PROVE  RevokedStays
  <2>1. CASE UNCHANGED <<identity, tombstones>>
    BY <2>1 DEF RevokedStays, StatusOnTheWire
  <2>2. CASE UNCHANGED workspaceVars
    BY <2>1, <2>2 DEF workspaceVars
  <2>3. ASSUME NEW s \in Slots, Remove(s)
        PROVE  RevokedStays
    <3>1. work[s].user \in People
      BY <1>1, <2>3, WorkFields DEF Remove, WorkspaceInv
    <3>2. RowsOf({work[s].user}) \in SUBSET RowsOf(People)
      BY <3>1 DEF RowsOf
    <3>3. identity' = Revoked(RowsOf({work[s].user})) /\ tombstones' = tombstones
      BY <2>3 DEF Remove, RevokeWorkspaceIdentities
    <3>4. \A i \in IdentityIds :
            /\ i \in RowsOf({work[s].user}) =>
                 identity'[i].status = "revoked" /\ identity[i] # NoIdentity
            /\ i \notin RowsOf({work[s].user}) => identity'[i] = identity[i]
            /\ identity[i] # NoIdentity => identity'[i] # NoIdentity
      BY <1>1, <3>2, <3>3, RevokedRows DEF WorkspaceInv
    <3>5. QED
      BY <3>3, <3>4 DEF RevokedStays, StatusOnTheWire
  <2>4. ASSUME NEW by \in People, NEW p \in People, NEW may \in Lists, AddMember(by, p, may)
        PROVE  RevokedStays
    BY <2>1, <2>4 DEF AddMember
  <2>5. ASSUME NEW by \in People, NEW may \in Lists, MintInvite(by, may)
        PROVE  RevokedStays
    BY <2>1, <2>5 DEF MintInvite, inviteFrame
  <2>6. ASSUME NEW by \in People, SetInviteStatus(by)
        PROVE  RevokedStays
    BY <2>1, <2>6 DEF SetInviteStatus, inviteFrame
  <2>7. CASE RefreshInviteStatus
    BY <2>1, <2>7 DEF RefreshInviteStatus, inviteFrame
  <2>8. ASSUME NEW p \in Writers, EditContent(p)
        PROVE  RevokedStays
    BY <2>1, <2>8 DEF EditContent
  <2>9. ASSUME NEW s \in Slots, NEW by \in People, NEW p \in People,
               OpenRemoval(s, by, p) \/ \E may \in Lists : OpenChange(s, by, p, may)
        PROVE  RevokedStays
    BY <2>1, <2>9 DEF OpenRemoval, OpenChange
  <2>10. ASSUME NEW s \in Slots, NEW p \in People,
                OpenRedemption(s, p) \/ OpenClosing(s, p) \/ OpenIdentity(s, p)
         PROVE  RevokedStays
    BY <2>1, <2>10 DEF OpenRedemption, OpenClosing, OpenIdentity, inviteFrame
  <2>11. ASSUME NEW s \in Slots, NEW p \in People, NEW i \in IdentityIds,
                NEW status \in IdentityStatuses, OpenEdit(s, p, i, status)
         PROVE  RevokedStays
    BY <2>1, <2>11 DEF OpenEdit
  <2>12. ASSUME NEW s \in Slots, SaveChange(s) \/ ClaimInviteUse(s) \/ Join(s)
         PROVE  RevokedStays
    BY <2>1, <2>12 DEF SaveChange, ClaimInviteUse, Join, inviteFrame
  <2>13. QED
    BY <1>1, <2>2, <2>3, <2>4, <2>5, <2>6, <2>7, <2>8, <2>9, <2>10, <2>11, <2>12,
       DeleteWorkspaceStep, DeleteIdentityStep, InsertIdentityStep, SaveEditStep,
       PurgeAccountStep
       DEF WorkspacesNext
<1>2. WorkspaceInv /\ [WorkspacesNext]_workspaceVars => [RevokedStays]_workspaceVars
  BY <1>1
<1>3. WorkspacesSpec => [][RevokedStays]_workspaceVars
  BY <1>2, WorkspaceInvariant, PTL DEF WorkspacesSpec
<1>4. QED
  BY <1>3 DEF RevocationIsForever, RevokedStays

=============================================================================
