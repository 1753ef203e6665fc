---------------------------- MODULE Workspaces ----------------------------
(***************************************************************************)
(* One workspace: its members and what each may do, an invite, the         *)
(* identities issued in it, the vault content its members wrote, and the   *)
(* closing of accounts.  A request checks, then saves: the checks run      *)
(* before the write's transaction, so requests overlap between the two.    *)
(*                                                                         *)
(* Rights are the two scopes the guards tell apart.  What losing the vault *)
(* scope does to keys is in Sealed.  API keys, superusers, a member's edit *)
(* of another's identity and the features of an invite are left out.       *)
(***************************************************************************)
EXTENDS Integers, FiniteSets

CONSTANTS People, Founder, NoPerson,
          Lists,         \* the permission lists asked for
          Writers,       \* people who write records in the workspace
          MaxMembers,    \* MaximumWorkspaceMembers
          MaxUses,       \* maxUses of the invite
          MaxJoined,     \* bound on memberships ever begun
          MaxIdentities, \* bound on identities ever issued
          Slots          \* requests between check and save at once

ASSUME WorkspacesAssumption ==
  /\ Founder \in People /\ NoPerson \notin People
  /\ IsFiniteSet(People) /\ IsFiniteSet(Slots)
  /\ Lists \subseteq SUBSET {"invite", "manage"} /\ Writers \subseteq People
  /\ {MaxMembers, MaxUses, MaxJoined} \subseteq Nat \ {0}
  /\ MaxIdentities \in Nat

VARIABLES accounts,    \* the users rows
          standing,    \* the workspaces row is there
          membership,  \* workspaceMembers: per person, id 0 for no row
          invite,      \* the invites row
          identity,    \* the identities rows, by fingerprint
          tombstones,  \* identityRevocations
          content,     \* people in whose name the workspace holds records
          work,        \* requests between their checks and their save
          joined,      \* memberships begun so far
          issuedIds,   \* identities issued so far
          joinedBy     \* history: memberships begun through the invite

workspaceVars == <<accounts, standing, membership, invite, identity, tombstones,
                   content, work, joined, issuedIds, joinedBy>>

\* workspaceMembers:create; the scopes to update and delete members and to
\* delete the workspace.
Rights == {"invite", "manage"}
NoMembership == [id |-> 0, may |-> {}, role |-> "none"]
Memberships == [id : 0..MaxJoined, may : SUBSET Rights, role : {"none", "member", "admin"}]
\* live: its status is active rather than revoked, expired or completed, which
\* no guard tells apart.  by is invitedBy: here every invite is a person's.
NoInvite == [live |-> FALSE, may |-> {}, uses |-> 0, by |-> NoPerson]
Invites == [live : BOOLEAN, may : SUBSET Rights, uses : 0..MaxUses,
            by : People \cup {NoPerson}]
IdentityStatuses == {"active", "revoked"}
NoIdentity == [user |-> NoPerson, status |-> "none", since |-> 0]
IdentityRows == {NoIdentity} \cup
  [user : People, status : IdentityStatuses, since : 0..MaxJoined]
IdentityIds == 1..MaxIdentities

Idle == [op |-> "idle"]
Work ==
  {Idle}
  \cup [op : {"change"}, user : People, was : Memberships, now : Memberships]
  \cup [op : {"remove"}, user : People, id : 1..MaxJoined]
  \cup [op : {"redeem"}, user : People, used : 0..MaxUses]
  \cup [op : {"join"}, user : People]
  \cup [op : {"insert"}, user : People]
  \cup [op : {"edit"}, id : IdentityIds, was : IdentityStatuses, now : IdentityStatuses]
  \cup [op : {"close"}, user : People, shape : {"none", "sole", "shared"}]

WorkspacesInit ==
  /\ accounts = People /\ standing = TRUE
  /\ membership = [p \in People |-> IF p = Founder
                     THEN [id |-> 1, may |-> Rights, role |-> "admin"] ELSE NoMembership]
  /\ invite = NoInvite /\ identity = [i \in IdentityIds |-> NoIdentity]
  /\ tombstones = {} /\ content = {} /\ work = [s \in Slots |-> Idle]
  /\ joined = 1 /\ issuedIds = 0 /\ joinedBy = 0

Member(p) == membership[p].id # 0
Members == {p \in People : Member(p)}
\* A row with no permissions stands on its role.
MemberScopes(row) == IF row.may = {} /\ row.role = "admin" THEN Rights ELSE row.may
CanAdminister(row) == "invite" \in MemberScopes(row)
AdminsBut(p) == {q \in People \ {p} : CanAdminister(membership[q])}
May(p, right) == p \in accounts /\ right \in MemberScopes(membership[p])
SyncRole(row) == [row EXCEPT !.role = IF CanAdminister(row) THEN "admin" ELSE "member"]
\* A save writes the columns that differ from the copy it was loaded as.
Saved(row, was, now) ==
  [row EXCEPT !.may  = IF now.may # was.may THEN now.may ELSE @,
              !.role = IF now.role # was.role THEN now.role ELSE @]

Takes(s, request) == work[s] = Idle /\ work' = [work EXCEPT ![s] = request]
Finish(s) == work' = [work EXCEPT ![s] = Idle]

(***************************************************************************)
(* Members                                                                 *)
(***************************************************************************)
CanJoin(p) == /\ standing /\ p \in accounts /\ ~Member(p)
              /\ Cardinality(Members) < MaxMembers

Joins(p, may) ==
  /\ membership' = [membership EXCEPT ![p] =
                      SyncRole([id |-> joined + 1, may |-> may, role |-> "member"])]
  /\ joined' = joined + 1

AddMember(by, p, may) ==
  /\ May(by, "invite") /\ may \subseteq MemberScopes(membership[by])
  /\ CanJoin(p) /\ joined < MaxJoined /\ Joins(p, may)
  /\ UNCHANGED <<accounts, standing, invite, identity, tombstones, content, work,
                 issuedIds, joinedBy>>

\* The guard on the last administrator, for a row that would become edited.
KeepsAdmin(p, edited) == CanAdminister(edited) \/ AdminsBut(p) # {}

OpenChange(s, by, p, may) ==
  /\ May(by, "manage") /\ may \subseteq MemberScopes(membership[by]) /\ Member(p)
  /\ LET edited == [membership[p] EXCEPT !.may = may] IN
       /\ KeepsAdmin(p, edited)
       /\ Takes(s, [op |-> "change", user |-> p, was |-> membership[p],
                now |-> SyncRole(edited)])
  /\ UNCHANGED <<accounts, standing, membership, invite, identity, tombstones, content,
                 joined, issuedIds, joinedBy>>

SaveChange(s) == LET w == work[s] IN
  /\ w.op = "change" /\ Finish(s)
  /\ IF membership[w.user].id = w.was.id
       THEN membership' = [membership EXCEPT ![w.user] = Saved(@, w.was, w.now)]
       ELSE UNCHANGED membership
  /\ UNCHANGED <<accounts, standing, invite, identity, tombstones, content, joined,
                 issuedIds, joinedBy>>

\* The guard on a removal: services.WorkspaceAdminCount without this row.
Removable(p) == CanAdminister(membership[p]) => AdminsBut(p) # {}

OpenRemoval(s, by, p) ==
  /\ May(by, "manage") /\ Member(p) /\ Removable(p)
  /\ Takes(s, [op |-> "remove", user |-> p, id |-> membership[p].id])
  /\ UNCHANGED <<accounts, standing, membership, invite, identity, tombstones, content,
                 joined, issuedIds, joinedBy>>

RowsOf(people) == {i \in IdentityIds : identity[i].user \in people}
Revoked(rows) == [i \in IdentityIds |->
  IF i \in rows THEN [identity[i] EXCEPT !.status = "revoked"] ELSE identity[i]]
RevokeWorkspaceIdentities(p) == identity' = Revoked(RowsOf({p}))

\* The delete hook revokes whatever row the request found, gone by now or not.
Remove(s) == LET w == work[s] IN
  /\ w.op = "remove" /\ Finish(s)
  /\ IF membership[w.user].id = w.id
       THEN membership' = [membership EXCEPT ![w.user] = NoMembership]
       ELSE UNCHANGED membership
  /\ RevokeWorkspaceIdentities(w.user)
  /\ UNCHANGED <<accounts, standing, invite, tombstones, content, joined, issuedIds,
                 joinedBy>>

(***************************************************************************)
(* The invite                                                              *)
(***************************************************************************)
inviteFrame == <<accounts, standing, membership, identity, tombstones, content, joined,
                 issuedIds, joinedBy>>

MintInvite(by, may) ==
  /\ standing /\ invite = NoInvite /\ May(by, "invite")
  /\ may # {} /\ may \subseteq MemberScopes(membership[by])
  /\ invite' = [NoInvite EXCEPT !.live = TRUE, !.may = may, !.by = by]
  /\ UNCHANGED <<work, inviteFrame>>

SetInviteStatus(by) ==
  /\ invite # NoInvite /\ May(by, "invite")
  /\ invite.may \subseteq MemberScopes(membership[by])
  /\ invite' = [invite EXCEPT !.live = ~@]
  /\ UNCHANGED <<work, inviteFrame>>

\* RefreshInviteStatus settles an active invite that is used up or whose time
\* has come, which here may be any time.
RefreshInviteStatus ==
  /\ invite.live
  /\ invite' = [invite EXCEPT !.live = FALSE]
  /\ UNCHANGED <<work, inviteFrame>>

InviterCanStillInvite ==
  invite.by # NoPerson => CanAdminister(membership[invite.by])

OpenRedemption(s, p) ==
  /\ joined < MaxJoined
  /\ p \in accounts /\ invite.live /\ invite.uses < MaxUses
  /\ ~Member(p) /\ InviterCanStillInvite
  /\ Takes(s, [op |-> "redeem", user |-> p, used |-> invite.uses])
  /\ UNCHANGED <<invite, inviteFrame>>

\* The UPDATE's WHERE, and the same test on the copy the request loaded.
UseLeftInCopy(w) == invite # NoInvite /\ w.used < MaxUses
UseLeft(w) == invite # NoInvite /\ invite.uses < MaxUses

\* The count in the copy decides whether the invite is closed.
ClaimInviteUse(s) == LET w == work[s] IN
  /\ w.op = "redeem"
  /\ IF UseLeft(w)
       THEN /\ invite' = [invite EXCEPT !.uses = @ + 1,
                            !.live = @ /\ w.used + 1 < MaxUses]
            /\ work' = [work EXCEPT ![s] = [op |-> "join", user |-> w.user]]
       ELSE Finish(s) /\ UNCHANGED invite
  /\ UNCHANGED inviteFrame

\* The use stays spent when the membership cannot be saved.
Join(s) == LET w == work[s] IN
  /\ w.op = "join" /\ joined < MaxJoined /\ Finish(s)
  /\ IF CanJoin(w.user) THEN Joins(w.user, invite.may) /\ joinedBy' = joinedBy + 1
                        ELSE UNCHANGED <<membership, joined, joinedBy>>
  /\ UNCHANGED <<accounts, standing, invite, identity, tombstones, content, issuedIds>>

(***************************************************************************)
(* Identities                                                              *)
(***************************************************************************)
identityFrame == <<accounts, standing, membership, invite, content, joined, joinedBy>>

OpenIdentity(s, p) ==
  /\ issuedIds < MaxIdentities
  /\ p \in accounts /\ Member(p) /\ Takes(s, [op |-> "insert", user |-> p])
  /\ UNCHANGED <<identity, tombstones, issuedIds, identityFrame>>

InsertIdentity(s) == LET w == work[s] IN
  /\ w.op = "insert" /\ issuedIds < MaxIdentities /\ Finish(s)
  /\ IF standing /\ w.user \in accounts
       THEN /\ issuedIds' = issuedIds + 1
            /\ identity' = [identity EXCEPT ![issuedIds + 1] =
                 [user |-> w.user, status |-> "active", since |-> membership[w.user].id]]
       ELSE UNCHANGED <<issuedIds, identity>>
  /\ UNCHANGED <<tombstones, identityFrame>>

\* applyRevocationTransition: a revoked identity stays so, whatever is sent.
OpenEdit(s, p, i, status) ==
  /\ p \in accounts /\ Member(p) /\ identity[i].user = p
  /\ LET was == identity[i].status IN
       Takes(s, [op |-> "edit", id |-> i, was |-> was,
                 now |-> IF was = "revoked" THEN was ELSE status])
  /\ UNCHANGED <<identity, tombstones, issuedIds, identityFrame>>

\* The status is written if the edit changed it.
SavedStatusAsSent(row, w) == [row EXCEPT !.status = w.now]
SavedStatus(row, w) == IF w.now = w.was THEN row ELSE [row EXCEPT !.status = w.now]

SaveEdit(s) == LET w == work[s] IN
  /\ w.op = "edit" /\ Finish(s)
  /\ identity' = [identity EXCEPT ![w.id] =
                    IF @ = NoIdentity THEN @ ELSE SavedStatus(@, w)]
  /\ UNCHANGED <<tombstones, issuedIds, identityFrame>>

\* WriteIdentityTombstone, in the transaction that deletes the rows.
DeletedWithoutRevoked(rows) ==
  /\ identity' = [i \in IdentityIds |-> IF i \in rows THEN NoIdentity ELSE identity[i]]
  /\ tombstones' = tombstones \cup {i \in rows : identity[i].status = "active"}
Deleted(rows) ==
  /\ identity' = [i \in IdentityIds |-> IF i \in rows THEN NoIdentity ELSE identity[i]]
  /\ tombstones' = tombstones \cup rows

DeleteIdentity(p, i) ==
  /\ Member(p) /\ p \in accounts /\ identity[i].user = p
  /\ Deleted({i})
  /\ UNCHANGED <<work, issuedIds, identityFrame>>

\* What the identity's fingerprint is answered with.
StatusOnTheWire(i) == IF identity[i] # NoIdentity THEN identity[i].status
                      ELSE IF i \in tombstones THEN "revoked" ELSE "unknown"

(***************************************************************************)
(* Content, the workspace, and closing an account                          *)
(***************************************************************************)
EditContent(p) ==
  /\ p \in accounts /\ Member(p)
  /\ content' = IF p \in content THEN content \ {p} ELSE content \cup {p}
  /\ UNCHANGED <<accounts, standing, membership, invite, identity, tombstones, work,
                 joined, issuedIds, joinedBy>>

TearDownWorkspace ==
  /\ standing' = FALSE /\ invite' = NoInvite /\ content' = {}
  /\ membership' = [p \in People |-> NoMembership]
  /\ Deleted(RowsOf(People))

DeleteWorkspace(by) ==
  /\ standing /\ May(by, "manage") /\ TearDownWorkspace
  /\ UNCHANGED <<accounts, work, joined, issuedIds, joinedBy>>

\* Whether the closing takes the workspace along, before its transaction.
ShapeOf(p) == CASE ~Member(p)     -> "none"
                [] Members = {p}  -> "sole"
                [] OTHER          -> "shared"

OpenClosing(s, p) ==
  /\ p \in accounts
  /\ ShapeOf(p) = "shared" => Removable(p)
  /\ Takes(s, [op |-> "close", user |-> p, shape |-> ShapeOf(p)])
  /\ UNCHANGED <<accounts, standing, membership, invite, identity, tombstones, content,
                 joined, issuedIds, joinedBy>>

\* Who may inherit: an administrator if one is left.
Successors(p) == IF AdminsBut(p) # {} THEN AdminsBut(p) ELSE Members \ {p}

\* PocketBase refuses to delete a user a required relation still names, clears
\* the ones that may be empty, and deletes the memberships with their hooks.
DropsUser(p) ==
  /\ accounts' = accounts \ {p}
  /\ invite' = IF invite.by = p THEN [invite EXCEPT !.by = NoPerson] ELSE invite
  /\ membership' = [membership EXCEPT ![p] = NoMembership]
  /\ Deleted(RowsOf({p}))

PurgeAccount(s) == LET w == work[s] IN
  /\ w.op = "close" /\ Finish(s)
  /\ \/ /\ w.user \in accounts /\ w.shape = "sole" /\ standing /\ TearDownWorkspace
        /\ accounts' = accounts \ {w.user}
     \/ /\ w.user \in accounts /\ w.shape = "shared" /\ standing
        /\ \E heir \in Successors(w.user) :
             content' = IF w.user \in content THEN (content \ {w.user}) \cup {heir}
                                              ELSE content
        /\ DropsUser(w.user) /\ UNCHANGED standing
     \/ /\ w.user \in accounts /\ w.shape = "none" /\ w.user \notin content
        /\ DropsUser(w.user) /\ UNCHANGED <<standing, content>>
     \/ /\ \/ w.user \notin accounts
           \/ w.shape = "none" /\ w.user \in content
           \/ w.shape = "sole" /\ ~standing
           \/ w.shape = "shared" /\ Successors(w.user) = {}
        /\ UNCHANGED <<accounts, standing, membership, invite, identity, tombstones,
                       content>>
  /\ UNCHANGED <<joined, issuedIds, joinedBy>>

WorkspacesNext ==
  \/ \E by, p \in People, may \in Lists : AddMember(by, p, may)
  \/ \E by \in People, may \in Lists : MintInvite(by, may)
  \/ \E by \in People : SetInviteStatus(by)
  \/ RefreshInviteStatus
  \/ \E p \in Writers : EditContent(p)
  \/ \E p \in People : DeleteWorkspace(p) \/ \E i \in IdentityIds : DeleteIdentity(p, i)
  \/ \E s \in Slots :
       \/ \E by, p \in People : OpenRemoval(s, by, p)
                                \/ \E may \in Lists : OpenChange(s, by, p, may)
       \/ \E p \in People : \/ OpenRedemption(s, p) \/ OpenClosing(s, p)
                            \/ OpenIdentity(s, p)
       \/ \E p \in People, i \in IdentityIds, status \in IdentityStatuses :
            OpenEdit(s, p, i, status)
       \/ SaveChange(s) \/ Remove(s) \/ ClaimInviteUse(s) \/ Join(s)
       \/ InsertIdentity(s) \/ SaveEdit(s) \/ PurgeAccount(s)

WorkspacesSpec == WorkspacesInit /\ [][WorkspacesNext]_workspaceVars

(***************************************************************************)
(* Properties                                                              *)
(***************************************************************************)
\* Every variable has its type.
WorkspacesTypeOK ==
  /\ accounts \subseteq People /\ standing \in BOOLEAN
  /\ membership \in [People -> Memberships] /\ invite \in Invites
  /\ identity \in [IdentityIds -> IdentityRows] /\ tombstones \subseteq IdentityIds
  /\ content \subseteq People /\ work \in [Slots -> Work]
  /\ joined \in 1..MaxJoined /\ issuedIds \in 0..MaxIdentities
  /\ joinedBy \in 0..MaxJoined

\* However redemptions of the last use, edits of the invite and failing joins
\* overlap, no more people join through an invite than it has uses.
JoinsWithinUses == invite # NoInvite => joinedBy <= invite.uses /\ invite.uses <= MaxUses

\* An identity issued to a member asserts the membership it was issued in and no
\* other: none is active once that row is gone, also not after the person is
\* added again, whichever of removal, teardown or closing took the row away and
\* whatever edit of the identity was under way.
LeaversAssertNothing == \A i \in IdentityIds :
  identity[i].status = "active" /\ identity[i].since # 0
    => membership[identity[i].user].id = identity[i].since

\* A fingerprint once answered "revoked" is answered so for good: through edits
\* begun before the revocation, deletion of the row, teardown and closing.
RevocationIsForever == [][\A i \in IdentityIds :
  StatusOnTheWire(i) = "revoked" => StatusOnTheWire(i)' = "revoked"]_workspaceVars

\* hooks/workspaceMembers.go:44: "a workspace must always keep someone who can
\* manage membership".
AlwaysAdministered == Members # {} => \E p \in Members : CanAdminister(membership[p])

\* services/account.go:37: content is handed over, since left dangling "it
\* refuses the account's own deletion".
ClosingNotRefused == [][\A s \in Slots :
  work[s].op = "close" /\ work'[s] = Idle /\ work[s].shape = "none"
    /\ ~Member(work[s].user) => work[s].user \notin accounts']_workspaceVars

\* routes/publicInvites.go: "a token minted before they lost it must not outlive
\* it": a redemption begins only while who minted the invite may invite.
InviteDiesWithInviter == [][\A s \in Slots :
  work[s] = Idle /\ work'[s].op = "redeem" =>
    invite.by # NoPerson /\ CanAdminister(membership[invite.by])]_workspaceVars

=============================================================================
