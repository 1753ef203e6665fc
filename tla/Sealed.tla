------------------------------- MODULE Sealed -------------------------------
(***************************************************************************)
(* Sealed vault keys: every person's signed list of devices, the key       *)
(* epochs of a scope (one workspace, or a person's own account), the       *)
(* copies of those keys wrapped for devices, and one record of the         *)
(* workspace that is sealed, rewritten and unsealed under them.            *)
(*                                                                         *)
(* Each route is one transaction that checks everything again, except for  *)
(* the membership read by startSealedEpoch and the row a PATCH has loaded. *)
(* A change of a membership is no transaction: its hook withdraws the      *)
(* copies one statement after the other, once the row is written.          *)
(***************************************************************************)
EXTENDS Integers, Sequences, FiniteSets
LOCAL INSTANCE Functions

CONSTANTS Users, Admins, Passkeys,
          Vault,         \* the scope of the workspace's key
          Accounts,      \* people whose account key is modelled
          Changes,       \* changes of memberships under way at a time
          MaxLive,       \* MaxSealedLiveEntries
          MaxEntries,    \* bound on the entries of all lists together
          MaxEpochs,     \* bound on the epochs of all scopes together
          MaxVersions,   \* bound on the record's version
          MaxShuffles    \* bound on membership changes and resets

ASSUME SealedAssumption ==
  /\ Users # {} /\ Accounts \subseteq Users /\ Admins \subseteq Users /\ Vault \notin Users
  /\ Passkeys \cap {"device", "recovery"} = {}
  /\ MaxLive \in Nat /\ MaxEntries \in Nat /\ MaxEpochs \in Nat
  /\ MaxVersions \in Nat \ {0} /\ MaxShuffles \in Nat

VARIABLES chain,     \* deviceKeys: per person, the entries in order of seq
          member,    \* workspaceMembers: what each person's row permits
          keyEpoch,  \* per scope: the newest key epoch, 0 before the first
          due,       \* per scope: rotationDue of that epoch
          wraps,     \* workspaceKeyWraps and accountKeyWraps
          entry,     \* the record
          pending,   \* the request between its load and its transaction
          change,    \* per change of a membership: where it is
          leaked,    \* history: keys someone had a copy of and was denied since
          unmarked,  \* history: those a withdrawal missed or was cut short on
          shuffles   \* bounded counter

keyVars == <<keyEpoch, due, wraps, leaked>>
changeVars == <<change, unmarked>>
sealedVars == <<chain, member, keyEpoch, due, wraps, entry, pending, change, leaked, unmarked,
                shuffles>>

Scopes == {Vault} \cup Accounts
Kinds == {"device", "recovery"} \cup Passkeys
Permissions == {"none", "blind", "reader", "admin"}
Entries == [action : {"add", "remove"}, kind : Kinds, target : 0..MaxEntries]
Wraps == [scope : Scopes, epoch : 1..MaxEpochs, user : Users, device : 1..MaxEntries]
Keys == [scope : Scopes, epoch : 1..MaxEpochs]
Contents == [exists : BOOLEAN, sealed : BOOLEAN, plain : BOOLEAN, version : 0..MaxVersions,
             under : 0..MaxEpochs, linked : BOOLEAN]
Gone == [exists |-> FALSE, sealed |-> FALSE, plain |-> FALSE, version |-> 0,
         under |-> 0, linked |-> FALSE]
\* pc "epoch" keeps the caller and whether it may create records, "patch" the
\* version of the loaded row.
Pendings == [pc : {"none", "epoch", "patch"}, user : Users, creates : BOOLEAN,
             version : 0..MaxVersions]
NoPending == [pc |-> "none", user |-> CHOOSE u \in Users : TRUE, creates |-> FALSE,
              version |-> 0]

\* A change keeps what it writes and whether the loaded row could read; the hook then
\* keeps the copies it found and not yet deleted, the keys they open, and the epoch it
\* loaded to mark.
Change == [pc : {"idle", "save", "find", "delete", "mark"}, user : Users, to : Permissions,
           couldRead : BOOLEAN, rows : SUBSET Wraps, lost : SUBSET Keys, epoch : 0..MaxEpochs]
Idle == [pc |-> "idle", user |-> CHOOSE u \in Users : TRUE, to |-> "none",
         couldRead |-> FALSE, rows |-> {}, lost |-> {}, epoch |-> 0]

Total(f) == FoldFunction(LAMBDA x, sum : x + sum, 0, f)

\* SealedChain: which entries are live, and which entry may come next.
LiveIn(list) == {n \in DOMAIN list :
                   /\ list[n].action = "add"
                   /\ ~ \E m \in DOMAIN list : list[m].action = "remove" /\ list[m].target = n}
Live(u) == LiveIn(chain[u])

Acceptable(list, e) ==
  IF list = <<>> THEN e.action = "add" /\ e.kind = "device"
  ELSE /\ LiveIn(list) # {}                          \* a live signer
       /\ \/ e.action = "remove" /\ e.target \in LiveIn(list)
          \/ /\ e.action = "add" /\ e.target = 0
             /\ Cardinality(LiveIn(list)) < MaxLive
             /\ e.kind = "device" \/ \A n \in LiveIn(list) : list[n].kind # e.kind

Holds(u, s) == \E w \in wraps : w.scope = s /\ w.user = u /\ w.epoch = keyEpoch[s]
IsMember(u) == member[u] # "none"
MemberCanReadRecords(u) == member[u] \in {"reader", "admin"}
MemberCanAdminister(u) == member[u] = "admin"

\* The hook withdraws from who could read when the row was loaded; the UPDATE denies who
\* can read when it is written.
Revokes(c) == change[c].couldRead /\ change[c].to = "blind"
Denies(c) == MemberCanReadRecords(change[c].user) /\ change[c].to = "blind"

\* MarkKeyRotationDue and MarkAccountKeyRotationDue, for every scope in S.
MarkRotationDue(S) == due' = [s \in Scopes |-> due[s] \/ (s \in S /\ keyEpoch[s] # 0)]

\* A wrap opens its own key and, through the prior wraps, every older one.
Opened(W) == {k \in Keys : \E w \in W : w.scope = k.scope /\ k.epoch <= w.epoch}

CopiesOf(u) == {w \in wraps : w.user = u /\ w.scope = Vault}

\* Rows that are gone are no longer there for a withdrawal to delete.
Forget(W) == [c \in Changes |-> [change[c] EXCEPT !.rows = @ \ W]]

SealedInit ==
  /\ chain = [u \in Users |-> <<>>]
  /\ member = [u \in Users |-> IF u \in Admins THEN "admin" ELSE "reader"]
  /\ keyEpoch = [s \in Scopes |-> 0] /\ due = [s \in Scopes |-> FALSE]
  /\ wraps = {} /\ leaked = {}
  /\ change = [c \in Changes |-> Idle] /\ unmarked = {}
  /\ entry = [Gone EXCEPT !.exists = TRUE, !.plain = TRUE, !.linked = TRUE]
  /\ pending = NoPending
  /\ shuffles = 0

-----------------------------------------------------------------------------
(* Devices. *)

\* Variant: only copies of the newest key are withdrawn.
WithdrawnNewest(u, d) ==
  {w \in wraps : w.user = u /\ w.device = d /\ w.epoch = keyEpoch[w.scope]}

\* What withdrawDeviceWraps takes: the device's copies of every key.
Withdrawn(u, d) == {w \in wraps : w.user = u /\ w.device = d}

CopiesFor(u, D) == {[scope |-> s, epoch |-> k, user |-> u, device |-> d] :
                      s \in Scopes, k \in 1..MaxEpochs, d \in D}

\* saveSealedWraps and saveAccountWrap accept a copy for a live device of the
\* caller, of a key that exists, and never replace one.
Storable(w, list, left) ==
  /\ w.device \in LiveIn(list)
  /\ w.scope \in Users => w.scope = w.user
  /\ w.scope = Vault => IsMember(w.user)
  /\ w.epoch <= keyEpoch[w.scope]
  /\ w \notin left

AppendDevices(u) ==
  /\ Len(chain[u]) < MaxEntries
  /\ Total([v \in Users |-> Len(chain[v])]) < MaxEntries
  /\ \E e \in {e \in Entries : Acceptable(chain[u], e)} :
    LET list == Append(chain[u], e)
        taken == IF e.action = "remove" THEN Withdrawn(u, e.target) ELSE {}
        left == wraps \ taken
    IN /\ e.action = "remove" => e.kind = "device"
       /\ \E given \in {{}} \cup {{w} : w \in CopiesFor(u, LiveIn(list))} :
            /\ \A w \in given : Storable(w, list, left)
            /\ wraps' = left \cup given
       /\ chain' = [chain EXCEPT ![u] = list]
       /\ MarkRotationDue({w.scope : w \in taken})
       /\ leaked' = leaked \cup Opened(taken)
       /\ change' = Forget(taken)
       /\ UNCHANGED <<member, keyEpoch, entry, pending, unmarked, shuffles>>

\* resetSealing: the list and the copies go; where nobody else has a copy, the
\* sealed records and the keys go with them, elsewhere a new key is due.
\* resetAccountKey deletes the account key itself.  A PATCH of a deleted record
\* finds nothing to save, and a record created later has another id.
Reset(u) ==
  LET mine == {w \in wraps : w.user = u}
      left == wraps \ mine
      held == {w.scope : w \in mine} \cap {Vault}
      dead == {s \in held : \A w \in left : w.scope # s} \cup ({u} \cap Accounts)
  IN /\ shuffles < MaxShuffles /\ shuffles' = shuffles + 1
     /\ chain' = [chain EXCEPT ![u] = <<>>]
     /\ wraps' = left
     /\ keyEpoch' = [s \in Scopes |-> IF s \in dead THEN 0 ELSE keyEpoch[s]]
     /\ due' = [s \in Scopes |-> s \notin dead /\ (due[s] \/ s \in held)]
     /\ leaked' = {k \in leaked \cup Opened(mine) : k.scope \notin dead}
     /\ unmarked' = {k \in unmarked : k.scope \notin dead}
     /\ change' = IF Vault \in dead
                  THEN [c \in Changes |-> [Forget(mine)[c] EXCEPT !.lost = {}, !.epoch = 0]]
                  ELSE Forget(mine)
     /\ IF Vault \in dead /\ entry.sealed
        THEN entry' = Gone /\ pending' = IF pending.pc = "patch" THEN NoPending ELSE pending
        ELSE UNCHANGED <<entry, pending>>
     /\ UNCHANGED member

-----------------------------------------------------------------------------
(* Members. *)

AddMember(u, permission) ==
  /\ shuffles < MaxShuffles /\ shuffles' = shuffles + 1
  /\ ~IsMember(u)
  /\ member' = [member EXCEPT ![u] = permission]
  /\ UNCHANGED <<chain, keyVars, entry, pending, changeVars>>

\* The delete hook shares the delete's transaction.  A change of the row that is under
\* way writes nothing any more, and its hook runs all the same.
RemoveMember(u) ==
  LET lost == CopiesOf(u)
      Orphaned(c) == IF change[c].pc = "save" /\ change[c].user = u
                     THEN IF Revokes(c) THEN [Idle EXCEPT !.pc = "find", !.user = u] ELSE Idle
                     ELSE Forget(lost)[c]
  IN /\ shuffles < MaxShuffles /\ shuffles' = shuffles + 1
     /\ IsMember(u)
     /\ MemberCanAdminister(u) => \E v \in Users \ {u} : MemberCanAdminister(v)
     /\ member' = [member EXCEPT ![u] = "none"]
     /\ wraps' = wraps \ lost
     /\ leaked' = leaked \cup Opened(lost)
     /\ MarkRotationDue({w.scope : w \in lost})
     /\ change' = [c \in Changes |-> Orphaned(c)]
     /\ UNCHANGED <<chain, keyEpoch, entry, pending, unmarked>>

\* A PATCH of a membership: the load, with the check that someone else can administer.
OpenChange(c, u, permission) ==
  /\ shuffles < MaxShuffles /\ shuffles' = shuffles + 1
  /\ change[c].pc = "idle" /\ IsMember(u) /\ permission # member[u]
  /\ permission # "admin" => \E v \in Users \ {u} : MemberCanAdminister(v)
  /\ change' = [change EXCEPT ![c] = [Idle EXCEPT !.pc = "save", !.user = u, !.to = permission,
                                                  !.couldRead = MemberCanReadRecords(u)]]
  /\ UNCHANGED <<chain, member, keyVars, entry, pending, unmarked>>

\* Variant: the update hook is missing, so only a removal revokes.
SaveChangeUnhooked(c) ==
  /\ change[c].pc = "save"
  /\ member' = [member EXCEPT ![change[c].user] = change[c].to]
  /\ leaked' = IF Denies(c) THEN leaked \cup Opened(CopiesOf(change[c].user)) ELSE leaked
  /\ change' = [change EXCEPT ![c] = Idle]
  /\ UNCHANGED <<chain, keyEpoch, due, wraps, entry, pending, unmarked, shuffles>>

\* The UPDATE. Its hook goes by the row as it was loaded, whatever was stored since.
SaveChange(c) ==
  LET u == change[c].user
      denied == IF Denies(c) THEN Opened(CopiesOf(u)) ELSE {}
  IN /\ change[c].pc = "save"
     /\ member' = [member EXCEPT ![u] = change[c].to]
     /\ leaked' = leaked \cup denied
     /\ IF Revokes(c)
        THEN /\ change' = [change EXCEPT ![c] = [Idle EXCEPT !.pc = "find", !.user = u]]
             /\ UNCHANGED unmarked
        ELSE change' = [change EXCEPT ![c] = Idle] /\ unmarked' = unmarked \cup denied
     /\ UNCHANGED <<chain, keyEpoch, due, wraps, entry, pending, shuffles>>

\* RevokeSealedAccess after the UPDATE: the copies are found, deleted one by one, and the
\* newest epoch is loaded and marked, each by a statement of its own.
FindCopies(c) ==
  LET rows == CopiesOf(change[c].user) IN
    /\ change[c].pc = "find"
    /\ leaked' = leaked \cup Opened(rows)
    /\ change' = [change EXCEPT ![c] = IF rows = {} THEN Idle
                    ELSE [@ EXCEPT !.pc = "delete", !.rows = rows, !.lost = Opened(rows)]]
    /\ UNCHANGED <<chain, member, keyEpoch, due, wraps, entry, pending, unmarked, shuffles>>

DeleteCopy(c, w) ==
  /\ change[c].pc = "delete" /\ w \in change[c].rows
  /\ wraps' = wraps \ {w}
  /\ change' = Forget({w})
  /\ UNCHANGED <<chain, member, keyEpoch, due, entry, pending, leaked, unmarked, shuffles>>

CurrentKeyEpoch(c) ==
  /\ change[c].pc = "delete" /\ change[c].rows = {}
  /\ change' = [change EXCEPT ![c] = IF keyEpoch[Vault] = 0 THEN Idle
                  ELSE [@ EXCEPT !.pc = "mark", !.epoch = keyEpoch[Vault]]]
  /\ UNCHANGED <<chain, member, keyVars, entry, pending, unmarked, shuffles>>

\* Marking a key that was replaced, or is gone, since it was loaded changes nothing here.
MarkEpoch(c) ==
  /\ change[c].pc = "mark"
  /\ MarkRotationDue(IF change[c].epoch = keyEpoch[Vault] THEN {Vault} ELSE {})
  /\ change' = [change EXCEPT ![c] = Idle]
  /\ UNCHANGED <<chain, member, keyEpoch, wraps, entry, pending, leaked, unmarked, shuffles>>

\* What a withdrawal that has not marked the key yet stands for.
Withdrawing(c) == IF change[c].pc = "find" THEN Opened(CopiesOf(change[c].user))
                  ELSE change[c].lost

\* One of those statements fails, or the server stops.
CutShort(c) ==
  /\ change[c].pc # "idle"
  /\ unmarked' = unmarked \cup Withdrawing(c)
  /\ change' = [change EXCEPT ![c] = Idle]
  /\ UNCHANGED <<chain, member, keyVars, entry, pending, shuffles>>

-----------------------------------------------------------------------------
(* Keys. *)

\* saveSealedGrants: an administrator's copies for live devices of members who
\* can read the vault.
Grantable(u, s, G) ==
  /\ G = {} \/ (s = Vault /\ MemberCanAdminister(u))
  /\ \A g \in G : g.user # u /\ MemberCanReadRecords(g.user) /\ g.device \in Live(g.user)

\* startSealedEpoch loads the caller's membership before its transaction.
OpenEpoch(u) ==
  /\ pending.pc = "none" /\ IsMember(u)
  /\ pending' = [NoPending EXCEPT !.pc = "epoch", !.user = u,
                                !.creates = MemberCanReadRecords(u)]
  /\ UNCHANGED <<chain, member, keyVars, entry, changeVars, shuffles>>

\* The first key, or the next one from a holder of the current one: all of the
\* caller's live devices get it, and any other device may.
CanStart(u, s, creates) == IF keyEpoch[s] = 0 THEN creates ELSE Holds(u, s)

NewKey(u, s) ==
  LET next == keyEpoch[s] + 1
      Copy(v, d) == [scope |-> s, epoch |-> next, user |-> v, device |-> d]
  IN /\ keyEpoch[s] < MaxEpochs /\ Total(keyEpoch) < MaxEpochs
     /\ Live(u) # {}
     /\ s = Vault => IsMember(u)
     /\ \E G \in SUBSET {Copy(v, d) : v \in Users \ {u}, d \in 1..MaxEntries} :
          /\ Grantable(u, s, G)
          /\ wraps' = wraps \cup {Copy(u, d) : d \in Live(u)} \cup G
     /\ keyEpoch' = [keyEpoch EXCEPT ![s] = next]
     /\ due' = [due EXCEPT ![s] = FALSE]
     /\ UNCHANGED <<chain, member, entry, leaked, changeVars, shuffles>>

StartSealedEpoch ==
  /\ pending.pc = "epoch" /\ pending' = NoPending
  /\ \/ CanStart(pending.user, Vault, pending.creates) /\ NewKey(pending.user, Vault)
     \/ UNCHANGED <<chain, member, keyVars, entry, changeVars, shuffles>>    \* refused

StartAccountEpoch(u) ==
  /\ u \in Accounts
  /\ CanStart(u, u, TRUE) /\ NewKey(u, u)
  /\ UNCHANGED pending

GrantSealedAccess(u, v, d) ==
  LET g == [scope |-> Vault, epoch |-> keyEpoch[Vault], user |-> v, device |-> d]
  IN /\ Holds(u, Vault) /\ ~due[Vault]
     /\ Live(u) # {} /\ g \notin wraps /\ Grantable(u, Vault, {g})
     /\ wraps' = wraps \cup {g}
     /\ UNCHANGED <<chain, member, keyEpoch, due, entry, pending, leaked, changeVars, shuffles>>

-----------------------------------------------------------------------------
(* The record. *)

\* Variant: the due flag is not looked at.
SealedWritableWhileDue(u) == Holds(u, Vault)

\* checkSealedWrite: under the current key, by a holder, with no new key due.
SealedWritable(u) == Holds(u, Vault) /\ ~due[Vault]

CreateSealedRecord(u) ==
  /\ ~entry.exists /\ MemberCanReadRecords(u) /\ SealedWritable(u)
  /\ entry' = [exists |-> TRUE, sealed |-> TRUE, plain |-> FALSE, version |-> 1,
               under |-> keyEpoch[Vault], linked |-> FALSE]
  /\ UNCHANGED <<chain, member, keyVars, pending, changeVars, shuffles>>

\* writeSealedRecord: seals a plain record, off the links that name it if the
\* caller said so, or replaces a sealed value.
WriteSealedRecord(u, dropLinks) ==
  /\ entry.exists /\ MemberCanReadRecords(u) /\ SealedWritable(u)
  /\ entry.version < MaxVersions
  /\ entry.linked /\ ~entry.sealed => dropLinks
  /\ entry' = [entry EXCEPT !.sealed = TRUE, !.plain = FALSE, !.version = @ + 1,
                            !.under = keyEpoch[Vault], !.linked = FALSE]
  /\ UNCHANGED <<chain, member, keyVars, pending, changeVars, shuffles>>

UnsealRecord(u) ==
  /\ entry.sealed /\ entry.version < MaxVersions
  /\ MemberCanReadRecords(u) /\ Holds(u, Vault) /\ Live(u) # {}
  /\ entry' = [entry EXCEPT !.sealed = FALSE, !.plain = TRUE, !.version = @ + 1, !.under = 0]
  /\ UNCHANGED <<chain, member, keyVars, pending, changeVars, shuffles>>

\* A PATCH of the value through the collection's API. BindSealedHooks refuses it on
\* a row loaded as sealed; a PATCH of a label touches nothing modelled.
OpenPatch(u) ==
  /\ pending.pc = "none" /\ entry.exists /\ ~entry.sealed /\ MemberCanReadRecords(u)
  /\ pending' = [NoPending EXCEPT !.pc = "patch", !.version = entry.version]
  /\ UNCHANGED <<chain, member, keyVars, entry, changeVars, shuffles>>

\* refuseStaleRecordWrite: not if the row was sealed or unsealed since.
PatchAllowed == entry.exists /\ entry.version = pending.version

SavePatch ==
  /\ pending.pc = "patch" /\ pending' = NoPending
  /\ entry' = IF PatchAllowed THEN [entry EXCEPT !.plain = TRUE] ELSE entry
  /\ UNCHANGED <<chain, member, keyVars, changeVars, shuffles>>

\* refuseNewSealedRecords: a link may name the record only while it is plain.
LinkRecord ==
  /\ entry.exists /\ ~entry.sealed /\ ~entry.linked
  /\ entry' = [entry EXCEPT !.linked = TRUE]
  /\ UNCHANGED <<chain, member, keyVars, pending, changeVars, shuffles>>

-----------------------------------------------------------------------------
SealedNext ==
  \/ \E u \in Users : \/ AppendDevices(u) \/ Reset(u)
                      \/ RemoveMember(u) \/ \E p \in Permissions \ {"none"} : AddMember(u, p)
                      \/ OpenEpoch(u) \/ StartAccountEpoch(u)
                      \/ \E v \in Users, d \in 1..MaxEntries : GrantSealedAccess(u, v, d)
                      \/ CreateSealedRecord(u) \/ UnsealRecord(u)
                      \/ OpenPatch(u) \/ \E drop \in BOOLEAN : WriteSealedRecord(u, drop)
  \/ \E c \in Changes : \/ \E u \in Users : \E p \in Permissions \ {"none"} : OpenChange(c, u, p)
                        \/ SaveChange(c) \/ FindCopies(c) \/ \E w \in wraps : DeleteCopy(c, w)
                        \/ CurrentKeyEpoch(c) \/ MarkEpoch(c) \/ CutShort(c)
  \/ StartSealedEpoch \/ SavePatch \/ LinkRecord

SealedSpec == SealedInit /\ [][SealedNext]_sealedVars

-----------------------------------------------------------------------------
SealedTypeOK ==
  /\ chain \in [Users -> Seq(Entries)]
  /\ member \in [Users -> Permissions]
  /\ keyEpoch \in [Scopes -> 0..MaxEpochs] /\ due \in [Scopes -> BOOLEAN]
  /\ wraps \subseteq Wraps /\ leaked \subseteq Keys /\ unmarked \subseteq Keys
  /\ change \in [Changes -> Change]
  /\ entry \in Contents /\ pending \in Pendings
  /\ shuffles \in 0..MaxShuffles

\* Lost keys a withdrawal by an update's hook has not marked, or never will.
Unmarked == unmarked \cup UNION {Withdrawing(c) : c \in Changes}

\* A key in force that somebody lost is to be replaced: as soon as a device, a member or a
\* whole list loses a copy, a new key is due (withdrawDeviceWraps, RevokeSealedAccess,
\* resetSealing). The update hook's withdrawal is several statements: only while it runs,
\* and for good if it is cut short or went by a stale row, may the key stand unmarked.
LostKeysReplaced ==
  \A s \in Scopes :
    LET key == [scope |-> s, epoch |-> keyEpoch[s]] IN
      keyEpoch[s] # 0 /\ key \in leaked => due[s] \/ key \in Unmarked

\* A copy of a key belongs to a live device of its holder's present list and, for
\* the workspace's key, to a member: no order of removals, resets and grants
\* leaves one behind.
CopiesLive ==
  \A w \in wraps : /\ w.device \in Live(w.user) /\ w.epoch <= keyEpoch[w.scope]
                   /\ w.scope = Vault => IsMember(w.user)

\* Nothing is sealed under a key that someone who lost it can still open (checkSealedWrite
\* against every way of losing a copy), but for a key whose withdrawal by the update hook
\* is still under way, was cut short or went by a stale row.
SealedUnderSafeKey ==
  [][LET key == [scope |-> Vault, epoch |-> entry'.under] IN
       entry'.sealed /\ entry' # entry => key \notin leaked \/ key \in Unmarked]_sealedVars

\* A sealed row holds no plain value and is named by no link, also when a PATCH
\* loaded before the sealing saves after it (refuseStaleRecordWrite, DetachSealedRecord).
SealedHoldsNoPlain == entry.sealed => ~entry.plain /\ ~entry.linked

\* resetSealing: it "deletes the encrypted records in any workspace where nobody
\* else holds the key, since nobody can ever read them again".
ResetLeavesNoUnreadable ==
  [][\A u \in Users : Reset(u) /\ (\A w \in wraps' : w.scope # Vault) => ~entry'.sealed]_sealedVars
=============================================================================
