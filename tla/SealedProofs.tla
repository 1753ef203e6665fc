---------------------------- MODULE SealedProofs ----------------------------
(***************************************************************************)
(* Proofs about Sealed for any people, passkeys, administrators, accounts  *)
(* and bounds: which copies of a key exist, that a key somebody lost is    *)
(* replaced, and that nothing is sealed under such a key.                  *)
(***************************************************************************)
EXTENDS Sealed, TLAPS

\* Lists stay within the bound their appending is guarded by.
ListsBounded == \A u \in Users : Len(chain[u]) <= MaxEntries

\* A copy of an account's key is one of that account's own devices.
CopiesOwn == \A w \in wraps : w.scope \in Users => w.scope = w.user

\* Nobody can have lost a key that has not been made yet.
LeakedExist == \A k \in leaked : k.epoch <= keyEpoch[k.scope]

\* The row of an open PATCH was plain, and a later sealing has a later version.
PatchIsPlain == pending.pc = "patch" =>
  /\ entry.exists /\ pending.version <= entry.version
  /\ pending.version = entry.version => ~entry.sealed

\* A withdrawal has the keys of every copy it is yet to delete among those lost; they are of
\* the workspace and no newer than the epoch it loaded to mark.
ChangeOK(x) ==
  /\ x.pc = "save" => x.to # "none"
  /\ \A w \in x.rows : w \in wraps /\ w.scope = Vault /\ Opened({w}) \subseteq x.lost
  /\ \A k \in x.lost : k.scope = Vault /\ k.epoch <= keyEpoch[Vault]
  /\ x.pc \notin {"delete", "mark"} => x.lost = {}
  /\ x.pc = "mark" => x.epoch <= keyEpoch[Vault] /\ \A k \in x.lost : k.epoch <= x.epoch
ChangesOK == \A c \in Changes : ChangeOK(change[c])

\* The inductive invariant.
SealedInv == /\ SealedTypeOK /\ ListsBounded /\ ChangesOK
             /\ CopiesLive /\ CopiesOwn /\ LeakedExist /\ LostKeysReplaced /\ PatchIsPlain

-----------------------------------------------------------------------------
(* Lists of devices. *)

LEMMA LiveIndex ==
  ASSUME NEW list \in Seq(Entries), NEW n \in LiveIn(list)
  PROVE  n \in 1..Len(list)
  BY DEF LiveIn

\* What an appended entry does to the live ones: only a removal ends one, its target.
LEMMA LiveAppend ==
  ASSUME NEW list \in Seq(Entries), NEW e \in Entries, NEW n \in LiveIn(list),
         ~(e.action = "remove" /\ e.target = n)
  PROVE  n \in LiveIn(Append(list, e))
<1> DEFINE new == Append(list, e)
<1>1. /\ DOMAIN list = 1..Len(list) /\ DOMAIN new = 1..(Len(list) + 1) /\ Len(list) \in Nat
      /\ \A i \in 1..Len(list) : new[i] = list[i]
      /\ new[Len(list) + 1] = e
  OBVIOUS
<1>2. n \in DOMAIN new /\ new[n].action = "add"
  BY <1>1 DEF LiveIn
<1>3. ASSUME NEW m \in DOMAIN new, new[m].action = "remove", new[m].target = n
      PROVE  FALSE
  <2>1. m \in DOMAIN list \/ m = Len(list) + 1
    BY <1>1
  <2>2. QED
    BY <1>1, <1>3, <2>1 DEF LiveIn
<1>4. QED
  BY <1>2, <1>3 DEF LiveIn

-----------------------------------------------------------------------------
(* Helpers: what a request leaves behind, which copies open what. *)

LEMMA NoPendingType == NoPending \in Pendings
<1>1. (CHOOSE v \in Users : TRUE) \in Users
  BY SealedAssumption DEF SealedAssumption
<1>2. 0 \in 0..MaxVersions
  BY SealedAssumption DEF SealedAssumption
<1>3. QED
  BY <1>1, <1>2 DEF NoPending, Pendings

LEMMA RotationType ==
  ASSUME due \in [Scopes -> BOOLEAN], NEW S, MarkRotationDue(S)
  PROVE  /\ due' \in [Scopes -> BOOLEAN]
         /\ \A s \in Scopes : /\ due[s] => due'[s]
                              /\ s \in S /\ keyEpoch[s] # 0 => due'[s]
  BY DEF MarkRotationDue

\* A key that a withdrawn copy opened is no newer than the scope's key, and if it is
\* that very key, the scope is among those of the withdrawn copies.
LEMMA OpenedKeys ==
  ASSUME SealedTypeOK, CopiesLive, NEW W \in SUBSET wraps, NEW k \in Opened(W)
  PROVE  k \in Keys /\ k.epoch <= keyEpoch[k.scope] /\ k.scope \in {w.scope : w \in W}
<1>1. PICK w \in W : w.scope = k.scope /\ k.epoch <= w.epoch
  BY DEF Opened
<1>2. w \in Wraps /\ w.epoch <= keyEpoch[w.scope]
  BY DEF CopiesLive, SealedTypeOK
<1>3. k \in Keys
  BY DEF Opened
<1>4. k.epoch \in Nat /\ w.epoch \in Nat /\ keyEpoch[k.scope] \in Nat
  BY <1>2, <1>3 DEF Keys, Wraps, SealedTypeOK
<1>5. QED
  BY <1>1, <1>2, <1>3, <1>4

LEMMA OpenedUnion ==
  ASSUME NEW A, NEW B, NEW C, A \subseteq B \cup C
  PROVE  Opened(A) \subseteq Opened(B) \cup Opened(C)
  BY DEF Opened

LEMMA UnmarkedIs ==
  ASSUME NEW k
  PROVE  k \in Unmarked <=> k \in unmarked \/ \E c \in Changes : k \in Withdrawing(c)
  BY DEF Unmarked

LEMMA IdleType == /\ Idle \in Change /\ Idle.pc = "idle" /\ Idle.rows = {} /\ Idle.lost = {}
                  /\ Idle.epoch = 0 /\ Idle.to = "none"
<1>1. (CHOOSE v \in Users : TRUE) \in Users
  BY SealedAssumption DEF SealedAssumption
<1>2. 0 \in 0..MaxEpochs
  BY SealedAssumption DEF SealedAssumption
<1>3. QED
  BY <1>1, <1>2 DEF Idle, Change, Permissions

LEMMA ForgetFields ==
  ASSUME SealedTypeOK, NEW W
  PROVE  /\ Forget(W) \in [Changes -> Change]
         /\ \A c \in Changes : /\ Forget(W)[c].pc = change[c].pc /\ Forget(W)[c].user = change[c].user
                               /\ Forget(W)[c].to = change[c].to
                               /\ Forget(W)[c].rows = change[c].rows \ W
                               /\ Forget(W)[c].lost = change[c].lost
                               /\ Forget(W)[c].epoch = change[c].epoch
<1>1. ASSUME NEW c \in Changes
      PROVE  change[c] \in Change /\ Forget(W)[c] = [change[c] EXCEPT !.rows = @ \ W]
  BY DEF SealedTypeOK, Forget
<1>2. ASSUME NEW c \in Changes
      PROVE  Forget(W)[c] \in Change
  <2>1. change[c].rows \ W \in SUBSET Wraps
    BY <1>1 DEF Change
  <2>2. QED
    BY <1>1, <2>1 DEF Change
<1>3. Forget(W) \in [Changes -> Change]
  BY <1>2 DEF Forget
<1>4. QED
  BY <1>1, <1>3 DEF Change

\* What a withdrawal stands for are keys of the workspace that exist.
LEMMA WithdrawingKeys ==
  ASSUME SealedInv, NEW c \in Changes, NEW k \in Withdrawing(c)
  PROVE  k \in Keys /\ k.scope = Vault /\ k.epoch <= keyEpoch[Vault]
<1> USE DEF SealedInv
<1>1. CASE change[c].pc = "find"
  <2>1. CopiesOf(change[c].user) \in SUBSET wraps /\ k \in Opened(CopiesOf(change[c].user))
    BY <1>1 DEF CopiesOf, Withdrawing
  <2>2. QED
    BY <2>1, OpenedKeys DEF CopiesOf
<1>2. CASE change[c].pc # "find"
  BY <1>2 DEF Withdrawing, ChangesOK, ChangeOK, SealedTypeOK, Change
<1>3. QED
  BY <1>1, <1>2

\* Rows that are forgotten when their copies go: the keys of those copies go with them.
LEMMA WithdrawingForget ==
  ASSUME SealedTypeOK, NEW c \in Changes, NEW W, wraps \ W \subseteq wraps',
         change'[c] = Forget(W)[c]
  PROVE  Withdrawing(c) \subseteq Withdrawing(c)' \cup Opened(W)
<1>1. /\ change'[c].pc = change[c].pc /\ change'[c].user = change[c].user
      /\ change'[c].lost = change[c].lost
  BY ForgetFields
<1>2. CASE change[c].pc = "find"
  <2> DEFINE mine == CopiesOf(change[c].user)
             later == CopiesOf(change[c].user)'
  <2>1. mine \subseteq later \cup W
    BY <1>1 DEF CopiesOf
  <2>2. Withdrawing(c) = Opened(mine) /\ Withdrawing(c)' = Opened(later)
    BY <1>1, <1>2 DEF Withdrawing, CopiesOf, Opened
  <2> HIDE DEF mine, later
  <2>3. QED
    BY <2>1, <2>2, OpenedUnion
<1>3. CASE change[c].pc # "find"
  BY <1>1, <1>3 DEF Withdrawing
<1>4. QED
  BY <1>2, <1>3

\* No new key: those lost now are to be replaced or stand unmarked, and one that stands
\* unmarked no more is to be replaced, or in force no more.
LEMMA KeysKept ==
  ASSUME SealedInv, keyEpoch' = keyEpoch, \A s \in Scopes : due[s] => due'[s],
         \A k \in leaked' : \/ k \in leaked
                            \/ /\ k \in Keys /\ k.epoch <= keyEpoch[k.scope]
                               /\ due'[k.scope] \/ k \in Unmarked',
         \A k \in Unmarked : \/ k \in Unmarked'
                             \/ k.epoch = keyEpoch[k.scope] => due'[k.scope]
  PROVE  leaked' \subseteq Keys /\ LeakedExist' /\ LostKeysReplaced'
<1> USE DEF SealedInv
<1>1. leaked' \subseteq Keys /\ LeakedExist'
  BY DEF SealedTypeOK, LeakedExist
<1>2. ASSUME NEW s \in Scopes, keyEpoch[s] # 0, [scope |-> s, epoch |-> keyEpoch[s]] \in leaked'
      PROVE  due'[s] \/ [scope |-> s, epoch |-> keyEpoch[s]] \in Unmarked'
  <2> DEFINE k == [scope |-> s, epoch |-> keyEpoch[s]]
  <2>1. k.scope = s /\ k.epoch = keyEpoch[k.scope]
    OBVIOUS
  <2>2. CASE k \in leaked
    <3>1. due[s] \/ k \in Unmarked
      BY <1>2, <2>2 DEF LostKeysReplaced
    <3>2. QED
      BY <2>1, <3>1
  <2>3. CASE k \notin leaked
    BY <1>2, <2>1, <2>3
  <2>4. QED
    BY <2>2, <2>3
<1>3. QED
  BY <1>1, <1>2 DEF LostKeysReplaced

\* Copies that are taken away, with a new key due wherever one was taken: what was said of
\* the keys still holds, also of those a withdrawal under way had found them to open.
LEMMA CopiesTaken ==
  ASSUME SealedInv, NEW W \in SUBSET wraps,
         leaked' = leaked \cup Opened(W), MarkRotationDue({w.scope : w \in W}),
         keyEpoch' = keyEpoch, unmarked' = unmarked,
         \A c \in Changes : Withdrawing(c) \subseteq Withdrawing(c)' \cup Opened(W)
  PROVE  leaked' \subseteq Keys /\ LeakedExist' /\ LostKeysReplaced'
<1> USE DEF SealedInv
<1>1. ASSUME NEW k \in Opened(W)
      PROVE  k \in Keys /\ k.epoch <= keyEpoch[k.scope] /\ due'[k.scope]
  <2>1. k \in Keys /\ k.epoch <= keyEpoch[k.scope] /\ k.scope \in {w.scope : w \in W}
    BY OpenedKeys
  <2>2. k.scope \in Scopes /\ keyEpoch[k.scope] # 0
    BY <2>1 DEF Keys, SealedTypeOK
  <2>3. QED
    BY <2>1, <2>2 DEF MarkRotationDue
<1>2. \A s \in Scopes : due[s] => due'[s]
  BY RotationType DEF SealedTypeOK
<1>3. ASSUME NEW k \in Unmarked
      PROVE  k \in Unmarked' \/ k \in Opened(W)
  <2>1. CASE k \in unmarked
    BY <2>1 DEF Unmarked
  <2>2. ASSUME NEW c \in Changes, k \in Withdrawing(c)
        PROVE  k \in Unmarked' \/ k \in Opened(W)
    BY <2>2 DEF Unmarked
  <2>3. QED
    BY <2>1, <2>2, UnmarkedIs
<1>4. QED
  BY <1>1, <1>2, <1>3, KeysKept

\* The rows a withdrawal holds, after copies W are gone and the rest is still there.
LEMMA ForgetOK ==
  ASSUME SealedInv, NEW c \in Changes, NEW W, wraps \ W \subseteq wraps', keyEpoch' = keyEpoch,
         change'[c] = Forget(W)[c]
  PROVE  ChangeOK(change[c])'
<1>1. /\ change'[c].pc = change[c].pc /\ change'[c].to = change[c].to
      /\ change'[c].rows = change[c].rows \ W
      /\ change'[c].lost = change[c].lost /\ change'[c].epoch = change[c].epoch
  BY ForgetFields DEF SealedInv
<1>2. ChangeOK(change[c])
  BY DEF SealedInv, ChangesOK
<1>3. ASSUME NEW w \in change'[c].rows
      PROVE  w \in wraps' /\ w.scope = Vault /\ Opened({w}) \subseteq change'[c].lost
  BY <1>1, <1>2, <1>3 DEF ChangeOK
<1>4. QED
  BY <1>1, <1>2, <1>3 DEF ChangeOK, Opened

-----------------------------------------------------------------------------
(* The invariant holds at first, and every step keeps it. *)

LEMMA InvInit == SealedInit => SealedInv
<1> SUFFICES ASSUME SealedInit
             PROVE  SealedInv
  OBVIOUS
<1>1. pending \in Pendings
  BY NoPendingType DEF SealedInit
<1>2. 0 \in 0..MaxEpochs /\ 0 \in 0..MaxVersions /\ 0 \in 0..MaxShuffles /\ 0 <= MaxEntries
  BY SealedAssumption DEF SealedAssumption
<1>3. entry \in Contents
  BY <1>2 DEF SealedInit, Gone, Contents
<1>4. chain \in [Users -> Seq(Entries)] /\ ListsBounded
  <2>1. <<>> \in Seq(Entries) /\ Len(<<>>) = 0
    OBVIOUS
  <2>2. QED
    BY <1>2, <2>1 DEF SealedInit, ListsBounded
<1>5. SealedTypeOK
  BY <1>1, <1>2, <1>3, <1>4, IdleType DEF SealedInit, SealedTypeOK, Permissions
<1>6. PatchIsPlain
  BY DEF SealedInit, PatchIsPlain, NoPending
<1>7. ChangesOK
  BY IdleType DEF SealedInit, ChangesOK, ChangeOK
<1>8. QED
  BY <1>4, <1>5, <1>6, <1>7 DEF SealedInit, SealedInv, CopiesLive, CopiesOwn, LeakedExist,
                          LostKeysReplaced

LEMMA AppendStep ==
  ASSUME SealedInv, NEW u \in Users, AppendDevices(u)
  PROVE  SealedInv'
<1> USE DEF SealedInv
<1>1. PICK e \in Entries :
        LET list == Append(chain[u], e)
            taken == IF e.action = "remove" THEN Withdrawn(u, e.target) ELSE {}
            left == wraps \ taken
        IN /\ \E given \in {{}} \cup {{w} : w \in CopiesFor(u, LiveIn(list))} :
                /\ \A w \in given : Storable(w, list, left)
                /\ wraps' = left \cup given
           /\ chain' = [chain EXCEPT ![u] = list]
           /\ MarkRotationDue({w.scope : w \in taken})
           /\ leaked' = leaked \cup Opened(taken)
           /\ change' = Forget(taken)
           /\ UNCHANGED <<member, keyEpoch, entry, pending, unmarked, shuffles>>
  BY DEF AppendDevices
<1> DEFINE list == Append(chain[u], e)
           taken == IF e.action = "remove" THEN Withdrawn(u, e.target) ELSE {}
           left == wraps \ taken
<1>2. PICK given \in {{}} \cup {{w} : w \in CopiesFor(u, LiveIn(list))} :
        /\ \A w \in given : Storable(w, list, left)
        /\ wraps' = left \cup given
  BY <1>1
<1>3. chain[u] \in Seq(Entries) /\ list \in Seq(Entries) /\ Len(list) = Len(chain[u]) + 1
      /\ Len(chain[u]) < MaxEntries
  BY DEF AppendDevices, SealedTypeOK
<1>4. chain' \in [Users -> Seq(Entries)] /\ ListsBounded'
  <2>1. chain' = [chain EXCEPT ![u] = list]
    BY <1>1
  <2>2. chain' \in [Users -> Seq(Entries)]
    BY <1>3, <2>1 DEF SealedTypeOK
  <2>3. ASSUME NEW v \in Users
        PROVE  Len(chain'[v]) <= MaxEntries
    <3>1. CASE v = u
      <4>1. Len(chain[u]) \in Nat /\ Len(list) <= MaxEntries
        BY <1>3, SealedAssumption DEF SealedAssumption
      <4>2. chain'[u] = list
        BY <2>1 DEF SealedTypeOK
      <4>3. QED
        BY <3>1, <4>1, <4>2
    <3>2. CASE v # u
      BY <2>1, <3>2 DEF ListsBounded, SealedTypeOK
    <3>3. QED
      BY <3>1, <3>2
  <2>4. QED
    BY <2>2, <2>3 DEF ListsBounded
<1>5. /\ Live(u)' = LiveIn(list)
      /\ \A v \in Users \ {u} : Live(v)' = Live(v)
  BY <1>1 DEF Live, SealedTypeOK
<1>6. taken \in SUBSET wraps
  BY DEF Withdrawn
<1>7. leaked' \subseteq Keys /\ LeakedExist' /\ LostKeysReplaced' /\ ChangesOK'
      /\ change' \in [Changes -> Change]
  <2>1. /\ wraps \ taken \subseteq wraps' /\ keyEpoch' = keyEpoch /\ change' = Forget(taken)
        /\ leaked' = leaked \cup Opened(taken) /\ MarkRotationDue({w.scope : w \in taken})
        /\ unmarked' = unmarked
    BY <1>1, <1>2
  <2> HIDE DEF taken
  <2>2. \A c \in Changes : Withdrawing(c) \subseteq Withdrawing(c)' \cup Opened(taken)
    BY <2>1, WithdrawingForget
  <2>3. ChangesOK'
    BY <2>1, ForgetOK DEF ChangesOK
  <2>4. QED
    BY <1>6, <2>1, <2>2, <2>3, CopiesTaken, ForgetFields
<1>8. \A w \in given : w \in Wraps /\ w.user = u /\ Storable(w, list, left)
  <2>1. ASSUME NEW n \in LiveIn(list)
        PROVE  n \in 1..MaxEntries
    <3>1. n \in 1..Len(list)
      BY <1>3, LiveIndex
    <3>2. QED
      BY <1>3, <3>1, SealedAssumption DEF SealedAssumption
  <2>2. \A w \in CopiesFor(u, LiveIn(list)) : w \in Wraps /\ w.user = u
    BY <2>1 DEF CopiesFor, Wraps
  <2>3. QED
    BY <1>2, <2>2
<1>9. SealedTypeOK'
  BY <1>1, <1>2, <1>4, <1>7, <1>8, RotationType DEF SealedTypeOK
<1>10. CopiesLive'
  <2> SUFFICES ASSUME NEW w \in wraps'
               PROVE  /\ w.device \in Live(w.user)' /\ w.epoch <= keyEpoch'[w.scope]
                      /\ w.scope = Vault => member'[w.user] # "none"
    BY DEF CopiesLive, IsMember
  <2>1. CASE w \in given
    BY <1>1, <1>5, <1>8, <2>1 DEF Storable, IsMember
  <2>2. CASE w \in left
    <3>1. w \in Wraps /\ w.device \in Live(w.user) /\ w.user \in Users
      BY <2>2 DEF CopiesLive, SealedTypeOK, Wraps
    <3>2. w.device \in Live(w.user)'
      <4>1. CASE w.user = u
        <5>1. ~(e.action = "remove" /\ e.target = w.device)
          BY <2>2, <4>1 DEF Withdrawn
        <5>2. w.device \in LiveIn(list)
          BY <1>3, <3>1, <4>1, <5>1, LiveAppend DEF Live
        <5>3. QED
          BY <1>5, <4>1, <5>2
      <4>2. CASE w.user # u
        BY <1>5, <3>1, <4>2
      <4>3. QED
        BY <4>1, <4>2
    <3>3. QED
      BY <1>1, <2>2, <3>2 DEF CopiesLive, IsMember
  <2>3. QED
    BY <1>2, <2>1, <2>2
<1>11. CopiesOwn'
  BY <1>2, <1>8 DEF CopiesOwn, Storable
<1>12. PatchIsPlain'
  BY <1>1 DEF PatchIsPlain
<1>13. QED
  BY <1>4, <1>7, <1>9, <1>10, <1>11, <1>12

LEMMA ResetRecord ==
  ASSUME NEW u \in Users, Reset(u)
  PROVE  \/ entry' = entry /\ pending' = pending
         \/ entry' = Gone /\ pending' = IF pending.pc = "patch" THEN NoPending ELSE pending
  BY DEF Reset

LEMMA ResetStep ==
  ASSUME SealedInv, NEW u \in Users, Reset(u)
  PROVE  SealedInv'
<1> USE DEF SealedInv
<1> DEFINE mine == {w \in wraps : w.user = u}
           left == wraps \ mine
           held == {w.scope : w \in mine} \cap {Vault}
           dead == {s \in held : \A w \in left : w.scope # s} \cup ({u} \cap Accounts)
<1>1. /\ shuffles < MaxShuffles /\ shuffles' = shuffles + 1
      /\ chain' = [chain EXCEPT ![u] = <<>>]
      /\ wraps' = left
      /\ keyEpoch' = [s \in Scopes |-> IF s \in dead THEN 0 ELSE keyEpoch[s]]
      /\ due' = [s \in Scopes |-> s \notin dead /\ (due[s] \/ s \in held)]
      /\ leaked' = {k \in leaked \cup Opened(mine) : k.scope \notin dead}
      /\ unmarked' = {k \in unmarked : k.scope \notin dead}
      /\ change' = IF Vault \in dead
                   THEN [c \in Changes |-> [Forget(mine)[c] EXCEPT !.lost = {}, !.epoch = 0]]
                   ELSE Forget(mine)
      /\ member' = member
  BY DEF Reset
<1>2. \/ entry' = entry /\ pending' = pending
      \/ entry' = Gone /\ pending' = IF pending.pc = "patch" THEN NoPending ELSE pending
  BY ResetRecord
<1>3. SealedTypeOK' /\ ListsBounded'
  <2>1. <<>> \in Seq(Entries) /\ Len(<<>>) = 0 /\ 0 <= MaxEntries /\ 0 \in 0..MaxEpochs
    BY SealedAssumption DEF SealedAssumption
  <2>2. chain' \in [Users -> Seq(Entries)] /\ ListsBounded'
    BY <1>1, <2>1 DEF ListsBounded, SealedTypeOK
  <2>3. keyEpoch' \in [Scopes -> 0..MaxEpochs] /\ due' \in [Scopes -> BOOLEAN]
    BY <1>1, <2>1 DEF SealedTypeOK
  <2>4. shuffles' \in 0..MaxShuffles
    <3>1. shuffles < MaxShuffles /\ shuffles' = shuffles + 1
      BY <1>1
    <3>2. QED
      BY <3>1, SealedAssumption DEF SealedTypeOK, SealedAssumption
  <2>5. Gone \in Contents /\ NoPending \in Pendings
    BY NoPendingType, SealedAssumption DEF Gone, Contents, SealedAssumption
  <2>6. entry' \in Contents /\ pending' \in Pendings
    BY <1>2, <2>5 DEF SealedTypeOK
  <2>7. leaked' \subseteq Keys /\ unmarked' \subseteq Keys
    BY <1>1, OpenedKeys DEF SealedTypeOK
  <2>8. change' \in [Changes -> Change]
    <3>1. Forget(mine) \in [Changes -> Change]
      BY ForgetFields
    <3>2. \A x \in Change : [x EXCEPT !.lost = {}, !.epoch = 0] \in Change
      BY <2>1 DEF Change
    <3> HIDE DEF mine, dead
    <3>3. QED
      BY <1>1, <3>1, <3>2
  <2>9. QED
    BY <1>1, <2>2, <2>3, <2>4, <2>6, <2>7, <2>8 DEF SealedTypeOK
<1>4. CopiesLive' /\ CopiesOwn'
  <2>1. CopiesOwn'
    BY <1>1 DEF CopiesOwn
  <2> SUFFICES ASSUME NEW w \in wraps'
               PROVE  /\ w.device \in Live(w.user)' /\ w.epoch <= keyEpoch'[w.scope]
                      /\ w.scope = Vault => member'[w.user] # "none"
    BY <2>1 DEF CopiesLive, IsMember
  <2>2. w \in wraps /\ w.user # u /\ w.user \in Users /\ w.scope \in Scopes
    BY <1>1 DEF SealedTypeOK, Wraps
  <2>3. Live(w.user)' = Live(w.user)
    BY <1>1, <2>2 DEF Live, SealedTypeOK
  <2>4. w.scope \notin dead
    BY <1>1, <2>2, SealedAssumption DEF CopiesOwn, SealedAssumption
  <2>5. QED
    BY <1>1, <2>2, <2>3, <2>4 DEF CopiesLive, IsMember
<1>5. LeakedExist'
  <2> SUFFICES ASSUME NEW k \in leaked'
               PROVE  k.epoch <= keyEpoch'[k.scope]
    BY DEF LeakedExist
  <2>1. k \in leaked \cup Opened(mine) /\ k.scope \notin dead
    BY <1>1
  <2>2. k \in Keys /\ k.epoch <= keyEpoch[k.scope]
    BY <2>1, OpenedKeys DEF LeakedExist, SealedTypeOK
  <2>3. QED
    BY <1>1, <2>1, <2>2 DEF Keys
<1>6. ChangesOK'
  <2> SUFFICES ASSUME NEW c \in Changes
               PROVE  ChangeOK(change[c])'
    BY DEF ChangesOK
  <2>1. CASE Vault \notin dead
    <3>1. change'[c] = Forget(mine)[c] /\ keyEpoch'[Vault] = keyEpoch[Vault]
      BY <1>1, <2>1 DEF Scopes
    <3>2. /\ change'[c].pc = change[c].pc /\ change'[c].to = change[c].to
          /\ change'[c].rows = change[c].rows \ mine
          /\ change'[c].lost = change[c].lost /\ change'[c].epoch = change[c].epoch
      BY <3>1, ForgetFields
    <3>3. ChangeOK(change[c])
      BY DEF ChangesOK
    <3>4. ASSUME NEW w \in change'[c].rows
          PROVE  w \in wraps' /\ w.scope = Vault /\ Opened({w}) \subseteq change'[c].lost
      BY <1>1, <3>2, <3>3, <3>4 DEF ChangeOK
    <3> HIDE DEF mine, dead
    <3>5. QED
      BY <3>1, <3>2, <3>3, <3>4 DEF ChangeOK, Opened
  <2>2. CASE Vault \in dead
    <3> DEFINE x == Forget(mine)[c]
    <3>1. x \in Change /\ x.pc = change[c].pc /\ x.to = change[c].to
          /\ x.rows = change[c].rows \ mine
      BY ForgetFields
    <3>2. change'[c] = [x EXCEPT !.lost = {}, !.epoch = 0]
      BY <1>1, <2>2
    <3>3. ASSUME NEW w \in change[c].rows
          PROVE  w \in mine
      <4>1. w \in wraps /\ w.scope = Vault
        BY <3>3 DEF ChangesOK, ChangeOK
      <4>2. \A v \in left : v.scope # Vault
        BY <2>2, SealedAssumption DEF SealedAssumption
      <4>3. QED
        BY <4>1, <4>2
    <3>4. x.rows = {}
      BY <3>1, <3>3
    <3> HIDE DEF x
    <3>5. /\ change'[c].pc = change[c].pc /\ change'[c].to = change[c].to
          /\ change'[c].rows = {} /\ change'[c].lost = {} /\ change'[c].epoch = 0
      BY <3>1, <3>2, <3>4 DEF Change
    <3>6. keyEpoch'[Vault] = 0
      BY <1>1, <2>2 DEF Scopes
    <3>7. ChangeOK(change[c])
      BY DEF ChangesOK
    <3>8. QED
      BY <3>5, <3>6, <3>7 DEF ChangeOK
  <2>3. QED
    BY <2>1, <2>2
<1>7. LostKeysReplaced'
  <2> SUFFICES ASSUME NEW s \in Scopes, keyEpoch'[s] # 0,
                      [scope |-> s, epoch |-> keyEpoch'[s]] \in leaked'
               PROVE  due'[s] \/ [scope |-> s, epoch |-> keyEpoch'[s]] \in Unmarked'
    BY DEF LostKeysReplaced
  <2> DEFINE k == [scope |-> s, epoch |-> keyEpoch[s]]
  <2>1. s \notin dead /\ keyEpoch'[s] = keyEpoch[s] /\ k \in leaked \cup Opened(mine)
    BY <1>1
  <2>2. ASSUME k \in Opened(mine)
        PROVE  due'[s]
    <3>1. PICK w \in mine : w.scope = s
      BY <2>2 DEF Opened
    <3>2. s = Vault
      BY <2>1, <3>1, SealedAssumption DEF CopiesOwn, Scopes, SealedAssumption
    <3>3. QED
      BY <1>1, <2>1, <3>1, <3>2
  <2>3. ASSUME k \in leaked
        PROVE  due[s] \/ k \in Unmarked' \/ k \in Opened(mine)
    <3>1. due[s] \/ k \in Unmarked
      BY <2>1, <2>3 DEF LostKeysReplaced
    <3>2. k \in unmarked => k \in Unmarked'
      BY <1>1, <2>1 DEF Unmarked
    <3>3. ASSUME NEW c \in Changes, k \in Withdrawing(c)
          PROVE  k \in Unmarked' \/ k \in Opened(mine)
      <4>1. s = Vault
        BY <3>3, WithdrawingKeys
      <4>2. change'[c] = Forget(mine)[c] /\ wraps \ mine \subseteq wraps'
        BY <1>1, <2>1, <4>1
      <4> HIDE DEF mine
      <4>3. k \in Withdrawing(c)' \/ k \in Opened(mine)
        BY <3>3, <4>2, WithdrawingForget
      <4>4. QED
        BY <4>3 DEF Unmarked
    <3>4. QED
      BY <3>1, <3>2, <3>3, UnmarkedIs
  <2>4. due[s] => due'[s]
    BY <1>1, <2>1
  <2>5. QED
    BY <2>1, <2>2, <2>3, <2>4
<1>8. PatchIsPlain'
  BY <1>2 DEF PatchIsPlain, NoPending
<1>9. QED
  BY <1>3, <1>4, <1>5, <1>6, <1>7, <1>8

LEMMA AddMemberStep ==
  ASSUME SealedInv, NEW u \in Users, NEW permission \in Permissions \ {"none"},
         AddMember(u, permission)
  PROVE  SealedInv'
<1> USE DEF SealedInv
<1>1. /\ shuffles < MaxShuffles /\ shuffles' = shuffles + 1
      /\ member' = [member EXCEPT ![u] = permission]
      /\ UNCHANGED <<chain, keyEpoch, due, wraps, leaked, entry, pending, change, unmarked>>
  BY DEF AddMember, keyVars, changeVars
<1>2. SealedTypeOK'
  BY <1>1, SealedAssumption DEF SealedTypeOK, SealedAssumption
<1>3. \A v \in Users : IsMember(v) => IsMember(v)'
  BY <1>1 DEF IsMember, SealedTypeOK
<1>4. CopiesLive'
  BY <1>1, <1>3 DEF CopiesLive, Live, SealedTypeOK, Wraps
<1>5. Unmarked' = Unmarked
  BY <1>1 DEF Unmarked, Withdrawing, CopiesOf, Opened
<1>6. QED
  BY <1>1, <1>2, <1>4, <1>5 DEF CopiesOwn, PatchIsPlain, ListsBounded, LeakedExist,
                               LostKeysReplaced, ChangesOK, ChangeOK, Opened

LEMMA RemoveMemberStep ==
  ASSUME SealedInv, NEW u \in Users, RemoveMember(u)
  PROVE  SealedInv'
<1> USE DEF SealedInv
<1> DEFINE lost == CopiesOf(u)
           found == [Idle EXCEPT !.pc = "find", !.user = u]
<1>1. /\ shuffles < MaxShuffles /\ shuffles' = shuffles + 1
      /\ member' = [member EXCEPT ![u] = "none"]
      /\ wraps' = wraps \ lost /\ leaked' = leaked \cup Opened(lost)
      /\ MarkRotationDue({w.scope : w \in lost})
      /\ UNCHANGED <<chain, keyEpoch, entry, pending, unmarked>>
  BY DEF RemoveMember
<1>2. change' = [c \in Changes |-> IF change[c].pc = "save" /\ change[c].user = u
                                   THEN IF Revokes(c) THEN found ELSE Idle
                                   ELSE Forget(lost)[c]]
  BY DEF RemoveMember
<1>3. lost \in SUBSET wraps
  BY DEF CopiesOf
<1>4. /\ found \in Change /\ found.pc = "find" /\ found.rows = {} /\ found.lost = {}
      /\ found.to = "none"
  BY IdleType DEF Change
<1> HIDE DEF lost, found
<1>5. ASSUME NEW c \in Changes
      PROVE  \/ change'[c] = Forget(lost)[c]
             \/ change[c].pc = "save" /\ change'[c] \in {found, Idle}
  BY <1>2
<1>6. change' \in [Changes -> Change]
  BY <1>2, <1>4, IdleType, ForgetFields
<1>7. ChangesOK'
  <2> SUFFICES ASSUME NEW c \in Changes
               PROVE  ChangeOK(change[c])'
    BY DEF ChangesOK
  <2>1. CASE change'[c] = Forget(lost)[c]
    BY <1>1, <2>1, ForgetOK
  <2>2. CASE change'[c] \in {found, Idle}
    BY <1>4, <2>2, IdleType DEF ChangeOK
  <2>3. QED
    BY <1>5, <2>1, <2>2
<1>8. ASSUME NEW c \in Changes
      PROVE  Withdrawing(c) \subseteq Withdrawing(c)' \cup Opened(lost)
  <2>1. change[c].pc = "save" => Withdrawing(c) = {}
    BY DEF Withdrawing, ChangesOK, ChangeOK
  <2>2. QED
    BY <1>1, <1>5, <2>1, WithdrawingForget
<1>9. leaked' \subseteq Keys /\ LeakedExist' /\ LostKeysReplaced'
  BY <1>1, <1>3, <1>8, CopiesTaken
<1>10. SealedTypeOK'
  <2>1. due' \in [Scopes -> BOOLEAN]
    BY <1>1, RotationType DEF SealedTypeOK
  <2>2. shuffles' \in 0..MaxShuffles /\ member' \in [Users -> Permissions]
    BY <1>1, SealedAssumption DEF SealedTypeOK, SealedAssumption, Permissions
  <2>3. QED
    BY <1>1, <1>6, <1>9, <2>1, <2>2 DEF SealedTypeOK
<1>11. CopiesLive'
  <2> SUFFICES ASSUME NEW w \in wraps'
               PROVE  /\ w.device \in Live(w.user)' /\ w.epoch <= keyEpoch'[w.scope]
                      /\ w.scope = Vault => member'[w.user] # "none"
    BY DEF CopiesLive, IsMember
  <2>1. w \in wraps /\ Live(w.user)' = Live(w.user) /\ w.user \in Users
    BY <1>1 DEF Live, SealedTypeOK, Wraps
  <2>2. w.scope = Vault => w.user # u
    BY <1>1, <2>1 DEF lost, CopiesOf
  <2>3. w.scope = Vault => member'[w.user] # "none"
    BY <1>1, <2>1, <2>2 DEF CopiesLive, IsMember, SealedTypeOK
  <2>4. QED
    BY <1>1, <2>1, <2>3 DEF CopiesLive
<1>12. CopiesOwn' /\ PatchIsPlain' /\ ListsBounded'
  BY <1>1 DEF CopiesOwn, PatchIsPlain, ListsBounded
<1>13. QED
  BY <1>7, <1>9, <1>10, <1>11, <1>12

\* A step of one change that leaves every copy in place: whom it denies a key has it stand
\* unmarked, and what stands unmarked still does, or is to be replaced.
LEMMA SlotStep ==
  ASSUME SealedInv, NEW c \in Changes, NEW x \in Change, ChangeOK(x),
         change' = [change EXCEPT ![c] = x],
         UNCHANGED <<chain, keyEpoch, wraps, entry, pending>>,
         shuffles' \in 0..MaxShuffles, member' \in [Users -> Permissions],
         \A v \in Users : IsMember(v) => IsMember(v)',
         due' \in [Scopes -> BOOLEAN], \A s \in Scopes : due[s] => due'[s],
         unmarked \subseteq unmarked', unmarked' \subseteq Keys,
         \A k \in leaked' : \/ k \in leaked
                            \/ /\ k \in Keys /\ k.epoch <= keyEpoch[k.scope]
                               /\ k \in unmarked' \/ k \in Withdrawing(c)',
         \A k \in Withdrawing(c) :
           k \in unmarked' \/ k \in Withdrawing(c)' \/ (k.epoch = keyEpoch[Vault] => due'[Vault])
  PROVE  SealedInv'
<1> USE DEF SealedInv
<1>1. /\ change' \in [Changes -> Change] /\ change'[c] = x
      /\ \A d \in Changes \ {c} : change'[d] = change[d]
  BY DEF SealedTypeOK
<1>2. ChangesOK'
  <2> SUFFICES ASSUME NEW d \in Changes
               PROVE  ChangeOK(change[d])'
    BY DEF ChangesOK
  <2>1. CASE d = c
    BY <1>1, <2>1 DEF ChangeOK, Opened
  <2>2. CASE d # c
    BY <1>1, <2>2 DEF ChangesOK, ChangeOK, Opened
  <2>3. QED
    BY <2>1, <2>2
<1>3. \A d \in Changes \ {c} : Withdrawing(d)' = Withdrawing(d)
  BY <1>1 DEF Withdrawing, CopiesOf, Opened
<1>4. ASSUME NEW k \in Unmarked
      PROVE  k \in Unmarked' \/ (k.epoch = keyEpoch[k.scope] => due'[k.scope])
  <2>1. k \in unmarked => k \in Unmarked'
    BY DEF Unmarked
  <2>2. ASSUME k \in Withdrawing(c)
        PROVE  k \in Unmarked' \/ (k.epoch = keyEpoch[k.scope] => due'[k.scope])
    <3>1. k.scope = Vault
      BY <2>2, WithdrawingKeys
    <3>2. k \in unmarked' \/ k \in Withdrawing(c)' => k \in Unmarked'
      BY DEF Unmarked
    <3>3. QED
      BY <2>2, <3>1, <3>2
  <2>3. ASSUME NEW d \in Changes \ {c}, k \in Withdrawing(d)
        PROVE  k \in Unmarked'
    BY <1>3, <2>3 DEF Unmarked
  <2>4. QED
    BY <2>1, <2>2, <2>3, UnmarkedIs
<1>5. leaked' \subseteq Keys /\ LeakedExist' /\ LostKeysReplaced'
  <2>1. \A k \in unmarked' \cup Withdrawing(c)' : k \in Unmarked'
    BY DEF Unmarked
  <2>2. QED
    BY <1>4, <2>1, KeysKept
<1>6. SealedTypeOK'
  BY <1>1, <1>5 DEF SealedTypeOK
<1>7. CopiesLive'
  BY DEF CopiesLive, Live, SealedTypeOK, Wraps
<1>8. QED
  BY <1>2, <1>5, <1>6, <1>7 DEF CopiesOwn, PatchIsPlain, ListsBounded

LEMMA OpenChangeStep ==
  ASSUME SealedInv, NEW c \in Changes, NEW u \in Users, NEW permission \in Permissions \ {"none"},
         OpenChange(c, u, permission)
  PROVE  SealedInv'
<1> USE DEF SealedInv
<1> DEFINE x == [Idle EXCEPT !.pc = "save", !.user = u, !.to = permission,
                             !.couldRead = MemberCanReadRecords(u)]
<1>1. /\ change[c].pc = "idle" /\ change' = [change EXCEPT ![c] = x]
      /\ shuffles < MaxShuffles /\ shuffles' = shuffles + 1
      /\ UNCHANGED <<chain, member, keyEpoch, due, wraps, leaked, entry, pending, unmarked>>
  BY DEF OpenChange, keyVars
<1>2. MemberCanReadRecords(u) \in BOOLEAN
  BY DEF MemberCanReadRecords
<1>3. x \in Change /\ x.pc = "save" /\ x.to # "none" /\ x.rows = {} /\ x.lost = {}
  BY <1>2, IdleType DEF Change
<1> HIDE DEF x
<1>4. ChangeOK(x)
  BY <1>3 DEF ChangeOK
<1>5. Withdrawing(c) = {}
  BY <1>1 DEF Withdrawing, ChangesOK, ChangeOK
<1>6. shuffles' \in 0..MaxShuffles
  BY <1>1, SealedAssumption DEF SealedTypeOK, SealedAssumption
<1>7. QED
  BY <1>1, <1>3, <1>4, <1>5, <1>6, SlotStep DEF SealedTypeOK, IsMember

LEMMA SaveChangeStep ==
  ASSUME SealedInv, NEW c \in Changes, SaveChange(c)
  PROVE  SealedInv'
<1> USE DEF SealedInv
<1> DEFINE u == change[c].user
           denied == IF Denies(c) THEN Opened(CopiesOf(u)) ELSE {}
           x == IF Revokes(c) THEN [Idle EXCEPT !.pc = "find", !.user = u] ELSE Idle
<1>1. /\ change[c].pc = "save" /\ member' = [member EXCEPT ![u] = change[c].to]
      /\ leaked' = leaked \cup denied /\ change' = [change EXCEPT ![c] = x]
      /\ unmarked' = IF Revokes(c) THEN unmarked ELSE unmarked \cup denied
      /\ UNCHANGED <<chain, keyEpoch, due, wraps, entry, pending, shuffles>>
  BY DEF SaveChange
<1>2. u \in Users /\ change[c].to \in Permissions /\ change[c].to # "none"
  BY <1>1 DEF SealedTypeOK, Change, ChangesOK, ChangeOK
<1>3. x \in Change /\ x.pc \in {"find", "idle"} /\ x.rows = {} /\ x.lost = {}
  BY <1>2, IdleType DEF Change
<1>4. Revokes(c) => x.pc = "find" /\ x.user = u
  BY IdleType DEF Change
<1>5. ASSUME NEW k \in denied
      PROVE  k \in Keys /\ k.epoch <= keyEpoch[k.scope]
  <2>1. CopiesOf(u) \in SUBSET wraps /\ k \in Opened(CopiesOf(u))
    BY DEF CopiesOf
  <2>2. QED
    BY <2>1, OpenedKeys
<1>6. denied \subseteq Opened(CopiesOf(u))
  OBVIOUS
<1> HIDE DEF x
<1>7. ChangeOK(x)
  BY <1>3 DEF ChangeOK
<1>8. Withdrawing(c) = {}
  BY <1>1 DEF Withdrawing, ChangesOK, ChangeOK
<1>9. change'[c] = x
  BY <1>1 DEF SealedTypeOK
<1>10. Revokes(c) => denied \subseteq Withdrawing(c)'
  BY <1>1, <1>4, <1>6, <1>9 DEF Withdrawing, CopiesOf, Opened
<1> HIDE DEF denied
<1>11. \A k \in leaked' : \/ k \in leaked
                          \/ /\ k \in Keys /\ k.epoch <= keyEpoch[k.scope]
                             /\ k \in unmarked' \/ k \in Withdrawing(c)'
  BY <1>1, <1>5, <1>10
<1>12. member' \in [Users -> Permissions] /\ \A v \in Users : IsMember(v) => IsMember(v)'
  BY <1>1, <1>2 DEF SealedTypeOK, IsMember
<1>13. unmarked \subseteq unmarked' /\ unmarked' \subseteq Keys
  BY <1>1, <1>5 DEF SealedTypeOK
<1>14. shuffles' \in 0..MaxShuffles /\ due' \in [Scopes -> BOOLEAN] /\ \A s \in Scopes : due[s] => due'[s]
  BY <1>1 DEF SealedTypeOK
<1>15. QED
  BY <1>1, <1>3, <1>7, <1>8, <1>11, <1>12, <1>13, <1>14, SlotStep

LEMMA FindCopiesStep ==
  ASSUME SealedInv, NEW c \in Changes, FindCopies(c)
  PROVE  SealedInv'
<1> USE DEF SealedInv
<1> DEFINE rows == CopiesOf(change[c].user)
           x == IF rows = {} THEN Idle
                ELSE [change[c] EXCEPT !.pc = "delete", !.rows = rows, !.lost = Opened(rows)]
<1>1. /\ change[c].pc = "find" /\ leaked' = leaked \cup Opened(rows)
      /\ UNCHANGED <<chain, member, keyEpoch, due, wraps, entry, pending, unmarked, shuffles>>
  BY DEF FindCopies
<1>2. change' = [change EXCEPT ![c] = x]
  BY DEF FindCopies
<1>3. rows \in SUBSET wraps /\ \A w \in rows : w.scope = Vault
  BY DEF CopiesOf
<1>4. \A k \in Opened(rows) : k \in Keys /\ k.scope = Vault /\ k.epoch <= keyEpoch[Vault]
  BY <1>3, OpenedKeys
<1>5. Withdrawing(c) = Opened(rows)
  BY <1>1 DEF Withdrawing
<1>6. \A w \in rows : Opened({w}) \subseteq Opened(rows)
  BY DEF Opened
<1>7. Opened({}) = {}
  BY DEF Opened
<1> HIDE DEF rows
<1>8. x \in Change /\ (rows # {} => x.pc = "delete" /\ x.rows = rows /\ x.lost = Opened(rows))
  BY <1>3, <1>4, IdleType DEF SealedTypeOK, Change
<1>9. rows = {} => x = Idle
  OBVIOUS
<1> HIDE DEF x
<1>10. ChangeOK(x)
  BY <1>3, <1>4, <1>6, <1>8, <1>9, IdleType DEF ChangeOK
<1>11. Opened(rows) \subseteq Withdrawing(c)'
  <2>1. change'[c] = x
    BY <1>2 DEF SealedTypeOK
  <2>2. CASE rows = {}
    BY <1>7, <2>2
  <2>3. CASE rows # {}
    BY <1>8, <2>1, <2>3 DEF Withdrawing
  <2>4. QED
    BY <2>2, <2>3
<1>12. \A k \in leaked' : \/ k \in leaked
                          \/ /\ k \in Keys /\ k.epoch <= keyEpoch[k.scope]
                             /\ k \in unmarked' \/ k \in Withdrawing(c)'
  BY <1>1, <1>4, <1>11
<1>13. QED
  BY <1>1, <1>2, <1>5, <1>8, <1>10, <1>11, <1>12, SlotStep DEF SealedTypeOK, IsMember

LEMMA DeleteCopyStep ==
  ASSUME SealedInv, NEW c \in Changes, NEW w \in wraps, DeleteCopy(c, w)
  PROVE  SealedInv'
<1> USE DEF SealedInv
<1>1. /\ change[c].pc = "delete" /\ w \in change[c].rows
      /\ wraps' = wraps \ {w} /\ change' = Forget({w})
      /\ UNCHANGED <<chain, member, keyEpoch, due, entry, pending, leaked, unmarked, shuffles>>
  BY DEF DeleteCopy
<1>2. change' \in [Changes -> Change] /\ ChangesOK'
  BY <1>1, ForgetOK, ForgetFields DEF ChangesOK
<1>3. Opened({w}) \subseteq Withdrawing(c)'
  <2>1. Opened({w}) \subseteq change[c].lost
    BY <1>1 DEF ChangesOK, ChangeOK
  <2>2. change'[c].pc = "delete" /\ change'[c].lost = change[c].lost
    BY <1>1, ForgetFields
  <2>3. QED
    BY <2>1, <2>2 DEF Withdrawing
<1>4. ASSUME NEW k \in Unmarked
      PROVE  k \in Unmarked'
  <2>1. k \in unmarked => k \in Unmarked'
    BY <1>1 DEF Unmarked
  <2>2. ASSUME NEW d \in Changes, k \in Withdrawing(d)
        PROVE  k \in Unmarked'
    <3>1. k \in Withdrawing(d)' \/ k \in Opened({w})
      BY <1>1, <2>2, WithdrawingForget
    <3>2. QED
      BY <1>3, <3>1 DEF Unmarked
  <2>3. QED
    BY <2>1, <2>2, UnmarkedIs
<1>5. leaked' \subseteq Keys /\ LeakedExist' /\ LostKeysReplaced'
  BY <1>1, <1>4, KeysKept
<1>6. SealedTypeOK'
  BY <1>1, <1>2 DEF SealedTypeOK
<1>7. CopiesLive'
  BY <1>1 DEF CopiesLive, Live, IsMember
<1>8. QED
  BY <1>1, <1>2, <1>5, <1>6, <1>7 DEF CopiesOwn, PatchIsPlain, ListsBounded

LEMMA CurrentKeyEpochStep ==
  ASSUME SealedInv, NEW c \in Changes, CurrentKeyEpoch(c)
  PROVE  SealedInv'
<1> USE DEF SealedInv
<1> DEFINE x == IF keyEpoch[Vault] = 0 THEN Idle
                ELSE [change[c] EXCEPT !.pc = "mark", !.epoch = keyEpoch[Vault]]
<1>1. /\ change[c].pc = "delete" /\ change[c].rows = {} /\ change' = [change EXCEPT ![c] = x]
      /\ UNCHANGED <<chain, member, keyEpoch, due, wraps, leaked, entry, pending, unmarked, shuffles>>
  BY DEF CurrentKeyEpoch, keyVars
<1>2. keyEpoch[Vault] \in 0..MaxEpochs /\ change[c] \in Change /\ change[c].lost \subseteq Keys
  BY DEF SealedTypeOK, Scopes, Change
<1>3. \A k \in change[c].lost : k.scope = Vault /\ k.epoch <= keyEpoch[Vault]
  BY DEF ChangesOK, ChangeOK
<1>4. keyEpoch[Vault] = 0 => x = Idle /\ change[c].lost = {}
  BY <1>2, <1>3 DEF Keys
<1>5. x \in Change /\ (keyEpoch[Vault] # 0 => /\ x.pc = "mark" /\ x.epoch = keyEpoch[Vault]
                                             /\ x.rows = {} /\ x.lost = change[c].lost)
  BY <1>1, <1>2, IdleType DEF Change
<1> HIDE DEF x
<1>6. ChangeOK(x)
  BY <1>2, <1>3, <1>4, <1>5, IdleType DEF ChangeOK
<1>7. Withdrawing(c) \subseteq Withdrawing(c)'
  <2>1. change'[c] = x /\ Withdrawing(c) = change[c].lost
    BY <1>1 DEF SealedTypeOK, Withdrawing
  <2>2. QED
    BY <1>4, <1>5, <2>1 DEF Withdrawing
<1>8. QED
  BY <1>1, <1>5, <1>6, <1>7, SlotStep DEF SealedTypeOK, IsMember

LEMMA MarkEpochStep ==
  ASSUME SealedInv, NEW c \in Changes, MarkEpoch(c)
  PROVE  SealedInv'
<1> USE DEF SealedInv
<1> DEFINE S == IF change[c].epoch = keyEpoch[Vault] THEN {Vault} ELSE {}
<1>1. /\ change[c].pc = "mark" /\ MarkRotationDue(S) /\ change' = [change EXCEPT ![c] = Idle]
      /\ UNCHANGED <<chain, member, keyEpoch, wraps, leaked, entry, pending, unmarked, shuffles>>
  BY DEF MarkEpoch
<1>2. due' \in [Scopes -> BOOLEAN] /\ \A s \in Scopes : due[s] => due'[s]
  BY <1>1, RotationType DEF SealedTypeOK
<1>3. ASSUME NEW k \in Withdrawing(c), k.epoch = keyEpoch[Vault]
      PROVE  due'[Vault]
  <2>1. k \in Keys /\ k \in change[c].lost
    BY <1>1, <1>3, WithdrawingKeys DEF Withdrawing
  <2>2. k.epoch <= change[c].epoch /\ change[c].epoch <= keyEpoch[Vault]
    BY <1>1, <2>1 DEF ChangesOK, ChangeOK
  <2>3. change[c].epoch \in Int /\ keyEpoch[Vault] \in Int /\ k.epoch \in Nat \ {0}
    BY <2>1 DEF SealedTypeOK, Change, Scopes, Keys
  <2>4. change[c].epoch = keyEpoch[Vault] /\ keyEpoch[Vault] # 0
    BY <1>3, <2>2, <2>3
  <2>5. QED
    BY <1>1, <2>4 DEF MarkRotationDue, Scopes
<1>4. ChangeOK(Idle)
  BY IdleType DEF ChangeOK
<1> HIDE DEF S
<1>5. QED
  BY <1>1, <1>2, <1>3, <1>4, IdleType, SlotStep DEF SealedTypeOK, IsMember

LEMMA CutShortStep ==
  ASSUME SealedInv, NEW c \in Changes, CutShort(c)
  PROVE  SealedInv'
<1> USE DEF SealedInv
<1>1. /\ unmarked' = unmarked \cup Withdrawing(c) /\ change' = [change EXCEPT ![c] = Idle]
      /\ UNCHANGED <<chain, member, keyEpoch, due, wraps, leaked, entry, pending, shuffles>>
  BY DEF CutShort, keyVars
<1>2. unmarked' \subseteq Keys
  BY <1>1, WithdrawingKeys DEF SealedTypeOK
<1>3. ChangeOK(Idle)
  BY IdleType DEF ChangeOK
<1>4. QED
  BY <1>1, <1>2, <1>3, IdleType, SlotStep DEF SealedTypeOK, IsMember

\* While the changes stand where they are, more copies and newer keys cost them nothing.
LEMMA MoreCopies ==
  ASSUME SealedInv, wraps \subseteq wraps', UNCHANGED changeVars,
         keyEpoch'[Vault] \in Nat, keyEpoch[Vault] <= keyEpoch'[Vault]
  PROVE  ChangesOK' /\ Unmarked \subseteq Unmarked'
<1> USE DEF SealedInv
<1>1. change' = change /\ unmarked' = unmarked /\ keyEpoch[Vault] \in Nat
  BY DEF changeVars, SealedTypeOK, Scopes
<1>2. ASSUME NEW c \in Changes
      PROVE  ChangeOK(change[c])'
  <2>1. ChangeOK(change[c]) /\ change[c] \in Change
    BY DEF ChangesOK, SealedTypeOK
  <2>2. \A k \in change[c].lost : k.epoch \in Nat
    BY <2>1 DEF Change, Keys
  <2>3. change[c].epoch \in Nat
    BY <2>1 DEF Change
  <2>4. \A k \in change[c].lost : k.scope = Vault /\ k.epoch <= keyEpoch'[Vault]
    BY <1>1, <2>1, <2>2 DEF ChangeOK
  <2>5. change[c].pc = "mark" => change[c].epoch <= keyEpoch'[Vault]
    BY <1>1, <2>1, <2>3 DEF ChangeOK
  <2>6. QED
    BY <1>1, <2>1, <2>4, <2>5 DEF ChangeOK, Opened
<1>3. ASSUME NEW c \in Changes
      PROVE  Withdrawing(c) \subseteq Withdrawing(c)'
  BY <1>1 DEF Withdrawing, Opened, CopiesOf
<1>4. QED
  BY <1>1, <1>2, <1>3 DEF ChangesOK, Unmarked

\* A new key: its first copies are of the caller's live devices and those granted.
LEMMA NewKeyStep ==
  ASSUME SealedInv, NEW u \in Users, NEW s \in Scopes, s \in Users => s = u,
         NewKey(u, s), pending' \in {pending, NoPending}
  PROVE  SealedInv'
<1> USE DEF SealedInv
<1> DEFINE next == keyEpoch[s] + 1
           Copy(v, d) == [scope |-> s, epoch |-> next, user |-> v, device |-> d]
<1>1. PICK G \in SUBSET {Copy(v, d) : v \in Users \ {u}, d \in 1..MaxEntries} :
        /\ Grantable(u, s, G)
        /\ wraps' = wraps \cup {Copy(u, d) : d \in Live(u)} \cup G
  BY DEF NewKey
<1>2. /\ keyEpoch[s] < MaxEpochs
      /\ s = Vault => IsMember(u)
      /\ keyEpoch' = [keyEpoch EXCEPT ![s] = next]
      /\ due' = [due EXCEPT ![s] = FALSE]
      /\ UNCHANGED <<chain, member, entry, leaked, change, unmarked, shuffles>>
      /\ UNCHANGED changeVars
  BY DEF NewKey, changeVars
<1>3. keyEpoch[s] \in Nat /\ next \in 1..MaxEpochs /\ keyEpoch'[s] = next
  BY <1>2, SealedAssumption DEF SealedTypeOK, SealedAssumption
<1>4. \A x \in Scopes : keyEpoch[x] \in Nat /\ keyEpoch'[x] \in Nat /\ keyEpoch[x] <= keyEpoch'[x]
  BY <1>2, <1>3, SealedAssumption DEF SealedTypeOK, SealedAssumption
<1>5. ASSUME NEW d \in Live(u)
      PROVE  d \in 1..MaxEntries
  <2>1. d \in 1..Len(chain[u]) /\ Len(chain[u]) <= MaxEntries /\ Len(chain[u]) \in Nat
    BY LiveIndex DEF Live, ListsBounded, SealedTypeOK
  <2>2. QED
    BY <2>1, SealedAssumption DEF SealedAssumption
<1>6. \A w \in {Copy(u, d) : d \in Live(u)} \cup G :
        w \in Wraps /\ w.scope = s /\ w.epoch = next
  BY <1>3, <1>5 DEF Wraps
<1>14. ChangesOK' /\ Unmarked \subseteq Unmarked'
  <2>1. wraps \subseteq wraps' /\ Vault \in Scopes
    BY <1>1 DEF Scopes
  <2>2. QED
    BY <1>2, <1>4, <2>1, MoreCopies
<1>7. SealedTypeOK' /\ ListsBounded'
  <2>1. wraps' \subseteq Wraps
    BY <1>1, <1>6 DEF SealedTypeOK
  <2>2. keyEpoch' \in [Scopes -> 0..MaxEpochs] /\ due' \in [Scopes -> BOOLEAN]
    BY <1>2, <1>3 DEF SealedTypeOK
  <2>3. pending' \in Pendings
    BY NoPendingType DEF SealedTypeOK
  <2>4. QED
    BY <1>2, <2>1, <2>2, <2>3 DEF SealedTypeOK, ListsBounded
<1>8. CopiesLive'
  <2> SUFFICES ASSUME NEW w \in wraps'
               PROVE  /\ w.device \in Live(w.user) /\ w.epoch <= keyEpoch'[w.scope]
                      /\ w.scope = Vault => IsMember(w.user)
    BY <1>2 DEF CopiesLive, IsMember, Live
  <2>1. CASE w \in wraps
    <3>1. w \in Wraps /\ w.epoch <= keyEpoch[w.scope]
      BY <2>1 DEF CopiesLive, SealedTypeOK
    <3>2. w.scope \in Scopes /\ w.epoch \in Nat
      BY <3>1 DEF Wraps
    <3>3. w.epoch <= keyEpoch'[w.scope]
      BY <1>4, <3>1, <3>2
    <3>4. QED
      BY <2>1, <3>3 DEF CopiesLive
  <2>2. CASE w \in {Copy(u, d) : d \in Live(u)}
    BY <1>2, <1>3, <2>2
  <2>3. CASE w \in G
    <3>1. w.device \in Live(w.user) /\ IsMember(w.user)
      BY <1>1, <2>3 DEF Grantable, MemberCanReadRecords, IsMember
    <3>2. QED
      BY <1>3, <1>6, <2>3, <3>1
  <2>4. QED
    BY <1>1, <2>1, <2>2, <2>3
<1>9. CopiesOwn'
  <2> SUFFICES ASSUME NEW w \in wraps', w.scope \in Users
               PROVE  w.scope = w.user
    BY DEF CopiesOwn
  <2>1. CASE w \in wraps
    BY <2>1 DEF CopiesOwn
  <2>2. CASE w \in {Copy(u, d) : d \in Live(u)}
    BY <2>2
  <2>3. CASE w \in G
    BY <1>1, <1>6, <2>3, SealedAssumption DEF Grantable, SealedAssumption
  <2>4. QED
    BY <1>1, <2>1, <2>2, <2>3
<1>10. LeakedExist'
  BY <1>2, <1>4 DEF LeakedExist, SealedTypeOK, Keys
<1>11. LostKeysReplaced'
  <2> SUFFICES ASSUME NEW x \in Scopes, keyEpoch'[x] # 0,
                      [scope |-> x, epoch |-> keyEpoch'[x]] \in leaked
               PROVE  due'[x] \/ [scope |-> x, epoch |-> keyEpoch'[x]] \in Unmarked'
    BY <1>2 DEF LostKeysReplaced
  <2>1. x # s
    <3>1. [scope |-> s, epoch |-> next] \notin leaked
      BY <1>3 DEF LeakedExist
    <3>2. QED
      BY <1>3, <3>1
  <2>2. keyEpoch'[x] = keyEpoch[x] /\ due'[x] = due[x]
    BY <1>2, <2>1 DEF SealedTypeOK
  <2>3. due[x] \/ [scope |-> x, epoch |-> keyEpoch[x]] \in Unmarked
    BY <2>2 DEF LostKeysReplaced
  <2>4. QED
    BY <1>14, <2>2, <2>3
<1>12. PatchIsPlain'
  BY <1>2 DEF PatchIsPlain, NoPending
<1>13. QED
  BY <1>7, <1>8, <1>9, <1>10, <1>11, <1>12, <1>14

LEMMA GrantStep ==
  ASSUME SealedInv, NEW u \in Users, NEW v \in Users, NEW d \in 1..MaxEntries,
         GrantSealedAccess(u, v, d)
  PROVE  SealedInv'
<1> USE DEF SealedInv
<1> DEFINE g == [scope |-> Vault, epoch |-> keyEpoch[Vault], user |-> v, device |-> d]
<1>1. /\ Grantable(u, Vault, {g})
      /\ wraps' = wraps \cup {g}
      /\ UNCHANGED <<chain, member, keyEpoch, due, entry, pending, leaked, change, unmarked,
                     shuffles>>
      /\ UNCHANGED changeVars
  BY DEF GrantSealedAccess, changeVars
<1>0. Vault \in Scopes /\ keyEpoch[Vault] \in 1..MaxEpochs
  <2>1. PICK w \in wraps : w.epoch = keyEpoch[Vault]
    BY DEF GrantSealedAccess, Holds
  <2>2. QED
    BY <2>1 DEF SealedTypeOK, Wraps, Scopes
<1>a. g \in Wraps /\ g.scope = Vault /\ g.user = v /\ g.device = d /\ g.epoch = keyEpoch[Vault]
  BY <1>0 DEF Wraps
<1>b. ChangesOK' /\ Unmarked \subseteq Unmarked'
  BY <1>0, <1>1, MoreCopies
<1> HIDE DEF g
<1>2. SealedTypeOK'
  BY <1>1, <1>a DEF SealedTypeOK
<1>3. CopiesLive'
  <2>1. g.device \in Live(g.user) /\ IsMember(g.user)
    BY <1>1 DEF Grantable, MemberCanReadRecords, IsMember
  <2>2. g.epoch <= keyEpoch[g.scope]
    BY <1>0, <1>a
  <2>3. QED
    BY <1>1, <2>1, <2>2 DEF CopiesLive, IsMember, Live
<1>4. CopiesOwn' /\ LeakedExist' /\ PatchIsPlain' /\ ListsBounded'
  BY <1>1, <1>a, SealedAssumption DEF CopiesOwn, LeakedExist, PatchIsPlain, ListsBounded,
                                      SealedAssumption
<1>5. LostKeysReplaced'
  BY <1>1, <1>b DEF LostKeysReplaced
<1>6. QED
  BY <1>2, <1>3, <1>4, <1>5, <1>b

\* Steps that touch only the record or the request under way.
LEMMA RecordStep ==
  ASSUME SealedInv,
         UNCHANGED <<chain, member, keyVars, changeVars, shuffles>>,
         entry' \in Contents, pending' \in Pendings, PatchIsPlain'
  PROVE  SealedInv'
<1> USE DEF SealedInv
<1>1. keyEpoch[Vault] \in Nat /\ UNCHANGED <<keyEpoch, due, wraps, leaked, change, unmarked>>
  BY DEF keyVars, changeVars, SealedTypeOK, Scopes
<1>2. ChangesOK' /\ Unmarked \subseteq Unmarked'
  BY <1>1, MoreCopies
<1>3. LostKeysReplaced'
  BY <1>1, <1>2 DEF LostKeysReplaced
<1>4. QED
  BY <1>1, <1>2, <1>3 DEF SealedTypeOK, ListsBounded, CopiesLive, CopiesOwn, LeakedExist, Live,
                          IsMember

LEMMA WritesStep ==
  ASSUME SealedInv, NEW u \in Users, NEW drop \in BOOLEAN,
         \/ CreateSealedRecord(u) \/ WriteSealedRecord(u, drop) \/ UnsealRecord(u)
         \/ OpenPatch(u) \/ OpenEpoch(u)
  PROVE  SealedInv'
<1> USE DEF SealedInv
<1>a. entry \in Contents /\ entry.version \in Nat /\ keyEpoch[Vault] \in 0..MaxEpochs
      /\ pending \in Pendings /\ pending.version \in Nat
  BY DEF SealedTypeOK, Contents, Pendings, Scopes
<1>1. CASE CreateSealedRecord(u)
  <2>1. 1 \in 0..MaxVersions
    BY SealedAssumption DEF SealedAssumption
  <2>2. entry' \in Contents /\ PatchIsPlain'
    BY <1>1, <1>a, <2>1 DEF CreateSealedRecord, Contents, PatchIsPlain
  <2>3. QED
    BY <1>1, <1>a, <2>2, RecordStep DEF CreateSealedRecord
<1>2. CASE WriteSealedRecord(u, drop)
  <2>1. entry.version + 1 \in 0..MaxVersions
    BY <1>2, <1>a, SealedAssumption DEF WriteSealedRecord, SealedAssumption
  <2>2. entry' \in Contents
    BY <1>2, <1>a, <2>1 DEF WriteSealedRecord, Contents
  <2>3. PatchIsPlain'
    BY <1>2, <1>a DEF WriteSealedRecord, PatchIsPlain, Contents
  <2>4. QED
    BY <1>2, <1>a, <2>2, <2>3, RecordStep DEF WriteSealedRecord
<1>3. CASE UnsealRecord(u)
  <2>1. entry.version + 1 \in 0..MaxVersions /\ 0 \in 0..MaxEpochs
    BY <1>3, <1>a, SealedAssumption DEF UnsealRecord, SealedAssumption
  <2>2. entry' \in Contents
    BY <1>3, <1>a, <2>1 DEF UnsealRecord, Contents
  <2>3. PatchIsPlain'
    BY <1>3, <1>a DEF UnsealRecord, PatchIsPlain, Contents
  <2>4. QED
    BY <1>3, <1>a, <2>2, <2>3, RecordStep DEF UnsealRecord
<1>4. CASE OpenPatch(u)
  <2>1. pending' \in Pendings
    BY <1>4, <1>a, NoPendingType DEF OpenPatch, Pendings, Contents
  <2>2. PatchIsPlain'
    BY <1>4, <1>a, NoPendingType DEF OpenPatch, PatchIsPlain, Pendings
  <2>3. QED
    BY <1>4, <1>a, <2>1, <2>2, RecordStep DEF OpenPatch
<1>5. CASE OpenEpoch(u)
  <2>1. pending' \in Pendings /\ pending'.pc = "epoch"
    <3>1. MemberCanReadRecords(u) \in BOOLEAN
      BY DEF MemberCanReadRecords
    <3>2. QED
      BY <1>5, <3>1, NoPendingType DEF OpenEpoch, Pendings
  <2>2. QED
    BY <1>5, <1>a, <2>1, RecordStep DEF OpenEpoch, PatchIsPlain
<1>6. QED
  BY <1>1, <1>2, <1>3, <1>4, <1>5

LEMMA SavePatchStep ==
  ASSUME SealedInv, SavePatch \/ LinkRecord
  PROVE  SealedInv'
<1> USE DEF SealedInv
<1>1. entry' \in Contents
  BY DEF SavePatch, LinkRecord, SealedTypeOK, Contents
<1>2. pending' \in Pendings /\ PatchIsPlain'
  <2>1. CASE SavePatch
    BY <2>1, NoPendingType DEF SavePatch, PatchIsPlain, NoPending
  <2>2. CASE LinkRecord
    BY <2>2 DEF LinkRecord, PatchIsPlain, SealedTypeOK, Contents
  <2>3. QED
    BY <2>1, <2>2
<1>3. QED
  BY <1>1, <1>2, RecordStep DEF SavePatch, LinkRecord

LEMMA StartStep ==
  ASSUME SealedInv, StartSealedEpoch \/ \E u \in Users : StartAccountEpoch(u)
  PROVE  SealedInv'
<1>1. CASE StartSealedEpoch
  <2>1. pending' = NoPending /\ pending.user \in Users /\ Vault \in Scopes /\ Vault \notin Users
    BY <1>1, SealedAssumption
       DEF StartSealedEpoch, SealedInv, SealedTypeOK, Pendings, Scopes, SealedAssumption
  <2>2. CASE NewKey(pending.user, Vault)
    BY <2>1, <2>2, NewKeyStep
  <2>3. CASE UNCHANGED <<chain, member, keyVars, entry, changeVars, shuffles>>
    <3>1. entry' \in Contents /\ PatchIsPlain'
      BY <2>1, <2>3 DEF SealedInv, SealedTypeOK, PatchIsPlain, NoPending
    <3>2. QED
      BY <2>1, <2>3, <3>1, NoPendingType, RecordStep
  <2>4. QED
    BY <1>1, <2>2, <2>3 DEF StartSealedEpoch
<1>2. ASSUME NEW u \in Users, StartAccountEpoch(u)
      PROVE  SealedInv'
  <2>1. u \in Scopes /\ NewKey(u, u) /\ pending' = pending
    BY <1>2 DEF StartAccountEpoch, Scopes
  <2>2. QED
    BY <2>1, NewKeyStep
<1>3. QED
  BY <1>1, <1>2

\* The steps of a membership's change.
ChangeMoves(c) == \/ \E u \in Users : \E p \in Permissions \ {"none"} : OpenChange(c, u, p)
                  \/ SaveChange(c) \/ FindCopies(c) \/ \E w \in wraps : DeleteCopy(c, w)
                  \/ CurrentKeyEpoch(c) \/ MarkEpoch(c) \/ CutShort(c)

LEMMA InvStep == SealedInv /\ [SealedNext]_sealedVars => SealedInv'
<1> SUFFICES ASSUME SealedInv, [SealedNext]_sealedVars
             PROVE  SealedInv'
  OBVIOUS
<1>1. CASE UNCHANGED sealedVars
  <2>1. UNCHANGED <<chain, member, keyVars, changeVars, shuffles, entry, pending>>
    BY <1>1 DEF sealedVars, keyVars, changeVars
  <2>2. entry' \in Contents /\ pending' \in Pendings /\ PatchIsPlain'
    BY <2>1 DEF SealedInv, SealedTypeOK, PatchIsPlain
  <2>3. QED
    BY <2>1, <2>2, RecordStep
<1>2. CASE SealedNext
  <2>1. ASSUME NEW c \in Changes, ChangeMoves(c)
        PROVE  SealedInv'
    BY <2>1, OpenChangeStep, SaveChangeStep, FindCopiesStep, DeleteCopyStep,
       CurrentKeyEpochStep, MarkEpochStep, CutShortStep DEF ChangeMoves
  <2>2. ASSUME NEW u \in Users,
               RemoveMember(u) \/ \E p \in Permissions \ {"none"} : AddMember(u, p)
        PROVE  SealedInv'
    BY <2>2, AddMemberStep, RemoveMemberStep
  <2>3. ASSUME NEW u \in Users,
               \/ AppendDevices(u) \/ Reset(u) \/ OpenEpoch(u) \/ StartAccountEpoch(u)
               \/ \E v \in Users, d \in 1..MaxEntries : GrantSealedAccess(u, v, d)
        PROVE  SealedInv'
    BY <2>3, AppendStep, ResetStep, GrantStep, WritesStep, StartStep
  <2>4. ASSUME NEW u \in Users,
               \/ CreateSealedRecord(u) \/ UnsealRecord(u) \/ OpenPatch(u)
               \/ \E drop \in BOOLEAN : WriteSealedRecord(u, drop)
        PROVE  SealedInv'
    BY <2>4, WritesStep
  <2>5. QED
    BY <1>2, <2>1, <2>2, <2>3, <2>4, SavePatchStep, StartStep
       DEF SealedNext, ChangeMoves
<1>3. QED
  BY <1>1, <1>2

-----------------------------------------------------------------------------
(* What follows for every behaviour. *)

\* Every reachable state is as SealedInv says: types, bounds, which copies exist, and
\* what is known of keys that were lost.
THEOREM SealedInvariant == SealedSpec => []SealedInv
  BY InvInit, InvStep, PTL DEF SealedSpec

\* No order of removals, resets, demotions, grants and new keys leaves a copy for a
\* device that is not live or for somebody who is no member (withdrawDeviceWraps,
\* RevokeSealedAccess, resetSealing).
THEOREM CopiesLiveHolds == SealedSpec => []CopiesLive
<1>1. SealedInv => CopiesLive
  BY DEF SealedInv
<1>2. QED
  BY <1>1, SealedInvariant, PTL

\* A key that somebody lost a copy of is due to be replaced as long as it is the scope's
\* newest, however it was lost, unless the withdrawal by an update's hook has yet to mark
\* it, was cut short or went by a stale row.
THEOREM LostKeysReplacedHolds == SealedSpec => []LostKeysReplaced
<1>1. SealedInv => LostKeysReplaced
  BY DEF SealedInv
<1>2. QED
  BY <1>1, SealedInvariant, PTL

\* No step of a membership's change touches the record.
LEMMA ChangeKeepsRecord ==
  ASSUME NEW c \in Changes, ChangeMoves(c)
  PROVE  entry' = entry
<1>1. ASSUME NEW u \in Users, NEW p \in Permissions, OpenChange(c, u, p)
      PROVE  entry' = entry
  BY <1>1 DEF OpenChange
<1>2. SaveChange(c) \/ FindCopies(c) => entry' = entry
  BY DEF SaveChange, FindCopies
<1>3. \A w \in wraps : DeleteCopy(c, w) => entry' = entry
  BY DEF DeleteCopy
<1>4. CurrentKeyEpoch(c) \/ MarkEpoch(c) \/ CutShort(c) => entry' = entry
  BY DEF CurrentKeyEpoch, MarkEpoch, CutShort
<1>5. QED
  BY <1>1, <1>2, <1>3, <1>4 DEF ChangeMoves

\* A holder of the current key, with no new one due: nobody else can open it, or its
\* withdrawal has yet to mark it.
LEMMA WritableKeyIsSafe ==
  ASSUME SealedInv, NEW u \in Users, SealedWritable(u)
  PROVE  LET key == [scope |-> Vault, epoch |-> keyEpoch[Vault]] IN
           key \notin leaked \/ key \in Unmarked
<1>1. PICK w \in wraps : w.scope = Vault /\ w.epoch = keyEpoch[Vault]
  BY DEF SealedWritable, Holds
<1>2. keyEpoch[Vault] # 0 /\ ~due[Vault] /\ Vault \in Scopes
  BY <1>1 DEF SealedWritable, SealedInv, SealedTypeOK, Wraps, Scopes
<1>3. QED
  BY <1>2 DEF SealedInv, LostKeysReplaced

\* Whatever seals or rewrites the record does so under a key nobody was denied
\* (checkSealedWrite), except while the hook of a membership's update has yet to mark it, or
\* after it failed to; and a PATCH that was loaded before never touches a sealed row.
THEOREM SealedUnderSafeKeyHolds == SealedSpec => SealedUnderSafeKey
<1> DEFINE key == [scope |-> Vault, epoch |-> entry'.under]
           safe == key \notin leaked \/ key \in Unmarked
<1>1. ASSUME SealedInv, [SealedNext]_sealedVars, entry'.sealed, entry' # entry
      PROVE  safe
  <2>1. ASSUME NEW u \in Users, CreateSealedRecord(u)
        PROVE  safe
    BY <1>1, <2>1, WritableKeyIsSafe DEF CreateSealedRecord
  <2>2. ASSUME NEW u \in Users, NEW drop \in BOOLEAN, WriteSealedRecord(u, drop)
        PROVE  safe
    BY <1>1, <2>2, WritableKeyIsSafe
       DEF WriteSealedRecord, SealedInv, SealedTypeOK, Contents
  <2>3. ASSUME NEW u \in Users, UnsealRecord(u)
        PROVE  FALSE
    BY <1>1, <2>3 DEF UnsealRecord, SealedInv, SealedTypeOK, Contents
  <2>4. ASSUME SavePatch
        PROVE  FALSE
    BY <1>1, <2>4 DEF SavePatch, PatchAllowed, SealedInv, PatchIsPlain, SealedTypeOK, Contents
  <2>5. ASSUME LinkRecord
        PROVE  FALSE
    BY <1>1, <2>5 DEF LinkRecord, SealedInv, SealedTypeOK, Contents
  <2>6. ASSUME NEW u \in Users, Reset(u)
        PROVE  FALSE
    BY <1>1, <2>6, ResetRecord DEF Gone
  <2>7. ASSUME NEW u \in Users,
               \/ AppendDevices(u) \/ OpenEpoch(u) \/ OpenPatch(u) \/ StartAccountEpoch(u)
               \/ RemoveMember(u) \/ \E p \in Permissions : AddMember(u, p)
               \/ \E v \in Users, d \in 1..MaxEntries : GrantSealedAccess(u, v, d)
        PROVE  entry' = entry
    <3>1. AppendDevices(u) => entry' = entry
      BY DEF AppendDevices
    <3>2. OpenEpoch(u) \/ OpenPatch(u) => entry' = entry
      BY DEF OpenEpoch, OpenPatch
    <3>3. StartAccountEpoch(u) => entry' = entry
      BY DEF StartAccountEpoch, NewKey
    <3>4. (RemoveMember(u) => entry' = entry) /\ \A p \in Permissions : AddMember(u, p) => entry' = entry
      BY DEF AddMember, RemoveMember
    <3>5. \A v \in Users, d \in 1..MaxEntries : GrantSealedAccess(u, v, d) => entry' = entry
      BY DEF GrantSealedAccess
    <3>6. QED
      BY <2>7, <3>1, <3>2, <3>3, <3>4, <3>5
  <2>10. ASSUME NEW c \in Changes, ChangeMoves(c)
        PROVE  entry' = entry
    BY <2>10, ChangeKeepsRecord
  <2>8. ASSUME StartSealedEpoch \/ UNCHANGED sealedVars
        PROVE  entry' = entry
    BY <2>8 DEF StartSealedEpoch, NewKey, sealedVars
  <2>9. QED
    BY <1>1, <2>1, <2>2, <2>3, <2>4, <2>5, <2>6, <2>7, <2>8, <2>10 DEF SealedNext, ChangeMoves
<1>2. SealedInv /\ [SealedNext]_sealedVars
        => [entry'.sealed /\ entry' # entry
              => safe]_sealedVars
  BY <1>1
<1>3. QED
  BY <1>2, SealedInvariant, PTL DEF SealedSpec, SealedUnderSafeKey

\* A sealed row keeps no plain value and no link names it, whatever PATCH, link or unsealing
\* comes between (writeSealedRecord, refuseStaleRecordWrite, refuseNewSealedRecords).
THEOREM SealedHoldsNoPlainHolds == SealedSpec => []SealedHoldsNoPlain
<1>1. SealedInit => SealedHoldsNoPlain
  BY DEF SealedInit, Gone, SealedHoldsNoPlain
<1>2. SealedInv /\ SealedHoldsNoPlain /\ [SealedNext]_sealedVars => SealedHoldsNoPlain'
  <2> SUFFICES ASSUME SealedInv, SealedHoldsNoPlain, [SealedNext]_sealedVars
               PROVE  SealedHoldsNoPlain'
    OBVIOUS
  <2>0. entry \in Contents
    BY DEF SealedInv, SealedTypeOK
  <2>1. ASSUME NEW u \in Users,
               CreateSealedRecord(u) \/ UnsealRecord(u) \/ \E drop \in BOOLEAN : WriteSealedRecord(u, drop)
        PROVE  SealedHoldsNoPlain'
    <3>1. CreateSealedRecord(u) => entry'.sealed /\ ~entry'.plain /\ ~entry'.linked
      BY DEF CreateSealedRecord
    <3>2. UnsealRecord(u) => ~entry'.sealed
      BY <2>0 DEF UnsealRecord, Contents
    <3>3. ASSUME NEW drop \in BOOLEAN, WriteSealedRecord(u, drop)
          PROVE  ~entry'.plain /\ ~entry'.linked
      BY <2>0, <3>3 DEF WriteSealedRecord, Contents
    <3>4. QED
      BY <2>1, <3>1, <3>2, <3>3 DEF SealedHoldsNoPlain
  <2>2. CASE SavePatch
    <3>1. PatchAllowed => ~entry.sealed
      BY <2>2 DEF SavePatch, PatchAllowed, SealedInv, PatchIsPlain
    <3>2. QED
      BY <2>0, <2>2, <3>1 DEF SavePatch, SealedHoldsNoPlain, Contents
  <2>3. CASE LinkRecord
    BY <2>0, <2>3 DEF LinkRecord, SealedHoldsNoPlain, Contents
  <2>4. ASSUME NEW u \in Users, Reset(u)
        PROVE  SealedHoldsNoPlain'
    BY <2>4, ResetRecord DEF Gone, SealedHoldsNoPlain
  <2>5. ASSUME NEW u \in Users, AppendDevices(u) \/ OpenEpoch(u) \/ OpenPatch(u)
        PROVE  SealedHoldsNoPlain'
    BY <2>5 DEF AppendDevices, OpenEpoch, OpenPatch, SealedHoldsNoPlain
  <2>6. ASSUME NEW u \in Users,
               \/ StartAccountEpoch(u)
               \/ RemoveMember(u) \/ \E p \in Permissions : AddMember(u, p)
               \/ \E v \in Users, d \in 1..MaxEntries : GrantSealedAccess(u, v, d)
        PROVE  SealedHoldsNoPlain'
    <3>1. StartAccountEpoch(u) => entry' = entry
      BY DEF StartAccountEpoch, NewKey
    <3>2. (RemoveMember(u) => entry' = entry) /\ \A p \in Permissions : AddMember(u, p) => entry' = entry
      BY DEF AddMember, RemoveMember
    <3>3. \A v \in Users, d \in 1..MaxEntries : GrantSealedAccess(u, v, d) => entry' = entry
      BY DEF GrantSealedAccess
    <3>4. QED
      BY <2>6, <3>1, <3>2, <3>3 DEF SealedHoldsNoPlain
  <2>7. CASE StartSealedEpoch
    BY <2>7 DEF StartSealedEpoch, NewKey, SealedHoldsNoPlain
  <2>8. CASE UNCHANGED sealedVars
    BY <2>8 DEF sealedVars, SealedHoldsNoPlain
  <2>10. ASSUME NEW c \in Changes, ChangeMoves(c)
        PROVE  SealedHoldsNoPlain'
    BY <2>10, ChangeKeepsRecord DEF SealedHoldsNoPlain
  <2>9. QED
    BY <2>1, <2>2, <2>3, <2>4, <2>5, <2>6, <2>7, <2>8, <2>10 DEF SealedNext, ChangeMoves
<1>3. QED
  BY <1>1, <1>2, SealedInvariant, PTL DEF SealedSpec

=============================================================================
