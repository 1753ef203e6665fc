# A verification development for revoked

The server of this repository (Go, on PocketBase) lets people share entries of a
vault as *living grants*: a link that its owner can pause, revoke or let expire,
read by people, by services and by other servers. What makes it correct is mostly
about order: who read a row before whom, which statement a crash fell between,
which event overtook which answer. This directory models those parts in TLA+,
checks them with TLC on small instances and proves every safety property of those
checks with TLAPS, for all values of the constants.

## Contents

1. The system: inventory
2. Modules, and how they correspond to the code
3. The record store: what is assumed of PocketBase
4. Runs: bounds, fairness and results
5. Where the code and its documentation disagree
6. Proofs
7. What is only model-checked, what is not modelled
8. Plan

## 1. The system: inventory

State lives in SQLite tables behind PocketBase. HTTP handlers (`routes/`) load a
record into memory, decide, call `services/`, and save; `hooks/` run around every
save. Requests run concurrently and nothing locks a row: atomic are one SQL
statement and one `RunInTransaction` block.

| Component | State | Operations | Hard part | Correct when |
|---|---|---|---|---|
| Links (`services/links.go`, `routes/public*.go`, link hooks) | links row: status, viewCount, maxViews, expiresAt, heldPaused; grantRecords index | probe, resolve, claim, auto-revoke, PATCH, DELETE, expiry | copies go stale between load and save; the claim bypasses hooks | data only to readers admitted while live and within the cap; a closed link is not reopened by a stale save; every closing is announced |
| Grant outbox (`services/grantDeliveries.go`, `grantEmail.go`) | grantDeliveries rows, `deliveryKick`, ticker | enqueue, kick, attempt, back off, give up, sweep, prune | restart between send and record; wake-up racing the wait | nothing queued is lost, reopened or falsely delivered; failures are told; lapsed grants are settled |
| Remote answers (`services/remoteGrants.go`, `routes/remoteGrants.go`) | link at the responder, remoteGrants row and value cache at the requester | relay, accept, undo, bulk read, events | two servers, timeouts, events in any order | tokens agree; cached values obey maxAge; the stored status follows |
| Requests (`routes/publicRequests.go`, `requestGrants.go`) | requests row, responseCount | submit, re-answer, complete, list | read-modify-write of the counter | no more responses than the cap; one answer per responder |
| Tool connections (`routes/connections.go`, `connectionControls.go`) | connections row, connectionTokens rows, the links and requests a tool proposed | connect, reuse, exchange, propose, revoke, leave, pause, resume, disconnect | a call let in before a pause or disconnect; a lapsed connection renewed | pause holds what the tool shares and resume wakes just that; lapsed tokens stay dead |
| Sealed vault (`routes/sealed.go`, `services/sealed.go`, `util/sealedchain.go`) | device lists, key epochs with rotationDue, wrapped copies, sealed records | append devices, start an epoch, grant, write, unseal, reset, demotions and removals of members | many ways to lose a copy of a key, each of which must make a new key due | nobody who lost a key keeps what is sealed afterwards; no copy for a removed device or member |
| Webhooks (`services/webhooks.go`, `routes/webhooks.go`) | endpoints, deliveries, `webhookKick` | emit, attempt, resend, replay, test, turn off | worker against resend and replay; restart with attempts in flight | an event is given up only after every attempt; whatever is queued is settled |
| Sign-in (`routes/oidc.go`, `services/oidc.go`) | codes and tokens in memory, signIns row, its link | authorize, consent, token, userinfo, pause, resume, disconnect | approvals and controls on stale rows | no hold outlives the pause; a grant from before a disconnect reads nothing |
| Attestations (`services/attestations.go`, `routes/attestation*.go`) | attestations, status positions, credentials, share links, kept status lists | offer, claim, re-issue, revoke, publish, verify, share | two identities racing for an offer; lost answers; cached lists | one standing credential per attestation; revoked is for ever and soon seen |
| Workspaces, members, invites | workspaceMembers, invites | add, change, remove, invite, redeem, tear down | checks before the save's transaction | no more joins than uses; an administrator remains |
| Identities (`services/identities.go`, `hooks/identities.go`) | identities, identityRevocations | issue, edit, revoke, delete, answer a fingerprint | edits under way while the membership ends | who left asserts nothing; revoked stays revoked |
| Closing an account (`services/account.go`) | everything that names the person | purge, hand over | one row left over refuses all of it | an account can be closed |
| Root key and peers (`server/root.go`, `services/peers.go`, `routes/remoteGrants.go`) | root key file, pin in DNS, caches of other servers' root and credential keys | start, publish or withdraw a pin, walk DNS and server to a key, check a batch | a crash while the key is made; a walk slower than a rotation; batches over one cache entry | DNS pins the key that is served; a key is not trusted long after its pin went; a rotation refuses nobody |
| Status of an identity (`server/identity_status.go`, `routes/identityStatus.go`) | answers signed per window, relays' copies, both clocks | ask, answer, relay, judge | four waits between the revocation and the verdict | a revocation is heard within a known time; an honest answer is not thrown away |
| Checks of attestations (`routes/attestationChecks.go`, `services/attestations.go`) | attestationChecks row, an answer under way | ask, show, verify link by link, keep the verdict | links of the chain end between the calls | answered once, and "verified" means every link held lately |
| Ways in (`services/passkeys.go`, `routes/passkeys.go`, `signupEmail.go`) | codes, proofs, ceremonies and session codes in memory; accounts, passkeys, tickets | send, redeem, guess, begin and finish a ceremony, collect, remove | overlapping ceremonies on one proof or ticket; restarts and lapses | a proof, ticket, ceremony is worth one; an account keeps a way in |
| Contacts (`services/contacts.go`, `routes/contactGrants.go`) | contacts, blocks, the tray, the delivery ledger | resolve, decide, deliver, record, clear | reads at different steps; a lost ledger row | strangers learn nothing and are capped; a block wins |
| Reminders (`services/reminders.go`, `hooks/reminders.go`) | reminders row | pass, save of an entry, edit, mark, tell | two passes and an edit from a stale copy | told once per arming |
| Challenges (`challenges.go`, `publicFiles.go`) | maps under one mutex | issue, consume, collect | nothing between two steps | consumed once |
| Vault CRUD, mail, pages, app, MCP bridge | rows, HTML, clients | CRUD, rendering | none of the above | access rules |

They meet in few places. A save of a link runs the grant hooks, which rewrite the
index and queue events in the outbox; the outbox carries events to the other
server, where they change the remoteGrants row; reads from that server go back to
the link. Pausing a tool connection saves its links, as pausing a sign-in does. Removing
a member takes their keys away (sealed vault) and revokes their identities. The hazards each part is
exposed to are listed in `PROJECT.json`, at their lines, with the properties that
would notice them.

## 2. Modules, and how they correspond to the code

`ViewBudget` is what a link promises: it hands out its data only to a reader who
was admitted while it was live, and never more often than the cap in force. It is
stated without copies, hooks or statements. Data may still be handed to a reader
admitted just before a revocation: the resolve handler does not look again.

`Links` is one link that answers a request, and the requests on it. A process is
one HTTP request, the sweep or a tool's transaction. `orig` is the record as
loaded (`Record.Original()`), `copy` the record in memory. The steps are the SQL
statements of the code: `Open` is the load and the decision of
`RefreshLinkStatus`; `Claim` the guarded UPDATE of `ClaimLinkView`, whose report
comes from the copy; `CloseAtCap` its raw UPDATE of the status; `Write`,
`SyncIndex` and `Tell` one `app.Save` with its hooks; `Edit`, `OpenDelete` and `Delete`
the owners' requests (a delete loads the row, and its hook decides on the event from
what it loaded); `PauseConnection`, `ResumeConnection` and
`DisconnectConnection` the transactions of a tool. The same transactions of a
sign-in (`PauseSignIn` and its siblings) act on a link in the same way.
`StatementFails`, `QueueFails` and `Crash` are what can go wrong in between.

`Outbox` is what the delivery table promises; `GrantDeliveries` is the table, the
requests that fill it and the worker. The worker's program counter follows
`RunGrantDeliveries`: `Query`, `Attempt` and `Record` for each row, `TakeKick` or
`TakeTick` at the `select`, then `Sweep`, `Settle`, `AnnounceSettled` and
`Prune`. `Attempt` includes everything of `attemptDelivery` up to the save, with
the notice of a failure (`TellOwner`), which is best effort: it may fail, and there is nobody
to tell of a grant that is gone; `muted` are these rows. `Record` is the save. Time is counted in ticks of the
worker's ticker.

`RemoteGrants` is one grant held by another server. On the responder's server:
`link`, the owner's own requests, and the relay of an answer (`SaveLink`, `Post`,
`Undo`). On the requester's: `accept` (the handler of the relayed answer), `row`,
`cache`, the bulk read (`Ask`, `Answer`, `Receive`, `WriteBack`) and a batch of
events (`Deliver`, `Apply`). A set of events stands for the network: any order,
any delay, and an event may be delivered again. Every answer and every edit has
its own value, so a stale one is recognised; `unreadable` remembers for how long
each value could no longer have been read from the link.

`Requests` is one request for data, the answers to it and its counter. A process is
one HTTP request: a submission of a local responder, an answer accepted from another
server (`acceptRemoteAnswer` follows the same steps), an owner's PATCH, or the
tool's own close. `Open` is the load with the decision of `RefreshRequestStatus`,
`TurnAway` any gate that refuses, `FindExisting` the look-up of the responder's
earlier answer, `CreateAnswer` and `UpdateAnswer` the save of the answer, `Save` the
save of the counted (or transitioned, or patched) request. `Withdraw` deletes a local
answer; answers from other servers go only with the request. `PauseConnection`,
`ResumeConnection` and `DisconnectConnection` are transactions, `CloseByTool` is a
load and a save. The connection's own paused flag is in `Connections`. An owner
patches one of status, maxResponses and expiresAt; the collection's API would take a
responseCount or heldPaused too, which no client of the repository sends.

`Sealed` is the keys. `chain` is each person's signed list; `Acceptable` is
`SealedChain.acceptable` without the cryptography. `keyEpoch` and `due` are the newest
epoch of a scope (the workspace or a person's account), `wraps` the wrapped copies.
Every route is one transaction that checks again, so it is one action; two things are
loaded before: the membership in `startSealedEpoch` (`OpenEpoch`, `StartSealedEpoch`)
and the row of a PATCH (`OpenPatch`, `SavePatch`). A `change` of a member's permissions is no
transaction: `OpenChange` loads the row, `SaveChange` is the UPDATE, and the hook's
`RevokeSealedAccess` follows statement by statement, `FindCopies`, `DeleteCopy` for each,
`CurrentKeyEpoch`, `MarkEpoch`; `CutShort` is the failure or stop in between. `unmarked` remembers the
keys that such a withdrawal never came to mark, or never knew of because the row it loaded
could not read. `leaked` remembers the keys that
someone could open and was denied since.

`Webhooks` is one endpoint. The worker attempts a batch at once, one goroutine per
delivery; a `job` is one call of `AttemptWebhookDelivery`, by the worker, a test or a
resend, with its copy of the delivery and of the endpoint's health: `LoadEndpoint`,
`PostWebhook`, `RecordAttempt`, `NoteEndpointHealth` are its statements.

`Attestations` is one issuer and one server of holders and verifiers. `claims` are
claims and re-issues between their first look and their transaction; `issued`
remembers every credential signed, `kept` those whose answer arrived. A PATCH to revoked
changes the status (`EndAttestation`), then its hook sets the bits one by one (`RevokePosition`),
unless it is cut short (`CutRevocation`): `revoking` and `halted`. `fetch` and
`list` are status lists on their way and the kept one.

`TrustChain` is one domain: the root key's file and process on the issuing side, the pin, and
the two caches of a verifier. A walk is one call of `verifyFromPeer` or `PeerCredentialKey`:
`Begin`, `FindKeptKey`, `LookupPin`, `FetchServerAssertion`, `KeepRootKey`, `VerifyBatch`,
`KeepCredentialKey` are its steps, and it takes the time before the first call.

`IdentityStatus` is one identity: the issuer reads its rows (`ReadStatus`) and signs for the
current window (`AnswerStatus`), a relay hands out what it kept (`AnswerFromRelay`), and the
check judges by the time it took before it asked (`Verdict`). `ahead` is the difference of the clocks.

`Presentations` is a check of an attestation. `OpenAnswer` is the answer to it as it is received, then the
verification asks for the key, the standing and the holder's identity one after the other;
`KeepAnswer` is the guarded UPDATE. How long a kept answer of another server is used
(`StaleFor`) is what the two modules before and `Attestations` bound.

`Passkeys` is one address: the code last mailed, its proofs, ceremonies with their one finishing
request (`TakeCeremony`, `PayWithProof`, `SaveSignup`, `SaveEnroll`, `FinishLogin`), tickets and
the code that buys a session. What is in memory lapses on its own and a restart empties it.

`Contacts` is two people, each with a contact row of the other. A `send` is one request, of which
`ResolveContact`, `MarkContactUsed`, `CheckDelivery`, `DeliverToContact`, `RecordContactDelivery`
are the statements; what a recipient holds and the ledger are sets of sends. `astray` are the
sends that the cap could not count: checked while another of the sender's was past its check
and not recorded, or delivered and never recorded.

`Reminders` is one reminder: a `pass` of the scheduler or a save of the entry loads it, marks it
with a guarded UPDATE (`MarkFired`) and tells (`TellOwner`); `patch` is the owner's edit.

`SignIns` is one person at one service: the row, the link found from it, tickets,
codes, tokens, and two of the owner's controls at a time, each loading the row before its
transaction.

`Connections` is one tool and its connections, one after the other; `owned` are the owner's
controls between load and transaction, `calls` the tool's calls that were let in. A new item is
checked against the connection (`CheckByTool`, `CheckProposal`: the hooks before the save) and
inserted (`InsertItem`) in two steps.

`Workspaces` is one workspace. `work` holds requests between their checks and their save:
changes and removals of members, redemptions, identities, edits, and the closing of an
account, whose shape ("sole", "shared", "none") is judged before its transaction.

Components that share no row are composed in one MC module, where the variable `part`
says which of them a behaviour follows: `MCCrossServer` (`GrantDeliveries`,
`RemoteGrants`, `Webhooks`), `MCVault` (`Sealed`, `Attestations`, `Reminders`), `MCAccess`
(`Connections`, `SignIns`, `Contacts`), `MCTrust` (`TrustChain`, `IdentityStatus`,
`Presentations`, `Passkeys`). A run of one of them checks the properties of all its
components, each from its own initial states; nothing is claimed of their interplay: they share no
row. Some properties of these runs are conjunctions of what the components promise
(`GivenUpForCause`, `ConfirmedOnce`, `StrangersBounded`, `StatusHeardRightly`), the types of
their variables included.

Where an id decides, the model follows whoever makes it. A PATCH that loaded a record before a
reset deleted it finds nothing to save, although the model has one record only: the app gives
every record a random id of its own (`vault_store.dart:764`, `:791`).

A variant of a definition, marked "Variant" above it, is the code with a plausible
bug; each property has one that breaks it, and nothing else uses it.

## 3. The record store: what is assumed of PocketBase

PocketBase is not in this repository. Taken from it:

- `app.Save` outside a transaction is not atomic with its hooks. Code after
  `e.Next()` in `OnRecordUpdate` runs after the UPDATE, as statements of its own.
- An update writes the columns that differ from the record as loaded. Comments in
  the repository (`hooks/sealed.go`, `services/remoteGrants.go`,
  `services/links.go`) speak of every column being written. `SaveModes` in
  `Links` says which it is: the runs and all theorems but `TypeCorrect` take
  `{"columns"}`. `RemoteGrants` and `Requests` write columns only; what `Requests`
  would lose otherwise its variant `MergedWhole` shows (`CountExact` breaks).
- An after-create hook runs once the row is committed.
- A delete is different where the repository says so: what the delete hooks of members and
  identities do after `e.Next()` is taken as part of the delete (`hooks/workspaceMembers.go:88`
  "Inside the delete transaction", `hooks/identities.go:148`). Only `Sealed`
  (removing a member) and `Workspaces` (removing a member, deleting an identity) rest on these comments.
  Were they wrong, a crash between a removal and its hook would leave the keys and identities of a former
  member in force. Everywhere else, deletes of links and attestations included, hooks
  are statements of their own.
- Two comments promise the same of an update's hook ("Inside the update's own transaction",
  `hooks/workspaceMembers.go:105`; "inside the save's own transaction", `hooks/attestations.go:103`).
  The models do not rely on it: a demotion in `Sealed` and a revocation in `Attestations` are the UPDATE
  first and the hook's statements after it. What that costs is in section 5.
- A hook that runs before the INSERT checks what it reads then, in a statement of its own (`Connections`).
- In `RemoteGrants` a find and the save that follows it, with no call to the other
  server in between, are one step. `Links` is where that gap is modelled.

## 4. Runs: bounds, fairness and results

| Run | Bounds | What it shows |
|---|---|---|
| `Links` | 2 readers (interchangeable), 2 owners (interchangeable), caps 0, 2, one tick of the clock, 2 edits or failures | the inductive invariant, closings told, the index current, closed stays closed, and the refinement of `ViewBudget` |
| `Requests` | 2 submissions (interchangeable), 1 local and 1 remote responder, 1 owner, 1 call of the tool, caps 0, 1, 2, one tick, 2 edits or failures | the count is never inflated, is exact and keeps the cap without overlaps, closed requests stay closed |
| `CrossServer` | outbox: 2 rows, batch 2, 2 attempts, 2 changes, 1 fault, at most 3 requests and faults together (`MaxEvents`); answers: 2 reads, 1 batch of events, an answer and a re-answer, 1 edit, 1 fault, at most 2 of these (`MaxHappenings`), maxAge 1; webhooks: 1 event, 1 test, 1 resend, 2 attempts, 1 change | wake-ups, giving up, notices; tokens and cached values; webhooks given up only after every attempt |
| `CrossServerLive` | outbox: 1 row, batch 1, an edit and a fault; answers: 1 read, 2 event times, an answer, an edit and a fault; webhooks: 1 event, 1 change or restart, no tests or resends | the refinement of `Outbox` with its fairness, lapsed grants and webhooks settled, the stored status settles |
| `Vault` | keys: 2 people, 1 administrator, 1 account, 2 list entries, 2 epochs, record versions up to 2, 2 changes of members that may overlap (interchangeable), 2 changes or resets in all; attestations: 1, with 2 identities, 3 positions, 2 overlapping claims, 1 list under way, lists kept for 1 tick; reminders: 2 passes, a clock of 2, 2 edits | lost keys are replaced, copies are live, nothing is sealed under a lost key; one standing credential, verified is fresh; told once per arming |
| `Access` | tool: 1 item, 2 connections one after the other, 1 call, 2 controls, a clock of 1 and codes that live 1; service: 2 controls (interchangeable), 1 ticket, 1 code or token, 1 disconnect, 2 grants; contacts: 2 people, 2 sends, a cap of 1, 2 edits, 1 loss | lapsed tokens stay dead, holds follow the pause, old grants read nothing; strangers are bounded, a block holds |
| `Workspaces` | 2 people, 2 requests under way (interchangeable), all or no permissions, an invite of 1 use, 3 memberships, 1 identity | joins within uses, leavers assert nothing, revocation is for ever |
| `Trust` | keys: 2 walks (interchangeable), 2 roots, 2 credential keys, 1 stop, keys kept 2 ticks, a walk of 1; words: 2 checks, window, lifetime and skew 1, waits of 2, a clock up to 2 ahead; presentations: 1 check, 2 answers, lifetimes 1; ways in: 2 ceremonies (interchangeable), 1 ticket, 2 codes of 2 attempts, 1 mail an hour, 2 accounts, 1 restart | what DNS pins is served and followed, an issuer's word is neither stale nor thrown away, a check is answered once and truly, proofs are worth one and a way in stays |
| `RemoteGrantsRefused` | an answer, a re-answer, 1 edit | finding 1 |
| `RequestsOneAnswer` | 2 submissions, no edits | finding 2 |
| `RequestsOwnerPause` | 1 owner, 3 edits | finding 3 |
| `WorkspacesClosing` | 2 people, 1 request at a time | finding 4 |

The bounds are enough for the cases the properties are about. Two readers and a
cap of two are the least for which a copy can disagree with the row and both
claims still succeed; a third reader adds only another copy of the same kind. Two
owners and the tool cover an edit between any two statements of a reader or of another
owner's delete, and two edits cover revoke and reopen. Two outbox rows cover a full batch, a batch that is
not full, and a row queued while another is attempted; two attempts cover a retry
and a last attempt. In `RemoteGrants` an answer and a re-answer are the least for
which a token can be stale, and two reads the least for which the slower one can
finish last. In `Requests` two submissions are the least that overlap, can share or
not share a responder, and reach a cap of two; a slot is free again once its
submission is over, so the cap and the count are also tried by long sequences of
them. In `Vault` two people with a device each are the least for an administrator who hands keys
to another, and one person's two entries a device that is added and removed; two changes
of one member fall anywhere between, and between each other's statements. What longer lists add
is left to the proofs. Two overlapping claims
of two identities are the race for an offer; three positions let a credential be moved
twice. In `Access` two controls are the least that overlap, two connections the least
for a token of an earlier one. In `Workspaces` the two requests under way may be two
redemptions of one account, of which the claims race as two accounts' would; three
memberships let it join, be removed and join again. In `Trust` two roots and two walks are a
rotation and the walk it overtakes; a wait longer than the window, the lifetime and the skew lets an
answer be too old; two codes and two ceremonies are the least that compete for one
proof or ticket. Two sends of two people are the least that overlap on a cap of one, two
passes the least that reach one reminder. That these bounds hide no safety violation is what section 6
proves. Counters of edits, faults and
answers are bounded in the guards of their actions and named as constants; `MaxEvents`
and `MaxHappenings` bound several of them together, so that the runs stay exhaustive.

The runs of `Links`, `Requests`, `Vault`, `Access`, `Workspaces` and `Trust`, and those of findings
2 to 4, turn the deadlock check off: once the bounds are used up and
the row is deleted or closed, nothing is left to do. `CrossServer` and `CrossServerLive`
keep it, as does `RemoteGrantsRefused`: their tickers never stop. Symmetry is used where only safety
is checked, over readers, submissions, slots, controls, walks and ceremonies.

Fairness. `GrantDeliveries` assumes that the worker's goroutine runs
(`WF` on its steps), that the ticker ticks, and that Go's `select` does not starve
the ticker for ever while the kick channel is full (`SF` on taking a tick: the
choice among ready cases is random). Owner requests, failures and the passing of
an expiry owe nothing. `RemoteGrants` adds that both servers' handlers finish, that
the requester keeps reading, and that a call which fails now and then gets through
in the end (`SF` on the read and on the last delivery of an event): the outbox
retries for a day and a half and reads are repeated by whoever looks. `Webhooks`
assumes the worker's loop, its goroutines and its ticker (`WF`), nothing of whoever
resends; the owner's switch, deletion and restarts owe nothing. With at most the
bounded number of losses nothing stronger is used. In `MCCrossServer` each
assumption is conjoined with the part it belongs to: a behaviour of the outbox is
owed nothing by the webhook worker.

## 5. Where the code and its documentation disagree

1. *A refused re-answer reopens a closed answer.* `saveRemoteLink` activates the
   link; `undoRemoteLink` restores the answer but not the status, so a paused or
   revoked answer is readable again with its old token (`RemoteGrantsRefused`).
2. *One living grant per responder, unless they submit twice at once.* Two overlapping
   submissions of one account both find no earlier answer and both create one: no
   unique index stops the second (`RequestsOneAnswer`). The same overlap lets the
   counter miss a response and the cap be exceeded, which is why `CountExact` and
   `CapKept` speak of submissions that do not overlap.
3. *Resuming a tool wakes a request its owner paused.* A status in the owner's PATCH
   of a link clears heldPaused; requests have no such hook. A request held by the
   tool's pause and then paused by its owner is released with the rest
   (`RequestsOwnerPause`).
4. *An account cannot be closed over a record left behind.* A person removed from a
   workspace keeps their records in it: nothing hands them over. `PurgeAccount` reassigns
   only content of present memberships, and records.user is required and does not
   cascade, so deleting the account is refused (`WorkspacesClosing`).

Met while modelling, stated as definitions and confirmed with TLC, but not among the
runs (a definition named here does not hold):

- `Links!EveryDeleteTold`: "A deleted grant is a revoked one to whoever held it"
  (`hooks/grants.go:71`). The hook decides on the row as loaded. Loaded as revoked, opened again by
  another owner's PATCH and then deleted, a live grant goes with no event. `EveryClosingTold` names that
  order as its exception (`reopened`).
- `Sealed`: the update hook of a member promises to work "Inside the update's own transaction"
  (`hooks/workspaceMembers.go:105`), but app.Save gives it none. Between its statements the lost key is
  not marked, so a write seals under it; cut short, it stays unmarked for good. Of two changes of one
  member that overlap, the later may have loaded a row that could not read, and withdraw nothing.
  `LostKeysReplaced` and `SealedUnderSafeKey` say exactly that much (`Unmarked`).
- `Attestations`: likewise "inside the save's own transaction: ... its bit is set with it or not at all"
  (`hooks/attestations.go:103`). A revocation cut short leaves the credential in good standing
  (`halted` in `StandingIsCurrent`).
- `Connections`: an item that passed its check before the owner paused or disconnected the tool and was
  inserted afterwards is active under the pause, or outlives the disconnect (`missed`).
- `Links!LastViewReported`: `ClaimLinkView` "reports the new count plus whether this view
  exhausted it", from the copy loaded before its UPDATE. Two readers of a link with two
  views left both report one view; the next request closes it as revoked instead of
  expired. The budget itself is kept.
- `TrustChain!CheckedOnceMore`: of two batches that fail under one kept key, the first forgets
  it and the second, finding nothing to forget, is refused without another look. The sender's
  outbox tries again, and a batch checked alone is heard (`RotatedPeerHeard`).
- `IdentityStatus!RelayNeverOutlives`: a relay keeps an answer for its lifetime from when it
  arrived, not from when it was stamped; the verifier judges by the stamp, so
  `StatusHeardRightly` holds.
- `Passkeys!SentCodeKept`: a mail still being sent when the next code goes out fails
  afterwards, and withdraws the code of the other, which was sent.
- `Contacts!PairCapExact`: "The ledger is what makes the per-pair cap exact". Sends checked while
  another is past its check and not recorded pass the cap together, and a send whose ledger row is lost is never
  counted; `StrangersBounded` bounds all others. `Contacts!CacheFollowsAddress`: `MarkContactUsed` saves
  the account found for an address that was edited since.
- `Reminders!MovedIsArmed`: a pass that loaded the reminder before its date was moved marks it
  afterwards.
- The notice of a delivery given up is best effort, by design (`services/notifications.go:14`), so a row may
  say failed with nobody told (`muted` in `FailureTold`). `GrantEmailSuppressFor` is 30 days, but the failed rows
  it counts are pruned after 7.
- `Webhooks!TestTriedOnce`: a test is queued as any delivery and postponed afterwards, so
  the worker may post it too. `Webhooks!OffOnlyWithoutSuccess`: a success in the same
  batch as a failure can be lost to the older copy of failingSince, and the endpoint
  be turned off although something reached it.
- `Attestations!EndedShareStaysEnded`: an activation that loaded the share link before its
  holder ended it saves it as active.
- `SignIns!SubjectsUntied`: `SignInAllows` and `OIDCClaims` read the row separately; a
  disconnect with a new ID and a sign-in between the two answer an old token with the
  new subject. Two overlapping disconnects both write generation + 1 of the same copy,
  so a code issued between them is not told apart.
- `Sealed!ResetLeavesNoUnreadable`: a reset deletes the sealed records only where its
  caller held a copy; with the caller's copies gone before (a removed device), the last
  reader can reset and leave records nobody can open.
- `Workspaces!AlwaysAdministered` and `InviteDiesWithInviter`: the checks run before the
  save, so two administrators who remove each other both pass, and an invite outlives
  an inviter who closed the account, since invitedBy is then empty.
- A PATCH with an empty permission list leaves an administrator in full rights (the
  row then stands on its role); an identity whose insert is under way while its owner is
  removed stays active (`since` is 0 for it).
- Overlaps that break a promise and that a property therefore makes no claim about, as its comment says:
  overlapping submissions (`CountExact`, `CapKept`), two of the owner's controls of one tool at a
  time (`PauseAndHoldsAgree`).

These hold and are in no run, for their number, but are proved: `Sealed!SealedHoldsNoPlain`,
`Connections!DisconnectEndsItems`, `Attestations!OneCredentialPerPosition`,
`Attestations!RevokedStays`, `Links!OneLastView`.

## 6. Proofs

Eight modules prove, for every value of the constants, every safety property that a
passing run checks. What they assume is what the modules assume of their constants, which
TLC evaluates in the runs, and in `Links` that `app.Save` writes columns (`ColumnSaves`,
section 3). Each proof has the same shape: an inductive invariant `...Inv`, a lemma
that the initial states satisfy it, one lemma per action with a step for each conjunct
the action can disturb, and theorems that follow. The compositions add the variable
`part`: a step of one component leaves the variables of the others.

**LinksProofs** (`Links`)

- `TypeCorrect`, for both save modes; everything below under `ColumnSaves`.
- `LinksInvariant`. `OneLastView` is not inductive: it says nothing of the copies a
  claim reports from. `CopyOK` adds that no copy counts more views than the row and that,
  while the owner leaves the cap alone, a copy has the row's cap; `LastViewOK` that an
  exhausting claim found every view used. With `served = link.viewCount` the claim's own
  guard gives the rest (`OneLastViewHolds`). Were every column written, a stale save could lower
  viewCount, and the invariant would be false.
- `ClosedStaysClosedHolds`; `KeepsBudgetHolds`, the refinement of `ViewBudget`: `Open`
  maps to `Admit`, `Claim` to `Serve`, every other step to `Change` or a stutter.
- `EveryClosingToldHolds` and `IndexCurrentHolds`, from `TellInv`: a closing nobody was
  told of is in the hands of a request that still has to announce it (`ToldInv`), and the
  index is behind the row only while one still has to sync it (`IndexInv`). `DeleteInv`
  adds that a delete that loaded the row closed finds it closed, unless an owner's save opened it since.

**RequestsProofs** (`Requests`)

- `TypeCorrect`, `RequestsInvariant`, `CountNeverInflatedHolds`, `ClosedStaysClosedHolds`.
  That the stored count is at most the answers created is not inductive: a copy could
  hold more. `CopyOK` says that none does, and that whatever anyone but an owner is
  about to save keeps the status as loaded or closes the request.
- `CountExactHolds` and `CapKeptHolds`, from `CountInv`: submissions that do not overlap are one
  at a time, and an answer created is in the stored count or in the copy that one is about to save.

**SealedProofs** (`Sealed`): `CopiesLiveHolds`, `LostKeysReplacedHolds` and, as an action
property, `SealedUnderSafeKeyHolds`. `ChangesOK` says of each withdrawal under way which copies and
keys it still has in hand, so that every lost key is due or somebody's to mark. `SealedInv` also adds that copies of an account's key are its own, that no
key is lost before it is made, and that an open PATCH loaded a plain row, from which
`SealedHoldsNoPlainHolds` follows too.

**WorkspacesProofs** (`Workspaces`): `JoinsWithinUsesHolds` (a use is taken for
everyone who joined or is about to), `LeaversAssertNothingHolds`, `RevocationIsForeverHolds` (an
edit of an identity that is under way saves over no revocation, and numbers are issued in order).

**AccessProofs** (`SignIns`, `Connections`, `Contacts`)

- `HeldOnlyWhilePausedHolds`, `EndedGrantsReadNothingHolds`: a token of an ended grant is on
  a live link only if the owner brought it back.
- `LapsedStayDeadHolds`, `PauseAndHoldsAgreeHolds`: a control alone has the connection's present flag, and
  only an item whose check came before it escapes it.
  `DisconnectEndsItemsHolds`: an item that is there names the connection it came from, so
  the disconnect reaches all of them, and no connection's number comes back (`OriginsKept`).
- `StrangersBoundedHolds`, `BlockHoldsHolds`: what a send has read is true of its sender,
  and what a person put in the tray is in the ledger or in the hands of one send under way,
  the sends that are astray left aside: at most one of the others is in flight, and it was
  checked against all rows of the others.

**VaultProofs** (`Attestations`, `Reminders`): `StandingIsCurrentHolds` (a position still standing is of an
active attestation, or of one whose bits are being set, or whose setting was cut short),
`OneCredentialPerPositionHolds`, `VerifiedIsFreshHolds` (a revoked bit missing in a list and
what the list has left to live make up at most the life of a list), `RevokedStaysHolds`, and
`ToldOncePerArmingHolds` (what was told, may still be told and is armed is covered by the armings).

**TrustProofs** (`MCTrust`: `TrustChain`, `IdentityStatus`, `Presentations`, `Passkeys`)

- `PinnedRootServedHolds`, `KeysRecentlyPinnedHolds`, `RotatedPeerHeardHolds`: a walk
  knows how old its view of DNS is, and what a cache keeps is no older than what is left of it.
- `StatusHeardRightlyHolds`, whatever window, lifetime, skew and wait: the age of an answer is
  counted through every hand it passes. The bound of the counter,
  `MaxAge = Window + StatusTtl + 2 * MaxWait`, came out of the proof.
- `ChecksAnsweredRightlyHolds`: each link heard to hold had ended no longer ago than a kept
  answer may be old and the verification has taken; links it has not asked for are left open.
- `ConfirmedOnceHolds`: a confirmed code is spent by an account made or by the one signup
  about to make it, a ticket by its passkey, a grant by its session. `WayInStaysHolds`: the
  count of the passkeys and the removal are one step.

**CrossServerProofs** (`MCCrossServer`: `GrantDeliveries`, `RemoteGrants`, `Webhooks`)

- `NoLostWakeupHolds`: an untried row is in the worker's hands, announced by a wake-up in
  the channel or by a request still to kick, or will be found by a fresh start.
- `FailureToldHolds`: from attempt to save the worker's outcome says who was told, and whoever is told has
  an outcome lost or about to be saved as failed; `GivenUpForCauseHolds`, for all three components at once.
- `OutboxRefines`: `GrantDeliveries` implements `Outbox` step by step; its fairness
  stays with TLC (`KeepsPromise`).
- `TokensAgreeHolds`: where the relay stands says which tokens link and row have.
  `KeptAtMostMaxAgeHolds`: a value a read carries was readable when the read was answered, and what a read or
  the cache has aged is bounded by what it has left.

Failed attempts corrected the models. A `CASE` of `IdentityStatus` whose arms overlapped
became disjoint; a composition's types turned out to need finite sets of passes, slots and sends and
nonempty sets of rows and checks, now assumed by name; "nobody" must not be the name of an attestation; `Reset`
drops an open PATCH of a record it deletes; a send that was delivered must say so
while it is being recorded; the index is current only with "a link
about to be closed is not deleted" beside it.

## 7. What is only model-checked, what is not modelled

Checked by TLC only, on the bounds of section 4: the liveness properties of `CrossServerLive`, which
are `SweepSettles`, `StatusFollows`, `QueuedIsSettled` and the fairness that `KeepsPromise`
implies of `Outbox`. The prover does not handle fairness and ENABLED. The findings of section
5 are counterexamples of TLC's. Nothing rests on induction over data: no module
declares a RECURSIVE operator.

Not modelled:

- what a value, a page, a mail, a certificate or a signature looks like; a signature
  verifies when its signer is live;
- the password and handshake gates beyond "may refuse", rate limits, PKCE and redirects;
  challenges of those gates and of file downloads, maps under one mutex;
- what a tool's grant permits, vault reads of a tool, attestations and checks it proposes;
- expiry of offers and identities; certificates, primary identities;
- pruning, metrics and secret rotation of webhooks; the page of 100 links of a sweep;
- a block read that fails: `ContactSenderBlocked` then takes the sender as not blocked (`contacts.go:141`);
- two relays of the same answer at once;
- several workspaces, API keys, superusers, features of an invite;
- the CRUD of the vault and its access rules; WebAuthn itself; pages, the app, the MCP
  bridge: output and clients.

## 8. Plan

1. Done: the modules of section 2, their runs, and the proofs of section 6.
2. Next to prove: the step form of the leads-to properties (that a
   queued row stays queued until settled, that the ticker's branch settles a lapsed grant), which
   leaves only fairness to TLC; for `Requests` an abstract counter it implements, as
   `ViewBudget` is for `Links`.
3. Next to model, if it grows a protocol: overlapping relays of one answer, pruning and
   rotation of webhooks, what a tool's grant permits.

Parameters are CONSTANTS with named assumptions, each operation is one action and
invariants are conjunctions of named parts.
