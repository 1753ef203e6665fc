----------------------------- MODULE TrustChain -----------------------------
(***************************************************************************)
(* The chain another server follows before it believes a signature: the    *)
(* root key's fingerprint in DNS, the assertion served at /api/server, the *)
(* root key itself, and the credential key it certifies.                   *)
(*                                                                         *)
(* On the issuing side a start of the process loads the root key or makes  *)
(* one, and its operator publishes the pin or loses the file.  On the      *)
(* verifying side a walk is one call of verifyFromPeer or                  *)
(* PeerCredentialKey: it takes the time first and asks DNS and the server  *)
(* afterwards, while others do the same over the same two caches.          *)
(*                                                                         *)
(* A signature verifies under the key that made it.  Roots and credential  *)
(* keys are numbered as they are made, 0 is none.  An assertion is valid   *)
(* for a day, longer than any cache keeps a key, so its own expiry never   *)
(* decides; neither do domain names, of which there is one.                *)
(***************************************************************************)
EXTENDS Integers, FiniteSets

CONSTANTS Walks,      \* verifications that may be under way at once
          MaxRoots,   \* bound on the root keys ever made
          MaxKids,    \* bound on the credential keys ever made
          MaxStops,   \* bound on stops of the issuing process
          KeyTtl,     \* peerKeyCacheTTL and credentialKeyCacheTTL, in ticks
          MaxWalk     \* how long a walk may take before its calls time out

ASSUME TrustChainAssumption ==
  /\ MaxRoots \in Nat \ {0} /\ MaxKids \in Nat \ {0} /\ MaxStops \in Nat
  /\ KeyTtl \in Nat \ {0} /\ MaxWalk \in 0..KeyTtl

VARIABLES rootFile,    \* server_root.pem
          rootKey,     \* the root key of the running process
          process,     \* the issuing process
          pin,         \* the _revoked TXT record
          made,        \* keys made so far
          kidFile,     \* credential_signing.pem
          stops,
          peerKey,     \* the verifier's kept root key
          credentialKey, \* its kept credential keys, with the root that certified them
          walk,
          unpinned,    \* history: ticks since DNS named the root, one too many if never
          keyLost      \* history: the file was lost since the pin was published

issuerSide == <<rootFile, rootKey, process, pin, made, kidFile, stops, keyLost>>
caches == <<peerKey, credentialKey>>
trustVars == <<issuerSide, caches, walk, unpinned>>

Roots == 0..MaxRoots
Kids == 1..MaxKids
LongAgo == 2 * KeyTtl + 1
NoKey == [root |-> 0, left |-> 0]
Kept == [root : Roots, left : 0..KeyTtl]
\* signer: the root that signed the batch of events; kid: the key the credential names.
\* age: ticks since the call took the time. steady: the chain did not change since the
\* verification began, and nobody else was verifying.
IdleWalk == [at |-> "idle", signer |-> 0, kid |-> 0, attempt |-> 0,
             pin |-> 0, root |-> 0, age |-> 0, steady |-> FALSE]
WalkStates == [at : {"idle", "begun", "asking", "pinned", "fetched", "known"},
               signer : Roots, kid : 0..MaxKids, attempt : 0..1,
               pin : Roots, root : Roots, age : 0..MaxWalk, steady : BOOLEAN]

Busy == {w \in Walks : walk[w].at # "idle"}
Unsteady(f) == [w \in Walks |-> [f[w] EXCEPT !.steady = FALSE]]
Done(w) == walk' = [walk EXCEPT ![w] = IdleWalk]
Serving == process = "up"

TrustChainInit ==
  /\ rootFile = 0 /\ rootKey = 0 /\ process = "down" /\ pin = 0
  /\ made = 0 /\ kidFile = 1 /\ stops = 0
  /\ peerKey = NoKey /\ credentialKey = [k \in Kids |-> NoKey]
  /\ walk = [w \in Walks |-> IdleWalk]
  /\ unpinned = [r \in 1..MaxRoots |-> LongAgo]
  /\ keyLost = FALSE

-----------------------------------------------------------------------------
(* The issuing server and its operator. *)

\* Load: the key of the file, or a new one that is still to be written.
LoadOrGenerate ==
  /\ process = "down"
  /\ IF rootFile # 0
     THEN rootKey' = rootFile /\ process' = "up" /\ UNCHANGED made
     ELSE /\ made < MaxRoots /\ made' = made + 1
          /\ rootKey' = made + 1 /\ process' = "generated"
  /\ walk' = Unsteady(walk)
  /\ UNCHANGED <<rootFile, pin, kidFile, stops, keyLost, caches, unpinned>>

\* Variant: the server serves a key that it could not write.
WriteSecretFileIgnored ==
  /\ process = "generated"
  /\ rootFile' \in {rootFile, rootKey} /\ process' = "up"
  /\ UNCHANGED <<rootKey, pin, made, kidFile, stops, keyLost, caches, walk, unpinned>>

\* writeSecretFile: a temporary file renamed into place, before anything is served.
WriteSecretFile ==
  /\ process = "generated"
  /\ rootFile' = rootKey /\ process' = "up"
  /\ UNCHANGED <<rootKey, pin, made, kidFile, stops, keyLost, caches, walk, unpinned>>

\* A crash or a stop, also between making a key and writing it.
Stop ==
  /\ process # "down" /\ stops < MaxStops
  /\ process' = "down" /\ rootKey' = 0 /\ stops' = stops + 1
  /\ walk' = Unsteady(walk)
  /\ UNCHANGED <<rootFile, pin, made, kidFile, keyLost, caches, unpinned>>

\* The operator starts over without the key files ("makes a fresh root key").
LoseKeys ==
  /\ process = "down" /\ rootFile # 0
  /\ rootFile' = 0 /\ keyLost' = TRUE
  /\ kidFile' \in {k \in Kids : k \in {kidFile, kidFile + 1}}
  /\ UNCHANGED <<rootKey, process, pin, made, stops, caches, walk, unpinned>>

\* The operator publishes the fingerprint printed at the start.
PublishPin ==
  /\ Serving /\ pin # rootKey
  /\ pin' = rootKey /\ keyLost' = FALSE
  /\ unpinned' = [unpinned EXCEPT ![rootKey] = 0]
  /\ walk' = Unsteady(walk)
  /\ UNCHANGED <<rootFile, rootKey, process, made, kidFile, stops, caches>>

\* The operator withdraws the record.
WithdrawPin ==
  /\ pin # 0 /\ pin' = 0
  /\ walk' = Unsteady(walk)
  /\ UNCHANGED <<rootFile, rootKey, process, made, kidFile, stops, keyLost, caches, unpinned>>

-----------------------------------------------------------------------------
(* The verifying server. *)

Alone(w) == Busy = {} /\ Serving /\ pin = rootKey
Begin(w, signer, kid) ==
  /\ walk[w] = IdleWalk
  /\ walk' = [Unsteady(walk) EXCEPT ![w] = [IdleWalk EXCEPT
                !.at = "begun", !.signer = signer, !.kid = kid, !.steady = Alone(w)]]
  /\ UNCHANGED <<issuerSide, caches, unpinned>>

\* A batch of events arrives, signed at this attempt to deliver it.
ReceiveBatch(w) == Serving /\ Begin(w, rootKey, 0)

\* A credential is to be checked, signed with the key k.
CheckCredential(w, k) == k <= kidFile /\ credentialKey[k].left = 0 /\ Begin(w, 0, k)

\* PeerRootKey takes the time and looks for a kept key, which saves the rest.
FindKeptKey(w) ==
  /\ walk[w].at = "begun"
  /\ walk' = IF peerKey.left > 0
             THEN [walk EXCEPT ![w].at = "known", ![w].root = peerKey.root]
             ELSE [walk EXCEPT ![w].at = "asking"]
  /\ UNCHANGED <<issuerSide, caches, unpinned>>

\* LookupRevokedTXTPin; without a pin the call fails.
LookupPin(w) ==
  /\ walk[w].at = "asking"
  /\ IF pin = 0 THEN Done(w)
     ELSE walk' = [walk EXCEPT ![w].at = "pinned", ![w].pin = pin]
  /\ UNCHANGED <<issuerSide, caches, unpinned>>

\* FetchServerAssertion: the root key as it is served now.
FetchServerAssertion(w) ==
  /\ walk[w].at = "pinned" /\ Serving
  /\ walk' = [walk EXCEPT ![w].at = "fetched", ![w].root = rootKey]
  /\ UNCHANGED <<issuerSide, caches, unpinned>>

\* Variant: the time is taken when the key is kept.
KeptFromNow(w) == [root |-> walk[w].root, left |-> KeyTtl]

\* The entry the call keeps: it expires an hour after the call took the time.
KeptFromStart(w) == [root |-> walk[w].root, left |-> KeyTtl - walk[w].age]

\* The served key has to be the pinned one (ErrPeerKeySpoofed otherwise).
KeepRootKey(w) ==
  /\ walk[w].at = "fetched"
  /\ IF walk[w].root = walk[w].pin
     THEN /\ peerKey' = KeptFromStart(w)
          /\ walk' = [walk EXCEPT ![w].at = "known"]
     ELSE Done(w) /\ UNCHANGED peerKey
  /\ UNCHANGED <<issuerSide, credentialKey, unpinned>>

\* Variant: a batch that fails is refused at once.
RetriesNever(w) == FALSE

\* Whether a batch that failed is checked once more: at the first attempt, if there was
\* an entry to forget, lapsed or not (ForgetPeerRootKey).
Retries(w) == walk[w].attempt = 0 /\ peerKey.root # 0

\* The signature of a batch, checked under the key that was found.
Accepted(w) == walk[w].root = walk[w].signer
VerifyBatch(w) ==
  /\ walk[w].at = "known" /\ walk[w].signer # 0
  /\ IF ~Accepted(w) /\ Retries(w)
     THEN /\ peerKey' = NoKey
          /\ walk' = [walk EXCEPT ![w] = [@ EXCEPT !.at = "begun", !.attempt = 1,
                                                   !.pin = 0, !.root = 0, !.age = 0]]
     ELSE Done(w) /\ UNCHANGED peerKey
  /\ UNCHANGED <<issuerSide, credentialKey, unpinned>>

\* The issuer's metadata with the key as the running process certified it: the key has
\* to be the one the credential names and its certification the found root key's.
KeepCredentialKey(w) ==
  /\ walk[w].at = "known" /\ walk[w].kid # 0 /\ Serving
  /\ credentialKey' = IF walk[w].kid = kidFile /\ walk[w].root = rootKey
                      THEN [credentialKey EXCEPT ![kidFile] = KeptFromStart(w)]
                      ELSE credentialKey
  /\ Done(w)
  /\ UNCHANGED <<issuerSide, peerKey, unpinned>>

\* DNS or the server does not answer: the call fails and nothing is kept.
CallFails(w) ==
  /\ \/ walk[w].at \in {"asking", "pinned"}
     \/ walk[w].at = "known" /\ walk[w].kid # 0
  /\ Done(w)
  /\ UNCHANGED <<issuerSide, caches, unpinned>>

-----------------------------------------------------------------------------

Older(key) == [key EXCEPT !.left = IF @ > 0 THEN @ - 1 ELSE 0]

TickTrust ==
  /\ \A w \in Busy : walk[w].at # "begun" /\ walk[w].age < MaxWalk
  /\ walk' = [w \in Walks |-> IF w \in Busy THEN [walk[w] EXCEPT !.age = @ + 1] ELSE walk[w]]
  /\ peerKey' = Older(peerKey)
  /\ credentialKey' = [k \in Kids |-> Older(credentialKey[k])]
  /\ unpinned' = [r \in 1..MaxRoots |->
                    IF r = pin \/ unpinned[r] = LongAgo THEN unpinned[r] ELSE unpinned[r] + 1]
  /\ UNCHANGED issuerSide

TrustChainNext ==
  \/ LoadOrGenerate \/ WriteSecretFile \/ Stop \/ LoseKeys \/ PublishPin \/ WithdrawPin
  \/ \E w \in Walks :
       \/ ReceiveBatch(w) \/ (\E k \in Kids : CheckCredential(w, k))
       \/ FindKeptKey(w) \/ LookupPin(w) \/ FetchServerAssertion(w)
       \/ KeepRootKey(w) \/ VerifyBatch(w) \/ KeepCredentialKey(w) \/ CallFails(w)
  \/ TickTrust

TrustChainSpec == TrustChainInit /\ [][TrustChainNext]_trustVars

-----------------------------------------------------------------------------
TrustChainTypeOK ==
  /\ rootFile \in Roots /\ rootKey \in Roots /\ pin \in Roots /\ made \in Roots
  /\ process \in {"down", "generated", "up"} /\ kidFile \in Kids /\ stops \in 0..MaxStops
  /\ peerKey \in Kept /\ credentialKey \in [Kids -> Kept]
  /\ walk \in [Walks -> WalkStates]
  /\ unpinned \in [1..MaxRoots -> 0..LongAgo] /\ keyLost \in BOOLEAN

\* The root key published in DNS is the one the server serves after any crash and
\* restart, unless the operator lost its file (loadOrGenerate, writeSecretFile: nothing
\* is served under a key that is not on disk).
PinnedRootServed == Serving /\ pin # 0 /\ ~keyLost => rootKey = pin

\* A root key taken out of DNS is used from the cache for an hour at most, however
\* slow the call was that kept it (PeerRootKey).
KeyRecentlyPinned == peerKey.left > 0 => unpinned[peerKey.root] < KeyTtl

\* A credential key hangs from the root key that certified it: once DNS no longer names
\* that root key, the credential key is used for two hours at most, one for each of the
\* two caches (PeerCredentialKey).
CertifierRecentlyPinned ==
  \A k \in Kids : credentialKey[k].left > 0 => unpinned[credentialKey[k].root] < 2 * KeyTtl

\* No key outlives its pin by more than the caches keep it.
KeysRecentlyPinned == KeyRecentlyPinned /\ CertifierRecentlyPinned

\* "A peer that rotated its key is not refused for an hour": a batch signed under the
\* pinned root key by a server that serves it is never refused because of an older kept
\* key, if nothing changes meanwhile (verifyFromPeer).
Refuses(w) == walk[w].at = "known" /\ walk[w].signer # 0 /\ ~Accepted(w) /\ ~Retries(w)
RotatedPeerHeard == \A w \in Walks : Refuses(w) => ~walk[w].steady

\* "A batch that fails under a cached key is checked once more under a freshly fetched
\* one": no first attempt is the last, for a batch signed under the pinned root key.
CheckedOnceMore ==
  \A w \in Walks : Refuses(w) /\ walk[w].signer = pin => walk[w].attempt = 1
=============================================================================
