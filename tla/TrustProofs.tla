---------------------------- MODULE TrustProofs ----------------------------
(***************************************************************************)
(* Proofs about what a server believes, for any number of verifications,   *)
(* ceremonies and presentations under way and any bounds: the keys of      *)
(* TrustChain, the answers of IdentityStatus, the verdicts of              *)
(* Presentations, what is used once in Passkeys, and the four together.    *)
(***************************************************************************)
EXTENDS MCTrust, FiniteSetTheorems, TLAPS

-----------------------------------------------------------------------------
(* TrustChain: the root key of the issuing server. *)

\* The key in use is the one on disk, but for a new one that is still to be written; and
\* what is pinned is on disk, unless its file was lost.
RootOnDisk ==
  /\ process = "up" => rootKey = rootFile /\ rootKey # 0
  /\ process = "generated" => rootFile = 0 /\ rootKey # 0
  /\ pin # 0 /\ ~keyLost => rootFile = pin

\* How long ago DNS named a root key, against the age of the call that saw it there.
PinsAged ==
  /\ pin # 0 => unpinned[pin] = 0
  /\ peerKey.left > 0 => /\ peerKey.root # 0
                         /\ unpinned[peerKey.root] + peerKey.left <= KeyTtl
  /\ \A k \in Kids : credentialKey[k].left > 0 =>
       /\ credentialKey[k].root # 0
       /\ unpinned[credentialKey[k].root] + credentialKey[k].left < 2 * KeyTtl

WalkAged(w) ==
  /\ walk[w].at = "begun" => walk[w].age = 0
  /\ walk[w].at \in {"pinned", "fetched"} =>
       walk[w].pin # 0 /\ unpinned[walk[w].pin] <= walk[w].age
  /\ walk[w].at = "known" =>
       walk[w].root # 0 /\ unpinned[walk[w].root] < KeyTtl + walk[w].age

\* A steady walk is the only one, and what it knows so far is what the server serves.
SteadyWalk(w) ==
  walk[w].steady =>
       /\ walk[w].at # "idle" /\ Serving /\ pin = rootKey
       /\ \A v \in Walks \ {w} : walk[v].at = "idle"
       /\ walk[w].signer # 0 => walk[w].signer = rootKey
       /\ walk[w].at \in {"pinned", "fetched"} => walk[w].pin = pin
       /\ walk[w].at = "fetched" => walk[w].root = rootKey
       /\ walk[w].attempt = 1 /\ walk[w].at = "begun" => peerKey.left = 0
       /\ walk[w].at = "known" =>
            peerKey.root # 0 /\ (walk[w].attempt = 1 => walk[w].root = rootKey)

\* The inductive invariant.
TrustChainInv == /\ TrustChainTypeOK /\ RootOnDisk /\ PinsAged
                 /\ \A w \in Walks : WalkAged(w) /\ SteadyWalk(w)

LEMMA IdleWalkType == IdleWalk \in WalkStates
<1>1. 0 \in 0..MaxRoots /\ 0 \in 0..MaxKids /\ 0 \in 0..MaxWalk
  BY TrustChainAssumption DEF TrustChainAssumption
<1>2. QED
  BY <1>1 DEF IdleWalk, WalkStates, Roots

LEMMA NoKeyType == NoKey \in Kept
<1>1. 0 \in 0..MaxRoots /\ 0 \in 0..KeyTtl
  BY TrustChainAssumption DEF TrustChainAssumption
<1>2. QED
  BY <1>1 DEF NoKey, Kept, Roots

LEMMA TrustChainInit0 == TrustChainInit => TrustChainInv
<1> SUFFICES ASSUME TrustChainInit
             PROVE  TrustChainInv
  OBVIOUS
<1>1. /\ 0 \in Roots /\ 1 \in Kids /\ 0 \in 0..MaxStops /\ LongAgo \in 0..LongAgo
  BY TrustChainAssumption DEF TrustChainAssumption, Roots, Kids, LongAgo
<1>2. TrustChainTypeOK
  BY <1>1, IdleWalkType, NoKeyType DEF TrustChainInit, TrustChainTypeOK
<1>3. RootOnDisk /\ PinsAged
  BY DEF TrustChainInit, RootOnDisk, PinsAged, NoKey
<1>4. \A w \in Walks : WalkAged(w) /\ SteadyWalk(w)
  BY DEF TrustChainInit, WalkAged, SteadyWalk, IdleWalk
<1>5. QED
  BY <1>2, <1>3, <1>4 DEF TrustChainInv

\* What Unsteady leaves of a walk.
LEMMA UnsteadyWalk ==
  ASSUME TrustChainInv, NEW w \in Walks
  PROVE  LET u == Unsteady(walk)[w]
         IN /\ u \in WalkStates /\ u.steady = FALSE
            /\ u.at = walk[w].at /\ u.age = walk[w].age
            /\ u.pin = walk[w].pin /\ u.root = walk[w].root
<1>1. walk[w] \in WalkStates
  BY DEF TrustChainInv, TrustChainTypeOK
<1>2. Unsteady(walk)[w] = [walk[w] EXCEPT !.steady = FALSE]
  BY DEF Unsteady
<1>3. QED
  BY <1>1, <1>2 DEF WalkStates

\* A step of the issuer or its operator that every walk under way takes note of.
LEMMA IssuerStep ==
  ASSUME TrustChainInv, LoadOrGenerate \/ Stop \/ PublishPin \/ WithdrawPin
  PROVE  TrustChainInv'
<1> USE DEF TrustChainInv
<1>1. walk' = Unsteady(walk) /\ UNCHANGED caches
  BY DEF LoadOrGenerate, Stop, PublishPin, WithdrawPin
<1>2. /\ rootFile' \in Roots /\ rootKey' \in Roots /\ pin' \in Roots /\ made' \in Roots
      /\ process' \in {"down", "generated", "up"} /\ kidFile' \in Kids /\ stops' \in 0..MaxStops
      /\ keyLost' \in BOOLEAN
  <2>1. CASE LoadOrGenerate
    <3>1. made < MaxRoots => made + 1 \in Roots
      BY TrustChainAssumption DEF TrustChainTypeOK, Roots, TrustChainAssumption
    <3>2. QED
      BY <2>1, <3>1 DEF LoadOrGenerate, TrustChainTypeOK
  <2>2. CASE Stop
    BY <2>2, TrustChainAssumption DEF Stop, TrustChainTypeOK, Roots, TrustChainAssumption
  <2>3. CASE PublishPin
    BY <2>3 DEF PublishPin, TrustChainTypeOK
  <2>4. CASE WithdrawPin
    BY <2>4, TrustChainAssumption DEF WithdrawPin, TrustChainTypeOK, Roots, TrustChainAssumption
  <2>5. QED
    BY <2>1, <2>2, <2>3, <2>4
<1>3. RootOnDisk'
  <2>1. CASE LoadOrGenerate
    BY <2>1 DEF LoadOrGenerate, RootOnDisk, TrustChainTypeOK, Roots
  <2>2. CASE Stop
    BY <2>2 DEF Stop, RootOnDisk
  <2>3. CASE PublishPin
    BY <2>3 DEF PublishPin, Serving, RootOnDisk
  <2>4. CASE WithdrawPin
    BY <2>4 DEF WithdrawPin, RootOnDisk
  <2>5. QED
    BY <2>1, <2>2, <2>3, <2>4
<1>4. /\ unpinned' \in [1..MaxRoots -> 0..LongAgo]
      /\ \A r \in 1..MaxRoots : unpinned'[r] <= unpinned[r]
      /\ pin' # 0 => unpinned'[pin'] = 0
  <2>1. CASE PublishPin
    <3>1. rootKey \in 1..MaxRoots /\ unpinned' = [unpinned EXCEPT ![rootKey] = 0] /\ pin' = rootKey
      BY <2>1 DEF PublishPin, Serving, RootOnDisk, TrustChainTypeOK, Roots
    <3>2. 0 \in 0..LongAgo
      BY TrustChainAssumption DEF LongAgo, TrustChainAssumption
    <3>3. QED
      BY <3>1, <3>2 DEF TrustChainTypeOK
  <2>2. CASE ~PublishPin
    <3>1. unpinned' = unpinned /\ pin' \in {pin, 0}
      BY <2>2 DEF LoadOrGenerate, Stop, WithdrawPin
    <3>2. QED
      BY <3>1 DEF TrustChainTypeOK, PinsAged
  <2>3. QED
    BY <2>1, <2>2
<1>5. TrustChainTypeOK'
  <2>1. walk' \in [Walks -> WalkStates]
    BY <1>1, UnsteadyWalk DEF Unsteady
  <2>2. QED
    BY <1>1, <1>2, <1>4, <2>1 DEF TrustChainTypeOK, caches
<1>6. PinsAged'
  <2>1. ASSUME NEW key \in Kept, key.left > 0, key.root # 0
        PROVE  /\ key.left \in Int /\ unpinned[key.root] \in Int /\ unpinned'[key.root] \in Int
               /\ unpinned'[key.root] <= unpinned[key.root]
    BY <1>4, <2>1, TrustChainAssumption
       DEF Kept, Roots, TrustChainTypeOK, TrustChainAssumption, LongAgo
  <2>2. peerKey \in Kept /\ \A k \in Kids : credentialKey[k] \in Kept
    BY DEF TrustChainTypeOK
  <2>3. peerKey.left > 0 => unpinned'[peerKey.root] + peerKey.left <= KeyTtl
    BY <2>1, <2>2, TrustChainAssumption DEF PinsAged, TrustChainAssumption
  <2>4. ASSUME NEW k \in Kids, credentialKey[k].left > 0
        PROVE  unpinned'[credentialKey[k].root] + credentialKey[k].left < 2 * KeyTtl
    BY <2>1, <2>2, <2>4, TrustChainAssumption DEF PinsAged, TrustChainAssumption
  <2>5. QED
    BY <1>1, <1>4, <2>3, <2>4 DEF PinsAged, caches
<1>7. ASSUME NEW w \in Walks
      PROVE  WalkAged(w)' /\ SteadyWalk(w)'
  <2>1. /\ walk'[w].at = walk[w].at /\ walk'[w].age = walk[w].age
        /\ walk'[w].pin = walk[w].pin /\ walk'[w].root = walk[w].root
        /\ walk'[w].steady = FALSE
    BY <1>1, UnsteadyWalk
  <2>2. walk[w].pin \in Roots /\ walk[w].root \in Roots /\ walk[w].age \in Nat
    BY DEF TrustChainTypeOK, WalkStates
  <2>3. WalkAged(w)'
    BY <1>4, <2>1, <2>2, TrustChainAssumption
       DEF WalkAged, TrustChainTypeOK, Roots, TrustChainAssumption
  <2>4. QED
    BY <2>1, <2>3 DEF SteadyWalk
<1>8. QED
  BY <1>3, <1>5, <1>6, <1>7

\* A file written or lost while the server is down, or not yet up: no walk is steady.
LEMMA FileStep ==
  ASSUME TrustChainInv, WriteSecretFile \/ LoseKeys
  PROVE  TrustChainInv'
<1> USE DEF TrustChainInv
<1>1. process # "up" /\ UNCHANGED <<pin, made, stops, caches, walk, unpinned>>
  BY DEF WriteSecretFile, LoseKeys
<1>2. TrustChainTypeOK'
  <2>1. CASE WriteSecretFile
    BY <1>1, <2>1 DEF WriteSecretFile, TrustChainTypeOK, caches
  <2>2. CASE LoseKeys
    <3>1. 0 \in Roots
      BY TrustChainAssumption DEF Roots, TrustChainAssumption
    <3>2. QED
      BY <1>1, <2>2, <3>1 DEF LoseKeys, TrustChainTypeOK, caches
  <2>3. QED
    BY <2>1, <2>2
<1>3. RootOnDisk'
  BY DEF WriteSecretFile, LoseKeys, RootOnDisk
<1>4. PinsAged'
  BY <1>1 DEF PinsAged, caches
<1>5. ASSUME NEW w \in Walks
      PROVE  WalkAged(w)' /\ SteadyWalk(w)'
  BY <1>1 DEF WalkAged, SteadyWalk, Serving
<1>6. QED
  BY <1>2, <1>3, <1>4, <1>5

LEMMA BeginStep ==
  ASSUME TrustChainInv, NEW w \in Walks, NEW signer \in Roots, NEW kid \in 0..MaxKids,
         Begin(w, signer, kid), signer # 0 => signer = rootKey
  PROVE  TrustChainInv'
<1> USE DEF TrustChainInv
<1> DEFINE new == [IdleWalk EXCEPT !.at = "begun", !.signer = signer, !.kid = kid,
                                   !.steady = Alone(w)]
<1>1. /\ walk[w] = IdleWalk /\ walk' = [Unsteady(walk) EXCEPT ![w] = new]
      /\ UNCHANGED <<rootFile, rootKey, process, pin, made, kidFile, stops, keyLost>>
      /\ UNCHANGED <<peerKey, credentialKey, unpinned>>
  BY DEF Begin, issuerSide, caches
<1>2. Alone(w) \in BOOLEAN
  BY DEF Alone
<1>3. /\ new \in WalkStates /\ new.at = "begun" /\ new.signer = signer /\ new.age = 0
      /\ new.attempt = 0 /\ (new.steady <=> Alone(w))
  BY <1>2, IdleWalkType DEF IdleWalk, WalkStates
<1>4. walk' = [v \in Walks |-> IF v = w THEN new ELSE Unsteady(walk)[v]]
  BY <1>1 DEF Unsteady
<1> HIDE DEF new
<1>5. TrustChainTypeOK'
  <2>1. walk' \in [Walks -> WalkStates]
    BY <1>3, <1>4, UnsteadyWalk
  <2>2. QED
    BY <1>1, <2>1 DEF TrustChainTypeOK
<1>6. RootOnDisk' /\ PinsAged'
  BY <1>1 DEF RootOnDisk, PinsAged
<1>7. ASSUME NEW v \in Walks, v # w
      PROVE  WalkAged(v)' /\ SteadyWalk(v)'
  <2>1. /\ walk'[v].at = walk[v].at /\ walk'[v].age = walk[v].age
        /\ walk'[v].pin = walk[v].pin /\ walk'[v].root = walk[v].root
        /\ walk'[v].steady = FALSE
    BY <1>4, <1>7, UnsteadyWalk
  <2>2. QED
    BY <1>1, <2>1 DEF WalkAged, SteadyWalk
<1>8. WalkAged(w)'
  BY <1>3, <1>4 DEF WalkAged
<1>9. SteadyWalk(w)'
  <2>1. walk'[w] = new
    BY <1>4
  <2>2. ASSUME Alone(w)
        PROVE  Serving /\ pin = rootKey /\ \A v \in Walks \ {w} : walk'[v].at = "idle"
    BY <1>4, <2>2, UnsteadyWalk DEF Alone, Busy
  <2>3. CASE Alone(w)
    <3>1. Serving' /\ pin' = rootKey' /\ \A v \in Walks \ {w} : walk'[v].at = "idle"
      BY <1>1, <2>2, <2>3 DEF Serving
    <3>2. walk'[w].at = "begun" /\ walk'[w].attempt = 0 /\ walk'[w].signer = signer /\ rootKey' = rootKey
      BY <1>1, <1>3, <2>1
    <3>3. QED
      BY <3>1, <3>2 DEF SteadyWalk
  <2>4. CASE ~Alone(w)
    BY <1>3, <2>1, <2>4 DEF SteadyWalk
  <2>5. QED
    BY <2>3, <2>4
<1>10. QED
  BY <1>5, <1>6, <1>7, <1>8, <1>9


\* A step of one walk that is under way: no other one is steady.
LEMMA OneWalk ==
  ASSUME TrustChainInv, NEW w \in Walks, walk[w].at # "idle",
         NEW new \in WalkStates, walk' = [walk EXCEPT ![w] = new],
         UNCHANGED <<issuerSide, unpinned>>,
         peerKey' \in Kept, credentialKey' \in [Kids -> Kept],
         PinsAged', WalkAged(w)', SteadyWalk(w)'
  PROVE  TrustChainInv'
<1> USE DEF TrustChainInv
<1>1. UNCHANGED <<rootFile, rootKey, process, pin, made, kidFile, stops, keyLost, unpinned>>
  BY DEF issuerSide
<1>2. TrustChainTypeOK'
  BY <1>1 DEF TrustChainTypeOK
<1>3. RootOnDisk'
  BY <1>1 DEF RootOnDisk
<1>4. ASSUME NEW v \in Walks, v # w
      PROVE  WalkAged(v)' /\ SteadyWalk(v)'
  <2>1. walk'[v] = walk[v] /\ ~walk[v].steady
    BY <1>4 DEF SteadyWalk, TrustChainTypeOK
  <2>2. QED
    BY <1>1, <2>1 DEF WalkAged, SteadyWalk
<1>5. QED
  BY <1>2, <1>3, <1>4

LEMMA DoneStep ==
  ASSUME TrustChainInv, NEW w \in Walks, walk[w].at # "idle", Done(w),
         UNCHANGED <<issuerSide, unpinned, peerKey>>, credentialKey' \in [Kids -> Kept], PinsAged'
  PROVE  TrustChainInv'
<1>1. walk'[w] = IdleWalk
  BY DEF Done, TrustChainInv, TrustChainTypeOK
<1>2. WalkAged(w)' /\ SteadyWalk(w)'
  BY <1>1 DEF WalkAged, SteadyWalk, IdleWalk
<1>3. peerKey' \in Kept
  BY DEF TrustChainInv, TrustChainTypeOK
<1>4. QED
  BY <1>2, <1>3, IdleWalkType, OneWalk DEF Done

\* The steps that find out what to check a signature under.
LEMMA LookupStep ==
  ASSUME TrustChainInv, NEW w \in Walks,
         FindKeptKey(w) \/ LookupPin(w) \/ FetchServerAssertion(w)
  PROVE  TrustChainInv'
<1> USE DEF TrustChainInv
<1>1. UNCHANGED <<issuerSide, caches, unpinned>> /\ walk[w].at # "idle"
  BY DEF FindKeptKey, LookupPin, FetchServerAssertion
<1>2. UNCHANGED <<rootFile, rootKey, process, pin, made, kidFile, stops, keyLost>>
      /\ UNCHANGED <<peerKey, credentialKey, unpinned>>
  BY <1>1 DEF issuerSide, caches
<1>3. PinsAged' /\ peerKey' \in Kept /\ credentialKey' \in [Kids -> Kept]
  BY <1>2 DEF PinsAged, TrustChainTypeOK
<1>4. walk[w] \in WalkStates /\ peerKey \in Kept /\ rootKey \in Roots /\ pin \in Roots
  BY DEF TrustChainTypeOK
<1>5. CASE FindKeptKey(w) /\ peerKey.left > 0
  <2> DEFINE new == [walk[w] EXCEPT !.at = "known", !.root = peerKey.root]
  <2>1. walk' = [walk EXCEPT ![w] = new] /\ walk[w].at = "begun"
    BY <1>5 DEF FindKeptKey
  <2>2. /\ new \in WalkStates /\ new.at = "known" /\ new.root = peerKey.root /\ new.age = walk[w].age
        /\ (new.steady <=> walk[w].steady) /\ new.attempt = walk[w].attempt /\ new.signer = walk[w].signer
    BY <1>4 DEF WalkStates, Kept
  <2> HIDE DEF new
  <2>3. walk'[w] = new /\ \A v \in Walks \ {w} : walk'[v] = walk[v]
    BY <2>1 DEF TrustChainTypeOK
  <2>4. WalkAged(w)'
    <3>1. walk[w].age = 0 /\ unpinned[peerKey.root] + peerKey.left <= KeyTtl /\ peerKey.root # 0
      BY <1>5, <2>1 DEF WalkAged, PinsAged
    <3>2. unpinned[peerKey.root] \in Int /\ peerKey.left \in Int
      BY <1>4, <3>1, TrustChainAssumption
         DEF Kept, TrustChainTypeOK, Roots, LongAgo, TrustChainAssumption
    <3>3. unpinned[peerKey.root] < KeyTtl + walk[w].age
      BY <1>5, <3>1, <3>2, TrustChainAssumption DEF TrustChainAssumption
    <3>4. QED
      BY <1>2, <2>2, <2>3, <3>1, <3>3 DEF WalkAged
  <2>5. SteadyWalk(w)'
    BY <1>2, <1>5, <2>1, <2>2, <2>3 DEF SteadyWalk, Serving, PinsAged
  <2>6. QED
    BY <1>1, <1>3, <2>1, <2>2, <2>4, <2>5, OneWalk
<1>6. CASE FindKeptKey(w) /\ ~(peerKey.left > 0)
  <2> DEFINE new == [walk[w] EXCEPT !.at = "asking"]
  <2>1. walk' = [walk EXCEPT ![w] = new] /\ walk[w].at = "begun"
    BY <1>6 DEF FindKeptKey
  <2>2. /\ new \in WalkStates /\ new.at = "asking"
        /\ (new.steady <=> walk[w].steady) /\ new.signer = walk[w].signer
    BY <1>4 DEF WalkStates
  <2> HIDE DEF new
  <2>3. walk'[w] = new /\ \A v \in Walks \ {w} : walk'[v] = walk[v]
    BY <2>1 DEF TrustChainTypeOK
  <2>4. WalkAged(w)' /\ SteadyWalk(w)'
    BY <1>2, <2>1, <2>2, <2>3 DEF WalkAged, SteadyWalk, Serving
  <2>5. QED
    BY <1>1, <1>3, <2>1, <2>2, <2>4, OneWalk
<1>7. CASE LookupPin(w) /\ pin = 0
  BY <1>1, <1>2, <1>3, <1>7, DoneStep DEF LookupPin
<1>8. CASE LookupPin(w) /\ pin # 0
  <2> DEFINE new == [walk[w] EXCEPT !.at = "pinned", !.pin = pin]
  <2>1. walk' = [walk EXCEPT ![w] = new] /\ walk[w].at = "asking"
    BY <1>8 DEF LookupPin
  <2>2. /\ new \in WalkStates /\ new.at = "pinned" /\ new.pin = pin /\ new.age = walk[w].age
        /\ (new.steady <=> walk[w].steady) /\ new.signer = walk[w].signer
    BY <1>4 DEF WalkStates
  <2> HIDE DEF new
  <2>3. walk'[w] = new /\ \A v \in Walks \ {w} : walk'[v] = walk[v]
    BY <2>1 DEF TrustChainTypeOK
  <2>4. unpinned[pin] = 0 /\ 0 <= walk[w].age
    BY <1>4, <1>8, TrustChainAssumption DEF PinsAged, WalkStates, TrustChainAssumption
  <2>5. WalkAged(w)'
    BY <1>2, <1>8, <2>2, <2>3, <2>4 DEF WalkAged
  <2>6. SteadyWalk(w)'
    BY <1>2, <2>1, <2>2, <2>3 DEF SteadyWalk, Serving
  <2>7. QED
    BY <1>1, <1>3, <2>1, <2>2, <2>5, <2>6, OneWalk
<1>9. CASE FetchServerAssertion(w)
  <2> DEFINE new == [walk[w] EXCEPT !.at = "fetched", !.root = rootKey]
  <2>1. walk' = [walk EXCEPT ![w] = new] /\ walk[w].at = "pinned"
    BY <1>9 DEF FetchServerAssertion
  <2>2. /\ new \in WalkStates /\ new.at = "fetched" /\ new.pin = walk[w].pin /\ new.age = walk[w].age
        /\ (new.steady <=> walk[w].steady) /\ new.signer = walk[w].signer /\ new.root = rootKey
    BY <1>4 DEF WalkStates
  <2> HIDE DEF new
  <2>3. walk'[w] = new /\ \A v \in Walks \ {w} : walk'[v] = walk[v]
    BY <2>1 DEF TrustChainTypeOK
  <2>4. WalkAged(w)'
    BY <1>2, <2>1, <2>2, <2>3 DEF WalkAged
  <2>5. SteadyWalk(w)'
    BY <1>2, <2>1, <2>2, <2>3 DEF SteadyWalk, Serving
  <2>6. QED
    BY <1>1, <1>3, <2>1, <2>2, <2>4, <2>5, OneWalk
<1>10. QED
  BY <1>5, <1>6, <1>7, <1>8, <1>9


\* A served root key is kept if it is the pinned one.
LEMMA KeepRootStep ==
  ASSUME TrustChainInv, NEW w \in Walks, KeepRootKey(w)
  PROVE  TrustChainInv'
<1> USE DEF TrustChainInv
<1>1. /\ walk[w].at = "fetched"
      /\ UNCHANGED <<issuerSide, credentialKey, unpinned>>
  BY DEF KeepRootKey
<1>2. UNCHANGED <<rootFile, rootKey, process, pin, made, kidFile, stops, keyLost>>
  BY <1>1 DEF issuerSide
<1>3. walk[w] \in WalkStates /\ walk[w].pin \in 1..MaxRoots /\ walk[w].age \in 0..KeyTtl
      /\ unpinned[walk[w].pin] <= walk[w].age
  BY <1>1, TrustChainAssumption
     DEF WalkAged, TrustChainTypeOK, WalkStates, Roots, TrustChainAssumption
<1>4. CASE walk[w].root # walk[w].pin
  <2>1. Done(w) /\ peerKey' = peerKey
    BY <1>4 DEF KeepRootKey
  <2>2. PinsAged' /\ credentialKey' \in [Kids -> Kept]
    BY <1>1, <1>2, <2>1 DEF PinsAged, TrustChainTypeOK
  <2>3. QED
    BY <1>1, <2>1, <2>2, DoneStep
<1>5. CASE walk[w].root = walk[w].pin
  <2> DEFINE new == [walk[w] EXCEPT !.at = "known"]
             kept == KeptFromStart(w)
  <2>1. peerKey' = kept /\ walk' = [walk EXCEPT ![w] = new]
    BY <1>5 DEF KeepRootKey
  <2>2. /\ new \in WalkStates /\ new.at = "known" /\ new.root = walk[w].root /\ new.age = walk[w].age
        /\ (new.steady <=> walk[w].steady) /\ new.attempt = walk[w].attempt
        /\ new.signer = walk[w].signer
    BY <1>3 DEF WalkStates
  <2>3. kept \in Kept /\ kept.root = walk[w].pin /\ kept.left = KeyTtl - walk[w].age
    BY <1>3, <1>5, TrustChainAssumption DEF KeptFromStart, Kept, Roots, TrustChainAssumption
  <2> HIDE DEF new, kept
  <2>4. unpinned[walk[w].pin] \in Nat
    BY <1>3, TrustChainAssumption DEF TrustChainTypeOK, LongAgo, TrustChainAssumption
  <2>5. PinsAged'
    <3>1. peerKey'.root # 0 /\ unpinned[peerKey'.root] + peerKey'.left <= KeyTtl
      BY <1>3, <2>1, <2>3, <2>4, TrustChainAssumption DEF TrustChainAssumption
    <3>2. QED
      BY <1>1, <1>2, <3>1 DEF PinsAged
  <2>6. walk'[w] = new /\ \A v \in Walks \ {w} : walk'[v] = walk[v]
    BY <2>1 DEF TrustChainTypeOK
  <2>7. WalkAged(w)'
    <3>1. unpinned[walk[w].pin] < KeyTtl + walk[w].age
      BY <1>3, <2>4, TrustChainAssumption DEF TrustChainAssumption
    <3>2. QED
      BY <1>1, <1>3, <1>5, <2>2, <2>6, <3>1 DEF WalkAged
  <2>8. SteadyWalk(w)'
    BY <1>1, <1>2, <1>3, <1>5, <2>1, <2>2, <2>3, <2>6 DEF SteadyWalk, Serving
  <2>9. credentialKey' \in [Kids -> Kept]
    BY <1>1 DEF TrustChainTypeOK
  <2>10. QED
    BY <1>1, <2>1, <2>2, <2>3, <2>5, <2>7, <2>8, <2>9, OneWalk
<1>6. QED
  BY <1>4, <1>5

\* A batch is refused, accepted, or checked once more under a key asked for afresh.
LEMMA VerifyStep ==
  ASSUME TrustChainInv, NEW w \in Walks, VerifyBatch(w)
  PROVE  TrustChainInv'
<1> USE DEF TrustChainInv
<1>1. /\ walk[w].at = "known" /\ walk[w].signer # 0
      /\ UNCHANGED <<issuerSide, credentialKey, unpinned>>
  BY DEF VerifyBatch
<1>2. UNCHANGED <<rootFile, rootKey, process, pin, made, kidFile, stops, keyLost>>
  BY <1>1 DEF issuerSide
<1>3. walk[w] \in WalkStates /\ credentialKey' \in [Kids -> Kept]
  BY <1>1 DEF TrustChainTypeOK
<1>4. CASE ~Accepted(w) /\ Retries(w)
  <2> DEFINE new == [walk[w] EXCEPT !.at = "begun", !.attempt = 1, !.pin = 0, !.root = 0, !.age = 0]
  <2>1. peerKey' = NoKey /\ walk' = [walk EXCEPT ![w] = new]
    BY <1>4 DEF VerifyBatch
  <2>2. /\ new \in WalkStates /\ new.at = "begun" /\ new.age = 0 /\ (new.steady <=> walk[w].steady)
        /\ new.signer = walk[w].signer
    <3>1. 0 \in Roots /\ 0 \in 0..MaxWalk /\ 1 \in 0..1
      BY TrustChainAssumption DEF Roots, TrustChainAssumption
    <3> DEFINE again == [walk[w] EXCEPT !.at = "begun", !.attempt = 1, !.pin = 0]
    <3>2. /\ again \in WalkStates /\ again.at = "begun" /\ (again.steady <=> walk[w].steady)
          /\ again.signer = walk[w].signer
      BY <1>3, <3>1 DEF WalkStates
    <3>3. new = [again EXCEPT !.root = 0, !.age = 0]
      OBVIOUS
    <3> HIDE DEF again, new
    <3>4. QED
      BY <3>1, <3>2, <3>3 DEF WalkStates
  <2> HIDE DEF new
  <2>3. walk'[w] = new /\ \A v \in Walks \ {w} : walk'[v] = walk[v]
    BY <2>1 DEF TrustChainTypeOK
  <2>4. WalkAged(w)' /\ PinsAged'
    BY <1>1, <1>2, <2>1, <2>2, <2>3 DEF WalkAged, PinsAged, NoKey
  <2>5. SteadyWalk(w)'
    BY <1>1, <1>2, <2>1, <2>2, <2>3 DEF SteadyWalk, Serving, NoKey
  <2>6. QED
    BY <1>1, <1>3, <2>1, <2>2, <2>4, <2>5, NoKeyType, OneWalk
<1>5. CASE ~(~Accepted(w) /\ Retries(w))
  <2>1. Done(w) /\ peerKey' = peerKey
    BY <1>5 DEF VerifyBatch
  <2>2. PinsAged'
    BY <1>1, <1>2, <2>1 DEF PinsAged
  <2>3. QED
    BY <1>1, <1>3, <2>1, <2>2, DoneStep
<1>6. QED
  BY <1>4, <1>5

LEMMA KeepCredentialStep ==
  ASSUME TrustChainInv, NEW w \in Walks, KeepCredentialKey(w) \/ CallFails(w)
  PROVE  TrustChainInv'
<1> USE DEF TrustChainInv
<1>1. /\ walk[w].at # "idle" /\ Done(w)
      /\ UNCHANGED <<issuerSide, peerKey, unpinned>>
  BY DEF KeepCredentialKey, CallFails, caches
<1>2. UNCHANGED <<rootFile, rootKey, process, pin, made, kidFile, stops, keyLost>>
  BY <1>1 DEF issuerSide
<1>3. CASE credentialKey' = credentialKey
  <2>1. PinsAged' /\ credentialKey' \in [Kids -> Kept]
    BY <1>1, <1>2, <1>3 DEF PinsAged, TrustChainTypeOK
  <2>2. QED
    BY <1>1, <2>1, DoneStep
<1>4. CASE credentialKey' # credentialKey
  <2>1. /\ walk[w].at = "known" /\ walk[w].root = rootKey
        /\ credentialKey' = [credentialKey EXCEPT ![kidFile] = KeptFromStart(w)]
    BY <1>4 DEF KeepCredentialKey, CallFails, caches
  <2>2. /\ walk[w].root \in 1..MaxRoots /\ walk[w].age \in 0..KeyTtl
        /\ unpinned[walk[w].root] < KeyTtl + walk[w].age
    BY <2>1, TrustChainAssumption
       DEF WalkAged, TrustChainTypeOK, WalkStates, Roots, TrustChainAssumption
  <2> DEFINE kept == KeptFromStart(w)
  <2>3. kept \in Kept /\ kept.root = walk[w].root /\ kept.left = KeyTtl - walk[w].age
    BY <2>2, TrustChainAssumption DEF KeptFromStart, Kept, Roots, TrustChainAssumption
  <2> HIDE DEF kept
  <2>4. unpinned[walk[w].root] \in Nat
    BY <2>2, TrustChainAssumption DEF TrustChainTypeOK, LongAgo, TrustChainAssumption
  <2>5. kept.root # 0 /\ unpinned[kept.root] + kept.left < 2 * KeyTtl
    BY <2>2, <2>3, <2>4, TrustChainAssumption DEF TrustChainAssumption
  <2>6. credentialKey' \in [Kids -> Kept]
    BY <2>1, <2>3 DEF TrustChainTypeOK, kept
  <2>7. \A k \in Kids : credentialKey'[k] = IF k = kidFile THEN kept ELSE credentialKey[k]
    BY <2>1 DEF TrustChainTypeOK, kept
  <2>8. PinsAged'
    BY <1>1, <1>2, <2>5, <2>7 DEF PinsAged
  <2>9. QED
    BY <1>1, <2>6, <2>8, DoneStep
<1>5. QED
  BY <1>3, <1>4


LEMMA OlderKey ==
  ASSUME NEW key \in Kept
  PROVE  /\ Older(key) \in Kept /\ Older(key).root = key.root
         /\ Older(key).left > 0 => key.left > 0 /\ Older(key).left = key.left - 1
<1>1. key.left \in 0..KeyTtl /\ KeyTtl \in Nat
  BY TrustChainAssumption DEF Kept, TrustChainAssumption
<1>2. (IF key.left > 0 THEN key.left - 1 ELSE 0) \in 0..KeyTtl
  BY <1>1
<1>3. Older(key).left = (IF key.left > 0 THEN key.left - 1 ELSE 0) /\ Older(key).root = key.root
  BY DEF Older, Kept
<1>4. Older(key) \in Kept
  BY <1>2 DEF Older, Kept
<1>5. QED
  BY <1>1, <1>3, <1>4

LEMMA TickStep ==
  ASSUME TrustChainInv, TickTrust
  PROVE  TrustChainInv'
<1> USE DEF TrustChainInv
<1>1. /\ \A w \in Busy : walk[w].at # "begun" /\ walk[w].age < MaxWalk
      /\ walk' = [w \in Walks |-> IF w \in Busy THEN [walk[w] EXCEPT !.age = @ + 1] ELSE walk[w]]
      /\ peerKey' = Older(peerKey)
      /\ credentialKey' = [k \in Kids |-> Older(credentialKey[k])]
      /\ unpinned' = [r \in 1..MaxRoots |->
                        IF r = pin \/ unpinned[r] = LongAgo THEN unpinned[r] ELSE unpinned[r] + 1]
  BY DEF TickTrust
<1>2. UNCHANGED <<rootFile, rootKey, process, pin, made, kidFile, stops, keyLost>>
  BY DEF TickTrust, issuerSide
<1>3. ASSUME NEW r \in 1..MaxRoots
      PROVE  /\ unpinned[r] \in 0..LongAgo /\ unpinned'[r] \in 0..LongAgo
             /\ unpinned'[r] <= unpinned[r] + 1 /\ (r = pin => unpinned'[r] = unpinned[r])
  <2>1. LongAgo \in Nat
    BY TrustChainAssumption DEF LongAgo, TrustChainAssumption
  <2>2. unpinned[r] \in 0..LongAgo
    BY DEF TrustChainTypeOK
  <2>3. unpinned'[r] = IF r = pin \/ unpinned[r] = LongAgo THEN unpinned[r] ELSE unpinned[r] + 1
    BY <1>1
  <2>4. QED
    BY <2>1, <2>2, <2>3
<1>4. ASSUME NEW w \in Walks
      PROVE  /\ walk'[w] \in WalkStates /\ walk'[w].at = walk[w].at
             /\ (walk'[w].steady <=> walk[w].steady) /\ walk'[w].signer = walk[w].signer
             /\ walk'[w].attempt = walk[w].attempt
             /\ walk'[w].pin = walk[w].pin /\ walk'[w].root = walk[w].root
             /\ walk[w].at # "idle" => walk[w].at # "begun" /\ walk'[w].age = walk[w].age + 1
  <2>1. walk[w] \in WalkStates
    BY DEF TrustChainTypeOK
  <2>2. CASE walk[w].at = "idle"
    BY <1>1, <2>1, <2>2 DEF Busy
  <2>3. CASE walk[w].at # "idle"
    <3>1. w \in Busy /\ walk'[w] = [walk[w] EXCEPT !.age = @ + 1]
      BY <1>1, <2>3 DEF Busy
    <3>2. walk[w].age + 1 \in 0..MaxWalk /\ walk[w].at # "begun"
      BY <1>1, <2>1, <3>1, TrustChainAssumption DEF WalkStates, TrustChainAssumption
    <3>3. QED
      BY <2>1, <3>1, <3>2 DEF WalkStates
  <2>4. QED
    BY <2>2, <2>3
<1>5. TrustChainTypeOK'
  <2>1. walk' \in [Walks -> WalkStates]
    BY <1>1, <1>4
  <2>2. peerKey' \in Kept /\ credentialKey' \in [Kids -> Kept]
    BY <1>1, OlderKey DEF TrustChainTypeOK
  <2>3. unpinned' \in [1..MaxRoots -> 0..LongAgo]
    BY <1>1, <1>3
  <2>4. QED
    BY <1>2, <2>1, <2>2, <2>3 DEF TrustChainTypeOK
<1>6. RootOnDisk'
  BY <1>2 DEF RootOnDisk
<1>7. PinsAged'
  <2>1. pin # 0 => unpinned'[pin] = 0
    BY <1>3 DEF PinsAged, TrustChainTypeOK, Roots
  <2>2. ASSUME NEW key \in Kept, Older(key).left > 0, key.left > 0 => key.root # 0
        PROVE  /\ key.left > 0 /\ Older(key).root = key.root /\ Older(key).root # 0
               /\ unpinned'[Older(key).root] + Older(key).left <= unpinned[key.root] + key.left
               /\ unpinned[key.root] \in Int /\ unpinned'[Older(key).root] \in Int
               /\ key.left \in Int /\ Older(key).left \in Int
    <3>1. /\ key.left > 0 /\ Older(key).root = key.root /\ Older(key).left = key.left - 1
          /\ key.left \in Int
      BY <2>2, OlderKey, TrustChainAssumption DEF Kept, TrustChainAssumption
    <3>2. key.root \in 1..MaxRoots
      BY <2>2, <3>1, TrustChainAssumption DEF Kept, Roots, TrustChainAssumption
    <3>3. QED
      BY <1>3, <2>2, <3>1, <3>2
  <2>3. peerKey'.left > 0 => /\ peerKey'.root # 0
                             /\ unpinned'[peerKey'.root] + peerKey'.left <= KeyTtl
    <3>1. peerKey \in Kept /\ KeyTtl \in Int
      BY TrustChainAssumption DEF TrustChainTypeOK, TrustChainAssumption
    <3>2. peerKey.left > 0 => /\ peerKey.root # 0
                              /\ unpinned[peerKey.root] + peerKey.left <= KeyTtl
      BY DEF PinsAged
    <3>3. peerKey' = Older(peerKey)
      BY <1>1
    <3>4. QED
      BY <2>2, <3>1, <3>2, <3>3
  <2>4. ASSUME NEW k \in Kids, credentialKey'[k].left > 0
        PROVE  /\ credentialKey'[k].root # 0
               /\ unpinned'[credentialKey'[k].root] + credentialKey'[k].left < 2 * KeyTtl
    <3>1. credentialKey[k] \in Kept /\ credentialKey'[k] = Older(credentialKey[k]) /\ KeyTtl \in Int
      BY <1>1, TrustChainAssumption DEF TrustChainTypeOK, TrustChainAssumption
    <3>2. QED
      BY <2>2, <2>4, <3>1 DEF PinsAged
  <2>5. QED
    BY <1>2, <2>1, <2>3, <2>4 DEF PinsAged
<1>8. ASSUME NEW w \in Walks
      PROVE  WalkAged(w)' /\ SteadyWalk(w)'
  <2>1. WalkAged(w)'
    <3>1. walk[w] \in WalkStates
      BY DEF TrustChainTypeOK
    <3>2. walk[w].pin \in Roots /\ walk[w].root \in Roots /\ walk[w].age \in Int /\ KeyTtl \in Int
      BY <3>1, TrustChainAssumption DEF WalkStates, TrustChainAssumption
    <3>3. walk'[w].at \in {"pinned", "fetched"} =>
            walk'[w].pin # 0 /\ unpinned'[walk'[w].pin] <= walk'[w].age
      BY <1>3, <1>4, <3>2, TrustChainAssumption DEF WalkAged, Roots, TrustChainAssumption
    <3>4. walk'[w].at = "known" =>
            walk'[w].root # 0 /\ unpinned'[walk'[w].root] < KeyTtl + walk'[w].age
      BY <1>3, <1>4, <3>2, TrustChainAssumption DEF WalkAged, Roots, TrustChainAssumption
    <3>5. walk'[w].at # "begun"
      BY <1>4 DEF WalkAged
    <3>6. QED
      BY <3>3, <3>4, <3>5 DEF WalkAged
  <2>2. SteadyWalk(w)'
    <3>1. peerKey'.root = peerKey.root
      BY <1>1, OlderKey DEF TrustChainTypeOK
    <3>2. QED
      BY <1>2, <1>4, <3>1 DEF SteadyWalk, Serving
  <2>3. QED
    BY <2>1, <2>2
<1>9. QED
  BY <1>5, <1>6, <1>7, <1>8

LEMMA TrustChainStep == TrustChainInv /\ [TrustChainNext]_trustVars => TrustChainInv'
<1> SUFFICES ASSUME TrustChainInv, [TrustChainNext]_trustVars
             PROVE  TrustChainInv'
  OBVIOUS
<1>1. CASE UNCHANGED trustVars
  BY <1>1 DEF trustVars, issuerSide, caches, TrustChainInv, TrustChainTypeOK, RootOnDisk, PinsAged,
              WalkAged, SteadyWalk, Serving
<1>2. ASSUME NEW w \in Walks, ReceiveBatch(w)
      PROVE  TrustChainInv'
  BY <1>2, BeginStep, TrustChainAssumption
     DEF ReceiveBatch, TrustChainInv, TrustChainTypeOK, TrustChainAssumption
<1>3. ASSUME NEW w \in Walks, NEW k \in Kids, CheckCredential(w, k)
      PROVE  TrustChainInv'
  <2>1. k \in 0..MaxKids /\ 0 \in Roots
    BY TrustChainAssumption DEF Kids, Roots, TrustChainAssumption
  <2>2. QED
    BY <1>3, <2>1, BeginStep DEF CheckCredential
<1>4. QED
  BY <1>1, <1>2, <1>3, IssuerStep, FileStep, LookupStep, KeepRootStep, VerifyStep,
     KeepCredentialStep, TickStep DEF TrustChainNext

\* Every reachable state is as TrustChainInv says.
THEOREM TrustChainInvariant == TrustChainSpec => []TrustChainInv
  BY TrustChainInit0, TrustChainStep, PTL DEF TrustChainSpec

\* Whatever crashes and restarts there were, a server that serves serves the root key
\* that DNS names, unless the operator lost its file (loadOrGenerate, writeSecretFile).
THEOREM PinnedRootServedHolds == TrustChainSpec => []PinnedRootServed
<1>1. TrustChainInv => PinnedRootServed
  BY DEF TrustChainInv, RootOnDisk, PinnedRootServed, Serving
<1>2. QED
  BY <1>1, TrustChainInvariant, PTL

\* A key taken out of DNS is used for the caches' hour, or two, at most, however slow the
\* calls were and however many ran at once (PeerRootKey, PeerCredentialKey).
THEOREM KeysRecentlyPinnedHolds == TrustChainSpec => []KeysRecentlyPinned
<1>1. ASSUME TrustChainInv
      PROVE  KeysRecentlyPinned
  <2>1. ASSUME NEW key \in Kept, key.left > 0, key.root # 0, NEW bound \in Nat,
               unpinned[key.root] + key.left <= bound
        PROVE  unpinned[key.root] < bound
    <3>1. key.root \in 1..MaxRoots /\ key.left \in Int
      BY <2>1, TrustChainAssumption DEF Kept, Roots, TrustChainAssumption
    <3>2. unpinned[key.root] \in Int
      BY <1>1, <3>1, TrustChainAssumption
         DEF TrustChainInv, TrustChainTypeOK, LongAgo, TrustChainAssumption
    <3>3. QED
      BY <2>1, <3>1, <3>2
  <2>2. KeyRecentlyPinned
    BY <1>1, <2>1, TrustChainAssumption
       DEF TrustChainInv, TrustChainTypeOK, PinsAged, KeyRecentlyPinned, TrustChainAssumption
  <2>3. CertifierRecentlyPinned
    <3>1. 2 * KeyTtl \in Nat
      BY TrustChainAssumption DEF TrustChainAssumption
    <3> SUFFICES ASSUME NEW k \in Kids, credentialKey[k].left > 0
                 PROVE  unpinned[credentialKey[k].root] < 2 * KeyTtl
      BY DEF CertifierRecentlyPinned
    <3>2. /\ credentialKey[k] \in Kept /\ credentialKey[k].root # 0
          /\ unpinned[credentialKey[k].root] + credentialKey[k].left < 2 * KeyTtl
      BY <1>1 DEF TrustChainInv, TrustChainTypeOK, PinsAged
    <3>3. credentialKey[k].root \in 1..MaxRoots /\ credentialKey[k].left \in Int
      BY <3>2, TrustChainAssumption DEF Kept, Roots, TrustChainAssumption
    <3>4. unpinned[credentialKey[k].root] \in Int
      BY <1>1, <3>3, TrustChainAssumption
         DEF TrustChainInv, TrustChainTypeOK, LongAgo, TrustChainAssumption
    <3>5. QED
      BY <3>1, <3>2, <3>3, <3>4
  <2>4. QED
    BY <2>2, <2>3 DEF KeysRecentlyPinned
<1>2. QED
  BY <1>1, TrustChainInvariant, PTL

\* A batch signed under the key a server serves and DNS names is never refused for an
\* older kept key, if nothing changes while it is checked (verifyFromPeer).
THEOREM RotatedPeerHeardHolds == TrustChainSpec => []RotatedPeerHeard
<1>1. ASSUME TrustChainInv
      PROVE  RotatedPeerHeard
  <2> SUFFICES ASSUME NEW w \in Walks, Refuses(w), walk[w].steady
               PROVE  FALSE
    BY DEF RotatedPeerHeard
  <2>1. walk[w].attempt \in 0..1
    BY <1>1 DEF TrustChainInv, TrustChainTypeOK, WalkStates
  <2>2. QED
    BY <1>1, <2>1 DEF TrustChainInv, SteadyWalk, Refuses, Accepted, Retries
<1>2. QED
  BY <1>1, TrustChainInvariant, PTL


-----------------------------------------------------------------------------
(* IdentityStatus: another server's word. *)

\* What a check has read or heard: no older than one window, or than a relay keeps it, and
\* the time since the check began; and if it says "active", stamped while it was true.
CheckAged(c) ==
  /\ check[c].at \in {"idle", "begun"} => ~check[c].direct
  /\ check[c].at = "read" => check[c].direct
  /\ check[c].at \in {"read", "heard"} =>
       /\ check[c].answer.age < Window + MaxWait + StatusTtl + check[c].waited
       /\ check[c].direct => check[c].answer.age < Window + check[c].waited
       /\ check[c].answer.word = "active" => endedFor <= check[c].answer.age
       /\ check[c].answer.word = "active" /\ check[c].direct => endedFor <= check[c].waited

RelayAged ==
  relay.left > 0 => /\ relay.answer.age + relay.left < Window + MaxWait + StatusTtl
                    /\ relay.answer.word = "active" => endedFor <= relay.answer.age

\* The inductive invariant.
StatusInv == /\ IdentityStatusTypeOK /\ RelayAged
             /\ identity = "active" => endedFor = 0
             /\ \A c \in Checks : CheckAged(c)

LEMMA StatusNumbers ==
  /\ Window \in Nat /\ Window > 0 /\ StatusTtl \in Nat /\ MaxWait \in Nat /\ ClockSkew \in Nat
  /\ MaxBehind \in Nat /\ MaxAhead \in Nat /\ StatusTtl >= Window + MaxBehind
  /\ MaxAge \in Nat /\ MaxAge = Window + StatusTtl + 2 * MaxWait
  BY IdentityStatusAssumption DEF IdentityStatusAssumption, MaxAge

LEMMA IdleCheckType == IdleCheck \in CheckStates /\ NoAnswer \in Answers
<1>1. 0 \in 0..MaxAge /\ 0 \in 0..MaxWait
  BY StatusNumbers
<1>2. QED
  BY <1>1 DEF IdleCheck, CheckStates, NoAnswer, Answers, Words

LEMMA StatusInit0 == IdentityStatusInit => StatusInv
<1> SUFFICES ASSUME IdentityStatusInit
             PROVE  StatusInv
  OBVIOUS
<1>1. 0 \in 0..(Window - 1) /\ 0 \in 0..(MaxAge + 1) /\ 0 \in 0..MaxAge
  BY StatusNumbers
<1>2. IdentityStatusTypeOK
  BY <1>1, IdleCheckType DEF IdentityStatusInit, IdentityStatusTypeOK, Words, NoRelay
<1>3. RelayAged /\ \A c \in Checks : CheckAged(c)
  BY DEF IdentityStatusInit, RelayAged, NoRelay, CheckAged, IdleCheck
<1>4. QED
  BY <1>2, <1>3 DEF IdentityStatusInit, StatusInv

\* What is known of a check's numbers.
LEMMA CheckNumbers ==
  ASSUME IdentityStatusTypeOK, NEW c \in Checks
  PROVE  /\ check[c] \in CheckStates /\ check[c].answer \in Answers
         /\ check[c].answer.age \in 0..MaxAge /\ check[c].answer.word \in Words
         /\ check[c].waited \in 0..MaxWait /\ check[c].waited \in Int
         /\ check[c].direct \in BOOLEAN /\ check[c].answer.age \in Int
         /\ endedFor \in 0..(MaxAge + 1) /\ phase \in 0..(Window - 1) /\ endedFor \in Int
  BY StatusNumbers DEF IdentityStatusTypeOK, CheckStates, Answers

\* A step of one check alone.
LEMMA OneCheck ==
  ASSUME StatusInv, NEW c \in Checks, NEW new \in CheckStates,
         check' = [check EXCEPT ![c] = new], CheckAged(c)',
         UNCHANGED <<identity, phase, ahead, endedFor>>,
         signed' \subseteq {"active", "revoked"}, relay' \in [answer : Answers, left : 0..MaxAge],
         RelayAged'
  PROVE  StatusInv'
<1>1. IdentityStatusTypeOK'
  BY DEF StatusInv, IdentityStatusTypeOK
<1>2. ASSUME NEW d \in Checks, d # c
      PROVE  CheckAged(d)'
  BY <1>2 DEF StatusInv, IdentityStatusTypeOK, CheckAged
<1>3. QED
  BY <1>1, <1>2 DEF StatusInv

LEMMA BeginOrEndStep ==
  ASSUME StatusInv, NEW c \in Checks, BeginCheck(c) \/ EndCheck(c) \/ AnswerFromRelay(c)
  PROVE  StatusInv'
<1> USE DEF StatusInv
<1>1. /\ UNCHANGED <<identity, phase, signed, relay, ahead, endedFor>> /\ RelayAged'
      /\ signed' \subseteq {"active", "revoked"} /\ relay' \in [answer : Answers, left : 0..MaxAge]
  BY DEF BeginCheck, EndCheck, AnswerFromRelay, RelayAged, IdentityStatusTypeOK
<1>2. CASE EndCheck(c)
  <2>1. check' = [check EXCEPT ![c] = IdleCheck] /\ check'[c] = IdleCheck
    BY <1>2 DEF EndCheck, IdentityStatusTypeOK
  <2>2. CheckAged(c)'
    BY <2>1 DEF CheckAged, IdleCheck
  <2>3. QED
    BY <1>1, <2>1, <2>2, IdleCheckType, OneCheck
<1>3. CASE BeginCheck(c)
  <2> DEFINE new == [check[c] EXCEPT !.at = "begun"]
  <2>1. check' = [check EXCEPT ![c] = new]
    BY <1>3 DEF BeginCheck
  <2>2. new \in CheckStates /\ new.at = "begun" /\ (new.direct <=> check[c].direct)
    BY CheckNumbers DEF CheckStates
  <2> HIDE DEF new
  <2>3. check'[c] = new
    BY <2>1 DEF IdentityStatusTypeOK
  <2>4. CheckAged(c)'
    BY <1>3, <2>2, <2>3 DEF CheckAged, BeginCheck
  <2>5. QED
    BY <1>1, <2>1, <2>2, <2>4, OneCheck
<1>4. CASE AnswerFromRelay(c)
  <2> DEFINE new == [check[c] EXCEPT !.at = "heard", !.answer = relay.answer]
  <2>1. check' = [check EXCEPT ![c] = new] /\ relay.left > 0 /\ check[c].at = "begun"
    BY <1>4 DEF AnswerFromRelay
  <2>2. relay.answer \in Answers /\ relay.left \in Int /\ relay.answer.age \in Int
    BY StatusNumbers DEF IdentityStatusTypeOK, Answers
  <2>3. /\ new \in CheckStates /\ new.at = "heard" /\ new.answer = relay.answer
        /\ new.waited = check[c].waited /\ (new.direct <=> check[c].direct)
    BY <2>2, CheckNumbers DEF CheckStates
  <2> HIDE DEF new
  <2>4. check'[c] = new
    BY <2>1 DEF IdentityStatusTypeOK
  <2>5. relay.answer.age < Window + MaxWait + StatusTtl + check[c].waited
    BY <2>1, <2>2, CheckNumbers, StatusNumbers DEF RelayAged
  <2>6. CheckAged(c)'
    BY <1>1, <2>1, <2>3, <2>4, <2>5 DEF CheckAged, RelayAged
  <2>7. QED
    BY <1>1, <2>1, <2>3, <2>6, OneCheck
<1>5. QED
  BY <1>2, <1>3, <1>4

\* The issuer reads its rows: what it says is stamped with the start of the window.
LEMMA ReadStep ==
  ASSUME StatusInv, NEW c \in Checks, ReadStatus(c)
  PROVE  StatusInv'
<1> USE DEF StatusInv
<1> DEFINE said == [word |-> identity, age |-> phase]
           new == [check[c] EXCEPT !.at = "read", !.direct = TRUE, !.answer = said]
<1>1. check' = [check EXCEPT ![c] = new] /\ UNCHANGED <<identity, phase, signed, relay, ahead, endedFor>>
  BY DEF ReadStatus
<1>2. said \in Answers /\ said.word = identity /\ said.age = phase
  BY CheckNumbers, StatusNumbers DEF IdentityStatusTypeOK, Answers
<1>3. /\ new \in CheckStates /\ new.at = "read" /\ new.answer = said /\ new.direct
      /\ new.waited = check[c].waited
  BY <1>2, CheckNumbers DEF CheckStates
<1> HIDE DEF new, said
<1>4. check'[c] = new
  BY <1>1 DEF IdentityStatusTypeOK
<1>5. phase < Window + check[c].waited /\ phase < Window + MaxWait + StatusTtl + check[c].waited
  BY CheckNumbers, StatusNumbers
<1>6. identity = "active" => endedFor <= phase /\ endedFor <= check[c].waited
  BY CheckNumbers, StatusNumbers
<1>7. CheckAged(c)'
  BY <1>1, <1>2, <1>3, <1>4, <1>5, <1>6 DEF CheckAged
<1>8. RelayAged' /\ signed' \subseteq {"active", "revoked"}
      /\ relay' \in [answer : Answers, left : 0..MaxAge]
  BY <1>1 DEF RelayAged, IdentityStatusTypeOK
<1>9. QED
  BY <1>1, <1>3, <1>7, <1>8, OneCheck

\* It signs what it read, and a relay may keep that for as long as an answer is valid.
LEMMA AnswerStep ==
  ASSUME StatusInv, NEW c \in Checks, AnswerStatus(c)
  PROVE  StatusInv'
<1> USE DEF StatusInv
<1>1. PICK word \in Reusable(check[c].answer.word) :
        LET answer == [check[c].answer EXCEPT !.word = word]
        IN /\ check' = [check EXCEPT ![c].at = "heard", ![c].answer = answer]
           /\ signed' \in {signed, signed \cup ({word} \ {"unknown"})}
           /\ relay' \in {relay, Relayed(answer)}
  BY DEF AnswerStatus
<1> DEFINE answer == [check[c].answer EXCEPT !.word = word]
           new == [check[c] EXCEPT !.at = "heard", !.answer = answer]
<1>2. check[c].at = "read" /\ UNCHANGED <<identity, phase, ahead, endedFor>>
  BY DEF AnswerStatus
<1>3. /\ answer \in Answers /\ answer.age = check[c].answer.age /\ answer.word = word
      /\ word = check[c].answer.word
  BY CheckNumbers DEF Reusable, Answers
<1>4. check' = [check EXCEPT ![c] = new] /\ relay' \in {relay, Relayed(answer)}
  BY <1>1
<1>5. signed' \subseteq {"active", "revoked"}
  BY <1>1, <1>3 DEF IdentityStatusTypeOK, Answers, Words
<1> HIDE DEF answer
<1>6. /\ new \in CheckStates /\ new.at = "heard" /\ new.answer = answer
      /\ new.waited = check[c].waited /\ (new.direct <=> check[c].direct)
  BY <1>3, CheckNumbers DEF CheckStates
<1> HIDE DEF new
<1>7. check'[c] = new
  BY <1>4 DEF IdentityStatusTypeOK
<1>8. CheckAged(c)'
  BY <1>2, <1>3, <1>6, <1>7 DEF CheckAged
<1>9. CASE relay' = relay
  <2>1. RelayAged' /\ relay' \in [answer : Answers, left : 0..MaxAge]
    BY <1>2, <1>9 DEF RelayAged, IdentityStatusTypeOK
  <2>2. QED
    BY <1>2, <1>4, <1>5, <1>6, <1>8, <2>1, OneCheck
<1>10. CASE relay' = Relayed(answer)
  <2>1. relay'.answer = answer /\ relay'.left = StatusTtl
    BY <1>10 DEF Relayed
  <2>2. relay' \in [answer : Answers, left : 0..MaxAge]
    BY <1>3, <1>10, StatusNumbers DEF Relayed
  <2>3. answer.age + StatusTtl < Window + MaxWait + StatusTtl
    BY <1>2, <1>3, CheckNumbers, StatusNumbers DEF CheckAged
  <2>4. RelayAged'
    BY <1>2, <1>3, <2>1, <2>3 DEF RelayAged, CheckAged
  <2>5. QED
    BY <1>2, <1>4, <1>5, <1>6, <1>8, <2>2, <2>4, OneCheck
<1>11. QED
  BY <1>4, <1>9, <1>10

LEMMA EndIdentityStep ==
  ASSUME StatusInv, NEW word \in Words, EndIdentity(word)
  PROVE  StatusInv'
  BY DEF StatusInv, EndIdentity, IdentityStatusTypeOK, RelayAged, CheckAged

LEMMA TickAnswer ==
  ASSUME NEW answer \in Answers, answer.age < MaxAge
  PROVE  /\ Tick(answer) \in Answers /\ Tick(answer).age = answer.age + 1
         /\ Tick(answer).word = answer.word
<1>1. answer.age + 1 \in 0..MaxAge
  BY StatusNumbers DEF Answers
<1>2. QED
  BY <1>1 DEF Tick, Answers

LEMMA TickStatusStep ==
  ASSUME StatusInv, TickStatus
  PROVE  StatusInv'
<1> USE DEF StatusInv
<1>1. /\ identity' = identity /\ ahead' = ahead
      /\ phase' = (phase + 1) % Window
      /\ signed' = IF phase' = 0 THEN {} ELSE signed
      /\ endedFor' = IF identity # "active" /\ endedFor < MaxAge + 1 THEN endedFor + 1 ELSE endedFor
  BY DEF TickStatus
<1>2. phase' \in 0..(Window - 1) /\ signed' \subseteq {"active", "revoked"}
  <2>1. phase + 1 \in Int /\ Window \in Nat /\ Window > 0
    BY StatusNumbers, IdentityStatusAssumption DEF IdentityStatusTypeOK
  <2>2. (phase + 1) % Window \in 0..(Window - 1)
    BY <2>1
  <2>3. signed' \subseteq {"active", "revoked"}
    BY <1>1 DEF IdentityStatusTypeOK
  <2>4. QED
    BY <1>1, <2>2, <2>3
<1>3. /\ endedFor' \in 0..(MaxAge + 1) /\ endedFor' <= endedFor + 1 /\ endedFor \in Int
      /\ endedFor' \in Int /\ identity' = "active" => endedFor' = 0
  BY <1>1, StatusNumbers DEF IdentityStatusTypeOK
<1>4. ASSUME NEW c \in Checks
      PROVE  check'[c] \in CheckStates /\ CheckAged(c)'
  <2>1. check[c].at # "idle" => check[c].waited < MaxWait
    BY DEF TickStatus
  <2>2. check'[c] = CASE check[c].at = "idle" -> check[c]
                      [] check[c].at = "begun" -> [check[c] EXCEPT !.waited = @ + 1]
                      [] OTHER -> [check[c] EXCEPT !.waited = @ + 1, !.answer = Tick(@)]
    BY DEF TickStatus
  <2>3. CASE check[c].at = "idle"
    BY <2>2, <2>3, CheckNumbers DEF CheckAged
  <2>4. CASE check[c].at = "begun"
    <3>1. check[c].waited + 1 \in 0..MaxWait
      BY <2>1, <2>4, CheckNumbers, StatusNumbers
    <3>2. check'[c] = [check[c] EXCEPT !.waited = @ + 1]
      BY <2>2, <2>4
    <3>3. /\ check'[c] \in CheckStates /\ check'[c].at = "begun"
          /\ (check'[c].direct <=> check[c].direct)
      BY <2>4, <3>1, <3>2, CheckNumbers DEF CheckStates
    <3>4. QED
      BY <2>4, <3>3 DEF CheckAged
  <2>5. CASE check[c].at \in {"read", "heard"}
    <3>1. check[c].waited + 1 \in 0..MaxWait /\ check[c].answer.age < MaxAge
      BY <2>1, <2>5, CheckNumbers, StatusNumbers DEF CheckAged
    <3>2. check'[c] = [check[c] EXCEPT !.waited = @ + 1, !.answer = Tick(@)]
      BY <2>2, <2>5
    <3>3. /\ Tick(check[c].answer) \in Answers
          /\ Tick(check[c].answer).age = check[c].answer.age + 1
          /\ Tick(check[c].answer).word = check[c].answer.word
      BY <3>1, CheckNumbers, TickAnswer
    <3>4. /\ check'[c] \in CheckStates /\ check'[c].at = check[c].at
          /\ (check'[c].direct <=> check[c].direct) /\ check'[c].waited = check[c].waited + 1
          /\ check'[c].answer = Tick(check[c].answer)
      BY <3>1, <3>2, <3>3, CheckNumbers DEF CheckStates
    <3>5. CheckAged(c)'
      BY <1>3, <2>5, <3>3, <3>4, CheckNumbers, StatusNumbers DEF CheckAged
    <3>6. QED
      BY <3>4, <3>5
  <2>6. QED
    BY <2>3, <2>4, <2>5, CheckNumbers DEF CheckStates
<1>5. check' \in [Checks -> CheckStates]
  <2>1. check' = [c \in Checks |-> check'[c]]
    BY DEF TickStatus
  <2>2. QED
    BY <1>4, <2>1
<1>6. relay' \in [answer : Answers, left : 0..MaxAge] /\ RelayAged'
  <2>1. /\ relay.answer \in Answers /\ relay.left \in 0..MaxAge
        /\ relay.left \in Int /\ relay.answer.age \in Int
    BY StatusNumbers DEF IdentityStatusTypeOK, Answers
  <2>2. CASE relay.left <= 1
    <3>1. relay' = NoRelay
      BY <2>2 DEF TickStatus
    <3>2. 0 \in 0..MaxAge
      BY StatusNumbers
    <3>3. QED
      BY <3>1, <3>2, IdleCheckType DEF NoRelay, RelayAged
  <2>3. CASE ~(relay.left <= 1)
    <3>1. relay' = [answer |-> Tick(relay.answer), left |-> relay.left - 1]
      BY <2>3 DEF TickStatus
    <3>2. relay.answer.age < MaxAge /\ relay.left > 0 /\ relay.left - 1 \in 0..MaxAge
      BY <2>1, <2>3, StatusNumbers DEF RelayAged
    <3>3. /\ Tick(relay.answer) \in Answers /\ Tick(relay.answer).age = relay.answer.age + 1
          /\ Tick(relay.answer).word = relay.answer.word
      BY <2>1, <3>2, TickAnswer
    <3>4. QED
      BY <1>3, <2>1, <3>1, <3>2, <3>3, StatusNumbers DEF RelayAged
  <2>4. QED
    BY <2>2, <2>3
<1>7. QED
  BY <1>1, <1>2, <1>3, <1>4, <1>5, <1>6 DEF IdentityStatusTypeOK

LEMMA StatusStep == StatusInv /\ [IdentityStatusNext]_statusVars => StatusInv'
<1> SUFFICES ASSUME StatusInv, [IdentityStatusNext]_statusVars
             PROVE  StatusInv'
  OBVIOUS
<1>1. CASE UNCHANGED statusVars
  BY <1>1 DEF statusVars, StatusInv, IdentityStatusTypeOK, RelayAged, CheckAged
<1>2. QED
  BY <1>1, EndIdentityStep, BeginOrEndStep, ReadStep, AnswerStep, TickStatusStep
     DEF IdentityStatusNext

\* Every reachable state is as StatusInv says.
THEOREM StatusInvariant == IdentityStatusSpec => []StatusInv
  BY StatusInit0, StatusStep, PTL DEF IdentityStatusSpec

\* Whoever checks an identity, over a relay or not and with whatever difference of the
\* clocks: it is not called verified for longer after its end than one answer is valid,
\* the issuer's own answer never calls it active if it ended before the check began, and
\* is believed at once (identityStatusFor, VerifyIdentityStatus).
THEOREM StatusHeardRightlyHolds == IdentityStatusSpec => []StatusHeardRightly
<1>1. ASSUME StatusInv
      PROVE  StatusHeardRightly
  <2>1. ahead \in Int /\ ahead >= -MaxBehind
    BY <1>1, StatusNumbers DEF StatusInv, IdentityStatusTypeOK
  <2>2. RevokedSoonSeen
    <3> SUFFICES ASSUME NEW c \in Checks, Verdict(c) = "verified"
                 PROVE  endedFor <= StatusTtl + Positive(ahead) + check[c].waited
      BY DEF RevokedSoonSeen
    <3>1. check[c].at = "heard" /\ Believes(c) /\ check[c].answer.word = "active"
      <4>1. CASE check[c].at # "heard" \/ ~Believes(c)
        <5>1. Verdict(c) = "unverified"
          BY <4>1 DEF Verdict
        <5>2. QED
          BY <5>1
      <4>2. CASE check[c].at = "heard" /\ Believes(c) /\ check[c].answer.word # "active"
        <5>1. check[c].answer.word \in {"revoked", "unknown"}
          BY <1>1, <4>2, CheckNumbers DEF StatusInv, Answers, Words
        <5>2. Verdict(c) \in {"revoked", "unverified"}
          BY <4>2, <5>1 DEF Verdict
        <5>3. QED
          BY <5>2
      <4>3. QED
        BY <4>1, <4>2
    <3>2. endedFor <= check[c].answer.age
      BY <1>1, <3>1 DEF StatusInv, CheckAged
    <3>3. Positive(ahead) >= ahead /\ Positive(ahead) \in Int
      BY <2>1 DEF Positive
    <3>4. QED
      BY <1>1, <2>1, <3>1, <3>2, <3>3, CheckNumbers, StatusNumbers
         DEF Believes, SinceIssued, StatusInv
  <2>3. NextProbeTells
    BY <1>1 DEF StatusInv, CheckAged, NextProbeTells
  <2>4. DirectAnswerBelieved
    <3> SUFFICES ASSUME NEW c \in Checks, check[c].at = "heard", check[c].direct,
                        ahead + check[c].waited <= ClockSkew
                 PROVE  Believes(c)
      BY DEF DirectAnswerBelieved
    <3>1. check[c].answer.age < Window + check[c].waited
      BY <1>1 DEF StatusInv, CheckAged
    <3>2. QED
      BY <1>1, <2>1, <3>1, CheckNumbers, StatusNumbers DEF Believes, SinceIssued, StatusInv
  <2>5. QED
    BY <2>2, <2>3, <2>4 DEF StatusHeardRightly
<1>2. QED
  BY <1>1, StatusInvariant, PTL

-----------------------------------------------------------------------------
(* Presentations: what a verification under way knows of the chain. *)

\* A link a verification heard hold had ended at most StaleFor before it was asked.
HeldLately(a, l) == l \in ended => endedAgo[l] <= StaleFor + showing[a].waited

VerificationTrue(a) ==
  /\ showing[a].at # "idle" => showing[a].age - showing[a].waited <= Oldest - MaxCalls
  /\ showing[a].verdict = "expired" => lapsed
  /\ showing[a].verdict = "revoked" => ended \cap {"standing", "identity"} # {}
  /\ showing[a].verdict \in {"dnsMissing", "spoofed"} => "key" \in ended
  /\ showing[a].at \in {"key", "standing", "binding", "identity"} => showing[a].verdict # "invalid"
  /\ showing[a].verdict = "verified" =>
       /\ showing[a].at \in {"standing", "binding", "identity", "decided"} => HeldLately(a, "key")
       /\ showing[a].at \in {"binding", "identity", "decided"} => HeldLately(a, "standing")
       /\ showing[a].at = "decided" => HeldLately(a, "identity")
       /\ showing[a].at \in {"identity", "decided"} =>
            /\ showing[a].made = showing[a].for
            /\ showing[a].age - showing[a].waited <= PresentationMaxAge + Fast

\* The inductive invariant.
PresentationInv ==
  /\ PresentationsTypeOK
  /\ \A c \in Checkings : shown[c] # NotMade => shown[c] <= Oldest - MaxCalls
  /\ \A l \in Chain : l \notin ended => endedAgo[l] = 0
  /\ \A a \in Replies : VerificationTrue(a)

LEMMA PresentationNumbers ==
  /\ CheckTtl \in Nat /\ PresentationMaxAge \in Nat /\ Skew \in Nat /\ StaleFor \in Nat
  /\ MaxCalls \in Nat /\ Fast \in Nat
  /\ Oldest \in Nat /\ Oldest = PresentationMaxAge + Fast + MaxCalls + 1
  /\ LongEnded \in Nat /\ LongEnded = StaleFor + MaxCalls + 1
  /\ Oldest - MaxCalls \in Nat
  BY PresentationsAssumption DEF PresentationsAssumption, Oldest, LongEnded

LEMMA ShowingFields ==
  ASSUME NEW s \in Showings
  PROVE  /\ s.at \in {"idle", "key", "standing", "binding", "identity", "decided"}
         /\ s.for \in Checkings /\ s.made \in Checkings \cup {Elsewhere}
         /\ s.age \in Nat /\ s.age <= Oldest /\ s.waited \in Nat /\ s.waited <= MaxCalls
         /\ s.verdict \in States
  BY PresentationNumbers DEF Showings

LEMMA NoShowingType == NoShowing \in Showings /\ NoShowing.at = "idle" /\ NoShowing.verdict = "verified"
<1>1. SomeCheck \in Checkings
  BY PresentationsAssumption DEF PresentationsAssumption, SomeCheck
<1>2. 0 \in 0..Oldest /\ 0 \in 0..MaxCalls
  BY PresentationNumbers
<1>3. QED
  BY <1>1, <1>2 DEF NoShowing, Showings, States

LEMMA PresentationInit == PresentationsInit => PresentationInv
<1> SUFFICES ASSUME PresentationsInit
             PROVE  PresentationInv
  OBVIOUS
<1>1. 0 \in 0..CheckTtl /\ 0 \in 0..LongEnded
  BY PresentationNumbers
<1>2. PresentationsTypeOK
  BY <1>1, NoShowingType DEF PresentationsInit, PresentationsTypeOK, Rows, States
<1>3. \A a \in Replies : VerificationTrue(a)
  BY NoShowingType DEF PresentationsInit, VerificationTrue
<1>4. QED
  BY <1>2, <1>3 DEF PresentationsInit, PresentationInv

\* One verification moves; the chain and the checks are as they were.
LEMMA VerificationMoves ==
  ASSUME PresentationInv, NEW a \in Replies, NEW s \in Showings,
         showing' = [showing EXCEPT ![a] = s],
         UNCHANGED <<shown, ended, endedAgo, lapsed>>,
         asked' \in [Checkings -> Rows],
         VerificationTrue(a)'
  PROVE  PresentationInv'
<1>1. showing' \in [Replies -> Showings]
  BY DEF PresentationInv, PresentationsTypeOK
<1>2. PresentationsTypeOK'
  BY <1>1 DEF PresentationInv, PresentationsTypeOK
<1>3. ASSUME NEW b \in Replies, b # a
      PROVE  VerificationTrue(b)'
  <2>1. showing'[b] = showing[b]
    BY <1>3 DEF PresentationInv, PresentationsTypeOK
  <2>2. QED
    BY <2>1 DEF PresentationInv, VerificationTrue, HeldLately
<1>4. QED
  BY <1>2, <1>3 DEF PresentationInv

LEMMA OpenAnswerStep ==
  ASSUME PresentationInv, NEW a \in Replies, NEW c \in Checkings,
         NEW d \in Checkings \cup {Elsewhere}, OpenAnswer(a, c, d)
  PROVE  PresentationInv'
<1> DEFINE s == [at |-> "key", for |-> c, made |-> d, waited |-> 0,
                 age |-> IF d = Elsewhere THEN 0 ELSE shown[d],
                 verdict |-> IF lapsed THEN "expired" ELSE "verified"]
<1>1. 0 \in 0..Oldest /\ 0 \in 0..MaxCalls /\ 0 \in Nat /\ 0 <= Oldest - MaxCalls
  BY PresentationNumbers
<1>2. s.age \in 0..Oldest /\ s.age <= Oldest - MaxCalls
  <2>1. CASE d = Elsewhere
    BY <1>1, <2>1
  <2>2. CASE d # Elsewhere
    <3>1. d \in Checkings /\ shown[d] # NotMade /\ shown[d] \in {NotMade} \cup 0..Oldest
      BY <2>2 DEF OpenAnswer, PresentationInv, PresentationsTypeOK
    <3>2. QED
      BY <2>2, <3>1 DEF PresentationInv
  <2>3. QED
    BY <2>1, <2>2
<1>3. s \in Showings
  BY <1>1, <1>2 DEF Showings, States
<1>4. showing' = [showing EXCEPT ![a] = s] /\ UNCHANGED <<asked, shown, ended, endedAgo, lapsed>>
  BY DEF OpenAnswer
<1>5. showing'[a] = s
  BY <1>4 DEF PresentationInv, PresentationsTypeOK
<1>6. /\ s.at = "key" /\ s.waited = 0 /\ s.verdict \in {"expired", "verified"}
      /\ s.verdict = "expired" => lapsed
  OBVIOUS
<1> HIDE DEF s
<1>7. s.age - s.waited <= Oldest - MaxCalls
  BY <1>2, <1>6, PresentationNumbers
<1>8. VerificationTrue(a)'
  BY <1>4, <1>5, <1>6, <1>7, PresentationNumbers DEF VerificationTrue, Oldest
<1>9. asked' \in [Checkings -> Rows]
  BY <1>4 DEF PresentationInv, PresentationsTypeOK
<1>10. QED
  BY <1>3, <1>4, <1>8, <1>9, VerificationMoves

\* A call of VerifyPresentation is answered.
LEMMA Answered ==
  ASSUME PresentationInv, NEW a \in Replies, showing[a].at # "idle",
         NEW at \in {"standing", "binding", "identity", "decided"}, NEW state \in States,
         Continue(a, at, state), Asks(a),
         state = "expired" => lapsed,
         state = "revoked" => ended \cap {"standing", "identity"} # {},
         state \in {"dnsMissing", "spoofed"} => "key" \in ended,
         at # "decided" => state # "invalid",
         state = "verified" =>
           /\ HeldLately(a, "key")
           /\ at \in {"binding", "identity", "decided"} => HeldLately(a, "standing")
           /\ at = "decided" => HeldLately(a, "identity")
           /\ at \in {"identity", "decided"} =>
                /\ showing[a].made = showing[a].for
                /\ showing[a].age - showing[a].waited <= PresentationMaxAge + Fast
  PROVE  PresentationInv'
<1> DEFINE s == [showing[a] EXCEPT !.at = at, !.verdict = state]
<1>1. showing[a] \in Showings
  BY DEF PresentationInv, PresentationsTypeOK
<1>2. /\ s \in Showings /\ s.at = at /\ s.verdict = state /\ s.for = showing[a].for
      /\ s.made = showing[a].made /\ s.age = showing[a].age /\ s.waited = showing[a].waited
  BY <1>1 DEF Showings
<1>3. showing' = [showing EXCEPT ![a] = s] /\ UNCHANGED <<asked, shown, ended, endedAgo, lapsed>>
  BY DEF Continue, Asks
<1>4. showing'[a] = s
  BY <1>3 DEF PresentationInv, PresentationsTypeOK
<1> HIDE DEF s
<1>5. showing[a].age - showing[a].waited <= Oldest - MaxCalls
  BY DEF PresentationInv, VerificationTrue
<1>6. VerificationTrue(a)'
  BY <1>2, <1>3, <1>4, <1>5 DEF VerificationTrue, HeldLately, Oldest
<1>7. asked' \in [Checkings -> Rows]
  BY <1>3 DEF PresentationInv, PresentationsTypeOK
<1>8. QED
  BY <1>2, <1>3, <1>6, <1>7, VerificationMoves

\* What is heard of a link: "verified" only while it holds or ended lately.
LEMMA HeardTruly ==
  ASSUME NEW l \in Chain, NEW word, NEW heard \in Heard(l, word),
         PresentationInv, NEW a \in Replies, word # "verified", word # "unverified"
  PROVE  /\ heard \in {"unverified", "verified", word}
         /\ heard = word => l \in ended
         /\ heard = "verified" => HeldLately(a, l)
<1>1. showing[a].waited \in Nat
  BY ShowingFields DEF PresentationInv, PresentationsTypeOK
<1>2. endedAgo[l] \in Nat /\ StaleFor \in Nat
  BY PresentationNumbers DEF PresentationInv, PresentationsTypeOK
<1>3. /\ heard \in {"unverified", "verified", word}
      /\ heard = word => l \in ended
      /\ heard = "verified" => l \notin ended \/ endedAgo[l] <= StaleFor
  BY DEF Heard
<1>4. QED
  BY <1>1, <1>2, <1>3 DEF HeldLately

LEMMA FindIssuerKeyStep ==
  ASSUME PresentationInv, NEW a \in Replies, FindIssuerKey(a)
  PROVE  PresentationInv'
<1>1. /\ showing[a].at = "key" /\ Asks(a) /\ showing[a].verdict \in States /\ VerificationTrue(a)
  BY ShowingFields DEF FindIssuerKey, PresentationInv, PresentationsTypeOK
<1>2. PICK word \in Heard("key", "dnsMissing") \cup Heard("key", "spoofed") :
        IF word # "verified" THEN Decide(a, word)
        ELSE Continue(a, "standing", showing[a].verdict)
  BY DEF FindIssuerKey
<1>3. /\ word \in {"unverified", "verified", "dnsMissing", "spoofed"}
      /\ word \in {"dnsMissing", "spoofed"} => "key" \in ended
      /\ word = "verified" => HeldLately(a, "key")
  <2>1. "key" \in Chain
    BY DEF Chain
  <2>2. CASE word \in Heard("key", "dnsMissing")
    BY <2>1, <2>2, HeardTruly
  <2>3. CASE word \in Heard("key", "spoofed")
    BY <2>1, <2>3, HeardTruly
  <2>4. QED
    BY <1>2, <2>2, <2>3
<1>4. CASE word # "verified"
  <2>1. word \in States /\ Continue(a, "decided", word)
    BY <1>2, <1>3, <1>4 DEF States, Decide
  <2>2. QED
    BY <1>1, <1>3, <1>4, <2>1, Answered
<1>5. CASE word = "verified"
  <2>1. Continue(a, "standing", showing[a].verdict)
    BY <1>2, <1>5
  <2>2. QED
    BY <1>1, <1>3, <1>5, <2>1, Answered DEF VerificationTrue
<1>6. QED
  BY <1>4, <1>5

LEMMA ReadCredentialStatusStep ==
  ASSUME PresentationInv, NEW a \in Replies, ReadCredentialStatus(a)
  PROVE  PresentationInv'
<1>1. /\ showing[a].at = "standing" /\ Asks(a) /\ showing[a].verdict \in States
      /\ VerificationTrue(a)
  BY ShowingFields DEF ReadCredentialStatus, PresentationInv, PresentationsTypeOK
<1>2. PICK word \in Heard("standing", "revoked") : Continue(a, "binding", Hold(a, word))
  BY DEF ReadCredentialStatus
<1>3. /\ word \in {"unverified", "verified", "revoked"}
      /\ word = "revoked" => "standing" \in ended
      /\ word = "verified" => HeldLately(a, "standing")
  <2>1. "standing" \in Chain
    BY DEF Chain
  <2>2. QED
    BY <1>2, <2>1, HeardTruly
<1>4. CASE showing[a].verdict = "verified"
  <2>1. Hold(a, word) = word /\ word \in States
    BY <1>3, <1>4 DEF Hold, States
  <2>2. QED
    BY <1>1, <1>2, <1>3, <1>4, <2>1, Answered DEF VerificationTrue
<1>5. CASE showing[a].verdict # "verified"
  <2>1. Hold(a, word) = showing[a].verdict
    BY <1>5 DEF Hold
  <2>2. QED
    BY <1>1, <1>2, <1>5, <2>1, Answered DEF VerificationTrue
<1>6. QED
  BY <1>4, <1>5

LEMMA VerifyKeyBindingStep ==
  ASSUME PresentationInv, NEW a \in Replies, VerifyKeyBinding(a)
  PROVE  PresentationInv'
<1>1. /\ showing[a].at = "binding" /\ Asks(a) /\ showing[a].verdict \in States
      /\ VerificationTrue(a) /\ showing[a].age \in Nat /\ showing[a].waited \in Nat
  BY ShowingFields DEF VerifyKeyBinding, PresentationInv, PresentationsTypeOK
<1>2. CASE Bound(a)
  <2>1. /\ showing[a].made = showing[a].for
        /\ showing[a].age - showing[a].waited <= PresentationMaxAge + Fast
    BY <1>1, <1>2, PresentationNumbers DEF Bound
  <2>2. Continue(a, "identity", showing[a].verdict)
    BY <1>2 DEF VerifyKeyBinding
  <2>3. QED
    BY <1>1, <2>1, <2>2, Answered DEF VerificationTrue
<1>3. CASE ~Bound(a)
  <2>1. Continue(a, "decided", "invalid") /\ "invalid" \in States
    BY <1>3 DEF VerifyKeyBinding, Decide, States
  <2>2. QED
    BY <1>1, <2>1, Answered
<1>4. QED
  BY <1>2, <1>3

LEMMA AskHolderIdentityStep ==
  ASSUME PresentationInv, NEW a \in Replies, AskHolderIdentity(a)
  PROVE  PresentationInv'
<1>1. /\ showing[a].at = "identity" /\ Asks(a) /\ showing[a].verdict \in States
      /\ VerificationTrue(a)
  BY ShowingFields DEF AskHolderIdentity, PresentationInv, PresentationsTypeOK
<1>2. PICK word \in Heard("identity", "revoked") : Continue(a, "decided", Hold(a, word))
  BY DEF AskHolderIdentity, Decide
<1>3. /\ word \in {"unverified", "verified", "revoked"}
      /\ word = "revoked" => "identity" \in ended
      /\ word = "verified" => HeldLately(a, "identity")
  <2>1. "identity" \in Chain
    BY DEF Chain
  <2>2. QED
    BY <1>2, <2>1, HeardTruly
<1>4. CASE showing[a].verdict = "verified"
  <2>1. Hold(a, word) = word /\ word \in States
    BY <1>3, <1>4 DEF Hold, States
  <2>2. QED
    BY <1>1, <1>2, <1>3, <1>4, <2>1, Answered DEF VerificationTrue
<1>5. CASE showing[a].verdict # "verified"
  <2>1. Hold(a, word) = showing[a].verdict
    BY <1>5 DEF Hold
  <2>2. QED
    BY <1>1, <1>2, <1>5, <2>1, Answered DEF VerificationTrue
<1>6. QED
  BY <1>4, <1>5

LEMMA KeepAnswerStep ==
  ASSUME PresentationInv, NEW a \in Replies, KeepAnswer(a)
  PROVE  PresentationInv'
<1>1. showing[a].verdict \in States /\ asked \in [Checkings -> Rows]
  BY ShowingFields DEF PresentationInv, PresentationsTypeOK
<1>2. asked' \in [Checkings -> Rows]
  BY <1>1 DEF KeepAnswer, Rows
<1>3. /\ showing' = [showing EXCEPT ![a] = NoShowing]
      /\ UNCHANGED <<shown, ended, endedAgo, lapsed>>
  BY DEF KeepAnswer
<1>4. showing'[a] = NoShowing
  BY <1>3 DEF PresentationInv, PresentationsTypeOK
<1>5. VerificationTrue(a)'
  BY <1>4, NoShowingType DEF VerificationTrue
<1>6. QED
  BY <1>2, <1>3, <1>5, NoShowingType, VerificationMoves

\* Checks are asked and presentations made: no verification notices.
LEMMA AskedOrMadeStep ==
  ASSUME PresentationInv, NEW c \in Checkings, CreateAttestationCheck(c) \/ PresentCredential(c)
  PROVE  PresentationInv'
<1>1. asked \in [Checkings -> Rows] /\ shown \in [Checkings -> {NotMade} \cup 0..Oldest]
  BY DEF PresentationInv, PresentationsTypeOK
<1>2. UNCHANGED <<showing, ended, endedAgo, lapsed>>
  BY DEF CreateAttestationCheck, PresentCredential
<1>3. CheckTtl \in 0..CheckTtl /\ 0 \in 0..Oldest /\ 0 <= Oldest - MaxCalls
  BY PresentationNumbers
<1>4. asked' \in [Checkings -> Rows]
  BY <1>1, <1>3 DEF CreateAttestationCheck, PresentCredential, Rows
<1>5. /\ shown' \in [Checkings -> {NotMade} \cup 0..Oldest]
      /\ \A d \in Checkings : shown'[d] # NotMade => shown'[d] <= Oldest - MaxCalls
  BY <1>1, <1>3 DEF CreateAttestationCheck, PresentCredential, PresentationInv
<1>6. PresentationsTypeOK'
  BY <1>2, <1>4, <1>5 DEF PresentationInv, PresentationsTypeOK
<1>7. QED
  BY <1>2, <1>5, <1>6 DEF PresentationInv, VerificationTrue, HeldLately

\* A link of the chain ends, or the credential expires, under the verifications.
LEMMA ChainEndsStep ==
  ASSUME PresentationInv, ExpireCredential \/ \E l \in Chain : EndLink(l)
  PROVE  PresentationInv'
<1>1. UNCHANGED <<asked, shown, showing, endedAgo>>
  BY DEF ExpireCredential, EndLink
<1>2. /\ ended \subseteq ended' /\ ended' \subseteq Chain /\ lapsed' \in BOOLEAN
      /\ lapsed => lapsed'
      /\ \A l \in ended' \ ended : endedAgo[l] = 0
  BY DEF ExpireCredential, EndLink, PresentationInv, PresentationsTypeOK
<1>3. PresentationsTypeOK'
  BY <1>1, <1>2 DEF PresentationInv, PresentationsTypeOK
<1>4. ASSUME NEW a \in Replies
      PROVE  VerificationTrue(a)'
  <2>1. showing[a].waited \in Nat /\ StaleFor \in Nat
    BY ShowingFields, PresentationNumbers DEF PresentationInv, PresentationsTypeOK
  <2>2. ASSUME NEW l, HeldLately(a, l)
        PROVE  HeldLately(a, l)'
    <3> SUFFICES ASSUME l \in ended'
                 PROVE  endedAgo[l] <= StaleFor + showing[a].waited
      BY <1>1 DEF HeldLately
    <3>1. CASE l \in ended
      BY <2>2, <3>1 DEF HeldLately
    <3>2. CASE l \notin ended
      <4>1. endedAgo[l] = 0
        BY <1>2, <3>2
      <4>2. QED
        BY <2>1, <4>1
    <3>3. QED
      BY <3>1, <3>2
  <2>3. VerificationTrue(a)
    BY DEF PresentationInv
  <2>4. QED
    BY <1>1, <1>2, <2>2, <2>3 DEF VerificationTrue
<1>5. QED
  BY <1>1, <1>2, <1>3, <1>4 DEF PresentationInv

LEMMA TickPresentationsStep ==
  ASSUME PresentationInv, TickPresentations
  PROVE  PresentationInv'
<1>1. /\ asked \in [Checkings -> Rows] /\ showing \in [Replies -> Showings]
      /\ shown \in [Checkings -> {NotMade} \cup 0..Oldest]
      /\ endedAgo \in [Chain -> 0..LongEnded] /\ UNCHANGED <<ended, lapsed>>
  BY DEF PresentationInv, PresentationsTypeOK, TickPresentations
<1>2. asked' \in [Checkings -> Rows]
  <2>1. ASSUME NEW r \in Rows
        PROVE  [r EXCEPT !.left = IF @ > 0 THEN @ - 1 ELSE 0] \in Rows
    BY PresentationNumbers DEF Rows
  <2>2. QED
    BY <1>1, <2>1 DEF TickPresentations
<1>3. /\ shown' \in [Checkings -> {NotMade} \cup 0..Oldest]
      /\ \A c \in Checkings : shown'[c] # NotMade => shown'[c] <= Oldest - MaxCalls
  <2>1. ASSUME NEW c \in Checkings
        PROVE  /\ shown'[c] \in {NotMade} \cup 0..Oldest
               /\ shown'[c] # NotMade => shown'[c] <= Oldest - MaxCalls
    <3>1. shown'[c] = IF shown[c] \in {NotMade, Oldest - MaxCalls} THEN shown[c] ELSE shown[c] + 1
      BY DEF TickPresentations
    <3>2. /\ shown[c] \in {NotMade} \cup 0..Oldest
          /\ shown[c] # NotMade => shown[c] <= Oldest - MaxCalls
      BY <1>1 DEF PresentationInv
    <3>3. QED
      BY <3>1, <3>2, PresentationNumbers DEF NotMade
  <2>2. QED
    BY <2>1 DEF TickPresentations
<1>4. /\ endedAgo' \in [Chain -> 0..LongEnded]
      /\ \A l \in Chain : /\ l \notin ended => endedAgo'[l] = 0
                          /\ endedAgo'[l] <= endedAgo[l] + 1
  <2>1. ASSUME NEW l \in Chain
        PROVE  /\ endedAgo'[l] \in 0..LongEnded /\ endedAgo'[l] <= endedAgo[l] + 1
               /\ l \notin ended => endedAgo'[l] = 0
    <3>1. endedAgo'[l] = IF l \in ended /\ endedAgo[l] < LongEnded THEN endedAgo[l] + 1
                         ELSE endedAgo[l]
      BY DEF TickPresentations
    <3>2. endedAgo[l] \in 0..LongEnded /\ (l \notin ended => endedAgo[l] = 0)
      BY <1>1 DEF PresentationInv
    <3>3. QED
      BY <3>1, <3>2, PresentationNumbers
  <2>2. QED
    BY <2>1 DEF TickPresentations
<1>5. ASSUME NEW a \in Replies
      PROVE  showing'[a] \in Showings /\ VerificationTrue(a)'
  <2> DEFINE s == [showing[a] EXCEPT !.age = @ + 1, !.waited = @ + 1]
  <2>1. showing[a] \in Showings /\ VerificationTrue(a)
    BY <1>1 DEF PresentationInv
  <2>2. CASE Free(a)
    <3>1. showing'[a] = showing[a] /\ showing[a].at = "idle"
      BY <2>2 DEF TickPresentations, Free
    <3>2. QED
      BY <1>1, <2>1, <3>1 DEF VerificationTrue
  <2>3. CASE ~Free(a)
    <3>1. showing'[a] = s /\ showing[a].waited < MaxCalls /\ showing[a].at # "idle"
      BY <2>3 DEF TickPresentations, Free
    <3>2. /\ s.at = showing[a].at /\ s.for = showing[a].for /\ s.made = showing[a].made
          /\ s.age = showing[a].age + 1 /\ s.waited = showing[a].waited + 1
          /\ s.verdict = showing[a].verdict
      BY <2>1 DEF Showings
    <3>3. showing[a].age - showing[a].waited <= Oldest - MaxCalls
      BY <2>1, <3>1 DEF VerificationTrue
    <3>4. s.age \in 0..Oldest /\ s.waited \in 0..MaxCalls
      BY <2>1, <3>1, <3>2, <3>3, ShowingFields, PresentationNumbers
    <3>5. s \in Showings
      BY <2>1, <3>4 DEF Showings
    <3> HIDE DEF s
    <3>6. s.age - s.waited = showing[a].age - showing[a].waited
      BY <2>1, <3>2, ShowingFields
    <3>7. ASSUME NEW l \in Chain, HeldLately(a, l)
          PROVE  HeldLately(a, l)'
      <4>1. endedAgo[l] \in Nat /\ endedAgo'[l] \in Nat /\ endedAgo'[l] <= endedAgo[l] + 1
        BY <1>1, <1>4, PresentationNumbers
      <4>2. showing[a].waited \in Nat /\ showing'[a].waited = showing[a].waited + 1 /\ StaleFor \in Nat
        BY <2>1, <3>1, <3>2, ShowingFields, PresentationNumbers
      <4>3. l \in ended => endedAgo'[l] <= StaleFor + showing'[a].waited
        BY <3>7, <4>1, <4>2 DEF HeldLately
      <4>4. QED
        BY <1>1, <4>3 DEF HeldLately
    <3>8. "key" \in Chain /\ "standing" \in Chain /\ "identity" \in Chain
      BY DEF Chain
    <3>9. VerificationTrue(a)'
      BY <1>1, <2>1, <3>1, <3>2, <3>6, <3>7, <3>8 DEF VerificationTrue, Oldest
    <3>10. QED
      BY <3>1, <3>5, <3>9
  <2>4. QED
    BY <2>2, <2>3
<1>6. showing' \in [Replies -> Showings]
  BY <1>5 DEF TickPresentations
<1>7. PresentationsTypeOK'
  BY <1>1, <1>2, <1>3, <1>4, <1>6 DEF PresentationInv, PresentationsTypeOK
<1>8. QED
  BY <1>1, <1>3, <1>4, <1>5, <1>7 DEF PresentationInv

LEMMA PresentationStep ==
  PresentationInv /\ [PresentationsNext]_presentationVars => PresentationInv'
<1>1. CASE UNCHANGED presentationVars
  BY <1>1 DEF presentationVars, PresentationInv, PresentationsTypeOK, VerificationTrue, HeldLately
<1>2. QED
  BY <1>1, AskedOrMadeStep, OpenAnswerStep, FindIssuerKeyStep, ReadCredentialStatusStep,
     VerifyKeyBindingStep, AskHolderIdentityStep, KeepAnswerStep, ChainEndsStep,
     TickPresentationsStep DEF PresentationsNext

\* Of every verification under way: a good verdict so far rests on links that held, or
\* had ended no longer than StaleFor before it asked, and a bad one on a link that ended.
THEOREM PresentationInvariant == PresentationsSpec => []PresentationInv
  BY PresentationInit, PresentationStep, PTL DEF PresentationsSpec

\* Only KeepAnswer gives an open check its answer.
LEMMA OnlyKept ==
  ASSUME PresentationInv, PresentationsNext, NEW c \in Checkings,
         asked'[c].verdict # asked[c].verdict \/ (asked[c].status = "open" /\ asked'[c].status = "answered")
  PROVE  \E a \in Replies :
           /\ showing[a].at = "decided" /\ showing[a].for = c /\ showing[a].verdict # "invalid"
           /\ asked[c].status = "open" /\ asked[c].left > 0
           /\ asked'[c].status = "answered" /\ asked'[c].verdict = showing[a].verdict
<1>1. asked \in [Checkings -> Rows]
  BY DEF PresentationInv, PresentationsTypeOK
<1>2. ASSUME NEW d \in Checkings, CreateAttestationCheck(d)
      PROVE  FALSE
  BY <1>1, <1>2 DEF CreateAttestationCheck, Rows
<1>3. CASE TickPresentations
  BY <1>1, <1>3 DEF TickPresentations, Rows
<1>4. CASE UNCHANGED asked
  BY <1>4
<1>5. ASSUME NEW a \in Replies, KeepAnswer(a)
      PROVE  /\ showing[a].at = "decided" /\ showing[a].for = c /\ showing[a].verdict # "invalid"
             /\ asked[c].status = "open" /\ asked[c].left > 0
             /\ asked'[c].status = "answered" /\ asked'[c].verdict = showing[a].verdict
  <2>1. showing[a].for \in Checkings
    BY ShowingFields DEF PresentationInv, PresentationsTypeOK
  <2>2. /\ showing[a].verdict # "invalid" /\ StillOpen(showing[a].for) /\ showing[a].for = c
    BY <1>1, <1>5, <2>1 DEF KeepAnswer
  <2>3. QED
    BY <1>1, <1>5, <2>2 DEF KeepAnswer, StillOpen, Answerable, Rows
<1>6. QED
  BY <1>2, <1>3, <1>4, <1>5
  DEF PresentationsNext, PresentCredential, OpenAnswer, FindIssuerKey, ReadCredentialStatus,
      VerifyKeyBinding, AskHolderIdentity, EndLink, ExpireCredential, Asks

\* What a verdict promises of the chain at the step that keeps it.
Justified(c) ==
  CASE asked'[c].verdict = "verified" ->
         /\ \A l \in ended : endedAgo[l] <= StaleFor + MaxCalls
         /\ \E a \in Replies : /\ showing[a].at = "decided" /\ showing[a].made = c
                               /\ showing[a].age <= PresentationMaxAge + Fast + MaxCalls
    [] asked'[c].verdict = "revoked" -> ended \cap {"standing", "identity"} # {}
    [] asked'[c].verdict = "expired" -> lapsed
    [] asked'[c].verdict \in {"dnsMissing", "spoofed"} -> "key" \in ended
    [] OTHER -> asked'[c].verdict = "unverified"

LEMMA AnswersRightly ==
  ASSUME PresentationInv, [PresentationsNext]_presentationVars, NEW c \in Checkings
  PROVE  /\ asked[c].status = "open" /\ asked'[c].status = "answered" => Justified(c)
         /\ asked[c].status # "none" /\ asked'[c].verdict # asked[c].verdict =>
              asked[c].status = "open" /\ asked[c].left > 0
<1> SUFFICES ASSUME \/ asked'[c].verdict # asked[c].verdict
                    \/ asked[c].status = "open" /\ asked'[c].status = "answered"
             PROVE  Justified(c) /\ asked[c].status = "open" /\ asked[c].left > 0
  OBVIOUS
<1>1. PresentationsNext
  BY DEF presentationVars
<1>2. PICK a \in Replies :
        /\ showing[a].at = "decided" /\ showing[a].for = c /\ showing[a].verdict # "invalid"
        /\ asked[c].status = "open" /\ asked[c].left > 0
        /\ asked'[c].status = "answered" /\ asked'[c].verdict = showing[a].verdict
  BY <1>1, OnlyKept
<1>3. showing[a] \in Showings /\ VerificationTrue(a) /\ ended \subseteq Chain
  BY DEF PresentationInv, PresentationsTypeOK
<1>4. CASE showing[a].verdict = "verified"
  <2>1. \A l \in ended : endedAgo[l] <= StaleFor + MaxCalls
    <3> SUFFICES ASSUME NEW l \in ended
                 PROVE  endedAgo[l] <= StaleFor + MaxCalls
      OBVIOUS
    <3>1. HeldLately(a, l)
      BY <1>2, <1>3, <1>4 DEF VerificationTrue, Chain
    <3>2. endedAgo[l] \in 0..LongEnded
      BY <1>3 DEF PresentationInv, PresentationsTypeOK
    <3>3. QED
      BY <1>3, <3>1, <3>2, ShowingFields, PresentationNumbers DEF HeldLately
  <2>2. showing[a].made = c /\ showing[a].age <= PresentationMaxAge + Fast + MaxCalls
    <3>1. /\ showing[a].made = c
          /\ showing[a].age - showing[a].waited <= PresentationMaxAge + Fast
      BY <1>2, <1>3, <1>4 DEF VerificationTrue
    <3>2. QED
      BY <1>3, <3>1, ShowingFields, PresentationNumbers
  <2>3. QED
    BY <1>2, <1>4, <2>1, <2>2 DEF Justified
<1>5. CASE showing[a].verdict # "verified"
  BY <1>2, <1>3, <1>5, ShowingFields DEF VerificationTrue, Justified, States
<1>6. QED
  BY <1>2, <1>4, <1>5

\* A check gets one answer, while it is open, and a true one: "verified" only if every
\* link of the chain held until lately and the presentation was made for this check,
\* whatever ends, expires or is answered between VerifyPresentation's calls.
THEOREM ChecksAnsweredRightlyHolds == PresentationsSpec => ChecksAnsweredRightly
<1>1. PresentationInv /\ [PresentationsNext]_presentationVars =>
        [\A c \in Checkings : asked[c].status = "open" /\ asked'[c].status = "answered" =>
           Justified(c)]_presentationVars
  BY AnswersRightly
<1>2. PresentationInv /\ [PresentationsNext]_presentationVars =>
        [\A c \in Checkings : asked[c].status # "none" /\ asked'[c].verdict # asked[c].verdict =>
           asked[c].status = "open" /\ asked[c].left > 0]_presentationVars
  BY AnswersRightly
<1>3. QED
  BY <1>1, <1>2, PresentationInvariant, PTL
  DEF PresentationsSpec, ChecksAnsweredRightly, VerdictTrue, AnsweredOnceInTime, Justified

-----------------------------------------------------------------------------
(* Passkeys: what each confirmation, ticket and ceremony has been used for. *)

\* A code that may still be typed in was not typed in before, and was mailed.
CodeFresh ==
  /\ emailCode.id # 0 => emailCode.id \notin confirmed /\ mails[emailCode.id] # "none"
  /\ \A c \in confirmed : mails[c] # "none"

\* Signups that took their proof and are to write the account.
Paying == {c \in Ceremonies : ceremony[c].at = "paid"}

\* Every account signed up for, and every signup about to write one, has used up a
\* confirmation of its own.
PaidFor == /\ IsFiniteSet(Paying)
           /\ signedUp + Cardinality(Paying) <= Cardinality(confirmed \ proofs)
           /\ signedUp <= accountsMade

\* A ticket that lets someone in has paid for nothing yet.
TicketWorth(t) == enrolled[t] <= 1 /\ (ticket[t] # 0 => enrolled[t] = 0)

CeremonyWorth(c) ==
  /\ ceremony[c].kind = "enroll" /\ ceremony[c].at # "none" => ceremony[c].ticket \in Tickets
  /\ c \in grants => ceremony[c].at = "over" /\ sessions[c] = 0
  /\ sessions[c] # 0 => ceremony[c].at = "over" /\ sessions[c] = 1 /\ ceremony[c].user # 0

\* The inductive invariant.
PasskeyInv == /\ PasskeysTypeOK /\ CodeFresh /\ PaidFor
              /\ \A t \in Tickets : TicketWorth(t)
              /\ \A c \in Ceremonies : CeremonyWorth(c)

LEMMA PasskeyNumbers ==
  /\ MaxCodes \in Nat /\ Attempts \in Nat /\ Attempts > 0 /\ PerHour \in Nat
  /\ MaxAccounts \in Nat /\ MaxAccounts > 0 /\ NoTicket \notin Tickets
  /\ 0 \in 0..MaxCodes /\ 0 \in 0..(Attempts - 1) /\ 0 \in 0..PerHour /\ 0 \in Accounts
  BY PasskeysAssumption DEF PasskeysAssumption, Accounts

LEMMA NoCodeType == NoCode \in [id : 0..MaxCodes, tries : 0..(Attempts - 1), cooling : BOOLEAN]
                    /\ NoCode.id = 0
  BY PasskeyNumbers DEF NoCode

LEMMA NotBegunType == NotBegun \in CeremonyStates /\ NotBegun.at = "none"
  BY PasskeyNumbers DEF NotBegun, CeremonyStates

LEMMA CeremonyFields ==
  ASSUME PasskeysTypeOK, NEW c \in Ceremonies
  PROVE  /\ ceremony[c] \in CeremonyStates
         /\ ceremony[c].at \in {"none", "open", "taken", "paid", "over"}
         /\ ceremony[c].user \in Accounts /\ ceremony[c].ticket \in Tickets \cup {NoTicket}
  BY DEF PasskeysTypeOK, CeremonyStates

\* The confirmations are finitely many, so those used up can be counted.
LEMMA UsedCount ==
  ASSUME PasskeysTypeOK
  PROVE  /\ IsFiniteSet(confirmed) /\ IsFiniteSet(confirmed \ proofs)
         /\ Cardinality(confirmed) \in Nat /\ Cardinality(confirmed \ proofs) \in Nat
         /\ Cardinality(confirmed \ proofs) <= Cardinality(confirmed)
<1>1. IsFiniteSet(1..MaxCodes)
  BY PasskeyNumbers, FS_Interval
<1>2. IsFiniteSet(confirmed)
  BY <1>1, FS_Subset DEF PasskeysTypeOK, Codes
<1>3. QED
  BY <1>2, FS_Subset, FS_CardinalityType

LEMMA PasskeyInit == PasskeysInit => PasskeyInv
<1> SUFFICES ASSUME PasskeysInit
             PROVE  PasskeyInv
  OBVIOUS
<1>1. PasskeysTypeOK
  <2>1. restarts \in 0..MaxRestarts
    BY PasskeysAssumption DEF PasskeysInit, PasskeysAssumption
  <2>2. QED
    BY <2>1, PasskeyNumbers, NoCodeType, NotBegunType
    DEF PasskeysInit, PasskeysTypeOK, Codes, PerCeremony
<1>2. CodeFresh
  BY NoCodeType DEF PasskeysInit, CodeFresh
<1>3. Paying = {}
  BY NotBegunType DEF PasskeysInit, Paying
<1>4. PaidFor
  BY <1>1, <1>3, UsedCount, FS_EmptySet DEF PasskeysInit, PaidFor
<1>5. QED
  BY <1>1, <1>2, <1>4, NotBegunType DEF PasskeysInit, PasskeyInv, TicketWorth, CeremonyWorth

\* Steps that add no paying ceremony, and use up no less than they did.
LEMMA PaidForKept ==
  ASSUME PasskeyInv, PasskeysTypeOK', Paying' \subseteq Paying, signedUp' = signedUp,
         confirmed \ proofs \subseteq confirmed' \ proofs', accountsMade' >= accountsMade
  PROVE  PaidFor'
<1>1. /\ signedUp \in Nat /\ accountsMade \in Nat /\ accountsMade' \in Nat
      /\ IsFiniteSet(Paying) /\ PaidFor
  BY DEF PasskeyInv, PaidFor, PasskeysTypeOK, Accounts
<1>2. /\ IsFiniteSet(Paying') /\ Cardinality(Paying') \in Nat /\ Cardinality(Paying) \in Nat
      /\ Cardinality(Paying') <= Cardinality(Paying)
  BY <1>1, FS_Subset, FS_CardinalityType
<1>3. /\ IsFiniteSet(confirmed' \ proofs') /\ Cardinality(confirmed' \ proofs') \in Nat
      /\ Cardinality(confirmed \ proofs) \in Nat
  <2>1. /\ IsFiniteSet(Codes)
        /\ confirmed \ proofs \subseteq Codes
        /\ confirmed' \ proofs' \subseteq Codes
    <3>1. IsFiniteSet(Codes)
      BY PasskeyNumbers, FS_Interval DEF Codes
    <3>2. confirmed \subseteq Codes /\ confirmed' \subseteq Codes
      BY DEF PasskeyInv, PasskeysTypeOK, Codes
    <3>3. QED
      BY <3>1, <3>2
  <2>2. IsFiniteSet(confirmed \ proofs) /\ IsFiniteSet(confirmed' \ proofs')
    BY <2>1, FS_Subset
  <2>3. QED
    BY <2>2, FS_CardinalityType
<1>4. QED
  BY <1>1, <1>2, <1>3, FS_Subset DEF PaidFor

-----------------------------------------------------------------------------
(* The steps that confirm the address. *)

LEMMA MailedCodeStep ==
  ASSUME PasskeyInv, NEW c \in Codes,
         IssueEmailCode(c) \/ SendSignupCode(c) \/ ForgetEmailCode(c)
  PROVE  PasskeyInv'
<1>1. /\ UNCHANGED <<proofs, ceremony, grants, rowVars, restarts, histories>>
      /\ PasskeysTypeOK /\ CodeFresh /\ c \in 1..MaxCodes
  BY DEF IssueEmailCode, SendSignupCode, ForgetEmailCode, PasskeyInv, Codes
<1>2. /\ emailCode' \in [id : 0..MaxCodes, tries : 0..(Attempts - 1), cooling : BOOLEAN]
      /\ emailCode'.id \in {emailCode.id, c, 0}
  <2>1. CASE IssueEmailCode(c)
    BY <1>1, <2>1, PasskeyNumbers DEF IssueEmailCode
  <2>2. CASE SendSignupCode(c)
    BY <1>1, <2>2 DEF SendSignupCode, PasskeysTypeOK
  <2>3. CASE ForgetEmailCode(c)
    BY <2>3, NoCodeType DEF ForgetEmailCode
  <2>4. QED
    BY <2>1, <2>2, <2>3
<1>3. sends' \in 0..PerHour
  BY <1>1, PasskeyNumbers DEF IssueEmailCode, SendSignupCode, ForgetEmailCode, PasskeysTypeOK
<1>4. /\ mails' \in [Codes -> {"none", "sending", "sent", "failed"}] /\ mails'[c] # "none"
      /\ \A d \in Codes : d # c => mails'[d] = mails[d]
  BY <1>1 DEF IssueEmailCode, SendSignupCode, ForgetEmailCode, PasskeysTypeOK
<1>5. PasskeysTypeOK'
  BY <1>1, <1>2, <1>3, <1>4 DEF PasskeysTypeOK, rowVars, histories
<1>6. CodeFresh'
  <2>1. confirmed \subseteq Codes /\ (emailCode.id # 0 => emailCode.id \in Codes)
    BY <1>1, PasskeyNumbers DEF PasskeysTypeOK, Codes
  <2>2. CASE IssueEmailCode(c)
    <3>1. c \notin confirmed /\ emailCode'.id = c
      BY <1>1, <2>2 DEF IssueEmailCode, CodeFresh
    <3>2. QED
      BY <1>1, <1>4, <2>1, <3>1 DEF CodeFresh, histories
  <2>3. CASE ~IssueEmailCode(c)
    <3>1. emailCode'.id \in {emailCode.id, 0}
      BY <2>3, NoCodeType DEF SendSignupCode, ForgetEmailCode
    <3>2. QED
      BY <1>1, <1>4, <2>1, <3>1 DEF CodeFresh, histories
  <2>4. QED
    BY <2>2, <2>3
<1>7. PaidFor'
  BY <1>1, <1>5 DEF PasskeyInv, PaidFor, Paying, rowVars, histories
<1>8. QED
  BY <1>1, <1>5, <1>6, <1>7 DEF PasskeyInv, TicketWorth, CeremonyWorth, rowVars, histories

LEMMA TypedCodeStep ==
  ASSUME PasskeyInv, GuessEmailCode \/ \E c \in Codes : RedeemEmailCode(c)
  PROVE  PasskeyInv'
<1>1. /\ UNCHANGED <<sends, mails, ceremony, grants, rowVars, restarts, signedUp, enrolled, sessions>>
      /\ PasskeysTypeOK /\ CodeFresh
  BY DEF GuessEmailCode, RedeemEmailCode, PasskeyInv, histories
<1>2. CASE GuessEmailCode
  <2>1. /\ emailCode' \in [id : 0..MaxCodes, tries : 0..(Attempts - 1), cooling : BOOLEAN]
        /\ emailCode'.id \in {emailCode.id, 0}
    <3>1. CASE emailCode.tries + 1 >= Attempts
      BY <1>2, <3>1, NoCodeType DEF GuessEmailCode
    <3>2. CASE emailCode.tries + 1 < Attempts
      <4>1. emailCode.tries + 1 \in 0..(Attempts - 1)
        BY <1>1, <3>2, PasskeyNumbers DEF PasskeysTypeOK
      <4>2. emailCode' = [emailCode EXCEPT !.tries = @ + 1]
        BY <1>1, <1>2, <3>2, PasskeyNumbers DEF GuessEmailCode, PasskeysTypeOK
      <4>3. QED
        BY <1>1, <4>1, <4>2 DEF PasskeysTypeOK
    <3>3. QED
      BY <1>1, <3>1, <3>2, PasskeyNumbers DEF PasskeysTypeOK
  <2>2. UNCHANGED <<proofs, confirmed>>
    BY <1>2 DEF GuessEmailCode, histories
  <2>3. PasskeysTypeOK'
    BY <1>1, <2>1, <2>2 DEF PasskeysTypeOK, rowVars
  <2>4. CodeFresh' /\ PaidFor'
    BY <1>1, <2>1, <2>2 DEF PasskeyInv, CodeFresh, PaidFor, Paying, rowVars
  <2>5. QED
    BY <1>1, <2>2, <2>3, <2>4 DEF PasskeyInv, TicketWorth, CeremonyWorth, rowVars
<1>3. ASSUME NEW c \in Codes, RedeemEmailCode(c)
      PROVE  PasskeyInv'
  <2>1. /\ emailCode.id = c /\ c # 0 /\ emailCode' = NoCode
        /\ proofs' = proofs \cup {c} /\ confirmed' = confirmed \cup {c}
    BY <1>3 DEF RedeemEmailCode
  <2>2. c \notin confirmed /\ mails[c] # "none" /\ proofs \subseteq confirmed
    BY <1>1, <2>1 DEF CodeFresh, PasskeysTypeOK
  <2>3. PasskeysTypeOK'
    BY <1>1, <2>1, NoCodeType DEF PasskeysTypeOK, rowVars
  <2>4. CodeFresh'
    BY <1>1, <2>1, <2>2, NoCodeType DEF CodeFresh
  <2>5. confirmed' \ proofs' = confirmed \ proofs
    BY <2>1, <2>2
  <2>6. PaidFor'
    BY <1>1, <2>5 DEF PasskeyInv, PaidFor, Paying, rowVars
  <2>7. QED
    BY <1>1, <2>3, <2>4, <2>6 DEF PasskeyInv, TicketWorth, CeremonyWorth, rowVars
<1>4. QED
  BY <1>2, <1>3

-----------------------------------------------------------------------------
(* The steps of a ceremony. *)

\* A ceremony moves on without being paid for or saved.
LEMMA CeremonyMoves ==
  ASSUME PasskeyInv, NEW c \in Ceremonies, NEW s \in CeremonyStates,
         ceremony' = [ceremony EXCEPT ![c] = s], s.at # "paid",
         s.kind = "enroll" /\ s.at # "none" => s.ticket \in Tickets,
         ceremony[c].at # "over",
         grants' = grants \/ (s.at = "over" /\ grants' = grants \cup {c}),
         UNCHANGED <<emailVars, proofs, rowVars, restarts, histories>>
  PROVE  PasskeyInv'
<1>1. PasskeysTypeOK /\ CeremonyWorth(c) /\ sessions \in PerCeremony
  BY DEF PasskeyInv, PasskeysTypeOK
<1>2. PasskeysTypeOK'
  BY <1>1 DEF PasskeysTypeOK, emailVars, rowVars, histories
<1>3. \A d \in Ceremonies : ceremony'[d] = IF d = c THEN s ELSE ceremony[d]
  BY <1>1 DEF PasskeysTypeOK
<1>4. Paying' \subseteq Paying
  BY <1>3 DEF Paying
<1>5. PaidFor'
  <2>1. accountsMade \in Nat
    BY <1>1 DEF PasskeysTypeOK, Accounts
  <2>2. /\ accountsMade' >= accountsMade /\ signedUp' = signedUp
        /\ confirmed \ proofs \subseteq confirmed' \ proofs'
    BY <2>1 DEF rowVars, histories
  <2>3. QED
    BY <1>2, <1>4, <2>2, PaidForKept
<1>6. c \notin grants /\ sessions[c] = 0
  BY <1>1 DEF CeremonyWorth
<1>7. ASSUME NEW d \in Ceremonies
      PROVE  CeremonyWorth(d)'
  BY <1>1, <1>3, <1>6 DEF PasskeyInv, CeremonyWorth, histories
<1>8. QED
  BY <1>2, <1>5, <1>7 DEF PasskeyInv, CodeFresh, TicketWorth, emailVars, rowVars, histories

LEMMA BeginStep0 ==
  ASSUME PasskeyInv, NEW c \in Ceremonies,
         \/ \E p \in proofs : BeginSignup(c, p)
         \/ \E t \in Tickets : BeginEnroll(c, t)
         \/ BeginLogin(c)
  PROVE  PasskeyInv'
<1>1. PasskeysTypeOK
  BY DEF PasskeyInv
<1>2. proofs \subseteq 0..MaxCodes /\ 0 \in 0..MaxCodes /\ 0 \in Accounts /\ account \in Accounts
  BY <1>1, PasskeyNumbers DEF PasskeysTypeOK, Codes
<1>3. PICK kind \in {"login", "signup", "enroll"}, user \in Accounts,
           t \in Tickets \cup {NoTicket}, proof \in 0..MaxCodes :
        BeginCeremony(c, kind, user, t, proof) /\ (kind = "enroll" => t \in Tickets)
  <2>1. ASSUME NEW p \in proofs, BeginSignup(c, p)
        PROVE  BeginCeremony(c, "signup", 0, NoTicket, p)
    BY <2>1 DEF BeginSignup
  <2>2. ASSUME NEW t \in Tickets, BeginEnroll(c, t)
        PROVE  BeginCeremony(c, "enroll", account, t, 0)
    BY <2>2 DEF BeginEnroll
  <2>3. ASSUME BeginLogin(c)
        PROVE  BeginCeremony(c, "login", 0, NoTicket, 0)
    BY <2>3 DEF BeginLogin
  <2>4. QED
    BY <1>2, <2>1, <2>2, <2>3
<1> DEFINE s == [at |-> "open", kind |-> kind, user |-> user, ticket |-> t, proof |-> proof]
<1>4. /\ ceremony[c].at = "none" /\ ceremony' = [ceremony EXCEPT ![c] = s]
      /\ UNCHANGED <<emailVars, proofs, grants, rowVars, restarts, histories>>
  BY <1>3 DEF BeginCeremony
<1>5. s \in CeremonyStates
  BY <1>3 DEF CeremonyStates
<1>6. s.at = "open" /\ s.kind = kind /\ s.ticket = t
  OBVIOUS
<1> HIDE DEF s
<1>7. QED
  BY <1>3, <1>4, <1>5, <1>6, CeremonyMoves

LEMMA TakeOrRefuseStep ==
  ASSUME PasskeyInv, NEW c \in Ceremonies,
         TakeCeremony(c) \/ RefuseCeremony(c) \/ FinishLogin(c)
  PROVE  PasskeyInv'
<1>1. /\ PasskeysTypeOK /\ ceremony[c] \in CeremonyStates /\ account \in Accounts
      /\ ceremony[c].at \in {"open", "taken", "paid"} /\ CeremonyWorth(c)
  BY CeremonyFields
  DEF PasskeyInv, PasskeysTypeOK, TakeCeremony, RefuseCeremony, FinishLogin
<1>2. UNCHANGED <<emailVars, proofs, rowVars, restarts, histories>>
  BY DEF TakeCeremony, RefuseCeremony, FinishLogin
<1>3. CASE TakeCeremony(c)
  <2> DEFINE s == [ceremony[c] EXCEPT !.at = "taken"]
  <2>1. ceremony' = [ceremony EXCEPT ![c] = s] /\ grants' = grants
    BY <1>3 DEF TakeCeremony
  <2>2. /\ s \in CeremonyStates /\ s.at = "taken" /\ s.kind = ceremony[c].kind
        /\ s.ticket = ceremony[c].ticket
    BY <1>1 DEF CeremonyStates
  <2> HIDE DEF s
  <2>3. s.kind = "enroll" => s.ticket \in Tickets
    BY <1>1, <2>2 DEF CeremonyWorth
  <2>4. QED
    BY <1>1, <1>2, <2>1, <2>2, <2>3, CeremonyMoves
<1>4. CASE RefuseCeremony(c)
  <2> DEFINE s == [ceremony[c] EXCEPT !.at = "over"]
  <2>1. ceremony' = [ceremony EXCEPT ![c] = s] /\ grants' = grants
    BY <1>4 DEF RefuseCeremony, Ends
  <2>2. /\ s \in CeremonyStates /\ s.at = "over" /\ s.kind = ceremony[c].kind
        /\ s.ticket = ceremony[c].ticket
    BY <1>1 DEF CeremonyStates
  <2> HIDE DEF s
  <2>3. s.kind = "enroll" => s.ticket \in Tickets
    BY <1>1, <2>2 DEF CeremonyWorth
  <2>4. QED
    BY <1>1, <1>2, <2>1, <2>2, <2>3, CeremonyMoves
<1>5. CASE FinishLogin(c)
  <2> DEFINE s == [ceremony[c] EXCEPT !.at = "over", !.user = account]
  <2>1. ceremony' = [ceremony EXCEPT ![c] = s] /\ grants' = grants \cup {c}
    BY <1>5 DEF FinishLogin
  <2>2. /\ s \in CeremonyStates /\ s.at = "over" /\ s.kind = ceremony[c].kind
        /\ s.ticket = ceremony[c].ticket
    BY <1>1 DEF CeremonyStates
  <2> HIDE DEF s
  <2>3. s.kind = "enroll" => s.ticket \in Tickets
    BY <1>1, <2>2 DEF CeremonyWorth
  <2>4. QED
    BY <1>1, <1>2, <2>1, <2>2, <2>3, CeremonyMoves
<1>6. QED
  BY <1>3, <1>4, <1>5

LEMMA PayWithProofStep ==
  ASSUME PasskeyInv, NEW c \in Ceremonies, PayWithProof(c)
  PROVE  PasskeyInv'
<1>1. /\ PasskeysTypeOK /\ ceremony[c] \in CeremonyStates /\ CeremonyWorth(c) /\ PaidFor
      /\ ceremony[c].at = "taken" /\ ceremony[c].kind = "signup" /\ ceremony[c].proof \in proofs
      /\ UNCHANGED <<emailVars, grants, rowVars, restarts, histories>>
  BY CeremonyFields DEF PasskeyInv, PayWithProof
<1> DEFINE s == [ceremony[c] EXCEPT !.at = "paid"]
           proof == ceremony[c].proof
<1>2. ceremony' = [ceremony EXCEPT ![c] = s] /\ proofs' = proofs \ {proof}
  BY DEF PayWithProof, ProofTaken
<1>3. s \in CeremonyStates /\ s.at = "paid" /\ s.kind = "signup"
  BY <1>1 DEF CeremonyStates
<1> HIDE DEF s
<1>4. PasskeysTypeOK'
  BY <1>1, <1>2, <1>3 DEF PasskeysTypeOK, emailVars, rowVars, histories
<1>5. \A d \in Ceremonies : ceremony'[d] = IF d = c THEN s ELSE ceremony[d]
  BY <1>1, <1>2 DEF PasskeysTypeOK
<1>6. PaidFor'
  <2>1. Paying' = Paying \cup {c} /\ c \notin Paying
    BY <1>1, <1>3, <1>5 DEF Paying
  <2>2. /\ confirmed' \ proofs' = (confirmed \ proofs) \cup {proof}
        /\ proof \notin confirmed \ proofs
    BY <1>1, <1>2 DEF PasskeysTypeOK, histories
  <2>3. /\ IsFiniteSet(Paying) /\ IsFiniteSet(confirmed \ proofs)
        /\ Cardinality(Paying) \in Nat /\ Cardinality(confirmed \ proofs) \in Nat
    BY <1>1, UsedCount, FS_CardinalityType DEF PaidFor
  <2>4. /\ IsFiniteSet(Paying') /\ Cardinality(Paying') = Cardinality(Paying) + 1
        /\ Cardinality(confirmed' \ proofs') = Cardinality(confirmed \ proofs) + 1
    BY <2>1, <2>2, <2>3, FS_AddElement
  <2>5. signedUp \in Nat /\ UNCHANGED <<signedUp, accountsMade>>
    BY <1>1 DEF PasskeysTypeOK, Accounts, rowVars, histories
  <2>6. QED
    BY <1>1, <2>3, <2>4, <2>5 DEF PaidFor
<1>7. ASSUME NEW d \in Ceremonies
      PROVE  CeremonyWorth(d)'
  BY <1>1, <1>3, <1>5 DEF PasskeyInv, CeremonyWorth, histories
<1>8. QED
  BY <1>1, <1>4, <1>6, <1>7 DEF PasskeyInv, CodeFresh, TicketWorth, emailVars, rowVars, histories

LEMMA SaveSignupStep ==
  ASSUME PasskeyInv, NEW c \in Ceremonies, SaveSignup(c)
  PROVE  PasskeyInv'
<1>1. /\ PasskeysTypeOK /\ ceremony[c] \in CeremonyStates /\ CeremonyWorth(c) /\ PaidFor
      /\ ceremony[c].at = "paid" /\ accountsMade \in Nat /\ accountsMade < MaxAccounts
      /\ accountsMade' = accountsMade + 1 /\ account' = accountsMade + 1
      /\ signedUp' = signedUp + 1 /\ signedUp \in Nat /\ passkeys' = {c}
      /\ UNCHANGED <<emailVars, proofs, ticket, restarts, confirmed, enrolled, sessions>>
  BY CeremonyFields DEF PasskeyInv, SaveSignup, PasskeysTypeOK, Accounts
<1>2. accountsMade + 1 \in Accounts /\ signedUp <= accountsMade
  BY <1>1, PasskeyNumbers DEF Accounts, PaidFor
<1> DEFINE s == [ceremony[c] EXCEPT !.at = "over", !.user = accountsMade + 1]
<1>3. ceremony' = [ceremony EXCEPT ![c] = s] /\ grants' \in {grants, grants \cup {c}}
  BY DEF SaveSignup
<1>4. s \in CeremonyStates /\ s.at = "over" /\ s.kind = ceremony[c].kind /\ s.ticket = ceremony[c].ticket
  BY <1>1, <1>2 DEF CeremonyStates
<1> HIDE DEF s
<1>5. \A d \in Ceremonies : ceremony'[d] = IF d = c THEN s ELSE ceremony[d]
  BY <1>1, <1>3 DEF PasskeysTypeOK
<1>6. signedUp + 1 \in Accounts
  BY <1>1, <1>2, PasskeyNumbers DEF Accounts
<1>7. PasskeysTypeOK'
  BY <1>1, <1>2, <1>3, <1>4, <1>6 DEF PasskeysTypeOK, emailVars
<1>8. PaidFor'
  <2>1. Paying' = Paying \ {c} /\ c \in Paying
    BY <1>1, <1>4, <1>5 DEF Paying
  <2>2. IsFiniteSet(Paying) /\ Cardinality(Paying) \in Nat
    BY <1>1, FS_CardinalityType DEF PaidFor
  <2>3. IsFiniteSet(Paying') /\ Cardinality(Paying') = Cardinality(Paying) - 1
    BY <2>1, <2>2, FS_RemoveElement
  <2>4. Cardinality(confirmed' \ proofs') = Cardinality(confirmed \ proofs)
    BY <1>1
  <2>5. Cardinality(confirmed \ proofs) \in Nat
    BY <1>1, UsedCount
  <2>6. QED
    BY <1>1, <1>2, <2>2, <2>3, <2>4, <2>5 DEF PaidFor
<1>9. ASSUME NEW d \in Ceremonies
      PROVE  CeremonyWorth(d)'
  BY <1>1, <1>3, <1>4, <1>5 DEF PasskeyInv, CeremonyWorth
<1>10. QED
  BY <1>1, <1>7, <1>8, <1>9 DEF PasskeyInv, CodeFresh, TicketWorth, emailVars

LEMMA SaveEnrollStep ==
  ASSUME PasskeyInv, NEW c \in Ceremonies, SaveEnroll(c)
  PROVE  PasskeyInv'
<1> DEFINE t == ceremony[c].ticket
           s == [ceremony[c] EXCEPT !.at = "over"]
<1>1. /\ PasskeysTypeOK /\ ceremony[c] \in CeremonyStates /\ CeremonyWorth(c) /\ PaidFor
      /\ ceremony[c].at = "taken" /\ ceremony[c].kind = "enroll"
      /\ passkeys' = passkeys \cup {c} /\ ticket' = [ticket EXCEPT ![t] = 0]
      /\ UNCHANGED <<emailVars, proofs, account, accountsMade, restarts, confirmed, signedUp, sessions>>
  BY CeremonyFields DEF PasskeyInv, SaveEnroll
<1>2. t \in Tickets /\ ticket[t] # 0
  BY <1>1 DEF CeremonyWorth, SaveEnroll, TicketStands, Valid
<1>3. enrolled[t] = 0 /\ enrolled' = [enrolled EXCEPT ![t] = 1]
  <2>1. enrolled[t] = 0 /\ enrolled \in [Tickets -> 0..2]
    BY <1>1, <1>2 DEF PasskeyInv, TicketWorth, PasskeysTypeOK
  <2>2. enrolled' = [enrolled EXCEPT ![t] = IF enrolled[t] < 2 THEN enrolled[t] + 1 ELSE 2]
    BY DEF SaveEnroll
  <2>3. QED
    BY <2>1, <2>2
<1>4. ceremony' = [ceremony EXCEPT ![c] = s] /\ grants' \in {grants, grants \cup {c}}
  BY DEF SaveEnroll, Ends
<1>5. /\ s \in CeremonyStates /\ s.at = "over" /\ s.kind = "enroll" /\ s.ticket = t
  BY <1>1 DEF CeremonyStates
<1> HIDE DEF s, t
<1>6. \A d \in Ceremonies : ceremony'[d] = IF d = c THEN s ELSE ceremony[d]
  BY <1>1, <1>4 DEF PasskeysTypeOK
<1>7. PasskeysTypeOK'
  BY <1>1, <1>2, <1>3, <1>4, <1>5, PasskeyNumbers DEF PasskeysTypeOK, emailVars
<1>8. Paying' \subseteq Paying
  BY <1>5, <1>6 DEF Paying
<1>9. PaidFor'
  <2>1. accountsMade' >= accountsMade
    BY <1>1 DEF PasskeysTypeOK, Accounts
  <2>2. QED
    BY <1>1, <1>7, <1>8, <2>1, PaidForKept
<1>10. ASSUME NEW u \in Tickets
       PROVE  TicketWorth(u)'
  BY <1>1, <1>2, <1>3 DEF PasskeyInv, PasskeysTypeOK, TicketWorth
<1>11. ASSUME NEW d \in Ceremonies
       PROVE  CeremonyWorth(d)'
  BY <1>1, <1>2, <1>4, <1>5, <1>6 DEF PasskeyInv, CeremonyWorth
<1>12. QED
  BY <1>1, <1>7, <1>9, <1>10, <1>11 DEF PasskeyInv, CodeFresh, emailVars

LEMMA CollectSessionStep ==
  ASSUME PasskeyInv, NEW c \in Ceremonies, CollectSession(c)
  PROVE  PasskeyInv'
<1>1. /\ PasskeysTypeOK /\ c \in grants /\ grants' = grants \ {c} /\ CeremonyWorth(c)
      /\ UNCHANGED <<emailVars, proofs, ceremony, rowVars, restarts, confirmed, signedUp, enrolled>>
  BY DEF PasskeyInv, CollectSession, GrantTaken
<1>2. sessions[c] = 0 /\ ceremony[c].at = "over" /\ sessions \in [Ceremonies -> 0..2]
  BY <1>1 DEF CeremonyWorth, PasskeysTypeOK, PerCeremony
<1>3. \/ sessions' = sessions
      \/ sessions' = [sessions EXCEPT ![c] = 1] /\ account # 0 /\ account = ceremony[c].user
  BY <1>2 DEF CollectSession
<1>4. PasskeysTypeOK'
  BY <1>1, <1>2, <1>3 DEF PasskeysTypeOK, PerCeremony, emailVars, rowVars
<1>5. ASSUME NEW d \in Ceremonies
      PROVE  CeremonyWorth(d)'
  BY <1>1, <1>2, <1>3 DEF PasskeyInv, CeremonyWorth
<1>6. QED
  BY <1>1, <1>4, <1>5
  DEF PasskeyInv, CodeFresh, PaidFor, Paying, TicketWorth, emailVars, rowVars

-----------------------------------------------------------------------------
(* The rows, what lapses and a restart. *)

LEMMA RowsStep ==
  ASSUME PasskeyInv,
         \/ \E t \in Tickets : IssueTicket(t)
         \/ \E p \in Ceremonies : RemovePasskey(p)
         \/ CloseAccount
  PROVE  PasskeyInv'
<1>1. /\ UNCHANGED <<emailVars, proofs, ceremony, grants, restarts, histories>> /\ PasskeysTypeOK
      /\ accountsMade \in Accounts /\ account \in Accounts
  BY DEF IssueTicket, RemovePasskey, CloseAccount, PasskeyInv, PasskeysTypeOK
<1>2. accountsMade' \in Accounts /\ account' \in Accounts /\ accountsMade' >= accountsMade
  BY <1>1, PasskeyNumbers DEF IssueTicket, RemovePasskey, CloseAccount, Accounts
<1>3. /\ ticket' \in [Tickets -> Accounts]
      /\ \A u \in Tickets : ticket'[u] # 0 => ticket[u] # 0 \/ enrolled[u] = 0
  BY <1>1, <1>2, PasskeyNumbers DEF IssueTicket, RemovePasskey, CloseAccount, PasskeysTypeOK
<1>4. passkeys' \subseteq Ceremonies
  BY <1>1 DEF IssueTicket, RemovePasskey, CloseAccount, PasskeysTypeOK
<1>5. PasskeysTypeOK'
  BY <1>1, <1>2, <1>3, <1>4 DEF PasskeysTypeOK, emailVars, histories
<1>6. PaidFor'
  <2>1. /\ Paying' \subseteq Paying /\ signedUp' = signedUp
        /\ confirmed \ proofs \subseteq confirmed' \ proofs'
    BY <1>1 DEF Paying, histories
  <2>2. QED
    BY <1>2, <1>5, <2>1, PaidForKept
<1>7. QED
  BY <1>1, <1>3, <1>5, <1>6
  DEF PasskeyInv, CodeFresh, TicketWorth, CeremonyWorth, emailVars, histories

\* Whatever is dropped from memory: codes, counted sends, proofs, open ceremonies, grants,
\* tickets, requests under way.
LEMMA Dropped ==
  ASSUME PasskeyInv, PasskeysTypeOK', emailCode'.id \in {emailCode.id, 0},
         \A c \in Codes : mails[c] # "none" => mails'[c] # "none",
         proofs' \subseteq proofs, grants' \subseteq grants,
         \A c \in Ceremonies :
           \/ ceremony'[c] = ceremony[c]
           \/ /\ ceremony[c].at \in {"open", "taken", "paid"} /\ ceremony'[c].at = "over"
              /\ ceremony'[c].kind = ceremony[c].kind /\ ceremony'[c].ticket = ceremony[c].ticket,
         \A t \in Tickets : ticket'[t] # 0 => ticket'[t] = ticket[t],
         UNCHANGED <<accountsMade, histories>>
  PROVE  PasskeyInv'
<1>1. PasskeysTypeOK /\ CodeFresh /\ accountsMade \in Nat
  BY DEF PasskeyInv, PasskeysTypeOK, Accounts
<1>2. CodeFresh'
  <2>1. confirmed \subseteq Codes /\ (emailCode.id # 0 => emailCode.id \in Codes)
    BY <1>1, PasskeyNumbers DEF PasskeysTypeOK, Codes
  <2>2. QED
    BY <1>1, <2>1 DEF CodeFresh, histories
<1>3. PaidFor'
  <2>1. Paying' \subseteq Paying
    BY DEF Paying
  <2>2. /\ signedUp' = signedUp /\ accountsMade' >= accountsMade
        /\ confirmed \ proofs \subseteq confirmed' \ proofs'
    BY <1>1 DEF histories
  <2>3. QED
    BY <2>1, <2>2, PaidForKept
<1>4. ASSUME NEW c \in Ceremonies
      PROVE  CeremonyWorth(c)'
  <2>1. CeremonyWorth(c) /\ UNCHANGED sessions
    BY DEF PasskeyInv, histories
  <2>2. CASE ceremony'[c] = ceremony[c]
    BY <2>1, <2>2 DEF CeremonyWorth
  <2>3. CASE ceremony'[c] # ceremony[c]
    BY <2>1, <2>3 DEF CeremonyWorth
  <2>4. QED
    BY <2>2, <2>3
<1>5. ASSUME NEW t \in Tickets
      PROVE  TicketWorth(t)'
  BY DEF PasskeyInv, TicketWorth, histories
<1>6. QED
  BY <1>2, <1>3, <1>4, <1>5 DEF PasskeyInv

LEMMA LapseStep ==
  ASSUME PasskeyInv, LapsePasskeys
  PROVE  PasskeyInv'
<1>1. /\ Lapse /\ UNCHANGED <<restarts, histories>> /\ PasskeysTypeOK
  BY DEF LapsePasskeys, PasskeyInv
<1>2. /\ emailCode' \in [id : 0..MaxCodes, tries : 0..(Attempts - 1), cooling : BOOLEAN]
      /\ emailCode'.id \in {emailCode.id, 0}
  BY <1>1, NoCodeType DEF Lapse, emailVars, PasskeysTypeOK
<1>3. sends' \in 0..PerHour /\ UNCHANGED <<mails, account, accountsMade, passkeys>>
  BY <1>1, PasskeyNumbers DEF Lapse, emailVars, rowVars, PasskeysTypeOK
<1>4. proofs' \subseteq proofs /\ grants' \subseteq grants
  BY <1>1 DEF Lapse
<1>5. /\ ceremony' \in [Ceremonies -> CeremonyStates]
      /\ \A c \in Ceremonies :
           \/ ceremony'[c] = ceremony[c]
           \/ /\ ceremony[c].at \in {"open", "taken", "paid"} /\ ceremony'[c].at = "over"
              /\ ceremony'[c].kind = ceremony[c].kind /\ ceremony'[c].ticket = ceremony[c].ticket
  <2>1. CASE UNCHANGED ceremony
    BY <1>1, <2>1 DEF PasskeysTypeOK
  <2>2. ASSUME NEW c \in Ceremonies, ceremony[c].at = "open", Ends(c)
        PROVE  <1>5!1 /\ <1>5!2
    <3> DEFINE s == [ceremony[c] EXCEPT !.at = "over"]
    <3>1. ceremony' = [ceremony EXCEPT ![c] = s] /\ ceremony[c] \in CeremonyStates
      BY <1>1, <2>2, CeremonyFields DEF Ends
    <3>2. /\ s \in CeremonyStates /\ s.at = "over" /\ s.kind = ceremony[c].kind
          /\ s.ticket = ceremony[c].ticket
      BY <3>1 DEF CeremonyStates
    <3> HIDE DEF s
    <3>3. QED
      BY <1>1, <2>2, <3>1, <3>2 DEF PasskeysTypeOK
  <2>3. QED
    BY <1>1, <2>1, <2>2 DEF Lapse
<1>6. /\ ticket' \in [Tickets -> Accounts]
      /\ \A t \in Tickets : ticket'[t] # 0 => ticket'[t] = ticket[t]
  BY <1>1, PasskeyNumbers DEF Lapse, rowVars, PasskeysTypeOK
<1>7. PasskeysTypeOK'
  BY <1>1, <1>2, <1>3, <1>4, <1>5, <1>6 DEF PasskeysTypeOK, histories
<1>8. QED
  BY <1>1, <1>2, <1>3, <1>4, <1>5, <1>6, <1>7, Dropped

LEMMA RestartPasskeysStep ==
  ASSUME PasskeyInv, RestartPasskeys
  PROVE  PasskeyInv'
<1>1. /\ PasskeysTypeOK /\ restarts < MaxRestarts /\ restarts' = restarts + 1
      /\ emailCode' = NoCode /\ sends' = 0 /\ proofs' = {} /\ grants' = {}
      /\ UNCHANGED <<rowVars, histories>>
  BY DEF RestartPasskeys, PasskeyInv
<1>2. /\ mails' \in [Codes -> {"none", "sending", "sent", "failed"}]
      /\ \A c \in Codes : mails[c] # "none" => mails'[c] # "none"
  BY <1>1 DEF RestartPasskeys, PasskeysTypeOK
<1>3. ASSUME NEW c \in Ceremonies
      PROVE  /\ ceremony'[c] \in CeremonyStates
             /\ \/ ceremony'[c] = ceremony[c]
                \/ /\ ceremony[c].at \in {"open", "taken", "paid"} /\ ceremony'[c].at = "over"
                   /\ ceremony'[c].kind = ceremony[c].kind
                   /\ ceremony'[c].ticket = ceremony[c].ticket
  <2>1. /\ ceremony[c] \in CeremonyStates
        /\ ceremony'[c] = IF ceremony[c].at \in {"open", "taken", "paid"}
                          THEN [ceremony[c] EXCEPT !.at = "over"] ELSE ceremony[c]
    BY <1>1, CeremonyFields DEF RestartPasskeys
  <2>2. /\ [ceremony[c] EXCEPT !.at = "over"] \in CeremonyStates
        /\ [ceremony[c] EXCEPT !.at = "over"].at = "over"
        /\ [ceremony[c] EXCEPT !.at = "over"].kind = ceremony[c].kind
        /\ [ceremony[c] EXCEPT !.at = "over"].ticket = ceremony[c].ticket
    BY <2>1 DEF CeremonyStates
  <2>3. QED
    BY <2>1, <2>2
<1>4. ceremony' \in [Ceremonies -> CeremonyStates]
  BY <1>3 DEF RestartPasskeys
<1>5. restarts' \in 0..MaxRestarts
  BY <1>1, PasskeysAssumption DEF PasskeysTypeOK, PasskeysAssumption
<1>6. PasskeysTypeOK'
  BY <1>1, <1>2, <1>4, <1>5, NoCodeType, PasskeyNumbers DEF PasskeysTypeOK, rowVars, histories
<1>7. QED
  BY <1>1, <1>2, <1>3, <1>6, NoCodeType, Dropped DEF rowVars

LEMMA PasskeyStep == PasskeyInv /\ [PasskeysNext]_passkeyVars => PasskeyInv'
<1>1. CASE UNCHANGED passkeyVars
  BY <1>1
  DEF passkeyVars, emailVars, rowVars, histories, PasskeyInv, PasskeysTypeOK, CodeFresh, PaidFor,
      Paying, TicketWorth, CeremonyWorth
<1>2. CASE PasskeysNext
  BY <1>2, MailedCodeStep, TypedCodeStep, BeginStep0, TakeOrRefuseStep, PayWithProofStep,
     SaveSignupStep, SaveEnrollStep, CollectSessionStep, RowsStep, LapseStep,
     RestartPasskeysStep DEF PasskeysNext
<1>3. QED
  BY <1>1, <1>2

\* Confirmations are used up by the accounts made of them and by the signups about to
\* make one, tickets by their passkey, grants by their session.
THEOREM PasskeyInvariant == PasskeysSpec => []PasskeyInv
  BY PasskeyInit, PasskeyStep, PTL DEF PasskeysSpec

LEMMA PasskeyWorth == PasskeyInv => OneConfirmationOneAccount /\ WorthOnce
<1> SUFFICES ASSUME PasskeyInv
             PROVE  OneConfirmationOneAccount /\ WorthOnce
  OBVIOUS
<1>1. /\ Cardinality(Paying) \in Nat /\ signedUp \in Nat
      /\ Cardinality(confirmed) \in Nat /\ Cardinality(confirmed \ proofs) \in Nat
      /\ Cardinality(confirmed \ proofs) <= Cardinality(confirmed)
  BY UsedCount, FS_CardinalityType DEF PasskeyInv, PaidFor, PasskeysTypeOK, Accounts
<1>2. OneConfirmationOneAccount
  BY <1>1 DEF PasskeyInv, PaidFor, OneConfirmationOneAccount
<1>3. WorthOnce
  <2>1. \A c \in Ceremonies : sessions[c] \in 0..2
    BY DEF PasskeyInv, PasskeysTypeOK, PerCeremony
  <2>2. QED
    BY <2>1 DEF PasskeyInv, WorthOnce, TicketWorth, CeremonyWorth
<1>4. QED
  BY <1>2, <1>3

\* The last passkey of an account goes with the account only: the count and the removal
\* are one transaction (DELETE /api/passkeys/{id}).
THEOREM WayInStaysHolds == PasskeysSpec => WayInStays
<1>1. [PasskeysNext]_passkeyVars =>
        [passkeys # {} /\ account' = account => passkeys' # {}]_passkeyVars
  <2> SUFFICES ASSUME PasskeysNext, passkeys # {}, account' = account
               PROVE  passkeys' # {}
    OBVIOUS
  <2>1. ASSUME NEW p \in Ceremonies, RemovePasskey(p)
        PROVE  passkeys' # {}
    <3>1. Cardinality(passkeys) > 1 /\ passkeys' = passkeys \ {p}
      BY <2>1 DEF RemovePasskey, Spare
    <3>2. passkeys = {p} => Cardinality(passkeys) = 1
      BY FS_Singleton
    <3>3. QED
      BY <3>1, <3>2
  <2>2. CASE CloseAccount
    BY <2>2 DEF CloseAccount
  <2>3. ASSUME NEW c \in Ceremonies, SaveSignup(c) \/ SaveEnroll(c)
        PROVE  passkeys' # {}
    BY <2>3 DEF SaveSignup, SaveEnroll
  <2>4. CASE UNCHANGED passkeys
    BY <2>4
  <2>5. QED
    BY <2>1, <2>2, <2>3, <2>4
    DEF PasskeysNext, IssueEmailCode, SendSignupCode, ForgetEmailCode, RedeemEmailCode,
        GuessEmailCode, BeginSignup, BeginEnroll, BeginLogin, BeginCeremony, TakeCeremony,
        RefuseCeremony, FinishLogin, PayWithProof, CollectSession, IssueTicket, LapsePasskeys,
        Lapse, RestartPasskeys, rowVars
<1>2. QED
  BY <1>1, PTL DEF PasskeysSpec, WayInStays

-----------------------------------------------------------------------------
(* The four together: each step is a step of one of them. *)

TrustInv ==
  /\ part \in {"keys", "words", "presentations", "ways in"}
  /\ TrustChainInv /\ StatusInv /\ PresentationInv /\ PasskeyInv

LEMMA TrustInit0 == TrustInit => TrustInv
  BY TrustChainInit0, StatusInit0, PresentationInit, PasskeyInit DEF TrustInit, TrustInv

LEMMA TrustStep == TrustInv /\ [TrustNext]_trustPartVars => TrustInv'
<1> SUFFICES ASSUME TrustInv, [TrustNext]_trustPartVars
             PROVE  TrustInv'
  OBVIOUS
<1>1. /\ [TrustChainNext]_trustVars /\ [IdentityStatusNext]_statusVars
      /\ [PresentationsNext]_presentationVars /\ [PasskeysNext]_passkeyVars
      /\ part' = part
  BY DEF TrustNext, trustPartVars
<1>2. TrustChainInv' /\ StatusInv' /\ PresentationInv' /\ PasskeyInv'
  BY <1>1, TrustChainStep, StatusStep, PresentationStep, PasskeyStep DEF TrustInv
<1>3. QED
  BY <1>1, <1>2 DEF TrustInv

LEMMA TrustInvariant == TrustSpec => []TrustInv
  BY TrustInit0, TrustStep, PTL DEF TrustSpec

\* A code typed in makes one account at most, a ticket one passkey and a ceremony one
\* session, with every variable in its type (register/finish, /token).
THEOREM ConfirmedOnceHolds == TrustSpec => []ConfirmedOnce
<1>1. TrustInv => ConfirmedOnce
  BY PasskeyWorth
  DEF TrustInv, ConfirmedOnce, TrustTypeOK, TrustChainInv, StatusInv, PresentationInv, PasskeyInv
<1>2. QED
  BY <1>1, TrustInvariant, PTL
=============================================================================
