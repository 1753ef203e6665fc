---------------------------- MODULE VaultProofs ----------------------------
(***************************************************************************)
(* Proofs about the attestations and the reminders of a vault.  Each       *)
(* component has its own invariant: one for the issuer's rows and one for  *)
(* the age of what a verifier keeps of them; one that counts what a        *)
(* reminder may still tell.                                                *)
(***************************************************************************)
EXTENDS Attestations, Reminders, FiniteSetTheorems, TLAPS

(***************************************************************************)
(* Attestations                                                            *)
(***************************************************************************)

\* An attestation that was accepted, and is active unless its bits are about to be set or
\* their setting was cut short.
StandsFor(a) == /\ attested[a].status # "offered"
                /\ attested[a].status = "active" \/ a \in revoking \cup halted

\* A position is free, and then never published, or belongs to one attestation; one whose
\* bit is not set is the only such one of an attestation it stands for.
PositionsOwned ==
  /\ \A i \in Positions : position[i].att = Nobody => ~position[i].revoked
  /\ \A i \in Positions : \A a \in Attested :
       position[i].att = a /\ ~position[i].revoked =>
         StandsFor(a) /\ (\A j \in Standing(a) : j = i)

\* A credential is at a position of its attestation, its holder the one the attestation is
\* about while the bit is not set.
IssuedThere == \A c \in issued :
  /\ position[c.idx].att = c.att
  /\ ~position[c.idx].revoked => attested[c.att].subject = c.holder

\* The time a bit has been set and the time a list without it may still be used make up at
\* most the life of a list.
ListFresh(kl) == \A i \in Positions : kl.age > 0 /\ i \notin kl.bits => revokedFor[i] + kl.age <= Ttl
ListsFresh == /\ ListFresh(list) /\ (\A kl \in fetch : ListFresh(kl))
              /\ \A i \in Positions : ~position[i].revoked => revokedFor[i] = 0

\* The inductive invariant.
AttestationInv ==
  AttestationsTypeOK /\ PositionsOwned /\ IssuedThere /\ OneCredentialPerPosition /\ ListsFresh

LEMMA AttestationInit == AttestationsInit => AttestationInv
<1> SUFFICES ASSUME AttestationsInit PROVE AttestationInv
  OBVIOUS
<1>1. /\ attested \in [Attested -> [status : {"offered"}, subject : Subjects]]
      /\ position = [i \in Positions |-> [att |-> Nobody, revoked |-> FALSE]]
      /\ revoking = {} /\ halted = {}
      /\ issued = {} /\ kept = {} /\ claims = {} /\ list = NoList /\ fetch = {}
      /\ shared = [status |-> "pending", ended |-> FALSE, shows |-> {}] /\ activation = {}
      /\ revokedFor = [i \in Positions |-> 0]
  BY DEF AttestationsInit
<1>2. /\ 0 \in 0..Ttl /\ 0 \in 0..(Ttl + 1)
  BY AttestationsAssumption
<1>3. attested \in [Attested -> Row]
  BY <1>1 DEF Row
<1>4. AttestationsTypeOK
  BY <1>1, <1>2, <1>3 DEF AttestationsTypeOK, NoList, Lists, Shares
<1>5. PositionsOwned /\ IssuedThere /\ OneCredentialPerPosition
  BY <1>1, AttestationsAssumption DEF PositionsOwned, IssuedThere, OneCredentialPerPosition, Nobody
<1>6. ListsFresh
  BY <1>1 DEF ListsFresh, ListFresh, NoList
<1>7. QED
  BY <1>4, <1>5, <1>6 DEF AttestationInv

\* What a request asks to be signed is of an attestation, for a holder.
LEMMA RequestFields ==
  ASSUME AttestationsTypeOK, NEW r \in claims
  PROVE  /\ r.kind \in {"claim", "reissue", "again"} /\ r.att \in Attested
         /\ r.holder \in Holders /\ r.old \in SUBSET Credentials
  BY DEF AttestationsTypeOK, Requests

LEMMA CredentialFields ==
  ASSUME NEW c \in Credentials
  PROVE  c.att \in Attested /\ c.idx \in Positions /\ c.holder \in Holders
  BY DEF Credentials

\* The lists stay as fresh as they were while no bit is cleared and no tick passes.
LEMMA FreshKept ==
  ASSUME ListsFresh, UNCHANGED <<list, fetch, revokedFor>>,
         \A i \in Positions : position[i].revoked => position'[i].revoked
  PROVE  ListsFresh'
  BY DEF ListsFresh, ListFresh

\* Requests that look, are refused or go to a verifier leave the issuer's rows alone.
LEMMA RowsUntouched ==
  ASSUME AttestationInv, UNCHANGED <<attested, position, issued>>,
         revoking \cup halted \subseteq revoking' \cup halted'
  PROVE  PositionsOwned' /\ IssuedThere' /\ OneCredentialPerPosition'
  BY DEF AttestationInv, PositionsOwned, IssuedThere, OneCredentialPerPosition, Standing, StandsFor

LEMMA LookStep ==
  ASSUME AttestationInv,
         \/ \E a \in Attested, h \in Holders : OpenClaim(a, h)
         \/ \E c \in Credentials, h \in Holders : OpenReissue(c, h)
         \/ \E r \in claims : Refuse(r)
         \/ \E c \in Credentials : OpenActivation(c) \/ ActivateAttestationShare(c)
         \/ RevokeAttestationShare
  PROVE  AttestationInv'
<1>1. AttestationsTypeOK /\ ListsFresh
  BY DEF AttestationInv
<1>2. UNCHANGED <<attested, position, revoking, halted, issued, kept, list, fetch, revokedFor>>
  BY DEF OpenClaim, OpenReissue, Refuse, OpenActivation, ActivateAttestationShare,
         RevokeAttestationShare, issuerVars, verifierVars
<1>3. claims' \subseteq Requests
  <2>1. ASSUME NEW a \in Attested, NEW h \in Holders, OpenClaim(a, h)
        PROVE  claims' \subseteq Requests
    BY <1>1, <2>1 DEF OpenClaim, BeginRelay, Requests, AttestationsTypeOK
  <2>2. ASSUME NEW c \in Credentials, NEW h \in Holders, OpenReissue(c, h)
        PROVE  claims' \subseteq Requests
    <3>1. PICK k \in {"reissue", "again"} :
            claims' = claims \cup {[kind |-> k, att |-> c.att, holder |-> h, old |-> {c}]}
      BY <2>2 DEF OpenReissue, BeginRelay
    <3>2. QED
      BY <1>1, <3>1, CredentialFields DEF Requests, AttestationsTypeOK
  <2>3. CASE claims' \subseteq claims
    BY <1>1, <2>3 DEF AttestationsTypeOK
  <2>4. QED
    BY <2>1, <2>2, <2>3 DEF Refuse, OpenActivation, ActivateAttestationShare,
                            RevokeAttestationShare
<1>4. shared' \in Shares /\ activation' \subseteq Credentials
  <2>1. ASSUME NEW c \in Credentials, ActivateAttestationShare(c)
        PROVE  shared' \in Shares /\ activation' \subseteq Credentials
    BY <1>1, <2>1 DEF ActivateAttestationShare, AttestationsTypeOK, Shares
  <2>2. CASE RevokeAttestationShare
    BY <1>1, <2>2 DEF RevokeAttestationShare, AttestationsTypeOK, Shares
  <2>3. CASE shared' = shared /\ activation' \subseteq activation \cup Credentials
    BY <1>1, <2>3 DEF AttestationsTypeOK
  <2>4. QED
    BY <2>1, <2>2, <2>3 DEF OpenClaim, OpenReissue, Refuse, OpenActivation, shareVars
<1>5. AttestationsTypeOK'
  BY <1>1, <1>2, <1>3, <1>4 DEF AttestationsTypeOK
<1>6. QED
  BY <1>2, <1>5, RowsUntouched, FreshKept DEF AttestationInv

\* A credential signed at the position that the attestation has, or at a free one that
\* becomes its only one: of an attestation that is then active and about its holder.
LEMMA SignsAt ==
  ASSUME AttestationInv, NEW r \in claims, NEW idx \in Allocated(r.att),
         position' = [position EXCEPT ![idx].att = r.att], Issue(r, idx),
         attested' = [attested EXCEPT ![r.att] = [status |-> "active", subject |-> r.holder]],
         Standing(r.att) # {} => attested[r.att].subject = r.holder,
         UNCHANGED <<revoking, halted, list, fetch, shared, activation, revokedFor>>
  PROVE  AttestationInv'
<1> DEFINE a == r.att
<1> DEFINE c == [att |-> a, idx |-> idx, holder |-> r.holder]
<1>1. AttestationsTypeOK /\ PositionsOwned /\ IssuedThere /\ OneCredentialPerPosition /\ ListsFresh
  BY DEF AttestationInv
<1>2. a \in Attested /\ r.holder \in Holders
  BY <1>1, RequestFields
<1>3. /\ idx \in Positions /\ ~position[idx].revoked
      /\ position[idx].att = a \/ (position[idx].att = Nobody /\ Standing(a) = {})
  BY <1>1 DEF Allocated, Standing, Free, PositionsOwned
<1>4. c \in Credentials /\ c.att = a /\ c.idx = idx /\ c.holder = r.holder
  BY <1>2, <1>3 DEF Credentials
<1>5. /\ issued' = issued \cup {c} /\ kept' \subseteq kept \cup {c} /\ claims' \subseteq claims
  BY DEF Issue
<1> HIDE DEF c
<1>6. /\ \A i \in Positions : /\ position'[i].att = (IF i = idx THEN a ELSE position[i].att)
                              /\ position'[i].revoked <=> position[i].revoked
      /\ position' \in [Positions -> [att : Attested \cup {Nobody}, revoked : BOOLEAN]]
  BY <1>1, <1>2, <1>3 DEF AttestationsTypeOK
<1>7. /\ attested' \in [Attested -> Row]
      /\ attested'[a].status = "active" /\ attested'[a].subject = r.holder
      /\ \A b \in Attested : b # a => attested'[b] = attested[b]
  BY <1>1, <1>2 DEF AttestationsTypeOK, Row, Subjects
<1>8. AttestationsTypeOK'
  BY <1>1, <1>4, <1>5, <1>6, <1>7 DEF AttestationsTypeOK
<1>9. Nobody \notin Attested
  BY AttestationsAssumption DEF Nobody
<1>10. /\ \A j \in Standing(a)' : j = idx
       /\ \A b \in Attested : b # a => Standing(b)' \subseteq Standing(b)
  BY <1>1, <1>2, <1>3, <1>6 DEF PositionsOwned, Standing
<1>11. PositionsOwned'
  <2>1. \A i \in Positions : position'[i].att = Nobody => ~position'[i].revoked
    BY <1>1, <1>2, <1>6, <1>9 DEF PositionsOwned
  <2>2. ASSUME NEW i \in Positions, NEW b \in Attested, position'[i].att = b,
               ~position'[i].revoked
        PROVE  StandsFor(b)' /\ (\A j \in Standing(b)' : j = i)
    <3>1. CASE b = a
      BY <1>6, <1>7, <1>10, <2>2, <3>1 DEF Standing, StandsFor
    <3>2. CASE b # a
      BY <1>1, <1>2, <1>6, <1>7, <1>10, <2>2, <3>2 DEF PositionsOwned, StandsFor
    <3>3. QED
      BY <3>1, <3>2
  <2>3. QED
    BY <2>1, <2>2 DEF PositionsOwned
<1>12. ASSUME NEW d \in issued
       PROVE  /\ d.att \in Attested /\ d.idx \in Positions
              /\ d.idx = idx => d = c
              /\ position'[d.idx].att = d.att
              /\ ~position'[d.idx].revoked => attested'[d.att].subject = d.holder
  <2>1. d \in Credentials /\ d.att \in Attested /\ d.idx \in Positions
    BY <1>1, CredentialFields DEF AttestationsTypeOK
  <2>2. /\ position[d.idx].att = d.att
        /\ ~position[d.idx].revoked => attested[d.att].subject = d.holder
    BY <1>1 DEF IssuedThere
  <2>3. d.idx = idx => d.att = a /\ d.holder = r.holder
    <3>1. CASE d.idx = idx
      <4>1. position[idx].att = a /\ d.att = a
        BY <1>3, <1>9, <2>1, <2>2, <3>1
      <4>2. idx \in Standing(a)
        BY <1>3, <4>1 DEF Standing
      <4>3. QED
        BY <1>3, <2>2, <3>1, <4>1, <4>2
    <3>2. QED
      BY <3>1
  <2>4. d.idx = idx => d = c
    BY <1>4, <2>1, <2>3 DEF Credentials
  <2>5. position'[d.idx].att = d.att
    BY <1>6, <2>1, <2>2, <2>3
  <2>6. ASSUME ~position'[d.idx].revoked
        PROVE  attested'[d.att].subject = d.holder
    <3>1. attested[d.att].subject = d.holder
      BY <1>6, <2>1, <2>2, <2>6
    <3>2. CASE d.att = a
      <4>1. d.idx \in Standing(a)
        BY <1>6, <2>1, <2>2, <2>6, <3>2 DEF Standing
      <4>2. QED
        BY <1>7, <3>1, <3>2, <4>1
    <3>3. CASE d.att # a
      BY <1>7, <2>1, <3>1, <3>3
    <3>4. QED
      BY <3>2, <3>3
  <2>7. QED
    BY <2>1, <2>4, <2>5, <2>6
<1>13. IssuedThere' /\ OneCredentialPerPosition'
  <2>1. /\ position'[c.idx].att = c.att
        /\ attested'[c.att].subject = c.holder
    BY <1>3, <1>4, <1>6, <1>7
  <2>2. IssuedThere'
    BY <1>5, <1>12, <2>1 DEF IssuedThere
  <2>3. OneCredentialPerPosition'
    BY <1>1, <1>4, <1>5, <1>12 DEF OneCredentialPerPosition
  <2>4. QED
    BY <2>2, <2>3
<1>14. ListsFresh'
  BY <1>1, <1>6, FreshKept
<1>15. QED
  BY <1>8, <1>11, <1>13, <1>14 DEF AttestationInv

LEMMA ClaimStep ==
  ASSUME AttestationInv, NEW r \in claims, ClaimAttestationOffer(r)
  PROVE  AttestationInv'
<1>1. AttestationsTypeOK /\ PositionsOwned
  BY DEF AttestationInv
<1>2. /\ Claimable(r)
      /\ attested' = [attested EXCEPT ![r.att] = [status |-> "active", subject |-> r.holder]]
      /\ UNCHANGED <<revoking, halted, list, fetch, shared, activation, revokedFor>>
  BY DEF ClaimAttestationOffer, verifierVars, shareVars
<1>3. PICK idx \in Allocated(r.att) :
        position' = [position EXCEPT ![idx].att = r.att] /\ Issue(r, idx)
  BY DEF ClaimAttestationOffer
<1>4. Standing(r.att) # {} => attested[r.att].status # "offered"
  BY <1>1, RequestFields DEF PositionsOwned, Standing, StandsFor
<1>5. Standing(r.att) # {} => attested[r.att].subject = r.holder
  BY <1>2, <1>4 DEF Claimable
<1>6. QED
  BY <1>2, <1>3, <1>5, SignsAt

\* The credential is signed again for who holds it by now, whose answer was lost.
LEMMA ReissueAgainStep ==
  ASSUME AttestationInv, NEW r \in claims, ReissueCredential(r), r.kind = "again"
  PROVE  AttestationInv'
<1>1. AttestationsTypeOK /\ r.att \in Attested
  BY RequestFields DEF AttestationInv
<1>2. /\ attested[r.att].status = "active" /\ attested[r.att].subject = r.holder
      /\ UNCHANGED <<attested, revoking, halted, list, fetch, shared, activation, revokedFor>>
  BY DEF ReissueCredential, Movable, verifierVars, shareVars
<1>3. PICK idx \in Allocated(r.att) :
        position' = [position EXCEPT ![idx].att = r.att] /\ Issue(r, idx)
  BY DEF ReissueCredential
<1>4. attested[r.att] = [status |-> "active", subject |-> r.holder]
  BY <1>1, <1>2 DEF AttestationsTypeOK, Row
<1>5. attested' = [attested EXCEPT ![r.att] = [status |-> "active", subject |-> r.holder]]
  BY <1>1, <1>2, <1>4 DEF AttestationsTypeOK
<1>6. QED
  BY <1>2, <1>3, <1>5, SignsAt

\* What RevokeAttestationStatus does to the positions.
LEMMA RevokedFields ==
  ASSUME AttestationsTypeOK, NEW a \in Attested
  PROVE  /\ Revoked(a) \in [Positions -> [att : Attested \cup {Nobody}, revoked : BOOLEAN]]
         /\ \A i \in Positions :
              /\ Revoked(a)[i].att = position[i].att
              /\ Revoked(a)[i].revoked <=> position[i].revoked \/ position[i].att = a
              /\ position[i].att # a => Revoked(a)[i] = position[i]
<1>1. ASSUME NEW i \in Positions
      PROVE  /\ Revoked(a)[i] \in [att : Attested \cup {Nobody}, revoked : BOOLEAN]
             /\ Revoked(a)[i].att = position[i].att
             /\ Revoked(a)[i].revoked <=> position[i].revoked \/ position[i].att = a
             /\ position[i].att # a => Revoked(a)[i] = position[i]
  <2> DEFINE flag == position[i].revoked \/ position[i].att = a
  <2>1. Revoked(a)[i] = [position[i] EXCEPT !.revoked = @ \/ position[i].att = a]
    BY DEF Revoked
  <2>2. position[i] \in [att : Attested \cup {Nobody}, revoked : BOOLEAN]
    BY DEF AttestationsTypeOK
  <2>3. Revoked(a)[i] = [position[i] EXCEPT !.revoked = flag]
    BY <2>1, <2>2
  <2>4. flag \in BOOLEAN /\ (position[i].att # a => (flag <=> position[i].revoked))
    BY <2>2
  <2> HIDE DEF flag
  <2>5. /\ [position[i] EXCEPT !.revoked = flag] \in [att : Attested \cup {Nobody}, revoked : BOOLEAN]
        /\ [position[i] EXCEPT !.revoked = flag].att = position[i].att
        /\ [position[i] EXCEPT !.revoked = flag].revoked <=> flag
    BY <2>2, <2>4
  <2>6. position[i].att # a => [position[i] EXCEPT !.revoked = flag] = position[i]
    BY <2>2, <2>4
  <2>7. QED
    BY <2>3, <2>5, <2>6 DEF flag
<1>2. QED
  BY <1>1 DEF Revoked

LEMMA ReissueOnceStep ==
  ASSUME AttestationInv, NEW r \in claims, ReissueCredential(r), r.kind = "reissue"
  PROVE  AttestationInv'
<1> DEFINE a == r.att
<1>1. AttestationsTypeOK /\ PositionsOwned /\ IssuedThere /\ OneCredentialPerPosition /\ ListsFresh
  BY DEF AttestationInv
<1>2. a \in Attested /\ r.holder \in Holders /\ Nobody \notin Attested
  BY <1>1, RequestFields, AttestationsAssumption DEF Nobody
<1>3. /\ attested[a].status = "active" /\ attested' = [attested EXCEPT ![a].subject = r.holder]
      /\ UNCHANGED <<revoking, halted, list, fetch, shared, activation, revokedFor>>
  BY DEF ReissueCredential, Movable, verifierVars, shareVars
<1>4. PICK idx \in Free : position' = Renewed(a, idx) /\ Issue(r, idx)
  BY DEF ReissueCredential
<1> DEFINE c == [att |-> a, idx |-> idx, holder |-> r.holder]
<1>5. idx \in Positions /\ position[idx].att = Nobody /\ ~position[idx].revoked
  BY <1>1, <1>4 DEF Free, PositionsOwned
<1>6. c \in Credentials /\ c.att = a /\ c.idx = idx /\ c.holder = r.holder
  BY <1>2, <1>5 DEF Credentials
<1>7. /\ issued' = issued \cup {c} /\ kept' \subseteq kept \cup {c} /\ claims' \subseteq claims
  BY <1>4 DEF Issue
<1> HIDE DEF c
<1>8. /\ position' \in [Positions -> [att : Attested \cup {Nobody}, revoked : BOOLEAN]]
      /\ position'[idx].att = a /\ ~position'[idx].revoked
      /\ \A i \in Positions : i # idx => /\ position'[i].att = position[i].att
                                         /\ position'[i].revoked <=> position[i].revoked \/ position[i].att = a
  BY <1>1, <1>2, <1>4, <1>5, RevokedFields DEF Renewed
<1>9. /\ attested' \in [Attested -> Row]
      /\ attested'[a].status = "active" /\ attested'[a].subject = r.holder
      /\ \A b \in Attested : b # a => attested'[b] = attested[b]
  BY <1>1, <1>2, <1>3 DEF AttestationsTypeOK, Row, Subjects
<1>10. AttestationsTypeOK'
  BY <1>1, <1>3, <1>6, <1>7, <1>8, <1>9 DEF AttestationsTypeOK
<1>11. /\ Standing(a)' \subseteq {idx}
       /\ \A b \in Attested : b # a => Standing(b)' \subseteq Standing(b)
  BY <1>2, <1>8 DEF Standing
<1>12. PositionsOwned'
  <2>1. \A i \in Positions : position'[i].att = Nobody => ~position'[i].revoked
    BY <1>1, <1>2, <1>8 DEF PositionsOwned
  <2>2. ASSUME NEW i \in Positions, NEW b \in Attested, position'[i].att = b,
               ~position'[i].revoked
        PROVE  StandsFor(b)' /\ (\A j \in Standing(b)' : j = i)
    <3>1. CASE b = a
      BY <1>8, <1>9, <1>11, <2>2, <3>1 DEF StandsFor
    <3>2. CASE b # a
      <4>1. i # idx /\ position[i].att = b /\ ~position[i].revoked
        BY <1>8, <2>2, <3>2
      <4>2. StandsFor(b) /\ (\A j \in Standing(b) : j = i)
        BY <1>1, <4>1 DEF PositionsOwned
      <4>3. QED
        BY <1>3, <1>9, <1>11, <3>2, <4>2 DEF StandsFor
    <3>3. QED
      BY <3>1, <3>2
  <2>3. QED
    BY <2>1, <2>2 DEF PositionsOwned
<1>13. ASSUME NEW d \in issued
       PROVE  /\ d.att \in Attested /\ d.idx \in Positions /\ d.idx # idx
              /\ position'[d.idx].att = d.att
              /\ ~position'[d.idx].revoked => attested'[d.att].subject = d.holder
  <2>1. d \in Credentials /\ d.att \in Attested /\ d.idx \in Positions
    BY <1>1, CredentialFields DEF AttestationsTypeOK
  <2>2. /\ position[d.idx].att = d.att
        /\ ~position[d.idx].revoked => attested[d.att].subject = d.holder
    BY <1>1 DEF IssuedThere
  <2>3. d.idx # idx
    BY <1>2, <1>5, <2>1, <2>2
  <2>4. ASSUME ~position'[d.idx].revoked
        PROVE  attested'[d.att].subject = d.holder
    <3>1. d.att # a /\ ~position[d.idx].revoked
      BY <1>8, <2>1, <2>2, <2>3, <2>4
    <3>2. QED
      BY <1>9, <2>1, <2>2, <3>1
  <2>5. QED
    BY <1>8, <2>1, <2>2, <2>3, <2>4
<1>14. IssuedThere' /\ OneCredentialPerPosition'
  <2>1. position'[c.idx].att = c.att /\ attested'[c.att].subject = c.holder
    BY <1>6, <1>8, <1>9
  <2>2. IssuedThere'
    BY <1>7, <1>13, <2>1 DEF IssuedThere
  <2>3. OneCredentialPerPosition'
    BY <1>1, <1>6, <1>7, <1>13 DEF OneCredentialPerPosition
  <2>4. QED
    BY <2>2, <2>3
<1>15. ListsFresh'
  <2>1. \A i \in Positions : position[i].revoked => position'[i].revoked
    BY <1>5, <1>8
  <2>2. QED
    BY <1>1, <1>3, <2>1, FreshKept
<1>16. QED
  BY <1>10, <1>12, <1>14, <1>15 DEF AttestationInv

\* Nothing is set yet, but the hook that will is under way wherever a bit is to be set.
LEMMA EndAttestationStep ==
  ASSUME AttestationInv, NEW a \in Attested, NEW how \in {"revoked", "deleted"},
         EndAttestation(a, how)
  PROVE  AttestationInv'
<1>1. AttestationsTypeOK /\ PositionsOwned /\ IssuedThere /\ OneCredentialPerPosition /\ ListsFresh
  BY DEF AttestationInv
<1>2. /\ attested' = [attested EXCEPT ![a].status = how]
      /\ revoking' = IF Standing(a) # {} THEN revoking \cup {a} ELSE revoking
      /\ halted' = halted \ revoking'
      /\ UNCHANGED <<position, issued, claims, kept, list, fetch, shared, activation, revokedFor>>
  BY DEF EndAttestation, verifierVars, shareVars
<1>3. /\ attested' \in [Attested -> Row]
      /\ attested'[a].status = how
      /\ \A b \in Attested : /\ attested'[b].subject = attested[b].subject
                             /\ b # a => attested'[b] = attested[b]
  BY <1>1, <1>2 DEF AttestationsTypeOK, Row
<1>4. /\ revoking' \subseteq Attested /\ halted' \subseteq Attested
      /\ revoking \cup halted \subseteq revoking' \cup halted'
      /\ Standing(a) # {} => a \in revoking'
  BY <1>1, <1>2 DEF AttestationsTypeOK
<1>5. AttestationsTypeOK'
  BY <1>1, <1>2, <1>3, <1>4 DEF AttestationsTypeOK
<1>6. PositionsOwned'
  <2>1. \A b \in Attested : Standing(b)' = Standing(b)
    BY <1>2 DEF Standing
  <2>2. ASSUME NEW i \in Positions, NEW b \in Attested, position[i].att = b, ~position[i].revoked
        PROVE  StandsFor(b)' /\ (\A j \in Standing(b)' : j = i)
    <3>1. StandsFor(b) /\ (\A j \in Standing(b) : j = i) /\ i \in Standing(b)
      BY <1>1, <2>2 DEF PositionsOwned, Standing
    <3>2. CASE b = a
      BY <1>3, <1>4, <2>1, <3>1, <3>2 DEF StandsFor
    <3>3. CASE b # a
      BY <1>3, <1>4, <2>1, <3>1, <3>3 DEF StandsFor
    <3>4. QED
      BY <3>2, <3>3
  <2>3. QED
    BY <1>1, <1>2, <2>2 DEF PositionsOwned
<1>7. IssuedThere' /\ OneCredentialPerPosition'
  <2>1. \A d \in issued : d.att \in Attested
    BY <1>1, CredentialFields DEF AttestationsTypeOK
  <2>2. QED
    BY <1>1, <1>2, <1>3, <2>1 DEF IssuedThere, OneCredentialPerPosition
<1>8. ListsFresh'
  BY <1>1, <1>2, FreshKept
<1>9. QED
  BY <1>5, <1>6, <1>7, <1>8 DEF AttestationInv

\* One bit is set: it was the attestation's only one, so the hook has no more to do.
LEMMA RevokePositionStep ==
  ASSUME AttestationInv, NEW a \in Attested, NEW i \in Positions, RevokePosition(a, i)
  PROVE  AttestationInv'
<1>1. AttestationsTypeOK /\ PositionsOwned /\ IssuedThere /\ OneCredentialPerPosition /\ ListsFresh
  BY DEF AttestationInv
<1>2. /\ i \in Standing(a)
      /\ position' = [position EXCEPT ![i].revoked = TRUE]
      /\ revoking \ {a} \subseteq revoking' /\ revoking' \subseteq revoking
      /\ UNCHANGED <<attested, halted, issued, claims, kept, list, fetch, shared, activation,
                     revokedFor>>
  BY DEF RevokePosition, verifierVars, shareVars
<1>3. /\ position' \in [Positions -> [att : Attested \cup {Nobody}, revoked : BOOLEAN]]
      /\ \A j \in Positions : /\ position'[j].att = position[j].att
                              /\ position'[j].revoked <=> position[j].revoked \/ j = i
  BY <1>1, <1>2 DEF AttestationsTypeOK
<1>4. AttestationsTypeOK'
  BY <1>1, <1>2, <1>3 DEF AttestationsTypeOK
<1>5. position[i].att = a /\ ~position[i].revoked /\ a # Nobody
  BY <1>2, AttestationsAssumption DEF Standing, Nobody
<1>6. PositionsOwned'
  <2>1. \A b \in Attested : Standing(b)' \subseteq Standing(b)
    BY <1>3 DEF Standing
  <2>2. \A j \in Positions : position'[j].att = Nobody => ~position'[j].revoked
    BY <1>1, <1>3, <1>5 DEF PositionsOwned
  <2>3. ASSUME NEW j \in Positions, NEW b \in Attested, position'[j].att = b,
               ~position'[j].revoked
        PROVE  StandsFor(b)' /\ (\A k \in Standing(b)' : k = j)
    <3>1. position[j].att = b /\ ~position[j].revoked /\ j # i
      BY <1>3, <2>3
    <3>2. StandsFor(b) /\ (\A k \in Standing(b) : k = j)
      BY <1>1, <3>1 DEF PositionsOwned
    <3>3. b # a
      BY <1>2, <3>1, <3>2
    <3>4. QED
      BY <1>2, <2>1, <3>2, <3>3 DEF StandsFor
  <2>4. QED
    BY <2>2, <2>3 DEF PositionsOwned
<1>7. IssuedThere' /\ OneCredentialPerPosition'
  <2>1. \A d \in issued : d.idx \in Positions
    BY <1>1, CredentialFields DEF AttestationsTypeOK
  <2>2. QED
    BY <1>1, <1>2, <1>3, <2>1 DEF IssuedThere, OneCredentialPerPosition
<1>8. ListsFresh'
  BY <1>1, <1>2, <1>3, FreshKept
<1>9. QED
  BY <1>4, <1>6, <1>7, <1>8 DEF AttestationInv

LEMMA CutRevocationStep ==
  ASSUME AttestationInv, NEW a \in Attested, CutRevocation(a)
  PROVE  AttestationInv'
<1>1. AttestationsTypeOK /\ ListsFresh
  BY DEF AttestationInv
<1>2. /\ revoking' = revoking \ {a} /\ halted' = halted \cup {a}
      /\ UNCHANGED <<attested, position, issued, claims, kept, list, fetch, shared, activation,
                     revokedFor>>
  BY DEF CutRevocation, verifierVars, shareVars
<1>3. AttestationsTypeOK'
  BY <1>1, <1>2 DEF AttestationsTypeOK
<1>4. revoking \cup halted \subseteq revoking' \cup halted'
  BY <1>2
<1>5. ListsFresh'
  BY <1>1, <1>2, FreshKept
<1>6. QED
  BY <1>2, <1>3, <1>4, <1>5, RowsUntouched DEF AttestationInv

\* A list that was just answered says of every bit that is set.
LEMMA RequestListStep ==
  ASSUME AttestationInv, RequestStatusList
  PROVE  AttestationInv'
<1> DEFINE kl0 == [age |-> Ttl, bits |-> Bits]
<1>1. AttestationsTypeOK /\ ListsFresh
  BY DEF AttestationInv
<1>2. /\ fetch' = fetch \cup {kl0}
      /\ UNCHANGED <<attested, position, revoking, halted, issued, claims, kept,
                     list, shared, activation, revokedFor>>
  BY DEF RequestStatusList, issuerVars, shareVars
<1>3. Ttl \in Nat
  BY AttestationsAssumption
<1>4. kl0 \in Lists
  <2>1. Ttl \in 0..Ttl /\ Bits \subseteq Positions
    BY <1>3 DEF Bits
  <2>2. QED
    BY <2>1 DEF Lists
<1>5. ListFresh(kl0)
  BY <1>1, <1>3 DEF ListFresh, ListsFresh, Bits
<1> HIDE DEF kl0
<1>6. ListsFresh'
  BY <1>1, <1>2, <1>5 DEF ListsFresh, ListFresh
<1>7. AttestationsTypeOK'
  BY <1>1, <1>2, <1>4 DEF AttestationsTypeOK
<1>8. QED
  BY <1>2, <1>6, <1>7, RowsUntouched DEF AttestationInv

LEMMA KeepListStep ==
  ASSUME AttestationInv, NEW kl \in fetch, KeepStatusList(kl)
  PROVE  AttestationInv'
<1>1. AttestationsTypeOK /\ ListsFresh
  BY DEF AttestationInv
<1>2. /\ list' = kl /\ fetch' = fetch \ {kl}
      /\ UNCHANGED <<attested, position, revoking, halted, issued, claims, kept,
                     shared, activation, revokedFor>>
  BY DEF KeepStatusList, issuerVars, shareVars
<1>3. ListsFresh'
  BY <1>1, <1>2 DEF ListsFresh, ListFresh
<1>4. AttestationsTypeOK'
  BY <1>1, <1>2 DEF AttestationsTypeOK
<1>5. QED
  BY <1>2, <1>3, <1>4, RowsUntouched DEF AttestationInv

\* A list with one tick less to live.
LEMMA AgedList ==
  ASSUME NEW kl \in Lists
  PROVE  /\ Aged(kl) \in Lists
         /\ Aged(kl).age > 0 => Aged(kl).age = kl.age - 1 /\ Aged(kl).bits = kl.bits /\ kl.age > 0
<1>1. kl.age \in 0..Ttl /\ kl.bits \in SUBSET Positions /\ Ttl \in Nat
  BY AttestationsAssumption DEF Lists
<1>2. CASE kl.age > 1
  <2>1. Aged(kl) = [kl EXCEPT !.age = kl.age - 1]
    BY <1>2 DEF Aged
  <2>2. kl.age - 1 \in 0..Ttl
    BY <1>1, <1>2
  <2>3. Aged(kl) \in Lists /\ Aged(kl).age = kl.age - 1 /\ Aged(kl).bits = kl.bits
    BY <2>1, <2>2 DEF Lists
  <2>4. QED
    BY <1>1, <1>2, <2>3
<1>3. CASE ~(kl.age > 1)
  <2>1. Aged(kl) = NoList /\ 0 \in 0..Ttl
    BY <1>1, <1>3 DEF Aged
  <2>2. NoList \in Lists /\ NoList.age = 0
    BY <2>1 DEF NoList, Lists
  <2>3. QED
    BY <2>1, <2>2
<1>4. QED
  BY <1>2, <1>3

LEMMA TickAttestationsStep ==
  ASSUME AttestationInv, TickAttestations
  PROVE  AttestationInv'
<1>1. AttestationsTypeOK /\ ListsFresh
  BY DEF AttestationInv
<1>2. /\ list' = Aged(list) /\ fetch' = {Aged(kl) : kl \in fetch} \ {NoList}
      /\ revokedFor' = [i \in Positions |->
                          IF position[i].revoked /\ revokedFor[i] <= Ttl THEN revokedFor[i] + 1
                          ELSE revokedFor[i]]
      /\ UNCHANGED <<attested, position, revoking, halted, issued, claims, kept,
                     shared, activation>>
  BY DEF TickAttestations, issuerVars, shareVars
<1>3. Ttl \in Nat /\ (\A i \in Positions : revokedFor[i] \in 0..(Ttl + 1))
  BY <1>1, AttestationsAssumption DEF AttestationsTypeOK
<1>4. revokedFor' \in [Positions -> 0..(Ttl + 1)]
  BY <1>2, <1>3
<1>5. AttestationsTypeOK'
  <2>1. list' \in Lists /\ fetch' \subseteq Lists
    BY <1>1, <1>2, AgedList DEF AttestationsTypeOK
  <2>2. QED
    BY <1>1, <1>2, <1>4, <2>1 DEF AttestationsTypeOK
<1>6. ASSUME NEW kl \in Lists, ListFresh(kl)
      PROVE  \A i \in Positions : Aged(kl).age > 0 /\ i \notin Aged(kl).bits
                                    => revokedFor'[i] + Aged(kl).age <= Ttl
  <2> SUFFICES ASSUME NEW i \in Positions, Aged(kl).age > 0, i \notin Aged(kl).bits
               PROVE  revokedFor'[i] + Aged(kl).age <= Ttl
    OBVIOUS
  <2>1. Aged(kl).age = kl.age - 1 /\ kl.age > 0 /\ i \notin kl.bits
    BY AgedList
  <2>2. revokedFor[i] + kl.age <= Ttl
    BY <1>6, <2>1 DEF ListFresh
  <2>3. kl.age \in Nat /\ revokedFor[i] \in Nat
    BY <1>3 DEF Lists
  <2>4. revokedFor'[i] \in {revokedFor[i], revokedFor[i] + 1}
    BY <1>2
  <2>5. QED
    BY <1>3, <2>1, <2>2, <2>3, <2>4
<1>7. ListsFresh'
  <2>1. list \in Lists /\ fetch \subseteq Lists
    BY <1>1 DEF AttestationsTypeOK
  <2>2. ListFresh(list)' /\ (\A kl \in fetch' : ListFresh(kl)')
    BY <1>1, <1>2, <1>6, <2>1 DEF ListsFresh, ListFresh
  <2>3. \A i \in Positions : ~position'[i].revoked => revokedFor'[i] = 0
    BY <1>1, <1>2 DEF ListsFresh
  <2>4. QED
    BY <2>2, <2>3 DEF ListsFresh, ListFresh
<1>8. QED
  BY <1>2, <1>5, <1>7, RowsUntouched DEF AttestationInv

LEMMA AttestationStep == AttestationInv /\ [AttestationsNext]_attestationVars => AttestationInv'
<1> SUFFICES ASSUME AttestationInv, [AttestationsNext]_attestationVars
             PROVE  AttestationInv'
  OBVIOUS
<1>1. CASE UNCHANGED attestationVars
  <2>1. UNCHANGED <<attested, position, revoking, halted, issued, claims, kept, list, fetch,
                    shared, activation, revokedFor>>
    BY <1>1 DEF attestationVars, issuerVars, verifierVars, shareVars
  <2>2. AttestationsTypeOK' /\ ListsFresh'
    BY <2>1 DEF AttestationInv, AttestationsTypeOK, ListsFresh, ListFresh
  <2>3. QED
    BY <2>1, <2>2, RowsUntouched DEF AttestationInv
<1>2. ASSUME NEW r \in claims, ReissueCredential(r)
      PROVE  AttestationInv'
  BY <1>2, ReissueOnceStep, ReissueAgainStep DEF ReissueCredential
<1>3. QED
  BY <1>1, <1>2, LookStep, ClaimStep, EndAttestationStep, RevokePositionStep,
     CutRevocationStep, RequestListStep, KeepListStep,
     TickAttestationsStep DEF AttestationsNext

\* Every reachable state of the attestations is as AttestationInv says.
THEOREM AttestationInvariant == AttestationsSpec => []AttestationInv
  BY AttestationInit, AttestationStep, PTL DEF AttestationsSpec

\* A credential whose bit is not set is the one its attestation stands for now, whoever
\* races for the offer and whatever answer is lost (claimAttestationOffer,
\* reissueCredential, RevokeAttestationStatus); that attestation is active, but while the
\* hook of its end has yet to set the bit, and after that hook failed.
THEOREM StandingIsCurrentHolds == AttestationsSpec => []StandingIsCurrent
<1>1. AttestationInv => StandingIsCurrent
  <2> SUFFICES ASSUME AttestationInv, NEW c \in issued, ~position[c.idx].revoked
               PROVE  /\ attested[c.att].subject = c.holder /\ Standing(c.att) = {c.idx}
                      /\ attested[c.att].status = "active" \/ c.att \in revoking \cup halted
    BY DEF StandingIsCurrent
  <2>1. c.att \in Attested /\ c.idx \in Positions /\ position[c.idx].att = c.att
    BY CredentialFields DEF AttestationInv, AttestationsTypeOK, IssuedThere
  <2>2. c.idx \in Standing(c.att)
    BY <2>1 DEF Standing
  <2>3. StandsFor(c.att) /\ (\A j \in Standing(c.att) : j = c.idx)
    BY <2>1 DEF AttestationInv, PositionsOwned
  <2>4. attested[c.att].subject = c.holder
    BY DEF AttestationInv, IssuedThere
  <2>5. QED
    BY <2>2, <2>3, <2>4 DEF StandsFor
<1>2. QED
  BY <1>1, AttestationInvariant, PTL

\* No two credentials share a position of the list (allocateStatusPosition).
THEOREM OneCredentialPerPositionHolds == AttestationsSpec => []OneCredentialPerPosition
<1>1. AttestationInv => OneCredentialPerPosition
  BY DEF AttestationInv
<1>2. QED
  BY <1>1, AttestationInvariant, PTL

\* A revoked credential verifies for at most as long as a list may be kept, however long
\* the list's answer took (PeerStatusList keeps it from the time its call began).
THEOREM VerifiedIsFreshHolds == AttestationsSpec => []VerifiedIsFresh
<1>1. AttestationInv => VerifiedIsFresh
  <2> SUFFICES ASSUME AttestationInv, NEW c \in issued, Verifies(c)
               PROVE  revokedFor[c.idx] <= Ttl
    BY DEF VerifiedIsFresh
  <2>1. c.idx \in Positions
    BY CredentialFields DEF AttestationInv, AttestationsTypeOK
  <2>2. list.age > 0 /\ revokedFor[c.idx] + list.age <= Ttl
    BY <2>1 DEF Verifies, AttestationInv, ListsFresh, ListFresh
  <2>3. list.age \in 0..Ttl /\ revokedFor[c.idx] \in 0..(Ttl + 1) /\ Ttl \in Nat
    BY <2>1, AttestationsAssumption DEF AttestationInv, AttestationsTypeOK, Lists
  <2>4. QED
    BY <2>2, <2>3
<1>2. QED
  BY <1>1, AttestationInvariant, PTL

\* A published revocation is never taken back, nor its position given to another: only a
\* free position, or the standing one of the attestation itself, is ever written to
\* (AllocateAttestationStatus, RenewAttestationStatus).
THEOREM RevokedStaysHolds == AttestationsSpec => RevokedStays
<1> DEFINE Step == \A i \in Positions : position[i].revoked => position'[i] = position[i]
<1>1. AttestationInv /\ [AttestationsNext]_attestationVars => [Step]_attestationVars
  <2> SUFFICES ASSUME AttestationInv, AttestationsNext
               PROVE  Step
    OBVIOUS
  <2>1. AttestationsTypeOK /\ PositionsOwned
    BY DEF AttestationInv
  <2>2. CASE UNCHANGED position
    BY <2>2
  <2>3. ASSUME NEW r \in claims, ClaimAttestationOffer(r) \/ ReissueCredential(r)
        PROVE  Step
    <3>1. r.att \in Attested
      BY <2>1, RequestFields
    <3>2. ASSUME NEW idx \in Allocated(r.att), position' = [position EXCEPT ![idx].att = r.att]
          PROVE  Step
      <4>1. ~position[idx].revoked
        BY <2>1, <3>2 DEF Allocated, Standing, Free, PositionsOwned
      <4>2. QED
        BY <2>1, <3>2, <4>1 DEF AttestationsTypeOK
    <3>3. ASSUME NEW idx \in Free, position' = Renewed(r.att, idx)
          PROVE  Step
      <4>1. idx \in Positions /\ ~position[idx].revoked
        BY <2>1, <3>3 DEF Free, PositionsOwned
      <4> SUFFICES ASSUME NEW i \in Positions, position[i].revoked
                   PROVE  position'[i] = position[i]
        OBVIOUS
      <4>2. position'[i] = Revoked(r.att)[i]
        BY <3>3, <4>1 DEF Renewed, Revoked
      <4>3. Revoked(r.att)[i] = position[i]
        <5>1. /\ Revoked(r.att)[i] \in [att : Attested \cup {Nobody}, revoked : BOOLEAN]
              /\ Revoked(r.att)[i].att = position[i].att
              /\ Revoked(r.att)[i].revoked /\ position[i].revoked
              /\ position[i] \in [att : Attested \cup {Nobody}, revoked : BOOLEAN]
          BY <2>1, <3>1, RevokedFields DEF AttestationsTypeOK
        <5>2. QED
          BY <5>1
      <4>4. QED
        BY <4>2, <4>3
    <3>4. QED
      BY <2>3, <3>2, <3>3 DEF ClaimAttestationOffer, ReissueCredential
  <2>4. ASSUME NEW a \in Attested, NEW i \in Positions, RevokePosition(a, i)
        PROVE  Step
    BY <2>1, <2>4 DEF RevokePosition, Standing, AttestationsTypeOK
  <2>5. QED
    BY <2>2, <2>3, <2>4 DEF AttestationsNext, EndAttestation, CutRevocation, OpenClaim, OpenReissue, Refuse, RequestStatusList,
       KeepStatusList, TickAttestations, OpenActivation, ActivateAttestationShare,
       RevokeAttestationShare, issuerVars
<1>2. QED
  BY <1>1, AttestationInvariant, PTL DEF AttestationsSpec, RevokedStays

(***************************************************************************)
(* Reminders                                                               *)
(***************************************************************************)

\* The passes that have marked the reminder and not yet told its owner.
MarkedPasses == {p \in Passes : pass[p] = "marked"}

\* What may still be told: by passes that have marked it, and by the arming that no pass
\* has used up.
StillToTell == Cardinality(MarkedPasses) + (IF reminder.fired THEN 0 ELSE 1)

\* Each arming is told of at most once, by what was told or may still be.
ArmingsCover == told + StillToTell <= armings

\* A reminder is armed again by an edit at most, and an open one has not armed it yet.
EditsArm == armings + (IF patch.open THEN 1 ELSE 0) <= patches + 1

\* Each variable has its type; the counters' bounds are consequences.
RemindersTypes ==
  /\ now \in 0..MaxTime /\ reminder \in Rows /\ pass \in [Passes -> PassStates]
  /\ patch \in [open : BOOLEAN, loaded : Rows] /\ inWorkspace \in BOOLEAN
  /\ patches \in 0..MaxPatches /\ told \in Nat /\ armings \in Nat \ {0}

\* The inductive invariant.
ReminderInv == RemindersTypes /\ ArmingsCover /\ EditsArm

LEMMA MarkedCount == IsFiniteSet(MarkedPasses) /\ Cardinality(MarkedPasses) \in Nat
<1>1. MarkedPasses \in SUBSET Passes
  BY DEF MarkedPasses
<1>2. QED
  BY <1>1, RemindersAssumption, FS_Subset, FS_CardinalityType

LEMMA ClosedFields == /\ Closed \in [open : BOOLEAN, loaded : Rows] /\ ~Closed.open
<1>1. 0 \in 0..MaxTime
  BY RemindersAssumption
<1>2. QED
  BY <1>1 DEF Closed, Rows

LEMMA ReminderInit == RemindersInit => ReminderInv
<1> SUFFICES ASSUME RemindersInit PROVE ReminderInv
  OBVIOUS
<1>1. /\ now = 0 /\ inWorkspace = TRUE /\ reminder \in Rows /\ ~reminder.fired
      /\ pass = [p \in Passes |-> "idle"] /\ patch = Closed /\ patches = 0
      /\ told = 0 /\ armings = 1
  BY DEF RemindersInit
<1>2. 0 \in 0..MaxTime /\ 0 \in 0..MaxPatches
  BY RemindersAssumption
<1>3. RemindersTypes
  BY <1>1, <1>2, ClosedFields DEF RemindersTypes, PassStates
<1>4. Cardinality(MarkedPasses) = 0
  <2>1. MarkedPasses = {}
    BY <1>1 DEF MarkedPasses
  <2>2. QED
    BY <2>1, FS_EmptySet
<1>5. StillToTell = 1
  BY <1>1, <1>4 DEF StillToTell
<1>6. ArmingsCover
  BY <1>1, <1>5 DEF ArmingsCover
<1>7. EditsArm
  BY <1>1, ClosedFields DEF EditsArm
<1>8. QED
  BY <1>3, <1>6, <1>7 DEF ReminderInv

LEMMA Covered ==
  ASSUME NEW t \in Nat, NEW x \in Nat, NEW y \in Nat, NEW a \in Nat, NEW b \in Nat,
         t + x <= a, y <= x, a <= b
  PROVE  t + y <= b
  OBVIOUS

\* A step that marks nothing and tells nobody: it disarms, or counts an arming.
LEMMA CoverKept ==
  ASSUME ReminderInv, MarkedPasses' \subseteq MarkedPasses, told' = told,
         armings' \in Nat, armings' >= armings,
         ~reminder'.fired /\ reminder.fired => armings' = armings + 1
  PROVE  ArmingsCover'
<1> DEFINE m == Cardinality(MarkedPasses)
<1> DEFINE n == Cardinality(MarkedPasses')
<1>1. m \in Nat /\ n \in Nat /\ n <= m
  BY MarkedCount, FS_Subset, FS_CardinalityType
<1>2. told \in Nat /\ armings \in Nat /\ told + StillToTell <= armings
  BY DEF ReminderInv, RemindersTypes, ArmingsCover
<1>3. StillToTell = m + (IF reminder.fired THEN 0 ELSE 1)
  BY DEF StillToTell
<1>4. StillToTell' = n + (IF reminder'.fired THEN 0 ELSE 1)
  BY DEF StillToTell, MarkedPasses
<1> HIDE DEF m, n
<1>5. CASE reminder'.fired \/ ~reminder.fired
  <2>1. StillToTell' <= StillToTell /\ StillToTell' \in Nat /\ StillToTell \in Nat
    BY <1>1, <1>3, <1>4, <1>5
  <2>2. armings <= armings'
    BY <1>2
  <2>3. told + StillToTell' <= armings'
    BY <1>2, <2>1, <2>2, Covered
  <2>4. QED
    BY <2>3 DEF ArmingsCover
<1>6. CASE ~reminder'.fired /\ reminder.fired
  <2>1. StillToTell' = n + 1 /\ StillToTell = m
    BY <1>1, <1>3, <1>4, <1>6
  <2>2. armings' = armings + 1
    BY <1>6
  <2> HIDE DEF StillToTell
  <2>3. told + StillToTell' <= armings'
    BY <1>1, <1>2, <2>1, <2>2
  <2>4. QED
    BY <2>3 DEF ArmingsCover
<1>7. QED
  BY <1>5, <1>6

\* One pass goes from one state to another.
LEMMA PassMoves ==
  ASSUME RemindersTypes, NEW p \in Passes, NEW to \in PassStates,
         pass' = [pass EXCEPT ![p] = to]
  PROVE  /\ pass' \in [Passes -> PassStates]
         /\ to # "marked" => MarkedPasses' = MarkedPasses \ {p}
         /\ to = "marked" => MarkedPasses' = MarkedPasses \cup {p}
<1>1. \A q \in Passes : pass'[q] = IF q = p THEN to ELSE pass[q]
  BY DEF RemindersTypes
<1>2. pass' \in [Passes -> PassStates]
  BY DEF RemindersTypes
<1>3. QED
  BY <1>1, <1>2 DEF MarkedPasses

LEMMA PassStep ==
  ASSUME ReminderInv, NEW p \in Passes, LoadDue(p) \/ LoadChanged(p) \/ LeaveReminder(p)
  PROVE  ReminderInv'
<1>1. PICK to \in {"loaded", "idle"} : pass' = [pass EXCEPT ![p] = to]
  BY DEF LoadDue, LoadChanged, LeaveReminder
<1>2. UNCHANGED <<now, reminder, patch, inWorkspace, patches, told, armings>>
  BY DEF LoadDue, LoadChanged, LeaveReminder
<1>3. RemindersTypes /\ armings \in Nat
  BY DEF ReminderInv, RemindersTypes
<1>4. to \in PassStates /\ to # "marked"
  BY DEF PassStates
<1>5. pass' \in [Passes -> PassStates] /\ MarkedPasses' \subseteq MarkedPasses
  BY <1>1, <1>3, <1>4, PassMoves
<1>6. RemindersTypes'
  BY <1>2, <1>3, <1>5 DEF RemindersTypes
<1>7. ArmingsCover'
  BY <1>2, <1>3, <1>5, CoverKept
<1>8. EditsArm'
  BY <1>2 DEF ReminderInv, EditsArm
<1>9. QED
  BY <1>6, <1>7, <1>8 DEF ReminderInv

\* The pass that marks it takes the one arming nobody has used.
LEMMA MarkFiredStep ==
  ASSUME ReminderInv, NEW p \in Passes, MarkFired(p)
  PROVE  ReminderInv'
<1>1. /\ pass[p] = "loaded" /\ ~reminder.fired
      /\ reminder' = [reminder EXCEPT !.fired = TRUE]
      /\ pass' = [pass EXCEPT ![p] = "marked"]
      /\ UNCHANGED <<now, patch, inWorkspace, patches, told, armings>>
  BY DEF MarkFired, Markable
<1>2. RemindersTypes
  BY DEF ReminderInv
<1>3. reminder' \in Rows /\ reminder'.fired
  BY <1>1, <1>2 DEF RemindersTypes, Rows
<1>4. "marked" \in PassStates
  BY DEF PassStates
<1>5. pass' \in [Passes -> PassStates] /\ MarkedPasses' = MarkedPasses \cup {p}
  BY <1>1, <1>2, <1>4, PassMoves
<1>6. RemindersTypes'
  BY <1>1, <1>2, <1>3, <1>5 DEF RemindersTypes
<1>7. ArmingsCover'
  <2> DEFINE m == Cardinality(MarkedPasses)
  <2>1. p \notin MarkedPasses
    BY <1>1 DEF MarkedPasses
  <2>2. Cardinality(MarkedPasses \cup {p}) = m + 1
    BY <2>1, MarkedCount, FS_AddElement
  <2>3. Cardinality(MarkedPasses') = m + 1
    BY <1>5, <2>2
  <2>4. StillToTell = m + 1
    BY <1>1 DEF StillToTell
  <2>5. m \in Nat
    BY MarkedCount
  <2>6. StillToTell' = Cardinality(MarkedPasses')
    <3>1. Cardinality(MarkedPasses') \in Nat
      BY <2>3, <2>5
    <3>2. StillToTell' = Cardinality(MarkedPasses') + 0
      BY <1>3 DEF StillToTell, MarkedPasses
    <3> HIDE DEF m
    <3>3. QED
      BY <3>1, <3>2
  <2>7. told + StillToTell <= armings
    BY DEF ReminderInv, ArmingsCover
  <2>8. StillToTell' = StillToTell
    BY <2>3, <2>4, <2>6
  <2>9. QED
    BY <1>1, <2>7, <2>8 DEF ArmingsCover
<1>8. EditsArm'
  BY <1>1 DEF ReminderInv, EditsArm
<1>9. QED
  BY <1>6, <1>7, <1>8 DEF ReminderInv

LEMMA TellOwnerStep ==
  ASSUME ReminderInv, NEW p \in Passes, TellOwner(p)
  PROVE  ReminderInv'
<1>1. /\ pass[p] = "marked" /\ pass' = [pass EXCEPT ![p] = "idle"]
      /\ told' \in {told, told + 1}
      /\ UNCHANGED <<now, reminder, patch, inWorkspace, patches, armings>>
  BY DEF TellOwner
<1>2. RemindersTypes /\ told \in Nat /\ armings \in Nat
  BY DEF ReminderInv, RemindersTypes
<1>3. "idle" \in PassStates
  BY DEF PassStates
<1>4. pass' \in [Passes -> PassStates] /\ MarkedPasses' = MarkedPasses \ {p}
  BY <1>1, <1>2, <1>3, PassMoves
<1>5. told' \in Nat
  BY <1>1, <1>2
<1>6. RemindersTypes'
  BY <1>1, <1>2, <1>4, <1>5 DEF RemindersTypes
<1>7. ArmingsCover'
  <2> DEFINE m == Cardinality(MarkedPasses)
  <2> DEFINE left == IF reminder.fired THEN 0 ELSE 1
  <2>1. p \in MarkedPasses
    BY <1>1 DEF MarkedPasses
  <2>2. Cardinality(MarkedPasses \ {p}) = m - 1
    BY <2>1, MarkedCount, FS_RemoveElement
  <2>3. Cardinality(MarkedPasses') = m - 1
    BY <1>4, <2>2
  <2>4. StillToTell = m + left
    BY DEF StillToTell
  <2>5. StillToTell' = Cardinality(MarkedPasses') + left
    BY <1>1 DEF StillToTell, MarkedPasses
  <2>6. m \in Nat /\ left \in {0, 1}
    BY MarkedCount
  <2>7. told + StillToTell <= armings
    BY DEF ReminderInv, ArmingsCover
  <2> HIDE DEF m, left
  <2>8. told + (m + left) <= armings /\ StillToTell' = (m - 1) + left
    BY <2>3, <2>4, <2>5, <2>7
  <2>9. told' = told \/ told' = told + 1
    BY <1>1
  <2>10. told' + ((m - 1) + left) <= armings
    BY <1>2, <2>6, <2>8, <2>9
  <2>11. QED
    BY <1>1, <2>8, <2>10 DEF ArmingsCover
<1>8. EditsArm'
  BY <1>1 DEF ReminderInv, EditsArm
<1>9. QED
  BY <1>6, <1>7, <1>8 DEF ReminderInv

LEMMA OpenReminderPatchStep ==
  ASSUME ReminderInv, OpenReminderPatch
  PROVE  ReminderInv'
<1>1. /\ ~patch.open /\ patches < MaxPatches
      /\ patch' = [open |-> TRUE, loaded |-> reminder] /\ patches' = patches + 1
      /\ UNCHANGED <<now, reminder, pass, inWorkspace, told, armings>>
  BY DEF OpenReminderPatch
<1>2. RemindersTypes /\ armings \in Nat /\ patches \in Nat
  BY RemindersAssumption DEF ReminderInv, RemindersTypes
<1>3. patches' \in 0..MaxPatches
  BY <1>1, <1>2, RemindersAssumption DEF RemindersTypes
<1>4. RemindersTypes'
  BY <1>1, <1>2, <1>3 DEF RemindersTypes
<1>5. ArmingsCover'
  BY <1>1 DEF ReminderInv, ArmingsCover, StillToTell, MarkedPasses
<1>6. EditsArm'
  <2>1. armings <= patches + 1
    BY <1>1, <1>2 DEF ReminderInv, EditsArm
  <2>2. patch'.open
    BY <1>1
  <2>3. armings' + 1 <= patches' + 1
    BY <1>1, <1>2, <2>1
  <2>4. QED
    BY <2>2, <2>3 DEF EditsArm
<1>7. QED
  BY <1>4, <1>5, <1>6 DEF ReminderInv

\* What prepareReminder leaves of an edit, and which columns are written: the mark is
\* cleared only of a reminder that had fired when it was loaded and that the edit arms.
LEMMA WrittenMark ==
  ASSUME RemindersTypes, NEW old \in Rows,
         NEW kind \in {"date", "change"}, NEW due \in 0..MaxTime,
         NEW fired \in BOOLEAN, NEW note \in BOOLEAN,
         NEW new, new = Prepared(old, [old EXCEPT !.kind = kind, !.due = due, !.fired = fired,
                                                  !.note = note])
  PROVE  /\ Written(old, new) \in Rows
         /\ ~Written(old, new).fired /\ reminder.fired =>
              old.fired /\ (kind # old.kind \/ (kind = "date" /\ due # old.due) \/ ~fired)
<1> DEFINE edit == [old EXCEPT !.kind = kind, !.due = due, !.fired = fired, !.note = note]
<1>1. new = Prepared(old, edit)
  OBVIOUS
<1>2. /\ edit \in Rows /\ edit.kind = kind /\ edit.due = due /\ (edit.fired <=> fired)
  BY DEF Rows
<1>3. 0 \in 0..MaxTime
  BY RemindersAssumption
<1> DEFINE due1 == IF edit.kind = "change" THEN 0 ELSE edit.due
<1> DEFINE fired1 == /\ old.fired /\ edit.fired
                     /\ old.kind = edit.kind /\ (edit.kind = "date" => old.due = edit.due)
<1>4. due1 \in 0..MaxTime /\ fired1 \in BOOLEAN
  BY <1>2, <1>3 DEF Rows
<1>5. new = [edit EXCEPT !.due = due1, !.fired = fired1]
  BY <1>1, <1>2 DEF Prepared, Rows
<1>6. ~fired1 /\ old.fired =>
        kind # old.kind \/ (kind = "date" /\ due # old.due) \/ ~fired
  BY <1>2
<1>7. fired1 => old.fired
  OBVIOUS
<1> HIDE DEF edit, due1, fired1
<1>8. new \in Rows /\ (new.fired <=> fired1)
  BY <1>2, <1>4, <1>5 DEF Rows
<1>9. Written(old, new) \in Rows
  BY <1>8 DEF Written, Rows, RemindersTypes
<1>10. ~Written(old, new).fired /\ reminder.fired => old.fired /\ ~fired1
  BY <1>7, <1>8 DEF Written, Rows
<1>11. QED
  BY <1>6, <1>9, <1>10

LEMMA SaveReminderPatchStep ==
  ASSUME ReminderInv, SaveReminderPatch
  PROVE  ReminderInv'
<1>1. RemindersTypes /\ armings \in Nat /\ patches \in Nat /\ patch.loaded \in Rows
  BY RemindersAssumption DEF ReminderInv, RemindersTypes
<1>2. /\ patch.open /\ patch' = Closed /\ UNCHANGED <<now, pass, inWorkspace, patches, told>>
  BY DEF SaveReminderPatch
<1>3. PICK kind \in {"date", "change"}, due \in 0..MaxTime, fired \in BOOLEAN, note \in BOOLEAN :
        LET old == patch.loaded
            new == Prepared(old, [old EXCEPT !.kind = kind, !.due = due, !.fired = fired, !.note = note])
        IN /\ reminder' = IF reminder.live /\ inWorkspace THEN Written(old, new) ELSE reminder
           /\ armings' = IF old.fired /\ (kind # old.kind \/ (kind = "date" /\ due # old.due) \/ ~fired)
                         THEN armings + 1 ELSE armings
  BY DEF SaveReminderPatch
<1> DEFINE old == patch.loaded
<1> DEFINE new == Prepared(old, [old EXCEPT !.kind = kind, !.due = due, !.fired = fired,
                                            !.note = note])
<1> DEFINE arms == old.fired /\ (kind # old.kind \/ (kind = "date" /\ due # old.due) \/ ~fired)
<1>4. /\ reminder' = IF reminder.live /\ inWorkspace THEN Written(old, new) ELSE reminder
      /\ armings' = IF arms THEN armings + 1 ELSE armings
  BY <1>3
<1>5. /\ kind \in {"date", "change"} /\ due \in 0..MaxTime /\ fired \in BOOLEAN
      /\ note \in BOOLEAN /\ old \in Rows
  BY <1>1, <1>3
<1>6. Written(old, new) \in Rows /\ (~Written(old, new).fired /\ reminder.fired => arms)
  BY <1>1, <1>5, WrittenMark
<1> HIDE DEF old, new, arms
<1>7. reminder' \in {Written(old, new), reminder} /\ reminder \in Rows
  BY <1>1, <1>4 DEF RemindersTypes
<1>8. ~reminder'.fired /\ reminder.fired => arms
  BY <1>6, <1>7
<1>9. /\ reminder' \in Rows /\ armings' \in {armings, armings + 1}
      /\ ~reminder'.fired /\ reminder.fired => armings' = armings + 1
  BY <1>4, <1>6, <1>7, <1>8
<1>10. armings' \in Nat /\ armings' >= armings /\ armings' # 0
  BY <1>1, <1>9 DEF RemindersTypes
<1>11. RemindersTypes'
  BY <1>1, <1>2, <1>9, <1>10, ClosedFields DEF RemindersTypes
<1>12. ArmingsCover'
  <2>1. MarkedPasses' = MarkedPasses
    BY <1>2 DEF MarkedPasses
  <2>2. QED
    BY <1>2, <1>9, <1>10, <2>1, CoverKept
<1>13. EditsArm'
  <2>1. armings + 1 <= patches + 1
    BY <1>2 DEF ReminderInv, EditsArm
  <2>2. ~patch'.open
    BY <1>2, ClosedFields
  <2>3. patches' = patches /\ (armings' = armings \/ armings' = armings + 1)
    BY <1>2, <1>9
  <2>4. armings' + 0 <= patches' + 1
    BY <1>1, <2>1, <2>3
  <2>5. QED
    BY <2>2, <2>4 DEF EditsArm
<1>14. QED
  BY <1>11, <1>12, <1>13 DEF ReminderInv

LEMMA OtherReminderStep ==
  ASSUME ReminderInv,
         \/ DeleteReminder \/ LeaveWorkspace \/ TickReminders \/ RestartReminders
         \/ UNCHANGED reminderVars
  PROVE  ReminderInv'
<1>1. RemindersTypes /\ armings \in Nat
  BY DEF ReminderInv, RemindersTypes
<1>2. UNCHANGED <<patches, told, armings>>
  BY DEF DeleteReminder, LeaveWorkspace, TickReminders, RestartReminders, reminderVars
<1>3. /\ reminder' \in Rows
      /\ reminder'.fired <=> reminder.fired
  BY <1>1 DEF DeleteReminder, LeaveWorkspace, TickReminders, RestartReminders, reminderVars,
              RemindersTypes, Rows
<1>4. now' \in 0..MaxTime
  <2>1. CASE TickReminders
    BY <1>1, <2>1, RemindersAssumption DEF TickReminders, RemindersTypes
  <2>2. CASE now' = now
    BY <1>1, <2>2 DEF RemindersTypes
  <2>3. QED
    BY <2>1, <2>2 DEF DeleteReminder, LeaveWorkspace, RestartReminders, reminderVars
<1>5. /\ pass' \in [Passes -> PassStates] /\ MarkedPasses' \subseteq MarkedPasses
      /\ patch' \in [open : BOOLEAN, loaded : Rows] /\ (patch'.open => patch.open)
  <2>1. CASE RestartReminders
    BY <2>1, ClosedFields DEF RestartReminders, PassStates, MarkedPasses
  <2>2. CASE pass' = pass /\ patch' = patch
    BY <1>1, <2>2 DEF RemindersTypes, MarkedPasses
  <2>3. QED
    BY <2>1, <2>2 DEF DeleteReminder, LeaveWorkspace, TickReminders, reminderVars
<1>6. inWorkspace' \in BOOLEAN
  BY <1>1 DEF DeleteReminder, LeaveWorkspace, TickReminders, RestartReminders, reminderVars,
              RemindersTypes
<1>7. RemindersTypes'
  <2>1. /\ reminder' \in Rows /\ pass' \in [Passes -> PassStates]
        /\ patch' \in [open : BOOLEAN, loaded : Rows]
    BY <1>3, <1>5
  <2>2. patches' \in 0..MaxPatches /\ told' \in Nat /\ armings' \in Nat \ {0}
    BY <1>1, <1>2 DEF RemindersTypes
  <2>3. QED
    BY <1>4, <1>6, <2>1, <2>2 DEF RemindersTypes
<1>8. ArmingsCover'
  BY <1>1, <1>2, <1>3, <1>5, CoverKept
<1>9. EditsArm'
  <2>1. armings + (IF patch.open THEN 1 ELSE 0) <= patches + 1 /\ patches \in Nat
    BY RemindersAssumption DEF ReminderInv, EditsArm, RemindersTypes
  <2>2. QED
    BY <1>1, <1>2, <1>5, <2>1 DEF EditsArm
<1>10. QED
  BY <1>7, <1>8, <1>9 DEF ReminderInv

LEMMA ReminderStep == ReminderInv /\ [RemindersNext]_reminderVars => ReminderInv'
  BY PassStep, MarkFiredStep, TellOwnerStep, OpenReminderPatchStep, SaveReminderPatchStep,
     OtherReminderStep DEF RemindersNext

\* Every reachable state of a reminder is as ReminderInv says.
THEOREM ReminderInvariant == RemindersSpec => []ReminderInv
  BY ReminderInit, ReminderStep, PTL DEF RemindersSpec

\* Whatever passes overlap and whatever the owner saves from an older copy, a reminder's
\* owner is told at most once for each time it was armed (fireReminder, prepareReminder).
THEOREM ToldOncePerArmingHolds == RemindersSpec => []ToldOncePerArming
<1>1. ReminderInv => ToldOncePerArming
  <2> SUFFICES ASSUME ReminderInv PROVE told <= armings
    BY DEF ToldOncePerArming
  <2>1. told \in Nat /\ armings \in Nat /\ told + StillToTell <= armings
    BY DEF ReminderInv, RemindersTypes, ArmingsCover
  <2>2. StillToTell \in Nat
    BY MarkedCount DEF StillToTell
  <2>3. QED
    BY <2>1, <2>2
<1>2. QED
  BY <1>1, ReminderInvariant, PTL
=============================================================================
