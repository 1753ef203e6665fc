---------------------------- MODULE Attestations ----------------------------
(***************************************************************************)
(* Attestations: an offer accepted by one identity becomes a credential at *)
(* a position of the issuer's status list; the credential can be moved to  *)
(* another identity of its holder; revoking or deleting the attestation    *)
(* sets the bit of every position it ever had.  The holder's server keeps  *)
(* copies and shows them on share links, where another server's status     *)
(* list is cached.                                                         *)
(*                                                                         *)
(* Claims and reissues look before their transaction and again inside it.  *)
(* A PATCH writes the same columns whatever it had loaded, so its UPDATE   *)
(* is one step; the hook sets the bits after it, one save each.  A delete  *)
(* is no tighter here.                                                     *)
(***************************************************************************)
EXTENDS Integers, FiniteSets

CONSTANTS Attested,    \* attestations
          Holders,     \* identities that may accept one or receive it
          Positions,   \* places of the status list
          MaxClaims,   \* bound on the claim and reissue requests under way at once
          MaxFetches,  \* bound on the lists asked for at once
          Ttl          \* how long a verifier keeps a status list, in ticks

ASSUME AttestationsAssumption ==
  /\ "nobody" \notin Attested
  /\ MaxClaims \in Nat /\ MaxFetches \in Nat /\ Ttl \in Nat \ {0}

VARIABLES attested,    \* the attestations rows
          position,    \* the attestationStatus rows
          revoking,    \* attestations that ended and whose bits a hook is setting
          halted,      \* history: those where it failed, or the server stopped
          issued,      \* history: the credentials signed so far
          claims,      \* requests between their first look and their transaction
          kept,        \* the credentials rows of the holders' server
          list,        \* the kept copy of the issuer's status list
          fetch,       \* lists on their way to the verifier, at most MaxFetches
          shared,      \* the attestationShares row, and its link's presentation
          activation,  \* the presentation of an activateAttestationShare that has loaded it
          revokedFor   \* history: ticks since the position's bit was set

issuerVars == <<attested, position, revoking, halted, issued>>
verifierVars == <<list, fetch>>
shareVars == <<shared, activation>>
attestationVars == <<issuerVars, claims, kept, verifierVars, shareVars, revokedFor>>

Nobody == "nobody"
Subjects == Holders \cup {Nobody}
Credentials == [att : Attested, idx : Positions, holder : Holders]
Row == [status : {"offered", "active", "revoked", "deleted"}, subject : Subjects]
Requests == [kind : {"claim", "reissue", "again"}, att : Attested, holder : Holders,
             old : SUBSET Credentials]    \* the credential to move
\* age: ticks a list may still be used for, 0 for no list.
Lists == [age : 0..Ttl, bits : SUBSET Positions]
NoList == [age |-> 0, bits |-> {}]
Shares == [status : {"pending", "active", "revoked"}, ended : BOOLEAN,
           shows : SUBSET Credentials]    \* the presentation

Standing(a) == {i \in Positions : position[i].att = a /\ ~position[i].revoked}
Free == {i \in Positions : position[i].att = Nobody}
Revoked(a) == [i \in Positions |-> [position[i] EXCEPT !.revoked = @ \/ position[i].att = a]]
Bits == {i \in Positions : position[i].revoked}

AttestationsInit ==
  /\ attested \in [Attested -> [status : {"offered"}, subject : Subjects]]
  /\ position = [i \in Positions |-> [att |-> Nobody, revoked |-> FALSE]]
  /\ revoking = {} /\ halted = {}
  /\ issued = {} /\ kept = {}
  /\ claims = {}
  /\ list = NoList /\ fetch = {}
  /\ shared = [status |-> "pending", ended |-> FALSE, shows |-> {}]
  /\ activation = {}
  /\ revokedFor = [i \in Positions |-> 0]

-----------------------------------------------------------------------------
(* The issuer. *)

BeginRelay(r) == Cardinality(claims) < MaxClaims /\ claims' = claims \cup {r}

\* findAttestationOffer and the look at whom the offer is for.
OpenClaim(a, h) ==
  /\ attested[a].status \in {"offered", "active"} /\ attested[a].subject \in {Nobody, h}
  /\ BeginRelay([kind |-> "claim", att |-> a, holder |-> h, old |-> {}])
  /\ UNCHANGED <<issuerVars, kept, verifierVars, shareVars, revokedFor>>

\* standingAttestation: the credential still stands for its holder, or it was
\* already moved to the identity that asks.
OpenReissue(c, h) ==
  LET row == attested[c.att]
      moved == position[c.idx].revoked
  IN /\ c \in kept /\ h # c.holder
     /\ row.status = "active" /\ row.subject = (IF moved THEN h ELSE c.holder)
     /\ BeginRelay([kind |-> IF moved THEN "again" ELSE "reissue",
                att |-> c.att, holder |-> h, old |-> {c}])
     /\ UNCHANGED <<issuerVars, kept, verifierVars, shareVars, revokedFor>>

\* The credential signed for request r, at idx; the answer reaches the holder's
\* server, which puts it in place of the copy it moved, or is lost.
Issue(r, idx) ==
  LET c == [att |-> r.att, idx |-> idx, holder |-> r.holder]
  IN /\ issued' = issued \cup {c}
     /\ kept' \in {kept, (kept \ r.old) \cup {c}}
     /\ claims' = claims \ {r}

\* AllocateAttestationStatus: the position it has, or a free one.
Allocated(a) == IF Standing(a) # {} THEN Standing(a) ELSE Free

\* Variant: an accepted offer is not compared with who accepted it.
ClaimableByAnyone(r) == attested[r.att].status \in {"active", "offered"}

\* What the transaction of claimAttestationOffer asks of the row it reads again.
Claimable(r) ==
  LET row == attested[r.att]
  IN \/ row.status = "active" /\ row.subject = r.holder
     \/ row.status = "offered" /\ row.subject \in {Nobody, r.holder}

ClaimAttestationOffer(r) ==
  /\ r.kind = "claim" /\ Claimable(r)
  /\ attested' = [attested EXCEPT ![r.att] = [status |-> "active", subject |-> r.holder]]
  /\ \E idx \in Allocated(r.att) : position' = [position EXCEPT ![idx].att = r.att] /\ Issue(r, idx)
  /\ UNCHANGED <<revoking, halted, verifierVars, shareVars, revokedFor>>

\* RenewAttestationStatus: every position revoked, and a fresh one.
Renewed(a, idx) == [Revoked(a) EXCEPT ![idx] = [att |-> a, revoked |-> FALSE]]

\* What the transaction of reissueCredential asks of the rows it reads again.
Movable(r) ==
  LET row == attested[r.att]
  IN /\ row.status = "active"
     /\ IF r.kind = "again" THEN row.subject = r.holder
        ELSE \A old \in r.old : /\ row.subject = old.holder
                               /\ position[old.idx] = [att |-> r.att, revoked |-> FALSE]

ReissueCredential(r) ==
  /\ r.kind \in {"reissue", "again"} /\ Movable(r)
  /\ IF r.kind = "again"
     THEN /\ \E idx \in Allocated(r.att) :
               position' = [position EXCEPT ![idx].att = r.att] /\ Issue(r, idx)
          /\ UNCHANGED attested
     ELSE /\ \E idx \in Free : position' = Renewed(r.att, idx) /\ Issue(r, idx)
          /\ attested' = [attested EXCEPT ![r.att].subject = r.holder]
  /\ UNCHANGED <<revoking, halted, verifierVars, shareVars, revokedFor>>

\* A refusal, at any check after the first look.
Refuse(r) ==
  /\ claims' = claims \ {r}
  /\ UNCHANGED <<issuerVars, kept, verifierVars, shareVars, revokedFor>>

\* A PATCH to revoked, or of a row that is, and a delete.
EndAttestation(a, how) ==
  /\ attested[a].status # "deleted"
  /\ attested' = [attested EXCEPT ![a].status = how]
  /\ revoking' = IF Standing(a) # {} THEN revoking \cup {a} ELSE revoking
  /\ halted' = halted \ revoking'
  /\ UNCHANGED <<position, issued, claims, kept, verifierVars, shareVars, revokedFor>>

\* RevokeAttestationStatus in the hook: the save of one position.
RevokePosition(a, i) ==
  /\ a \in revoking /\ i \in Standing(a)
  /\ position' = [position EXCEPT ![i].revoked = TRUE]
  /\ revoking' = IF Standing(a) = {i} THEN revoking \ {a} ELSE revoking
  /\ UNCHANGED <<attested, halted, issued, claims, kept, verifierVars, shareVars, revokedFor>>

\* The read of the positions or a save fails, or the server stops.
CutRevocation(a) ==
  /\ a \in revoking
  /\ revoking' = revoking \ {a} /\ halted' = halted \cup {a}
  /\ UNCHANGED <<attested, position, issued, claims, kept, verifierVars, shareVars, revokedFor>>

-----------------------------------------------------------------------------
(* The verifier. *)

\* PeerStatusList asks the issuer when it keeps no list; the lock is not held, so
\* two calls may ask, and either answer is kept from the time its call began.
RequestStatusList ==
  /\ list.age = 0 /\ Cardinality(fetch) < MaxFetches
  /\ fetch' = fetch \cup {[age |-> Ttl, bits |-> Bits]}
  /\ UNCHANGED <<issuerVars, claims, kept, list, shareVars, revokedFor>>

KeepStatusList(kl) ==
  /\ kl \in fetch
  /\ list' = kl /\ fetch' = fetch \ {kl}
  /\ UNCHANGED <<issuerVars, claims, kept, shareVars, revokedFor>>

\* Variant: the kept list is used until another replaces it.
AgedUnlimited(kl) == [kl EXCEPT !.age = IF @ > 1 THEN @ - 1 ELSE @]

Aged(kl) == IF kl.age > 1 THEN [kl EXCEPT !.age = @ - 1] ELSE NoList

TickAttestations ==
  /\ list' = Aged(list) /\ fetch' = {Aged(kl) : kl \in fetch} \ {NoList}
  /\ revokedFor' = [i \in Positions |->
                      IF position[i].revoked /\ revokedFor[i] <= Ttl THEN revokedFor[i] + 1
                      ELSE revokedFor[i]]
  /\ UNCHANGED <<issuerVars, claims, kept, shareVars>>

\* VerifyPresentation, as far as the status list decides: "verified", as every view
\* of a link checks again, takes a list that can be read; a link to be opened takes
\* one that does not say "revoked".
Verifies(c) == list.age > 0 /\ c.idx \notin list.bits
Shareable(c) == list.age = 0 \/ c.idx \notin list.bits

-----------------------------------------------------------------------------
(* Share links. *)

\* activateAttestationShare loads the link, then verifies the presentation, and
\* saves the copy it loaded, whatever the row is by now.
OpenActivation(c) ==
  /\ activation = {} /\ shared.status = "pending" /\ c \in kept
  /\ activation' = {c}
  /\ UNCHANGED <<issuerVars, claims, kept, verifierVars, shared, revokedFor>>

ActivateAttestationShare(c) ==
  /\ activation = {c} /\ activation' = {}
  /\ shared' = IF Shareable(c) THEN [shared EXCEPT !.status = "active", !.shows = {c}]
               ELSE shared
  /\ UNCHANGED <<issuerVars, claims, kept, verifierVars, revokedFor>>

RevokeAttestationShare ==
  /\ ~shared.ended
  /\ shared' = [shared EXCEPT !.status = "revoked", !.ended = TRUE]
  /\ UNCHANGED <<issuerVars, claims, kept, verifierVars, activation, revokedFor>>

-----------------------------------------------------------------------------
AttestationsNext ==
  \/ \E a \in Attested, h \in Holders : OpenClaim(a, h)
  \/ \E c \in Credentials, h \in Holders : OpenReissue(c, h)
  \/ \E r \in claims : ClaimAttestationOffer(r) \/ ReissueCredential(r) \/ Refuse(r)
  \/ \E a \in Attested : \/ \E how \in {"revoked", "deleted"} : EndAttestation(a, how)
                        \/ CutRevocation(a) \/ \E i \in Positions : RevokePosition(a, i)
  \/ RequestStatusList \/ (\E kl \in fetch : KeepStatusList(kl)) \/ TickAttestations
  \/ \E c \in Credentials : OpenActivation(c) \/ ActivateAttestationShare(c)
  \/ RevokeAttestationShare

AttestationsSpec == AttestationsInit /\ [][AttestationsNext]_attestationVars

-----------------------------------------------------------------------------
AttestationsTypeOK ==
  /\ attested \in [Attested -> Row]
  /\ position \in [Positions -> [att : Attested \cup {Nobody}, revoked : BOOLEAN]]
  /\ revoking \subseteq Attested /\ halted \subseteq Attested
  /\ issued \subseteq Credentials /\ kept \subseteq issued
  /\ claims \subseteq Requests
  /\ list \in Lists /\ fetch \subseteq Lists
  /\ shared \in Shares /\ activation \subseteq Credentials
  /\ revokedFor \in [Positions -> 0..(Ttl + 1)]

\* A credential whose bit is not set is the one its attestation stands for now: for that
\* holder, at its only position, and active unless its bits are being set or their setting
\* was cut short.  Two identities racing for an offer, an identity replaced, a lost answer
\* asked for again, a revocation or a deletion in between leave no second one
\* (claimAttestationOffer, reissueCredential, RevokeAttestationStatus).
StandingIsCurrent ==
  \A c \in issued : ~position[c.idx].revoked =>
    /\ attested[c.att].subject = c.holder /\ Standing(c.att) = {c.idx}
    /\ attested[c.att].status = "active" \/ c.att \in revoking \cup halted

\* No two credentials share a place in the list, so one says nothing of another
\* (allocateStatusPosition, "nobody can link to it").
OneCredentialPerPosition == \A c, d \in issued : c.idx = d.idx => c = d

\* A published revocation is never taken back (RevokeAttestationStatus).
RevokedStays == [][\A i \in Positions : position[i].revoked => position'[i] = position[i]]_attestationVars

\* A revoked credential is shown as verified for at most as long as a list may
\* be kept, however long its answer took to arrive (PeerStatusList).
VerifiedIsFresh == \A c \in issued : Verifies(c) => revokedFor[c.idx] <= Ttl

\* POST .../revoke: "the holder ends it".  The link does not open again.
EndedShareStaysEnded == shared.ended => shared.status = "revoked"
=============================================================================
