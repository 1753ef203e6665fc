--------------------------- MODULE Presentations ---------------------------
(***************************************************************************)
(* One person asks another to show an attestation.  The other app makes a  *)
(* presentation for this check, signed with the identity's key; the server *)
(* verifies it along both chains, asking other servers one after another,  *)
(* and keeps the verdict with one guarded UPDATE.                          *)
(*                                                                         *)
(* A verification asks about three links of the chain: the key the         *)
(* credential is signed with, its place in the status list, and the        *)
(* identity it was issued to.  What was kept of an answer may still be     *)
(* used for StaleFor ticks after a link ended; TrustChain, Attestations and    *)
(* IdentityStatus have where that bound comes from.                        *)
(***************************************************************************)
EXTENDS Integers

CONSTANTS Checkings,     \* attestationChecks rows
          Replies,       \* answers that may be under way at once
          CheckTtl,      \* AttestationCheckTTL, in ticks
          PresentationMaxAge,        \* PresentationMaxAge
          Skew,          \* CredentialClockSkew
          StaleFor,          \* how long what was kept of another server is used
          MaxCalls,      \* how long the calls of one verification take at most
          Fast           \* how far the holder's clock is ahead

ASSUME PresentationsAssumption ==
  /\ Checkings # {}
  /\ CheckTtl \in Nat \ {0} /\ PresentationMaxAge \in Nat /\ Skew \in Nat /\ StaleFor \in Nat
  /\ MaxCalls \in Nat /\ Fast \in Nat

VARIABLES asked,     \* the attestationChecks rows
          shown,     \* the presentation made last for each of them
          showing,   \* the answers being verified
          ended,     \* the links of the chain that ended
          endedAgo,  \* history: ticks since they did
          lapsed     \* the credential has expired

presentationVars == <<asked, shown, showing, ended, endedAgo, lapsed>>

Chain == {"key", "standing", "identity"}
States == {"verified", "expired", "revoked", "spoofed", "dnsMissing", "unverified", "invalid"}
Oldest == PresentationMaxAge + Fast + MaxCalls + 1
LongEnded == StaleFor + MaxCalls + 1
NotMade == -1
Rows == [status : {"none", "open", "answered"}, left : 0..CheckTtl, verdict : States]
\* made: the check the presentation was made for. age: of its key binding.
\* waited: ticks since the verification took the time.
\* verdict: the state so far.
Elsewhere == "elsewhere"    \* a check of another server
Showings == [at : {"idle", "key", "standing", "binding", "identity", "decided"},
             for : Checkings, made : Checkings \cup {Elsewhere}, age : 0..Oldest, waited : 0..MaxCalls,
             verdict : States]
SomeCheck == CHOOSE c \in Checkings : TRUE
Free(a) == showing[a].at = "idle"
NoShowing == [at |-> "idle", for |-> SomeCheck, made |-> Elsewhere, age |-> 0,
              waited |-> 0, verdict |-> "verified"]

PresentationsInit ==
  /\ asked = [c \in Checkings |-> [status |-> "none", left |-> 0, verdict |-> "unverified"]]
  /\ shown = [c \in Checkings |-> NotMade]
  /\ showing = [a \in Replies |-> NoShowing]
  /\ ended = {} /\ endedAgo = [l \in Chain |-> 0] /\ lapsed \in BOOLEAN

-----------------------------------------------------------------------------
\* createAttestationCheck: the row has a nonce of its own.
CreateAttestationCheck(c) ==
  /\ asked[c].status = "none"
  /\ asked' = [asked EXCEPT ![c].status = "open", ![c].left = CheckTtl]
  /\ UNCHANGED <<shown, showing, ended, endedAgo, lapsed>>

\* openCheck
Answerable(c) == asked[c].status = "open" /\ asked[c].left > 0

\* The other app reads who asks (probeAttestationCheck) and signs what its person picks
\* (PresentCredential, on the device), again if it is asked to.
PresentCredential(c) ==
  /\ Answerable(c) /\ shown[c] # 0
  /\ shown' = [shown EXCEPT ![c] = 0]
  /\ UNCHANGED <<asked, showing, ended, endedAgo, lapsed>>

\* answerAttestationCheck finds the check its state names; the presentation that comes
\* with it may be an older one, or one made for another check. Whether the credential has
\* expired is judged by this time.
OpenAnswer(a, c, d) ==
  /\ Free(a) /\ Answerable(c)
  /\ d # Elsewhere => shown[d] # NotMade
  /\ showing' = [showing EXCEPT ![a] =
                   [at |-> "key", for |-> c, made |-> d, waited |-> 0,
                    age |-> IF d = Elsewhere THEN 0 ELSE shown[d],
                    verdict |-> IF lapsed THEN "expired" ELSE "verified"]]
  /\ UNCHANGED <<asked, shown, ended, endedAgo, lapsed>>

-----------------------------------------------------------------------------
(* VerifyPresentation, call by call. *)

\* Variant: what could not be asked is not held against the credential.
HeardLeniently(l, word) ==
  (IF l \in ended THEN {word} ELSE {"verified"})
  \cup (IF l \notin ended \/ endedAgo[l] <= StaleFor THEN {"verified"} ELSE {}) \cup {"verified"}

\* What is heard of a link of the chain: that it holds, also from what was kept; the
\* word for its end; or nothing.
Heard(l, word) ==
  {"unverified"} \cup (IF l \in ended THEN {word} ELSE {})
                 \cup (IF l \notin ended \/ endedAgo[l] <= StaleFor THEN {"verified"} ELSE {})

\* hold: the first reason to hold the credential back stays.
Hold(a, state) == IF showing[a].verdict = "verified" THEN state ELSE showing[a].verdict

Continue(a, at, state) == showing' = [showing EXCEPT ![a].at = at, ![a].verdict = state]
Decide(a, state) == Continue(a, "decided", state)
Asks(a) == UNCHANGED <<asked, shown, ended, endedAgo, lapsed>>

\* credentialIssuerKey and VerifyCredential: without the key nothing else is looked at.
FindIssuerKey(a) ==
  /\ showing[a].at = "key"
  /\ \E word \in Heard("key", "dnsMissing") \cup Heard("key", "spoofed") :
       IF word # "verified" THEN Decide(a, word)
       ELSE Continue(a, "standing", showing[a].verdict)
  /\ Asks(a)

\* credentialStatus
ReadCredentialStatus(a) ==
  /\ showing[a].at = "standing"
  /\ \E word \in Heard("standing", "revoked") : Continue(a, "binding", Hold(a, word))
  /\ Asks(a)

\* VerifyKeyBinding: made for this check, not in the future and not too old, by the time
\* the verification took at its start.
Bound(a) ==
  LET seen == showing[a].age - showing[a].waited - Fast
  IN showing[a].made = showing[a].for /\ seen >= -Skew /\ seen <= PresentationMaxAge
VerifyKeyBinding(a) ==
  /\ showing[a].at = "binding"
  /\ IF Bound(a) THEN Continue(a, "identity", showing[a].verdict) ELSE Decide(a, "invalid")
  /\ Asks(a)

\* HolderIdentityStatus
AskHolderIdentity(a) ==
  /\ showing[a].at = "identity"
  /\ \E word \in Heard("identity", "revoked") : Decide(a, Hold(a, word))
  /\ Asks(a)

\* WHERE status = open AND expiresAt > now
StillOpen(c) == Answerable(c)

\* The verdict is kept; what is no presentation for this check does not use it up.
KeepAnswer(a) ==
  /\ showing[a].at = "decided"
  /\ asked' = IF showing[a].verdict # "invalid" /\ StillOpen(showing[a].for)
              THEN [asked EXCEPT ![showing[a].for].status = "answered",
                                 ![showing[a].for].verdict = showing[a].verdict]
              ELSE asked
  /\ showing' = [showing EXCEPT ![a] = NoShowing]
  /\ UNCHANGED <<shown, ended, endedAgo, lapsed>>

-----------------------------------------------------------------------------
\* The issuer's pin or key is gone, the credential or the identity is revoked.
EndLink(l) ==
  /\ l \notin ended /\ ended' = ended \cup {l}
  /\ UNCHANGED <<asked, shown, showing, endedAgo, lapsed>>

ExpireCredential ==
  /\ ~lapsed /\ lapsed' = TRUE
  /\ UNCHANGED <<asked, shown, showing, ended, endedAgo>>

TickPresentations ==
  /\ \A a \in Replies : ~Free(a) => showing[a].waited < MaxCalls
  /\ asked' = [c \in Checkings |-> [asked[c] EXCEPT !.left = IF @ > 0 THEN @ - 1 ELSE 0]]
  /\ shown' = [c \in Checkings |-> IF shown[c] \in {NotMade, Oldest - MaxCalls} THEN shown[c] ELSE shown[c] + 1]
  /\ showing' = [a \in Replies |-> IF Free(a) THEN showing[a]
                   ELSE [showing[a] EXCEPT !.age = @ + 1, !.waited = @ + 1]]
  /\ endedAgo' = [l \in Chain |-> IF l \in ended /\ endedAgo[l] < LongEnded
                                  THEN endedAgo[l] + 1 ELSE endedAgo[l]]
  /\ UNCHANGED <<ended, lapsed>>

PresentationsNext ==
  \/ \E c \in Checkings : CreateAttestationCheck(c) \/ PresentCredential(c)
  \/ \E a \in Replies :
       \/ \E c \in Checkings, d \in Checkings \cup {Elsewhere} : OpenAnswer(a, c, d)
       \/ FindIssuerKey(a) \/ ReadCredentialStatus(a) \/ VerifyKeyBinding(a)
       \/ AskHolderIdentity(a) \/ KeepAnswer(a)
  \/ \E l \in Chain : EndLink(l)
  \/ ExpireCredential \/ TickPresentations

PresentationsSpec == PresentationsInit /\ [][PresentationsNext]_presentationVars

-----------------------------------------------------------------------------
PresentationsTypeOK ==
  /\ asked \in [Checkings -> Rows]
  /\ shown \in [Checkings -> {NotMade} \cup 0..Oldest]
  /\ showing \in [Replies -> Showings]
  /\ ended \subseteq Chain /\ endedAgo \in [Chain -> 0..LongEnded] /\ lapsed \in BOOLEAN

\* "A check that could not be completed is reported as unverified, never as verified":
\* when a check becomes verified, each link of the chain held until lately, and the
\* holder's key signed for this check, lately too; and nothing is called revoked, expired
\* or missing that is not (VerifyPresentation, whatever changes between its calls).
VerdictTrue ==
  [][\A c \in Checkings : asked[c].status = "open" /\ asked'[c].status = "answered" =>
       CASE asked'[c].verdict = "verified" ->
              /\ \A l \in ended : endedAgo[l] <= StaleFor + MaxCalls
              /\ \E a \in Replies : /\ showing[a].at = "decided" /\ showing[a].made = c
                                    /\ showing[a].age <= PresentationMaxAge + Fast + MaxCalls
         [] asked'[c].verdict = "revoked" -> ended \cap {"standing", "identity"} # {}
         [] asked'[c].verdict = "expired" -> lapsed
         [] asked'[c].verdict \in {"dnsMissing", "spoofed"} -> "key" \in ended
         [] OTHER -> asked'[c].verdict = "unverified"]_presentationVars

\* "A check is answered once", while it is open: of answers that were all verified for an
\* open check, the later ones and the late ones change nothing (answerAttestationCheck).
AnsweredOnceInTime ==
  [][\A c \in Checkings : asked[c].status # "none" /\ asked'[c].verdict # asked[c].verdict =>
       asked[c].status = "open" /\ asked[c].left > 0]_presentationVars

\* A check gets one answer, a true one, and in time.
ChecksAnsweredRightly == VerdictTrue /\ AnsweredOnceInTime
=============================================================================
