--------------------------- MODULE IdentityStatus ---------------------------
(***************************************************************************)
(* A server's signed word about one identity it issued, and the servers    *)
(* that rely on it.  An answer is stamped with the start of the current    *)
(* window, so that one signature serves a whole window, and may be kept by *)
(* a relay on its way.  Whoever checks takes the time first, asks          *)
(* afterwards, and judges the answer by the time it took; its clock and    *)
(* the issuer's differ.                                                    *)
(*                                                                         *)
(* A statement is signed by the pinned root key (TrustChain has what can   *)
(* go wrong with that).                                                    *)
(***************************************************************************)
EXTENDS Integers

CONSTANTS Checks,      \* checks that may be under way at once
          StatusTtl,   \* IdentityStatusTTL, in ticks
          Window,      \* statusAssertionTTL
          ClockSkew,   \* IdentityStatusClockSkew
          MaxWait,     \* how long a check may take before its calls time out
          MaxBehind, MaxAhead   \* how far the issuer's clock is from the verifiers'

ASSUME IdentityStatusAssumption ==
  /\ Window \in Nat \ {0} /\ StatusTtl \in Nat /\ StatusTtl >= Window + MaxBehind
  /\ ClockSkew \in Nat /\ MaxWait \in Nat /\ MaxBehind \in Nat /\ MaxAhead \in Nat

VARIABLES identity,   \* what the issuer's rows say of the identity
          phase,      \* ticks since the window began
          signed,     \* statusAssertions: the answers signed in this window
          check,
          relay,      \* the answer a relay keeps, and for how long still
          ahead,      \* the issuer's clock minus the verifiers'
          endedFor    \* history: ticks since the identity was last active

statusVars == <<identity, phase, signed, check, relay, ahead, endedFor>>

Words == {"active", "revoked", "unknown"}
\* An answer is read, kept by a relay, and read again.
MaxAge == Window + StatusTtl + 2 * MaxWait
\* age: ticks since the statement's issuedAt.
NoAnswer == [word |-> "unknown", age |-> 0]
Answers == [word : Words, age : 0..MaxAge]
\* direct: the issuer answered this check itself. waited: ticks since it took the time.
IdleCheck == [at |-> "idle", answer |-> NoAnswer, direct |-> FALSE, waited |-> 0]
CheckStates == [at : {"idle", "begun", "read", "heard"}, answer : Answers,
                direct : BOOLEAN, waited : 0..MaxWait]
NoRelay == [answer |-> NoAnswer, left |-> 0]

IdentityStatusInit ==
  /\ identity = "active" /\ phase = 0 /\ signed = {}
  /\ check = [c \in Checks |-> IdleCheck]
  /\ relay = NoRelay
  /\ ahead \in (-MaxBehind)..MaxAhead
  /\ endedFor = 0

-----------------------------------------------------------------------------
\* The identity is revoked, or its rows are gone ("a restored backup or a reinstall").
EndIdentity(word) ==
  /\ identity # word /\ identity # "unknown" /\ word # "active"
  /\ identity' = word
  /\ UNCHANGED <<phase, signed, check, relay, ahead, endedFor>>

BeginCheck(c) ==
  /\ check[c].at = "idle"
  /\ check' = [check EXCEPT ![c].at = "begun"]
  /\ UNCHANGED <<identity, phase, signed, relay, ahead, endedFor>>

\* identityStatusFor: the rows are read each time; the stamp is the window's start.
ReadStatus(c) ==
  /\ check[c].at = "begun"
  /\ check' = [check EXCEPT ![c].at = "read", ![c].direct = TRUE,
                            ![c].answer = [word |-> identity, age |-> phase]]
  /\ UNCHANGED <<identity, phase, signed, relay, ahead, endedFor>>

\* A kept signature is found by everything it signs: it says the same.
Reusable(word) == {word}

\* Cache-Control: public, max-age=IdentityStatusTTL, counted from now.
Relayed(answer) == [answer |-> answer, left |-> StatusTtl]

\* The answer is signed, or a kept one taken; it is kept if known and if there is room,
\* and a relay may keep it too.
AnswerStatus(c) ==
  /\ check[c].at = "read"
  /\ \E word \in Reusable(check[c].answer.word) :
       LET answer == [check[c].answer EXCEPT !.word = word]
       IN /\ check' = [check EXCEPT ![c].at = "heard", ![c].answer = answer]
          /\ signed' \in {signed, signed \cup ({word} \ {"unknown"})}
          /\ relay' \in {relay, Relayed(answer)}
  /\ UNCHANGED <<identity, phase, ahead, endedFor>>

\* The relay answers in the issuer's place.
AnswerFromRelay(c) ==
  /\ check[c].at = "begun" /\ relay.left > 0
  /\ check' = [check EXCEPT ![c].at = "heard", ![c].answer = relay.answer]
  /\ UNCHANGED <<identity, phase, signed, relay, ahead, endedFor>>

\* checkPeerIdentityStatus and HolderIdentityStatus end, with an answer or without.
EndCheck(c) ==
  /\ check[c].at # "idle"
  /\ check' = [check EXCEPT ![c] = IdleCheck]
  /\ UNCHANGED <<identity, phase, signed, relay, ahead, endedFor>>

Tick(answer) == [answer EXCEPT !.age = IF @ < MaxAge THEN @ + 1 ELSE @]
TickStatus ==
  /\ \A c \in Checks : check[c].at # "idle" => check[c].waited < MaxWait
  /\ phase' = (phase + 1) % Window
  /\ signed' = IF phase' = 0 THEN {} ELSE signed
  /\ check' = [c \in Checks |->
                 CASE check[c].at = "idle" -> check[c]
                   [] check[c].at = "begun" -> [check[c] EXCEPT !.waited = @ + 1]
                   [] OTHER -> [check[c] EXCEPT !.waited = @ + 1, !.answer = Tick(@)]]
  /\ relay' = IF relay.left <= 1 THEN NoRelay
              ELSE [answer |-> Tick(relay.answer), left |-> relay.left - 1]
  /\ endedFor' = IF identity # "active" /\ endedFor < MaxAge + 1 THEN endedFor + 1 ELSE endedFor
  /\ UNCHANGED <<identity, ahead>>

IdentityStatusNext ==
  \/ \E word \in Words : EndIdentity(word)
  \/ \E c \in Checks : \/ BeginCheck(c) \/ ReadStatus(c) \/ AnswerStatus(c)
                       \/ AnswerFromRelay(c) \/ EndCheck(c)
  \/ TickStatus

IdentityStatusSpec == IdentityStatusInit /\ [][IdentityStatusNext]_statusVars

-----------------------------------------------------------------------------
(* What a check concludes: the answer's times on the issuer's clock against *)
(* the time the check took on its own.                                      *)

SinceIssued(c) == check[c].answer.age - check[c].waited - ahead

\* Variant: an answer is believed whenever it was signed.
BelievesStale(c) == SinceIssued(c) >= -ClockSkew

\* VerifyIdentityStatus, as far as times decide.
Believes(c) == SinceIssued(c) >= -ClockSkew /\ SinceIssued(c) <= StatusTtl

Verdict(c) ==
  IF check[c].at # "heard" \/ ~Believes(c) THEN "unverified"
  ELSE CASE check[c].answer.word = "active"  -> "verified"
         [] check[c].answer.word = "revoked" -> "revoked"
         [] check[c].answer.word = "unknown" -> "unverified"

-----------------------------------------------------------------------------
IdentityStatusTypeOK ==
  /\ identity \in Words /\ phase \in 0..(Window - 1) /\ signed \subseteq {"active", "revoked"}
  /\ check \in [Checks -> CheckStates]
  /\ relay \in [answer : Answers, left : 0..MaxAge]
  /\ ahead \in (-MaxBehind)..MaxAhead /\ endedFor \in 0..(MaxAge + 1)

Positive(n) == IF n > 0 THEN n ELSE 0

\* "It is the revocation latency": an identity that was withdrawn is verified for at
\* most the validity of one answer, whoever kept it on the way, longer only by the
\* issuer's fast clock and by the time the check itself took.
RevokedSoonSeen ==
  \A c \in Checks : Verdict(c) = "verified" =>
    endedFor <= StatusTtl + Positive(ahead) + check[c].waited

\* "A revocation changes the key and is stapled on the very next probe": the issuer's
\* own answer to a check begun after the identity ended does not call it active.
NextProbeTells ==
  \A c \in Checks : check[c].at = "heard" /\ check[c].direct /\ check[c].answer.word = "active" =>
    endedFor <= check[c].waited

\* The issuer's own answer is believed at once, while its clock is no further ahead than
\* allowed for ("a strictly-in-the-past issuedAt rejects every assertion from a server
\* whose clock is a second fast").
DirectAnswerBelieved ==
  \A c \in Checks : /\ check[c].at = "heard" /\ check[c].direct
                    /\ ahead + check[c].waited <= ClockSkew
                    => Believes(c)

\* What a check hears of an identity is neither too old nor thrown away.
StatusHeardRightly == RevokedSoonSeen /\ NextProbeTells /\ DirectAnswerBelieved

\* "Cacheable for exactly as long as the signature claims to be valid, so a relay's cache
\* can never outlive the statement inside it."
RelayNeverOutlives == relay.left > 0 => relay.answer.age <= StatusTtl
=============================================================================
