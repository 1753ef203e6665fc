------------------------------ MODULE Passkeys ------------------------------
(***************************************************************************)
(* How a person gets in: an address confirmed with a mailed code, a        *)
(* passkey registered for a new account or with a ticket, a sign-in with   *)
(* it, and the one-time code the app trades for a session.                 *)
(*                                                                         *)
(* One address.  Codes, proofs, ceremonies and grants are entries of       *)
(* registries in memory, each behind its mutex, that lapse on their own    *)
(* and are gone after a restart; accounts, passkeys and tickets are rows.  *)
(* A ceremony is answered by one request that takes the entry, then the    *)
(* proof, then runs the transaction.                                       *)
(***************************************************************************)
EXTENDS Integers, FiniteSets

CONSTANTS Ceremonies,   \* ceremonies begun, each with a key of its own
          Tickets, NoTicket,
          MaxCodes,     \* bound on the codes made
          Attempts,     \* EmailCodeAttempts
          PerHour,      \* EmailCodesPerHour
          MaxAccounts,  \* bound on the accounts made, and of their codes
          MaxRestarts

ASSUME PasskeysAssumption ==
  /\ NoTicket \notin Tickets /\ MaxCodes \in Nat /\ Attempts \in Nat \ {0} /\ PerHour \in Nat
  /\ MaxAccounts \in Nat \ {0} /\ MaxRestarts \in Nat

VARIABLES emailCode,  \* signupCodes.items: the code last sent to the address
          sends,      \* signupCodes.sends
          mails,      \* codes: being sent, sent, or failed
          proofs,     \* emailProofs, each named by the code it was given for
          ceremony,   \* passkeyCeremonies, and the requests that answer them
          grants,     \* passkeyCodes, each named by its ceremony
          account,    \* the users row of the address
          accountsMade, \* accounts made so far
          passkeys,   \* its passkeys rows, each named by its ceremony
          ticket,     \* passkeyTickets
          restarts,
          confirmed,  \* history: the codes typed in rightly
          signedUp,   \* history: the accounts made by signing up
          enrolled,   \* history: the tickets that paid for a passkey, once each
          sessions    \* history: the sessions given, of each ceremony

emailVars == <<emailCode, sends, mails>>
rowVars == <<account, accountsMade, passkeys, ticket>>
histories == <<confirmed, signedUp, enrolled, sessions>>
passkeyVars == <<emailVars, proofs, ceremony, grants, rowVars, restarts, histories>>

Codes == 1..MaxCodes
Accounts == 0..MaxAccounts
NoCode == [id |-> 0, tries |-> 0, cooling |-> FALSE]
NotBegun == [at |-> "none", kind |-> "login", user |-> 0, ticket |-> NoTicket, proof |-> 0]
CeremonyStates ==
  [at : {"none", "open", "taken", "paid", "over"}, kind : {"login", "signup", "enroll"},
   user : Accounts, ticket : Tickets \cup {NoTicket}, proof : 0..MaxCodes]
\* Bags of sessions would do; two already are one too many.
PerCeremony == [Ceremonies -> 0..2]

PasskeysInit ==
  /\ emailCode = NoCode /\ sends = 0 /\ mails = [c \in Codes |-> "none"]
  /\ proofs = {} /\ ceremony = [c \in Ceremonies |-> NotBegun] /\ grants = {}
  /\ account = 0 /\ accountsMade = 0 /\ passkeys = {}
  /\ ticket = [t \in Tickets |-> 0]    \* the account it lets in, 0 for no row
  /\ restarts = 0
  /\ confirmed = {} /\ signedUp = 0 /\ enrolled = [t \in Tickets |-> 0]
  /\ sessions = [c \in Ceremonies |-> 0]

-----------------------------------------------------------------------------
(* Confirming the address. *)

\* register/email up to the send: emailTaken, issue.
IssueEmailCode(c) ==
  /\ account = 0 /\ ~emailCode.cooling /\ sends < PerHour
  /\ mails[c] = "none" /\ \A d \in Codes : d < c => mails[d] # "none"
  /\ emailCode' = [id |-> c, tries |-> 0, cooling |-> TRUE]
  /\ sends' = sends + 1 /\ mails' = [mails EXCEPT ![c] = "sending"]
  /\ UNCHANGED <<proofs, ceremony, grants, rowVars, restarts, histories>>

SendSignupCode(c) ==
  /\ mails[c] = "sending" /\ mails' = [mails EXCEPT ![c] = "sent"]
  /\ UNCHANGED <<emailCode, sends, proofs, ceremony, grants, rowVars, restarts, histories>>

\* The send fails, or the hourly budgets refuse it: forget.
ForgetEmailCode(c) ==
  /\ mails[c] = "sending" /\ mails' = [mails EXCEPT ![c] = "failed"]
  /\ emailCode' = NoCode
  /\ sends' = IF sends > 0 THEN sends - 1 ELSE 0
  /\ UNCHANGED <<proofs, ceremony, grants, rowVars, restarts, histories>>

\* register/verify: the right code is spent for a proof.
RedeemEmailCode(c) ==
  /\ emailCode.id = c /\ c # 0
  /\ emailCode' = NoCode
  /\ proofs' = proofs \cup {c} /\ confirmed' = confirmed \cup {c}
  /\ UNCHANGED <<sends, mails, ceremony, grants, rowVars, restarts, signedUp, enrolled, sessions>>

\* A wrong one costs an attempt, and the last attempt costs the code.
GuessEmailCode ==
  /\ emailCode.id # 0
  /\ emailCode' = IF emailCode.tries + 1 >= Attempts THEN NoCode
                  ELSE [emailCode EXCEPT !.tries = @ + 1]
  /\ UNCHANGED <<sends, mails, proofs, ceremony, grants, rowVars, restarts, histories>>

-----------------------------------------------------------------------------
(* Ceremonies. *)

BeginCeremony(c, kind, user, t, proof) ==
  /\ ceremony[c].at = "none"
  /\ ceremony' = [ceremony EXCEPT ![c] = [at |-> "open", kind |-> kind, user |-> user,
                                          ticket |-> t, proof |-> proof]]
  /\ UNCHANGED <<emailVars, proofs, grants, rowVars, restarts, histories>>

\* The proof is looked at (peek), the account not yet written.
BeginSignup(c, proof) == account = 0 /\ proof \in proofs /\ BeginCeremony(c, "signup", 0, NoTicket, proof)
Valid(t, user) == user # 0 /\ ticket[t] = user /\ account = user
BeginEnroll(c, t) == Valid(t, account) /\ BeginCeremony(c, "enroll", account, t, 0)
BeginLogin(c) == BeginCeremony(c, "login", 0, NoTicket, 0)

\* Both finish routes take the ceremony whatever happens next.
TakeCeremony(c) ==
  /\ ceremony[c].at = "open"
  /\ ceremony' = [ceremony EXCEPT ![c].at = "taken"]
  /\ UNCHANGED <<emailVars, proofs, grants, rowVars, restarts, histories>>

Ends(c) == ceremony' = [ceremony EXCEPT ![c].at = "over"]

\* The authenticator's answer does not verify, or the caller is gone.
RefuseCeremony(c) ==
  /\ ceremony[c].at \in {"taken", "paid"}
  /\ Ends(c)
  /\ UNCHANGED <<emailVars, proofs, grants, rowVars, restarts, histories>>

\* login/finish: the passkey that answered is one of the account's.
FinishLogin(c) ==
  /\ ceremony[c].at = "taken" /\ ceremony[c].kind = "login" /\ passkeys # {}
  /\ ceremony' = [ceremony EXCEPT ![c].at = "over", ![c].user = account]
  /\ grants' = grants \cup {c}
  /\ UNCHANGED <<emailVars, proofs, rowVars, restarts, histories>>

\* Variant: the proof is left for another sheet.
ProofLeft(c) == proofs

\* emailProofs.take
ProofTaken(c) == proofs \ {ceremony[c].proof}

PayWithProof(c) ==
  /\ ceremony[c].at = "taken" /\ ceremony[c].kind = "signup" /\ ceremony[c].proof \in proofs
  /\ proofs' = ProofTaken(c)
  /\ ceremony' = [ceremony EXCEPT ![c].at = "paid"]
  /\ UNCHANGED <<emailVars, grants, rowVars, restarts, histories>>

\* The account and its passkey in one transaction; the address is unique.
SaveSignup(c) ==
  /\ ceremony[c].at = "paid" /\ account = 0 /\ accountsMade < MaxAccounts
  /\ accountsMade' = accountsMade + 1 /\ account' = accountsMade + 1
  /\ signedUp' = signedUp + 1 /\ passkeys' = {c}
  /\ ceremony' = [ceremony EXCEPT ![c].at = "over", ![c].user = accountsMade + 1]
  /\ grants' \in {grants, grants \cup {c}}    \* if an app asked
  /\ UNCHANGED <<emailVars, proofs, ticket, restarts, confirmed, enrolled, sessions>>

\* FindPasskeyTicket, once more, inside the transaction.
TicketStands(c) == Valid(ceremony[c].ticket, ceremony[c].user)

\* The ticket and the passkey it pays for in one transaction.
SaveEnroll(c) ==
  /\ ceremony[c].at = "taken" /\ ceremony[c].kind = "enroll" /\ TicketStands(c)
  /\ passkeys' = passkeys \cup {c} /\ ticket' = [ticket EXCEPT ![ceremony[c].ticket] = 0]
  /\ enrolled' = [enrolled EXCEPT ![ceremony[c].ticket] = IF @ < 2 THEN @ + 1 ELSE 2]
  /\ Ends(c) /\ grants' \in {grants, grants \cup {c}}
  /\ UNCHANGED <<emailVars, proofs, account, accountsMade, restarts, confirmed, signedUp, sessions>>

\* passkeyCodes.take
GrantTaken(c) == grants \ {c}

\* The code is spent by whoever presents it; a session needs the account.
CollectSession(c) ==
  /\ c \in grants /\ grants' = GrantTaken(c)
  /\ sessions' \in {sessions} \cup
       (IF account # 0 /\ account = ceremony[c].user
        THEN {[sessions EXCEPT ![c] = IF @ < 2 THEN @ + 1 ELSE 2]} ELSE {})
  /\ UNCHANGED <<emailVars, proofs, ceremony, rowVars, restarts, confirmed, signedUp, enrolled>>

-----------------------------------------------------------------------------
\* A signed-in person lets another device in; the operator lets in anyone, and makes
\* the account if there is none (EnsurePasskeyAccount).
IssueTicket(t) ==
  /\ ticket[t] = 0 /\ enrolled[t] = 0
  /\ IF account # 0 THEN UNCHANGED <<account, accountsMade>>
     ELSE accountsMade < MaxAccounts /\ accountsMade' = accountsMade + 1 /\ account' = accountsMade + 1
  /\ ticket' = [ticket EXCEPT ![t] = account']
  /\ UNCHANGED <<emailVars, proofs, ceremony, grants, passkeys, restarts, histories>>

\* Variant: counted before the transaction, by two requests at once.
SpareAsCounted == TRUE

\* DELETE /api/passkeys/{id}: counted and removed in one transaction.
Spare == Cardinality(passkeys) > 1
RemovePasskey(p) ==
  /\ p \in passkeys /\ Spare /\ passkeys' = passkeys \ {p}
  /\ UNCHANGED <<emailVars, proofs, ceremony, grants, account, accountsMade, ticket, restarts, histories>>

\* PurgeAccount: passkeys and tickets cascade.
CloseAccount ==
  /\ account # 0 /\ account' = 0 /\ passkeys' = {}
  /\ ticket' = [t \in Tickets |-> 0]
  /\ UNCHANGED <<emailVars, proofs, ceremony, grants, accountsMade, restarts, histories>>

-----------------------------------------------------------------------------
\* Whatever lapses: the pause between two codes, a code, the oldest counted send, a
\* proof, a ceremony, a grant, a ticket.
Lapse ==
  \/ /\ emailCode.cooling /\ emailCode' = [emailCode EXCEPT !.cooling = FALSE]
     /\ UNCHANGED <<sends, mails, proofs, ceremony, grants, rowVars>>
  \/ /\ ~emailCode.cooling /\ emailCode.id # 0 /\ emailCode' = NoCode
     /\ UNCHANGED <<sends, mails, proofs, ceremony, grants, rowVars>>
  \/ /\ sends > 0 /\ sends' = sends - 1
     /\ UNCHANGED <<emailCode, mails, proofs, ceremony, grants, rowVars>>
  \/ \E c \in proofs : proofs' = proofs \ {c} /\ UNCHANGED <<emailVars, ceremony, grants, rowVars>>
  \/ \E c \in Ceremonies : /\ ceremony[c].at = "open" /\ Ends(c)
                           /\ UNCHANGED <<emailVars, proofs, grants, rowVars>>
  \/ \E c \in grants : grants' = grants \ {c} /\ UNCHANGED <<emailVars, proofs, ceremony, rowVars>>
  \/ \E t \in Tickets : /\ ticket[t] # 0 /\ ticket' = [ticket EXCEPT ![t] = 0]
                        /\ UNCHANGED <<emailVars, proofs, ceremony, grants, account, accountsMade, passkeys>>
LapsePasskeys == Lapse /\ UNCHANGED <<restarts, histories>>

\* The process stops: what was in memory is gone, and every request under way.
RestartPasskeys ==
  /\ restarts < MaxRestarts /\ restarts' = restarts + 1
  /\ emailCode' = NoCode /\ sends' = 0 /\ proofs' = {} /\ grants' = {}
  /\ mails' = [c \in Codes |-> IF mails[c] = "sending" THEN "failed" ELSE mails[c]]
  /\ ceremony' = [c \in Ceremonies |-> IF ceremony[c].at \in {"open", "taken", "paid"}
                                       THEN [ceremony[c] EXCEPT !.at = "over"] ELSE ceremony[c]]
  /\ UNCHANGED <<rowVars, histories>>

PasskeysNext ==
  \/ \E c \in Codes : IssueEmailCode(c) \/ SendSignupCode(c) \/ ForgetEmailCode(c) \/ RedeemEmailCode(c)
  \/ GuessEmailCode
  \/ \E c \in Ceremonies :
       \/ (\E p \in proofs : BeginSignup(c, p)) \/ (\E t \in Tickets : BeginEnroll(c, t)) \/ BeginLogin(c)
       \/ TakeCeremony(c) \/ RefuseCeremony(c) \/ FinishLogin(c) \/ PayWithProof(c)
       \/ SaveSignup(c) \/ SaveEnroll(c) \/ CollectSession(c) \/ RemovePasskey(c)
  \/ \E t \in Tickets : IssueTicket(t)
  \/ CloseAccount \/ LapsePasskeys \/ RestartPasskeys

PasskeysSpec == PasskeysInit /\ [][PasskeysNext]_passkeyVars

-----------------------------------------------------------------------------
PasskeysTypeOK ==
  /\ emailCode \in [id : 0..MaxCodes, tries : 0..(Attempts - 1), cooling : BOOLEAN]
  /\ sends \in 0..PerHour /\ mails \in [Codes -> {"none", "sending", "sent", "failed"}]
  /\ proofs \subseteq confirmed /\ confirmed \subseteq Codes
  /\ ceremony \in [Ceremonies -> CeremonyStates] /\ grants \subseteq Ceremonies
  /\ account \in Accounts /\ accountsMade \in Accounts /\ passkeys \subseteq Ceremonies
  /\ ticket \in [Tickets -> Accounts] /\ restarts \in 0..MaxRestarts
  /\ signedUp \in Accounts /\ enrolled \in [Tickets -> 0..2] /\ sessions \in PerCeremony

\* "One confirmation makes one account": however many ceremonies began with the same
\* proof, and although the account may be closed and made again, no more accounts were
\* signed up for than addresses confirmed (register/finish).
OneConfirmationOneAccount == signedUp <= Cardinality(confirmed)

\* A ticket pays for one passkey, although every ceremony that began with it found it
\* good; a ceremony is worth one session, of the account it was finished for
\* (register/finish, passkeyCodes, /api/passkeys/token).
WorthOnce ==
  /\ \A t \in Tickets : enrolled[t] <= 1
  /\ \A c \in Ceremonies : sessions[c] <= 1 /\ (sessions[c] = 1 => ceremony[c].user # 0)

\* "The last passkey cannot be removed: there would be no way back in": an account that
\* has a passkey keeps one, whatever overlaps or fails, until it is closed.
WayInStays == [][passkeys # {} /\ account' = account => passkeys' # {}]_passkeyVars

\* "forget withdraws a code that never went out": nothing but its redemption, a newer code,
\* wrong guesses, its expiry or a restart takes a code away that was sent.
SentCodeKept ==
  [][\A c \in Codes :
       emailCode.id = c /\ mails[c] = "sent" /\ emailCode.cooling /\ emailCode.tries < Attempts - 1
         => \/ emailCode'.id = c \/ c \in confirmed' \/ restarts' # restarts]_passkeyVars
=============================================================================
