------------------------------ MODULE MCTrust ------------------------------
(***************************************************************************)
(* What a server believes: the keys it ties to a domain, another server's  *)
(* word on an identity, a credential that is shown to it, and the proofs   *)
(* with which a person gets into an account.  The four share no variable,  *)
(* so each behaviour follows one of them, named by part.                   *)
(***************************************************************************)
EXTENDS TrustChain, IdentityStatus, Presentations, Passkeys, TLC

VARIABLE part

trustPartVars == <<part, trustVars, statusVars, presentationVars, passkeyVars>>

TrustInit ==
  /\ part \in {"keys", "words", "presentations", "ways in"}
  /\ TrustChainInit /\ IdentityStatusInit /\ PresentationsInit /\ PasskeysInit
  /\ part # "words" => ahead = 0
  /\ part # "presentations" => ~lapsed

TrustNext ==
  \/ part = "keys" /\ TrustChainNext /\ UNCHANGED <<part, statusVars, presentationVars, passkeyVars>>
  \/ part = "words" /\ IdentityStatusNext /\ UNCHANGED <<part, trustVars, presentationVars, passkeyVars>>
  \/ part = "presentations" /\ PresentationsNext /\ UNCHANGED <<part, trustVars, statusVars, passkeyVars>>
  \/ part = "ways in" /\ PasskeysNext /\ UNCHANGED <<part, trustVars, statusVars, presentationVars>>

TrustSpec == TrustInit /\ [][TrustNext]_trustPartVars

\* Walks and ceremonies differ in nothing but their names.
Symmetry == Permutations(Walks) \cup Permutations(Ceremonies)

\* The variables of the four components stay in their types.
TrustTypeOK ==
  /\ part \in {"keys", "words", "presentations", "ways in"}
  /\ TrustChainTypeOK /\ IdentityStatusTypeOK /\ PresentationsTypeOK /\ PasskeysTypeOK

\* What was confirmed or paid for once is used once: a code typed in makes one account,
\* a ticket one passkey and a passkey ceremony one session, whichever ceremonies and
\* requests overlap (register/finish, /token); with all variables in their types.
ConfirmedOnce == TrustTypeOK /\ OneConfirmationOneAccount /\ WorthOnce
=============================================================================
