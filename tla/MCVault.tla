------------------------------ MODULE MCVault ------------------------------
(***************************************************************************)
(* What a person keeps: the keys that open sealed records, the credentials *)
(* issued as attestations, and the reminders of entries.  They share no    *)
(* row, so each behaviour follows one of them, named by part.  Two parts   *)
(* are split further: a PATCH and a link that names the record change      *)
(* nothing of the keys, nor a share link of the credentials it shows, so   *)
(* they have parts of their own, "records" without changes of memberships  *)
(* and "shares" without credentials that move.                             *)
(***************************************************************************)
EXTENDS Sealed, Attestations, Reminders, TLC

VARIABLE part

vaultVars == <<part, sealedVars, attestationVars, reminderVars>>

VaultInit == /\ part \in {"keys", "records", "credentials", "shares", "reminders"}
             /\ SealedInit /\ AttestationsInit /\ RemindersInit
             /\ part \notin {"credentials", "shares"} => \A a \in Attested : attested[a].subject = Nobody
             /\ part # "reminders" => reminder.kind = "change"

VaultNext ==
  \/ /\ part \in {"keys", "records"} /\ SealedNext
     /\ part = "keys" => pending'.pc # "patch" /\ (entry'.linked => entry.linked)
     /\ part = "records" => UNCHANGED change
     /\ UNCHANGED <<part, attestationVars, reminderVars>>
  \/ /\ part \in {"credentials", "shares"} /\ AttestationsNext
     /\ part = "credentials" => UNCHANGED shareVars
     /\ part = "shares" => \A r \in claims' : r.kind = "claim"
     /\ UNCHANGED <<part, sealedVars, reminderVars>>
  \/ part = "reminders" /\ RemindersNext /\ UNCHANGED <<part, sealedVars, attestationVars>>

Symmetry == Permutations(Changes)

VaultSpec == VaultInit /\ [][VaultNext]_vaultVars
=============================================================================
