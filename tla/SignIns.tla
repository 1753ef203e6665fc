------------------------------ MODULE SignIns ------------------------------
(***************************************************************************)
(* Signing in at one service with revoked, for one person and workspace:   *)
(* the signIns row, the link that carries what the service may read, the   *)
(* codes and access tokens (kept in memory), and the person's pause,       *)
(* resume and disconnect, each of which loads the row before its           *)
(* transaction.  A save writes only the columns that differ from the copy  *)
(* it loaded.                                                              *)
(*                                                                         *)
(* A ticket, code or token that expires or is lost in a restart is one     *)
(* that nobody presents again.  A link detached by a disconnect with a new *)
(* ID is its owner's revoked link and no longer found from the row.        *)
(***************************************************************************)
EXTENDS Integers, FiniteSets

CONSTANTS Controls,         \* pause, resume and disconnect requests under way at once
          ShareKeys,        \* vault keys a service may ask for; "name" is SignInNameKey
          MaxTickets,       \* bound on the requests open in the app at once
          MaxCodes,         \* bound on the codes and tokens at once
          MaxGenerations,   \* bound on disconnects
          MaxShares         \* bound on the grants minted

ASSUME SignInsAssumption ==
  /\ MaxTickets \in Nat /\ MaxCodes \in Nat
  /\ MaxGenerations \in Nat /\ MaxShares \in Nat

VARIABLES signIn,      \* the signIns row
          signInLink,  \* the link found from it
          control,     \* the control requests between load and transaction
          linkEdit,    \* the owner's PATCH of the link between load and save
          tickets,     \* consent screens open in the app
          codes,       \* codes not presented yet
          access,      \* access tokens
          reads,       \* presented ones that passed SignInAllows, not answered yet
          shares,      \* grants minted so far; also the newest grant token
          ended,       \* history: grant tokens given out before a disconnect
          reopened,    \* history: the owner themselves brought the revoked link back
          tied         \* history: an answer gave a subject other than its sign-in's

signInVars == <<signIn, signInLink, control, linkEdit, tickets, codes, access, reads,
                shares, ended, reopened, tied>>

NoRow == [status |-> "none", generation |-> 0, version |-> 0, newId |-> FALSE]
Rows == [status : {"none", "active", "paused", "disconnected"},
         generation : 0..MaxGenerations, version : 0..MaxGenerations, newId : BOOLEAN]
NoLink == [status |-> "none", held |-> FALSE, id |-> 0, token |-> 0, keys |-> {}]
LinkRows == [status : {"none", "active", "paused", "revoked"}, held : BOOLEAN,
             id : 0..MaxShares, token : 0..MaxShares, keys : SUBSET ShareKeys]
\* What a code and its access token carry: the generation and, as history, the subject
\* version the person signed in under. The grant that goes with them is left out: it
\* reads by the link's token, whatever becomes of the code.
Issued == [generation : 0..MaxGenerations, version : 0..MaxGenerations]
LiveRow(row) == row.status \in {"active", "paused"}
IdleControl == [op |-> "idle", row |-> NoRow]
\* The columns of the link an owner's PATCH of its status may write, and its id.
Columns(row) == [id |-> row.id, status |-> row.status, held |-> row.held]
NoEdit == [to |-> "none", loaded |-> Columns(NoLink)]

SignInsInit ==
  /\ signIn = NoRow /\ signInLink = NoLink
  /\ control = [c \in Controls |-> IdleControl]
  /\ linkEdit = NoEdit
  /\ tickets = 0 /\ codes = {} /\ access = {} /\ reads = {}
  /\ shares = 0 /\ ended = {} /\ reopened = FALSE /\ tied = FALSE

-----------------------------------------------------------------------------
(* Signing in. *)

\* The app opens the request: declined while the service is paused.
OpenRequest ==
  /\ signIn.status # "paused" /\ tickets < MaxTickets
  /\ tickets' = tickets + 1
  /\ UNCHANGED <<signIn, signInLink, control, linkEdit, codes, access, reads, shares,
                 ended, reopened, tied>>

\* Variant: an existing link keeps its token.
SharedKeepingToken(chosen) ==
  [signInLink EXCEPT !.status = "active", !.keys = chosen,
                     !.id = IF signInLink.status = "none" THEN shares + 1 ELSE @,
                     !.token = IF signInLink.status = "none" THEN shares + 1 ELSE @]

\* SaveSignInGrant: the link found from the row or a new one, with a fresh token.
Shared(chosen) ==
  [signInLink EXCEPT !.status = "active", !.keys = chosen, !.token = shares + 1,
                     !.id = IF signInLink.status = "none" THEN shares + 1 ELSE @]

\* DropSignInNameGrant: a link left with nothing to read is revoked.
NameDropped ==
  IF signInLink.status = "none" \/ "name" \notin signInLink.keys THEN signInLink
  ELSE [signInLink EXCEPT !.keys = @ \ {"name"},
                          !.status = IF signInLink.keys = {"name"} THEN "revoked" ELSE @]

\* RecordSignIn.
Recorded == [signIn EXCEPT !.status = "active", !.newId = FALSE]

\* Variant: the pause is not looked at again inside the transaction.
MayApproveUnchecked == TRUE
\* A pause since the request opened refuses the approval.
MayApprove == signIn.status # "paused"

\* The signed approval: the ticket is spent, whatever becomes of it. Link and row are
\* saved in one transaction, and the code carries the row's generation.
Approve ==
  /\ tickets > 0 /\ tickets' = tickets - 1
  /\ IF ~MayApprove
     THEN UNCHANGED <<signIn, signInLink, codes, shares, reopened>>
     ELSE \E chosen \in SUBSET ShareKeys, nameAsked \in BOOLEAN :
            /\ chosen # {} => shares < MaxShares
            /\ Cardinality(codes \cup access \cup reads) < MaxCodes
            /\ signInLink' = CASE chosen # {} -> Shared(chosen)
                               [] chosen = {} /\ nameAsked -> NameDropped
                               [] OTHER -> signInLink
            /\ shares' = IF chosen = {} THEN shares ELSE shares + 1
            /\ reopened' = (reopened /\ chosen = {} /\ LiveRow(signInLink'))
            /\ signIn' = Recorded
            /\ codes' = codes \cup {[generation |-> signIn.generation,
                                     version |-> signIn.version]}
  /\ UNCHANGED <<control, linkEdit, access, reads, ended, tied>>

SignInAllows(i) == signIn.status = "active" /\ signIn.generation = i.generation

\* The token endpoint takes the code, right or wrong, and checks the row ...
PresentCode == \E c \in codes :
  /\ codes' = codes \ {c}
  /\ reads' = IF SignInAllows(c) THEN reads \cup {c} ELSE reads
  /\ UNCHANGED <<signIn, signInLink, control, linkEdit, tickets, access, shares, ended, reopened, tied>>

\* ... as userinfo does with an access token on every read ...
PresentAccess == \E t \in access :
  /\ SignInAllows(t) /\ reads' = reads \cup {t}
  /\ UNCHANGED <<signIn, signInLink, control, linkEdit, tickets, codes, access, shares,
                 ended, reopened, tied>>

\* ... and the claims are put together from a second read of the row.
Answer == \E r \in reads :
  /\ reads' = reads \ {r}
  /\ access' = access \cup {r}
  /\ tied' = (tied \/ signIn.version # r.version)
  /\ UNCHANGED <<signIn, signInLink, control, linkEdit, tickets, codes, shares, ended, reopened>>

-----------------------------------------------------------------------------
(* Pause, resume and disconnect. *)

\* The row is loaded and decides whether there is anything to do.
LoadControl(c) ==
  /\ control[c] = IdleControl /\ signIn.status # "none"
  /\ \E op \in {"pause", "resume", "disconnect", "newId"} :
       /\ op = "pause" => signIn.status = "active"
       /\ op = "resume" => signIn.status = "paused"
       /\ op = "disconnect" => signIn.status # "disconnected"
       /\ op = "newId" => ~(signIn.status = "disconnected" /\ signIn.newId)
       /\ control' = [control EXCEPT ![c] = [op |-> op, row |-> signIn]]
  /\ UNCHANGED <<signIn, signInLink, linkEdit, tickets, codes, access, reads, shares,
                 ended, reopened, tied>>

Held == IF signInLink.status # "active" THEN signInLink
        ELSE [signInLink EXCEPT !.status = "paused", !.held = TRUE]
Released == IF ~signInLink.held THEN signInLink
            ELSE [signInLink EXCEPT !.status = IF @ = "paused" THEN "active" ELSE @,
                                    !.held = FALSE]

\* PauseSignIn's and ResumeSignIn's transaction: the copy's new status differs from
\* the one it loaded, so it is always written.
PauseOrResume(c) ==
  /\ control[c].op \in {"pause", "resume"}
  /\ signIn' = [signIn EXCEPT !.status = IF control[c].op = "pause" THEN "paused" ELSE "active"]
  /\ signInLink' = IF control[c].op = "pause" THEN Held ELSE Released
  /\ control' = [control EXCEPT ![c] = IdleControl]
  /\ UNCHANGED <<linkEdit, tickets, codes, access, reads, shares, ended, reopened,
                 tied>>

\* The grant is revoked, and detached from the service that gets a new ID.
DisconnectedLink(newId) ==
  IF signInLink.status = "none" \/ newId THEN NoLink
  ELSE [signInLink EXCEPT !.status = "revoked", !.held = FALSE]

\* DisconnectSignIn's transaction. Generation and version are one more than the copy's;
\* the status is not written by a copy that already said disconnected.
Disconnect(c) ==
  LET loaded == control[c].row
      newId == control[c].op = "newId" IN
  /\ control[c].op \in {"disconnect", "newId"}
  /\ loaded.generation < MaxGenerations /\ loaded.version < MaxGenerations
  /\ signInLink' = DisconnectedLink(newId)
  /\ signIn' = [signIn EXCEPT
       !.status = IF loaded.status = "disconnected" THEN @ ELSE "disconnected",
       !.generation = loaded.generation + 1,
       !.version = IF newId THEN loaded.version + 1 ELSE @,
       !.newId = IF newId /\ ~loaded.newId THEN TRUE ELSE @]
  /\ ended' = 1..shares
  /\ reopened' = FALSE
  /\ control' = [control EXCEPT ![c] = IdleControl]
  /\ UNCHANGED <<linkEdit, tickets, codes, access, reads, shares, tied>>

-----------------------------------------------------------------------------
(* The owner's own hand on the link. *)

\* A PATCH with a status in its body: the request hook clears heldPaused on its copy.
LoadLinkEdit ==
  /\ linkEdit = NoEdit /\ signInLink.status # "none"
  /\ \E to \in {"active", "paused", "revoked"} : linkEdit' = [to |-> to, loaded |-> Columns(signInLink)]
  /\ UNCHANGED <<signIn, signInLink, control, tickets, codes, access, reads, shares,
                 ended, reopened, tied>>

\* The columns that differ from the copy; a link gone meanwhile matches no row.
SaveLinkEdit ==
  /\ linkEdit # NoEdit
  /\ IF linkEdit.loaded.id # signInLink.id THEN UNCHANGED signInLink
     ELSE signInLink' = [signInLink EXCEPT
            !.status = IF linkEdit.to # linkEdit.loaded.status THEN linkEdit.to ELSE @,
            !.held = IF linkEdit.loaded.held THEN FALSE ELSE @]
  /\ reopened' = (LiveRow(signInLink') /\ (reopened \/ ~LiveRow(signInLink)))
  /\ linkEdit' = NoEdit
  /\ UNCHANGED <<signIn, control, tickets, codes, access, reads, shares, ended, tied>>

DeleteLink ==
  /\ signInLink.status # "none"
  /\ signInLink' = NoLink /\ reopened' = FALSE
  /\ UNCHANGED <<signIn, control, linkEdit, tickets, codes, access, reads, shares, ended, tied>>

SignInsNext == \/ OpenRequest \/ Approve \/ PresentCode \/ PresentAccess \/ Answer
               \/ \E c \in Controls : LoadControl(c) \/ PauseOrResume(c) \/ Disconnect(c)
               \/ LoadLinkEdit \/ SaveLinkEdit \/ DeleteLink

SignInsSpec == SignInsInit /\ [][SignInsNext]_signInVars

-----------------------------------------------------------------------------
(* Properties. *)

SignInsTypeOK ==
  /\ signIn \in Rows /\ signInLink \in LinkRows
  /\ control \in [Controls -> [op : {"idle", "pause", "resume", "disconnect", "newId"},
                               row : Rows]]
  /\ linkEdit \in [to : {"none", "active", "paused", "revoked"},
                  loaded : [id : 0..MaxShares, held : BOOLEAN,
                            status : {"none", "active", "paused", "revoked"}]]
  /\ tickets \in 0..MaxTickets
  /\ codes \subseteq Issued /\ access \subseteq Issued /\ reads \subseteq Issued
  /\ shares \in 0..MaxShares /\ ended \subseteq 1..MaxShares
  /\ reopened \in BOOLEAN /\ tied \in BOOLEAN

\* A link is held only while its service is paused: whatever pauses, resumes,
\* disconnects, approvals and owner edits overlap, no hold is left behind that a later
\* resume would wake (PauseSignIn's status and hold, oidcConsent's second look).
HeldOnlyWhilePaused == signInLink.held => signIn.status = "paused"

\* What a service was handed before a disconnect reads nothing after it, also when the
\* person signs in there again and shares again, unless the owner themselves brings
\* the link back (DisconnectSignIn, SaveSignInGrant's fresh token).
EndedGrantsReadNothing ==
  signInLink.status = "active" /\ signInLink.token \in ended => reopened

\* oidc.go:975 "without it a token from before a disconnect would read the subject a
\* person came back under, tying the two together": a code or token answers only with
\* the subject its sign-in had.
SubjectsUntied == ~tied
=============================================================================
