------------------------------ MODULE MCAccess ------------------------------
(***************************************************************************)
(* Whom a person lets in: the tools connected to the account, the services *)
(* signed in at, and the people who hand over grants by address.  They     *)
(* share no row, so each behaviour follows one of the three, named by      *)
(* part.                                                                   *)
(***************************************************************************)
EXTENDS Connections, SignIns, Contacts, TLC

VARIABLE part

accessVars == <<part, connectionVars, signInVars, contactVars>>

AccessInit == /\ part \in {"tools", "services", "people"}
              /\ ConnectionsInit /\ SignInsInit /\ ContactsInit

AccessNext ==
  \/ part = "tools" /\ ConnectionsNext /\ UNCHANGED <<part, signInVars, contactVars>>
  \/ part = "services" /\ SignInsNext /\ UNCHANGED <<part, connectionVars, contactVars>>
  \/ part = "people" /\ ContactsNext /\ UNCHANGED <<part, connectionVars, signInVars>>

AccessSpec == AccessInit /\ [][AccessNext]_accessVars

\* Overlapping requests differ in nothing but their names.
Symmetry == Permutations(Controls)

\* The variables of the three components stay in their types.
AccessTypeOK == /\ part \in {"tools", "services", "people"}
                /\ ConnectionsTypeOK /\ SignInsTypeOK /\ ContactsTypeOK
=============================================================================
