------------------------------- MODULE Outbox -------------------------------
(***************************************************************************)
(* What the grant outbox promises whoever queues a delivery: a queued row  *)
(* is settled in the end, as delivered only once the receiver accepted it, *)
(* and is never reopened (docs/api/callbacks.md, "Grant events": retried,  *)
(* may arrive more than once, ends at a refusal or when the retries are    *)
(* used up). GrantDeliveries implements this specification.                *)
(***************************************************************************)
EXTENDS Integers

CONSTANTS Ids  \* deliveries

VARIABLES stage,    \* per delivery: none, queued, delivered, failed or pruned
          accepted  \* deliveries the receiver accepted at least once

vars == <<stage, accepted>>

Init == /\ stage = [d \in Ids |-> "none"]
        /\ accepted = {}

Queue(d) == /\ stage[d] = "none"
            /\ stage' = [stage EXCEPT ![d] = "queued"]
            /\ UNCHANGED accepted

\* It may arrive again, but not once it is settled.
Arrive(d) == /\ stage[d] = "queued"
             /\ accepted' = accepted \cup {d}
             /\ UNCHANGED stage

Settle(d) == /\ stage[d] = "queued"
             /\ \/ d \in accepted /\ stage' = [stage EXCEPT ![d] = "delivered"]
                \/ stage' = [stage EXCEPT ![d] = "failed"]
             /\ UNCHANGED accepted

\* Settled rows are kept for a while, then dropped together.
Prune(D) == /\ \A d \in D : stage[d] \in {"delivered", "failed"}
            /\ stage' = [d \in Ids |-> IF d \in D THEN "pruned" ELSE stage[d]]
            /\ UNCHANGED accepted

Next == \/ \E d \in Ids : Queue(d) \/ Arrive(d) \/ Settle(d)
        \/ \E D \in SUBSET Ids : Prune(D)

Spec == /\ Init /\ [][Next]_vars
        /\ \A d \in Ids : WF_vars(Settle(d))
=============================================================================
