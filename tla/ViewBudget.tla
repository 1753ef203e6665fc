----------------------------- MODULE ViewBudget -----------------------------
(***************************************************************************)
(* What a share link promises its owner, whatever the mechanism:           *)
(*   - data is served only to a reader who opened the link while it was    *)
(*     live (docs/guide/sharing.md: "a revoked link stops working the next *)
(*     time it is opened");                                                *)
(*   - no serve happens once the cap in force has been used up.            *)
(* Links implements this specification.                                    *)
(***************************************************************************)
EXTENDS Integers

CONSTANTS Readers  \* whoever may open the link

VARIABLES cap,      \* the cap in force, 0 for none
          live,     \* whether opening the link succeeds now
          served,   \* how many times the data was handed out
          admitted  \* readers who opened it while live and were not answered yet

vars == <<cap, live, served, admitted>>

Init == /\ cap \in Nat
        /\ live \in BOOLEAN
        /\ served = 0
        /\ admitted = {}

Admit(r) == /\ live
            /\ admitted' = admitted \cup {r}
            /\ UNCHANGED <<cap, live, served>>

Serve(r) == /\ r \in admitted
            /\ cap = 0 \/ served < cap
            /\ served' = served + 1
            /\ admitted' = admitted \ {r}
            /\ UNCHANGED <<cap, live>>

\* The owner, the clock or the cap itself changes the link; readers may be
\* turned away at any time.
Change == /\ cap' \in Nat
          /\ live' \in BOOLEAN
          /\ admitted' \subseteq admitted
          /\ UNCHANGED served

Next == \/ \E r \in Readers : Admit(r) \/ Serve(r)
        \/ Change

Spec == Init /\ [][Next]_vars
=============================================================================
