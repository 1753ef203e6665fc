---------------------------- MODULE MCWorkspaces ----------------------------
(* Requests ask for no permission or for all of them; those under way at   *)
(* once are interchangeable.                                               *)
EXTENDS Workspaces, TLC

TwoLists == {{}, Rights}
Symmetry == Permutations(Slots)
=============================================================================
