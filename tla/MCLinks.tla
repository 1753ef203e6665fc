------------------------------ MODULE MCLinks ------------------------------
(* Links on two readers and two owner requests at a time. *)
EXTENDS Links, TLC

Symmetry == Permutations(Readers) \cup Permutations(Owners)
=============================================================================
