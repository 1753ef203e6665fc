------------------------------ MODULE MCRequests ------------------------------
(* Requests on interchangeable submissions. *)
EXTENDS Requests, TLC

Symmetry == Permutations(Submissions)
=============================================================================
