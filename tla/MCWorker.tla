------------------------------ MODULE MCWorker ------------------------------
(***************************************************************************)
(* Instances of Worker and of the invariant its proofs rest on: requests   *)
(* are interchangeable, isolates are too.                                  *)
(***************************************************************************)
EXTENDS Worker_proof, TLC

Symmetry == Permutations(Requests) \cup Permutations(Isolates)
=============================================================================
