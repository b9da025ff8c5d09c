--------------------------- MODULE MCAccountJobs ----------------------------
(* Instances of AccountJobs for TLC. *)
EXTENDS AccountJobs, TLC

Symmetry == Permutations(Job) \cup Permutations(Account)
=============================================================================
