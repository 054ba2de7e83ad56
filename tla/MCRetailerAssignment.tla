------------------------ MODULE MCRetailerAssignment ------------------------
(* Small instances of RetailerAssignment for TLC. *)
EXTENDS RetailerAssignment, TLC

Symmetry == Permutations(Retailers) \cup Permutations(Reps) \cup Permutations(Calls)
=============================================================================
