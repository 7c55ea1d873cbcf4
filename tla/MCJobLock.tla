------------------------------ MODULE MCJobLock ------------------------------
(* Symmetry for the invariants of JobLock. *)
EXTENDS JobLock, TLC

Symmetry == Permutations(Servers) \cup Permutations(Connections)
=============================================================================
