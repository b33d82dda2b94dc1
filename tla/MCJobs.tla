------------------------------- MODULE MCJobs -------------------------------
EXTENDS Jobs, TLC

CONSTANTS root, child, grand

Chain  == root :> Nobody @@ child :> root @@ grand :> child
Family == root :> Nobody @@ child :> root
Symmetry == Permutations(Jobs) \cup Permutations(Waits)
=============================================================================
