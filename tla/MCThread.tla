------------------------------ MODULE MCThread ------------------------------
(* Instance of Thread for TLC: interchangeable drives, posts and cancels.  *)
EXTENDS Thread, TLC

Symmetry == Permutations(Envelopes) \cup Permutations(Drives)
=============================================================================
