---------------------------- MODULE MCHeldSteps -----------------------------
EXTENDS HeldSteps

CONSTANTS m, n, s1, s2, s3

Symmetry == Permutations(Names) \cup Permutations(Steps)
=============================================================================
