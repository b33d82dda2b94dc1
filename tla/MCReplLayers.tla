---------------------------- MODULE MCReplLayers ----------------------------
EXTENDS ReplLayers, TLC

CONSTANTS original, fork, s1, s2

StoreSymmetry == Permutations({s1, s2})
=============================================================================
