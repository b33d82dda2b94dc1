------------------------------ MODULE MCBudget ------------------------------
EXTENDS Budget, TLC

CONSTANTS root, child, grand

Chained == root :> Nobody @@ child :> root @@ grand :> child
Asks == {2, Unlimited}
=============================================================================
