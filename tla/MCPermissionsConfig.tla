------------------------ MODULE MCPermissionsConfig -------------------------
EXTENDS PermissionsConfig, TLC

CONSTANTS read, write, s1, s2

Rule(op, names) == [op |-> op, names |-> names, scope |-> {}, verdict |-> "allow"]

MCForms == { Rule("allow", {"deny", read}), Rule("deny", {write, "clear"}) }

StoreSymmetry == Permutations({s1, s2})

MCBounds == {<<Rule("ask", {read}), Rule("hide", {"clear"})>>}

MCFewForms == { Rule("allow", {read}), Rule("deny", {"clear"}) }

NoForms == <<>>

NoBounds == {}

MCTargets == {read, "clear"}
=============================================================================
