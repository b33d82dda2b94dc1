-------------------------- MODULE PermissionRules ---------------------------
(***************************************************************************)
(* What a permissions config decides                                       *)
(* (packages/permissions/src/rules.ts, and SessionRules of permissions.ts).*)
(*                                                                         *)
(* A config is a sequence of forms.  The names a form matches by its globs *)
(* are given as a set, and a server form with several rules as one form    *)
(* for each; `scope` are the names that begin with the server's prefix.    *)
(* Reasons, and the rules for whole servers, are left out.                 *)
(***************************************************************************)
EXTENDS Integers, Sequences

Verdicts == {"allow", "ask", "deny"}

Strength == [allow |-> 0, ask |-> 1, deny |-> 2]

(* Mutation of Strongest: the first ruling wins. *)
StrongestAny(rulings) == CHOOSE v \in rulings : TRUE

(* strongest() *)
Strongest(rulings) == CHOOSE v \in rulings : \A w \in rulings : Strength[w] <= Strength[v]

(* PermissionRules.named(): what the rules that name it say. *)
Rulings(config, name) ==
  {config[i].op : i \in {j \in DOMAIN config : config[j].op \in Verdicts /\ name \in config[j].names}}

(* The last default wins. *)
Fallback(config) ==
  LET defaults == {i \in DOMAIN config : config[i].op = "default"}
  IN IF defaults = {} THEN "allow"
     ELSE config[CHOOSE i \in defaults : \A j \in defaults : j <= i].verdict

(* A name is hidden by a hide, or by an only of its server when no only of *)
(* the server shows it.                                                    *)
Hides(config, name) ==
  \/ \E i \in DOMAIN config : config[i].op = "hide" /\ name \in config[i].names
  \/ \E i \in DOMAIN config :
       /\ config[i].op = "only" /\ name \in config[i].scope
       /\ \A j \in DOMAIN config :
            (config[j].op = "only" /\ config[j].scope = config[i].scope) => name \notin config[j].names

(* PermissionRules.decide() *)
Decides(config, name) ==
  IF Hides(config, name) THEN "deny"
  ELSE IF Rulings(config, name) = {} THEN Fallback(config)
  ELSE Strongest(Rulings(config, name))

(* SessionRules.heldDecides(): what the session asks for is asked for,     *)
(* unless the config names it.                                             *)
HeldDecides(config, asks, name) ==
  IF Decides(config, name) = "allow" /\ name \in asks /\ Rulings(config, name) = {}
  THEN "ask" ELSE Decides(config, name)

(* SessionRules.decide(): the strongest of the config and of the bounds. *)
SessionDecides(config, asks, bounds, name) ==
  Strongest({HeldDecides(config, asks, name)} \cup {Decides(bound, name) : bound \in bounds})

(* SessionRules.named() *)
SessionRulings(config, bounds, name) ==
  Rulings(config, name) \cup UNION {Rulings(bound, name) : bound \in bounds}
=============================================================================
