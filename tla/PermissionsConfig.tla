------------------------- MODULE PermissionsConfig --------------------------
(***************************************************************************)
(* Changes to a workspace's permissions config: the change, its ruling and *)
(* its approval (packages/permissions/src/permissions.ts), and the store   *)
(* the config is kept in, whose text is saved by a mutation that takes     *)
(* time (packages/backend/src/permissions-store.ts).                       *)
(*                                                                         *)
(* Each REPL of the workspace's threads has a store of its own, that reads *)
(* the stored text once, when the REPL is built.  Its client makes one     *)
(* mutation after the other; those of other stores run beside them.  A     *)
(* store whose thread was let go of is used no more, and its saves go on.  *)
(***************************************************************************)
EXTENDS PermissionRules, FiniteSets, SequencesExt

CONSTANTS
  Stores,   \* the stores of the workspace's threads
  Forms,    \* the forms the agent may evaluate
  Config,   \* the config at the start
  Asks,     \* what the sessions ask for
  Bounds,   \* the bounds of the threads
  Targets,  \* what is decided about
  MaxForms, \* bound on the forms of a config
  MaxAwaiting, \* bound on the changes that wait for the user
  MaxSaves  \* bound on the mutations that have not returned

ASSUME FormsAssumption == {MaxForms, MaxAwaiting, MaxSaves} \subseteq Nat

ASSUME ConfigAssumption == Config \in Seq(Forms) /\ Len(Config) <= MaxForms

(* verdictOf() refuses a default that is no verdict. *)
ASSUME RulesAssumption ==
  /\ \A form \in Forms : form.verdict \in Verdicts
  /\ \A bound \in Bounds : /\ Len(bound) \in Nat /\ DOMAIN bound = 1..Len(bound)
                           /\ \A i \in DOMAIN bound : bound[i].verdict \in Verdicts

(* A change of the config; a form is added, deleted, or all are cleared. *)
Changes == [kind : {"add", "delete"}, form : Forms] \cup {[kind |-> "clear", form |-> <<>>]}

(* The name of the operation, by which rules allow or deny changes. *)
Operation(change) ==
  IF change.kind # "add" THEN change.kind
  ELSE IF change.form.op \in {"hide", "only"} THEN "server" ELSE change.form.op

VARIABLES
  stored,   \* the row of the table permissions
  text,     \* ConvexPermissionsStore.text
  awaiting, \* the changes of each thread that wait for the user
  saves,    \* the mutations each store's client has yet to finish, in their order
  knows,    \* history: the stores that wrote or read what is stored now, and heard so
  standing, \* history: the forms reported as applied, and not removed or failed since
  overruled, \* history: a change began that an applied form denies
  overlapped \* history: a change was made of a text while the workspace's config was
             \* being saved, or by a store that does not know what is stored

told       == <<standing, overruled, overlapped>>
configVars == <<stored, text, awaiting, saves, knows, told>>

Configs == UNION {[1..n -> Forms] : n \in 0..MaxForms}

(* Who hears how a save ends: the step that waits for it, the run whose    *)
(* call is let through always, or no one, for a change that is approved.   *)
ConfigSaves == [source : Configs, hears : {"step", "call", "none"}, landed : BOOLEAN]

ConfigTypeOK ==
  /\ stored \in Configs /\ text \in [Stores -> Configs]
  /\ awaiting \in [Stores -> SUBSET Changes]
  /\ saves \in [Stores -> Seq(ConfigSaves)]
  /\ knows \subseteq Stores /\ standing \subseteq Forms
  /\ {overruled, overlapped} \subseteq BOOLEAN

ConfigInit ==
  /\ stored = Config /\ text = [s \in Stores |-> Config]
  /\ awaiting = [s \in Stores |-> {}] /\ saves = [s \in Stores |-> <<>>]
  /\ knows = Stores /\ standing = ToSet(Config) /\ overruled = FALSE /\ overlapped = FALSE

-----------------------------------------------------------------------------
(* PermissionRules.without() *)
Without(config, form) ==
  LET kept == {i \in DOMAIN config : config[i] # form}
      nth(k) == CHOOSE i \in kept : Cardinality({j \in kept : j <= i}) = k
  IN [k \in 1..Cardinality(kept) |-> config[nth(k)]]

(* Mutation of Changed: the form takes the place of the others. *)
ChangedAlone(config, change) ==
  CASE change.kind = "add"    -> <<change.form>>
    [] change.kind = "delete" -> Without(config, change.form)
    [] change.kind = "clear"  -> <<>>

(* changed() *)
Changed(config, change) ==
  CASE change.kind = "add"    -> Append(config, change.form)
    [] change.kind = "delete" -> Without(config, change.form)
    [] change.kind = "clear"  -> <<>>

(* A form is deleted only if the config holds it. *)
Applies(config, change) ==
  change.kind = "delete" => \E i \in DOMAIN config : config[i] = change.form

(* The bound on the forms of a config. *)
Fits(config, change) == change.kind = "add" => Len(config) < MaxForms

(* ruling(): only rules that name the operation decide, and it is asked    *)
(* for otherwise.                                                          *)
Ruling(s, change) ==
  LET rulings == SessionRulings(text[s], Bounds, Operation(change))
  IN IF rulings = {} THEN "ask" ELSE Strongest(rulings)

(* What stands once a change is reported as applied. *)
Stands(change) ==
  CASE change.kind = "add"    -> standing \cup {change.form}
    [] change.kind = "delete" -> standing \ {change.form}
    [] change.kind = "clear"  -> {}

(* An applied form denies the change. *)
Forbids(form, change) == form.op = "deny" /\ Operation(change) \in form.names

(* Nothing of the workspace's config is being saved. *)
Quiet == \A s \in Stores : saves[s] = <<>>

(* The bound on the mutations that have not returned. *)
Saving == Cardinality({at \in Stores \X (1..MaxSaves) : at[2] \in DOMAIN saves[at[1]]})

(* The changes that wait for the user, each in its thread. *)
OutForApproval == {at \in Stores \X Changes : at[2] \in awaiting[at[1]]}

(* commit(): the change is made of the text this store has now, whatever   *)
(* is still being saved, and its own save goes to the end of the line.     *)
Commit(s, change, hears) ==
  /\ Fits(text[s], change) /\ Saving < MaxSaves
  /\ saves' = [saves EXCEPT ![s] =
       Append(@, [source |-> Changed(text[s], change), hears |-> hears, landed |-> FALSE])]
  /\ standing' = Stands(change)
  /\ overlapped' = (overlapped \/ ~Quiet \/ s \notin knows)
  /\ UNCHANGED <<stored, text, knows>>

(* A change that was ruled on is committed. *)
CommitRuled(s, change, hears) ==
  /\ Commit(s, change, hears)
  /\ overruled' = (overruled \/ \E form \in standing : Forbids(form, change))

-----------------------------------------------------------------------------
(* apply(): a form that a rule allows is committed, and its step waits for *)
(* it; one that is not denied is asked for.                                *)
Apply(s, change) ==
  /\ Applies(text[s], change)
  /\ \A i \in DOMAIN saves[s] : saves[s][i].hears # "step"
  /\ \/ Ruling(s, change) = "allow" /\ CommitRuled(s, change, "step") /\ UNCHANGED awaiting
     \/ /\ Ruling(s, change) = "ask" /\ Cardinality(OutForApproval \cup {<<s, change>>}) <= MaxAwaiting
        /\ awaiting' = [awaiting EXCEPT ![s] = @ \cup {change}]
        /\ UNCHANGED <<stored, text, saves, knows, told>>

(* Mutation of ApproveChange: what is denied meanwhile is applied.         *)
ApproveChangeAnyway(s, change) ==
  /\ change \in awaiting[s]
  /\ awaiting' = [awaiting EXCEPT ![s] = @ \ {change}]
  /\ IF Applies(text[s], change)
     THEN CommitRuled(s, change, "none")
     ELSE UNCHANGED <<stored, text, saves, knows, told>>

(* onResolved(): the user approves a change; it is committed unless it is  *)
(* denied by now, or changes nothing.  No one waits for the save.          *)
ApproveChange(s, change) ==
  /\ change \in awaiting[s]
  /\ awaiting' = [awaiting EXCEPT ![s] = @ \ {change}]
  /\ IF Ruling(s, change) # "deny" /\ Applies(text[s], change)
     THEN CommitRuled(s, change, "none")
     ELSE UNCHANGED <<stored, text, saves, knows, told>>

DenyChange(s, change) ==
  /\ change \in awaiting[s]
  /\ awaiting' = [awaiting EXCEPT ![s] = @ \ {change}]
  /\ UNCHANGED <<stored, text, saves, knows, told>>

(* remember(): the user lets a call through always, and the rule for it is *)
(* committed, which no rule is asked about.                                *)
Remember(s, form) ==
  /\ form.op = "allow"
  /\ Commit(s, [kind |-> "add", form |-> form], "call")
  /\ UNCHANGED <<awaiting, overruled>>

(* permissions.put: the mutation at the head of a client's line is made. *)
Land(s) ==
  /\ saves[s] # <<>> /\ ~Head(saves[s]).landed
  /\ stored' = Head(saves[s]).source
  /\ saves' = [saves EXCEPT ![s] = <<[Head(@) EXCEPT !.landed = TRUE]>> \o Tail(@)]
  /\ knows' = {s}
  /\ UNCHANGED <<text, awaiting, told>>

(* Its store hears of it. *)
Return(s) ==
  /\ saves[s] # <<>> /\ Head(saves[s]).landed
  /\ text' = [text EXCEPT ![s] = Head(saves[s]).source]
  /\ saves' = [saves EXCEPT ![s] = Tail(@)]
  /\ UNCHANGED <<stored, awaiting, knows, told>>

(* Mutation of Fail: the text is taken over before the mutation is made.   *)
FailTaken(s) ==
  /\ saves[s] # <<>>
  /\ saves' = [saves EXCEPT ![s] = Tail(@)]
  /\ text' = [text EXCEPT ![s] = Head(saves[s]).source]
  /\ knows' = IF Head(saves[s]).landed THEN knows \ {s} ELSE knows
  /\ standing' = standing \cap ToSet(stored) \cap ToSet(text[s])
  /\ UNCHANGED <<stored, awaiting, overruled, overlapped>>

(* The mutation fails, or is made and its answer lost: a step that waits   *)
(* for it is told, of an approval that does not no one ever hears again.   *)
Fail(s) ==
  /\ saves[s] # <<>>
  /\ saves' = [saves EXCEPT ![s] = Tail(@)]
  /\ knows' = IF Head(saves[s]).landed THEN knows \ {s} ELSE knows
  /\ standing' = standing \cap ToSet(stored) \cap ToSet(text[s])
  /\ UNCHANGED <<stored, text, awaiting, overruled, overlapped>>

(* A thread's REPL is built, and a store opened.  What waited for the user *)
(* is not kept.                                                            *)
Reopen(s) ==
  /\ saves[s] = <<>>
  /\ text' = [text EXCEPT ![s] = stored] /\ awaiting' = [awaiting EXCEPT ![s] = {}]
  /\ knows' = knows \cup {s}
  /\ UNCHANGED <<stored, saves, told>>

ConfigNext ==
  \E s \in Stores :
    \/ \E change \in Changes : Apply(s, change) \/ ApproveChange(s, change) \/ DenyChange(s, change)
    \/ \E form \in Forms : Remember(s, form)
    \/ Land(s) \/ Return(s) \/ Fail(s) \/ Reopen(s)

ConfigSpec == ConfigInit /\ [][ConfigNext]_configVars

-----------------------------------------------------------------------------
(***************************************************************************)
(* Properties.                                                             *)
(***************************************************************************)

(* "I approved ..., and it is applied to the permissions config"           *)
(* (approvals.ts:80): once all saves have returned, what was reported as   *)
(* applied is in the config, until it is deleted, all is cleared or a save *)
(* fails, as long as changes did not overlap.                              *)
Applied == Quiet /\ ~overlapped => standing \subseteq ToSet(stored)

(* The same, whatever overlaps.                                            *)
AlwaysApplied == Quiet => standing \subseteq ToSet(stored)

(* approvals.ts:77 tells the user that an approved change is applied: its  *)
(* save does not fail.  (It may, and no one hears of it.)                  *)
ChangesKept ==
  [][\A s \in Stores : saves[s] # <<>> /\ saves'[s] = Tail(saves[s])
        /\ Head(saves[s]).hears = "none" => Head(saves[s]).source = text'[s]]_configVars

(* A change is refused once a rule approved meanwhile denies it, as long   *)
(* as changes did not overlap (permissions.test.ts:662).                   *)
Overruled == overruled => overlapped

(* permissions.test.ts:662: a change is refused "once a rule approved      *)
(* meanwhile denies" it, whatever overlaps.                                *)
AlwaysOverruled == ~overruled

(* Saves may overlap and fail as they like: the store whose save was made  *)
(* last, and those opened since, end up with what is stored.               *)
Coherent == \A s \in knows : saves[s] = <<>> => text[s] = stored

(* permissions.test.ts:747: a session "decides by what the store holds     *)
(* now, not what it held at the start".                                    *)
Current == Quiet => \A s \in Stores : text[s] = stored

(* permissions.test.ts:263 and :278: the bounds only tighten what the      *)
(* config decides, and the config what the bounds do.                      *)
Tightens ==
  \A s \in Stores, name \in Targets :
    LET decided == Strength[SessionDecides(text[s], Asks, Bounds, name)]
    IN /\ Strength[Decides(text[s], name)] <= decided
       /\ \A bound \in Bounds : Strength[Decides(bound, name)] <= decided
=============================================================================
