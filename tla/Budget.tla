------------------------------- MODULE Budget -------------------------------
(***************************************************************************)
(* What the threads of a tree may spend (packages/ai/src/budget.ts), and   *)
(* how turns spend it (billed and turn in packages/ai/src/thread.ts).      *)
(*                                                                         *)
(* Each thread has an account under its parent's.  A turn is admitted if   *)
(* something is left all the way up, is capped at the steps left at that   *)
(* moment, and is billed step by step to every account on the way up.      *)
(* Turns of different threads run at once.  Deadlines are never charged    *)
(* and are left out.                                                       *)
(***************************************************************************)
EXTENDS Integers, FiniteSets, FiniteSetsExt

CONSTANTS
  Threads,    \* the threads of one tree
  Parent,     \* each thread's parent, Nobody for the root
  Nobody,     \* no thread
  Limits,     \* the limits anyone asks for; some may be Unlimited
  Unlimited,  \* no limit
  TurnSteps,  \* the most steps one turn takes
  StepTokens, \* what one step may cost in tokens
  MaxOwn      \* bound: no thread begins a turn once it took so many steps

ASSUME ThreadsAssumption == IsFiniteSet(Threads)
ASSUME ParentAssumption ==
  Parent \in [Threads -> Threads \cup {Nobody}] /\ Nobody \notin Threads
ASSUME LimitsAssumption == Limits \subseteq Nat \cup {Unlimited} /\ Unlimited \notin Int
ASSUME TurnAssumption   == TurnSteps \in Nat \ {0} /\ StepTokens \subseteq Nat /\ MaxOwn \in Nat
ASSUME CostAssumption   == IsFiniteSet(StepTokens) /\ StepTokens # {}

VARIABLES
  opened,  \* the threads that have an account
  limits,  \* Account.limits, what was granted
  spent,   \* Account.steps and Account.tokens
  turn,    \* the steps the thread's running turn may still take, -1 without
  own      \* history: the steps the thread itself took

vars == <<opened, limits, spent, turn, own>>

Kinds  == {"steps", "tokens"}
Amount == Int \cup {Unlimited}

TypeOK ==
  /\ opened \subseteq Threads
  /\ limits \in [Threads -> [Kinds -> Amount]]
  /\ spent \in [Threads -> [Kinds -> Nat]]
  /\ turn \in [Threads -> Int]
  /\ own \in [Threads -> Nat]

Init ==
  /\ opened = {}
  /\ limits = [t \in Threads |-> [k \in Kinds |-> Unlimited]]
  /\ spent = [t \in Threads |-> [k \in Kinds |-> 0]]
  /\ turn = [t \in Threads |-> -1]
  /\ own = [t \in Threads |-> 0]

-----------------------------------------------------------------------------
(* tighter(): the smaller of two limits, of which either may be missing.   *)
AtMost(a, b) == b = Unlimited \/ (a # Unlimited /\ a <= b)
Tighter(a, b) == IF AtMost(a, b) THEN a ELSE b

(* chain(): a thread's account and those above it, up to one that is not   *)
(* opened and once around a cycle.                                         *)
Up(S) == \A t \in S : Parent[t] \in opened => Parent[t] \in S
Chain(t) == {a \in opened : t \in opened /\ \A S \in SUBSET opened : t \in S /\ Up(S) => a \in S}

(* What an account alone has left.                                         *)
Rest(t, k) == IF limits[t][k] = Unlimited THEN Unlimited ELSE limits[t][k] - spent[t][k]

(* remaining(): the least of what the accounts of the chain have left.     *)
Left(t, k) ==
  LET rests == {Rest(a, k) : a \in Chain(t)} \ {Unlimited}
  IN IF rests = {} THEN Unlimited ELSE CHOOSE r \in rests : \A s \in rests : r <= s

(* open() through lineage() or spawn(): the parent's account is open, and  *)
(* a child is granted at most what its parent has left.                    *)
Open(t) ==
  /\ t \notin opened
  /\ Parent[t] \in opened \cup {Nobody}
  /\ \E asked \in [Kinds -> Limits] :
       limits' = [limits EXCEPT ![t] =
         IF Parent[t] = Nobody THEN asked
         ELSE [k \in Kinds |-> Tighter(asked[k], Left(Parent[t], k))]]
  /\ opened' = opened \cup {t}
  /\ UNCHANGED <<spent, turn, own>>

(* exhausted(): some account of the chain has nothing left. *)
Exhausted(t) == \E k \in Kinds, a \in Chain(t) : ~AtMost(1, Rest(a, k))

(* Mutation of Begin: the turn is not capped at what is left.              *)
BeginUncapped(t) ==
  /\ t \in opened /\ turn[t] = -1 /\ own[t] < MaxOwn
  /\ ~Exhausted(t)
  /\ turn' = [turn EXCEPT ![t] = TurnSteps]
  /\ UNCHANGED <<opened, limits, spent, own>>

(* A turn is admitted, and capped at the steps left now.                   *)
Begin(t) ==
  /\ t \in opened /\ turn[t] = -1 /\ own[t] < MaxOwn
  /\ ~Exhausted(t)
  /\ turn' = [turn EXCEPT ![t] = Tighter(TurnSteps, Left(t, "steps"))]
  /\ UNCHANGED <<opened, limits, spent, own>>

(* charge(): every account of the chain pays.                              *)
Charge(t, cost) ==
  spent' = [a \in Threads |->
    IF a \in Chain(t) THEN [k \in Kinds |-> spent[a][k] + cost[k]] ELSE spent[a]]

(* billed(): a model call is charged; a turn that then finds an account    *)
(* of its chain without tokens is aborted and calls the model no more.     *)
Step(t) ==
  /\ turn[t] > 0
  /\ UNCHANGED <<opened, limits>>
  /\ \E n \in StepTokens : Charge(t, [k \in Kinds |-> IF k = "steps" THEN 1 ELSE n])
  /\ own' = [own EXCEPT ![t] = @ + 1]
  /\ turn' = [turn EXCEPT ![t] =
       IF \E a \in Chain(t) : ~AtMost(1, Rest(a, "tokens")') THEN 0 ELSE @ - 1]

(* The turn ends, at its cap or before. *)
End(t) ==
  /\ turn[t] # -1
  /\ turn' = [turn EXCEPT ![t] = -1]
  /\ UNCHANGED <<opened, limits, spent, own>>

Next == \E t \in Threads : Open(t) \/ Begin(t) \/ Step(t) \/ End(t)

Spec == Init /\ [][Next]_vars

-----------------------------------------------------------------------------
(***************************************************************************)
(* Properties.                                                             *)
(***************************************************************************)
Below(t) == {d \in opened : t \in Chain(d)}
Children(t) == {d \in Threads : Parent[d] = t}
Granted(t, k) == IF limits[t][k] < 0 THEN 0 ELSE limits[t][k]
Promised == [t \in Threads |-> IF turn[t] = -1 THEN 0 ELSE turn[t]]
SumOver(f, S) == MapThenSumSet(LAMBDA x : f[x], S)

(* Every step is billed to each account above exactly once: an account has *)
(* paid for what its thread and everything below took, whatever ran at     *)
(* once and whenever the accounts were opened (budget.test.ts:14).         *)
Conserved ==
  \A t \in opened : spent[t]["steps"] = SumOver(own, Below(t))

(* A parent has paid for at least what each child has.                     *)
ParentsPay ==
  \A t \in opened : Parent[t] # Nobody =>
    Parent[t] \in opened /\ \A k \in Kinds : spent[t][k] <= spent[Parent[t]][k]

(* A thread that has no sub-agents never takes more steps than it was      *)
(* granted, promised steps of its running turn included.                   *)
LeafWithin ==
  \A t \in opened : Children(t) = {} /\ limits[t]["steps"] # Unlimited =>
    spent[t]["steps"] + Promised[t] <= Granted(t, "steps")

(* A tree overspends only through turns that run at once, each promised    *)
(* what was left when it began: n threads spend at most n times the limit. *)
(* Tokens run over by at most one step for each thread of the tree.        *)
OverspendBounded ==
  \A t \in opened :
    /\ limits[t]["steps"] # Unlimited =>
         spent[t]["steps"] + SumOver(Promised, Below(t))
           <= Cardinality(Below(t)) * Granted(t, "steps")
    /\ limits[t]["tokens"] # Unlimited =>
         spent[t]["tokens"] <=
           Granted(t, "tokens") + Cardinality(Below(t)) * Max(StepTokens)

(* What the tests call "keeps a child under what its parent spends later"  *)
(* (budget.test.ts:24): no account is ever spent beyond its limit.  It     *)
(* does not hold while turns of a parent and a child run at once.          *)
NeverOverspent ==
  \A t \in opened : limits[t]["steps"] # Unlimited =>
    spent[t]["steps"] <= Granted(t, "steps")
=============================================================================
