----------------------------- MODULE TurnProofs -----------------------------
(***************************************************************************)
(* Proofs about what turns cost the accounts of a tree of threads, for     *)
(* every finite tree (Budget), and about turns themselves, what is kept of *)
(* them and what is shown (Turns).                                         *)
(***************************************************************************)
EXTENDS Budget, Turns, SequenceTheorems, FiniteSetTheorems, WellFoundedInduction, TLAPS

-----------------------------------------------------------------------------
(* What the accounts of a tree are at every moment.                        *)

(* What a thread without an account has, and how low a turn's promise is.  *)
Fresh ==
  /\ \A t \in Threads \ opened : turn[t] = -1 /\ \A k \in Kinds : spent[t][k] = 0
  /\ \A t \in Threads : turn[t] >= -1

IInv == TypeOK /\ Fresh /\ ParentsPay /\ LeafWithin

-----------------------------------------------------------------------------
(* Lemmas about least values and chains.                                   *)

(* A set of natural numbers that is not empty has a least element. *)
LEMMA LeastNatural ==
  ASSUME NEW S, S \subseteq Nat, S # {}
  PROVE  \E n \in S : \A m \in S : n <= m
<1>1. PICK n \in S : \A m \in S : ~ (<<m, n>> \in OpToRel(<, Nat))
  BY NatLessThanWellFounded, WFMin
<1>2. ASSUME NEW m \in S PROVE n <= m
  <2>1. ~ (m < n) BY <1>1 DEF OpToRel
  <2> QED BY <2>1
<1> QED BY <1>2

(* An integer function takes its least value somewhere on a finite set. *)
LEMMA LeastValue ==
  ASSUME NEW A, IsFiniteSet(A), A # {}, NEW f, \A a \in A : f[a] \in Int
  PROVE  \E a \in A : \A b \in A : f[a] <= f[b]
<1> DEFINE Lower(a) == {b \in A : f[b] < f[a]}
           Counts == {Cardinality(Lower(a)) : a \in A}
<1>1. \A a \in A : IsFiniteSet(Lower(a)) /\ Cardinality(Lower(a)) \in Nat
  BY FS_Subset, FS_CardinalityType
<1>2. Counts \subseteq Nat /\ Counts # {} BY <1>1
<1>3. PICK n \in Counts : \A m \in Counts : n <= m
  <2> HIDE DEF Counts
  <2> QED BY <1>2, LeastNatural
<1>4. PICK a \in A : n = Cardinality(Lower(a)) OBVIOUS
<1>5. ASSUME NEW b \in A, f[b] < f[a] PROVE FALSE
  <2>1. Lower(b) \subseteq Lower(a) BY <1>5
  <2>2. b \in Lower(a) /\ b \notin Lower(b) BY <1>5
  <2>3. Cardinality(Lower(b)) <= Cardinality(Lower(a)) /\ Cardinality(Lower(b)) # Cardinality(Lower(a))
    BY <2>1, <2>2, <1>1, FS_Subset
  <2>4. Cardinality(Lower(a)) <= Cardinality(Lower(b)) BY <1>3, <1>4
  <2> HIDE DEF Lower
  <2> QED BY <2>3, <2>4, <1>1
<1>6. \A b \in A : f[a] <= f[b]
  <2> SUFFICES ASSUME NEW b \in A PROVE f[a] <= f[b] OBVIOUS
  <2>1. f[a] \in Int /\ f[b] \in Int OBVIOUS
  <2> QED BY <2>1, <1>5
<1> QED BY <1>6

(* A thread with an account is on its own chain, which climbs to parents. *)
LEMMA ChainClimbs ==
  ASSUME NEW t \in opened
  PROVE  /\ t \in Chain(t)
         /\ \A a \in Chain(t) : Parent[a] \in opened => Parent[a] \in Chain(t)
BY DEF Chain, Up

(* A thread without sub-agents is on no chain but its own. *)
LEMMA LeafAlone ==
  ASSUME TypeOK, NEW t \in opened, Children(t) = {}, NEW d \in opened, t \in Chain(d)
  PROVE  t = d
<1> SUFFICES ASSUME t # d PROVE FALSE OBVIOUS
<1> DEFINE S == opened \ {t}
<1>1. S \in SUBSET opened /\ d \in S OBVIOUS
<1>2. Up(S) BY ParentAssumption DEF Up, Children, TypeOK
<1> QED BY <1>1, <1>2 DEF Chain

(* What is left of an account, and all the way up. *)
LEMMA RestType ==
  ASSUME TypeOK, NEW t \in Threads, NEW k \in Kinds
  PROVE  Rest(t, k) \in Amount
BY DEF TypeOK, Rest, Amount

LEMMA LeftLeast ==
  ASSUME TypeOK, NEW t \in opened, NEW k \in Kinds
  PROVE  \/ /\ Left(t, k) = Unlimited
            /\ \A a \in Chain(t) : Rest(a, k) = Unlimited
         \/ /\ Left(t, k) \in Int
            /\ \E a \in Chain(t) : Left(t, k) = Rest(a, k)
            /\ \A a \in Chain(t) : Rest(a, k) = Unlimited \/ Left(t, k) <= Rest(a, k)
<1> DEFINE rests == {Rest(a, k) : a \in Chain(t)} \ {Unlimited}
           A == {a \in Chain(t) : Rest(a, k) # Unlimited}
<1>1. CASE rests = {}
  BY <1>1 DEF Left
<1>2. CASE rests # {}
  <2>1. A \subseteq Threads /\ A # {} BY <1>2 DEF Chain, TypeOK
  <2>2. IsFiniteSet(A) BY <2>1, ThreadsAssumption, FS_Subset
  <2> DEFINE f == [a \in A |-> Rest(a, k)]
  <2>3. \A a \in A : f[a] = Rest(a, k) /\ f[a] \in Int BY <2>1, RestType DEF Amount
  <2>4. PICK a \in A : \A b \in A : f[a] <= f[b]
    <3> HIDE DEF f, A
    <3> QED BY <2>1, <2>2, <2>3, LeastValue
  <2>5. f[a] \in rests /\ \A s \in rests : f[a] <= s BY <2>3, <2>4
  <2>6. Left(t, k) = CHOOSE r \in rests : \A s \in rests : r <= s
    BY <1>2 DEF Left
  <2>7. Left(t, k) \in rests /\ \A s \in rests : Left(t, k) <= s
    <3> HIDE DEF rests, f
    <3> QED BY <2>5, <2>6
  <2>8. rests \subseteq Int
    <3> SUFFICES ASSUME NEW a_1 \in Chain(t), Rest(a_1, k) # Unlimited PROVE Rest(a_1, k) \in Int OBVIOUS
    <3> QED BY RestType DEF Amount, Chain, TypeOK
  <2>9. \E b \in Chain(t) : Left(t, k) = Rest(b, k) BY <2>7
  <2>10. \A b \in Chain(t) : Rest(b, k) = Unlimited \/ Left(t, k) <= Rest(b, k) BY <2>7
  <2> QED BY <2>7, <2>8, <2>9, <2>10
<1> QED BY <1>1, <1>2

(* A step on a thread's chain: what Charge does to every account. *)
LEMMA Charged ==
  ASSUME TypeOK, NEW t \in opened, NEW cost \in [Kinds -> Nat], Charge(t, cost)
  PROVE  /\ spent' \in [Threads -> [Kinds -> Nat]]
         /\ \A a \in Threads, k \in Kinds :
              spent'[a][k] = IF a \in Chain(t) THEN spent[a][k] + cost[k] ELSE spent[a][k]
BY DEF TypeOK, Charge

-----------------------------------------------------------------------------
LEMMA Initially == Init => IInv
<1> SUFFICES ASSUME Init PROVE IInv OBVIOUS
<1>1. TypeOK BY DEF Init, TypeOK, Amount
<1>2. Fresh BY DEF Init, Fresh
<1>3. ParentsPay /\ LeafWithin BY DEF Init, ParentsPay, LeafWithin
<1> QED BY <1>1, <1>2, <1>3 DEF IInv

LEMMA OpenKeeps ==
  ASSUME IInv, NEW t \in Threads, Open(t)
  PROVE  IInv'
<1> USE DEF IInv
<1>0. /\ t \notin opened /\ Parent[t] \in opened \cup {Nobody}
      /\ opened' = opened \cup {t} /\ spent' = spent /\ turn' = turn /\ own' = own
  BY DEF Open
<1>1. PICK asked \in [Kinds -> Limits] : limits' = [limits EXCEPT ![t] =
         IF Parent[t] = Nobody THEN asked
         ELSE [k \in Kinds |-> Tighter(asked[k], Left(Parent[t], k))]]
  BY DEF Open
<1> DEFINE granted == IF Parent[t] = Nobody THEN asked
                      ELSE [k \in Kinds |-> Tighter(asked[k], Left(Parent[t], k))]
<1>2. granted \in [Kinds -> Amount]
  <2>0. \A k \in Kinds : asked[k] \in Amount
    <3>1. \A l \in Limits : l \in Nat \/ l = Unlimited BY LimitsAssumption
    <3>2. \A k \in Kinds : asked[k] \in Limits OBVIOUS
    <3> QED BY <3>1, <3>2 DEF Amount
  <2>1. CASE Parent[t] = Nobody
    <3>1. granted = asked BY <2>1
    <3>2. asked = [k \in Kinds |-> asked[k]] OBVIOUS
    <3> QED BY <3>1, <3>2, <2>0
  <2>2. CASE Parent[t] # Nobody
    <3>1. \A k \in Kinds : Left(Parent[t], k) \in Amount
      BY <2>2, <1>0, LeftLeast DEF Amount
    <3> QED BY <2>2, <3>1, <2>0 DEF Tighter
  <2> QED BY <2>1, <2>2
<1>3. limits' = [limits EXCEPT ![t] = granted] BY <1>1
<1> HIDE DEF granted
<1>4. TypeOK' BY <1>0, <1>2, <1>3 DEF TypeOK
<1>5. Fresh' BY <1>0 DEF Fresh
<1>6. spent[t]["steps"] = 0 /\ spent[t]["tokens"] = 0 /\ turn[t] = -1
  BY <1>0 DEF Fresh, Kinds
<1>7. ParentsPay'
  <2> SUFFICES ASSUME NEW d \in opened', Parent[d] # Nobody
               PROVE  Parent[d] \in opened' /\ \A k \in Kinds : spent[d][k] <= spent[Parent[d]][k]
    BY <1>0 DEF ParentsPay
  <2>1. CASE d = t
    <3>1. Parent[t] \in opened BY <2>1, <1>0
    <3>2. Parent[t] \in Threads BY <3>1 DEF TypeOK
    <3> QED BY <2>1, <3>1, <3>2, <1>0, <1>6 DEF TypeOK, Kinds
  <2>2. CASE d \in opened BY <2>2, <1>0 DEF ParentsPay
  <2> QED BY <2>1, <2>2, <1>0
<1>8. LeafWithin'
  <2> SUFFICES ASSUME NEW d \in opened', Children(d) = {}, limits'[d]["steps"] # Unlimited
               PROVE  spent[d]["steps"] + (IF turn[d] = -1 THEN 0 ELSE turn[d])
                        <= IF limits'[d]["steps"] < 0 THEN 0 ELSE limits'[d]["steps"]
    BY <1>0 DEF LeafWithin, Promised, Granted, Children, TypeOK
  <2>1. CASE d = t
    <3>1. limits'[d]["steps"] \in Int BY <1>4, <2>1 DEF TypeOK, Kinds, Amount
    <3> QED BY <2>1, <3>1, <1>6
  <2>2. CASE d # t
    <3>1. d \in opened /\ d \in Threads /\ limits'[d] = limits[d]
      BY <2>2, <1>0, <1>3 DEF TypeOK
    <3> QED BY <3>1 DEF LeafWithin, Promised, Granted, TypeOK
  <2> QED BY <2>1, <2>2
<1> QED BY <1>4, <1>5, <1>7, <1>8

LEMMA BeginKeeps ==
  ASSUME IInv, NEW t \in Threads, Begin(t)
  PROVE  IInv'
<1> USE DEF IInv
<1>0. /\ t \in opened /\ turn[t] = -1 /\ ~Exhausted(t)
      /\ turn' = [turn EXCEPT ![t] = Tighter(TurnSteps, Left(t, "steps"))]
      /\ opened' = opened /\ limits' = limits /\ spent' = spent /\ own' = own
  BY DEF Begin
<1> DEFINE cap == Tighter(TurnSteps, Left(t, "steps"))
<1>1. Left(t, "steps") = Unlimited \/ (Left(t, "steps") \in Int /\ Left(t, "steps") >= 1)
  <2>1. \A a \in Chain(t) : AtMost(1, Rest(a, "steps")) BY <1>0 DEF Exhausted, Kinds
  <2>2. "steps" \in Kinds BY DEF Kinds
  <2>3. CASE Left(t, "steps") = Unlimited BY <2>3
  <2>4. CASE Left(t, "steps") # Unlimited
    <3>1. PICK a \in Chain(t) : Left(t, "steps") = Rest(a, "steps") /\ Left(t, "steps") \in Int
      BY <1>0, <2>2, <2>4, LeftLeast
    <3> QED BY <2>1, <3>1, <2>4, LimitsAssumption DEF AtMost
  <2> QED BY <2>3, <2>4
<1>2. cap \in Int /\ cap >= 1
  BY <1>1, TurnAssumption, LimitsAssumption DEF Tighter, AtMost
<1>3. TypeOK' BY <1>0, <1>2 DEF TypeOK
<1>4. Fresh'
  <2>1. \A d \in Threads : turn'[d] = IF d = t THEN cap ELSE turn[d] BY <1>0 DEF TypeOK
  <2> HIDE DEF cap
  <2>2. \A d \in Threads : turn'[d] >= -1 BY <2>1, <1>2 DEF Fresh
  <2>3. \A d \in Threads \ opened : turn'[d] = -1 BY <2>1, <1>0 DEF Fresh
  <2> QED BY <2>2, <2>3, <1>0 DEF Fresh
<1>5. ParentsPay' BY <1>0 DEF ParentsPay
<1>6. LeafWithin'
  <2> SUFFICES ASSUME NEW d \in opened, Children(d) = {}, limits[d]["steps"] # Unlimited
               PROVE  spent[d]["steps"] + (IF turn'[d] = -1 THEN 0 ELSE turn'[d])
                        <= IF limits[d]["steps"] < 0 THEN 0 ELSE limits[d]["steps"]
    BY <1>0 DEF LeafWithin, Promised, Granted, Children, TypeOK
  <2>1. CASE d = t
    <3>1. Rest(t, "steps") = limits[t]["steps"] - spent[t]["steps"] /\ Rest(t, "steps") # Unlimited
      BY <2>1, LimitsAssumption DEF Rest, TypeOK, Kinds, Amount
    <3>2. Left(t, "steps") \in Int /\ Left(t, "steps") <= Rest(t, "steps")
      BY <3>1, <1>0, ChainClimbs, LeftLeast DEF Kinds
    <3>3. cap <= Left(t, "steps")
      BY <3>2, TurnAssumption, LimitsAssumption DEF Tighter, AtMost
    <3>4. limits[t]["steps"] \in Int /\ spent[t]["steps"] \in Nat
      BY <2>1 DEF TypeOK, Kinds, Amount
    <3>5. turn'[t] = cap BY <1>0 DEF TypeOK
    <3> HIDE DEF cap
    <3> QED BY <2>1, <3>1, <3>2, <3>3, <3>4, <3>5, <1>2
  <2>2. CASE d # t
    <3>1. turn'[d] = turn[d] BY <2>2, <1>0 DEF TypeOK
    <3> QED BY <3>1 DEF LeafWithin, Promised, Granted, TypeOK
  <2> QED BY <2>1, <2>2
<1> QED BY <1>3, <1>4, <1>5, <1>6

LEMMA StepKeeps ==
  ASSUME IInv, NEW t \in Threads, Step(t)
  PROVE  IInv'
<1> USE DEF IInv
<1>0. /\ turn[t] > 0 /\ opened' = opened /\ limits' = limits
      /\ own' = [own EXCEPT ![t] = @ + 1]
      /\ turn' = [turn EXCEPT ![t] =
           IF \E a \in Chain(t) : ~AtMost(1, Rest(a, "tokens")') THEN 0 ELSE @ - 1]
  BY DEF Step
<1>1. t \in opened BY <1>0 DEF Fresh
<1>2. PICK n \in StepTokens : Charge(t, [k \in Kinds |-> IF k = "steps" THEN 1 ELSE n])
  BY DEF Step
<1> DEFINE cost == [k \in Kinds |-> IF k = "steps" THEN 1 ELSE n]
<1>3. cost \in [Kinds -> Nat] /\ cost["steps"] = 1 BY TurnAssumption DEF Kinds
<1>4. Charge(t, cost) BY <1>2
<1> HIDE DEF cost
<1>5. /\ spent' \in [Threads -> [Kinds -> Nat]]
      /\ \A a \in Threads, k \in Kinds :
           spent'[a][k] = IF a \in Chain(t) THEN spent[a][k] + cost[k] ELSE spent[a][k]
  BY <1>1, <1>3, <1>4, Charged
<1>6. turn[t] \in Int /\ turn'[t] \in Int /\ 0 <= turn'[t] /\ turn'[t] <= turn[t] - 1
      /\ turn' \in [Threads -> Int] /\ \A d \in Threads : d # t => turn'[d] = turn[d]
  <2>1. turn' = [turn EXCEPT ![t] = 0] \/ turn' = [turn EXCEPT ![t] = @ - 1] BY <1>0
  <2> QED BY <2>1, <1>0 DEF TypeOK
<1>7. TypeOK' BY <1>0, <1>5, <1>6 DEF TypeOK
<1>8. Fresh'
  <2>1. \A d \in Threads \ opened : d \notin Chain(t) /\ d # t BY <1>1 DEF Chain
  <2>2. \A d \in Threads \ opened, k \in Kinds : spent'[d][k] = 0
    BY <2>1, <1>5 DEF Fresh
  <2>3. \A d \in Threads : turn'[d] >= -1 BY <1>6 DEF Fresh
  <2> QED BY <2>1, <2>2, <2>3, <1>0, <1>6 DEF Fresh
<1>9. ParentsPay'
  <2> SUFFICES ASSUME NEW d \in opened, Parent[d] # Nobody
               PROVE  Parent[d] \in opened /\ \A k \in Kinds : spent'[d][k] <= spent'[Parent[d]][k]
    BY <1>0 DEF ParentsPay
  <2>1. Parent[d] \in opened /\ \A k \in Kinds : spent[d][k] <= spent[Parent[d]][k]
    BY DEF ParentsPay
  <2>2. d \in Threads /\ Parent[d] \in Threads BY <2>1 DEF TypeOK
  <2>3. d \in Chain(t) => Parent[d] \in Chain(t) BY <2>1, <1>1, ChainClimbs
  <2>4. \A k \in Kinds : spent[d][k] \in Nat /\ spent[Parent[d]][k] \in Nat /\ cost[k] \in Nat
    BY <2>2, <1>3 DEF TypeOK
  <2> QED BY <2>1, <2>2, <2>3, <2>4, <1>5
<1>10. LeafWithin'
  <2> SUFFICES ASSUME NEW d \in opened, Children(d) = {}, limits[d]["steps"] # Unlimited
               PROVE  spent'[d]["steps"] + (IF turn'[d] = -1 THEN 0 ELSE turn'[d])
                        <= IF limits[d]["steps"] < 0 THEN 0 ELSE limits[d]["steps"]
    BY <1>0 DEF LeafWithin, Promised, Granted, Children, TypeOK
  <2>0. /\ d \in Threads /\ "steps" \in Kinds /\ limits[d]["steps"] \in Int
        /\ spent[d]["steps"] \in Nat
    BY DEF TypeOK, Kinds, Amount
  <2>1. spent[d]["steps"] + (IF turn[d] = -1 THEN 0 ELSE turn[d])
          <= IF limits[d]["steps"] < 0 THEN 0 ELSE limits[d]["steps"]
    BY DEF LeafWithin, Promised, Granted, TypeOK
  <2>2. CASE d = t
    <3>1. spent'[d]["steps"] = spent[d]["steps"] + 1
      BY <2>0, <2>2, <1>1, <1>3, <1>5, ChainClimbs
    <3> QED BY <3>1, <2>0, <2>1, <2>2, <1>0, <1>6
  <2>3. CASE d # t
    <3>1. d \notin Chain(t) BY <2>3, <1>1, LeafAlone
    <3>2. spent'[d]["steps"] = spent[d]["steps"] BY <2>0, <3>1, <1>5
    <3> QED BY <3>2, <2>1, <2>0, <2>3, <1>6
  <2> QED BY <2>2, <2>3
<1> QED BY <1>7, <1>8, <1>9, <1>10

LEMMA EndKeeps ==
  ASSUME IInv, NEW t \in Threads, End(t)
  PROVE  IInv'
<1> USE DEF IInv
<1>0. /\ turn[t] # -1 /\ turn' = [turn EXCEPT ![t] = -1]
      /\ opened' = opened /\ limits' = limits /\ spent' = spent /\ own' = own
  BY DEF End
<1>1. TypeOK' BY <1>0 DEF TypeOK
<1>2. Fresh' BY <1>0 DEF Fresh, TypeOK
<1>3. ParentsPay' BY <1>0 DEF ParentsPay
<1>4. LeafWithin'
  <2> SUFFICES ASSUME NEW d \in opened, Children(d) = {}, limits[d]["steps"] # Unlimited
               PROVE  spent[d]["steps"] + (IF turn'[d] = -1 THEN 0 ELSE turn'[d])
                        <= IF limits[d]["steps"] < 0 THEN 0 ELSE limits[d]["steps"]
    BY <1>0 DEF LeafWithin, Promised, Granted, Children, TypeOK
  <2>1. d \in Threads /\ limits[d]["steps"] \in Int /\ spent[d]["steps"] \in Nat
    BY DEF TypeOK, Kinds, Amount
  <2>2. spent[d]["steps"] + (IF turn[d] = -1 THEN 0 ELSE turn[d])
          <= IF limits[d]["steps"] < 0 THEN 0 ELSE limits[d]["steps"]
    BY DEF LeafWithin, Promised, Granted, TypeOK
  <2>3. turn'[d] = IF d = t THEN -1 ELSE turn[d] BY <2>1, <1>0 DEF TypeOK
  <2>4. turn[d] \in Int /\ turn[d] >= -1 BY <2>1 DEF TypeOK, Fresh
  <2> QED BY <2>1, <2>2, <2>3, <2>4
<1> QED BY <1>1, <1>2, <1>3, <1>4

LEMMA Inductive == IInv /\ [Next]_vars => IInv'
<1> SUFFICES ASSUME IInv, [Next]_vars PROVE IInv' OBVIOUS
<1>1. CASE UNCHANGED vars
  BY <1>1 DEF vars, IInv, TypeOK, Fresh, ParentsPay, LeafWithin, Promised, Granted, Children
<1>2. CASE Next
  <2>1. PICK t \in Threads : Open(t) \/ Begin(t) \/ Step(t) \/ End(t) BY <1>2 DEF Next
  <2> QED BY <2>1, OpenKeeps, BeginKeeps, StepKeeps, EndKeeps
<1> QED BY <1>1, <1>2

LEMMA Always == Spec => []IInv
BY Initially, Inductive, PTL DEF Spec

-----------------------------------------------------------------------------
(* Accounts and turns keep their types (budget.ts:12). *)
THEOREM TypeCorrect == Spec => []TypeOK
<1>1. IInv => TypeOK BY DEF IInv
<1> QED BY <1>1, Always, PTL

(* charge() bills the whole chain: a parent has always paid at least what  *)
(* each of its children has (budget.ts:84).                                *)
THEOREM ParentsAlwaysPay == Spec => []ParentsPay
<1>1. IInv => ParentsPay BY DEF IInv
<1> QED BY <1>1, Always, PTL

(* The cap of a turn at what is left (thread.ts:295) holds a thread that   *)
(* has no sub-agents to its grant, whatever runs above it meanwhile.       *)
THEOREM LeavesStayWithin == Spec => []LeafWithin
<1>1. IInv => LeafWithin BY DEF IInv
<1> QED BY <1>1, Always, PTL

-----------------------------------------------------------------------------
(***************************************************************************)
(* Sums over finite sets.                                                  *)
(***************************************************************************)
(* Induction over the subsets of a finite set: what holds of the empty set *)
(* and passes from the smaller subsets to a larger one holds of all.       *)
LEMMA SubsetInduction ==
  ASSUME NEW S, IsFiniteSet(S), NEW Good, {} \in Good,
         \A s \in SUBSET S : s # {} /\ (\A u \in SUBSET s : u # s => u \in Good) => s \in Good
  PROVE  \A s \in SUBSET S : s \in Good
<1> SUFFICES ASSUME NEW t \in SUBSET S, t \notin Good PROVE FALSE OBVIOUS
<1> DEFINE Bad == {s \in SUBSET S : s \notin Good}
           Counts == {Cardinality(s) : s \in Bad}
<1>1. \A s \in SUBSET S : IsFiniteSet(s) /\ Cardinality(s) \in Nat
  BY FS_Subset, FS_CardinalityType
<1>2. Counts \subseteq Nat /\ Counts # {} BY <1>1
<1>3. PICK n \in Counts : \A m \in Counts : n <= m
  <2> HIDE DEF Counts
  <2> QED BY <1>2, LeastNatural
<1>4. PICK s \in Bad : n = Cardinality(s) OBVIOUS
<1>5. ASSUME NEW u \in SUBSET s, u # s PROVE u \in Good
  <2>1. Cardinality(u) <= Cardinality(s) /\ Cardinality(u) # Cardinality(s)
    BY <1>1, <1>5, FS_Subset
  <2>2. u \in Bad => Cardinality(s) <= Cardinality(u) BY <1>3, <1>4
  <2>3. Cardinality(u) \in Nat /\ Cardinality(s) \in Nat BY <1>1
  <2> QED BY <2>1, <2>2, <2>3
<1> QED BY <1>5

(* The sums over the subsets of a set, as SumOver goes about them. *)
Pick(s) == CHOOSE x \in s : TRUE
Running(f, S, g) ==
  g = [s \in SUBSET S |-> IF s = {} THEN 0 ELSE f[Pick(s)] + g[s \ {Pick(s)}]]

(* A sum over a subset is taken from one member to the rest. *)
LEMMA RunningAt ==
  ASSUME NEW f, NEW S, NEW g, Running(f, S, g), NEW s \in SUBSET S
  PROVE  g[s] = IF s = {} THEN 0 ELSE f[Pick(s)] + g[s \ {Pick(s)}]
BY DEF Running

(* The member a sum goes on with is one of the set. *)
LEMMA PickIn == ASSUME NEW s, s # {} PROVE Pick(s) \in s
BY DEF Pick

(* The sums over the subsets of a set are those over the subsets of a      *)
(* larger one.                                                             *)
LEMMA RunningAgrees ==
  ASSUME NEW f, NEW S, NEW T \in SUBSET S, IsFiniteSet(T), NEW g, NEW h,
         Running(f, S, g), Running(f, T, h)
  PROVE  \A s \in SUBSET T : g[s] = h[s]
<1> DEFINE Good == {s \in SUBSET T : g[s] = h[s]}
<1>1. {} \in Good BY RunningAt
<1>2. ASSUME NEW s \in SUBSET T, s # {}, \A u \in SUBSET s : u # s => u \in Good
      PROVE  s \in Good
  <2>1. Pick(s) \in s BY <1>2, PickIn
  <2>2. s \ {Pick(s)} \in Good BY <1>2, <2>1
  <2>3. g[s \ {Pick(s)}] = h[s \ {Pick(s)}] BY <2>2
  <2> QED BY <1>2, <2>3, RunningAt
<1>3. \A s \in SUBSET T : s \in Good
  <2> HIDE DEF Good
  <2> QED BY <1>1, <1>2, SubsetInduction
<1> QED BY <1>3

(* They exist. *)
LEMMA RunningExists ==
  ASSUME NEW f, NEW S, IsFiniteSet(S)
  PROVE  \E g : Running(f, S, g)
<1> DEFINE Good == {s \in SUBSET S : \E g : Running(f, s, g)}
           R(s) == CHOOSE g : Running(f, s, g)
           Part(s) == IF s = {} THEN 0 ELSE f[Pick(s)] + R(s \ {Pick(s)})[s \ {Pick(s)}]
<1>1. {} \in Good
  <2> DEFINE g == [s \in SUBSET {} |-> 0]
  <2>1. g = [s \in SUBSET {} |-> IF s = {} THEN 0 ELSE f[Pick(s)] + g[s \ {Pick(s)}]]
    <3>1. \A s \in SUBSET {} : s = {} OBVIOUS
    <3> QED BY <3>1
  <2>2. Running(f, {}, g) BY <2>1 DEF Running
  <2> QED BY <2>2
<1>2. ASSUME NEW t \in SUBSET S, t # {}, \A u \in SUBSET t : u # t => u \in Good
      PROVE  t \in Good
  <2> DEFINE g == [s \in SUBSET t |-> Part(s)]
  <2>1. \A u \in SUBSET t : u # t => Running(f, u, R(u)) /\ IsFiniteSet(u)
    <3>1. \A u \in SUBSET t : u # t => \E k : Running(f, u, k) BY <1>2
    <3> QED BY <3>1, FS_Subset
  <2>2. ASSUME NEW u \in SUBSET t, u # t PROVE Part(u) = R(u)[u]
    <3>1. CASE u = {}
      <4>1. Running(f, u, R(u)) BY <2>1, <2>2
      <4> HIDE DEF R
      <4>2. R(u)[u] = 0 BY <3>1, <4>1, RunningAt
      <4> QED BY <3>1, <4>2
    <3>2. CASE u # {}
      <4> DEFINE v == u \ {Pick(u)}
      <4>1. v \in SUBSET u /\ v # t /\ v \in SUBSET t BY <2>2
      <4>2. Running(f, u, R(u)) /\ Running(f, v, R(v)) /\ IsFiniteSet(v) BY <2>1, <2>2, <4>1
      <4>3. R(u)[v] = R(v)[v]
        <5> HIDE DEF R, v
        <5> QED BY <4>1, <4>2, RunningAgrees
      <4>4. R(u)[u] = f[Pick(u)] + R(u)[v]
        <5> HIDE DEF R
        <5> QED BY <3>2, <4>2, RunningAt
      <4> HIDE DEF R
      <4> QED BY <3>2, <4>3, <4>4
    <3> QED BY <3>1, <3>2
  <2>3. ASSUME NEW s \in SUBSET t
        PROVE  Part(s) = IF s = {} THEN 0 ELSE f[Pick(s)] + g[s \ {Pick(s)}]
    <3>1. CASE s = {} BY <3>1
    <3>2. CASE s # {}
      <4>1. s \ {Pick(s)} \in SUBSET t /\ s \ {Pick(s)} # t BY <3>2, PickIn
      <4>2. g[s \ {Pick(s)}] = Part(s \ {Pick(s)}) BY <4>1
      <4>3. Part(s \ {Pick(s)}) = R(s \ {Pick(s)})[s \ {Pick(s)}]
        <5> DEFINE v == s \ {Pick(s)}
        <5> HIDE DEF v, Part, R
        <5>1. v \in SUBSET t /\ v # t BY <4>1 DEF v
        <5>2. Part(v) = R(v)[v] BY <5>1, <2>2
        <5> QED BY <5>2 DEF v
      <4>4. Part(s) = f[Pick(s)] + R(s \ {Pick(s)})[s \ {Pick(s)}] BY <3>2
      <4> HIDE DEF R, Part, g
      <4> QED BY <3>2, <4>2, <4>3, <4>4
    <3> QED BY <3>1, <3>2
  <2>4. g = [s \in SUBSET t |-> IF s = {} THEN 0 ELSE f[Pick(s)] + g[s \ {Pick(s)}]]
    <3> DEFINE k == [s \in SUBSET t |-> IF s = {} THEN 0 ELSE f[Pick(s)] + g[s \ {Pick(s)}]]
    <3>1. \A s \in SUBSET t : g[s] = k[s]
      <4> HIDE DEF Part
      <4> QED BY <2>3
    <3>2. g = [s \in SUBSET t |-> g[s]] /\ k = [s \in SUBSET t |-> k[s]] OBVIOUS
    <3> HIDE DEF g, k
    <3>3. g = k BY <3>1, <3>2
    <3> QED BY <3>3 DEF k
  <2>5. Running(f, t, g)
    <3> HIDE DEF g
    <3> QED BY <2>4 DEF Running
  <2> QED BY <2>5
<1>3. \A s \in SUBSET S : s \in Good
  <2> HIDE DEF Good
  <2> QED BY <1>1, <1>2, SubsetInduction
<1> QED BY <1>3

(* SumOver is such a sum. *)
LEMMA SumRunning ==
  ASSUME NEW f, NEW S, IsFiniteSet(S)
  PROVE  \E g : Running(f, S, g) /\ SumOver(f, S) = g[S]
<1> DEFINE g == CHOOSE g : Running(f, S, g)
<1>1. Running(f, S, g) BY RunningExists
<1>2. SumOver(f, S) = g[S]
  BY DEF SumOver, MapThenSumSet, MapThenFoldSet, Running, Pick
<1> QED BY <1>1, <1>2

(* The sum over an empty set, and the sum as its recursion takes it. *)
LEMMA SumStep ==
  ASSUME NEW f, NEW S, IsFiniteSet(S)
  PROVE  SumOver(f, S) = IF S = {} THEN 0 ELSE f[Pick(S)] + SumOver(f, S \ {Pick(S)})
<1>1. PICK g : Running(f, S, g) /\ SumOver(f, S) = g[S] BY SumRunning
<1>2. CASE S = {} BY <1>1, <1>2, RunningAt
<1>3. CASE S # {}
  <2> DEFINE T == S \ {Pick(S)}
  <2>1. T \in SUBSET S /\ IsFiniteSet(T) BY FS_Subset
  <2> HIDE DEF T
  <2>2. PICK h : Running(f, T, h) /\ SumOver(f, T) = h[T] BY <2>1, SumRunning
  <2>3. g[T] = h[T] BY <1>1, <2>1, <2>2, RunningAgrees
  <2>4. g[S] = f[Pick(S)] + g[S \ {Pick(S)}] BY <1>1, <1>3, RunningAt
  <2> QED BY <1>1, <1>3, <2>2, <2>3, <2>4 DEF T
<1> QED BY <1>2, <1>3

(* What a function adds up to is a number if it is numbers on the set. *)
Weighs(f, S) == \A x \in S : f[x] \in Int

(* What is summed is a number, and so is the sum. *)
LEMMA SumType ==
  ASSUME NEW f, NEW S, IsFiniteSet(S), Weighs(f, S)
  PROVE  SumOver(f, S) \in Int
<1> DEFINE Good == {s \in SUBSET S : SumOver(f, s) \in Int}
<1>1. {} \in Good
  <2>1. SumOver(f, {}) = 0 BY SumStep, FS_EmptySet
  <2> QED BY <2>1
<1>2. ASSUME NEW s \in SUBSET S, s # {}, \A u \in SUBSET s : u # s => u \in Good
      PROVE  s \in Good
  <2>1. Pick(s) \in s /\ IsFiniteSet(s) BY <1>2, PickIn, FS_Subset
  <2>2. SumOver(f, s \ {Pick(s)}) \in Int BY <1>2, <2>1
  <2>3. f[Pick(s)] \in Int BY <2>1 DEF Weighs
  <2>4. SumOver(f, s) = f[Pick(s)] + SumOver(f, s \ {Pick(s)}) BY <1>2, <2>1, SumStep
  <2> QED BY <2>2, <2>3, <2>4
<1>3. \A s \in SUBSET S : s \in Good
  <2> HIDE DEF Good
  <2> QED BY <1>1, <1>2, SubsetInduction
<1> QED BY <1>3

(* The sum may be begun at any of its members. *)
LEMMA SumAny ==
  ASSUME NEW f, NEW S, IsFiniteSet(S), Weighs(f, S)
  PROVE  \A x \in S : SumOver(f, S) = f[x] + SumOver(f, S \ {x})
<1> DEFINE Good == {s \in SUBSET S : \A x \in s : SumOver(f, s) = f[x] + SumOver(f, s \ {x})}
<1>1. {} \in Good OBVIOUS
<1>2. ASSUME NEW s \in SUBSET S, s # {}, \A u \in SUBSET s : u # s => u \in Good
      PROVE  s \in Good
  <2>1. Pick(s) \in s /\ IsFiniteSet(s) BY <1>2, PickIn, FS_Subset
  <2>2. SumOver(f, s) = f[Pick(s)] + SumOver(f, s \ {Pick(s)}) BY <1>2, <2>1, SumStep
  <2>3. ASSUME NEW x \in s PROVE SumOver(f, s) = f[x] + SumOver(f, s \ {x})
    <3>1. CASE x = Pick(s) BY <3>1, <2>2
    <3>2. CASE x # Pick(s)
      <4> DEFINE c == Pick(s)
                 a == s \ {c}
                 b == s \ {x}
                 r == (s \ {c}) \ {x}
      <4>1. a \in Good /\ b \in Good /\ x \in a /\ c \in b BY <1>2, <2>1, <3>2
      <4>2. SumOver(f, a) = f[x] + SumOver(f, a \ {x}) BY <4>1
      <4>3. SumOver(f, b) = f[c] + SumOver(f, b \ {c}) BY <4>1
      <4>4. a \ {x} = r /\ b \ {c} = r OBVIOUS
      <4>5. f[x] \in Int /\ f[c] \in Int BY <2>1 DEF Weighs
      <4>6. SumOver(f, r) \in Int
        <5>1. IsFiniteSet(r) BY FS_Subset
        <5>2. Weighs(f, r) BY DEF Weighs
        <5> HIDE DEF r
        <5> QED BY <5>1, <5>2, SumType
      <4>7. SumOver(f, s) = f[c] + SumOver(f, a) BY <2>2
      <4> HIDE DEF c, a, b, r
      <4>8. SumOver(f, a) = f[x] + SumOver(f, r) /\ SumOver(f, b) = f[c] + SumOver(f, r)
        BY <4>2, <4>3, <4>4
      <4>9. SumOver(f, s) = f[x] + SumOver(f, b) BY <4>5, <4>6, <4>7, <4>8
      <4> QED BY <4>9 DEF b
    <3> QED BY <3>1, <3>2
  <2> QED BY <2>3
<1>3. \A s \in SUBSET S : s \in Good
  <2> HIDE DEF Good
  <2> QED BY <1>1, <1>2, SubsetInduction
<1> QED BY <1>3

(* It depends on what is summed over the set only. *)
LEMMA SumSame ==
  ASSUME NEW f, NEW h, NEW S, IsFiniteSet(S), \A x \in S : f[x] = h[x]
  PROVE  SumOver(f, S) = SumOver(h, S)
<1> DEFINE Good == {s \in SUBSET S : SumOver(f, s) = SumOver(h, s)}
<1>1. {} \in Good BY SumStep, FS_EmptySet
<1>2. ASSUME NEW s \in SUBSET S, s # {}, \A u \in SUBSET s : u # s => u \in Good
      PROVE  s \in Good
  <2>1. Pick(s) \in s /\ IsFiniteSet(s) BY <1>2, PickIn, FS_Subset
  <2>2. SumOver(f, s \ {Pick(s)}) = SumOver(h, s \ {Pick(s)}) BY <1>2, <2>1
  <2>3. SumOver(f, s) = f[Pick(s)] + SumOver(f, s \ {Pick(s)}) BY <1>2, <2>1, SumStep
  <2>4. SumOver(h, s) = h[Pick(s)] + SumOver(h, s \ {Pick(s)}) BY <1>2, <2>1, SumStep
  <2>5. f[Pick(s)] = h[Pick(s)] BY <2>1
  <2>6. SumOver(f, s) = SumOver(h, s) BY <2>2, <2>3, <2>4, <2>5
  <2> QED BY <2>6
<1>3. \A s \in SUBSET S : s \in Good
  <2> HIDE DEF Good
  <2> QED BY <1>1, <1>2, SubsetInduction
<1> QED BY <1>3

(* What a change of one member does to the sum. *)
LEMMA SumChange ==
  ASSUME NEW f, NEW h, NEW S, IsFiniteSet(S), Weighs(f, S), Weighs(h, S), NEW x \in S,
         \A y \in S : y # x => f[y] = h[y]
  PROVE  SumOver(h, S) = SumOver(f, S) + h[x] - f[x]
<1> DEFINE T == S \ {x}
<1>1. IsFiniteSet(T) /\ Weighs(f, T) BY FS_Subset DEF Weighs
<1>2. \A y \in T : f[y] = h[y] OBVIOUS
<1>3. SumOver(f, S) = f[x] + SumOver(f, T) BY SumAny
<1>4. SumOver(h, S) = h[x] + SumOver(h, T) BY SumAny
<1> HIDE DEF T
<1>5. SumOver(f, T) = SumOver(h, T) BY <1>1, <1>2, SumSame
<1>6. SumOver(f, T) \in Int BY <1>1, SumType
<1>7. f[x] \in Int /\ h[x] \in Int BY DEF Weighs
<1> QED BY <1>3, <1>4, <1>5, <1>6, <1>7

(* A new member adds what it weighs. *)
LEMMA SumGrow ==
  ASSUME NEW f, NEW S, IsFiniteSet(S), Weighs(f, S), NEW x, x \notin S, f[x] \in Int
  PROVE  SumOver(f, S \cup {x}) = SumOver(f, S) + f[x]
<1> DEFINE T == S \cup {x}
<1>1. IsFiniteSet(T) /\ Weighs(f, T) /\ x \in T /\ T \ {x} = S BY FS_AddElement DEF Weighs
<1> HIDE DEF T
<1>2. SumOver(f, T) = f[x] + SumOver(f, S) BY <1>1, SumAny
<1>3. SumOver(f, S) \in Int BY SumType
<1> QED BY <1>2, <1>3 DEF T

(* A sum of so many members, none above a bound. *)
LEMMA SumAtMost ==
  ASSUME NEW f, NEW S, IsFiniteSet(S), Weighs(f, S), NEW m \in Int, \A x \in S : f[x] <= m
  PROVE  SumOver(f, S) <= Cardinality(S) * m
<1> DEFINE Good == {s \in SUBSET S : SumOver(f, s) <= Cardinality(s) * m}
<1>1. {} \in Good
  <2>1. SumOver(f, {}) = 0 BY SumStep, FS_EmptySet
  <2>2. Cardinality({}) = 0 BY FS_EmptySet
  <2> QED BY <2>1, <2>2
<1>2. ASSUME NEW s \in SUBSET S, s # {}, \A u \in SUBSET s : u # s => u \in Good
      PROVE  s \in Good
  <2> DEFINE c == Pick(s)
             r == s \ {c}
  <2>1. c \in s /\ IsFiniteSet(s) BY <1>2, PickIn, FS_Subset
  <2>2. r \in Good /\ IsFiniteSet(r) /\ Weighs(f, r) BY <1>2, <2>1, FS_Subset DEF Weighs
  <2>3. SumOver(f, s) = f[c] + SumOver(f, r) BY <1>2, <2>1, SumStep
  <2>4. f[c] \in Int /\ f[c] <= m BY <2>1 DEF Weighs
  <2>5. Cardinality(r) = Cardinality(s) - 1 /\ Cardinality(s) \in Nat /\ Cardinality(r) \in Nat
    BY <2>1, <2>2, FS_RemoveElement, FS_CardinalityType
  <2>6. SumOver(f, r) <= Cardinality(r) * m BY <2>2
  <2> HIDE DEF c, r
  <2>7. SumOver(f, r) \in Int BY <2>2, SumType
  <2>8. Cardinality(s) * m = Cardinality(r) * m + m BY <2>5
  <2>9. Cardinality(r) * m \in Int BY <2>5
  <2> QED BY <2>3, <2>4, <2>6, <2>7, <2>8, <2>9
<1>3. \A s \in SUBSET S : s \in Good
  <2> HIDE DEF Good
  <2> QED BY <1>1, <1>2, SubsetInduction
<1> QED BY <1>3

-----------------------------------------------------------------------------
(***************************************************************************)
(* Sums of steps and of promises over the threads below an account.        *)
(***************************************************************************)
(* What the sums and the overspending need besides: threads without an     *)
(* account took no step, ...                                               *)
Unbilled == \A t \in Threads \ opened : own[t] = 0

(* ... the turns below an account were each promised no more than it was   *)
(* granted, ...                                                            *)
Shared ==
  \A t \in opened : limits[t]["steps"] # Unlimited =>
    /\ \A d \in Below(t) : Promised[d] <= Granted(t, "steps")
    /\ spent[t]["steps"] + SumOver(Promised, Below(t))
         <= Cardinality(Below(t)) * Granted(t, "steps")

(* ... and each thread below ran over its tokens at most once: a turn that *)
(* did has no step left, and none begins.                                  *)
Stopped(t) == {d \in Below(t) : turn[d] <= 0}
Overrun ==
  \A t \in opened : limits[t]["tokens"] # Unlimited =>
    \/ spent[t]["tokens"] < limits[t]["tokens"]
    \/ spent[t]["tokens"] <=
         Granted(t, "tokens") + Cardinality(Stopped(t)) * Max(StepTokens)

Sums == Unbilled /\ Conserved /\ Shared /\ Overrun

-----------------------------------------------------------------------------
(* The threads below an account are threads, finitely many, itself one. *)
LEMMA BelowThreads ==
  ASSUME TypeOK, NEW t
  PROVE  /\ Below(t) \subseteq opened /\ Below(t) \subseteq Threads
         /\ IsFiniteSet(Below(t)) /\ Cardinality(Below(t)) \in Nat
         /\ IsFiniteSet(Stopped(t)) /\ Cardinality(Stopped(t)) \in Nat
         /\ Cardinality(Stopped(t)) <= Cardinality(Below(t))
         /\ t \in opened => t \in Below(t)
<1>1. Below(t) \subseteq opened /\ Below(t) \subseteq Threads BY DEF Below, TypeOK
<1>2. IsFiniteSet(Below(t)) BY <1>1, ThreadsAssumption, FS_Subset
<1>3. Stopped(t) \subseteq Below(t) BY DEF Stopped
<1>4. IsFiniteSet(Stopped(t)) /\ Cardinality(Stopped(t)) <= Cardinality(Below(t))
  BY <1>2, <1>3, FS_Subset
<1>5. t \in opened => t \in Below(t) BY ChainClimbs DEF Below
<1> QED BY <1>1, <1>2, <1>4, <1>5, FS_CardinalityType

(* Promises are numbers of steps. *)
LEMMA PromisedType ==
  ASSUME TypeOK, Fresh
  PROVE  Promised \in [Threads -> Nat]
BY DEF TypeOK, Fresh, Promised

(* The most a step costs. *)
LEMMA MostTokens == Max(StepTokens) \in Nat /\ \A n \in StepTokens : n <= Max(StepTokens)
<1> DEFINE f == [n \in StepTokens |-> -n]
<1>1. \A n \in StepTokens : f[n] \in Int /\ f[n] = -n /\ n \in Nat BY TurnAssumption
<1>2. PICK n \in StepTokens : \A m \in StepTokens : f[n] <= f[m]
  <2> HIDE DEF f
  <2> QED BY <1>1, CostAssumption, LeastValue
<1>3. \A m \in StepTokens : n >= m BY <1>1, <1>2
<1>4. Max(StepTokens) = CHOOSE x \in StepTokens : \A y \in StepTokens : x >= y BY DEF Max
<1>5. Max(StepTokens) \in StepTokens /\ \A m \in StepTokens : Max(StepTokens) >= m
  BY <1>3, <1>4
<1> QED BY <1>1, <1>5

(* The amounts of an account that has a limit. *)
LEMMA GrantedType ==
  ASSUME TypeOK, NEW t \in opened, NEW k \in Kinds, limits[t][k] # Unlimited
  PROVE  /\ limits[t][k] \in Int /\ Granted(t, k) \in Nat /\ spent[t][k] \in Nat
         /\ limits[t][k] <= Granted(t, k) /\ Rest(t, k) = limits[t][k] - spent[t][k]
         /\ Rest(t, k) # Unlimited
BY LimitsAssumption DEF TypeOK, Amount, Granted, Rest

(* A new account changes no chain but its own. *)
LEMMA OpenChains ==
  ASSUME TypeOK, ParentsPay, NEW t \in Threads, t \notin opened,
         Parent[t] \in opened \cup {Nobody}, opened' = opened \cup {t}
  PROVE  /\ \A d \in opened : Chain(d)' = Chain(d)
         /\ t \in Chain(t)'
         /\ \A a \in opened : a \in Chain(t)' => Parent[t] \in opened /\ a \in Chain(Parent[t])
<1>0. \A d \in opened : Parent[d] # t
  BY ParentAssumption DEF ParentsPay
<1>1. ASSUME NEW d \in opened, NEW a \in Chain(d) PROVE a \in Chain(d)'
  <2> SUFFICES ASSUME NEW S \in SUBSET opened', d \in S, \A x \in S : Parent[x] \in opened' => Parent[x] \in S
               PROVE  a \in S
    BY <1>1 DEF Chain, Up
  <2>1. Up(S \cap opened) BY DEF Up
  <2> QED BY <2>1, <1>1 DEF Chain
<1>2. ASSUME NEW d \in opened, NEW a \in Chain(d)' PROVE a \in Chain(d)
  <2>1. ASSUME NEW S \in SUBSET opened, d \in S, Up(S) PROVE a \in S
    <3>1. \A x \in S : Parent[x] \in opened' => Parent[x] \in S BY <1>0, <2>1 DEF Up
    <3> QED BY <3>1, <2>1, <1>2 DEF Chain, Up
  <2>2. Up(opened) BY DEF Up
  <2> QED BY <2>1, <2>2 DEF Chain
<1>3. t \in Chain(t)' BY DEF Chain
<1>4. ASSUME NEW a \in opened, a \in Chain(t)'
      PROVE  Parent[t] \in opened /\ a \in Chain(Parent[t])
  <2>1. CASE Parent[t] \in opened
    <3> DEFINE S == {t} \cup Chain(Parent[t])
    <3>1. S \in SUBSET opened' /\ t \in S BY DEF Chain
    <3>2. \A x \in S : Parent[x] \in opened' => Parent[x] \in S
      <4> SUFFICES ASSUME NEW x \in S, Parent[x] \in opened' PROVE Parent[x] \in S OBVIOUS
      <4>1. CASE x = t BY <4>1, <2>1, ChainClimbs
      <4>2. CASE x \in Chain(Parent[t])
        <5>1. x \in opened BY <4>2 DEF Chain
        <5>2. Parent[x] \in opened BY <5>1, <1>0
        <5> QED BY <5>2, <4>2, <2>1, ChainClimbs
      <4> QED BY <4>1, <4>2
    <3>3. a \in S
      <4> HIDE DEF S
      <4> QED BY <3>1, <3>2, <1>4 DEF Chain, Up
    <3> QED BY <2>1, <3>3
  <2>2. CASE Parent[t] \notin opened
    <3>1. Parent[t] \notin opened' BY <2>2, ParentAssumption
    <3>2. a \in {t} BY <3>1, <1>4 DEF Chain, Up
    <3> QED BY <3>2
  <2> QED BY <2>1, <2>2
<1> QED BY <1>1, <1>2, <1>3, <1>4

(* What is below an account once another is opened. *)
LEMMA OpenBelow ==
  ASSUME TypeOK, ParentsPay, NEW t \in Threads, t \notin opened,
         Parent[t] \in opened \cup {Nobody}, opened' = opened \cup {t}
  PROVE  /\ Below(t)' = {t}
         /\ \A a \in opened : Below(a)' = Below(a) \/ Below(a)' = Below(a) \cup {t}
<1>1. /\ \A d \in opened : Chain(d)' = Chain(d)
      /\ t \in Chain(t)'
  BY OpenChains
<1>2. \A d \in opened : t \notin Chain(d) BY DEF Chain
<1>3. Below(t)' = {t} BY <1>1, <1>2 DEF Below
<1>4. \A a \in opened : Below(a)' = Below(a) \/ Below(a)' = Below(a) \cup {t}
  BY <1>1 DEF Below
<1> QED BY <1>3, <1>4

(* Products grow with their factor. *)
LEMMA TimesMonotone ==
  ASSUME NEW n \in Nat, NEW m \in Nat, NEW x \in Nat, n <= m
  PROVE  n * x \in Int /\ m * x \in Int /\ n * x <= m * x
<1>1. (m - n) * x >= 0 OBVIOUS
<1>2. (m - n) * x = m * x - n * x OBVIOUS
<1>3. m * x \in Int /\ n * x \in Int OBVIOUS
<1> QED BY <1>1, <1>2, <1>3

(* A set with one member more, or none. *)
LEMMA OneMore ==
  ASSUME NEW A, NEW B, NEW x, IsFiniteSet(A), B = A \/ B = A \cup {x}
  PROVE  /\ IsFiniteSet(B) /\ Cardinality(A) \in Nat /\ Cardinality(B) \in Nat
         /\ Cardinality(A) <= Cardinality(B)
<1>1. IsFiniteSet(B) /\ A \subseteq B BY FS_AddElement
<1>2. Cardinality(A) <= Cardinality(B) BY <1>1, FS_Subset
<1> QED BY <1>1, <1>2, FS_CardinalityType

(* The sums hold at first, and every step keeps them. *)
LEMMA SumsInit == Init => Sums
BY DEF Init, Sums, Unbilled, Conserved, Shared, Overrun

(* A new account has spent and was promised nothing. *)
LEMMA SumsOpen ==
  ASSUME IInv, IInv', Sums, NEW t \in Threads, Open(t)
  PROVE  Sums'
<1> USE DEF IInv, Sums
<1>0. /\ t \notin opened /\ Parent[t] \in opened \cup {Nobody}
      /\ opened' = opened \cup {t} /\ spent' = spent /\ turn' = turn /\ own' = own
      /\ \A d \in opened : limits'[d] = limits[d] /\ d # t
  BY DEF Open, TypeOK
<1>1. Unbilled' BY <1>0 DEF Unbilled
<1>2. own[t] = 0 /\ spent[t]["steps"] = 0 /\ spent[t]["tokens"] = 0 /\ turn[t] = -1
      /\ Promised[t] = 0 /\ Promised' = Promised
  BY <1>0 DEF Unbilled, Fresh, Kinds, Promised
<1>3. /\ Below(t)' = {t}
      /\ \A a \in opened : Below(a)' = Below(a) \/ Below(a)' = Below(a) \cup {t}
  BY <1>0, OpenBelow
<1>4. \A a \in opened : t \notin Below(a) /\ IsFiniteSet(Below(a)) /\ Below(a) \subseteq Threads
  BY <1>0, BelowThreads
<1>5. \A f : SumOver(f, {t}) = SumOver(f, {}) + f[t] \/ f[t] \notin Int
  <2> SUFFICES ASSUME NEW f, f[t] \in Int PROVE SumOver(f, {t}) = SumOver(f, {}) + f[t]
    OBVIOUS
  <2>1. IsFiniteSet({}) /\ Weighs(f, {}) BY FS_EmptySet DEF Weighs
  <2>2. SumOver(f, {} \cup {t}) = SumOver(f, {}) + f[t] BY <2>1, SumGrow
  <2>3. {} \cup {t} = {t} OBVIOUS
  <2> QED BY <2>2, <2>3
<1>6. \A f : SumOver(f, {}) = 0 BY FS_EmptySet, SumStep
<1>7. ASSUME NEW f, NEW a \in opened, f \in [Threads -> Int], f[t] = 0
      PROVE  SumOver(f, Below(a)') = SumOver(f, Below(a)) /\ SumOver(f, Below(a)) \in Int
  <2>1. Weighs(f, Below(a)) BY <1>4, <1>7 DEF Weighs
  <2>2. SumOver(f, Below(a)) \in Int BY <2>1, <1>4, SumType
  <2>3. SumOver(f, Below(a) \cup {t}) = SumOver(f, Below(a)) + f[t]
    BY <2>1, <1>4, <1>7, SumGrow
  <2>4. Below(a)' = Below(a) \/ Below(a)' = Below(a) \cup {t} BY <1>3
  <2> QED
    <3>1. CASE Below(a)' = Below(a) BY <2>2, <3>1
    <3>2. CASE Below(a)' = Below(a) \cup {t}
      <4>1. SumOver(f, Below(a)') = SumOver(f, Below(a)) + f[t] BY <3>2, <2>3
      <4> QED BY <4>1, <2>2, <1>7
    <3> QED BY <2>4, <3>1, <3>2
<1>8. own \in [Threads -> Int] /\ Promised \in [Threads -> Int]
  BY PromisedType DEF TypeOK
<1>9. Conserved'
  <2> SUFFICES ASSUME NEW a \in opened'
               PROVE  spent[a]["steps"] = SumOver(own, Below(a)')
    BY <1>0 DEF Conserved
  <2>1. CASE a = t
    <3>1. SumOver(own, {t}) = 0
      <4>1. own[t] \in Int BY <1>8
      <4>2. SumOver(own, {t}) = SumOver(own, {}) + own[t] BY <4>1, <1>5
      <4>3. SumOver(own, {}) = 0 BY <1>6
      <4> QED BY <4>2, <4>3, <1>2
    <3>2. Below(a)' = {t} BY <1>3, <2>1
    <3> QED BY <3>1, <3>2, <2>1, <1>2
  <2>2. CASE a \in opened BY <2>2, <1>2, <1>7, <1>8 DEF Conserved
  <2> QED BY <2>1, <2>2, <1>0
<1>10. \A a \in opened' : a = t => SumOver(Promised, Below(a)') = 0 /\ Cardinality(Below(a)') = 1
  <2>1. Promised[t] \in Int BY <1>8
  <2>2. SumOver(Promised, {t}) = SumOver(Promised, {}) + Promised[t] BY <2>1, <1>5
  <2>3. SumOver(Promised, {}) = 0 BY <1>6
  <2>4. SumOver(Promised, {t}) = 0 BY <2>2, <2>3, <1>2
  <2>5. Cardinality({t}) = 1 BY FS_Singleton
  <2> QED BY <2>4, <2>5, <1>3
<1>11. \A a \in opened : /\ Cardinality(Below(a)') \in Nat /\ Cardinality(Below(a)) \in Nat
                        /\ Cardinality(Below(a)) <= Cardinality(Below(a)')
  BY <1>3, <1>4, OneMore
<1>12. Shared'
  <2> SUFFICES ASSUME NEW a \in opened', limits'[a]["steps"] # Unlimited
               PROVE  /\ \A d \in Below(a)' : Promised[d] <= Granted(a, "steps")'
                      /\ spent[a]["steps"] + SumOver(Promised, Below(a)')
                           <= Cardinality(Below(a)') * Granted(a, "steps")'
    BY <1>0, <1>2 DEF Shared
  <2>0. "steps" \in Kinds BY DEF Kinds
  <2>1. CASE a = t
    <3>1. Granted(a, "steps")' \in Nat
      BY <2>0, <2>1 DEF TypeOK, Amount, Granted
    <3>2. 1 * Granted(a, "steps")' = Granted(a, "steps")' BY <3>1
    <3>3. \A d \in Below(a)' : Promised[d] = 0 BY <2>1, <1>2, <1>3
    <3>4. SumOver(Promised, Below(a)') = 0 /\ Cardinality(Below(a)') = 1 BY <1>10, <2>1
    <3> QED BY <3>1, <3>2, <3>3, <3>4, <2>1, <1>2
  <2>2. CASE a \in opened
    <3>1. limits[a]["steps"] # Unlimited /\ Granted(a, "steps")' = Granted(a, "steps")
      BY <2>2, <1>0 DEF Granted
    <3>2. Granted(a, "steps") \in Nat /\ spent[a]["steps"] \in Nat BY <3>1, <2>0, <2>2, GrantedType
    <3>3. /\ \A d \in Below(a) : Promised[d] <= Granted(a, "steps")
          /\ spent[a]["steps"] + SumOver(Promised, Below(a))
               <= Cardinality(Below(a)) * Granted(a, "steps")
      BY <2>2, <3>1 DEF Shared
    <3>4. \A d \in Below(a)' : d \in Below(a) \/ d = t BY <2>2, <1>3
    <3>5. \A d \in Below(a)' : Promised[d] <= Granted(a, "steps") BY <3>2, <3>3, <3>4, <1>2
    <3>6. /\ Cardinality(Below(a)) * Granted(a, "steps") \in Int
          /\ Cardinality(Below(a)') * Granted(a, "steps") \in Int
          /\ Cardinality(Below(a)) * Granted(a, "steps") <= Cardinality(Below(a)') * Granted(a, "steps")
      <4> DEFINE n == Cardinality(Below(a))
                 m == Cardinality(Below(a)')
                 g == Granted(a, "steps")
      <4>1. n \in Nat /\ m \in Nat /\ g \in Nat /\ n <= m BY <3>2, <2>2, <1>11
      <4> HIDE DEF n, m, g
      <4>2. n * g \in Int /\ m * g \in Int /\ n * g <= m * g BY <4>1, TimesMonotone
      <4> QED BY <4>2 DEF n, m, g
    <3>7. SumOver(Promised, Below(a)') = SumOver(Promised, Below(a)) /\ SumOver(Promised, Below(a)) \in Int
      BY <2>2, <1>2, <1>7, <1>8
    <3>9. spent[a]["steps"] + SumOver(Promised, Below(a)') <= Cardinality(Below(a)') * Granted(a, "steps")
      BY <3>2, <3>3, <3>6, <3>7
    <3> QED BY <3>1, <3>5, <3>9
  <2> QED BY <2>1, <2>2, <1>0
<1>13. Overrun'
  <2> SUFFICES ASSUME NEW a \in opened', limits'[a]["tokens"] # Unlimited
               PROVE  \/ spent[a]["tokens"] < limits'[a]["tokens"]
                      \/ spent[a]["tokens"] <=
                           Granted(a, "tokens")' + Cardinality(Stopped(a)') * Max(StepTokens)
    BY <1>0 DEF Overrun
  <2>0. "tokens" \in Kinds /\ Max(StepTokens) \in Nat BY MostTokens DEF Kinds
  <2>1. CASE a = t
    <3>1. Granted(a, "tokens")' \in Nat
      BY <2>0, <2>1 DEF TypeOK, Amount, Granted
    <3>2. Stopped(a)' = {t} BY <2>1, <1>2, <1>3, <1>0 DEF Stopped
    <3>3. Cardinality(Stopped(a)') = 1 BY <3>2, FS_Singleton
    <3> QED BY <3>1, <3>3, <2>0, <2>1, <1>2
  <2>2. CASE a \in opened
    <3>1. limits[a]["tokens"] # Unlimited /\ Granted(a, "tokens")' = Granted(a, "tokens")
          /\ limits'[a] = limits[a]
      BY <2>2, <1>0 DEF Granted
    <3>2. Granted(a, "tokens") \in Nat /\ spent[a]["tokens"] \in Nat BY <3>1, <2>0, <2>2, GrantedType
    <3>3. Stopped(a)' = Stopped(a) \/ Stopped(a)' = Stopped(a) \cup {t}
      BY <2>2, <1>2, <1>3, <1>0 DEF Stopped
    <3>4. IsFiniteSet(Stopped(a)) /\ Cardinality(Stopped(a)) \in Nat BY BelowThreads
    <3>5. Cardinality(Stopped(a)') \in Nat /\ Cardinality(Stopped(a)) <= Cardinality(Stopped(a)')
      BY <3>3, <3>4, OneMore
    <3> DEFINE n == Cardinality(Stopped(a))
               m == Cardinality(Stopped(a)')
               x == Max(StepTokens)
    <3>6. n \in Nat /\ m \in Nat /\ x \in Nat /\ n <= m BY <3>4, <3>5, <2>0
    <3>7. \/ spent[a]["tokens"] < limits[a]["tokens"]
          \/ spent[a]["tokens"] <= Granted(a, "tokens") + n * x
      BY <2>2, <3>1 DEF Overrun
    <3> HIDE DEF n, m, x
    <3>8. n * x <= m * x /\ n * x \in Int /\ m * x \in Int BY <3>6, TimesMonotone
    <3>9. \/ spent[a]["tokens"] < limits[a]["tokens"]
          \/ spent[a]["tokens"] <= Granted(a, "tokens") + m * x
      BY <3>2, <3>7, <3>8
    <3> QED BY <3>1, <3>9 DEF m, x
  <2> QED BY <2>1, <2>2, <1>0
<1> QED BY <1>1, <1>9, <1>12, <1>13

(* Steps that open no account change no chain. *)
LEMMA SameBelow ==
  ASSUME opened' = opened, NEW a
  PROVE  Chain(a)' = Chain(a) /\ Below(a)' = Below(a)
<1>1. \A d : Chain(d)' = Chain(d) BY DEF Chain, Up
<1> QED BY <1>1 DEF Below

(* A promise that changes for one turn, summed over the threads below. *)
LEMMA PromiseSum ==
  ASSUME TypeOK, TypeOK', Fresh, Fresh', opened' = opened, NEW t \in Threads,
         \A d \in Threads : d # t => turn'[d] = turn[d], NEW a \in opened
  PROVE  /\ SumOver(Promised, Below(a)) \in Int
         /\ SumOver(Promised', Below(a)) =
              IF t \in Below(a) THEN SumOver(Promised, Below(a)) + Promised'[t] - Promised[t]
              ELSE SumOver(Promised, Below(a))
<1>1. Promised \in [Threads -> Nat] /\ Promised' \in [Threads -> Nat] BY PromisedType DEF TypeOK, Fresh, Promised
<1>2. IsFiniteSet(Below(a)) /\ Below(a) \subseteq Threads BY BelowThreads
<1>3. \A d \in Threads : d # t => Promised'[d] = Promised[d] BY DEF Promised
<1> DEFINE f == Promised
           h == Promised'
<1> HIDE DEF f, h
<1>4. \A d \in Threads : f[d] \in Int /\ h[d] \in Int BY <1>1 DEF f, h
<1>5. \A d \in Threads : d # t => f[d] = h[d] BY <1>3 DEF f, h
<1>6. Weighs(f, Below(a)) /\ Weighs(h, Below(a)) BY <1>2, <1>4 DEF Weighs
<1>7. SumOver(f, Below(a)) \in Int BY <1>2, <1>6, SumType
<1>8. CASE t \in Below(a)
  <2>1. SumOver(h, Below(a)) = SumOver(f, Below(a)) + h[t] - f[t]
    BY <1>2, <1>5, <1>6, <1>8, SumChange
  <2> QED BY <1>7, <1>8, <2>1 DEF f, h
<1>9. CASE t \notin Below(a)
  <2>1. \A d \in Below(a) : f[d] = h[d] BY <1>2, <1>5, <1>9
  <2>2. SumOver(f, Below(a)) = SumOver(h, Below(a)) BY <1>2, <2>1, SumSame
  <2> QED BY <1>7, <1>9, <2>2 DEF f, h
<1> QED BY <1>8, <1>9

(* A turn is promised what is left of every account above it. *)
LEMMA SumsBegin ==
  ASSUME IInv, IInv', Sums, NEW t \in Threads, Begin(t)
  PROVE  Sums'
<1> USE DEF IInv, Sums
<1>0. /\ t \in opened /\ turn[t] = -1 /\ ~Exhausted(t)
      /\ turn' = [turn EXCEPT ![t] = Tighter(TurnSteps, Left(t, "steps"))]
      /\ opened' = opened /\ limits' = limits /\ spent' = spent /\ own' = own
  BY DEF Begin
<1>1. \A a : Chain(a)' = Chain(a) /\ Below(a)' = Below(a) BY <1>0, SameBelow
<1>2. Unbilled' /\ Conserved' BY <1>0, <1>1 DEF Unbilled, Conserved
<1>3. \A d \in Threads : d # t => turn'[d] = turn[d] BY <1>0 DEF TypeOK
<1>4. Promised[t] = 0 /\ \A d \in Threads : d # t => Promised'[d] = Promised[d]
  BY <1>0, <1>3 DEF Promised
<1>5. Promised \in [Threads -> Nat] /\ Promised'[t] \in Nat
  BY PromisedType DEF TypeOK, Fresh, Promised
<1>6. ASSUME NEW a \in opened, t \in Below(a), NEW k \in Kinds, limits[a][k] # Unlimited
      PROVE  spent[a][k] < limits[a][k]
  <2>1. AtMost(1, Rest(a, k)) BY <1>6, <1>0 DEF Exhausted, Below
  <2> QED BY <2>1, <1>6, GrantedType DEF AtMost
<1>7. ASSUME NEW a \in opened, t \in Below(a), limits[a]["steps"] # Unlimited
      PROVE  Promised'[t] <= Granted(a, "steps") - spent[a]["steps"]
  <2>0. "steps" \in Kinds BY DEF Kinds
  <2>1. Rest(a, "steps") = limits[a]["steps"] - spent[a]["steps"] /\ Rest(a, "steps") # Unlimited
    BY <1>7, <2>0, GrantedType
  <2>2. Left(t, "steps") \in Int /\ Left(t, "steps") <= Rest(a, "steps")
    BY <2>0, <2>1, <1>0, <1>7, LeftLeast DEF Below
  <2>3. Tighter(TurnSteps, Left(t, "steps")) <= Left(t, "steps")
    BY <2>2, TurnAssumption, LimitsAssumption DEF Tighter, AtMost
  <2>4. Tighter(TurnSteps, Left(t, "steps")) \in Int
    BY <2>2, TurnAssumption DEF Tighter, AtMost
  <2>5. limits[a]["steps"] <= Granted(a, "steps") /\ limits[a]["steps"] \in Int
        /\ spent[a]["steps"] \in Nat /\ Granted(a, "steps") \in Nat
    BY <2>0, <1>7, GrantedType
  <2>6. spent[a]["steps"] < limits[a]["steps"] BY <2>0, <1>6, <1>7
  <2>7. turn'[t] = Tighter(TurnSteps, Left(t, "steps")) BY <1>0 DEF TypeOK
  <2>8. Promised'[t] = IF turn'[t] = -1 THEN 0 ELSE turn'[t] BY DEF Promised
  <2> QED BY <2>1, <2>2, <2>3, <2>4, <2>5, <2>6, <2>7, <2>8
<1>8. Shared'
  <2> SUFFICES ASSUME NEW a \in opened, limits[a]["steps"] # Unlimited
               PROVE  /\ \A d \in Below(a) : Promised'[d] <= Granted(a, "steps")
                      /\ spent[a]["steps"] + SumOver(Promised', Below(a))
                           <= Cardinality(Below(a)) * Granted(a, "steps")
    BY <1>0, <1>1 DEF Shared, Granted
  <2>1. /\ \A d \in Below(a) : Promised[d] <= Granted(a, "steps")
        /\ spent[a]["steps"] + SumOver(Promised, Below(a))
             <= Cardinality(Below(a)) * Granted(a, "steps")
    BY DEF Shared
  <2>2. Granted(a, "steps") \in Nat /\ spent[a]["steps"] \in Nat BY GrantedType DEF Kinds
  <2>3. Below(a) \subseteq Threads /\ IsFiniteSet(Below(a)) /\ Cardinality(Below(a)) \in Nat
    BY BelowThreads
  <2>4. /\ SumOver(Promised, Below(a)) \in Int
        /\ SumOver(Promised', Below(a)) =
             IF t \in Below(a) THEN SumOver(Promised, Below(a)) + Promised'[t] - Promised[t]
             ELSE SumOver(Promised, Below(a))
    BY <1>0, <1>3, PromiseSum
  <2>5. CASE t \notin Below(a)
    <3>1. \A d \in Below(a) : Promised'[d] = Promised[d] BY <2>3, <2>5, <1>4
    <3> QED BY <3>1, <2>1, <2>4, <2>5
  <2>6. CASE t \in Below(a)
    <3>1. Promised'[t] <= Granted(a, "steps") - spent[a]["steps"] BY <2>6, <1>7
    <3>2. \A d \in Below(a) : Promised'[d] <= Granted(a, "steps")
      <4> SUFFICES ASSUME NEW d \in Below(a) PROVE Promised'[d] <= Granted(a, "steps") OBVIOUS
      <4>1. CASE d = t BY <4>1, <3>1, <2>2, <1>5
      <4>2. CASE d # t BY <4>2, <2>1, <2>3, <1>4
      <4> QED BY <4>1, <4>2
    <3> DEFINE T == Below(a) \ {t}
               g == Granted(a, "steps")
    <3>3. IsFiniteSet(T) /\ Weighs(Promised, T) /\ Weighs(Promised, Below(a))
      BY <2>3, <1>5, FS_Subset DEF Weighs
    <3>4. SumOver(Promised, Below(a)) = Promised[t] + SumOver(Promised, T)
      BY <2>3, <2>6, <3>3, SumAny
    <3>5. \A x \in T : Promised[x] <= g BY <2>1
    <3>6. Cardinality(T) = Cardinality(Below(a)) - 1 BY <2>3, <2>6, FS_RemoveElement
    <3> HIDE DEF T
    <3>7. SumOver(Promised, T) \in Int BY <3>3, SumType
    <3>8. SumOver(Promised, T) <= Cardinality(T) * g
      <4>1. g \in Int BY <2>2
      <4> HIDE DEF g
      <4> QED BY <4>1, <3>3, <3>5, SumAtMost
    <3> DEFINE n == Cardinality(Below(a))
    <3>9. Cardinality(T) * g = n * g - g /\ n * g \in Int
      <4>1. n \in Nat /\ g \in Nat /\ Cardinality(T) = n - 1 BY <2>2, <2>3, <3>6
      <4> HIDE DEF n, g
      <4> QED BY <4>1
    <3>10. SumOver(Promised', Below(a)) = SumOver(Promised, T) + Promised'[t]
      BY <2>4, <2>6, <3>4, <3>7, <1>4, <1>5
    <3>11. g \in Nat /\ Promised'[t] <= g - spent[a]["steps"] BY <2>2, <3>1
    <3> HIDE DEF n, g
    <3>12. spent[a]["steps"] + SumOver(Promised', Below(a)) <= n * g
      BY <3>7, <3>8, <3>9, <3>10, <3>11, <2>2, <1>5
    <3> QED BY <3>2, <3>12 DEF n, g
  <2> QED BY <2>5, <2>6
<1>9. Overrun'
  <2> SUFFICES ASSUME NEW a \in opened, limits[a]["tokens"] # Unlimited
               PROVE  \/ spent[a]["tokens"] < limits[a]["tokens"]
                      \/ spent[a]["tokens"] <=
                           Granted(a, "tokens") + Cardinality(Stopped(a)') * Max(StepTokens)
    BY <1>0 DEF Overrun, Granted
  <2>1. CASE t \in Below(a) BY <2>1, <1>6 DEF Kinds
  <2>2. CASE t \notin Below(a)
    <3>1. Below(a) \subseteq Threads BY BelowThreads
    <3>2. Stopped(a)' = Stopped(a) BY <2>2, <3>1, <1>1, <1>3 DEF Stopped
    <3> QED BY <3>2 DEF Overrun
  <2> QED BY <2>1, <2>2
<1> QED BY <1>2, <1>8, <1>9

(* A step is paid by the accounts above and leaves the promise. *)
LEMMA SumsStep ==
  ASSUME IInv, IInv', Sums, NEW t \in Threads, Step(t)
  PROVE  Sums'
<1> USE DEF IInv, Sums
<1>0. /\ turn[t] > 0 /\ opened' = opened /\ limits' = limits
      /\ own' = [own EXCEPT ![t] = @ + 1]
      /\ turn' = [turn EXCEPT ![t] =
           IF \E a \in Chain(t) : ~AtMost(1, Rest(a, "tokens")') THEN 0 ELSE @ - 1]
  BY DEF Step
<1>1. t \in opened BY <1>0 DEF Fresh
<1>2. PICK n \in StepTokens : Charge(t, [k \in Kinds |-> IF k = "steps" THEN 1 ELSE n])
  BY DEF Step
<1> DEFINE cost == [k \in Kinds |-> IF k = "steps" THEN 1 ELSE n]
<1>3. cost \in [Kinds -> Nat] /\ cost["steps"] = 1 /\ cost["tokens"] = n /\ n \in Nat
  BY TurnAssumption DEF Kinds
<1>4. Charge(t, cost) BY <1>2
<1> HIDE DEF cost
<1>5. /\ spent' \in [Threads -> [Kinds -> Nat]]
      /\ \A a \in Threads, k \in Kinds :
           spent'[a][k] = IF a \in Chain(t) THEN spent[a][k] + cost[k] ELSE spent[a][k]
  BY <1>1, <1>3, <1>4, Charged
<1>6. turn'[t] \in Int /\ 0 <= turn'[t] /\ turn'[t] <= turn[t] - 1
      /\ \A d \in Threads : d # t => turn'[d] = turn[d]
  <2>1. turn' = [turn EXCEPT ![t] = 0] \/ turn' = [turn EXCEPT ![t] = @ - 1] BY <1>0
  <2> QED BY <2>1, <1>0 DEF TypeOK
<1>7. \A a : Chain(a)' = Chain(a) /\ Below(a)' = Below(a) BY <1>0, SameBelow
<1>8. \A a \in opened : /\ a \in Threads
                        /\ spent[a]["steps"] \in Nat /\ spent[a]["tokens"] \in Nat
                        /\ spent'[a]["steps"] =
                             IF t \in Below(a) THEN spent[a]["steps"] + 1 ELSE spent[a]["steps"]
                        /\ spent'[a]["tokens"] =
                             IF t \in Below(a) THEN spent[a]["tokens"] + n ELSE spent[a]["tokens"]
  <2> TAKE a \in opened
  <2>1. a \in Threads /\ spent[a]["steps"] \in Nat /\ spent[a]["tokens"] \in Nat
        /\ "steps" \in Kinds /\ "tokens" \in Kinds
    BY DEF TypeOK, Kinds
  <2>2. t \in Below(a) <=> a \in Chain(t) BY <1>1 DEF Below
  <2>3. spent'[a]["steps"] = IF a \in Chain(t) THEN spent[a]["steps"] + 1 ELSE spent[a]["steps"]
    BY <2>1, <1>3, <1>5
  <2>4. spent'[a]["tokens"] = IF a \in Chain(t) THEN spent[a]["tokens"] + n ELSE spent[a]["tokens"]
    BY <2>1, <1>3, <1>5
  <2> QED BY <2>1, <2>2, <2>3, <2>4
<1>9. Unbilled' BY <1>0, <1>1 DEF Unbilled, TypeOK
<1>10. \A a \in opened : IsFiniteSet(Below(a)) /\ Below(a) \subseteq Threads
  BY BelowThreads
<1>11. Conserved'
  <2> SUFFICES ASSUME NEW a \in opened PROVE spent'[a]["steps"] = SumOver(own', Below(a))
    BY <1>0, <1>7 DEF Conserved
  <2>1. spent[a]["steps"] = SumOver(own, Below(a)) BY DEF Conserved
  <2>2. \A d \in Threads : own[d] \in Nat /\ own'[d] = IF d = t THEN own[d] + 1 ELSE own[d]
    BY <1>0 DEF TypeOK
  <2>3. CASE t \in Below(a)
    <3>1. Weighs(own, Below(a)) /\ Weighs(own', Below(a)) BY <2>2, <1>10 DEF Weighs
    <3>2. \A d \in Below(a) : d # t => own[d] = own'[d] BY <2>2, <1>10
    <3> DEFINE f == own
               h == own'
    <3> HIDE DEF f, h
    <3>3. SumOver(h, Below(a)) = SumOver(f, Below(a)) + h[t] - f[t]
      <4>1. Weighs(f, Below(a)) /\ Weighs(h, Below(a)) BY <3>1 DEF f, h
      <4>2. \A d \in Below(a) : d # t => f[d] = h[d] BY <3>2 DEF f, h
      <4> QED BY <4>1, <4>2, <1>10, <2>3, SumChange
    <3>4. h[t] = f[t] + 1 /\ f[t] \in Nat BY <2>2 DEF f, h
    <3>5. SumOver(f, Below(a)) = spent[a]["steps"] BY <2>1 DEF f
    <3> QED BY <3>3, <3>4, <3>5, <2>3, <1>8 DEF h
  <2>4. CASE t \notin Below(a)
    <3> DEFINE f == own
               h == own'
    <3> HIDE DEF f, h
    <3>1. \A d \in Below(a) : f[d] = h[d] BY <2>2, <2>4, <1>10 DEF f, h
    <3>2. SumOver(f, Below(a)) = SumOver(h, Below(a)) BY <3>1, <1>10, SumSame
    <3> QED BY <3>2, <2>1, <2>4, <1>8 DEF f, h
  <2> QED BY <2>3, <2>4
<1>12. Promised \in [Threads -> Nat] /\ Promised' \in [Threads -> Nat]
  BY PromisedType DEF TypeOK, Fresh, Promised
<1>13. /\ \A d \in Threads : d # t => Promised'[d] = Promised[d]
       /\ Promised'[t] <= Promised[t] - 1
  BY <1>0, <1>6 DEF Promised, TypeOK
<1>14. Shared'
  <2> SUFFICES ASSUME NEW a \in opened, limits[a]["steps"] # Unlimited
               PROVE  /\ \A d \in Below(a) : Promised'[d] <= Granted(a, "steps")
                      /\ spent'[a]["steps"] + SumOver(Promised', Below(a))
                           <= Cardinality(Below(a)) * Granted(a, "steps")
    BY <1>0, <1>7 DEF Shared, Granted
  <2>1. /\ \A d \in Below(a) : Promised[d] <= Granted(a, "steps")
        /\ spent[a]["steps"] + SumOver(Promised, Below(a))
             <= Cardinality(Below(a)) * Granted(a, "steps")
    BY DEF Shared
  <2>2. Granted(a, "steps") \in Nat BY GrantedType DEF Kinds
  <2>3. \A d \in Below(a) : Promised'[d] <= Granted(a, "steps")
    <3> SUFFICES ASSUME NEW d \in Below(a) PROVE Promised'[d] <= Granted(a, "steps") OBVIOUS
    <3>1. d \in Threads BY <1>10
    <3>2. Promised[d] \in Nat /\ Promised'[d] \in Nat BY <3>1, <1>12
    <3>3. Promised'[d] <= Promised[d] BY <3>1, <3>2, <1>13
    <3> QED BY <3>2, <3>3, <2>1, <2>2
  <2>4. /\ SumOver(Promised, Below(a)) \in Int
        /\ SumOver(Promised', Below(a)) =
             IF t \in Below(a) THEN SumOver(Promised, Below(a)) + Promised'[t] - Promised[t]
             ELSE SumOver(Promised, Below(a))
    BY <1>0, <1>6, PromiseSum
  <2>5. Promised[t] \in Nat /\ Promised'[t] \in Nat BY <1>12
  <2>6. spent'[a]["steps"] + SumOver(Promised', Below(a)) <= spent[a]["steps"] + SumOver(Promised, Below(a))
    BY <2>4, <2>5, <1>8, <1>13
  <2> DEFINE n2 == Cardinality(Below(a)) * Granted(a, "steps")
  <2>7. n2 \in Int BY <2>2, BelowThreads
  <2>8. SumOver(Promised', Below(a)) \in Int /\ spent'[a]["steps"] \in Int BY <2>4, <2>5, <1>8
  <2>9. spent[a]["steps"] + SumOver(Promised, Below(a)) <= n2 BY <2>1
  <2> HIDE DEF n2
  <2>10. spent'[a]["steps"] + SumOver(Promised', Below(a)) <= n2
    BY <2>4, <2>6, <2>7, <2>8, <2>9, <1>8
  <2> QED BY <2>3, <2>10 DEF n2
<1>15. Overrun'
  <2> SUFFICES ASSUME NEW a \in opened, limits[a]["tokens"] # Unlimited
               PROVE  \/ spent'[a]["tokens"] < limits[a]["tokens"]
                      \/ spent'[a]["tokens"] <=
                           Granted(a, "tokens") + Cardinality(Stopped(a)') * Max(StepTokens)
    BY <1>0 DEF Overrun, Granted
  <2>0. "tokens" \in Kinds BY DEF Kinds
  <2>1. \/ spent[a]["tokens"] < limits[a]["tokens"]
        \/ spent[a]["tokens"] <=
             Granted(a, "tokens") + Cardinality(Stopped(a)) * Max(StepTokens)
    BY DEF Overrun
  <2>2. CASE t \notin Below(a)
    <3>1. Stopped(a)' = Stopped(a) BY <2>2, <1>6, <1>7, <1>10 DEF Stopped
    <3> QED BY <3>1, <2>1, <2>2, <1>8
  <2>3. CASE t \in Below(a)
    <3> SUFFICES ASSUME ~(spent'[a]["tokens"] < limits[a]["tokens"])
                 PROVE  spent'[a]["tokens"] <=
                          Granted(a, "tokens") + Cardinality(Stopped(a)') * Max(StepTokens)
      OBVIOUS
    <3>1. /\ limits[a]["tokens"] \in Int /\ Granted(a, "tokens") \in Nat
          /\ limits[a]["tokens"] <= Granted(a, "tokens")
      BY <2>0, GrantedType
    <3>2. Rest(a, "tokens")' = limits[a]["tokens"] - spent'[a]["tokens"]
      BY <1>0 DEF Rest
    <3>3. spent'[a]["tokens"] = spent[a]["tokens"] + n /\ spent[a]["tokens"] \in Nat BY <2>3, <1>8
    <3>4. ~AtMost(1, Rest(a, "tokens")')
      BY <3>1, <3>2, <3>3, <1>3, LimitsAssumption DEF AtMost
    <3>5. turn'[t] = 0 BY <3>4, <2>3, <1>0 DEF Below, TypeOK
    <3>6. Stopped(a)' = Stopped(a) \cup {t} /\ t \notin Stopped(a)
      <4>1. \A d \in Below(a) : d # t => turn'[d] = turn[d] BY <1>6, <1>10
      <4>2. Stopped(a) = {d \in Below(a) : turn[d] <= 0} BY DEF Stopped
      <4>3. Stopped(a)' = {d \in Below(a) : turn'[d] <= 0} BY <1>7 DEF Stopped
      <4>4. ~(turn[t] <= 0) /\ turn'[t] <= 0 BY <3>5, <1>0 DEF TypeOK
      <4> HIDE DEF Stopped
      <4> QED BY <4>1, <4>2, <4>3, <4>4, <2>3
    <3>7. IsFiniteSet(Stopped(a)) /\ Cardinality(Stopped(a)) \in Nat BY BelowThreads
    <3>8. Cardinality(Stopped(a)') = Cardinality(Stopped(a)) + 1 BY <3>6, <3>7, FS_AddElement
    <3> DEFINE s == Cardinality(Stopped(a))
               x == Max(StepTokens)
    <3>9. s \in Nat /\ x \in Nat /\ n <= x BY <3>7, MostTokens
    <3>10. spent[a]["tokens"] < limits[a]["tokens"] \/ spent[a]["tokens"] <= Granted(a, "tokens") + s * x
      BY <2>1
    <3> HIDE DEF s, x
    <3>11. s * x \in Nat /\ (s + 1) * x = s * x + x BY <3>9
    <3>12. spent[a]["tokens"] <= Granted(a, "tokens") + s * x
      BY <3>1, <3>3, <3>10, <3>11
    <3>13. spent'[a]["tokens"] <= Granted(a, "tokens") + (s + 1) * x
      BY <3>1, <3>3, <3>9, <3>11, <3>12, <1>3
    <3> QED BY <3>8, <3>13 DEF s, x
  <2> QED BY <2>2, <2>3
<1> QED BY <1>9, <1>11, <1>14, <1>15

(* What a turn did not use is given back. *)
LEMMA SumsEnd ==
  ASSUME IInv, IInv', Sums, NEW t \in Threads, End(t)
  PROVE  Sums'
<1> USE DEF IInv, Sums
<1>0. /\ turn[t] # -1 /\ turn' = [turn EXCEPT ![t] = -1]
      /\ opened' = opened /\ limits' = limits /\ spent' = spent /\ own' = own
  BY DEF End
<1>1. \A a : Chain(a)' = Chain(a) /\ Below(a)' = Below(a) BY <1>0, SameBelow
<1>2. Unbilled' /\ Conserved' BY <1>0, <1>1 DEF Unbilled, Conserved
<1>3. \A d \in Threads : turn'[d] = IF d = t THEN -1 ELSE turn[d] BY <1>0 DEF TypeOK
<1>4. Promised \in [Threads -> Nat] /\ Promised' \in [Threads -> Nat]
  BY PromisedType DEF TypeOK, Fresh, Promised
<1>5. \A d \in Threads : Promised'[d] = IF d = t THEN 0 ELSE Promised[d]
  BY <1>3 DEF Promised
<1>6. \A a \in opened : IsFiniteSet(Below(a)) /\ Below(a) \subseteq Threads
  BY BelowThreads
<1>7. Shared'
  <2> SUFFICES ASSUME NEW a \in opened, limits[a]["steps"] # Unlimited
               PROVE  /\ \A d \in Below(a) : Promised'[d] <= Granted(a, "steps")
                      /\ spent[a]["steps"] + SumOver(Promised', Below(a))
                           <= Cardinality(Below(a)) * Granted(a, "steps")
    BY <1>0, <1>1 DEF Shared, Granted
  <2>1. /\ \A d \in Below(a) : Promised[d] <= Granted(a, "steps")
        /\ spent[a]["steps"] + SumOver(Promised, Below(a))
             <= Cardinality(Below(a)) * Granted(a, "steps")
    BY DEF Shared
  <2>2. Granted(a, "steps") \in Nat /\ spent[a]["steps"] \in Nat BY GrantedType DEF Kinds
  <2>3. \A d \in Below(a) : Promised'[d] <= Granted(a, "steps")
    BY <2>1, <2>2, <1>5, <1>6
  <2>4. /\ SumOver(Promised, Below(a)) \in Int
        /\ SumOver(Promised', Below(a)) =
             IF t \in Below(a) THEN SumOver(Promised, Below(a)) + Promised'[t] - Promised[t]
             ELSE SumOver(Promised, Below(a))
    BY <1>0, <1>3, PromiseSum
  <2>5. Promised[t] \in Nat /\ Promised'[t] = 0 BY <1>4, <1>5
  <2> DEFINE n == Cardinality(Below(a)) * Granted(a, "steps")
  <2>6. n \in Int BY <2>2, BelowThreads
  <2>7. spent[a]["steps"] + SumOver(Promised, Below(a)) <= n BY <2>1
  <2> HIDE DEF n
  <2>8. spent[a]["steps"] + SumOver(Promised', Below(a)) <= n BY <2>2, <2>4, <2>5, <2>6, <2>7
  <2> QED BY <2>3, <2>8 DEF n
<1>8. Overrun'
  <2> SUFFICES ASSUME NEW a \in opened, limits[a]["tokens"] # Unlimited
               PROVE  \/ spent[a]["tokens"] < limits[a]["tokens"]
                      \/ spent[a]["tokens"] <=
                           Granted(a, "tokens") + Cardinality(Stopped(a)') * Max(StepTokens)
    BY <1>0 DEF Overrun, Granted
  <2>1. Stopped(a)' = Stopped(a) \/ Stopped(a)' = Stopped(a) \cup {t}
    BY <1>1, <1>3, <1>6 DEF Stopped
  <2>2. IsFiniteSet(Stopped(a)) BY BelowThreads
  <2> DEFINE n == Cardinality(Stopped(a))
             m == Cardinality(Stopped(a)')
             x == Max(StepTokens)
  <2>3. n \in Nat /\ m \in Nat /\ x \in Nat /\ n <= m BY <2>1, <2>2, OneMore, MostTokens
  <2>4. \/ spent[a]["tokens"] < limits[a]["tokens"]
        \/ spent[a]["tokens"] <= Granted(a, "tokens") + n * x
    BY DEF Overrun
  <2> HIDE DEF n, m, x
  <2>5. n * x <= m * x /\ n * x \in Int /\ m * x \in Int BY <2>3, TimesMonotone
  <2>6. spent[a]["tokens"] \in Nat /\ Granted(a, "tokens") \in Nat BY GrantedType DEF Kinds
  <2>7. \/ spent[a]["tokens"] < limits[a]["tokens"]
        \/ spent[a]["tokens"] <= Granted(a, "tokens") + m * x
    BY <2>4, <2>5, <2>6
  <2> QED BY <2>7 DEF m, x
<1> QED BY <1>2, <1>7, <1>8

(* The sums are an inductive invariant, beside IInv. *)
LEMMA SumsInductive == IInv /\ IInv' /\ Sums /\ [Next]_vars => Sums'
<1> SUFFICES ASSUME IInv, IInv', Sums, [Next]_vars PROVE Sums' OBVIOUS
<1>1. CASE UNCHANGED vars
  <2>1. /\ opened' = opened /\ limits' = limits /\ spent' = spent /\ turn' = turn /\ own' = own
    BY <1>1 DEF vars
  <2>2. \A a : Below(a)' = Below(a) BY <2>1, SameBelow
  <2>3. Promised' = Promised /\ \A a : Stopped(a)' = Stopped(a)
    BY <2>1, <2>2 DEF Promised, Stopped
  <2>4. Unbilled' /\ Conserved' BY <2>1, <2>2 DEF Sums, Unbilled, Conserved
  <2>5. Shared' BY <2>1, <2>2, <2>3 DEF Sums, Shared, Granted
  <2>6. Overrun' BY <2>1, <2>3 DEF Sums, Overrun, Granted
  <2> QED BY <2>4, <2>5, <2>6 DEF Sums
<1>2. CASE Next
  <2>1. PICK t \in Threads : Open(t) \/ Begin(t) \/ Step(t) \/ End(t) BY <1>2 DEF Next
  <2> QED BY <2>1, SumsOpen, SumsBegin, SumsStep, SumsEnd
<1> QED BY <1>1, <1>2

LEMMA AlwaysSums == Spec => [](IInv /\ Sums)
<1>1. Init => IInv /\ Sums BY Initially, SumsInit
<1>2. IInv /\ Sums /\ [Next]_vars => (IInv /\ Sums)'
  <2> SUFFICES ASSUME IInv, Sums, [Next]_vars PROVE IInv' /\ Sums' OBVIOUS
  <2>1. IInv' BY Inductive
  <2> QED BY <2>1, SumsInductive
<1> QED BY <1>1, <1>2, PTL DEF Spec

(* Every step is billed to every account above it exactly once, however    *)
(* the turns of a tree interleave (budget.ts:84, called at thread.ts:111). *)
THEOREM StepsConserved == Spec => []Conserved
<1>1. IInv /\ Sums => Conserved BY DEF Sums
<1> QED BY <1>1, AlwaysSums, PTL

(* However many turns run at once, n threads spend at most n times what    *)
(* the account above them was granted, and run over its tokens by at most  *)
(* one step each (budget.ts:67, the cap at thread.ts:295).                 *)
THEOREM OverspendIsBounded == Spec => []OverspendBounded
<1>1. ASSUME IInv, Sums PROVE OverspendBounded
  <2> SUFFICES ASSUME NEW t \in opened
               PROVE  /\ limits[t]["steps"] # Unlimited =>
                           spent[t]["steps"] + SumOver(Promised, Below(t))
                             <= Cardinality(Below(t)) * Granted(t, "steps")
                      /\ limits[t]["tokens"] # Unlimited =>
                           spent[t]["tokens"] <=
                             Granted(t, "tokens") + Cardinality(Below(t)) * Max(StepTokens)
    BY DEF OverspendBounded
  <2>1. ASSUME limits[t]["steps"] # Unlimited
        PROVE  spent[t]["steps"] + SumOver(Promised, Below(t))
                 <= Cardinality(Below(t)) * Granted(t, "steps")
    BY <1>1, <2>1 DEF Sums, Shared
  <2>2. ASSUME limits[t]["tokens"] # Unlimited
        PROVE  spent[t]["tokens"] <=
                 Granted(t, "tokens") + Cardinality(Below(t)) * Max(StepTokens)
    <3>1. TypeOK BY <1>1 DEF IInv
    <3> DEFINE n == Cardinality(Stopped(t))
               m == Cardinality(Below(t))
               x == Max(StepTokens)
    <3>2. n \in Nat /\ m \in Nat /\ x \in Nat /\ n <= m BY <3>1, BelowThreads, MostTokens
    <3>3. /\ limits[t]["tokens"] \in Int /\ Granted(t, "tokens") \in Nat
          /\ spent[t]["tokens"] \in Nat /\ limits[t]["tokens"] <= Granted(t, "tokens")
      BY <3>1, <2>2, GrantedType DEF Kinds
    <3>4. \/ spent[t]["tokens"] < limits[t]["tokens"]
          \/ spent[t]["tokens"] <= Granted(t, "tokens") + n * x
      BY <1>1, <2>2 DEF Sums, Overrun
    <3> HIDE DEF n, m, x
    <3>5. n * x <= m * x /\ n * x \in Int /\ m * x \in Int /\ m * x >= 0 BY <3>2, TimesMonotone
    <3>6. spent[t]["tokens"] <= Granted(t, "tokens") + m * x BY <3>3, <3>4, <3>5
    <3> QED BY <3>6 DEF m, x
  <2> QED BY <2>1, <2>2
<1>2. IInv /\ Sums => OverspendBounded BY <1>1
<1> QED BY <1>2, AlwaysSums, PTL

-----------------------------------------------------------------------------
(* Sequences and what is in them.                                          *)

(* What is in a sequence is there once. *)
Distinct(seq) == \A i, j \in DOMAIN seq : seq[i] = seq[j] => i = j

(* A sequence is made longer by one. *)
LEMMA Appended ==
  ASSUME NEW V, NEW s \in Seq(V), NEW x \in V
  PROVE  /\ Append(s, x) \in Seq(V) /\ Len(Append(s, x)) = Len(s) + 1
         /\ \A i \in 1..Len(s) : Append(s, x)[i] = s[i]
         /\ Append(s, x)[Len(s) + 1] = x
         /\ ToSet(Append(s, x)) = ToSet(s) \cup {x}
         /\ Distinct(s) /\ x \notin ToSet(s) => Distinct(Append(s, x))
<1>1. Len(s) \in Nat /\ DOMAIN s = 1..Len(s) BY LenProperties
<1>2. PICK u : u = Append(s, x) OBVIOUS
<1>3. /\ u \in Seq(V) /\ Len(u) = Len(s) + 1 /\ u[Len(s) + 1] = x
      /\ \A i \in 1..Len(s) : u[i] = s[i]
  BY <1>2, AppendProperties
<1>4. DOMAIN u = 1..(Len(s) + 1) BY <1>3, LenProperties
<1>5. \A i \in DOMAIN u : \/ i \in DOMAIN s /\ u[i] = s[i]
                          \/ i = Len(s) + 1 /\ u[i] = x
  BY <1>1, <1>3, <1>4
<1>6. \A i \in DOMAIN s : i \in DOMAIN u /\ u[i] = s[i] BY <1>1, <1>3, <1>4
<1>7. Len(s) + 1 \in DOMAIN u BY <1>1, <1>4
<1>8. ToSet(u) = ToSet(s) \cup {x}
  <2>1. ToSet(u) \subseteq ToSet(s) \cup {x} BY <1>5 DEF ToSet
  <2>2. ToSet(s) \subseteq ToSet(u) BY <1>6 DEF ToSet
  <2>3. x \in ToSet(u) BY <1>3, <1>7 DEF ToSet
  <2> QED BY <2>1, <2>2, <2>3
<1>9. ASSUME Distinct(s), x \notin ToSet(s) PROVE Distinct(u)
  <2>1. \A i \in DOMAIN s : s[i] # x BY <1>9 DEF ToSet
  <2> QED BY <1>5, <1>9, <2>1 DEF Distinct
<1> QED BY <1>2, <1>3, <1>8, <1>9

(* A sequence without its head. *)
LEMMA HeadAndTail ==
  ASSUME NEW V, NEW s \in Seq(V), s # <<>>
  PROVE  /\ Head(s) \in V /\ Head(s) = s[1] /\ Tail(s) \in Seq(V) /\ Len(Tail(s)) = Len(s) - 1
         /\ \A i \in 1..(Len(s) - 1) : Tail(s)[i] = s[i + 1]
         /\ Head(s) \in ToSet(s) /\ ToSet(s) = {Head(s)} \cup ToSet(Tail(s))
         /\ Distinct(s) => Distinct(Tail(s)) /\ Head(s) \notin ToSet(Tail(s))
<1>1. Len(s) \in Nat /\ Len(s) # 0 /\ DOMAIN s = 1..Len(s) BY LenProperties, EmptySeq
<1>2. PICK t : t = Tail(s) OBVIOUS
<1>3. /\ t \in Seq(V) /\ Len(t) = Len(s) - 1 /\ Head(s) = s[1] /\ Head(s) \in V
      /\ \A i \in 1..(Len(s) - 1) : t[i] = s[i + 1]
  BY <1>1, <1>2, HeadTailProperties
<1>4. DOMAIN t = 1..(Len(s) - 1) BY <1>1, <1>3, LenProperties
<1>5. \A i \in DOMAIN t : i \in Int /\ i + 1 \in DOMAIN s /\ i + 1 # 1 /\ t[i] = s[i + 1]
  BY <1>1, <1>3, <1>4
<1>6. 1 \in DOMAIN s BY <1>1
<1>7. ToSet(t) \subseteq ToSet(s) BY <1>5 DEF ToSet
<1>8. ASSUME NEW q \in ToSet(s), q # s[1] PROVE q \in ToSet(t)
  <2>1. PICK j \in DOMAIN s : s[j] = q BY DEF ToSet
  <2>2. PICK i : i = j - 1 OBVIOUS
  <2>3. i \in DOMAIN t /\ i + 1 = j BY <1>1, <1>4, <1>8, <2>1, <2>2
  <2> QED BY <1>5, <2>1, <2>3 DEF ToSet
<1>9. s[1] \in ToSet(s) BY <1>6 DEF ToSet
<1>10. ASSUME Distinct(s) PROVE Distinct(t) /\ s[1] \notin ToSet(t)
  <2>1. Distinct(t) BY <1>5, <1>10 DEF Distinct
  <2>2. \A i \in DOMAIN t : t[i] # s[1] BY <1>5, <1>6, <1>10 DEF Distinct
  <2> QED BY <2>1, <2>2 DEF ToSet
<1>11. ToSet(s) = {s[1]} \cup ToSet(t) BY <1>7, <1>8, <1>9
<1> QED BY <1>2, <1>3, <1>9, <1>10, <1>11

(* One sequence after another. *)
LEMMA Concatenated ==
  ASSUME NEW V, NEW s \in Seq(V), NEW t \in Seq(V)
  PROVE  /\ s \o t \in Seq(V) /\ Len(s \o t) = Len(s) + Len(t)
         /\ \A i \in DOMAIN (s \o t) :
              \/ i \in DOMAIN s /\ i <= Len(s) /\ (s \o t)[i] = s[i]
              \/ i > Len(s) /\ i - Len(s) \in DOMAIN t /\ (s \o t)[i] = t[i - Len(s)]
         /\ ToSet(s \o t) = ToSet(s) \cup ToSet(t)
         /\ Distinct(s) /\ Distinct(t) /\ ToSet(s) \cap ToSet(t) = {} => Distinct(s \o t)
<1>1. /\ Len(s) \in Nat /\ Len(t) \in Nat /\ DOMAIN s = 1..Len(s) /\ DOMAIN t = 1..Len(t)
  BY LenProperties
<1>2. PICK u : u = s \o t OBVIOUS
<1>3. /\ u \in Seq(V) /\ Len(u) = Len(s) + Len(t) /\ DOMAIN u = 1..(Len(s) + Len(t))
      /\ \A i \in 1..(Len(s) + Len(t)) : u[i] = IF i <= Len(s) THEN s[i] ELSE t[i - Len(s)]
  BY <1>2, ConcatProperties, LenProperties
<1>4. \A i \in 1..Len(s) : i \in DOMAIN u /\ u[i] = s[i] BY <1>1, <1>3
<1>5. \A i \in 1..Len(t) : Len(s) + i \in DOMAIN u /\ u[Len(s) + i] = t[i]
  <2> SUFFICES ASSUME NEW i \in 1..Len(t) PROVE Len(s) + i \in DOMAIN u /\ u[Len(s) + i] = t[i] OBVIOUS
  <2>1. PICK k : k = Len(s) + i OBVIOUS
  <2>2. k \in 1..(Len(s) + Len(t)) /\ ~ (k <= Len(s)) /\ k - Len(s) = i BY <1>1, <2>1
  <2> QED BY <1>3, <2>1, <2>2
<1>6. \A i \in DOMAIN u : \/ i \in 1..Len(s) /\ i <= Len(s) /\ u[i] = s[i]
                          \/ i > Len(s) /\ i - Len(s) \in 1..Len(t) /\ u[i] = t[i - Len(s)]
  BY <1>1, <1>3
<1>7. ToSet(u) = ToSet(s) \cup ToSet(t)
  <2>1. ToSet(u) \subseteq ToSet(s) \cup ToSet(t) BY <1>1, <1>6 DEF ToSet
  <2>2. ToSet(s) \subseteq ToSet(u) BY <1>1, <1>4 DEF ToSet
  <2>3. ToSet(t) \subseteq ToSet(u) BY <1>1, <1>5 DEF ToSet
  <2> QED BY <2>1, <2>2, <2>3
<1>8. ASSUME Distinct(s), Distinct(t), ToSet(s) \cap ToSet(t) = {} PROVE Distinct(u)
  <2> SUFFICES ASSUME NEW i \in DOMAIN u, NEW j \in DOMAIN u, u[i] = u[j] PROVE i = j
    BY DEF Distinct
  <2>1. CASE i \in 1..Len(s) /\ u[i] = s[i]
    <3>1. CASE j \in 1..Len(s) /\ u[j] = s[j] BY <2>1, <3>1, <1>1, <1>8 DEF Distinct
    <3>2. CASE j > Len(s) /\ j - Len(s) \in 1..Len(t) /\ u[j] = t[j - Len(s)]
      <4>1. u[i] \in ToSet(s) /\ u[j] \in ToSet(t) BY <1>1, <2>1, <3>2 DEF ToSet
      <4> QED BY <1>8, <4>1
    <3> QED BY <1>6, <3>1, <3>2
  <2>2. CASE i > Len(s) /\ i - Len(s) \in 1..Len(t) /\ u[i] = t[i - Len(s)]
    <3>1. CASE j \in 1..Len(s) /\ u[j] = s[j]
      <4>1. u[j] \in ToSet(s) /\ u[i] \in ToSet(t) BY <1>1, <2>2, <3>1 DEF ToSet
      <4> QED BY <1>8, <4>1
    <3>2. CASE j > Len(s) /\ j - Len(s) \in 1..Len(t) /\ u[j] = t[j - Len(s)]
      <4>1. i - Len(s) = j - Len(s) BY <2>2, <3>2, <1>1, <1>8 DEF Distinct
      <4>2. i \in Int /\ j \in Int BY <1>1, <1>3
      <4> QED BY <4>1, <4>2, <1>1
    <3> QED BY <1>6, <3>1, <3>2
  <2> QED BY <1>6, <2>1, <2>2
<1>9. \A i \in DOMAIN u : \/ i \in DOMAIN s /\ i <= Len(s) /\ u[i] = s[i]
                          \/ i > Len(s) /\ i - Len(s) \in DOMAIN t /\ u[i] = t[i - Len(s)]
  BY <1>1, <1>6
<1> QED BY <1>2, <1>3, <1>7, <1>8, <1>9

(* A batch is the part of a sequence that lies between two places. *)
Slice(batch, seq, from, upto) ==
  /\ Len(batch) = upto - from
  /\ \A i \in 1..(upto - from) : batch[i] = seq[from + i]

(* The part of a sequence that lies past a place. *)
LEMMA RestOf ==
  ASSUME NEW V, NEW s \in Seq(V), NEW n \in Nat, n <= Len(s)
  PROVE  /\ SubSeq(s, n + 1, Len(s)) \in Seq(V)
         /\ Slice(SubSeq(s, n + 1, Len(s)), s, n, Len(s))
<1>1. Len(s) \in Nat /\ \A i \in 1..Len(s) : s[i] \in V BY LenProperties, ElementOfSeq
<1>2. PICK a \in Int : a = n + 1 OBVIOUS
<1>3. PICK b \in Int : b = Len(s) BY <1>1
<1>4. \A i \in a..b : s[i] \in V BY <1>1, <1>2, <1>3
<1>5. PICK u : u = SubSeq(s, a, b) OBVIOUS
<1>6. /\ u \in Seq(V) /\ Len(u) = (IF a <= b THEN b - a + 1 ELSE 0)
      /\ \A i \in 1..(b - a + 1) : u[i] = s[a + i - 1]
  BY <1>4, <1>5, SubSeqProperties
<1>7. Len(u) = Len(s) - n BY <1>1, <1>2, <1>3, <1>6
<1>8. \A i \in 1..(Len(s) - n) : u[i] = s[n + i]
  <2> SUFFICES ASSUME NEW i \in 1..(Len(s) - n) PROVE u[i] = s[n + i] OBVIOUS
  <2>1. i \in 1..(b - a + 1) /\ a + i - 1 = n + i BY <1>1, <1>2, <1>3
  <2>2. u[i] = s[a + i - 1] BY <1>6, <2>1
  <2> QED BY <2>1, <2>2
<1> QED BY <1>2, <1>3, <1>5, <1>6, <1>7, <1>8 DEF Slice

-----------------------------------------------------------------------------
(* What holds of a turn at every moment.                                   *)

(* The types. *)
CountsTyped ==
  /\ at \in Underway \cup {"rest", "taken", "opened", "read", "ending", "sealed"}
  /\ steps \in Nat /\ (steps <= MaxSteps \/ steps = 1)
  /\ drained \in BOOLEAN /\ aborted \in BOOLEAN /\ pending \in BOOLEAN
  /\ ending \in {"none", "halt", "silent"}
  /\ calling \in 0..MaxMessages /\ next \in 0..MaxMessages /\ failures \in 0..MaxFailures

TapeTyped ==
  /\ mail \in Seq(Message) /\ taken \in Seq(Message)
  /\ wire \in Seq(Message) /\ stored \in Seq(Message)
  /\ recorded \in Seq(Seq(Message))
  /\ carried \in Nat /\ flushed \in Nat /\ carried <= flushed /\ flushed <= Len(wire)

ViewsTyped ==
  /\ placing \subseteq Message /\ unheard \subseteq Message /\ gone \subseteq Message
  /\ buffer \in [full : BOOLEAN, snapshot : SUBSET Message, relayed : SUBSET Message]
  /\ client \in [on : BOOLEAN, snapshot : SUBSET Message, relayed : SUBSET Message]

Typed == CountsTyped /\ TapeTyped /\ ViewsTyped

(* What holds where the turn is. *)
Quiet == {"rest", "taken", "opened", "read"}

Phased ==
  /\ at \notin {"taken", "steering", "deciding"} => taken = <<>>
  /\ at \in Quiet \cup {"sealed"} => flushed = Len(wire)
  /\ at \in Quiet => recorded = <<>>
  /\ at \notin Quiet => buffer.full
  /\ at = "read" => steps = 0
  /\ at \in {"loop", "steering", "calling", "evaluating"} => steps < MaxSteps \/ steps = 0

(* Each message is in one place; what is on the wire may be stored, too. *)
Waiting  == ToSet(mail) \cup ToSet(taken) \cup placing
Kept     == ToSet(wire) \cup ToSet(stored)
Relayed  == buffer.relayed \cup client.relayed
Numbered == 1..next \cup {ResultOf(k) : k \in 1..next}

Single == Distinct(mail) /\ Distinct(taken) /\ Distinct(wire) /\ Distinct(stored)

Apart ==
  /\ ToSet(mail) \cap ToSet(taken) = {} /\ placing \cap (ToSet(mail) \cup ToSet(taken)) = {}
  /\ Waiting \cap Kept = {}
  /\ Waiting \subseteq 1..next /\ Relayed \subseteq 1..next /\ Kept \subseteq Numbered

(* The reply of a step, and its result, are nowhere before they are on the *)
(* wire.                                                                   *)
Expected ==
  /\ at \in {"calling", "evaluating"} =>
       /\ calling \in 1..next /\ calling \notin Waiting \cup Relayed
       /\ ResultOf(calling) \notin Kept
  /\ at = "calling" => calling \notin Kept

(* The batches that are not appended yet are what the wire holds between   *)
(* these places, up to what is flushed.                                    *)
Cuts(cut) ==
  /\ cut \in [1..(Len(recorded) + 1) -> 0..Len(wire)] /\ cut[Len(recorded) + 1] = flushed
  /\ \A i \in 1..Len(recorded) :
       cut[i] <= cut[i + 1] /\ Slice(recorded[i], wire, cut[i], cut[i + 1])

(* What is on the wire up to some place has been appended, or is gone;     *)
(* what is beyond it has not.                                              *)
LandedTo(p) ==
  /\ carried <= p
  /\ \A k \in 1..Len(wire) : k <= p => wire[k] \in ToSet(stored) \cup gone
  /\ \A k \in 1..Len(wire) : k > p => wire[k] \notin ToSet(stored)

Landing == \E cut : Cuts(cut) /\ LandedTo(cut[1])

(* The transcript has the messages of the turn in the order of the wire. *)
Ordered ==
  \A i, j \in DOMAIN stored, k, l \in DOMAIN wire :
    (carried < k /\ carried < l /\ stored[i] = wire[k] /\ stored[j] = wire[l] /\ i < j) => k < l

(* What was shown or relayed is somewhere, and the same to all. *)
Safe == ToSet(stored) \cup gone

Watched ==
  /\ buffer.snapshot \cup client.snapshot \subseteq Safe \cup ToSet(wire)
  /\ Relayed \subseteq Safe \cup ToSet(wire) \cup ToSet(taken)
  /\ ~buffer.full => buffer.snapshot = {} /\ client.snapshot \subseteq Safe
  /\ client.on /\ buffer.full => client.snapshot = buffer.snapshot
  /\ client.on => buffer.relayed \subseteq client.relayed
  /\ client.relayed \subseteq Safe \cup buffer.relayed

TurnInv == Typed /\ Phased /\ Single /\ Apart /\ Expected /\ Landing /\ Ordered /\ Watched

(* The bounds are numbers. *)
LEMMA Bounds == MaxMessages \in Nat /\ MaxSteps \in Nat /\ MaxFailures \in Nat
  BY BoundsAssumption

(* Nothing has happened: there is nothing anywhere. *)
LEMMA TurnInitially == TurnInit => TurnInv
<1> SUFFICES ASSUME TurnInit PROVE TurnInv OBVIOUS
<1>1. CountsTyped
  <2>1. 0 \in 0..MaxMessages /\ 0 \in 0..MaxFailures /\ 0 \in Nat /\ 0 <= MaxSteps BY Bounds
  <2> QED BY <2>1 DEF TurnInit, CountsTyped, Underway
<1>2. TapeTyped
  <2>1. <<>> \in Seq(Message) /\ <<>> \in Seq(Seq(Message)) /\ Len(<<>>) = 0 BY EmptySeq
  <2> QED BY <2>1 DEF TurnInit, TapeTyped
<1>3. ViewsTyped BY DEF TurnInit, ViewsTyped
<1>4. Len(<<>>) = 0 /\ DOMAIN <<>> = {} /\ ToSet(<<>>) = {} BY EmptySeq DEF ToSet
<1>5. Phased BY <1>4 DEF TurnInit, Phased, Quiet
<1>6. Single BY <1>4 DEF TurnInit, Single, Distinct
<1>7. Apart /\ Expected BY <1>4 DEF TurnInit, Apart, Expected, Waiting, Kept, Relayed, Numbered
<1>8. Landing
  <2> DEFINE cut == [i \in 1..1 |-> 0]
  <2>1. cut \in [1..(0 + 1) -> 0..0] /\ cut[1] = 0 OBVIOUS
  <2> HIDE DEF cut
  <2>2. Cuts(cut) BY <1>4, <2>1 DEF TurnInit, Cuts
  <2>3. LandedTo(cut[1]) BY <1>4, <2>1 DEF TurnInit, LandedTo
  <2> QED BY <2>2, <2>3 DEF Landing
<1>9. Ordered BY <1>4 DEF TurnInit, Ordered
<1>10. Watched BY <1>4 DEF TurnInit, Watched, Safe, Relayed
<1> QED BY <1>1, <1>2, <1>3, <1>5, <1>6, <1>7, <1>8, <1>9, <1>10 DEF TurnInv, Typed

(* The steps of a turn, its wire and its watchers. *)
LEMMA TurnActions ==
  TurnNext =>
    \/ Post \/ AppendOpening \/ PrepareFails \/ ReadHistory \/ OpenWire \/ Abort
    \/ \E replies \in BOOLEAN : BeginTurn(replies)
    \/ \E replies \in BOOLEAN : TakeSteers(replies)
    \/ Leave \/ Steered \/ CallModel \/ Delta \/ CallFails \/ RecordEntry \/ SnapshotDue \/ Halt
    \/ Settle
    \/ \E empty \in BOOLEAN : Reply(empty)
    \/ \E verdict \in {"continue", "capped", "halt"} : Result(verdict)
    \/ Seal \/ Land \/ LandFails \/ Finish \/ Place
    \/ \E m \in placing : Placed(m)
    \/ Attach \/ \E left \in BOOLEAN : Detach(left)
  BY DEF TurnNext

-----------------------------------------------------------------------------
(* Every step keeps the types.                                             *)

(* The counts stay within their bounds. *)
LEMMA NextCounts == ASSUME Typed, Phased, TurnNext PROVE CountsTyped'
<1> USE Bounds DEF Typed, CountsTyped, Underway
<1>1. CASE Post BY <1>1 DEF Post, Creates, loop, tape
<1>2. CASE AppendOpening BY <1>2 DEF AppendOpening, loop, tape
<1>3. CASE PrepareFails BY <1>3 DEF PrepareFails, loop, tape
<1>4. CASE ReadHistory
  <2>1. 0 \in Nat /\ 0 <= MaxSteps /\ 0 \in 0..MaxMessages OBVIOUS
  <2> QED BY <1>4, <2>1 DEF ReadHistory
<1>5. CASE OpenWire BY <1>5 DEF OpenWire, loop, tape
<1>6. CASE Abort BY <1>6 DEF Abort, loop, tape
<1>7. ASSUME NEW replies \in BOOLEAN, BeginTurn(replies) PROVE CountsTyped'
  BY <1>7 DEF BeginTurn, loop, tape
<1>8. ASSUME NEW replies \in BOOLEAN, TakeSteers(replies) PROVE CountsTyped'
  BY <1>8 DEF TakeSteers, loop, tape
<1>9. CASE Leave BY <1>9 DEF Leave, loop, tape
<1>10. CASE Steered BY <1>10 DEF Steered, GoOn, loop, tape
<1>11. CASE CallModel BY <1>11 DEF CallModel, Creates, New, loop, tape
<1>12. CASE Delta BY <1>12 DEF Delta, GoOn, loop, tape
<1>13. CASE CallFails BY <1>13 DEF CallFails, loop, tape
<1>14. CASE RecordEntry BY <1>14 DEF RecordEntry, Creates, loop, tape
<1>15. CASE SnapshotDue BY <1>15 DEF SnapshotDue, loop, tape
<1>16. CASE Halt
  <2>1. at = "evaluating" /\ steps' = steps + 1 BY <1>16 DEF Halt
  <2>2. steps' \in Nat /\ (steps' <= MaxSteps \/ steps' = 1) BY <2>1 DEF Phased
  <2>3. calling' \in 0..MaxMessages BY <1>16 DEF Halt
  <2>4. /\ at' = "settling" /\ ending' = "halt" /\ drained' = FALSE
        /\ UNCHANGED <<aborted, pending, next, failures>>
    BY <1>16 DEF Halt, tape
  <2> QED BY <2>2, <2>3, <2>4
<1>17. CASE Settle BY <1>17 DEF Settle, loop, tape
<1>18. ASSUME NEW empty \in BOOLEAN, Reply(empty) PROVE CountsTyped'
  BY <1>18 DEF Reply, loop, tape
<1>19. ASSUME NEW verdict \in {"continue", "capped", "halt"}, Result(verdict) PROVE CountsTyped'
  <2>1. at = "evaluating" /\ steps' = steps + 1 BY <1>19 DEF Result
  <2>2. steps' \in Nat /\ (steps' <= MaxSteps \/ steps' = 1) BY <2>1 DEF Phased
  <2>3. /\ drained' = FALSE /\ pending' = FALSE /\ aborted' = aborted /\ calling' = 0
        /\ at' \in {"ending", "loop", "settling"} /\ ending' \in {"halt", ending}
        /\ next' = next /\ failures' = failures
    BY <1>19 DEF Result, GoOn
  <2>4. calling' \in 0..MaxMessages BY <2>3
  <2> QED BY <2>2, <2>3, <2>4
<1>20. CASE Seal BY <1>20 DEF Seal, loop, tape
<1>21. CASE Land BY <1>21 DEF Land, loop, tape
<1>22. CASE LandFails BY <1>22 DEF LandFails, loop, tape
<1>23. CASE Finish BY <1>23 DEF Finish, loop, tape
<1>24. CASE Place
  <2>1. UNCHANGED <<at, steps, drained, ending, calling, aborted, failures>> /\ pending' \in {pending, FALSE}
    BY <1>24 DEF Place, loop
  <2>2. next' = next + 1 /\ next < MaxMessages BY <1>24 DEF Place, Creates
  <2>3. next' \in 0..MaxMessages BY <2>2
  <2> QED BY <2>1, <2>3
<1>25. ASSUME NEW m \in placing, Placed(m) PROVE CountsTyped'
  BY <1>25 DEF Placed, loop, tape
<1>26. CASE Attach BY <1>26 DEF Attach, loop, tape
<1>27. ASSUME NEW left \in BOOLEAN, Detach(left) PROVE CountsTyped'
  BY <1>27 DEF Detach, loop, tape
<1> QED BY <1>1, <1>2, <1>3, <1>4, <1>5, <1>6, <1>7, <1>8, <1>9, <1>10, <1>11, <1>12, <1>13, <1>14, <1>15, <1>16, <1>17, <1>18, <1>19, <1>20, <1>21, <1>22, <1>23, <1>24, <1>25, <1>26, <1>27, TurnActions

(* What is in a sequence of messages is a message. *)
LEMMA MessagesIn ==
  ASSUME NEW s \in Seq(Message)
  PROVE  ToSet(s) \subseteq Message /\ Len(s) \in Nat /\ DOMAIN s = 1..Len(s)
<1>1. Len(s) \in Nat /\ DOMAIN s = 1..Len(s) BY LenProperties
<1>2. \A i \in DOMAIN s : s[i] \in Message BY <1>1, ElementOfSeq
<1> QED BY <1>1, <1>2 DEF ToSet

(* The messages that come to be, and their results, are messages; the      *)
(* numbers of the new ones are not used yet.                               *)
LEMMA NewMessage ==
  ASSUME Typed, next < MaxMessages
  PROVE  /\ New \in Message /\ New \notin Numbered /\ ResultOf(New) \notin Numbered
         /\ New \in 1..New /\ 1..next \subseteq 1..New /\ New \notin 1..next
  BY Bounds DEF Typed, CountsTyped, New, Message, Numbered, ResultOf

(* So is a reply, and its result. *)
LEMMA ReplyMessage ==
  ASSUME Typed, Expected, at \in {"calling", "evaluating"}
  PROVE  /\ calling \in Message /\ calling \in Numbered
         /\ ResultOf(calling) \in Message /\ ResultOf(calling) \in Numbered
         /\ ResultOf(calling) \notin 1..next /\ ResultOf(calling) # calling
<1>1. next \in 0..MaxMessages BY DEF Typed, CountsTyped
<1>2. calling \in 1..next BY DEF Expected
<1> QED BY <1>1, <1>2, Bounds DEF Message, Numbered, ResultOf

(* flush(): a batch is made of what the wire holds past the last flush. *)
LEMMA Flushes ==
  ASSUME Typed, NEW messages \in Seq(Message), flushed <= Len(messages), Flush(messages)
  PROVE  /\ flushed' = Len(messages)
         /\ \/ Len(messages) = flushed /\ recorded' = recorded
            \/ \E batch \in Seq(Message) :
                 /\ recorded' = Append(recorded, batch)
                 /\ Slice(batch, messages, flushed, Len(messages))
<1>1. flushed \in Nat BY DEF Typed, TapeTyped
<1>2. PICK batch : batch = SubSeq(messages, flushed + 1, Len(messages)) OBVIOUS
<1>3. batch \in Seq(Message) /\ Slice(batch, messages, flushed, Len(messages))
  BY <1>1, <1>2, RestOf
<1> QED BY <1>2, <1>3 DEF Flush

(* What that leaves has its type. *)
LEMMA FlushTyped ==
  ASSUME Typed, NEW messages \in Seq(Message), flushed <= Len(messages), Flush(messages)
  PROVE  recorded' \in Seq(Seq(Message)) /\ flushed' = Len(messages) /\ flushed' \in Nat
<1>1. recorded \in Seq(Seq(Message)) BY DEF Typed, TapeTyped
<1>2. Len(messages) \in Nat BY MessagesIn
<1>3. \A batch \in Seq(Message) : Append(recorded, batch) \in Seq(Seq(Message))
  BY <1>1, AppendProperties
<1> QED BY <1>1, <1>2, <1>3, Flushes

(* What is put on the wire is put at its end. *)
LEMMA WireLonger ==
  ASSUME Typed, NEW m \in Message, wire' = Append(wire, m)
  PROVE  /\ wire' \in Seq(Message) /\ Len(wire') = Len(wire) + 1 /\ Len(wire) \in Nat
         /\ ToSet(wire') = ToSet(wire) \cup {m} /\ flushed <= Len(wire')
         /\ carried \in Nat /\ flushed \in Nat /\ carried <= flushed /\ carried <= Len(wire')
<1>1. /\ wire \in Seq(Message) /\ carried \in Nat /\ flushed \in Nat
      /\ carried <= flushed /\ flushed <= Len(wire)
  BY DEF Typed, TapeTyped
<1>2. PICK w : w = wire' OBVIOUS
<1>3. w \in Seq(Message) /\ Len(w) = Len(wire) + 1 /\ ToSet(w) = ToSet(wire) \cup {m}
  BY <1>1, <1>2, Appended
<1>4. Len(wire) \in Nat BY <1>1, MessagesIn
<1> QED BY <1>1, <1>2, <1>3, <1>4

(* The batches are all the wire has when the turn is settled: nothing of   *)
(* it is left to append.                                                   *)
LEMMA FinishAppends == ASSUME Typed, Phased, Finish PROVE stored' = stored
<1>1. flushed = Len(wire) /\ Len(wire) \in Nat /\ stored \in Seq(Message)
  BY MessagesIn DEF Finish, Phased, Typed, TapeTyped
<1>2. PICK n \in Nat : n = Len(wire) BY <1>1
<1>3. SubSeq(wire, n + 1, n) = <<>>
  <2>1. n + 1 \in Int /\ n \in Int /\ n < n + 1 OBVIOUS
  <2> QED BY <2>1, SubSeqEmpty
<1>4. stored \o <<>> = stored BY <1>1, ConcatEmptySeq
<1> QED BY <1>1, <1>2, <1>3, <1>4 DEF Finish

(* The wire and what waits for it keep their types. *)
LEMMA NextTape == ASSUME Typed, Phased, Expected, TurnNext PROVE TapeTyped'
<1>1. /\ mail \in Seq(Message) /\ taken \in Seq(Message) /\ wire \in Seq(Message)
      /\ stored \in Seq(Message) /\ recorded \in Seq(Seq(Message))
      /\ carried \in Nat /\ flushed \in Nat /\ carried <= flushed /\ flushed <= Len(wire)
  BY DEF Typed, TapeTyped
<1>2. <<>> \in Seq(Message) /\ <<>> \in Seq(Seq(Message)) /\ Len(stored) \in Nat
      /\ Len(wire) \in Nat
  BY <1>1, MessagesIn, EmptySeq
<1>3. CASE UNCHANGED <<mail, taken, wire, stored, recorded, carried, flushed>>
  BY <1>1, <1>3 DEF TapeTyped
<1>4. CASE Post
  <2>1. mail' \in Seq(Message)
    <3>1. New \in Message BY <1>4, NewMessage DEF Post, Creates
    <3> QED BY <1>1, <1>4, <3>1, Appended DEF Post
  <2> QED BY <1>1, <1>4, <2>1 DEF Post, TapeTyped, tape
<1>5. ASSUME NEW replies \in BOOLEAN, BeginTurn(replies) PROVE TapeTyped'
  <2>1. Head(mail) \in Message /\ Tail(mail) \in Seq(Message) BY <1>1, <1>5, HeadAndTail DEF BeginTurn
  <2>2. <<Head(mail)>> \in Seq(Message) BY <2>1
  <2> QED BY <1>1, <1>5, <2>1, <2>2 DEF BeginTurn, TapeTyped, tape
<1>6. CASE AppendOpening
  <2>1. stored \o taken \in Seq(Message) BY <1>1, Concatenated
  <2> QED BY <1>1, <1>2, <1>6, <2>1 DEF AppendOpening, TapeTyped, tape
<1>7. CASE PrepareFails BY <1>1, <1>2, <1>7 DEF PrepareFails, TapeTyped, tape
<1>8. CASE ReadHistory BY <1>1, <1>2, <1>8 DEF ReadHistory, TapeTyped
<1>9. ASSUME NEW replies \in BOOLEAN, TakeSteers(replies) PROVE TapeTyped'
  <2>1. mail' \in {mail, <<>>} /\ taken' \in {mail, taken} BY <1>9 DEF TakeSteers
  <2>2. UNCHANGED <<wire, stored, recorded, carried, flushed>> BY <1>9 DEF TakeSteers, tape
  <2> QED BY <1>1, <1>2, <2>1, <2>2 DEF TapeTyped
<1>10. CASE Steered
  <2>1. Head(taken) \in Message /\ Tail(taken) \in Seq(Message) BY <1>1, <1>10, HeadAndTail DEF Steered
  <2>2. wire' = Append(wire, Head(taken)) BY <1>10 DEF Steered
  <2>3. wire' \in Seq(Message) /\ flushed <= Len(wire') BY <2>1, <2>2, WireLonger
  <2>4. taken' \in Seq(Message) BY <1>2, <1>10, <2>1 DEF Steered
  <2>5. UNCHANGED <<mail, stored, recorded, carried, flushed>> BY <1>10 DEF Steered
  <2> QED BY <1>1, <2>3, <2>4, <2>5 DEF TapeTyped
<1>11. ASSUME NEW empty \in BOOLEAN, Reply(empty) PROVE TapeTyped'
  <2>1. UNCHANGED <<mail, taken, stored, recorded, carried, flushed>> BY <1>11 DEF Reply
  <2>2. CASE empty BY <1>3, <1>11, <2>1, <2>2 DEF Reply
  <2>3. CASE ~empty
    <3>1. calling \in Message BY <1>11, ReplyMessage DEF Reply
    <3>2. wire' = Append(wire, calling) BY <1>11, <2>3 DEF Reply
    <3>3. wire' \in Seq(Message) /\ flushed <= Len(wire') BY <3>1, <3>2, WireLonger
    <3> QED BY <1>1, <2>1, <3>3 DEF TapeTyped
  <2> QED BY <2>2, <2>3
<1>12. CASE RecordEntry
  <2>1. New \in Message BY <1>12, NewMessage DEF RecordEntry, Creates
  <2>2. wire' = Append(wire, New) BY <1>12 DEF RecordEntry
  <2>3. wire' \in Seq(Message) /\ flushed <= Len(wire') BY <2>1, <2>2, WireLonger
  <2>4. UNCHANGED <<mail, taken, stored, recorded, carried, flushed>> BY <1>12 DEF RecordEntry
  <2> QED BY <1>1, <2>3, <2>4 DEF TapeTyped
<1>13. ASSUME NEW m \in Message, wire' = Append(wire, m), Flush(wire'),
              UNCHANGED <<mail, taken, stored, carried>>
       PROVE  TapeTyped'
  <2>1. PICK w : w = wire' OBVIOUS
  <2>2. w \in Seq(Message) /\ flushed <= Len(w) /\ carried <= Len(w) BY <1>13, <2>1, WireLonger
  <2>3. recorded' \in Seq(Seq(Message)) /\ flushed' = Len(w) /\ flushed' \in Nat
    BY <1>13, <2>1, <2>2, FlushTyped
  <2> QED BY <1>1, <1>13, <2>1, <2>2, <2>3 DEF TapeTyped
<1>14. ASSUME NEW verdict \in {"continue", "capped", "halt"}, Result(verdict) PROVE TapeTyped'
  <2>1. ResultOf(calling) \in Message BY <1>14, ReplyMessage DEF Result
  <2> QED BY <1>13, <1>14, <2>1 DEF Result
<1>15. CASE Place
  <2>1. New \in Message BY <1>15, NewMessage DEF Place, Creates
  <2>2. CASE at \in Underway \cup {"ending"} BY <1>13, <1>15, <2>1, <2>2 DEF Place
  <2>3. CASE at \notin Underway \cup {"ending"} BY <1>3, <1>15, <2>3 DEF Place
  <2> QED BY <2>2, <2>3
<1>16. CASE Seal
  <2>1. Flush(wire) /\ UNCHANGED <<mail, taken, wire, stored, carried>> BY <1>16 DEF Seal
  <2>2. recorded' \in Seq(Seq(Message)) /\ flushed' = Len(wire) /\ flushed' \in Nat
    BY <1>1, <2>1, FlushTyped
  <2>3. carried <= Len(wire) BY <1>1, <1>2
  <2> QED BY <1>1, <2>1, <2>2, <2>3 DEF TapeTyped
<1>17. CASE Land
  <2>1. Head(recorded) \in Seq(Message) /\ Tail(recorded) \in Seq(Seq(Message))
    BY <1>1, <1>17, HeadAndTail DEF Land
  <2>2. stored \o Head(recorded) \in Seq(Message) BY <1>1, <2>1, Concatenated
  <2> QED BY <1>1, <1>17, <2>1, <2>2 DEF Land, TapeTyped
<1>18. CASE LandFails
  <2>1. Tail(recorded) \in Seq(Seq(Message)) BY <1>1, <1>18, HeadAndTail DEF LandFails
  <2> QED BY <1>1, <1>18, <2>1 DEF LandFails, TapeTyped
<1>19. CASE Finish BY <1>3, <1>19, FinishAppends DEF Finish, tape
<1>20. ASSUME NEW m \in placing, Placed(m) PROVE TapeTyped'
  <2>1. m \in Message BY DEF Typed, ViewsTyped
  <2>2. Append(stored, m) \in Seq(Message) BY <1>1, <2>1, Appended
  <2> QED BY <1>1, <1>20, <2>2 DEF Placed, TapeTyped, tape
<1>21. CASE OpenWire \/ Abort \/ Leave \/ CallModel \/ Delta \/ CallFails \/ SnapshotDue \/ Halt
            \/ Settle \/ Attach \/ \E left \in BOOLEAN : Detach(left)
  BY <1>3, <1>21 DEF OpenWire, Abort, Leave, CallModel, Delta, CallFails, SnapshotDue, Halt, Settle,
                     Attach, Detach, tape
<1> QED
  BY <1>4, <1>5, <1>6, <1>7, <1>8, <1>9, <1>10, <1>11, <1>12, <1>14, <1>15, <1>16, <1>17, <1>18, <1>19,
     <1>20, <1>21, TurnActions

(* What those who watch are shown, and what a new one is sent. *)
Views ==
  /\ buffer \in [full : BOOLEAN, snapshot : SUBSET Message, relayed : SUBSET Message]
  /\ client \in [on : BOOLEAN, snapshot : SUBSET Message, relayed : SUBSET Message]

(* What a snapshot does. *)
LEMMA ShowsDoes ==
  ASSUME Views, aborted \in BOOLEAN, NEW messages, ToSet(messages) \subseteq Message, Shows(messages)
  PROVE  /\ Views' /\ client'.on = client.on
         /\ buffer'.relayed = buffer.relayed /\ client'.relayed = client.relayed
         /\ aborted => UNCHANGED <<buffer, client>>
         /\ ~aborted => buffer'.full /\ buffer'.snapshot = ToSet(messages)
         /\ client'.snapshot = IF ~aborted /\ client.on THEN ToSet(messages) ELSE client.snapshot
<1>1. CASE aborted BY <1>1 DEF Shows, Views
<1>2. CASE ~aborted
  <2>1. buffer' = [buffer EXCEPT !.full = TRUE, !.snapshot = ToSet(messages)] BY <1>2 DEF Shows
  <2>2. client' = IF client.on THEN [client EXCEPT !.snapshot = ToSet(messages)] ELSE client
    BY <1>2 DEF Shows
  <2> QED BY <1>2, <2>1, <2>2 DEF Views
<1> QED BY <1>1, <1>2

(* What a relay does. *)
LEMMA RelaysDoes ==
  ASSUME Views, NEW messages \in SUBSET Message, Relays(messages)
  PROVE  /\ Views' /\ client'.on = client.on /\ buffer'.full = buffer.full
         /\ buffer'.snapshot = buffer.snapshot /\ client'.snapshot = client.snapshot
         /\ buffer'.relayed = buffer.relayed \cup messages
         /\ client'.relayed = IF client.on THEN client.relayed \cup messages ELSE client.relayed
  BY DEF Views, Relays

(* What a piece of a reply does. *)
LEMMA DeltaDoes ==
  ASSUME Views, Delta, calling \in Message
  PROVE  /\ Views' /\ client'.on = client.on /\ buffer'.full = buffer.full
         /\ buffer'.relayed = buffer.relayed /\ client'.relayed = client.relayed
         /\ aborted => UNCHANGED <<buffer, client>>
         /\ ~aborted => buffer'.snapshot = buffer.snapshot \cup {calling}
         /\ client'.snapshot = IF ~aborted /\ client.on THEN client.snapshot \cup {calling}
                               ELSE client.snapshot
<1>1. CASE aborted BY <1>1 DEF Delta, Views
<1>2. CASE ~aborted
  <2>1. buffer' = [buffer EXCEPT !.snapshot = @ \cup {calling}] BY <1>2 DEF Delta
  <2>2. client' = IF client.on THEN [client EXCEPT !.snapshot = @ \cup {calling}] ELSE client
    BY <1>2 DEF Delta
  <2> QED BY <1>2, <2>1, <2>2 DEF Views
<1> QED BY <1>1, <1>2

(* What the beginning of a turn does. *)
LEMMA BeginDoes ==
  ASSUME Views, Head(mail) \in Message, NEW replies \in BOOLEAN, BeginTurn(replies)
  PROVE  \E relayed \in SUBSET {Head(mail)} :
           /\ buffer' = [full |-> FALSE, snapshot |-> {}, relayed |-> relayed]
           /\ Views' /\ client'.on = client.on /\ client'.snapshot = client.snapshot
           /\ client'.relayed = IF client.on THEN client.relayed \cup relayed ELSE client.relayed
<1>1. PICK relayed : relayed = IF replies THEN {Head(mail)} ELSE {} OBVIOUS
<1>2. relayed \in SUBSET {Head(mail)} BY <1>1
<1>3. /\ buffer' = [full |-> FALSE, snapshot |-> {}, relayed |-> relayed]
      /\ client' = IF client.on THEN [client EXCEPT !.relayed = @ \cup relayed] ELSE client
  BY <1>1 DEF BeginTurn
<1>4. relayed \subseteq Message BY <1>2
<1>5. Views' /\ client'.on = client.on /\ client'.snapshot = client.snapshot
      /\ client'.relayed = IF client.on THEN client.relayed \cup relayed ELSE client.relayed
  BY <1>3, <1>4 DEF Views
<1> QED BY <1>2, <1>3, <1>5

(* What a watcher that comes is sent. *)
LEMMA AttachDoes ==
  ASSUME Views, Attach
  PROVE  /\ Views' /\ buffer' = buffer /\ client'.on
         /\ client'.snapshot = IF buffer.full THEN buffer.snapshot ELSE client.snapshot
         /\ client'.relayed = client.relayed \cup buffer.relayed
  BY DEF Views, Attach

(* What is left of it when it goes. *)
LEMMA DetachDoes ==
  ASSUME Views, NEW left \in BOOLEAN, Detach(left)
  PROVE  /\ Views' /\ buffer' = buffer /\ ~client'.on
         /\ client'.snapshot \in {client.snapshot, {}} /\ client'.relayed \in {client.relayed, {}}
  BY DEF Views, Detach

(* What the end of the steps does. *)
LEMMA SettleDoes ==
  ASSUME Views, Settle
  PROVE  UNCHANGED <<buffer, client>> \/ Shows(wire)
  BY DEF Settle

(* What is shown, where messages are placed and what is lost are messages. *)
LEMMA NextViews == ASSUME Typed, Phased, Expected, TapeTyped', TurnNext PROVE ViewsTyped'
<1>1. placing \subseteq Message /\ unheard \subseteq Message /\ gone \subseteq Message /\ Views
      /\ aborted \in BOOLEAN
  BY DEF Typed, ViewsTyped, Views, CountsTyped
<1>2. /\ mail \in Seq(Message) /\ taken \in Seq(Message) /\ wire \in Seq(Message)
      /\ recorded \in Seq(Seq(Message))
  BY DEF Typed, TapeTyped
<1>3. ToSet(mail) \subseteq Message /\ ToSet(taken) \subseteq Message /\ ToSet(wire) \subseteq Message
  BY <1>2, MessagesIn
<1>4. CASE UNCHANGED <<placing, unheard, gone>> /\ Views'
  BY <1>1, <1>4 DEF ViewsTyped, Views
<1>5. CASE UNCHANGED <<placing, unheard, gone>> /\ UNCHANGED <<buffer, client>>
  BY <1>1, <1>5 DEF ViewsTyped, Views
<1>6. CASE UNCHANGED <<placing, unheard>> /\ gone' \subseteq Message /\ UNCHANGED <<buffer, client>>
  BY <1>1, <1>6 DEF ViewsTyped, Views
<1>7. ASSUME UNCHANGED <<placing, unheard, gone>>, Shows(wire) PROVE ViewsTyped'
  BY <1>1, <1>3, <1>4, <1>7, ShowsDoes
<1>8. ASSUME UNCHANGED unheard, gone' \subseteq Message, placing' \subseteq Message, Shows(wire')
      PROVE  ViewsTyped'
  <2>1. PICK w : w = wire' OBVIOUS
  <2>2. w \in Seq(Message) BY <2>1 DEF TapeTyped
  <2>3. Views' BY <1>1, <1>8, <2>1, <2>2, MessagesIn, ShowsDoes
  <2> QED BY <1>1, <1>8, <2>3 DEF ViewsTyped, Views
<1>9. ASSUME at \in {"calling", "evaluating"} PROVE calling \in Message BY <1>9, ReplyMessage
<1>10. ASSUME NEW replies \in BOOLEAN, BeginTurn(replies) PROVE ViewsTyped'
  <2>1. Head(mail) \in Message BY <1>2, <1>10, HeadAndTail DEF BeginTurn
  <2>2. Views' BY <1>1, <1>10, <2>1, BeginDoes
  <2> QED BY <1>4, <1>10, <2>2 DEF BeginTurn
<1>11. ASSUME NEW replies \in BOOLEAN, TakeSteers(replies) PROVE ViewsTyped'
  <2>1. Views' /\ unheard' \subseteq Message
    <3>1. unheard' \in {unheard, unheard \cup ToSet(mail)} BY <1>11 DEF TakeSteers
    <3>2. UNCHANGED <<buffer, client>> \/ Relays(ToSet(mail)) BY <1>11 DEF TakeSteers
    <3>3. Views'
      <4>1. CASE UNCHANGED <<buffer, client>> BY <1>1, <4>1 DEF Views
      <4>2. CASE Relays(ToSet(mail)) BY <1>1, <1>3, <4>2, RelaysDoes
      <4> QED BY <3>2, <4>1, <4>2
    <3> QED BY <1>1, <1>3, <3>1, <3>3
  <2> QED BY <1>1, <1>11, <2>1 DEF TakeSteers, ViewsTyped, Views
<1>12. CASE PrepareFails BY <1>1, <1>3, <1>6, <1>12 DEF PrepareFails
<1>13. CASE ReadHistory BY <1>1, <1>13 DEF ReadHistory, ViewsTyped, Views
<1>14. CASE OpenWire \/ SnapshotDue BY <1>7, <1>14 DEF OpenWire, SnapshotDue
<1>15. CASE Steered
  <2>1. ToSet(Tail(taken)) \subseteq Message BY <1>2, <1>15, HeadAndTail, MessagesIn DEF Steered
  <2> QED BY <1>1, <1>8, <1>15, <2>1 DEF Steered
<1>16. CASE CallModel BY <1>1, <1>16 DEF CallModel, ViewsTyped, Views
<1>17. CASE Delta
  <2>1. calling \in Message BY <1>9, <1>17 DEF Delta
  <2>2. Views' BY <1>1, <1>17, <2>1, DeltaDoes
  <2> QED BY <1>1, <1>17, <2>1, <2>2 DEF Delta, ViewsTyped, Views
<1>18. ASSUME NEW empty \in BOOLEAN, Reply(empty) PROVE ViewsTyped'
  <2>1. calling \in Message BY <1>9, <1>18 DEF Reply
  <2>2. gone' \in {gone \cup {calling}, gone \ {calling}} BY <1>18 DEF Reply
  <2> QED BY <1>1, <1>6, <1>18, <2>1, <2>2 DEF Reply
<1>19. CASE CallFails
  <2>1. calling \in Message BY <1>9, <1>19 DEF CallFails
  <2> QED BY <1>1, <1>6, <1>19, <2>1 DEF CallFails
<1>20. ASSUME NEW verdict \in {"continue", "capped", "halt"}, Result(verdict) PROVE ViewsTyped'
  BY <1>1, <1>8, <1>20 DEF Result
<1>21. CASE Settle BY <1>5, <1>7, <1>1, <1>21, SettleDoes DEF Settle
<1>22. CASE Seal BY <1>5, <1>7, <1>22 DEF Seal
<1>23. CASE LandFails
  <2>1. ToSet(Head(recorded)) \subseteq Message BY <1>2, <1>23, HeadAndTail, MessagesIn DEF LandFails
  <2> QED BY <1>1, <1>6, <1>23, <2>1 DEF LandFails
<1>24. CASE Place
  <2>1. New \in Message BY <1>24, NewMessage DEF Place, Creates
  <2>2. CASE at \in Underway \cup {"ending"} BY <1>1, <1>8, <1>24, <2>2 DEF Place
  <2>3. CASE at \notin Underway \cup {"ending"}
    BY <1>1, <1>24, <2>1, <2>3 DEF Place, ViewsTyped, Views
  <2> QED BY <2>2, <2>3
<1>25. ASSUME NEW m \in placing, Placed(m) PROVE ViewsTyped'
  <2>1. {m} \in SUBSET Message BY <1>1
  <2>2. Views' BY <1>1, <1>25, <2>1, RelaysDoes DEF Placed
  <2> QED BY <1>1, <1>25, <2>2 DEF Placed, ViewsTyped, Views
<1>26. CASE Attach BY <1>1, <1>4, <1>26, AttachDoes DEF Attach
<1>27. ASSUME NEW left \in BOOLEAN, Detach(left) PROVE ViewsTyped'
  BY <1>1, <1>4, <1>27, DetachDoes DEF Detach
<1>28. CASE Post \/ AppendOpening \/ Abort \/ Leave \/ RecordEntry \/ Halt \/ Land \/ Finish
  BY <1>5, <1>28 DEF Post, AppendOpening, Abort, Leave, RecordEntry, Halt, Land, Finish
<1> QED
  BY <1>10, <1>11, <1>12, <1>13, <1>14, <1>15, <1>16, <1>17, <1>18, <1>19, <1>20, <1>21, <1>22, <1>23,
     <1>24, <1>25, <1>26, <1>27, <1>28, TurnActions

(* Every step keeps the types. *)
LEMMA NextTyped == ASSUME Typed, Phased, Expected, TurnNext PROVE Typed'
<1>1. CountsTyped' BY NextCounts
<1>2. TapeTyped' BY NextTape
<1>3. ViewsTyped' BY <1>2, NextViews
<1> QED BY <1>1, <1>2, <1>3 DEF Typed

-----------------------------------------------------------------------------
(* Messages are in one place, once.                                        *)

(* A batch has what its part of a sequence has. *)
LEMMA SliceHas ==
  ASSUME NEW V, NEW s \in Seq(V), NEW batch \in Seq(V), NEW p \in Nat, NEW q \in Nat,
         p <= q, q <= Len(s), Slice(batch, s, p, q)
  PROVE  /\ DOMAIN batch = 1..(q - p) /\ \A i \in 1..(q - p) : batch[i] = s[p + i] /\ p + i \in DOMAIN s
         /\ ToSet(batch) = {s[k] : k \in (p + 1)..q} /\ ToSet(batch) \subseteq ToSet(s)
         /\ Distinct(s) => Distinct(batch)
<1>1. /\ Len(s) \in Nat /\ DOMAIN s = 1..Len(s) /\ DOMAIN batch = 1..(q - p)
      /\ \A i \in 1..(q - p) : batch[i] = s[p + i]
  BY LenProperties DEF Slice
<1>2. \A i \in 1..(q - p) : batch[i] = s[p + i] /\ p + i \in DOMAIN s /\ p + i \in (p + 1)..q
  BY <1>1
<1>3. \A k \in (p + 1)..q : k - p \in 1..(q - p) /\ batch[k - p] = s[k] /\ k \in DOMAIN s
  <2> SUFFICES ASSUME NEW k \in (p + 1)..q
               PROVE  k - p \in 1..(q - p) /\ batch[k - p] = s[k] /\ k \in DOMAIN s
    OBVIOUS
  <2>1. PICK i : i = k - p OBVIOUS
  <2>2. i \in 1..(q - p) /\ p + i = k BY <2>1
  <2>3. k \in DOMAIN s BY <1>1
  <2> QED BY <1>2, <2>1, <2>2, <2>3
<1>4. ToSet(batch) = {s[k] : k \in (p + 1)..q}
  <2>1. ToSet(batch) \subseteq {s[k] : k \in (p + 1)..q} BY <1>1, <1>2 DEF ToSet
  <2>2. {s[k] : k \in (p + 1)..q} \subseteq ToSet(batch) BY <1>1, <1>3 DEF ToSet
  <2> QED BY <2>1, <2>2
<1>5. ToSet(batch) \subseteq ToSet(s) BY <1>3, <1>4 DEF ToSet
<1>6. ASSUME Distinct(s) PROVE Distinct(batch)
  <2> SUFFICES ASSUME NEW i \in DOMAIN batch, NEW j \in DOMAIN batch, batch[i] = batch[j] PROVE i = j
    BY DEF Distinct
  <2>1. p + i = p + j BY <1>1, <1>2, <1>6 DEF Distinct
  <2> QED BY <1>1, <2>1
<1> QED BY <1>1, <1>2, <1>4, <1>5, <1>6

(* The first of the batches is what the wire has past the place up to      *)
(* which it has landed; nothing of it is in the transcript.                *)
LEMMA FirstBatch ==
  ASSUME Typed, Single, NEW cut, Cuts(cut), LandedTo(cut[1]), recorded # <<>>
  PROVE  /\ Head(recorded) \in Seq(Message) /\ Distinct(Head(recorded))
         /\ cut[1] \in Nat /\ cut[2] \in Nat /\ cut[1] <= cut[2] /\ cut[2] <= Len(wire)
         /\ Slice(Head(recorded), wire, cut[1], cut[2])
         /\ ToSet(Head(recorded)) = {wire[k] : k \in (cut[1] + 1)..cut[2]}
         /\ ToSet(Head(recorded)) \subseteq ToSet(wire)
         /\ ToSet(Head(recorded)) \cap ToSet(stored) = {}
<1>1. recorded \in Seq(Seq(Message)) /\ wire \in Seq(Message) BY DEF Typed, TapeTyped
<1>2. PICK batch \in Seq(Message) : batch = Head(recorded) BY <1>1, HeadAndTail
<1>3. Len(recorded) \in Nat /\ 1 \in 1..Len(recorded) /\ batch = recorded[1]
  BY <1>1, <1>2, HeadAndTail, EmptySeq
<1>4. Len(wire) \in Nat BY <1>1, MessagesIn
<1>5. cut[1] \in 0..Len(wire) /\ cut[1 + 1] \in 0..Len(wire) BY <1>3 DEF Cuts
<1>6. cut[1] <= cut[1 + 1] /\ Slice(batch, wire, cut[1], cut[1 + 1]) BY <1>3 DEF Cuts
<1>7. PICK p \in Nat, q \in Nat : p = cut[1] /\ q = cut[2] /\ p <= q /\ q <= Len(wire)
                               /\ Slice(batch, wire, p, q)
  BY <1>4, <1>5, <1>6
<1>8. /\ ToSet(batch) = {wire[k] : k \in (p + 1)..q} /\ ToSet(batch) \subseteq ToSet(wire)
      /\ Distinct(batch)
  <2>1. wire \in Seq(Message) /\ batch \in Seq(Message) /\ p \in Nat /\ q \in Nat /\ p <= q
        /\ q <= Len(wire) /\ Slice(batch, wire, p, q)
    BY <1>1, <1>7
  <2>2. Distinct(wire) BY DEF Single
  <2> HIDE <1>7
  <2>3. /\ ToSet(batch) = {wire[k] : k \in (p + 1)..q} /\ ToSet(batch) \subseteq ToSet(wire)
        /\ Distinct(wire) => Distinct(batch)
    BY ONLY <2>1, SliceHas, SMTT(60)
  <2> QED BY ONLY <2>2, <2>3
<1>9. \A k \in (p + 1)..q : wire[k] \notin ToSet(stored)
  <2>1. \A k \in (p + 1)..q : k \in 1..Len(wire) /\ k > p BY <1>4, <1>7
  <2> QED BY <1>7, <2>1 DEF LandedTo
<1>10. ToSet(batch) \cap ToSet(stored) = {} BY <1>8, <1>9
<1> QED BY <1>2, <1>7, <1>8, <1>10

(* What is shown relays nothing. *)
LEMMA ShowsRelaysNothing ==
  ASSUME Typed, NEW messages \in Seq(Message), Shows(messages) PROVE Relayed' = Relayed
<1>1. Views /\ aborted \in BOOLEAN BY DEF Typed, ViewsTyped, CountsTyped, Views
<1>2. ToSet(messages) \subseteq Message BY MessagesIn
<1> QED BY <1>1, <1>2, ShowsDoes DEF Relayed

(* The numbers that are given stay given. *)
LEMMA NumbersGrow ==
  ASSUME Typed, next' = next \/ next' = next + 1
  PROVE  1..next \subseteq 1..next' /\ Numbered \subseteq Numbered'
<1>1. next \in 0..MaxMessages BY DEF Typed, CountsTyped
<1>2. 1..next \subseteq 1..next' BY <1>1, Bounds
<1> QED BY <1>2 DEF Numbered, ResultOf

(* Every step leaves each message in one place. *)
LEMMA NextApart ==
  ASSUME Typed, Phased, Single, Apart, Expected, Landing, Typed', TurnNext PROVE Single' /\ Apart'
<1>1. /\ mail \in Seq(Message) /\ taken \in Seq(Message) /\ wire \in Seq(Message)
      /\ stored \in Seq(Message) /\ recorded \in Seq(Seq(Message)) /\ placing \subseteq Message
      /\ Views /\ aborted \in BOOLEAN
  BY DEF Typed, CountsTyped, TapeTyped, ViewsTyped, Views
<1>2. ToSet(<<>>) = {} /\ Distinct(<<>>) BY DEF ToSet, Distinct
<1>3. Distinct(mail) /\ Distinct(taken) /\ Distinct(wire) /\ Distinct(stored) BY DEF Single
<1>4. ASSUME NEW messages, Shows(messages), messages = wire \/ messages = wire' PROVE Relayed' = Relayed
  <2>1. PICK w : w = messages OBVIOUS
  <2>2. w \in Seq(Message) BY <1>1, <1>4, <2>1 DEF Typed, TapeTyped
  <2> QED BY <1>4, <2>1, <2>2, ShowsRelaysNothing
<1>5. ASSUME UNCHANGED <<mail, taken, placing, wire, stored>>, Relayed' \subseteq Relayed,
             next' = next \/ next' = next + 1
      PROVE  Single' /\ Apart'
  <2>1. 1..next \subseteq 1..next' /\ Numbered \subseteq Numbered' BY <1>5, NumbersGrow
  <2>2. Waiting' = Waiting /\ Kept' = Kept BY <1>5 DEF Waiting, Kept
  <2>3. Single' BY <1>5 DEF Single
  <2>4. Apart' BY <1>5, <2>1, <2>2 DEF Apart
  <2> QED BY <2>3, <2>4
<1>6. ASSUME NEW m \in Message, wire' = Append(wire, m), m \notin Kept, m \in Numbered',
             UNCHANGED <<mail, placing, stored>>, ToSet(taken') \subseteq ToSet(taken), Distinct(taken'),
             m \notin ToSet(mail) \cup ToSet(taken') \cup placing,
             Relayed' \subseteq Relayed, next' = next \/ next' = next + 1
      PROVE  Single' /\ Apart'
  <2>1. 1..next \subseteq 1..next' /\ Numbered \subseteq Numbered' BY <1>6, NumbersGrow
  <2>2. ToSet(wire') = ToSet(wire) \cup {m} /\ Distinct(wire')
    <3>1. PICK w : w = wire' OBVIOUS
    <3>2. m \notin ToSet(wire) BY <1>6 DEF Kept
    <3>3. ToSet(w) = ToSet(wire) \cup {m} /\ Distinct(w) BY <1>1, <1>3, <1>6, <3>1, <3>2, Appended
    <3> QED BY <3>1, <3>3
  <2>3. Kept' = Kept \cup {m} BY <1>6, <2>2 DEF Kept
  <2>4. Waiting' \subseteq Waiting /\ m \notin Waiting' BY <1>6 DEF Waiting
  <2>5. Single' BY <1>3, <1>6, <2>2 DEF Single
  <2>6. Apart' BY <1>6, <2>1, <2>3, <2>4 DEF Apart
  <2> QED BY <2>5, <2>6
<1>7. ASSUME Creates
      PROVE  /\ New \in Message /\ New \notin Waiting /\ New \notin Kept /\ New \notin Relayed
             /\ New \in 1..next' /\ New \in Numbered' /\ next' = next + 1
  <2>1. next' = New /\ next < MaxMessages BY <1>7 DEF Creates, New
  <2>2. New \in Message /\ New \notin Numbered /\ New \in 1..New /\ New \notin 1..next BY <2>1, NewMessage
  <2>3. New \in Numbered' BY <2>1, <2>2 DEF Numbered
  <2> QED BY <2>1, <2>2, <2>3 DEF Apart, New
<1>8. CASE Post
  <2>1. New \in Message /\ New \notin Waiting \cup Kept /\ New \in 1..next' /\ next' = next + 1
    BY <1>7, <1>8 DEF Post
  <2>2. PICK box : box = mail' OBVIOUS
  <2>3. ToSet(box) = ToSet(mail) \cup {New} /\ Distinct(box)
    BY <1>1, <1>3, <1>8, <2>1, <2>2, Appended DEF Post, Waiting
  <2>4. UNCHANGED <<taken, placing, wire, stored, buffer, client>> BY <1>8 DEF Post, tape
  <2>5. 1..next \subseteq 1..next' /\ Numbered \subseteq Numbered' BY <2>1, NumbersGrow
  <2>6. Single' BY <1>3, <2>2, <2>3, <2>4 DEF Single
  <2>7. ToSet(mail') = ToSet(mail) \cup {New} BY <2>2, <2>3
  <2>8. Waiting' = Waiting \cup {New} /\ Kept' = Kept /\ Relayed' = Relayed
    BY <2>4, <2>7 DEF Waiting, Kept, Relayed
  <2>9. Apart' BY <2>1, <2>4, <2>5, <2>7, <2>8 DEF Apart, Waiting
  <2> QED BY <2>6, <2>9
<1>9. ASSUME NEW replies \in BOOLEAN, BeginTurn(replies) PROVE Single' /\ Apart'
  <2>1. taken = <<>> BY <1>9 DEF BeginTurn, Phased
  <2>2. PICK h, t : h = Head(mail) /\ t = Tail(mail) OBVIOUS
  <2>3. /\ h \in Message /\ h \in ToSet(mail) /\ ToSet(mail) = {h} \cup ToSet(t) /\ h \notin ToSet(t)
        /\ Distinct(t)
    BY <1>1, <1>3, <1>9, <2>2, HeadAndTail DEF BeginTurn
  <2>4. taken' = <<h>> /\ mail' = t /\ UNCHANGED <<placing, wire, stored, next>>
    BY <1>9, <2>2 DEF BeginTurn, tape
  <2>5. ToSet(<<h>>) = {h} /\ Distinct(<<h>>) BY DEF ToSet, Distinct
  <2>6. Relayed' \subseteq Relayed \cup {h}
    <3>1. PICK r \in SUBSET {h} :
            /\ buffer' = [full |-> FALSE, snapshot |-> {}, relayed |-> r]
            /\ client'.relayed = IF client.on THEN client.relayed \cup r ELSE client.relayed
      BY <1>1, <1>9, <2>2, <2>3, BeginDoes
    <3> QED BY <3>1 DEF Relayed
  <2>7. Single' BY <1>3, <2>3, <2>4, <2>5 DEF Single
  <2>8. Waiting' = Waiting /\ Kept' = Kept BY <1>2, <2>1, <2>3, <2>4, <2>5 DEF Waiting, Kept
  <2>9. h \in Waiting BY <2>3 DEF Waiting
  <2>10. Apart' BY <1>2, <2>1, <2>3, <2>4, <2>5, <2>6, <2>8, <2>9 DEF Apart, Numbered
  <2> QED BY <2>7, <2>10
<1>10. CASE AppendOpening
  <2>1. ToSet(taken) \cap ToSet(stored) = {} BY DEF Apart, Waiting, Kept
  <2>2. PICK all : all = stored \o taken OBVIOUS
  <2>3. ToSet(all) = ToSet(stored) \cup ToSet(taken) /\ Distinct(all)
    BY <1>1, <1>3, <2>1, <2>2, Concatenated
  <2>4. stored' = all /\ taken' = <<>> /\ UNCHANGED <<mail, placing, wire, buffer, client, next>>
    BY <1>10, <2>2 DEF AppendOpening, tape
  <2>5. Single' BY <1>2, <1>3, <2>3, <2>4 DEF Single
  <2>6. Waiting' = ToSet(mail) \cup placing /\ Kept' = Kept \cup ToSet(taken) /\ Relayed' = Relayed
        /\ Numbered' = Numbered
    BY <1>2, <2>3, <2>4 DEF Waiting, Kept, Relayed, Numbered
  <2>7. ToSet(taken) \subseteq Numbered BY DEF Apart, Waiting, Numbered
  <2>8. Apart' BY <1>2, <2>4, <2>6, <2>7 DEF Apart, Waiting
  <2> QED BY <2>5, <2>8
<1>11. CASE PrepareFails
  <2>1. taken' = <<>> /\ UNCHANGED <<mail, placing, wire, stored, buffer, client, next>>
    BY <1>11 DEF PrepareFails, tape
  <2>2. Single' BY <1>2, <1>3, <2>1 DEF Single
  <2>3. Waiting' = ToSet(mail) \cup placing /\ Kept' = Kept /\ Relayed' = Relayed /\ Numbered' = Numbered
    BY <1>2, <2>1 DEF Waiting, Kept, Relayed, Numbered
  <2>4. Apart' BY <1>2, <2>1, <2>3 DEF Apart, Waiting
  <2> QED BY <2>2, <2>4
<1>12. CASE ReadHistory
  <2>1. wire' = stored /\ UNCHANGED <<mail, taken, placing, stored, buffer, client, next>>
    BY <1>12 DEF ReadHistory
  <2>2. Single' BY <1>3, <2>1 DEF Single
  <2>3. Waiting' = Waiting /\ Kept' \subseteq Kept /\ Relayed' = Relayed /\ Numbered' = Numbered
    BY <2>1 DEF Waiting, Kept, Relayed, Numbered
  <2>4. Apart' BY <2>1, <2>3 DEF Apart
  <2> QED BY <2>2, <2>4
<1>13. ASSUME NEW replies \in BOOLEAN, TakeSteers(replies) PROVE Single' /\ Apart'
  <2>1. UNCHANGED <<placing, wire, stored, next>> /\ taken = <<>>
    BY <1>13 DEF TakeSteers, tape, Phased
  <2>2. CASE UNCHANGED <<mail, taken, buffer, client>>
    <3>1. Relayed' = Relayed BY <2>2 DEF Relayed
    <3> QED BY <1>5, <2>1, <2>2, <3>1
  <2>3. CASE /\ taken' = mail /\ mail' = <<>>
             /\ UNCHANGED <<buffer, client>> \/ Relays(ToSet(mail))
    <3>1. Relayed' \subseteq Relayed \cup ToSet(mail)
      <4>1. CASE UNCHANGED <<buffer, client>> BY <4>1 DEF Relayed
      <4>2. CASE Relays(ToSet(mail))
        <5>1. ToSet(mail) \in SUBSET Message BY <1>1, MessagesIn
        <5> QED BY <1>1, <4>2, <5>1, RelaysDoes DEF Relayed
      <4> QED BY <2>3, <4>1, <4>2
    <3>2. Single' BY <1>2, <1>3, <2>1, <2>3 DEF Single
    <3>3. Waiting' = Waiting /\ Kept' = Kept /\ Numbered' = Numbered
      BY <1>2, <2>1, <2>3 DEF Waiting, Kept, Numbered
    <3>4. ToSet(mail) \subseteq Waiting BY DEF Waiting
    <3>5. Apart' BY <1>2, <2>1, <2>3, <3>1, <3>3, <3>4 DEF Apart
    <3> QED BY <3>2, <3>5
  <2> QED BY <1>13, <2>2, <2>3 DEF TakeSteers
<1>14. CASE Steered
  <2>1. PICK h, t : h = Head(taken) /\ t = Tail(taken) OBVIOUS
  <2>2. /\ h \in Message /\ h \in ToSet(taken) /\ ToSet(t) \subseteq ToSet(taken) /\ h \notin ToSet(t)
        /\ Distinct(t)
    BY <1>1, <1>3, <1>14, <2>1, HeadAndTail DEF Steered
  <2>3. taken' \in {<<>>, t} BY <1>14, <2>1 DEF Steered
  <2>4. ToSet(taken') \subseteq ToSet(taken) /\ Distinct(taken') /\ h \notin ToSet(taken')
    BY <1>2, <2>2, <2>3
  <2>5. h \notin Kept /\ h \in Numbered /\ h \notin ToSet(mail) \cup placing
    BY <2>2 DEF Apart, Waiting, Numbered
  <2>6. wire' = Append(wire, h) /\ UNCHANGED <<mail, placing, stored, next>>
    BY <1>14, <2>1 DEF Steered
  <2>7. Relayed' = Relayed BY <1>4, <1>14 DEF Steered
  <2>8. Numbered' = Numbered BY <2>6 DEF Numbered
  <2> QED BY <1>6, <2>2, <2>4, <2>5, <2>6, <2>7, <2>8
<1>15. ASSUME NEW empty \in BOOLEAN, Reply(empty) PROVE Single' /\ Apart'
  <2>1. UNCHANGED <<mail, taken, placing, stored, buffer, client, next>> BY <1>15 DEF Reply
  <2>2. Relayed' = Relayed /\ Numbered' = Numbered BY <2>1 DEF Relayed, Numbered
  <2>3. CASE empty BY <1>5, <1>15, <2>1, <2>2, <2>3 DEF Reply
  <2>4. CASE ~empty
    <3>1. wire' = Append(wire, calling) /\ at = "calling" BY <1>15, <2>4 DEF Reply
    <3>2. calling \in Message /\ calling \in Numbered BY <3>1, ReplyMessage
    <3>3. calling \notin Kept /\ calling \notin Waiting BY <3>1 DEF Expected
    <3> QED BY <1>3, <1>6, <2>1, <2>2, <3>1, <3>2, <3>3 DEF Waiting
  <2> QED BY <2>3, <2>4
<1>16. CASE RecordEntry
  <2>1. Creates /\ wire' = Append(wire, New) /\ UNCHANGED <<mail, taken, placing, stored, buffer, client>>
    BY <1>16 DEF RecordEntry
  <2>2. Relayed' = Relayed BY <2>1 DEF Relayed
  <2> QED BY <1>3, <1>6, <1>7, <2>1, <2>2 DEF Waiting
<1>17. ASSUME NEW verdict \in {"continue", "capped", "halt"}, Result(verdict) PROVE Single' /\ Apart'
  <2>1. /\ at = "evaluating" /\ wire' = Append(wire, ResultOf(calling))
        /\ UNCHANGED <<mail, taken, placing, stored, next>>
    BY <1>17 DEF Result
  <2>2. /\ ResultOf(calling) \in Message /\ ResultOf(calling) \in Numbered
        /\ ResultOf(calling) \notin 1..next
    BY <2>1, ReplyMessage
  <2>3. ResultOf(calling) \notin Kept BY <2>1 DEF Expected
  <2>4. ResultOf(calling) \notin Waiting BY <2>2 DEF Apart
  <2>5. Relayed' = Relayed BY <1>4, <1>17 DEF Result
  <2>6. Numbered' = Numbered BY <2>1 DEF Numbered
  <2> QED BY <1>3, <1>6, <2>1, <2>2, <2>3, <2>4, <2>5, <2>6 DEF Waiting
<1>18. CASE Land
  <2>1. PICK cut : Cuts(cut) /\ LandedTo(cut[1]) BY DEF Landing
  <2>2. PICK batch : batch = Head(recorded) OBVIOUS
  <2>3. /\ batch \in Seq(Message) /\ Distinct(batch) /\ ToSet(batch) \subseteq ToSet(wire)
        /\ ToSet(batch) \cap ToSet(stored) = {}
    BY <1>18, <2>1, <2>2, FirstBatch DEF Land
  <2>4. PICK all : all = stored \o batch OBVIOUS
  <2>5. ToSet(all) = ToSet(stored) \cup ToSet(batch) /\ Distinct(all)
    BY <1>1, <1>3, <2>3, <2>4, Concatenated
  <2>6. stored' = all /\ UNCHANGED <<mail, taken, placing, wire, buffer, client, next>>
    BY <1>18, <2>2, <2>4 DEF Land
  <2>7. Single' BY <1>3, <2>5, <2>6 DEF Single
  <2>8. Waiting' = Waiting /\ Kept' = Kept /\ Relayed' = Relayed /\ Numbered' = Numbered
    BY <2>3, <2>5, <2>6 DEF Waiting, Kept, Relayed, Numbered
  <2>9. Apart' BY <2>6, <2>8 DEF Apart
  <2> QED BY <2>7, <2>9
<1>19. CASE Place
  <2>1. Creates /\ UNCHANGED <<mail, taken, stored>> BY <1>19 DEF Place
  <2>2. CASE at \in Underway \cup {"ending"}
    <3>1. wire' = Append(wire, New) /\ Shows(wire') /\ UNCHANGED placing BY <1>19, <2>2 DEF Place
    <3>2. Relayed' = Relayed BY <1>4, <3>1
    <3> QED BY <1>3, <1>6, <1>7, <2>1, <3>1, <3>2 DEF Waiting
  <2>3. CASE at \notin Underway \cup {"ending"}
    <3>1. placing' = placing \cup {New} /\ UNCHANGED <<wire, buffer, client>>
      BY <1>19, <2>3 DEF Place
    <3>2. New \notin Waiting \cup Kept /\ New \in 1..next' /\ next' = next + 1 BY <1>7, <2>1
    <3>3. 1..next \subseteq 1..next' /\ Numbered \subseteq Numbered' BY <3>2, NumbersGrow
    <3>4. Single' BY <1>3, <2>1, <3>1 DEF Single
    <3>5. Waiting' = Waiting \cup {New} /\ Kept' = Kept /\ Relayed' = Relayed
      BY <2>1, <3>1 DEF Waiting, Kept, Relayed
    <3>6. Apart' BY <2>1, <3>1, <3>2, <3>3, <3>5 DEF Apart, Waiting
    <3> QED BY <3>4, <3>6
  <2> QED BY <2>2, <2>3
<1>20. ASSUME NEW m \in placing, Placed(m) PROVE Single' /\ Apart'
  <2>1. m \in Message /\ m \in Waiting /\ m \notin Kept /\ m \in 1..next
    BY <1>1 DEF Waiting, Apart
  <2>2. PICK all : all = Append(stored, m) OBVIOUS
  <2>3. ToSet(all) = ToSet(stored) \cup {m} /\ Distinct(all)
    BY <1>1, <1>3, <2>1, <2>2, Appended DEF Kept
  <2>4. stored' = all /\ placing' = placing \ {m} /\ UNCHANGED <<mail, taken, wire, next>>
    BY <1>20, <2>2 DEF Placed, tape
  <2>5. Relayed' \subseteq Relayed \cup {m}
    <3>1. {m} \in SUBSET Message BY <2>1
    <3> QED BY <1>1, <1>20, <3>1, RelaysDoes DEF Placed, Relayed
  <2>6. Single' BY <1>3, <2>3, <2>4 DEF Single
  <2>7. Waiting' = Waiting \ {m} /\ Kept' = Kept \cup {m} /\ Numbered' = Numbered /\ m \in Numbered
    BY <2>1, <2>3, <2>4 DEF Waiting, Kept, Numbered, Apart
  <2>8. Apart' BY <2>1, <2>4, <2>5, <2>7 DEF Apart
  <2> QED BY <2>6, <2>8
<1>21. CASE OpenWire \/ SnapshotDue
  BY <1>4, <1>5, <1>21 DEF OpenWire, SnapshotDue, tape
<1>22. CASE Settle \/ Seal
  <2>1. UNCHANGED <<mail, taken, placing, wire, stored, next>> BY <1>22 DEF Settle, Seal
  <2>2. UNCHANGED <<buffer, client>> \/ Shows(wire) BY <1>22 DEF Settle, Seal
  <2>3. Relayed' = Relayed BY <1>4, <2>2 DEF Relayed
  <2> QED BY <1>5, <2>1, <2>3
<1>23. CASE Delta
  <2>1. calling \in Message BY <1>23, ReplyMessage DEF Delta
  <2>2. Relayed' = Relayed BY <1>1, <1>23, <2>1, DeltaDoes DEF Relayed
  <2> QED BY <1>5, <1>23, <2>2 DEF Delta, tape
<1>24. CASE Attach
  <2>1. Relayed' = Relayed BY <1>1, <1>24, AttachDoes DEF Relayed
  <2> QED BY <1>5, <1>24, <2>1 DEF Attach, tape
<1>25. ASSUME NEW left \in BOOLEAN, Detach(left) PROVE Single' /\ Apart'
  <2>1. Relayed' \subseteq Relayed BY <1>1, <1>25, DetachDoes DEF Relayed
  <2> QED BY <1>5, <1>25, <2>1 DEF Detach, tape
<1>26. CASE CallModel
  <2>1. UNCHANGED <<mail, taken, placing, wire, stored, buffer, client>> /\ next' = next + 1
    BY <1>26 DEF CallModel, Creates, tape
  <2> QED BY <1>5, <2>1 DEF Relayed
<1>27. CASE Abort \/ Leave \/ CallFails \/ Halt \/ LandFails \/ Finish
  <2>1. UNCHANGED <<mail, taken, placing, wire, stored, buffer, client, next>>
    BY <1>27, FinishAppends DEF Abort, Leave, CallFails, Halt, LandFails, Finish, tape
  <2> QED BY <1>5, <2>1 DEF Relayed
<1> QED
  BY <1>8, <1>9, <1>10, <1>11, <1>12, <1>13, <1>14, <1>15, <1>16, <1>17, <1>18, <1>19, <1>20, <1>21,
     <1>22, <1>23, <1>24, <1>25, <1>26, <1>27, TurnActions

(* A new message is nowhere yet. *)
LEMMA NewNowhere ==
  ASSUME Typed, Apart, next < MaxMessages
  PROVE  /\ New \notin Waiting /\ New \notin Relayed /\ New \notin Kept
         /\ ResultOf(New) \notin Kept /\ New \notin ToSet(wire) /\ New \notin ToSet(stored)
<1>1. New \notin Numbered /\ ResultOf(New) \notin Numbered /\ New \notin 1..next BY NewMessage
<1> QED BY <1>1 DEF Apart, Kept

(* Every step leaves the reply and its result nowhere until they come. *)
LEMMA NextExpected ==
  ASSUME Typed, Phased, Single, Apart, Expected, Landing, Typed', TurnNext PROVE Expected'
<1>1. Views /\ aborted \in BOOLEAN /\ wire \in Seq(Message) /\ mail \in Seq(Message)
      /\ stored \in Seq(Message)
  BY DEF Typed, ViewsTyped, Views, CountsTyped, TapeTyped
<1>2. CASE at' \notin {"calling", "evaluating"} BY <1>2 DEF Expected
<1>3. ASSUME at \in {"calling", "evaluating"}, at' = at, calling' = calling,
             next' = next \/ next' = next + 1,
             NEW more, calling \notin more, ResultOf(calling) \notin more,
             Waiting' \subseteq Waiting \cup more, Relayed' \subseteq Relayed \cup more,
             Kept' \subseteq Kept \cup more
      PROVE  Expected'
  <2>1. calling \in 1..next' BY <1>3, NumbersGrow DEF Expected
  <2>2. calling \notin Waiting' \cup Relayed' /\ ResultOf(calling) \notin Kept' BY <1>3 DEF Expected
  <2>3. at = "calling" => calling \notin Kept' BY <1>3 DEF Expected
  <2> QED BY <1>3, <2>1, <2>2, <2>3 DEF Expected, ResultOf
<1>4. ASSUME Creates, at \in {"calling", "evaluating"}
      PROVE  /\ New \in Message /\ calling \notin {New} /\ ResultOf(calling) \notin {New}
             /\ next' = next + 1
  <2>1. New \in Message /\ New \notin Numbered BY <1>4, NewMessage DEF Creates
  <2>2. calling \in Numbered /\ ResultOf(calling) \in Numbered BY <1>4, ReplyMessage
  <2> QED BY <1>4, <2>1, <2>2 DEF Creates
<1>5. ASSUME at \in {"calling", "evaluating"}, at' = at, calling' = calling, next' = next,
             UNCHANGED <<mail, taken, placing, wire, stored>>, Relayed' \subseteq Relayed
      PROVE  Expected'
  <2>1. Waiting' = Waiting /\ Kept' = Kept BY <1>5 DEF Waiting, Kept
  <2>2. /\ Waiting' \subseteq Waiting \cup {} /\ Relayed' \subseteq Relayed \cup {}
        /\ Kept' \subseteq Kept \cup {} /\ calling \notin {} /\ ResultOf(calling) \notin {}
    BY <1>5, <2>1
  <2> QED BY <1>3, <1>5, <2>2
<1>6. ASSUME NEW m \in Message, wire' = Append(wire, m) PROVE ToSet(wire') = ToSet(wire) \cup {m}
  BY <1>6, WireLonger
<1>7. CASE at' \in {"calling", "evaluating"} /\ Post
  <2>1. at \in {"calling", "evaluating"} /\ UNCHANGED <<at, calling, taken, placing, wire, stored, buffer, client>>
    BY <1>7 DEF Post, loop, tape
  <2>2. Creates /\ mail' = Append(mail, New) BY <1>7 DEF Post
  <2>3. New \in Message /\ calling \notin {New} /\ ResultOf(calling) \notin {New} /\ next' = next + 1
    BY <1>4, <2>1, <2>2
  <2>4. ToSet(mail') = ToSet(mail) \cup {New}
    <3>1. PICK box : box = mail' OBVIOUS
    <3>2. ToSet(box) = ToSet(mail) \cup {New} BY <1>1, <2>2, <2>3, <3>1, Appended
    <3> QED BY <3>1, <3>2
  <2>5. Waiting' = Waiting \cup {New} /\ Kept' = Kept /\ Relayed' = Relayed
    BY <2>1, <2>4 DEF Waiting, Kept, Relayed
  <2> QED BY <1>3, <2>1, <2>3, <2>5
<1>8. CASE at' \in {"calling", "evaluating"} /\ CallModel
  <2>1. /\ next < MaxMessages /\ next' = next + 1 /\ at' = "calling" /\ calling' = New
        /\ UNCHANGED <<mail, taken, placing, wire, stored, buffer, client>>
    BY <1>8 DEF CallModel, Creates, tape
  <2>2. Waiting' = Waiting /\ Kept' = Kept /\ Relayed' = Relayed BY <2>1 DEF Waiting, Kept, Relayed
  <2>3. /\ New \notin Waiting /\ New \notin Relayed /\ New \notin Kept /\ ResultOf(New) \notin Kept
        /\ New \in 1..next'
    BY <2>1, NewNowhere, NewMessage DEF New
  <2>4. ResultOf(calling') = ResultOf(New) BY <2>1 DEF ResultOf
  <2>5. ResultOf(calling)' = ResultOf(calling') BY DEF ResultOf
  <2> QED BY <2>1, <2>2, <2>3, <2>4, <2>5 DEF Expected
<1>9. CASE at' \in {"calling", "evaluating"} /\ Delta
  <2>1. /\ at = "calling" /\ at' = at
        /\ UNCHANGED <<calling, next, mail, taken, placing, wire, stored>>
    BY <1>9 DEF Delta, GoOn, loop, tape
  <2>2. calling \in Message BY <2>1, ReplyMessage
  <2>3. Relayed' = Relayed BY <1>1, <1>9, <2>2, DeltaDoes DEF Relayed
  <2> QED BY <1>5, <2>1, <2>3
<1>10. ASSUME NEW empty \in BOOLEAN, Reply(empty), at' \in {"calling", "evaluating"} PROVE Expected'
  <2>1. /\ at = "calling" /\ at' = "evaluating" /\ wire' = Append(wire, calling)
        /\ UNCHANGED <<calling, next, mail, taken, placing, stored, buffer, client>>
    BY <1>10 DEF Reply
  <2>2. calling \in Message /\ ResultOf(calling) # calling BY <2>1, ReplyMessage
  <2>3. ToSet(wire') = ToSet(wire) \cup {calling} BY <1>6, <2>1, <2>2
  <2>4. Waiting' = Waiting /\ Kept' = Kept \cup {calling} /\ Relayed' = Relayed
    BY <2>1, <2>3 DEF Waiting, Kept, Relayed
  <2>5. ResultOf(calling)' = ResultOf(calling) BY <2>1 DEF ResultOf
  <2> QED BY <2>1, <2>2, <2>4, <2>5 DEF Expected
<1>11. CASE at' \in {"calling", "evaluating"} /\ RecordEntry
  <2>1. /\ at \in {"calling", "evaluating"} /\ Creates /\ wire' = Append(wire, New)
        /\ UNCHANGED <<at, calling, mail, taken, placing, stored, buffer, client>>
    BY <1>11 DEF RecordEntry, loop
  <2>2. New \in Message /\ calling \notin {New} /\ ResultOf(calling) \notin {New} /\ next' = next + 1
    BY <1>4, <2>1
  <2>3. ToSet(wire') = ToSet(wire) \cup {New} BY <1>6, <2>1, <2>2
  <2>4. Waiting' = Waiting /\ Kept' = Kept \cup {New} /\ Relayed' = Relayed
    BY <2>1, <2>3 DEF Waiting, Kept, Relayed
  <2> QED BY <1>3, <2>1, <2>2, <2>4
<1>12. CASE at' \in {"calling", "evaluating"} /\ SnapshotDue
  <2>1. Relayed' = Relayed BY <1>1, <1>12, ShowsRelaysNothing DEF SnapshotDue
  <2> QED BY <1>5, <1>12, <2>1 DEF SnapshotDue, loop
<1>13. CASE at' \in {"calling", "evaluating"} /\ Land
  <2>1. PICK cut : Cuts(cut) /\ LandedTo(cut[1]) BY DEF Landing
  <2>2. PICK batch : batch = Head(recorded) OBVIOUS
  <2>3. batch \in Seq(Message) /\ ToSet(batch) \subseteq ToSet(wire)
    BY <1>13, <2>1, <2>2, FirstBatch DEF Land
  <2>4. ToSet(stored \o batch) = ToSet(stored) \cup ToSet(batch) BY <1>1, <2>3, Concatenated
  <2>5. stored' = stored \o batch /\ UNCHANGED <<at, calling, next, mail, taken, placing, wire, buffer, client>>
    BY <1>13, <2>2 DEF Land, loop
  <2>6. Waiting' = Waiting /\ Kept' = Kept /\ Relayed' = Relayed
    BY <2>3, <2>4, <2>5 DEF Waiting, Kept, Relayed
  <2>7. /\ Waiting' \subseteq Waiting \cup {} /\ Relayed' \subseteq Relayed \cup {}
        /\ Kept' \subseteq Kept \cup {} /\ calling \notin {} /\ ResultOf(calling) \notin {}
    BY <2>6
  <2> QED BY <1>3, <1>13, <2>5, <2>7
<1>14. CASE at' \in {"calling", "evaluating"} /\ Place
  <2>1. UNCHANGED <<at, calling, mail, taken, stored>> /\ Creates BY <1>14 DEF Place, loop
  <2>2. at \in Underway /\ at \in {"calling", "evaluating"} BY <1>14, <2>1 DEF Underway
  <2>3. wire' = Append(wire, New) /\ Shows(wire') /\ UNCHANGED placing BY <1>14, <2>2 DEF Place
  <2>4. New \in Message /\ calling \notin {New} /\ ResultOf(calling) \notin {New} /\ next' = next + 1
    BY <1>4, <2>1, <2>2
  <2>5. ToSet(wire') = ToSet(wire) \cup {New} BY <1>6, <2>3, <2>4
  <2>6. Relayed' = Relayed
    <3>1. PICK w : w = wire' OBVIOUS
    <3>2. w \in Seq(Message) BY <3>1 DEF Typed, TapeTyped
    <3> QED BY <2>3, <3>1, <3>2, ShowsRelaysNothing
  <2>7. Waiting' = Waiting /\ Kept' = Kept \cup {New} BY <2>1, <2>3, <2>5 DEF Waiting, Kept
  <2> QED BY <1>3, <2>1, <2>2, <2>4, <2>6, <2>7
<1>15. ASSUME NEW m \in placing, Placed(m), at' \in {"calling", "evaluating"} PROVE Expected'
  <2>1. UNCHANGED <<at, calling, next, mail, taken, wire>> /\ stored' = Append(stored, m)
        /\ placing' = placing \ {m} /\ Relays({m})
    BY <1>15 DEF Placed, loop, tape
  <2>2. m \in Message /\ m \in Waiting /\ m \in 1..next BY DEF Typed, ViewsTyped, Waiting, Apart
  <2>3. ToSet(Append(stored, m)) = ToSet(stored) \cup {m} BY <1>1, <2>2, Appended
  <2>4. Relayed' \subseteq Relayed \cup {m}
    <3>1. {m} \in SUBSET Message BY <2>2
    <3> QED BY <1>1, <2>1, <3>1, RelaysDoes DEF Relayed
  <2>5. Waiting' \subseteq Waiting /\ Kept' = Kept \cup {m} BY <2>1, <2>3 DEF Waiting, Kept
  <2>6. ResultOf(calling) \notin 1..next BY <1>15, <2>1, ReplyMessage
  <2>7. calling \notin {m} /\ ResultOf(calling) \notin {m} BY <1>15, <2>1, <2>2, <2>6 DEF Expected
  <2> QED BY <1>3, <1>15, <2>1, <2>4, <2>5, <2>7
<1>16. CASE at' \in {"calling", "evaluating"} /\ Attach
  <2>1. Relayed' = Relayed BY <1>1, <1>16, AttachDoes DEF Relayed
  <2> QED BY <1>5, <1>16, <2>1 DEF Attach, loop, tape
<1>17. ASSUME NEW left \in BOOLEAN, Detach(left), at' \in {"calling", "evaluating"} PROVE Expected'
  <2>1. Relayed' \subseteq Relayed BY <1>1, <1>17, DetachDoes DEF Relayed
  <2> QED BY <1>5, <1>17, <2>1 DEF Detach, loop, tape
<1>18. CASE at' \in {"calling", "evaluating"} /\ (Abort \/ LandFails)
  <2>1. Relayed' = Relayed BY <1>18 DEF Abort, LandFails, Relayed
  <2> QED BY <1>5, <1>18, <2>1 DEF Abort, LandFails, loop, tape
<1>19. ASSUME \/ AppendOpening \/ PrepareFails \/ ReadHistory \/ OpenWire \/ Leave \/ Steered \/ CallFails
              \/ Halt \/ Settle \/ Seal \/ Finish
              \/ \E replies \in BOOLEAN : BeginTurn(replies)
              \/ \E replies \in BOOLEAN : TakeSteers(replies)
              \/ \E verdict \in {"continue", "capped", "halt"} : Result(verdict)
       PROVE  at' \notin {"calling", "evaluating"}
  <2>1. CASE AppendOpening \/ PrepareFails \/ ReadHistory \/ OpenWire \/ Leave
    BY <2>1 DEF AppendOpening, PrepareFails, ReadHistory, OpenWire, Leave
  <2>2. CASE Steered \/ CallFails \/ Halt \/ Settle \/ Seal \/ Finish
    BY <2>2 DEF Steered, GoOn, CallFails, Halt, Settle, Seal, Finish
  <2>3. CASE (\E replies \in BOOLEAN : BeginTurn(replies)) \/ \E replies \in BOOLEAN : TakeSteers(replies)
    BY <2>3 DEF BeginTurn, TakeSteers
  <2>4. CASE \E verdict \in {"continue", "capped", "halt"} : Result(verdict)
    BY <2>4 DEF Result, GoOn
  <2> QED BY <1>19, <2>1, <2>2, <2>3, <2>4
<1> QED
  BY <1>2, <1>7, <1>8, <1>9, <1>10, <1>11, <1>12, <1>13, <1>14, <1>15, <1>16, <1>17, <1>18, <1>19,
     TurnActions

-----------------------------------------------------------------------------
(* What is flushed, landed and shown.                                      *)

(* Every step goes from one place of a turn to the next. *)
LEMMA NextPhased == ASSUME Typed, Phased, Expected, Typed', TurnNext PROVE Phased'
<1>1. Views /\ aborted \in BOOLEAN /\ wire \in Seq(Message)
  BY DEF Typed, ViewsTyped, Views, CountsTyped, TapeTyped
<1>2. ToSet(wire) \subseteq Message BY <1>1, MessagesIn
<1>3. ASSUME NEW messages, messages = wire \/ messages = wire', Shows(messages)
      PROVE  buffer'.full = (buffer.full \/ ~aborted)
  <2>1. PICK w : w = messages OBVIOUS
  <2>2. w \in Seq(Message) BY <1>1, <1>3, <2>1 DEF Typed, TapeTyped
  <2>3. ToSet(w) \subseteq Message BY <2>2, MessagesIn
  <2> QED BY <1>1, <1>3, <2>1, <2>3, ShowsDoes DEF Views
<1>4. ASSUME UNCHANGED <<at, taken, flushed, wire, recorded, steps>>, buffer.full => buffer'.full PROVE Phased'
  BY <1>4 DEF Phased, Quiet
<1>5. CASE Post \/ Abort BY <1>4, <1>5 DEF Post, Abort, loop, tape
<1>6. ASSUME NEW replies \in BOOLEAN, BeginTurn(replies) PROVE Phased'
  BY <1>6 DEF BeginTurn, loop, tape, Phased, Quiet
<1>7. CASE AppendOpening BY <1>7 DEF AppendOpening, loop, tape, Phased, Quiet
<1>8. CASE PrepareFails BY <1>8 DEF PrepareFails, loop, tape, Phased, Quiet
<1>9. CASE ReadHistory
  <2>1. taken = <<>> BY <1>9 DEF ReadHistory, Phased
  <2> QED BY <1>9, <2>1 DEF ReadHistory, Phased, Quiet
<1>10. CASE OpenWire
  <2>1. aborted \/ buffer'.full BY <1>3, <1>10 DEF OpenWire
  <2> QED BY <1>10, <2>1 DEF OpenWire, loop, tape, Phased, Quiet
<1>11. CASE Leave BY <1>11 DEF Leave, loop, tape, Phased, Quiet
<1>12. ASSUME NEW replies \in BOOLEAN, TakeSteers(replies) PROVE Phased'
  <2>1. buffer'.full = buffer.full
    <3>1. UNCHANGED buffer \/ Relays(ToSet(mail)) BY <1>12 DEF TakeSteers
    <3> QED BY <1>1, <3>1 DEF Relays, Views
  <2>2. UNCHANGED <<flushed, wire, recorded, steps>> BY <1>12 DEF TakeSteers, loop, tape
  <2>3. (at = "loop" /\ at' = "steering") \/ (at = "settling" /\ at' = "deciding")
    BY <1>12 DEF TakeSteers
  <2> QED BY <2>1, <2>2, <2>3 DEF Phased, Quiet
<1>13. CASE Steered
  <2>1. at \in {"steering", "deciding"} /\ buffer.full BY <1>13 DEF Steered, Phased, Quiet
  <2>2. buffer'.full BY <1>3, <1>13, <2>1 DEF Steered
  <2>3. CASE aborted BY <1>13, <2>1, <2>2, <2>3 DEF Steered, GoOn, loop, Phased, Quiet
  <2>4. CASE ~aborted BY <1>13, <2>1, <2>2, <2>4 DEF Steered, GoOn, loop, Phased, Quiet
  <2> QED BY <2>3, <2>4
<1>14. CASE CallModel BY <1>14 DEF CallModel, loop, tape, Phased, Quiet
<1>15. CASE Delta
  <2>1. calling \in Message BY <1>15, ReplyMessage DEF Delta
  <2>2. buffer'.full = buffer.full BY <1>1, <1>15, <2>1, DeltaDoes
  <2> QED BY <1>15, <2>2 DEF Delta, GoOn, loop, tape, Phased, Quiet
<1>16. ASSUME NEW empty \in BOOLEAN, Reply(empty) PROVE Phased'
  BY <1>16 DEF Reply, Phased, Quiet
<1>17. CASE CallFails BY <1>17 DEF CallFails, tape, Phased, Quiet
<1>18. CASE RecordEntry BY <1>18 DEF RecordEntry, loop, Phased, Quiet
<1>19. CASE SnapshotDue BY <1>3, <1>4, <1>19 DEF SnapshotDue, loop
<1>20. ASSUME NEW verdict \in {"continue", "capped", "halt"}, Result(verdict) PROVE Phased'
  <2>1. at = "evaluating" /\ buffer.full /\ taken = <<>> /\ taken' = taken
    BY <1>20 DEF Result, Phased, Quiet
  <2>2. buffer'.full BY <1>3, <1>20, <2>1 DEF Result
  <2>3. /\ at' \in {"loop", "ending", "settling"}
        /\ at' = "loop" => verdict = "continue"
        /\ verdict = "continue" => steps' < MaxSteps
    BY <1>20 DEF Result, GoOn
  <2> QED BY <2>1, <2>2, <2>3 DEF Phased, Quiet
<1>21. CASE Halt BY <1>21 DEF Halt, tape, Phased, Quiet
<1>22. CASE Settle
  <2>1. at = "deciding" /\ buffer.full BY <1>22 DEF Settle, Phased, Quiet
  <2>2. UNCHANGED buffer \/ Shows(wire) BY <1>22 DEF Settle
  <2>3. buffer'.full BY <1>3, <2>1, <2>2
  <2>4. /\ at' \in {"loop", "ending"} /\ (at' = "loop" => steps < MaxSteps)
        /\ UNCHANGED <<steps, taken>> /\ taken = <<>>
    BY <1>22 DEF Settle
  <2> QED BY <2>3, <2>4 DEF Phased, Quiet
<1>23. CASE Seal
  <2>1. at = "ending" /\ buffer.full /\ taken = <<>> BY <1>23 DEF Seal, Phased, Quiet
  <2>2. UNCHANGED buffer \/ Shows(wire) BY <1>23 DEF Seal
  <2>3. buffer'.full BY <1>3, <2>1, <2>2
  <2>4. at' = "sealed" /\ flushed' = Len(wire) /\ wire' = wire /\ taken' = taken BY <1>23 DEF Seal, Flush
  <2> QED BY <2>1, <2>3, <2>4 DEF Phased, Quiet
<1>24. CASE Land \/ LandFails
  <2>1. /\ UNCHANGED <<at, taken, flushed, wire, steps, buffer>> /\ recorded # <<>>
    BY <1>24 DEF Land, LandFails, loop
  <2> QED BY <2>1 DEF Phased, Quiet
<1>25. CASE Finish BY <1>25 DEF Finish, loop, tape, Phased, Quiet
<1>26. CASE Place
  <2>1. CASE at \in Underway \cup {"ending"}
    <3>1. at \notin Quiet \cup {"sealed"} BY <2>1 DEF Underway, Quiet
    <3>2. buffer'.full BY <1>3, <1>26, <2>1, <3>1 DEF Place, Phased
    <3>3. UNCHANGED <<at, taken, steps>> BY <1>26 DEF Place, loop
    <3> QED BY <3>1, <3>2, <3>3 DEF Phased, Quiet
  <2>2. CASE at \notin Underway \cup {"ending"} BY <1>4, <1>26, <2>2 DEF Place, loop
  <2> QED BY <2>1, <2>2
<1>27. ASSUME NEW m \in placing, Placed(m) PROVE Phased'
  <2>1. buffer'.full = buffer.full BY <1>27 DEF Placed, Relays, Views
  <2> QED BY <1>4, <1>27, <2>1 DEF Placed, loop, tape
<1>28. CASE Attach \/ \E left \in BOOLEAN : Detach(left)
  BY <1>4, <1>28 DEF Attach, Detach, loop, tape
<1> QED
  BY <1>5, <1>6, <1>7, <1>8, <1>9, <1>10, <1>11, <1>12, <1>13, <1>14, <1>15, <1>16, <1>17, <1>18, <1>19,
     <1>20, <1>21, <1>22, <1>23, <1>24, <1>25, <1>26, <1>27, <1>28, TurnActions

-----------------------------------------------------------------------------
(* The batches reach the transcript in order.                              *)

(* The batches stay what they are when the wire is made longer. *)
LEMMA CutsStay ==
  ASSUME Typed, NEW cut, Cuts(cut), wire' \in Seq(Message), Len(wire) <= Len(wire'),
         \A k \in 1..Len(wire) : wire'[k] = wire[k], UNCHANGED <<recorded, flushed>>
  PROVE  Cuts(cut)'
<1>1. Len(wire) \in Nat /\ Len(wire') \in Nat /\ Len(recorded) \in Nat
  BY MessagesIn, LenProperties DEF Typed, TapeTyped
<1>2. cut \in [1..(Len(recorded) + 1) -> 0..Len(wire')] BY <1>1 DEF Cuts
<1>3. ASSUME NEW i \in 1..Len(recorded)
      PROVE  cut[i] <= cut[i + 1] /\ Slice(recorded[i], wire', cut[i], cut[i + 1])
  <2>1. cut[i] \in 0..Len(wire) /\ cut[i + 1] \in 0..Len(wire) BY <1>1 DEF Cuts
  <2>2. cut[i] <= cut[i + 1] /\ Slice(recorded[i], wire, cut[i], cut[i + 1]) BY DEF Cuts
  <2>3. \A n \in 1..(cut[i + 1] - cut[i]) : cut[i] + n \in 1..Len(wire) BY <1>1, <2>1
  <2> QED BY <2>2, <2>3 DEF Slice
<1>4. cut[Len(recorded) + 1] = flushed BY DEF Cuts
<1> QED BY <1>2, <1>3, <1>4 DEF Cuts, Slice

(* A flush puts a batch after those that are not appended yet. *)
LEMMA CutsFlush ==
  ASSUME Typed, NEW cut, Cuts(cut), NEW w \in Seq(Message), w = wire', Len(wire) <= Len(w),
         \A k \in 1..Len(wire) : w[k] = wire[k], Flush(w)
  PROVE  \E c : Cuts(c)' /\ c[1] = cut[1]
<1>1. /\ Len(wire) \in Nat /\ Len(w) \in Nat /\ Len(recorded) \in Nat
      /\ recorded \in Seq(Seq(Message)) /\ flushed \in Nat /\ flushed <= Len(wire)
  BY MessagesIn, LenProperties DEF Typed, TapeTyped
<1>2. flushed <= Len(w) BY <1>1
<1>3. CASE Len(w) = flushed /\ recorded' = recorded
  <2>1. UNCHANGED <<recorded, flushed>> BY <1>2, <1>3, Flushes
  <2>2. Cuts(cut)' BY <2>1, CutsStay
  <2> QED BY <2>2
<1>4. ASSUME NEW batch \in Seq(Message), recorded' = Append(recorded, batch),
             Slice(batch, w, flushed, Len(w))
      PROVE  \E c : Cuts(c)' /\ c[1] = cut[1]
  <2>1. PICK n \in Nat : n = Len(recorded) BY <1>1
  <2>2. PICK all : all = recorded' OBVIOUS
  <2>3. Len(all) = n + 1 /\ all[n + 1] = batch /\ \A i \in 1..n : all[i] = recorded[i]
    BY <1>1, <1>4, <2>1, <2>2, AppendProperties
  <2> DEFINE c == [i \in 1..(n + 2) |-> IF i <= n + 1 THEN cut[i] ELSE Len(w)]
  <2>4. /\ \A i \in 1..(n + 1) : c[i] = cut[i] /\ cut[i] \in 0..Len(wire)
        /\ c[n + 2] = Len(w) /\ cut[n + 1] = flushed
    <3>1. cut \in [1..(n + 1) -> 0..Len(wire)] /\ cut[n + 1] = flushed BY <2>1 DEF Cuts
    <3>2. \A i \in 1..(n + 1) : i \in 1..(n + 2) /\ i <= n + 1 OBVIOUS
    <3>3. n + 2 \in 1..(n + 2) /\ ~ (n + 2 <= n + 1) OBVIOUS
    <3> QED BY <3>1, <3>2, <3>3
  <2>5. c \in [1..(n + 2) -> 0..Len(w)] BY <1>1, <2>1 DEF Cuts
  <2> HIDE DEF c
  <2>6. ASSUME NEW i \in 1..(n + 1) PROVE c[i] <= c[i + 1] /\ Slice(all[i], w, c[i], c[i + 1])
    <3>1. CASE i \in 1..n
      <4>1. i + 1 \in 1..(n + 1) /\ i \in 1..(n + 1) BY <3>1
      <4>2. c[i] = cut[i] /\ c[i + 1] = cut[i + 1] BY <2>4, <4>1
      <4>3. cut[i] \in 0..Len(wire) /\ cut[i + 1] \in 0..Len(wire) BY <2>4, <4>1
      <4>4. cut[i] <= cut[i + 1] /\ Slice(recorded[i], wire, cut[i], cut[i + 1])
        BY <2>1, <3>1 DEF Cuts
      <4>5. \A k \in 1..(cut[i + 1] - cut[i]) : cut[i] + k \in 1..Len(wire) BY <1>1, <4>3
      <4>6. Slice(recorded[i], w, cut[i], cut[i + 1]) BY <4>4, <4>5 DEF Slice
      <4> QED BY <2>3, <3>1, <4>2, <4>4, <4>6
    <3>2. CASE i = n + 1
      <4>1. n + 1 \in 1..(n + 1) /\ i + 1 = n + 2 BY <3>2
      <4>2. c[i] = flushed /\ c[i + 1] = Len(w) BY <2>4, <3>2, <4>1
      <4> QED BY <1>2, <1>4, <2>3, <3>2, <4>2
    <3> QED BY <3>1, <3>2
  <2>7. flushed' = Len(w) BY <1>2, Flushes
  <2>8. Cuts(c)'
    <3>1. (n + 1) + 1 = n + 2 OBVIOUS
    <3> QED BY <2>2, <2>3, <2>4, <2>5, <2>6, <2>7, <3>1 DEF Cuts, Slice
  <2>9. c[1] = cut[1] BY <2>4
  <2> QED BY <2>8, <2>9
<1> QED BY <1>2, <1>3, <1>4, Flushes

(* When the first batch is done with, the others are what they were. *)
LEMMA CutsShift ==
  ASSUME Typed, NEW cut, Cuts(cut), recorded # <<>>, recorded' = Tail(recorded),
         UNCHANGED <<wire, flushed>>
  PROVE  \E c : Cuts(c)' /\ c[1] = cut[2]
<1>1. /\ Len(wire) \in Nat /\ recorded \in Seq(Seq(Message)) /\ Len(recorded) \in Nat \ {0}
  BY MessagesIn, EmptySeq DEF Typed, TapeTyped
<1>2. PICK n \in Nat : n + 1 = Len(recorded)
  <2>1. Len(recorded) - 1 \in Nat /\ (Len(recorded) - 1) + 1 = Len(recorded) BY <1>1
  <2> QED BY <2>1
<1>3. PICK left : left = recorded' OBVIOUS
<1>4. Len(left) = n /\ \A i \in 1..n : left[i] = recorded[i + 1]
  <2>1. /\ Len(left) = Len(recorded) - 1
        /\ \A i \in 1..(Len(recorded) - 1) : left[i] = recorded[i + 1]
    BY <1>1, <1>3, HeadAndTail
  <2>2. Len(recorded) - 1 = n BY <1>1, <1>2
  <2> QED BY <2>1, <2>2
<1> DEFINE c == [i \in 1..(n + 1) |-> cut[i + 1]]
<1>5. /\ \A i \in 1..(n + 1) : c[i] = cut[i + 1] /\ cut[i + 1] \in 0..Len(wire)
      /\ cut[(n + 1) + 1] = flushed
  BY <1>2 DEF Cuts
<1>6. c \in [1..(n + 1) -> 0..Len(wire)] BY <1>5
<1> HIDE DEF c
<1>7. ASSUME NEW i \in 1..n PROVE c[i] <= c[i + 1] /\ Slice(left[i], wire, c[i], c[i + 1])
  <2>1. PICK j : j = i + 1 OBVIOUS
  <2>2. j \in 1..Len(recorded) /\ i \in 1..(n + 1) /\ j \in 1..(n + 1) BY <1>2, <2>1
  <2>3. c[i] = cut[j] /\ c[i + 1] = cut[j + 1] BY <1>5, <2>1, <2>2
  <2>4. cut[j] <= cut[j + 1] /\ Slice(recorded[j], wire, cut[j], cut[j + 1]) BY <2>2 DEF Cuts
  <2> QED BY <1>4, <2>1, <2>3, <2>4
<1>8. Cuts(c)'
  <2>1. n + 1 \in 1..(n + 1) OBVIOUS
  <2>2. c[n + 1] = flushed BY <1>5, <2>1
  <2>3. c \in [1..(Len(left) + 1) -> 0..Len(wire)] /\ c[Len(left) + 1] = flushed BY <1>4, <1>6, <2>2
  <2>4. \A i \in 1..Len(left) : c[i] <= c[i + 1] /\ Slice(left[i], wire, c[i], c[i + 1])
    BY <1>4, <1>7
  <2> QED BY <1>3, <2>3, <2>4 DEF Cuts, Slice
<1>9. c[1] = cut[2] BY <1>5
<1> QED BY <1>8, <1>9

(* A place up to which the wire has landed stays one. *)
LEMMA LandedStays ==
  ASSUME NEW p, LandedTo(p), UNCHANGED <<wire, carried>>, ToSet(stored) \subseteq ToSet(stored'),
         gone \cap ToSet(wire) \subseteq gone',
         \A k \in 1..Len(wire) : k > p => wire[k] \notin ToSet(stored'),
         wire \in Seq(Message)
  PROVE  LandedTo(p)'
<1>1. \A k \in 1..Len(wire) : wire[k] \in ToSet(wire)
  <2>1. DOMAIN wire = 1..Len(wire) BY MessagesIn
  <2> QED BY <2>1 DEF ToSet
<1> QED BY <1>1 DEF LandedTo

(* The wire is made longer, and perhaps flushed. *)
LEMMA LandingLonger ==
  ASSUME Typed, Typed', Landing, NEW m \in Message, wire' = Append(wire, m), m \notin ToSet(stored),
         UNCHANGED <<carried, stored>>, gone \cap ToSet(wire) \subseteq gone',
         UNCHANGED <<recorded, flushed>> \/ Flush(wire')
  PROVE  Landing'
<1>1. PICK cut : Cuts(cut) /\ LandedTo(cut[1]) BY DEF Landing
<1>2. PICK w \in Seq(Message) : w = wire' BY DEF Typed, TapeTyped
<1>3. wire \in Seq(Message) /\ Len(wire) \in Nat /\ DOMAIN wire = 1..Len(wire)
  BY MessagesIn DEF Typed, TapeTyped
<1>4. Len(w) = Len(wire) + 1 /\ w[Len(wire) + 1] = m /\ \A k \in 1..Len(wire) : w[k] = wire[k]
  BY <1>2, <1>3, Appended
<1>5. Len(wire) <= Len(w) BY <1>3, <1>4
<1>6. PICK c : Cuts(c)' /\ c[1] = cut[1]
  <2>1. CASE UNCHANGED <<recorded, flushed>> BY <1>1, <1>2, <1>4, <1>5, <2>1, CutsStay
  <2>2. CASE Flush(wire') BY <1>1, <1>2, <1>4, <1>5, <2>2, CutsFlush
  <2> QED BY <2>1, <2>2
<1>7. cut[1] \in 0..Len(wire)
  <2>1. Len(recorded) \in Nat BY LenProperties DEF Typed, TapeTyped
  <2> QED BY <1>1, <2>1 DEF Cuts
<1>8. LandedTo(c[1])'
  <2>1. \A k \in 1..Len(w) : k \in 1..Len(wire) \/ (k = Len(wire) + 1 /\ k > cut[1])
    BY <1>3, <1>4, <1>7
  <2>2. \A k \in 1..Len(wire) : wire[k] \in ToSet(wire) BY <1>3 DEF ToSet
  <2>3. ASSUME NEW k \in 1..Len(w), k <= cut[1] PROVE w[k] \in ToSet(stored) \cup gone'
    <3>1. k \in 1..Len(wire) BY <1>3, <1>7, <2>1, <2>3
    <3>2. wire[k] \in ToSet(stored) \cup gone BY <1>1, <2>3, <3>1 DEF LandedTo
    <3> QED BY <1>4, <2>2, <3>1, <3>2
  <2>4. ASSUME NEW k \in 1..Len(w), k > cut[1] PROVE w[k] \notin ToSet(stored)
    <3>1. CASE k \in 1..Len(wire) BY <1>1, <1>4, <2>4, <3>1 DEF LandedTo
    <3>2. CASE k = Len(wire) + 1 BY <1>4, <3>2
    <3> QED BY <2>1, <3>1, <3>2
  <2>5. carried <= cut[1] BY <1>1 DEF LandedTo
  <2> QED BY <1>2, <1>6, <2>3, <2>4, <2>5 DEF LandedTo
<1> QED BY <1>6, <1>8 DEF Landing

(* Every step keeps the batches in order, up to where they have landed. *)
LEMMA NextLanding ==
  ASSUME Typed, Phased, Single, Apart, Expected, Landing, Typed', TurnNext PROVE Landing'
<1>1. /\ taken \in Seq(Message) /\ wire \in Seq(Message) /\ stored \in Seq(Message)
      /\ recorded \in Seq(Seq(Message)) /\ Len(wire) \in Nat /\ DOMAIN wire = 1..Len(wire)
      /\ Len(recorded) \in Nat
  BY MessagesIn, LenProperties DEF Typed, TapeTyped
<1>2. PICK cut : Cuts(cut) /\ LandedTo(cut[1]) BY DEF Landing
<1>3. \A k \in 1..Len(wire) : wire[k] \in ToSet(wire) BY <1>1 DEF ToSet
<1>4. ASSUME UNCHANGED <<wire, recorded, flushed, carried>>, NEW more, more \cap ToSet(wire) = {},
             ToSet(stored') = ToSet(stored) \cup more, gone \cap ToSet(wire) \subseteq gone'
      PROVE  Landing'
  <2>1. Cuts(cut)' BY <1>1, <1>2, <1>4 DEF Cuts, Slice
  <2>2. \A k \in 1..Len(wire) : k > cut[1] => wire[k] \notin ToSet(stored')
    BY <1>2, <1>3, <1>4 DEF LandedTo
  <2>3. LandedTo(cut[1])' BY <1>1, <1>2, <1>4, <2>2, LandedStays
  <2> QED BY <2>1, <2>3 DEF Landing
<1>5. ASSUME UNCHANGED <<wire, recorded, flushed, carried, stored>>, gone \cap ToSet(wire) \subseteq gone'
      PROVE  Landing'
  <2>1. {} \cap ToSet(wire) = {} /\ ToSet(stored') = ToSet(stored) \cup {} BY <1>5
  <2> QED BY <1>4, <1>5, <2>1
<1>6. CASE AppendOpening
  <2>1. ToSet(stored \o taken) = ToSet(stored) \cup ToSet(taken) BY <1>1, Concatenated
  <2>2. ToSet(taken) \cap ToSet(wire) = {} BY DEF Apart, Waiting, Kept
  <2> QED BY <1>4, <1>6, <2>1, <2>2 DEF AppendOpening, tape
<1>7. CASE ReadHistory
  <2>1. /\ wire' = stored /\ carried' = Len(stored) /\ flushed' = Len(stored) /\ recorded' = <<>>
        /\ stored' = stored
    BY <1>7 DEF ReadHistory
  <2>2. PICK n \in Nat : n = Len(stored) BY <1>1, MessagesIn
  <2> DEFINE c == [i \in 1..1 |-> n]
  <2>3. c \in [1..(0 + 1) -> 0..n] /\ c[1] = n OBVIOUS
  <2> HIDE DEF c
  <2>4. Len(<<>>) = 0 BY EmptySeq
  <2>5. Cuts(c)' BY <2>1, <2>2, <2>3, <2>4 DEF Cuts
  <2>6. \A k \in 1..n : stored[k] \in ToSet(stored) /\ ~ (k > n)
    <3>1. DOMAIN stored = 1..n BY <1>1, <2>2, MessagesIn
    <3> QED BY <3>1 DEF ToSet
  <2>7. LandedTo(c[1])' BY <2>1, <2>2, <2>3, <2>6 DEF LandedTo
  <2> QED BY <2>5, <2>7 DEF Landing
<1>8. CASE Steered
  <2>1. PICK h \in Message : h = Head(taken) /\ h \in ToSet(taken)
    BY <1>1, <1>8, HeadAndTail DEF Steered
  <2>2. h \notin ToSet(stored) BY <2>1 DEF Apart, Waiting, Kept
  <2>3. wire' = Append(wire, h) /\ UNCHANGED <<carried, flushed, recorded, stored>> BY <1>8, <2>1 DEF Steered
  <2>4. gone \cap ToSet(wire) \subseteq gone' BY <1>8 DEF Steered
  <2> QED BY <2>2, <2>3, <2>4, LandingLonger
<1>9. ASSUME NEW empty \in BOOLEAN, Reply(empty) PROVE Landing'
  <2>1. at = "calling" /\ UNCHANGED <<carried, flushed, recorded, stored>> BY <1>9 DEF Reply
  <2>2. calling \in Message /\ calling \notin ToSet(wire) /\ calling \notin ToSet(stored)
    BY <2>1, ReplyMessage DEF Expected, Kept
  <2>3. gone \cap ToSet(wire) \subseteq gone' BY <1>9, <2>2 DEF Reply
  <2>4. wire' = wire \/ wire' = Append(wire, calling) BY <1>9 DEF Reply
  <2> QED BY <1>5, <2>1, <2>2, <2>3, <2>4, LandingLonger
<1>10. CASE RecordEntry
  <2>1. /\ next < MaxMessages /\ wire' = Append(wire, New)
        /\ UNCHANGED <<carried, flushed, recorded, stored, gone>>
    BY <1>10 DEF RecordEntry, Creates
  <2>2. New \in Message /\ New \notin ToSet(stored) BY <2>1, NewMessage, NewNowhere
  <2> QED BY <2>1, <2>2, LandingLonger
<1>11. ASSUME NEW verdict \in {"continue", "capped", "halt"}, Result(verdict) PROVE Landing'
  <2>1. /\ at = "evaluating" /\ wire' = Append(wire, ResultOf(calling)) /\ Flush(wire')
        /\ UNCHANGED <<carried, stored, gone>>
    BY <1>11 DEF Result
  <2>2. ResultOf(calling) \in Message BY <2>1, ReplyMessage
  <2>3. ResultOf(calling) \notin ToSet(stored) BY <2>1 DEF Expected, Kept
  <2> QED BY <2>1, <2>2, <2>3, LandingLonger
<1>12. CASE Place
  <2>1. next < MaxMessages /\ UNCHANGED <<carried, stored, gone>> BY <1>12 DEF Place, Creates
  <2>2. New \in Message /\ New \notin ToSet(stored) BY <2>1, NewMessage, NewNowhere
  <2>3. CASE at \in Underway \cup {"ending"}
    <3>1. wire' = Append(wire, New) /\ Flush(wire') BY <1>12, <2>3 DEF Place
    <3> QED BY <2>1, <2>2, <3>1, LandingLonger
  <2>4. CASE at \notin Underway \cup {"ending"} BY <1>5, <1>12, <2>1, <2>4 DEF Place
  <2> QED BY <2>3, <2>4
<1>13. CASE Seal
  <2>1. Flush(wire) /\ UNCHANGED <<wire, carried, stored, gone>> BY <1>13 DEF Seal
  <2>2. PICK c : Cuts(c)' /\ c[1] = cut[1]
    <3>1. Len(wire) <= Len(wire) /\ \A k \in 1..Len(wire) : wire[k] = wire[k] BY <1>1
    <3>2. PICK w \in Seq(Message) : w = wire' /\ w = wire BY <1>1, <2>1
    <3> QED BY <1>2, <2>1, <3>1, <3>2, CutsFlush
  <2>3. LandedTo(c[1])' BY <1>2, <2>1, <2>2 DEF LandedTo
  <2> QED BY <2>2, <2>3 DEF Landing
<1>14. CASE Land \/ LandFails
  <2>1. recorded # <<>> /\ recorded' = Tail(recorded) /\ UNCHANGED <<wire, flushed, carried>>
    BY <1>14 DEF Land, LandFails
  <2>2. PICK batch : batch = Head(recorded) OBVIOUS
  <2>3. /\ batch \in Seq(Message) /\ cut[1] \in Nat /\ cut[2] \in Nat /\ cut[1] <= cut[2]
        /\ cut[2] <= Len(wire) /\ ToSet(batch) = {wire[k] : k \in (cut[1] + 1)..cut[2]}
    BY <1>2, <2>1, <2>2, FirstBatch
  <2>4. PICK c : Cuts(c)' /\ c[1] = cut[2] BY <1>2, <2>1, CutsShift
  <2>5. /\ ToSet(stored) \subseteq ToSet(stored') /\ gone \subseteq gone'
        /\ ToSet(batch) \subseteq ToSet(stored') \cup gone'
        /\ ToSet(stored') \subseteq ToSet(stored) \cup ToSet(batch)
    <3>1. ToSet(stored \o batch) = ToSet(stored) \cup ToSet(batch) BY <1>1, <2>3, Concatenated
    <3>2. CASE Land BY <2>2, <3>1, <3>2 DEF Land
    <3>3. CASE LandFails BY <2>2, <3>3 DEF LandFails
    <3> QED BY <1>14, <3>2, <3>3
  <2>6. ASSUME NEW k \in 1..Len(wire), k <= cut[2] PROVE wire[k] \in ToSet(stored') \cup gone'
    <3>1. CASE k <= cut[1] BY <1>2, <2>5, <3>1 DEF LandedTo
    <3>2. CASE k > cut[1]
      <4>1. k \in (cut[1] + 1)..cut[2] BY <2>3, <2>6, <3>2
      <4>2. wire[k] \in ToSet(batch) BY <2>3, <4>1
      <4> QED BY <2>5, <4>2
    <3> QED BY <2>3, <3>1, <3>2
  <2>7. ASSUME NEW k \in 1..Len(wire), k > cut[2] PROVE wire[k] \notin ToSet(stored')
    <3>1. k > cut[1] BY <2>3, <2>7
    <3>2. wire[k] \notin ToSet(stored) BY <1>2, <3>1 DEF LandedTo
    <3>3. \A l \in (cut[1] + 1)..cut[2] : l \in DOMAIN wire /\ l # k BY <1>1, <2>3, <2>7
    <3>4. \A l \in (cut[1] + 1)..cut[2] : wire[l] # wire[k] BY <1>1, <3>3 DEF Single, Distinct
    <3>5. wire[k] \notin ToSet(batch) BY <2>3, <3>4
    <3> QED BY <2>5, <3>2, <3>5
  <2>8. carried <= cut[2]
    <3>1. carried \in Nat /\ carried <= cut[1] BY <1>2 DEF LandedTo, Typed, TapeTyped
    <3> QED BY <2>3, <3>1
  <2>9. LandedTo(c[1])' BY <2>1, <2>4, <2>6, <2>7, <2>8 DEF LandedTo
  <2> QED BY <2>4, <2>9 DEF Landing
<1>15. ASSUME NEW m \in placing, Placed(m) PROVE Landing'
  <2>1. m \in Message /\ {m} \cap ToSet(wire) = {} BY DEF Typed, ViewsTyped, Apart, Waiting, Kept
  <2>2. ToSet(Append(stored, m)) = ToSet(stored) \cup {m} BY <1>1, <2>1, Appended
  <2> QED BY <1>4, <1>15, <2>1, <2>2 DEF Placed, tape
<1>16. CASE PrepareFails \/ Delta \/ CallFails
  BY <1>5, <1>16 DEF PrepareFails, Delta, CallFails, tape
<1>17. CASE Finish BY <1>5, <1>17, FinishAppends DEF Finish, tape
<1>18. CASE Post \/ OpenWire \/ Abort \/ Leave \/ CallModel \/ SnapshotDue \/ Halt \/ Settle \/ Attach
  BY <1>5, <1>18 DEF Post, OpenWire, Abort, Leave, CallModel, SnapshotDue, Halt, Settle, Attach, tape
<1>19. CASE \/ \E replies \in BOOLEAN : BeginTurn(replies)
            \/ \E replies \in BOOLEAN : TakeSteers(replies)
            \/ \E left \in BOOLEAN : Detach(left)
  BY <1>5, <1>19 DEF BeginTurn, TakeSteers, Detach, tape
<1> QED
  BY <1>6, <1>7, <1>8, <1>9, <1>10, <1>11, <1>12, <1>13, <1>14, <1>15, <1>16, <1>17, <1>18, <1>19,
     TurnActions

(* The order stands when the transcript grows by what the wire does not    *)
(* have, or the wire by what the transcript does not.                      *)
LEMMA OrderStands ==
  ASSUME Ordered, UNCHANGED carried,
         \A i \in DOMAIN stored' : \/ i \in DOMAIN stored /\ stored'[i] = stored[i]
                                  \/ stored'[i] \notin ToSet(wire'),
         \A k \in DOMAIN wire' : \/ k \in DOMAIN wire /\ wire'[k] = wire[k]
                                \/ wire'[k] \notin ToSet(stored')
  PROVE  Ordered'
<1>1. \A k \in DOMAIN wire' : wire'[k] \in ToSet(wire') BY DEF ToSet
<1>2. \A i \in DOMAIN stored' : stored'[i] \in ToSet(stored') BY DEF ToSet
<1>3. ASSUME NEW i \in DOMAIN stored', NEW k \in DOMAIN wire', stored'[i] = wire'[k]
      PROVE  /\ i \in DOMAIN stored /\ stored'[i] = stored[i]
             /\ k \in DOMAIN wire /\ wire'[k] = wire[k]
  BY <1>1, <1>2, <1>3
<1>4. ASSUME NEW i \in DOMAIN stored', NEW j \in DOMAIN stored',
             NEW k \in DOMAIN wire', NEW l \in DOMAIN wire',
             carried < k, carried < l, stored'[i] = wire'[k], stored'[j] = wire'[l], i < j
      PROVE  k < l
  <2>1. i \in DOMAIN stored /\ j \in DOMAIN stored /\ k \in DOMAIN wire /\ l \in DOMAIN wire BY <1>3, <1>4
  <2>2. stored[i] = wire[k] /\ stored[j] = wire[l] BY <1>3, <1>4
  <2> QED BY <1>4, <2>1, <2>2 DEF Ordered
<1> QED BY <1>4 DEF Ordered

(* The transcript grows by what is not on the wire. *)
LEMMA OrderGrows ==
  ASSUME Typed, Ordered, UNCHANGED <<wire, carried>>, NEW more \in Seq(Message),
         stored' = stored \o more, ToSet(more) \cap ToSet(wire) = {}
  PROVE  Ordered'
<1>1. stored \in Seq(Message) BY DEF Typed, TapeTyped
<1>2. PICK all : all = stored \o more OBVIOUS
<1>3. DOMAIN more = 1..Len(more) /\ \A i \in DOMAIN more : more[i] \in ToSet(more)
  BY MessagesIn DEF ToSet
<1>4. \A i \in DOMAIN all : \/ i \in DOMAIN stored /\ all[i] = stored[i]
                            \/ i - Len(stored) \in DOMAIN more /\ all[i] = more[i - Len(stored)]
  BY <1>1, <1>2, Concatenated
<1>5. \A i \in DOMAIN all : \/ i \in DOMAIN stored /\ all[i] = stored[i]
                            \/ all[i] \notin ToSet(wire)
  BY <1>3, <1>4
<1> QED BY <1>2, <1>5, OrderStands

(* The wire grows by what is not in the transcript. *)
LEMMA OrderLonger ==
  ASSUME Typed, Ordered, UNCHANGED <<stored, carried>>, NEW m \in Message,
         wire' = Append(wire, m), m \notin ToSet(stored)
  PROVE  Ordered'
<1>1. wire \in Seq(Message) /\ Len(wire) \in Nat /\ DOMAIN wire = 1..Len(wire)
  BY MessagesIn DEF Typed, TapeTyped
<1>2. PICK w : w = wire' OBVIOUS
<1>3. /\ w \in Seq(Message) /\ Len(w) = Len(wire) + 1 /\ w[Len(wire) + 1] = m
      /\ \A k \in 1..Len(wire) : w[k] = wire[k]
  BY <1>1, <1>2, Appended
<1>4. DOMAIN w = 1..(Len(wire) + 1) BY <1>3, MessagesIn
<1>5. \A k \in DOMAIN w : \/ k \in DOMAIN wire /\ w[k] = wire[k]
                          \/ w[k] \notin ToSet(stored)
  BY <1>1, <1>3, <1>4
<1> QED BY <1>2, <1>5, OrderStands

(* Every step keeps the transcript in the order of the wire. *)
LEMMA NextOrdered ==
  ASSUME Typed, Phased, Single, Apart, Expected, Landing, Ordered, TurnNext PROVE Ordered'
<1>1. /\ taken \in Seq(Message) /\ wire \in Seq(Message) /\ stored \in Seq(Message)
      /\ Len(wire) \in Nat /\ DOMAIN wire = 1..Len(wire) /\ carried \in Nat
  BY MessagesIn DEF Typed, TapeTyped
<1>2. ASSUME UNCHANGED <<wire, stored, carried>> PROVE Ordered' BY <1>2 DEF Ordered
<1>3. CASE AppendOpening
  <2>1. ToSet(taken) \cap ToSet(wire) = {} BY DEF Apart, Waiting, Kept
  <2> QED BY <1>1, <1>3, <2>1, OrderGrows DEF AppendOpening, tape
<1>4. CASE ReadHistory
  <2>1. wire' = stored /\ carried' = Len(stored) /\ stored' = stored BY <1>4 DEF ReadHistory
  <2>2. PICK n \in Nat : n = Len(stored) /\ DOMAIN stored = 1..n BY <1>1, MessagesIn
  <2>3. \A k \in DOMAIN stored : ~ (n < k) BY <2>2
  <2> QED BY <2>1, <2>2, <2>3 DEF Ordered
<1>5. CASE Steered
  <2>1. PICK h \in Message : h = Head(taken) /\ h \in ToSet(taken)
    BY <1>1, <1>5, HeadAndTail DEF Steered
  <2>2. h \notin ToSet(stored) BY <2>1 DEF Apart, Waiting, Kept
  <2> QED BY <1>5, <2>1, <2>2, OrderLonger DEF Steered
<1>6. ASSUME NEW empty \in BOOLEAN, Reply(empty) PROVE Ordered'
  <2>1. calling \in Message /\ calling \notin ToSet(stored)
    BY <1>6, ReplyMessage DEF Reply, Expected, Kept
  <2>2. (wire' = wire \/ wire' = Append(wire, calling)) /\ UNCHANGED <<stored, carried>>
    BY <1>6 DEF Reply
  <2> QED BY <1>2, <2>1, <2>2, OrderLonger
<1>7. CASE RecordEntry
  <2>1. New \in Message /\ New \notin ToSet(stored)
    BY <1>7, NewMessage, NewNowhere DEF RecordEntry, Creates
  <2> QED BY <1>7, <2>1, OrderLonger DEF RecordEntry
<1>8. ASSUME NEW verdict \in {"continue", "capped", "halt"}, Result(verdict) PROVE Ordered'
  <2>1. ResultOf(calling) \in Message BY <1>8, ReplyMessage DEF Result
  <2>2. ResultOf(calling) \notin ToSet(stored) BY <1>8 DEF Result, Expected, Kept
  <2> QED BY <1>8, <2>1, <2>2, OrderLonger DEF Result
<1>9. CASE Place
  <2>1. New \in Message /\ New \notin ToSet(stored) BY <1>9, NewMessage, NewNowhere DEF Place, Creates
  <2>2. (wire' = wire \/ wire' = Append(wire, New)) /\ UNCHANGED <<stored, carried>> BY <1>9 DEF Place
  <2> QED BY <1>2, <2>1, <2>2, OrderLonger
<1>10. CASE Land
  <2>1. PICK cut : Cuts(cut) /\ LandedTo(cut[1]) BY DEF Landing
  <2>2. PICK batch, p, q, all :
          batch = Head(recorded) /\ p = cut[1] /\ q = cut[2] /\ all = stored \o batch
    OBVIOUS
  <2>3. /\ batch \in Seq(Message) /\ p \in Nat /\ q \in Nat /\ p <= q /\ q <= Len(wire)
        /\ Slice(batch, wire, p, q)
    BY <1>10, <2>1, <2>2, FirstBatch DEF Land
  <2>4. stored' = all /\ wire' = wire /\ carried' = carried BY <1>10, <2>2 DEF Land
  <2>5. \A i \in DOMAIN all :
          \/ i \in DOMAIN stored /\ i <= Len(stored) /\ all[i] = stored[i]
          \/ i > Len(stored) /\ i - Len(stored) \in DOMAIN batch /\ all[i] = batch[i - Len(stored)]
    BY <1>1, <2>2, <2>3, Concatenated
  <2>6. /\ DOMAIN batch = 1..(q - p)
        /\ \A i \in 1..(q - p) : batch[i] = wire[p + i] /\ p + i \in DOMAIN wire
    <3>1. wire \in Seq(Message) /\ batch \in Seq(Message) /\ p \in Nat /\ q \in Nat /\ p <= q
          /\ q <= Len(wire) /\ Slice(batch, wire, p, q)
      BY <1>1, <2>3
    <3> QED BY ONLY <3>1, SliceHas, SMTT(30)
  <2>7. PICK n \in Nat : n = Len(stored) BY <1>1, MessagesIn
  <2>8. \A i \in DOMAIN all : i \in Nat
    <3>1. all \in Seq(Message) BY <1>1, <2>2, <2>3, Concatenated
    <3> QED BY <3>1, MessagesIn
  <2>9. ASSUME NEW i \in DOMAIN stored, NEW k \in DOMAIN wire, stored[i] = wire[k] PROVE k <= p
    <3>1. wire[k] \in ToSet(stored) BY <2>9 DEF ToSet
    <3>2. ~ (k > p) BY <1>1, <2>1, <2>2, <3>1 DEF LandedTo
    <3> QED BY <1>1, <2>3, <3>2
  <2>10. ASSUME NEW i \in DOMAIN all, i > n, NEW k \in DOMAIN wire, all[i] = wire[k]
         PROVE  i - n \in 1..(q - p) /\ k = p + (i - n)
    <3>1. i - n \in DOMAIN batch /\ all[i] = batch[i - n]
      <4>1. ~ (i <= n) BY <2>7, <2>8, <2>10
      <4> QED BY <2>5, <2>7, <4>1
    <3>2. PICK d : d = i - n OBVIOUS
    <3>3. d \in 1..(q - p) /\ wire[p + d] = wire[k] /\ p + d \in DOMAIN wire
      BY <2>6, <2>10, <3>1, <3>2
    <3>4. p + d = k BY <3>3 DEF Single, Distinct
    <3> QED BY <3>2, <3>3, <3>4
  <2>11. ASSUME NEW i \in DOMAIN all, NEW j \in DOMAIN all, NEW k \in DOMAIN wire, NEW l \in DOMAIN wire,
                carried < k, carried < l, all[i] = wire[k], all[j] = wire[l], i < j
         PROVE  k < l
    <3>1. i \in Nat /\ j \in Nat /\ k \in Nat /\ l \in Nat BY <1>1, <2>8
    <3>2. CASE i > n
      <4>1. j > n BY <2>7, <2>11, <3>1, <3>2
      <4>2. k = p + (i - n) /\ l = p + (j - n) BY <2>10, <2>11, <3>2, <4>1
      <4> QED BY <2>3, <2>7, <2>11, <3>1, <4>2
    <3>3. CASE ~ (i > n)
      <4>1. i \in DOMAIN stored /\ all[i] = stored[i] BY <2>5, <2>7, <3>3
      <4>2. CASE j > n
        <5>1. k <= p BY <2>9, <2>11, <4>1
        <5>2. l = p + (j - n) BY <2>10, <2>11, <4>2
        <5> QED BY <2>3, <2>7, <3>1, <4>2, <5>1, <5>2
      <4>3. CASE ~ (j > n)
        <5>1. j \in DOMAIN stored /\ all[j] = stored[j] BY <2>5, <2>7, <4>3
        <5> QED BY <2>11, <4>1, <5>1 DEF Ordered
      <4> QED BY <4>2, <4>3
    <3> QED BY <3>2, <3>3
  <2> QED BY <2>4, <2>11 DEF Ordered
<1>11. ASSUME NEW m \in placing, Placed(m) PROVE Ordered'
  <2>1. m \in Message BY DEF Typed, ViewsTyped
  <2>2. stored' = stored \o <<m>> BY <1>1, <1>11, <2>1, AppendIsConcat DEF Placed
  <2>3. <<m>> \in Seq(Message) /\ ToSet(<<m>>) = {m} BY <2>1 DEF ToSet
  <2>4. m \notin ToSet(wire) BY DEF Apart, Waiting, Kept
  <2> QED BY <1>11, <2>2, <2>3, <2>4, OrderGrows DEF Placed, tape
<1>12. CASE Finish BY <1>2, <1>12, FinishAppends DEF Finish, tape
<1>13. CASE Post \/ PrepareFails \/ OpenWire \/ Abort \/ Leave \/ CallModel \/ Delta \/ CallFails
  BY <1>2, <1>13 DEF Post, PrepareFails, OpenWire, Abort, Leave, CallModel, Delta, CallFails, tape
<1>14. CASE SnapshotDue \/ Halt \/ Settle \/ Seal \/ LandFails \/ Attach
  BY <1>2, <1>14 DEF SnapshotDue, Halt, Settle, Seal, LandFails, Attach, tape
<1>15. CASE \/ \E replies \in BOOLEAN : BeginTurn(replies)
            \/ \E replies \in BOOLEAN : TakeSteers(replies)
            \/ \E left \in BOOLEAN : Detach(left)
  BY <1>2, <1>15 DEF BeginTurn, TakeSteers, Detach, tape
<1> QED
  BY <1>3, <1>4, <1>5, <1>6, <1>7, <1>8, <1>9, <1>10, <1>11, <1>12, <1>13, <1>14, <1>15, TurnActions

-----------------------------------------------------------------------------
(* Everyone who watches is shown the same.                                 *)

(* The wire of a turn that is not open, or is over, is stored or lost. *)
LEMMA WireLanded ==
  ASSUME Typed, Phased, Landing, at \in Quiet
  PROVE  ToSet(wire) \subseteq Safe
<1>1. PICK cut : Cuts(cut) /\ LandedTo(cut[1]) BY DEF Landing
<1>2. DOMAIN wire = 1..Len(wire) BY MessagesIn DEF Typed, TapeTyped
<1>3. recorded = <<>> /\ flushed = Len(wire) BY DEF Phased
<1>4. Len(recorded) = 0 BY <1>3, EmptySeq
<1>5. cut[1] = Len(wire)
  <2>1. cut[0 + 1] = flushed BY <1>1, <1>4 DEF Cuts
  <2> QED BY <1>3, <2>1
<1>6. Len(wire) \in Nat BY MessagesIn DEF Typed, TapeTyped
<1>7. \A k \in 1..Len(wire) : wire[k] \in Safe BY <1>1, <1>5, <1>6 DEF LandedTo, Safe
<1> QED BY <1>2, <1>7 DEF ToSet

(* Every step leaves those who watch with the same, of what there is. *)
LEMMA NextWatched ==
  ASSUME Typed, Phased, Single, Apart, Expected, Landing, Watched, Typed', TurnNext PROVE Watched'
<1>1. /\ mail \in Seq(Message) /\ taken \in Seq(Message) /\ wire \in Seq(Message)
      /\ stored \in Seq(Message) /\ recorded \in Seq(Seq(Message)) /\ Views /\ aborted \in BOOLEAN
      /\ wire' \in Seq(Message)
  BY DEF Typed, TapeTyped, ViewsTyped, Views, CountsTyped
<1>2. ToSet(<<>>) = {} BY DEF ToSet
<1>3. at \in Quiet => ToSet(wire) \subseteq Safe BY WireLanded
<1>4. /\ ToSet(mail) \subseteq Message /\ ToSet(taken) \subseteq Message /\ ToSet(wire) \subseteq Message
      /\ ToSet(wire') \subseteq Message
  <2>1. PICK w : w = wire' OBVIOUS
  <2> QED BY <1>1, <2>1, MessagesIn
<1>5. ASSUME UNCHANGED <<buffer, client>>, Safe \subseteq Safe',
             Safe \cup ToSet(wire) \cup ToSet(taken) \subseteq Safe' \cup ToSet(wire') \cup ToSet(taken'),
             Safe \cup ToSet(wire) \subseteq Safe' \cup ToSet(wire')
      PROVE  Watched'
  <2>1. Relayed' = Relayed BY <1>5 DEF Relayed
  <2> QED BY <1>5, <2>1 DEF Watched
<1>6. ASSUME Safe \subseteq Safe', ToSet(wire) \subseteq ToSet(wire'),
             ToSet(taken) \subseteq Safe' \cup ToSet(wire') \cup ToSet(taken'),
             NEW messages, messages = wire \/ messages = wire', Shows(messages)
      PROVE  Watched'
  <2>1. PICK w : w = messages OBVIOUS
  <2>2. ToSet(w) \subseteq ToSet(wire') /\ ToSet(w) \subseteq Message BY <1>4, <1>6, <2>1
  <2>3. /\ Views' /\ client'.on = client.on
        /\ buffer'.relayed = buffer.relayed /\ client'.relayed = client.relayed
        /\ aborted => UNCHANGED <<buffer, client>>
        /\ ~aborted => buffer'.full /\ buffer'.snapshot = ToSet(w)
        /\ client'.snapshot = IF ~aborted /\ client.on THEN ToSet(w) ELSE client.snapshot
    BY <1>1, <1>6, <2>1, <2>2, ShowsDoes
  <2>4. CASE aborted BY <1>5, <1>6, <2>3, <2>4
  <2>5. CASE ~aborted
    <3>1. Relayed' = Relayed BY <2>3 DEF Relayed
    <3> QED BY <1>6, <2>2, <2>3, <2>5, <3>1 DEF Watched
  <2> QED BY <2>4, <2>5
<1>7. ASSUME NEW m \in Message, wire' = Append(wire, m) PROVE ToSet(wire') = ToSet(wire) \cup {m}
  BY <1>7, WireLonger
<1>8. CASE Post \/ Abort \/ Leave \/ CallModel \/ Halt \/ Finish
  <2>1. UNCHANGED <<buffer, client, wire, stored, gone, taken>>
    BY <1>8, FinishAppends DEF Post, Abort, Leave, CallModel, Halt, Finish, tape
  <2> QED BY <1>5, <2>1 DEF Safe
<1>9. ASSUME NEW replies \in BOOLEAN, BeginTurn(replies) PROVE Watched'
  <2>1. taken = <<>> /\ at \in Quiet BY <1>9 DEF BeginTurn, Phased, Quiet
  <2>2. PICK h \in Message : h = Head(mail) BY <1>1, <1>9, HeadAndTail DEF BeginTurn
  <2>3. PICK r \in SUBSET {h} :
          /\ buffer' = [full |-> FALSE, snapshot |-> {}, relayed |-> r]
          /\ client'.on = client.on /\ client'.snapshot = client.snapshot
          /\ client'.relayed = IF client.on THEN client.relayed \cup r ELSE client.relayed
    BY <1>1, <1>9, <2>2, BeginDoes
  <2>4. taken' = <<h>> /\ UNCHANGED <<wire, stored, gone>> BY <1>9, <2>2 DEF BeginTurn, tape
  <2>5. ToSet(<<h>>) = {h} BY DEF ToSet
  <2>6. Safe' = Safe BY <2>4 DEF Safe
  <2>7. client.snapshot \subseteq Safe /\ Relayed \subseteq Safe BY <1>2, <1>3, <2>1 DEF Watched
  <2>8. /\ ~buffer'.full /\ buffer'.snapshot = {} /\ buffer'.relayed = r BY <2>3
  <2>9. client'.relayed \subseteq Safe \cup r BY <2>3, <2>7 DEF Relayed
  <2> QED BY <2>3, <2>4, <2>5, <2>6, <2>7, <2>8, <2>9 DEF Watched, Relayed
<1>10. CASE AppendOpening
  <2>1. UNCHANGED <<buffer, client, wire, gone>> /\ stored' = stored \o taken
    BY <1>10 DEF AppendOpening, tape
  <2>2. ToSet(stored \o taken) = ToSet(stored) \cup ToSet(taken) BY <1>1, Concatenated
  <2> QED BY <1>5, <2>1, <2>2 DEF Safe
<1>11. CASE PrepareFails
  <2>1. UNCHANGED <<buffer, client, wire, stored>> /\ gone' = gone \cup ToSet(taken)
    BY <1>11 DEF PrepareFails, tape
  <2> QED BY <1>5, <2>1 DEF Safe
<1>12. CASE ReadHistory
  <2>1. UNCHANGED <<buffer, client, taken, stored, gone>> /\ at \in Quiet
    BY <1>12 DEF ReadHistory, Quiet
  <2> QED BY <1>3, <1>5, <2>1 DEF Safe
<1>13. CASE OpenWire \/ SnapshotDue
  BY <1>6, <1>13 DEF OpenWire, SnapshotDue, tape, Safe
<1>14. ASSUME NEW replies \in BOOLEAN, TakeSteers(replies) PROVE Watched'
  <2>1. UNCHANGED <<wire, stored, gone>> /\ taken = <<>> BY <1>14 DEF TakeSteers, tape, Phased
  <2>2. CASE UNCHANGED <<buffer, client>> BY <1>2, <1>5, <2>1, <2>2 DEF Safe
  <2>3. CASE Relays(ToSet(mail)) /\ taken' = mail
    <3>1. /\ client'.on = client.on /\ buffer'.full = buffer.full
          /\ buffer'.snapshot = buffer.snapshot /\ client'.snapshot = client.snapshot
          /\ buffer'.relayed = buffer.relayed \cup ToSet(mail)
          /\ client'.relayed = IF client.on THEN client.relayed \cup ToSet(mail) ELSE client.relayed
      BY <1>1, <1>4, <2>3, RelaysDoes
    <3>2. Safe' = Safe BY <2>1 DEF Safe
    <3> QED BY <1>2, <2>1, <2>3, <3>1, <3>2 DEF Watched, Relayed
  <2>4. UNCHANGED <<buffer, client>> \/ (Relays(ToSet(mail)) /\ taken' = mail) BY <1>14 DEF TakeSteers
  <2> QED BY <2>2, <2>3, <2>4
<1>15. CASE Steered
  <2>1. PICK h, t : h = Head(taken) /\ t = Tail(taken) OBVIOUS
  <2>2. h \in Message /\ ToSet(taken) = {h} \cup ToSet(t) BY <1>1, <1>15, <2>1, HeadAndTail DEF Steered
  <2>3. wire' = Append(wire, h) /\ Shows(wire') /\ UNCHANGED stored BY <1>15, <2>1 DEF Steered
  <2>4. ToSet(wire') = ToSet(wire) \cup {h} BY <1>7, <2>2, <2>3
  <2>5. \/ taken' = t /\ gone' = gone
        \/ gone' = gone \cup ToSet(t)
    BY <1>15, <2>1 DEF Steered
  <2>6. Safe \subseteq Safe' /\ ToSet(t) \subseteq Safe' \cup ToSet(taken') BY <2>3, <2>5 DEF Safe
  <2> QED BY <1>6, <2>2, <2>3, <2>4, <2>6
<1>16. CASE Delta
  <2>1. calling \in Message BY <1>16, ReplyMessage DEF Delta
  <2>2. /\ client'.on = client.on /\ buffer'.full = buffer.full
        /\ buffer'.relayed = buffer.relayed /\ client'.relayed = client.relayed
        /\ aborted => UNCHANGED <<buffer, client>>
        /\ ~aborted => buffer'.snapshot = buffer.snapshot \cup {calling}
        /\ client'.snapshot = IF ~aborted /\ client.on THEN client.snapshot \cup {calling}
                              ELSE client.snapshot
    BY <1>1, <1>16, <2>1, DeltaDoes
  <2>3. UNCHANGED <<wire, stored, taken>> /\ gone' = gone \cup {calling} BY <1>16 DEF Delta, tape
  <2>4. Safe' = Safe \cup {calling} BY <2>3 DEF Safe
  <2>5. CASE aborted BY <1>5, <2>2, <2>3, <2>4, <2>5
  <2>6. CASE ~aborted
    <3>1. buffer.full BY <1>16 DEF Delta, Phased, Quiet
    <3>2. Relayed' = Relayed BY <2>2 DEF Relayed
    <3> QED BY <2>2, <2>3, <2>4, <2>6, <3>1, <3>2 DEF Watched
  <2> QED BY <2>5, <2>6
<1>17. ASSUME NEW empty \in BOOLEAN, Reply(empty) PROVE Watched'
  <2>1. at = "calling" /\ UNCHANGED <<buffer, client, stored, taken>> BY <1>17 DEF Reply
  <2>2. CASE empty
    <3>1. wire' = wire /\ gone' = gone \cup {calling} BY <1>17, <2>2 DEF Reply
    <3> QED BY <1>5, <2>1, <3>1 DEF Safe
  <2>3. CASE ~empty
    <3>1. wire' = Append(wire, calling) /\ gone' = gone \ {calling} BY <1>17, <2>3 DEF Reply
    <3>2. calling \in Message BY <2>1, ReplyMessage
    <3>3. ToSet(wire') = ToSet(wire) \cup {calling} BY <1>7, <3>1, <3>2
    <3>4. buffer.full /\ calling \notin Relayed BY <2>1 DEF Phased, Quiet, Expected
    <3>5. Safe \ {calling} \subseteq Safe' BY <2>1, <3>1 DEF Safe
    <3>6. Relayed' = Relayed BY <2>1 DEF Relayed
    <3>7. client.relayed \subseteq Safe' \cup buffer.relayed BY <3>4, <3>5 DEF Watched, Relayed
    <3>8. Safe \cup ToSet(wire) \subseteq Safe' \cup ToSet(wire') BY <3>3, <3>5
    <3> QED BY <2>1, <3>4, <3>6, <3>7, <3>8 DEF Watched
  <2> QED BY <2>2, <2>3
<1>18. CASE CallFails
  <2>1. UNCHANGED <<buffer, client, wire, stored, taken>> /\ gone' = gone \cup {calling}
    BY <1>18 DEF CallFails, tape
  <2> QED BY <1>5, <2>1 DEF Safe
<1>19. CASE RecordEntry
  <2>1. /\ UNCHANGED <<buffer, client, stored, taken, gone>> /\ wire' = Append(wire, New)
        /\ next < MaxMessages
    BY <1>19 DEF RecordEntry, Creates
  <2>2. ToSet(wire') = ToSet(wire) \cup {New} BY <1>7, <2>1, NewMessage
  <2> QED BY <1>5, <2>1, <2>2 DEF Safe
<1>20. ASSUME NEW verdict \in {"continue", "capped", "halt"}, Result(verdict) PROVE Watched'
  <2>1. ResultOf(calling) \in Message BY <1>20, ReplyMessage DEF Result
  <2>2. wire' = Append(wire, ResultOf(calling)) /\ Shows(wire') /\ UNCHANGED <<stored, gone, taken>>
    BY <1>20 DEF Result
  <2>3. ToSet(wire') = ToSet(wire) \cup {ResultOf(calling)} BY <1>7, <2>1, <2>2
  <2> QED BY <1>6, <2>2, <2>3 DEF Safe
<1>21. CASE Settle \/ Seal
  <2>1. UNCHANGED <<wire, stored, gone, taken>> /\ (UNCHANGED <<buffer, client>> \/ Shows(wire))
    BY <1>21 DEF Settle, Seal
  <2> QED BY <1>5, <1>6, <2>1 DEF Safe
<1>22. CASE Land
  <2>1. Head(recorded) \in Seq(Message) BY <1>1, <1>22, HeadAndTail DEF Land
  <2>2. UNCHANGED <<buffer, client, wire, gone, taken>> /\ stored' = stored \o Head(recorded)
    BY <1>22 DEF Land
  <2>3. ToSet(stored \o Head(recorded)) = ToSet(stored) \cup ToSet(Head(recorded))
    BY <1>1, <2>1, Concatenated
  <2> QED BY <1>5, <2>2, <2>3 DEF Safe
<1>23. CASE LandFails
  <2>1. /\ UNCHANGED <<buffer, client, wire, stored, taken>>
        /\ gone' = gone \cup ToSet(Head(recorded))
    BY <1>23 DEF LandFails
  <2> QED BY <1>5, <2>1 DEF Safe
<1>24. CASE Place
  <2>1. next < MaxMessages /\ UNCHANGED <<stored, gone, taken>> BY <1>24 DEF Place, Creates
  <2>2. CASE at \in Underway \cup {"ending"}
    <3>1. wire' = Append(wire, New) /\ Shows(wire') BY <1>24, <2>2 DEF Place
    <3>2. ToSet(wire') = ToSet(wire) \cup {New} BY <1>7, <2>1, <3>1, NewMessage
    <3> QED BY <1>6, <2>1, <3>1, <3>2 DEF Safe
  <2>3. CASE at \notin Underway \cup {"ending"}
    <3>1. UNCHANGED <<wire, buffer, client>> BY <1>24, <2>3 DEF Place
    <3> QED BY <1>5, <2>1, <3>1 DEF Safe
  <2> QED BY <2>2, <2>3
<1>25. ASSUME NEW m \in placing, Placed(m) PROVE Watched'
  <2>1. m \in Message /\ {m} \in SUBSET Message BY DEF Typed, ViewsTyped
  <2>2. /\ client'.on = client.on /\ buffer'.full = buffer.full
        /\ buffer'.snapshot = buffer.snapshot /\ client'.snapshot = client.snapshot
        /\ buffer'.relayed = buffer.relayed \cup {m}
        /\ client'.relayed = IF client.on THEN client.relayed \cup {m} ELSE client.relayed
    BY <1>1, <1>25, <2>1, RelaysDoes DEF Placed
  <2>3. UNCHANGED <<wire, gone, taken>> /\ stored' = Append(stored, m) BY <1>25 DEF Placed, tape
  <2>4. ToSet(Append(stored, m)) = ToSet(stored) \cup {m} BY <1>1, <2>1, Appended
  <2>5. Safe' = Safe \cup {m} BY <2>3, <2>4 DEF Safe
  <2> QED BY <2>2, <2>3, <2>5 DEF Watched, Relayed
<1>26. CASE Attach
  <2>1. /\ buffer' = buffer /\ client'.on
        /\ client'.snapshot = IF buffer.full THEN buffer.snapshot ELSE client.snapshot
        /\ client'.relayed = client.relayed \cup buffer.relayed
    BY <1>1, <1>26, AttachDoes
  <2>2. UNCHANGED <<wire, stored, gone, taken>> BY <1>26 DEF Attach, tape
  <2>3. Safe' = Safe /\ Relayed' = Relayed BY <2>1, <2>2 DEF Safe, Relayed
  <2> QED BY <2>1, <2>2, <2>3 DEF Watched
<1>27. ASSUME NEW left \in BOOLEAN, Detach(left) PROVE Watched'
  <2>1. /\ buffer' = buffer /\ ~client'.on
        /\ client'.snapshot \in {client.snapshot, {}} /\ client'.relayed \in {client.relayed, {}}
    BY <1>1, <1>27, DetachDoes
  <2>2. UNCHANGED <<wire, stored, gone, taken>> BY <1>27 DEF Detach, tape
  <2>3. Safe' = Safe /\ Relayed' \subseteq Relayed BY <2>1, <2>2 DEF Safe, Relayed
  <2> QED BY <2>1, <2>2, <2>3 DEF Watched
<1> QED
  BY <1>8, <1>9, <1>10, <1>11, <1>12, <1>13, <1>14, <1>15, <1>16, <1>17, <1>18, <1>19, <1>20, <1>21,
     <1>22, <1>23, <1>24, <1>25, <1>26, <1>27, TurnActions

-----------------------------------------------------------------------------
(* What is so at every moment.                                             *)

(* All of it together is kept by every step. *)
LEMMA TurnInductive == TurnInv /\ [TurnNext]_turnVars => TurnInv'
<1> SUFFICES ASSUME TurnInv, [TurnNext]_turnVars PROVE TurnInv' OBVIOUS
<1>1. Typed /\ Phased /\ Single /\ Apart /\ Expected /\ Landing /\ Ordered /\ Watched BY DEF TurnInv
<1>2. CASE TurnNext
  <2>1. Typed' BY <1>1, <1>2, NextTyped
  <2>2. Phased' BY <1>1, <1>2, <2>1, NextPhased
  <2>3. Single' /\ Apart' BY <1>1, <1>2, <2>1, NextApart
  <2>4. Expected' BY <1>1, <1>2, <2>1, NextExpected
  <2>5. Landing' BY <1>1, <1>2, <2>1, NextLanding
  <2>6. Ordered' BY <1>1, <1>2, NextOrdered
  <2>7. Watched' BY <1>1, <1>2, <2>1, NextWatched
  <2> QED BY <2>1, <2>2, <2>3, <2>4, <2>5, <2>6, <2>7 DEF TurnInv
<1>3. CASE UNCHANGED turnVars
  <2>1. Typed' BY <1>1, <1>3 DEF turnVars, Typed, CountsTyped, TapeTyped, ViewsTyped
  <2>2. Phased' BY <1>1, <1>3 DEF turnVars, Phased
  <2>3. Single' /\ Apart' /\ Expected'
    BY <1>1, <1>3 DEF turnVars, Single, Apart, Expected, Waiting, Kept, Relayed, Numbered
  <2>4. Landing' BY <1>1, <1>3 DEF turnVars, Landing, Cuts, LandedTo
  <2>5. Ordered' BY <1>1, <1>3 DEF turnVars, Ordered
  <2>6. Watched' BY <1>1, <1>3 DEF turnVars, Watched, Safe, Relayed
  <2> QED BY <2>1, <2>2, <2>3, <2>4, <2>5, <2>6 DEF TurnInv
<1> QED BY <1>2, <1>3

(* So it is always so. *)
LEMMA TurnAlways == TurnSpec => []TurnInv
  BY TurnInitially, TurnInductive, PTL DEF TurnSpec

(* The parts of a turn stay what they are: a turn makes no more steps than *)
(* its cap, or one, and no more of the wire is flushed than there is.      *)
THEOREM TurnTypes == TurnSpec => []TurnTypeOK
<1>1. TurnInv => TurnTypeOK
  <2> SUFFICES ASSUME TurnInv PROVE TurnTypeOK OBVIOUS
  <2>1. Typed BY DEF TurnInv
  <2>2. CountsTyped /\ TapeTyped /\ ViewsTyped BY <2>1 DEF Typed
  <2>3. Len(wire) \in Nat BY <2>2, MessagesIn DEF TapeTyped
  <2>4. carried \in 0..flushed /\ flushed \in 0..Len(wire) BY <2>2, <2>3 DEF TapeTyped
  <2>5. {aborted, pending} \subseteq BOOLEAN BY <2>2 DEF CountsTyped
  <2>6. {placing, unheard, gone} \subseteq SUBSET Message BY <2>2 DEF ViewsTyped
  <2>7. {mail, taken, wire, stored} \subseteq Seq(Message) BY <2>2 DEF TapeTyped
  <2> QED BY <2>2, <2>4, <2>5, <2>6, <2>7 DEF CountsTyped, TapeTyped, ViewsTyped, TurnTypeOK
<1> QED BY <1>1, TurnAlways, PTL

(* The transcript has each message once, those of a turn in the order of   *)
(* its wire, and all of them when it is settled, but for those of a batch  *)
(* that could not be appended.                                             *)
THEOREM TranscriptInOrder == TurnSpec => []StoredInOrder
<1>1. TurnInv => StoredInOrder
  <2> SUFFICES ASSUME TurnInv PROVE StoredInOrder OBVIOUS
  <2>1. Typed /\ Phased /\ Single /\ Landing /\ Ordered BY DEF TurnInv
  <2>2. /\ wire \in Seq(Message) /\ carried \in Nat /\ Len(wire) \in Nat /\ carried <= Len(wire)
        /\ DOMAIN wire = 1..Len(wire)
    BY <2>1, MessagesIn DEF Typed, TapeTyped
  <2>3. Produced \in Seq(Message) /\ Slice(Produced, wire, carried, Len(wire))
    BY <2>2, RestOf DEF Produced
  <2>4. PICK made \in Seq(Message), n \in Nat : made = Produced /\ n = Len(wire) BY <2>2, <2>3
  <2>5. /\ DOMAIN made = 1..(n - carried) /\ ToSet(made) \subseteq ToSet(wire)
        /\ \A k \in 1..(n - carried) : made[k] = wire[carried + k] /\ carried + k \in DOMAIN wire
    <3>1. Slice(made, wire, carried, n) /\ carried <= n /\ n <= Len(wire) BY <2>2, <2>3, <2>4
    <3> QED BY <2>2, <3>1, SliceHas, SMTT(30)
  <2>6. \A i \in DOMAIN stored : i \in Nat
    <3>1. stored \in Seq(Message) BY <2>1 DEF Typed, TapeTyped
    <3> QED BY <3>1, MessagesIn
  <2>7. ASSUME NEW i \in DOMAIN stored, NEW j \in DOMAIN stored, NEW k \in DOMAIN made,
               NEW l \in DOMAIN made, stored[i] = made[k], stored[j] = made[l]
        PROVE  i < j => k < l
    <3>1. PICK a \in DOMAIN wire, b \in DOMAIN wire : a = carried + k /\ b = carried + l BY <2>5
    <3>2. stored[i] = wire[a] /\ stored[j] = wire[b] BY <2>5, <2>7, <3>1
    <3>3. k \in Nat /\ l \in Nat /\ k # 0 /\ l # 0 BY <2>5
    <3>4. carried < a /\ carried < b BY <2>2, <3>1, <3>3
    <3>5. i < j => a < b BY <2>1, <3>2, <3>4 DEF Ordered
    <3> QED BY <2>2, <3>1, <3>3, <3>5
  <2>8. ASSUME NEW i \in DOMAIN stored, NEW j \in DOMAIN stored, NEW k \in DOMAIN made,
               NEW l \in DOMAIN made, stored[i] = made[k], stored[j] = made[l], k < l
        PROVE  i < j
    <3>1. k \in Nat /\ l \in Nat BY <2>5
    <3>2. i # j
      <4> SUFFICES ASSUME i = j PROVE FALSE OBVIOUS
      <4>1. carried + k \in DOMAIN wire /\ carried + l \in DOMAIN wire /\ wire[carried + k] = wire[carried + l]
        BY <2>5, <2>8
      <4>2. carried + k = carried + l BY <2>1, <4>1 DEF Single, Distinct
      <4> QED BY <2>2, <2>8, <3>1, <4>2
    <3>3. ~ (j < i) BY <2>7, <2>8, <3>1
    <3> QED BY <2>6, <3>2, <3>3
  <2>9. at = "rest" => ToSet(Produced) \subseteq ToSet(stored) \cup gone
    BY <2>1, <2>4, <2>5, WireLanded DEF Quiet, Safe
  <2>10. \A i, j \in DOMAIN stored : stored[i] = stored[j] => i = j BY <2>1 DEF Single, Distinct
  <2> QED BY <2>4, <2>7, <2>8, <2>9, <2>10 DEF StoredInOrder
<1> QED BY <1>1, TurnAlways, PTL

(* Whoever watches is shown what a new watcher would be, and when the turn *)
(* is settled nothing that is not stored, but for what was cut off.        *)
THEOREM WatchersShownTheSame == TurnSpec => []WatchersAgree
<1>1. TurnInv => WatchersAgree
  <2> SUFFICES ASSUME TurnInv PROVE WatchersAgree OBVIOUS
  <2>1. Typed /\ Phased /\ Landing /\ Watched BY DEF TurnInv
  <2>2. Views BY <2>1 DEF Typed, ViewsTyped, Views
  <2>3. ASSUME client.on PROVE Shown(client) \ gone = Shown(buffer) \ gone
    <3>1. CASE buffer.full
      BY <2>1, <2>3, <3>1 DEF Watched, Shown, Live, Safe
    <3>2. CASE ~buffer.full
      BY <2>1, <2>3, <3>2 DEF Watched, Shown, Live, Safe
    <3> QED BY <3>1, <3>2
  <2>4. ASSUME at = "rest" PROVE Shown(client) \subseteq ToSet(stored) \cup gone
    <3>1. ToSet(wire) \subseteq Safe BY <2>1, <2>4, WireLanded DEF Quiet
    <3>2. taken = <<>> /\ ToSet(<<>>) = {} BY <2>1, <2>4 DEF Phased, ToSet
    <3> QED BY <2>1, <3>1, <3>2 DEF Watched, Shown, Live, Safe, Relayed
  <2> QED BY <2>3, <2>4 DEF WatchersAgree
<1> QED BY <1>1, TurnAlways, PTL

(* A turn that took messages when it was to settle makes another step with *)
(* them, if there is one left: settle() is the one way from there to the   *)
(* end that no stop has to do with.                                        *)
THEOREM TakenAreHeard == TurnSpec => SteersAreHeard
<1>1. ASSUME [TurnNext]_turnVars
      PROVE  [at = "deciding" /\ at' = "ending" /\ ~aborted /\ steps < MaxSteps => unheard = {}]_turnVars
  <2> SUFFICES ASSUME TurnNext, at = "deciding", at' = "ending", ~aborted, steps < MaxSteps
               PROVE  unheard = {}
    BY <1>1
  <2>1. CASE Settle BY <2>1 DEF Settle
  <2>2. CASE Steered BY <2>2 DEF Steered, GoOn
  <2>3. CASE Post \/ Abort \/ RecordEntry \/ SnapshotDue \/ Land \/ LandFails \/ Place \/ Attach
    BY <2>3 DEF Post, Abort, RecordEntry, SnapshotDue, Land, LandFails, Place, Attach, loop
  <2>4. CASE (\E m \in placing : Placed(m)) \/ \E left \in BOOLEAN : Detach(left)
    BY <2>4 DEF Placed, Detach, loop
  <2>5. CASE \/ AppendOpening \/ PrepareFails \/ ReadHistory \/ OpenWire \/ Leave \/ CallModel \/ Delta
             \/ CallFails \/ Halt \/ Seal \/ Finish
    BY <2>5 DEF AppendOpening, PrepareFails, ReadHistory, OpenWire, Leave, CallModel, Delta, CallFails,
                Halt, Seal, Finish
  <2>6. CASE \/ \E replies \in BOOLEAN : BeginTurn(replies)
             \/ \E replies \in BOOLEAN : TakeSteers(replies)
             \/ \E empty \in BOOLEAN : Reply(empty)
             \/ \E verdict \in {"continue", "capped", "halt"} : Result(verdict)
    BY <2>6 DEF BeginTurn, TakeSteers, Reply, Result
  <2> QED BY <2>1, <2>2, <2>3, <2>4, <2>5, <2>6, TurnActions
<1> QED BY <1>1, PTL DEF TurnSpec, SteersAreHeard
=============================================================================
