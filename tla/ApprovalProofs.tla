--------------------------- MODULE ApprovalProofs ---------------------------
(***************************************************************************)
(* Proofs about steps held for the user's approval (HeldSteps), about what *)
(* rules decide (PermissionRules) and about changes of the rules           *)
(* (PermissionsConfig).                                                    *)
(***************************************************************************)
EXTENDS HeldSteps, PermissionsConfig, SequenceTheorems, FiniteSetTheorems, WellFoundedInduction,
        TLAPS

-----------------------------------------------------------------------------
(* Numbers, sequences and what is picked of them.                          *)

(* A set of natural numbers that is not empty has a least element. *)
LEMMA LeastNatural ==
  ASSUME NEW S, S \subseteq Nat, S # {}
  PROVE  \E n \in S : \A m \in S : n <= m
<1>1. PICK n \in S : \A m \in S : ~ (<<m, n>> \in OpToRel(<, Nat))
  BY NatLessThanWellFounded, WFMin
<1>2. ASSUME NEW m \in S PROVE n <= m
  <2>1. ~ (m < n) BY <1>1 DEF OpToRel
  <2> QED BY <2>1
<1> QED BY <1>2

(* Induction over the numbers up to a length, for a set of numbers. *)
LEMMA NaturalInduction ==
  ASSUME NEW Good, 0 \in Good, \A n \in Nat : n \in Good => n + 1 \in Good
  PROVE  \A n \in Nat : n \in Good
<1> SUFFICES ASSUME NEW bad \in Nat, bad \notin Good PROVE FALSE OBVIOUS
<1> DEFINE Bad == {n \in Nat : n \notin Good}
<1>1. PICK n \in Bad : \A m \in Bad : n <= m
  <2>1. Bad \subseteq Nat /\ Bad # {} OBVIOUS
  <2> HIDE DEF Bad
  <2> QED BY <2>1, LeastNatural
<1>2. n \in Nat /\ n \notin Good OBVIOUS
<1>3. n # 0 BY <1>2
<1>4. n - 1 \in Nat /\ (n - 1) + 1 = n BY <1>2, <1>3
<1>5. n - 1 \in Good
  <2> SUFFICES ASSUME n - 1 \notin Good PROVE FALSE OBVIOUS
  <2>1. n - 1 \in Bad BY <1>4
  <2>2. n <= n - 1 BY <1>1, <2>1
  <2> QED BY <1>2, <2>2
<1> QED BY <1>2, <1>4, <1>5

(* Array.filter(): the places of a sequence are gone through in some order, *)
(* each once.                                                              *)
LEMMA PickedPlaces ==
  ASSUME NEW n \in Nat, NEW places, places \subseteq 1..n
  PROVE  /\ Cardinality(places) \in Nat
         /\ \E nth \in [1..Cardinality(places) -> places] :
              /\ \A seq : Picked(seq, places) = [k \in 1..Cardinality(places) |-> seq[nth[k]]]
              /\ \A k, l \in 1..Cardinality(places) : nth[k] = nth[l] => k = l
              /\ \A i \in places : \E k \in 1..Cardinality(places) : nth[k] = i
<1> DEFINE Upto(i) == {j \in places : j <= i}
           rank == [i \in places |-> Cardinality(Upto(i))]
           c == Cardinality(places)
<1>1. IsFiniteSet(places) /\ c \in Nat
  <2>1. IsFiniteSet(1..n) BY FS_Interval
  <2>2. IsFiniteSet(places) BY <2>1, FS_Subset
  <2> QED BY <2>2, FS_CardinalityType
<1>2. \A i \in places : i \in Nat OBVIOUS
<1>3. ASSUME NEW i \in places PROVE Cardinality(Upto(i)) \in 1..c /\ IsFiniteSet(Upto(i))
  <2>1. Upto(i) \in SUBSET places /\ i \in Upto(i) BY <1>2
  <2>2. IsFiniteSet(Upto(i)) /\ Cardinality(Upto(i)) <= c BY <1>1, <2>1, FS_Subset
  <2>3. Cardinality(Upto(i)) \in Nat /\ Cardinality(Upto(i)) # 0
    BY <2>1, <2>2, FS_CardinalityType, FS_EmptySet
  <2> QED BY <1>1, <2>2, <2>3
<1>4. ASSUME NEW i \in places, NEW j \in places, i < j, Cardinality(Upto(i)) = Cardinality(Upto(j))
      PROVE  FALSE
  <2>1. Upto(i) \in SUBSET Upto(j)
    <3>1. \A m \in places : m <= i => m <= j BY <1>2, <1>4
    <3> QED BY <3>1
  <2>2. Upto(i) = Upto(j) BY <1>3, <1>4, <2>1, FS_Subset
  <2>3. j \in Upto(j) /\ j \notin Upto(i) BY <1>2, <1>4
  <2> QED BY <2>2, <2>3
<1>5. rank \in Injection(places, 1..c)
  <2>1. rank \in [places -> 1..c] BY <1>3
  <2>2. ASSUME NEW i \in places, NEW j \in places, rank[i] = rank[j] PROVE i = j
    <3>1. Cardinality(Upto(i)) = Cardinality(Upto(j)) BY <2>2
    <3>2. ~ (i < j) /\ ~ (j < i)
      <4> HIDE DEF Upto
      <4> QED BY <1>4, <3>1
    <3> QED BY <1>2, <3>2
  <2> HIDE DEF rank
  <2> QED BY <2>1, <2>2 DEF Injection, IsInjective
<1>6. rank \in Surjection(places, 1..c)
  <2>1. IsFiniteSet(1..c) /\ Cardinality(1..c) = c BY <1>1, FS_Interval
  <2> HIDE DEF rank, c
  <2>2. Cardinality(places) = Cardinality(1..c) BY <2>1 DEF c
  <2> QED BY <1>5, <2>1, <2>2, FS_Injection
<1>7. \A k \in 1..c : \E i \in places : Cardinality(Upto(i)) = k
  <2>1. \A k \in 1..c : \E i \in places : rank[i] = k BY <1>6 DEF Surjection
  <2> QED BY <2>1
<1> DEFINE at(k) == CHOOSE i \in places : Cardinality({j \in places : j <= i}) = k
           nth == [k \in 1..c |-> at(k)]
<1>8. ASSUME NEW k \in 1..c PROVE at(k) \in places /\ Cardinality(Upto(at(k))) = k
  <2>1. \E i \in places : Cardinality({j \in places : j <= i}) = k BY <1>7
  <2>2. at(k) \in places /\ Cardinality({j \in places : j <= at(k)}) = k
    BY <2>1
  <2> QED BY <2>2
<1>9. nth \in [1..c -> places]
  <2> HIDE DEF at
  <2> QED BY <1>8
<1>10. \A seq : Picked(seq, places) = [k \in 1..c |-> seq[nth[k]]]
  <2>1. \A seq : Picked(seq, places) = [k \in 1..c |-> seq[at(k)]] BY DEF Picked
  <2>2. \A k \in 1..c : nth[k] = at(k) OBVIOUS
  <2> HIDE DEF at, nth, c
  <2> QED BY <2>1, <2>2
<1>11. \A k, l \in 1..c : nth[k] = nth[l] => k = l
  <2>1. \A k \in 1..c : nth[k] = at(k) OBVIOUS
  <2> HIDE DEF at, nth, c, Upto
  <2> QED BY <1>8, <2>1
<1>12. ASSUME NEW i \in places PROVE \E k \in 1..c : nth[k] = i
  <2>1. PICK k : k = Cardinality(Upto(i)) OBVIOUS
  <2>2. k \in 1..c BY <1>3, <2>1
  <2>3. nth[k] \in places /\ Cardinality(Upto(nth[k])) = k
    <3>1. nth[k] = at(k) BY <2>2
    <3> HIDE DEF at, nth, c, Upto
    <3> QED BY <1>8, <2>2, <3>1
  <2>4. rank[i] = rank[nth[k]] BY <2>1, <2>3
  <2>5. i = nth[k]
    <3> HIDE DEF rank, nth, c, at, Upto
    <3> QED BY <2>3, <2>4, <1>5 DEF Injection, IsInjective
  <2> QED BY <2>2, <2>5
<1> HIDE DEF nth
<1> QED BY <1>1, <1>9, <1>10, <1>11, <1>12

(* The places of a sequence that what is picked of it was at. *)
Picks(seq, places, picked, nth) ==
  /\ nth \in [DOMAIN picked -> places]
  /\ \A k \in DOMAIN picked : picked[k] = seq[nth[k]]
  /\ \A k, l \in DOMAIN picked : nth[k] = nth[l] => k = l
  /\ \A i \in places : \E k \in DOMAIN picked : nth[k] = i

(* What is picked of a sequence is a sequence of its entries, of distinct  *)
(* places; every place that is picked is among them.                       *)
LEMMA PickedEntries ==
  ASSUME NEW V, NEW seq \in Seq(V), NEW places, places \subseteq DOMAIN seq
  PROVE  /\ Picked(seq, places) \in Seq(V)
         /\ Picked(seq, places) = <<>> => places = {}
         /\ \E nth : Picks(seq, places, Picked(seq, places), nth)
<1>1. Len(seq) \in Nat /\ DOMAIN seq = 1..Len(seq) /\ \A i \in DOMAIN seq : seq[i] \in V
  BY LenProperties, ElementOfSeq
<1>2. PICK c : c = Cardinality(places) OBVIOUS
<1>3. c \in Nat BY <1>1, <1>2, PickedPlaces
<1>4. PICK nth \in [1..c -> places] :
              /\ \A s : Picked(s, places) = [k \in 1..c |-> s[nth[k]]]
              /\ \A k, l \in 1..c : nth[k] = nth[l] => k = l
              /\ \A i \in places : \E k \in 1..c : nth[k] = i
  BY <1>1, <1>2, PickedPlaces
<1>5. PICK picked : picked = Picked(seq, places) OBVIOUS
<1>6. picked = [k \in 1..c |-> seq[nth[k]]] BY <1>4, <1>5
<1>7. \A k \in 1..c : seq[nth[k]] \in V BY <1>1, <1>4
<1>8. picked \in Seq(V) /\ DOMAIN picked = 1..c
  <2>1. picked \in [1..c -> V] BY <1>6, <1>7
  <2> QED BY <1>3, <1>6, <2>1, SeqDef
<1>9. picked = <<>> => places = {}
  <2> SUFFICES ASSUME picked = <<>> PROVE places = {} OBVIOUS
  <2>1. 1..c = {} BY <1>8
  <2> QED BY <1>4, <2>1
<1>10. \A k \in DOMAIN picked : picked[k] = seq[nth[k]] BY <1>6, <1>8
<1>11. nth \in [DOMAIN picked -> places] BY <1>4, <1>8
<1>12. Picks(seq, places, picked, nth) BY <1>4, <1>8, <1>10, <1>11 DEF Picks
<1>13. \E f : Picks(seq, places, picked, f) BY <1>12
<1> QED BY <1>5, <1>8, <1>9, <1>13

-----------------------------------------------------------------------------
(* What is in a sequence, and that nothing is in it twice. *)
In(seq) == {seq[i] : i \in DOMAIN seq}
Distinct(seq) == \A i, j \in DOMAIN seq : seq[i] = seq[j] => i = j

(* Two sequences without repeats that have nothing in common: one after    *)
(* the other has none either.                                              *)
LEMMA ConcatDistinct ==
  ASSUME NEW V, NEW s \in Seq(V), NEW t \in Seq(V)
  PROVE  /\ s \o t \in Seq(V) /\ In(s \o t) = In(s) \cup In(t)
         /\ Distinct(s) /\ Distinct(t) /\ In(s) \cap In(t) = {} => Distinct(s \o t)
<1>1. /\ Len(s) \in Nat /\ Len(t) \in Nat /\ DOMAIN s = 1..Len(s) /\ DOMAIN t = 1..Len(t)
  BY LenProperties
<1>2. PICK u : u = s \o t OBVIOUS
<1>3. /\ u \in Seq(V) /\ Len(u) = Len(s) + Len(t) /\ DOMAIN u = 1..(Len(s) + Len(t))
      /\ \A i \in 1..(Len(s) + Len(t)) : u[i] = IF i <= Len(s) THEN s[i] ELSE t[i - Len(s)]
  BY <1>2, ConcatProperties, LenProperties
<1>4. \A i \in 1..Len(s) : i \in DOMAIN u /\ u[i] = s[i] BY <1>1, <1>3
<1>5. \A i \in 1..Len(t) : Len(s) + i \in DOMAIN u /\ u[Len(s) + i] = t[i]
  <2> SUFFICES ASSUME NEW i \in 1..Len(t) PROVE Len(s) + i \in DOMAIN u /\ u[Len(s) + i] = t[i] OBVIOUS
  <2>1. PICK k : k = Len(s) + i OBVIOUS
  <2>2. k \in 1..(Len(s) + Len(t)) /\ ~ (k <= Len(s)) /\ k - Len(s) = i BY <1>1, <2>1
  <2> QED BY <1>3, <2>1, <2>2
<1>6. \A i \in DOMAIN u : \/ i \in 1..Len(s) /\ u[i] = s[i]
                          \/ i > Len(s) /\ i - Len(s) \in 1..Len(t) /\ u[i] = t[i - Len(s)]
  BY <1>1, <1>3
<1>7. In(u) = In(s) \cup In(t)
  <2>1. In(u) \subseteq In(s) \cup In(t) BY <1>1, <1>6 DEF In
  <2>2. In(s) \subseteq In(u) BY <1>1, <1>4 DEF In
  <2>3. In(t) \subseteq In(u) BY <1>1, <1>5 DEF In
  <2> QED BY <2>1, <2>2, <2>3
<1>8. ASSUME Distinct(s), Distinct(t), In(s) \cap In(t) = {} PROVE Distinct(u)
  <2> SUFFICES ASSUME NEW i \in DOMAIN u, NEW j \in DOMAIN u, u[i] = u[j] PROVE i = j
    BY DEF Distinct
  <2>1. CASE i \in 1..Len(s) /\ u[i] = s[i]
    <3>1. CASE j \in 1..Len(s) /\ u[j] = s[j] BY <2>1, <3>1, <1>1, <1>8 DEF Distinct
    <3>2. CASE j > Len(s) /\ j - Len(s) \in 1..Len(t) /\ u[j] = t[j - Len(s)]
      <4>1. u[i] \in In(s) /\ u[j] \in In(t) BY <1>1, <2>1, <3>2 DEF In
      <4> QED BY <1>8, <4>1
    <3> QED BY <1>6, <3>1, <3>2
  <2>2. CASE i > Len(s) /\ i - Len(s) \in 1..Len(t) /\ u[i] = t[i - Len(s)]
    <3>1. CASE j \in 1..Len(s) /\ u[j] = s[j]
      <4>1. u[j] \in In(s) /\ u[i] \in In(t) BY <1>1, <2>2, <3>1 DEF In
      <4> QED BY <1>8, <4>1
    <3>2. CASE j > Len(s) /\ j - Len(s) \in 1..Len(t) /\ u[j] = t[j - Len(s)]
      <4>1. i - Len(s) = j - Len(s) BY <2>2, <3>2, <1>1, <1>8 DEF Distinct
      <4>2. i \in Int /\ j \in Int BY <1>1, <1>3
      <4> QED BY <4>1, <4>2, <1>1
    <3> QED BY <1>6, <3>1, <3>2
  <2> QED BY <1>6, <2>1, <2>2
<1> QED BY <1>2, <1>3, <1>7, <1>8

-----------------------------------------------------------------------------
(* The loop of FlattenSeq() up to some place. *)
Flattens(seqs, n, g) == g = [i \in 1..n |-> IF i = 1 THEN seqs[i] ELSE g[i - 1] \o seqs[i]]

(* That loop comes to an end, whatever the sequences. *)
LEMMA FlattensExists ==
  ASSUME NEW seqs, NEW k \in Nat
  PROVE  \E g : Flattens(seqs, k, g)
<1> DEFINE Good == {n \in Nat : \E g : Flattens(seqs, n, g)}
<1>1. 0 \in Good
  <2> DEFINE g == [i \in 1..0 |-> 0]
  <2>1. 1..0 = {} OBVIOUS
  <2>2. g = [i \in 1..0 |-> IF i = 1 THEN seqs[i] ELSE g[i - 1] \o seqs[i]] BY <2>1
  <2> HIDE DEF g
  <2> QED BY <2>2 DEF Flattens
<1>2. ASSUME NEW n \in Nat, n \in Good PROVE n + 1 \in Good
  <2>1. PICK g : Flattens(seqs, n, g) BY <1>2
  <2> DEFINE h == [i \in 1..(n + 1) |-> IF i \in 1..n THEN g[i] ELSE
                     IF i = 1 THEN seqs[i] ELSE g[i - 1] \o seqs[i]]
  <2>2. ASSUME NEW i \in 1..(n + 1)
        PROVE  h[i] = IF i = 1 THEN seqs[i] ELSE h[i - 1] \o seqs[i]
    <3>1. CASE i = 1
      <4>1. CASE i \in 1..n BY <4>1, <3>1, <2>1 DEF Flattens
      <4>2. CASE i \notin 1..n BY <4>2, <3>1
      <4> QED BY <4>1, <4>2
    <3>2. CASE i # 1
      <4>1. i - 1 \in 1..n /\ i - 1 \in 1..(n + 1) BY <3>2
      <4>2. h[i - 1] = g[i - 1] BY <4>1
      <4>3. CASE i \in 1..n
        <5>1. h[i] = g[i] BY <4>3
        <5>2. g[i] = g[i - 1] \o seqs[i] BY <2>1, <3>2, <4>3 DEF Flattens
        <5> QED BY <3>2, <4>2, <5>1, <5>2
      <4>4. CASE i \notin 1..n
        <5>1. h[i] = g[i - 1] \o seqs[i] BY <3>2, <4>4
        <5> QED BY <3>2, <4>2, <5>1
      <4> QED BY <4>3, <4>4
    <3> QED BY <3>1, <3>2
  <2>3. h = [i \in 1..(n + 1) |-> h[i]] OBVIOUS
  <2>4. h = [i \in 1..(n + 1) |-> IF i = 1 THEN seqs[i] ELSE h[i - 1] \o seqs[i]]
    <3> HIDE DEF h
    <3> QED BY <2>2, <2>3
  <2> HIDE DEF h
  <2>5. \E f : Flattens(seqs, n + 1, f) BY <2>4 DEF Flattens
  <2> QED BY <2>5
<1>3. \A n \in Nat : n \in Good
  <2> HIDE DEF Good
  <2> QED BY <1>1, <1>2, NaturalInduction
<1> QED BY <1>3

(* Sequences without repeats that have nothing in common follow each other *)
(* in one without repeats.                                                 *)
LEMMA FlattenDistinct ==
  ASSUME NEW V, NEW seqs \in Seq(Seq(V)),
         \A i \in DOMAIN seqs : Distinct(seqs[i]),
         \A i, j \in DOMAIN seqs : i # j => In(seqs[i]) \cap In(seqs[j]) = {}
  PROVE  /\ FlattenSeq(seqs) \in Seq(V)
         /\ Distinct(FlattenSeq(seqs))
         /\ In(FlattenSeq(seqs)) = UNION {In(seqs[i]) : i \in DOMAIN seqs}
<1>1. Len(seqs) \in Nat /\ DOMAIN seqs = 1..Len(seqs) /\ \A i \in 1..Len(seqs) : seqs[i] \in Seq(V)
  BY LenProperties, ElementOfSeq
<1>2. CASE Len(seqs) = 0
  <2>1. seqs = <<>> BY <1>2, EmptySeq
  <2>2. FlattenSeq(seqs) = <<>> BY <1>2, <2>1 DEF FlattenSeq
  <2>3. DOMAIN seqs = {} BY <1>1, <1>2
  <2> QED BY <2>2, <2>3 DEF Distinct, In
<1>3. CASE Len(seqs) # 0
  <2> DEFINE g == CHOOSE h : Flattens(seqs, Len(seqs), h)
             below(n) == {i \in DOMAIN seqs : i <= n}
             Good == {n \in Nat : n \in 1..Len(seqs) =>
                        /\ g[n] \in Seq(V) /\ Distinct(g[n])
                        /\ In(g[n]) = UNION {In(seqs[i]) : i \in below(n)}}
  <2>1. Flattens(seqs, Len(seqs), g) BY <1>1, FlattensExists
  <2>2. FlattenSeq(seqs) = g[Len(seqs)]
    BY <1>3 DEF FlattenSeq, Flattens
  <2>3. g = [i \in 1..Len(seqs) |-> IF i = 1 THEN seqs[i] ELSE g[i - 1] \o seqs[i]]
    <3> HIDE DEF g
    <3> QED BY <2>1 DEF Flattens
  <2> HIDE DEF g
  <2>4. 0 \in Good BY <1>1
  <2>5. ASSUME NEW n \in Nat, n \in Good PROVE n + 1 \in Good
    <3> SUFFICES ASSUME n + 1 \in 1..Len(seqs)
                 PROVE  /\ g[n + 1] \in Seq(V) /\ Distinct(g[n + 1])
                        /\ In(g[n + 1]) = UNION {In(seqs[i]) : i \in below(n + 1)}
      OBVIOUS
    <3>1. CASE n = 0
      <4>1. g[n + 1] = seqs[1] /\ 1 \in DOMAIN seqs BY <1>1, <2>3, <3>1
      <4>2. below(n + 1) = {1} BY <1>1, <3>1, <4>1
      <4>3. In(seqs[1]) = UNION {In(seqs[i]) : i \in {1}} OBVIOUS
      <4> HIDE DEF below
      <4> QED BY <1>1, <3>1, <4>1, <4>2, <4>3
    <3>2. CASE n # 0
      <4>1. n \in 1..Len(seqs) BY <1>1, <3>2
      <4>2. g[n + 1] = g[n] \o seqs[n + 1]
        <5>1. PICK m : m = n + 1 OBVIOUS
        <5>2. m \in 1..Len(seqs) /\ m # 1 /\ m - 1 = n BY <3>2, <5>1
        <5>3. g[m] = g[m - 1] \o seqs[m] BY <2>3, <5>2
        <5> QED BY <5>1, <5>2, <5>3
      <4>3. g[n] \in Seq(V) /\ Distinct(g[n]) /\ In(g[n]) = UNION {In(seqs[i]) : i \in below(n)}
        BY <2>5, <4>1
      <4>4. PICK m : m = n + 1 OBVIOUS
      <4>5. m \in DOMAIN seqs /\ seqs[m] \in Seq(V) /\ Distinct(seqs[m]) BY <1>1, <4>4
      <4>6. below(m) = below(n) \cup {m} BY <1>1, <4>1, <4>4
      <4>7. \A i \in below(n) : i \in DOMAIN seqs /\ i # m BY <1>1, <4>4
      <4>8. In(g[n]) \cap In(seqs[m]) = {}
        <5> HIDE DEF below
        <5> QED BY <4>3, <4>5, <4>7
      <4>9. /\ g[m] \in Seq(V) /\ Distinct(g[m])
            /\ In(g[m]) = In(g[n]) \cup In(seqs[m])
        <5>1. PICK s : s = g[n] OBVIOUS
        <5>2. PICK t : t = seqs[m] OBVIOUS
        <5>3. s \in Seq(V) /\ t \in Seq(V) /\ Distinct(s) /\ Distinct(t) /\ In(s) \cap In(t) = {}
          BY <4>3, <4>5, <4>8, <5>1, <5>2
        <5>4. s \o t \in Seq(V) /\ In(s \o t) = In(s) \cup In(t) /\ Distinct(s \o t)
          BY <5>3, ConcatDistinct
        <5> QED BY <4>2, <4>4, <5>1, <5>2, <5>4
      <4>10. In(g[m]) = UNION {In(seqs[i]) : i \in below(m)}
        <5> HIDE DEF below
        <5> QED BY <4>3, <4>6, <4>9
      <4> HIDE DEF below
      <4> QED BY <4>4, <4>9, <4>10
    <3> QED BY <3>1, <3>2
  <2>6. \A n \in Nat : n \in Good
    <3> HIDE DEF Good
    <3> QED BY <2>4, <2>5, NaturalInduction
  <2>7. Len(seqs) \in Good /\ Len(seqs) \in 1..Len(seqs)
    <3>1. Len(seqs) \in Good BY <1>1, <2>6
    <3>2. Len(seqs) \in 1..Len(seqs) BY <1>1, <1>3
    <3> QED BY <3>1, <3>2
  <2>8. below(Len(seqs)) = DOMAIN seqs BY <1>1
  <2> HIDE DEF below
  <2> QED BY <2>2, <2>7, <2>8
<1> QED BY <1>2, <1>3
-----------------------------------------------------------------------------
(* What a parked run resumes: its own hold, then what came after it.       *)
Block(entry) == <<entry.hold>> \o entry.rest

(* The types, where only the count of the guard is left open. *)
Typed ==
  /\ job \in {None, "step", "answer"} /\ acting \in Steps \cup {None} /\ carrying \in BOOLEAN
  /\ job = None => acting = None /\ carrying = FALSE
  /\ todo \in Seq(DOMAIN asks)
  /\ steps \in [Steps -> {"new", "running", "held", "ended", "lost"}]
  /\ parked \in Seq([hold : DOMAIN asks, rest : Seq(DOMAIN asks)])
  /\ asks \in Seq([name : Names, step : Steps, decision : Decisions]) /\ Len(asks) <= MaxAsks
  /\ open \subseteq DOMAIN asks /\ holding \subseteq DOMAIN asks
  /\ saving \subseteq DOMAIN asks /\ pending \subseteq DOMAIN asks
  /\ grants \in [Names -> Scopes \cup {None}] /\ allowed \subseteq Names
  /\ image = None \/ image \subseteq DOMAIN asks
  /\ armed \in Int /\ failed \in BOOLEAN
  /\ by \in [Names -> 0..MaxAsks]
  /\ answers \in [Requests -> [approved : Nat, denied : Nat]] /\ calls \in [Requests -> Nat]
  /\ untold \subseteq Steps /\ guarded \in BOOLEAN /\ behind \in BOOLEAN

(* No other request for the name of this one is kept. *)
Alone(q) == \A r \in pending : asks[r].name = asks[q].name => r = q

(* A hold that waits for the user has a request that is open, held and     *)
(* kept, and would not be replaced if it were adopted again.               *)
Awaited(q) ==
  \/ asks[q].decision # None \/ q \in saving
  \/ q \in open \cap holding \cap pending /\ Alone(q)

AnswerInv == \A i \in DOMAIN parked : Awaited(parked[i].hold)

(* Only between an answer and the end of its job is an approved run parked *)
(* whose rule is not saved.                                                *)
Carried(q) ==
  \/ asks[q].decision # "granted" \/ asks[q].name \in allowed
  \/ job = "answer" /\ carrying = FALSE /\ acting = None

CarryInv == \A i \in DOMAIN parked : Carried(parked[i].hold)

(* What is known of a request as long as each interpreter was built from   *)
(* the last state: it is kept until it is answered or asked again, and     *)
(* neither open nor kept once answered.                                    *)
Answered(q) == answers[q].approved + answers[q].denied

AskedInv ==
  /\ \A q \in Requests \ DOMAIN asks : Answered(q) = 0
  /\ ~behind =>
       /\ \A q \in pending : Alone(q)
       /\ job # None => pending \subseteq open
       /\ \A q \in DOMAIN asks :
            /\ Answered(q) <= 1
            /\ Answered(q) = 1 => q \notin open \cup pending
            /\ \/ Answered(q) = 1 \/ q \in pending
               \/ \E r \in DOMAIN asks : r > q /\ asks[r].name = asks[q].name

(* Each hold is resumed by one of the runs, or is in line, once. *)
PlacesInv ==
  /\ Distinct(todo)
  /\ \A i \in DOMAIN parked : Distinct(Block(parked[i])) /\ In(Block(parked[i])) \cap In(todo) = {}
  /\ \A i, j \in DOMAIN parked : i # j => In(Block(parked[i])) \cap In(Block(parked[j])) = {}

(* The holds that may be resumed yet. *)
Placed == In(todo) \cup UNION {In(Block(parked[i])) : i \in DOMAIN parked}

(* A grant for one call that this request left, and a call that it is let  *)
(* through with.                                                           *)
Spare(q) == IF grants[asks[q].name] = "once" /\ by[asks[q].name] = q THEN 1 ELSE 0

Granting(q) == asks[q].decision = "granted" \/ (asks[q].decision = None /\ q \in saving)

Due(q) == IF q \in Placed /\ Granting(q) THEN 1 ELSE 0

OnceInv ==
  /\ \A n \in Names : grants[n] = "once" => by[n] \in DOMAIN asks /\ asks[by[n]].name = n
  /\ \A q \in Requests \ DOMAIN asks : calls[q] = 0
  /\ \A q \in DOMAIN asks : calls[q] + Spare(q) + Due(q) <= answers[q].approved

(* The steps that began, and those whose code did not come to its end. *)
Begun == {s \in Steps : steps[s] # "new"}
Midway == {s \in Steps : steps[s] \in {"running", "held"}}

(* Each step that is not at its end runs or is held once. *)
StepsInv ==
  /\ \A s \in Steps : steps[s] = "running" <=> s = acting
  /\ carrying = FALSE => todo = <<>>
  /\ \A q \in Placed : steps[asks[q].step] = "held"
  /\ \A q, r \in Placed : asks[q].step = asks[r].step => q = r

GuardInv == Cardinality(Midway) <= armed /\ armed <= Cardinality(Begun)

-----------------------------------------------------------------------------
(* Types.                                                                  *)

(* A sequence over a set is one over a larger set. *)
LEMMA SeqGrows ==
  ASSUME NEW S, NEW T, S \subseteq T, NEW seq \in Seq(S) PROVE seq \in Seq(T)
<1>1. Len(seq) \in Nat /\ seq \in [1..Len(seq) -> S] BY LenProperties
<1>2. seq \in [1..Len(seq) -> T] BY <1>1
<1> QED BY <1>1, <1>2, SeqDef

(* The requests are numbered. *)
LEMMA Numbered ==
  ASSUME Typed
  PROVE  /\ DOMAIN asks = 1..Len(asks) /\ Len(asks) \in Nat /\ DOMAIN asks \subseteq Requests
         /\ \A q \in DOMAIN asks : /\ asks[q].name \in Names /\ asks[q].step \in Steps
                                   /\ asks[q].decision \in Decisions
                                   /\ asks[q] = [name |-> asks[q].name, step |-> asks[q].step,
                                                 decision |-> asks[q].decision]
<1>1. asks \in Seq([name : Names, step : Steps, decision : Decisions]) /\ Len(asks) <= MaxAsks
  BY DEF Typed
<1>2. DOMAIN asks = 1..Len(asks) /\ Len(asks) \in Nat BY <1>1, LenProperties
<1>3. ASSUME NEW q \in DOMAIN asks
      PROVE  asks[q] \in [name : Names, step : Steps, decision : Decisions]
  BY <1>1, <1>3, ElementOfSeq, <1>2
<1>4. DOMAIN asks \subseteq Requests BY <1>1, <1>2, BoundsAssumption DEF Requests
<1> QED BY <1>2, <1>3, <1>4

(* The decision of some holds, each that was open. *)
Deciding(now) ==
  /\ now = [q \in DOMAIN asks |-> now[q]]
  /\ \A q \in DOMAIN asks : now[q] = asks[q] \/ \E d \in Decisions : now[q] = Decide(asks[q], d)

(* Deciding holds leaves the requests, but for the decisions. *)
LEMMA DecidedAsks ==
  ASSUME Typed, NEW now, Deciding(now)
  PROVE  /\ now \in Seq([name : Names, step : Steps, decision : Decisions])
         /\ Len(now) = Len(asks) /\ DOMAIN now = DOMAIN asks
         /\ \A q \in DOMAIN asks :
              /\ now[q].name = asks[q].name /\ now[q].step = asks[q].step
              /\ asks[q].decision # None => now[q] = asks[q]
<1>1. /\ DOMAIN asks = 1..Len(asks) /\ Len(asks) \in Nat
      /\ \A q \in DOMAIN asks : /\ asks[q].name \in Names /\ asks[q].step \in Steps
                                /\ asks[q].decision \in Decisions
                                /\ asks[q] = [name |-> asks[q].name, step |-> asks[q].step,
                                              decision |-> asks[q].decision]
  BY Numbered
<1>2. ASSUME NEW q \in DOMAIN asks, NEW d \in Decisions
      PROVE  /\ Decide(asks[q], d) \in [name : Names, step : Steps, decision : Decisions]
             /\ Decide(asks[q], d).name = asks[q].name /\ Decide(asks[q], d).step = asks[q].step
             /\ asks[q].decision # None => Decide(asks[q], d) = asks[q]
  <2>1. PICK a, b, c : asks[q] = [name |-> a, step |-> b, decision |-> c]
                       /\ a \in Names /\ b \in Steps /\ c \in Decisions BY <1>1
  <2>2. Decide(asks[q], d) = IF c = None THEN [name |-> a, step |-> b, decision |-> d] ELSE asks[q]
    BY <2>1 DEF Decide
  <2> QED BY <2>1, <2>2
<1>3. ASSUME NEW q \in DOMAIN asks
      PROVE  /\ now[q] \in [name : Names, step : Steps, decision : Decisions]
             /\ now[q].name = asks[q].name /\ now[q].step = asks[q].step
             /\ asks[q].decision # None => now[q] = asks[q]
  <2>1. CASE now[q] = asks[q] BY <1>1, <2>1
  <2>2. CASE \E d \in Decisions : now[q] = Decide(asks[q], d) BY <1>2, <2>2
  <2> QED BY <2>1, <2>2 DEF Deciding
<1>4. now = [q \in 1..Len(asks) |-> now[q]] BY <1>1 DEF Deciding
<1>5. now \in [1..Len(asks) -> [name : Names, step : Steps, decision : Decisions]]
  BY <1>1, <1>3, <1>4
<1>6. now \in Seq([name : Names, step : Steps, decision : Decisions]) /\ Len(now) = Len(asks)
  <2>1. DOMAIN now = 1..Len(asks) BY <1>5
  <2>2. now \in Seq([name : Names, step : Steps, decision : Decisions]) BY <1>1, <1>5, SeqDef
  <2>3. Len(now) \in Nat /\ DOMAIN now = 1..Len(now) BY <2>2, LenProperties
  <2> QED BY <1>1, <2>1, <2>2, <2>3
<1> QED BY <1>1, <1>3, <1>5, <1>6

(* What the requests become by a step: a new one at most, and holds that   *)
(* were open are decided.                                                  *)
Following ==
  /\ DOMAIN asks \subseteq DOMAIN asks'
  /\ \A q \in DOMAIN asks :
       /\ asks'[q].name = asks[q].name /\ asks'[q].step = asks[q].step
       /\ asks[q].decision # None => asks'[q].decision = asks[q].decision

(* So the requests that a step only decides follow from those before. *)
LEMMA AsksDecided ==
  ASSUME Typed, Deciding(asks')
  PROVE  /\ asks' \in Seq([name : Names, step : Steps, decision : Decisions]) /\ Len(asks') <= MaxAsks
         /\ DOMAIN asks' = DOMAIN asks /\ Following
<1>1. PICK now : now = asks' OBVIOUS
<1>2. /\ now \in Seq([name : Names, step : Steps, decision : Decisions])
      /\ Len(now) = Len(asks) /\ DOMAIN now = DOMAIN asks
      /\ \A q \in DOMAIN asks :
              /\ now[q].name = asks[q].name /\ now[q].step = asks[q].step
              /\ asks[q].decision # None => now[q] = asks[q]
  BY <1>1, DecidedAsks
<1>3. Len(now) <= MaxAsks BY <1>2 DEF Typed
<1> QED BY <1>1, <1>2, <1>3 DEF Following

(* An answer of the user only decides. *)
LEMMA AnswerDecides ==
  ASSUME Typed, NEW q \in DOMAIN asks, Answer(q) PROVE Deciding(asks')
<1>1. asks = [r \in DOMAIN asks |-> asks[r]] BY Numbered DEF Typed
<1>2. asks' = asks \/ asks' = [asks EXCEPT ![q] = Decide(@, "granted")]
                   \/ asks' = [asks EXCEPT ![q] = Decide(@, "refused")]
  BY DEF Answer, Approve, Deny
<1> QED BY <1>1, <1>2 DEF Deciding, Decisions

(* So does the end of a save. *)
LEMMA SavedDecides ==
  ASSUME Typed, NEW q \in saving, NEW ok \in BOOLEAN, Saved(q, ok) PROVE Deciding(asks')
<1>1. asks' = [asks EXCEPT ![q] = Decide(@, "granted")] \/ asks' = [asks EXCEPT ![q] = Decide(@, "refused")]
  BY DEF Saved
<1> QED BY <1>1 DEF Deciding, Decisions

(* So does the end of the process, which gives all holds up. *)
LEMMA RestartDecides ==
  ASSUME Typed, Restart PROVE Deciding(asks')
BY DEF Restart, Deciding, Decisions

(* A call that is held: the earlier ones are decided, then it is issued.   *)
LEMMA HeldAsks ==
  ASSUME Typed, NEW n \in Names, CallHeld(n)
  PROVE  /\ asks' \in Seq([name : Names, step : Steps, decision : Decisions]) /\ Len(asks') <= MaxAsks
         /\ DOMAIN asks' = DOMAIN asks \cup {Len(asks) + 1} /\ Following
         /\ Len(asks) + 1 \notin DOMAIN asks
         /\ asks'[Len(asks) + 1] = [name |-> n, step |-> acting, decision |-> None]
         /\ \A q \in DOMAIN asks :
              asks'[q].decision = IF q \in holding /\ asks[q].name = n /\ asks[q].decision = None
                                  THEN "refused" ELSE asks[q].decision
<1>1. PICK now : now = [r \in DOMAIN asks |->
                             IF r \in Dropped(n) THEN Decide(asks[r], "refused") ELSE asks[r]]
  OBVIOUS
<1>2. Deciding(now) BY <1>1 DEF Deciding, Decisions
<1>3. /\ now \in Seq([name : Names, step : Steps, decision : Decisions])
      /\ Len(now) = Len(asks) /\ DOMAIN now = DOMAIN asks
      /\ \A q \in DOMAIN asks :
              /\ now[q].name = asks[q].name /\ now[q].step = asks[q].step
              /\ asks[q].decision # None => now[q] = asks[q]
  BY <1>2, DecidedAsks
<1>4. PICK new : new = [name |-> n, step |-> acting, decision |-> None] OBVIOUS
<1>5. asks' = Append(now, new) /\ acting \in Steps /\ Len(asks) < MaxAsks
  BY <1>1, <1>4 DEF CallHeld, Typed
<1>6. new \in [name : Names, step : Steps, decision : Decisions] BY <1>4, <1>5 DEF Decisions
<1>7. Len(asks) \in Nat /\ DOMAIN asks = 1..Len(asks)
      /\ \A q \in DOMAIN asks : /\ asks[q] = [name |-> asks[q].name, step |-> asks[q].step,
                                              decision |-> asks[q].decision]
  BY Numbered
<1>8. /\ asks' \in Seq([name : Names, step : Steps, decision : Decisions])
      /\ Len(asks') = Len(asks) + 1 /\ DOMAIN asks' = 1..(Len(asks) + 1)
      /\ \A q \in DOMAIN asks : asks'[q] = now[q]
      /\ asks'[Len(asks) + 1] = new
  BY <1>3, <1>5, <1>6, <1>7, AppendProperties, LenProperties
<1>9. Len(asks') <= MaxAsks BY <1>5, <1>7, <1>8, BoundsAssumption
<1>10. DOMAIN asks' = DOMAIN asks \cup {Len(asks) + 1} /\ Len(asks) + 1 \notin DOMAIN asks BY <1>7, <1>8
<1>11. ASSUME NEW q \in DOMAIN asks
       PROVE  now[q].decision = IF q \in holding /\ asks[q].name = n /\ asks[q].decision = None
                                  THEN "refused" ELSE asks[q].decision
  <2>1. PICK a, b, c : asks[q] = [name |-> a, step |-> b, decision |-> c] BY <1>7
  <2>2. now[q] = IF q \in holding /\ asks[q].name = n THEN Decide(asks[q], "refused") ELSE asks[q]
    BY <1>1 DEF Dropped
  <2>3. Decide(asks[q], "refused") = IF c = None THEN [name |-> a, step |-> b, decision |-> "refused"]
                                     ELSE asks[q]
    BY <2>1 DEF Decide
  <2> QED BY <2>1, <2>2, <2>3
<1> QED BY <1>3, <1>4, <1>8, <1>9, <1>10, <1>11 DEF Following

-----------------------------------------------------------------------------
(* What is parked, or in line, is so when there are more requests. *)
LEMMA PlacesGrow ==
  ASSUME NEW S, NEW T, S \subseteq T,
         NEW entries \in Seq([hold : S, rest : Seq(S)])
  PROVE  entries \in Seq([hold : T, rest : Seq(T)])
<1>1. Seq(S) \subseteq Seq(T) BY SeqGrows
<1>2. [hold : S, rest : Seq(S)] \subseteq [hold : T, rest : Seq(T)] BY <1>1
<1> QED BY <1>2, SeqGrows

(* What is adopted was issued. *)
LEMMA AdoptedTyped ==
  ASSUME Typed PROVE Adopted \subseteq DOMAIN asks
BY DEF Typed, Adopted, Opened

(* serialize() keeps the types. *)
LEMMA StartTyped ==
  ASSUME Typed, NEW s \in Steps, StartStep(s) PROVE Typed'
<1>1. open' \subseteq DOMAIN asks BY AdoptedTyped DEF StartStep
<1> QED BY <1>1, NoneAssumption DEF Typed, StartStep, user, counts

(* So does a call that is let through. *)
LEMMA GrantedTyped ==
  ASSUME Typed, NEW n \in Names, CallGranted(n) PROVE Typed'
<1>1. grants' \in [Names -> Scopes \cup {None}] BY DEF Typed, CallGranted
<1>2. calls' \in [Requests -> Nat]
  <2>1. PICK q : q = by[n] OBVIOUS
  <2>2. calls \in [Requests -> Nat] /\ calls' = [calls EXCEPT ![q] = @ + 1]
    BY <2>1 DEF Typed, CallGranted
  <2>3. calls' = [r \in Requests |-> IF r = q THEN calls[q] + 1 ELSE calls[r]] BY <2>2
  <2>4. \A r \in Requests : (IF r = q THEN calls[q] + 1 ELSE calls[r]) \in Nat BY <2>2
  <2> QED BY <2>3, <2>4
<1> QED BY <1>1, <1>2 DEF Typed, CallGranted, counts

(* So does a call that is held, with the request it issues. *)
LEMMA HeldTyped ==
  ASSUME Typed, NEW n \in Names, CallHeld(n) PROVE Typed'
<1>1. /\ asks' \in Seq([name : Names, step : Steps, decision : Decisions]) /\ Len(asks') <= MaxAsks
      /\ DOMAIN asks' = DOMAIN asks \cup {Len(asks) + 1}
  BY HeldAsks
<1>2. /\ open' \subseteq DOMAIN asks' /\ pending' \subseteq DOMAIN asks' /\ holding' \subseteq DOMAIN asks'
  BY <1>1 DEF Typed, CallHeld, Others
<1>3. parked' \in Seq([hold : DOMAIN asks', rest : Seq(DOMAIN asks')])
  <2>1. PICK T : T = DOMAIN asks' OBVIOUS
  <2>2. todo \in Seq(T) BY <1>1, <2>1, SeqGrows DEF Typed
  <2>3. parked \in Seq([hold : T, rest : Seq(T)]) BY <1>1, <2>1, PlacesGrow DEF Typed
  <2>4. PICK entry : entry = [hold |-> Len(asks) + 1, rest |-> todo] OBVIOUS
  <2>5. entry \in [hold : T, rest : Seq(T)] BY <1>1, <2>1, <2>2, <2>4
  <2>6. Append(parked, entry) \in Seq([hold : T, rest : Seq(T)]) BY <2>3, <2>5, AppendProperties
  <2> QED BY <2>1, <2>4, <2>6 DEF CallHeld
<1>4. todo' \in Seq(DOMAIN asks') BY DEF CallHeld
<1>5. image' = None \/ image' \subseteq DOMAIN asks'
  BY <1>1, <1>2 DEF Typed, CallHeld, Checkpoint
<1>6. saving' \subseteq DOMAIN asks' BY <1>1 DEF Typed, CallHeld
<1>7. steps' \in [Steps -> {"new", "running", "held", "ended", "lost"}] BY DEF Typed, CallHeld
<1> QED BY <1>1, <1>2, <1>3, <1>4, <1>5, <1>6, <1>7 DEF Typed, CallHeld, user, counts

(* So does the end of a step's code. *)
LEMMA EndTyped ==
  ASSUME Typed, End PROVE Typed'
<1>1. steps' \in [Steps -> {"new", "running", "held", "ended", "lost"}] BY DEF Typed, End
<1>2. pending' \subseteq DOMAIN asks' BY DEF Typed, End, Pruned
<1> QED BY <1>1, <1>2, NoneAssumption DEF Typed, End, user, counts

(* So does a crash, with the steps it takes along. *)
LEMMA CrashTyped ==
  ASSUME Typed, Crash PROVE Typed'
<1>1. steps' \in [Steps -> {"new", "running", "held", "ended", "lost"}] BY DEF Typed, Crash
<1>2. pending' \subseteq DOMAIN asks' BY DEF Typed, Crash, Pruned
<1>3. todo' \in Seq(DOMAIN asks') BY DEF Crash
<1>4. failed' \in BOOLEAN BY DEF Typed, Crash
<1>5. /\ job' = None /\ acting' = None /\ carrying' = FALSE /\ armed' = armed - 1
      /\ UNCHANGED <<parked, asks, open, grants, holding, saving, allowed, image, by, answers, calls,
                     untold, behind, guarded>>
  BY DEF Crash, user
<1>6. /\ parked' \in Seq([hold : DOMAIN asks', rest : Seq(DOMAIN asks')])
      /\ asks' \in Seq([name : Names, step : Steps, decision : Decisions]) /\ Len(asks') <= MaxAsks
      /\ open' \subseteq DOMAIN asks' /\ holding' \subseteq DOMAIN asks' /\ saving' \subseteq DOMAIN asks'
      /\ image' = None \/ image' \subseteq DOMAIN asks'
  BY <1>5 DEF Typed
<1>7. /\ grants' \in [Names -> Scopes \cup {None}] /\ allowed' \subseteq Names
      /\ by' \in [Names -> 0..MaxAsks]
      /\ answers' \in [Requests -> [approved : Nat, denied : Nat]] /\ calls' \in [Requests -> Nat]
      /\ untold' \subseteq Steps /\ guarded' \in BOOLEAN /\ behind' \in BOOLEAN
  BY <1>5 DEF Typed
<1>8. armed' \in Int BY <1>5 DEF Typed
<1> QED BY <1>1, <1>2, <1>3, <1>4, <1>5, <1>6, <1>7, <1>8 DEF Typed

(* What the parked runs resume, one after the other. *)
Blocks(entries) == [i \in DOMAIN entries |-> Block(entries[i])]

(* They are sequences of requests. *)
LEMMA BlocksTyped ==
  ASSUME NEW S, NEW entries \in Seq([hold : S, rest : Seq(S)])
  PROVE  /\ Blocks(entries) \in Seq(Seq(S)) /\ DOMAIN Blocks(entries) = DOMAIN entries
         /\ \A i \in DOMAIN entries : Block(entries[i]) \in Seq(S) /\ Blocks(entries)[i] = Block(entries[i])
<1>1. Len(entries) \in Nat /\ DOMAIN entries = 1..Len(entries) BY LenProperties
<1>2. ASSUME NEW i \in DOMAIN entries PROVE Block(entries[i]) \in Seq(S)
  <2>1. entries[i] \in [hold : S, rest : Seq(S)] BY <1>1, ElementOfSeq
  <2>2. PICK q, rest : q = entries[i].hold /\ rest = entries[i].rest OBVIOUS
  <2>3. q \in S /\ rest \in Seq(S) BY <2>1, <2>2
  <2>4. <<q>> \in Seq(S) BY <2>3
  <2>5. <<q>> \o rest \in Seq(S) BY <2>3, <2>4, ConcatProperties
  <2> QED BY <2>2, <2>5 DEF Block
<1>3. Blocks(entries) \in [1..Len(entries) -> Seq(S)] BY <1>1, <1>2 DEF Blocks
<1>4. Blocks(entries) \in Seq(Seq(S))
  <2>1. PICK T, seqs : T = Seq(S) /\ seqs = Blocks(entries) OBVIOUS
  <2>2. PICK n \in Nat : n = Len(entries) BY <1>1
  <2>3. seqs \in [1..n -> T] BY <1>3, <2>1, <2>2
  <2>4. seqs \in Seq(T) BY <2>3, SeqDef
  <2> QED BY <2>1, <2>4
<1> QED BY <1>2, <1>4 DEF Blocks

(* HoldsOf() is these, one after the other. *)
LEMMA HoldsFlatten == ASSUME NEW entries PROVE HoldsOf(entries) = FlattenSeq(Blocks(entries))
BY DEF HoldsOf, Blocks, Block

(* The runs that are not carried on stay, each once. *)
Staying == {i \in DOMAIN parked : \A k \in DOMAIN Ready : Ready[k] # parked[i]}

(* The runs that carry on are the decided ones of those parked. *)
LEMMA ReadyParked ==
  ASSUME Typed
  PROVE  /\ Ready \in Seq([hold : DOMAIN asks, rest : Seq(DOMAIN asks)])
         /\ Ready = <<>> => DecidedPlaces = {}
         /\ \E nth : Picks(parked, DecidedPlaces, Ready, nth)
<1>1. DecidedPlaces \subseteq DOMAIN parked BY DEF DecidedPlaces
<1>2. parked \in Seq([hold : DOMAIN asks, rest : Seq(DOMAIN asks)]) BY DEF Typed
<1> QED BY <1>1, <1>2, PickedEntries DEF Ready

(* carryOn() keeps the types. *)
LEMMA CarriedOnTyped ==
  ASSUME Typed, PlacesInv, CarryOn PROVE Typed'
<1>1. /\ Ready \in Seq([hold : DOMAIN asks, rest : Seq(DOMAIN asks)])
      /\ \E nth : Picks(parked, DecidedPlaces, Ready, nth)
  BY ReadyParked
<1>2. parked' \in Seq([hold : DOMAIN asks, rest : Seq(DOMAIN asks)])
  <2>1. Staying \subseteq DOMAIN parked BY DEF Staying
  <2>2. parked \in Seq([hold : DOMAIN asks, rest : Seq(DOMAIN asks)]) BY DEF Typed
  <2>3. parked' = Picked(parked, Staying) BY DEF CarryOn, Staying
  <2> QED BY <2>1, <2>2, <2>3, PickedEntries
<1>3. todo' \in Seq(DOMAIN asks)
  <2>1. PICK nth : Picks(parked, DecidedPlaces, Ready, nth) BY <1>1
  <2>2. PICK seqs : seqs = Blocks(Ready) OBVIOUS
  <2>3. /\ seqs \in Seq(Seq(DOMAIN asks)) /\ DOMAIN seqs = DOMAIN Ready
        /\ \A i \in DOMAIN Ready : seqs[i] = Block(Ready[i])
    BY <1>1, <2>2, BlocksTyped
  <2>4. \A k \in DOMAIN Ready : nth[k] \in DOMAIN parked /\ Ready[k] = parked[nth[k]]
    BY <2>1 DEF Picks, DecidedPlaces
  <2>5. \A i \in DOMAIN seqs : nth[i] \in DOMAIN parked /\ seqs[i] = Block(parked[nth[i]])
    BY <2>3, <2>4
  <2>6. \A i \in DOMAIN seqs : Distinct(seqs[i]) BY <2>5 DEF PlacesInv
  <2>7. \A i, j \in DOMAIN seqs : i # j => In(seqs[i]) \cap In(seqs[j]) = {}
    BY <2>1, <2>3, <2>5 DEF PlacesInv, Picks
  <2>8. FlattenSeq(seqs) \in Seq(DOMAIN asks) BY <2>3, <2>6, <2>7, FlattenDistinct
  <2> QED BY <2>2, <2>8, HoldsFlatten DEF CarryOn
<1> QED BY <1>2, <1>3 DEF Typed, CarryOn, user, counts

(* So does Hold.resume(). *)
LEMMA ResumeTyped ==
  ASSUME Typed, Resume PROVE Typed'
<1>1. PICK q : q = Head(todo) OBVIOUS
<1>2. q \in DOMAIN asks /\ todo' \in Seq(DOMAIN asks)
  BY <1>1, HeadTailProperties DEF Typed, Resume
<1>3. asks[q].step \in Steps /\ q \in Requests BY <1>2, Numbered
<1>4. /\ acting' = asks[q].step /\ steps' = [steps EXCEPT ![asks[q].step] = "running"]
      /\ calls' = calls \/ calls' = [calls EXCEPT ![q] = @ + 1]
      /\ untold' = untold \/ untold' = untold \cup {asks[q].step}
  BY <1>1 DEF Resume
<1>5. steps' \in [Steps -> {"new", "running", "held", "ended", "lost"}] BY <1>3, <1>4 DEF Typed
<1>6. calls' \in [Requests -> Nat] /\ untold' \subseteq Steps BY <1>3, <1>4 DEF Typed
<1>7. job # None BY DEF Typed, Resume
<1> QED BY <1>2, <1>3, <1>4, <1>5, <1>6, <1>7 DEF Typed, Resume, counts

(* So does the end of a job. *)
LEMMA FinishTyped ==
  ASSUME Typed, Finish PROVE Typed'
<1>1. image' = None \/ image' \subseteq DOMAIN asks' BY DEF Typed, Finish, Checkpoint
<1> QED BY <1>1 DEF Typed, Finish, user, counts

(* So does an answer of the user. *)
LEMMA AnswerTyped ==
  ASSUME Typed, NEW q \in DOMAIN asks, Answer(q) PROVE Typed'
<1>1. /\ asks' \in Seq([name : Names, step : Steps, decision : Decisions]) /\ Len(asks') <= MaxAsks
      /\ DOMAIN asks' = DOMAIN asks
  BY AnswerDecides, AsksDecided
<1>2. q \in Requests /\ asks[q].name \in Names /\ q \in 0..MaxAsks BY Numbered DEF Requests
<1>3. open' \subseteq DOMAIN asks /\ pending' \subseteq DOMAIN asks /\ holding' \subseteq DOMAIN asks
  BY AdoptedTyped DEF Typed, Answer, Pruned
<1>4. saving' \subseteq DOMAIN asks BY DEF Typed, Answer, Approve, Deny
<1>5. by' \in [Names -> 0..MaxAsks] BY <1>2 DEF Typed, Answer, Approve, Deny
<1>6. grants' \in [Names -> Scopes \cup {None}]
  BY <1>2 DEF Typed, Answer, Approve, Deny, GrantedBy
<1>7. answers' \in [Requests -> [approved : Nat, denied : Nat]]
  <2>1. answers[q] \in [approved : Nat, denied : Nat] BY <1>2 DEF Typed
  <2>2. \/ answers' = [answers EXCEPT ![q].approved = @ + 1]
        \/ answers' = [answers EXCEPT ![q].denied = @ + 1]
    BY DEF Answer, Approve, Deny
  <2>3. answers \in [Requests -> [approved : Nat, denied : Nat]] BY DEF Typed
  <2> QED BY <1>2, <2>1, <2>2, <2>3
<1>8. /\ job' = "answer"
      /\ UNCHANGED <<acting, carrying, todo, steps, parked, allowed, image, armed, failed, counts,
                     calls, untold, guarded, behind>>
  BY DEF Answer
<1> QED BY <1>1, <1>3, <1>4, <1>5, <1>6, <1>7, <1>8, NoneAssumption DEF Typed

(* So does the end of a save. *)
LEMMA SavedTyped ==
  ASSUME Typed, NEW q \in saving, NEW ok \in BOOLEAN, Saved(q, ok) PROVE Typed'
<1>1. /\ asks' \in Seq([name : Names, step : Steps, decision : Decisions]) /\ Len(asks') <= MaxAsks
      /\ DOMAIN asks' = DOMAIN asks
  BY SavedDecides, AsksDecided
<1>2. q \in DOMAIN asks BY DEF Typed
<1>3. allowed' \subseteq Names /\ saving' \subseteq DOMAIN asks BY <1>2, Numbered DEF Typed, Saved
<1> QED BY <1>1, <1>3 DEF Typed, Saved, user, counts

(* What an image keeps was issued. *)
LEMMA KeptTyped == ASSUME Typed PROVE Kept \subseteq DOMAIN asks
BY DEF Typed, Kept

(* recover() keeps the types. *)
LEMMA RecoverTyped ==
  ASSUME Typed, Recover PROVE Typed'
<1>1. steps' \in [Steps -> {"new", "running", "held", "ended", "lost"}] BY DEF Typed, Recover, Lost
<1>2. pending' \subseteq DOMAIN asks BY KeptTyped DEF Recover
<1>3. parked' \in Seq([hold : DOMAIN asks', rest : Seq(DOMAIN asks')]) BY DEF Recover
<1>4. guarded' \in BOOLEAN /\ behind' \in BOOLEAN BY DEF Typed, Recover
<1> QED BY <1>1, <1>2, <1>3, <1>4 DEF Typed, Recover, counts

(* So does the end of the process. *)
LEMMA RestartTyped ==
  ASSUME Typed, Restart PROVE Typed'
<1>1. /\ asks' \in Seq([name : Names, step : Steps, decision : Decisions]) /\ Len(asks') <= MaxAsks
      /\ DOMAIN asks' = DOMAIN asks
  BY RestartDecides, AsksDecided
<1>2. steps' \in [Steps -> {"new", "running", "held", "ended", "lost"}] BY DEF Typed, Restart, Lost
<1>3. pending' \subseteq DOMAIN asks' BY <1>1, KeptTyped DEF Restart
<1>4. parked' \in Seq([hold : DOMAIN asks', rest : Seq(DOMAIN asks')]) /\ todo' \in Seq(DOMAIN asks')
  BY DEF Restart
<1>5. allowed' \subseteq Names
  <2>1. saving \subseteq DOMAIN asks /\ allowed \subseteq Names BY DEF Typed
  <2>2. \A q \in saving : asks[q].name \in Names BY <2>1, Numbered
  <2> QED BY <2>1, <2>2 DEF Restart
<1>6. grants' \in [Names -> Scopes \cup {None}] /\ behind' \in BOOLEAN BY DEF Typed, Restart
<1>7. /\ job' = None /\ acting' = None /\ carrying' = FALSE /\ armed' = 0 /\ failed' = FALSE
      /\ open' = {} /\ holding' = {} /\ saving' = {}
      /\ UNCHANGED <<image, by, answers, calls, untold, guarded>>
  BY DEF Restart
<1>8. /\ image' = None \/ image' \subseteq DOMAIN asks'
      /\ by' \in [Names -> 0..MaxAsks]
      /\ answers' \in [Requests -> [approved : Nat, denied : Nat]] /\ calls' \in [Requests -> Nat]
      /\ untold' \subseteq Steps /\ guarded' \in BOOLEAN
  BY <1>1, <1>7 DEF Typed
<1>9. /\ job' \in {None, "step", "answer"} /\ acting' \in Steps \cup {None} /\ carrying' \in BOOLEAN
      /\ acting' = None /\ carrying' = FALSE /\ failed' \in BOOLEAN
  BY <1>7
<1>10. armed' \in Int BY <1>7
<1>11. open' \subseteq DOMAIN asks' /\ holding' \subseteq DOMAIN asks' /\ saving' \subseteq DOMAIN asks'
  BY <1>7
<1> QED BY <1>1, <1>2, <1>3, <1>4, <1>5, <1>6, <1>8, <1>9, <1>10, <1>11 DEF Typed

-----------------------------------------------------------------------------
(* A run that waits can be answered, and one that is approved carries on.  *)

(* What a step leaves as it was. *)
LEMMA NextActions ==
  ASSUME Next
  PROVE  \/ \E s \in Steps : StartStep(s)
         \/ \E n \in Names : CallGranted(n)
         \/ \E n \in Names : CallHeld(n)
         \/ End \/ Crash \/ CarryOn \/ Resume \/ Finish
         \/ \E q \in DOMAIN asks : Answer(q)
         \/ \E q \in saving, ok \in BOOLEAN : Saved(q, ok)
         \/ Recover \/ Restart
BY DEF Next

(* The runs that are parked after a step were so before, but the one that  *)
(* the step parks.                                                         *)
LEMMA ParkedBefore ==
  ASSUME Typed, Next, NEW i \in DOMAIN parked'
  PROVE  \/ \E j \in DOMAIN parked : parked'[i] = parked[j]
         \/ /\ \E n \in Names : CallHeld(n)
            /\ parked'[i] = [hold |-> Len(asks) + 1, rest |-> todo]
<1>1. CASE parked' = parked BY <1>1
<1>2. CASE parked' = <<>> BY <1>2
<1>3. CASE CarryOn
  <2>1. Staying \subseteq DOMAIN parked BY DEF Staying
  <2>2. parked \in Seq([hold : DOMAIN asks, rest : Seq(DOMAIN asks)]) BY DEF Typed
  <2>3. parked' = Picked(parked, Staying) BY <1>3 DEF CarryOn, Staying
  <2>4. PICK nth : Picks(parked, Staying, parked', nth) BY <2>1, <2>2, <2>3, PickedEntries
  <2>5. nth[i] \in DOMAIN parked /\ parked'[i] = parked[nth[i]] BY <2>1, <2>4 DEF Picks
  <2> QED BY <2>5
<1>4. ASSUME NEW n \in Names, CallHeld(n)
      PROVE  \/ \E j \in DOMAIN parked : parked'[i] = parked[j]
             \/ parked'[i] = [hold |-> Len(asks) + 1, rest |-> todo]
  <2>1. PICK S : S = [hold : DOMAIN asks, rest : Seq(DOMAIN asks)] OBVIOUS
  <2>2. parked \in Seq(S) BY <2>1 DEF Typed
  <2>3. PICK entry : entry = [hold |-> Len(asks) + 1, rest |-> todo] OBVIOUS
  <2>4. parked' = Append(parked, entry) BY <1>4, <2>3 DEF CallHeld
  <2>5. PICK T : T = S \cup {entry} OBVIOUS
  <2>6. parked \in Seq(T) /\ entry \in T BY <2>2, <2>5, SeqGrows
  <2>7. /\ Len(parked) \in Nat /\ DOMAIN parked = 1..Len(parked)
        /\ Len(parked') = Len(parked) + 1 /\ parked' \in Seq(T)
        /\ \A j \in 1..Len(parked) : parked'[j] = parked[j]
        /\ parked'[Len(parked) + 1] = entry
    BY <2>4, <2>6, AppendProperties, LenProperties
  <2>8. DOMAIN parked' = 1..(Len(parked) + 1) BY <2>7, LenProperties
  <2>9. i \in DOMAIN parked \/ i = Len(parked) + 1 BY <2>7, <2>8
  <2> QED BY <2>3, <2>7, <2>9
<1>5. \/ parked' = parked \/ parked' = <<>> \/ CarryOn \/ \E n \in Names : CallHeld(n)
  BY NextActions
     DEF StartStep, CallGranted, End, Crash, Resume, Finish, Answer, Saved, Recover, Restart
<1> QED BY <1>1, <1>2, <1>3, <1>4, <1>5

(* A request that is open and the only one kept for its name stays open    *)
(* when others are adopted.                                                *)
LEMMA AdoptedKeeps ==
  ASSUME NEW q, q \in open \cap pending, Alone(q) PROVE q \in Adopted
BY DEF Alone, Adopted, Opened

(* Nothing but its own request, or a later one for its name, ends the wait *)
(* of a hold.                                                              *)
LEMMA StillAwaited ==
  ASSUME Typed, Next, NEW q \in DOMAIN asks, Awaited(q), parked' # <<>>
  PROVE  Awaited(q)'
<1>1. ASSUME NEW s \in Steps, StartStep(s) PROVE Awaited(q)'
  <2>1. open' = Adopted BY <1>1 DEF StartStep
  <2> QED BY <1>1, <2>1, AdoptedKeeps DEF Awaited, Alone, StartStep
<1>2. ASSUME NEW n \in Names, CallGranted(n) PROVE Awaited(q)'
  BY <1>2 DEF Awaited, Alone, CallGranted
<1>3. ASSUME NEW n \in Names, CallHeld(n) PROVE Awaited(q)'
  <2>1. /\ Following /\ Len(asks) + 1 \notin DOMAIN asks
        /\ asks'[Len(asks) + 1] = [name |-> n, step |-> acting, decision |-> None]
        /\ asks'[q].decision = IF q \in holding /\ asks[q].name = n /\ asks[q].decision = None
                                  THEN "refused" ELSE asks[q].decision
    BY <1>3, HeldAsks
  <2>2. CASE asks[q].decision # None BY <2>1, <2>2 DEF Awaited, Following
  <2>3. CASE q \in saving BY <1>3, <2>3 DEF Awaited, CallHeld
  <2>4. CASE asks[q].decision = None /\ q \in open \cap holding \cap pending /\ Alone(q)
    <3>1. CASE asks[q].name = n BY <2>1, <2>4, <3>1, NoneAssumption DEF Awaited
    <3>2. CASE asks[q].name # n
      <4>1. q \in open' \cap holding' \cap pending' BY <1>3, <2>4, <3>2 DEF CallHeld, Others, Dropped
      <4>2. ASSUME NEW r \in pending', asks'[r].name = asks'[q].name PROVE r = q
        <5>1. r \in pending \/ r = Len(asks) + 1 BY <1>3 DEF CallHeld, Others
        <5>2. r # Len(asks) + 1 BY <2>1, <3>2, <4>2 DEF Following
        <5>3. r \in DOMAIN asks BY <5>1, <5>2 DEF Typed
        <5> QED BY <2>1, <2>4, <4>2, <5>1, <5>2, <5>3 DEF Following, Alone
      <4> QED BY <4>1, <4>2 DEF Awaited, Alone
    <3> QED BY <3>1, <3>2
  <2> QED BY <2>2, <2>3, <2>4 DEF Awaited
<1>4. ASSUME End PROVE Awaited(q)'
  BY <1>4 DEF Awaited, Alone, End, Pruned
<1>5. ASSUME Crash PROVE Awaited(q)'
  <2>1. pending' = Pruned(open) /\ UNCHANGED <<asks, saving, open, holding>> BY <1>5 DEF Crash
  <2> QED BY <2>1 DEF Awaited, Alone, Pruned
<1>6. ASSUME CarryOn PROVE Awaited(q)'
  <2>1. UNCHANGED <<asks, saving, open, holding, pending>> BY <1>6 DEF CarryOn
  <2> QED BY <2>1 DEF Awaited, Alone
<1>7. ASSUME Resume PROVE Awaited(q)'
  <2>1. UNCHANGED <<asks, saving, open, holding, pending>> BY <1>7 DEF Resume
  <2> QED BY <2>1 DEF Awaited, Alone
<1>8. ASSUME Finish PROVE Awaited(q)'
  BY <1>8 DEF Awaited, Alone, Finish
<1>9. ASSUME NEW r \in DOMAIN asks, Answer(r) PROVE Awaited(q)'
  <2>1. DOMAIN asks' = DOMAIN asks /\ Following BY <1>9, AnswerDecides, AsksDecided
  <2>2. open' = Adopted \ {r} /\ pending' = pending \cap open' /\ holding' = holding \ {r}
        /\ saving \subseteq saving'
    BY <1>9 DEF Answer, Pruned, Approve, Deny
  <2>3. CASE asks[q].decision # None BY <2>1, <2>3 DEF Awaited, Following
  <2>4. CASE q \in saving BY <2>2, <2>4 DEF Awaited
  <2>5. CASE asks[q].decision = None /\ q \in open \cap holding \cap pending /\ Alone(q)
    <3>1. CASE q # r
      <4>1. q \in open' \cap holding' \cap pending' BY <2>2, <2>5, <3>1, AdoptedKeeps
      <4>2. ASSUME NEW p \in pending', asks'[p].name = asks'[q].name PROVE p = q
        <5>1. p \in pending /\ p \in DOMAIN asks BY <2>2 DEF Typed
        <5> QED BY <2>1, <2>5, <4>2, <5>1 DEF Following, Alone
      <4> QED BY <4>1, <4>2 DEF Awaited, Alone
    <3>2. CASE q = r
      <4>1. asks[q] = [name |-> asks[q].name, step |-> asks[q].step, decision |-> None]
        BY <2>5, Numbered
      <4>2. \A d : Decide(asks[q], d).decision = d
        BY <4>1 DEF Decide
      <4>3. \/ q \in saving'
            \/ asks' = [asks EXCEPT ![q] = Decide(@, "granted")]
            \/ asks' = [asks EXCEPT ![q] = Decide(@, "refused")]
        BY <1>9, <2>5, <3>2 DEF Answer, Approve, Deny
      <4>4. q \in saving' \/ asks'[q].decision # None
        BY <4>2, <4>3, NoneAssumption
      <4> QED BY <4>4 DEF Awaited
    <3> QED BY <3>1, <3>2
  <2> QED BY <2>3, <2>4, <2>5 DEF Awaited
<1>10. ASSUME NEW r \in saving, NEW ok \in BOOLEAN, Saved(r, ok) PROVE Awaited(q)'
  <2>1. DOMAIN asks' = DOMAIN asks /\ Following BY <1>10, SavedDecides, AsksDecided
  <2>2. saving' = saving \ {r} /\ UNCHANGED <<open, holding, pending>> BY <1>10 DEF Saved
  <2>3. CASE asks[q].decision # None BY <2>1, <2>3 DEF Awaited, Following
  <2>4. CASE asks[q].decision = None /\ q = r
    <3>1. asks[q] = [name |-> asks[q].name, step |-> asks[q].step, decision |-> None]
      BY <2>4, Numbered
    <3>2. asks'[q].decision = IF ok THEN "granted" ELSE "refused"
      BY <1>10, <2>4, <3>1 DEF Saved, Decide
    <3> QED BY <3>2, NoneAssumption DEF Awaited
  <2>5. CASE asks[q].decision = None /\ q # r /\ q \in saving BY <2>2, <2>5 DEF Awaited
  <2>6. CASE q \in open \cap holding \cap pending /\ Alone(q)
    <3>1. \A p \in pending : asks'[p].name = asks[p].name BY <2>1 DEF Following, Typed
    <3> QED BY <2>1, <2>2, <2>6, <3>1 DEF Awaited, Alone, Following
  <2> QED BY <2>3, <2>4, <2>5, <2>6 DEF Awaited
<1>11. ~Recover /\ ~Restart BY DEF Recover, Restart
<1> QED BY <1>1, <1>2, <1>3, <1>4, <1>5, <1>6, <1>7, <1>8, <1>9, <1>10, <1>11, NextActions

(* The holds of the parked runs. *)
LEMMA ParkedHolds ==
  ASSUME Typed, NEW i \in DOMAIN parked PROVE parked[i].hold \in DOMAIN asks
<1>1. PICK S : S = [hold : DOMAIN asks, rest : Seq(DOMAIN asks)] OBVIOUS
<1>2. parked \in Seq(S) /\ i \in 1..Len(parked) BY <1>1, LenProperties DEF Typed
<1>3. parked[i] \in S BY <1>2, ElementOfSeq
<1> QED BY <1>1, <1>3

(* Every step leaves each parked run with a request that can be answered,  *)
(* or decided.                                                             *)
LEMMA NextAnswers == ASSUME Typed, AnswerInv, Next PROVE AnswerInv'
<1> SUFFICES ASSUME NEW i \in DOMAIN parked', NEW q, q = parked'[i].hold PROVE Awaited(q)'
  BY DEF AnswerInv
<1>1. q = parked'[i].hold OBVIOUS
<1>2. CASE \E j \in DOMAIN parked : parked'[i] = parked[j]
  <2>1. q \in DOMAIN asks /\ Awaited(q) BY <1>1, <1>2, ParkedHolds DEF AnswerInv
  <2>2. parked' # <<>> OBVIOUS
  <2> QED BY <2>1, <2>2, StillAwaited
<1>3. CASE (\E n \in Names : CallHeld(n)) /\ parked'[i] = [hold |-> Len(asks) + 1, rest |-> todo]
  <2>1. PICK n \in Names : CallHeld(n) BY <1>3
  <2>2. q = Len(asks) + 1 BY <1>1, <1>3
  <2>3. q \in open' \cap holding' \cap pending' BY <2>1, <2>2 DEF CallHeld
  <2>4. /\ Following /\ asks'[q].name = n
        /\ DOMAIN asks' = DOMAIN asks \cup {q}
    <3>1. asks'[Len(asks) + 1] = [name |-> n, step |-> acting, decision |-> None]
          /\ DOMAIN asks' = DOMAIN asks \cup {Len(asks) + 1} /\ Following
      BY <2>1, HeldAsks
    <3> QED BY <2>2, <3>1
  <2>5. \A r \in pending' : asks'[r].name = n => r = q
    BY <2>1, <2>2, <2>4 DEF CallHeld, Others, Following, Typed
  <2> QED BY <2>3, <2>4, <2>5 DEF Awaited, Alone
<1> QED BY <1>2, <1>3, ParkedBefore

(* An approved run is parked only while the job that approves it is not at *)
(* its end, or once its rule is saved.                                     *)
LEMMA StillCarried ==
  ASSUME Typed, Next, NEW q \in DOMAIN asks, Carried(q), parked' # <<>>,
         CarryOn => asks[q].decision = None,
         (~carrying /\ Finish) => asks[q].decision = None
  PROVE  Carried(q)'
<1>1. CASE asks[q].decision # "granted" /\ asks'[q].decision = asks[q].decision BY <1>1 DEF Carried
<1>2. CASE asks[q].name \in allowed /\ asks'[q].name = asks[q].name /\ allowed \subseteq allowed'
  BY <1>2 DEF Carried
<1>3. CASE job = "answer" /\ carrying = FALSE /\ acting = None
           /\ UNCHANGED <<job, carrying, acting>>
  BY <1>3 DEF Carried
<1>4. ASSUME NEW s \in Steps, StartStep(s) PROVE Carried(q)'
  BY <1>4, NoneAssumption DEF Carried, StartStep
<1>5. ASSUME NEW n \in Names, CallGranted(n) PROVE Carried(q)'
  BY <1>5 DEF Carried, CallGranted
<1>6. ASSUME NEW n \in Names, CallHeld(n) PROVE Carried(q)'
  <2>1. /\ Following
        /\ asks'[q].decision = IF q \in holding /\ asks[q].name = n /\ asks[q].decision = None
                                  THEN "refused" ELSE asks[q].decision
    BY <1>6, HeldAsks
  <2>2. acting # None /\ allowed' = allowed BY <1>6 DEF CallHeld
  <2> QED BY <2>1, <2>2 DEF Carried, Following
<1>7. ASSUME End PROVE Carried(q)' BY <1>7 DEF Carried, End
<1>8. ASSUME Crash PROVE Carried(q)'
  <2>1. acting # None /\ UNCHANGED <<asks, allowed>> BY <1>8 DEF Crash
  <2> QED BY <2>1 DEF Carried
<1>9. ASSUME CarryOn PROVE Carried(q)'
  <2>1. UNCHANGED <<asks, allowed>> BY <1>9 DEF CarryOn
  <2> QED BY <1>9, <2>1, NoneAssumption DEF Carried
<1>10. ASSUME Resume PROVE Carried(q)'
  <2>1. carrying /\ UNCHANGED <<asks, allowed>> BY <1>10 DEF Resume
  <2> QED BY <2>1 DEF Carried
<1>11. ASSUME Finish PROVE Carried(q)'
  <2>1. UNCHANGED <<asks, allowed>> BY <1>11 DEF Finish
  <2>2. CASE carrying BY <2>1, <2>2 DEF Carried
  <2>3. CASE ~carrying BY <1>11, <2>1, <2>3, NoneAssumption DEF Carried
  <2> QED BY <2>2, <2>3
<1>12. ASSUME NEW r \in DOMAIN asks, Answer(r) PROVE Carried(q)'
  <2>1. job' = "answer" /\ job = None /\ UNCHANGED <<carrying, acting>> BY <1>12 DEF Answer
  <2> QED BY <2>1 DEF Carried, Typed
<1>13. ASSUME NEW r \in saving, NEW ok \in BOOLEAN, Saved(r, ok) PROVE Carried(q)'
  <2>1. DOMAIN asks' = DOMAIN asks /\ Following BY <1>13, SavedDecides, AsksDecided
  <2>2. allowed \subseteq allowed' /\ UNCHANGED <<job, carrying, acting>> BY <1>13 DEF Saved
  <2>3. CASE q # r
    <3>1. asks'[q] = asks[q] BY <1>13, <2>3 DEF Saved
    <3> QED BY <2>2, <3>1 DEF Carried
  <2>4. CASE q = r /\ asks[q].decision # None
    <3>1. asks'[q].decision = asks[q].decision /\ asks'[q].name = asks[q].name
      BY <2>1, <2>4 DEF Following
    <3> QED BY <2>2, <3>1 DEF Carried
  <2>5. CASE q = r /\ asks[q].decision = None
    <3>1. asks[q] = [name |-> asks[q].name, step |-> asks[q].step, decision |-> None]
      BY <2>5, Numbered
    <3>2. asks'[q].decision = IF ok THEN "granted" ELSE "refused"
      BY <1>13, <2>5, <3>1 DEF Saved, Decide
    <3>3. CASE ok
      <4>1. asks[q].name \in allowed' /\ asks'[q].name = asks[q].name
        BY <1>13, <2>1, <2>5, <3>3 DEF Saved, Following
      <4> QED BY <4>1 DEF Carried
    <3>4. CASE ~ok BY <3>2, <3>4 DEF Carried
    <3> QED BY <3>3, <3>4
  <2> QED BY <2>3, <2>4, <2>5
<1>14. ~Recover /\ ~Restart BY DEF Recover, Restart
<1> QED BY <1>4, <1>5, <1>6, <1>7, <1>8, <1>9, <1>10, <1>11, <1>12, <1>13, <1>14, NextActions

(* Once the runs that are decided carry on, none that is parked is. *)
LEMMA StayingUndecided ==
  ASSUME Typed, CarryOn, NEW i \in DOMAIN parked'
  PROVE  asks[parked'[i].hold].decision = None
<1>1. Staying \subseteq DOMAIN parked BY DEF Staying
<1>2. parked \in Seq([hold : DOMAIN asks, rest : Seq(DOMAIN asks)]) BY DEF Typed
<1>3. parked' = Picked(parked, Staying) BY DEF CarryOn, Staying
<1>4. PICK nth : Picks(parked, Staying, parked', nth) BY <1>1, <1>2, <1>3, PickedEntries
<1>5. PICK j \in Staying : parked'[i] = parked[j] BY <1>4 DEF Picks
<1>6. PICK at : Picks(parked, DecidedPlaces, Ready, at) BY ReadyParked
<1>7. ASSUME j \in DecidedPlaces PROVE FALSE
  <2>1. PICK k \in DOMAIN Ready : at[k] = j BY <1>6, <1>7 DEF Picks
  <2>2. Ready[k] = parked[j] BY <1>6, <2>1 DEF Picks
  <2> QED BY <1>5, <2>1, <2>2 DEF Staying
<1> QED BY <1>1, <1>5, <1>7 DEF DecidedPlaces, Decided

(* Every step leaves no approved run behind. *)
LEMMA NextCarries == ASSUME Typed, CarryInv, Next PROVE CarryInv'
<1> SUFFICES ASSUME NEW i \in DOMAIN parked', NEW q, q = parked'[i].hold PROVE Carried(q)'
  BY DEF CarryInv
<1>1. CASE \E j \in DOMAIN parked : parked'[i] = parked[j]
  <2>1. q \in DOMAIN asks /\ Carried(q) BY <1>1, ParkedHolds DEF CarryInv
  <2>2. parked' # <<>> OBVIOUS
  <2>3. CarryOn => asks[q].decision = None BY StayingUndecided
  <2>4. ASSUME ~carrying, Finish PROVE asks[q].decision = None
    <3>1. Ready = <<>> /\ parked' = parked BY <2>4 DEF Finish
    <3>2. DecidedPlaces = {} BY <3>1, ReadyParked
    <3> QED BY <3>1, <3>2 DEF DecidedPlaces, Decided
  <2> QED BY <2>1, <2>2, <2>3, <2>4, StillCarried
<1>2. CASE (\E n \in Names : CallHeld(n)) /\ parked'[i] = [hold |-> Len(asks) + 1, rest |-> todo]
  <2>1. PICK n \in Names : CallHeld(n) BY <1>2
  <2>2. q = Len(asks) + 1 BY <1>2
  <2>3. asks'[Len(asks) + 1] = [name |-> n, step |-> acting, decision |-> None] BY <2>1, HeldAsks
  <2>4. asks'[q].decision = None BY <2>2, <2>3
  <2> QED BY <2>4, NoneAssumption DEF Carried
<1> QED BY <1>1, <1>2, ParkedBefore

-----------------------------------------------------------------------------
(* Each request is answered once.                                          *)

(* What a request that waits, or was answered, is in a step's course. *)
Asked(q) ==
  /\ Answered(q) <= 1
  /\ Answered(q) = 1 => q \notin open \cup pending
  /\ \/ Answered(q) = 1 \/ q \in pending
     \/ \E r \in DOMAIN asks : r > q /\ asks[r].name = asks[q].name

(* Answers are counted. *)
LEMMA AnsweredNat == ASSUME Typed, NEW q \in Requests PROVE Answered(q) \in Nat
<1>1. answers[q] \in [approved : Nat, denied : Nat] BY DEF Typed
<1> QED BY <1>1 DEF Answered

(* A step that answers nothing and asks nothing keeps what is known, if it *)
(* drops no request that is kept.                                          *)
LEMMA StillAsked ==
  ASSUME Typed, NEW q \in DOMAIN asks, Asked(q), Following, answers' = answers,
         pending' = pending, open' \subseteq open \cup pending
  PROVE  Asked(q)'
<1>1. q \in DOMAIN asks' /\ Answered(q)' = Answered(q) BY DEF Following, Answered
<1>2. Answered(q) = 1 => q \notin open' \cup pending' BY DEF Asked
<1>3. CASE \E r \in DOMAIN asks : r > q /\ asks[r].name = asks[q].name
  BY <1>1, <1>2, <1>3 DEF Asked, Following
<1>4. CASE Answered(q) = 1 \/ q \in pending BY <1>1, <1>2, <1>4 DEF Asked
<1> QED BY <1>3, <1>4 DEF Asked

(* What is adopted was open or kept, and what was kept is. *)
LEMMA AdoptedFrom == Adopted \subseteq open \cup pending /\ pending \ open \subseteq Adopted
BY DEF Adopted, Opened

(* If no two kept requests are for one name, all are adopted. *)
LEMMA PendingAdopted ==
  ASSUME \A q \in pending : Alone(q) PROVE pending \subseteq Adopted
BY AdoptedKeeps, AdoptedFrom

(* Requests that do not change follow from themselves. *)
LEMMA SameAsksFollow == ASSUME asks' = asks PROVE Following
BY DEF Following

(* What is known once nothing happened that the last state does not tell. *)
Known ==
  /\ \A q \in pending : Alone(q)
  /\ job # None => pending \subseteq open
  /\ \A q \in DOMAIN asks : Asked(q)

(* AskedInv, in parts. *)
LEMMA KnownAsked ==
  AskedInv <=> /\ \A q \in Requests \ DOMAIN asks : Answered(q) = 0
               /\ ~behind => Known
BY DEF AskedInv, Known, Asked

(* A step without a new request or an answer keeps it, if no kept request  *)
(* is given up.                                                            *)
LEMMA SameKnown ==
  ASSUME Typed, AskedInv, DOMAIN asks' = DOMAIN asks, Following, answers' = answers,
         ~behind' => /\ ~behind /\ pending' = pending /\ open' \subseteq open \cup pending
                     /\ job' # None => pending \subseteq open'
  PROVE  AskedInv'
<1>1. (\A q \in Requests \ DOMAIN asks : Answered(q) = 0)' BY KnownAsked DEF Answered
<1>2. ASSUME ~behind' PROVE Known'
  <2>1. Known BY <1>2, KnownAsked
  <2>2. \A q \in DOMAIN asks : Asked(q)' BY <1>2, <2>1, StillAsked DEF Known
  <2>3. \A q \in pending : asks'[q].name = asks[q].name BY DEF Following, Typed
  <2>4. (\A q \in pending : Alone(q))' BY <1>2, <2>1, <2>3 DEF Alone, Known
  <2> QED BY <1>2, <2>2, <2>4 DEF Known
<1>3. AskedInv' <=> /\ (\A q \in Requests \ DOMAIN asks : Answered(q) = 0)'
                    /\ ~behind' => Known'
  BY DEF AskedInv, Known, Asked
<1> QED BY <1>1, <1>2, <1>3

(* A call that is held takes the place of the request kept for its name. *)
LEMMA HeldAsked ==
  ASSUME Typed, AskedInv, NEW n \in Names, CallHeld(n) PROVE AskedInv'
<1>1. PICK new : new = Len(asks) + 1 OBVIOUS
<1>2. /\ Following /\ new \notin DOMAIN asks /\ DOMAIN asks' = DOMAIN asks \cup {new}
      /\ asks'[new].name = n /\ Len(asks') <= MaxAsks
      /\ asks' \in Seq([name : Names, step : Steps, decision : Decisions])
  <2>1. /\ DOMAIN asks' = DOMAIN asks \cup {Len(asks) + 1} /\ Following
        /\ Len(asks) + 1 \notin DOMAIN asks
        /\ asks'[Len(asks) + 1] = [name |-> n, step |-> acting, decision |-> None]
        /\ Len(asks') <= MaxAsks /\ asks' \in Seq([name : Names, step : Steps, decision : Decisions])
    BY HeldAsks
  <2> QED BY <1>1, <2>1
<1>3. new \in Requests /\ \A q \in DOMAIN asks : new > q
  <2>1. Len(asks) \in Nat /\ Len(asks) < MaxAsks /\ DOMAIN asks = 1..Len(asks)
    BY Numbered DEF CallHeld
  <2> QED BY <1>1, <2>1, BoundsAssumption DEF Requests
<1>4. /\ open' = Others(open, n) \cup {new} /\ pending' = Others(pending, n) \cup {new}
      /\ answers' = answers /\ behind' = behind /\ job' = None
  BY <1>1 DEF CallHeld, user
<1>5. Answered(new) = 0 /\ \A q \in Requests \ DOMAIN asks : Answered(q) = 0
  BY <1>2, <1>3, KnownAsked
<1>6. (\A q \in Requests \ DOMAIN asks : Answered(q) = 0)' BY <1>2, <1>4, <1>5 DEF Answered
<1>7. ASSUME ~behind PROVE Known'
  <2>1. Known BY <1>7, KnownAsked
  <2>2. ASSUME NEW q \in DOMAIN asks PROVE Asked(q)'
    <3>1. Asked(q) /\ Answered(q)' = Answered(q) /\ q # new /\ q \in Requests
      BY <1>2, <1>4, <2>1, Numbered DEF Known, Answered
    <3>2. Answered(q) = 1 => q \notin open' \cup pending'
      BY <1>4, <3>1 DEF Asked, Others
    <3>3. asks'[q].name = asks[q].name BY <1>2 DEF Following
    <3>4. CASE \E r \in DOMAIN asks : r > q /\ asks[r].name = asks[q].name
      BY <1>2, <3>1, <3>2, <3>4 DEF Asked, Following
    <3>5. CASE q \in pending /\ asks[q].name = n
      BY <1>2, <1>3, <3>1, <3>2, <3>3, <3>5 DEF Asked
    <3>6. CASE q \in pending /\ asks[q].name # n
      <4>1. q \in pending' BY <1>4, <3>6 DEF Others
      <4> QED BY <3>1, <3>2, <4>1 DEF Asked
    <3>7. CASE Answered(q) = 1 BY <3>1, <3>2, <3>7 DEF Asked
    <3> QED BY <3>1, <3>4, <3>5, <3>6, <3>7 DEF Asked
  <2>3. Asked(new)'
    <3>1. Answered(new)' = 0 BY <1>4, <1>5 DEF Answered
    <3>2. new \in pending' BY <1>4
    <3> QED BY <3>1, <3>2 DEF Asked
  <2>4. (\A q \in pending : Alone(q))'
    <3> SUFFICES ASSUME NEW q \in pending', NEW r \in pending', asks'[r].name = asks'[q].name
                 PROVE  r = q
      BY DEF Alone
    <3>1. \A p \in pending' : \/ p = new
                              \/ p \in pending /\ p \in DOMAIN asks /\ asks'[p].name = asks[p].name
                                 /\ asks[p].name # n
      BY <1>2, <1>4 DEF Others, Following, Typed
    <3>2. CASE q = new \/ r = new BY <1>2, <3>1, <3>2
    <3>3. CASE q # new /\ r # new BY <2>1, <3>1, <3>3 DEF Known, Alone
    <3> QED BY <3>2, <3>3
  <2> QED BY <1>2, <1>4, <2>2, <2>3, <2>4 DEF Known
<1>8. AskedInv' <=> /\ (\A q \in Requests \ DOMAIN asks : Answered(q) = 0)'
                    /\ ~behind' => Known'
  BY DEF AskedInv, Known, Asked
<1> QED BY <1>4, <1>6, <1>7, <1>8

(* An answer takes a request that was not answered before. *)
LEMMA AnswerAsked ==
  ASSUME Typed, AskedInv, NEW r \in DOMAIN asks, Answer(r) PROVE AskedInv'
<1>1. DOMAIN asks' = DOMAIN asks /\ Following BY AnswerDecides, AsksDecided
<1>2. /\ r \in Adopted /\ open' = Adopted \ {r} /\ pending' = pending \cap open' /\ behind' = behind
  BY DEF Answer, Pruned
<1>3. r \in Requests /\ answers[r] \in [approved : Nat, denied : Nat] BY Numbered DEF Typed
<1>4. \/ answers' = [answers EXCEPT ![r].approved = @ + 1]
      \/ answers' = [answers EXCEPT ![r].denied = @ + 1]
  BY DEF Answer, Approve, Deny
<1>5. Answered(r)' = Answered(r) + 1 /\ \A q \in Requests : q # r => Answered(q)' = Answered(q)
  <2>1. answers \in [Requests -> [approved : Nat, denied : Nat]] BY DEF Typed
  <2>2. PICK a \in Nat, d \in Nat : answers[r] = [approved |-> a, denied |-> d] BY <1>3
  <2>3. \/ answers'[r] = [approved |-> a + 1, denied |-> d]
        \/ answers'[r] = [approved |-> a, denied |-> d + 1]
    BY <1>3, <1>4, <2>1, <2>2
  <2>4. Answered(r) = a + d BY <2>2 DEF Answered
  <2>5. Answered(r)' = (a + d) + 1 BY <2>2, <2>3 DEF Answered
  <2>6. \A q \in Requests : q # r => answers'[q] = answers[q] BY <1>4, <2>1
  <2> QED BY <2>4, <2>5, <2>6 DEF Answered
<1>6. (\A q \in Requests \ DOMAIN asks : Answered(q) = 0)'
  BY <1>1, <1>5, KnownAsked
<1>7. ASSUME ~behind PROVE Known'
  <2>1. Known BY <1>7, KnownAsked
  <2>2. Adopted \subseteq open \cup pending /\ pending \subseteq Adopted
    BY <2>1, AdoptedFrom, PendingAdopted DEF Known
  <2>3. Answered(r) = 0
    <3>1. Asked(r) /\ r \in open \cup pending /\ Answered(r) \in Nat
      BY <1>2, <1>3, <2>1, <2>2, AnsweredNat DEF Known
    <3> QED BY <3>1 DEF Asked
  <2>4. Asked(r)'
    <3>1. Answered(r)' = 1 BY <1>5, <2>3
    <3>2. r \notin open' \cup pending' BY <1>2
    <3> QED BY <3>1, <3>2 DEF Asked
  <2>5. ASSUME NEW q \in DOMAIN asks, q # r PROVE Asked(q)'
    <3>1. Asked(q) /\ Answered(q)' = Answered(q)
      BY <1>5, <2>1, <2>5, Numbered DEF Known
    <3>2. Answered(q) = 1 => q \notin open' \cup pending' BY <1>2, <2>2, <3>1 DEF Asked
    <3>3. CASE \E p \in DOMAIN asks : p > q /\ asks[p].name = asks[q].name
      BY <1>1, <3>1, <3>2, <3>3 DEF Asked, Following
    <3>4. CASE q \in pending
      <4>1. q \in pending' BY <1>2, <2>2, <2>5, <3>4
      <4> QED BY <3>1, <3>2, <4>1 DEF Asked
    <3>5. CASE Answered(q) = 1 BY <3>1, <3>2, <3>5 DEF Asked
    <3> QED BY <3>1, <3>3, <3>4, <3>5 DEF Asked
  <2>6. (\A q \in pending : Alone(q))'
    <3> SUFFICES ASSUME NEW q \in pending', NEW p \in pending', asks'[p].name = asks'[q].name
                 PROVE  p = q
      BY DEF Alone
    <3>1. p \in pending /\ q \in pending /\ p \in DOMAIN asks /\ q \in DOMAIN asks
      BY <1>2 DEF Typed
    <3> QED BY <1>1, <2>1, <3>1 DEF Following, Known, Alone
  <2>7. pending' \subseteq open' BY <1>2
  <2> QED BY <1>1, <2>4, <2>5, <2>6, <2>7 DEF Known
<1>8. AskedInv' <=> /\ (\A q \in Requests \ DOMAIN asks : Answered(q) = 0)'
                    /\ ~behind' => Known'
  BY DEF AskedInv, Known, Asked
<1> QED BY <1>2, <1>6, <1>7, <1>8

(* Every step keeps what is known of the requests. *)
LEMMA NextAsked == ASSUME Typed, AskedInv, Next PROVE AskedInv'
<1>0. ~behind => Known BY KnownAsked
<1>1. ASSUME NEW s \in Steps, StartStep(s) PROVE AskedInv'
  <2>1. asks' = asks /\ answers' = answers /\ pending' = pending /\ open' = Adopted /\ behind' = behind
    BY <1>1 DEF StartStep, user
  <2>2. ~behind => pending \subseteq Adopted BY <1>0, PendingAdopted DEF Known
  <2> QED BY <2>1, <2>2, AdoptedFrom, SameAsksFollow, SameKnown
<1>2. ASSUME NEW n \in Names, CallGranted(n) PROVE AskedInv'
  <2>1. asks' = asks /\ answers' = answers /\ pending' = pending /\ open' = open /\ behind' = behind
        /\ job' = job
    BY <1>2 DEF CallGranted
  <2> QED BY <1>0, <2>1, SameAsksFollow, SameKnown DEF Known
<1>3. ASSUME NEW n \in Names, CallHeld(n) PROVE AskedInv' BY <1>3, HeldAsked
<1>4. ASSUME End \/ Crash PROVE AskedInv'
  <2>1. asks' = asks /\ answers' = answers /\ pending' = pending \cap open /\ open' = open
        /\ behind' = behind /\ acting # None
    BY <1>4 DEF End, Crash, user, Pruned
  <2>2. job # None BY <2>1 DEF Typed
  <2>3. ~behind => pending' = pending /\ pending \subseteq open BY <1>0, <2>1, <2>2 DEF Known
  <2> QED BY <2>1, <2>3, SameAsksFollow, SameKnown
<1>5. ASSUME CarryOn \/ Resume \/ Finish PROVE AskedInv'
  <2>1. asks' = asks /\ answers' = answers /\ pending' = pending /\ open' = open /\ behind' = behind
        /\ job # None
    BY <1>5 DEF CarryOn, Resume, Finish, user, Typed
  <2> QED BY <1>0, <2>1, SameAsksFollow, SameKnown DEF Known
<1>6. ASSUME NEW q \in DOMAIN asks, Answer(q) PROVE AskedInv' BY <1>6, AnswerAsked
<1>7. ASSUME NEW q \in saving, NEW ok \in BOOLEAN, Saved(q, ok) PROVE AskedInv'
  <2>1. DOMAIN asks' = DOMAIN asks /\ Following BY <1>7, SavedDecides, AsksDecided
  <2>2. answers' = answers /\ pending' = pending /\ open' = open /\ behind' = behind /\ job' = job
    BY <1>7 DEF Saved, user
  <2> QED BY <1>0, <2>1, <2>2, SameKnown DEF Known
<1>8. ASSUME Recover PROVE AskedInv'
  <2>1. asks' = asks /\ answers' = answers /\ open' = open /\ job' = None /\ job = None
        /\ pending' = Kept /\ behind' = (behind \/ Kept # pending)
    BY <1>8 DEF Recover
  <2> QED BY <2>1, SameAsksFollow, SameKnown
<1>9. ASSUME Restart PROVE AskedInv'
  <2>1. DOMAIN asks' = DOMAIN asks /\ Following BY <1>9, RestartDecides, AsksDecided
  <2>2. answers' = answers /\ open' = {} /\ job' = None
        /\ pending' = Kept /\ behind' = (behind \/ job # None \/ Kept # pending)
    BY <1>9 DEF Restart
  <2> QED BY <2>1, <2>2, SameKnown
<1> QED BY <1>1, <1>2, <1>3, <1>4, <1>5, <1>6, <1>7, <1>8, <1>9, NextActions

-----------------------------------------------------------------------------
(* Each hold is resumed once.                                              *)

(* The holds that may be resumed are requests. *)
LEMMA PlacedTyped ==
  ASSUME Typed
  PROVE  /\ Placed \subseteq DOMAIN asks /\ In(todo) \subseteq DOMAIN asks
         /\ \A i \in DOMAIN parked : In(Block(parked[i])) \subseteq DOMAIN asks
<1>1. ASSUME NEW seq \in Seq(DOMAIN asks) PROVE In(seq) \subseteq DOMAIN asks
  BY ElementOfSeq, LenProperties DEF In
<1>2. In(todo) \subseteq DOMAIN asks BY <1>1 DEF Typed
<1>3. ASSUME NEW i \in DOMAIN parked PROVE In(Block(parked[i])) \subseteq DOMAIN asks
  <2>1. parked \in Seq([hold : DOMAIN asks, rest : Seq(DOMAIN asks)]) BY DEF Typed
  <2>2. Block(parked[i]) \in Seq(DOMAIN asks) BY <2>1, BlocksTyped
  <2> QED BY <1>1, <2>2
<1> QED BY <1>2, <1>3 DEF Placed

(* The first of a sequence without repeats is not in the rest. *)
LEMMA HeadAndTail ==
  ASSUME NEW S, NEW seq \in Seq(S), seq # <<>>, Distinct(seq)
  PROVE  /\ Head(seq) \in In(seq) /\ In(Tail(seq)) = In(seq) \ {Head(seq)}
         /\ Distinct(Tail(seq))
<1>1. Len(seq) \in Nat /\ Len(seq) # 0 /\ DOMAIN seq = 1..Len(seq) BY LenProperties, EmptySeq
<1>2. PICK tail : tail = Tail(seq) OBVIOUS
<1>3. /\ tail \in Seq(S) /\ Len(tail) = Len(seq) - 1 /\ Head(seq) = seq[1]
      /\ \A i \in 1..(Len(seq) - 1) : tail[i] = seq[i + 1]
  BY <1>1, <1>2, HeadTailProperties
<1>4. DOMAIN tail = 1..(Len(seq) - 1) BY <1>1, <1>3, LenProperties
<1>5. \A i \in DOMAIN tail : i \in Int /\ i + 1 \in DOMAIN seq /\ i + 1 # 1 /\ tail[i] = seq[i + 1]
  BY <1>1, <1>3, <1>4
<1>6. 1 \in DOMAIN seq BY <1>1
<1>7. In(tail) \subseteq In(seq) \ {seq[1]} BY <1>5, <1>6 DEF In, Distinct
<1>8. ASSUME NEW q \in In(seq), q # seq[1] PROVE q \in In(tail)
  <2>1. PICK j \in DOMAIN seq : seq[j] = q BY DEF In
  <2>2. PICK i : i = j - 1 OBVIOUS
  <2>3. i \in DOMAIN tail /\ i + 1 = j BY <1>1, <1>4, <1>8, <2>1, <2>2
  <2> QED BY <1>5, <2>1, <2>3 DEF In
<1>9. Distinct(tail) BY <1>5 DEF Distinct
<1>10. In(tail) = In(seq) \ {seq[1]} BY <1>7, <1>8
<1>11. seq[1] \in In(seq) BY <1>6 DEF In
<1> QED BY <1>2, <1>3, <1>9, <1>10, <1>11

(* What CarryOn makes of the places: those of the runs that are ready move *)
(* to the line.                                                            *)
LEMMA CarriedOnPlaces ==
  ASSUME Typed, PlacesInv, CarryOn
  PROVE  PlacesInv' /\ Placed' \subseteq Placed
<1>1. PICK at : Picks(parked, DecidedPlaces, Ready, at) BY ReadyParked
<1>2. PICK nth : Picks(parked, Staying, parked', nth)
  <2>1. Staying \subseteq DOMAIN parked BY DEF Staying
  <2>2. parked \in Seq([hold : DOMAIN asks, rest : Seq(DOMAIN asks)]) BY DEF Typed
  <2>3. parked' = Picked(parked, Staying) BY DEF CarryOn, Staying
  <2> QED BY <2>1, <2>2, <2>3, PickedEntries
<1>3. PICK seqs : seqs = Blocks(Ready) OBVIOUS
<1>4. /\ seqs \in Seq(Seq(DOMAIN asks)) /\ DOMAIN seqs = DOMAIN Ready
      /\ \A k \in DOMAIN Ready : seqs[k] = Block(Ready[k])
  BY <1>3, ReadyParked, BlocksTyped
<1>5. \A k \in DOMAIN seqs : at[k] \in DOMAIN parked /\ Ready[k] = parked[at[k]]
                             /\ seqs[k] = Block(parked[at[k]])
  BY <1>1, <1>4 DEF Picks, DecidedPlaces
<1>6. \A k, l \in DOMAIN seqs : at[k] = at[l] => k = l BY <1>1, <1>4 DEF Picks
<1>7. \A k \in DOMAIN seqs : Distinct(seqs[k]) BY <1>5 DEF PlacesInv
<1>8. \A k, l \in DOMAIN seqs : k # l => In(seqs[k]) \cap In(seqs[l]) = {}
  BY <1>5, <1>6 DEF PlacesInv
<1>9. todo' = FlattenSeq(seqs) BY <1>3, HoldsFlatten DEF CarryOn
<1>10. Distinct(todo') /\ In(todo') = UNION {In(seqs[k]) : k \in DOMAIN seqs}
  BY <1>4, <1>7, <1>8, <1>9, FlattenDistinct
<1>11. \A i \in DOMAIN parked' : nth[i] \in DOMAIN parked /\ parked'[i] = parked[nth[i]]
                                 /\ \A k \in DOMAIN seqs : at[k] # nth[i]
  BY <1>2, <1>4, <1>5 DEF Picks, Staying
<1>12. \A i, j \in DOMAIN parked' : nth[i] = nth[j] => i = j BY <1>2 DEF Picks
<1>13. \A i \in DOMAIN parked' : Distinct(Block(parked'[i])) BY <1>11 DEF PlacesInv
<1>14. ASSUME NEW i \in DOMAIN parked' PROVE In(Block(parked'[i])) \cap In(todo') = {}
  <2>1. \A k \in DOMAIN seqs : In(Block(parked'[i])) \cap In(seqs[k]) = {}
    BY <1>5, <1>11 DEF PlacesInv
  <2> QED BY <1>10, <2>1
<1>15. \A i, j \in DOMAIN parked' : i # j => In(Block(parked'[i])) \cap In(Block(parked'[j])) = {}
  BY <1>11, <1>12 DEF PlacesInv
<1>16. PlacesInv' BY <1>10, <1>13, <1>14, <1>15 DEF PlacesInv, In, Distinct, Block
<1>17. Placed' \subseteq Placed
  <2>1. In(todo') \subseteq Placed BY <1>5, <1>10 DEF Placed
  <2>2. \A i \in DOMAIN parked' : In(Block(parked'[i])) \subseteq Placed BY <1>11 DEF Placed
  <2>3. Placed' = In(todo') \cup UNION {In(Block(parked'[i])) : i \in DOMAIN parked'}
    BY DEF Placed, In, Block
  <2> QED BY <2>1, <2>2, <2>3
<1> QED BY <1>16, <1>17

(* A held call is parked with what was in line. *)
LEMMA HeldPlaces ==
  ASSUME Typed, PlacesInv, NEW n \in Names, CallHeld(n)
  PROVE  PlacesInv' /\ Placed' \subseteq Placed \cup {Len(asks) + 1}
<1>1. PICK new : new = Len(asks) + 1 OBVIOUS
<1>2. PICK entry : entry = [hold |-> new, rest |-> todo] OBVIOUS
<1>3. new \notin DOMAIN asks BY <1>1, HeldAsks
<1>4. parked' = Append(parked, entry) /\ todo' = <<>> BY <1>1, <1>2 DEF CallHeld
<1>5. PICK T : T = DOMAIN asks \cup {new} OBVIOUS
<1>6. entry \in [hold : T, rest : Seq(T)] /\ <<new>> \in Seq(T) /\ todo \in Seq(T)
      /\ parked \in Seq([hold : T, rest : Seq(T)])
  <2>1. todo \in Seq(T) BY <1>5, SeqGrows DEF Typed
  <2>2. parked \in Seq([hold : T, rest : Seq(T)]) BY <1>5, PlacesGrow DEF Typed
  <2> QED BY <1>2, <1>5, <2>1, <2>2
<1>7. /\ Len(parked) \in Nat /\ DOMAIN parked = 1..Len(parked)
      /\ DOMAIN parked' = 1..(Len(parked) + 1)
      /\ \A i \in DOMAIN parked : parked'[i] = parked[i]
      /\ parked'[Len(parked) + 1] = entry
  <2>1. PICK V : V = [hold : T, rest : Seq(T)] OBVIOUS
  <2>2. parked \in Seq(V) /\ entry \in V BY <1>6, <2>1
  <2>3. /\ Len(parked') = Len(parked) + 1 /\ parked' \in Seq(V) /\ Len(parked) \in Nat
        /\ \A j \in 1..Len(parked) : parked'[j] = parked[j]
        /\ parked'[Len(parked) + 1] = entry
    BY <1>4, <2>2, AppendProperties, LenProperties
  <2>4. DOMAIN parked = 1..Len(parked) /\ DOMAIN parked' = 1..(Len(parked) + 1)
    BY <2>2, <2>3, LenProperties
  <2> QED BY <2>3, <2>4
<1>8. Block(entry) = <<new>> \o todo BY <1>2 DEF Block
<1>9. In(<<new>>) = {new} /\ Distinct(<<new>>) BY DEF In, Distinct
<1>10. new \notin In(todo) /\ \A i \in DOMAIN parked : new \notin In(Block(parked[i]))
  BY <1>3, PlacedTyped
<1>11. In(Block(entry)) = {new} \cup In(todo) /\ Distinct(Block(entry))
  <2>1. PICK one : one = <<new>> OBVIOUS
  <2>2. one \in Seq(T) /\ In(one) = {new} /\ Distinct(one) BY <1>6, <1>9, <2>1
  <2>3. Distinct(todo) /\ In(one) \cap In(todo) = {} BY <1>10, <2>2 DEF PlacesInv
  <2>4. In(one \o todo) = {new} \cup In(todo) /\ Distinct(one \o todo)
    BY <1>6, <2>2, <2>3, ConcatDistinct
  <2> QED BY <1>8, <2>1, <2>4
<1>12. In(todo') = {} /\ Distinct(todo') BY <1>4 DEF In, Distinct
<1>13. \A i \in DOMAIN parked' : \/ i \in DOMAIN parked /\ parked'[i] = parked[i]
                                 \/ i = Len(parked) + 1 /\ parked'[i] = entry
  BY <1>7
<1>14. \A i \in DOMAIN parked' : Distinct(Block(parked'[i])) BY <1>11, <1>13 DEF PlacesInv
<1>15. \A i \in DOMAIN parked : In(Block(parked[i])) \cap In(Block(entry)) = {}
  BY <1>10, <1>11 DEF PlacesInv
<1>16. \A i, j \in DOMAIN parked' : i # j => In(Block(parked'[i])) \cap In(Block(parked'[j])) = {}
  BY <1>13, <1>15 DEF PlacesInv
<1>17. PlacesInv' BY <1>12, <1>14, <1>16 DEF PlacesInv, In, Distinct, Block
<1>18. Placed' \subseteq Placed \cup {new}
  <2>1. \A i \in DOMAIN parked' : In(Block(parked'[i])) \subseteq Placed \cup {new}
    BY <1>11, <1>13 DEF Placed
  <2>2. Placed' = In(todo') \cup UNION {In(Block(parked'[i])) : i \in DOMAIN parked'}
    BY DEF Placed, In, Block
  <2> QED BY <1>12, <2>1, <2>2
<1> QED BY <1>1, <1>17, <1>18

(* A hold that is resumed is no longer in line. *)
LEMMA ResumedPlaces ==
  ASSUME Typed, PlacesInv, Resume
  PROVE  PlacesInv' /\ Placed' = Placed \ {Head(todo)} /\ Head(todo) \in Placed
<1>1. PICK q : q = Head(todo) OBVIOUS
<1>2. /\ todo \in Seq(DOMAIN asks) /\ todo # <<>> /\ Distinct(todo) /\ todo' = Tail(todo)
      /\ parked' = parked
  BY DEF Typed, PlacesInv, Resume
<1>3. q \in In(todo) /\ In(todo') = In(todo) \ {q} /\ Distinct(todo')
  BY <1>1, <1>2, HeadAndTail
<1>4. \A i \in DOMAIN parked : q \notin In(Block(parked[i])) /\ In(Block(parked[i])) \cap In(todo') = {}
  BY <1>3 DEF PlacesInv
<1>5. PlacesInv'
  <2>1. \A i \in DOMAIN parked' : Distinct(Block(parked'[i])) BY <1>2 DEF PlacesInv
  <2>2. \A i \in DOMAIN parked' : In(Block(parked'[i])) \cap In(todo') = {} BY <1>2, <1>4
  <2>3. \A i, j \in DOMAIN parked' : i # j => In(Block(parked'[i])) \cap In(Block(parked'[j])) = {}
    BY <1>2 DEF PlacesInv
  <2> QED BY <1>3, <2>1, <2>2, <2>3 DEF PlacesInv, In, Distinct, Block
<1>6. Placed' = In(todo') \cup UNION {In(Block(parked[i])) : i \in DOMAIN parked}
  BY <1>2 DEF Placed, In, Block
<1>7. Placed' = Placed \ {q} BY <1>3, <1>4, <1>6 DEF Placed
<1> QED BY <1>1, <1>3, <1>5, <1>7 DEF Placed

(* What the other steps do to the places: they keep them, or drop some. *)
LEMMA DroppedPlaces ==
  ASSUME PlacesInv, todo' = todo \/ todo' = <<>>, parked' = parked \/ parked' = <<>>
  PROVE  PlacesInv' /\ Placed' \subseteq Placed
<1>1. Distinct(todo') /\ In(todo') \subseteq In(todo) BY DEF PlacesInv, Distinct, In
<1>2. \A i \in DOMAIN parked' : i \in DOMAIN parked /\ parked'[i] = parked[i] OBVIOUS
<1>3. PlacesInv'
  <2>1. \A i \in DOMAIN parked' : Distinct(Block(parked'[i])) BY <1>2 DEF PlacesInv
  <2>2. \A i \in DOMAIN parked' : In(Block(parked'[i])) \cap In(todo') = {}
    BY <1>1, <1>2 DEF PlacesInv
  <2>3. \A i, j \in DOMAIN parked' : i # j => In(Block(parked'[i])) \cap In(Block(parked'[j])) = {}
    BY <1>2 DEF PlacesInv
  <2> QED BY <1>1, <2>1, <2>2, <2>3 DEF PlacesInv, In, Distinct, Block
<1>4. Placed' = In(todo') \cup UNION {In(Block(parked'[i])) : i \in DOMAIN parked'}
  BY DEF Placed, In, Block
<1>5. Placed' \subseteq Placed BY <1>1, <1>2, <1>4 DEF Placed
<1> QED BY <1>3, <1>5

(* The steps that move no hold, or forget them all. *)
LEMMA OtherPlaces ==
  ASSUME Typed, Next
  PROVE  \/ CarryOn \/ Resume \/ \E n \in Names : CallHeld(n)
         \/ (todo' = todo \/ todo' = <<>>) /\ (parked' = parked \/ parked' = <<>>)
BY NextActions DEF StartStep, CallGranted, End, Crash, Finish, Answer, Saved, Recover, Restart

(* Every step leaves each hold in one place. *)
LEMMA NextPlaces == ASSUME Typed, PlacesInv, Next PROVE PlacesInv'
BY OtherPlaces, CarriedOnPlaces, ResumedPlaces, HeldPlaces, DroppedPlaces

-----------------------------------------------------------------------------
(* One approval lets one call through.                                     *)

(* Calls and approvals are counted. *)
LEMMA CountsTyped ==
  ASSUME Typed, NEW q \in DOMAIN asks
  PROVE  /\ calls[q] \in Nat /\ answers[q].approved \in Nat /\ answers[q].denied \in Nat
         /\ Spare(q) \in {0, 1} /\ Due(q) \in {0, 1} /\ q \in Requests
<1>1. q \in Requests BY Numbered
<1>2. answers[q] \in [approved : Nat, denied : Nat] /\ calls[q] \in Nat BY <1>1 DEF Typed
<1> QED BY <1>1, <1>2 DEF Spare, Due

(* What is known of a request holds on if its calls stay, and no more can  *)
(* come of it.                                                             *)
Once(q) == calls[q] + Spare(q) + Due(q) <= answers[q].approved

(* What is known of a request holds on if its calls and approvals stay,    *)
(* and no more calls can come of it.                                       *)
LEMMA StillOnce ==
  ASSUME Typed, Typed', NEW q \in DOMAIN asks, q \in DOMAIN asks', Once(q),
         calls'[q] = calls[q], answers'[q].approved = answers[q].approved,
         Spare(q)' = 1 => Spare(q) = 1, Due(q)' = 1 => Due(q) = 1
  PROVE  Once(q)'
<1>1. /\ calls[q] \in Nat /\ answers[q].approved \in Nat
      /\ Spare(q) \in {0, 1} /\ Due(q) \in {0, 1}
  BY CountsTyped
<1>2. Spare(q)' \in {0, 1} /\ Due(q)' \in {0, 1} BY DEF Spare, Due
<1>3. PICK s, d, t, e : s = Spare(q) /\ d = Due(q) /\ t = Spare(q)' /\ e = Due(q)' OBVIOUS
<1>4. t <= s /\ e <= d BY <1>1, <1>2, <1>3
<1>5. calls[q] + t + e <= answers[q].approved BY <1>1, <1>2, <1>3, <1>4 DEF Once
<1> QED BY <1>3, <1>5 DEF Once

Grants == \A n \in Names : grants[n] = "once" => by[n] \in DOMAIN asks /\ asks[by[n]].name = n

Uncalled == \A q \in Requests \ DOMAIN asks : calls[q] = 0

(* OnceInv, in parts. *)
LEMMA OnceParts == OnceInv <=> Grants /\ Uncalled /\ \A q \in DOMAIN asks : Once(q)
BY DEF OnceInv, Grants, Uncalled, Once

(* Steps that let no call through and take no answer. *)
LEMMA QuietOnce ==
  ASSUME Typed, Typed', OnceInv, DOMAIN asks' = DOMAIN asks, Following,
         calls' = calls, answers' = answers, by' = by,
         \A n \in Names : grants'[n] = "once" => grants[n] = "once",
         Placed' \subseteq Placed,
         \A q \in DOMAIN asks : q \in Placed' /\ Granting(q)' => Granting(q)
  PROVE  OnceInv'
<1>1. Grants' BY OnceParts DEF Grants, Following
<1>2. Uncalled' BY OnceParts DEF Uncalled
<1>3. ASSUME NEW q \in DOMAIN asks PROVE Once(q)'
  <2>1. Once(q) BY OnceParts
  <2>2. asks'[q].name = asks[q].name /\ asks[q].name \in Names BY Numbered DEF Following
  <2>3. Spare(q)' = 1 => Spare(q) = 1 BY <2>2 DEF Spare
  <2>4. Due(q)' = 1 => Due(q) = 1 BY DEF Due
  <2> QED BY <2>1, <2>3, <2>4, StillOnce
<1>4. OnceInv' <=> Grants' /\ Uncalled' /\ \A q \in DOMAIN asks' : Once(q)'
  BY DEF OnceInv, Grants, Uncalled, Once
<1> QED BY <1>1, <1>2, <1>3, <1>4

(* The same, after a step. *)
LEMMA PrimedOnce ==
  (Grants /\ Uncalled /\ \A q \in DOMAIN asks : Once(q))' => OnceInv'
BY DEF OnceInv, Grants, Uncalled, Once

(* Holds stay in their places if no run is touched. *)
LEMMA PlacedSame ==
  ASSUME todo' = todo, parked' = parked PROVE Placed' = Placed
BY DEF Placed, In, Block

(* A call that is let through uses its grant up. *)
LEMMA GrantedOnce ==
  ASSUME Typed, Typed', OnceInv, NEW n \in Names, CallGranted(n) PROVE OnceInv'
<1>1. PICK q : q = by[n] OBVIOUS
<1>2. /\ grants[n] = "once" /\ grants' = [grants EXCEPT ![n] = None]
      /\ calls' = [calls EXCEPT ![q] = @ + 1]
      /\ asks' = asks /\ by' = by /\ answers' = answers /\ saving' = saving
  BY <1>1 DEF CallGranted
<1>3. Grants /\ Uncalled /\ \A r \in DOMAIN asks : Once(r) BY OnceParts
<1>4. q \in DOMAIN asks /\ asks[q].name = n BY <1>1, <1>2, <1>3 DEF Grants
<1>5. q \in Requests BY <1>4, Numbered
<1>6. "once" # None /\ grants \in [Names -> Scopes \cup {None}] /\ calls \in [Requests -> Nat]
  BY <1>2, NoneAssumption DEF Typed
<1>7. Placed' = Placed BY PlacedSame DEF CallGranted
<1>8. Grants' BY <1>2, <1>3, <1>6 DEF Grants
<1>9. Uncalled' BY <1>2, <1>3, <1>4, <1>6 DEF Uncalled
<1>10. ASSUME NEW r \in DOMAIN asks PROVE Due(r)' = Due(r)
  BY <1>2, <1>7 DEF Due, Granting
<1>11. ASSUME NEW r \in DOMAIN asks PROVE Spare(r)' = 1 => Spare(r) = 1
  <2>1. asks[r].name \in Names BY Numbered
  <2> QED BY <1>2, <1>6, <2>1 DEF Spare
<1>12. ASSUME NEW r \in DOMAIN asks, r # q PROVE Once(r)'
  <2>1. calls'[r] = calls[r] BY <1>2, <1>6, <1>12, Numbered
  <2> QED BY <1>2, <1>3, <1>10, <1>11, <2>1, StillOnce
<1>13. Once(q)'
  <2>1. Spare(q) = 1 /\ Spare(q)' = 0 BY <1>1, <1>2, <1>4, <1>6 DEF Spare
  <2>2. calls'[q] = calls[q] + 1 BY <1>2, <1>5, <1>6
  <2>3. PICK c, d, a : c = calls[q] /\ d = Due(q) /\ a = answers[q].approved OBVIOUS
  <2>4. c \in Nat /\ d \in {0, 1} /\ a \in Nat BY <1>4, <2>3, CountsTyped
  <2>5. c + 1 + d <= a BY <1>3, <1>4, <2>1, <2>3 DEF Once
  <2>6. (c + 1) + 0 + d <= a BY <2>4, <2>5
  <2> QED BY <1>2, <1>4, <1>10, <2>1, <2>2, <2>3, <2>6 DEF Once
<1> QED BY <1>2, <1>8, <1>9, <1>12, <1>13, PrimedOnce

(* A call that waits is due nothing before it is answered. *)
LEMMA HeldOnce ==
  ASSUME Typed, Typed', PlacesInv, OnceInv, NEW n \in Names, CallHeld(n) PROVE OnceInv'
<1>1. PICK new : new = Len(asks) + 1 OBVIOUS
<1>2. /\ Following /\ new \notin DOMAIN asks /\ DOMAIN asks' = DOMAIN asks \cup {new}
      /\ asks'[new] = [name |-> n, step |-> acting, decision |-> None]
      /\ \A q \in DOMAIN asks :
              asks'[q].decision = IF q \in holding /\ asks[q].name = n /\ asks[q].decision = None
                                  THEN "refused" ELSE asks[q].decision
  <2>1. /\ DOMAIN asks' = DOMAIN asks \cup {Len(asks) + 1} /\ Following
        /\ Len(asks) + 1 \notin DOMAIN asks
        /\ asks'[Len(asks) + 1] = [name |-> n, step |-> acting, decision |-> None]
        /\ \A q \in DOMAIN asks :
              asks'[q].decision = IF q \in holding /\ asks[q].name = n /\ asks[q].decision = None
                                  THEN "refused" ELSE asks[q].decision
    BY HeldAsks
  <2> QED BY <1>1, <2>1
<1>3. calls' = calls /\ answers' = answers /\ by' = by /\ grants' = grants /\ saving' = saving
  BY DEF CallHeld, user
<1>4. Grants /\ Uncalled /\ \A r \in DOMAIN asks : Once(r) BY OnceParts
<1>5. Placed' \subseteq Placed \cup {new} BY <1>1, HeldPlaces
<1>6. Grants' BY <1>2, <1>3, <1>4 DEF Grants, Following
<1>7. Uncalled' BY <1>2, <1>3, <1>4 DEF Uncalled
<1>8. ASSUME NEW q \in DOMAIN asks PROVE Once(q)'
  <2>1. asks'[q].name = asks[q].name /\ q # new /\ q \in DOMAIN asks' BY <1>2 DEF Following
  <2>2. Spare(q)' = 1 => Spare(q) = 1 BY <1>3, <2>1 DEF Spare
  <2>3. Granting(q)' => Granting(q) BY <1>2, <1>3, NoneAssumption DEF Granting
  <2>4. Due(q)' = 1 => Due(q) = 1 BY <1>5, <2>1, <2>3 DEF Due
  <2> QED BY <1>3, <1>4, <2>1, <2>2, <2>4, StillOnce
<1>9. Once(new)'
  <2>1. new \in Requests /\ new \in DOMAIN asks'
    <3>1. Len(asks) \in Nat /\ Len(asks) < MaxAsks BY Numbered DEF CallHeld
    <3> QED BY <1>1, <1>2, <3>1, BoundsAssumption DEF Requests
  <2>2. calls'[new] = 0 BY <1>2, <1>3, <1>4, <2>1 DEF Uncalled
  <2>3. answers'[new].approved \in Nat
    <3>1. answers \in [Requests -> [approved : Nat, denied : Nat]] BY DEF Typed
    <3> QED BY <1>3, <2>1, <3>1
  <2>4. Spare(new)' = 0 BY <1>2, <1>3, <1>4 DEF Spare, Grants
  <2>5. Due(new)' = 0
    <3>1. new \notin saving BY <1>2 DEF Typed
    <3> QED BY <1>2, <1>3, <3>1, NoneAssumption DEF Due, Granting
  <2> QED BY <2>2, <2>3, <2>4, <2>5 DEF Once
<1> QED BY <1>2, <1>6, <1>7, <1>8, <1>9, PrimedOnce

(* The call that a hold waits with is let through as it is resumed. *)
LEMMA ResumedOnce ==
  ASSUME Typed, Typed', PlacesInv, OnceInv, Resume PROVE OnceInv'
<1>1. PICK q : q = Head(todo) OBVIOUS
<1>2. Placed' = Placed \ {q} /\ q \in Placed BY <1>1, ResumedPlaces
<1>3. q \in DOMAIN asks /\ q \in Requests BY <1>2, PlacedTyped, Numbered
<1>4. /\ asks' = asks /\ by' = by /\ answers' = answers /\ saving' = saving /\ grants' = grants
      /\ calls' = IF asks[q].decision = "granted" THEN [calls EXCEPT ![q] = @ + 1] ELSE calls
  BY <1>1 DEF Resume
<1>5. Grants /\ Uncalled /\ \A r \in DOMAIN asks : Once(r) BY OnceParts
<1>6. calls \in [Requests -> Nat] BY DEF Typed
<1>7. Grants' BY <1>4, <1>5 DEF Grants
<1>8. Uncalled' BY <1>3, <1>4, <1>5, <1>6 DEF Uncalled
<1>9. \A r \in DOMAIN asks : Spare(r)' = Spare(r) BY <1>4 DEF Spare
<1>10. \A r \in DOMAIN asks : Due(r)' = 1 => Due(r) = 1 BY <1>2, <1>4 DEF Due, Granting
<1>11. ASSUME NEW r \in DOMAIN asks, r # q \/ asks[q].decision # "granted" PROVE Once(r)'
  <2>1. calls'[r] = calls[r] BY <1>4, <1>6, <1>11, Numbered
  <2> QED BY <1>4, <1>5, <1>9, <1>10, <2>1, StillOnce
<1>12. ASSUME asks[q].decision = "granted" PROVE Once(q)'
  <2>1. Due(q) = 1 /\ Due(q)' = 0 BY <1>2, <1>12 DEF Due, Granting
  <2>2. calls'[q] = calls[q] + 1 BY <1>3, <1>4, <1>6, <1>12
  <2>3. PICK c, s, a : c = calls[q] /\ s = Spare(q) /\ a = answers[q].approved OBVIOUS
  <2>4. c \in Nat /\ s \in {0, 1} /\ a \in Nat BY <1>3, <2>3, CountsTyped
  <2>5. c + s + 1 <= a BY <1>3, <1>5, <2>1, <2>3 DEF Once
  <2>6. (c + 1) + s + 0 <= a BY <2>4, <2>5
  <2> QED BY <1>3, <1>4, <1>9, <2>1, <2>2, <2>3, <2>6 DEF Once
<1> QED BY <1>4, <1>7, <1>8, <1>11, <1>12, PrimedOnce

(* An approval of one call is either left to another, or meant for the one *)
(* that is held, or that waits for the rule.                               *)
LEMMA ApprovedOnce ==
  ASSUME Typed, Typed', OnceInv, NEW q \in DOMAIN asks, Answer(q),
         NEW scope \in Scopes, Approve(q, scope)
  PROVE  OnceInv'
<1>1. DOMAIN asks' = DOMAIN asks /\ Following BY AnswerDecides, AsksDecided
<1>2. /\ grants' = GrantedBy(q, scope, q \in holding)
      /\ by' = [by EXCEPT ![asks[q].name] = q]
      /\ answers' = [answers EXCEPT ![q].approved = @ + 1]
      /\ saving' = IF Saves(scope) THEN saving \cup {q} ELSE saving
      /\ asks' = IF q \in holding /\ ~Saves(scope) THEN [asks EXCEPT ![q] = Decide(@, "granted")] ELSE asks
      /\ calls' = calls
  BY DEF Approve, Answer
<1>3. Placed' = Placed BY PlacedSame DEF Answer
<1>4. Grants /\ Uncalled /\ \A r \in DOMAIN asks : Once(r) BY OnceParts
<1>5. /\ grants \in [Names -> Scopes \cup {None}] /\ by \in [Names -> 0..MaxAsks]
      /\ answers \in [Requests -> [approved : Nat, denied : Nat]]
      /\ asks[q].name \in Names /\ q \in Requests /\ None # "once"
  BY NoneAssumption, Numbered DEF Typed
<1>6. \A n \in Names : n # asks[q].name => grants'[n] = grants[n] /\ by'[n] = by[n]
  BY <1>2, <1>5 DEF GrantedBy
<1>7. by'[asks[q].name] = q BY <1>2, <1>5
<1>8. grants'[asks[q].name] = IF q \in holding /\ scope = "once" THEN None ELSE scope
  BY <1>2, <1>5 DEF GrantedBy
<1>9. Grants' BY <1>1, <1>4, <1>6, <1>7 DEF Grants, Following
<1>10. Uncalled' BY <1>1, <1>2, <1>4 DEF Uncalled
<1>11. ASSUME NEW r \in DOMAIN asks, r # q PROVE Once(r)'
  <2>1. asks'[r] = asks[r] /\ asks[r].name \in Names /\ r \in Requests
    BY <1>2, <1>11, Numbered
  <2>2. Spare(r)' = 1 => Spare(r) = 1 BY <1>6, <1>7, <1>11, <2>1 DEF Spare
  <2>3. Due(r)' = 1 => Due(r) = 1 BY <1>2, <1>3, <1>11, <2>1 DEF Due, Granting
  <2>4. answers'[r].approved = answers[r].approved BY <1>2, <1>5, <1>11, <2>1
  <2> QED BY <1>1, <1>2, <1>4, <2>2, <2>3, <2>4, StillOnce
<1>12. Once(q)'
  <2>1. Spare(q)' = 0 \/ (Due(q)' = 1 => Due(q) = 1)
    <3>1. asks'[q].name = asks[q].name BY <1>1 DEF Following
    <3>2. CASE q \in holding \/ Saves(scope)
      <4>1. grants'[asks[q].name] # "once" BY <1>5, <1>8, <3>2 DEF Saves
      <4> QED BY <3>1, <4>1 DEF Spare
    <3>3. CASE q \notin holding /\ ~Saves(scope)
      <4>1. asks' = asks /\ saving' = saving BY <1>2, <3>3
      <4> QED BY <1>3, <4>1 DEF Due, Granting
    <3> QED BY <3>2, <3>3
  <2>2. PICK c, d, s, e, t, a : c = calls[q] /\ d = Due(q) /\ s = Spare(q)
                                /\ e = Due(q)' /\ t = Spare(q)' /\ a = answers[q].approved
    OBVIOUS
  <2>3. c \in Nat /\ d \in {0, 1} /\ s \in {0, 1} /\ a \in Nat BY <2>2, CountsTyped
  <2>4. e \in {0, 1} /\ t \in {0, 1} BY <2>2 DEF Due, Spare
  <2>5. c + s + d <= a BY <1>4, <2>2 DEF Once
  <2>6. t = 0 \/ (e = 1 => d = 1) BY <2>1, <2>2
  <2>7. c + t + e <= a + 1 BY <2>3, <2>4, <2>5, <2>6
  <2>8. answers'[q].approved = a + 1 BY <1>2, <1>5, <2>2
  <2> QED BY <1>2, <2>2, <2>7, <2>8 DEF Once
<1> QED BY <1>1, <1>9, <1>10, <1>11, <1>12, PrimedOnce

(* A denial lets no call through. *)
LEMMA DeniedOnce ==
  ASSUME Typed, Typed', OnceInv, NEW q \in DOMAIN asks, Answer(q), Deny(q) PROVE OnceInv'
<1>1. DOMAIN asks' = DOMAIN asks /\ Following BY AnswerDecides, AsksDecided
<1>2. /\ grants' = grants /\ by' = by /\ saving' = saving /\ calls' = calls
      /\ answers' = [answers EXCEPT ![q].denied = @ + 1]
      /\ asks' = IF q \in holding THEN [asks EXCEPT ![q] = Decide(@, "refused")] ELSE asks
  BY DEF Deny, Answer
<1>3. Placed' = Placed BY PlacedSame DEF Answer
<1>4. Grants /\ Uncalled /\ \A r \in DOMAIN asks : Once(r) BY OnceParts
<1>5. Grants' BY <1>1, <1>2, <1>4 DEF Grants, Following
<1>6. Uncalled' BY <1>1, <1>2, <1>4 DEF Uncalled
<1>7. ASSUME NEW r \in DOMAIN asks PROVE Once(r)'
  <2>1. answers'[r].approved = answers[r].approved
    <3>1. answers \in [Requests -> [approved : Nat, denied : Nat]] /\ r \in Requests
      BY Numbered DEF Typed
    <3> QED BY <1>2, <3>1
  <2>2. asks'[r].name = asks[r].name BY <1>1 DEF Following
  <2>3. Spare(r)' = 1 => Spare(r) = 1 BY <1>2, <2>2 DEF Spare
  <2>4. Granting(r)' => Granting(r)
    <3>1. CASE asks'[r] = asks[r] BY <1>2, <3>1 DEF Granting
    <3>2. CASE asks'[r] = Decide(asks[r], "refused")
      <4>1. asks[r] = [name |-> asks[r].name, step |-> asks[r].step, decision |-> asks[r].decision]
        BY Numbered
      <4>2. asks[r].decision = None => asks'[r].decision = "refused" BY <3>2, <4>1 DEF Decide
      <4>3. asks[r].decision # None => asks'[r].decision = asks[r].decision BY <1>1 DEF Following
      <4> QED BY <1>2, <4>2, <4>3, NoneAssumption DEF Granting
    <3> QED BY <1>2, <3>1, <3>2
  <2>5. Due(r)' = 1 => Due(r) = 1 BY <1>3, <2>4 DEF Due
  <2> QED BY <1>1, <1>2, <1>4, <2>1, <2>3, <2>5, StillOnce
<1> QED BY <1>1, <1>5, <1>6, <1>7, PrimedOnce

(* Every step keeps the count of calls below that of approvals. *)
LEMMA NextOnce == ASSUME Typed, Typed', PlacesInv, OnceInv, Next PROVE OnceInv'
<1>1. ASSUME asks' = asks, calls' = calls, answers' = answers, by' = by, saving' = saving,
             grants' = grants, Placed' \subseteq Placed
      PROVE  OnceInv'
  BY <1>1, QuietOnce, SameAsksFollow DEF Granting
<1>2. ASSUME NEW s \in Steps, StartStep(s) PROVE OnceInv'
  BY <1>1, <1>2, DroppedPlaces DEF StartStep, user
<1>3. ASSUME End \/ Crash \/ CarryOn \/ Finish \/ Recover PROVE OnceInv'
  <2>1. asks' = asks /\ calls' = calls /\ answers' = answers /\ by' = by /\ saving' = saving
        /\ grants' = grants
    BY <1>3 DEF End, Crash, CarryOn, Finish, Recover, user
  <2>2. Placed' \subseteq Placed
    BY <1>3, DroppedPlaces, CarriedOnPlaces DEF End, Crash, Finish, Recover
  <2> QED BY <1>1, <2>1, <2>2
<1>4. ASSUME NEW n \in Names, CallGranted(n) PROVE OnceInv' BY <1>4, GrantedOnce
<1>5. ASSUME NEW n \in Names, CallHeld(n) PROVE OnceInv' BY <1>5, HeldOnce
<1>6. ASSUME Resume PROVE OnceInv' BY <1>6, ResumedOnce
<1>7. ASSUME NEW q \in DOMAIN asks, Answer(q) PROVE OnceInv'
  <2>1. (\E scope \in Scopes : Approve(q, scope)) \/ Deny(q) BY <1>7 DEF Answer
  <2> QED BY <1>7, <2>1, ApprovedOnce, DeniedOnce
<1>8. ASSUME NEW q \in saving, NEW ok \in BOOLEAN, Saved(q, ok) PROVE OnceInv'
  <2>1. DOMAIN asks' = DOMAIN asks /\ Following BY <1>8, SavedDecides, AsksDecided
  <2>2. calls' = calls /\ answers' = answers /\ by' = by /\ grants' = grants /\ saving' = saving \ {q}
    BY <1>8 DEF Saved, user
  <2>3. Placed' = Placed BY <1>8, PlacedSame DEF Saved
  <2>4. \A r \in DOMAIN asks : r # q => asks'[r] = asks[r] BY <1>8 DEF Saved
  <2>5. ASSUME NEW r \in DOMAIN asks, Granting(r)' PROVE Granting(r)
    <3>1. CASE r # q BY <2>2, <2>4, <2>5, <3>1 DEF Granting
    <3>2. CASE r = q /\ asks[r].decision = None BY <3>2 DEF Granting
    <3>3. CASE r = q /\ asks[r].decision # None
      BY <2>1, <2>5, <3>3 DEF Granting, Following
    <3> QED BY <3>1, <3>2, <3>3
  <2> QED BY <2>1, <2>2, <2>3, <2>5, QuietOnce
<1>9. ASSUME Restart PROVE OnceInv'
  <2>1. DOMAIN asks' = DOMAIN asks /\ Following BY <1>9, RestartDecides, AsksDecided
  <2>2. /\ calls' = calls /\ answers' = answers /\ by' = by
        /\ grants' = [n \in Names |-> None] /\ todo' = <<>> /\ parked' = <<>>
    BY <1>9 DEF Restart
  <2>3. Placed' = {} BY <2>2 DEF Placed, In, Block
  <2>4. \A n \in Names : grants'[n] # "once" BY <2>2, NoneAssumption
  <2> QED BY <2>1, <2>2, <2>3, <2>4, QuietOnce
<1> QED BY <1>2, <1>3, <1>4, <1>5, <1>6, <1>7, <1>8, <1>9, NextActions

-----------------------------------------------------------------------------
(* Where the steps are, and the count of the guard.                        *)

(* Steps can be counted. *)
LEMMA StepsCounted ==
  /\ IsFiniteSet(Midway) /\ Cardinality(Midway) \in Nat
  /\ IsFiniteSet(Begun) /\ Cardinality(Begun) \in Nat
<1>1. Midway \in SUBSET Steps /\ Begun \in SUBSET Steps BY DEF Midway, Begun
<1> QED BY <1>1, StepsAssumption, FS_Subset, FS_CardinalityType

(* The same, after a step. *)
LEMMA StepsCountedNext ==
  /\ IsFiniteSet(Midway') /\ Cardinality(Midway') \in Nat
  /\ IsFiniteSet(Begun') /\ Cardinality(Begun') \in Nat
<1>1. Midway' \in SUBSET Steps /\ Begun' \in SUBSET Steps BY DEF Midway, Begun
<1> QED BY <1>1, StepsAssumption, FS_Subset, FS_CardinalityType

(* Steps that leave the count of the guard. *)
LEMMA GuardSame ==
  ASSUME Typed, GuardInv, armed' = armed, Midway' \subseteq Midway, Begun \subseteq Begun'
  PROVE  GuardInv'
<1>1. PICK a, b, c, d : a = Midway /\ b = Midway' /\ c = Begun /\ d = Begun' OBVIOUS
<1>2. /\ IsFiniteSet(a) /\ Cardinality(a) \in Nat /\ IsFiniteSet(d) /\ Cardinality(d) \in Nat
      /\ Cardinality(b) \in Nat /\ Cardinality(c) \in Nat
  BY <1>1, StepsCounted, StepsCountedNext
<1>3. Cardinality(b) <= Cardinality(a) /\ Cardinality(c) <= Cardinality(d) BY <1>1, <1>2, FS_Subset
<1>4. Cardinality(a) <= armed /\ armed <= Cardinality(c) /\ armed \in Int BY <1>1 DEF GuardInv, Typed
<1>5. Cardinality(b) <= armed /\ armed <= Cardinality(d) BY <1>2, <1>3, <1>4
<1> QED BY <1>1, <1>5 DEF GuardInv

(* Steps that come to their end let go of the guard. *)
LEMMA GuardLess ==
  ASSUME Typed, GuardInv, armed' = armed - 1, NEW s \in Midway, Midway' \subseteq Midway \ {s},
         Begun \subseteq Begun'
  PROVE  GuardInv'
<1>1. PICK a, b, c, d : a = Midway /\ b = Midway' /\ c = Begun /\ d = Begun' OBVIOUS
<1>2. /\ IsFiniteSet(a) /\ Cardinality(a) \in Nat /\ IsFiniteSet(d) /\ Cardinality(d) \in Nat
      /\ Cardinality(b) \in Nat /\ Cardinality(c) \in Nat
  BY <1>1, StepsCounted, StepsCountedNext
<1>3. IsFiniteSet(a \ {s}) /\ Cardinality(a \ {s}) = Cardinality(a) - 1
  BY <1>1, <1>2, FS_RemoveElement
<1>4. Cardinality(b) <= Cardinality(a \ {s}) /\ Cardinality(c) <= Cardinality(d)
  <2>1. b \in SUBSET (a \ {s}) /\ c \in SUBSET d BY <1>1
  <2> QED BY <1>2, <1>3, <2>1, FS_Subset
<1>5. Cardinality(a) <= armed /\ armed <= Cardinality(c) /\ armed \in Int BY <1>1 DEF GuardInv, Typed
<1>6. Cardinality(b) <= armed - 1 /\ armed - 1 <= Cardinality(d) BY <1>2, <1>3, <1>4, <1>5
<1> QED BY <1>1, <1>6 DEF GuardInv

(* A step that begins puts the guard up once more. *)
LEMMA StartSteps ==
  ASSUME Typed, PlacesInv, StepsInv, GuardInv, NEW s \in Steps, StartStep(s)
  PROVE  StepsInv' /\ GuardInv'
<1>1. /\ steps[s] = "new" /\ steps' = [steps EXCEPT ![s] = "running"] /\ acting' = s /\ acting = None
      /\ asks' = asks /\ armed' = armed + 1 /\ carrying' = carrying /\ todo' = todo
  BY DEF StartStep, Typed
<1>2. steps \in [Steps -> {"new", "running", "held", "ended", "lost"}] BY DEF Typed
<1>3. Placed' = Placed BY PlacedSame DEF StartStep
<1>4. \A r \in Steps : steps[r] # "running" BY <1>1, NoneAssumption DEF StepsInv
<1>5. \A r \in Steps : steps'[r] = IF r = s THEN "running" ELSE steps[r] BY <1>1, <1>2
<1>6. StepsInv'
  <2>1. \A r \in Steps : steps'[r] = "running" <=> r = acting' BY <1>1, <1>4, <1>5
  <2>2. \A q \in Placed : steps'[asks[q].step] = "held"
    <3>1. \A q \in Placed : asks[q].step \in Steps BY PlacedTyped, Numbered
    <3> QED BY <1>1, <1>5, <3>1 DEF StepsInv
  <2> QED BY <1>1, <1>3, <2>1, <2>2 DEF StepsInv
<1>7. GuardInv'
  <2>1. Midway' = Midway \cup {s} /\ Begun' = Begun \cup {s} /\ s \notin Midway /\ s \notin Begun
    BY <1>1, <1>5 DEF Midway, Begun
  <2>2. Cardinality(Midway') = Cardinality(Midway) + 1 /\ Cardinality(Begun') = Cardinality(Begun) + 1
    BY <2>1, StepsCounted, FS_AddElement
  <2>3. PICK m, b : m = Cardinality(Midway) /\ b = Cardinality(Begun) OBVIOUS
  <2>4. m \in Nat /\ b \in Nat /\ armed \in Int /\ m <= armed /\ armed <= b
    BY <2>3, StepsCounted DEF GuardInv, Typed
  <2>5. m + 1 <= armed + 1 /\ armed + 1 <= b + 1 BY <2>4
  <2> QED BY <1>1, <2>2, <2>3, <2>5 DEF GuardInv
<1> QED BY <1>6, <1>7

(* A step that is held keeps the guard up. *)
LEMMA HeldCallSteps ==
  ASSUME Typed, PlacesInv, StepsInv, GuardInv, NEW n \in Names, CallHeld(n)
  PROVE  StepsInv' /\ GuardInv'
<1>1. PICK new : new = Len(asks) + 1 OBVIOUS
<1>2. /\ Following /\ new \notin DOMAIN asks /\ asks'[new].step = acting
  <2>1. /\ Following /\ Len(asks) + 1 \notin DOMAIN asks
        /\ asks'[Len(asks) + 1] = [name |-> n, step |-> acting, decision |-> None]
    BY HeldAsks
  <2> QED BY <1>1, <2>1
<1>3. /\ acting \in Steps /\ acting' = None /\ steps' = [steps EXCEPT ![acting] = "held"]
      /\ armed' = armed /\ todo' = <<>>
  BY DEF CallHeld, Typed
<1>4. steps \in [Steps -> {"new", "running", "held", "ended", "lost"}] BY DEF Typed
<1>5. \A r \in Steps : steps'[r] = IF r = acting THEN "held" ELSE steps[r] BY <1>3, <1>4
<1>6. Placed' \subseteq Placed \cup {new} BY <1>1, HeldPlaces
<1>7. \A q \in Placed : q \in DOMAIN asks /\ asks[q].step \in Steps /\ asks'[q].step = asks[q].step
  BY <1>2, PlacedTyped, Numbered DEF Following
<1>8. StepsInv'
  <2>1. \A r \in Steps : steps'[r] = "running" <=> r = acting'
    BY <1>3, <1>5, NoneAssumption DEF StepsInv
  <2>2. \A q \in Placed : asks'[q].step # acting /\ steps'[asks'[q].step] = "held"
    BY <1>3, <1>5, <1>7 DEF StepsInv
  <2>3. steps'[asks'[new].step] = "held" BY <1>2, <1>3, <1>5
  <2>4. \A q \in Placed' : steps'[asks'[q].step] = "held" BY <1>6, <2>2, <2>3
  <2>5. \A q, r \in Placed' : asks'[q].step = asks'[r].step => q = r
    BY <1>2, <1>6, <1>7, <2>2 DEF StepsInv
  <2> QED BY <1>3, <2>1, <2>4, <2>5 DEF StepsInv
<1>9. GuardInv'
  <2>1. Midway' = Midway /\ Begun \subseteq Begun' BY <1>3, <1>5 DEF Midway, Begun, StepsInv
  <2> QED BY <1>3, <2>1, GuardSame
<1> QED BY <1>8, <1>9

(* A step that ends lets the guard down once. *)
LEMMA EndSteps ==
  ASSUME Typed, PlacesInv, StepsInv, GuardInv, End
  PROVE  StepsInv' /\ GuardInv'
<1>1. /\ acting \in Steps /\ acting' = None /\ steps' = [steps EXCEPT ![acting] = "ended"]
      /\ armed' = armed - 1 /\ todo' = todo /\ carrying' = carrying /\ asks' = asks
  BY DEF End, Typed
<1>2. steps \in [Steps -> {"new", "running", "held", "ended", "lost"}] BY DEF Typed
<1>3. \A r \in Steps : steps'[r] = IF r = acting THEN "ended" ELSE steps[r] BY <1>1, <1>2
<1>4. Placed' = Placed BY PlacedSame DEF End
<1>5. \A q \in Placed : asks[q].step \in Steps BY PlacedTyped, Numbered
<1>6. StepsInv'
  <2>1. \A r \in Steps : steps'[r] = "running" <=> r = acting'
    BY <1>1, <1>3, NoneAssumption DEF StepsInv
  <2>2. \A q \in Placed : steps'[asks[q].step] = "held" BY <1>1, <1>3, <1>5 DEF StepsInv
  <2> QED BY <1>1, <1>4, <2>1, <2>2 DEF StepsInv
<1>7. GuardInv'
  <2>1. acting \in Midway /\ Midway' \subseteq Midway \ {acting} /\ Begun \subseteq Begun'
    BY <1>1, <1>3 DEF Midway, Begun, StepsInv
  <2> QED BY <1>1, <2>1, GuardLess
<1> QED BY <1>6, <1>7

(* So does one that crashes; those lost with it leave the guard up. *)
LEMMA CrashSteps ==
  ASSUME Typed, PlacesInv, StepsInv, GuardInv, Crash
  PROVE  StepsInv' /\ GuardInv'
<1>1. /\ acting \in Steps /\ acting' = None /\ armed' = armed - 1 /\ todo' = <<>> /\ asks' = asks
      /\ parked' = parked
      /\ steps' = [s \in Steps |-> IF s = acting THEN "ended"
                               ELSE IF s \in LostWith(todo) THEN "lost" ELSE steps[s]]
  BY DEF Crash, Typed
<1>2. LostWith(todo) = {asks[q].step : q \in In(todo)} BY DEF LostWith, In
<1>3. \A r \in Steps : steps'[r] = IF r = acting THEN "ended"
                                   ELSE IF r \in LostWith(todo) THEN "lost" ELSE steps[r]
  BY <1>1
<1>4. Placed' \subseteq Placed /\ Placed' \cap In(todo) = {}
  <2>1. Placed' = UNION {In(Block(parked[i])) : i \in DOMAIN parked}
    BY <1>1 DEF Placed, In, Block
  <2> QED BY <2>1 DEF Placed, PlacesInv
<1>5. \A q \in Placed : asks[q].step \in Steps BY PlacedTyped, Numbered
<1>6. In(todo) \subseteq Placed BY DEF Placed
<1>7. StepsInv'
  <2>1. \A r \in Steps : steps'[r] = "running" <=> r = acting'
    BY <1>1, <1>3, NoneAssumption DEF StepsInv
  <2>2. ASSUME NEW q \in Placed' PROVE steps'[asks[q].step] = "held"
    <3>1. q \in Placed /\ q \notin In(todo) BY <1>4
    <3>2. asks[q].step \notin LostWith(todo) BY <1>2, <1>6, <3>1 DEF StepsInv
    <3>3. asks[q].step # acting BY <1>1, <3>1 DEF StepsInv
    <3> QED BY <1>3, <1>5, <3>1, <3>2, <3>3 DEF StepsInv
  <2>3. \A q, r \in Placed' : asks[q].step = asks[r].step => q = r BY <1>4 DEF StepsInv
  <2> QED BY <1>1, <2>1, <2>2, <2>3 DEF StepsInv
<1>8. GuardInv'
  <2>1. acting \in Midway /\ Midway' \subseteq Midway \ {acting} /\ Begun \subseteq Begun'
    BY <1>1, <1>3 DEF Midway, Begun, StepsInv
  <2> QED BY <1>1, <2>1, GuardLess
<1> QED BY <1>7, <1>8

(* A step that is resumed was held, and is the only one to run. *)
LEMMA ResumedSteps ==
  ASSUME Typed, PlacesInv, StepsInv, GuardInv, Resume
  PROVE  StepsInv' /\ GuardInv'
<1>1. PICK q : q = Head(todo) OBVIOUS
<1>2. Placed' = Placed \ {q} /\ q \in Placed BY <1>1, ResumedPlaces
<1>3. \A r \in Placed : r \in DOMAIN asks /\ asks[r].step \in Steps BY PlacedTyped, Numbered
<1>4. PICK s : s = asks[q].step OBVIOUS
<1>5. /\ acting = None /\ acting' = s /\ steps' = [steps EXCEPT ![s] = "running"]
      /\ asks' = asks /\ armed' = armed /\ carrying' = carrying /\ carrying
  BY <1>1, <1>4 DEF Resume
<1>6. s \in Steps /\ steps[s] = "held" BY <1>2, <1>3, <1>4 DEF StepsInv
<1>7. steps \in [Steps -> {"new", "running", "held", "ended", "lost"}] BY DEF Typed
<1>8. \A r \in Steps : steps'[r] = IF r = s THEN "running" ELSE steps[r] BY <1>5, <1>7
<1>9. \A r \in Steps : steps[r] # "running" BY <1>5, NoneAssumption DEF StepsInv
<1>10. StepsInv'
  <2>1. \A r \in Steps : steps'[r] = "running" <=> r = acting' BY <1>5, <1>8, <1>9
  <2>2. \A r \in Placed' : asks[r].step # s BY <1>2, <1>4 DEF StepsInv
  <2>3. \A r \in Placed' : steps'[asks[r].step] = "held" BY <1>2, <1>3, <1>8, <2>2 DEF StepsInv
  <2>4. \A p, r \in Placed' : asks[p].step = asks[r].step => p = r BY <1>2 DEF StepsInv
  <2> QED BY <1>5, <2>1, <2>3, <2>4 DEF StepsInv
<1>11. GuardInv'
  <2>1. Midway' = Midway /\ Begun \subseteq Begun' BY <1>6, <1>8 DEF Midway, Begun
  <2> QED BY <1>5, <2>1, GuardSame
<1> QED BY <1>10, <1>11

(* Steps that leave the agent's steps as they are. *)
LEMMA SameSteps ==
  ASSUME Typed, PlacesInv, StepsInv, GuardInv, steps' = steps, acting' = acting, armed' = armed,
         Following, Placed' \subseteq Placed, carrying' = FALSE => todo' = <<>>
  PROVE  StepsInv' /\ GuardInv'
<1>1. \A q \in Placed : asks'[q].step = asks[q].step BY PlacedTyped DEF Following
<1>2. StepsInv' BY <1>1 DEF StepsInv
<1>3. GuardInv' BY GuardSame DEF Midway, Begun
<1> QED BY <1>2, <1>3

(* Steps that lose all that was midway. *)
LEMMA LostSteps ==
  ASSUME Typed, StepsInv, GuardInv, steps' = Lost(steps), acting' = None, todo' = <<>>, parked' = <<>>,
         armed' = armed \/ armed' = 0
  PROVE  StepsInv' /\ GuardInv'
<1>1. Placed' = {} BY DEF Placed, In, Block
<1>2. \A s \in Steps : steps'[s] = IF steps[s] \in {"running", "held"} THEN "lost" ELSE steps[s]
  BY DEF Lost
<1>3. StepsInv' BY <1>1, <1>2, NoneAssumption DEF StepsInv
<1>4. Midway' = {} /\ Begun \subseteq Begun' BY <1>2 DEF Midway, Begun
<1>5. GuardInv'
  <2>1. CASE armed' = armed BY <1>4, <2>1, GuardSame
  <2>2. CASE armed' = 0
    <3>1. Cardinality(Midway') = 0 BY <1>4, FS_EmptySet
    <3> QED BY <2>2, <3>1, StepsCountedNext DEF GuardInv
  <2> QED BY <2>1, <2>2
<1> QED BY <1>3, <1>5

(* Every step keeps the count of the guard. *)
LEMMA NextSteps ==
  ASSUME Typed, PlacesInv, StepsInv, GuardInv, Next
  PROVE  StepsInv' /\ GuardInv'
<1>1. ASSUME NEW s \in Steps, StartStep(s) PROVE StepsInv' /\ GuardInv' BY <1>1, StartSteps
<1>2. ASSUME NEW n \in Names, CallHeld(n) PROVE StepsInv' /\ GuardInv' BY <1>2, HeldCallSteps
<1>3. ASSUME End PROVE StepsInv' /\ GuardInv' BY <1>3, EndSteps
<1>4. ASSUME Crash PROVE StepsInv' /\ GuardInv' BY <1>4, CrashSteps
<1>5. ASSUME Resume PROVE StepsInv' /\ GuardInv' BY <1>5, ResumedSteps
<1>6. ASSUME NEW n \in Names, CallGranted(n) PROVE StepsInv' /\ GuardInv'
  BY <1>6, PlacedSame, SameAsksFollow, SameSteps DEF CallGranted, StepsInv
<1>7. ASSUME CarryOn PROVE StepsInv' /\ GuardInv'
  <2>1. /\ steps' = steps /\ acting' = acting /\ armed' = armed /\ asks' = asks /\ carrying' = TRUE
    BY <1>7 DEF CarryOn
  <2> QED BY <1>7, <2>1, CarriedOnPlaces, SameAsksFollow, SameSteps
<1>8. ASSUME Finish PROVE StepsInv' /\ GuardInv'
  <2>1. /\ steps' = steps /\ acting' = acting /\ armed' = armed /\ asks' = asks
        /\ todo' = todo /\ parked' = parked
        /\ carrying => todo = <<>>
    BY <1>8 DEF Finish
  <2>2. todo = <<>> BY <2>1 DEF StepsInv, Typed
  <2> QED BY <2>1, <2>2, PlacedSame, SameAsksFollow, SameSteps
<1>9. ASSUME NEW q \in DOMAIN asks, Answer(q) PROVE StepsInv' /\ GuardInv'
  <2>1. Following BY <1>9, AnswerDecides, AsksDecided
  <2>2. /\ steps' = steps /\ acting' = acting /\ armed' = armed /\ carrying' = carrying
        /\ todo' = todo /\ parked' = parked
    BY <1>9 DEF Answer
  <2> QED BY <2>1, <2>2, PlacedSame, SameSteps DEF StepsInv
<1>10. ASSUME NEW q \in saving, NEW ok \in BOOLEAN, Saved(q, ok) PROVE StepsInv' /\ GuardInv'
  <2>1. Following BY <1>10, SavedDecides, AsksDecided
  <2>2. /\ steps' = steps /\ acting' = acting /\ armed' = armed /\ carrying' = carrying
        /\ todo' = todo /\ parked' = parked
    BY <1>10 DEF Saved
  <2> QED BY <2>1, <2>2, PlacedSame, SameSteps DEF StepsInv
<1>11. ASSUME Recover PROVE StepsInv' /\ GuardInv'
  <2>1. /\ steps' = Lost(steps) /\ acting' = acting /\ armed' = armed /\ todo' = todo /\ parked' = <<>>
        /\ acting = None /\ carrying = FALSE
    BY <1>11 DEF Recover, Typed
  <2>2. todo = <<>> BY <2>1 DEF StepsInv
  <2> QED BY <2>1, <2>2, LostSteps
<1>12. ASSUME Restart PROVE StepsInv' /\ GuardInv'
  BY <1>12, LostSteps DEF Restart
<1> QED BY <1>1, <1>2, <1>3, <1>4, <1>5, <1>6, <1>7, <1>8, <1>9, <1>10, <1>11, <1>12, NextActions

-----------------------------------------------------------------------------
(* All of it.                                                              *)

(* Every step keeps the types. *)
LEMMA NextTyped == ASSUME Typed, PlacesInv, Next PROVE Typed'
<1>1. ASSUME NEW s \in Steps, StartStep(s) PROVE Typed' BY <1>1, StartTyped
<1>2. ASSUME NEW n \in Names, CallGranted(n) PROVE Typed' BY <1>2, GrantedTyped
<1>3. ASSUME NEW n \in Names, CallHeld(n) PROVE Typed' BY <1>3, HeldTyped
<1>4. ASSUME NEW q \in DOMAIN asks, Answer(q) PROVE Typed' BY <1>4, AnswerTyped
<1>5. ASSUME NEW q \in saving, NEW ok \in BOOLEAN, Saved(q, ok) PROVE Typed' BY <1>5, SavedTyped
<1>6. ASSUME End \/ Crash \/ CarryOn \/ Resume \/ Finish \/ Recover \/ Restart PROVE Typed'
  BY <1>6, EndTyped, CrashTyped, CarriedOnTyped, ResumeTyped, FinishTyped, RecoverTyped, RestartTyped
<1> QED BY <1>1, <1>2, <1>3, <1>4, <1>5, <1>6, NextActions

HeldInv ==
  /\ Typed /\ PlacesInv /\ AnswerInv /\ CarryInv /\ AskedInv /\ OnceInv /\ StepsInv /\ GuardInv

(* The types hold at the start, where nothing was issued. *)
LEMMA InitTyped == Init => Typed
<1> SUFFICES ASSUME Init PROVE Typed OBVIOUS
<1>1. asks = <<>> /\ todo = <<>> /\ parked = <<>> BY DEF Init
<1>2. asks \in Seq([name : Names, step : Steps, decision : Decisions]) /\ Len(asks) = 0 BY <1>1
<1>3. todo \in Seq(DOMAIN asks) /\ parked \in Seq([hold : DOMAIN asks, rest : Seq(DOMAIN asks)])
  BY <1>1
<1>4. /\ steps \in [Steps -> {"new", "running", "held", "ended", "lost"}]
      /\ grants \in [Names -> Scopes \cup {None}]
      /\ by \in [Names -> 0..MaxAsks] /\ calls \in [Requests -> Nat]
      /\ answers \in [Requests -> [approved : Nat, denied : Nat]]
  BY BoundsAssumption DEF Init
<1>5. Len(asks) <= MaxAsks BY <1>2, BoundsAssumption
<1>6. /\ job \in {None, "step", "answer"} /\ acting \in Steps \cup {None} /\ carrying \in BOOLEAN
      /\ (job = None => acting = None /\ carrying = FALSE)
  BY DEF Init
<1>7. /\ open \subseteq DOMAIN asks /\ holding \subseteq DOMAIN asks
      /\ saving \subseteq DOMAIN asks /\ pending \subseteq DOMAIN asks
      /\ allowed \subseteq Names /\ image = None /\ untold \subseteq Steps
  BY DEF Init
<1>8. failed \in BOOLEAN /\ guarded \in BOOLEAN /\ behind \in BOOLEAN BY DEF Init
<1>9. armed \in Int BY DEF Init
<1> QED BY <1>2, <1>3, <1>4, <1>5, <1>6, <1>7, <1>8, <1>9 DEF Typed

(* So does the rest of the invariant. *)
LEMMA InitHeld == Init => HeldInv
<1> SUFFICES ASSUME Init PROVE HeldInv OBVIOUS
<1>1. Typed BY InitTyped
<1>2. /\ asks = <<>> /\ DOMAIN asks = {} /\ todo = <<>> /\ DOMAIN todo = {}
      /\ parked = <<>> /\ DOMAIN parked = {}
  BY DEF Init
<1>3. AnswerInv /\ CarryInv BY <1>2 DEF AnswerInv, CarryInv
<1>4. PlacesInv BY <1>2 DEF PlacesInv, Distinct, In
<1>5. \A q \in Requests : answers[q] = [approved |-> 0, denied |-> 0] /\ calls[q] = 0 BY DEF Init
<1>6. AskedInv BY <1>2, <1>5 DEF Init, AskedInv, Answered
<1>7. OnceInv
  <2>1. \A n \in Names : grants[n] # "once" BY NoneAssumption DEF Init
  <2> QED BY <1>2, <1>5, <2>1 DEF OnceInv
<1>8. Placed = {} BY <1>2 DEF Placed, In
<1>9. StepsInv
  <2>1. \A s \in Steps : steps[s] # "running" /\ s # acting BY NoneAssumption DEF Init
  <2> QED BY <1>2, <1>8, <2>1 DEF StepsInv
<1>10. GuardInv
  <2>1. Midway = {} /\ Begun = {} /\ armed = 0 BY DEF Init, Midway, Begun
  <2>2. Cardinality(Midway) = 0 /\ Cardinality(Begun) = 0 BY <2>1, FS_EmptySet
  <2> QED BY <2>1, <2>2 DEF GuardInv
<1> QED BY <1>1, <1>3, <1>4, <1>6, <1>7, <1>9, <1>10 DEF HeldInv

(* A step that changes nothing keeps it. *)
LEMMA StutterHeld == ASSUME HeldInv, UNCHANGED vars PROVE HeldInv'
<1>1. /\ job' = job /\ acting' = acting /\ carrying' = carrying /\ todo' = todo /\ steps' = steps
      /\ parked' = parked /\ asks' = asks /\ open' = open /\ grants' = grants /\ holding' = holding
      /\ saving' = saving /\ allowed' = allowed /\ pending' = pending /\ image' = image
      /\ armed' = armed /\ failed' = failed /\ by' = by /\ answers' = answers /\ calls' = calls
      /\ untold' = untold /\ guarded' = guarded /\ behind' = behind
  BY DEF vars
<1>2. Typed' BY <1>1 DEF HeldInv, Typed
<1>3. PlacesInv' BY <1>1, DroppedPlaces DEF HeldInv
<1>4. AnswerInv' BY <1>1 DEF HeldInv, AnswerInv, Awaited, Alone
<1>5. CarryInv' BY <1>1 DEF HeldInv, CarryInv, Carried
<1>6. AskedInv' BY <1>1 DEF HeldInv, AskedInv, Answered, Alone
<1>7. OnceInv' BY <1>1 DEF HeldInv, OnceInv, Spare, Due, Placed, Granting, In, Block
<1>8. StepsInv' BY <1>1 DEF HeldInv, StepsInv, Placed, In, Block
<1>9. GuardInv' BY <1>1 DEF HeldInv, GuardInv, Midway, Begun
<1> QED BY <1>2, <1>3, <1>4, <1>5, <1>6, <1>7, <1>8, <1>9 DEF HeldInv

(* What is known of the runs, their requests and their steps always holds. *)
THEOREM HeldAlways == Spec => []HeldInv
<1>1. ASSUME HeldInv, Next PROVE HeldInv'
  <2>1. Typed /\ PlacesInv /\ AnswerInv /\ CarryInv /\ AskedInv /\ OnceInv /\ StepsInv /\ GuardInv
    BY <1>1 DEF HeldInv
  <2>2. Typed' BY <1>1, <2>1, NextTyped
  <2>3. PlacesInv' BY <1>1, <2>1, NextPlaces
  <2>4. AnswerInv' BY <1>1, <2>1, NextAnswers
  <2>5. CarryInv' BY <1>1, <2>1, NextCarries
  <2>6. AskedInv' BY <1>1, <2>1, NextAsked
  <2>7. OnceInv' BY <1>1, <2>1, <2>2, NextOnce
  <2>8. StepsInv' /\ GuardInv' BY <1>1, <2>1, NextSteps
  <2> QED BY <2>2, <2>3, <2>4, <2>5, <2>6, <2>7, <2>8 DEF HeldInv
<1>2. HeldInv /\ [Next]_vars => HeldInv' BY <1>1, StutterHeld
<1> QED BY <1>2, InitHeld, PTL DEF Spec

(* The state keeps its types; the guard of the extension is up for no more *)
(* steps than there are, and never falls below zero, however steps are     *)
(* held, resumed, lost and crash.                                          *)
THEOREM HeldTypes == Spec => []TypeOK
<1>1. HeldInv => TypeOK
  <2> SUFFICES ASSUME HeldInv PROVE TypeOK OBVIOUS
  <2>1. Typed /\ GuardInv BY DEF HeldInv
  <2>2. DOMAIN asks \subseteq Requests BY <2>1, Numbered
  <2>3. todo \in Seq(Requests) BY <2>1, <2>2, SeqGrows DEF Typed
  <2>4. parked \in Seq([hold : Requests, rest : Seq(Requests)])
    BY <2>1, <2>2, PlacesGrow DEF Typed
  <2>5. armed \in 0..Cardinality(Steps)
    <3>1. Begun \subseteq Steps /\ Midway \subseteq Steps BY DEF Begun, Midway
    <3>2. IsFiniteSet(Begun) /\ IsFiniteSet(Midway) /\ Cardinality(Begun) <= Cardinality(Steps)
      BY <3>1, StepsAssumption, FS_Subset
    <3>3. Cardinality(Begun) \in Nat /\ Cardinality(Midway) \in Nat /\ Cardinality(Steps) \in Nat
      BY <3>2, StepsAssumption, FS_CardinalityType
    <3> QED BY <2>1, <3>2, <3>3 DEF GuardInv, Typed
  <2>6. {open, holding, saving, pending} \subseteq SUBSET DOMAIN asks BY <2>1 DEF Typed
  <2> QED BY <2>1, <2>3, <2>4, <2>5, <2>6 DEF Typed, TypeOK
<1> QED BY <1>1, HeldAlways, PTL

(* An approval for one call lets at most one call through, whatever is     *)
(* approved, denied, asked again, lost or restored in between; a call that *)
(* was not approved is not let through.                                    *)
THEOREM ApprovedCallsRunOnce == Spec => []OnceOnly
<1>1. HeldInv => OnceOnly
  <2> SUFFICES ASSUME HeldInv, NEW q \in DOMAIN asks PROVE calls[q] <= answers[q].approved
    BY DEF OnceOnly
  <2>1. Typed /\ OnceInv BY DEF HeldInv
  <2>2. calls[q] + Spare(q) + Due(q) <= answers[q].approved BY <2>1 DEF OnceInv
  <2>3. calls[q] \in Nat /\ answers[q].approved \in Nat BY <2>1, CountsTyped
  <2>4. Spare(q) \in {0, 1} /\ Due(q) \in {0, 1} BY DEF Spare, Due
  <2> QED BY <2>2, <2>3, <2>4
<1> QED BY <1>1, HeldAlways, PTL

(* A run that waits is never left without a request its user can answer.   *)
THEOREM HeldRunsAnswerable == Spec => []Answerable
<1>1. HeldInv => Answerable BY DEF HeldInv, AnswerInv, Awaited, Answerable, Decided
<1> QED BY <1>1, HeldAlways, PTL

(* An approved run is resumed by the job that approves it, unless the rule *)
(* of its approval was saved after that job.                               *)
THEOREM ApprovedRunsCarryOn == Spec => []CarriesOn
<1>1. HeldInv => CarriesOn
  <2> SUFFICES ASSUME HeldInv, job = None, NEW i \in DOMAIN parked,
                      asks[parked[i].hold].decision = "granted"
               PROVE  asks[parked[i].hold].name \in allowed
    BY DEF CarriesOn
  <2>1. Carried(parked[i].hold) BY DEF HeldInv, CarryInv
  <2> QED BY <2>1, NoneAssumption DEF Carried
<1> QED BY <1>1, HeldAlways, PTL

(* No request is answered twice, and none that was not answered nor asked  *)
(* again is lost, as long as each interpreter is built from the last state *)
(* of the one before.                                                      *)
THEOREM RequestsAnsweredOnce == Spec => []AnsweredOnce
<1>1. HeldInv => AnsweredOnce
  <2> SUFFICES ASSUME HeldInv, ~behind, NEW q \in DOMAIN asks
               PROVE  /\ answers[q].approved + answers[q].denied <= 1
                      /\ \/ q \in open \cup pending \/ answers[q].approved + answers[q].denied > 0
                         \/ \E r \in DOMAIN asks : r > q /\ asks[r].name = asks[q].name
    BY DEF AnsweredOnce
  <2>1. /\ Answered(q) <= 1
        /\ \/ Answered(q) = 1 \/ q \in pending
           \/ \E r \in DOMAIN asks : r > q /\ asks[r].name = asks[q].name
    BY DEF HeldInv, AskedInv
  <2> QED BY <2>1 DEF Answered
<1> QED BY <1>1, HeldAlways, PTL

-----------------------------------------------------------------------------
(* What rules decide.                                                      *)

(* A config whose defaults name verdicts. *)
WellFormed(config) ==
  \E n \in Nat : DOMAIN config = 1..n /\ \A i \in 1..n : config[i].verdict \in Verdicts

(* Some indices of a config have a last. *)
LEMMA LastIndex ==
  ASSUME NEW n \in Nat, NEW S, S \subseteq 1..n, S # {}
  PROVE  \E i \in S : \A j \in S : j <= i
<1> DEFINE Before == {n - i : i \in S}
<1>1. Before \subseteq Nat /\ Before # {}
  <2>1. \A i \in S : i \in 1..n OBVIOUS
  <2>2. \A i \in S : n - i \in Nat BY <2>1
  <2>3. PICK i \in S : TRUE OBVIOUS
  <2>4. n - i \in Before OBVIOUS
  <2> QED BY <2>2, <2>4
<1>2. PICK k \in Before : \A m \in Before : ~ (<<m, k>> \in OpToRel(<, Nat))
  <2> HIDE DEF Before
  <2> QED BY <1>1, NatLessThanWellFounded, WFMin
<1>3. PICK i \in S : k = n - i OBVIOUS
<1>4. ASSUME NEW j \in S PROVE j <= i
  <2>1. n - j \in Before /\ n - j \in Nat /\ k \in Nat OBVIOUS
  <2>2. ~ (n - j < k)
    <3> HIDE DEF Before
    <3> QED BY <2>1, <1>2 DEF OpToRel
  <2> QED BY <1>3, <2>1, <2>2
<1> QED BY <1>4

(* strongest(): of some rulings, one that none outranks. *)
LEMMA StrongestOutranks ==
  ASSUME NEW R, R \subseteq Verdicts, R # {}
  PROVE  Strongest(R) \in R /\ \A v \in R : Strength[v] <= Strength[Strongest(R)]
<1> DEFINE Top(v) == v \in R /\ \A w \in R : Strength[w] <= Strength[v]
<1>1. \A v \in R : v = "allow" \/ v = "ask" \/ v = "deny" BY DEF Verdicts
<1>2. Strength["allow"] = 0 /\ Strength["ask"] = 1 /\ Strength["deny"] = 2 BY DEF Strength
<1>3. \E v \in R : Top(v)
  <2>1. CASE "deny" \in R BY <1>1, <1>2, <2>1
  <2>2. CASE "deny" \notin R /\ "ask" \in R BY <1>1, <1>2, <2>2
  <2>3. CASE "deny" \notin R /\ "ask" \notin R BY <1>1, <1>2, <2>3
  <2> QED BY <2>1, <2>2, <2>3
<1>4. Strongest(R) = CHOOSE v \in R : \A w \in R : Strength[w] <= Strength[v] BY DEF Strongest
<1> QED BY <1>3, <1>4

(* The rules that name a name rule by verdicts. *)
LEMMA RulingsAreVerdicts ==
  ASSUME NEW config, NEW name PROVE Rulings(config, name) \subseteq Verdicts
BY DEF Rulings

(* The default of a config is a verdict. *)
LEMMA FallbackIsVerdict ==
  ASSUME NEW config, WellFormed(config) PROVE Fallback(config) \in Verdicts
<1> DEFINE defaults == {i \in DOMAIN config : config[i].op = "default"}
           last == CHOOSE i \in defaults : \A j \in defaults : j <= i
<1>1. PICK n \in Nat : DOMAIN config = 1..n /\ \A i \in 1..n : config[i].verdict \in Verdicts
  BY DEF WellFormed
<1>2. CASE defaults = {}
  BY <1>2 DEF Fallback, Verdicts
<1>3. CASE defaults # {}
  <2>1. \E i \in defaults : \A j \in defaults : j <= i
    <3>1. defaults \subseteq 1..n BY <1>1
    <3> HIDE DEF defaults
    <3> QED BY <1>3, <3>1, LastIndex
  <2>2. last \in defaults
    <3> HIDE DEF defaults
    <3> QED BY <2>1
  <2>3. Fallback(config) = config[last].verdict BY <1>3 DEF Fallback
  <2>4. last \in 1..n BY <1>1, <2>2
  <2> HIDE DEF last
  <2> QED BY <1>1, <2>3, <2>4
<1> QED BY <1>2, <1>3

(* decide() returns a verdict. *)
LEMMA DecidesIsVerdict ==
  ASSUME NEW config, WellFormed(config), NEW name PROVE Decides(config, name) \in Verdicts
<1>1. CASE Rulings(config, name) = {}
  BY <1>1, FallbackIsVerdict DEF Decides, Verdicts
<1>2. CASE Rulings(config, name) # {}
  <2>1. Strongest(Rulings(config, name)) \in Verdicts
    BY <1>2, RulingsAreVerdicts, StrongestOutranks
  <2> QED BY <1>2, <2>1 DEF Decides, Verdicts
<1> QED BY <1>1, <1>2

(* What a session asks for only tightens what its config decides. *)
LEMMA AsksTighten ==
  ASSUME NEW config, WellFormed(config), NEW asked, NEW name
  PROVE  /\ HeldDecides(config, asked, name) \in Verdicts
         /\ Strength[Decides(config, name)] <= Strength[HeldDecides(config, asked, name)]
<1>1. Decides(config, name) \in Verdicts BY DecidesIsVerdict
<1>2. \A v \in Verdicts : Strength[v] \in Int /\ Strength["allow"] <= Strength["ask"]
  BY DEF Verdicts, Strength
<1> QED BY <1>1, <1>2 DEF HeldDecides, Verdicts

-----------------------------------------------------------------------------
(* SessionRules.decide(): whatever the config, the session's asks and the  *)
(* bounds, none of them loosens what another decides.                      *)
THEOREM SessionTightens ==
  ASSUME NEW config, WellFormed(config), NEW asked, NEW bounds,
         \A bound \in bounds : WellFormed(bound), NEW name
  PROVE  LET decided == Strength[SessionDecides(config, asked, bounds, name)]
         IN /\ Strength[Decides(config, name)] <= decided
            /\ \A bound \in bounds : Strength[Decides(bound, name)] <= decided
<1> DEFINE R == {HeldDecides(config, asked, name)} \cup {Decides(bound, name) : bound \in bounds}
<1>1. R \subseteq Verdicts /\ R # {} BY AsksTighten, DecidesIsVerdict
<1>2. Strongest(R) \in R /\ \A v \in R : Strength[v] <= Strength[Strongest(R)]
  <2> HIDE DEF R
  <2> QED BY <1>1, StrongestOutranks
<1>3. SessionDecides(config, asked, bounds, name) = Strongest(R) BY DEF SessionDecides
<1>4. HeldDecides(config, asked, name) \in R /\ \A bound \in bounds : Decides(bound, name) \in R OBVIOUS
<1>5. Strength[Decides(config, name)] <= Strength[HeldDecides(config, asked, name)] BY AsksTighten
<1>6. \A v \in Verdicts : Strength[v] \in Int BY DEF Verdicts, Strength
<1>7. Decides(config, name) \in Verdicts BY DecidesIsVerdict
<1> HIDE DEF R
<1>8. /\ Strength[Decides(config, name)] \in Int
      /\ Strength[HeldDecides(config, asked, name)] \in Int
      /\ Strength[Strongest(R)] \in Int
  BY <1>1, <1>2, <1>4, <1>6, <1>7
<1>9. Strength[HeldDecides(config, asked, name)] <= Strength[Strongest(R)] BY <1>2, <1>4
<1>10. Strength[Decides(config, name)] <= Strength[Strongest(R)] BY <1>5, <1>8, <1>9
<1> QED BY <1>2, <1>3, <1>4, <1>10

(* A rule of the config or of a bound that denies a name is final: no      *)
(* other rule, default, ask or bound undoes it.                            *)
THEOREM DenialIsFinal ==
  ASSUME NEW config, WellFormed(config), NEW asked, NEW bounds,
         \A bound \in bounds : WellFormed(bound), NEW name,
         "deny" \in SessionRulings(config, bounds, name)
  PROVE  SessionDecides(config, asked, bounds, name) = "deny"
<1>1. ASSUME NEW c, "deny" \in Rulings(c, name) PROVE Decides(c, name) = "deny"
  <2>1. Strength["deny"] <= Strength[Strongest(Rulings(c, name))]
        /\ Strongest(Rulings(c, name)) \in Verdicts
    BY <1>1, RulingsAreVerdicts, StrongestOutranks
  <2>2. Strongest(Rulings(c, name)) = "deny" BY <2>1 DEF Verdicts, Strength
  <2> QED BY <1>1, <2>2 DEF Decides
<1>2. Strength["deny"] <= Strength[SessionDecides(config, asked, bounds, name)]
  <2>1. CASE "deny" \in Rulings(config, name)
    BY <1>1, <2>1, SessionTightens
  <2>2. CASE \E bound \in bounds : "deny" \in Rulings(bound, name)
    BY <1>1, <2>2, SessionTightens
  <2> QED BY <2>1, <2>2 DEF SessionRulings
<1>3. SessionDecides(config, asked, bounds, name) \in Verdicts
  <2> DEFINE R == {HeldDecides(config, asked, name)} \cup {Decides(bound, name) : bound \in bounds}
  <2>1. R \subseteq Verdicts /\ R # {} BY AsksTighten, DecidesIsVerdict
  <2>2. Strongest(R) \in Verdicts
    <3> HIDE DEF R
    <3> QED BY <2>1, StrongestOutranks
  <2> QED BY <2>2 DEF SessionDecides
<1> QED BY <1>2, <1>3 DEF Verdicts, Strength

(* In every state of the right type, asks and bounds only tighten.         *)
LEMMA TextsTighten == ConfigTypeOK => Tightens
<1> SUFFICES ASSUME ConfigTypeOK, NEW t \in Stores, NEW name \in Targets
    PROVE  LET decided == Strength[SessionDecides(text[t], Asks, Bounds, name)]
           IN /\ Strength[Decides(text[t], name)] <= decided
              /\ \A bound \in Bounds : Strength[Decides(bound, name)] <= decided
  BY DEF Tightens
<1>1. WellFormed(text[t])
  <2>0. text[t] \in Configs
    BY DEF ConfigTypeOK
  <2>1. PICK n \in 0..MaxForms : text[t] \in [1..n -> Forms]
    BY <2>0 DEF Configs
  <2>2. Len(text[t]) \in Nat /\ DOMAIN text[t] = 1..Len(text[t])
    BY <2>1, FormsAssumption
  <2> QED
    BY <2>1, <2>2, RulesAssumption DEF WellFormed
<1>2. \A bound \in Bounds : WellFormed(bound) BY RulesAssumption DEF WellFormed
<1> QED BY <1>1, <1>2, SessionTightens

-----------------------------------------------------------------------------
(* Changes of the config, and their saves.                                 *)

(* A text is a sequence of forms. *)
LEMMA ConfigsAreSequences ==
  ASSUME NEW config PROVE config \in Configs <=> config \in Seq(Forms) /\ Len(config) <= MaxForms
<1>1. MaxForms \in Nat BY FormsAssumption
<1>2. ASSUME config \in Configs PROVE config \in Seq(Forms) /\ Len(config) <= MaxForms
  <2>1. PICK n \in 0..MaxForms : config \in [1..n -> Forms] BY <1>2 DEF Configs
  <2>2. config \in Seq(Forms) /\ n \in Nat BY <1>1, <2>1, SeqDef
  <2>3. Len(config) \in Nat /\ DOMAIN config = 1..Len(config) /\ DOMAIN config = 1..n
    BY <2>1, <2>2, LenProperties
  <2> QED BY <1>1, <2>1, <2>2, <2>3
<1>3. ASSUME config \in Seq(Forms), Len(config) <= MaxForms PROVE config \in Configs
  <2>1. Len(config) \in 0..MaxForms /\ config \in [1..Len(config) -> Forms]
    BY <1>1, <1>3, LenProperties
  <2> QED BY <2>1 DEF Configs
<1> QED BY <1>2, <1>3

(* PermissionRules.without(): the others are left, in their order. *)
LEMMA WithoutPicks ==
  ASSUME NEW config, NEW form
  PROVE  Without(config, form) = Picked(config, {i \in DOMAIN config : config[i] # form})
BY DEF Without, Picked

(* What it leaves is all but the form. *)
LEMMA WithoutLeaves ==
  ASSUME NEW config \in Seq(Forms), NEW form
  PROVE  /\ Without(config, form) \in Seq(Forms) /\ Len(Without(config, form)) <= Len(config)
         /\ ToSet(Without(config, form)) = ToSet(config) \ {form}
<1>1. PICK places : places = {i \in DOMAIN config : config[i] # form} OBVIOUS
<1>2. PICK left : left = Picked(config, places) OBVIOUS
<1>3. Without(config, form) = left BY <1>1, <1>2, WithoutPicks
<1>4. left \in Seq(Forms) /\ \E nth : Picks(config, places, left, nth)
  BY <1>1, <1>2, PickedEntries
<1>5. PICK nth : Picks(config, places, left, nth) BY <1>4
<1>6. /\ \A k \in DOMAIN left : nth[k] \in places /\ left[k] = config[nth[k]]
      /\ \A i \in places : \E k \in DOMAIN left : nth[k] = i
  BY <1>5 DEF Picks
<1>7. ToSet(left) = ToSet(config) \ {form} BY <1>1, <1>6 DEF ToSet
<1>8. Len(left) <= Len(config)
  <2>1. PICK l \in Nat, n \in Nat : /\ Len(left) = l /\ DOMAIN left = 1..l
                                   /\ Len(config) = n /\ DOMAIN config = 1..n
    BY <1>4, LenProperties
  <2>2. IsFiniteSet(1..l) /\ Cardinality(1..l) = l BY FS_Interval
  <2>3. IsFiniteSet(1..n) /\ Cardinality(1..n) = n BY FS_Interval
  <2>4. nth \in Injection(1..l, 1..n)
    <3>1. nth \in [1..l -> 1..n] BY <1>1, <1>5, <2>1 DEF Picks
    <3>2. \A k, m \in 1..l : nth[k] = nth[m] => k = m BY <1>5, <2>1 DEF Picks
    <3> QED BY <3>1, <3>2 DEF Injection, IsInjective
  <2>5. Cardinality(1..l) <= Cardinality(1..n) BY <2>2, <2>3, <2>4, FS_Injection
  <2> QED BY <2>1, <2>2, <2>3, <2>5
<1> QED BY <1>3, <1>4, <1>7, <1>8

(* changed() makes a text of a text, in which what stands once the change  *)
(* is applied is found, if what stood was in the text before.              *)
LEMMA ChangedHolds ==
  ASSUME NEW config \in Configs, NEW change \in Changes, Fits(config, change)
  PROVE  /\ Changed(config, change) \in Configs
         /\ standing \subseteq ToSet(config) => Stands(change) \subseteq ToSet(Changed(config, change))
         /\ standing \subseteq Forms => Stands(change) \subseteq Forms
<1>1. config \in Seq(Forms) /\ Len(config) <= MaxForms /\ MaxForms \in Nat
  BY ConfigsAreSequences, FormsAssumption
<1>2. (change.kind \in {"add", "delete"} /\ change.form \in Forms) \/ change.kind = "clear"
  BY DEF Changes
<1>3. PICK made : made = Changed(config, change) OBVIOUS
<1>4. CASE change.kind = "add"
  <2>1. change.form \in Forms BY <1>2, <1>4
  <2>2. made = Append(config, change.form) /\ Stands(change) = standing \cup {change.form}
    BY <1>3, <1>4 DEF Changed, Stands
  <2>3. /\ made \in Seq(Forms) /\ Len(made) = Len(config) + 1
        /\ \A i \in 1..Len(config) : made[i] = config[i]
        /\ made[Len(config) + 1] = change.form
    BY <1>1, <2>1, <2>2, AppendProperties
  <2>4. DOMAIN config = 1..Len(config) /\ Len(config) \in Nat /\ DOMAIN made = 1..Len(made)
    BY <1>1, <2>3, LenProperties
  <2>5. Len(made) <= MaxForms BY <1>1, <1>4, <2>3, <2>4 DEF Fits
  <2>6. \A i \in DOMAIN config : i \in DOMAIN made BY <2>3, <2>4
  <2>7. Len(config) + 1 \in DOMAIN made BY <2>3, <2>4
  <2>8. ToSet(config) \cup {change.form} \subseteq ToSet(made)
    BY <2>3, <2>4, <2>6, <2>7 DEF ToSet
  <2> QED BY <1>3, <2>1, <2>2, <2>3, <2>5, <2>8, ConfigsAreSequences
<1>5. CASE change.kind = "delete"
  <2>1. made = Without(config, change.form) /\ Stands(change) = standing \ {change.form}
    BY <1>3, <1>5 DEF Changed, Stands
  <2>2. /\ made \in Seq(Forms) /\ Len(made) <= Len(config)
        /\ ToSet(made) = ToSet(config) \ {change.form}
    BY <1>1, <2>1, WithoutLeaves
  <2>3. Len(made) <= MaxForms BY <1>1, <2>2, LenProperties
  <2> QED BY <1>3, <2>1, <2>2, <2>3, ConfigsAreSequences
<1>6. CASE change.kind = "clear"
  <2>1. made = <<>> /\ Stands(change) = {} BY <1>3, <1>6 DEF Changed, Stands
  <2>2. made \in Seq(Forms) /\ Len(made) <= MaxForms BY <1>1, <2>1
  <2> QED BY <1>3, <2>1, <2>2, ConfigsAreSequences
<1> QED BY <1>2, <1>4, <1>5, <1>6

(* The first of a client's saves, and those behind it. *)
LEMMA HeadOfSaves ==
  ASSUME ConfigTypeOK, NEW s \in Stores, saves[s] # <<>>
  PROVE  /\ Head(saves[s]) \in ConfigSaves /\ Head(saves[s]) = saves[s][1] /\ 1 \in DOMAIN saves[s]
         /\ Tail(saves[s]) \in Seq(ConfigSaves) /\ Len(saves[s]) \in Nat
         /\ Len(Tail(saves[s])) = Len(saves[s]) - 1
         /\ DOMAIN Tail(saves[s]) = 1..(Len(saves[s]) - 1) /\ DOMAIN saves[s] = 1..Len(saves[s])
         /\ \A i \in 1..(Len(saves[s]) - 1) : Tail(saves[s])[i] = saves[s][i + 1]
<1>1. saves[s] \in Seq(ConfigSaves) BY DEF ConfigTypeOK
<1>2. 1 \in DOMAIN saves[s] /\ Head(saves[s]) = saves[s][1] /\ saves[s][1] \in ConfigSaves
  BY <1>1, LenProperties
<1> QED BY <1>1, <1>2, HeadTailProperties, LenProperties

(* commit() keeps the types. *)
LEMMA CommitTyped ==
  ASSUME ConfigTypeOK, NEW s \in Stores, NEW change \in Changes, NEW hears \in {"step", "call", "none"},
         Commit(s, change, hears)
  PROVE  /\ stored' \in Configs /\ text' \in [Stores -> Configs]
         /\ saves' \in [Stores -> Seq(ConfigSaves)]
         /\ knows' \subseteq Stores /\ standing' \subseteq Forms /\ overlapped' \in BOOLEAN
<1>1. text[s] \in Configs /\ saves[s] \in Seq(ConfigSaves) BY DEF ConfigTypeOK
<1>2. /\ Changed(text[s], change) \in Configs
      /\ standing \subseteq Forms => Stands(change) \subseteq Forms
  BY <1>1, ChangedHolds DEF Commit
<1>3. PICK save : save = [source |-> Changed(text[s], change), hears |-> hears, landed |-> FALSE]
  OBVIOUS
<1>4. save \in ConfigSaves BY <1>2, <1>3 DEF ConfigSaves
<1>5. saves' = [saves EXCEPT ![s] = Append(@, save)] BY <1>3 DEF Commit
<1>6. Append(saves[s], save) \in Seq(ConfigSaves) BY <1>1, <1>4, AppendProperties
<1>7. saves' \in [Stores -> Seq(ConfigSaves)] BY <1>5, <1>6 DEF ConfigTypeOK
<1>8. overlapped' \in BOOLEAN BY DEF Commit
<1>9. standing' \subseteq Forms BY <1>2 DEF Commit, ConfigTypeOK
<1> QED BY <1>7, <1>8, <1>9 DEF Commit, ConfigTypeOK

(* Every step keeps them. *)
LEMMA ConfigNextTyped == ASSUME ConfigTypeOK, ConfigNext PROVE ConfigTypeOK'
<1>1. /\ stored \in Configs /\ text \in [Stores -> Configs] /\ awaiting \in [Stores -> SUBSET Changes]
      /\ saves \in [Stores -> Seq(ConfigSaves)] /\ knows \subseteq Stores /\ standing \subseteq Forms
      /\ overruled \in BOOLEAN /\ overlapped \in BOOLEAN
  BY DEF ConfigTypeOK
<1>2. ASSUME NEW s \in Stores, NEW change \in Changes,
             Apply(s, change) \/ ApproveChange(s, change) \/ DenyChange(s, change)
      PROVE  ConfigTypeOK'
  <2>1. awaiting' \in [Stores -> SUBSET Changes]
    BY <1>1, <1>2 DEF Apply, ApproveChange, DenyChange
  <2>2. CASE \E hears \in {"step", "none"} : CommitRuled(s, change, hears)
    <3>1. PICK hears \in {"step", "none"} : CommitRuled(s, change, hears) BY <2>2
    <3>2. Commit(s, change, hears) /\ overruled' \in BOOLEAN BY <3>1 DEF CommitRuled
    <3> QED BY <2>1, <3>2, CommitTyped DEF ConfigTypeOK
  <2>3. CASE UNCHANGED <<stored, text, saves, knows, told>>
    BY <2>1, <2>3 DEF ConfigTypeOK, told
  <2> QED BY <1>2, <2>2, <2>3 DEF Apply, ApproveChange, DenyChange
<1>3. ASSUME NEW s \in Stores, NEW form \in Forms, Remember(s, form) PROVE ConfigTypeOK'
  <2>1. PICK change : change = [kind |-> "add", form |-> form] OBVIOUS
  <2>2. change \in Changes BY <2>1 DEF Changes
  <2>3. Commit(s, change, "call") /\ awaiting' = awaiting /\ overruled' = overruled
    BY <1>3, <2>1 DEF Remember
  <2> QED BY <1>1, <2>2, <2>3, CommitTyped DEF ConfigTypeOK
<1>4. ASSUME NEW s \in Stores, Land(s) PROVE ConfigTypeOK'
  <2>1. saves[s] # <<>> BY <1>4 DEF Land
  <2>2. PICK made : made = [Head(saves[s]) EXCEPT !.landed = TRUE] OBVIOUS
  <2>3. made \in ConfigSaves /\ Head(saves[s]).source \in Configs BY <2>1, <2>2, HeadOfSaves DEF ConfigSaves
  <2>4. <<made>> \o Tail(saves[s]) \in Seq(ConfigSaves)
    <3>1. <<made>> \in Seq(ConfigSaves) BY <2>3
    <3>2. Tail(saves[s]) \in Seq(ConfigSaves) BY <2>1, HeadOfSaves
    <3> QED BY <3>1, <3>2, ConcatProperties
  <2>5. saves' = [saves EXCEPT ![s] = <<made>> \o Tail(saves[s])] BY <1>1, <1>4, <2>2 DEF Land
  <2>6. saves' \in [Stores -> Seq(ConfigSaves)] BY <1>1, <2>4, <2>5
  <2> QED BY <1>1, <1>4, <2>3, <2>6 DEF Land, ConfigTypeOK, told
<1>5. ASSUME NEW s \in Stores, Return(s) PROVE ConfigTypeOK'
  <2>1. saves[s] # <<>> BY <1>5 DEF Return
  <2>2. Head(saves[s]).source \in Configs /\ Tail(saves[s]) \in Seq(ConfigSaves)
    BY <2>1, HeadOfSaves DEF ConfigSaves
  <2> QED BY <1>1, <1>5, <2>2 DEF Return, ConfigTypeOK, told
<1>6. ASSUME NEW s \in Stores, Fail(s) PROVE ConfigTypeOK'
  <2>1. saves[s] # <<>> BY <1>6 DEF Fail
  <2>2. Tail(saves[s]) \in Seq(ConfigSaves) BY <2>1, HeadOfSaves
  <2> QED BY <1>1, <1>6, <2>2 DEF Fail, ConfigTypeOK
<1>7. ASSUME NEW s \in Stores, Reopen(s) PROVE ConfigTypeOK'
  <2>1. text' \in [Stores -> Configs] /\ awaiting' \in [Stores -> SUBSET Changes]
    BY <1>1, <1>7 DEF Reopen
  <2> QED BY <2>1, <1>1, <1>7 DEF Reopen, ConfigTypeOK, told
<1> QED BY <1>2, <1>3, <1>4, <1>5, <1>6, <1>7 DEF ConfigNext

(* They hold at the start. *)
LEMMA ConfigStarts == ConfigInit => ConfigTypeOK
<1> SUFFICES ASSUME ConfigInit PROVE ConfigTypeOK OBVIOUS
<1>1. Config \in Configs BY ConfigAssumption, ConfigsAreSequences
<1>2. ToSet(Config) \subseteq Forms BY ConfigAssumption, ElementOfSeq, LenProperties DEF ToSet
<1>3. stored \in Configs /\ text \in [Stores -> Configs] /\ awaiting \in [Stores -> SUBSET Changes]
  BY <1>1 DEF ConfigInit
<1>4. saves \in [Stores -> Seq(ConfigSaves)] BY EmptySeq DEF ConfigInit
<1> QED BY <1>2, <1>3, <1>4 DEF ConfigInit, ConfigTypeOK

(* The texts of a workspace's stores, and what is on its way to be saved,  *)
(* are configs; so no change makes a text that is none.                    *)
THEOREM ConfigTypes == ConfigSpec => []ConfigTypeOK
<1>1. ConfigInit => ConfigTypeOK BY ConfigStarts
<1>2. ASSUME ConfigTypeOK, UNCHANGED configVars PROVE ConfigTypeOK'
  BY <1>2 DEF ConfigTypeOK, configVars, told
<1>3. ConfigTypeOK /\ [ConfigNext]_configVars => ConfigTypeOK' BY <1>2, ConfigNextTyped
<1> QED BY <1>1, <1>3, PTL DEF ConfigSpec

(* SessionRules.decide(): at no time does a session decide less strictly   *)
(* than its thread's config or any of its bounds, whatever is approved,    *)
(* saved or fails to be.                                                   *)
THEOREM SessionsTighten == ConfigSpec => []Tightens
<1>1. ConfigTypeOK => Tightens BY TextsTighten
<1> QED BY <1>1, ConfigTypes, PTL

-----------------------------------------------------------------------------
(* What the stores know, and what stands.                                  *)

(* The mutation a client makes is the first of its saves; a store that     *)
(* knows what is stored has that text, or hears of it when its mutation    *)
(* that was made last returns.                                             *)
Hears ==
  /\ \A s \in Stores : \A i \in DOMAIN saves[s] : saves[s][i].landed => i = 1
  /\ \A s \in knows :
       IF saves[s] # <<>> /\ saves[s][1].landed THEN saves[s][1].source = stored ELSE text[s] = stored

(* As long as no change overlapped another's save: one save is on its way  *)
(* at most, from a store that knew what was stored, and holds all that     *)
(* stands; without one, all that stands is stored.                         *)
InLine ==
  ~overlapped =>
    /\ ~overruled
    /\ \A s, t \in Stores : saves[s] # <<>> /\ saves[t] # <<>> => s = t
    /\ \A s \in Stores : saves[s] # <<>> =>
         s \in knows /\ Len(saves[s]) = 1 /\ standing \subseteq ToSet(saves[s][1].source)
    /\ Quiet => standing \subseteq ToSet(stored)

(* ruling(): what a rule of the text denies is denied. *)
LEMMA ForbiddenIsDenied ==
  ASSUME NEW s \in Stores, NEW change, NEW form \in ToSet(text[s]), Forbids(form, change)
  PROVE  Ruling(s, change) = "deny"
<1>1. PICK i \in DOMAIN text[s] : form = text[s][i] BY DEF ToSet
<1>2. PICK R : R = SessionRulings(text[s], Bounds, Operation(change)) OBVIOUS
<1>3. "deny" \in Rulings(text[s], Operation(change)) BY <1>1 DEF Rulings, Forbids, Verdicts
<1>4. "deny" \in R /\ R \subseteq Verdicts BY <1>2, <1>3, RulingsAreVerdicts DEF SessionRulings
<1>5. Strongest(R) \in Verdicts /\ Strength["deny"] <= Strength[Strongest(R)]
  BY <1>4, StrongestOutranks
<1>6. Strongest(R) = "deny" BY <1>5 DEF Verdicts, Strength
<1> QED BY <1>2, <1>4, <1>6 DEF Ruling

(* commit(): a store that knows what is stored makes the change of it, and *)
(* no form that stands denies it.                                          *)
LEMMA CommitInLine ==
  ASSUME ConfigTypeOK, Hears, InLine, NEW s \in Stores, NEW change \in Changes,
         NEW hears \in {"step", "call", "none"}, Commit(s, change, hears),
         (overruled' = overruled) \/ (CommitRuled(s, change, hears) /\ Ruling(s, change) # "deny")
  PROVE  Hears' /\ InLine'
<1>1. PICK save : save = [source |-> Changed(text[s], change), hears |-> hears, landed |-> FALSE]
  OBVIOUS
<1>2. saves' = [saves EXCEPT ![s] = Append(@, save)] /\ ~save.landed BY <1>1 DEF Commit
<1>3. saves \in [Stores -> Seq(ConfigSaves)] /\ saves[s] \in Seq(ConfigSaves) /\ text[s] \in Configs
  BY DEF ConfigTypeOK
<1>4. /\ saves'[s] = Append(saves[s], save) /\ \A t \in Stores : t # s => saves'[t] = saves[t]
      /\ stored' = stored /\ text' = text /\ knows' = knows /\ knows \subseteq Stores
  BY <1>2, <1>3 DEF Commit, ConfigTypeOK
<1>5. /\ DOMAIN saves[s] = 1..Len(saves[s]) /\ Len(saves[s]) \in Nat
      /\ DOMAIN saves'[s] = 1..(Len(saves[s]) + 1) /\ Len(saves'[s]) = Len(saves[s]) + 1
      /\ \A i \in 1..Len(saves[s]) : saves'[s][i] = saves[s][i]
      /\ saves'[s][Len(saves[s]) + 1] = save /\ saves'[s] # <<>>
      /\ saves[s] = <<>> <=> Len(saves[s]) = 0
  <2>1. PICK all : all = saves[s] OBVIOUS
  <2>2. all \in Seq(ConfigSaves) BY <1>3, <2>1
  <2>3. saves'[s] = Append(all, save) BY <1>4, <2>1
  <2>4. /\ DOMAIN all = 1..Len(all) /\ Len(all) \in Nat /\ (all = <<>> <=> Len(all) = 0)
    BY <2>2, LenProperties, EmptySeq
  <2>5. all \in Seq(ConfigSaves \cup {save}) BY <2>2
  <2>6. PICK more : more = Append(all, save) OBVIOUS
  <2>7. /\ more \in Seq(ConfigSaves \cup {save}) /\ more # <<>> /\ Len(more) = Len(all) + 1
        /\ \A i \in 1..Len(all) : more[i] = all[i]
        /\ more[Len(all) + 1] = save
    BY <2>5, <2>6, AppendProperties
  <2>8. DOMAIN more = 1..(Len(all) + 1) BY <2>4, <2>7, LenProperties
  <2> QED BY <2>1, <2>3, <2>4, <2>6, <2>7, <2>8
<1>6. Hears'
  <2>1. \A i \in DOMAIN saves'[s] : saves'[s][i].landed => i = 1
    <3>1. \A i \in DOMAIN saves'[s] : i \in 1..Len(saves[s]) \/ i = Len(saves[s]) + 1 BY <1>5
    <3> QED BY <3>1, <1>2, <1>5 DEF Hears
  <2>2. s \in knows => IF saves'[s] # <<>> /\ saves'[s][1].landed THEN saves'[s][1].source = stored
                       ELSE text[s] = stored
    <3>1. CASE saves[s] = <<>>
      <4>1. saves'[s][1] = save BY <3>1, <1>5
      <4> QED BY <3>1, <4>1, <1>2 DEF Hears
    <3>2. CASE saves[s] # <<>>
      <4>1. saves'[s][1] = saves[s][1] BY <3>2, <1>5
      <4> QED BY <3>2, <4>1, <1>5 DEF Hears
    <3> QED BY <3>1, <3>2
  <2> QED BY <2>1, <2>2, <1>4 DEF Hears
<1>7. InLine'
  <2> SUFFICES ASSUME ~overlapped' PROVE InLine' BY DEF InLine
  <2>1. ~overlapped /\ Quiet /\ s \in knows BY DEF Commit
  <2>2. \A t \in Stores : saves[t] = <<>> BY <2>1 DEF Quiet
  <2>3. text[s] = stored BY <2>1, <2>2 DEF Hears
  <2>4. standing \subseteq ToSet(text[s]) BY <2>1, <2>3 DEF InLine
  <2>5. Stands(change) \subseteq ToSet(Changed(text[s], change))
    BY <2>4, <1>3, ChangedHolds DEF Commit
  <2>6. Len(saves'[s]) = 1 /\ saves'[s][1] = save BY <2>2, <1>5
  <2>7. standing' \subseteq ToSet(saves'[s][1].source) BY <2>5, <2>6, <1>1 DEF Commit
  <2>8. ~overruled'
    <3>1. \A form \in standing : Forbids(form, change) => Ruling(s, change) = "deny"
      BY <2>4, ForbiddenIsDenied
    <3> QED BY <3>1, <2>1 DEF CommitRuled, InLine
  <2>9. \A t \in Stores : saves'[t] # <<>> => t = s BY <2>2, <1>4
  <2>10. ~Quiet' BY <1>5 DEF Quiet
  <2> QED BY <2>1, <2>6, <2>7, <2>8, <2>9, <2>10, <1>4 DEF InLine
<1> QED BY <1>6, <1>7

(* put() of the first save of a store. *)
LEMMA LandInLine ==
  ASSUME ConfigTypeOK, Hears, InLine, NEW s \in Stores, Land(s) PROVE Hears' /\ InLine'
<1> DEFINE first == Head(saves[s])
<1>1. saves[s] # <<>> BY DEF Land
<1>2. PICK made : made = [first EXCEPT !.landed = TRUE] OBVIOUS
<1>3. made.source = first.source /\ made.landed = TRUE BY <1>1, <1>2, HeadOfSaves DEF ConfigSaves
<1>4. /\ saves'[s] = <<made>> \o Tail(saves[s]) /\ \A t \in Stores : t # s => saves'[t] = saves[t]
      /\ stored' = first.source /\ text' = text /\ knows' = {s} /\ standing' = standing
      /\ overruled' = overruled /\ overlapped' = overlapped
  BY <1>2 DEF Land, ConfigTypeOK, told
<1>5. /\ first = saves[s][1] /\ Len(saves[s]) \in Nat /\ Len(saves[s]) >= 1
      /\ DOMAIN saves[s] = 1..Len(saves[s])
      /\ DOMAIN saves'[s] = 1..Len(saves[s]) /\ Len(saves'[s]) = Len(saves[s])
      /\ saves'[s][1] = made /\ saves'[s] # <<>>
      /\ \A i \in 1..Len(saves[s]) : i # 1 => saves'[s][i] = saves[s][i]
  <2>1. PICK rest : rest = Tail(saves[s]) OBVIOUS
  <2>2. /\ rest \in Seq(ConfigSaves) /\ Len(rest) = Len(saves[s]) - 1 /\ Len(saves[s]) \in Nat
        /\ DOMAIN saves[s] = 1..Len(saves[s]) /\ 1 \in DOMAIN saves[s] /\ first = saves[s][1]
        /\ \A i \in 1..(Len(saves[s]) - 1) : rest[i] = saves[s][i + 1]
    BY <1>1, <2>1, HeadOfSaves
  <2>3. saves'[s] = <<made>> \o rest BY <1>4, <2>1
  <2>4. made \in ConfigSaves BY <1>1, <1>2, HeadOfSaves DEF ConfigSaves
  <2>5. /\ Len(<<made>> \o rest) = 1 + Len(rest)
        /\ DOMAIN (<<made>> \o rest) = 1..(1 + Len(rest))
        /\ (<<made>> \o rest)[1] = made
        /\ \A i \in 1..(1 + Len(rest)) : i # 1 => (<<made>> \o rest)[i] = rest[i - 1]
    BY <2>2, <2>4
  <2>6. \A i \in 1..Len(saves[s]) : i # 1 => rest[i - 1] = saves[s][i] BY <2>2
  <2>7. saves'[s] # <<>> BY <2>2, <2>3, <2>5
  <2> QED BY <2>2, <2>3, <2>5, <2>6, <2>7
<1> HIDE DEF first
<1>6. Hears' BY <1>3, <1>4, <1>5 DEF Hears
<1>7. InLine'
  <2> SUFFICES ASSUME ~overlapped' PROVE InLine' BY DEF InLine
  <2>1. ~overlapped /\ standing \subseteq ToSet(first.source) /\ Len(saves[s]) = 1
    BY <1>1, <1>4, <1>5 DEF InLine
  <2>2. \A t \in Stores : saves[t] # <<>> => t = s BY <2>1, <1>1 DEF InLine
  <2>3. ~Quiet' BY <1>5 DEF Quiet
  <2> QED BY <2>1, <2>2, <2>3, <1>3, <1>4, <1>5 DEF InLine
<1> QED BY <1>6, <1>7

(* The first save of a store comes to an end, one way or the other. *)
LEMMA EndInLine ==
  ASSUME ConfigTypeOK, Hears, InLine, NEW s \in Stores, Return(s) \/ Fail(s) PROVE Hears' /\ InLine'
<1>1. saves[s] # <<>> BY DEF Return, Fail
<1>2. /\ saves'[s] = Tail(saves[s]) /\ \A t \in Stores : t # s => saves'[t] = saves[t]
      /\ stored' = stored /\ overruled' = overruled /\ overlapped' = overlapped
      /\ knows' \subseteq knows /\ knows \subseteq Stores
      /\ \A t \in Stores : t # s => text'[t] = text[t]
  BY DEF Return, Fail, ConfigTypeOK, told
<1>3. /\ Head(saves[s]) = saves[s][1] /\ Len(saves[s]) \in Nat /\ Len(saves[s]) >= 1
      /\ Len(saves'[s]) = Len(saves[s]) - 1 /\ DOMAIN saves'[s] = 1..(Len(saves[s]) - 1)
      /\ \A i \in 1..(Len(saves[s]) - 1) : i + 1 \in DOMAIN saves[s] /\ saves'[s][i] = saves[s][i + 1]
      /\ saves'[s] # <<>> => 1 \in DOMAIN saves'[s]
  <2>1. PICK rest : rest = Tail(saves[s]) OBVIOUS
  <2>2. /\ rest \in Seq(ConfigSaves) /\ Len(rest) = Len(saves[s]) - 1 /\ Len(saves[s]) \in Nat
        /\ DOMAIN saves[s] = 1..Len(saves[s]) /\ 1 \in DOMAIN saves[s] /\ Head(saves[s]) = saves[s][1]
        /\ DOMAIN rest = 1..(Len(saves[s]) - 1)
        /\ \A i \in 1..(Len(saves[s]) - 1) : rest[i] = saves[s][i + 1]
    BY <1>1, <2>1, HeadOfSaves
  <2>3. rest # <<>> => 1 \in DOMAIN rest BY <2>2, LenProperties, EmptySeq
  <2>4. \A i \in 1..(Len(saves[s]) - 1) : i + 1 \in DOMAIN saves[s] BY <2>2
  <2> QED BY <2>1, <2>2, <2>3, <2>4, <1>2
<1>4. \A i \in DOMAIN saves'[s] : ~saves'[s][i].landed
  BY <1>3 DEF Hears
<1>5. s \in knows' => text'[s] = stored
  <2> SUFFICES ASSUME s \in knows' PROVE text'[s] = stored OBVIOUS
  <2>1. s \in knows BY <1>2
  <2>2. CASE Return(s)
    <3>1. saves[s][1].landed /\ text'[s] = saves[s][1].source BY <2>2, <1>3 DEF Return, ConfigTypeOK
    <3> QED BY <3>1, <2>1, <1>1 DEF Hears
  <2>3. CASE Fail(s)
    <3>1. text' = text /\ ~saves[s][1].landed BY <2>3, <1>3 DEF Fail
    <3> QED BY <3>1, <2>1 DEF Hears
  <2> QED BY <2>2, <2>3
<1>6. Hears'
  <2>1. \A t \in Stores : \A i \in DOMAIN saves'[t] : saves'[t][i].landed => i = 1
    BY <1>2, <1>4 DEF Hears
  <2>2. ASSUME NEW t \in knows'
        PROVE  IF saves'[t] # <<>> /\ saves'[t][1].landed THEN saves'[t][1].source = stored
               ELSE text'[t] = stored
    <3>1. CASE t = s BY <3>1, <1>3, <1>4, <1>5
    <3>2. CASE t # s BY <3>2, <1>2 DEF Hears
    <3> QED BY <3>1, <3>2
  <2> QED BY <2>1, <2>2, <1>2 DEF Hears
<1>7. InLine'
  <2> SUFFICES ASSUME ~overlapped' PROVE InLine' BY DEF InLine
  <2>1. /\ ~overlapped /\ ~overruled /\ s \in knows /\ Len(saves[s]) = 1
        /\ standing \subseteq ToSet(saves[s][1].source)
        /\ \A t \in Stores : saves[t] # <<>> => t = s
    BY <1>1, <1>2 DEF InLine
  <2>2. saves'[s] = <<>>
    <3>1. 1 \notin DOMAIN saves'[s] BY <2>1, <1>3
    <3> QED BY <3>1, <1>3
  <2>3. \A t \in Stores : saves'[t] = <<>> BY <2>1, <2>2, <1>2
  <2>4. standing' \subseteq ToSet(stored)
    <3>1. CASE Return(s)
      <4>1. saves[s][1].landed BY <3>1, <1>3 DEF Return
      <4>2. saves[s][1].source = stored BY <4>1, <2>1, <1>1 DEF Hears
      <4> QED BY <3>1, <4>2, <2>1 DEF Return, told
    <3>2. CASE Fail(s) BY <3>2 DEF Fail
    <3> QED BY <3>1, <3>2
  <2> QED BY <2>1, <2>3, <2>4, <1>2 DEF InLine
<1> QED BY <1>6, <1>7

(* Every step keeps this. *)
LEMMA ConfigNextInLine ==
  ASSUME ConfigTypeOK, Hears, InLine, ConfigNext PROVE Hears' /\ InLine'
<1>1. ASSUME NEW s \in Stores, NEW change \in Changes,
             Apply(s, change) \/ ApproveChange(s, change) \/ DenyChange(s, change)
      PROVE  Hears' /\ InLine'
  <2>1. ASSUME NEW hears \in {"step", "none"}, CommitRuled(s, change, hears), Ruling(s, change) # "deny"
        PROVE  Hears' /\ InLine'
    <3>1. Commit(s, change, hears) /\ hears \in {"step", "call", "none"} BY <2>1 DEF CommitRuled
    <3> QED BY <2>1, <3>1, CommitInLine
  <2>2. CASE UNCHANGED <<stored, text, saves, knows, told>>
    BY <2>2 DEF Hears, InLine, Quiet, told
  <2> QED BY <1>1, <2>1, <2>2 DEF Apply, ApproveChange, DenyChange
<1>2. ASSUME NEW s \in Stores, NEW form \in Forms, Remember(s, form) PROVE Hears' /\ InLine'
  <2>1. PICK change : change = [kind |-> "add", form |-> form] OBVIOUS
  <2>2. change \in Changes BY <2>1 DEF Changes
  <2>3. Commit(s, change, "call") /\ overruled' = overruled BY <1>2, <2>1 DEF Remember
  <2> QED BY <2>2, <2>3, CommitInLine
<1>3. ASSUME NEW s \in Stores, Reopen(s) PROVE Hears' /\ InLine'
  <2>1. /\ saves[s] = <<>> /\ text'[s] = stored /\ \A t \in Stores : t # s => text'[t] = text[t]
        /\ knows' = knows \cup {s} /\ UNCHANGED <<stored, saves, standing, overruled, overlapped>>
    BY <1>3 DEF Reopen, ConfigTypeOK, told
  <2>2. knows \subseteq Stores BY DEF ConfigTypeOK
  <2> QED BY <2>1, <2>2 DEF Hears, InLine, Quiet
<1> QED BY <1>1, <1>2, <1>3, LandInLine, EndInLine DEF ConfigNext

(* So it always holds. *)
LEMMA ConfigStaysInLine == ConfigSpec => [](Hears /\ InLine)
<1>1. ConfigInit => ConfigTypeOK /\ Hears /\ InLine
  <2> SUFFICES ASSUME ConfigInit PROVE Hears /\ InLine BY ConfigStarts
  <2>1. \A s \in Stores : saves[s] = <<>> /\ DOMAIN saves[s] = {} /\ text[s] = stored
    BY DEF ConfigInit
  <2> QED BY <2>1 DEF ConfigInit, Hears, InLine
<1>2. ASSUME Hears, InLine, UNCHANGED configVars PROVE Hears' /\ InLine'
  BY <1>2 DEF Hears, InLine, Quiet, configVars, told
<1>3. ConfigTypeOK /\ Hears /\ InLine /\ [ConfigNext]_configVars => Hears' /\ InLine'
  BY <1>2, ConfigNextInLine
<1> QED BY <1>1, <1>3, ConfigTypes, PTL DEF ConfigSpec

(* commit(): what is reported as applied is in the config once the saves   *)
(* returned, and stays until it is deleted, all is cleared or its save     *)
(* fails, as long as no change was made of a text while the config was     *)
(* being saved, or by a store that does not know what is stored.           *)
THEOREM ChangesAreApplied == ConfigSpec => []Applied
<1>1. Hears /\ InLine => Applied BY DEF InLine, Applied
<1> QED BY <1>1, ConfigStaysInLine, PTL

(* onResolved(): no change begins that a form applied before denies, even  *)
(* one approved while the change waited for the user, as long as no change *)
(* was made of a text while the config was being saved, or by a store that *)
(* does not know what is stored.                                           *)
THEOREM DenialsHold == ConfigSpec => []Overruled
<1>1. Hears /\ InLine => Overruled BY DEF InLine, Overruled
<1> QED BY <1>1, ConfigStaysInLine, PTL

(* ConvexPermissionsStore.save(): whatever saves overlap, fail or lose     *)
(* their answer, the store whose save was made last, and those opened      *)
(* since, have the stored text once their saves are over.                  *)
THEOREM StoresCohere == ConfigSpec => []Coherent
<1>1. Hears /\ InLine => Coherent BY DEF Hears, Coherent
<1> QED BY <1>1, ConfigStaysInLine, PTL
=============================================================================
