---------------------------- MODULE LayerProofs -----------------------------
(***************************************************************************)
(* Proofs about the layers of REPL images: that a layer restores the image *)
(* it was made for and what a store keeps restores the image saved last    *)
(* (ImageLayers), and that the layers in the tables, shared by forks and   *)
(* collected by purges, hold what chats stand on and no more (ReplLayers). *)
(***************************************************************************)
EXTENDS ReplLayers, ImageLayers, SequenceTheorems, FiniteSetTheorems, WellFoundedInduction, TLAPS

(* A set of natural numbers that is not empty has a least element. *)
LEMMA LeastNatural ==
  ASSUME NEW S, S \subseteq Nat, S # {}
  PROVE  \E n \in S : \A m \in S : n <= m
<1>1. PICK n \in S : \A m \in S : ~ (<<m, n>> \in OpToRel(<, Nat))
  BY NatLessThanWellFounded, WFMin
<1>2. ASSUME NEW m \in S PROVE n <= m
  <2>1. ~ (m < n) BY <1>1 DEF OpToRel
  <2> QED BY <2>1
<1> QED BY <1>2

-----------------------------------------------------------------------------
(* A layer, and the image it is made for.                                  *)

(* splice() finds how long two lists are alike. *)
LEMMA KeepAlike ==
  ASSUME NEW V, NEW lower \in Seq(V), NEW upper \in Seq(V)
  PROVE  /\ Keep(lower, upper) \in 0..Len(lower)
         /\ Keep(lower, upper) <= Len(upper)
         /\ \A i \in 1..Keep(lower, upper) : lower[i] = upper[i]
<1> DEFINE Alike(k) == k <= Len(upper) /\ \A i \in 1..k : lower[i] = upper[i]
           Good(k) == /\ k <= Len(upper) /\ \A i \in 1..k : lower[i] = upper[i]
                      /\ k = Len(lower) \/ k = Len(upper) \/ lower[k + 1] # upper[k + 1]
           Short == {n \in Nat : n <= Len(lower) /\ Alike(Len(lower) - n)}
<1>1. Len(lower) \in Nat /\ Len(upper) \in Nat OBVIOUS
<1>2. Len(lower) \in Short BY <1>1
<1>3. PICK n \in Short : \A m \in Short : n <= m
  <2> HIDE DEF Short
  <2>1. Short \subseteq Nat BY DEF Short
  <2> QED BY <1>2, <2>1, LeastNatural
<1> DEFINE k == Len(lower) - n
<1>4. k \in 0..Len(lower) /\ Alike(k) BY <1>1, <1>3
<1>5. Good(k)
  <2> SUFFICES ASSUME k # Len(lower), k # Len(upper), lower[k + 1] = upper[k + 1] PROVE FALSE
    BY <1>4
  <2>1. n \in Nat /\ n # 0 /\ n <= Len(lower) BY <1>1
  <2>2. k + 1 <= Len(upper) BY <1>1, <1>4
  <2>3. Alike(k + 1) BY <1>1, <1>4, <2>2
  <2>4. k + 1 = Len(lower) - (n - 1) BY <1>1, <2>1
  <2>5. Alike(Len(lower) - (n - 1))
    <3> HIDE DEF Alike, k
    <3> QED BY <2>3, <2>4
  <2>6. n - 1 \in Short BY <1>1, <2>1, <2>5
  <2>7. n <= n - 1
    <3> HIDE DEF Short
    <3> QED BY <1>3, <2>6
  <2> QED BY <2>1, <2>7
<1>6. Keep(lower, upper) = CHOOSE j \in 0..Len(lower) : Good(j) BY DEF Keep
<1>7. Keep(lower, upper) \in 0..Len(lower) /\ Good(Keep(lower, upper))
  <2> HIDE DEF Good, k
  <2> QED BY <1>4, <1>5, <1>6
<1> QED BY <1>7

(* The front of a list, and the rest of another that begins with it, make  *)
(* that other list.                                                        *)
LEMMA FrontAndRest ==
  ASSUME NEW V, NEW lower \in Seq(V), NEW upper \in Seq(V), NEW k \in Nat,
         k <= Len(lower), k <= Len(upper), \A i \in 1..k : lower[i] = upper[i]
  PROVE  SubSeq(lower, 1, k) \o SubSeq(upper, k + 1, Len(upper)) = upper
<1>0. Len(lower) \in Nat /\ Len(upper) \in Nat OBVIOUS
<1>1. PICK front : front = SubSeq(lower, 1, k) OBVIOUS
<1>2. PICK rest : rest = SubSeq(upper, k + 1, Len(upper)) OBVIOUS
<1>3. front \in Seq(V) /\ Len(front) = k /\ \A i \in 1..k : front[i] = upper[i]
  <2>1. \A i \in 1..k : lower[i] \in V BY <1>0
  <2> QED BY <1>0, <1>1, <2>1, SubSeqProperties
<1>4. /\ rest \in Seq(V) /\ Len(rest) = Len(upper) - k
      /\ \A i \in 1..(Len(upper) - k) : rest[i] = upper[k + i]
  <2>1. \A i \in (k + 1)..Len(upper) : upper[i] \in V BY <1>0
  <2> QED BY <1>0, <1>2, <2>1, SubSeqProperties
<1>5. /\ front \o rest \in Seq(V)
      /\ Len(front \o rest) = Len(front) + Len(rest)
      /\ \A i \in 1..Len(front) + Len(rest) :
           (front \o rest)[i] = IF i <= Len(front) THEN front[i] ELSE rest[i - Len(front)]
  BY <1>3, <1>4, ConcatProperties
<1>6. Len(front \o rest) = Len(upper) BY <1>0, <1>3, <1>4, <1>5
<1>7. ASSUME NEW i \in 1..Len(upper) PROVE (front \o rest)[i] = upper[i]
  <2>1. (front \o rest)[i] = IF i <= k THEN front[i] ELSE rest[i - k]
    BY <1>0, <1>3, <1>4, <1>5
  <2>2. CASE i <= k BY <2>1, <2>2, <1>0, <1>3
  <2>3. CASE i > k
    <3>1. i - k \in 1..(Len(upper) - k) /\ k + (i - k) = i BY <2>3, <1>0
    <3> QED BY <3>1, <2>1, <2>3, <1>4
  <2>4. i \in Int /\ (i <= k \/ i > k) BY <1>0
  <2> QED BY <2>2, <2>3, <2>4
<1>8. front \o rest = upper BY <1>5, <1>6, <1>7, SeqEqual
<1> QED BY <1>1, <1>2, <1>8

(* A list is got back from what splice() made of it. *)
LEMMA SplicedBack ==
  ASSUME NEW V, NEW lower \in Seq(V), NEW upper \in Seq(V)
  PROVE  /\ Fits(lower, Splice(lower, upper))
         /\ Spliced(lower, Splice(lower, upper)) = upper
<1>1. PICK k : k = Keep(lower, upper) OBVIOUS
<1>2. /\ k \in Nat /\ k <= Len(lower) /\ k <= Len(upper)
      /\ \A i \in 1..k : lower[i] = upper[i]
  BY <1>1, KeepAlike
<1>3. SubSeq(lower, 1, k) \o SubSeq(upper, k + 1, Len(upper)) = upper
  BY <1>2, FrontAndRest
<1>4. PICK rest : rest = SubSeq(upper, k + 1, Len(upper)) OBVIOUS
<1>5. PICK layer : layer = Splice(lower, upper) OBVIOUS
<1>6. layer = [keep |-> k, tail |-> rest] BY <1>1, <1>4, <1>5 DEF Splice
<1>7. layer.keep = k /\ layer.tail = rest BY <1>6
<1>8. Fits(lower, layer) BY <1>2, <1>7 DEF Fits
<1>9. Spliced(lower, layer) = upper BY <1>3, <1>4, <1>7 DEF Spliced
<1> QED BY <1>5, <1>8, <1>9

(* A record is got back from what patch() made of it, unless it dropped a  *)
(* name that every object inherits.                                        *)
LEMMA PatchedBack ==
  ASSUME NEW V, NEW D, NEW E, NEW lower \in [D -> V], NEW upper \in [E -> V],
         D \cap Inherited = {}
  PROVE  Patched(lower, Patch(lower, upper)) = upper
<1> DEFINE set == [n \in Changed(lower, upper) |-> upper[n]]
           drop == D \ In(upper)
<1>1. Patch(lower, upper) = [set |-> set, drop |-> drop] BY DEF Patch
<1>2. Changed(lower, upper) \subseteq E /\ DOMAIN set = Changed(lower, upper) BY DEF Changed
<1>3. (D \cup Changed(lower, upper)) \ drop = E BY DEF Changed, In
<1>4. \A n \in E : (IF n \in Changed(lower, upper) THEN upper[n] ELSE lower[n]) = upper[n]
  BY DEF Changed
<1>5. Patched(lower, Patch(lower, upper)) =
        [n \in E |-> IF n \in Changed(lower, upper) THEN set[n] ELSE lower[n]]
  BY <1>1, <1>2, <1>3 DEF Patched
<1>6. \A n \in E : (IF n \in Changed(lower, upper) THEN set[n] ELSE lower[n]) = upper[n]
  BY <1>4
<1>7. upper = [n \in E |-> upper[n]] OBVIOUS
<1> HIDE DEF set, drop
<1> QED BY <1>5, <1>6, <1>7

(* Lists and records of images are lists and records of values. *)
LEMMA ImageParts ==
  ASSUME NEW upper \in Images
  PROVE  /\ upper.list \in Seq(Values)
         /\ \E D : upper.record \in [D -> Values]
         /\ upper = [format |-> upper.format, list |-> upper.list, record |-> upper.record]
<1>1. PICK n \in 0..MaxList : upper.list \in [1..n -> Values] BY DEF Images, Lists
<1>2. n \in Nat BY ImagesAssumption
<1> QED BY <1>1, <1>2 DEF Images, Records

(* layerOver() and one turn of stack() give the image back, whatever is    *)
(* below: image-layer.test.ts:45, "stacks back to the image it was taken   *)
(* from", for every image whose names are not those of JavaScript objects. *)
THEOREM LayerRestores ==
  ASSUME NEW lower \in Images \cup {Nothing}, NEW upper \in Images,
         lower # Nothing => DOMAIN lower.record \cap Inherited = {}
  PROVE  LET layer == LayerOver(lower, upper)
         IN /\ Fits(IF layer.whole THEN <<>> ELSE lower.list, layer.list)
            /\ Over(lower, layer) = upper
<1> DEFINE base == lower = Nothing \/ lower.format # upper.format
           layer == LayerOver(lower, upper)
<1>1. PICK under : under = IF base THEN Empty(upper.format) ELSE lower OBVIOUS
<1>2. /\ layer.format = upper.format /\ layer.whole = base
      /\ layer.list = Splice(under.list, upper.list)
      /\ layer.record = Patch(under.record, upper.record)
  BY <1>1 DEF LayerOver
<1>3. upper.list \in Seq(Values) BY ImageParts
<1>4. PICK E : upper.record \in [E -> Values] BY ImageParts
<1>5. /\ under.list \in Seq(Values)
      /\ \E D : under.record \in [D -> Values] /\ D \cap Inherited = {}
  <2>1. CASE base
    <3>1. under.list = <<>> /\ under.record \in [{} -> Values] BY <1>1, <2>1 DEF Empty
    <3>2. under.list \in Seq(Values) BY <3>1
    <3>3. {} \cap Inherited = {} OBVIOUS
    <3> QED BY <3>1, <3>2, <3>3
  <2>2. CASE ~base
    <3>1. under = lower /\ lower \in Images /\ lower # Nothing BY <1>1, <2>2
    <3>2. PICK D : lower.record \in [D -> Values] BY <3>1, ImageParts
    <3>3. DOMAIN lower.record = D BY <3>2
    <3> QED BY <3>1, <3>2, <3>3, ImageParts
  <2> QED BY <2>1, <2>2
<1>6. PICK D : under.record \in [D -> Values] /\ D \cap Inherited = {} BY <1>5
<1> HIDE DEF base, layer
<1>7. Fits(under.list, layer.list) /\ Spliced(under.list, layer.list) = upper.list
  BY <1>2, <1>3, <1>5, SplicedBack
<1>8. Patched(under.record, layer.record) = upper.record
  BY <1>2, <1>4, <1>6, PatchedBack
<1>9. under = IF layer.whole THEN Empty(layer.format) ELSE lower BY <1>1, <1>2
<1>10. Over(lower, layer) = [format |-> upper.format, list |-> upper.list, record |-> upper.record]
  BY <1>2, <1>7, <1>8, <1>9 DEF Over
<1>11. Fits(IF layer.whole THEN <<>> ELSE lower.list, layer.list)
  BY <1>2, <1>7, <1>9 DEF Empty
<1>12. Over(lower, layer) = upper BY <1>10, ImageParts
<1> QED BY <1>11, <1>12 DEF layer

-----------------------------------------------------------------------------
(* Runs of layers, and what stack() makes of them.                         *)

(* Induction over the natural numbers, on a set of them. *)
LEMMA NaturalInduction ==
  ASSUME NEW Good, 0 \in Good, \A n \in Nat : n \in Good => n + 1 \in Good
  PROVE  \A n \in Nat : n \in Good
<1> SUFFICES ASSUME NEW bad \in Nat, bad \notin Good PROVE FALSE OBVIOUS
<1> DEFINE Bad == {n \in Nat : n \notin Good}
<1>1. PICK n \in Bad : \A m \in Bad : n <= m
  <2>1. Bad \subseteq Nat /\ Bad # {} OBVIOUS
  <2> HIDE DEF Bad
  <2> QED BY <2>1, LeastNatural
<1>2. n \in Nat /\ n # 0 /\ n - 1 \in Nat OBVIOUS
<1>3. n - 1 \in Good
  <2>1. n - 1 \in Bad => n <= n - 1 BY <1>1
  <2> QED BY <2>1, <1>2
<1>4. (n - 1) + 1 = n BY <1>2
<1> QED BY <1>2, <1>3, <1>4

(* The images after the first layers of a run, as stack() makes them. *)
Grows(run, k, g) ==
  g = [n \in 0..k |-> IF n = 0 THEN Empty(run[1].format) ELSE Over(g[n - 1], run[n])]

(* The image after one layer more. *)
LEMMA GrowsAt ==
  ASSUME NEW run, NEW k, NEW g, Grows(run, k, g), NEW n \in 0..k
  PROVE  g[n] = IF n = 0 THEN Empty(run[1].format) ELSE Over(g[n - 1], run[n])
BY DEF Grows

(* The loop of stack() has an outcome, however long the run. *)
LEMMA GrowsExists ==
  ASSUME NEW run, NEW k \in Nat
  PROVE  \E g : Grows(run, k, g)
<1> DEFINE Good == {n \in Nat : \E g : Grows(run, n, g)}
<1>1. 0 \in Good
  <2> DEFINE g == [n \in 0..0 |-> Empty(run[1].format)]
  <2>1. \A n \in 0..0 : n = 0 OBVIOUS
  <2>2. g = [n \in 0..0 |-> IF n = 0 THEN Empty(run[1].format) ELSE Over(g[n - 1], run[n])]
    BY <2>1
  <2>3. Grows(run, 0, g)
    <3> HIDE DEF g
    <3> QED BY <2>2 DEF Grows
  <2> QED BY <2>3
<1>2. ASSUME NEW m \in Nat, m \in Good PROVE m + 1 \in Good
  <2>1. PICK g : Grows(run, m, g) BY <1>2
  <2> DEFINE h == [n \in 0..(m + 1) |-> IF n <= m THEN g[n] ELSE Over(g[m], run[m + 1])]
             next == [n \in 0..(m + 1) |-> IF n = 0 THEN Empty(run[1].format) ELSE Over(h[n - 1], run[n])]
  <2>2. ASSUME NEW n \in 0..(m + 1) PROVE h[n] = next[n]
    <3>1. CASE n = 0
      <4>1. 0 \in 0..m /\ 0 \in 0..(m + 1) /\ 0 <= m OBVIOUS
      <4>2. h[0] = g[0] BY <4>1
      <4>3. next[0] = Empty(run[1].format) BY <4>1
      <4> HIDE DEF h, next
      <4>4. g[0] = Empty(run[1].format) BY <2>1, <4>1, GrowsAt
      <4> QED BY <3>1, <4>2, <4>3, <4>4
    <3>2. CASE n # 0 /\ n <= m
      <4>1. n \in 0..m /\ n - 1 \in 0..(m + 1) /\ n - 1 <= m BY <3>2
      <4>2. h[n] = g[n] /\ h[n - 1] = g[n - 1] BY <4>1, <3>2
      <4>3. next[n] = Over(h[n - 1], run[n]) BY <3>2
      <4> HIDE DEF h, next
      <4>4. g[n] = Over(g[n - 1], run[n]) BY <2>1, <4>1, <3>2, GrowsAt
      <4> QED BY <4>2, <4>3, <4>4
    <3>3. CASE n = m + 1
      <4>1. n # 0 /\ ~(n <= m) /\ n - 1 = m /\ m \in 0..(m + 1) /\ m <= m BY <3>3
      <4>2. h[n] = Over(g[m], run[m + 1]) /\ h[m] = g[m] BY <4>1
      <4>3. next[n] = Over(h[n - 1], run[n]) BY <4>1
      <4> HIDE DEF h, next
      <4> QED BY <3>3, <4>1, <4>2, <4>3
    <3> QED BY <3>1, <3>2, <3>3
  <2>3. h = next
    <3>1. h = [n \in 0..(m + 1) |-> h[n]] /\ next = [n \in 0..(m + 1) |-> next[n]] OBVIOUS
    <3> HIDE DEF h, next
    <3> QED BY <2>2, <3>1
  <2>4. Grows(run, m + 1, h)
    <3>1. next = [n \in 0..(m + 1) |-> IF n = 0 THEN Empty(run[1].format) ELSE Over(h[n - 1], run[n])] OBVIOUS
    <3> HIDE DEF h, next
    <3> QED BY <2>3, <3>1 DEF Grows
  <2> QED BY <2>4
<1>3. \A n \in Nat : n \in Good
  <2> HIDE DEF Good
  <2> QED BY <1>1, <1>2, NaturalInduction
<1> QED BY <1>3

(* stack() starts from nothing and lays one layer over the next. *)
LEMMA StackedAt ==
  ASSUME NEW S, NEW run \in Seq(S)
  PROVE  Grows(run, Len(run), Stacked(run))
<1>1. \E g : Grows(run, Len(run), g) BY GrowsExists
<1> QED BY <1>1 DEF Stacked, Grows

(* Layers laid on top change nothing of what is below. *)
LEMMA StackedBelow ==
  ASSUME NEW S, NEW run \in Seq(S), run # <<>>, NEW layer \in S
  PROVE  \A n \in 0..Len(run) : Stacked(Append(run, layer))[n] = Stacked(run)[n]
<1> DEFINE more == Append(run, layer)
           g == Stacked(run)
           h == Stacked(more)
           Good == {n \in Nat : n <= Len(run) => h[n] = g[n]}
<1>1. more \in Seq(S) /\ Len(more) = Len(run) + 1 /\ Len(run) \in Nat /\ Len(run) > 0
      /\ \A n \in 1..Len(run) : more[n] = run[n]
  OBVIOUS
<1> HIDE DEF more
<1>2. Grows(run, Len(run), g) /\ Grows(more, Len(more), h) BY <1>1, StackedAt
<1> HIDE DEF g, h
<1>3. 0 \in Good
  <2>1. 0 \in 0..Len(run) /\ 0 \in 0..Len(more) /\ 1 \in 1..Len(run) BY <1>1
  <2>2. g[0] = Empty(run[1].format) /\ h[0] = Empty(more[1].format) BY <1>2, <2>1, GrowsAt
  <2> QED BY <2>1, <2>2, <1>1
<1>4. ASSUME NEW n \in Nat, n \in Good PROVE n + 1 \in Good
  <2> SUFFICES ASSUME n + 1 <= Len(run) PROVE h[n + 1] = g[n + 1] OBVIOUS
  <2> DEFINE m == n + 1
  <2>1. m \in 0..Len(run) /\ m \in 0..Len(more) /\ m # 0 /\ m - 1 = n /\ m \in 1..Len(run) BY <1>1
  <2>2. h[n] = g[n] BY <1>1, <1>4
  <2> HIDE DEF m
  <2>3. g[m] = Over(g[m - 1], run[m]) BY <1>2, <2>1, GrowsAt
  <2>4. h[m] = Over(h[m - 1], more[m]) BY <1>2, <2>1, GrowsAt
  <2>5. more[m] = run[m] BY <1>1, <2>1
  <2>6. h[m] = g[m] BY <2>1, <2>2, <2>3, <2>4, <2>5
  <2> QED BY <2>6 DEF m
<1>5. \A n \in Nat : n \in Good
  <2> HIDE DEF Good
  <2> QED BY <1>3, <1>4, NaturalInduction
<1> QED BY <1>1, <1>5 DEF g, h, more

(* One layer more on a run. *)
LEMMA StackMore ==
  ASSUME NEW S, NEW run \in Seq(S), Stackable(run), NEW layer \in S, ~layer.whole,
         Fits(Stack(run).list, layer.list)
  PROVE  /\ Stackable(Append(run, layer))
         /\ Stack(Append(run, layer)) = Over(Stack(run), layer)
<1> DEFINE more == Append(run, layer)
<1>0. run # <<>> /\ run[1].whole BY DEF Stackable
<1>1. more \in Seq(S) /\ Len(more) = Len(run) + 1 /\ Len(run) \in Nat /\ Len(run) > 0
      /\ (\A n \in 1..Len(run) : more[n] = run[n]) /\ more[Len(run) + 1] = layer /\ more # <<>>
  BY <1>0
<1>2. \A n \in 0..Len(run) : Stacked(more)[n] = Stacked(run)[n]
  BY <1>0, StackedBelow
<1> HIDE DEF more
<1>3. Grows(more, Len(more), Stacked(more)) BY <1>1, StackedAt
<1>4. Stacked(more)[Len(run)] = Stack(run) BY <1>1, <1>2 DEF Stack
<1>5. Stack(more) = Over(Stack(run), layer)
  <2> DEFINE n == Len(more)
  <2>1. n \in 0..Len(more) /\ n # 0 /\ n - 1 = Len(run) /\ more[n] = layer BY <1>1
  <2>2. Stacked(more)[n] = Over(Stacked(more)[n - 1], more[n])
    <3> HIDE DEF n
    <3> QED BY <1>3, <2>1, GrowsAt
  <2> QED BY <2>1, <2>2, <1>4 DEF Stack
<1>6. Stackable(more)
  <2>1. more[1].whole BY <1>0, <1>1
  <2>2. ASSUME NEW n \in 1..Len(more)
        PROVE  Fits(IF more[n].whole THEN <<>> ELSE Stacked(more)[n - 1].list, more[n].list)
    <3>1. CASE n = Len(run) + 1
      <4>1. n - 1 = Len(run) BY <3>1, <1>1
      <4> QED BY <3>1, <4>1, <1>1, <1>4
    <3>2. CASE n \in 1..Len(run)
      <4>1. Fits(IF run[n].whole THEN <<>> ELSE Stacked(run)[n - 1].list, run[n].list)
        BY <3>2 DEF Stackable
      <4>2. n - 1 \in 0..Len(run) BY <3>2, <1>1
      <4> QED BY <3>2, <4>1, <4>2, <1>1, <1>2
    <3> QED BY <3>1, <3>2, <1>1
  <2> QED BY <2>1, <2>2, <1>1 DEF Stackable
<1> QED BY <1>5, <1>6 DEF more

(* A run of one whole layer. *)
LEMMA StackOne ==
  ASSUME NEW S, NEW layer \in S, layer.whole, Fits(<<>>, layer.list)
  PROVE  Stackable(<<layer>>) /\ Stack(<<layer>>) = Over(Empty(layer.format), layer)
<1> DEFINE run == <<layer>>
<1>1. run \in Seq(S) /\ Len(run) = 1 /\ run[1] = layer /\ run # <<>> OBVIOUS
<1> HIDE DEF run
<1>2. Grows(run, Len(run), Stacked(run)) BY <1>1, StackedAt
<1>3. Stacked(run)[0] = Empty(layer.format) BY <1>1, <1>2, GrowsAt
<1>4. Stacked(run)[1] = Over(Stacked(run)[0], layer)
  <2>1. 1 \in 0..Len(run) /\ 1 # 0 /\ 1 - 1 = 0 BY <1>1
  <2>2. Stacked(run)[1] = Over(Stacked(run)[1 - 1], run[1]) BY <1>2, <2>1, GrowsAt
  <2> QED BY <2>1, <2>2, <1>1
<1>5. Stackable(run) BY <1>1 DEF Stackable
<1> QED BY <1>1, <1>3, <1>4, <1>5 DEF Stack, run

-----------------------------------------------------------------------------
(* The store and its cursor.                                               *)

(* The last whole layer of some layers, and the run it begins. *)
LastWhole(seq, from) ==
  /\ from \in 1..Len(seq) /\ seq[from].whole
  /\ \A n \in 1..Len(seq) : n > from => ~seq[n].whole

(* What is stored restores what was saved, and the cursor knows it.        *)
Stored ==
  /\ \E S : kept \in Seq(S)
  /\ below = saved
  /\ kept = <<>> => below = Nothing /\ count = 0
  /\ kept # <<>> =>
       /\ saved \in Images
       /\ \E from \in 1..Len(kept) : LastWhole(kept, from)
       /\ Len(Run) = count /\ count \in 1..MaxDeltaRun
       /\ Stackable(Run) /\ Stack(Run) = saved

(* latest(), of any layers. *)
RunOf(seq) ==
  LET wholes == {n \in DOMAIN seq : seq[n].whole}
      from == CHOOSE n \in wholes : \A m \in wholes : m <= n
  IN IF wholes = {} THEN seq ELSE SubSeq(seq, from, Len(seq))

(* latest() begins with the last whole layer. *)
LEMMA RunFrom ==
  ASSUME NEW S, NEW seq \in Seq(S), NEW from, LastWhole(seq, from)
  PROVE  RunOf(seq) = SubSeq(seq, from, Len(seq))
<1> DEFINE wholes == {n \in DOMAIN seq : seq[n].whole}
           last == CHOOSE n \in wholes : \A m \in wholes : m <= n
<1>1. Len(seq) \in Nat /\ DOMAIN seq = 1..Len(seq) BY LenProperties
<1>2. from \in wholes /\ \A m \in wholes : m <= from /\ m \in Nat
  BY <1>1 DEF LastWhole
<1>3. last \in wholes /\ \A m \in wholes : m <= last
  <2> HIDE DEF wholes
  <2> QED BY <1>2
<1>4. last = from
  <2>1. last <= from /\ from <= last /\ last \in Nat /\ from \in Nat BY <1>2, <1>3
  <2> HIDE DEF last
  <2> QED BY <2>1
<1>5. RunOf(seq) = IF wholes = {} THEN seq ELSE SubSeq(seq, last, Len(seq)) BY DEF RunOf
<1> HIDE DEF last, wholes
<1> QED BY <1>2, <1>4, <1>5

(* A layer that is not whole is one more of the run. *)
LEMMA RunGrows ==
  ASSUME NEW S, NEW seq \in Seq(S), NEW from, LastWhole(seq, from), NEW layer \in S, ~layer.whole
  PROVE  /\ RunOf(Append(seq, layer)) = Append(RunOf(seq), layer)
         /\ LastWhole(Append(seq, layer), from)
         /\ RunOf(seq) \in Seq(S) /\ RunOf(seq) # <<>>
<1> DEFINE more == Append(seq, layer)
<1>1. /\ Len(seq) \in Nat /\ Len(more) = Len(seq) + 1 /\ more \in Seq(S)
      /\ \A n \in 1..Len(seq) : more[n] = seq[n] /\ seq[n] \in S
      /\ more[Len(seq) + 1] = layer
  OBVIOUS
<1>2. from \in 1..Len(seq) /\ from \in 1..Len(more) BY <1>1 DEF LastWhole
<1> HIDE DEF more
<1>3. LastWhole(more, from)
  <2> SUFFICES ASSUME NEW n \in 1..Len(more), n > from PROVE ~more[n].whole
    BY <1>1, <1>2 DEF LastWhole
  <2>1. CASE n \in 1..Len(seq) BY <2>1, <1>1 DEF LastWhole
  <2>2. CASE n = Len(seq) + 1 BY <2>2, <1>1
  <2> QED BY <2>1, <2>2, <1>1
<1>4. RunOf(seq) = SubSeq(seq, from, Len(seq)) BY RunFrom
<1>5. RunOf(more) = SubSeq(more, from, Len(more)) BY <1>1, <1>3, RunFrom
<1> DEFINE r == SubSeq(seq, from, Len(seq))
           q == SubSeq(more, from, Len(more))
<1>6. /\ r \in Seq(S) /\ Len(r) = Len(seq) - from + 1
      /\ \A i \in 1..(Len(seq) - from + 1) : r[i] = seq[from + i - 1]
  <2>1. \A i \in from..Len(seq) : seq[i] \in S BY <1>1, <1>2
  <2> QED BY <2>1, <1>1, <1>2, SubSeqProperties
<1>7. /\ q \in Seq(S) /\ Len(q) = Len(seq) - from + 2
      /\ \A i \in 1..(Len(seq) - from + 2) : q[i] = more[from + i - 1]
  <2>1. \A i \in from..Len(more) : more[i] \in S BY <1>1, <1>2
  <2>2. /\ q \in Seq(S) /\ Len(q) = Len(more) - from + 1
        /\ \A i \in 1..(Len(more) - from + 1) : q[i] = more[from + i - 1]
    BY <2>1, <1>1, <1>2, SubSeqProperties
  <2>3. Len(more) - from + 1 = Len(seq) - from + 2 BY <1>1, <1>2
  <2> QED BY <2>2, <2>3
<1> HIDE DEF r, q
<1>8. q = Append(r, layer)
  <2>0. Append(r, layer) \in Seq(S) /\ Len(Append(r, layer)) = Len(r) + 1 BY <1>6
  <2>1. Append(r, layer) \in Seq(S) /\ Len(Append(r, layer)) = Len(q)
    BY <2>0, <1>1, <1>2, <1>6, <1>7
  <2>2. ASSUME NEW i \in 1..Len(q) PROVE q[i] = Append(r, layer)[i]
    <3>0. Len(seq) - from + 1 \in Nat /\ from \in Nat BY <1>1, <1>2
    <3>1. CASE i \in 1..(Len(seq) - from + 1)
      <4>1. from + i - 1 \in 1..Len(seq) BY <3>1, <1>1, <1>2
      <4>2. q[i] = seq[from + i - 1] BY <4>1, <1>1, <1>7
      <4>3. Append(r, layer)[i] = r[i] BY <3>1, <1>6
      <4> QED BY <4>2, <4>3, <3>1, <1>6
    <3>2. CASE i = Len(seq) - from + 2
      <4>1. from + i - 1 = Len(seq) + 1 BY <3>2, <1>1, <1>2
      <4>2. q[i] = layer BY <4>1, <1>1, <1>7
      <4>3. Append(r, layer)[i] = layer
        <5>1. i = Len(r) + 1 BY <3>2, <3>0, <1>1, <1>6
        <5> QED BY <5>1, <1>6
      <4> QED BY <4>2, <4>3
    <3>3. i \in 1..(Len(seq) - from + 2) BY <1>7
    <3>4. i \in 1..(Len(seq) - from + 1) \/ i = Len(seq) - from + 2
      <4> DEFINE c == Len(seq) - from
      <4>1. c \in Int /\ i \in 1..(c + 2) BY <3>0, <3>3, <1>1
      <4> HIDE DEF c
      <4>2. i \in 1..(c + 1) \/ i = c + 2 BY <4>1
      <4> QED BY <4>2 DEF c
    <3> QED BY <3>1, <3>2, <3>4
  <2> QED BY <2>1, <2>2, <1>7, SeqEqual
<1>9. r # <<>> BY <1>1, <1>2, <1>6
<1> QED BY <1>3, <1>4, <1>5, <1>6, <1>8, <1>9 DEF r, q, more

(* A whole layer begins a run. *)
LEMMA RunBegins ==
  ASSUME NEW S, NEW seq \in Seq(S), NEW layer \in S, layer.whole
  PROVE  /\ RunOf(Append(seq, layer)) = <<layer>>
         /\ LastWhole(Append(seq, layer), Len(Append(seq, layer)))
<1> DEFINE more == Append(seq, layer)
           from == Len(more)
<1>1. more \in Seq(S) /\ from \in Nat /\ from \in 1..Len(more) /\ more[from] = layer
  OBVIOUS
<1> HIDE DEF more
<1>2. LastWhole(more, from) BY <1>1 DEF LastWhole
<1> HIDE DEF from
<1>3. RunOf(more) = SubSeq(more, from, Len(more)) BY <1>1, <1>2, RunFrom
<1> DEFINE q == SubSeq(more, from, from)
<1>4. q \in Seq(S) /\ Len(q) = 1 /\ q[1] = more[from]
  <2>1. \A i \in from..from : more[i] \in S BY <1>1
  <2>2. /\ q \in Seq(S) /\ Len(q) = from - from + 1
        /\ \A i \in 1..(from - from + 1) : q[i] = more[from + i - 1]
    BY <2>1, <1>1, SubSeqProperties
  <2>3. from - from + 1 = 1 /\ from + 1 - 1 = from BY <1>1
  <2> QED BY <2>2, <2>3
<1> HIDE DEF q
<1>5. <<layer>> \in Seq(S) /\ Len(<<layer>>) = 1 /\ <<layer>>[1] = layer OBVIOUS
<1>6. \A i \in 1..1 : q[i] = <<layer>>[i] BY <1>1, <1>4, <1>5
<1>7. q = <<layer>> BY <1>4, <1>5, <1>6, SeqEqual
<1> QED BY <1>2, <1>3, <1>7 DEF q, from, more

(* A cursor saves over the image it was at, or a whole layer. *)
LEMMA SaveStores ==
  ASSUME Inherited = {}, Stored, NEW upper \in Images, Save(upper)
  PROVE  Stored'
<1> DEFINE lower == IF count >= MaxDeltaRun THEN Nothing ELSE below
           layer == LayerOver(lower, upper)
<1>0. kept' = Append(kept, layer) /\ below' = upper /\ saved' = upper
      /\ count' = IF layer.whole THEN 1 ELSE count + 1
  BY DEF Save
<1>1. PICK S : kept \in Seq(S) BY DEF Stored
<1> DEFINE T == S \cup {layer}
<1>2. kept \in Seq(T) /\ layer \in T BY <1>1
<1>3. lower \in Images \cup {Nothing} /\ (lower # Nothing => DOMAIN lower.record \cap Inherited = {})
  BY DEF Stored
<1>4. /\ Fits(IF layer.whole THEN <<>> ELSE lower.list, layer.list)
      /\ Over(lower, layer) = upper
  <2> HIDE DEF lower
  <2> QED BY <1>3, LayerRestores
<1>5. layer.whole = (lower = Nothing \/ lower.format # upper.format) BY DEF LayerOver
<1> HIDE DEF layer, lower, T
<1>6. Run = RunOf(kept) /\ Run' = RunOf(kept') BY DEF Run, RunOf
<1>7. kept' \in Seq(T) /\ kept' # <<>> /\ Len(kept') \in 1..Len(kept') BY <1>0, <1>2
<1>8. CASE layer.whole
  <2>1. Run' = <<layer>> /\ LastWhole(kept', Len(kept'))
    BY <1>0, <1>2, <1>6, <1>8, RunBegins
  <2>2. Fits(<<>>, layer.list) BY <1>4, <1>8
  <2>3. Stackable(<<layer>>) /\ Stack(<<layer>>) = Over(Empty(layer.format), layer)
    BY <1>2, <1>8, <2>2, StackOne
  <2>4. Over(Empty(layer.format), layer) = Over(lower, layer) BY <1>8 DEF Over
  <2>5. Len(<<layer>>) = 1 /\ 1 \in 1..MaxDeltaRun BY ImagesAssumption
  <2> QED
    <3>1. \E R : kept' \in Seq(R) BY <1>7
    <3>2. \E from \in 1..Len(kept') : LastWhole(kept', from) BY <1>7, <2>1
    <3>3. Len(Run') = count' /\ count' \in 1..MaxDeltaRun BY <2>1, <2>5, <1>0, <1>8
    <3>4. Stackable(Run') /\ Stack(Run') = saved' BY <2>1, <2>3, <2>4, <1>0, <1>4
    <3> QED BY <3>1, <3>2, <3>3, <3>4, <1>0, <1>7 DEF Stored
<1>9. CASE ~layer.whole
  <2>1. lower # Nothing /\ lower = below /\ count < MaxDeltaRun /\ kept # <<>>
    <3>1. lower # Nothing BY <1>5, <1>9
    <3>2. lower = below /\ ~(count >= MaxDeltaRun) BY <3>1 DEF lower
    <3>3. kept # <<>> BY <3>1, <3>2 DEF Stored
    <3>4. count \in 1..MaxDeltaRun BY <3>3 DEF Stored
    <3> QED BY <3>1, <3>2, <3>3, <3>4, ImagesAssumption
  <2>2. /\ saved \in Images /\ Len(Run) = count /\ count \in 1..MaxDeltaRun
        /\ Stackable(Run) /\ Stack(Run) = saved /\ below = saved
    BY <2>1 DEF Stored
  <2>3. PICK from \in 1..Len(kept) : LastWhole(kept, from) BY <2>1 DEF Stored
  <2>4. /\ Run' = Append(Run, layer) /\ LastWhole(kept', from) /\ Run \in Seq(T)
    BY <1>0, <1>2, <1>6, <1>9, <2>3, RunGrows
  <2>5. Fits(Stack(Run).list, layer.list) BY <1>4, <1>9, <2>1, <2>2
  <2>6. Stackable(Append(Run, layer)) /\ Stack(Append(Run, layer)) = Over(Stack(Run), layer)
    BY <1>2, <1>9, <2>2, <2>4, <2>5, StackMore
  <2>7. Len(Append(Run, layer)) = Len(Run) + 1 BY <2>4, <1>2
  <2> QED
    <3>1. \E R : kept' \in Seq(R) BY <1>7
    <3>2. from \in 1..Len(kept') BY <2>4 DEF LastWhole
    <3>3. Len(Run') = count' /\ count' \in 1..MaxDeltaRun
      BY <2>1, <2>2, <2>4, <2>7, <1>0, <1>9, ImagesAssumption
    <3>4. Stackable(Run') /\ Stack(Run') = saved' BY <2>1, <2>2, <2>4, <2>6, <1>0, <1>4
    <3> QED BY <3>1, <3>2, <3>3, <3>4, <2>4, <1>0, <1>7 DEF Stored
<1> QED BY <1>8, <1>9

(* Nothing is stored at first, and a new cursor finds what was saved. *)
LEMMA StoredInit == StoreInit => Stored
<1> SUFFICES ASSUME StoreInit PROVE Stored OBVIOUS
<1>1. kept \in Seq({}) BY DEF StoreInit
<1> QED BY <1>1 DEF StoreInit, Stored

(* Every save and every restart keeps it so. *)
LEMMA StoredNext ==
  ASSUME Inherited = {}, Stored, [StoreNext]_storeVars
  PROVE  Stored'
<1>1. ASSUME NEW upper \in Images, Save(upper) PROVE Stored' BY <1>1, SaveStores
<1>2. CASE Latest
  <2>1. kept' = kept /\ saved' = saved /\ Run' = Run BY <1>2 DEF Latest, Run
  <2>2. below' = below /\ count' = count BY <1>2 DEF Latest, Stored
  <2> QED BY <2>1, <2>2 DEF Stored
<1>3. CASE UNCHANGED storeVars BY <1>3 DEF storeVars, Stored, Run
<1> QED BY <1>1, <1>2, <1>3 DEF StoreNext

(* What is stored restores the image saved last, and takes no more than    *)
(* MAX_DELTA_RUN layers, for every sequence of saves and restarts          *)
(* (image-store.ts, image-layer.test.ts:45), if no name of a record is one *)
(* that every JavaScript object inherits.                                  *)
THEOREM StoreRestores ==
  ASSUME Inherited = {}
  PROVE  StoreSpec => []RoundTrip
<1>1. StoreInit => Stored BY StoredInit
<1>2. Stored /\ [StoreNext]_storeVars => Stored' BY StoredNext
<1>3. Stored => RoundTrip
  BY ImagesAssumption DEF Stored, RoundTrip
<1> QED BY <1>1, <1>2, <1>3, PTL DEF StoreSpec

-----------------------------------------------------------------------------
(* What the tables and the memory hold.                                    *)

(* Rows of the tables, and records of the memory: their shapes, for every  *)
(* number of steps and layers.                                             *)
MessageRows == [wire : Nat \cup {None}, type : {"ai", "tool"}, layer : Nat \cup {None}]
UnsentRows  == [wire : Nat \cup {None}, type : {"ai", "tool"}]
LayerRows   == [repl : Chats, parent : Nat \cup {None}, origin : Nat \cup {None},
                whole : BOOLEAN, image : Seq(Nat), below : Seq(Nat) \cup {None},
                run : Nat, line : SUBSET Nat]
Saves       == [repl : Chats, image : Seq(Nat), origin : Nat \cup {None}]
Cursors     == [below : Seq(Nat) \cup {None}, run : Nat, over : Nat \cup {None},
                queue : Seq(Saves)]
Purges      == [todo : SUBSET Nat, head : Nat \cup {None}]

(* The tables, and what is in memory, have these shapes. *)
TablesOK ==
  /\ chat \in [Chats -> {"none", "live", "dropped"}]
  /\ messages \in [Chats -> Seq(MessageRows)]
  /\ head \in [Chats -> Nat \cup {None}] /\ open \subseteq Chats
  /\ layers \in Seq(LayerRows) /\ stored \subseteq DOMAIN layers
  /\ replPurge \in [Chats -> Purges \cup {None}] /\ wirePurge \subseteq Chats

MemoryOK ==
  /\ at \in [Chats -> Stores \cup {None}] /\ image \in [Chats -> Seq(Nat)]
  /\ unsent \in [Chats -> Seq(UnsentRows)] /\ store \in [Stores -> Cursors] /\ steps \in Nat

(* A layer's line is itself and the lines of those above it, to the first. *)
Lined ==
  \A l \in DOMAIN layers :
    /\ layers[l].line \subseteq 1..l /\ l \in layers[l].line
    /\ \A d \in layers[l].line : layers[d].line \subseteq layers[l].line
    /\ layers[l].parent # None => layers[l].parent \in layers[l].line

(* Which chats have a REPL and which are purged; no stored layer lacks one *)
(* of its line.                                                            *)
Hung ==
  /\ \A c \in open : chat[c] = "live"
  /\ \A c \in Chats : chat[c] = "live" /\ c \notin open => head[c] = None
  /\ \A c \in wirePurge : chat[c] = "dropped"
  /\ \A c \in Chats : replPurge[c] # None => chat[c] = "dropped"
  /\ \A l \in stored : layers[l].line \subseteq stored

(* No stored layer but itself has a layer in its line. *)
Leaf(l) == \A d \in stored : l \in layers[d].line => d = l

(* A scheduled purge will come to a layer. *)
Condemned(l) ==
  \/ \E c \in Chats : replPurge[c] # None /\ (l \in replPurge[c].todo \/ l = replPurge[c].head)
  \/ \E c \in wirePurge : \E i \in DOMAIN messages[c] : messages[c][i].layer = l

(* A layer that nothing lies over is held by a chat, or will be purged. *)
Watched == \A l \in stored : Leaf(l) => Pinned(l, messages) \/ Condemned(l)

(* What a store takes its deltas over is the image of a layer. *)
Standing ==
  \A s \in Stores : store[s].below # None =>
    /\ store[s].over \in DOMAIN layers /\ layers[store[s].over].image = store[s].below
    /\ layers[store[s].over].run = store[s].run

(* A delta was made from its parent's image, and a whole layer is at the   *)
(* end of its run.                                                         *)
Stacks(l, tree) ==
  /\ ~tree[l].whole => tree[l].parent # None /\ tree[tree[l].parent].image = tree[l].below
  /\ tree[l].run <= MaxRun
  /\ \E w \in tree[l].line :
       tree[w].whole /\ Cardinality({d \in tree[l].line : d >= w}) = tree[l].run

(* Every layer can be stacked. *)
Based == \A l \in DOMAIN layers : Stacks(l, layers)

(* The parts of the invariant that most proofs need. *)
Shapes == TablesOK /\ MemoryOK
Tree   == Lined /\ Hung /\ Restorable

-----------------------------------------------------------------------------
(* Lemmas about the operators.                                             *)

(* One list after another. *)
LEMMA Joined ==
  ASSUME NEW S, NEW T, NEW a \in Seq(S), NEW b \in Seq(T), NEW ab, ab = a \o b
  PROVE  /\ DOMAIN ab = 1..(Len(a) + Len(b))
         /\ \A i \in 1..Len(a) : ab[i] = a[i]
         /\ \A i \in 1..Len(b) : ab[Len(a) + i] = b[i]
<1> DEFINE U == S \cup T
<1>1. S \subseteq U /\ T \subseteq U OBVIOUS
<1> HIDE DEF U
<1>2. a \in Seq(U) /\ b \in Seq(U)
  <2>1. \A A, B : A \subseteq B => Seq(A) \subseteq Seq(B) OBVIOUS
  <2> QED BY <2>1, <1>1
<1>3. /\ a \o b \in Seq(U) /\ Len(a \o b) = Len(a) + Len(b)
      /\ \A i \in 1..(Len(a) + Len(b)) :
           (a \o b)[i] = IF i <= Len(a) THEN a[i] ELSE b[i - Len(a)]
  BY <1>2, ConcatProperties
<1>4. DOMAIN ab = 1..(Len(a) + Len(b)) BY <1>3, LenProperties
<1>5. Len(a) \in Nat /\ Len(b) \in Nat BY <1>2, LenProperties
<1>6. \A i \in 1..Len(a) : ab[i] = a[i]
  <2>1. \A i \in 1..Len(a) : i \in 1..(Len(a) + Len(b)) /\ i <= Len(a) BY <1>5
  <2> QED BY <2>1, <1>3
<1>7. \A i \in 1..Len(b) : ab[Len(a) + i] = b[i]
  <2>1. \A i \in 1..Len(b) : /\ Len(a) + i \in 1..(Len(a) + Len(b)) /\ ~(Len(a) + i <= Len(a))
                             /\ (Len(a) + i) - Len(a) = i
    BY <1>5
  <2> QED BY <2>1, <1>3
<1> QED BY <1>4, <1>6, <1>7

(* A set of natural numbers below a bound has a greatest element. *)
LEMMA GreatestNatural ==
  ASSUME NEW n \in Nat, NEW S, S \subseteq 1..n, S # {}
  PROVE  \E i \in S : \A j \in S : j <= i
<1> DEFINE Before == {n - i : i \in S}
<1>1. Before \subseteq Nat /\ Before # {}
  <2>1. \A i \in S : n - i \in Nat OBVIOUS
  <2>2. PICK i \in S : TRUE OBVIOUS
  <2>3. n - i \in Before OBVIOUS
  <2> QED BY <2>1, <2>3
<1>2. PICK k \in Before : \A m \in Before : k <= m
  <2> HIDE DEF Before
  <2> QED BY <1>1, LeastNatural
<1>3. PICK i \in S : k = n - i OBVIOUS
<1>4. \A j \in S : n - i <= n - j BY <1>2, <1>3
<1> QED BY <1>4

(* Messages settle without a change of their number; each stands on the    *)
(* layer it stood on, or moves from the parent to the new one.             *)
LEMMA SettledRows ==
  ASSUME NEW m \in Seq(MessageRows), NEW l \in Nat, NEW origin, NEW parent
  PROVE  /\ Settled(m, l, origin, parent) \in Seq(MessageRows)
         /\ DOMAIN Settled(m, l, origin, parent) = DOMAIN m
         /\ \A i \in DOMAIN m :
              \/ Settled(m, l, origin, parent)[i] = m[i]
              \/ m[i].layer = parent /\ Settled(m, l, origin, parent)[i].layer = l
         /\ \A i \in DOMAIN m : Settled(m, l, origin, parent)[i].wire = m[i].wire
<1> DEFINE from == {i \in DOMAIN m : m[i].wire = origin /\ origin # None}
           start == CHOOSE i \in from : \A j \in from : i <= j
           moves(i) == from # {} /\ i >= start /\ (\A j \in start..i : m[j].layer = parent)
           settled == [i \in DOMAIN m |-> IF moves(i) THEN [m[i] EXCEPT !.layer = l] ELSE m[i]]
<1>1. Settled(m, l, origin, parent) = settled BY DEF Settled
<1>2. DOMAIN m = 1..Len(m) /\ Len(m) \in Nat BY LenProperties
<1>3. ASSUME NEW i \in DOMAIN m
      PROVE  /\ settled[i] \in MessageRows
             /\ settled[i] = m[i] \/ (m[i].layer = parent /\ settled[i].layer = l)
             /\ settled[i].wire = m[i].wire
  <2>1. m[i] \in MessageRows BY <1>2
  <2>2. CASE moves(i)
    <3>1. from \subseteq DOMAIN m /\ from # {} BY <2>2
    <3>3. i >= start BY <2>2
    <3>4. m[i].layer = parent
      <4>1. from \subseteq Nat BY <3>1, <1>2
      <4>2. \E i_1 \in from : \A j \in from : i_1 <= j
        <5> HIDE DEF from
        <5> QED BY <4>1, <3>1, LeastNatural
      <4>3. start \in from BY <4>2
      <4>4. start \in 1..Len(m) /\ i \in 1..Len(m) BY <4>3, <1>2
      <4>5. \A j \in start..i : m[j].layer = parent BY <2>2
      <4> HIDE DEF start
      <4>6. i \in start..i BY <3>3, <4>4
      <4> QED BY <4>5, <4>6
    <3>5. settled[i] = [m[i] EXCEPT !.layer = l] BY <2>2
    <3> QED BY <2>1, <3>4, <3>5 DEF MessageRows
  <2>3. CASE ~moves(i)
    <3>1. settled[i] = m[i] BY <2>3
    <3> QED BY <2>1, <3>1
  <2> QED BY <2>2, <2>3
<1> HIDE DEF settled
<1>4. DOMAIN settled = DOMAIN m BY DEF settled
<1>5. settled \in Seq(MessageRows)
  <2>1. settled = [i \in 1..Len(m) |-> settled[i]] BY <1>2 DEF settled
  <2> QED BY <2>1, <1>2, <1>3
<1> QED BY <1>1, <1>3, <1>4, <1>5

(* All rows from those of a step on stand on the parent, and `k` is one.   *)
OnParent(m, origin, parent, k) ==
  /\ \A h, j \in DOMAIN m : h <= j /\ m[h].wire = origin => m[j].layer = parent
  /\ \E i \in DOMAIN m : i <= k /\ m[i].wire = origin

(* Then it moves with the step's layer.                                    *)
LEMMA SettledMove ==
  ASSUME NEW m \in Seq(MessageRows), NEW l \in Nat, NEW origin, origin # None, NEW parent,
         NEW k \in DOMAIN m, OnParent(m, origin, parent, k)
  PROVE  Settled(m, l, origin, parent)[k].layer = l
<1> USE DEF OnParent
<1>0. PICK i \in DOMAIN m : i <= k /\ m[i].wire = origin OBVIOUS
<1> DEFINE from == {j \in DOMAIN m : m[j].wire = origin /\ origin # None}
           start == CHOOSE j \in from : \A h \in from : j <= h
           moves(j) == from # {} /\ j >= start /\ (\A h \in start..j : m[h].layer = parent)
           settled == [j \in DOMAIN m |-> IF moves(j) THEN [m[j] EXCEPT !.layer = l] ELSE m[j]]
<1>1. Settled(m, l, origin, parent) = settled BY DEF Settled
<1>2. DOMAIN m = 1..Len(m) /\ Len(m) \in Nat BY LenProperties
<1>3. i \in from /\ from \subseteq Nat BY <1>0, <1>2
<1>4. \E j \in from : \A h \in from : j <= h
  <2> HIDE DEF from
  <2> QED BY <1>3, LeastNatural
<1>5. start \in from /\ \A h \in from : start <= h BY <1>4
<1>6. start \in DOMAIN m /\ m[start].wire = origin /\ start <= i BY <1>3, <1>5
<1> HIDE DEF start
<1>7. \A h \in start..k : h \in DOMAIN m /\ start <= h BY <1>2, <1>6
<1>8. \A h \in start..k : m[h].layer = parent BY <1>6, <1>7
<1>9. k >= start BY <1>0, <1>2, <1>6
<1>10. settled[k] = [m[k] EXCEPT !.layer = l] BY <1>3, <1>8, <1>9
<1>11. m[k] \in MessageRows BY <1>2
<1>12. settled[k].layer = l BY <1>10, <1>11 DEF MessageRows
<1> QED BY <1>1, <1>12

(* A row is given a stored layer or none, one for each. *)
LEMMA LayersGiven ==
  ASSUME Shapes, Lined, Hung, Restorable, NEW c \in Chats, NEW m \in Seq(UnsentRows)
  PROVE  /\ DOMAIN LayersOf(c, m) = DOMAIN m
         /\ \A i \in DOMAIN m : LayersOf(c, m)[i] \in stored \cup {None}
<1> DEFINE owned == {i \in DOMAIN m : Own(c, m[i].wire) # {}}
           OwnOf(i) == CHOOSE l \in Own(c, m[i].wire) : TRUE
           first == CHOOSE i \in owned : \A j \in owned : i <= j
           base == IF c \notin open THEN None
                   ELSE IF owned = {} THEN head[c] ELSE layers[OwnOf(first)].parent
           LastOwned(i) == {j \in owned : j <= i /\ \A k \in owned : k <= i => k <= j}
           given == [i \in DOMAIN m |->
                       IF c \notin open \/ LastOwned(i) = {} THEN base
                       ELSE OwnOf(CHOOSE j \in LastOwned(i) : TRUE)]
<1>1. LayersOf(c, m) = given BY DEF LayersOf
<1>2. DOMAIN given = DOMAIN m OBVIOUS
<1>3. \A i \in owned : OwnOf(i) \in stored
  <2> SUFFICES ASSUME NEW i \in owned PROVE OwnOf(i) \in stored OBVIOUS
  <2>1. Own(c, m[i].wire) # {} OBVIOUS
  <2>2. OwnOf(i) \in Own(c, m[i].wire) BY <2>1
  <2> QED BY <2>2 DEF Own
<1>4. base \in stored \cup {None}
  <2>1. CASE c \notin open BY <2>1
  <2>2. CASE c \in open /\ owned = {} BY <2>2 DEF Restorable
  <2>3. CASE c \in open /\ owned # {}
    <3>1. owned \subseteq Nat
      <4>1. DOMAIN m = 1..Len(m) BY LenProperties
      <4> QED BY <4>1
    <3>2. \E i \in owned : \A j \in owned : i <= j
      <4> HIDE DEF owned
      <4> QED BY <3>1, <2>3, LeastNatural
    <3>3. first \in owned BY <3>2
    <3>4. PICK l : l = OwnOf(first) OBVIOUS
    <3>5. l \in stored BY <3>3, <3>4, <1>3
    <3>6. base = layers[l].parent BY <2>3, <3>4
    <3>7. layers[l].parent # None => layers[l].parent \in layers[l].line
      BY <3>5 DEF Shapes, TablesOK, Lined
    <3>8. layers[l].line \subseteq stored BY <3>5 DEF Hung
    <3> HIDE DEF base, owned
    <3> QED BY <3>6, <3>7, <3>8
  <2> QED BY <2>1, <2>2, <2>3
<1>5. ASSUME NEW i \in DOMAIN m PROVE given[i] \in stored \cup {None}
  <2>1. CASE c \notin open \/ LastOwned(i) = {}
    <3>1. given[i] = base BY <2>1
    <3> HIDE DEF given, base
    <3> QED BY <3>1, <1>4
  <2>2. CASE ~(c \notin open \/ LastOwned(i) = {})
    <3>1. (CHOOSE j \in LastOwned(i) : TRUE) \in LastOwned(i) BY <2>2
    <3>2. PICK j \in owned : j = CHOOSE k \in LastOwned(i) : TRUE BY <3>1
    <3>3. given[i] = OwnOf(j) BY <2>2, <3>2
    <3> HIDE DEF given, owned, OwnOf
    <3> QED BY <3>3, <3>2, <1>3
  <2> QED BY <2>1, <2>2
<1> HIDE DEF given
<1> QED BY <1>1, <1>2, <1>5

(* What is pinned is not collected. *)
LEMMA PinnedStays ==
  ASSUME Shapes, Lined, NEW from, NEW m, NEW l \in stored, Pinned(l, m)
  PROVE  l \notin Collected(from, m)
<1>1. l \in layers[l].line BY DEF Shapes, TablesOK, Lined
<1> QED BY <1>1 DEF Collected

(* What is collected leaves no gap in the line of what stays. *)
LEMMA LinesStay ==
  ASSUME Shapes, Lined, Hung, NEW from, NEW m, NEW l \in stored \ Collected(from, m)
  PROVE  layers[l].line \subseteq stored \ Collected(from, m)
<1> DEFINE above == UNION {layers[k].line : k \in from \cap stored}
           Goes(k) == \A d \in stored : k \in layers[d].line => d \in above /\ ~Pinned(d, m)
<1>1. Collected(from, m) = {k \in stored : Goes(k)} BY DEF Collected
<1>2. layers[l].line \subseteq stored BY DEF Hung
<1>3. ASSUME NEW x \in layers[l].line, Goes(x) PROVE FALSE
  <2>1. ASSUME NEW d \in stored, l \in layers[d].line PROVE d \in above /\ ~Pinned(d, m)
    <3>1. d \in DOMAIN layers BY DEF Shapes, TablesOK
    <3>2. layers[l].line \subseteq layers[d].line BY <3>1, <2>1 DEF Lined
    <3> QED BY <3>2, <1>3
  <2>2. Goes(l) BY <2>1
  <2> HIDE DEF Goes
  <2> QED BY <2>2, <1>1
<1> HIDE DEF Goes
<1> QED BY <1>1, <1>2, <1>3

(* What becomes a leaf by collecting is pinned, or was one and is not      *)
(* among what was collected from.                                          *)
LEMMA LeavesLeft ==
  ASSUME Shapes, Lined, Hung, NEW from, NEW m, NEW l \in stored \ Collected(from, m),
         \A d \in stored \ Collected(from, m) : l \in layers[d].line => d = l
  PROVE  Pinned(l, m) \/ (Leaf(l) /\ l \notin from)
<1> DEFINE above == UNION {layers[k].line : k \in from \cap stored}
           Goes(k) == \A d \in stored : k \in layers[d].line => d \in above /\ ~Pinned(d, m)
<1>1. Collected(from, m) = {k \in stored : Goes(k)} BY DEF Collected
<1>2. \A d \in stored : d \in DOMAIN layers /\ d \in layers[d].line
  BY DEF Shapes, TablesOK, Lined
<1>3. PICK e \in stored : l \in layers[e].line /\ (e \notin above \/ Pinned(e, m)) BY <1>1
<1>4. e \notin Collected(from, m) BY <1>1, <1>2, <1>3
<1>5. e = l BY <1>3, <1>4
<1> SUFFICES ASSUME l \notin above, ~Pinned(l, m) PROVE Leaf(l) /\ l \notin from
  BY <1>3, <1>5
<1>6. l \notin from BY <1>2
<1>7. ASSUME NEW d \in stored, l \in layers[d].line, d # l PROVE FALSE
  <2>1. d \in Collected(from, m) BY <1>7
  <2>2. d \in above
    <3>1. Goes(d) BY <2>1, <1>1
    <3> HIDE DEF above
    <3> QED BY <3>1, <1>2
  <2>3. PICK k \in from \cap stored : d \in layers[k].line BY <2>2
  <2>4. layers[d].line \subseteq layers[k].line BY <2>3, <1>2 DEF Lined
  <2> QED BY <2>3, <2>4, <1>7
<1> QED BY <1>6, <1>7 DEF Leaf

(* The save that waits longest, and the others. *)
LEMMA Waiting ==
  ASSUME Shapes, NEW s \in Stores, store[s].queue # <<>>
  PROVE  /\ store[s] \in Cursors /\ Head(store[s].queue) \in Saves
         /\ Tail(store[s].queue) \in Seq(Saves)
<1>1. store[s] \in Cursors BY DEF Shapes, MemoryOK
<1>2. store[s].queue \in Seq(Saves) BY <1>1 DEF Cursors
<1> QED BY <1>1, <1>2, HeadTailProperties

(* A cursor moved onto a stored layer. *)
LEMMA RestackedCursor ==
  ASSUME Shapes, NEW l \in DOMAIN layers, NEW cursor \in Cursors
  PROVE  /\ Restacked(l, cursor) \in Cursors
         /\ Restacked(l, cursor).below = layers[l].image /\ Restacked(l, cursor).over = l
         /\ Restacked(l, cursor).run = layers[l].run
<1>1. layers[l] \in LayerRows /\ l \in Nat BY LenProperties DEF Shapes, TablesOK
<1>2. layers[l].image \in Seq(Nat) /\ layers[l].run \in Nat BY <1>1 DEF LayerRows
<1> QED BY <1>1, <1>2 DEF Restacked, Cursors

(* A cursor that does not stand on any layer. *)
LEMMA IdleCursor == Idle \in Cursors /\ Idle.below = None
BY EmptySeq DEF Idle, Cursors

(* The head of an open REPL is a layer. *)
LEMMA HeadStored ==
  ASSUME Shapes, Restorable, NEW c \in open, head[c] # None
  PROVE  head[c] \in stored /\ head[c] \in DOMAIN layers
BY DEF Shapes, TablesOK, Restorable

(* The head of a live chat is a layer, whether its REPL has a row or not. *)
LEMMA HeadOfLive ==
  ASSUME Shapes, Hung, Restorable, NEW c \in Chats, chat[c] = "live", head[c] # None
  PROVE  c \in open /\ head[c] \in stored /\ head[c] \in DOMAIN layers
<1>1. c \in open BY DEF Hung
<1> QED BY <1>1, HeadStored

(* What a load leaves: the cursor as it was or on the head, an empty REPL  *)
(* or what is stored, which it is unless the chat is astray.               *)
LEMMA Loads ==
  ASSUME Shapes, Restorable, NEW c \in Chats, NEW s \in Stores, NEW cursor \in Cursors,
         Load(c, s, cursor)
  PROVE  /\ store' \in [Stores -> Cursors] /\ image' \in [Chats -> Seq(Nat)]
         /\ store'[s].queue = cursor.queue
         /\ \A t \in Stores : t # s => store'[t] = store[t]
         /\ \/ store'[s] = cursor
            \/ /\ head[c] \in DOMAIN layers
               /\ store'[s] = Restacked(head[c], cursor)
         /\ \A d \in Chats : d # c => image'[d] = image[d] /\ (d \in astray' <=> d \in astray)
         /\ c \notin astray' =>
              /\ ~Elsewhere(c, s)
              /\ c \in open /\ head[c] # None => image'[c] = layers[head[c]].image
<1> DEFINE found == c \in open /\ head[c] # None
<1>1. PICK answered \in BOOLEAN, loads \in BOOLEAN :
        /\ store' = [store EXCEPT ![s] =
             IF found /\ answered THEN Restacked(head[c], cursor) ELSE cursor]
        /\ image' = [image EXCEPT ![c] =
             IF found /\ answered /\ loads THEN layers[head[c]].image ELSE <<>>]
        /\ astray' = IF (found /\ ~(answered /\ loads)) \/ Elsewhere(c, s)
                     THEN astray \cup {c} ELSE astray \ {c}
  BY DEF Load
<1>2. found => head[c] \in DOMAIN layers /\ layers[head[c]].image \in Seq(Nat)
  <2>1. found => head[c] \in DOMAIN layers BY HeadStored
  <2>2. \A l \in DOMAIN layers : layers[l] \in LayerRows BY DEF Shapes, TablesOK
  <2> QED BY <2>1, <2>2 DEF LayerRows
<1> HIDE DEF found
<1>3. found => Restacked(head[c], cursor) \in Cursors /\ Restacked(head[c], cursor).queue = cursor.queue
  BY <1>2, RestackedCursor DEF Restacked, Cursors
<1>4. store \in [Stores -> Cursors] /\ image \in [Chats -> Seq(Nat)] BY DEF Shapes, MemoryOK
<1>5. store'[s] = IF found /\ answered THEN Restacked(head[c], cursor) ELSE cursor BY <1>1, <1>4
<1>6. store' \in [Stores -> Cursors] BY <1>1, <1>3, <1>4
<1>7. image' \in [Chats -> Seq(Nat)] BY <1>1, <1>2, <1>4, EmptySeq
<1>8. \A t \in Stores : t # s => store'[t] = store[t] BY <1>1, <1>4
<1>9. store'[s].queue = cursor.queue BY <1>3, <1>5
<1>10. store'[s] = cursor \/ (head[c] \in DOMAIN layers /\ store'[s] = Restacked(head[c], cursor))
  BY <1>2, <1>5
<1>11. \A d \in Chats : d # c => image'[d] = image[d] /\ (d \in astray' <=> d \in astray)
  BY <1>1, <1>4
<1>12. ASSUME c \notin astray'
       PROVE  ~Elsewhere(c, s) /\ (found => image'[c] = layers[head[c]].image)
  <2>1. ~((found /\ ~(answered /\ loads)) \/ Elsewhere(c, s)) BY <1>1, <1>12
  <2> QED BY <2>1, <1>1, <1>4
<1> QED BY <1>6, <1>7, <1>8, <1>9, <1>10, <1>11, <1>12 DEF found

(* The row of a new layer. *)
LEMMA RowOfSave ==
  ASSUME Shapes, Restorable, NEW s \in Stores, NEW save \in Saves, save.repl \in open
  PROVE  LET r == Row(s, save)
         IN /\ r \in LayerRows /\ r.repl = save.repl /\ r.origin = save.origin
            /\ r.parent = head[save.repl] /\ r.whole = Whole(s) /\ r.image = save.image
            /\ r.below = (IF Whole(s) THEN None ELSE store[s].below)
            /\ r.run = RunAfter(s)
            /\ r.line = {Len(layers) + 1} \cup
                 (IF head[save.repl] = None THEN {} ELSE layers[head[save.repl]].line)
<1> DEFINE c == save.repl
           line == {Len(layers) + 1} \cup (IF head[c] = None THEN {} ELSE layers[head[c]].line)
           lower == IF Whole(s) THEN None ELSE store[s].below
<1>1. /\ c \in Chats /\ head[c] \in Nat \cup {None}
      /\ save.origin \in Nat \cup {None} /\ save.image \in Seq(Nat)
  BY DEF Saves, Shapes, TablesOK
<1>2. store[s] \in Cursors BY DEF Shapes, MemoryOK
<1>3. lower \in Seq(Nat) \cup {None} BY <1>2 DEF Cursors
<1>4. RunAfter(s) \in Nat BY <1>2 DEF Cursors, RunAfter
<1>5. Whole(s) \in BOOLEAN BY DEF Whole
<1>6. line \in SUBSET Nat
  <2>1. Len(layers) \in Nat BY LenProperties DEF Shapes, TablesOK
  <2>2. ASSUME head[c] # None PROVE layers[head[c]].line \in SUBSET Nat
    <3>1. head[c] \in DOMAIN layers BY <2>2, HeadStored
    <3>2. layers[head[c]] \in LayerRows BY <3>1 DEF Shapes, TablesOK
    <3> QED BY <3>2 DEF LayerRows
  <2> QED BY <2>1, <2>2
<1>7. Row(s, save) = [repl |-> c, parent |-> head[c], origin |-> save.origin, whole |-> Whole(s),
        image |-> save.image, below |-> lower, run |-> RunAfter(s), line |-> line]
  BY DEF Row
<1> HIDE DEF c, line, lower
<1>8. Row(s, save) \in LayerRows BY <1>1, <1>3, <1>4, <1>5, <1>6, <1>7 DEF LayerRows
<1>9. /\ Row(s, save).repl = c /\ Row(s, save).origin = save.origin
      /\ Row(s, save).parent = head[c] /\ Row(s, save).whole = Whole(s)
      /\ Row(s, save).image = save.image /\ Row(s, save).below = lower
      /\ Row(s, save).run = RunAfter(s) /\ Row(s, save).line = line
  BY <1>7
<1> QED BY <1>8, <1>9 DEF c, line, lower

-----------------------------------------------------------------------------
(* Types.                                                                  *)

(* At first the tables are empty and no store has a queue. *)
LEMMA ShapesInit == Init => Shapes
<1> SUFFICES ASSUME Init PROVE Shapes OBVIOUS
<1>1. TablesOK BY EmptySeq DEF Init, TablesOK
<1>2. MemoryOK BY EmptySeq, IdleCursor DEF Init, MemoryOK
<1> QED BY <1>1, <1>2 DEF Shapes

(* The tables keep their shapes: what a chat's operations write. *)
LEMMA TypesOfTables ==
  ASSUME Shapes, Tree, NEW c \in Chats,
         \/ Boot(c) \/ AppendRows(c) \/ Drop(c) \/ PurgeRepl(c) \/ PurgeMessages(c)
         \/ \E d \in Chats, i \in Nat : Fork(c, d, i)
  PROVE  TablesOK'
<1> USE DEF Shapes, Tree
<1>1. CASE Boot(c) BY <1>1 DEF Boot, TablesOK
<1>2. CASE AppendRows(c)
  <2>1. unsent[c] \in Seq(UnsentRows) BY DEF MemoryOK
  <2> DEFINE more == [i \in DOMAIN unsent[c] |->
          [wire |-> unsent[c][i].wire, type |-> unsent[c][i].type,
           layer |-> LayersOf(c, unsent[c])[i]]]
  <2>2. more \in Seq(MessageRows)
    <3>1. DOMAIN unsent[c] = 1..Len(unsent[c]) /\ Len(unsent[c]) \in Nat BY <2>1, LenProperties
    <3>2. ASSUME NEW i \in DOMAIN unsent[c] PROVE more[i] \in MessageRows
      <4>1. unsent[c][i] \in UnsentRows BY <2>1, <3>1
      <4>2. LayersOf(c, unsent[c])[i] \in Nat \cup {None}
        <5>1. LayersOf(c, unsent[c])[i] \in stored \cup {None} BY <2>1, LayersGiven
        <5>2. stored \subseteq Nat BY LenProperties DEF TablesOK
        <5> QED BY <5>1, <5>2
      <4> QED BY <4>1, <4>2 DEF UnsentRows, MessageRows
    <3>3. more = [i \in 1..Len(unsent[c]) |-> more[i]] BY <3>1
    <3> HIDE DEF more
    <3> QED BY <3>1, <3>2, <3>3
  <2>3. messages[c] \o more \in Seq(MessageRows)
    <3> HIDE DEF more
    <3> QED BY <2>2, ConcatProperties DEF TablesOK
  <2>4. messages' = messages \/ messages' = [messages EXCEPT ![c] = @ \o more]
    BY <1>2 DEF AppendRows
  <2>5. messages' \in [Chats -> Seq(MessageRows)]
    <3> HIDE DEF more
    <3> QED BY <2>3, <2>4 DEF TablesOK
  <2> QED BY <1>2, <2>5 DEF AppendRows, TablesOK
<1>3. CASE Drop(c)
  <2>1. {l \in stored : layers[l].repl = c} \in SUBSET Nat BY LenProperties DEF TablesOK
  <2>2. head[c] \in Nat \cup {None} BY DEF TablesOK
  <2>3. [todo |-> {l \in stored : layers[l].repl = c}, head |-> head[c]] \in Purges
    BY <2>1, <2>2 DEF Purges
  <2>4. replPurge' \in [Chats -> Purges \cup {None}] BY <1>3, <2>3 DEF Drop, TablesOK
  <2>5. chat' \in [Chats -> {"none", "live", "dropped"}] BY <1>3 DEF Drop, TablesOK
  <2> QED BY <1>3, <2>4, <2>5 DEF Drop, TablesOK
<1>4. CASE PurgeRepl(c)
  <2>1. replPurge[c] \in Purges BY <1>4 DEF PurgeRepl, TablesOK
  <2>2. replPurge' \in [Chats -> Purges \cup {None}]
    <3>1. \A l : [replPurge[c] EXCEPT !.todo = @ \ {l}] \in Purges BY <2>1 DEF Purges
    <3>2. \/ replPurge' = [replPurge EXCEPT ![c] = None]
          \/ \E l : replPurge' = [replPurge EXCEPT ![c].todo = @ \ {l}]
      BY <1>4 DEF PurgeRepl
    <3>3. ASSUME NEW l, replPurge' = [replPurge EXCEPT ![c].todo = @ \ {l}]
          PROVE  replPurge' \in [Chats -> Purges \cup {None}]
      <4>1. PICK rest : rest = [replPurge[c] EXCEPT !.todo = @ \ {l}] OBVIOUS
      <4>2. rest \in Purges BY <3>1, <4>1
      <4>3. replPurge' = [replPurge EXCEPT ![c] = rest] BY <3>3, <4>1
      <4> QED BY <4>2, <4>3 DEF TablesOK
    <3> QED BY <3>2, <3>3 DEF TablesOK
  <2>3. stored' \subseteq stored BY <1>4 DEF PurgeRepl
  <2> QED BY <1>4, <2>2, <2>3 DEF PurgeRepl, TablesOK
<1>5. CASE PurgeMessages(c)
  <2>1. PICK n \in 0..Len(messages[c]) :
          messages' = [messages EXCEPT ![c] = SubSeq(@, n + 1, Len(@))]
    BY <1>5 DEF PurgeMessages
  <2>2. messages[c] \in Seq(MessageRows) BY DEF TablesOK
  <2>3. n + 1 \in 1..(Len(messages[c]) + 1) BY <2>2, LenProperties
  <2>4. SubSeq(messages[c], n + 1, Len(messages[c])) \in Seq(MessageRows)
    BY <2>2, <2>3, SubSeqProperties
  <2>5. messages' \in [Chats -> Seq(MessageRows)] BY <2>1, <2>4 DEF TablesOK
  <2>6. stored' \subseteq stored /\ wirePurge' \subseteq wirePurge BY <1>5 DEF PurgeMessages
  <2> QED BY <1>5, <2>5, <2>6 DEF PurgeMessages, TablesOK
<1>6. ASSUME NEW d \in Chats, NEW i \in Nat, Fork(c, d, i) PROVE TablesOK'
  <2>1. messages[c] \in Seq(MessageRows) /\ i \in 1..Len(messages[c])
    BY <1>6, LenProperties DEF Fork, TablesOK
  <2>2. SubSeq(messages[c], 1, i) \in Seq(MessageRows) BY <2>1, SubSeqProperties
  <2>3. LayerBefore(messages[c], i) \in Nat \cup {None}
    <3>1. messages[c][i] \in MessageRows BY <2>1
    <3>2. i # 1 => messages[c][i - 1] \in MessageRows
      <4>1. i # 1 => i - 1 \in 1..Len(messages[c]) BY <2>1, LenProperties
      <4> QED BY <2>1, <4>1
    <3> QED BY <3>1, <3>2 DEF LayerBefore, MessageRows
  <2>4. messages' \in [Chats -> Seq(MessageRows)] BY <1>6, <2>2 DEF Fork, TablesOK
  <2>5. head' \in [Chats -> Nat \cup {None}] BY <1>6, <2>3 DEF Fork, TablesOK
  <2>6. chat' \in [Chats -> {"none", "live", "dropped"}] /\ open' \subseteq Chats
    BY <1>6 DEF Fork, TablesOK
  <2> QED BY <1>6, <2>4, <2>5, <2>6 DEF Fork, TablesOK
<1> QED BY <1>1, <1>2, <1>3, <1>4, <1>5, <1>6

(* record() and the end of a save keep the shapes. *)
LEMMA TypesOfRecord ==
  ASSUME Shapes, Tree, NEW s \in Stores, Record(s)
  PROVE  Shapes'
<1> USE DEF Shapes, Tree
<1> DEFINE save == Head(store[s].queue)
           c == save.repl
           l == Len(layers) + 1
<1>1. /\ store[s] \in Cursors /\ save \in Saves /\ Tail(store[s].queue) \in Seq(Saves)
  BY Waiting DEF Record
<1>2. c \in open /\ c \in Chats BY <1>1 DEF Record, Refused, TablesOK
<1>3. Row(s, save) \in LayerRows BY <1>1, <1>2, RowOfSave
<1>4. l \in Nat /\ l \in 1..l BY LenProperties DEF TablesOK
<1>5. layers' \in Seq(LayerRows) /\ DOMAIN layers' = 1..l /\ DOMAIN layers = 1..Len(layers)
  BY <1>3, AppendProperties, LenProperties DEF Record, TablesOK
<1>6. stored' \subseteq DOMAIN layers' BY <1>4, <1>5 DEF Record, TablesOK
<1>7. head' \in [Chats -> Nat \cup {None}] BY <1>4 DEF Record, TablesOK
<1>8. messages' \in [Chats -> Seq(MessageRows)]
  <2>1. PICK origin, parent :
          messages' = [messages EXCEPT ![c] = Settled(@, l, origin, parent)]
    BY DEF Record
  <2>2. Settled(messages[c], l, origin, parent) \in Seq(MessageRows)
    BY <1>2, <1>4, SettledRows DEF TablesOK
  <2> HIDE DEF c, l
  <2> QED BY <2>1, <2>2 DEF TablesOK
<1>9. store' \in [Stores -> Cursors]
  <2>1. RunAfter(s) \in Nat /\ save.image \in Seq(Nat) BY <1>1 DEF RunAfter, Cursors, Saves
  <2>2. [below |-> save.image, run |-> RunAfter(s), over |-> l, queue |-> Tail(store[s].queue)]
          \in Cursors
    BY <1>1, <1>4, <2>1 DEF Cursors
  <2>3. [Lost(s, save) EXCEPT !.queue = Tail(store[s].queue)] \in Cursors
    BY <1>1, <2>1 DEF Lost, Cursors
  <2>4. \/ store' = [store EXCEPT ![s] = [below |-> save.image, run |-> RunAfter(s), over |-> l,
                                          queue |-> Tail(store[s].queue)]]
        \/ store' = [store EXCEPT ![s] = [Lost(s, save) EXCEPT !.queue = Tail(store[s].queue)]]
    <3>1. PICK answered \in BOOLEAN : store' = [store EXCEPT ![s] =
            IF answered
            THEN [below |-> save.image, run |-> RunAfter(s), over |-> l, queue |-> Tail(@.queue)]
            ELSE [Lost(s, save) EXCEPT !.queue = Tail(@)]]
      BY DEF Record
    <3>2. CASE answered BY <3>1, <3>2 DEF MemoryOK
    <3>3. CASE ~answered BY <3>1, <3>3 DEF MemoryOK, Lost
    <3> QED BY <3>2, <3>3
  <2> HIDE DEF save, l
  <2> QED BY <2>2, <2>3, <2>4 DEF MemoryOK
<1> QED BY <1>5, <1>6, <1>7, <1>8, <1>9 DEF Record, TablesOK, MemoryOK

(* The memory keeps its shapes: REPLs are built, step and go. *)
LEMMA TypesOfMemory ==
  ASSUME Shapes, Tree, NEW c \in Chats,
         \/ Boot(c) \/ Recover(c) \/ Evict(c) \/ AppendRows(c) \/ Restart
         \/ \E source \in Sources : Step(c, source)
         \/ \E s \in Stores : FailSave(s)
  PROVE  MemoryOK'
<1> USE DEF Shapes, Tree
<1>0. \A l \in DOMAIN layers : layers[l].image \in Seq(Nat)
  <2>1. \A l \in DOMAIN layers : layers[l] \in LayerRows BY DEF TablesOK
  <2> QED BY <2>1 DEF LayerRows
<1>1. CASE Boot(c)
  <2>1. PICK s \in Stores : at' = [at EXCEPT ![c] = s] /\ Load(c, s, Idle) BY <1>1 DEF Boot
  <2>2. store' \in [Stores -> Cursors] /\ image' \in [Chats -> Seq(Nat)]
    BY <2>1, IdleCursor, Loads
  <2>3. at' \in [Chats -> Stores \cup {None}] BY <2>1 DEF MemoryOK
  <2> QED BY <1>1, <2>2, <2>3 DEF Boot, MemoryOK
<1>2. CASE Recover(c)
  <2>1. at[c] \in Stores /\ store[at[c]] \in Cursors BY <1>2 DEF Recover, MemoryOK
  <2>2. Load(c, at[c], store[at[c]]) BY <1>2 DEF Recover
  <2>3. store' \in [Stores -> Cursors] /\ image' \in [Chats -> Seq(Nat)]
    BY <2>1, <2>2, Loads
  <2> QED BY <1>2, <2>3 DEF Recover, MemoryOK
<1>3. CASE Evict(c) BY <1>3, EmptySeq DEF Evict, MemoryOK
<1>4. CASE AppendRows(c) BY <1>4, EmptySeq DEF AppendRows, MemoryOK
<1>5. CASE Restart BY <1>5, EmptySeq, IdleCursor DEF Restart, MemoryOK
<1>6. ASSUME NEW source \in Sources, Step(c, source) PROVE MemoryOK'
  <2>1. at[c] \in Stores /\ steps' \in Nat BY <1>6 DEF Step, MemoryOK
  <2>2. Append(image[c], steps') \in Seq(Nat) BY <2>1, AppendProperties DEF MemoryOK
  <2>3. image' \in [Chats -> Seq(Nat)] /\ image'[c] = Append(image[c], steps')
    BY <1>6, <2>2 DEF Step, MemoryOK
  <2> DEFINE save == [repl |-> c, image |-> image'[c],
                      origin |-> IF source = "ai" THEN steps' ELSE None]
  <2>4. save \in Saves BY <2>1, <2>3 DEF Saves
  <2>5. store[at[c]] \in Cursors BY <2>1 DEF MemoryOK
  <2>6. Append(store[at[c]].queue, save) \in Seq(Saves)
    <3> HIDE DEF save
    <3> QED BY <2>4, <2>5, AppendProperties DEF Cursors
  <2>7. store' = [store EXCEPT ![at[c]].queue = Append(@, save)] BY <1>6 DEF Step
  <2>8. store' \in [Stores -> Cursors]
    <3> HIDE DEF save
    <3>1. [store[at[c]] EXCEPT !.queue = Append(@, save)] \in Cursors
      BY <2>5, <2>6 DEF Cursors
    <3>2. store' = [store EXCEPT ![at[c]] = [store[at[c]] EXCEPT !.queue = Append(@, save)]]
      BY <2>7, <2>1 DEF MemoryOK
    <3> QED BY <3>1, <3>2, <2>1 DEF MemoryOK
  <2> DEFINE more == <<[wire |-> steps', type |-> "ai"], [wire |-> None, type |-> "tool"]>>
  <2>9. more \in Seq(UnsentRows) BY <2>1 DEF UnsentRows
  <2>10. unsent' = unsent \/ unsent' = [unsent EXCEPT ![c] = @ \o more] BY <1>6 DEF Step
  <2>11. unsent' \in [Chats -> Seq(UnsentRows)]
    <3> HIDE DEF more
    <3>1. unsent[c] \o more \in Seq(UnsentRows) BY <2>9, ConcatProperties DEF MemoryOK
    <3> QED BY <2>10, <3>1 DEF MemoryOK
  <2> QED BY <1>6, <2>1, <2>3, <2>8, <2>11 DEF Step, MemoryOK
<1>7. ASSUME NEW s \in Stores, FailSave(s) PROVE MemoryOK'
  <2>1. /\ store[s] \in Cursors /\ Tail(store[s].queue) \in Seq(Saves)
    BY <1>7, Waiting DEF FailSave
  <2>2. [Lost(s, Head(store[s].queue)) EXCEPT !.queue = Tail(store[s].queue)] \in Cursors
    <3>1. RunAfter(s) \in Nat BY <2>1 DEF RunAfter, Cursors
    <3> QED BY <2>1, <3>1 DEF Lost, Cursors
  <2>3. store' = [store EXCEPT ![s] =
          [Lost(s, Head(store[s].queue)) EXCEPT !.queue = Tail(store[s].queue)]]
    BY <1>7, <2>1 DEF FailSave, MemoryOK, Lost, Cursors
  <2> QED BY <1>7, <2>2, <2>3 DEF FailSave, MemoryOK
<1> QED BY <1>1, <1>2, <1>3, <1>4, <1>5, <1>6, <1>7

(* A step keeps the types. *)
LEMMA ShapesNext ==
  ASSUME Shapes, Tree, [Next]_vars
  PROVE  Shapes'
<1>1. CASE UNCHANGED vars
  BY <1>1 DEF vars, tables, memory, Shapes, TablesOK, MemoryOK
<1>2. ASSUME NEW c \in Chats,
             \/ Boot(c) \/ AppendRows(c)
      PROVE  Shapes'
  BY <1>2, TypesOfTables, TypesOfMemory DEF Shapes
<1>3. ASSUME NEW c \in Chats,
             Recover(c) \/ Evict(c) \/ \E source \in Sources : Step(c, source)
      PROVE  Shapes'
  <2>1. MemoryOK' BY <1>3, TypesOfMemory
  <2>2. UNCHANGED tables BY <1>3 DEF Recover, Evict, Step
  <2> QED BY <2>1, <2>2 DEF tables, Shapes, TablesOK
<1>4. ASSUME NEW c \in Chats,
             \/ Drop(c) \/ PurgeRepl(c) \/ PurgeMessages(c)
             \/ \E d \in Chats, i \in Nat : Fork(c, d, i)
      PROVE  Shapes'
  <2>1. TablesOK' BY <1>4, TypesOfTables
  <2>2. UNCHANGED memory BY <1>4 DEF Fork, Drop, PurgeRepl, PurgeMessages
  <2> QED BY <2>1, <2>2 DEF memory, Shapes, MemoryOK
<1>5. ASSUME NEW s \in Stores, Record(s) PROVE Shapes'
  BY <1>5, TypesOfRecord
<1>6. ASSUME NEW s \in Stores, FailSave(s) PROVE Shapes'
  <2>1. MemoryOK' BY <1>6, TypesOfMemory, ChatsAssumption
  <2> QED BY <1>6, <2>1 DEF FailSave, tables, Shapes, TablesOK
<1>7. CASE Restart
  <2>1. MemoryOK' BY <1>7, TypesOfMemory, ChatsAssumption
  <2> QED BY <1>7, <2>1 DEF Restart, tables, Shapes, TablesOK
<1>8. 1..(2 * MaxSteps) \subseteq Nat BY BoundsAssumption
<1> QED BY <1>1, <1>2, <1>3, <1>4, <1>5, <1>6, <1>7, <1>8 DEF Next
-----------------------------------------------------------------------------
(* The tree of layers: what a chat stands on has a row.                    *)

(* No layer is stored at first. *)
LEMMA TreeInit == Init => Tree
<1> SUFFICES ASSUME Init PROVE Tree OBVIOUS
<1>1. DOMAIN layers = {} BY DEF Init
<1>2. \A c \in Chats : DOMAIN messages[c] = {} BY DEF Init
<1> QED BY <1>1, <1>2 DEF Init, Tree, Lined, Hung, Restorable

(* A step that leaves the tables alone, or only opens a REPL. *)
LEMMA TreeOfBoot ==
  ASSUME Shapes, Tree, NEW c \in Chats, Boot(c)
  PROVE  Tree'
<1> USE DEF Tree
<1>1. Lined' BY DEF Boot, Lined
<1>2. Hung' BY DEF Boot, Hung
<1>3. c \notin open => head[c] = None BY DEF Boot, Hung
<1>4. Restorable' BY <1>3 DEF Boot, Restorable
<1> QED BY <1>1, <1>2, <1>4

(* Messages are appended on stored layers only (layersOf()). *)
LEMMA TreeOfAppend ==
  ASSUME Shapes, Tree, NEW c \in Chats, AppendRows(c)
  PROVE  Tree'
<1> USE DEF Tree
<1>1. Lined' BY DEF AppendRows, Lined
<1>2. Hung' BY DEF AppendRows, Hung
<1> DEFINE more == [i \in DOMAIN unsent[c] |->
          [wire |-> unsent[c][i].wire, type |-> unsent[c][i].type,
           layer |-> LayersOf(c, unsent[c])[i]]]
<1>3. unsent[c] \in Seq(UnsentRows) /\ messages[c] \in Seq(MessageRows)
  BY DEF Shapes, TablesOK, MemoryOK
<1>4. \A i \in DOMAIN more : more[i].layer \in stored \cup {None} BY <1>3, LayersGiven
<1>5. messages' = messages \/ messages' = [messages EXCEPT ![c] = @ \o more] BY DEF AppendRows
<1>6. UNCHANGED <<chat, head, open, stored>> BY DEF AppendRows
<1>7. ASSUME messages' = [messages EXCEPT ![c] = @ \o more], chat[c] = "live",
             NEW i \in DOMAIN messages'[c]
      PROVE  messages'[c][i].layer \in stored \cup {None}
  <2>1. DOMAIN more = 1..Len(unsent[c]) /\ Len(unsent[c]) \in Nat BY <1>3, LenProperties
  <2>2. more \in Seq({more[j] : j \in DOMAIN more}) /\ Len(more) = Len(unsent[c])
    <3>1. more = [j \in 1..Len(unsent[c]) |-> more[j]] BY <2>1
    <3>2. \A j \in 1..Len(unsent[c]) : more[j] \in {more[k] : k \in DOMAIN more} BY <2>1
    <3> HIDE DEF more
    <3> QED BY <3>1, <3>2, <2>1
  <2>3. messages'[c] = messages[c] \o more BY <1>7 DEF Shapes, TablesOK
  <2> HIDE DEF more
  <2>4. /\ DOMAIN messages'[c] = 1..(Len(messages[c]) + Len(more))
        /\ \A j \in 1..Len(messages[c]) : messages'[c][j] = messages[c][j]
        /\ \A j \in 1..Len(more) : messages'[c][Len(messages[c]) + j] = more[j]
    <3>1. PICK T : T = {more[j] : j \in DOMAIN more} OBVIOUS
    <3>2. more \in Seq(T) BY <2>2, <3>1
    <3>3. PICK rows \in Seq(MessageRows) : rows = messages[c] BY <1>3
    <3>4. PICK all : all = messages'[c] OBVIOUS
    <3>5. all = rows \o more BY <2>3, <3>3, <3>4
    <3>6. /\ DOMAIN all = 1..(Len(rows) + Len(more))
          /\ \A j \in 1..Len(rows) : all[j] = rows[j]
          /\ \A j \in 1..Len(more) : all[Len(rows) + j] = more[j]
      BY <3>2, <3>3, <3>5, Joined
    <3> QED BY <3>3, <3>4, <3>6
  <2>5. Len(messages[c]) \in Nat /\ DOMAIN messages[c] = 1..Len(messages[c])
    BY <1>3, LenProperties
  <2>6. i \in 1..(Len(messages[c]) + Len(more)) BY <2>4, <1>7
  <2>7. CASE i <= Len(messages[c])
    <3>1. i \in DOMAIN messages[c] BY <2>5, <2>6, <2>7
    <3> QED BY <3>1, <2>4, <2>5, <1>7 DEF Restorable
  <2>8. CASE i > Len(messages[c])
    <3>1. Len(more) \in Nat /\ DOMAIN more = 1..Len(more) BY <2>1, <2>2
    <3>2. /\ i - Len(messages[c]) \in 1..Len(more)
          /\ Len(messages[c]) + (i - Len(messages[c])) = i
      BY <3>1, <2>5, <2>6, <2>8
    <3>3. messages'[c][i] = more[i - Len(messages[c])] BY <3>2, <2>4
    <3> QED BY <3>1, <3>2, <3>3, <1>4
  <2> QED BY <2>5, <2>6, <2>7, <2>8
<1> HIDE DEF more
<1>8. \A d \in Chats : d # c => messages'[d] = messages[d] BY <1>5 DEF Shapes, TablesOK
<1>9. Restorable' BY <1>5, <1>6, <1>7, <1>8 DEF Restorable
<1> QED BY <1>1, <1>2, <1>9

(* The new row comes after the others. *)
LEMMA Recorded ==
  ASSUME Shapes, NEW r \in LayerRows, layers' = Append(layers, r)
  PROVE  /\ DOMAIN layers = 1..Len(layers) /\ Len(layers) \in Nat
         /\ DOMAIN layers' = 1..(Len(layers) + 1) /\ layers'[Len(layers) + 1] = r
         /\ \A k \in DOMAIN layers : layers'[k] = layers[k]
<1>1. layers \in Seq(LayerRows) BY DEF Shapes, TablesOK
<1>2. DOMAIN layers = 1..Len(layers) /\ Len(layers) \in Nat BY <1>1, LenProperties
<1>3. /\ Len(layers') = Len(layers) + 1 /\ layers' \in Seq(LayerRows)
      /\ layers'[Len(layers) + 1] = r /\ \A k \in 1..Len(layers) : layers'[k] = layers[k]
  BY <1>1, <1>2, AppendProperties
<1>4. DOMAIN layers' = 1..(Len(layers) + 1) BY <1>3, LenProperties
<1> QED BY <1>2, <1>3, <1>4

(* A new layer lies over the head, which is stored. *)
LEMMA TreeOfRecord ==
  ASSUME Shapes, Tree, NEW s \in Stores, Record(s)
  PROVE  Tree'
<1> USE DEF Tree
<1> DEFINE save == Head(store[s].queue)
           c == save.repl
           l == Len(layers) + 1
<1>1. save \in Saves BY Waiting DEF Record
<1>2. c \in open /\ c \in Chats BY <1>1 DEF Record, Refused, Shapes, TablesOK
<1>3. /\ Row(s, save) \in LayerRows /\ Row(s, save).parent = head[c]
      /\ Row(s, save).line = {l} \cup (IF head[c] = None THEN {} ELSE layers[head[c]].line)
  BY <1>1, <1>2, RowOfSave
<1>4. /\ DOMAIN layers = 1..Len(layers) /\ Len(layers) \in Nat
      /\ DOMAIN layers' = 1..l /\ layers'[l] = Row(s, save)
      /\ \A k \in DOMAIN layers : layers'[k] = layers[k]
  BY <1>3, Recorded DEF Record
<1>5. /\ stored' = stored \cup {l} /\ head' = [head EXCEPT ![c] = l]
      /\ messages' = [messages EXCEPT ![c] = Settled(@, l, save.origin, head[c])]
      /\ UNCHANGED <<chat, open, replPurge, wirePurge>>
  BY <1>3, <1>4 DEF Record
<1>6. head[c] # None => head[c] \in stored /\ head[c] \in DOMAIN layers BY <1>2, HeadStored
<1>7. \A k \in DOMAIN layers : layers[k].line \subseteq DOMAIN layers BY <1>4 DEF Lined
<1> DEFINE row == Row(s, save)
<1> HIDE DEF save, c, l, row
<1>8. Lined'
  <2> SUFFICES ASSUME NEW k \in DOMAIN layers'
               PROVE  /\ layers'[k].line \subseteq 1..k /\ k \in layers'[k].line
                      /\ \A d \in layers'[k].line : layers'[d].line \subseteq layers'[k].line
                      /\ layers'[k].parent # None => layers'[k].parent \in layers'[k].line
    BY DEF Lined
  <2>1. CASE k \in DOMAIN layers
    <3>1. layers'[k] = layers[k] /\ \A d \in layers[k].line : layers'[d] = layers[d]
      BY <2>1, <1>4, <1>7
    <3> QED BY <3>1, <2>1 DEF Lined
  <2>2. CASE k = l
    <3>1. l \in Nat /\ l \in 1..l /\ \A d \in DOMAIN layers : d \in 1..l BY <1>4 DEF l
    <3>2. layers'[k] = Row(s, save) BY <2>2, <1>4
    <3>3. CASE head[c] = None BY <3>1, <3>2, <3>3, <2>2, <1>3
    <3>4. CASE head[c] # None
      <4>1. layers'[k].line = {l} \cup layers[head[c]].line BY <3>2, <3>4, <1>3
      <4>2. layers[head[c]].line \subseteq DOMAIN layers BY <3>4, <1>6, <1>7
      <4>3. \A d \in layers[head[c]].line : layers'[d].line \subseteq layers[head[c]].line
        BY <4>2, <3>4, <1>4, <1>6 DEF Lined
      <4>4. head[c] \in layers[head[c]].line BY <3>4, <1>6 DEF Lined
      <4>5. layers'[k].parent = head[c] BY <3>2, <1>3
      <4> QED BY <4>1, <4>2, <4>3, <4>4, <4>5, <3>1, <2>2
    <3> QED BY <3>3, <3>4
  <2> QED BY <2>1, <2>2, <1>4 DEF l
<1>9. Hung'
  <2>1. \A d \in Chats : d # c => head'[d] = head[d] BY <1>5 DEF Shapes, TablesOK
  <2>2. ASSUME NEW k \in stored' PROVE layers'[k].line \subseteq stored'
    <3>1. CASE k \in stored
      <4>1. k \in DOMAIN layers /\ layers[k].line \subseteq stored
        BY <3>1 DEF Shapes, TablesOK, Hung
      <4> QED BY <4>1, <1>4, <1>5
    <3>2. CASE k = l
      <4>1. layers'[k].line = {l} \cup (IF head[c] = None THEN {} ELSE layers[head[c]].line)
        BY <3>2, <1>3, <1>4
      <4>2. head[c] # None => layers[head[c]].line \subseteq stored BY <1>6 DEF Hung
      <4> QED BY <4>1, <4>2, <1>5
    <3> QED BY <3>1, <3>2, <1>5
  <2> QED BY <2>1, <2>2, <1>2, <1>5 DEF Hung
<1>10. Restorable'
  <2>1. \A d \in open : head'[d] # None => head'[d] \in stored'
    BY <1>5 DEF Shapes, TablesOK, Restorable
  <2>2. ASSUME NEW d \in Chats, chat[d] = "live", NEW i \in DOMAIN messages'[d]
        PROVE  messages'[d][i].layer \in stored' \cup {None}
    <3>1. CASE d # c BY <3>1, <1>5, <2>2 DEF Shapes, TablesOK, Restorable
    <3>2. CASE d = c
      <4>1. messages'[d] = Settled(messages[c], l, save.origin, head[c])
        BY <3>2, <1>2, <1>5 DEF Shapes, TablesOK
      <4>2. messages[c] \in Seq(MessageRows) /\ l \in Nat
        BY <1>2, <1>4 DEF Shapes, TablesOK, l
      <4>3. /\ i \in DOMAIN messages[c]
            /\ messages'[d][i] = messages[c][i] \/ messages'[d][i].layer = l
        <5> DEFINE settled == Settled(messages[c], l, save.origin, head[c])
        <5>1. /\ DOMAIN settled = DOMAIN messages[c]
              /\ \A k \in DOMAIN messages[c] :
                   settled[k] = messages[c][k] \/ settled[k].layer = l
          BY <4>2, SettledRows
        <5> HIDE DEF settled
        <5>2. messages'[d] = settled BY <4>1 DEF settled
        <5> QED BY <5>1, <5>2, <2>2
      <4>4. messages[c][i].layer \in stored \cup {None} BY <4>3, <2>2, <3>2 DEF Restorable
      <4> QED BY <4>3, <4>4, <1>5
    <3> QED BY <3>1, <3>2
  <2> QED BY <2>1, <2>2, <1>5 DEF Restorable
<1> QED BY <1>8, <1>9, <1>10

(* A fork stands on a layer of a message of the chat it was taken from. *)
LEMMA TreeOfFork ==
  ASSUME Shapes, Tree, NEW c \in Chats, NEW d \in Chats, NEW i \in Nat, Fork(c, d, i)
  PROVE  Tree'
<1> USE DEF Tree
<1>1. Lined' BY DEF Fork, Lined
<1>2. messages[c] \in Seq(MessageRows) /\ i \in 1..Len(messages[c])
  BY LenProperties DEF Fork, Shapes, TablesOK
<1>3. \A k \in DOMAIN messages[c] : messages[c][k].layer \in stored \cup {None}
  BY DEF Fork, Restorable
<1>4. LayerBefore(messages[c], i) \in stored \cup {None}
  <2>1. DOMAIN messages[c] = 1..Len(messages[c]) /\ Len(messages[c]) \in Nat
    BY <1>2, LenProperties
  <2>2. i # 1 => i - 1 \in DOMAIN messages[c] BY <1>2, <2>1
  <2> QED BY <1>2, <1>3, <2>1, <2>2 DEF LayerBefore
<1>5. d \notin open /\ chat[d] = "none" /\ d # c BY DEF Fork, Hung
<1>6. /\ head'[d] = LayerBefore(messages[c], i)
      /\ \A e \in Chats : e # d => head'[e] = head[e] /\ chat'[e] = chat[e]
                                  /\ messages'[e] = messages[e]
      /\ messages'[d] = SubSeq(messages[c], 1, i) /\ chat'[d] = "live"
      /\ open' = (IF head'[d] = None THEN open ELSE open \cup {d})
      /\ UNCHANGED <<layers, stored, replPurge, wirePurge>>
  BY DEF Fork, Shapes, TablesOK
<1>7. open \subseteq Chats BY DEF Shapes, TablesOK
<1>8. wirePurge \subseteq Chats BY DEF Shapes, TablesOK
<1>9. Hung' BY <1>5, <1>6, <1>7, <1>8 DEF Hung
<1>10. ASSUME NEW k \in DOMAIN messages'[d] PROVE messages'[d][k].layer \in stored \cup {None}
  <2>1. /\ Len(messages[c]) \in Nat /\ DOMAIN messages[c] = 1..Len(messages[c])
    BY <1>2, LenProperties
  <2>2. \A j \in 1..i : messages[c][j] \in MessageRows BY <1>2, <2>1
  <2>3. /\ SubSeq(messages[c], 1, i) = [j \in 1..i |-> messages[c][j]]
    BY <1>2, <2>1
  <2>4. k \in 1..i /\ messages'[d][k] = messages[c][k] BY <2>3, <1>6, <1>10
  <2> QED BY <2>4, <2>1, <1>2, <1>3
<1>11. Restorable' BY <1>4, <1>5, <1>6, <1>7, <1>10 DEF Restorable
<1> QED BY <1>1, <1>9, <1>11

(* Dropping a chat collects nothing yet. *)
LEMMA TreeOfDrop ==
  ASSUME Shapes, Tree, NEW c \in Chats, Drop(c)
  PROVE  Tree'
<1> USE DEF Tree
<1>1. Lined' BY DEF Drop, Lined
<1>2. open \subseteq Chats /\ wirePurge \subseteq Chats BY DEF Shapes, TablesOK
<1>3. /\ chat'[c] = "dropped" /\ \A e \in Chats : e # c => chat'[e] = chat[e]
      /\ \A e \in Chats : e # c => replPurge'[e] = replPurge[e]
      /\ open' = open \ {c} /\ wirePurge' = wirePurge \cup {c}
      /\ UNCHANGED <<messages, head, layers, stored>>
  BY DEF Drop, Shapes, TablesOK
<1>4. Hung' BY <1>2, <1>3 DEF Hung
<1>5. Restorable' BY <1>2, <1>3 DEF Restorable
<1> QED BY <1>1, <1>4, <1>5

(* What a purge leaves, whatever it collects from. *)
LEMMA TreeOfPurge ==
  ASSUME Shapes, Tree, NEW c \in Chats, PurgeRepl(c) \/ PurgeMessages(c)
  PROVE  Tree'
<1> USE DEF Tree
<1>1. PICK from : stored' = stored \ Collected(from, messages')
  <2>1. CASE PurgeRepl(c)
    <3>1. \/ stored' = stored \ Collected({replPurge[c].head} \ {None}, messages)
          \/ \E l : stored' = stored \ Collected({l}, messages)
      BY <2>1 DEF PurgeRepl
    <3>2. messages' = messages BY <2>1 DEF PurgeRepl
    <3> QED BY <3>1, <3>2
  <2>2. CASE PurgeMessages(c) BY <2>2 DEF PurgeMessages
  <2> QED BY <2>1, <2>2
<1>2. UNCHANGED <<chat, head, open, layers>> BY DEF PurgeRepl, PurgeMessages
<1>3. \A d \in Chats : chat[d] = "live" => messages'[d] = messages[d]
  BY DEF PurgeRepl, PurgeMessages, Shapes, TablesOK, Hung
<1>4. Lined' BY <1>2 DEF Lined
<1>5. ASSUME NEW l \in stored, Pinned(l, messages') PROVE l \in stored'
  BY <1>1, <1>5, PinnedStays
<1>6. \A l \in stored' : layers[l].line \subseteq stored' BY <1>1, LinesStay
<1>7. /\ wirePurge' \subseteq wirePurge
      /\ \A d \in Chats : replPurge'[d] # None => replPurge[d] # None
  BY DEF PurgeRepl, PurgeMessages, Shapes, TablesOK
<1>8. Hung' BY <1>2, <1>6, <1>7 DEF Hung
<1>9. Restorable'
  <2>1. ASSUME NEW d \in open, head[d] # None PROVE head[d] \in stored'
    <3>1. head[d] \in stored BY <2>1 DEF Restorable
    <3>2. Pinned(head[d], messages') BY DEF Pinned
    <3> QED BY <3>1, <3>2, <1>5
  <2>2. ASSUME NEW d \in Chats, chat[d] = "live", NEW i \in DOMAIN messages[d],
               messages[d][i].layer # None
        PROVE  messages[d][i].layer \in stored'
    <3>1. messages[d][i].layer \in stored BY <2>2 DEF Restorable
    <3>2. Pinned(messages[d][i].layer, messages') BY <2>2, <1>3 DEF Pinned
    <3> QED BY <3>1, <3>2, <1>5
  <2> QED BY <2>1, <2>2, <1>2, <1>3 DEF Restorable
<1> QED BY <1>4, <1>8, <1>9

(* A step keeps the layers as a tree whose lines are stored whole. *)
LEMMA TreeNext ==
  ASSUME Shapes, Tree, [Next]_vars
  PROVE  Tree'
<1>1. CASE UNCHANGED tables BY <1>1 DEF tables, Tree, Lined, Hung, Restorable
<1>2. ASSUME NEW c \in Chats,
             Recover(c) \/ Evict(c) \/ \E source \in Sources : Step(c, source)
      PROVE  UNCHANGED tables
  BY <1>2 DEF Recover, Evict, Step
<1>3. ASSUME NEW s \in Stores, FailSave(s) PROVE UNCHANGED tables BY <1>3 DEF FailSave
<1>4. CASE Restart BY <1>1, <1>4 DEF Restart
<1>5. 1..(2 * MaxSteps) \subseteq Nat BY BoundsAssumption
<1>6. ASSUME NEW c \in Chats, NEW d \in Chats, NEW i \in 1..(2 * MaxSteps), Fork(c, d, i)
      PROVE  Tree'
  BY <1>5, <1>6, TreeOfFork
<1> QED BY <1>1, <1>2, <1>3, <1>4, <1>6, TreeOfBoot, TreeOfAppend, TreeOfRecord, TreeOfDrop,
        TreeOfPurge DEF Next, vars
-----------------------------------------------------------------------------
(* Every layer that nothing lies over is held or condemned.                *)

(* At first there is no layer to watch. *)
LEMMA WatchedInit == Init => Watched
BY DEF Init, Watched

(* Collecting leaves the layers watched, if those who condemned one still  *)
(* do, but for what is collected from.                                     *)
LEMMA WatchedAfter ==
  ASSUME Shapes, Tree, Watched, NEW from,
         stored' = stored \ Collected(from, messages'),
         UNCHANGED <<chat, head, open, layers>>,
         \A l \in stored : Pinned(l, messages) => Pinned(l, messages'),
         \A l \in stored \ from : Condemned(l) => Condemned(l)'
  PROVE  Watched'
<1> SUFFICES ASSUME NEW l \in stored', Leaf(l)'
               PROVE  Pinned(l, messages)' \/ Condemned(l)'
  BY DEF Watched
<1>1. Pinned(l, messages)' <=> Pinned(l, messages') BY DEF Pinned
<1>2. Pinned(l, messages') \/ (Leaf(l) /\ l \notin from)
  <2>1. \A d \in stored \ Collected(from, messages') : l \in layers[d].line => d = l BY DEF Leaf
  <2> QED BY <2>1, LeavesLeft DEF Tree
<1>3. CASE Leaf(l) /\ l \notin from BY <1>1, <1>3 DEF Watched
<1> QED BY <1>1, <1>2, <1>3

(* Messages that are appended pin layers and unpin none. *)
LEMMA WatchedOfBoot ==
  ASSUME Shapes, Tree, Watched, NEW c \in Chats, Boot(c) \/ AppendRows(c)
  PROVE  Watched'
<1>1. /\ UNCHANGED <<chat, head, layers, stored, replPurge, wirePurge>> /\ open \subseteq open'
  BY DEF Boot, AppendRows
<1>2. ASSUME NEW d \in Chats, NEW i \in DOMAIN messages[d]
      PROVE  i \in DOMAIN messages'[d] /\ messages'[d][i].layer = messages[d][i].layer
  <2>1. CASE messages' = messages BY <2>1
  <2>2. CASE messages' # messages
    <3> DEFINE more == [j \in DOMAIN unsent[c] |->
          [wire |-> unsent[c][j].wire, type |-> unsent[c][j].type,
           layer |-> LayersOf(c, unsent[c])[j]]]
    <3>1. messages' = [messages EXCEPT ![c] = @ \o more] BY <2>2 DEF Boot, AppendRows
    <3>2. messages[d] \in Seq(MessageRows) BY DEF Shapes, TablesOK
    <3>3. Len(more) \in Nat
      <4>1. unsent[c] \in Seq(UnsentRows) BY DEF Shapes, MemoryOK
      <4>2. DOMAIN more = 1..Len(unsent[c]) /\ Len(unsent[c]) \in Nat BY <4>1, LenProperties
      <4> QED BY <4>2
    <3> HIDE DEF more
    <3>4. i \in 1..Len(messages[d]) /\ Len(messages[d]) \in Nat BY <3>2, LenProperties
    <3>5. i \in DOMAIN (messages[d] \o more) /\ (messages[d] \o more)[i] = messages[d][i]
      BY <3>3, <3>4
    <3>6. messages'[d] = messages[d] \o more \/ messages'[d] = messages[d]
      BY <3>1 DEF Shapes, TablesOK
    <3> QED BY <3>5, <3>6
  <2> QED BY <2>1, <2>2
<1>3. wirePurge \subseteq Chats BY DEF Shapes, TablesOK
<1>4. ASSUME NEW l \in stored, Pinned(l, messages) PROVE Pinned(l, messages)'
  BY <1>1, <1>2, <1>4 DEF Pinned
<1>5. ASSUME NEW l \in stored, Condemned(l) PROVE Condemned(l)'
  BY <1>1, <1>2, <1>3, <1>5 DEF Condemned
<1>6. \A l \in stored : Leaf(l)' => Leaf(l) BY <1>1 DEF Leaf
<1> QED BY <1>1, <1>4, <1>5, <1>6 DEF Watched

(* A new layer is the head of its chat, which pins it; the one below is no *)
(* leaf any more.                                                          *)
LEMMA WatchedOfRecord ==
  ASSUME Shapes, Tree, Watched, NEW s \in Stores, Record(s)
  PROVE  Watched'
<1> DEFINE save == Head(store[s].queue)
           c == save.repl
           l == Len(layers) + 1
<1>1. save \in Saves BY Waiting DEF Record
<1>2. c \in open /\ c \in Chats BY <1>1 DEF Record, Refused, Shapes, TablesOK
<1>3. /\ Row(s, save) \in LayerRows /\ Row(s, save).parent = head[c]
      /\ Row(s, save).line = {l} \cup (IF head[c] = None THEN {} ELSE layers[head[c]].line)
  BY <1>1, <1>2, RowOfSave DEF Tree
<1>4. /\ DOMAIN layers = 1..Len(layers) /\ Len(layers) \in Nat
      /\ layers'[l] = Row(s, save)
      /\ \A k \in DOMAIN layers : layers'[k] = layers[k]
  BY <1>2, <1>3, Recorded DEF Record
<1>5. /\ stored' = stored \cup {l} /\ head' = [head EXCEPT ![c] = l]
      /\ messages' = [messages EXCEPT ![c] = Settled(@, l, save.origin, head[c])]
      /\ UNCHANGED <<chat, open, replPurge, wirePurge>>
  BY <1>3, <1>4 DEF Record
<1>6. stored \subseteq DOMAIN layers /\ l \notin stored BY <1>4 DEF Shapes, TablesOK
<1> HIDE DEF save, c, l
<1>7. ASSUME NEW k, k = l PROVE Pinned(k, messages)'
  <2>1. head'[c] = k /\ c \in open' BY <1>2, <1>5, <1>7 DEF Shapes, TablesOK
  <2> QED BY <2>1 DEF Pinned
<1>8. ASSUME NEW k \in stored, Leaf(k)' PROVE Leaf(k) /\ k # head[c]
  <2>1. ASSUME NEW d \in stored, k \in layers[d].line PROVE d = k
    <3>1. layers'[d] = layers[d] /\ d \in stored' BY <2>1, <1>4, <1>5, <1>6
    <3> QED BY <3>1, <2>1, <1>8 DEF Leaf
  <2>2. ASSUME k = head[c], head[c] # None PROVE FALSE
    <3>1. k \in layers[k].line BY <1>6 DEF Tree, Lined
    <3>2. k \in layers'[l].line BY <3>1, <2>2, <1>3, <1>4
    <3>3. l \in stored' BY <1>5
    <3>4. l = k BY <3>2, <3>3, <1>8 DEF Leaf
    <3> QED BY <3>4, <1>6
  <2>3. k # None BY NoneAssumption, <1>4, <1>6
  <2> QED BY <2>1, <2>2, <2>3 DEF Leaf
<1>9. ASSUME NEW k \in stored, k # head[c], NEW d \in Chats, NEW i \in DOMAIN messages[d],
             messages[d][i].layer = k
      PROVE  i \in DOMAIN messages'[d] /\ messages'[d][i].layer = k
  <2>1. CASE d # c BY <2>1, <1>5, <1>9 DEF Shapes, TablesOK
  <2>2. CASE d = c
    <3> DEFINE settled == Settled(messages[c], l, save.origin, head[c])
    <3>1. messages[c] \in Seq(MessageRows) /\ l \in Nat
      BY <1>2, <1>4 DEF Shapes, TablesOK, l
    <3>2. /\ DOMAIN settled = DOMAIN messages[c]
          /\ \A j \in DOMAIN messages[c] :
               \/ settled[j] = messages[c][j]
               \/ messages[c][j].layer = head[c] /\ settled[j].layer = l
      <4>1. PICK m : m = messages[c] OBVIOUS
      <4>2. PICK parent : parent = head[c] OBVIOUS
      <4>3. PICK origin : origin = save.origin OBVIOUS
      <4>4. settled = Settled(m, l, origin, parent) BY <4>1, <4>2, <4>3
      <4>5. m \in Seq(MessageRows) BY <3>1, <4>1
      <4> HIDE DEF settled
      <4>6. /\ DOMAIN settled = DOMAIN m
            /\ \A j \in DOMAIN m :
                 settled[j] = m[j] \/ (m[j].layer = parent /\ settled[j].layer = l)
        BY <4>4, <4>5, <3>1, SettledRows
      <4> QED BY <4>1, <4>2, <4>6
    <3> HIDE DEF settled
    <3>3. messages'[c] = settled BY <1>2, <1>5 DEF settled, Shapes, TablesOK
    <3> QED BY <2>2, <3>2, <3>3, <1>9
  <2> QED BY <2>1, <2>2
<1>10. ASSUME NEW k \in stored, k # head[c], Pinned(k, messages) PROVE Pinned(k, messages)'
  <2>1. \A d \in open : d # c => head'[d] = head[d] BY <1>5 DEF Shapes, TablesOK
  <2> QED BY <2>1, <1>5, <1>9, <1>10 DEF Pinned
<1>11. ASSUME NEW k \in stored, k # head[c], Condemned(k) PROVE Condemned(k)'
  <2>1. wirePurge \subseteq Chats BY DEF Shapes, TablesOK
  <2> QED BY <2>1, <1>5, <1>9, <1>11 DEF Condemned
<1>12. ASSUME NEW k \in stored', Leaf(k)' PROVE Pinned(k, messages)' \/ Condemned(k)'
  <2>1. CASE k = l BY <2>1, <1>7
  <2>2. CASE k \in stored BY <2>2, <1>8, <1>10, <1>11, <1>12 DEF Watched
  <2> QED BY <2>1, <2>2, <1>5
<1> QED BY <1>12 DEF Watched

(* A fork pins layers and unpins none. *)
LEMMA WatchedOfFork ==
  ASSUME Shapes, Tree, Watched, NEW c \in Chats, NEW d \in Chats, NEW i \in Nat, Fork(c, d, i)
  PROVE  Watched'
<1>1. d \notin open /\ chat[d] = "none" /\ d \notin wirePurge /\ replPurge[d] = None
  BY DEF Fork, Tree, Hung
<1>2. /\ \A e \in Chats : e # d => head'[e] = head[e] /\ chat'[e] = chat[e]
                                  /\ messages'[e] = messages[e]
      /\ open \subseteq open' /\ open \subseteq Chats /\ wirePurge \subseteq Chats
      /\ UNCHANGED <<layers, stored, replPurge, wirePurge>>
  BY DEF Fork, Shapes, TablesOK
<1>3. ASSUME NEW l \in stored, Pinned(l, messages) PROVE Pinned(l, messages)'
  <2>1. CASE \E e \in open : head[e] = l BY <2>1, <1>1, <1>2 DEF Pinned
  <2>2. ASSUME NEW e \in Chats, chat[e] = "live", NEW k \in DOMAIN messages[e],
               messages[e][k].layer = l
        PROVE  Pinned(l, messages)'
    <3>1. e # d BY <1>1, <2>2
    <3> QED BY <3>1, <2>2, <1>2 DEF Pinned
  <2> QED BY <2>1, <2>2, <1>3 DEF Pinned
<1>4. ASSUME NEW l \in stored, Condemned(l) PROVE Condemned(l)'
  BY <1>1, <1>2, <1>4 DEF Condemned
<1>5. \A l \in stored : Leaf(l)' => Leaf(l) BY <1>2 DEF Leaf
<1> QED BY <1>2, <1>3, <1>4, <1>5 DEF Watched

(* What a dropped chat pinned is for its two purges to come to. *)
LEMMA WatchedOfDrop ==
  ASSUME Shapes, Tree, Watched, NEW c \in Chats, Drop(c)
  PROVE  Watched'
<1>1. /\ \A e \in Chats : e # c => chat'[e] = chat[e] /\ replPurge'[e] = replPurge[e]
      /\ open' = open \ {c} /\ wirePurge' = wirePurge \cup {c}
      /\ UNCHANGED <<messages, head, layers, stored>>
  BY DEF Drop, Shapes, TablesOK
<1>2. replPurge[c] = None /\ c \notin wirePurge BY DEF Drop, Tree, Hung
<1>3. open \subseteq Chats BY DEF Shapes, TablesOK
<1>4. c \in open => replPurge'[c] # None /\ replPurge'[c].head = head[c]
  <2> SUFFICES ASSUME c \in open PROVE replPurge'[c] # None /\ replPurge'[c].head = head[c]
    OBVIOUS
  <2> DEFINE todo == {l \in stored : layers[l].repl = c}
  <2>1. replPurge'[c] = [todo |-> todo, head |-> head[c]] BY DEF Drop, Shapes, TablesOK
  <2>2. todo \in SUBSET Nat /\ head[c] \in Nat \cup {None}
    BY LenProperties DEF Shapes, TablesOK
  <2> HIDE DEF todo
  <2>3. replPurge'[c] \in [todo : SUBSET Nat, head : Nat \cup {None}] BY <2>1, <2>2
  <2> QED BY <2>1, <2>3, NoneAssumption
<1>5. ASSUME NEW l \in stored, Pinned(l, messages) PROVE Pinned(l, messages)' \/ Condemned(l)'
  <2>1. ASSUME NEW e \in open, head[e] = l PROVE Pinned(l, messages)' \/ Condemned(l)'
    <3>1. CASE e # c BY <3>1, <2>1, <1>1 DEF Pinned
    <3>2. CASE e = c BY <3>2, <2>1, <1>4, <1>1 DEF Condemned
    <3> QED BY <3>1, <3>2
  <2>2. ASSUME NEW e \in Chats, chat[e] = "live", NEW k \in DOMAIN messages[e],
               messages[e][k].layer = l
        PROVE  Pinned(l, messages)' \/ Condemned(l)'
    <3>1. CASE e # c BY <3>1, <2>2, <1>1 DEF Pinned
    <3>2. CASE e = c BY <3>2, <2>2, <1>1 DEF Condemned
    <3> QED BY <3>1, <3>2
  <2> QED BY <2>1, <2>2, <1>5 DEF Pinned
<1>6. ASSUME NEW l \in stored, Condemned(l) PROVE Condemned(l)'
  BY <1>1, <1>2, <1>6 DEF Condemned
<1>7. \A l \in stored : Leaf(l)' => Leaf(l) BY <1>1 DEF Leaf
<1> QED BY <1>1, <1>5, <1>6, <1>7 DEF Watched

(* A page of the purge of a REPL collects what it comes to, up to layers   *)
(* that are pinned or have others over them.                               *)
LEMMA WatchedOfPurgeRepl ==
  ASSUME Shapes, Tree, Watched, NEW c \in Chats, PurgeRepl(c)
  PROVE  Watched'
<1>1. UNCHANGED <<chat, messages, head, open, layers, wirePurge>> BY DEF PurgeRepl
<1>2. \A d \in Chats : d # c => replPurge'[d] = replPurge[d] BY DEF PurgeRepl, Shapes, TablesOK
<1>3. \A l \in stored : l \in Nat /\ l # None
  BY NoneAssumption, LenProperties DEF Shapes, TablesOK
<1>4. replPurge[c] \in Purges BY DEF PurgeRepl, Shapes, TablesOK
<1>5. wirePurge \subseteq Chats BY DEF Shapes, TablesOK
<1>6. CASE replPurge[c].todo \cap stored = {}
  <2> DEFINE from == {replPurge[c].head} \ {None}
  <2>1. stored' = stored \ Collected(from, messages') BY <1>1, <1>6 DEF PurgeRepl
  <2>2. ASSUME NEW l \in stored \ from, Condemned(l) PROVE Condemned(l)'
    <3>1. l \notin replPurge[c].todo /\ l # replPurge[c].head BY <1>3, <1>6, <2>2
    <3> QED BY <3>1, <2>2, <1>1, <1>2, <1>5 DEF Condemned
  <2> HIDE DEF from
  <2> QED BY <2>1, <2>2, <1>1, WatchedAfter
<1>7. CASE replPurge[c].todo \cap stored # {}
  <2>1. PICK x \in stored :
          /\ stored' = stored \ Collected({x}, messages)
          /\ replPurge' = [replPurge EXCEPT ![c].todo = @ \ {x}]
    BY <1>7 DEF PurgeRepl
  <2>2. stored' = stored \ Collected({x}, messages') BY <1>1, <2>1
  <2>3. replPurge'[c] = [replPurge[c] EXCEPT !.todo = @ \ {x}] BY <2>1 DEF Shapes, TablesOK
  <2>4. /\ replPurge'[c] \in Purges /\ replPurge'[c].head = replPurge[c].head
        /\ replPurge'[c].todo = replPurge[c].todo \ {x}
    BY <2>3, <1>4 DEF Purges
  <2>5. replPurge'[c] # None BY <2>4, NoneAssumption DEF Purges
  <2>6. ASSUME NEW l \in stored \ {x}, Condemned(l) PROVE Condemned(l)'
    BY <2>4, <2>5, <2>6, <1>1, <1>2, <1>5 DEF Condemned
  <2> QED BY <2>2, <2>6, <1>1, WatchedAfter
<1> QED BY <1>6, <1>7

(* So does the purge of a chat's messages. *)
LEMMA WatchedOfPurgeMessages ==
  ASSUME Shapes, Tree, Watched, NEW c \in Chats, PurgeMessages(c)
  PROVE  Watched'
<1>1. UNCHANGED <<chat, head, open, layers, replPurge>> /\ c \in wirePurge
  BY DEF PurgeMessages
<1>2. PICK n \in 0..Len(messages[c]) :
        /\ messages' = [messages EXCEPT ![c] = SubSeq(@, n + 1, Len(@))]
        /\ stored' = stored \ Collected({messages[c][i].layer : i \in 1..n} \ {None}, messages')
        /\ wirePurge' = IF messages'[c] = <<>> THEN wirePurge \ {c} ELSE wirePurge
  BY DEF PurgeMessages
<1> DEFINE from == {messages[c][i].layer : i \in 1..n} \ {None}
<1>3. chat[c] = "dropped" /\ wirePurge \subseteq Chats BY <1>1 DEF Tree, Hung, Shapes, TablesOK
<1>4. \A d \in Chats : d # c => messages'[d] = messages[d] BY <1>2 DEF Shapes, TablesOK
<1>5. \A l \in stored : l # None
  BY NoneAssumption, LenProperties DEF Shapes, TablesOK
<1>6. /\ messages[c] \in Seq(MessageRows) /\ Len(messages[c]) \in Nat
      /\ DOMAIN messages[c] = 1..Len(messages[c])
  BY LenProperties DEF Shapes, TablesOK
<1>7. messages'[c] = SubSeq(messages[c], n + 1, Len(messages[c])) BY <1>2 DEF Shapes, TablesOK
<1>8. ASSUME NEW i \in DOMAIN messages[c], i > n
      PROVE  i - n \in DOMAIN messages'[c] /\ messages'[c][i - n] = messages[c][i]
  <2>1. n \in Nat /\ n + 1 \in Nat /\ i \in Nat /\ n + 1 <= i /\ i <= Len(messages[c])
    BY <1>6, <1>8
  <2>2. \A j \in (n + 1)..Len(messages[c]) : messages[c][j] \in MessageRows BY <1>6
  <2>3. /\ DOMAIN SubSeq(messages[c], n + 1, Len(messages[c])) = 1..(Len(messages[c]) - n)
        /\ \A j \in 1..(Len(messages[c]) - n) :
             SubSeq(messages[c], n + 1, Len(messages[c]))[j] = messages[c][n + j]
    BY <1>6, <2>1
  <2>4. i - n \in 1..(Len(messages[c]) - n) /\ n + (i - n) = i BY <2>1, <1>6
  <2> QED BY <2>3, <2>4, <1>7
<1>9. ASSUME NEW l \in stored \ from, Condemned(l) PROVE Condemned(l)'
  <2>1. CASE \E d \in Chats :
               replPurge[d] # None /\ (l \in replPurge[d].todo \/ l = replPurge[d].head)
    BY <2>1, <1>1 DEF Condemned
  <2>2. ASSUME NEW d \in wirePurge, NEW i \in DOMAIN messages[d], messages[d][i].layer = l
        PROVE  Condemned(l)'
    <3>1. CASE d # c BY <3>1, <2>2, <1>2, <1>3, <1>4 DEF Condemned
    <3>2. CASE d = c
      <4>1. i > n
        <5>1. i \in 1..n => l \in from BY <2>2, <3>2, <1>5
        <5> QED BY <5>1, <2>2, <3>2, <1>6
      <4>2. i - n \in DOMAIN messages'[c] /\ messages'[c][i - n].layer = l
        BY <4>1, <2>2, <3>2, <1>8
      <4>3. messages'[c] # <<>> BY <4>2
      <4>4. c \in wirePurge' BY <4>3, <1>1, <1>2
      <4> QED BY <4>2, <4>4 DEF Condemned
    <3> QED BY <3>1, <3>2
  <2> QED BY <2>1, <2>2, <1>9 DEF Condemned
<1>10. \A l \in stored : Pinned(l, messages) => Pinned(l, messages')
  BY <1>3, <1>4 DEF Pinned
<1> HIDE DEF from
<1> QED BY <1>1, <1>2, <1>9, <1>10, WatchedAfter DEF from

(* A step leaves no layer that nothing holds and no purge comes to. *)
LEMMA WatchedNext ==
  ASSUME Shapes, Tree, Watched, [Next]_vars
  PROVE  Watched'
<1>1. CASE UNCHANGED tables BY <1>1 DEF tables, Watched, Leaf, Pinned, Condemned
<1>2. ASSUME NEW c \in Chats,
             Recover(c) \/ Evict(c) \/ \E source \in Sources : Step(c, source)
      PROVE  UNCHANGED tables
  BY <1>2 DEF Recover, Evict, Step
<1>3. ASSUME NEW s \in Stores, FailSave(s) PROVE UNCHANGED tables BY <1>3 DEF FailSave
<1>4. CASE Restart BY <1>1, <1>4 DEF Restart
<1>5. 1..(2 * MaxSteps) \subseteq Nat BY BoundsAssumption
<1>6. ASSUME NEW c \in Chats, NEW d \in Chats, NEW i \in 1..(2 * MaxSteps), Fork(c, d, i)
      PROVE  Watched'
  BY <1>5, <1>6, WatchedOfFork
<1> QED BY <1>1, <1>2, <1>3, <1>4, <1>6, WatchedOfBoot, WatchedOfRecord, WatchedOfDrop,
        WatchedOfPurgeRepl, WatchedOfPurgeMessages DEF Next, vars

(* Without a purge to come, the last layer over any is held by a chat. *)
LEMMA NoneLeaks == ASSUME Shapes, Tree, Watched PROVE NothingLeaks
<1> SUFFICES ASSUME wirePurge = {}, \A c \in Chats : replPurge[c] = None, NEW l \in stored
             PROVE  \E d \in stored : l \in layers[d].line /\ Pinned(d, messages)
  BY DEF NothingLeaks
<1> DEFINE over == {d \in stored : l \in layers[d].line}
<1>1. \A d \in stored : d \in DOMAIN layers /\ d \in layers[d].line /\ d \in Nat
  BY LenProperties DEF Shapes, TablesOK, Tree, Lined
<1>2. over \subseteq 1..Len(layers) /\ Len(layers) \in Nat
  BY <1>1, LenProperties DEF Shapes, TablesOK
<1>3. over # {} BY <1>1
<1>4. PICK d \in over : \A e \in over : e <= d
  <2> HIDE DEF over
  <2> QED BY <1>2, <1>3, GreatestNatural
<1>5. Leaf(d)
  <2> SUFFICES ASSUME NEW e \in stored, d \in layers[e].line PROVE e = d BY DEF Leaf
  <2>1. layers[d].line \subseteq layers[e].line BY <1>1 DEF Tree, Lined
  <2>2. e \in over BY <2>1, <1>4
  <2>3. e <= d BY <2>2, <1>4
  <2>4. d \in 1..e BY <1>1 DEF Tree, Lined
  <2> QED BY <2>3, <2>4, <1>1
<1>6. ~ Condemned(d) BY DEF Condemned
<1> QED BY <1>4, <1>5, <1>6 DEF Watched
-----------------------------------------------------------------------------
(* Deltas lie over the images they were made from.                         *)

(* At first there is no layer to stack, and no store has an image. *)
LEMMA BasedInit == Init => Standing /\ Based
<1> SUFFICES ASSUME Init PROVE Standing /\ Based OBVIOUS
<1>1. DOMAIN layers = {} BY DEF Init
<1>2. \A s \in Stores : store[s].below = None BY IdleCursor DEF Init
<1> QED BY <1>1, <1>2 DEF Standing, Based

(* A step other than a save moves each cursor onto a layer, or off them,   *)
(* or leaves it where it is.                                               *)
LEMMA StandingMoves ==
  ASSUME Shapes, Standing, UNCHANGED layers,
         \A s \in Stores :
           \/ store'[s].below = None
           \/ UNCHANGED <<store[s].below, store[s].run, store[s].over>>
           \/ \E l \in DOMAIN layers :
                /\ store'[s].below = layers[l].image /\ store'[s].over = l
                /\ store'[s].run = layers[l].run
  PROVE  Standing'
<1> SUFFICES ASSUME NEW s \in Stores, store'[s].below # None
             PROVE  /\ store'[s].over \in DOMAIN layers
                    /\ layers[store'[s].over].image = store'[s].below
                    /\ layers[store'[s].over].run = store'[s].run
  BY DEF Standing
<1>1. CASE store'[s].below = store[s].below /\ store'[s].run = store[s].run
           /\ store'[s].over = store[s].over
  BY <1>1 DEF Standing
<1>2. CASE \E l \in DOMAIN layers :
             /\ store'[s].below = layers[l].image /\ store'[s].over = l
             /\ store'[s].run = layers[l].run
  BY <1>2
<1> QED BY <1>1, <1>2

(* The line of a delta has one layer more than its parent's, from any      *)
(* layer of that one on.                                                   *)
LEMMA LineGrows ==
  ASSUME NEW p \in Nat, NEW l \in Nat, p < l, NEW upper \in SUBSET (1..p), NEW w \in upper
  PROVE  Cardinality({d \in {l} \cup upper : d >= w}) =
           Cardinality({d \in upper : d >= w}) + 1
<1> DEFINE rest == {d \in upper : d >= w}
<1>1. IsFiniteSet(rest)
  <2>1. IsFiniteSet(1..p) BY FS_Interval
  <2> QED BY <2>1, FS_Subset
<1>2. l \notin rest OBVIOUS
<1>3. {d \in {l} \cup upper : d >= w} = rest \cup {l} OBVIOUS
<1>4. Cardinality(rest \cup {l}) = Cardinality(rest) + 1
  <2> HIDE DEF rest
  <2> QED BY <1>1, <1>2, FS_AddElement
<1> HIDE DEF rest
<1> QED BY <1>3, <1>4 DEF rest

(* record() refuses a delta over another layer than the head, so that what *)
(* it stores stacks.                                                       *)
LEMMA BasedOfRecord ==
  ASSUME Shapes, Tree, Standing, Based, NEW s \in Stores, Record(s)
  PROVE  Standing' /\ Based'
<1> DEFINE save == Head(store[s].queue)
           c == save.repl
           l == Len(layers) + 1
           r == Row(s, save)
<1>1. save \in Saves /\ store[s] \in Cursors BY Waiting DEF Record
<1>2. c \in open /\ c \in Chats BY <1>1 DEF Record, Refused, Shapes, TablesOK
<1>3. /\ r \in LayerRows /\ r.parent = head[c] /\ r.whole = Whole(s) /\ r.image = save.image
      /\ r.below = (IF Whole(s) THEN None ELSE store[s].below)
      /\ r.run = RunAfter(s)
      /\ r.line = {l} \cup (IF head[c] = None THEN {} ELSE layers[head[c]].line)
  BY <1>1, <1>2, RowOfSave DEF Tree
<1>4. /\ DOMAIN layers = 1..Len(layers) /\ Len(layers) \in Nat /\ DOMAIN layers' = 1..l
      /\ layers'[l] = r /\ \A k \in DOMAIN layers : layers'[k] = layers[k]
  BY <1>2, <1>3, Recorded DEF Record
<1>5. Whole(s) \/ (store[s].below # None /\ store[s].run < MaxRun /\ store[s].over = head[c])
  <2>1. ~Refused(s, c) BY DEF Record
  <2>2. store[s].run \in Nat /\ MaxRun \in Nat BY <1>1, BoundsAssumption DEF Cursors
  <2> QED BY <2>1, <2>2, <1>2 DEF Refused, Whole
<1>6. \/ store'[s].below = None
      \/ store'[s].below = save.image /\ store'[s].run = RunAfter(s) /\ store'[s].over = l
  <2>1. PICK answered \in BOOLEAN : store' = [store EXCEPT ![s] =
          IF answered
          THEN [below |-> save.image, run |-> RunAfter(s), over |-> l, queue |-> Tail(@.queue)]
          ELSE [Lost(s, save) EXCEPT !.queue = Tail(@)]]
    BY DEF Record
  <2>2. CASE answered BY <2>1, <2>2 DEF Shapes, MemoryOK
  <2>3. CASE ~answered BY <2>1, <2>3, <1>1 DEF Shapes, MemoryOK, Lost, Cursors
  <2> QED BY <2>2, <2>3
<1>7. \A t \in Stores : t # s => store'[t] = store[t] BY DEF Record, Shapes, MemoryOK
<1>8. l \in 1..l BY <1>4
<1> HIDE DEF save, c, l, r
<1>9. Standing'
  <2> SUFFICES ASSUME NEW t \in Stores, store'[t].below # None
               PROVE  /\ store'[t].over \in DOMAIN layers'
                      /\ layers'[store'[t].over].image = store'[t].below
                      /\ layers'[store'[t].over].run = store'[t].run
    BY DEF Standing
  <2>1. CASE t = s BY <2>1, <1>3, <1>4, <1>6, <1>8
  <2>2. CASE t # s
    <3>1. store'[t] = store[t] BY <2>2, <1>7
    <3>2. store[t].over \in DOMAIN layers BY <3>1 DEF Standing
    <3>3. DOMAIN layers \subseteq DOMAIN layers' BY <1>4 DEF l
    <3> QED BY <3>1, <3>2, <3>3, <1>4 DEF Standing
  <2> QED BY <2>1, <2>2
<1>10. ASSUME NEW k \in DOMAIN layers PROVE Stacks(k, layers')
  <2>1. layers[k].line \subseteq DOMAIN layers BY <1>4 DEF Tree, Lined
  <2>2. layers'[k] = layers[k] /\ \A d \in layers[k].line : layers'[d] = layers[d] BY <2>1, <1>4
  <2>3. layers[k].parent # None => layers[k].parent \in layers[k].line BY DEF Tree, Lined
  <2>4. Stacks(k, layers) BY DEF Based
  <2> QED BY <2>2, <2>3, <2>4 DEF Stacks
<1>11. Stacks(l, layers')
  <2>1. CASE Whole(s)
    <3>1. RunAfter(s) = 1 BY <2>1 DEF RunAfter
    <3>2. {d \in r.line : d >= l} = {l}
      <4>1. ASSUME head[c] # None, NEW d \in layers[head[c]].line PROVE ~(d >= l)
        <5>1. head[c] \in DOMAIN layers BY <4>1, <1>2, HeadStored DEF Tree
        <5>2. d \in 1..head[c] BY <5>1, <4>1 DEF Tree, Lined
        <5> QED BY <5>1, <5>2, <1>4 DEF l
      <4>2. l \in Nat BY <1>4 DEF l
      <4> QED BY <4>1, <4>2, <1>3
    <3>3. Cardinality({l}) = 1 BY FS_Singleton
    <3>4. 1 <= MaxRun BY BoundsAssumption
    <3>5. l \in r.line BY <1>3
    <3> QED BY <3>1, <3>2, <3>3, <3>4, <3>5, <2>1, <1>3, <1>4 DEF Stacks
  <2>2. CASE ~Whole(s)
    <3> DEFINE p == head[c]
    <3>1. /\ store[s].below # None /\ store[s].run < MaxRun /\ store[s].over = p
      BY <2>2, <1>5
    <3>2. /\ p \in DOMAIN layers /\ layers[p].image = store[s].below
          /\ layers[p].run = store[s].run
      BY <3>1 DEF Standing
    <3>3. p \in Nat /\ p < l BY <3>2, <1>4 DEF l
    <3>4. p # None BY <3>3, NoneAssumption
    <3>5. PICK w \in layers[p].line :
            /\ layers[w].whole
            /\ Cardinality({d \in layers[p].line : d >= w}) = layers[p].run
      BY <3>2 DEF Based, Stacks
    <3>6. r.line = {l} \cup layers[p].line /\ layers[p].line \in SUBSET (1..p)
      BY <3>2, <3>4, <1>3 DEF Tree, Lined
    <3>7. Cardinality({d \in r.line : d >= w}) = layers[p].run + 1
      <4> HIDE DEF p
      <4>1. l \in Nat BY <1>4 DEF l
      <4>2. PICK upper : upper = layers[p].line OBVIOUS
      <4>3. upper \in SUBSET (1..p) /\ w \in upper BY <4>2, <3>6
      <4>4. Cardinality({d \in {l} \cup upper : d >= w}) = Cardinality({d \in upper : d >= w}) + 1
        BY <4>1, <4>3, <3>3, LineGrows
      <4> QED BY <4>2, <4>4, <3>5, <3>6
    <3>8. RunAfter(s) = layers[p].run + 1 BY <2>2, <3>2 DEF RunAfter
    <3>9. RunAfter(s) <= MaxRun
      <4>1. store[s].run \in Nat /\ MaxRun \in Nat BY <1>1, BoundsAssumption DEF Cursors
      <4> QED BY <4>1, <3>1, <3>2, <3>8
    <3>10. w \in DOMAIN layers /\ w \in r.line
      <4>1. w \in 1..p BY <3>6
      <4> QED BY <4>1, <3>2, <3>3, <3>6, <1>4
    <3>11. layers'[w].whole /\ layers'[p].image = store[s].below BY <3>2, <3>5, <3>10, <1>4
    <3>12. r.parent = p /\ r.below = store[s].below /\ r.run = RunAfter(s) BY <2>2, <1>3
    <3> HIDE DEF p
    <3> QED BY <3>4, <3>7, <3>8, <3>9, <3>10, <3>11, <3>12, <1>4 DEF Stacks
  <2> QED BY <2>1, <2>2
<1>12. Based'
  <2>1. \A k \in DOMAIN layers' : k \in DOMAIN layers \/ k = l BY <1>4 DEF l
  <2> QED BY <2>1, <1>10, <1>11 DEF Based
<1> QED BY <1>9, <1>12

(* A step keeps every layer such that it can be stacked. *)
LEMMA BasedNext ==
  ASSUME Shapes, Tree, Standing, Based, [Next]_vars
  PROVE  Standing' /\ Based'
<1>0. ASSUME UNCHANGED layers PROVE Based' BY <1>0 DEF Based
<1>1. CASE UNCHANGED <<layers, store>> BY <1>0, <1>1 DEF Standing
<1>2. ASSUME NEW c \in Chats, Boot(c) PROVE Standing' /\ Based'
  <2>1. UNCHANGED layers BY <1>2 DEF Boot
  <2>2. PICK s \in Stores : Load(c, s, Idle) BY <1>2 DEF Boot
  <2>3. /\ \A t \in Stores : t # s => store'[t] = store[t]
        /\ \/ store'[s] = Idle
           \/ head[c] \in DOMAIN layers /\ store'[s] = Restacked(head[c], Idle)
    BY <2>2, IdleCursor, Loads DEF Tree
  <2>4. \/ store'[s].below = None
        \/ \E l \in DOMAIN layers :
             /\ store'[s].below = layers[l].image /\ store'[s].over = l
             /\ store'[s].run = layers[l].run
    BY <2>3, IdleCursor, RestackedCursor
  <2> QED BY <2>1, <2>3, <2>4, <1>0, StandingMoves
<1>3. ASSUME NEW c \in Chats, Recover(c) PROVE Standing' /\ Based'
  <2>1. UNCHANGED layers BY <1>3 DEF Recover, tables
  <2>2. at[c] \in Stores /\ store[at[c]] \in Cursors BY <1>3 DEF Recover, Shapes, MemoryOK
  <2>3. Load(c, at[c], store[at[c]]) BY <1>3 DEF Recover
  <2>4. /\ \A t \in Stores : t # at[c] => store'[t] = store[t]
        /\ \/ store'[at[c]] = store[at[c]]
           \/ /\ head[c] \in DOMAIN layers
              /\ store'[at[c]] = Restacked(head[c], store[at[c]])
    BY <2>2, <2>3, Loads DEF Tree
  <2>5. \/ store'[at[c]] = store[at[c]]
        \/ \E l \in DOMAIN layers :
             /\ store'[at[c]].below = layers[l].image /\ store'[at[c]].over = l
             /\ store'[at[c]].run = layers[l].run
    BY <2>2, <2>4, RestackedCursor
  <2> QED BY <2>1, <2>4, <2>5, <1>0, StandingMoves
<1>4. ASSUME NEW c \in Chats, NEW source \in Sources, Step(c, source) PROVE Standing' /\ Based'
  <2>1. UNCHANGED layers BY <1>4 DEF Step, tables
  <2>2. \A s \in Stores : UNCHANGED <<store[s].below, store[s].run, store[s].over>>
    <3>1. PICK save : store' = [store EXCEPT ![at[c]].queue = Append(@, save)]
      BY <1>4 DEF Step
    <3>2. \A s \in Stores : store[s] \in Cursors BY DEF Shapes, MemoryOK
    <3> QED BY <3>1, <3>2 DEF Shapes, MemoryOK, Cursors
  <2> QED BY <2>1, <2>2, <1>0, StandingMoves
<1>5. ASSUME NEW s \in Stores, FailSave(s) PROVE Standing' /\ Based'
  <2>1. UNCHANGED layers BY <1>5 DEF FailSave, tables
  <2>2. \A t \in Stores : t # s => store'[t] = store[t] BY <1>5 DEF FailSave, Shapes, MemoryOK
  <2>3. store'[s].below = None
    <3>1. store[s] \in Cursors BY DEF Shapes, MemoryOK
    <3> QED BY <3>1, <1>5 DEF FailSave, Lost, Shapes, MemoryOK, Cursors
  <2> QED BY <2>1, <2>2, <2>3, <1>0, StandingMoves
<1>6. CASE Restart
  <2>1. UNCHANGED layers BY <1>6 DEF Restart, tables
  <2>2. \A s \in Stores : store'[s].below = None BY <1>6, IdleCursor DEF Restart
  <2> QED BY <2>1, <2>2, <1>0, StandingMoves
<1>7. ASSUME NEW s \in Stores, Record(s) PROVE Standing' /\ Based' BY <1>7, BasedOfRecord
<1>8. ASSUME NEW c \in Chats,
             \/ Evict(c) \/ AppendRows(c) \/ Drop(c) \/ PurgeRepl(c) \/ PurgeMessages(c)
             \/ \E d \in Chats, i \in 1..(2 * MaxSteps) : Fork(c, d, i)
      PROVE  UNCHANGED <<layers, store>>
  BY <1>8 DEF Evict, AppendRows, Drop, PurgeRepl, PurgeMessages, Fork, tables, memory
<1>9. CASE UNCHANGED vars BY <1>1, <1>9 DEF vars, tables, memory
<1> QED BY <1>1, <1>2, <1>3, <1>4, <1>5, <1>6, <1>7, <1>8, <1>9 DEF Next

(* A stored delta has its parent's row, for its line has no gap. *)
LEMMA AllFaithful == ASSUME Shapes, Tree, Based PROVE Faithful
<1> SUFFICES ASSUME NEW l \in stored
             PROVE  /\ ~layers[l].whole => /\ layers[l].parent \in stored
                                           /\ layers[layers[l].parent].image = layers[l].below
                    /\ \E w \in layers[l].line :
                         /\ layers[w].whole
                         /\ Cardinality({d \in layers[l].line : d >= w}) <= MaxRun
  BY DEF Faithful
<1>1. l \in DOMAIN layers BY DEF Shapes, TablesOK
<1>2. Stacks(l, layers) BY <1>1 DEF Based
<1>3. layers[l].parent # None => layers[l].parent \in stored BY <1>1 DEF Tree, Lined, Hung
<1> QED BY <1>2, <1>3 DEF Stacks

-----------------------------------------------------------------------------
(* What is stored of a chat is never ahead of its REPL, unless the REPL    *)
(* was made without it.                                                    *)

(* Each REPL has a store of its own, which waits to save nothing but what  *)
(* that REPL holds; and only a chat that has begun has a REPL or saves.    *)
Behind ==
  /\ \A c \in Chats : at[c] # None => chat[c] # "none"
  /\ \A c, d \in Chats : at[c] = at[d] /\ at[c] # None => c = d
  /\ \A s \in Stores : \A i \in DOMAIN store[s].queue : chat[store[s].queue[i].repl] # "none"
  /\ \A c \in Chats : at[c] # None => \A i \in DOMAIN store[at[c]].queue :
       /\ store[at[c]].queue[i].repl = c
       /\ IsPrefix(store[at[c]].queue[i].image, image[c])

(* A chat that is not astray has saves in no store but its own.            *)
Sole == \A c \in Chats \ astray : at[c] # None => ~Elsewhere(c, at[c])

(* What makes ResumesLast inductive. *)
Resumed == Behind /\ Sole /\ ResumesLast

(* Prefixes of an image that grows by a step. *)
LEMMA PrefixAppend ==
  ASSUME NEW front \in Seq(Nat), NEW whole \in Seq(Nat), NEW n \in Nat, IsPrefix(front, whole)
  PROVE  IsPrefix(front, Append(whole, n))
<1>1. Len(front) \in Nat /\ Len(whole) \in Nat /\ Len(front) <= Len(whole)
  BY LenProperties DEF IsPrefix
<1> QED BY <1>1 DEF IsPrefix

(* The image of a layer. *)
LEMMA ImageOfLayer ==
  ASSUME Shapes, NEW l \in DOMAIN layers
  PROVE  layers[l] \in LayerRows /\ layers[l].image \in Seq(Nat)
<1>1. layers[l] \in LayerRows BY DEF Shapes, TablesOK
<1> QED BY <1>1 DEF LayerRows

(* An image begins with itself. *)
LEMMA PrefixSelf == ASSUME NEW whole \in Seq(Nat) PROVE IsPrefix(whole, whole)
BY LenProperties DEF IsPrefix

(* A save is of a chat. *)
LEMMA ReplOfSave ==
  ASSUME Shapes, NEW s \in Stores, NEW i \in DOMAIN store[s].queue
  PROVE  store[s].queue[i] \in Saves /\ store[s].queue[i].repl \in Chats
<1>1. store[s].queue \in Seq(Saves) BY DEF Shapes, MemoryOK, Cursors
<1>2. store[s].queue[i] \in Saves BY <1>1
<1> QED BY <1>2 DEF Saves

(* At first no REPL is in memory. *)
LEMMA ResumedInit == Init => Resumed
<1> SUFFICES ASSUME Init PROVE Resumed OBVIOUS
<1>1. \A s \in Stores : DOMAIN store[s].queue = {} BY DEF Init, Idle
<1>2. \A c \in Chats : at[c] = None BY DEF Init
<1>3. open = {} BY DEF Init
<1> QED BY <1>1, <1>2, <1>3 DEF Resumed, Behind, Sole, ResumesLast

(* What waits in a store after a step, but for the REPL that steps. *)
LEMMA BehindLess ==
  ASSUME Shapes, Behind, Sole, NEW s \in Stores, store[s].queue # <<>>,
         store'[s].queue = Tail(store[s].queue), \A t \in Stores : t # s => store'[t] = store[t],
         UNCHANGED <<at, image, astray>>, \A c \in Chats : chat[c] # "none" => chat'[c] # "none"
  PROVE  Behind' /\ Sole'
<1>1. store[s].queue \in Seq(Saves) BY DEF Shapes, MemoryOK, Cursors
<1>2. ASSUME NEW i \in DOMAIN store'[s].queue
      PROVE  i + 1 \in DOMAIN store[s].queue /\ store'[s].queue[i] = store[s].queue[i + 1]
  BY <1>1, <1>2, HeadTailProperties, LenProperties
<1>3. ASSUME NEW t \in Stores, NEW i \in DOMAIN store'[t].queue
      PROVE  \E j \in DOMAIN store[t].queue : store'[t].queue[i] = store[t].queue[j]
  BY <1>2
<1>4. ASSUME NEW t \in Stores, NEW i \in DOMAIN store'[t].queue
      PROVE  chat'[store'[t].queue[i].repl] # "none"
  <2>1. PICK j \in DOMAIN store[t].queue : store'[t].queue[i] = store[t].queue[j] BY <1>3
  <2>2. store[t].queue[j].repl \in Chats BY ReplOfSave
  <2> QED BY <2>1, <2>2 DEF Behind
<1>5. ASSUME NEW c \in Chats, at[c] # None, NEW i \in DOMAIN store'[at[c]].queue
      PROVE  /\ store'[at[c]].queue[i].repl = c
             /\ IsPrefix(store'[at[c]].queue[i].image, image[c])
  <2>1. at[c] \in Stores BY <1>5 DEF Shapes, MemoryOK
  <2>2. PICK j \in DOMAIN store[at[c]].queue : store'[at[c]].queue[i] = store[at[c]].queue[j]
    BY <1>3, <1>5, <2>1
  <2> QED BY <2>2, <1>5 DEF Behind
<1>6. Behind' BY <1>4, <1>5 DEF Behind
<1>7. Sole' BY <1>3 DEF Sole, Elsewhere
<1> QED BY <1>6, <1>7

(* A REPL is made anew, in a store that waits for nothing: it holds what   *)
(* is stored, or is astray.                                                *)
LEMMA ResumedOfLoad ==
  ASSUME Shapes, Tree, Resumed, NEW c \in Chats, NEW s \in Stores, NEW cursor \in Cursors,
         Load(c, s, cursor), cursor.queue = <<>>, store[s].queue = <<>>,
         at' = [at EXCEPT ![c] = s], \A d \in Chats : d # c => at[d] # s,
         chat[c] # "none", UNCHANGED <<chat, head, layers>>,
         open' = open \cup {c}, c \notin open => head[c] = None
  PROVE  Resumed'
<1> USE DEF Resumed
<1>1. /\ \A t \in Stores : t # s => store'[t] = store[t]
      /\ DOMAIN store'[s].queue = {} /\ DOMAIN store[s].queue = {}
      /\ \A d \in Chats : d # c => image'[d] = image[d] /\ (d \in astray' <=> d \in astray)
      /\ c \notin astray' =>
           ~Elsewhere(c, s) /\ (head[c] # None => image'[c] = layers[head[c]].image)
  BY Loads DEF Tree
<1>2. at'[c] = s /\ \A d \in Chats : d # c => at'[d] = at[d] BY DEF Shapes, MemoryOK
<1>3. \A t \in Stores : store'[t].queue = store[t].queue BY <1>1, Loads DEF Tree
<1>4. Behind'
  <2>1. \A d \in Chats : at'[d] # None => chat'[d] # "none" BY <1>2 DEF Behind
  <2>2. \A d, e \in Chats : at'[d] = at'[e] /\ at'[d] # None => d = e BY <1>2 DEF Behind
  <2>3. \A t \in Stores : \A i \in DOMAIN store'[t].queue : chat'[store'[t].queue[i].repl] # "none"
    BY <1>3 DEF Behind
  <2>4. ASSUME NEW d \in Chats, at'[d] # None, NEW i \in DOMAIN store'[at'[d]].queue
        PROVE  /\ store'[at'[d]].queue[i].repl = d
               /\ IsPrefix(store'[at'[d]].queue[i].image, image'[d])
    <3>1. d # c BY <2>4, <1>1, <1>2
    <3>2. at'[d] = at[d] /\ at[d] \in Stores BY <3>1, <2>4, <1>2 DEF Shapes, MemoryOK
    <3> QED BY <3>1, <3>2, <2>4, <1>1, <1>3 DEF Behind
  <2> QED BY <2>1, <2>2, <2>3, <2>4 DEF Behind
<1>6. Sole'
  <2> SUFFICES ASSUME NEW d \in Chats, d \notin astray', at'[d] # None,
                      NEW t \in Stores, t # at'[d], NEW i \in DOMAIN store'[t].queue
               PROVE  store'[t].queue[i].repl # d
    BY DEF Sole, Elsewhere
  <2>1. CASE d = c
    <3>1. ~Elsewhere(c, s) /\ t # s BY <2>1, <1>1, <1>2
    <3> QED BY <3>1, <2>1, <1>3 DEF Elsewhere
  <2>2. CASE d # c
    <3>1. d \notin astray /\ at[d] = at'[d] BY <2>2, <1>1, <1>2
    <3>2. ~Elsewhere(d, at[d]) BY <3>1 DEF Sole
    <3> QED BY <3>1, <3>2, <1>3 DEF Elsewhere
  <2> QED BY <2>1, <2>2
<1>7. ResumesLast'
  <2> SUFFICES ASSUME NEW d \in open', d \notin astray', at'[d] # None, head[d] # None
               PROVE  IsPrefix(layers[head[d]].image, image'[d])
    BY DEF ResumesLast, Overtaken
  <2>0. d \in Chats BY DEF Shapes, TablesOK
  <2>1. CASE d = c
    <3>1. head[c] \in DOMAIN layers BY <2>1, HeadStored DEF Tree
    <3>2. layers[head[c]].image \in Seq(Nat) BY <3>1, ImageOfLayer
    <3> QED BY <3>2, <2>1, <1>1, PrefixSelf
  <2>2. CASE d # c BY <2>0, <2>2, <1>1, <1>2 DEF ResumesLast, Overtaken
  <2> QED BY <2>1, <2>2
<1> QED BY <1>4, <1>6, <1>7

(* A REPL that grows by a step keeps what it held. *)
LEMMA ResumedOfStep ==
  ASSUME Shapes, Tree, Resumed, NEW c \in Chats, NEW source \in Sources, Step(c, source)
  PROVE  Resumed'
<1> USE DEF Resumed
<1>1. at[c] \in Stores /\ at[c] # None /\ steps' \in Nat BY DEF Step, Shapes, MemoryOK
<1>2. /\ image'[c] = Append(image[c], steps') /\ image[c] \in Seq(Nat)
      /\ \A d \in Chats : d # c => image'[d] = image[d]
  BY DEF Step, Shapes, MemoryOK
<1>3. PICK save : /\ save.repl = c /\ save.image = image'[c]
                  /\ store' = [store EXCEPT ![at[c]].queue = Append(@, save)]
  BY DEF Step
<1>4. UNCHANGED <<at, chat, head, open, layers, astray>> BY DEF Step, tables
<1>5. ASSUME NEW d \in Chats, NEW front \in Seq(Nat), IsPrefix(front, image[d])
      PROVE  IsPrefix(front, image'[d])
  BY <1>1, <1>2, <1>5, PrefixAppend
<1>6. ASSUME NEW t \in Stores, NEW i \in DOMAIN store'[t].queue
      PROVE  \/ i \in DOMAIN store[t].queue /\ store'[t].queue[i] = store[t].queue[i]
             \/ t = at[c] /\ store'[t].queue[i] = save
  <2>1. store[t].queue \in Seq(Saves) BY DEF Shapes, MemoryOK, Cursors
  <2>2. t # at[c] => store'[t] = store[t] BY <1>3 DEF Shapes, MemoryOK
  <2>3. t = at[c] => store'[t].queue = Append(store[t].queue, save)
    BY <1>1, <1>3 DEF Shapes, MemoryOK, Cursors
  <2>4. /\ DOMAIN Append(store[t].queue, save) = 1..(Len(store[t].queue) + 1)
        /\ \A k \in 1..Len(store[t].queue) : Append(store[t].queue, save)[k] = store[t].queue[k]
        /\ Append(store[t].queue, save)[Len(store[t].queue) + 1] = save
        /\ DOMAIN store[t].queue = 1..Len(store[t].queue) /\ Len(store[t].queue) \in Nat
    BY <2>1
  <2>5. i \in DOMAIN store[t].queue \/ (t = at[c] /\ i = Len(store[t].queue) + 1)
    BY <1>6, <2>2, <2>3, <2>4
  <2> QED BY <2>2, <2>3, <2>4, <2>5
<1>7. Behind'
  <2>1. ASSUME NEW t \in Stores, NEW i \in DOMAIN store'[t].queue
        PROVE  chat'[store'[t].queue[i].repl] # "none"
    BY <1>1, <1>3, <1>4, <1>6 DEF Behind
  <2>2. ASSUME NEW d \in Chats, at[d] # None, NEW i \in DOMAIN store'[at[d]].queue
        PROVE  /\ store'[at[d]].queue[i].repl = d
               /\ IsPrefix(store'[at[d]].queue[i].image, image'[d])
    <3>1. at[d] \in Stores BY <2>2 DEF Shapes, MemoryOK
    <3>2. CASE /\ i \in DOMAIN store[at[d]].queue
               /\ store'[at[d]].queue[i] = store[at[d]].queue[i]
      <4>1. store[at[d]].queue[i] \in Saves BY <3>1, <3>2, ReplOfSave
      <4>2. /\ store[at[d]].queue[i].repl = d
            /\ IsPrefix(store[at[d]].queue[i].image, image[d])
        BY <2>2, <3>2 DEF Behind
      <4>3. store[at[d]].queue[i].image \in Seq(Nat) BY <4>1 DEF Saves
      <4>4. IsPrefix(store[at[d]].queue[i].image, image'[d]) BY <4>2, <4>3, <1>5
      <4> QED BY <4>2, <4>4, <3>2
    <3>3. CASE at[d] = at[c] /\ store'[at[d]].queue[i] = save
      <4>1. d = c BY <3>3, <1>1 DEF Behind
      <4>2. Append(image[c], steps') \in Seq(Nat) BY <1>1, <1>2, AppendProperties
      <4>3. IsPrefix(image'[c], image'[c]) BY <4>2, <1>2, PrefixSelf
      <4> QED BY <4>1, <4>3, <3>3, <1>3
    <3> QED BY <3>1, <3>2, <3>3, <2>2, <1>6
  <2> QED BY <2>1, <2>2, <1>4 DEF Behind
<1>8. Sole'
  <2> SUFFICES ASSUME NEW d \in Chats, d \notin astray, at[d] # None,
                      NEW t \in Stores \ {at[d]}, NEW i \in DOMAIN store'[t].queue
               PROVE  store'[t].queue[i].repl # d
    BY <1>4 DEF Sole, Elsewhere
  <2>1. CASE i \in DOMAIN store[t].queue /\ store'[t].queue[i] = store[t].queue[i]
    BY <2>1 DEF Sole, Elsewhere
  <2>2. CASE t = at[c] /\ store'[t].queue[i] = save BY <2>2, <1>3
  <2> QED BY <2>1, <2>2, <1>6
<1>9. ResumesLast'
  <2> SUFFICES ASSUME NEW d \in open, d \notin astray, at[d] # None, head[d] # None
               PROVE  IsPrefix(layers[head[d]].image, image'[d])
    BY <1>4 DEF ResumesLast, Overtaken
  <2>1. head[d] \in DOMAIN layers BY HeadStored DEF Tree
  <2>2. layers[head[d]].image \in Seq(Nat) /\ d \in Chats
    BY <2>1, ImageOfLayer DEF Shapes, TablesOK
  <2>3. IsPrefix(layers[head[d]].image, image[d]) BY DEF ResumesLast, Overtaken
  <2> QED BY <2>2, <2>3, <1>5
<1> QED BY <1>7, <1>8, <1>9

(* A REPL is built, recovered, evicted or lost with the process. *)
LEMMA ResumedOfMemory ==
  ASSUME Shapes, Tree, Resumed, NEW c \in Chats,
         Boot(c) \/ Recover(c) \/ Evict(c) \/ Restart
  PROVE  Resumed'
<1> USE DEF Resumed
<1>1. CASE Boot(c)
  <2>1. PICK s \in Stores : /\ s \notin {at[d] : d \in Chats} /\ store[s].queue = <<>>
                            /\ at' = [at EXCEPT ![c] = s] /\ Load(c, s, Idle)
    BY <1>1 DEF Boot
  <2>2. c \notin open => head[c] = None BY <1>1 DEF Boot, Tree, Hung
  <2>3. Idle \in Cursors /\ Idle.queue = <<>> BY IdleCursor DEF Idle
  <2>4. chat[c] # "none" /\ UNCHANGED <<chat, head, layers>> /\ open' = open \cup {c}
    BY <1>1 DEF Boot
  <2>5. \A d \in Chats : d # c => at[d] # s BY <2>1
  <2> QED BY <2>1, <2>2, <2>3, <2>4, <2>5, ResumedOfLoad
<1>2. CASE Recover(c) /\ c \in open
  <2>1. at[c] \in Stores /\ at[c] # None /\ store[at[c]] \in Cursors
    BY <1>2 DEF Recover, Shapes, MemoryOK
  <2>2. at' = [at EXCEPT ![c] = at[c]] BY <1>2 DEF Recover, Shapes, MemoryOK
  <2>3. UNCHANGED <<chat, head, layers>> /\ open' = open \cup {c} BY <1>2 DEF Recover, tables
  <2>4. /\ store[at[c]].queue = <<>> /\ Load(c, at[c], store[at[c]])
        /\ chat[c] # "none" /\ \A d \in Chats : d # c => at[d] # at[c]
    BY <1>2, <2>1 DEF Recover, Behind
  <2>5. PICK s \in Stores : s = at[c] BY <2>1
  <2>6. PICK cursor \in Cursors : cursor = store[at[c]] BY <2>1
  <2>7. /\ Load(c, s, cursor) /\ cursor.queue = <<>> /\ store[s].queue = <<>>
        /\ at' = [at EXCEPT ![c] = s] /\ \A d \in Chats : d # c => at[d] # s
        /\ c \notin open => head[c] = None
    BY <2>2, <2>4, <2>5, <2>6, <1>2
  <2> QED BY <2>3, <2>4, <2>7, ResumedOfLoad
<1>3. CASE Recover(c) /\ c \notin open
  <2>1. at[c] \in Stores /\ at[c] # None /\ store[at[c]] \in Cursors
    BY <1>3 DEF Recover, Shapes, MemoryOK
  <2>2. UNCHANGED <<at, chat, head, layers, open>> /\ store[at[c]].queue = <<>>
        /\ Load(c, at[c], store[at[c]])
    BY <1>3 DEF Recover, tables
  <2>3. /\ \A t \in Stores : t # at[c] => store'[t] = store[t]
        /\ store'[at[c]].queue = <<>>
        /\ \A d \in Chats : d # c => image'[d] = image[d] /\ (d \in astray' <=> d \in astray)
        /\ c \notin astray' => ~Elsewhere(c, at[c])
    BY <2>1, <2>2, Loads DEF Tree
  <2>4. \A t \in Stores : store'[t].queue = store[t].queue BY <2>2, <2>3
  <2>5. DOMAIN store[at[c]].queue = {} BY <2>2
  <2>6. \A d \in Chats : at[d] # None => at[d] \in Stores BY DEF Shapes, MemoryOK
  <2>7. Behind' BY <2>2, <2>3, <2>4, <2>5, <2>6 DEF Behind
  <2>8. Sole'
    <3>1. \A d \in Chats \ astray' : at[d] # None => ~Elsewhere(d, at[d]) BY <2>3 DEF Sole
    <3> QED BY <3>1, <2>2, <2>4 DEF Sole, Elsewhere
  <2>9. ResumesLast'
    <3>1. open \subseteq Chats BY DEF Shapes, TablesOK
    <3>2. \A d \in open : d # c BY <1>3
    <3> QED BY <3>1, <3>2, <2>2, <2>3 DEF ResumesLast, Overtaken
  <2> QED BY <2>7, <2>8, <2>9
<1>4. CASE Evict(c)
  <2>1. /\ UNCHANGED <<store, chat, head, layers, open>>
        /\ at'[c] = None /\ \A d \in Chats : d # c => at'[d] = at[d] /\ image'[d] = image[d]
        /\ \A d \in Chats : d # c => (d \in astray' <=> d \in astray)
    BY <1>4 DEF Evict, tables, Shapes, MemoryOK
  <2>2. Behind' BY <2>1 DEF Behind
  <2>3. Sole' BY <2>1 DEF Sole, Elsewhere
  <2>4. ResumesLast'
    <3>1. open \subseteq Chats BY DEF Shapes, TablesOK
    <3> QED BY <3>1, <2>1 DEF ResumesLast, Overtaken
  <2> QED BY <2>2, <2>3, <2>4
<1>5. CASE Restart
  <2>1. \A s \in Stores : DOMAIN store'[s].queue = {} BY <1>5 DEF Restart, Idle
  <2>2. \A d \in Chats : at'[d] = None BY <1>5 DEF Restart
  <2>3. open' \subseteq Chats BY <1>5 DEF Restart, tables, Shapes, TablesOK
  <2> QED BY <2>1, <2>2, <2>3 DEF Behind, Sole, ResumesLast, Overtaken
<1> QED BY <1>1, <1>2, <1>3, <1>4, <1>5

(* What else changes the tables changes no image. *)
LEMMA ResumedOfTables ==
  ASSUME Shapes, Tree, Resumed, NEW c \in Chats,
         \/ AppendRows(c) \/ Drop(c) \/ PurgeRepl(c) \/ PurgeMessages(c)
         \/ \E d \in Chats, i \in Nat : Fork(c, d, i)
  PROVE  Resumed'
<1> USE DEF Resumed
<1>1. UNCHANGED <<at, image, store, layers, astray>>
  BY DEF AppendRows, Drop, PurgeRepl, PurgeMessages, Fork, memory, history
<1>2. \A d \in Chats : chat[d] # "none" => chat'[d] # "none"
  BY DEF AppendRows, Drop, PurgeRepl, PurgeMessages, Fork, Shapes, TablesOK
<1>3. Behind'
  <2>1. \A t \in Stores : \A i \in DOMAIN store[t].queue : store[t].queue[i].repl \in Chats
    BY ReplOfSave
  <2> QED BY <2>1, <1>1, <1>2 DEF Behind
<1>4. Sole' BY <1>1 DEF Sole, Elsewhere
<1>5. ASSUME NEW d \in open', at[d] # None PROVE d \in open /\ head'[d] = head[d]
  <2>1. ASSUME NEW e \in Chats, NEW i \in Nat, Fork(c, e, i) PROVE d \in open /\ head'[d] = head[d]
    <3>1. at[e] = None BY <2>1 DEF Fork, Behind
    <3> QED BY <3>1, <2>1, <1>5 DEF Fork, Shapes, TablesOK
  <2>2. CASE AppendRows(c) \/ Drop(c) \/ PurgeRepl(c) \/ PurgeMessages(c)
    BY <2>2, <1>5 DEF AppendRows, Drop, PurgeRepl, PurgeMessages
  <2> QED BY <2>1, <2>2
<1>6. ResumesLast' BY <1>1, <1>5 DEF ResumesLast, Overtaken
<1> QED BY <1>3, <1>4, <1>6

(* A save that is recorded becomes the head, and holds no step its REPL    *)
(* does not.                                                               *)
LEMMA ResumedOfSave ==
  ASSUME Shapes, Tree, Resumed, NEW s \in Stores, Record(s) \/ FailSave(s)
  PROVE  Resumed'
<1> USE DEF Resumed
<1> DEFINE save == Head(store[s].queue)
           c == save.repl
           l == Len(layers) + 1
<1>1. /\ store[s].queue # <<>> /\ UNCHANGED <<chat, open, at, image, astray>>
  BY DEF Record, FailSave, tables, history
<1>2. \A t \in Stores : t # s => store'[t] = store[t] BY DEF Record, FailSave, Shapes, MemoryOK
<1>3. store'[s].queue = Tail(store[s].queue)
  <2>1. store[s] \in Cursors BY DEF Shapes, MemoryOK
  <2>2. CASE FailSave(s) BY <2>1, <2>2 DEF FailSave, Shapes, MemoryOK, Lost, Cursors
  <2>3. CASE Record(s)
    <3>1. PICK answered \in BOOLEAN : store' = [store EXCEPT ![s] =
            IF answered
            THEN [below |-> save.image, run |-> RunAfter(s), over |-> l, queue |-> Tail(@.queue)]
            ELSE [Lost(s, save) EXCEPT !.queue = Tail(@)]]
      BY <2>3 DEF Record
    <3>2. CASE answered BY <3>1, <3>2 DEF Shapes, MemoryOK
    <3>3. CASE ~answered BY <3>1, <3>3, <2>1 DEF Shapes, MemoryOK, Lost, Cursors
    <3> QED BY <3>2, <3>3
  <2> QED BY <2>2, <2>3
<1>4. Behind' /\ Sole' BY <1>1, <1>2, <1>3, BehindLess
<1>5. CASE FailSave(s)
  <2>1. UNCHANGED <<head, layers>> BY <1>5 DEF FailSave, tables
  <2>2. ResumesLast' BY <1>1, <2>1 DEF ResumesLast, Overtaken
  <2> QED BY <1>4, <2>2
<1>6. CASE Record(s)
  <2>1. save \in Saves BY <1>1, Waiting
  <2>2. c \in open /\ c \in Chats BY <1>6, <2>1 DEF Record, Refused, Shapes, TablesOK
  <2>3. Row(s, save) \in LayerRows /\ Row(s, save).image = save.image
    BY <2>1, <2>2, RowOfSave DEF Tree
  <2>4. layers'[l] = Row(s, save) /\ \A k \in DOMAIN layers : layers'[k] = layers[k]
    BY <1>6, <2>3, Recorded DEF Record
  <2>5. head'[c] = l /\ \A d \in Chats : d # c => head'[d] = head[d]
    BY <1>6, <2>2 DEF Record, Shapes, TablesOK
  <2>6. 1 \in DOMAIN store[s].queue /\ save = store[s].queue[1]
    <3>1. store[s].queue \in Seq(Saves) BY DEF Shapes, MemoryOK, Cursors
    <3> QED BY <1>1, <3>1, LenProperties
  <2>7. ASSUME at[c] # None, c \notin astray PROVE IsPrefix(save.image, image[c])
    <3>1. ~Elsewhere(c, at[c]) BY <2>2, <2>7 DEF Sole
    <3>2. at[c] = s
      <4> HIDE DEF save
      <4>1. store[s].queue[1].repl = c BY <2>6
      <4> QED BY <4>1, <3>1, <2>6 DEF Elsewhere
    <3> HIDE DEF save
    <3> QED BY <3>2, <2>2, <2>6, <2>7 DEF Behind
  <2> HIDE DEF save, c, l
  <2>8. ASSUME NEW d \in open, d \notin astray, at[d] # None, head'[d] # None
        PROVE  IsPrefix(layers'[head'[d]].image, image[d])
    <3>1. CASE d = c BY <3>1, <2>3, <2>4, <2>5, <2>7, <2>8
    <3>2. CASE d # c
      <4>1. head'[d] = head[d] BY <3>2, <2>5 DEF Shapes, TablesOK
      <4>2. head[d] \in DOMAIN layers BY <4>1, <2>8, HeadStored DEF Tree
      <4> QED BY <4>1, <4>2, <2>4, <2>8 DEF ResumesLast, Overtaken
    <3> QED BY <3>1, <3>2
  <2>9. ResumesLast' BY <1>1, <2>8 DEF ResumesLast, Overtaken
  <2> QED BY <1>4, <2>9
<1> QED BY <1>5, <1>6

(* A step leaves no REPL behind its head. *)
LEMMA ResumedNext ==
  ASSUME Shapes, Tree, Resumed, [Next]_vars
  PROVE  Resumed'
<1>1. CASE UNCHANGED vars
  BY <1>1 DEF vars, tables, memory, history, Resumed, Behind, Sole, Elsewhere, ResumesLast, Overtaken
<1>2. 1..(2 * MaxSteps) \subseteq Nat BY BoundsAssumption
<1>3. ASSUME NEW c \in Chats, NEW d \in Chats, NEW i \in 1..(2 * MaxSteps), Fork(c, d, i)
      PROVE  Resumed'
  BY <1>2, <1>3, ResumedOfTables
<1>4. CASE Restart BY <1>4, ChatsAssumption, ResumedOfMemory
<1> QED BY <1>1, <1>3, <1>4, ResumedOfMemory, ResumedOfStep, ResumedOfTables, ResumedOfSave DEF Next

-----------------------------------------------------------------------------
(* A message of a step that has a layer of its own stands on it or on one  *)
(* over it, in a chat none of whose steps crossed another.                 *)

(* The saves that wait, in any store, and those of them that are for       *)
(* messages of chats in which nothing crossed.                             *)
Saving == UNION {{store[s].queue[i] : i \in DOMAIN store[s].queue} : s \in Stores}
Waits  == {q \in Saving : q.origin # None /\ q.repl \notin crossed}

(* The rows of steps are in the order of the steps. *)
InOrder(m) ==
  \A i, j \in DOMAIN m :
    i < j /\ m[i].wire # None /\ m[j].wire # None => m[i].wire < m[j].wire

(* The steps of rows, of layers and of saves have been evaluated. *)
Numbered ==
  /\ \A c \in Chats : chat[c] = "live" => \A i \in DOMAIN messages[c] :
       messages[c][i].wire # None => messages[c][i].wire <= steps
  /\ \A c \in Chats : \A i \in DOMAIN unsent[c] :
       unsent[c][i].wire # None => unsent[c][i].wire <= steps
  /\ \A l \in DOMAIN layers : layers[l].origin # None => layers[l].origin <= steps
  /\ \A q \in Saving : q.origin # None => q.origin <= steps

(* Rows are in the order of their steps, appended or not. *)
Ordered ==
  \A c \in Chats : chat[c] = "live" =>
    /\ InOrder(messages[c]) /\ InOrder(unsent[c])
    /\ \A i \in DOMAIN messages[c], j \in DOMAIN unsent[c] :
         messages[c][i].wire # None /\ unsent[c][j].wire # None =>
           messages[c][i].wire < unsent[c][j].wire

(* Two saves of a chat: they wait in one store, the one for a message      *)
(* behind no answer to the UI and in the order of the steps.               *)
InLine(s, i, t, j) ==
  LET p == store[s].queue[i]
      q == store[t].queue[j]
  IN p.repl = q.repl /\ p.repl \notin crossed =>
       /\ s = t
       /\ i < j /\ q.origin # None => p.origin # None /\ p.origin < q.origin

(* Saves wait in line. *)
Queued ==
  \A s, t \in Stores : \A i \in DOMAIN store[s].queue, j \in DOMAIN store[t].queue :
    InLine(s, i, t, j)

(* No row is yet to be appended while an answer to the UI is being saved.  *)
Silent ==
  \A q \in Saving : q.origin = None /\ q.repl \notin crossed => unsent[q.repl] = <<>>

(* A save that waits is newer than each layer of its chat. *)
Newer ==
  \A q \in Waits : \A l \in DOMAIN layers :
    layers[l].repl = q.repl /\ layers[l].origin # None => layers[l].origin < q.origin

(* A step has a row. *)
HasRow(m, wire) == \E i \in DOMAIN m : m[i].wire = wire

(* The chat of a save that waits has a row for it, appended or not. *)
Told ==
  \A q \in Waits : chat[q.repl] = "live" =>
    HasRow(messages[q.repl], q.origin) \/ HasRow(unsent[q.repl], q.origin)

(* The rows from the step of a save that waits stand on the head. *)
Close ==
  \A q \in Waits : chat[q.repl] = "live" =>
    \A i, k \in DOMAIN messages[q.repl] :
      i <= k /\ messages[q.repl][i].wire = q.origin => messages[q.repl][k].layer = head[q.repl]

(* A step of a chat has one layer. *)
Once ==
  \A k, l \in DOMAIN layers :
    layers[k].repl = layers[l].repl /\ layers[k].origin = layers[l].origin
      /\ layers[k].origin # None /\ layers[k].repl \notin crossed => k = l

(* Of the rows yet to be appended, the one the head was recorded for is    *)
(* the last that has a layer.                                              *)
Ahead ==
  \A c \in Chats : chat[c] = "live" /\ c \notin crossed =>
    \A l \in DOMAIN layers :
      layers[l].repl = c /\ layers[l].origin # None /\ HasRow(unsent[c], layers[l].origin) =>
        /\ head[c] \in DOMAIN layers /\ layers[head[c]].repl = c
        /\ layers[head[c]].origin # None /\ layers[l].origin <= layers[head[c]].origin
        /\ HasRow(unsent[c], layers[head[c]].origin)

(* What a chat that has not begun, or is not in memory, lacks. *)
Begun ==
  /\ \A l \in DOMAIN layers : chat[layers[l].repl] # "none"
  /\ \A c \in Chats : unsent[c] # <<>> => at[c] # None
  /\ \A c \in Chats : chat[c] = "live" /\ at[c] # None => c \in open

(* What makes BackFilled inductive. *)
Filled ==
  /\ Numbered /\ Ordered /\ Queued /\ Silent /\ Newer /\ Told /\ Close /\ Once /\ Ahead /\ Begun
  /\ BackFilled

(* A save that waits is one of a chat. *)
LEMMA WaitsTyped ==
  ASSUME Shapes PROVE \A q \in Saving : q \in Saves /\ q.repl \in Chats
BY ReplOfSave DEF Saving

(* At first there are no rows, layers or saves. *)
LEMMA FilledInit == Init => Filled
<1> SUFFICES ASSUME Init PROVE Filled OBVIOUS
<1>1. /\ \A s \in Stores : DOMAIN store[s].queue = {}
      /\ \A c \in Chats : DOMAIN messages[c] = {} /\ DOMAIN unsent[c] = {} /\ unsent[c] = <<>>
      /\ DOMAIN layers = {}
  BY DEF Init, Idle
<1>2. Saving = {} /\ Waits = {} BY <1>1 DEF Saving, Waits
<1>3. Numbered BY <1>1, <1>2 DEF Numbered
<1>4. Ordered BY <1>1 DEF Ordered, InOrder
<1>5. Queued /\ Silent BY <1>1, <1>2 DEF Queued, Silent
<1>6. Newer /\ Told /\ Close BY <1>2 DEF Newer, Told, Close
<1>7. Once /\ Ahead BY <1>1 DEF Once, Ahead
<1>8. Begun BY <1>1 DEF Init, Begun
<1>9. BackFilled BY <1>1 DEF BackFilled, OnOwnLayers
<1> QED BY <1>3, <1>4, <1>5, <1>6, <1>7, <1>8, <1>9 DEF Filled

(* A step that adds no row, no layer and no save for a message. *)
LEMMA FilledLess ==
  ASSUME Shapes, Tree, Filled, UNCHANGED <<layers, head>>, stored' \subseteq stored,
         \A c \in Chats : chat'[c] = "live" => chat[c] = "live" /\ messages'[c] = messages[c],
         \A c \in Chats : chat'[c] = "none" => chat[c] = "none",
         \A c \in Chats : unsent'[c] = unsent[c] \/ unsent'[c] = <<>>,
         crossed \subseteq crossed', Waits' \subseteq Waits,
         \A q \in Waits' : chat'[q.repl] = "live" => unsent'[q.repl] = unsent[q.repl],
         Numbered', Queued', Silent', Begun'
  PROVE  Filled'
<1> USE DEF Filled
<1>1. \A q \in Waits : q.repl \in Chats BY WaitsTyped DEF Waits
<1>2. \A c \in Chats : DOMAIN unsent'[c] = {} \/ unsent'[c] = unsent[c] OBVIOUS
<1>3. Ordered' BY <1>2 DEF Ordered, InOrder
<1>4. Newer' BY DEF Newer
<1>5. Told' BY <1>1 DEF Told
<1>6. Close' BY <1>1 DEF Close
<1>7. Once' BY DEF Once
<1>8. Ahead'
  <2>1. \A c \in Chats : \A w : HasRow(unsent'[c], w) => unsent'[c] = unsent[c] BY <1>2 DEF HasRow
  <2> QED BY <2>1 DEF Ahead
<1>9. BackFilled' BY DEF BackFilled, OnOwnLayers, Own
<1> QED BY <1>3, <1>4, <1>5, <1>6, <1>7, <1>8, <1>9

(* Fewer saves, of one store or of all. *)
Fewer(left, queue) ==
  left = queue \/ left = <<>> \/ (queue # <<>> /\ left = Tail(queue))

(* The saves left are saves that waited, in the line they had. *)
LEMMA FewerWait ==
  ASSUME Shapes, Queued, crossed' = crossed,
         \A s \in Stores : Fewer(store'[s].queue, store[s].queue)
  PROVE  Saving' \subseteq Saving /\ Waits' \subseteq Waits /\ Queued'
<1>1. ASSUME NEW s \in Stores
      PROVE  \/ store'[s].queue = store[s].queue \/ DOMAIN store'[s].queue = {}
             \/ \A i \in DOMAIN store'[s].queue :
                  /\ i \in Nat /\ i + 1 \in DOMAIN store[s].queue
                  /\ store'[s].queue[i] = store[s].queue[i + 1]
  <2>1. store[s].queue \in Seq(Saves) BY DEF Shapes, MemoryOK, Cursors
  <2>0. Fewer(store'[s].queue, store[s].queue) OBVIOUS
  <2>2. CASE store[s].queue # <<>> /\ store'[s].queue = Tail(store[s].queue)
    <3>1. /\ Tail(store[s].queue) \in Seq(Saves) /\ Len(store[s].queue) \in Nat
          /\ DOMAIN store[s].queue = 1..Len(store[s].queue)
          /\ DOMAIN Tail(store[s].queue) = 1..(Len(store[s].queue) - 1)
          /\ \A i \in 1..(Len(store[s].queue) - 1) :
               Tail(store[s].queue)[i] = store[s].queue[i + 1]
      BY <2>1, <2>2, HeadTailProperties, LenProperties
    <3> QED BY <2>2, <3>1
  <2> QED BY <2>0, <2>2 DEF Fewer
<1>2. Saving' \subseteq Saving
  <2> SUFFICES ASSUME NEW s \in Stores, NEW i \in DOMAIN store'[s].queue
               PROVE  store'[s].queue[i] \in Saving
    BY DEF Saving
  <2>1. \E j \in DOMAIN store[s].queue : store'[s].queue[i] = store[s].queue[j] BY <1>1
  <2> QED BY <2>1 DEF Saving
<1>3. Waits' \subseteq Waits BY <1>2 DEF Waits
<1>4. Queued'
  <2> SUFFICES ASSUME NEW s \in Stores, NEW t \in Stores, NEW i \in DOMAIN store'[s].queue,
                      NEW j \in DOMAIN store'[t].queue,
                      store'[s].queue[i].repl = store'[t].queue[j].repl,
                      store'[s].queue[i].repl \notin crossed
               PROVE  /\ s = t
                      /\ i < j /\ store'[t].queue[j].origin # None =>
                           /\ store'[s].queue[i].origin # None
                           /\ store'[s].queue[i].origin < store'[t].queue[j].origin
    BY DEF Queued, InLine
  <2>1. s = t
    <3>1. PICK h \in DOMAIN store[s].queue : store'[s].queue[i] = store[s].queue[h] BY <1>1
    <3>2. PICK k \in DOMAIN store[t].queue : store'[t].queue[j] = store[t].queue[k] BY <1>1
    <3>3. InLine(s, h, t, k) BY DEF Queued
    <3> QED BY <3>1, <3>2, <3>3 DEF InLine
  <2>2. CASE store'[s].queue = store[s].queue
    <3>1. InLine(s, i, t, j) BY <2>1, <2>2 DEF Queued
    <3> QED BY <2>1, <2>2, <3>1 DEF InLine
  <2>3. CASE \A k \in DOMAIN store'[s].queue :
               /\ k \in Nat /\ k + 1 \in DOMAIN store[s].queue
               /\ store'[s].queue[k] = store[s].queue[k + 1]
    <3>1. InLine(s, i + 1, t, j + 1) BY <2>1, <2>3 DEF Queued
    <3>2. i < j => i + 1 < j + 1 BY <2>1, <2>3
    <3> QED BY <2>1, <2>3, <3>1, <3>2 DEF InLine
  <2> QED BY <1>1, <2>1, <2>2, <2>3
<1> QED BY <1>2, <1>3, <1>4

(* What adds no row, no layer and no save. *)
LEMMA FilledOfQuiet ==
  ASSUME Shapes, Tree, Resumed, Filled, NEW c \in Chats,
         \/ Boot(c) \/ Recover(c) \/ Evict(c) \/ Drop(c) \/ PurgeRepl(c) \/ PurgeMessages(c) \/ Restart
         \/ \E s \in Stores : FailSave(s)
  PROVE  Filled'
<1> USE DEF Filled
<1>1. /\ UNCHANGED <<layers, head, steps, crossed>> /\ stored' \subseteq stored
  BY DEF Boot, Recover, Evict, Drop, PurgeRepl, PurgeMessages, Restart, FailSave, tables, memory,
     history
<1>2. \A d \in Chats : chat'[d] = "live" => chat[d] = "live" /\ messages'[d] = messages[d]
  BY DEF Boot, Recover, Evict, Drop, PurgeRepl, PurgeMessages, Restart, FailSave, tables, memory, Shapes,
     TablesOK, Tree, Hung
<1>3. \A d \in Chats : chat'[d] = "none" => chat[d] = "none"
  BY DEF Boot, Recover, Evict, Drop, PurgeRepl, PurgeMessages, Restart, FailSave, tables, memory, Shapes,
     TablesOK
<1>4. \A d \in Chats : unsent'[d] = unsent[d] \/ unsent'[d] = <<>>
  BY DEF Boot, Recover, Evict, Drop, PurgeRepl, PurgeMessages, Restart, FailSave, tables, memory
<1>5. ASSUME NEW s \in Stores
      PROVE  \/ store'[s].queue = store[s].queue \/ store'[s].queue = <<>>
             \/ store[s].queue # <<>> /\ store'[s].queue = Tail(store[s].queue)
  <2>1. store[s] \in Cursors BY DEF Shapes, MemoryOK
  <2>2. CASE Boot(c)
    <3>1. PICK t \in Stores : store[t].queue = <<>> /\ Load(c, t, Idle) BY <2>2 DEF Boot
    <3>2. /\ \A r \in Stores : r # t => store'[r] = store[r]
          /\ store'[t].queue = <<>>
      BY <3>1, IdleCursor, Loads DEF Tree, Idle
    <3> QED BY <3>1, <3>2
  <2>3. CASE Recover(c)
    <3>1. at[c] \in Stores /\ store[at[c]] \in Cursors BY <2>3 DEF Recover, Shapes, MemoryOK
    <3>2. Load(c, at[c], store[at[c]]) BY <2>3 DEF Recover
    <3>3. /\ \A r \in Stores : r # at[c] => store'[r] = store[r]
          /\ store'[at[c]].queue = store[at[c]].queue
      BY <3>1, <3>2, Loads DEF Tree
    <3> QED BY <3>3
  <2>4. CASE Restart BY <2>4 DEF Restart, Idle
  <2>5. ASSUME NEW t \in Stores, FailSave(t)
        PROVE  \/ store'[s].queue = store[s].queue
               \/ store[s].queue # <<>> /\ store'[s].queue = Tail(store[s].queue)
    <3>1. CASE s # t BY <3>1, <2>5 DEF FailSave, Shapes, MemoryOK
    <3>2. CASE s = t BY <3>2, <2>1, <2>5 DEF FailSave, Lost, Shapes, MemoryOK, Cursors
    <3> QED BY <3>1, <3>2
  <2>6. CASE Evict(c) \/ Drop(c) \/ PurgeRepl(c) \/ PurgeMessages(c)
    BY <2>6 DEF Evict, Drop, PurgeRepl, PurgeMessages, memory
  <2> QED BY <2>2, <2>3, <2>4, <2>5, <2>6
<1>6. Saving' \subseteq Saving /\ Waits' \subseteq Waits /\ Queued'
  <2>1. Queued OBVIOUS
  <2>2. \A s \in Stores : Fewer(store'[s].queue, store[s].queue) BY <1>5 DEF Fewer
  <2> QED BY <2>1, <2>2, <1>1, FewerWait
<1>7. \A q \in Saving' : unsent'[q.repl] = unsent[q.repl]
  <2>1. CASE Restart
    <3>1. \A s \in Stores : DOMAIN store'[s].queue = {} BY <2>1 DEF Restart, Idle
    <3> QED BY <3>1 DEF Saving
  <2>2. CASE UNCHANGED unsent BY <2>2
  <2> QED BY <2>1, <2>2 DEF Boot, Recover, Evict, Drop, PurgeRepl, PurgeMessages, FailSave, tables,
                            memory
<1>8. Begun'
  <2>0. \/ \E s \in Stores : at' = [at EXCEPT ![c] = s] /\ open' = open \cup {c} /\ unsent' = unsent
        \/ unsent[c] = <<>> /\ at' = [at EXCEPT ![c] = None] /\ UNCHANGED <<open, unsent>>
        \/ at' = [d \in Chats |-> None] /\ unsent' = [d \in Chats |-> <<>>]
        \/ chat'[c] # "live" /\ open' = open \ {c} /\ UNCHANGED <<at, unsent>>
        \/ UNCHANGED <<at, open, unsent>>
    <3>1. CASE Boot(c) BY <3>1 DEF Boot
    <3>2. CASE Evict(c) BY <3>2 DEF Evict, tables
    <3>3. CASE Restart BY <3>3 DEF Restart
    <3>4. CASE Drop(c) BY <3>4 DEF Drop, memory, Shapes, TablesOK
    <3>5. CASE Recover(c) \/ PurgeRepl(c) \/ PurgeMessages(c) \/ \E s \in Stores : FailSave(s)
      BY <3>5 DEF Recover, PurgeRepl, PurgeMessages, FailSave, tables, memory
    <3> QED BY <3>1, <3>2, <3>3, <3>4, <3>5
  <2>5. at \in [Chats -> Stores \cup {None}] /\ None \notin Stores
    BY NoneAssumption DEF Shapes, MemoryOK
  <2>1. \A d \in Chats : chat'[d] = "live" /\ at'[d] # None => d \in open'
    BY <2>0, <2>5, <1>2 DEF Begun
  <2>2. \A d \in Chats : unsent'[d] # <<>> => at'[d] # None
    BY <2>0, <2>5 DEF Begun
  <2>3. \A l \in DOMAIN layers : layers[l].repl \in Chats
    <3>1. \A l \in DOMAIN layers : layers[l] \in LayerRows BY DEF Shapes, TablesOK
    <3> QED BY <3>1 DEF LayerRows
  <2>4. \A l \in DOMAIN layers' : chat'[layers'[l].repl] # "none"
    BY <2>3, <1>1, <1>3 DEF Begun
  <2> QED BY <2>1, <2>2, <2>4 DEF Begun
<1>9. Numbered'
  <2>1. \A d \in Chats : DOMAIN unsent'[d] = {} \/ unsent'[d] = unsent[d] BY <1>4
  <2> QED BY <2>1, <1>1, <1>2, <1>6 DEF Numbered
<1>10. Silent' BY <1>1, <1>6, <1>7 DEF Silent
<1>11. \A q \in Waits' : unsent'[q.repl] = unsent[q.repl] BY <1>7 DEF Waits
<1> QED BY <1>1, <1>2, <1>3, <1>4, <1>6, <1>8, <1>9, <1>10, <1>11, FilledLess

(* What has a number has been evaluated before the next step. *)
LEMMA NumberedBelow ==
  ASSUME Shapes, Numbered
  PROVE  /\ steps \in Nat /\ steps + 1 \in Nat
         /\ \A c \in Chats : chat[c] = "live" => \A i \in DOMAIN messages[c] :
              messages[c][i].wire # None => messages[c][i].wire \in Nat /\ messages[c][i].wire < steps + 1
         /\ \A c \in Chats : \A i \in DOMAIN unsent[c] :
              unsent[c][i].wire # None => unsent[c][i].wire \in Nat /\ unsent[c][i].wire < steps + 1
         /\ \A l \in DOMAIN layers :
              layers[l].origin # None => layers[l].origin \in Nat /\ layers[l].origin < steps + 1
         /\ \A q \in Saving : q.origin # None => q.origin \in Nat /\ q.origin < steps + 1
<1>1. steps \in Nat /\ steps + 1 \in Nat BY DEF Shapes, MemoryOK
<1>2. ASSUME NEW c \in Chats, chat[c] = "live", NEW i \in DOMAIN messages[c], messages[c][i].wire # None
      PROVE  messages[c][i].wire \in Nat /\ messages[c][i].wire < steps + 1
  <2>1. messages[c] \in Seq(MessageRows) BY DEF Shapes, TablesOK
  <2>2. messages[c][i] \in MessageRows BY <2>1
  <2>3. messages[c][i].wire \in Nat BY <1>2, <2>2 DEF MessageRows
  <2> QED BY <1>1, <1>2, <2>3 DEF Numbered
<1>3. ASSUME NEW c \in Chats, NEW i \in DOMAIN unsent[c], unsent[c][i].wire # None
      PROVE  unsent[c][i].wire \in Nat /\ unsent[c][i].wire < steps + 1
  <2>1. unsent[c] \in Seq(UnsentRows) BY DEF Shapes, MemoryOK
  <2>2. unsent[c][i] \in UnsentRows BY <2>1
  <2>3. unsent[c][i].wire \in Nat BY <1>3, <2>2 DEF UnsentRows
  <2> QED BY <1>1, <1>3, <2>3 DEF Numbered
<1>4. ASSUME NEW l \in DOMAIN layers, layers[l].origin # None
      PROVE  layers[l].origin \in Nat /\ layers[l].origin < steps + 1
  <2>1. layers[l] \in LayerRows BY DEF Shapes, TablesOK
  <2>2. layers[l].origin \in Nat BY <1>4, <2>1 DEF LayerRows
  <2> QED BY <1>1, <1>4, <2>2 DEF Numbered
<1>5. ASSUME NEW q \in Saving, q.origin # None
      PROVE  q.origin \in Nat /\ q.origin < steps + 1
  <2>1. q \in Saves BY WaitsTyped
  <2>2. q.origin \in Nat BY <1>5, <2>1 DEF Saves
  <2> QED BY <1>1, <1>5, <2>2 DEF Numbered
<1> QED BY <1>1, <1>2, <1>3, <1>4, <1>5

(* A step adds a save at the end of its line; it is in line unless the     *)
(* step crossed another one.                                               *)
LEMMA StepSaves ==
  ASSUME Shapes, Tree, Numbered, Queued, Silent, NEW c \in Chats, NEW source \in Sources, Step(c, source)
  PROVE  \E save :
           /\ save.repl = c
           /\ save.origin = IF source = "ai" THEN steps + 1 ELSE None
           /\ Saving' \subseteq Saving \cup {save}
           /\ Queued'
           /\ crossed \subseteq crossed' /\ crossed' \subseteq crossed \cup {c}
           /\ c \notin crossed' =>
                /\ source = "ai" => \A q \in Saving : q.repl = c => q.origin # None
                /\ source = "ui" => unsent[c] = <<>>
<1> DEFINE s == at[c]
<1>1. s \in Stores /\ steps' = steps + 1 BY DEF Step, Shapes, MemoryOK
<1>2. PICK save : /\ save.repl = c /\ save.origin = IF source = "ai" THEN steps + 1 ELSE None
                  /\ store' = [store EXCEPT ![s].queue = Append(@, save)]
  BY <1>1 DEF Step
<1>3. /\ \A t \in Stores : t # s => store'[t].queue = store[t].queue
      /\ store'[s].queue = Append(store[s].queue, save)
  BY <1>1, <1>2 DEF Shapes, MemoryOK, Cursors
<1>4. /\ DOMAIN store[s].queue = 1..Len(store[s].queue)
      /\ Len(store[s].queue) \in Nat
      /\ DOMAIN store'[s].queue = 1..(Len(store[s].queue) + 1)
      /\ \A i \in 1..Len(store[s].queue) : store'[s].queue[i] = store[s].queue[i]
      /\ store'[s].queue[Len(store[s].queue) + 1] = save
  <2>1. store[s].queue \in Seq(Saves) BY <1>1 DEF Shapes, MemoryOK, Cursors
  <2> QED BY <2>1, <1>3
<1>5. /\ crossed \subseteq crossed' /\ crossed' \subseteq crossed \cup {c}
      /\ c \notin crossed' => ~Crosses(c, source)
  BY DEF Step
<1>6. c \notin crossed' =>
        /\ \A t \in Stores : \A i \in DOMAIN store[t].queue : store[t].queue[i].repl = c => t = s
        /\ source = "ai" => \A i \in DOMAIN store[s].queue : store[s].queue[i].origin # None
        /\ source = "ui" => unsent[c] = <<>>
  BY <1>5 DEF Crosses, Elsewhere
<1> HIDE DEF s
<1>7. ASSUME NEW t \in Stores, NEW i \in DOMAIN store'[t].queue
      PROVE  \/ i \in DOMAIN store[t].queue /\ store'[t].queue[i] = store[t].queue[i]
             \/ t = s /\ i = Len(store[s].queue) + 1 /\ store'[t].queue[i] = save
  <2>1. CASE t # s BY <2>1, <1>3
  <2>2. CASE t = s
    <3>1. i \in 1..Len(store[s].queue) \/ i = Len(store[s].queue) + 1 BY <2>2, <1>4
    <3> QED BY <3>1, <2>2, <1>4
  <2> QED BY <2>1, <2>2
<1>8. Saving' \subseteq Saving \cup {save} BY <1>7 DEF Saving
<1>9. Queued'
  <2> SUFFICES ASSUME NEW t \in Stores, NEW r \in Stores, NEW i \in DOMAIN store'[t].queue,
                      NEW j \in DOMAIN store'[r].queue,
                      store'[t].queue[i].repl = store'[r].queue[j].repl,
                      store'[t].queue[i].repl \notin crossed'
               PROVE  /\ t = r
                      /\ i < j /\ store'[r].queue[j].origin # None =>
                           /\ store'[t].queue[i].origin # None
                           /\ store'[t].queue[i].origin < store'[r].queue[j].origin
    BY DEF Queued, InLine
  <2>1. CASE /\ i \in DOMAIN store[t].queue /\ store'[t].queue[i] = store[t].queue[i]
             /\ j \in DOMAIN store[r].queue /\ store'[r].queue[j] = store[r].queue[j]
    <3>1. InLine(t, i, r, j) BY <2>1 DEF Queued
    <3> QED BY <3>1, <2>1, <1>5 DEF InLine
  <2>2. CASE /\ t = s /\ i = Len(store[s].queue) + 1 /\ store'[t].queue[i] = save
             /\ j \in DOMAIN store[r].queue /\ store'[r].queue[j] = store[r].queue[j]
    <3>1. r = s BY <2>2, <1>2, <1>6
    <3>2. ~(i < j) BY <2>2, <3>1, <1>4
    <3> QED BY <3>1, <3>2, <2>2
  <2>3. CASE /\ i \in DOMAIN store[t].queue /\ store'[t].queue[i] = store[t].queue[i]
             /\ r = s /\ j = Len(store[s].queue) + 1 /\ store'[r].queue[j] = save
    <3>1. store[t].queue[i].repl = c /\ c \notin crossed' BY <2>3, <1>2
    <3>2. t = s BY <2>3, <3>1, <1>6
    <3>3. store[t].queue[i] \in Saving BY <2>3 DEF Saving
    <3>4. ASSUME save.origin # None
          PROVE  store[t].queue[i].origin # None /\ store[t].queue[i].origin < save.origin
      <4>1. source = "ai" /\ save.origin = steps + 1 BY <3>4, <1>2
      <4>2. store[t].queue[i].origin # None BY <4>1, <3>1, <3>2, <2>3, <1>6
      <4> QED BY <4>1, <4>2, <3>3, NumberedBelow
    <3> QED BY <3>2, <3>4, <2>3
  <2>4. CASE /\ t = s /\ i = Len(store[s].queue) + 1 /\ r = s /\ j = Len(store[s].queue) + 1
    <3>1. ~(i < j) BY <2>4, <1>4
    <3> QED BY <3>1, <2>4
  <2> QED BY <2>1, <2>2, <2>3, <2>4, <1>7
<1>10. c \notin crossed' /\ source = "ai" => \A q \in Saving : q.repl = c => q.origin # None
  BY <1>6 DEF Saving
<1> WITNESS save
<1> QED BY <1>2, <1>5, <1>6, <1>8, <1>9, <1>10

(* An answer to the UI adds a save no message waits for. *)
LEMMA FilledOfAnswer ==
  ASSUME Shapes, Tree, Filled, NEW c \in Chats, NEW source \in Sources, source # "ai", Step(c, source)
  PROVE  Filled'
<1> USE DEF Filled
<1>1. PICK save :
        /\ save.repl = c
        /\ save.origin = IF source = "ai" THEN steps + 1 ELSE None
        /\ Saving' \subseteq Saving \cup {save}
        /\ Queued'
        /\ crossed \subseteq crossed' /\ crossed' \subseteq crossed \cup {c}
        /\ c \notin crossed' =>
             /\ source = "ai" => \A q \in Saving : q.repl = c => q.origin # None
             /\ source = "ui" => unsent[c] = <<>>
  BY StepSaves
<1>2. /\ UNCHANGED <<chat, messages, head, open, layers, stored, at, unsent>> /\ steps' = steps + 1
      /\ source = "ui" /\ save.origin = None
  BY <1>1, SourcesAssumption DEF Step, tables
<1>3. Waits' \subseteq Waits BY <1>1, <1>2 DEF Waits
<1>4. Silent' BY <1>1, <1>2 DEF Silent
<1>5. Begun' BY <1>2 DEF Begun
<1>6. Numbered'
  <2>1. \A w \in Nat : w < steps + 1 => w <= steps' BY <1>2, NumberedBelow
  <2>2. \A q \in Saving' : q.origin # None => q \in Saving BY <1>1, <1>2
  <2>3. /\ \A d \in Chats : chat[d] = "live" => \A i \in DOMAIN messages[d] :
             messages[d][i].wire # None => messages[d][i].wire <= steps'
        /\ \A d \in Chats : \A i \in DOMAIN unsent[d] :
             unsent[d][i].wire # None => unsent[d][i].wire <= steps'
        /\ \A l \in DOMAIN layers : layers[l].origin # None => layers[l].origin <= steps'
        /\ \A q \in Saving : q.origin # None => q.origin <= steps'
    BY <2>1, NumberedBelow
  <2> QED BY <2>2, <2>3, <1>2 DEF Numbered
<1>7. \A q \in Waits' : chat'[q.repl] = "live" => unsent'[q.repl] = unsent[q.repl] BY <1>2
<1>8. /\ UNCHANGED <<layers, head>> /\ stored' \subseteq stored
      /\ \A d \in Chats : chat'[d] = "live" => chat[d] = "live" /\ messages'[d] = messages[d]
      /\ \A d \in Chats : chat'[d] = "none" => chat[d] = "none"
      /\ \A d \in Chats : unsent'[d] = unsent[d] \/ unsent'[d] = <<>>
  BY <1>2
<1> QED BY <1>1, <1>3, <1>4, <1>5, <1>6, <1>7, <1>8, FilledLess

(* A step adds a row and a save, newer than all others. *)
LEMMA FilledOfStep ==
  ASSUME Shapes, Tree, Filled, NEW c \in Chats, NEW source \in Sources, source = "ai", Step(c, source)
  PROVE  Filled'
<1> USE DEF Filled
<1> DEFINE n == steps + 1
           u == unsent[c]
           more == <<[wire |-> n, type |-> "ai"], [wire |-> None, type |-> "tool"]>>
<1>1. /\ at[c] \in Stores /\ steps \in Nat /\ steps' = n /\ n \in Nat /\ n # None
      /\ UNCHANGED <<chat, messages, head, open, layers, stored, at>>
  BY NoneAssumption DEF Step, Shapes, MemoryOK, tables
<1>2. PICK save :
        /\ save.repl = c
        /\ save.origin = IF source = "ai" THEN steps + 1 ELSE None
        /\ Saving' \subseteq Saving \cup {save}
        /\ Queued'
        /\ crossed \subseteq crossed' /\ crossed' \subseteq crossed \cup {c}
        /\ c \notin crossed' =>
             /\ source = "ai" => \A q \in Saving : q.repl = c => q.origin # None
             /\ source = "ui" => unsent[c] = <<>>
  BY StepSaves
<1>3. /\ save.repl = c /\ save.origin = n /\ crossed \subseteq crossed'
      /\ c \notin crossed' => \A q \in Saving : q.repl = c => q.origin # None
  BY <1>2
<1>4. \A q \in Saving' : q \in Saving \/ q = save BY <1>2
<1>5. \A q \in Waits' : q \in Waits \/ q = save BY <1>3, <1>4 DEF Waits
<1>6. /\ \A d \in Chats : d # c => unsent'[d] = unsent[d]
      /\ unsent'[c] = u \o more /\ u \in Seq(UnsentRows)
  BY <1>1 DEF Step, Shapes, MemoryOK
<1>7. /\ DOMAIN u = 1..Len(u) /\ Len(u) \in Nat /\ DOMAIN unsent'[c] = 1..(Len(u) + 2)
      /\ \A i \in 1..Len(u) : unsent'[c][i] = u[i]
      /\ unsent'[c][Len(u) + 1].wire = n /\ unsent'[c][Len(u) + 2].wire = None
  <2>1. DOMAIN u = 1..Len(u) /\ Len(u) \in Nat BY <1>6, LenProperties
  <2>2. more[1].wire = n /\ more[2].wire = None /\ Len(more) = 2 OBVIOUS
  <2>3. more \in Seq(UnsentRows) BY <1>1 DEF UnsentRows
  <2> HIDE DEF more, u
  <2>4. /\ DOMAIN unsent'[c] = 1..(Len(u) + Len(more))
        /\ \A i \in 1..Len(u) : unsent'[c][i] = u[i]
        /\ \A i \in 1..Len(more) : unsent'[c][Len(u) + i] = more[i]
    BY <2>3, <1>6, Joined
  <2> QED BY <2>1, <2>2, <2>4
<1>8. \A i \in DOMAIN unsent'[c] :
        \/ i \in DOMAIN u /\ unsent'[c][i] = u[i]
        \/ i = Len(u) + 1 /\ unsent'[c][i].wire = n
        \/ unsent'[c][i].wire = None
  BY <1>7
<1>9. \A i \in DOMAIN u : u[i].wire # None => u[i].wire \in Nat /\ u[i].wire < n
  BY NumberedBelow
<1>10. \A l \in DOMAIN layers : layers[l].origin # None => layers[l].origin \in Nat
                                                        /\ layers[l].origin < n
  BY NumberedBelow
<1>11. \A q \in Saving : q.origin # None => q.origin \in Nat /\ q.origin < n
  BY NumberedBelow
<1>12. \A d \in Chats : chat[d] = "live" => \A i \in DOMAIN messages[d] :
         messages[d][i].wire # None => messages[d][i].wire \in Nat /\ messages[d][i].wire < n
  BY NumberedBelow
<1> HIDE DEF more, u
<1>13. Numbered'
  <2>1. ASSUME NEW d \in Chats, NEW i \in DOMAIN unsent'[d], unsent'[d][i].wire # None
        PROVE  unsent'[d][i].wire <= n
    <3>1. CASE d = c BY <3>1, <2>1, <1>1, <1>8, <1>9
    <3>2. CASE d # c
      <4>1. unsent[d] \in Seq(UnsentRows) /\ i \in DOMAIN unsent[d] /\ unsent'[d] = unsent[d]
        BY <3>2, <1>6, <2>1 DEF Shapes, MemoryOK
      <4>2. unsent[d][i] \in UnsentRows BY <4>1
      <4>3. unsent[d][i].wire \in Nat /\ unsent[d][i].wire <= steps
        BY <4>1, <4>2, <2>1 DEF Numbered, UnsentRows
      <4> QED BY <4>1, <4>3, <1>1
    <3> QED BY <3>1, <3>2
  <2>2. \A d \in Chats : chat[d] = "live" => \A i \in DOMAIN messages[d] :
          messages[d][i].wire # None => messages[d][i].wire <= n
    BY <1>1, <1>12
  <2>3. \A l \in DOMAIN layers : layers[l].origin # None => layers[l].origin <= n
    BY <1>1, <1>10
  <2>4. \A q \in Saving' : q.origin # None => q.origin <= n
    <3>1. \A q \in Saving : q.origin # None => q.origin <= n BY <1>1, <1>11
    <3> QED BY <3>1, <1>1, <1>3, <1>4
  <2> QED BY <2>1, <2>2, <2>3, <2>4, <1>1 DEF Numbered
<1>14. Ordered'
  <2> SUFFICES ASSUME NEW d \in Chats, chat[d] = "live"
               PROVE  /\ InOrder(messages[d]) /\ InOrder(unsent'[d])
                      /\ \A i \in DOMAIN messages[d], j \in DOMAIN unsent'[d] :
                           messages[d][i].wire # None /\ unsent'[d][j].wire # None =>
                             messages[d][i].wire < unsent'[d][j].wire
    BY <1>1 DEF Ordered
  <2>1. CASE d # c
    <3>1. unsent'[d] = unsent[d] BY <2>1, <1>6
    <3> QED BY <3>1 DEF Ordered
  <2>2. CASE d = c
    <3>1. InOrder(unsent'[c])
      <4> SUFFICES ASSUME NEW i \in DOMAIN unsent'[c], NEW j \in DOMAIN unsent'[c], i < j,
                          unsent'[c][i].wire # None, unsent'[c][j].wire # None
                   PROVE  unsent'[c][i].wire < unsent'[c][j].wire
        BY DEF InOrder
      <4>1. InOrder(u) BY <2>2 DEF Ordered, u
      <4>2. i \in Nat /\ j \in Nat BY <1>7
      <4>3. CASE j \in DOMAIN u
        <5>1. i \in DOMAIN u BY <4>2, <4>3, <1>7
        <5> QED BY <5>1, <4>1, <4>3, <1>7 DEF InOrder
      <4>4. CASE j = Len(u) + 1
        <5>1. i \in DOMAIN u BY <4>2, <4>4, <1>7
        <5> QED BY <5>1, <4>4, <1>7, <1>9
      <4> QED BY <4>3, <4>4, <1>8
    <3>2. \A i \in DOMAIN messages[c], j \in DOMAIN unsent'[c] :
            messages[c][i].wire # None /\ unsent'[c][j].wire # None =>
              messages[c][i].wire < unsent'[c][j].wire
      BY <2>2, <1>8, <1>12 DEF Ordered, u
    <3> QED BY <2>2, <3>1, <3>2 DEF Ordered
  <2> QED BY <2>1, <2>2
<1>15. Queued' BY <1>2
<1>16. Silent'
  <2> SUFFICES ASSUME NEW q \in Saving', q.origin = None, q.repl \notin crossed'
               PROVE  unsent'[q.repl] = <<>>
    BY DEF Silent
  <2>1. q \in Saving /\ q.repl \in Chats /\ q.repl \notin crossed BY <1>1, <1>3, <1>4, WaitsTyped
  <2>2. q.repl # c BY <1>3, <2>1
  <2> QED BY <2>1, <2>2, <1>6 DEF Silent
<1>17. Newer'
  <2>1. \A q \in Waits : \A l \in DOMAIN layers :
          layers[l].repl = q.repl /\ layers[l].origin # None => layers[l].origin < q.origin
    BY DEF Newer
  <2> QED BY <2>1, <1>1, <1>3, <1>5, <1>10 DEF Newer
<1>18. \A d \in Chats : \A w : HasRow(unsent[d], w) => HasRow(unsent'[d], w)
  <2> SUFFICES ASSUME NEW d \in Chats, NEW w, HasRow(unsent[d], w) PROVE HasRow(unsent'[d], w)
    OBVIOUS
  <2>1. CASE d # c BY <2>1, <1>6
  <2>2. CASE d = c
    <3>1. \A i \in DOMAIN u : i \in DOMAIN unsent'[c] /\ unsent'[c][i] = u[i] BY <1>7
    <3> QED BY <3>1, <2>2 DEF HasRow, u
  <2> QED BY <2>1, <2>2
<1>19. HasRow(unsent'[c], n) BY <1>7 DEF HasRow
<1>20. \A d \in Chats : \A w : w \in Nat /\ w < n /\ HasRow(unsent'[d], w) => HasRow(unsent[d], w)
  <2> SUFFICES ASSUME NEW d \in Chats, NEW w \in Nat, w < n, HasRow(unsent'[d], w)
               PROVE  HasRow(unsent[d], w)
    OBVIOUS
  <2>1. CASE d # c BY <2>1, <1>6
  <2>2. CASE d = c
    <3>1. PICK i \in DOMAIN unsent'[c] : unsent'[c][i].wire = w BY <2>2 DEF HasRow
    <3>2. w # n /\ w # None BY <1>1, NoneAssumption
    <3>3. i \in DOMAIN u /\ u[i].wire = w BY <3>1, <3>2, <1>8
    <3> QED BY <3>3, <2>2 DEF HasRow, u
  <2> QED BY <2>1, <2>2
<1>21. Told'
  <2>1. \A q \in Waits : q.repl \in Chats BY WaitsTyped DEF Waits
  <2> QED BY <2>1, <1>1, <1>3, <1>5, <1>18, <1>19 DEF Told
<1>22. Close'
  <2>1. chat[c] = "live" => \A i \in DOMAIN messages[c] : messages[c][i].wire # n
    BY <1>1, <1>12
  <2> QED BY <2>1, <1>1, <1>3, <1>5 DEF Close
<1>23. Once' BY <1>1, <1>3 DEF Once
<1>24. Ahead' BY <1>1, <1>3, <1>10, <1>18, <1>20 DEF Ahead
<1>25. Begun'
  <2>1. \A d \in Chats : unsent'[d] # <<>> => at[d] # None
    BY <1>1, <1>6, NoneAssumption DEF Begun
  <2> QED BY <2>1, <1>1 DEF Begun
<1>26. BackFilled' BY <1>1, <1>3 DEF BackFilled, OnOwnLayers, Own
<1> QED BY <1>13, <1>14, <1>15, <1>17, <1>21, <1>22, <1>23, <1>24, <1>25, <1>26, <1>16

(* A fork's rows are those of the chat it was taken from, and none has a   *)
(* layer of the fork's own.                                                *)
LEMMA FilledOfFork ==
  ASSUME Shapes, Tree, Resumed, Filled, NEW c \in Chats, NEW d \in Chats, NEW i \in Nat,
         Fork(c, d, i)
  PROVE  Filled'
<1> USE DEF Filled
<1>1. /\ chat[c] = "live" /\ chat[d] = "none" /\ d # c /\ at[d] = None /\ unsent[d] = <<>>
      /\ UNCHANGED <<layers, stored, at, unsent, store, steps, crossed>>
      /\ \A e \in Chats : e # d => /\ chat'[e] = chat[e] /\ messages'[e] = messages[e]
                                  /\ head'[e] = head[e]
      /\ chat'[d] = "live" /\ messages'[d] = SubSeq(messages[c], 1, i)
      /\ open \subseteq open'
  BY DEF Fork, Shapes, TablesOK, memory, history, Resumed, Behind, Begun
<1>2. messages[c] \in Seq(MessageRows) /\ i \in 1..Len(messages[c])
  BY LenProperties DEF Fork, Shapes, TablesOK
<1>3. ASSUME NEW k \in DOMAIN messages'[d]
      PROVE  k \in DOMAIN messages[c] /\ messages'[d][k] = messages[c][k]
  <2>1. /\ Len(messages[c]) \in Nat /\ DOMAIN messages[c] = 1..Len(messages[c])
    BY <1>2, LenProperties
  <2>2. SubSeq(messages[c], 1, i) = [j \in 1..i |-> messages[c][j]] BY <1>2, <2>1
  <2> QED BY <2>2, <1>1, <1>2, <1>3, <2>1
<1>4. DOMAIN unsent[d] = {} /\ \A w : ~HasRow(unsent[d], w) BY <1>1 DEF HasRow
<1>5. Saving' = Saving /\ Waits' = Waits BY <1>1 DEF Saving, Waits
<1>6. \A q \in Waits : q.repl # d /\ q.repl \in Chats
  <2> SUFFICES ASSUME NEW s \in Stores, NEW j \in DOMAIN store[s].queue
               PROVE  store[s].queue[j].repl # d /\ store[s].queue[j].repl \in Chats
    BY DEF Waits, Saving
  <2>1. chat[store[s].queue[j].repl] # "none" BY DEF Resumed, Behind
  <2> QED BY <2>1, <1>1, ReplOfSave
<1>7. \A l \in DOMAIN layers : layers[l].repl # d BY <1>1 DEF Begun
<1>8. Numbered'
  <2>1. \A e \in Chats : chat'[e] = "live" => \A k \in DOMAIN messages'[e] :
          messages'[e][k].wire # None => messages'[e][k].wire <= steps
    <3>1. \A k \in DOMAIN messages'[d] :
            messages'[d][k].wire # None => messages'[d][k].wire <= steps
      BY <1>1, <1>3 DEF Numbered
    <3>2. \A e \in Chats : e # d /\ chat'[e] = "live" => \A k \in DOMAIN messages'[e] :
            messages'[e][k].wire # None => messages'[e][k].wire <= steps
      BY <1>1 DEF Numbered
    <3> QED BY <3>1, <3>2
  <2> QED BY <2>1, <1>1, <1>5 DEF Numbered
<1>9. Ordered'
  <2>1. InOrder(messages'[d]) BY <1>1, <1>3 DEF Ordered, InOrder
  <2>2. InOrder(unsent[d]) BY <1>4 DEF InOrder
  <2> QED BY <2>1, <2>2, <1>1, <1>4 DEF Ordered
<1>10. Queued' /\ Silent' BY <1>1, <1>5 DEF Queued, InLine, Silent
<1>11. Newer' BY <1>1, <1>5 DEF Newer
<1>12. Told' BY <1>1, <1>5, <1>6 DEF Told
<1>13. Close' BY <1>1, <1>5, <1>6 DEF Close
<1>14. Once' BY <1>1 DEF Once
<1>15. Ahead' BY <1>1, <1>4 DEF Ahead
<1>16. Begun'
  <2>1. \A l \in DOMAIN layers : layers[l].repl \in Chats
    <3>1. \A l \in DOMAIN layers : layers[l] \in LayerRows BY DEF Shapes, TablesOK
    <3> QED BY <3>1 DEF LayerRows
  <2> QED BY <2>1, <1>1 DEF Begun
<1>17. BackFilled'
  <2>1. \A w : Own(d, w) = {} BY <1>7 DEF Own, Shapes, TablesOK
  <2>2. \A e \in Chats : \A w : Own(e, w)' = Own(e, w) BY <1>1 DEF Own
  <2>3. ASSUME NEW e \in Chats, e \notin crossed, chat'[e] = "live", NEW k \in DOMAIN messages'[e],
               NEW l \in Own(e, messages'[e][k].wire)
        PROVE  /\ messages'[e][k].layer # None /\ l \in layers[messages'[e][k].layer].line
    <3>1. e # d BY <2>1, <2>3
    <3> QED BY <3>1, <2>3, <1>1 DEF BackFilled, OnOwnLayers
  <2> QED BY <2>3, <1>1 DEF BackFilled, OnOwnLayers, Own
<1> QED BY <1>8, <1>9, <1>10, <1>11, <1>12, <1>13, <1>14, <1>15, <1>16, <1>17

(* What the rows yet to be appended are given: a row with a layer of its   *)
(* own stands on that one, and the rows after the last such on the head.   *)
LEMMA GivenOwn ==
  ASSUME Shapes, Once, NEW c \in open, c \notin crossed, NEW i \in DOMAIN unsent[c],
         NEW l \in Own(c, unsent[c][i].wire)
  PROVE  LayersOf(c, unsent[c])[i] = l
<1> DEFINE m == unsent[c]
           owned == {j \in DOMAIN m : Own(c, m[j].wire) # {}}
           OwnOf(j) == CHOOSE k \in Own(c, m[j].wire) : TRUE
           first == CHOOSE j \in owned : \A k \in owned : j <= k
           base == IF c \notin open THEN None
                   ELSE IF owned = {} THEN head[c] ELSE layers[OwnOf(first)].parent
           LastOwned(j) == {k \in owned : k <= j /\ \A h \in owned : h <= j => h <= k}
           given == [j \in DOMAIN m |->
                       IF c \notin open \/ LastOwned(j) = {} THEN base
                       ELSE OwnOf(CHOOSE k \in LastOwned(j) : TRUE)]
<1>1. LayersOf(c, m) = given BY DEF LayersOf
<1>2. m \in Seq(UnsentRows) BY DEF Shapes, TablesOK, MemoryOK
<1>3. DOMAIN m \subseteq Nat BY <1>2, LenProperties
<1>4. i \in owned OBVIOUS
<1>5. LastOwned(i) = {i}
  <2>1. i \in LastOwned(i) BY <1>3, <1>4
  <2>2. \A k \in LastOwned(i) : k = i BY <1>3, <1>4
  <2> HIDE DEF LastOwned
  <2> QED BY <2>1, <2>2
<1>6. given[i] = OwnOf(i) BY <1>5
<1>7. OwnOf(i) \in Own(c, m[i].wire) OBVIOUS
<1>8. OwnOf(i) = l
  <2> HIDE DEF OwnOf
  <2> QED BY <1>7 DEF Own, Once, Shapes, TablesOK
<1> HIDE DEF given
<1> QED BY <1>1, <1>6, <1>8

(* The rows from the last such one on stand on the head. *)
LEMMA GivenHead ==
  ASSUME Shapes, Tree, Once, Ahead, NEW c \in open, c \notin crossed, InOrder(unsent[c]),
         NEW i \in DOMAIN unsent[c],
         \A k \in DOMAIN unsent[c] : Own(c, unsent[c][k].wire) # {} => k <= i
  PROVE  LayersOf(c, unsent[c])[i] = head[c]
<1> DEFINE m == unsent[c]
           owned == {j \in DOMAIN m : Own(c, m[j].wire) # {}}
           OwnOf(j) == CHOOSE k \in Own(c, m[j].wire) : TRUE
           first == CHOOSE j \in owned : \A k \in owned : j <= k
           base == IF c \notin open THEN None
                   ELSE IF owned = {} THEN head[c] ELSE layers[OwnOf(first)].parent
           LastOwned(j) == {k \in owned : k <= j /\ \A h \in owned : h <= j => h <= k}
           given == [j \in DOMAIN m |->
                       IF c \notin open \/ LastOwned(j) = {} THEN base
                       ELSE OwnOf(CHOOSE k \in LastOwned(j) : TRUE)]
<1>1. LayersOf(c, m) = given BY DEF LayersOf
<1>2. m \in Seq(UnsentRows) /\ c \in Chats /\ chat[c] = "live"
  BY DEF Shapes, TablesOK, MemoryOK, Tree, Hung
<1>3. DOMAIN m = 1..Len(m) /\ Len(m) \in Nat BY <1>2, LenProperties
<1>4. \A k \in owned : k <= i OBVIOUS
<1>5. CASE owned = {}
  <2>1. LastOwned(i) = {} BY <1>5
  <2>2. given[i] = head[c] BY <1>5, <2>1
  <2> HIDE DEF given
  <2> QED BY <1>1, <2>2
<1>6. CASE owned # {}
  <2>1. owned \subseteq 1..Len(m) BY <1>3
  <2>2. PICK j \in owned : \A k \in owned : k <= j
    <3> HIDE DEF owned
    <3> QED BY <2>1, <1>3, <1>6, GreatestNatural
  <2>3. j \in LastOwned(i) BY <2>2, <1>4
  <2>4. PICK k : k = CHOOSE h \in LastOwned(i) : TRUE OBVIOUS
  <2>5. k \in LastOwned(i) BY <2>3, <2>4
  <2>6. k = j
    <3>1. k \in owned /\ \A h \in owned : h <= i => h <= k BY <2>5
    <3> HIDE DEF owned
    <3>2. k <= j /\ j <= k BY <3>1, <2>2, <1>4
    <3>3. k \in Nat /\ j \in Nat BY <3>1, <2>1, <2>2
    <3> QED BY <3>2, <3>3
  <2>7. given[i] = OwnOf(j) BY <2>3, <2>4, <2>6
  <2>8. PICK l : l = OwnOf(j) OBVIOUS
  <2>9. l \in Own(c, m[j].wire)
    <3>1. Own(c, m[j].wire) # {} BY <2>2
    <3> QED BY <3>1, <2>8
  <2>10. /\ l \in DOMAIN layers /\ layers[l].repl = c /\ layers[l].origin # None
         /\ layers[l].origin = m[j].wire
    BY <2>9 DEF Own, Shapes, TablesOK
  <2>11. HasRow(unsent[c], layers[l].origin) BY <2>2, <2>10 DEF HasRow
  <2>12. /\ head[c] \in DOMAIN layers /\ layers[head[c]].repl = c
         /\ layers[head[c]].origin # None /\ layers[l].origin <= layers[head[c]].origin
         /\ HasRow(unsent[c], layers[head[c]].origin)
    BY <1>2, <2>10, <2>11 DEF Ahead
  <2>13. head[c] \in stored
    <3>1. head[c] # None BY <2>12, NoneAssumption, LenProperties DEF Shapes, TablesOK
    <3> QED BY <3>1, HeadStored DEF Tree
  <2>14. PICK h \in DOMAIN m : m[h].wire = layers[head[c]].origin BY <2>12 DEF HasRow
  <2>15. head[c] \in Own(c, m[h].wire) BY <2>12, <2>13, <2>14 DEF Own
  <2>16. h \in owned BY <2>15
  <2>17. h <= j BY <2>2, <2>16
  <2>18. m[h].wire \in Nat /\ m[j].wire \in Nat
    <3>1. m[h] \in UnsentRows /\ m[j] \in UnsentRows BY <1>2, <2>2
    <3> QED BY <3>1, <2>10, <2>12, <2>14 DEF UnsentRows
  <2>19. h = j
    <3>1. h < j => m[h].wire < m[j].wire BY <2>2, <2>10, <2>12, <2>14 DEF InOrder
    <3>2. m[j].wire <= m[h].wire BY <2>10, <2>12, <2>14
    <3>3. h \in Nat /\ j \in Nat BY <2>1, <2>2, <2>16
    <3> QED BY <3>1, <3>2, <3>3, <2>17, <2>18
  <2>20. l = head[c] BY <2>10, <2>12, <2>14, <2>19 DEF Once
  <2> HIDE DEF given
  <2> QED BY <1>1, <2>7, <2>8, <2>20
<1> QED BY <1>5, <1>6

(* Rows that are appended after their layers were recorded stand on them. *)
LEMMA FilledOfAppend ==
  ASSUME Shapes, Tree, Resumed, Filled, NEW c \in Chats, AppendRows(c)
  PROVE  Filled'
<1> USE DEF Filled
<1> DEFINE m == messages[c]
           u == unsent[c]
           given == LayersOf(c, u)
           more == [i \in DOMAIN u |-> [wire |-> u[i].wire, type |-> u[i].type, layer |-> given[i]]]
<1>1. /\ UNCHANGED <<chat, head, open, layers, stored, at, store, steps, crossed>>
      /\ unsent' = [unsent EXCEPT ![c] = <<>>]
  BY DEF AppendRows, history
<1>2. Saving' = Saving /\ Waits' = Waits /\ Queued' BY <1>1 DEF Saving, Waits, Queued, InLine
<1>3. Begun'
  <2>1. \A d \in Chats : unsent'[d] # <<>> => at[d] # None
    BY <1>1 DEF Begun, Shapes, MemoryOK
  <2> QED BY <2>1, <1>1 DEF Begun
<1>4. \A d \in Chats : d # c => unsent'[d] = unsent[d] /\ messages'[d] = messages[d]
  BY DEF AppendRows, Shapes, TablesOK, MemoryOK
<1>5. unsent'[c] = <<>> BY <1>1 DEF Shapes, MemoryOK
<1>6. Silent'
  <2>1. \A q \in Saving : q.repl \in Chats BY WaitsTyped
  <2> QED BY <2>1, <1>1, <1>2, <1>4, <1>5 DEF Silent
<1>7. \A q \in Waits : q.repl \in Chats /\ q.repl \notin crossed /\ q.origin # None
  BY WaitsTyped DEF Waits
<1>8. CASE chat[c] # "live"
  <2>1. messages' = messages BY <1>8 DEF AppendRows
  <2>2. \A q \in Waits' : chat'[q.repl] = "live" => unsent'[q.repl] = unsent[q.repl]
    BY <1>1, <1>2, <1>4, <1>8, <1>7
  <2>3. \A d \in Chats : unsent'[d] = unsent[d] \/ unsent'[d] = <<>> BY <1>4, <1>5
  <2>4. Numbered'
    <3>1. \A d \in Chats : DOMAIN unsent'[d] = {} \/ unsent'[d] = unsent[d] BY <2>3
    <3> QED BY <3>1, <2>1, <1>1, <1>2 DEF Numbered
  <2> QED BY <1>1, <1>2, <1>3, <1>6, <2>1, <2>2, <2>3, <2>4, FilledLess
<1>9. CASE chat[c] = "live"
  <2>1. c \in open /\ u # <<>> BY <1>9 DEF AppendRows, Begun
  <2>2. /\ m \in Seq(MessageRows) /\ u \in Seq(UnsentRows)
        /\ DOMAIN m = 1..Len(m) /\ Len(m) \in Nat /\ DOMAIN u = 1..Len(u) /\ Len(u) \in Nat
    BY LenProperties DEF Shapes, TablesOK, MemoryOK
  <2>3. messages'[c] = m \o more BY <1>9 DEF AppendRows, Shapes, TablesOK
  <2>4. /\ \A i \in DOMAIN m : i \in DOMAIN messages'[c] /\ messages'[c][i] = m[i]
        /\ \A i \in DOMAIN u : Len(m) + i \in DOMAIN messages'[c]
             /\ messages'[c][Len(m) + i].wire = u[i].wire
             /\ messages'[c][Len(m) + i].layer = given[i]
        /\ \A k \in DOMAIN messages'[c] :
             \/ k \in DOMAIN m
             \/ \E i \in DOMAIN u : k = Len(m) + i
    <3>1. DOMAIN more = 1..Len(u) BY <2>2
    <3>2. Len(more) = Len(u) BY <3>1, <2>2
    <3>3. \A i \in DOMAIN u : more[i].wire = u[i].wire /\ more[i].layer = given[i] OBVIOUS
    <3>4. more \in Seq({more[i] : i \in DOMAIN more})
      <4>1. more = [i \in 1..Len(u) |-> more[i]] BY <3>1
      <4>2. \A i \in 1..Len(u) : more[i] \in {more[k] : k \in DOMAIN more} BY <3>1
      <4> HIDE DEF more
      <4> QED BY <4>1, <4>2, <2>2
    <3> HIDE DEF more, m, u, given
    <3>5. /\ DOMAIN messages'[c] = 1..(Len(m) + Len(u))
          /\ \A k \in 1..Len(m) : messages'[c][k] = m[k]
          /\ \A k \in 1..Len(u) : messages'[c][Len(m) + k] = more[k]
      <4>1. PICK T : T = {more[i] : i \in DOMAIN more} OBVIOUS
      <4>2. more \in Seq(T) BY <3>4, <4>1
      <4>3. PICK all : all = m \o more OBVIOUS
      <4>4. m \in Seq(MessageRows) BY <2>2
      <4>5. /\ DOMAIN all = 1..(Len(m) + Len(more))
            /\ \A k \in 1..Len(m) : all[k] = m[k]
            /\ \A k \in 1..Len(more) : all[Len(m) + k] = more[k]
        BY <4>2, <4>3, <4>4, Joined
      <4> QED BY <4>3, <4>5, <2>3, <3>2
    <3>6. ASSUME NEW k \in 1..(Len(m) + Len(u)), k \notin DOMAIN m
          PROVE  \E i \in DOMAIN u : k = Len(m) + i
      <4>1. k - Len(m) \in DOMAIN u /\ k = Len(m) + (k - Len(m)) BY <2>2, <3>6
      <4> QED BY <4>1
    <3>7. /\ \A i \in DOMAIN u : Len(m) + i \in 1..(Len(m) + Len(u))
          /\ \A i \in DOMAIN m : i \in 1..(Len(m) + Len(u))
      BY <2>2
    <3> QED BY <2>2, <3>3, <3>5, <3>6, <3>7
  <2>5. /\ InOrder(m) /\ InOrder(u)
        /\ \A i \in DOMAIN m, j \in DOMAIN u :
             m[i].wire # None /\ u[j].wire # None => m[i].wire < u[j].wire
    BY <1>9 DEF Ordered
  <2>6. c \notin crossed => \A i \in DOMAIN u : \A l \in Own(c, u[i].wire) : given[i] = l
    BY <2>1, GivenOwn
  <2>7. ASSUME c \notin crossed, NEW i \in DOMAIN u, \A k \in DOMAIN u : Own(c, u[k].wire) # {} => k <= i
        PROVE  given[i] = head[c]
    BY <2>1, <2>5, <2>7, GivenHead
  <2>8. \A w : Own(c, w) \subseteq {l \in DOMAIN layers : /\ layers[l].repl = c
                                                        /\ layers[l].origin = w /\ w # None}
    BY DEF Own, Shapes, TablesOK
  <2> HIDE DEF m, u, given, more
  <2>9. Numbered'
    <3>1. \A i \in DOMAIN m : m[i].wire # None => m[i].wire <= steps BY <1>9 DEF Numbered, m
    <3>2. \A i \in DOMAIN u : u[i].wire # None => u[i].wire <= steps BY DEF Numbered, u
    <3>3. \A k \in DOMAIN messages'[c] :
            messages'[c][k].wire # None => messages'[c][k].wire <= steps
      BY <3>1, <3>2, <2>4
    <3>4. \A d \in Chats : \A i \in DOMAIN unsent'[d] :
            unsent'[d][i].wire # None => unsent'[d][i].wire <= steps
      BY <1>4, <1>5 DEF Numbered
    <3> QED BY <3>3, <3>4, <1>1, <1>2, <1>4 DEF Numbered
  <2>10. Ordered'
    <3>1. InOrder(messages'[c])
      <4> SUFFICES ASSUME NEW i \in DOMAIN messages'[c], NEW j \in DOMAIN messages'[c], i < j,
                          messages'[c][i].wire # None, messages'[c][j].wire # None
                   PROVE  messages'[c][i].wire < messages'[c][j].wire
        BY DEF InOrder
      <4>1. CASE i \in DOMAIN m /\ j \in DOMAIN m BY <4>1, <2>4, <2>5 DEF InOrder
      <4>2. CASE i \in DOMAIN m /\ j \notin DOMAIN m BY <4>2, <2>4, <2>5
      <4>3. ASSUME NEW a \in DOMAIN u, i = Len(m) + a PROVE messages'[c][i].wire < messages'[c][j].wire
        <5>1. j \notin DOMAIN m BY <4>3, <2>2
        <5>2. PICK b \in DOMAIN u : j = Len(m) + b BY <5>1, <2>4
        <5>3. a < b BY <4>3, <5>2, <2>2
        <5> QED BY <5>2, <5>3, <4>3, <2>4, <2>5 DEF InOrder
      <4> QED BY <4>1, <4>2, <4>3, <2>4
    <3>2. InOrder(unsent'[c]) /\ DOMAIN unsent'[c] = {} BY <1>5 DEF InOrder
    <3> QED BY <3>1, <3>2, <1>1, <1>4 DEF Ordered
  <2>11. Newer' BY <1>1, <1>2 DEF Newer
  <2>12. Told'
    <3>1. \A w : HasRow(m, w) \/ HasRow(u, w) => HasRow(messages'[c], w) BY <2>4 DEF HasRow
    <3> QED BY <3>1, <1>1, <1>2, <1>4, <1>7 DEF Told, m, u
  <2>13. Close'
    <3> SUFFICES ASSUME NEW q \in Waits, q.repl = c,
                        NEW i \in DOMAIN messages'[c], NEW k \in DOMAIN messages'[c], i <= k,
                        messages'[c][i].wire = q.origin
                 PROVE  messages'[c][k].layer = head[c]
      BY <1>1, <1>2, <1>4, <1>7 DEF Close
    <3>0. q.origin # None /\ c \notin crossed BY <1>7
    <3>1. CASE k \in DOMAIN m
      <4>1. i \in DOMAIN m BY <3>1, <2>2, <2>4
      <4>2. \A x, y \in DOMAIN m : x <= y /\ m[x].wire = q.origin => m[y].layer = head[c]
        BY <1>9 DEF Close, m
      <4> QED BY <4>1, <4>2, <3>1, <2>4
    <3>2. ASSUME NEW b \in DOMAIN u, k = Len(m) + b PROVE messages'[c][k].layer = head[c]
      <4>1. ASSUME NEW h \in DOMAIN u, Own(c, u[h].wire) # {} PROVE h <= b
        <5>1. PICK l \in Own(c, u[h].wire) : TRUE BY <4>1
        <5>2. /\ l \in DOMAIN layers /\ layers[l].repl = c /\ layers[l].origin = u[h].wire
              /\ u[h].wire # None
          BY <5>1, <2>8
        <5>3. u[h].wire < q.origin BY <5>2 DEF Newer
        <5>4. u[h].wire \in Nat /\ q.origin \in Nat
          <6>1. u[h] \in UnsentRows BY <2>2
          <6>2. q \in Saves BY WaitsTyped DEF Waits
          <6> QED BY <6>1, <6>2, <5>2, <3>0 DEF UnsentRows, Saves
        <5>5. CASE i \in DOMAIN m
          <6>1. m[i].wire = q.origin BY <5>5, <2>4
          <6>2. q.origin < u[h].wire BY <5>2, <5>5, <6>1, <3>0, <2>5
          <6> QED BY <6>2, <5>3, <5>4
        <5>6. ASSUME NEW a \in DOMAIN u, i = Len(m) + a PROVE h <= b
          <6>1. a <= b BY <5>6, <3>2, <2>2
          <6>2. u[a].wire = q.origin BY <5>6, <2>4
          <6>3. a < h => q.origin < u[h].wire BY <6>2, <5>2, <3>0, <2>5 DEF InOrder
          <6>4. ~(a < h) BY <6>3, <5>3, <5>4
          <6> QED BY <6>1, <6>4, <2>2
        <5> QED BY <5>5, <5>6, <2>4
      <4>2. given[b] = head[c] BY <4>1, <3>0, <2>7
      <4> QED BY <4>2, <3>2, <2>4
    <3> QED BY <3>1, <3>2, <2>4
  <2>14. Once' BY <1>1 DEF Once
  <2>15. Ahead'
    <3>1. \A w : ~HasRow(unsent'[c], w) BY <1>5 DEF HasRow
    <3> QED BY <3>1, <1>1, <1>4 DEF Ahead
  <2>16. BackFilled'
    <3>1. \A d, w : Own(d, w)' = Own(d, w) BY <1>1 DEF Own
    <3>2. ASSUME c \notin crossed, NEW k \in DOMAIN messages'[c], NEW l \in Own(c, messages'[c][k].wire)
          PROVE  messages'[c][k].layer # None /\ l \in layers[messages'[c][k].layer].line
      <4>1. CASE k \in DOMAIN m
        <5>1. messages'[c][k] = messages[c][k] /\ k \in DOMAIN messages[c]
          BY <4>1, <2>4 DEF m
        <5> QED BY <5>1, <3>2, <1>9 DEF BackFilled, OnOwnLayers
      <4>2. ASSUME NEW b \in DOMAIN u, k = Len(m) + b
            PROVE  messages'[c][k].layer # None /\ l \in layers[messages'[c][k].layer].line
        <5>1. messages'[c][k].layer = l BY <4>2, <3>2, <2>4, <2>6
        <5>2. l \in DOMAIN layers BY <3>2, <2>8
        <5>3. l \in layers[l].line BY <5>2 DEF Tree, Lined
        <5>4. l # None BY <5>2, NoneAssumption, LenProperties DEF Shapes, TablesOK
        <5> QED BY <5>1, <5>3, <5>4
      <4> QED BY <4>1, <4>2, <2>4
    <3>3. ASSUME NEW d \in Chats, d \notin crossed, chat[d] = "live", NEW k \in DOMAIN messages'[d],
                 NEW l \in Own(d, messages'[d][k].wire)
          PROVE  messages'[d][k].layer # None /\ l \in layers[messages'[d][k].layer].line
      <4>1. CASE d = c BY <4>1, <3>2, <3>3
      <4>2. CASE d # c BY <4>2, <3>3, <1>4 DEF BackFilled, OnOwnLayers
      <4> QED BY <4>1, <4>2
    <3> QED BY <3>3, <1>1 DEF BackFilled, OnOwnLayers, Own
  <2> QED BY <1>2, <1>3, <1>6, <2>9, <2>10, <2>11, <2>12, <2>13, <2>14, <2>15, <2>16
<1> QED BY <1>8, <1>9

(* A layer that is recorded after its rows were appended becomes the one   *)
(* they stand on: settleMessages() passes none of them.                    *)
LEMMA FilledOfRecord ==
  ASSUME Shapes, Tree, Resumed, Filled, NEW s \in Stores, Record(s)
  PROVE  Filled'
<1> USE DEF Filled
<1> DEFINE save == Head(store[s].queue)
           c == save.repl
           l == Len(layers) + 1
           m == messages[c]
           u == unsent[c]
           settled == Settled(m, l, save.origin, head[c])
           marked == c \notin crossed /\ save.origin # None
<1>1. /\ save \in Saves /\ save \in Saving /\ save = store[s].queue[1]
      /\ store[s].queue \in Seq(Saves) /\ store[s].queue # <<>> /\ 1 \in DOMAIN store[s].queue
  <2>1. store[s].queue \in Seq(Saves) /\ store[s].queue # <<>>
    BY DEF Record, Shapes, MemoryOK, Cursors
  <2>2. save = store[s].queue[1] /\ 1 \in DOMAIN store[s].queue BY <2>1, LenProperties
  <2>3. save \in Saves BY <2>1, <2>2
  <2>4. store[s].queue[1] \in Saving BY <2>2 DEF Saving
  <2> HIDE DEF save
  <2> QED BY <2>1, <2>2, <2>3, <2>4
<1>2. c \in open /\ c \in Chats /\ chat[c] = "live"
  BY <1>1 DEF Record, Refused, Shapes, TablesOK, Tree, Hung
<1>3. /\ Row(s, save) \in LayerRows /\ Row(s, save).repl = c /\ Row(s, save).origin = save.origin
      /\ Row(s, save).parent = head[c]
      /\ Row(s, save).line = {l} \cup (IF head[c] = None THEN {} ELSE layers[head[c]].line)
  BY <1>1, <1>2, RowOfSave DEF Tree
<1>4. /\ DOMAIN layers = 1..Len(layers) /\ Len(layers) \in Nat /\ DOMAIN layers' = 1..l
      /\ layers'[l] = Row(s, save)
      /\ \A k \in DOMAIN layers : layers'[k] = layers[k]
  BY <1>2, <1>3, Recorded DEF Record
<1>5. /\ stored' = stored \cup {l} /\ head'[c] = l /\ messages'[c] = settled
      /\ \A d \in Chats : d # c => head'[d] = head[d] /\ messages'[d] = messages[d]
      /\ UNCHANGED <<chat, open, at, unsent, steps, crossed>>
  BY <1>2, <1>3, <1>4 DEF Record, Shapes, TablesOK, history
<1>6. m \in Seq(MessageRows) /\ u \in Seq(UnsentRows) BY <1>2 DEF Shapes, TablesOK, MemoryOK
<1>7. /\ DOMAIN settled = DOMAIN m
      /\ \A i \in DOMAIN m : settled[i].wire = m[i].wire
      /\ \A i \in DOMAIN m : \/ settled[i] = m[i]
                             \/ m[i].layer = head[c] /\ settled[i].layer = l
  <2>1. PICK seq \in Seq(MessageRows) : seq = m BY <1>6
  <2>2. PICK parent : parent = head[c] OBVIOUS
  <2>3. PICK origin : origin = save.origin OBVIOUS
  <2>4. PICK to \in Nat : to = l BY <1>4
  <2>5. settled = Settled(seq, to, origin, parent) BY <2>1, <2>2, <2>3, <2>4
  <2> HIDE DEF settled, m, l
  <2>6. /\ DOMAIN settled = DOMAIN seq
        /\ \A i \in DOMAIN seq : settled[i].wire = seq[i].wire
        /\ \A i \in DOMAIN seq : \/ settled[i] = seq[i]
                                 \/ seq[i].layer = parent /\ settled[i].layer = to
    BY <2>5, SettledRows
  <2> QED BY <2>1, <2>2, <2>4, <2>6
<1>8. /\ save.origin # None => save.origin \in Nat /\ save.origin <= steps
      /\ marked => save \in Waits
  BY <1>1 DEF Numbered, Saves, Waits
<1>9. marked => \A i, j \in DOMAIN m : i <= j /\ m[i].wire = save.origin => m[j].layer = head[c]
  BY <1>2, <1>8 DEF Close
<1>10. ASSUME marked, NEW i \in DOMAIN m, NEW k \in DOMAIN m, i <= k, m[i].wire = save.origin
       PROVE  settled[k].layer = l
  <2>1. PICK seq \in Seq(MessageRows) : seq = m BY <1>6
  <2>2. PICK parent : parent = head[c] OBVIOUS
  <2>3. PICK origin : origin = save.origin OBVIOUS
  <2>4. PICK to \in Nat : to = l BY <1>4
  <2>5. settled = Settled(seq, to, origin, parent) BY <2>1, <2>2, <2>3, <2>4
  <2>6. origin # None BY <2>3, <1>10
  <2> HIDE DEF settled, m, l, save, c, u
  <2>7. i \in DOMAIN seq /\ k \in DOMAIN seq /\ seq[i].wire = origin BY <2>1, <2>3, <1>10
  <2>8. OnParent(seq, origin, parent, k) BY <2>1, <2>2, <2>3, <2>7, <1>9, <1>10 DEF OnParent
  <2>9. seq \in Seq(MessageRows) /\ to \in Nat /\ i <= k BY <2>1, <2>4, <1>10
  <2>10. Settled(seq, to, origin, parent)[k].layer = to BY <2>6, <2>7, <2>8, <2>9, SettledMove
  <2> QED BY <2>4, <2>5, <2>10
<1>11. ASSUME NEW t \in Stores
       PROVE  \/ store'[t].queue = store[t].queue
              \/ store[t].queue # <<>> /\ store'[t].queue = Tail(store[t].queue)
  <2>1. CASE t # s BY <2>1 DEF Record, Shapes, MemoryOK
  <2>2. CASE t = s
    <3>1. PICK answered \in BOOLEAN : store' = [store EXCEPT ![s] =
            IF answered
            THEN [below |-> save.image, run |-> RunAfter(s), over |-> l, queue |-> Tail(@.queue)]
            ELSE [Lost(s, save) EXCEPT !.queue = Tail(@)]]
      BY DEF Record
    <3>2. store[s] \in Cursors BY DEF Shapes, MemoryOK
    <3>3. CASE answered BY <2>2, <3>1, <3>3, <1>1 DEF Shapes, MemoryOK
    <3>4. CASE ~answered BY <2>2, <3>1, <3>2, <3>4, <1>1 DEF Shapes, MemoryOK, Lost, Cursors
    <3> QED BY <3>3, <3>4
  <2> QED BY <2>1, <2>2
<1>12. \A t \in Stores : t # s => store'[t].queue = store[t].queue
  BY DEF Record, Shapes, MemoryOK
<1>13. store'[s].queue = Tail(store[s].queue)
  <2>1. PICK answered \in BOOLEAN : store' = [store EXCEPT ![s] =
          IF answered
          THEN [below |-> save.image, run |-> RunAfter(s), over |-> l, queue |-> Tail(@.queue)]
          ELSE [Lost(s, save) EXCEPT !.queue = Tail(@)]]
    BY DEF Record
  <2>2. store[s] \in Cursors BY DEF Shapes, MemoryOK
  <2>3. CASE answered BY <2>1, <2>3 DEF Shapes, MemoryOK
  <2>4. CASE ~answered BY <2>1, <2>2, <2>4 DEF Shapes, MemoryOK, Lost, Cursors
  <2> QED BY <2>3, <2>4
<1> HIDE DEF save, c, l, m, u, settled, marked
<1>14. Saving' \subseteq Saving /\ Waits' \subseteq Waits /\ Queued'
  <2>1. \A t \in Stores : Fewer(store'[t].queue, store[t].queue) BY <1>11 DEF Fewer
  <2>2. Queued OBVIOUS
  <2> QED BY <2>1, <2>2, <1>5, FewerWait
<1>15. ASSUME NEW q \in Waits', q.repl = c
       PROVE  marked /\ save.origin < q.origin /\ q.origin \in Nat /\ q.origin # None
  <2>1. PICK t \in Stores : \E n \in DOMAIN store'[t].queue : q = store'[t].queue[n]
    BY DEF Waits, Saving
  <2>2. PICK i \in DOMAIN store'[t].queue : q = store'[t].queue[i] BY <2>1
  <2>3. q \in Waits /\ q.origin # None /\ c \notin crossed BY <1>14, <1>15 DEF Waits
  <2>4. q.origin \in Nat
    <3>1. q \in Saves BY <2>3, WaitsTyped DEF Waits
    <3> QED BY <3>1, <2>3 DEF Saves
  <2>5. t = s
    <3> SUFFICES ASSUME t # s PROVE FALSE OBVIOUS
    <3>1. store'[t].queue = store[t].queue BY <1>12
    <3>2. InLine(s, 1, t, i) BY <3>1, <2>2, <1>1 DEF Queued
    <3> QED BY <3>1, <3>2, <2>2, <2>3, <1>1, <1>15 DEF InLine, c
  <2>6. /\ DOMAIN store'[s].queue = 1..(Len(store[s].queue) - 1)
        /\ DOMAIN store[s].queue = 1..Len(store[s].queue) /\ Len(store[s].queue) \in Nat
        /\ \A j \in 1..(Len(store[s].queue) - 1) : store'[s].queue[j] = store[s].queue[j + 1]
    BY <1>1, <1>13, HeadTailProperties, LenProperties
  <2>7. /\ i + 1 \in DOMAIN store[s].queue /\ 1 < i + 1 /\ q = store[s].queue[i + 1]
    BY <2>2, <2>5, <2>6
  <2>8. InLine(s, 1, s, i + 1) BY <2>7, <1>1 DEF Queued
  <2>9. save.origin # None /\ save.origin < q.origin
    BY <2>3, <2>7, <2>8, <1>1, <1>15 DEF InLine, c
  <2> QED BY <2>3, <2>4, <2>9 DEF marked
<1>16. ~marked /\ c \notin crossed => save.origin = None /\ u = <<>>
  BY <1>1 DEF marked, Silent, c, u
<1>17. marked => HasRow(m, save.origin) \/ HasRow(u, save.origin)
  BY <1>2, <1>8 DEF Told, c, m, u
<1>18. /\ InOrder(m) /\ InOrder(u)
       /\ \A i \in DOMAIN m, j \in DOMAIN u :
            m[i].wire # None /\ u[j].wire # None => m[i].wire < u[j].wire
  BY <1>2 DEF Ordered, m, u
<1>19. (marked => save.origin # None) /\ l \in Nat /\ l # None /\ l \in 1..l /\ l \notin DOMAIN layers
  BY <1>4, NoneAssumption DEF l, marked
<1>20. \A k \in DOMAIN layers' : k = l \/ k \in DOMAIN layers BY <1>4 DEF l
<1>21. marked => \A k \in DOMAIN layers : layers[k].repl = c /\ layers[k].origin # None =>
         layers[k].origin \in Nat /\ layers[k].origin < save.origin
  <2>1. \A k \in DOMAIN layers : layers[k].origin \in Nat \cup {None}
    <3>1. \A k \in DOMAIN layers : layers[k] \in LayerRows BY DEF Shapes, TablesOK
    <3> QED BY <3>1 DEF LayerRows
  <2> QED BY <2>1, <1>8 DEF Newer, c
<1>22. Numbered'
  <2>1. \A d \in Chats : chat[d] = "live" => \A i \in DOMAIN messages'[d] :
          messages'[d][i].wire # None => messages'[d][i].wire <= steps
    <3>1. \A i \in DOMAIN settled : settled[i].wire # None => settled[i].wire <= steps
      BY <1>2, <1>7 DEF Numbered, m
    <3> QED BY <3>1, <1>5 DEF Numbered
  <2>2. \A k \in DOMAIN layers' : layers'[k].origin # None => layers'[k].origin <= steps
    BY <1>3, <1>4, <1>8, <1>20 DEF Numbered
  <2> QED BY <2>1, <2>2, <1>5, <1>14 DEF Numbered
<1>23. Ordered'
  <2>1. InOrder(settled) BY <1>7, <1>18 DEF InOrder
  <2>2. \A i \in DOMAIN settled, j \in DOMAIN unsent[c] :
          settled[i].wire # None /\ unsent[c][j].wire # None => settled[i].wire < unsent[c][j].wire
    BY <1>7, <1>18 DEF u
  <2>3. InOrder(unsent[c]) BY <1>18 DEF u
  <2> QED BY <2>1, <2>2, <2>3, <1>5 DEF Ordered
<1>24. Newer'
  <2> SUFFICES ASSUME NEW q \in Waits', NEW k \in DOMAIN layers', layers'[k].repl = q.repl,
                      layers'[k].origin # None
               PROVE  layers'[k].origin < q.origin
    BY DEF Newer
  <2>1. CASE k \in DOMAIN layers BY <2>1, <1>4, <1>14 DEF Newer
  <2>2. CASE k = l BY <2>2, <1>3, <1>4, <1>15
  <2> QED BY <2>1, <2>2, <1>20
<1>25. Told'
  <2>1. \A w : HasRow(m, w) => HasRow(settled, w) BY <1>7 DEF HasRow
  <2>2. \A q \in Waits : q.repl \in Chats BY WaitsTyped DEF Waits
  <2> QED BY <2>1, <2>2, <1>5, <1>14 DEF Told, m
<1>26. Close'
  <2> SUFFICES ASSUME NEW q \in Waits', chat[q.repl] = "live",
                      NEW i \in DOMAIN messages'[q.repl], NEW k \in DOMAIN messages'[q.repl],
                      i <= k, messages'[q.repl][i].wire = q.origin
               PROVE  messages'[q.repl][k].layer = head'[q.repl]
    BY <1>5 DEF Close
  <2>1. CASE q.repl # c
    <3>1. q.repl \in Chats /\ q \in Waits BY <1>14, WaitsTyped DEF Waits
    <3> QED BY <2>1, <3>1, <1>5 DEF Close
  <2>2. CASE q.repl = c
    <3>1. i \in DOMAIN m /\ k \in DOMAIN m /\ m[i].wire = q.origin BY <2>2, <1>5, <1>7
    <3>2. marked /\ save.origin < q.origin /\ q.origin \in Nat /\ q.origin # None BY <2>2, <1>15
    <3>3. ~HasRow(u, save.origin)
      <4> SUFFICES ASSUME NEW j \in DOMAIN u, u[j].wire = save.origin PROVE FALSE BY DEF HasRow
      <4>1. q.origin < save.origin BY <3>1, <3>2, <1>18, <1>19
      <4> QED BY <4>1, <3>2, <1>8, <1>19
    <3>4. PICK h \in DOMAIN m : m[h].wire = save.origin BY <3>2, <3>3, <1>17 DEF HasRow
    <3>5. ~(i < h)
      <4> SUFFICES ASSUME i < h PROVE FALSE OBVIOUS
      <4>1. q.origin < save.origin BY <3>1, <3>2, <3>4, <1>18, <1>19 DEF InOrder
      <4> QED BY <4>1, <3>2, <1>8, <1>19
    <3>6. h <= k
      <4>1. h \in Nat /\ i \in Nat /\ k \in Nat BY <3>1, <3>4, <1>6, LenProperties
      <4> QED BY <4>1, <3>5
    <3> QED BY <3>1, <3>2, <3>4, <3>6, <2>2, <1>5, <1>10
  <2> QED BY <2>1, <2>2
<1>27. Once'
  <2> SUFFICES ASSUME NEW j \in DOMAIN layers', NEW k \in DOMAIN layers',
                      layers'[j].repl = layers'[k].repl, layers'[j].origin = layers'[k].origin,
                      layers'[j].origin # None, layers'[j].repl \notin crossed
               PROVE  j = k
    BY <1>5 DEF Once
  <2>1. CASE j \in DOMAIN layers /\ k \in DOMAIN layers BY <2>1, <1>4 DEF Once
  <2>2. ASSUME marked, NEW h \in DOMAIN layers, layers[h].repl = c, layers[h].origin = save.origin
        PROVE  FALSE
    BY <2>2, <1>8, <1>19, <1>21
  <2>3. j = l \/ k = l => marked BY <1>3, <1>4 DEF marked
  <2> QED BY <2>1, <2>2, <2>3, <1>3, <1>4, <1>20
<1>28. Ahead'
  <2> SUFFICES ASSUME NEW d \in Chats, chat[d] = "live", d \notin crossed, NEW k \in DOMAIN layers',
                      layers'[k].repl = d, layers'[k].origin # None,
                      HasRow(unsent[d], layers'[k].origin)
               PROVE  /\ head'[d] \in DOMAIN layers' /\ layers'[head'[d]].repl = d
                      /\ layers'[head'[d]].origin # None
                      /\ layers'[k].origin <= layers'[head'[d]].origin
                      /\ HasRow(unsent[d], layers'[head'[d]].origin)
    BY <1>5 DEF Ahead
  <2>1. CASE d # c
    <3>1. k \in DOMAIN layers /\ layers'[k] = layers[k] BY <2>1, <1>3, <1>4, <1>20
    <3>2. /\ head[d] \in DOMAIN layers /\ layers[head[d]].repl = d
          /\ layers[head[d]].origin # None
          /\ layers[k].origin <= layers[head[d]].origin
          /\ HasRow(unsent[d], layers[head[d]].origin)
      BY <3>1 DEF Ahead
    <3>3. head'[d] = head[d] /\ layers'[head[d]] = layers[head[d]] BY <2>1, <3>2, <1>4, <1>5
    <3>4. head[d] \in DOMAIN layers' BY <3>2, <1>4 DEF l
    <3> QED BY <3>1, <3>2, <3>3, <3>4
  <2>2. CASE d = c
    <3>0. marked
      <4>1. u # <<>> BY <2>2 DEF HasRow, u
      <4> QED BY <4>1, <2>2, <1>16
    <3>1. head'[d] = l /\ layers'[l].repl = c /\ layers'[l].origin = save.origin
      BY <2>2, <1>3, <1>4, <1>5
    <3>2. layers'[k].origin <= save.origin
      <4>1. CASE k = l BY <4>1, <3>0, <3>1, <1>8, <1>19
      <4>2. CASE k \in DOMAIN layers
        <5>1. layers[k].origin \in Nat /\ layers[k].origin < save.origin
          BY <4>2, <3>0, <2>2, <1>4, <1>21
        <5> QED BY <4>2, <5>1, <3>0, <1>4, <1>8, <1>19
      <4> QED BY <4>1, <4>2, <1>20
    <3>3. HasRow(u, save.origin)
      <4>1. CASE k = l BY <4>1, <2>2, <3>1 DEF u
      <4>2. CASE k \in DOMAIN layers
        <5>1. /\ layers[k].origin \in Nat /\ layers[k].origin < save.origin
              /\ layers[k].origin # None
          BY <4>2, <3>0, <2>2, <1>4, <1>21
        <5>2. PICK j \in DOMAIN u : u[j].wire = layers[k].origin
          BY <4>2, <2>2, <1>4 DEF HasRow, u
        <5>3. ~HasRow(m, save.origin)
          <6> SUFFICES ASSUME NEW i \in DOMAIN m, m[i].wire = save.origin PROVE FALSE
            BY DEF HasRow
          <6>1. save.origin < layers[k].origin BY <3>0, <5>1, <5>2, <1>18, <1>19
          <6> QED BY <6>1, <5>1, <3>0, <1>8, <1>19
        <5> QED BY <5>3, <3>0, <1>17
      <4> QED BY <4>1, <4>2, <1>20
    <3> QED BY <2>2, <3>0, <3>1, <3>2, <3>3, <1>4, <1>19 DEF u
  <2> QED BY <2>1, <2>2
<1>29. Begun'
  <2>1. \A k \in DOMAIN layers' : chat[layers'[k].repl] # "none"
    BY <1>2, <1>3, <1>4, <1>20 DEF Begun
  <2> QED BY <2>1, <1>5 DEF Begun
<1>30. BackFilled'
  <2> SUFFICES ASSUME NEW d \in Chats, d \notin crossed, chat[d] = "live", NEW i \in DOMAIN messages'[d],
                      NEW wire, wire = messages'[d][i].wire, NEW k \in Own(d, wire)'
               PROVE  /\ messages'[d][i].layer # None
                      /\ k \in layers'[messages'[d][i].layer].line
    BY <1>5 DEF BackFilled, OnOwnLayers
  <2>1. /\ k \in stored' /\ layers'[k].repl = d /\ layers'[k].origin = messages'[d][i].wire
        /\ messages'[d][i].wire # None
    BY DEF Own
  <2>2. stored \subseteq DOMAIN layers BY DEF Shapes, TablesOK
  <2>3. CASE k = l
    <3>1. d = c /\ messages'[d][i].wire = save.origin /\ marked
      BY <2>1, <2>3, <1>3, <1>4 DEF marked
    <3>2. i \in DOMAIN m /\ m[i].wire = save.origin /\ messages'[d][i] = settled[i]
      BY <3>1, <1>5, <1>7
    <3>3. i \in Nat BY <3>2, <1>6, LenProperties
    <3>4. settled[i].layer = l BY <3>1, <3>2, <3>3, <1>10
    <3>5. l \in layers'[l].line BY <1>3, <1>4
    <3> QED BY <2>3, <3>2, <3>4, <3>5, <1>19
  <2>4. CASE k \in stored
    <3>1. layers'[k] = layers[k] BY <2>2, <2>4, <1>4
    <3>2. i \in DOMAIN messages[d] /\ messages'[d][i].wire = messages[d][i].wire
      BY <1>5, <1>7 DEF m
    <3>3. k \in Own(d, messages[d][i].wire) BY <2>1, <2>4, <3>1, <3>2 DEF Own
    <3>4. messages[d][i].layer # None /\ k \in layers[messages[d][i].layer].line
      BY <3>2, <3>3 DEF BackFilled, OnOwnLayers
    <3>5. messages[d][i].layer \in DOMAIN layers
      BY <2>2, <3>2, <3>4 DEF Tree, Restorable
    <3>6. CASE messages'[d][i] = messages[d][i] BY <3>4, <3>5, <3>6, <1>4
    <3>7. CASE d = c /\ messages[d][i].layer = head[c] /\ messages'[d][i].layer = l
      <4>1. layers'[l].line = {l} \cup layers[head[c]].line BY <3>4, <3>7, <1>3, <1>4
      <4> QED BY <4>1, <3>4, <3>7, <1>19
    <3>8. \/ messages'[d][i] = messages[d][i]
          \/ d = c /\ messages[d][i].layer = head[c] /\ messages'[d][i].layer = l
      BY <3>2, <1>5, <1>7 DEF m
    <3> QED BY <3>6, <3>7, <3>8
  <2> QED BY <2>1, <2>3, <2>4, <1>5
<1>31. Silent' BY <1>5, <1>14 DEF Silent
<1> QED BY <1>14, <1>31, <1>22, <1>23, <1>24, <1>25, <1>26, <1>27, <1>28, <1>29, <1>30

(* A step leaves no message behind its own layer. *)
LEMMA FilledNext ==
  ASSUME Shapes, Tree, Resumed, Filled, [Next]_vars
  PROVE  Filled'
<1>1. CASE UNCHANGED vars
  <2>1. UNCHANGED <<tables, at, unsent, store, steps, crossed>> BY <1>1 DEF vars, memory, history
  <2>2. Saving' = Saving /\ Waits' = Waits BY <2>1 DEF Saving, Waits
  <2>3. Numbered' /\ Ordered' /\ Queued' /\ Silent' /\ Newer'
    BY <2>1, <2>2 DEF tables, Filled, Numbered, Ordered, Queued, InLine, Silent, Newer
  <2>4. Told' /\ Close' /\ Once' /\ Ahead' /\ Begun'
    BY <2>1, <2>2 DEF tables, Filled, Told, Close, Once, Ahead, Begun
  <2>5. BackFilled' BY <2>1 DEF tables, Filled, BackFilled, OnOwnLayers, Own
  <2> QED BY <2>3, <2>4, <2>5 DEF Filled
<1>2. 1..(2 * MaxSteps) \subseteq Nat BY BoundsAssumption
<1>3. ASSUME NEW c \in Chats, NEW d \in Chats, NEW i \in 1..(2 * MaxSteps), Fork(c, d, i)
      PROVE  Filled'
  BY <1>2, <1>3, FilledOfFork
<1>4. ASSUME NEW c \in Chats, NEW source \in Sources, Step(c, source) PROVE Filled'
  <2>1. CASE source = "ai" BY <2>1, <1>4, FilledOfStep
  <2>2. CASE source # "ai" BY <2>2, <1>4, FilledOfAnswer
  <2> QED BY <2>1, <2>2
<1>5. CASE Restart BY <1>5, ChatsAssumption, FilledOfQuiet
<1>6. ASSUME NEW s \in Stores, FailSave(s) PROVE Filled'
  BY <1>6, ChatsAssumption, FilledOfQuiet
<1> QED BY <1>1, <1>3, <1>4, <1>5, <1>6, FilledOfQuiet, FilledOfAppend, FilledOfRecord
        DEF Next

-----------------------------------------------------------------------------
(* Theorems of the specification.                                          *)

(* The invariant of every behaviour. *)
LEMMA LayersInvariant == Spec => [](Shapes /\ Tree /\ Watched /\ Standing /\ Based)
<1>1. Init => Shapes /\ Tree /\ Watched /\ Standing /\ Based
  BY ShapesInit, TreeInit, WatchedInit, BasedInit
<1>2. (Shapes /\ Tree /\ Watched /\ Standing /\ Based) /\ [Next]_vars
        => (Shapes /\ Tree /\ Watched /\ Standing /\ Based)'
  BY ShapesNext, TreeNext, WatchedNext, BasedNext
<1> QED BY <1>1, <1>2, PTL DEF Spec

(* What a chat stands on is never collected (referenced() and collect(),   *)
(* packages/backend/convex/repls.ts:188), for any number of chats, forks,  *)
(* steps and stores, and whatever is dropped, purged, lost or restarted    *)
(* meanwhile.                                                              *)
THEOREM LayersStay == Spec => []Restorable
<1>1. Shapes /\ Tree /\ Watched /\ Standing /\ Based => Restorable BY DEF Tree
<1> QED BY <1>1, LayersInvariant, PTL

(* Nothing leaks: once the purges are done (purge(), repls.ts:227 and      *)
(* messages.ts:259), every stored layer has a chat that stands on it or on *)
(* one over it.                                                            *)
THEOREM LayersGo == Spec => []NothingLeaks
<1>1. Shapes /\ Tree /\ Watched /\ Standing /\ Based => NothingLeaks BY NoneLeaks
<1> QED BY <1>1, LayersInvariant, PTL

(* Every stored layer restores the image that was saved, from no more than *)
(* MAX_DELTA_RUN layers: record() refuses a delta over anything but the    *)
(* head (repls.ts:133), and a store that does not know what was stored     *)
(* saves a whole layer (image-store.ts:37).                                *)
THEOREM LayersStack == Spec => []Faithful
<1>1. Shapes /\ Tree /\ Watched /\ Standing /\ Based => Faithful BY AllFaithful
<1> QED BY <1>1, LayersInvariant, PTL

(* What is stored of a chat is never ahead of its REPL (recover(),         *)
(* packages/repl/src/repl.ts:263), whatever is evicted, restarted, lost or *)
(* recovered, unless the REPL was made without what is stored, because     *)
(* that did not load (thread-host.ts:328, repl.ts:266), or while the store *)
(* of an evicted one still saved.                                          *)
THEOREM LayersResume == Spec => []ResumesLast
<1>1. Init => Resumed BY ResumedInit
<1>2. Shapes /\ Tree /\ Resumed /\ [Next]_vars => Resumed' BY ResumedNext
<1>3. Shapes /\ Tree /\ Watched /\ Standing /\ Based => Shapes /\ Tree OBVIOUS
<1>4. Resumed => ResumesLast BY DEF Resumed
<1> QED BY <1>1, <1>2, <1>3, <1>4, LayersInvariant, PTL DEF Spec

(* A message that has a layer of its own stands on it or on one over it,   *)
(* whichever of the two is stored first (settleMessages(), repls.ts:99,    *)
(* and layersOf(), messages.ts:119), for a chat none of whose steps        *)
(* crossed another on its way to the store, whatever is evicted,           *)
(* restarted, lost, or answered to the UI meanwhile.                       *)
THEOREM LayersBackFill == Spec => []BackFilled
<1>1. Init => Resumed /\ Filled BY ResumedInit, FilledInit
<1>2. Shapes /\ Tree /\ Resumed /\ Filled /\ [Next]_vars => Resumed' /\ Filled'
  BY ResumedNext, FilledNext
<1>3. Shapes /\ Tree /\ Watched /\ Standing /\ Based => Shapes /\ Tree OBVIOUS
<1>4. Filled => BackFilled BY DEF Filled
<1> QED BY <1>1, <1>2, <1>3, <1>4, LayersInvariant, PTL DEF Spec
=============================================================================
