-------------------------- MODULE SpotResultProofs --------------------------
(***************************************************************************)
(* Proofs about what the search (SpotSearch) returns, for any number of    *)
(* workers and any datasets: when the root's bounds have met, the graph    *)
(* holds a model that attains them, and nothing but optimal models is      *)
(* extracted.  What the bound lists promise, the graph keeps.              *)
(***************************************************************************)
EXTENDS SpotSearchProofs

(* A sum of natural numbers is one, and nothing only if all of them are.   *)
LEMMA SumPositive ==
  ASSUME NEW T, IsFiniteSet(T), NEW F \in [T -> Nat], NEW t \in T, 0 < F[t]
  PROVE  Sum(F) \in Int /\ 0 < Sum(F)
<1>0. F \in [T -> Int]
  OBVIOUS
<1>1. PICK f : Unrolls(f, F, T)
  BY <1>0, SumUnrolled
<1> DEFINE right(s) == 0 <= f[s] /\ (t \in s => 0 < f[s])
           Bad == {s \in SUBSET T : ~right(s)}
<1>2. ASSUME Bad # {} PROVE FALSE
  <2>1. PICK s \in Bad : \A u \in Bad : ~(u \subseteq s /\ u # s)
    <3>1. \A s \in Bad : IsFiniteSet(s)
      BY FS_Subset
    <3> HIDE DEF Bad
    <3> QED
      BY <1>2, <3>1, SmallestSet
  <2>2. s \in SUBSET T /\ ~right(s)
    BY <2>1
  <2>3. s # {}
    BY <1>1, <2>2 DEF Unrolls
  <2>4. PICK x \in s : Takes(x, s, T)
    BY <2>2, <2>3, UnrollStep
  <2>5. s \ {x} \in SUBSET T /\ s \ {x} \subseteq s /\ s \ {x} # s /\ f[s] = F[x] + f[s \ {x}]
    BY <1>1, <2>4 DEF Takes
  <2>6. right(s \ {x})
    BY <2>1, <2>5
  <2>7. f[s \ {x}] \in Int /\ F[x] \in Nat
    BY <1>1, <2>2, <2>5 DEF Unrolls
  <2>8. 0 <= f[s]
    BY <2>5, <2>6, <2>7
  <2>9. CASE x = t
    BY <2>2, <2>5, <2>6, <2>7, <2>8, <2>9
  <2>10. CASE x # t
    BY <2>2, <2>5, <2>6, <2>7, <2>8, <2>10
  <2> QED
    BY <2>9, <2>10
<1>3. right(T) /\ f[T] \in Int
  BY <1>1, <1>2 DEF Unrolls
<1> QED
  BY <1>1, <1>3 DEF Unrolls

(* A class costs something to get wrong: so do rows of that class.         *)
LEMMA PotentialPositive ==
  ASSUME NEW d, IsDataset(d), NEW S \in SUBSET Rows(d), NEW r \in S, 0 < DiffCost(d.config.cost, d.label[r])
  PROVE  Potential(d, S) \in Int /\ 0 < Potential(d, S)
<1> DEFINE t == d.label[r]
           w == DiffWeight(d)
           F == [c \in Targets |-> w[c] * Count(d.label, S, c)]
<1>1. t \in Targets /\ IsFiniteSet(Targets) /\ IsFiniteSet(S)
  BY RowsFinite, TargetsAssumption DEF IsDataset
<1>2. ASSUME NEW c \in Targets PROVE w[c] \in Nat /\ Count(d.label, S, c) \in Nat
  BY <1>1, CostFacts, CountNat
<1>3. F \in [Targets -> Nat]
  <2>1. \A c \in Targets : w[c] * Count(d.label, S, c) \in Nat
    BY <1>2, Products
  <2> QED
    BY <2>1
<1>4. Count(d.label, S, t) \in Nat \ {0}
  <2> DEFINE part == {q \in S : d.label[q] = t}
  <2>1. part # {} /\ IsFiniteSet(part)
    BY <1>1, FS_Subset
  <2> HIDE DEF part
  <2>2. Cardinality(part) \in Nat /\ Cardinality(part) # 0
    BY <2>1, FS_EmptySet, FS_CardinalityType
  <2> QED
    BY <2>2 DEF Count, part
<1>5. w[t] \in Nat /\ 0 < w[t] /\ DiffWeight(d) = [c \in Targets |-> DiffCost(d.config.cost, c)]
  BY <1>1, <1>2 DEF DiffWeight
<1>6. 0 < F[t]
  <2> DEFINE n == Count(d.label, S, t)
             x == w[t]
  <2>1. F[t] = x * n /\ x \in Nat /\ n \in Nat \ {0} /\ 0 < x
    BY <1>1, <1>4, <1>5
  <2> HIDE DEF x, n, F
  <2>2. x * (n - 1) \in Nat /\ x * n = x * (n - 1) + x
    BY <2>1, Products
  <2> QED
    BY <2>1, <2>2
<1>7. Potential(d, S) = Sum(F)
  BY <1>5 DEF Potential, Weigh
<1> HIDE DEF F, t
<1> QED
  BY <1>1, <1>3, <1>6, <1>7, SumPositive

(* Two features that make the same two children of a vertex.               *)
SameSides(d, key, f, g) ==
  \/ \A p \in BOOLEAN : Child(d, key, f, p) = Child(d, key, g, p)
  \/ \A p \in BOOLEAN : Child(d, key, f, p) = Child(d, key, g, ~p)

(* If they share a child they share the other one.                         *)
LEMMA SharedChild ==
  ASSUME NEW d, NEW key, NEW f, NEW g, NEW p \in BOOLEAN, NEW q \in BOOLEAN,
         Child(d, key, f, p) = Child(d, key, g, q)
  PROVE  SameSides(d, key, f, g)
<1>1. Child(d, key, f, ~p) = Child(d, key, g, ~q)
  BY SameSibling DEF Sibling
<1>2. CASE q = p
  <2>1. ASSUME NEW r \in BOOLEAN PROVE Child(d, key, f, r) = Child(d, key, g, r)
    <3>1. CASE r = p
      BY <1>2, <3>1
    <3>2. CASE r = ~p
      BY <1>1, <1>2, <3>2
    <3> QED
      BY <3>1, <3>2
  <2> QED
    BY <2>1 DEF SameSides
<1>3. CASE q = ~p
  <2>1. ASSUME NEW r \in BOOLEAN PROVE Child(d, key, f, r) = Child(d, key, g, ~r)
    <3>1. CASE r = p
      BY <1>3, <3>1
    <3>2. CASE r = ~p
      BY <1>1, <1>3, <3>2
    <3> QED
      BY <3>1, <3>2
  <2> QED
    BY <2>1 DEF SameSides
<1> QED
  BY <1>2, <1>3

(* Features at no distance divide the rows alike, if every row counts.     *)
LEMMA NoDistance ==
  ASSUME NEW d, IsDataset(d), Charged(d), NEW key, key[1] \in SUBSET Rows(d), NEW f, NEW g,
         Distance(d, key[1], f, g) <= 0
  PROVE  SameSides(d, key, f, g)
<1> DEFINE S == key[1]
           differ == {r \in S : (f \in d.value[r]) # (g \in d.value[r])}
           a == Potential(d, differ)
           b == Potential(d, S \ differ)
<1>1. ASSUME NEW T \in SUBSET S, T # {} PROVE 0 < Potential(d, T)
  <2>1. PICK r \in T : TRUE
    BY <1>1
  <2>2. 0 < DiffCost(d.config.cost, d.label[r]) /\ T \in SUBSET Rows(d)
    BY DEF Charged
  <2> QED
    BY <2>2, PotentialPositive
<1>2. a \in Int /\ b \in Int
  <2>1. \A T \in SUBSET Rows(d) : Potentials(d)[T] = Potential(d, T) /\ Potentials(d)[T] \in Nat
    BY IdealFacts DEF Potentials
  <2>2. differ \in SUBSET Rows(d) /\ S \ differ \in SUBSET Rows(d)
    OBVIOUS
  <2> HIDE DEF differ
  <2> QED
    BY <2>1, <2>2
<1>3. a <= 0 \/ b <= 0
  <2>1. Min({a, b}) <= 0
    BY DEF Distance
  <2> HIDE DEF a, b
  <2> QED
    BY <1>2, <2>1, MinOfTwo
<1>4. differ = {} \/ S \ differ = {}
  <2>1. differ \in SUBSET S /\ S \ differ \in SUBSET S
    OBVIOUS
  <2> HIDE DEF differ, S
  <2> QED
    BY <1>1, <1>2, <1>3, <2>1
<1>5. CASE differ = {}
  <2>1. \A r \in S : (f \in d.value[r]) = (g \in d.value[r])
    BY <1>5
  <2>2. \A p \in BOOLEAN : Subset(d, S, f, p) = Subset(d, S, g, p)
    BY <2>1 DEF Subset
  <2> QED
    BY <2>2 DEF SameSides, Child
<1>6. CASE S \ differ = {}
  <2>1. \A r \in S : (f \in d.value[r]) # (g \in d.value[r])
    BY <1>6
  <2>2. ASSUME NEW p \in BOOLEAN PROVE Subset(d, S, f, p) = Subset(d, S, g, ~p)
    <3>1. \A r \in S : ((f \in d.value[r]) = p) <=> ((g \in d.value[r]) = ~p)
      BY <2>1
    <3> QED
      BY <3>1 DEF Subset
  <2> QED
    BY <2>2 DEF SameSides, Child
<1> QED
  BY <1>4, <1>5, <1>6
(* The optimum is no more than the best objective of a split, and both are *)
(* numbers.                                                                *)
LEMMA OptimumBelow ==
  ASSUME NEW d, Proper(d), NEW key \in Reached(d), NEW f \in FeaturesOf(d, key)
  PROVE  LET best == SplitLeast(d, Leaves(d), d.optimum, key, f)
         IN  d.optimum[key] \in Int /\ best \in Int /\ d.optimum[key] <= best
<1>1. key = <<key[1], key[2]>> /\ key \in Keys(d)
  BY KeyFacts
<1>2. f \in Splittable(d, key) /\ IsDataset(d) /\ IsValue(d, Leaves(d), d.optimum)
  BY FeatureFacts, JudgedValues DEF Proper
<1>3. <<key[1], key[2]>> \in Keys(d) /\ f \in Splittable(d, <<key[1], key[2]>>)
  BY <1>1, <1>2
<1>4. /\ d.optimum[<<key[1], key[2]>>] \in Int
      /\ SplitLeast(d, Leaves(d), d.optimum, <<key[1], key[2]>>, f) \in Int
      /\ d.optimum[<<key[1], key[2]>>] <= SplitLeast(d, Leaves(d), d.optimum, <<key[1], key[2]>>, f)
  BY <1>2, <1>3, ValueIs
<1> QED
  BY <1>1, <1>4

(* A distance is not negative.                                             *)
LEMMA DistanceNat ==
  ASSUME NEW d, IsDataset(d), NEW S \in SUBSET Rows(d), NEW f, NEW g
  PROVE  Distance(d, S, f, g) \in Int /\ 0 <= Distance(d, S, f, g)
<1> DEFINE differ == {r \in S : (f \in d.value[r]) # (g \in d.value[r])}
           a == Potential(d, differ)
           b == Potential(d, S \ differ)
<1>1. a \in Nat /\ b \in Nat
  <2>1. \A T \in SUBSET Rows(d) : Potentials(d)[T] = Potential(d, T) /\ Potentials(d)[T] \in Nat
    BY IdealFacts DEF Potentials
  <2>2. differ \in SUBSET Rows(d) /\ S \ differ \in SUBSET Rows(d)
    OBVIOUS
  <2> HIDE DEF differ
  <2> QED
    BY <2>1, <2>2
<1>2. Distance(d, S, f, g) = Min({a, b})
  BY DEF Distance
<1> HIDE DEF a, b
<1> QED
  BY <1>1, <1>2, MinOfTwo

(* The upper bound of a split is made of those of its sides; in a rule     *)
(* list one of them stops.                                                 *)
LEMMA SplitUpper ==
  ASSUME NEW d, NEW k0, NEW k1, NEW a, IsTask(d, k0, a), NEW b, IsTask(d, k1, b)
  PROVE  LET s == Split(d, a, b).upper
         IN  /\ s \in Int /\ s <= a.base + b.base
             /\ ~d.config.rule_list => s = a.upper + b.upper
             /\ d.config.rule_list => s = a.upper + b.base \/ s = a.base + b.upper
             /\ Split(d, b, a) = Split(d, a, b)
<1>1. /\ a.upper \in Int /\ a.lower \in Int /\ a.base \in Int /\ a.upper <= a.base
      /\ b.upper \in Int /\ b.lower \in Int /\ b.base \in Int /\ b.upper <= b.base
  BY DEF IsTask, Tasks
<1>2. CASE ~d.config.rule_list
  <2>1. Split(d, a, b) = [lower |-> a.lower + b.lower, upper |-> a.upper + b.upper]
        /\ Split(d, b, a) = [lower |-> b.lower + a.lower, upper |-> b.upper + a.upper]
    BY <1>2 DEF Split
  <2>2. a.lower + b.lower = b.lower + a.lower /\ a.upper + b.upper = b.upper + a.upper
    BY <1>1
  <2> QED
    BY <1>1, <1>2, <2>1, <2>2
<1>3. CASE d.config.rule_list
  <2> DEFINE x == a.upper + b.base
             y == a.base + b.upper
             v == a.lower + b.base
             w == a.base + b.lower
  <2>1. Split(d, a, b) = [lower |-> Min({v, w}), upper |-> Min({x, y})]
    BY <1>3 DEF Split
  <2>2. Split(d, b, a) = [lower |-> Min({w, v}), upper |-> Min({y, x})]
    <3>1. b.upper + a.base = y /\ b.base + a.upper = x /\ b.lower + a.base = w /\ b.base + a.lower = v
      BY <1>1
    <3> QED
      BY <1>3, <3>1 DEF Split
  <2>3. {v, w} = {w, v} /\ {x, y} = {y, x}
    OBVIOUS
  <2>4. x \in Int /\ y \in Int /\ x <= a.base + b.base
    BY <1>1
  <2> HIDE DEF x, y, v, w
  <2>5. Min({x, y}) = IF x <= y THEN x ELSE y
    BY <2>4, MinOfTwo
  <2>6. Split(d, a, b).upper = Min({x, y}) /\ Split(d, b, a) = Split(d, a, b)
    BY <2>1, <2>2, <2>3
  <2> QED
    BY <1>1, <1>3, <2>4, <2>5, <2>6 DEF x, y
<1> QED
  BY <1>2, <1>3

(* It shrinks with either.                                                 *)
LEMMA SplitShrinks ==
  ASSUME NEW d, NEW k0, NEW k1, NEW a, IsTask(d, k0, a), NEW b, IsTask(d, k1, b),
         NEW x, IsTask(d, k0, x), NEW y, IsTask(d, k1, y), x.upper <= a.upper, y.upper <= b.upper
  PROVE  Split(d, x, y).upper <= Split(d, a, b).upper
<1>1. /\ a.upper \in Int /\ a.base \in Int /\ b.upper \in Int /\ b.base \in Int
      /\ x.upper \in Int /\ x.base = a.base /\ y.upper \in Int /\ y.base = b.base
  BY DEF IsTask, Tasks
<1>2. CASE ~d.config.rule_list
  <2>1. Split(d, a, b).upper = a.upper + b.upper /\ Split(d, x, y).upper = x.upper + y.upper
    BY <1>2 DEF Split
  <2> QED
    BY <1>1, <2>1
<1>3. CASE d.config.rule_list
  <2> DEFINE a0 == a.upper + b.base
             a1 == a.base + b.upper
             x0 == x.upper + y.base
             x1 == x.base + y.upper
  <2>1. Split(d, a, b).upper = Min({a0, a1}) /\ Split(d, x, y).upper = Min({x0, x1})
    BY <1>3 DEF Split
  <2>2. a0 \in Int /\ a1 \in Int /\ x0 \in Int /\ x1 \in Int /\ x0 <= a0 /\ x1 <= a1
    BY <1>1
  <2> HIDE DEF a0, a1, x0, x1
  <2>3. Min({a0, a1}) = (IF a0 <= a1 THEN a0 ELSE a1) /\ Min({x0, x1}) = (IF x0 <= x1 THEN x0 ELSE x1)
    BY <2>2, MinOfTwo
  <2> QED
    BY <2>1, <2>2, <2>3
<1> QED
  BY <1>2, <1>3

-----------------------------------------------------------------------------
(* What the graph holds of a split                                         *)

(* The child on a side of a split as extraction takes it: the vertex that  *)
(* the link leads to, or else a leaf.                                      *)
Side(d, V, C, key, f, p) ==
  IF <<key, Signed(f, p)>> \in DOMAIN C THEN V[Child(d, key, f, p)]
  ELSE NewTask(d, Child(d, key, f, p), d.features)

(* What the graph has for the split, and what two leaves would cost.       *)
Known(d, V, C, key, f) == Split(d, Side(d, V, C, key, f, FALSE), Side(d, V, C, key, f, TRUE)).upper

Stops(d, key, f) == Leaf(d, Child(d, key, f, FALSE)[1]) + Leaf(d, Child(d, key, f, TRUE)[1])

Knowns(d, V, C, key) == [f \in FeaturesOf(d, key) |-> Known(d, V, C, key, f)]

(* The tables V (vertices), C (children) and E (edges) of a search.        *)
IsGraph(d, V, C, E) == (\A key \in DOMAIN V : IsVertex(d, key, V[key])) /\ Linking(d, DOMAIN V, C, E)

(* A side is a task of the child: with a link it is a vertex.              *)
LEMMA SideIs ==
  ASSUME NEW d, Proper(d), NEW V, NEW C, NEW E, IsGraph(d, V, C, E),
         NEW key \in DOMAIN V, NEW f \in FeaturesOf(d, key), NEW p \in BOOLEAN
  PROVE  /\ IsTask(d, Child(d, key, f, p), Side(d, V, C, key, f, p))
         /\ <<key, Signed(f, p)>> \in DOMAIN C =>
              C[<<key, Signed(f, p)>>] = Child(d, key, f, p) /\ Child(d, key, f, p) \in DOMAIN V
<1> DEFINE c == Child(d, key, f, p)
           link == <<key, Signed(f, p)>>
           D == DOMAIN V
<1>1. D \subseteq Reached(d) /\ key \in D /\ Linking(d, D, C, E) /\ \A k \in D : IsTask(d, k, V[k])
  BY DEF IsGraph, IsVertex
<1>2. link \in DOMAIN C => C[link] = c /\ c \in D
  <2> SUFFICES ASSUME link \in DOMAIN C PROVE C[link] = c /\ c \in D
    OBVIOUS
  <2>1. IsLink(d, D, C, E, link)
    BY <1>1 DEF Linking
  <2> HIDE DEF D
  <2>2. C[link] = c /\ c \in DOMAIN E
    BY <1>1, <2>1, LinkIs
  <2> QED
    BY <1>1, <2>2 DEF Linking
<1>3. link \notin DOMAIN C => IsTask(d, c, NewTask(d, c, d.features))
  <2>1. key \in Reached(d)
    BY <1>1
  <2>2. c \in Reached(d) /\ Splittable(d, c) \subseteq FeaturesOf(d, key)
    BY <2>1, ChildReached
  <2>3. FeaturesOf(d, key) \subseteq d.features /\ d.features \in SUBSET Int
    BY <2>1, FeatureFacts, FeatureNumbers DEF Proper
  <2>4. Splittable(d, c) \subseteq d.features
    BY <2>2, <2>3
  <2> HIDE DEF c
  <2> QED
    BY <2>2, <2>3, <2>4, NewIsTask
<1> QED
  BY <1>1, <1>2, <1>3 DEF Side

(* What the graph has of a split is no less than the best there is, and no *)
(* more than its two leaves cost.                                          *)
LEMMA KnownIs ==
  ASSUME NEW d, Proper(d), NEW V, NEW C, NEW E, IsGraph(d, V, C, E), NEW key \in DOMAIN V, NEW f \in FeaturesOf(d, key)
  PROVE  /\ Known(d, V, C, key, f) \in Int /\ Stops(d, key, f) \in Int
         /\ SplitLeast(d, Leaves(d), d.optimum, key, f) <= Known(d, V, C, key, f)
         /\ Known(d, V, C, key, f) <= Stops(d, key, f)
<1> DEFINE a == Side(d, V, C, key, f, FALSE)
           b == Side(d, V, C, key, f, TRUE)
           k0 == Child(d, key, f, FALSE)
           k1 == Child(d, key, f, TRUE)
<1>1. key \in Reached(d)
  BY DEF IsGraph, IsVertex
<1>2. IsTask(d, k0, a) /\ IsTask(d, k1, b)
  <2>1. FALSE \in BOOLEAN /\ TRUE \in BOOLEAN
    OBVIOUS
  <2>2. \A p \in BOOLEAN : IsTask(d, Child(d, key, f, p), Side(d, V, C, key, f, p))
    BY SideIs
  <2> QED
    BY <2>1, <2>2, Zenon
<1>3. a.base = Leaf(d, k0[1]) /\ b.base = Leaf(d, k1[1]) /\ a.base \in Int /\ b.base \in Int
  BY <1>2 DEF IsTask, Tasks
<1>4. IsSplitBound(d, key, f, Split(d, a, b))
  <2> HIDE DEF a, b
  <2> QED
    BY <1>1, <1>2, SplitBrackets
<1>5. Split(d, a, b).upper <= a.base + b.base
  <2> HIDE DEF a, b, k0, k1
  <2> QED
    BY <1>2, SplitUpper
<1>6. Known(d, V, C, key, f) = Split(d, a, b).upper /\ Stops(d, key, f) = a.base + b.base
  BY <1>3 DEF Known, Stops
<1>7. Split(d, a, b).upper \in Int /\ SplitLeast(d, Leaves(d), d.optimum, key, f) <= Split(d, a, b).upper
  BY <1>4 DEF IsSplitBound
<1>8. a.base + b.base \in Int
  <2>1. a.base \in Int /\ b.base \in Int
    BY <1>3
  <2> HIDE DEF a, b
  <2> QED
    BY <2>1
<1> QED
  BY <1>5, <1>6, <1>7, <1>8

(* It only shrinks: vertices tighten and links stay.                       *)
LEMMA KnownShrinks ==
  ASSUME NEW d, Proper(d), NEW V, NEW C, NEW E, IsGraph(d, V, C, E), NEW W, NEW D, NEW G, IsGraph(d, W, D, G),
         DOMAIN V \subseteq DOMAIN W, DOMAIN C \subseteq DOMAIN D, \A k \in DOMAIN V : W[k].upper <= V[k].upper,
         NEW key \in DOMAIN V, NEW f \in FeaturesOf(d, key)
  PROVE  Known(d, W, D, key, f) <= Known(d, V, C, key, f)
<1>1. ASSUME NEW p \in BOOLEAN
      PROVE  /\ IsTask(d, Child(d, key, f, p), Side(d, V, C, key, f, p))
             /\ IsTask(d, Child(d, key, f, p), Side(d, W, D, key, f, p))
             /\ Side(d, W, D, key, f, p).upper <= Side(d, V, C, key, f, p).upper
  <2> DEFINE c == Child(d, key, f, p)
             link == <<key, Signed(f, p)>>
             x == Side(d, V, C, key, f, p)
             y == Side(d, W, D, key, f, p)
  <2>1. IsTask(d, c, x) /\ (link \in DOMAIN C => c \in DOMAIN V)
    BY SideIs
  <2>2. key \in DOMAIN W /\ IsTask(d, c, y)
    BY SideIs
  <2>3. CASE link \in DOMAIN C
    <3>1. x = V[c] /\ y = W[c] /\ c \in DOMAIN V
      BY <2>1, <2>3 DEF Side
    <3> QED
      BY <2>1, <2>2, <3>1
  <2>4. CASE link \notin DOMAIN C
    <3>1. x.upper = x.base
      BY <2>4 DEF Side, NewTask
    <3>2. x.base = Leaf(d, c[1]) /\ y.upper <= Leaf(d, c[1])
      BY <2>1, <2>2 DEF IsTask
    <3> QED
      BY <2>1, <2>2, <3>1, <3>2
  <2> QED
    BY <2>1, <2>2, <2>3, <2>4
<1>2. FALSE \in BOOLEAN /\ TRUE \in BOOLEAN
  OBVIOUS
<1> DEFINE k0 == Child(d, key, f, FALSE)
           k1 == Child(d, key, f, TRUE)
           a == Side(d, V, C, key, f, FALSE)
           b == Side(d, V, C, key, f, TRUE)
           x == Side(d, W, D, key, f, FALSE)
           y == Side(d, W, D, key, f, TRUE)
<1>3. IsTask(d, k0, a) /\ IsTask(d, k1, b) /\ IsTask(d, k0, x) /\ IsTask(d, k1, y)
      /\ x.upper <= a.upper /\ y.upper <= b.upper
  BY <1>1, <1>2, Zenon
<1> HIDE DEF k0, k1, a, b, x, y
<1>4. Split(d, x, y).upper <= Split(d, a, b).upper
  BY <1>3, SplitShrinks
<1> QED
  BY <1>4 DEF Known, a, b, x, y

-----------------------------------------------------------------------------
(* What a bound list promises of the graph                                 *)

(* K is what the graph has of each split of the list b.  An entry promises *)
(* no more than two leaves; the least of them is kept, by the least of     *)
(* some entry; and what promises the optimum is kept.                      *)
IsKept(d, key, K, b) ==
  LET F == FeaturesOf(d, key)
  IN  /\ \A f \in F : b[f].upper <= Stops(d, key, f)
      /\ F # {} => \E g \in F : K[g] <= b[g].upper /\ \A f \in F : b[g].upper <= b[f].upper
      /\ Exacting(d) => \A f \in F : b[f].upper <= d.optimum[key] => K[f] <= b[f].upper

(* Whoever follows one of two signed features that lead to the same child  *)
(* follows the other one too.                                              *)
Alike(d, key, follows) ==
  \A f, g \in FeaturesOf(d, key), p, q \in BOOLEAN :
    Child(d, key, f, p) = Child(d, key, g, q) /\ Signed(f, p) \in follows => Signed(g, q) \in follows

Followed(C, key) == {s \in Int : <<key, s>> \in DOMAIN C}

(* So features that make the same children are known the same.             *)
LEMMA SameKnown ==
  ASSUME NEW d, Proper(d), NEW V, NEW C, NEW E, IsGraph(d, V, C, E), NEW key \in DOMAIN V,
         Alike(d, key, Followed(C, key)), NEW f \in FeaturesOf(d, key), NEW g \in FeaturesOf(d, key),
         SameSides(d, key, f, g)
  PROVE  Known(d, V, C, key, f) = Known(d, V, C, key, g)
<1>0. key \in Reached(d) /\ FALSE \in BOOLEAN /\ TRUE \in BOOLEAN
  BY DEF IsGraph, IsVertex
<1>1. FeaturesOf(d, key) \in SUBSET (Nat \ {0})
  BY <1>0, FeatureFacts
<1>2. ASSUME NEW p \in BOOLEAN, NEW q \in BOOLEAN, Child(d, key, f, p) = Child(d, key, g, q)
      PROVE  Side(d, V, C, key, f, p) = Side(d, V, C, key, g, q)
  <2>1. Signed(f, p) \in Int /\ Signed(g, q) \in Int
    BY <1>1, SignedIs
  <2>2. <<key, Signed(f, p)>> \in DOMAIN C <=> <<key, Signed(g, q)>> \in DOMAIN C
    BY <1>2, <2>1 DEF Alike, Followed
  <2> QED
    BY <1>2, <2>2 DEF Side
<1>3. CASE \A p \in BOOLEAN : Child(d, key, f, p) = Child(d, key, g, p)
  <2>1. Side(d, V, C, key, f, FALSE) = Side(d, V, C, key, g, FALSE)
        /\ Side(d, V, C, key, f, TRUE) = Side(d, V, C, key, g, TRUE)
    BY <1>0, <1>2, <1>3, Zenon
  <2> QED
    BY <2>1 DEF Known
<1>4. CASE \A p \in BOOLEAN : Child(d, key, f, p) = Child(d, key, g, ~p)
  <2> DEFINE a == Side(d, V, C, key, f, FALSE)
             b == Side(d, V, C, key, f, TRUE)
             x == Side(d, V, C, key, g, FALSE)
             y == Side(d, V, C, key, g, TRUE)
             k0 == Child(d, key, f, FALSE)
             k1 == Child(d, key, f, TRUE)
  <2>1. Child(d, key, f, FALSE) = Child(d, key, g, TRUE) /\ Child(d, key, f, TRUE) = Child(d, key, g, FALSE)
    <3>1. (~FALSE) = TRUE /\ (~TRUE) = FALSE
      OBVIOUS
    <3> QED
      BY <1>0, <1>4, <3>1, Zenon
  <2>2. a = y /\ b = x
    BY <1>0, <1>2, <2>1, Zenon
  <2>3. IsTask(d, k0, a) /\ IsTask(d, k1, b)
    <3>1. \A p \in BOOLEAN : IsTask(d, Child(d, key, f, p), Side(d, V, C, key, f, p))
      BY SideIs
    <3> QED
      BY <1>0, <3>1, Zenon
  <2>4. Known(d, V, C, key, f) = Split(d, a, b).upper /\ Known(d, V, C, key, g) = Split(d, x, y).upper
    BY DEF Known
  <2> HIDE DEF a, b, x, y, k0, k1
  <2>5. Split(d, b, a) = Split(d, a, b)
    BY <2>3, SplitUpper
  <2> QED
    BY <2>2, <2>4, <2>5
<1> QED
  BY <1>3, <1>4 DEF SameSides

(* What the list promises it keeps promising when the graph tightens.      *)
LEMMA StaysKept ==
  ASSUME NEW d, NEW key, NEW K, NEW L, NEW b, IsKept(d, key, K, b), \A f \in FeaturesOf(d, key) : b[f].upper \in Int,
         \A f \in FeaturesOf(d, key) : K[f] \in Int /\ L[f] \in Int /\ L[f] <= K[f]
  PROVE  IsKept(d, key, L, b)
<1> DEFINE F == FeaturesOf(d, key)
<1>1. ASSUME F # {} PROVE \E g \in F : L[g] <= b[g].upper /\ \A f \in F : b[g].upper <= b[f].upper
  <2>1. PICK g \in F : K[g] <= b[g].upper /\ \A f \in F : b[g].upper <= b[f].upper
    BY <1>1 DEF IsKept
  <2>2. L[g] <= b[g].upper
    BY <2>1
  <2> QED
    BY <2>1, <2>2
<1>2. ASSUME Exacting(d), NEW f \in F, b[f].upper <= d.optimum[key] PROVE L[f] <= b[f].upper
  <2>1. K[f] <= b[f].upper
    BY <1>2 DEF IsKept
  <2> QED
    BY <2>1
<1> QED
  BY <1>1, <1>2 DEF IsKept

(* The splits recomputed from the graph are what it has of them.           *)
LEMMA ResplitKnown ==
  ASSUME IInv, Proper(data), NEW key \in DOMAIN vertices, NEW f \in FeaturesOf(data, key), NEW signals
  PROVE  \/ Resplit(key, f, signals).upper = Known(data, vertices, children, key, f)
         \/ Resplit(key, f, signals).upper = bounds[key][f].upper
<1> DEFINE link(p) == <<key, Signed(f, p)>>
           child(p) == vertices[children[link(p)]]
           ready == \A p \in BOOLEAN : link(p) \in DOMAIN children
<1>1. IsGraph(data, vertices, children, edges)
  BY DEF IInv, VerticesRight, LinksRight, IsGraph
<1>2. CASE f \in signals /\ ready
  <2>1. ASSUME NEW p \in BOOLEAN PROVE child(p) = Side(data, vertices, children, key, f, p)
    <3>1. link(p) \in DOMAIN children
      BY <1>2
    <3>2. children[link(p)] = Child(data, key, f, p)
      BY <1>1, <3>1, SideIs
    <3> QED
      BY <3>1, <3>2 DEF Side
  <2>2. FALSE \in BOOLEAN /\ TRUE \in BOOLEAN
    OBVIOUS
  <2>3. child(FALSE) = Side(data, vertices, children, key, f, FALSE)
        /\ child(TRUE) = Side(data, vertices, children, key, f, TRUE)
    BY <2>1, <2>2, Zenon
  <2>4. Resplit(key, f, signals) = Split(data, child(FALSE), child(TRUE))
    BY <1>2, Zenon DEF Resplit, child
  <2> QED
    BY <2>3, <2>4 DEF Known
<1>3. CASE ~(f \in signals /\ ready)
  <2>1. Resplit(key, f, signals) = bounds[key][f]
    BY <1>3, Zenon DEF Resplit
  <2> QED
    BY <2>1
<1> QED
  BY <1>2, <1>3

(* A pass over a list of numbers: each is recomputed, K, or stays, and is  *)
(* then compared with the new numbers before it and with old ones.         *)
IsPass(F, K, apart, old, new) ==
  /\ F \in SUBSET Nat /\ IsFiniteSet(F)
  /\ \A f \in F : K[f] \in Int /\ old[f] \in Int /\ new[f] \in Int
  /\ \A f, g \in F : apart[f][g] \in Nat
  /\ \A f \in F : \E r \in {K[f], old[f]} :
       /\ new[f] <= r
       /\ \/ new[f] = r
          \/ \E g \in F : new[f] = old[g] + apart[f][g]
          \/ \E g \in F : g < f /\ new[f] = new[g] + apart[f][g]

(* If the least old number was kept then so is the least new one: either   *)
(* it is the same, or it was recomputed.                                   *)
LEMMA LeastKept ==
  ASSUME NEW F, NEW K, NEW apart, NEW old, NEW new, IsPass(F, K, apart, old, new),
         NEW m \in F, K[m] <= old[m], \A f \in F : old[m] <= old[f]
  PROVE  /\ \E g \in F : K[g] <= new[g] /\ \A f \in F : new[g] <= new[f]
         /\ new[m] <= old[m]
<1> USE DEF IsPass
<1> DEFINE N == {new[f] : f \in F}
           B == {f \in F : \A h \in F : new[f] <= new[h]}
<1>1. new[m] <= old[m]
  <2>1. PICK r \in {K[m], old[m]} : new[m] <= r
    OBVIOUS
  <2>2. r \in Int /\ r <= old[m] /\ new[m] \in Int /\ old[m] \in Int
    BY <2>1
  <2> QED
    BY <2>1, <2>2
<1>2. B # {}
  <2>1. N \in SUBSET Int /\ N # {} /\ IsFiniteSet(N)
    <3>1. N \in SUBSET Int /\ new[m] \in N
      OBVIOUS
    <3>2. IsFiniteSet(F)
      OBVIOUS
    <3>3. IsFiniteSet(N)
      BY ONLY <3>2, ImageFinite
    <3> QED
      BY <3>1, <3>3
  <2> DEFINE least == Min(N)
  <2>2. least \in N /\ \A y \in N : least <= y
    <3> HIDE DEF N
    <3> QED
      BY <2>1, MinIs
  <2> HIDE DEF least
  <2> QED
    BY <2>2
<1>3. PICK g \in B : \A h \in B : g <= h
  <2>1. B \in SUBSET Nat
    OBVIOUS
  <2> HIDE DEF B
  <2> QED
    BY <1>2, <2>1, LeastNat
<1>4. g \in F /\ \A h \in F : new[g] <= new[h]
  BY <1>3
<1>5. PICK r \in {K[g], old[g]} :
        /\ new[g] <= r
        /\ \/ new[g] = r
           \/ \E h \in F : new[g] = old[h] + apart[g][h]
           \/ \E h \in F : h < g /\ new[g] = new[h] + apart[g][h]
  BY <1>4
<1>6. CASE new[g] = r /\ r = K[g]
  BY <1>1, <1>4, <1>6
<1>7. ASSUME NEW h \in F, old[h] <= new[g] PROVE \E x \in F : K[x] <= new[x] /\ \A f \in F : new[x] <= new[f]
  <2>1. old[m] <= new[g] /\ new[g] <= new[m] /\ new[m] <= old[m]
    BY <1>1, <1>4, <1>7
  <2>2. new[m] = new[g] /\ K[m] <= new[m]
    BY <1>4, <2>1
  <2> QED
    BY <1>4, <2>2
<1>8. CASE new[g] = r /\ r = old[g]
  BY <1>1, <1>4, <1>7, <1>8
<1>9. CASE \E h \in F : new[g] = old[h] + apart[g][h]
  <2>1. PICK h \in F : new[g] = old[h] + apart[g][h]
    BY <1>9
  <2>2. old[h] \in Int /\ apart[g][h] \in Nat /\ new[g] \in Int
    BY <1>4
  <2>3. old[h] <= new[g]
    BY <2>1, <2>2
  <2> QED
    BY <1>1, <1>7, <2>3
<1>10. CASE \E h \in F : h < g /\ new[g] = new[h] + apart[g][h]
  <2>1. PICK h \in F : h < g /\ new[g] = new[h] + apart[g][h]
    BY <1>10
  <2>2. new[h] \in Int /\ apart[g][h] \in Nat /\ new[g] \in Int /\ new[g] <= new[h] /\ h \in Nat /\ g \in Nat
    BY <1>4
  <2>3. new[h] = new[g]
    BY <2>1, <2>2
  <2>4. h \in B
    BY <1>4, <2>3
  <2> QED
    BY <1>3, <2>1, <2>2, <2>4
<1> QED
  BY <1>5, <1>6, <1>8, <1>9, <1>10

(* And if what was at the optimum o was kept then so is what is: features  *)
(* that are no distance apart are known the same.                          *)
LEMMA ExactKept ==
  ASSUME NEW F, NEW K, NEW apart, NEW old, NEW new, IsPass(F, K, apart, old, new), NEW o \in Int,
         \A f \in F : o <= old[f] /\ o <= new[f],
         \A f, g \in F : apart[f][g] <= 0 => K[f] = K[g],
         \A f \in F : old[f] <= o => K[f] <= old[f]
  PROVE  \A f \in F : new[f] <= o => K[f] <= new[f]
<1> USE DEF IsPass
<1> DEFINE Bad == {f \in F : new[f] <= o /\ ~(K[f] <= new[f])}
<1>1. SUFFICES ASSUME Bad # {} PROVE FALSE
  OBVIOUS
<1>2. PICK f \in Bad : \A h \in Bad : f <= h
  <2>1. Bad \in SUBSET Nat
    OBVIOUS
  <2> HIDE DEF Bad
  <2> QED
    BY <1>1, <2>1, LeastNat
<1>3. f \in F /\ new[f] <= o /\ ~(K[f] <= new[f]) /\ new[f] = o
  BY <1>2
<1>4. PICK r \in {K[f], old[f]} :
        /\ new[f] <= r
        /\ \/ new[f] = r
           \/ \E h \in F : new[f] = old[h] + apart[f][h]
           \/ \E h \in F : h < f /\ new[f] = new[h] + apart[f][h]
  BY <1>3
<1>5. CASE new[f] = r
  BY <1>3, <1>4, <1>5
<1>6. CASE \E h \in F : new[f] = old[h] + apart[f][h]
  <2>1. PICK h \in F : new[f] = old[h] + apart[f][h]
    BY <1>6
  <2>2. old[h] \in Int /\ apart[f][h] \in Nat /\ o <= old[h] /\ K[h] \in Int /\ K[f] \in Int
    BY <1>3
  <2>3. apart[f][h] <= 0 /\ old[h] <= o
    BY <1>3, <2>1, <2>2
  <2>4. K[f] = K[h] /\ K[h] <= old[h]
    BY <1>3, <2>3
  <2> QED
    BY <1>3, <2>2, <2>3, <2>4
<1>7. CASE \E h \in F : h < f /\ new[f] = new[h] + apart[f][h]
  <2>1. PICK h \in F : h < f /\ new[f] = new[h] + apart[f][h]
    BY <1>7
  <2>2. new[h] \in Int /\ apart[f][h] \in Nat /\ o <= new[h] /\ K[h] \in Int /\ K[f] \in Int /\ h \in Nat /\ f \in Nat
    BY <1>3
  <2>3. apart[f][h] <= 0 /\ new[h] <= o
    BY <1>3, <2>1, <2>2
  <2>4. h \notin Bad
    BY <1>2, <2>1, <2>2
  <2>5. K[f] = K[h] /\ K[h] <= new[h]
    BY <1>3, <2>3, <2>4
  <2> QED
    BY <1>3, <2>2, <2>3, <2>5
<1> QED
  BY <1>4, <1>5, <1>6, <1>7

(* So a pass of load_children keeps what the list promises, and what it    *)
(* bounds it by.                                                           *)
LEMMA RefinedKeeps ==
  ASSUME IInv, Proper(data), NEW key \in DOMAIN vertices, NEW signals,
         NEW K, K = Knowns(data, vertices, children, key), IsKept(data, key, K, bounds[key]),
         Alike(data, key, Followed(children, key))
  PROVE  LET b == Refined(key, signals)
         IN  /\ IsBoundList(data, key, b) /\ IsKept(data, key, K, b)
             /\ \A f \in FeaturesOf(data, key) :
                  \E g \in FeaturesOf(data, key) : b[g].upper <= bounds[key][f].upper
<1> DEFINE F == FeaturesOf(data, key)
           b == Refined(key, signals)
           known(f) == Known(data, vertices, children, key, f)
           old == [f \in F |-> bounds[key][f].upper]
           new == [f \in F |-> b[f].upper]
           apart == [f \in F |-> [g \in F |-> Apart(key, f, g)]]
           o == data.optimum[key]
<1>1. /\ IsGraph(data, vertices, children, edges) /\ key \in Reached(data)
      /\ IsBoundList(data, key, bounds[key]) /\ DOMAIN bounds[key] = F
  BY DEF IInv, VerticesRight, BoundsRight, LinksRight, IsGraph, IsVertex, IsBoundList
<1>2. IsBoundList(data, key, b) /\ UppersFrom(key, signals, b)
  <2>1. \A f \in F : IsSplitBound(data, key, f, Resplit(key, f, signals))
    BY ResplitIs
  <2> QED
    BY <1>1, <2>1, RefinedIs
<1>3. F \in SUBSET Nat /\ IsFiniteSet(F) /\ key[1] \in SUBSET Rows(data)
  BY <1>1, FeatureFacts, KeyFacts
<1>4. ASSUME NEW f \in F
      PROVE  /\ known(f) \in Int /\ Stops(data, key, f) \in Int /\ known(f) <= Stops(data, key, f)
             /\ old[f] \in Int /\ new[f] \in Int
             /\ o \in Int /\ o <= old[f] /\ o <= new[f] /\ K[f] = known(f)
             /\ old[f] = bounds[key][f].upper /\ new[f] = b[f].upper
  <2> HIDE DEF b
  <2>1. known(f) \in Int /\ Stops(data, key, f) \in Int /\ known(f) <= Stops(data, key, f)
    BY <1>1, KnownIs
  <2>2. IsSplitBound(data, key, f, bounds[key][f]) /\ IsSplitBound(data, key, f, b[f])
    BY <1>1, <1>2 DEF IsBoundList
  <2> DEFINE best == SplitLeast(data, Leaves(data), data.optimum, key, f)
  <2>3. o \in Int /\ best \in Int /\ o <= best
    BY <1>1, OptimumBelow
  <2>4. best <= bounds[key][f].upper /\ best <= b[f].upper /\ bounds[key][f].upper \in Int /\ b[f].upper \in Int
    BY <2>2 DEF IsSplitBound
  <2>5. K[f] = known(f)
    BY DEF Knowns
  <2>6. old[f] = bounds[key][f].upper /\ new[f] = b[f].upper
    OBVIOUS
  <2> HIDE DEF best, o, known, old, new
  <2> QED
    BY <2>1, <2>3, <2>4, <2>5, <2>6
<1> HIDE DEF known, old, new, o, b
<1>5. ASSUME NEW f \in F, NEW g \in F PROVE apart[f][g] \in Nat /\ apart[f][g] = Distance(data, key[1], f, g)
  BY <1>3, DistanceNat DEF Apart, Proper
<1>6. ASSUME NEW f \in F
      PROVE  \E r \in {K[f], old[f]} :
               /\ new[f] <= r
               /\ \/ new[f] = r
                  \/ config.similar_support /\ \E g \in F : new[f] = old[g] + apart[f][g]
                  \/ config.similar_support /\ \E g \in F : g < f /\ new[f] = new[g] + apart[f][g]
  <2> DEFINE r == Resplit(key, f, signals).upper
  <2>1. r \in {K[f], old[f]}
    BY <1>4, ResplitKnown DEF known
  <2>2. /\ new[f] <= r
        /\ \/ new[f] = r
           \/ \E g \in After(f, F) : new[f] = bounds[key][g].upper + Apart(key, f, g)
           \/ \E g \in Before(f, F) : new[f] = b[g].upper + Apart(key, f, g)
    BY <1>1, <1>2, <1>4 DEF UppersFrom
  <2>3. \A g \in After(f, F) : config.similar_support /\ g \in F /\ bounds[key][g].upper = old[g]
                                 /\ Apart(key, f, g) = apart[f][g]
    BY <1>4 DEF After
  <2>4. \A g \in Before(f, F) : config.similar_support /\ g \in F /\ g < f /\ b[g].upper = new[g]
                                  /\ Apart(key, f, g) = apart[f][g]
    BY <1>4 DEF Before
  <2> HIDE DEF r, F, apart
  <2> QED
    BY <2>1, <2>2, <2>3, <2>4
<1>7. \A f, g \in F : apart[f][g] \in Nat
  BY <1>5
<1>8. \A f \in F : K[f] \in Int /\ old[f] \in Int /\ new[f] \in Int
  BY <1>4
<1> HIDE DEF F, apart
<1>9. IsPass(F, K, apart, old, new)
  BY <1>3, <1>6, <1>7, <1>8 DEF IsPass
<1>10. \A f \in F : new[f] <= Stops(data, key, f)
  <2> SUFFICES ASSUME NEW f \in F PROVE new[f] <= Stops(data, key, f)
    OBVIOUS
  <2>1. K[f] <= Stops(data, key, f) /\ old[f] <= Stops(data, key, f)
    BY <1>4 DEF IsKept, F
  <2> QED
    BY <1>4, <1>6, <2>1
<1>11. ASSUME F # {}
       PROVE  /\ \E g \in F : K[g] <= new[g] /\ \A f \in F : new[g] <= new[f]
              /\ \E m \in F : \A f \in F : new[m] <= old[f]
  <2>1. PICK m \in F : K[m] <= bounds[key][m].upper /\ \A f \in F : bounds[key][m].upper <= bounds[key][f].upper
    BY <1>11 DEF IsKept, F
  <2>2. K[m] <= old[m] /\ \A f \in F : old[m] <= old[f]
    BY <1>4, <2>1
  <2>3. (\E g \in F : K[g] <= new[g] /\ \A f \in F : new[g] <= new[f]) /\ new[m] <= old[m]
    BY <1>9, <2>2, LeastKept
  <2>4. \A f \in F : new[m] <= old[f]
    BY <1>8, <2>2, <2>3
  <2> QED
    BY <2>3, <2>4
<1>12. ASSUME Exacting(data) PROVE \A f \in F : new[f] <= o => K[f] <= new[f]
  <2>1. \A f \in F : old[f] <= o => K[f] <= old[f]
    BY <1>4, <1>12 DEF IsKept, F, o
  <2>2. CASE config.similar_support
    <3>1. ASSUME NEW f \in F, NEW g \in F, apart[f][g] <= 0 PROVE K[f] = K[g]
      <4>1. SameSides(data, key, f, g)
        BY <1>3, <1>5, <1>12, <2>2, <3>1, NoDistance DEF Exacting, config, Proper
      <4>2. known(f) = known(g)
        BY <1>1, <3>1, <4>1, SameKnown DEF known, F
      <4> QED
        BY <1>4, <4>2
    <3>2. \A f \in F : o <= old[f] /\ o <= new[f]
      BY <1>4
    <3>3. CASE F = {}
      BY <3>3
    <3>4. CASE F # {}
      <4>1. o \in Int
        BY <1>4, <3>4
      <4> QED
        BY <1>9, <2>1, <3>1, <3>2, <4>1, ExactKept
    <3> QED
      BY <3>3, <3>4
  <2>3. CASE ~config.similar_support
    <3>1. \A f \in F : new[f] = K[f] \/ new[f] = old[f]
      BY <1>6, <2>3
    <3> QED
      BY <1>4, <2>1, <3>1
  <2> QED
    BY <2>2, <2>3
<1>13. IsKept(data, key, K, b)
  <2>1. \A f \in F : new[f] = b[f].upper
    BY <1>4
  <2> QED
    BY <1>10, <1>11, <1>12, <2>1 DEF IsKept, F, o
<1>14. \A f \in F : \E g \in F : b[g].upper <= bounds[key][f].upper
  BY <1>4, <1>11
<1> QED
  BY <1>2, <1>13, <1>14 DEF b, F

-----------------------------------------------------------------------------
(* Twins travel together                                                   *)

(* Asks that are made of one child by one feature are made of it by all    *)
(* the features that lead to it, and under the same scope.                 *)
Closed(d, key, asks) ==
  \A a \in asks : \A f, g \in FeaturesOf(d, key), p, q \in BOOLEAN :
    Child(d, key, f, p) = Child(d, key, g, q) /\ a.feature = Signed(f, p) =>
      \E b \in asks : b.feature = Signed(g, q) /\ b.child = a.child /\ b.scope = a.scope

(* send_explorers asks by all of them: it takes a split by its bounds, and *)
(* they are those of the split that makes the same children.               *)
LEMMA AskedClosed ==
  ASSUME Proper(data), NEW key \in Reached(data), NEW t, NEW u, u.features = FeaturesOf(data, key)
  PROVE  Closed(data, key, Asked(key, t, Near(key, u)))
<1> DEFINE near == Near(key, u)
           boundary == IF config.look_ahead THEN Min({t.upper, t.upperscope}) ELSE t.upper
           reserve(sibling) == IF config.rule_list THEN sibling.base ELSE GuaranteedLower(data, sibling)
           scope(c) == boundary - reserve(NewTask(data, c, u.features))
           inScope == {n \in near : NearSplit(n).lower <= boundary /\ NearSplit(n).upper > t.coverage}
           down(n) == [feature |-> Signed(n.feature, FALSE), child |-> Child(data, key, n.feature, FALSE),
                       scope |-> boundary - reserve(n.positive)]
           up(n) == [feature |-> Signed(n.feature, TRUE), child |-> Child(data, key, n.feature, TRUE),
                     scope |-> boundary - reserve(n.negative)]
           ask(f, p) == [feature |-> Signed(f, p), child |-> Child(data, key, f, p),
                         scope |-> scope(Sibling(data, key, f, p))]
           F == FeaturesOf(data, key)
           new(f, p) == NewTask(data, Child(data, key, f, p), u.features)
           split(f) == Split(data, new(f, FALSE), new(f, TRUE))
<1>1. Asked(key, t, near) = {down(n) : n \in inScope} \cup {up(n) : n \in inScope}
  BY DEF Asked
<1> HIDE DEF boundary, reserve
<1>2. ASSUME NEW f \in F
      PROVE  LET n == NearPair(key, u, f)
             IN  /\ n \in near /\ n.feature = f /\ NearSplit(n) = split(f)
                 /\ down(n) = ask(f, FALSE) /\ up(n) = ask(f, TRUE)
  <2> DEFINE n == NearPair(key, u, f)
  <2>1. n \in near /\ n.feature = f /\ n.negative = new(f, FALSE) /\ n.positive = new(f, TRUE)
    BY DEF Near, NearPair, NearChild
  <2>2. Sibling(data, key, f, FALSE) = Child(data, key, f, TRUE) /\ Sibling(data, key, f, TRUE) = Child(data, key, f, FALSE)
    BY DEF Sibling
  <2>3. NearSplit(n) = split(f)
    BY <2>1 DEF NearSplit
  <2>4. down(n) = ask(f, FALSE) /\ up(n) = ask(f, TRUE)
    BY <2>1, <2>2
  <2> QED
    BY <2>1, <2>3, <2>4
<1>3. \A n \in near : \E f \in F : n = NearPair(key, u, f)
  BY DEF Near
<1>4. ASSUME NEW f \in F, NEW g \in F, SameSides(data, key, f, g) PROVE split(f) = split(g)
  <2>1. CASE \A p \in BOOLEAN : Child(data, key, f, p) = Child(data, key, g, p)
    <3>1. Child(data, key, f, FALSE) = Child(data, key, g, FALSE) /\ Child(data, key, f, TRUE) = Child(data, key, g, TRUE)
      BY <2>1
    <3> QED
      BY <3>1
  <2>2. CASE \A p \in BOOLEAN : Child(data, key, f, p) = Child(data, key, g, ~p)
    <3> DEFINE k0 == Child(data, key, f, FALSE)
               k1 == Child(data, key, f, TRUE)
               a == new(f, FALSE)
               b == new(f, TRUE)
    <3>1. k0 = Child(data, key, g, TRUE) /\ k1 = Child(data, key, g, FALSE)
      <4>1. (~FALSE) = TRUE /\ (~TRUE) = FALSE /\ FALSE \in BOOLEAN /\ TRUE \in BOOLEAN
        OBVIOUS
      <4> QED
        BY <2>2, <4>1, Zenon
    <3>2. new(g, TRUE) = a /\ new(g, FALSE) = b
      BY <3>1
    <3>3. IsTask(data, k0, a) /\ IsTask(data, k1, b)
      <4>1. /\ IsTask(data, Child(data, key, f, FALSE), NearPair(key, u, f).negative)
            /\ IsTask(data, Child(data, key, f, TRUE), NearPair(key, u, f).positive)
        <5>1. \A n \in near : /\ IsTask(data, Child(data, key, n.feature, FALSE), n.negative)
                              /\ IsTask(data, Child(data, key, n.feature, TRUE), n.positive)
          BY NearFacts
        <5> QED
          BY <1>2, <5>1
      <4> QED
        BY <4>1 DEF NearPair, NearChild
    <3> HIDE DEF a, b, k0, k1
    <3>4. Split(data, b, a) = Split(data, a, b)
      BY <3>3, SplitUpper
    <3> QED
      BY <3>2, <3>4 DEF a, b
  <2> QED
    BY <1>4, <2>1, <2>2 DEF SameSides
<1> HIDE DEF near, split, new
<1>5. ASSUME NEW f \in F, NEW p \in BOOLEAN, ask(f, p) \in Asked(key, t, near)
      PROVE  split(f).lower <= boundary /\ split(f).upper > t.coverage
  <2>1. PICK n \in inScope : ask(f, p) = down(n) \/ ask(f, p) = up(n)
    BY <1>1, <1>5
  <2>2. PICK g \in F : n = NearPair(key, u, g)
    BY <1>3, <2>1
  <2>3. \E q \in BOOLEAN : ask(f, p) = ask(g, q)
    BY <1>2, <2>1, <2>2
  <2>4. PICK q \in BOOLEAN : Signed(f, p) = Signed(g, q)
    <3>1. PICK q \in BOOLEAN : ask(f, p) = ask(g, q)
      BY <2>3
    <3>2. ask(f, p).feature = Signed(f, p) /\ ask(g, q).feature = Signed(g, q)
      OBVIOUS
    <3> QED
      BY <3>1, <3>2
  <2>5. f = g
    <3>1. F \in SUBSET (Nat \ {0})
      BY FeatureFacts
    <3> QED
      BY <2>4, <3>1, SignedIs
  <2>6. NearSplit(n) = split(f)
    BY <1>2, <2>2, <2>5
  <2> QED
    BY <2>1, <2>6
<1>6. ASSUME NEW f \in F, NEW p \in BOOLEAN, split(f).lower <= boundary, split(f).upper > t.coverage
      PROVE  ask(f, p) \in Asked(key, t, near)
  <2> DEFINE n == NearPair(key, u, f)
  <2>1. n \in inScope
    BY <1>2, <1>6
  <2>2. down(n) \in Asked(key, t, near) /\ up(n) \in Asked(key, t, near)
    BY <1>1, <2>1
  <2>3. down(n) = ask(f, FALSE) /\ up(n) = ask(f, TRUE)
    BY <1>2
  <2>4. CASE p = TRUE
    BY <2>2, <2>3, <2>4
  <2>5. CASE p = FALSE
    BY <2>2, <2>3, <2>5
  <2> QED
    BY <2>4, <2>5
<1>7. ASSUME NEW a \in Asked(key, t, near) PROVE \E f \in F, p \in BOOLEAN : a = ask(f, p)
  <2>1. PICK n \in inScope : a = down(n) \/ a = up(n)
    BY <1>1
  <2>2. PICK f \in F : n = NearPair(key, u, f)
    BY <1>3, <2>1
  <2>3. a = ask(f, FALSE) \/ a = ask(f, TRUE)
    BY <1>2, <2>1, <2>2
  <2> HIDE DEF ask
  <2> QED
    BY <2>3
<1>8. ASSUME NEW a \in Asked(key, t, near), NEW f \in F, NEW g \in F, NEW p \in BOOLEAN, NEW q \in BOOLEAN,
             Child(data, key, f, p) = Child(data, key, g, q), a.feature = Signed(f, p)
      PROVE  \E b \in Asked(key, t, near) : b.feature = Signed(g, q) /\ b.child = a.child /\ b.scope = a.scope
  <2>1. a = ask(f, p)
    <3>1. PICK h \in F, r \in BOOLEAN : a = ask(h, r)
      BY <1>7
    <3>2. a.feature = Signed(h, r)
      BY <3>1
    <3>3. F \in SUBSET (Nat \ {0})
      BY FeatureFacts
    <3>4. Signed(f, p) = Signed(h, r) /\ f \in Nat \ {0} /\ h \in Nat \ {0}
      BY <1>8, <3>2, <3>3
    <3>5. f = h /\ p = r
      BY <3>4, SignedIs
    <3> QED
      BY <3>1, <3>5
  <2>2. split(f) = split(g)
    BY <1>4, <1>8, SharedChild
  <2>3. split(f).lower <= boundary /\ split(f).upper > t.coverage
    BY <1>5, <2>1
  <2>4. ask(g, q) \in Asked(key, t, near)
    BY <1>6, <2>2, <2>3
  <2>5. Sibling(data, key, f, p) = Sibling(data, key, g, q)
    BY <1>8, SameSibling
  <2>6. ask(g, q).feature = Signed(g, q) /\ ask(g, q).child = Child(data, key, g, q) /\ ask(g, q).scope = scope(Sibling(data, key, g, q))
        /\ ask(f, p).child = Child(data, key, f, p) /\ ask(f, p).scope = scope(Sibling(data, key, f, p))
    OBVIOUS
  <2> HIDE DEF ask, scope
  <2> QED
    BY <1>8, <2>1, <2>4, <2>5, <2>6
<1> QED
  BY <1>8 DEF Closed, near

(* A set of messages that says of each feature what it says of its twins.  *)
Even(d, M) ==
  \A x \in M : IsExploration(x) =>
    \A f, g \in FeaturesOf(d, x.key[2]), p, q \in BOOLEAN :
      Child(d, x.key[2], f, p) = Child(d, x.key[2], g, q) /\ Signed(f, p) \in x.features =>
        \E y \in M : y.key = x.key /\ Signed(g, q) \in y.features

Evens(d, m) == IsExploration(m) => Alike(d, m.key[2], m.features)

(* Merged into the queue they make messages each of which does.            *)
LEMMA PushedEven ==
  ASSUME NEW d, NEW V, NEW q, NEW M, \A m \in q \cup M : IsMail(d, V, m),
         \A m \in q : Evens(d, m), Even(d, M), NEW m \in Pushed(q, M)
  PROVE  Evens(d, m)
<1> DEFINE twins(k) == {x \in M : x.key = k}
           features(k) == UNION {x.features : x \in twins(k)}
           scopes(k) == {x.scope : x \in twins(k)}
<1>1. PICK x \in q \cup M : m = [x EXCEPT !.features = @ \cup features(x.key),
                                         !.scope = Max({@} \cup scopes(x.key))]
  <2>1. \A x \in q \cup {y \in M : y.key \notin {z.key : z \in q} /\ y = CHOOSE z \in twins(y.key) : TRUE} :
          x \in q \cup M
    OBVIOUS
  <2> QED
    BY <2>1 DEF Pushed
<1> DEFINE F == x.features \cup features(x.key)
           s == Max({x.scope} \cup scopes(x.key))
<1>2. m.key = x.key /\ m.features = F
  <2>1. x = [key |-> x.key, candidates |-> x.candidates, features |-> x.features,
             scope |-> x.scope, priority |-> x.priority]
    BY <1>1 DEF IsMail
  <2> HIDE DEF features, scopes, F, s
  <2>2. m = [x EXCEPT !.features = F, !.scope = s]
    BY <1>1, <2>1 DEF F, s
  <2> QED
    BY <2>1, <2>2
<1> DEFINE key == m.key[2]
<1>3. ASSUME IsExploration(m), NEW f \in FeaturesOf(d, key), NEW g \in FeaturesOf(d, key), NEW p \in BOOLEAN, NEW r \in BOOLEAN,
             Child(d, key, f, p) = Child(d, key, g, r), Signed(f, p) \in F
      PROVE  Signed(g, r) \in F
  <2>1. key = x.key[2] /\ IsExploration(x)
    BY <1>2, <1>3 DEF IsExploration
  <2>2. CASE \E y \in M : y.key = x.key /\ Signed(f, p) \in y.features
    <3>1. PICK y \in M : y.key = x.key /\ Signed(f, p) \in y.features
      BY <2>2
    <3>2. IsExploration(y) /\ y.key[2] = key
      BY <2>1, <3>1 DEF IsExploration
    <3>3. PICK z \in M : z.key = y.key /\ Signed(g, r) \in z.features
      BY <1>3, <3>1, <3>2 DEF Even
    <3> QED
      BY <3>1, <3>3
  <2>3. CASE x \in q /\ Signed(f, p) \in x.features
    <3>1. Alike(d, key, x.features)
      BY <2>1, <2>3 DEF Evens
    <3>2. Signed(g, r) \in x.features
      BY <1>3, <2>3, <3>1 DEF Alike
    <3> QED
      BY <3>2
  <2> QED
    BY <1>3, <2>2, <2>3
<1> QED
  BY <1>2, <1>3 DEF Evens, Alike

(* What is asked evenly is written evenly.                                 *)
LEMMA LettersEven ==
  ASSUME NEW key, NEW asks, Closed(data, key, asks), NEW t PROVE Even(data, Letters(asks, key, t))
<1> DEFINE letter(a) == Exploration(key, a.child, t.features, {a.feature}, a.scope, Priority(key, t))
           M == Letters(asks, key, t)
<1>1. M = {letter(a) : a \in asks}
  BY DEF Letters
<1>2. \A a \in asks : letter(a).key = <<"exploration", key, a.child>> /\ letter(a).features = {a.feature}
                      /\ letter(a).key[2] = key
  BY DEF Exploration
<1> HIDE DEF letter
<1>3. ASSUME NEW x \in M, NEW f \in FeaturesOf(data, x.key[2]), NEW g \in FeaturesOf(data, x.key[2]),
             NEW p \in BOOLEAN, NEW q \in BOOLEAN,
             Child(data, x.key[2], f, p) = Child(data, x.key[2], g, q), Signed(f, p) \in x.features
      PROVE  \E y \in M : y.key = x.key /\ Signed(g, q) \in y.features
  <2>1. PICK a \in asks : x = letter(a)
    BY <1>1
  <2>2. x.key[2] = key /\ a.feature = Signed(f, p)
    BY <1>2, <1>3, <2>1
  <2>3. PICK b \in asks : b.feature = Signed(g, q) /\ b.child = a.child
    BY <1>3, <2>2 DEF Closed
  <2>4. letter(b) \in M /\ letter(b).key = x.key /\ Signed(g, q) \in letter(b).features
    BY <1>1, <1>2, <2>1, <2>3
  <2> QED
    BY <2>4
<1> QED
  BY <1>3 DEF Even

(* Children are told of a new scope by all twins or by none.               *)
LEMMA UntoldClosed ==
  ASSUME NEW key, NEW asked, Closed(data, key, asked), NEW C, Alike(data, key, Followed(C, key)),
         FeaturesOf(data, key) \in SUBSET (Nat \ {0})
  PROVE  Closed(data, key, asked \ Told(asked, key, C))
<1> DEFINE told == Told(asked, key, C)
<1>1. ASSUME NEW a \in asked \ told, NEW f \in FeaturesOf(data, key), NEW g \in FeaturesOf(data, key),
             NEW p \in BOOLEAN, NEW q \in BOOLEAN,
             Child(data, key, f, p) = Child(data, key, g, q), a.feature = Signed(f, p)
      PROVE  \E b \in asked \ told : b.feature = Signed(g, q) /\ b.child = a.child /\ b.scope = a.scope
  <2>1. PICK b \in asked : b.feature = Signed(g, q) /\ b.child = a.child /\ b.scope = a.scope
    BY <1>1 DEF Closed
  <2>2. Signed(f, p) \in Int /\ Signed(g, q) \in Int
    BY SignedIs
  <2>3. b \notin told
    <3>1. SUFFICES ASSUME b \in told PROVE a \in told
      BY <1>1
    <3>2. <<key, Signed(g, q)>> \in DOMAIN C /\ a.scope < vertices[a.child].upperscope
      BY <2>1, <3>1 DEF Told
    <3>3. <<key, Signed(f, p)>> \in DOMAIN C
      BY <1>1, <2>2, <3>2 DEF Alike, Followed
    <3> QED
      BY <1>1, <3>2, <3>3 DEF Told
  <2> QED
    BY <2>1, <2>3
<1> QED
  BY <1>1 DEF Closed

(* The invariant: links and requests know no difference between twins.     *)
TwinsRight ==
  /\ \A key \in Reached(data) : Alike(data, key, Followed(children, key))
  /\ \A m \in queue : Evens(data, m)
  /\ \A w \in Workers : Evens(data, inbound[w])

(* An exploration keeps twins together.                                    *)
LEMMA ExploreKeepsTwins ==
  ASSUME IInv, Proper(data), TwinsRight, NEW w \in Workers, Explore(w) PROVE TwinsRight'
<1> DEFINE m == inbound[w]
           key == m.key[3]
           fresh == Fresh(key, m)
           near == Near(key, fresh)
           task == Stored(key, m, fresh, near)
           links == LinksTo(m, key)
           parents == ParentsTo(m, key)
           wanted == WantedBy(m, task)
           asked == AskedBy(m, key, task, wanted, near)
           told == Told(asked, key, links)
           V == DOMAIN vertices
           V1 == V \cup {key}
           asks == asked \ told
           M == Signals(key, task, parents)
           N == Letters(asks, key, wanted)
           G == IF IsRoot(key) THEN edges ELSE Over(Entry(key, parents), edges)
<1>1. /\ Explores(w, m, key, near, task, links, parents, wanted, asked, told)
      /\ pc[w] = "dispatch" /\ IsExploration(m) /\ Dispatched(w)
  BY ExploreIs
<1>2. IsMail(data, V, m) /\ Evens(data, m)
  BY <1>1 DEF IInv, MailRight, TwinsRight
<1>3. /\ IsRequest(data, V, m) /\ m.scope \in Int /\ key \in Reached(data)
      /\ IsVertex(data, key, wanted)
      /\ IsFiniteSet(asked) /\ \A a \in asked : IsAsk(data, key, a)
  BY <1>1, <1>2, TaskIs
<1>4. Closed(data, key, asked)
  <2>1. Candidates(data, key, m.candidates)
    BY <1>3 DEF IsRequest
  <2>2. fresh.features = FeaturesOf(data, key)
    BY <1>3, <2>1, FreshIs DEF IsVertex
  <2> HIDE DEF fresh, key, wanted
  <2>3. Closed(data, key, Asked(key, wanted, near))
    BY <1>3, <2>2, AskedClosed
  <2>4. Closed(data, key, {})
    BY DEF Closed
  <2> QED
    BY <2>3, <2>4 DEF AskedBy
<1>5. AreEdges(data, V1, links, key, parents)
  <2>1. key = m.key[3] /\ parents = ParentsTo(m, key) /\ links = LinksTo(m, key)
        /\ G = IF IsRoot(key) THEN edges ELSE Over(Entry(key, parents), edges)
    BY DEF G
  <2> HIDE DEF key, parents, links, G, near, task, asked, wanted, m
  <2> QED
    BY <1>3, <2>1, ExploreKeepsLinks
<1>6. ASSUME NEW k \in Reached(data), NEW f \in FeaturesOf(data, k), NEW g \in FeaturesOf(data, k),
             NEW p \in BOOLEAN, NEW q \in BOOLEAN, Child(data, k, f, p) = Child(data, k, g, q),
             <<k, Signed(f, p)>> \in DOMAIN links
      PROVE  <<k, Signed(g, q)>> \in DOMAIN links
  <2>1. FeaturesOf(data, k) \in SUBSET (Nat \ {0})
    BY FeatureFacts
  <2>2. Signed(f, p) \in Int /\ Signed(g, q) \in Int
    BY <2>1, SignedIs
  <2>3. <<k, Signed(f, p)>> \in DOMAIN children => <<k, Signed(g, q)>> \in DOMAIN children
    BY <1>6, <2>2 DEF TwinsRight, Alike, Followed
  <2>4. CASE IsRoot(key)
    BY <1>6, <2>3, <2>4 DEF LinksTo
  <2>5. CASE ~IsRoot(key)
    <3>1. DOMAIN links = DOMAIN children \cup ({m.key[2]} \X m.features)
      <4>1. links = Linked(m.key[2], m.features, key)
        BY <2>5 DEF LinksTo
      <4> HIDE DEF m, key, links
      <4>2. IsLinked(children, m.key[2], m.features, key, Linked(m.key[2], m.features, key))
        BY ONLY LinkedIs
      <4> QED
        BY <4>1, <4>2 DEF IsLinked
    <3>2. CASE <<k, Signed(f, p)>> \in DOMAIN children
      BY <2>3, <3>1, <3>2
    <3>3. CASE k = m.key[2] /\ Signed(f, p) \in m.features
      <4>1. Alike(data, k, m.features)
        BY <1>1, <1>2, <3>3 DEF Evens
      <4>2. Signed(g, q) \in m.features
        BY <1>6, <3>3, <4>1 DEF Alike
      <4> QED
        BY <3>1, <3>3, <4>2
    <3> HIDE DEF m, key, links
    <3> QED
      BY <1>6, <3>1, <3>2, <3>3
  <2> QED
    BY <2>4, <2>5
<1>7. \A k \in Reached(data) : Alike(data, k, Followed(links, k))
  <2> SUFFICES ASSUME NEW k \in Reached(data), NEW f \in FeaturesOf(data, k), NEW g \in FeaturesOf(data, k),
                      NEW p \in BOOLEAN, NEW q \in BOOLEAN, Child(data, k, f, p) = Child(data, k, g, q),
                      Signed(f, p) \in Followed(links, k)
               PROVE  Signed(g, q) \in Followed(links, k)
    BY DEF Alike
  <2>1. FeaturesOf(data, k) \in SUBSET (Nat \ {0})
    BY FeatureFacts
  <2>2. Signed(g, q) \in Int
    BY <2>1, SignedIs
  <2> HIDE DEF links
  <2> QED
    BY <1>6, <2>2 DEF Followed
<1>8. data' = data /\ children' = links /\ queue' = Pushed(Pushed(queue, M), N) /\ inbound' = [inbound EXCEPT ![w] = NoMessage]
  BY <1>1 DEF Explores, Dispatched
<1>9. Even(data, N)
  <2>1. FeaturesOf(data, key) \in SUBSET (Nat \ {0}) /\ Alike(data, key, Followed(links, key))
    BY <1>3, <1>7, FeatureFacts
  <2> HIDE DEF key, asked, links, wanted
  <2>2. Closed(data, key, asks)
    BY <1>4, <2>1, UntoldClosed
  <2> QED
    BY <2>2, LettersEven
<1>10. told \subseteq asked
  BY DEF Told
<1> HIDE DEF m, key, near, links, parents, wanted, asked, told, task
<1>11. \A x \in M : IsMail(data, V1, x) /\ ~IsExploration(x)
  <2>1. \A x \in M : IsMail(data, V1, x)
    BY <1>5, SignalsAre DEF M, AreEdges
  <2>2. \A x \in M : x.key[1] = "exploitation"
    BY DEF Signals, Exploitation
  <2> HIDE DEF M
  <2> QED
    BY <2>1, <2>2 DEF IsExploration
<1>12. IsFiniteSet({x.scope : x \in M})
  BY <1>5, SignalsAre DEF M, AreEdges
<1>13. \A x \in N : IsMail(data, V1, x)
  <2>1. IsFiniteSet(asks) /\ \A a \in asks : IsAsk(data, key, a)
    BY <1>3, <1>10, FS_Subset
  <2>2. wanted.features = FeaturesOf(data, key)
    BY <1>3 DEF IsVertex
  <2> HIDE DEF asks
  <2> QED
    BY <1>3, <2>1, <2>2, LettersAre DEF N
<1>14. \A x \in queue : IsMail(data, V1, x) /\ Evens(data, x)
  BY MailStays DEF IInv, MailRight, TwinsRight
<1> HIDE DEF M, N, V1
<1> DEFINE q == Pushed(queue, M)
<1>15. \A x \in q : IsMail(data, V1, x) /\ Evens(data, x)
  <2>1. \A x \in queue \cup M : IsMail(data, V1, x)
    BY <1>11, <1>14
  <2>2. Even(data, M)
    BY <1>11 DEF Even
  <2>3. \A x \in queue : Evens(data, x)
    BY <1>14
  <2>4. \A x \in q : IsMail(data, V1, x)
    BY ONLY <1>12, <2>1, PushedIs
  <2>5. \A x \in q : Evens(data, x)
    BY ONLY <2>1, <2>2, <2>3, PushedEven
  <2> QED
    BY <2>4, <2>5
<1> HIDE DEF q
<1>16. \A x \in Pushed(q, N) : Evens(data, x)
  <2>1. \A x \in q \cup N : IsMail(data, V1, x)
    BY <1>13, <1>15
  <2>2. \A x \in q : Evens(data, x)
    BY <1>15
  <2> QED
    BY ONLY <1>9, <2>1, <2>2, PushedEven
<1>17. \A v \in Workers : Evens(data, inbound'[v])
  <2>1. ~IsExploration(NoMessage)
    BY DEF NoMessage, Exploitation, IsExploration
  <2> QED
    BY <1>8, <2>1 DEF TwinsRight, Evens, IInv, ControlRight
<1> QED
  BY <1>7, <1>8, <1>16, <1>17 DEF TwinsRight, q

(* So does an exploitation, which asks for nothing.                        *)
LEMMA ExploitKeepsTwins ==
  ASSUME IInv, Proper(data), TwinsRight, NEW w \in Workers, Exploit(w) PROVE TwinsRight'
<1> DEFINE key == inbound[w].key[2]
           self == vertices[key]
           splits == Refined(key, inbound[w].features)
           offered == OfferedBy(self, splits)
           task == UpdatedBy(self, offered)
           V == DOMAIN vertices
           M == Signals(key, task, edges[key])
<1>1. /\ IF Skips(self) THEN UNCHANGED <<queue, vertices, bounds>> /\ KeepRoot(w)
                        ELSE Exploits(w, key, self, splits, offered, task)
      /\ pc[w] = "dispatch" /\ ~IsExploration(inbound[w]) /\ Dispatched(w)
      /\ UNCHANGED <<children, edges>>
  BY ExploitIs
<1>2. key \in V
  <2>1. IsMail(data, V, inbound[w])
    BY <1>1 DEF IInv, MailRight
  <2> QED
    BY <1>1, <2>1, RequestIs DEF IsSignal
<1>3. data' = data /\ children' = children /\ inbound' = [inbound EXCEPT ![w] = NoMessage]
  BY <1>1 DEF Dispatched
<1> HIDE DEF splits, offered, task
<1>4. queue' = queue \/ (~IsRoot(key) /\ queue' = Pushed(queue, M))
  BY <1>1 DEF Exploits
<1>5. ASSUME ~IsRoot(key), NEW x \in Pushed(queue, M) PROVE Evens(data, x)
  <2>1. key \in Reached(data) /\ key # Root(data)
    BY <1>2, <1>5, RootIs DEF IInv, VerticesRight, IsVertex
  <2>2. \A k \in DOMAIN edges[key] : IsEdge(data, V, children, key, k, edges[key][k])
    BY <1>2, <2>1 DEF IInv, LinksRight, Linking
  <2>3. \A y \in M : IsMail(data, V, y)
    BY <2>2, SignalsAre
  <2>4. \A y \in M : ~IsExploration(y)
    <3>1. \A y \in M : y.key[1] = "exploitation"
      BY DEF Signals, Exploitation
    <3> HIDE DEF M
    <3> QED
      BY <3>1 DEF IsExploration
  <2>5. \A y \in queue : IsMail(data, V, y) /\ Evens(data, y)
    BY DEF IInv, MailRight, TwinsRight
  <2> HIDE DEF M, V
  <2>6. \A y \in queue \cup M : IsMail(data, V, y)
    BY <2>3, <2>5
  <2>7. Even(data, M)
    BY <2>4 DEF Even
  <2> QED
    BY ONLY <1>5, <2>5, <2>6, <2>7, PushedEven
<1>6. \A x \in queue' : Evens(data, x)
  BY <1>4, <1>5 DEF TwinsRight
<1>7. \A v \in Workers : Evens(data, inbound'[v])
  <2>1. ~IsExploration(NoMessage)
    BY DEF NoMessage, Exploitation, IsExploration
  <2> QED
    BY <1>3, <2>1 DEF TwinsRight, Evens, IInv, ControlRight
<1> QED
  BY <1>3, <1>6, <1>7 DEF TwinsRight

(* And every step.                                                         *)
LEMMA TwinsKept ==
  ASSUME IInv, Proper(data), TwinsRight, [Next]_vars PROVE TwinsRight'
<1>1. CASE \E w \in Workers : Pop(w)
  <2>0. PICK w \in Workers : Pop(w)
    BY <1>1
  <2>1. data' = data /\ children' = children /\ (\A x \in queue' : x \in queue)
        /\ \A v \in Workers : inbound'[v] = inbound[v] \/ inbound'[v] \in queue
    BY <2>0 DEF Pop, IInv, ControlRight
  <2> QED
    BY <2>1 DEF TwinsRight
<1>2. CASE \E w \in Workers : Explore(w)
  BY <1>2, ExploreKeepsTwins
<1>3. CASE \E w \in Workers : Exploit(w)
  BY <1>3, ExploitKeepsTwins
<1>4. CASE \E w \in Workers : Check(w)
  BY <1>4 DEF Check, TwinsRight
<1>5. CASE UNCHANGED vars
  BY <1>5 DEF vars, TwinsRight
<1> QED
  BY <1>1, <1>2, <1>3, <1>4, <1>5 DEF Next

(* It holds of a search that has not begun.                                *)
LEMMA TwinsStart == ASSUME Init PROVE TwinsRight
<1>1. DOMAIN <<>> = {}
  OBVIOUS
<1>2. \A key : Followed(children, key) = {}
  BY <1>1 DEF Init, Followed
<1>3. \A m \in queue : m.features = {}
  BY DEF Init, Exploration
<1>4. ~IsExploration(NoMessage)
  BY DEF NoMessage, Exploitation, IsExploration
<1>5. \A w \in Workers : inbound[w] = NoMessage
  BY DEF Init
<1> QED
  BY <1>2, <1>3, <1>4, <1>5 DEF TwinsRight, Evens, Alike

-----------------------------------------------------------------------------
(* What an upper bound comes from                                          *)

(* Task::update takes the smaller of two upper bounds.                     *)
LEMMA UpdatedUpper ==
  ASSUME NEW d, NEW t \in Tasks, NEW lo, NEW up \in Int
  PROVE  /\ Updated(d, t, lo, up).upper \in {t.upper, up}
         /\ Updated(d, t, lo, up).upper <= t.upper /\ Updated(d, t, lo, up).upper <= up
<1> DEFINE high == Min({t.upper, up})
<1>1. Updated(d, t, lo, up).upper = high
  BY DEF Updated, Tasks
<1>2. t.upper \in Int
  BY DEF Tasks
<1>3. high = IF t.upper <= up THEN t.upper ELSE up
  BY <1>2, MinOfTwo
<1> HIDE DEF high
<1> QED
  BY <1>1, <1>2, <1>3

IsOfferedUpper(d, key, b, o) ==
  o.upper \in Int /\ (o.upper = Leaf(d, key[1]) \/ \E f \in FeaturesOf(d, key) : o.upper = b[f].upper)

(* A vertex is offered its leaf or the upper bound of a split.             *)
LEMMA OfferedUpper ==
  ASSUME NEW d, Proper(d), NEW key \in Reached(d), NEW t, IsTask(d, key, t), NEW b, IsBoundList(d, key, b)
  PROVE  IsOfferedUpper(d, key, b, Offered(t, {b[f] : f \in FeaturesOf(d, key)}))
<1> DEFINE F == FeaturesOf(d, key)
           splits == {b[f] : f \in F}
           inScope == {s \in splits : s.lower <= t.upperscope}
           high == [s \in inScope |-> s.upper]
           highs == {high[s] : s \in inScope}
           uppers == {t.base} \cup highs
<1>1. t.base \in Int /\ t.base = Leaf(d, key[1])
  BY DEF IsTask, Tasks
<1>2. \A f \in F : b[f].upper \in Int
  BY DEF IsBoundList, IsSplitBound
<1>3. IsFiniteSet(F)
  BY FeatureFacts
<1> HIDE DEF F
<1>4. IsFiniteSet(inScope) /\ inScope \subseteq splits
  <2>1. IsFiniteSet({b[f] : f \in F})
    BY <1>3, ImageFinite
  <2> QED
    BY <2>1, FS_Subset
<1>5. \A x \in highs : \E f \in F : x = b[f].upper
  OBVIOUS
<1>6. Offered(t, splits).upper = Min(uppers)
  <2>1. highs = {s.upper : s \in inScope}
    OBVIOUS
  <2>2. Offered(t, splits).upper = Min({t.base} \cup {s.upper : s \in inScope})
    BY DEF Offered
  <2> HIDE DEF highs, inScope
  <2> QED
    BY <2>1, <2>2
<1> HIDE DEF inScope, splits
<1>7. IsFiniteSet(highs)
  <2> HIDE DEF high
  <2> QED
    BY <1>4, ImageFinite
<1> HIDE DEF high, highs
<1>8. IsFiniteSet(uppers) /\ uppers \in SUBSET Int /\ uppers # {}
  <2>1. IsFiniteSet({t.base})
    BY FS_Singleton
  <2>2. IsFiniteSet(uppers)
    BY <1>7, <2>1, FS_Union
  <2> QED
    BY <1>1, <1>2, <1>5, <2>2
<1>9. \A x \in uppers : x = Leaf(d, key[1]) \/ \E f \in F : x = b[f].upper
  BY <1>1, <1>5
<1> HIDE DEF uppers
<1>10. Min(uppers) \in uppers
  BY <1>8, MinIs
<1> QED
  BY <1>6, <1>8, <1>9, <1>10 DEF F, splits, IsOfferedUpper

(* A split of new children costs its two leaves.                           *)
LEMMA NearUpper ==
  ASSUME Proper(data), NEW key \in Reached(data), NEW t, t.features = FeaturesOf(data, key), NEW f \in FeaturesOf(data, key)
  PROVE  BoundList(t.features, Near(key, t))[f].upper = Stops(data, key, f)
<1> DEFINE near == Near(key, t)
           n == CHOOSE x \in near : x.feature = f
           k0 == Child(data, key, f, FALSE)
           k1 == Child(data, key, f, TRUE)
<1>1. n \in near /\ n.feature = f
  <2>1. NearPair(key, t, f) \in near /\ NearPair(key, t, f).feature = f
    BY DEF Near, NearPair
  <2> HIDE DEF near
  <2> QED
    BY <2>1
<1>2. IsTask(data, k0, n.negative) /\ IsTask(data, k1, n.positive)
  BY <1>1, NearFacts
<1>3. n = NearPair(key, t, f)
  <2> HIDE DEF n
  <2>1. PICK g \in t.features : n = NearPair(key, t, g)
    BY <1>1 DEF Near
  <2>2. g = f
    BY <1>1, <2>1 DEF NearPair
  <2> QED
    BY <2>1, <2>2
<1>4. n.negative = NearChild(key, t, f, FALSE) /\ n.positive = NearChild(key, t, f, TRUE)
  <2> HIDE DEF n
  <2> QED
    BY <1>3 DEF NearPair
<1>5. BoundList(t.features, near)[f] = Split(data, n.negative, n.positive)
  BY DEF BoundList, NearSplit
<1> HIDE DEF n, near
<1> DEFINE a == n.negative
           b == n.positive
<1>6. a.upper = a.base /\ b.upper = b.base
  BY <1>4 DEF NearChild, NewTask
<1>7. a.base = Leaf(data, k0[1]) /\ b.base = Leaf(data, k1[1]) /\ a.base \in Int /\ b.base \in Int
  BY <1>2 DEF IsTask, Tasks
<1> HIDE DEF k0, k1
<1>8. IsTask(data, k0, a) /\ IsTask(data, k1, b)
  BY <1>2
<1> HIDE DEF a, b
<1>9. Split(data, a, b).upper = a.base + b.base
  BY <1>6, <1>8, SplitUpper
<1>10. BoundList(t.features, near)[f].upper = Leaf(data, k0[1]) + Leaf(data, k1[1])
  BY <1>5, <1>7, <1>9 DEF a, b
<1> QED
  BY <1>10 DEF near, k0, k1, Stops

(* The guess caps the root, and there is nothing else it does.             *)
IsGuess(d, key, u) == key = Root(d) /\ d.config.upperbound_guess > 0 /\ u = d.config.upperbound_guess

(* What store_self, store_children and the cap leave of the upper bound.   *)
LEMMA StoredUpper ==
  ASSUME Proper(data), NEW key \in Reached(data), NEW m, m.scope \in Int,
         NEW fresh, IsVertex(data, key, fresh), fresh.upper = Leaf(data, key[1]),
         key \in DOMAIN vertices => IsVertex(data, key, vertices[key])
  PROVE  LET u == Stored(key, m, fresh, Near(key, fresh)).upper
         IN  \/ key \in DOMAIN vertices /\ u = vertices[key].upper
             \/ u = Leaf(data, key[1])
             \/ \E f \in FeaturesOf(data, key) : u = Stops(data, key, f)
             \/ IsGuess(data, key, u)
<1> DEFINE near == Near(key, fresh)
           self == IF key \in DOMAIN vertices THEN Scoped(vertices[key], m.scope) ELSE fresh
           offered == Offered(self, NearSplits(near))
           task == Updated(data, self, offered.lower, offered.upper)
           u == Stored(key, m, fresh, near)
           leaf == Leaf(data, key[1])
           F == FeaturesOf(data, key)
<1>1. /\ IsTask(data, key, self) /\ self \in Tasks
      /\ \/ key \in DOMAIN vertices /\ self.upper = vertices[key].upper
         \/ self.upper = leaf
  <2>1. CASE key \in DOMAIN vertices
    <3>1. IsTask(data, key, vertices[key]) /\ vertices[key] \in Tasks
      BY <2>1 DEF IsVertex, IsTask
    <3>2. SameBut(vertices[key], Scoped(vertices[key], m.scope))
      BY <3>1, ScopedIs
    <3>3. IsTask(data, key, Scoped(vertices[key], m.scope))
      BY <3>1, <3>2, SameIsTask
    <3>4. self = Scoped(vertices[key], m.scope)
      BY <2>1
    <3> QED
      BY <2>1, <3>2, <3>3, <3>4 DEF SameBut
  <2>2. CASE key \notin DOMAIN vertices
    BY <2>2 DEF IsVertex, IsTask
  <2> QED
    BY <2>1, <2>2
<1>2. offered.upper \in Int /\ (offered.upper = leaf \/ \E f \in F : offered.upper = Stops(data, key, f))
  <2> DEFINE b == BoundList(fresh.features, near)
  <2>1. fresh.features = F
    BY DEF IsVertex
  <2>2. IsBoundList(data, key, b) /\ NearSplits(near) = {b[f] : f \in F}
    BY <2>1, NearFacts
  <2>3. \A f \in F : b[f].upper = Stops(data, key, f)
    BY <2>1, NearUpper
  <2> HIDE DEF self, b, near
  <2>4. IsOfferedUpper(data, key, b, Offered(self, {b[f] : f \in FeaturesOf(data, key)}))
    BY <1>1, <2>2, OfferedUpper
  <2>5. IsOfferedUpper(data, key, b, offered)
    BY <2>2, <2>4
  <2> HIDE DEF offered
  <2> QED
    BY <2>3, <2>5 DEF IsOfferedUpper
<1>3. u = IF IsRoot(key) THEN Updated(data, task, task.lower, RootUpper) ELSE task
  BY DEF Stored
<1>4. IsOffer(data, key, offered)
  <2> DEFINE b == BoundList(fresh.features, near)
  <2>1. fresh.features = F
    BY DEF IsVertex
  <2>2. IsBoundList(data, key, b) /\ NearSplits(near) = {b[f] : f \in F}
    BY <2>1, NearFacts
  <2> HIDE DEF self, b, near
  <2>3. IsOffer(data, key, Offered(self, {b[f] : f \in F}))
    BY <1>1, <2>2, OfferedIs
  <2> QED
    BY <2>2, <2>3
<1> HIDE DEF self, offered, near, u
<1>5. task.upper \in {self.upper, offered.upper} /\ IsTask(data, key, task) /\ task \in Tasks
  <2>1. task.upper \in {self.upper, offered.upper}
    BY <1>1, <1>2, UpdatedUpper
  <2>2. IsTask(data, key, task)
    BY <1>1, <1>4, UpdatedIs DEF IsOffer
  <2> HIDE DEF task
  <2> QED
    BY <2>1, <2>2 DEF IsTask
<1> HIDE DEF task, F, leaf
<1>6. \/ key \in DOMAIN vertices /\ task.upper = vertices[key].upper
      \/ task.upper = leaf
      \/ \E f \in F : task.upper = Stops(data, key, f)
  BY <1>1, <1>2, <1>5
<1>7. CASE ~IsRoot(key)
  BY <1>3, <1>6, <1>7 DEF u, near, F, leaf
<1>8. CASE IsRoot(key)
  <2>1. key = Root(data) /\ RootUpper \in Int
    BY <1>8, RootIs, RootUpperIs
  <2>2. u.upper \in {task.upper, RootUpper} /\ u.upper <= task.upper
    BY <1>3, <1>5, <1>8, <2>1, UpdatedUpper
  <2>3. task.upper <= leaf /\ leaf <= data.config.one /\ leaf \in Int /\ data.config.one \in Int /\ task.upper \in Int
        /\ data.config.upperbound_guess \in Int
    <3>1. leaf <= data.config.one /\ leaf \in Int
      BY KeyFacts DEF leaf
    <3>2. task.upper <= leaf /\ task.upper \in Int
      BY <1>5 DEF IsTask, Tasks, leaf
    <3>3. data.config.one \in Int /\ data.config.upperbound_guess \in Int
      BY DEF Proper, IsDataset, IsConfiguration
    <3> QED
      BY <3>1, <3>2, <3>3
  <2>4. RootUpper = data.config.one \/ (data.config.upperbound_guess > 0 /\ RootUpper = data.config.upperbound_guess)
    <3> DEFINE one == data.config.one
               guess == data.config.upperbound_guess
    <3>1. RootUpper = IF guess > 0 THEN Min({one, guess}) ELSE one
      BY DEF RootUpper, config
    <3>2. one \in Int /\ guess \in Int
      BY <2>3
    <3> HIDE DEF one, guess
    <3>3. Min({one, guess}) = IF one <= guess THEN one ELSE guess
      BY <3>2, MinOfTwo
    <3> QED
      BY <3>1, <3>2, <3>3 DEF one, guess
  <2>5. CASE u.upper = task.upper
    BY <1>6, <2>5 DEF u, near, F, leaf
  <2>6. CASE u.upper # task.upper /\ RootUpper = data.config.one
    BY <2>2, <2>3, <2>6
  <2>7. CASE u.upper # task.upper /\ data.config.upperbound_guess > 0 /\ RootUpper = data.config.upperbound_guess
    <3>1. IsGuess(data, key, u.upper)
      BY <2>1, <2>2, <2>7 DEF IsGuess
    <3> QED
      BY <3>1 DEF u, near
  <2> QED
    BY <2>4, <2>5, <2>6, <2>7
<1> QED
  BY <1>7, <1>8

-----------------------------------------------------------------------------
(* The bound lists keep their promise                                      *)

(* What a vertex's upper bound u rests on: its leaf, a split in its list   *)
(* or, at the root, the guess.                                             *)
IsBacked(d, key, u, b) ==
  u = Leaf(d, key[1]) \/ (\E f \in FeaturesOf(d, key) : b[f].upper <= u) \/ IsGuess(d, key, u)

ModelsRight ==
  \A key \in DOMAIN vertices :
    /\ IsKept(data, key, Knowns(data, vertices, children, key), bounds[key])
    /\ IsBacked(data, key, vertices[key].upper, bounds[key])

(* A list that is not touched is kept in the tightened graph.              *)
LEMMA ListStays ==
  ASSUME IInv, IInv', Proper(data), data' = data, Tightened, DOMAIN children \subseteq DOMAIN children',
         NEW key \in DOMAIN vertices, NEW b, IsBoundList(data, key, b),
         IsKept(data, key, Knowns(data, vertices, children, key), b)
  PROVE  IsKept(data, key, Knowns(data, vertices', children', key), b)
<1> DEFINE V == vertices
           W == vertices'
           C == children
           D == children'
           F == FeaturesOf(data, key)
           K == Knowns(data, V, C, key)
           L == Knowns(data, W, D, key)
<1>1. IsGraph(data, V, C, edges)
  BY DEF IInv, VerticesRight, LinksRight, IsGraph
<1>2. IsGraph(data, W, D, edges')
  BY DEF IInv, VerticesRight, LinksRight, IsGraph
<1>3. DOMAIN V \subseteq DOMAIN W /\ \A k \in DOMAIN V : W[k].upper <= V[k].upper
  BY DEF Tightened, Tightens
<1>4. key \in DOMAIN W
  BY <1>3
<1>5. DOMAIN C \subseteq DOMAIN D
  OBVIOUS
<1> HIDE DEF V, W, C, D
<1>6. ASSUME NEW f \in F PROVE K[f] \in Int /\ L[f] \in Int /\ L[f] <= K[f]
  <2>1. K[f] = Known(data, V, C, key, f) /\ L[f] = Known(data, W, D, key, f)
    BY DEF Knowns
  <2>2. Known(data, V, C, key, f) \in Int
    BY <1>1, KnownIs DEF V
  <2>3. Known(data, W, D, key, f) \in Int
    BY <1>2, <1>4, KnownIs
  <2>4. key \in DOMAIN V
    BY DEF V
  <2>5. Known(data, W, D, key, f) <= Known(data, V, C, key, f)
    BY <1>1, <1>2, <1>3, <1>5, <2>4, KnownShrinks
  <2> QED
    BY <2>1, <2>2, <2>3, <2>5
<1> HIDE DEF K, L
<1>7. \A f \in F : b[f].upper \in Int
  BY DEF IsBoundList, IsSplitBound
<1>8. IsKept(data, key, K, b)
  BY DEF K, V, C
<1>9. IsKept(data, key, L, b)
  BY ONLY <1>6, <1>7, <1>8, StaysKept
<1> QED
  BY <1>9 DEF L, W, D

(* A vertex that is new has a list of leaves.                              *)
LEMMA LeavesKept ==
  ASSUME NEW d, Proper(d), NEW V, NEW C, NEW E, IsGraph(d, V, C, E), NEW key \in DOMAIN V,
         NEW b, \A f \in FeaturesOf(d, key) : b[f].upper = Stops(d, key, f)
  PROVE  IsKept(d, key, Knowns(d, V, C, key), b)
<1> DEFINE F == FeaturesOf(d, key)
           K == Knowns(d, V, C, key)
           up == [f \in F |-> b[f].upper]
           ups == {up[f] : f \in F}
<1>1. ASSUME NEW f \in F PROVE K[f] <= b[f].upper /\ b[f].upper \in Int /\ b[f].upper <= Stops(d, key, f)
  <2>1. K[f] = Known(d, V, C, key, f)
    BY DEF Knowns
  <2>2. Known(d, V, C, key, f) \in Int /\ Stops(d, key, f) \in Int /\ Known(d, V, C, key, f) <= Stops(d, key, f)
    BY KnownIs
  <2> QED
    BY <2>1, <2>2
<1>2. IsFiniteSet(F)
  BY FeatureFacts DEF IsGraph, IsVertex
<1>3. \A f \in F : up[f] = b[f].upper
  OBVIOUS
<1> HIDE DEF K, F, up
<1>4. ASSUME F # {} PROVE \E g \in F : K[g] <= b[g].upper /\ \A f \in F : b[g].upper <= b[f].upper
  <2>1. IsFiniteSet(ups)
    BY <1>2, ImageFinite
  <2>2. ups \in SUBSET Int /\ ups # {}
    BY <1>1, <1>3, <1>4
  <2> DEFINE least == Min(ups)
  <2>3. least \in ups /\ \A y \in ups : least <= y
    <3> HIDE DEF ups
    <3> QED
      BY <2>1, <2>2, MinIs
  <2> HIDE DEF least
  <2>4. PICK g \in F : least = up[g]
    BY <2>3
  <2>5. \A f \in F : up[g] <= up[f]
    BY <2>3, <2>4
  <2> QED
    BY <1>1, <1>3, <2>5
<1> QED
  BY <1>1, <1>4 DEF IsKept, K, F

(* A new task's upper bound is its leaf.                                   *)
LEMMA FreshUpper ==
  ASSUME Proper(data), NEW key \in Reached(data), NEW m, m.scope \in Int, Candidates(data, key, m.candidates)
  PROVE  Fresh(key, m).upper = Leaf(data, key[1])
<1> DEFINE u == NewTask(data, key, m.candidates)
           x == Scoped(u, m.scope)
<1>1. u \in Tasks /\ u.upper = Leaf(data, key[1])
  <2>1. u.upper = Leaf(data, key[1])
    BY DEF NewTask, Leaf
  <2>2. m.candidates \in SUBSET Int
    <3>1. data.features \in SUBSET (Nat \ {0})
      BY FeatureNumbers DEF Proper
    <3> QED
      BY <3>1 DEF Candidates
  <2>3. IsTask(data, key, NewTask(data, key, m.candidates))
    <3> DEFINE C == m.candidates
    <3>1. C \subseteq data.features /\ Splittable(data, key) \subseteq C /\ C \in SUBSET Int
      BY <2>2 DEF Candidates, Splittable
    <3> HIDE DEF C
    <3>2. IsTask(data, key, NewTask(data, key, C))
      BY <3>1, NewIsTask
    <3> QED
      BY <3>2 DEF C
  <2> QED
    BY <2>1, <2>3 DEF IsTask
<1> HIDE DEF u
<1>2. SameBut(u, x)
  BY <1>1, ScopedIs
<1> HIDE DEF x
<1>3. Pruned(data, x, key[1]).upper = x.upper
  BY <1>2 DEF Pruned, SameBut, Tasks
<1> QED
  BY <1>1, <1>2, <1>3 DEF Fresh, SameBut, u, x

(* An exploration keeps the lists right: a vertex it creates has two       *)
(* leaves for each split, and one that is there keeps its list.            *)
LEMMA ExploreKeepsModels ==
  ASSUME IInv, Proper(data), ModelsRight, NEW w \in Workers, Explore(w) PROVE ModelsRight'
<1> DEFINE m == inbound[w]
           key == m.key[3]
           fresh == Fresh(key, m)
           near == Near(key, fresh)
           task == Stored(key, m, fresh, near)
           links == LinksTo(m, key)
           b == BoundList(task.features, near)
           V == DOMAIN vertices
           F == FeaturesOf(data, key)
<1>1. /\ bounds' = Over(bounds, Entry(key, b)) /\ children' = links /\ data' = data
      /\ IsExploration(m)
  BY ExploreIs DEF Explores, Dispatched
<1>2. IInv' /\ Tightened /\ ChangedAt(key, task.upper)
  BY ExploreKeeps
<1>3. IsMail(data, V, m)
  <2>1. pc[w] = "dispatch"
    BY ExploreIs
  <2> QED
    BY <2>1 DEF IInv, MailRight
<1>4. /\ IsRequest(data, V, m) /\ m.scope \in Int /\ key \in Reached(data)
      /\ IsVertex(data, key, task)
  BY <1>1, <1>3, TaskIs
<1>5. DOMAIN children \subseteq DOMAIN children'
  <2>1. CASE IsRoot(key)
    BY <1>1, <2>1 DEF LinksTo
  <2>2. CASE ~IsRoot(key)
    <3>1. links = Linked(m.key[2], m.features, key)
      BY <2>2 DEF LinksTo
    <3> HIDE DEF m, key, links
    <3>2. IsLinked(children, m.key[2], m.features, key, Linked(m.key[2], m.features, key))
      BY ONLY LinkedIs
    <3> QED
      BY <1>1, <3>1, <3>2 DEF IsLinked
  <2> QED
    BY <2>1, <2>2
<1>6. Candidates(data, key, m.candidates) /\ IsVertex(data, key, fresh) /\ fresh.upper = Leaf(data, key[1])
      /\ fresh.features = F /\ task.features = F
  <2>1. Candidates(data, key, m.candidates)
    BY <1>4 DEF IsRequest
  <2> QED
    BY <1>4, <2>1, FreshIs, FreshUpper DEF IsVertex
<1>7. \A f \in F : b[f].upper = Stops(data, key, f)
  <2> HIDE DEF task, fresh, key
  <2>1. BoundList(task.features, near) = BoundList(fresh.features, near)
    BY <1>6
  <2> QED
    BY <1>4, <1>6, <2>1, NearUpper
<1>8. \/ key \in V /\ task.upper = vertices[key].upper
      \/ task.upper = Leaf(data, key[1])
      \/ \E f \in F : task.upper = Stops(data, key, f)
      \/ IsGuess(data, key, task.upper)
  <2>1. key \in V => IsVertex(data, key, vertices[key])
    BY DEF IInv, VerticesRight
  <2> HIDE DEF fresh, key
  <2> QED
    BY <1>4, <1>6, <2>1, StoredUpper
<1>9. DOMAIN bounds = V /\ \A k \in V : IsBoundList(data, k, bounds[k])
  BY DEF IInv, BoundsRight
<1> HIDE DEF m, key, fresh, near, task, links, b, V, F
<1>10. /\ \A k \in V : bounds'[k] = bounds[k]
       /\ key \notin V => bounds'[key] = b
  <2> DEFINE e == Entry(key, b)
  <2>1. DOMAIN e = {key} /\ e[key] = b
    BY EntryIs
  <2> HIDE DEF e
  <2>2. /\ \A x \in DOMAIN bounds : Over(bounds, e)[x] = bounds[x]
        /\ \A x \in DOMAIN e : x \notin DOMAIN bounds => Over(bounds, e)[x] = e[x]
    BY ONLY OverIs, Zenon
  <2>3. bounds' = Over(bounds, e)
    BY <1>1 DEF e
  <2> QED
    BY <1>9, <2>1, <2>2, <2>3
<1>11. DOMAIN vertices' = V \cup {key} /\ vertices'[key].upper = task.upper
       /\ \A k \in V : k # key => vertices'[k].upper = vertices[k].upper
  BY <1>2 DEF ChangedAt, V
<1>12. ASSUME NEW k \in V PROVE IsKept(data, k, Knowns(data, vertices', children', k), bounds'[k])
  <2>1. IsKept(data, k, Knowns(data, vertices, children, k), bounds[k])
    BY DEF ModelsRight, V
  <2>2. IsKept(data, k, Knowns(data, vertices', children', k), bounds[k])
    BY <1>1, <1>2, <1>5, <1>9, <1>12, <2>1, ListStays DEF V
  <2> QED
    BY <1>10, <2>2
<1>13. ASSUME key \notin V PROVE IsKept(data, key, Knowns(data, vertices', children', key), bounds'[key])
  <2>1. IsGraph(data, vertices', children', edges')
    BY <1>1, <1>2 DEF IInv, VerticesRight, LinksRight, IsGraph
  <2>2. key \in DOMAIN vertices'
    BY <1>11
  <2>3. IsKept(data, key, Knowns(data, vertices', children', key), b)
    BY <1>7, <2>1, <2>2, LeavesKept DEF F
  <2> QED
    BY <1>10, <1>13, <2>3
<1>14. IsKept(data, key, Knowns(data, vertices', children', key), bounds'[key])
  BY <1>12, <1>13
<1>15. IsBacked(data, key, vertices'[key].upper, bounds'[key])
  <2>1. CASE key \in V /\ task.upper = vertices[key].upper
    BY <1>10, <1>11, <2>1 DEF ModelsRight, V
  <2>2. CASE task.upper = Leaf(data, key[1]) \/ IsGuess(data, key, task.upper)
    BY <1>11, <2>2 DEF IsBacked
  <2>3. CASE \E f \in F : task.upper = Stops(data, key, f)
    <3>1. PICK f \in F : task.upper = Stops(data, key, f)
      BY <2>3
    <3>2. bounds'[key][f].upper <= Stops(data, key, f)
      BY <1>14 DEF IsKept, F
    <3> QED
      BY <1>11, <3>1, <3>2 DEF IsBacked, F
  <2> QED
    BY <1>8, <2>1, <2>2, <2>3
<1>16. ASSUME NEW k \in V, k # key PROVE IsBacked(data, k, vertices'[k].upper, bounds'[k])
  <2>1. IsBacked(data, k, vertices[k].upper, bounds[k])
    BY DEF ModelsRight, V
  <2> QED
    BY <1>10, <1>11, <1>16, <2>1
<1> QED
  BY <1>1, <1>11, <1>12, <1>14, <1>15, <1>16 DEF ModelsRight

(* So does an exploitation.                                                *)
LEMMA ExploitKeepsModels ==
  ASSUME IInv, Proper(data), TwinsRight, ModelsRight, NEW w \in Workers, Exploit(w) PROVE ModelsRight'
<1> DEFINE m == inbound[w]
           key == m.key[2]
           self == vertices[key]
           splits == Refined(key, m.features)
           offered == OfferedBy(self, splits)
           task == UpdatedBy(self, offered)
           V == DOMAIN vertices
           F == FeaturesOf(data, key)
           K == Knowns(data, vertices, children, key)
<1>1. /\ IF Skips(self) THEN UNCHANGED <<queue, vertices, bounds>> /\ KeepRoot(w)
                        ELSE Exploits(w, key, self, splits, offered, task)
      /\ pc[w] = "dispatch" /\ ~IsExploration(m) /\ Dispatched(w)
      /\ UNCHANGED <<children, edges>>
  BY ExploitIs
<1>2. key \in V
  <2>1. IsMail(data, V, m)
    BY <1>1 DEF IInv, MailRight
  <2> QED
    BY <1>1, <2>1, RequestIs DEF IsSignal
<1>3. IInv' /\ Tightened
  BY ExploitKeeps
<1> HIDE DEF m, key, splits, offered, task
<1>4. data' = data /\ children' = children
  BY <1>1 DEF Dispatched
<1>5. CASE Skips(self)
  <2>1. vertices' = vertices /\ bounds' = bounds
    BY <1>1, <1>5
  <2> QED
    BY <1>4, <2>1 DEF ModelsRight
<1>6. CASE ~Skips(self)
  <2>1. bounds' = [bounds EXCEPT ![key] = splits] /\ vertices' = [vertices EXCEPT ![key] = task]
    BY <1>1, <1>6 DEF Exploits
  <2>2. DOMAIN bounds = V /\ \A k \in V : IsVertex(data, k, vertices[k]) /\ IsBoundList(data, k, bounds[k])
    BY DEF IInv, VerticesRight, BoundsRight
  <2>3. /\ DOMAIN vertices' = V /\ vertices'[key] = task
        /\ \A k \in V : k # key => vertices'[k] = vertices[k]
        /\ bounds'[key] = splits
        /\ \A k \in V : k # key => bounds'[k] = bounds[k]
    BY <1>2, <2>1, <2>2
  <2>4. \A k \in V : IsKept(data, k, Knowns(data, vertices, children, k), bounds[k])
                     /\ IsBacked(data, k, vertices[k].upper, bounds[k])
    BY DEF ModelsRight
  <2>5. /\ IsBoundList(data, key, splits) /\ IsKept(data, key, K, splits)
        /\ \A f \in F : \E g \in F : splits[g].upper <= bounds[key][f].upper
    <3>1. Alike(data, key, Followed(children, key))
      BY <1>2, <2>2 DEF TwinsRight, IsVertex
    <3>2. IsKept(data, key, K, bounds[key])
      BY <1>2, <2>4
    <3> HIDE DEF K
    <3>3. K = Knowns(data, vertices, children, key)
      BY DEF K
    <3> QED
      BY <1>2, <3>1, <3>2, <3>3, RefinedKeeps DEF splits
  <2>6. ASSUME NEW k \in V PROVE IsKept(data, k, Knowns(data, vertices', children', k), bounds'[k])
    <3> DEFINE b == bounds'[k]
    <3>1. IsBoundList(data, k, b) /\ IsKept(data, k, Knowns(data, vertices, children, k), b)
      <4>1. CASE k = key
        BY <2>3, <2>5, <4>1
      <4>2. CASE k # key
        BY <2>2, <2>3, <2>4, <4>2
      <4> QED
        BY <4>1, <4>2
    <3>2. DOMAIN children \subseteq DOMAIN children'
      BY <1>4
    <3> HIDE DEF b
    <3>3. IsKept(data, k, Knowns(data, vertices', children', k), b)
      BY <1>3, <1>4, <2>6, <3>1, <3>2, ListStays
    <3> QED
      BY <3>3 DEF b
  <2>7. task.upper \in {self.upper, offered.upper} /\ IsOfferedUpper(data, key, splits, offered)
    <3>1. IsTask(data, key, self) /\ self \in Tasks /\ key \in Reached(data)
      BY <1>2, <2>2 DEF IsVertex, IsTask
    <3>2. DOMAIN splits = F
      BY <2>5 DEF IsBoundList
    <3>3. offered = Offered(self, {splits[f] : f \in FeaturesOf(data, key)})
      BY <3>2 DEF offered, OfferedBy
    <3> HIDE DEF self
    <3>4. IsOfferedUpper(data, key, splits, Offered(self, {splits[f] : f \in FeaturesOf(data, key)}))
      BY <2>5, <3>1, OfferedUpper
    <3>5. offered.upper \in Int
      BY <3>3, <3>4 DEF IsOfferedUpper
    <3>6. task = Updated(data, self, offered.lower, offered.upper)
      BY DEF task, UpdatedBy
    <3>7. task.upper \in {self.upper, offered.upper}
      BY <3>1, <3>5, <3>6, UpdatedUpper
    <3> QED
      BY <3>3, <3>4, <3>7
  <2>8. IsBacked(data, key, task.upper, splits)
    <3>1. CASE task.upper = offered.upper
      <4>1. \A f \in F : splits[f].upper \in Int
        BY <2>5 DEF IsBoundList, IsSplitBound
      <4> QED
        BY <2>7, <3>1, <4>1 DEF IsOfferedUpper, IsBacked
    <3>2. CASE task.upper = self.upper
      <4>1. IsBacked(data, key, self.upper, bounds[key])
        BY <1>2, <2>4
      <4>2. CASE \E f \in F : bounds[key][f].upper <= self.upper
        <5>1. PICK f \in F : bounds[key][f].upper <= self.upper
          BY <4>2
        <5>2. PICK g \in F : splits[g].upper <= bounds[key][f].upper
          BY <2>5
        <5>3. splits[g].upper \in Int /\ bounds[key][f].upper \in Int /\ self.upper \in Int
          <6>1. splits[g].upper \in Int
            BY <2>5 DEF IsBoundList, IsSplitBound
          <6>2. bounds[key][f].upper \in Int
            BY <1>2, <2>2 DEF IsBoundList, IsSplitBound
          <6>3. self.upper \in Int
            BY <1>2, <2>2 DEF IsVertex, IsTask, Tasks
          <6> QED
            BY <6>1, <6>2, <6>3
        <5> HIDE DEF self, F
        <5>4. splits[g].upper <= self.upper
          BY <5>1, <5>2, <5>3
        <5> QED
          BY <3>2, <5>4 DEF IsBacked, F
      <4> QED
        BY <3>2, <4>1, <4>2 DEF IsBacked
    <3> QED
      BY <2>7, <3>1, <3>2
  <2>9. ASSUME NEW k \in V PROVE IsBacked(data, k, vertices'[k].upper, bounds'[k])
    BY <2>3, <2>4, <2>8
  <2> QED
    BY <1>4, <2>3, <2>6, <2>9 DEF ModelsRight
<1> QED
  BY <1>5, <1>6

(* And every step.                                                         *)
LEMMA ModelsKept ==
  ASSUME IInv, Proper(data), TwinsRight, ModelsRight, [Next]_vars PROVE ModelsRight'
<1>1. CASE \E w \in Workers : Pop(w) \/ Check(w)
  BY <1>1 DEF Pop, Check, ModelsRight
<1>2. CASE \E w \in Workers : Explore(w)
  BY <1>2, ExploreKeepsModels
<1>3. CASE \E w \in Workers : Exploit(w)
  BY <1>3, ExploitKeepsModels
<1>4. CASE UNCHANGED vars
  BY <1>4 DEF vars, ModelsRight
<1> QED
  BY <1>1, <1>2, <1>3, <1>4 DEF Next

(* It holds of a search that has not begun.                                *)
LEMMA ModelsStart == ASSUME Init PROVE ModelsRight
<1>1. DOMAIN <<>> = {}
  OBVIOUS
<1> QED
  BY <1>1 DEF Init, ModelsRight

-----------------------------------------------------------------------------
(* What the extraction finds                                               *)

(* The body of the recursion in Extracted, in named parts.                 *)
FreshBase(key, f, positive) == NewTask(data, Child(data, key, f, positive), {}).base

SideModels(objectives, key, f, positive) ==
  LET link == <<key, Signed(f, positive)>>
  IN  IF link \in DOMAIN children THEN objectives[children[link]] ELSE {FreshBase(key, f, positive)}

GrownModels(objectives, key, f) ==
  LET side(p) == SideModels(objectives, key, f, p)
  IN  IF config.rule_list
        THEN {r \in UNION {{x + FreshBase(key, f, ~p) : x \in side(p)} : p \in BOOLEAN} :
                r <= vertices[key].upper /\ \A p \in BOOLEAN : side(p) # {}}
        ELSE {x + y : x \in side(FALSE), y \in side(TRUE)}

ModelsAt(objectives, key) ==
  LET task == vertices[key]
  IN  {task.base : x \in {y \in {0} : task.base <= task.upper}}
        \cup UNION {GrownModels(objectives, key, f) :
                      f \in {g \in DOMAIN bounds[key] : bounds[key][g].upper <= task.upper}}

IsExtraction(e) == e = [key \in DOMAIN vertices |-> ModelsAt(e, key)]

LEMMA ExtractedIs == Extracted = (CHOOSE e : IsExtraction(e))[RootKey]
BY DEF Extracted, IsExtraction, ModelsAt, GrownModels, SideModels, FreshBase

(* A side's models are those of a vertex further down, or a leaf.          *)
LEMMA SideModelsAre ==
  ASSUME IInv, Proper(data), NEW key \in DOMAIN vertices, NEW f \in FeaturesOf(data, key), NEW p \in BOOLEAN, NEW e
  PROVE  LET c == Child(data, key, f, p)
             side == Side(data, vertices, children, key, f, p)
         IN  /\ FreshBase(key, f, p) = Leaf(data, c[1]) /\ c \in Reached(data) /\ c # Root(data)
             /\ c[1] \subseteq key[1] /\ c[1] # key[1] /\ IsTask(data, c, side)
             /\ \/ c \in DOMAIN vertices /\ SideModels(e, key, f, p) = e[c] /\ side = vertices[c]
                \/ SideModels(e, key, f, p) = {Leaf(data, c[1])} /\ side.upper = Leaf(data, c[1])
<1> DEFINE c == Child(data, key, f, p)
           link == <<key, Signed(f, p)>>
           side == Side(data, vertices, children, key, f, p)
<1>1. key \in Reached(data) /\ IsGraph(data, vertices, children, edges)
  BY DEF IInv, VerticesRight, IsVertex, LinksRight, IsGraph
<1>2. c \in Reached(data) /\ c[1] # Rows(data) /\ c[1] \subseteq key[1] /\ c[1] # key[1]
  BY <1>1, ChildReached
<1>3. c # Root(data)
  <2>1. Root(data)[1] = Rows(data)
    BY DEF Root
  <2> QED
    BY <1>2, <2>1
<1>4. IsTask(data, c, side) /\ (link \in DOMAIN children => children[link] = c /\ c \in DOMAIN vertices)
  BY <1>1, SideIs
<1>5. FreshBase(key, f, p) = Leaf(data, c[1])
  BY DEF FreshBase, NewTask, Leaf
<1>6. CASE link \in DOMAIN children
  <2>1. SideModels(e, key, f, p) = e[c]
    BY <1>4, <1>6 DEF SideModels
  <2>2. side = vertices[c]
    BY <1>6 DEF Side
  <2> QED
    BY <1>2, <1>3, <1>4, <1>5, <1>6, <2>1, <2>2
<1>7. CASE link \notin DOMAIN children
  <2>1. SideModels(e, key, f, p) = {FreshBase(key, f, p)}
    BY <1>7 DEF SideModels
  <2>2. side = NewTask(data, c, data.features)
    BY <1>7 DEF Side
  <2>3. side.upper = Leaf(data, c[1])
    BY <2>2 DEF NewTask, Leaf
  <2> QED
    BY <1>2, <1>3, <1>4, <1>5, <2>1, <2>3
<1> QED
  BY <1>6, <1>7

(* The models S and T of two sides whose leaves cost a and b, joined.      *)
Combined(ruleList, S, T, a, b, u) ==
  IF ruleList THEN {x \in {s + b : s \in S} \cup {t + a : t \in T} : x <= u /\ S # {} /\ T # {}}
  ELSE {s + t : s \in S, t \in T}

LEMMA GrownAre ==
  ASSUME NEW e, NEW key, NEW f
  PROVE  GrownModels(e, key, f) = Combined(data.config.rule_list, SideModels(e, key, f, FALSE), SideModels(e, key, f, TRUE),
                                         FreshBase(key, f, FALSE), FreshBase(key, f, TRUE), vertices[key].upper)
<1> DEFINE S == SideModels(e, key, f, FALSE)
           T == SideModels(e, key, f, TRUE)
           a == FreshBase(key, f, FALSE)
           b == FreshBase(key, f, TRUE)
           u == vertices[key].upper
           side(p) == SideModels(e, key, f, p)
           sums(p) == {x + FreshBase(key, f, ~p) : x \in side(p)}
           all == UNION {sums(p) : p \in BOOLEAN}
<1>1. CASE ~data.config.rule_list
  BY <1>1 DEF GrownModels, Combined, config
<1>2. CASE data.config.rule_list
  <2>1. GrownModels(e, key, f) = {r \in all : r <= u /\ \A p \in BOOLEAN : side(p) # {}}
    BY <1>2 DEF GrownModels, config
  <2>2. sums(FALSE) = {s + b : s \in S} /\ sums(TRUE) = {t + a : t \in T}
    <3>1. ~FALSE = TRUE /\ ~TRUE = FALSE
      OBVIOUS
    <3>2. FreshBase(key, f, ~FALSE) = b /\ FreshBase(key, f, ~TRUE) = a
      BY <3>1, Zenon
    <3> QED
      BY <3>2, Zenon
  <2>3. all = sums(FALSE) \cup sums(TRUE)
    <3> HIDE DEF sums
    <3> QED
      BY Zenon
  <2>4. (\A p \in BOOLEAN : side(p) # {}) <=> S # {} /\ T # {}
    <3>1. \A p \in BOOLEAN : p = FALSE \/ p = TRUE
      OBVIOUS
    <3>2. side(FALSE) = S /\ side(TRUE) = T
      OBVIOUS
    <3> HIDE DEF side, S, T
    <3> QED
      BY <3>1, <3>2, Zenon
  <2> HIDE DEF sums, side, all
  <2>5. GrownModels(e, key, f) = {r \in all : r <= u /\ S # {} /\ T # {}}
    BY <2>1, <2>4
  <2> HIDE DEF S, T, a, b, u
  <2>6. Combined(data.config.rule_list, S, T, a, b, u)
          = {x \in {s + b : s \in S} \cup {t + a : t \in T} : x <= u /\ S # {} /\ T # {}}
    BY <1>2 DEF Combined
  <2>7. all = {s + b : s \in S} \cup {t + a : t \in T}
    BY <2>2, <2>3
  <2> QED
    BY <2>5, <2>6, <2>7 DEF S, T, a, b, u
<1> QED
  BY <1>1, <1>2

LEMMA ModelsAtIs ==
  ASSUME NEW e, NEW key, NEW x
  PROVE  x \in ModelsAt(e, key) <=>
           \/ x = vertices[key].base /\ vertices[key].base <= vertices[key].upper
           \/ \E f \in DOMAIN bounds[key] : bounds[key][f].upper <= vertices[key].upper /\ x \in GrownModels(e, key, f)
<1> DEFINE base == vertices[key].base
           u == vertices[key].upper
           first == {base : y \in {z \in {0} : base <= u}}
           F == DOMAIN bounds[key]
           some == {f \in F : bounds[key][f].upper <= u}
           rest == UNION {GrownModels(e, key, f) : f \in some}
<1>1. ModelsAt(e, key) = first \cup rest
  BY DEF ModelsAt
<1>2. x \in first <=> x = base /\ base <= u
  OBVIOUS
<1>3. x \in rest <=> \E f \in F : bounds[key][f].upper <= u /\ x \in GrownModels(e, key, f)
  OBVIOUS
<1> HIDE DEF first, rest
<1> QED
  BY <1>1, <1>2, <1>3

(* The recursion reads what is further down, so it has a solution.         *)
LEMMA ModelsSolved == ASSUME IInv, Proper(data) PROVE \E e : IsExtraction(e)
<1> DEFINE D == DOMAIN vertices
           V == SUBSET Int
           B == [g \in [D -> V] |-> [key \in D |-> ModelsAt(g, key)]]
           N == Cardinality(Rows(data))
           rank == [key \in D |-> Cardinality(key[1])]
<1>1. ASSUME NEW key \in D
      PROVE  /\ DOMAIN bounds[key] = FeaturesOf(data, key) /\ vertices[key].base \in Int
             /\ key[1] \in SUBSET Rows(data)
  <2>1. IsVertex(data, key, vertices[key]) /\ IsBoundList(data, key, bounds[key])
    BY DEF IInv, VerticesRight, BoundsRight
  <2>2. key[1] \in SUBSET Rows(data)
    BY <2>1, KeyFacts DEF IsVertex
  <2> QED
    BY <2>1, <2>2 DEF IsVertex, IsTask, Tasks, IsBoundList
<1>2. IsFiniteSet(Rows(data))
  BY RowsFinite DEF Proper
<1>3. N \in Nat /\ rank \in [D -> 0 .. N]
  <2>1. N \in Nat
    BY <1>2, FS_CardinalityType
  <2>2. \A key \in D : Cardinality(key[1]) \in Nat /\ Cardinality(key[1]) <= N
    BY <1>1, <1>2, FS_Subset, FS_CardinalityType
  <2> QED
    BY <2>1, <2>2
<1>4. ASSUME NEW g \in [D -> V], NEW key \in D, NEW f \in FeaturesOf(data, key)
      PROVE  /\ SideModels(g, key, f, FALSE) \in SUBSET Int /\ SideModels(g, key, f, TRUE) \in SUBSET Int
             /\ FreshBase(key, f, FALSE) \in Int /\ FreshBase(key, f, TRUE) \in Int
  <2>1. ASSUME NEW p \in BOOLEAN PROVE SideModels(g, key, f, p) \in SUBSET Int /\ FreshBase(key, f, p) \in Int
    <3> DEFINE c == Child(data, key, f, p)
    <3>1. /\ FreshBase(key, f, p) = Leaf(data, c[1]) /\ c \in Reached(data)
          /\ \/ c \in D /\ SideModels(g, key, f, p) = g[c]
             \/ SideModels(g, key, f, p) = {Leaf(data, c[1])}
      BY SideModelsAre
    <3> HIDE DEF c
    <3>2. Leaf(data, c[1]) \in Int
      BY <3>1, KeyFacts
    <3> QED
      BY <3>1, <3>2
  <2>2. FALSE \in BOOLEAN /\ TRUE \in BOOLEAN
    OBVIOUS
  <2> QED
    BY <2>1, <2>2, Zenon
<1>5. ASSUME NEW g \in [D -> V], NEW key \in D PROVE ModelsAt(g, key) \in V
  <2>1. ASSUME NEW f \in FeaturesOf(data, key) PROVE GrownModels(g, key, f) \in SUBSET Int
    <3> DEFINE S == SideModels(g, key, f, FALSE)
               T == SideModels(g, key, f, TRUE)
               a == FreshBase(key, f, FALSE)
               b == FreshBase(key, f, TRUE)
    <3>1. GrownModels(g, key, f) = Combined(data.config.rule_list, S, T, a, b, vertices[key].upper)
      BY GrownAre
    <3>2. S \in SUBSET Int /\ T \in SUBSET Int /\ a \in Int /\ b \in Int
      BY <1>4
    <3> HIDE DEF S, T, a, b
    <3> QED
      BY <3>1, <3>2 DEF Combined
  <2> QED
    BY <1>1, <2>1, ModelsAtIs
<1>6. IsBody(B, D, V)
  <2>1. \A g \in [D -> V] : [key \in D |-> ModelsAt(g, key)] \in [D -> V]
    BY <1>5
  <2> HIDE DEF D, V
  <2> QED
    BY <2>1 DEF IsBody
<1>7. ReadsLower(B, D, V, rank)
  <2>1. ASSUME NEW g \in [D -> V], NEW h \in [D -> V], NEW key \in D,
               \A y \in D : rank[y] < rank[key] => g[y] = h[y]
        PROVE  ModelsAt(g, key) = ModelsAt(h, key)
    <3>1. ASSUME NEW f \in FeaturesOf(data, key), NEW p \in BOOLEAN
          PROVE  SideModels(g, key, f, p) = SideModels(h, key, f, p)
      <4> DEFINE link == <<key, Signed(f, p)>>
                 c == Child(data, key, f, p)
      <4>1. IsGraph(data, vertices, children, edges) /\ key \in Reached(data)
        BY DEF IInv, VerticesRight, IsVertex, LinksRight, IsGraph
      <4>2. link \in DOMAIN children => children[link] = c /\ c \in D
        BY <4>1, SideIs
      <4>3. c[1] \subseteq key[1] /\ c[1] # key[1]
        BY <4>1, ChildReached
      <4>4. CASE link \in DOMAIN children
        <5>1. IsFiniteSet(key[1])
          BY <1>1, <1>2, FS_Subset
        <5>2. Cardinality(c[1]) < Cardinality(key[1])
          BY <4>3, <5>1, ProperPart
        <5>3. g[c] = h[c]
          BY <2>1, <4>2, <4>4, <5>2
        <5> QED
          BY <4>2, <4>4, <5>3 DEF SideModels
      <4>5. CASE link \notin DOMAIN children
        BY <4>5 DEF SideModels
      <4> QED
        BY <4>4, <4>5
    <3>2. ASSUME NEW f \in FeaturesOf(data, key) PROVE GrownModels(g, key, f) = GrownModels(h, key, f)
      <4>1. FALSE \in BOOLEAN /\ TRUE \in BOOLEAN
        OBVIOUS
      <4>2. SideModels(g, key, f, FALSE) = SideModels(h, key, f, FALSE)
            /\ SideModels(g, key, f, TRUE) = SideModels(h, key, f, TRUE)
        BY <3>1, <4>1, Zenon
      <4> QED
        BY <4>2, GrownAre
    <3> DEFINE X == ModelsAt(g, key)
               Y == ModelsAt(h, key)
    <3>3. \A x : x \in X <=> x \in Y
      BY <1>1, <3>2, ModelsAtIs
    <3> HIDE DEF X, Y
    <3>4. X = Y
      BY <3>3
    <3> QED
      BY <3>4 DEF X, Y
  <2>2. \A g \in [D -> V] : \A key \in D : B[g][key] = ModelsAt(g, key)
    OBVIOUS
  <2> HIDE DEF B, D, V, rank
  <2> QED
    BY <2>1, <2>2 DEF ReadsLower
<1>8. PICK g \in [D -> V] : B[g] = g
  <2> HIDE DEF B, D, V, rank, N
  <2>1. V # {}
    BY DEF V
  <2>2. \E g : IsSolution(g, B, D, V)
    BY <1>3, <1>6, <1>7, <2>1, RecursionSolved
  <2> QED
    BY <2>2 DEF IsSolution
<1>9. B[g] = [key \in D |-> ModelsAt(g, key)]
  OBVIOUS
<1>10. IsExtraction(g)
  BY <1>8, <1>9 DEF IsExtraction
<1> QED
  BY <1>10

(* What a set S of objectives owes a subproblem whose upper bound is u:    *)
(* none is less than the optimum, one is within the bound, and if that is  *)
(* the optimum so are all of them.                                         *)
AreModels(key, u, S) ==
  /\ S \in SUBSET Int /\ \A x \in S : data.optimum[key] <= x
  /\ IsGuess(data, key, u) \/ \E x \in S : x <= u
  /\ data.config.rule_list \/ Exacting(data) => (u <= data.optimum[key] => \A x \in S : x <= u)

(* The best objective of a split by the optima of its sides and the costs  *)
(* of two leaves.                                                          *)
SumsUp(ruleList, best, i, j, a, b) ==
  IF ruleList THEN best <= i + b /\ best <= j + a ELSE best = i + j

LEMMA SplitBelow ==
  ASSUME NEW d, NEW key, NEW f, NEW i, i = d.optimum[Child(d, key, f, FALSE)], NEW j, j = d.optimum[Child(d, key, f, TRUE)],
         NEW a, a = Leaves(d)[Child(d, key, f, FALSE)[1]], NEW b, b = Leaves(d)[Child(d, key, f, TRUE)[1]],
         i \in Int, j \in Int, a \in Int, b \in Int
  PROVE  SumsUp(d.config.rule_list, SplitLeast(d, Leaves(d), d.optimum, key, f), i, j, a, b)
<1> DEFINE term(p) == d.optimum[Child(d, key, f, p)] + Leaves(d)[Child(d, key, f, ~p)[1]]
           terms == {term(p) : p \in BOOLEAN}
           best == SplitLeast(d, Leaves(d), d.optimum, key, f)
<1>1. CASE ~d.config.rule_list
  BY <1>1 DEF SplitLeast, SumsUp
<1>2. CASE d.config.rule_list
  <2>1. best = Min(terms)
    BY <1>2 DEF SplitLeast
  <2>2. ~FALSE = TRUE /\ ~TRUE = FALSE
    OBVIOUS
  <2>3. term(FALSE) = i + b /\ term(TRUE) = j + a
    BY <2>2, Zenon
  <2>4. terms = {term(FALSE), term(TRUE)}
    <3> HIDE DEF term
    <3> QED
      BY Zenon
  <2>5. terms = {i + b, j + a}
    BY <2>3, <2>4, Zenon
  <2> DEFINE x == i + b
             y == j + a
  <2>6. x \in Int /\ y \in Int
    BY ONLY i \in Int, j \in Int, a \in Int, b \in Int
  <2> HIDE DEF terms, best
  <2>9. terms = {x, y}
    BY <2>5
  <2> HIDE DEF x, y
  <2>7. best = IF x <= y THEN x ELSE y
    BY <2>1, <2>6, <2>9, MinOfTwo
  <2>8. best <= x /\ best <= y
    BY <2>6, <2>7
  <2> QED
    BY <1>2, <2>8 DEF x, y, best, SumsUp
<1> QED
  BY <1>1, <1>2

(* The models of a side are models for the task that is known of it.       *)
LEMMA SideRight ==
  ASSUME IInv, Proper(data), NEW key \in DOMAIN vertices, NEW f \in FeaturesOf(data, key), NEW p \in BOOLEAN, NEW e,
         Child(data, key, f, p) \in DOMAIN vertices =>
           AreModels(Child(data, key, f, p), vertices[Child(data, key, f, p)].upper, e[Child(data, key, f, p)])
  PROVE  LET c == Child(data, key, f, p)
             side == Side(data, vertices, children, key, f, p)
         IN  /\ AreModels(c, side.upper, SideModels(e, key, f, p)) /\ ~IsGuess(data, c, side.upper)
             /\ FreshBase(key, f, p) = side.base /\ side.base = Leaves(data)[c[1]] /\ IsTask(data, c, side)
             /\ data.optimum[c] \in Int
<1> DEFINE c == Child(data, key, f, p)
           side == Side(data, vertices, children, key, f, p)
           S == SideModels(e, key, f, p)
           leaf == Leaf(data, c[1])
<1>1. /\ FreshBase(key, f, p) = leaf /\ c \in Reached(data) /\ c # Root(data) /\ IsTask(data, c, side)
      /\ \/ c \in DOMAIN vertices /\ S = e[c] /\ side = vertices[c]
         \/ S = {leaf} /\ side.upper = leaf
  BY SideModelsAre
<1>2. data.optimum[c] \in Nat /\ data.optimum[c] <= leaf /\ leaf \in Nat /\ c[1] \in SUBSET Rows(data)
  <2> HIDE DEF c
  <2> QED
    BY <1>1, KeyFacts DEF leaf
<1>3. Leaves(data)[c[1]] = leaf
  BY <1>2 DEF Leaves
<1>4. ~IsGuess(data, c, side.upper)
  BY <1>1 DEF IsGuess
<1>5. AreModels(c, side.upper, S)
  <2> HIDE DEF S, side, leaf
  <2>1. CASE c \in DOMAIN vertices /\ S = e[c] /\ side = vertices[c]
    BY <2>1
  <2>2. CASE S = {leaf} /\ side.upper = leaf
    <3> HIDE DEF c
    <3> QED
      BY <1>2, <2>2 DEF AreModels
  <2> QED
    BY <1>1, <2>1, <2>2
<1>6. side.base = leaf
  BY <1>1 DEF IsTask
<1> QED
  BY <1>1, <1>2, <1>3, <1>4, <1>5, <1>6

(* Numbers that reach the least sum of theirs are the least themselves.    *)
LEMMA BothLeast ==
  ASSUME NEW i \in Int, NEW j \in Int, NEW x \in Int, NEW y \in Int, i <= x, j <= y, x + y <= i + j
  PROVE  x <= i /\ y <= j
OBVIOUS

(* So a split grows only models of the vertex, one of them within what is  *)
(* known of it; and only optimal ones if what is known is the optimum.     *)
LEMMA GrownRight ==
  ASSUME IInv, Proper(data), NEW key \in DOMAIN vertices, NEW f \in FeaturesOf(data, key), NEW e,
         \A p \in BOOLEAN : Child(data, key, f, p) \in DOMAIN vertices =>
           AreModels(Child(data, key, f, p), vertices[Child(data, key, f, p)].upper, e[Child(data, key, f, p)])
  PROVE  LET G == GrownModels(e, key, f)
             known == Known(data, vertices, children, key, f)
             o == data.optimum[key]
             u == vertices[key].upper
         IN  /\ G \in SUBSET Int /\ \A x \in G : o <= x
             /\ known <= u => \E x \in G : x <= u
             /\ data.config.rule_list => \A x \in G : x <= u
             /\ Exacting(data) /\ known <= o => \A x \in G : x <= known
<1> DEFINE k0 == Child(data, key, f, FALSE)
           k1 == Child(data, key, f, TRUE)
           s0 == Side(data, vertices, children, key, f, FALSE)
           s1 == Side(data, vertices, children, key, f, TRUE)
           S == SideModels(e, key, f, FALSE)
           T == SideModels(e, key, f, TRUE)
           a == FreshBase(key, f, FALSE)
           b == FreshBase(key, f, TRUE)
           G == GrownModels(e, key, f)
           known == Known(data, vertices, children, key, f)
           o == data.optimum[key]
           u == vertices[key].upper
           i == data.optimum[k0]
           j == data.optimum[k1]
           best == SplitLeast(data, Leaves(data), data.optimum, key, f)
<1>1. key \in Reached(data) /\ u \in Int
  BY DEF IInv, VerticesRight, IsVertex, IsTask, Tasks
<1>2. /\ AreModels(k0, s0.upper, S) /\ ~IsGuess(data, k0, s0.upper) /\ a = s0.base /\ a = Leaves(data)[k0[1]]
      /\ AreModels(k1, s1.upper, T) /\ ~IsGuess(data, k1, s1.upper) /\ b = s1.base /\ b = Leaves(data)[k1[1]]
      /\ IsTask(data, k0, s0) /\ IsTask(data, k1, s1) /\ i \in Int /\ j \in Int
  <2>1. FALSE \in BOOLEAN /\ TRUE \in BOOLEAN
    OBVIOUS
  <2>2. \A p \in BOOLEAN :
             LET c == Child(data, key, f, p)
                 side == Side(data, vertices, children, key, f, p)
             IN  /\ AreModels(c, side.upper, SideModels(e, key, f, p)) /\ ~IsGuess(data, c, side.upper)
                 /\ FreshBase(key, f, p) = side.base /\ side.base = Leaves(data)[c[1]] /\ IsTask(data, c, side)
                 /\ data.optimum[c] \in Int
    BY SideRight
  <2> QED
    BY <2>1, <2>2, Zenon
<1>3. /\ s0.upper \in Int /\ s1.upper \in Int /\ a \in Int /\ b \in Int
      /\ i <= s0.upper /\ j <= s1.upper
  <2> HIDE DEF k0, k1, s0, s1, a, b
  <2> QED
    BY <1>2 DEF IsTask, Tasks
<1>4. o \in Int /\ best \in Int /\ o <= best
  BY <1>1, OptimumBelow
<1>5. SumsUp(data.config.rule_list, best, i, j, a, b)
  <2> HIDE DEF a, b, best
  <2>1. i = data.optimum[Child(data, key, f, FALSE)] /\ j = data.optimum[Child(data, key, f, TRUE)]
        /\ a = Leaves(data)[Child(data, key, f, FALSE)[1]] /\ b = Leaves(data)[Child(data, key, f, TRUE)[1]]
    BY <1>2
  <2>3. i \in Int /\ j \in Int /\ a \in Int /\ b \in Int
    BY <1>2, <1>3
  <2> HIDE DEF i, j
  <2> QED
    BY ONLY <2>1, <2>3, SplitBelow DEF best
<1>6. known = Split(data, s0, s1).upper
  BY DEF Known
<1>7. G = Combined(data.config.rule_list, S, T, a, b, u)
  BY GrownAre
<1>8. /\ known \in Int
      /\ ~data.config.rule_list => known = s0.upper + s1.upper
      /\ data.config.rule_list => known = s0.upper + b \/ known = a + s1.upper
  <2> DEFINE x == Split(data, s0, s1).upper
  <2>1. IsTask(data, k0, s0) /\ IsTask(data, k1, s1) /\ a = s0.base /\ b = s1.base
    BY <1>2
  <2> HIDE DEF k0, k1, s0, s1, a, b, known
  <2>2. /\ x \in Int
        /\ ~data.config.rule_list => x = s0.upper + s1.upper
        /\ data.config.rule_list => x = s0.upper + s1.base \/ x = s0.base + s1.upper
    BY <2>1, SplitUpper
  <2> QED
    BY <1>6, <2>1, <2>2
<1> HIDE DEF k0, k1, s0, s1, S, T, a, b, G, known, best
<1> DEFINE v == s0.upper
           w == s1.upper
<1>9. /\ S \in SUBSET Int /\ T \in SUBSET Int /\ (\A x \in S : i <= x) /\ \A x \in T : j <= x
  BY <1>2 DEF AreModels
<1>10. PICK x \in S, y \in T : x <= v /\ y <= w
  BY <1>2 DEF AreModels
<1>11. v \in Int /\ w \in Int /\ i \in Int /\ j \in Int /\ o \in Int /\ u \in Int /\ i <= v /\ j <= w
  BY <1>1, <1>2, <1>3, <1>4
<1>12. CASE data.config.rule_list
  <2>1. G = {z \in {s + b : s \in S} \cup {t + a : t \in T} : z <= u /\ S # {} /\ T # {}}
    BY <1>7, <1>12 DEF Combined
  <2>2. best <= i + b /\ best <= j + a /\ (known = v + b \/ known = a + w)
    BY <1>5, <1>8, <1>12 DEF SumsUp
  <2> HIDE DEF v, w, i, j, o, u
  <2>3. ASSUME NEW z \in G PROVE z \in Int /\ o <= z /\ z <= u
    <3>1. CASE \E s \in S : z = s + b
      <4>1. PICK s \in S : z = s + b
        BY <3>1
      <4> QED
        BY <1>3, <1>4, <1>9, <1>11, <2>1, <2>2, <4>1
    <3>2. CASE \E t \in T : z = t + a
      <4>1. PICK t \in T : z = t + a
        BY <3>2
      <4> QED
        BY <1>3, <1>4, <1>9, <1>11, <2>1, <2>2, <4>1
    <3> QED
      BY <2>1, <3>1, <3>2
  <2>4. ASSUME known <= u PROVE \E z \in G : z <= u
    <3>1. CASE known = v + b
      <4>1. x + b <= u
        BY <1>3, <1>9, <1>10, <1>11, <2>4, <3>1
      <4> QED
        BY <2>1, <4>1
    <3>2. CASE known = a + w
      <4>1. y + a <= u
        BY <1>3, <1>9, <1>10, <1>11, <2>4, <3>2
      <4> QED
        BY <2>1, <4>1
    <3> QED
      BY <2>2, <3>1, <3>2
  <2> QED
    BY <1>12, <2>3, <2>4 DEF G, known, o, u, Exacting
<1>13. CASE ~data.config.rule_list
  <2>1. G = {s + t : s \in S, t \in T}
    BY <1>7, <1>13 DEF Combined
  <2>2. best = i + j /\ known = v + w
    BY <1>5, <1>8, <1>13 DEF SumsUp
  <2> HIDE DEF v, w, i, j, o, u
  <2>3. ASSUME NEW z \in G PROVE z \in Int /\ o <= z
    <3>1. PICK s \in S, t \in T : z = s + t
      BY <2>1
    <3>2. s \in Int /\ t \in Int /\ i <= s /\ j <= t
      BY <1>9
    <3>3. o \in Int /\ o <= i + j
      BY <1>4, <2>2 DEF o
    <3> QED
      BY <1>11, <3>1, <3>2, <3>3
  <2>4. ASSUME known <= u PROVE \E z \in G : z <= u
    <3>1. x + y <= u
      BY <1>9, <1>10, <1>11, <2>2, <2>4
    <3> QED
      BY <2>1, <3>1
  <2>5. ASSUME known <= o, Exacting(data), NEW z \in G PROVE z <= known
    <3>1. PICK s \in S, t \in T : z = s + t
      BY <2>1, <2>5
    <3>2. v <= i /\ w <= j
      BY <1>4, <1>11, <2>2, <2>5, BothLeast
    <3>3. s <= v /\ t <= w
      BY <1>2, <2>5, <3>2 DEF AreModels, v, w, i, j
    <3> QED
      BY <1>9, <1>11, <2>2, <3>1, <3>3
  <2> QED
    BY <1>13, <2>3, <2>4, <2>5 DEF G, known, o, u
<1> QED
  BY <1>12, <1>13

(* The models of a vertex, from those of its children and from what its    *)
(* bound list promises: the splits that promise enough are the ones that   *)
(* extraction follows.                                                     *)
LEMMA VertexRight ==
  ASSUME IInv, Proper(data), ModelsRight, NEW key \in DOMAIN vertices, NEW e, e[key] = ModelsAt(e, key),
         \A f \in FeaturesOf(data, key), p \in BOOLEAN : Child(data, key, f, p) \in DOMAIN vertices =>
           AreModels(Child(data, key, f, p), vertices[Child(data, key, f, p)].upper, e[Child(data, key, f, p)])
  PROVE  AreModels(key, vertices[key].upper, e[key])
<1> DEFINE F == FeaturesOf(data, key)
           b == bounds[key]
           u == vertices[key].upper
           o == data.optimum[key]
           base == vertices[key].base
           K == Knowns(data, vertices, children, key)
           G(f) == GrownModels(e, key, f)
<1>1. /\ u \in Int /\ base \in Int /\ base = Leaf(data, key[1]) /\ key \in Reached(data)
      /\ IsBoundList(data, key, b) /\ DOMAIN b = F /\ IsGraph(data, vertices, children, edges)
  BY DEF IInv, VerticesRight, IsVertex, IsTask, Tasks, BoundsRight, IsBoundList, LinksRight, IsGraph
<1>2. o \in Int /\ o <= base
  BY <1>1, KeyFacts
<1>3. IsKept(data, key, K, b) /\ IsBacked(data, key, u, b)
  BY DEF ModelsRight
<1>4. ASSUME NEW f \in F
      PROVE  /\ G(f) \in SUBSET Int /\ \A x \in G(f) : o <= x
             /\ K[f] <= u => \E x \in G(f) : x <= u
             /\ data.config.rule_list => \A x \in G(f) : x <= u
             /\ Exacting(data) /\ K[f] <= o => \A x \in G(f) : x <= K[f]
             /\ K[f] \in Int /\ b[f].upper \in Int
  <2>1. K[f] = Known(data, vertices, children, key, f)
    BY DEF Knowns
  <2>2. b[f].upper \in Int
    BY <1>1 DEF IsBoundList, IsSplitBound
  <2>3. K[f] \in Int
    <3> HIDE DEF K
    <3> QED
      BY <1>1, <2>1, KnownIs
  <2>4. \A p \in BOOLEAN : Child(data, key, f, p) \in DOMAIN vertices =>
           AreModels(Child(data, key, f, p), vertices[Child(data, key, f, p)].upper, e[Child(data, key, f, p)])
    OBVIOUS
  <2> HIDE DEF K, F, b
  <2>5. LET H == GrownModels(e, key, f)
            known == Known(data, vertices, children, key, f)
        IN  /\ H \in SUBSET Int /\ \A x \in H : o <= x
            /\ known <= u => \E x \in H : x <= u
            /\ data.config.rule_list => \A x \in H : x <= u
            /\ Exacting(data) /\ known <= o => \A x \in H : x <= known
    BY <2>4, GrownRight DEF F
  <2> QED
    BY <2>1, <2>2, <2>3, <2>5
<1> HIDE DEF G, K, F, b, u, o, base
<1>5. \A x : x \in e[key] <=> \/ x = base /\ base <= u
                              \/ \E f \in F : b[f].upper <= u /\ x \in G(f)
  BY <1>1, ModelsAtIs DEF base, u, b, G
<1>6. e[key] \in SUBSET Int /\ \A x \in e[key] : o <= x
  BY <1>1, <1>2, <1>4, <1>5
<1>7. IsGuess(data, key, u) \/ \E x \in e[key] : x <= u
  <2>1. CASE u = Leaf(data, key[1])
    BY <1>1, <1>5, <2>1
  <2>2. CASE \E f \in F : b[f].upper <= u
    <3>1. PICK f \in F : b[f].upper <= u
      BY <2>2
    <3>2. PICK g \in F : K[g] <= b[g].upper /\ b[g].upper <= b[f].upper
      BY <1>3 DEF IsKept, F
    <3>3. b[g].upper <= u /\ K[g] <= u
      BY <1>1, <1>4, <3>1, <3>2
    <3>4. \E x \in G(g) : x <= u
      BY <1>4, <3>3
    <3> QED
      BY <1>5, <3>3, <3>4
  <2> QED
    BY <1>3, <2>1, <2>2 DEF IsBacked, F
<1>8. ASSUME data.config.rule_list \/ Exacting(data), u <= o, NEW x \in e[key] PROVE x <= u
  <2>1. CASE x = base /\ base <= u
    BY <2>1
  <2>2. CASE \E f \in F : b[f].upper <= u /\ x \in G(f)
    <3>1. PICK f \in F : b[f].upper <= u /\ x \in G(f)
      BY <2>2
    <3>2. CASE data.config.rule_list
      BY <1>4, <3>1, <3>2
    <3>3. CASE Exacting(data)
      <4>1. b[f].upper <= o
        BY <1>1, <1>2, <1>4, <1>8, <3>1
      <4>2. K[f] <= b[f].upper
        BY <1>3, <3>3, <4>1 DEF IsKept, F, o
      <4>3. K[f] <= o /\ K[f] <= u
        BY <1>1, <1>2, <1>4, <1>8, <3>1, <4>2
      <4>4. x <= K[f] /\ x \in Int
        BY <1>4, <3>1, <3>3, <4>3
      <4> QED
        BY <1>1, <1>4, <4>3, <4>4
    <3> QED
      BY <1>8, <3>2, <3>3
  <2> QED
    BY <1>5, <2>1, <2>2
<1> QED
  BY <1>6, <1>7, <1>8 DEF AreModels, o, u

(* So of every vertex: a smallest one whose models were wrong would have   *)
(* children whose models are right.                                        *)
LEMMA ModelsExtracted ==
  ASSUME IInv, Proper(data), ModelsRight, NEW e, IsExtraction(e), NEW key \in DOMAIN vertices
  PROVE  AreModels(key, vertices[key].upper, e[key])
<1> DEFINE V == DOMAIN vertices
           right(k) == AreModels(k, vertices[k].upper, e[k])
           Bad == {k \in V : ~right(k)}
           sets == {k[1] : k \in Bad}
<1>1. SUFFICES ASSUME Bad # {} PROVE FALSE
  BY Zenon
<1>2. sets # {} /\ \A s \in sets : IsFiniteSet(s)
  <2>1. \A k \in V : IsFiniteSet(k[1])
    BY KeyFacts, RowsFinite DEF IInv, VerticesRight, IsVertex, Proper
  <2> HIDE DEF right
  <2> QED
    BY <1>1, <2>1
<1>3. PICK k \in Bad : \A t \in sets : ~(t \subseteq k[1] /\ t # k[1])
  <2>1. PICK s \in sets : \A t \in sets : ~(t \subseteq s /\ t # s)
    <3> HIDE DEF sets
    <3> QED
      BY <1>2, SmallestSet
  <2> HIDE DEF right
  <2> QED
    BY <2>1
<1>4. k \in V /\ ~right(k) /\ k \in Reached(data)
  BY <1>3 DEF IInv, VerticesRight, IsVertex
<1>5. ASSUME NEW f \in FeaturesOf(data, k), NEW p \in BOOLEAN, Child(data, k, f, p) \in V
      PROVE  right(Child(data, k, f, p))
  <2> DEFINE c == Child(data, k, f, p)
  <2>1. c[1] \subseteq k[1] /\ c[1] # k[1]
    BY <1>4, ChildReached
  <2>2. c \in V
    BY <1>5
  <2> HIDE DEF c, right
  <2>3. c \notin Bad
    BY <1>3, <2>1
  <2> QED
    BY <2>2, <2>3 DEF c
<1>6. e[k] = ModelsAt(e, k)
  BY <1>4 DEF IsExtraction
<1>7. right(k)
  <2>1. \A f \in FeaturesOf(data, k), p \in BOOLEAN : Child(data, k, f, p) \in DOMAIN vertices =>
           AreModels(Child(data, k, f, p), vertices[Child(data, k, f, p)].upper, e[Child(data, k, f, p)])
    BY <1>5
  <2> QED
    BY <1>4, <1>6, <2>1, VertexRight
<1> QED
  BY <1>4, <1>7

(* What is extracted when the bounds of the root have met.                 *)
LEMMA RootExtracted ==
  ASSUME IInv, Proper(data), ModelsRight, Complete, Outguesses(data)
  PROVE  /\ UpperIsOptimal /\ upper \in Int /\ data.optimum[RootKey] \in Int
         /\ Extracted \in SUBSET Int /\ \A x \in Extracted : data.optimum[RootKey] <= x
         /\ \E x \in Extracted : x <= upper
         /\ data.config.rule_list \/ Exacting(data) => (upper <= data.optimum[RootKey] => \A x \in Extracted : x <= upper)
<1>1. UpperIsOptimal
  BY InvariantCertifies
<1>2. RootKey = Root(data)
  BY DEF RootKey, Root, config
<1>3. RootKey \in DOMAIN vertices
  <2> SUFFICES ASSUME RootKey \notin DOMAIN vertices PROVE FALSE
    OBVIOUS
  <2>1. lower = -FltMax /\ upper = FltMax
    BY DEF IInv, RootRight
  <2>2. FltMax \in Nat \ {0}
    BY FltMaxLarge
  <2>3. -FltMax # FltMax
    BY ONLY <2>2
  <2> QED
    BY <2>1, <2>3 DEF Complete
<1>4. upper = vertices[RootKey].upper /\ upper \in Int /\ RootKey \in Reached(data)
  BY <1>3 DEF IInv, RootRight, VerticesRight, IsVertex, IsTask, Tasks
<1>5. data.optimum[RootKey] \in Int /\ data.guarantee[RootKey] \in Int
  BY <1>4, KeyFacts
<1> DEFINE e == CHOOSE x : IsExtraction(x)
<1>6. IsExtraction(e) /\ Extracted = e[RootKey]
  BY ModelsSolved, ExtractedIs
<1> HIDE DEF e
<1>7. AreModels(RootKey, upper, Extracted)
  BY <1>3, <1>4, <1>6, ModelsExtracted
<1>8. ~IsGuess(data, RootKey, upper)
  <2> SUFFICES ASSUME IsGuess(data, RootKey, upper) PROVE FALSE
    OBVIOUS
  <2>1. data.config.upperbound_guess = upper /\ data.guarantee[RootKey] < data.config.upperbound_guess
    BY <1>2 DEF IsGuess, Outguesses
  <2>2. upper <= data.guarantee[RootKey]
    BY <1>1 DEF UpperIsOptimal
  <2> QED
    BY <1>4, <1>5, <2>1, <2>2
<1> QED
  BY <1>1, <1>4, <1>5, <1>7, <1>8 DEF AreModels

(* A search whose bounds have met has a model to return, whatever its      *)
(* options are, unless the guess it was given is no more than what it      *)
(* guarantees: the best split of every bound list is one the graph has.    *)
THEOREM SearchHasModel ==
  (\A d \in DataSets : Calibrated(d) /\ Outguesses(d)) /\ Spec => []CertifiedHasModel
<1>1. ASSUME \A d \in DataSets : Calibrated(d) /\ Outguesses(d) PROVE Spec => []CertifiedHasModel
  <2>1. Init => TwinsRight /\ ModelsRight
    BY TwinsStart, ModelsStart
  <2>2. IInv => Proper(data) /\ Outguesses(data)
    BY <1>1, ProperSets DEF IInv, ControlRight
  <2>3. IInv /\ TwinsRight /\ ModelsRight /\ [Next]_vars => (TwinsRight /\ ModelsRight)'
    BY <2>2, TwinsKept, ModelsKept
  <2>4. IInv /\ ModelsRight => CertifiedHasModel
    <3> SUFFICES ASSUME IInv, ModelsRight, Complete PROVE Extracted # {}
      BY DEF CertifiedHasModel
    <3> QED
      BY <2>2, RootExtracted
  <2>5. Spec => []IInv
    BY <1>1, SearchInvariant
  <2> QED
    BY <2>1, <2>3, <2>4, <2>5, PTL DEF Spec
<1> QED
  BY <1>1

(* And what it returns is the optimum, and nothing else, if no reference   *)
(* model misleads it at the root and its bound lists are exact: in a rule  *)
(* list, and in a tree when rows that predictions cost nothing for do not  *)
(* make features look the same.                                            *)
THEOREM SearchResult ==
  (\A d \in DataSets : Calibrated(d) /\ Promising(d)) /\ Spec => []CertifiedIsOptimal
<1>1. ASSUME \A d \in DataSets : Calibrated(d) /\ Promising(d) PROVE Spec => []CertifiedIsOptimal
  <2>1. Init => TwinsRight /\ ModelsRight
    BY TwinsStart, ModelsStart
  <2>2. IInv => /\ Proper(data) /\ Outguesses(data) /\ data.guarantee[Root(data)] = data.optimum[Root(data)]
                /\ data.config.rule_list \/ Exacting(data)
    BY <1>1, ProperSets DEF IInv, ControlRight, Promising
  <2>3. IInv /\ TwinsRight /\ ModelsRight /\ [Next]_vars => (TwinsRight /\ ModelsRight)'
    BY <2>2, TwinsKept, ModelsKept
  <2>4. IInv /\ ModelsRight => CertifiedIsOptimal
    <3> SUFFICES ASSUME IInv, ModelsRight, Complete PROVE UpperIsOptimal /\ Extracted = {upper}
      BY DEF CertifiedIsOptimal
    <3>1. /\ UpperIsOptimal /\ upper \in Int /\ data.optimum[RootKey] \in Int
          /\ Extracted \in SUBSET Int /\ \A x \in Extracted : data.optimum[RootKey] <= x
          /\ \E x \in Extracted : x <= upper
          /\ upper <= data.optimum[RootKey] => \A x \in Extracted : x <= upper
      BY <2>2, RootExtracted
    <3>2. upper = data.optimum[RootKey]
      <4>1. RootKey = Root(data)
        BY DEF RootKey, Root, config
      <4>2. data.guarantee[RootKey] = data.optimum[RootKey]
        BY <2>2, <4>1
      <4>3. upper <= data.optimum[RootKey] /\ data.optimum[RootKey] <= upper
        BY <3>1, <4>2 DEF UpperIsOptimal
      <4> QED
        BY <3>1, <4>3
    <3>3. \A x \in Extracted : x = upper
      BY <3>1, <3>2
    <3> QED
      BY <3>1, <3>3
  <2>5. Spec => []IInv
    BY <1>1, SearchInvariant
  <2> QED
    BY <2>1, <2>3, <2>4, <2>5, PTL DEF Spec
<1> QED
  BY <1>1

=============================================================================
