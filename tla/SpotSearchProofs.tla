-------------------------- MODULE SpotSearchProofs --------------------------
(***************************************************************************)
(* Proofs about the search (SpotSearch) for any number of workers and any  *)
(* datasets: the two link tables agree, and every bound in the graph       *)
(* brackets the optimum, in every interleaving.                            *)
(***************************************************************************)
EXTENDS SpotCorrect, SpotOptimumProofs

-----------------------------------------------------------------------------
(* The subproblems a search reaches and what it may store of them          *)

Proper(d) == IsDataset(d) /\ IsJudged(d) /\ Calibrated(d)

Reached(d) == {key \in Keys(d) : key[1] \in TwinSets(d) /\ (key[1] = Rows(d) => key = Root(d))}

(* The features of a vertex, whatever message created it.                  *)
FeaturesOf(d, key) == Pruned(d, NewTask(d, key, d.features), key[1]).features

(* The features a message may propose for a vertex.                        *)
Candidates(d, key, C) ==
  C \subseteq d.features /\ {f \in d.features : Divides(d, key[1], f)} \subseteq C

Tasks == [base : Int, guaranteed : Int, lower : Int, upper : Int, features : SUBSET Int,
          coverage : Int, lowerscope : Int, upperscope : Int]

IsTask(d, key, t) ==
  /\ t \in Tasks
  /\ t.base = Leaf(d, key[1])
  /\ 0 <= t.lower /\ t.lower <= t.upper /\ t.upper <= t.base
  /\ t.lower <= d.guarantee[key] /\ d.optimum[key] <= t.upper

IsSplitBound(d, key, f, s) ==
  /\ s \in [lower : Int, upper : Int]
  /\ s.lower <= SplitLeast(d, Leaves(d), d.guarantee, key, f)
  /\ SplitLeast(d, Leaves(d), d.optimum, key, f) <= s.upper

(* The numbers of a subproblem the search reaches: its optimum is no       *)
(* more than its leaf, which is no more than 1.0.                          *)
LEMMA KeyFacts ==
  ASSUME NEW d, Proper(d), NEW key \in Reached(d)
  PROVE  /\ key = <<key[1], key[2]>> /\ key \in Keys(d) /\ key[1] \in TwinSets(d)
         /\ key[1] \in SUBSET Rows(d) /\ key[1] # {}
         /\ Leaf(d, key[1]) \in Nat /\ Leaf(d, key[1]) <= d.config.one /\ d.config.one \in Nat
         /\ d.guarantee[key] \in Int /\ d.optimum[key] \in Nat /\ d.optimum[key] <= Leaf(d, key[1])
<1> DEFINE S == key[1]
           k == key[2]
<1>1. key \in Keys(d) /\ S \in TwinSets(d)
  BY DEF Reached
<1>2. key = <<S, k>>
  BY <1>1, KeyPair
<1>3. S \in SUBSET Rows(d) /\ S # {}
  BY <1>1, <1>2, KeyIs DEF Proper
<1>4. IsValue(d, Leaves(d), d.optimum) /\ IsValue(d, GuidedLeaves(d), d.guarantee)
  BY JudgedValues DEF Proper
<1>5. Leaf(d, S) \in Nat /\ Leaf(d, S) <= d.config.one /\ Leaves(d)[S] = Leaf(d, S) /\ d.config.one \in Nat
  BY <1>3, LeavesFacts, LeafCapped DEF Proper, Calibrated, IsDataset, IsConfiguration
<1>6. d.guarantee[<<S, k>>] \in Int
  BY <1>1, <1>2, <1>4, ValueIs DEF Proper
<1>7. d.optimum[<<S, k>>] \in Int /\ d.optimum[<<S, k>>] <= Leaves(d)[S]
      /\ Ideals(d)[S] + d.config.regularization <= d.optimum[<<S, k>>]
  BY <1>1, <1>2, <1>4, ValueIs, ValueInt DEF Proper
<1>8. Ideals(d)[S] \in Nat /\ d.config.regularization \in Nat
  BY <1>3, <1>4, LeafAtLeast DEF Proper
<1> HIDE DEF S, k
<1>9. d.optimum[<<S, k>>] \in Nat /\ d.optimum[<<S, k>>] <= Leaf(d, S)
  BY <1>5, <1>7, <1>8
<1> QED
  BY <1>1, <1>2, <1>3, <1>5, <1>6, <1>9 DEF S, k

(* The root is one of them.                                                *)
LEMMA RootReached ==
  ASSUME NEW d, Proper(d) PROVE Root(d) \in Reached(d) /\ Root(d)[1] = Rows(d) /\ Candidates(d, Root(d), d.features)
<1>1. Rows(d) \in SUBSET Rows(d) /\ Rows(d) # {} /\ d.config.depth_budget \in Nat
  BY DEF Proper, IsDataset, IsConfiguration
<1>2. Root(d) \in Keys(d)
  BY <1>1, KeyIs DEF Root, Proper
<1> QED
  BY <1>2, TwinsStay DEF Reached, Root, Proper, Candidates

(* The features of a vertex: none where it is a leaf, else those that      *)
(* divide its rows.                                                        *)
LEMMA FeaturesAre ==
  ASSUME NEW d, NEW key
  PROVE  FeaturesOf(d, key) =
           IF IsLeaf(d, key, d.features) THEN {} ELSE {f \in d.features : Divides(d, key[1], f)}
BY DEF FeaturesOf, Pruned, NewTask

(* Features are positive numbers, so that a sign tells the side.           *)
LEMMA FeatureNumbers ==
  ASSUME NEW d, IsDataset(d) PROVE IsFiniteSet(d.features) /\ d.features \in SUBSET (Nat \ {0})
<1>1. IsFiniteSet(d.features) /\ d.features = 1 .. Cardinality(d.features)
  BY DEF IsDataset
<1>2. Cardinality(d.features) \in Nat
  BY <1>1, FS_CardinalityType
<1>3. 1 .. Cardinality(d.features) \in SUBSET (Nat \ {0})
  BY <1>2
<1> QED
  BY <1>1, <1>3

(* A vertex has every feature it can be split by, unless its leaf is       *)
(* best anyway.                                                            *)
LEMMA FeatureFacts ==
  ASSUME NEW d, Proper(d), NEW key \in Reached(d)
  PROVE  /\ FeaturesOf(d, key) \subseteq Splittable(d, key) /\ FeaturesOf(d, key) \subseteq d.features
         /\ IsFiniteSet(FeaturesOf(d, key)) /\ FeaturesOf(d, key) \in SUBSET (Nat \ {0})
         /\ \/ Leaf(d, key[1]) <= d.guarantee[key]
            \/ Splittable(d, key) = FeaturesOf(d, key)
         /\ FeaturesOf(d, key) # {} => {f \in d.features : Divides(d, key[1], f)} \subseteq FeaturesOf(d, key)
<1> DEFINE S == key[1]
           k == key[2]
           F == FeaturesOf(d, key)
<1>1. key = <<S, k>> /\ key \in Keys(d) /\ S \in TwinSets(d)
  BY KeyFacts
<1>2. IsValue(d, GuidedLeaves(d), d.guarantee)
  BY JudgedValues DEF Proper
<1>3. F \subseteq d.features
  BY FeaturesAre
<1>4. IsFiniteSet(d.features) /\ d.features \in SUBSET (Nat \ {0})
  BY FeatureNumbers DEF Proper
<1>5. CASE IsLeaf(d, key, d.features)
  <2>1. F = {}
    BY <1>5, FeaturesAre
  <2>2. Splittable(d, <<S, k>>) \subseteq d.features
    BY DEF Splittable
  <2>3. Leaf(d, S) <= d.guarantee[<<S, k>>]
    BY <1>1, <1>2, <1>5, <2>2, LeafIsBest DEF Proper, Calibrated
  <2> QED
    BY <1>1, <2>1, <2>3, FS_EmptySet
<1>6. CASE ~IsLeaf(d, key, d.features)
  <2>1. F = {f \in d.features : Divides(d, S, f)}
    BY <1>6, FeaturesAre
  <2>2. ~(d.config.depth_budget # 0 /\ key[2] = 1)
    BY <1>6 DEF IsLeaf
  <2>3. Splittable(d, key) = F
    BY <2>1, <2>2 DEF Splittable
  <2>4. IsFiniteSet(F)
    BY <1>3, <1>4, FS_Subset
  <2> QED
    BY <1>3, <1>4, <2>1, <2>3, <2>4
<1> QED
  BY <1>5, <1>6

(* The children of a vertex are reached too, and what the vertex           *)
(* proposes to them includes what they can be split by.                    *)
LEMMA ChildReached ==
  ASSUME NEW d, Proper(d), NEW key \in Reached(d), NEW f \in FeaturesOf(d, key), NEW p \in BOOLEAN
  PROVE  LET c == Child(d, key, f, p)
         IN  /\ c \in Reached(d) /\ c[1] # Rows(d) /\ c # key /\ c[1] \subseteq key[1] /\ c[1] # key[1]
             /\ Candidates(d, c, FeaturesOf(d, key)) /\ Splittable(d, c) \subseteq FeaturesOf(d, key)
             /\ c = <<Subset(d, key[1], f, p), Below(key[2])>>
<1> DEFINE S == key[1]
           k == key[2]
           c == Child(d, key, f, p)
           T == Subset(d, S, f, p)
<1>1. key = <<S, k>> /\ key \in Keys(d) /\ S \in TwinSets(d) /\ S \in SUBSET Rows(d)
  BY KeyFacts
<1>2. f \in Splittable(d, <<S, k>>) /\ f \in d.features
  BY <1>1, FeatureFacts
<1>3. Child(d, <<S, k>>, f, p) = <<T, Below(k)>> /\ <<T, Below(k)>> \in Keys(d)
      /\ T \in SUBSET Rows(d) /\ T \subseteq S /\ T # S /\ T # {}
  BY <1>1, <1>2, ChildIs DEF Proper
<1>4. T \in TwinSets(d)
  BY <1>1, <1>2, TwinsStay DEF Proper, SplitClosed
<1>5. {g \in d.features : Divides(d, T, g)} \subseteq {g \in d.features : Divides(d, S, g)}
  BY <1>3 DEF Divides, Subset
<1>6. {g \in d.features : Divides(d, S, g)} \subseteq FeaturesOf(d, key) /\ FeaturesOf(d, key) \subseteq d.features
  BY FeatureFacts
<1>7. c = <<T, Below(k)>>
  BY <1>1, <1>3
<1> HIDE DEF c, T, S
<1>8. c \in Keys(d) /\ c[1] = T /\ T # Rows(d)
  BY <1>1, <1>3, <1>7
<1>9. c \in Reached(d)
  BY <1>4, <1>8 DEF Reached
<1>10. Splittable(d, c) \subseteq {g \in d.features : Divides(d, T, g)}
  BY <1>8 DEF Splittable
<1>11. Candidates(d, c, FeaturesOf(d, key))
  BY <1>5, <1>6, <1>8 DEF Candidates
<1>12. c # key /\ T \subseteq S /\ T # S
  BY <1>1, <1>3, <1>7
<1> QED
  BY <1>5, <1>6, <1>7, <1>8, <1>9, <1>10, <1>11, <1>12 DEF c, T, S

(* A new task brackets the optimum.                                        *)
LEMMA NewIsTask ==
  ASSUME NEW d, Proper(d), NEW key \in Reached(d), NEW C \in SUBSET Int, Splittable(d, key) \subseteq C
  PROVE  IsTask(d, key, NewTask(d, key, C))
<1> DEFINE S == key[1]
           k == key[2]
           t == NewTask(d, key, C)
<1>1. key = <<S, k>> /\ key \in Keys(d) /\ S \in TwinSets(d)
      /\ d.optimum[key] <= Leaf(d, S) /\ Leaf(d, S) \in Nat
  BY KeyFacts
<1>2. IsValue(d, GuidedLeaves(d), d.guarantee)
  BY JudgedValues DEF Proper
<1>3. LET u == NewTask(d, <<S, k>>, C)
      IN  /\ u.base = Leaf(d, S) /\ u.upper = Leaf(d, S) /\ Leaf(d, S) \in Nat
          /\ u.lower \in Nat /\ u.lower <= Leaf(d, S) /\ u.lower <= d.guarantee[<<S, k>>]
          /\ u.guaranteed \in Int
  BY <1>1, <1>2, NewTaskBounds DEF Proper, Calibrated
<1>4. /\ t.base = Leaf(d, S) /\ t.upper = Leaf(d, S)
      /\ t.lower \in Nat /\ t.lower <= Leaf(d, S) /\ t.lower <= d.guarantee[key]
      /\ t.guaranteed \in Int
  BY <1>1, <1>3
<1>5. FltMax \in Int /\ -FltMax \in Int
  BY FltMaxAssumption
<1>6. t = [base |-> t.base, guaranteed |-> t.guaranteed, lower |-> t.lower, upper |-> t.upper,
           features |-> t.features, coverage |-> -FltMax, lowerscope |-> -FltMax, upperscope |-> FltMax]
      /\ t.features \in SUBSET Int
  BY DEF NewTask
<1> HIDE DEF t, S, k
<1>7. t \in Tasks
  BY <1>1, <1>4, <1>5, <1>6 DEF Tasks
<1> QED
  BY <1>1, <1>4, <1>7 DEF IsTask, t, S

(* With the features that its rows settle, whatever the message            *)
(* proposed.                                                               *)
LEMMA FreshIsTask ==
  ASSUME NEW d, Proper(d), NEW key \in Reached(d), NEW C, Candidates(d, key, C)
  PROVE  LET t == Pruned(d, NewTask(d, key, C), key[1])
         IN  IsTask(d, key, t) /\ t.features = FeaturesOf(d, key)
<1> DEFINE u == NewTask(d, key, C)
           t == Pruned(d, u, key[1])
<1>1. C \subseteq d.features /\ {f \in d.features : Divides(d, key[1], f)} \subseteq C
  BY DEF Candidates
<1>2. Splittable(d, key) \subseteq C
  BY <1>1 DEF Splittable
<1>3. d.features \in SUBSET Int
  <2>1. d.features \in SUBSET (Nat \ {0})
    BY FeatureNumbers DEF Proper
  <2> QED
    BY <2>1
<1>4. IsTask(d, key, u)
  BY <1>1, <1>2, <1>3, NewIsTask
<1>5. u.features = IF IsLeaf(d, key, C) THEN {} ELSE C
  BY DEF NewTask
<1>6. IsLeaf(d, key, C) <=> (IsLeaf(d, key, d.features) /\ d.features # {}) \/ C = {}
  BY <1>1 DEF IsLeaf
<1> HIDE DEF u
<1>7. t = [u EXCEPT !.features = {f \in @ : Divides(d, key[1], f)}]
  BY DEF Pruned
<1> HIDE DEF t
<1>8. t \in Tasks /\ t.base = u.base /\ t.lower = u.lower /\ t.upper = u.upper
      /\ t.features = {f \in u.features : Divides(d, key[1], f)}
  BY <1>4, <1>7 DEF IsTask, Tasks
<1>9. t.features = FeaturesOf(d, key)
  BY <1>1, <1>5, <1>6, <1>8, FeaturesAre
<1> QED
  BY <1>4, <1>8, <1>9 DEF IsTask, t, u

(* Scoping changes neither the bounds nor the features.                    *)
SameBut(t, u) ==
  u \in Tasks /\ u.base = t.base /\ u.lower = t.lower /\ u.upper = t.upper /\ u.features = t.features

(* Task::scope is such a step.                                             *)
LEMMA ScopedIs ==
  ASSUME NEW t \in Tasks, NEW scope \in Int
  PROVE  SameBut(t, Scoped(t, scope))
<1> DEFINE s == Max({0, scope})
<1>1. s \in Int
  BY MaxOfTwo
<1> HIDE DEF s
<1>2. Max({t.upperscope, s}) \in Int
  BY <1>1, MaxOfTwo DEF Tasks
<1>3. Min({t.lowerscope, s}) \in Int
  BY <1>1, MinOfTwo DEF Tasks
<1>4. Scoped(t, scope) =
        IF scope = 0 THEN t
        ELSE [t EXCEPT !.upperscope = IF @ = FltMax THEN s ELSE Max({@, s}),
                       !.lowerscope = IF @ = -FltMax THEN s ELSE Min({@, s})]
  BY DEF Scoped, s
<1> DEFINE x == IF t.upperscope = FltMax THEN s ELSE Max({t.upperscope, s})
           y == IF t.lowerscope = -FltMax THEN s ELSE Min({t.lowerscope, s})
<1>5. x \in Int /\ y \in Int
  BY <1>1, <1>2, <1>3
<1>6. Scoped(t, scope) = IF scope = 0 THEN t ELSE [t EXCEPT !.upperscope = x, !.lowerscope = y]
  BY <1>4 DEF Tasks
<1> HIDE DEF x, y
<1> QED
  BY <1>5, <1>6 DEF SameBut, Tasks

(* So a bracket stays one.                                                 *)
LEMMA SameIsTask ==
  ASSUME NEW d, NEW key, NEW t, IsTask(d, key, t), NEW u, SameBut(t, u) PROVE IsTask(d, key, u)
BY DEF IsTask, SameBut

(* Task::update keeps the bracket, and tightens, if what it is given is    *)
(* a bracket.                                                              *)
LEMMA UpdatedIs ==
  ASSUME NEW d, Proper(d), NEW key \in Reached(d), NEW t, IsTask(d, key, t),
         NEW lo \in Int, NEW up \in Int, lo <= d.guarantee[key], d.optimum[key] <= up
  PROVE  LET u == Updated(d, t, lo, up)
         IN  /\ IsTask(d, key, u) /\ u.features = t.features /\ u.upper <= t.upper
             /\ d.guarantee[key] = d.optimum[key] => t.lower <= u.lower
<1> DEFINE high == Min({t.upper, up})
           most == Max({t.lower, lo})
           low == Min({high, most})
           u == Updated(d, t, lo, up)
           one == d.config.one
           g == d.guarantee[key]
           o == d.optimum[key]
<1>1. /\ t \in Tasks /\ t.base \in Int /\ t.lower \in Int /\ t.upper \in Int
      /\ t.base = Leaf(d, key[1]) /\ 0 <= t.lower /\ t.lower <= t.upper /\ t.upper <= t.base
      /\ t.lower <= g /\ o <= t.upper /\ t.base <= one
      /\ g \in Int /\ o \in Nat /\ one \in Nat
  BY KeyFacts DEF IsTask, Tasks
<1>2. high = IF t.upper <= up THEN t.upper ELSE up
  BY <1>1, MinOfTwo
<1>3. most = IF t.lower <= lo THEN lo ELSE t.lower
  BY <1>1, MaxOfTwo
<1> HIDE DEF high, most, g, o, one
<1>4. high \in Int /\ most \in Int
  BY <1>1, <1>2, <1>3
<1>5. low = IF high <= most THEN high ELSE most
  BY <1>4, MinOfTwo
<1> HIDE DEF low
<1>6. lo <= g /\ o <= up
  BY DEF g, o
<1>7. /\ low \in Int /\ 0 <= low /\ low <= high /\ high <= t.base /\ low <= g /\ o <= high
      /\ high <= t.upper /\ ~(one < low) /\ (g = o => t.lower <= low)
  BY <1>1, <1>2, <1>3, <1>4, <1>5, <1>6
<1>8. u = [t EXCEPT !.upper = high, !.lower = IF d.config.cancellation /\ one < low THEN high ELSE low]
  BY DEF Updated, high, low, most, one
<1> HIDE DEF u
<1>9. u = [t EXCEPT !.upper = high, !.lower = low]
  BY <1>7, <1>8
<1>10. u \in Tasks /\ u.base = t.base /\ u.upper = high /\ u.lower = low /\ u.features = t.features
  BY <1>1, <1>4, <1>7, <1>9 DEF Tasks
<1> QED
  BY <1>1, <1>7, <1>10 DEF IsTask, u, g, o

(* Bounds of the two sides bound the split.                                *)
LEMMA JoinBrackets ==
  ASSUME NEW d, IsDataset(d), NEW L, NEW v, IsValue(d, L, v),
         NEW S, NEW k, NEW f, NEW S0, NEW S1, IsSplit(d, S, k, f, S0, S1), NEW x0 \in Int, NEW x1 \in Int
  PROVE  LET x == Joined(d.config.rule_list, x0, Leaf(d, S0), x1, Leaf(d, S1))
             least == SplitLeast(d, Leaves(d), v, <<S, k>>, f)
         IN  /\ x \in Int
             /\ x0 <= v[<<S0, Below(k)>>] /\ x1 <= v[<<S1, Below(k)>>] => x <= least
             /\ v[<<S0, Below(k)>>] <= x0 /\ v[<<S1, Below(k)>>] <= x1 => least <= x
<1> DEFINE list == d.config.rule_list
           v0 == v[<<S0, Below(k)>>]
           v1 == v[<<S1, Below(k)>>]
           l0 == Leaf(d, S0)
           l1 == Leaf(d, S1)
           x == Joined(list, x0, l0, x1, l1)
           least == SplitLeast(d, Leaves(d), v, <<S, k>>, f)
<1>1. <<S, k>> \in Keys(d) /\ f \in Splittable(d, <<S, k>>) /\ AreSides(d, S, f, S0, S1)
  BY DEF IsSplit
<1>2. /\ S0 \in SUBSET Rows(d) /\ S1 \in SUBSET Rows(d)
      /\ <<S0, Below(k)>> \in Keys(d) /\ <<S1, Below(k)>> \in Keys(d)
  BY <1>1, SidesAre
<1>3. l0 \in Int /\ l1 \in Int /\ Leaves(d)[S0] = l0 /\ Leaves(d)[S1] = l1 /\ Leaves(d) \in Costs(d)
  <2>1. Gradual(d, Leaves(d)) /\ \A T \in SUBSET Rows(d) : Leaves(d)[T] = Leaf(d, T) /\ Leaf(d, T) \in Nat
    BY LeavesFacts
  <2>2. Leaves(d) \in Costs(d)
    BY <2>1 DEF Gradual, Costs
  <2> QED
    BY <1>2, <2>1, <2>2
<1>4. v0 \in Int /\ v1 \in Int
  BY <1>2, ValueIs
<1>5. least = Joined(list, v0, l0, v1, l1)
  BY <1>3, <1>4, SplitAs
<1> HIDE DEF v0, v1, l0, l1, list, least
<1>6. x \in Int /\ Joined(list, v0, l0, v1, l1) \in Int
  BY <1>3, <1>4, JoinedIs
<1>7. ASSUME x0 <= v0, x1 <= v1 PROVE x <= least
  <2>1. x <= Joined(list, v0, l0, v1, l1) + 0 + 0
    BY <1>3, <1>4, <1>7, JoinedMonotone
  <2> HIDE DEF x
  <2> QED
    BY <1>5, <1>6, <2>1
<1>8. ASSUME v0 <= x0, v1 <= x1 PROVE least <= x
  <2>1. Joined(list, v0, l0, v1, l1) <= x + 0 + 0
    BY <1>3, <1>4, <1>8, JoinedMonotone
  <2> HIDE DEF x
  <2> QED
    BY <1>5, <1>6, <2>1
<1> HIDE DEF x
<1> QED
  BY <1>6, <1>7, <1>8 DEF v0, v1, l0, l1, list, least, x

(* The split that two tasks bound, with no mention of the sides' signs.    *)
LEMMA TasksBracket ==
  ASSUME NEW d, Proper(d), NEW S, NEW k, NEW f, NEW S0, NEW S1, IsSplit(d, S, k, f, S0, S1),
         NEW a, IsTask(d, <<S0, Below(k)>>, a), NEW b, IsTask(d, <<S1, Below(k)>>, b)
  PROVE  IsSplitBound(d, <<S, k>>, f, Split(d, a, b))
<1> DEFINE list == d.config.rule_list
           s == Split(d, a, b)
           l0 == Leaf(d, S0)
           l1 == Leaf(d, S1)
           low == Joined(list, a.lower, l0, b.lower, l1)
           high == Joined(list, a.upper, l0, b.upper, l1)
           sure == SplitLeast(d, Leaves(d), d.guarantee, <<S, k>>, f)
           best == SplitLeast(d, Leaves(d), d.optimum, <<S, k>>, f)
<1>1. IsValue(d, Leaves(d), d.optimum) /\ IsValue(d, GuidedLeaves(d), d.guarantee)
  BY JudgedValues DEF Proper
<1>2. /\ a.base = l0 /\ b.base = l1 /\ l0 \in Int /\ l1 \in Int
      /\ a.lower \in Int /\ a.upper \in Int /\ b.lower \in Int /\ b.upper \in Int
      /\ a.lower <= d.guarantee[<<S0, Below(k)>>] /\ b.lower <= d.guarantee[<<S1, Below(k)>>]
      /\ d.optimum[<<S0, Below(k)>>] <= a.upper /\ d.optimum[<<S1, Below(k)>>] <= b.upper
  BY DEF IsTask, Tasks
<1>3. low \in Int /\ low <= sure
  BY <1>1, <1>2, JoinBrackets DEF Proper
<1>4. high \in Int /\ best <= high
  BY <1>1, <1>2, JoinBrackets DEF Proper
<1>5. s.lower = low /\ s.upper = high /\ s = [lower |-> s.lower, upper |-> s.upper]
  <2> HIDE DEF l0, l1
  <2>1. CASE list
    <3>1. b.lower + l0 = l0 + b.lower /\ b.upper + l0 = l0 + b.upper
      BY <1>2
    <3> QED
      BY <1>2, <2>1, <3>1 DEF Split, Joined
  <2>2. CASE ~list
    BY <2>2 DEF Split, Joined
  <2> QED
    BY <2>1, <2>2
<1> HIDE DEF low, high, s
<1> QED
  BY <1>3, <1>4, <1>5 DEF IsSplitBound, s

(* The bounds that load_children and store_children compute for a split    *)
(* from two brackets are a bracket of it.                                  *)
LEMMA SplitBrackets ==
  ASSUME NEW d, Proper(d), NEW key \in Reached(d), NEW f \in FeaturesOf(d, key),
         NEW a, IsTask(d, Child(d, key, f, FALSE), a), NEW b, IsTask(d, Child(d, key, f, TRUE), b)
  PROVE  IsSplitBound(d, key, f, Split(d, a, b))
<1>1. key = <<key[1], key[2]>> /\ key \in Keys(d)
  BY KeyFacts
<1>2. f \in Splittable(d, <<key[1], key[2]>>)
  BY <1>1, FeatureFacts
<1>3. PICK S0, S1 : S0 = Subset(d, key[1], f, FALSE) /\ S1 = Subset(d, key[1], f, TRUE)
  OBVIOUS
<1>4. Child(d, key, f, FALSE) = <<S0, Below(key[2])>> /\ Child(d, key, f, TRUE) = <<S1, Below(key[2])>>
  <2>1. \A p \in BOOLEAN : Child(d, key, f, p) = <<Subset(d, key[1], f, p), Below(key[2])>>
    BY ChildReached
  <2>2. FALSE \in BOOLEAN /\ TRUE \in BOOLEAN
    OBVIOUS
  <2>3. /\ Child(d, key, f, FALSE) = <<Subset(d, key[1], f, FALSE), Below(key[2])>>
        /\ Child(d, key, f, TRUE) = <<Subset(d, key[1], f, TRUE), Below(key[2])>>
    BY <2>1, <2>2, Zenon
  <2> QED
    BY <1>3, <2>3
<1>5. IsSplit(d, key[1], key[2], f, S0, S1)
  BY <1>1, <1>2, <1>3 DEF IsSplit, AreSides
<1>6. IsTask(d, <<S0, Below(key[2])>>, a) /\ IsTask(d, <<S1, Below(key[2])>>, b)
  BY <1>4
<1>7. IsSplitBound(d, <<key[1], key[2]>>, f, Split(d, a, b))
  BY <1>5, <1>6, TasksBracket
<1> QED
  BY <1>1, <1>7

(* A split in which one side stops costs no more with an actual leaf       *)
(* than with one the reference model admits.                               *)
LEMMA GuidedSplit ==
  ASSUME NEW d, Proper(d), NEW S, NEW k, <<S, k>> \in Keys(d), NEW f \in Splittable(d, <<S, k>>)
  PROVE  /\ SplitLeast(d, Leaves(d), d.guarantee, <<S, k>>, f)
              <= SplitLeast(d, GuidedLeaves(d), d.guarantee, <<S, k>>, f)
         /\ SplitLeast(d, Leaves(d), d.guarantee, <<S, k>>, f) \in Int
<1> DEFINE v == d.guarantee
           K == Leaves(d)
           J == GuidedLeaves(d)
<1>1. IsDataset(d) /\ IsValue(d, J, v)
  BY JudgedValues DEF Proper
<1>2. PICK S0, S1 : S0 = Subset(d, S, f, FALSE) /\ S1 = Subset(d, S, f, TRUE)
  OBVIOUS
<1>3. AreSides(d, S, f, S0, S1)
  BY <1>2 DEF AreSides
<1>4. /\ S0 \in SUBSET Rows(d) /\ S1 \in SUBSET Rows(d)
      /\ <<S0, Below(k)>> \in Keys(d) /\ <<S1, Below(k)>> \in Keys(d)
  BY <1>1, <1>3, SidesAre
<1>5. v[<<S0, Below(k)>>] \in Int /\ v[<<S1, Below(k)>>] \in Int
  BY <1>1, <1>4, ValueIs
<1>6. K \in Costs(d) /\ J \in Costs(d)
  <2>1. Gradual(d, Leaves(d)) /\ Gradual(d, GuidedLeaves(d))
    BY <1>1, LeavesFacts, GuidedFacts
  <2> QED
    BY <2>1 DEF Gradual, Costs
<1>7. \A T \in SUBSET Rows(d) : K[T] <= J[T] /\ K[T] \in Int /\ J[T] \in Int
  <2>1. \A T \in SUBSET Rows(d) : Leaf(d, T) <= GuidedLeaves(d)[T] /\ Leaves(d)[T] = Leaf(d, T)
    BY <1>1, GuidedFacts, LeavesFacts
  <2> QED
    BY <1>6, <2>1 DEF Costs
<1> HIDE DEF v, K, J
<1> DEFINE list == d.config.rule_list
           v0 == v[<<S0, Below(k)>>]
           v1 == v[<<S1, Below(k)>>]
           x == Joined(list, v0, K[S0], v1, K[S1])
           y == Joined(list, v0, J[S0], v1, J[S1])
<1>8. SplitLeast(d, K, v, <<S, k>>, f) = x /\ SplitLeast(d, J, v, <<S, k>>, f) = y
  <2>1. IsSplit(d, S, k, f, S0, S1)
    BY <1>3 DEF IsSplit
  <2> QED
    BY <1>1, <1>5, <1>6, <2>1, SplitAs
<1> HIDE DEF v0, v1, list
<1>9. /\ K[S0] \in Int /\ K[S1] \in Int /\ J[S0] \in Int /\ J[S1] \in Int /\ v0 \in Int /\ v1 \in Int
      /\ K[S0] <= J[S0] /\ K[S1] <= J[S1]
  BY <1>4, <1>5, <1>7 DEF v0, v1
<1>10. x \in Int /\ y \in Int
  BY <1>9, JoinedIs
<1>11. x <= y + 0 + 0
  BY <1>9, JoinedMonotone
<1> HIDE DEF x, y
<1>12. x <= y
  BY <1>10, <1>11
<1> QED
  BY <1>8, <1>10, <1>12 DEF v, K, J

IsBoundList(d, key, b) ==
  DOMAIN b = FeaturesOf(d, key) /\ \A f \in FeaturesOf(d, key) : IsSplitBound(d, key, f, b[f])

(* What a vertex may be tightened to.                                      *)
IsOffer(d, key, o) ==
  o.lower \in Int /\ o.upper \in Int /\ o.lower <= d.guarantee[key] /\ d.optimum[key] <= o.upper

(* What store_children and load_children offer a vertex holds for it:      *)
(* the lower bound although splits out of scope are passed over, the       *)
(* upper bound since a split attains it.                                   *)
LEMMA OfferedIs ==
  ASSUME NEW d, Proper(d), NEW key \in Reached(d), NEW t, IsTask(d, key, t), NEW b, IsBoundList(d, key, b)
  PROVE  IsOffer(d, key, Offered(t, {b[f] : f \in FeaturesOf(d, key)}))
<1> DEFINE F == FeaturesOf(d, key)
           S == key[1]
           k == key[2]
           splits == {b[f] : f \in F}
           base == t.base
           scope == t.upperscope
           inScope == {s \in splits : s.lower <= t.upperscope}
           lowers == {base, scope} \cup {s.lower : s \in inScope}
           uppers == {base} \cup {s.upper : s \in inScope}
           o == Offered(t, splits)
           g == d.guarantee[key]
           best == d.optimum[key]
<1>1. key = <<S, k>> /\ key \in Keys(d) /\ S \in SUBSET Rows(d) /\ g \in Int /\ best \in Int /\ best <= Leaf(d, S)
  BY KeyFacts
<1>2. base \in Int /\ scope \in Int /\ base = Leaf(d, S)
  BY DEF IsTask, Tasks
<1>3. F \subseteq Splittable(d, key) /\ IsFiniteSet(F) /\ (Leaf(d, S) <= g \/ Splittable(d, key) = F)
  BY FeatureFacts
<1>4. IsDataset(d) /\ IsValue(d, Leaves(d), d.optimum) /\ IsValue(d, GuidedLeaves(d), d.guarantee)
  BY JudgedValues DEF Proper
<1>5. \A f \in F : /\ b[f].lower \in Int /\ b[f].upper \in Int
                   /\ b[f].lower <= SplitLeast(d, Leaves(d), d.guarantee, key, f)
                   /\ SplitLeast(d, Leaves(d), d.optimum, key, f) <= b[f].upper
  BY DEF IsBoundList, IsSplitBound
<1> HIDE DEF F
<1>6. IsFiniteSet(inScope) /\ inScope \subseteq splits
  <2>1. IsFiniteSet({b[f] : f \in F})
    BY <1>3, ImageFinite
  <2> QED
    BY <2>1, FS_Subset
<1>7. lowers \in SUBSET Int /\ IsFiniteSet(lowers) /\ uppers \in SUBSET Int /\ IsFiniteSet(uppers)
  <2> DEFINE low == [s \in inScope |-> s.lower]
             high == [s \in inScope |-> s.upper]
             lows == {low[s] : s \in inScope}
             highs == {high[s] : s \in inScope}
  <2> HIDE DEF inScope
  <2>1. \A h : IsFiniteSet({h[s] : s \in inScope})
    BY <1>6, ImageFinite
  <2>2. lows = {s.lower : s \in inScope} /\ highs = {s.upper : s \in inScope}
    OBVIOUS
  <2>3. IsFiniteSet(lows) /\ IsFiniteSet(highs)
    BY <2>1
  <2>4. \A s \in inScope : s.lower \in Int /\ s.upper \in Int
    BY <1>5, <1>6
  <2>5. lows \in SUBSET Int /\ highs \in SUBSET Int
    BY <2>2, <2>4
  <2> HIDE DEF lows, highs
  <2>6. lowers = {base, scope} \cup lows /\ uppers = {base} \cup highs
    BY <2>2
  <2>7. IsFiniteSet({base}) /\ IsFiniteSet({base, scope})
    <3>1. IsFiniteSet({base}) /\ IsFiniteSet({scope}) /\ {base, scope} = {base} \cup {scope}
      BY FS_Singleton
    <3> QED
      BY <3>1, FS_Union
  <2>8. IsFiniteSet({base, scope} \cup lows) /\ IsFiniteSet({base} \cup highs)
    BY <2>3, <2>7, FS_Union
  <2> QED
    BY <1>2, <2>5, <2>6, <2>8
<1>8. o.lower = Min(lowers) /\ o.upper = Min(uppers)
  BY DEF Offered
<1>9. base \in lowers /\ scope \in lowers /\ base \in uppers
  OBVIOUS
<1>10. \A f \in F : b[f].lower <= scope => b[f].lower \in lowers
  OBVIOUS
<1>11. \A x \in uppers : x = base \/ \E f \in F : x = b[f].upper
  OBVIOUS
<1> HIDE DEF lowers, uppers, inScope, splits, o
<1>12. o.lower \in Int /\ o.upper \in Int /\ o.upper \in uppers /\ \A x \in lowers : o.lower <= x
  <2>1. Min(lowers) \in lowers /\ \A x \in lowers : Min(lowers) <= x
    BY <1>7, <1>9, MinIs
  <2>2. Min(uppers) \in uppers
    BY <1>7, <1>9, MinIs
  <2> QED
    BY <1>7, <1>8, <2>1, <2>2
<1>13. o.lower <= g
  <2>1. CASE Leaf(d, S) <= g
    <3>1. o.lower <= base
      BY <1>9, <1>12
    <3> HIDE DEF base, g
    <3> QED
      BY <1>1, <1>2, <1>12, <2>1, <3>1
  <2>2. CASE Splittable(d, key) = F /\ ~(Leaf(d, S) <= g)
    <3>1. GuidedLeaves(d)[S] \in Int /\ Leaf(d, S) <= GuidedLeaves(d)[S] /\ Leaf(d, S) \in Nat
      BY <1>1, <1>4, LeafAtLeast
    <3>2. \/ g = GuidedLeaves(d)[S]
          \/ \E f \in Splittable(d, key) : g = SplitLeast(d, GuidedLeaves(d), d.guarantee, key, f)
      BY <1>1, <1>4, ValueIs
    <3>3. PICK f \in F : g = SplitLeast(d, GuidedLeaves(d), d.guarantee, key, f)
      BY <2>2, <3>1, <3>2
    <3>4. SplitLeast(d, Leaves(d), d.guarantee, key, f) <= g
          /\ SplitLeast(d, Leaves(d), d.guarantee, key, f) \in Int
      BY <1>1, <2>2, <3>3, GuidedSplit
    <3> DEFINE least == SplitLeast(d, Leaves(d), d.guarantee, key, f)
               low == b[f].lower
    <3>5. low \in Int /\ low <= least /\ least \in Int /\ least <= g
      BY <1>5, <3>4
    <3>6. low <= scope => o.lower <= low
      BY <1>10, <1>12
    <3>7. o.lower <= scope
      BY <1>9, <1>12
    <3> HIDE DEF least, low, scope, g
    <3> QED
      BY <1>1, <1>2, <1>12, <3>5, <3>6, <3>7
  <2> QED
    BY <1>3, <2>1, <2>2
<1>14. best <= o.upper
  <2>1. CASE o.upper = base
    BY <1>1, <1>2, <2>1
  <2>2. ASSUME NEW f \in F, o.upper = b[f].upper PROVE best <= o.upper
    <3>1. d.optimum[<<S, k>>] <= SplitLeast(d, Leaves(d), d.optimum, <<S, k>>, f)
          /\ SplitLeast(d, Leaves(d), d.optimum, <<S, k>>, f) \in Int
      BY <1>1, <1>3, <1>4, ValueIs
    <3> DEFINE least == SplitLeast(d, Leaves(d), d.optimum, key, f)
               high == b[f].upper
    <3>2. best <= least /\ least \in Int /\ least <= high /\ high \in Int
      BY <1>1, <1>5, <3>1
    <3> HIDE DEF least, high, best
    <3> QED
      BY <1>1, <2>2, <3>2 DEF high
  <2> QED
    BY <1>11, <1>12, <2>1, <2>2
<1> QED
  BY <1>12, <1>13, <1>14 DEF IsOffer, o, splits, F

(* lo is the greatest that its fixed values and the values before it, less *)
(* what is apart, make it; hi is the least.                                *)
Less(fixed, before, apart, g, f) == fixed[f] \cup {g[h] - apart[f][h] : h \in before[f]}
More(fixed, before, apart, g, f) == fixed[f] \cup {g[h] + apart[f][h] : h \in before[f]}

Raises(lo, F, fixed, before, apart) == lo = [f \in F |-> Max(Less(fixed, before, apart, lo, f))]
Caps(hi, F, fixed, before, apart) == hi = [f \in F |-> Min(More(fixed, before, apart, hi, f))]

IntSet(T) == T \in SUBSET Int /\ T # {} /\ IsFiniteSet(T)

(* A list of features: what stands before each of them is smaller.         *)
IsList(F, N, fixed, before, apart) ==
  /\ N \in Nat /\ F \in SUBSET (0 .. N)
  /\ \A f \in F : /\ fixed[f] \in SUBSET Int /\ fixed[f] # {} /\ IsFiniteSet(fixed[f])
                  /\ before[f] \in SUBSET F /\ \A h \in before[f] : h < f /\ apart[f][h] \in Int

(* What one entry of a list is raised to and capped at, given those        *)
(* before it, are sets of integers.                                        *)
LEMMA ListValues ==
  ASSUME NEW F, NEW N, NEW fixed, NEW before, NEW apart, IsList(F, N, fixed, before, apart),
         NEW f \in F, NEW g, \A h \in before[f] : g[h] \in Int
  PROVE  IntSet(Less(fixed, before, apart, g, f)) /\ IntSet(More(fixed, before, apart, g, f))
<1> DEFINE B == before[f]
           minus == [h \in B |-> g[h] - apart[f][h]]
           plus == [h \in B |-> g[h] + apart[f][h]]
           lows == {minus[h] : h \in B}
           highs == {plus[h] : h \in B}
<1>1. /\ fixed[f] \in SUBSET Int /\ fixed[f] # {} /\ IsFiniteSet(fixed[f])
      /\ B \in SUBSET F /\ (\A h \in B : apart[f][h] \in Int) /\ N \in Nat /\ F \in SUBSET (0 .. N)
  BY DEF IsList
<1>2. IsFiniteSet(B)
  <2>1. IsFiniteSet(0 .. N)
    BY <1>1, FS_Interval
  <2> HIDE DEF B
  <2> QED
    BY <1>1, <2>1, FS_Subset
<1>3. \A h \in B : minus[h] \in Int /\ plus[h] \in Int
  BY <1>1
<1>4. lows = {g[h] - apart[f][h] : h \in B} /\ highs = {g[h] + apart[f][h] : h \in B}
  OBVIOUS
<1> HIDE DEF B, minus, plus
<1>5. IsFiniteSet(lows) /\ IsFiniteSet(highs)
  BY <1>2, ImageFinite
<1>6. lows \in SUBSET Int /\ highs \in SUBSET Int
  BY <1>3
<1> HIDE DEF lows, highs
<1>7. IsFiniteSet(fixed[f] \cup lows) /\ IsFiniteSet(fixed[f] \cup highs)
  BY <1>1, <1>5, FS_Union
<1> QED
  BY <1>1, <1>4, <1>6, <1>7 DEF B, IntSet, Less, More

(* One pass over a list, in order and in place, has a result.              *)
LEMMA ListSolved ==
  ASSUME NEW F, NEW N, NEW fixed, NEW before, NEW apart, IsList(F, N, fixed, before, apart)
  PROVE  /\ \E lo : Raises(lo, F, fixed, before, apart)
         /\ \E hi : Caps(hi, F, fixed, before, apart)
<1> DEFINE low(g, f) == Max(Less(fixed, before, apart, g, f))
           high(g, f) == Min(More(fixed, before, apart, g, f))
           L == [g \in [F -> Int] |-> [f \in F |-> low(g, f)]]
           H == [g \in [F -> Int] |-> [f \in F |-> high(g, f)]]
           rank == [f \in F |-> f]
<1>1. /\ N \in Nat /\ F \in SUBSET (0 .. N) /\ rank \in [F -> 0 .. N]
      /\ \A f \in F : before[f] \in SUBSET F /\ \A h \in before[f] : h < f
  BY DEF IsList
<1>2. ASSUME NEW g \in [F -> Int], NEW f \in F PROVE low(g, f) \in Int /\ high(g, f) \in Int
  <2>1. \A h \in before[f] : g[h] \in Int
    BY <1>1
  <2> DEFINE l == Less(fixed, before, apart, g, f)
             u == More(fixed, before, apart, g, f)
  <2>2. IntSet(l) /\ IntSet(u)
    BY <2>1, ListValues
  <2> HIDE DEF l, u
  <2>3. Max(l) \in Int /\ Min(u) \in Int
    BY <2>2, MinIs, MaxIs DEF IntSet
  <2> QED
    BY <2>3 DEF l, u
<1>3. ASSUME NEW g \in [F -> Int], NEW k \in [F -> Int], NEW f \in F,
             \A y \in F : rank[y] < rank[f] => g[y] = k[y]
      PROVE  low(g, f) = low(k, f) /\ high(g, f) = high(k, f)
  <2>1. \A h \in before[f] : g[h] = k[h]
    BY <1>1, <1>3
  <2>2. /\ Less(fixed, before, apart, g, f) = Less(fixed, before, apart, k, f)
        /\ More(fixed, before, apart, g, f) = More(fixed, before, apart, k, f)
    BY <2>1 DEF Less, More
  <2> QED
    BY <2>2
<1>4. \A g \in [F -> Int] : /\ L[g] = [f \in F |-> low(g, f)] /\ H[g] = [f \in F |-> high(g, f)]
                            /\ \A f \in F : L[g][f] = low(g, f) /\ H[g][f] = high(g, f)
  OBVIOUS
<1> HIDE DEF low, high, rank
<1>5. IsBody(L, F, Int) /\ IsBody(H, F, Int)
  BY <1>2 DEF IsBody
<1> HIDE DEF L, H
<1>6. ReadsLower(L, F, Int, rank) /\ ReadsLower(H, F, Int, rank)
  <2>1. \A g \in [F -> Int], k \in [F -> Int] : \A f \in F :
          (\A y \in F : rank[y] < rank[f] => g[y] = k[y]) => L[g][f] = L[k][f] /\ H[g][f] = H[k][f]
    <3>1. ASSUME NEW g \in [F -> Int], NEW k \in [F -> Int], NEW f \in F,
                 \A y \in F : rank[y] < rank[f] => g[y] = k[y]
          PROVE  L[g][f] = L[k][f] /\ H[g][f] = H[k][f]
      <4>1. low(g, f) = low(k, f) /\ high(g, f) = high(k, f)
        BY <1>3, <3>1
      <4>2. /\ L[g][f] = low(g, f) /\ L[k][f] = low(k, f)
            /\ H[g][f] = high(g, f) /\ H[k][f] = high(k, f)
        BY <1>4
      <4> QED
        BY <4>1, <4>2
    <3> QED
      BY <3>1
  <2> QED
    BY <2>1 DEF ReadsLower
<1>7. Int # {}
  OBVIOUS
<1>8. PICK lo : IsSolution(lo, L, F, Int)
  BY <1>1, <1>5, <1>6, <1>7, RecursionSolved
<1>9. PICK hi : IsSolution(hi, H, F, Int)
  BY <1>1, <1>5, <1>6, <1>7, RecursionSolved
<1>10. lo = [f \in F |-> low(lo, f)] /\ hi = [f \in F |-> high(hi, f)]
  BY <1>4, <1>8, <1>9 DEF IsSolution
<1> QED
  BY <1>10 DEF Raises, Caps, low, high

(* A pass that raises keeps below s, if the values it starts from are      *)
(* and s is as far apart as the entries are.                               *)
LEMMA RaisedBelow ==
  ASSUME NEW F, NEW N, NEW fixed, NEW before, NEW apart, IsList(F, N, fixed, before, apart),
         NEW lo, Raises(lo, F, fixed, before, apart), NEW s, \A f \in F : s[f] \in Int,
         \A f \in F : /\ \A x \in fixed[f] : x <= s[f]
                      /\ \A h \in before[f] : s[h] - apart[f][h] <= s[f]
  PROVE  \A f \in F : lo[f] \in Int /\ lo[f] <= s[f]
<1> DEFINE Bad == {f \in F : ~(lo[f] \in Int /\ lo[f] <= s[f])}
<1>1. F \in SUBSET Nat
      /\ \A f \in F : fixed[f] \in SUBSET Int /\ before[f] \in SUBSET F /\ \A h \in before[f] : h < f /\ apart[f][h] \in Int
  BY DEF IsList
<1>2. ASSUME Bad # {} PROVE FALSE
  <2>1. Bad \in SUBSET Nat
    BY <1>1
  <2>2. PICK f \in Bad : \A y \in Bad : f <= y
    BY <1>2, <2>1, LeastNat
  <2>3. f \in F /\ ~(lo[f] \in Int /\ lo[f] <= s[f])
    BY <2>2
  <2>4. \A h \in before[f] : h \in F /\ lo[h] \in Int /\ lo[h] <= s[h]
    <3>1. ASSUME NEW h \in before[f] PROVE h \in F /\ h \notin Bad
      <4>1. h \in F /\ h < f /\ h \in Nat /\ f \in Nat
        BY <1>1, <2>3
      <4> HIDE DEF Bad
      <4> QED
        BY <2>2, <4>1
    <3> QED
      BY <3>1
  <2> DEFINE T == Less(fixed, before, apart, lo, f)
  <2>5. IntSet(T)
    BY <2>3, <2>4, ListValues
  <2>6. ASSUME NEW x \in T PROVE x <= s[f]
    <3>1. CASE x \in fixed[f]
      BY <2>3, <3>1
    <3>2. ASSUME NEW h \in before[f], x = lo[h] - apart[f][h] PROVE x <= s[f]
      <4> DEFINE a == lo[h]
                 b == apart[f][h]
                 c == s[h]
                 e == s[f]
      <4>1. a \in Int /\ b \in Int /\ c \in Int /\ e \in Int /\ a <= c /\ c - b <= e /\ x = a - b
        BY <1>1, <2>3, <2>4, <3>2
      <4> HIDE DEF a, b, c, e
      <4>2. x <= e
        BY <4>1
      <4> QED
        BY <4>2 DEF e
    <3> QED
      BY <2>6, <3>1, <3>2 DEF Less
  <2>7. lo[f] = Max(T)
    BY <2>3 DEF Raises
  <2> HIDE DEF T
  <2>8. Max(T) \in T
    BY <2>5, MaxIs DEF IntSet
  <2> QED
    BY <2>3, <2>5, <2>6, <2>7, <2>8 DEF IntSet
<1> QED
  BY <1>2

(* And one that caps keeps above.                                          *)
LEMMA CappedAbove ==
  ASSUME NEW F, NEW N, NEW fixed, NEW before, NEW apart, IsList(F, N, fixed, before, apart),
         NEW hi, Caps(hi, F, fixed, before, apart), NEW s, \A f \in F : s[f] \in Int,
         \A f \in F : /\ \A x \in fixed[f] : s[f] <= x
                      /\ \A h \in before[f] : s[f] <= s[h] + apart[f][h]
  PROVE  \A f \in F : hi[f] \in Int /\ s[f] <= hi[f]
<1> DEFINE Bad == {f \in F : ~(hi[f] \in Int /\ s[f] <= hi[f])}
<1>1. F \in SUBSET Nat
      /\ \A f \in F : fixed[f] \in SUBSET Int /\ before[f] \in SUBSET F /\ \A h \in before[f] : h < f /\ apart[f][h] \in Int
  BY DEF IsList
<1>2. ASSUME Bad # {} PROVE FALSE
  <2>1. Bad \in SUBSET Nat
    BY <1>1
  <2>2. PICK f \in Bad : \A y \in Bad : f <= y
    BY <1>2, <2>1, LeastNat
  <2>3. f \in F /\ ~(hi[f] \in Int /\ s[f] <= hi[f])
    BY <2>2
  <2>4. \A h \in before[f] : h \in F /\ hi[h] \in Int /\ s[h] <= hi[h]
    <3>1. ASSUME NEW h \in before[f] PROVE h \in F /\ h \notin Bad
      <4>1. h \in F /\ h < f /\ h \in Nat /\ f \in Nat
        BY <1>1, <2>3
      <4> HIDE DEF Bad
      <4> QED
        BY <2>2, <4>1
    <3> QED
      BY <3>1
  <2> DEFINE T == More(fixed, before, apart, hi, f)
  <2>5. IntSet(T)
    BY <2>3, <2>4, ListValues
  <2>6. ASSUME NEW x \in T PROVE s[f] <= x
    <3>1. CASE x \in fixed[f]
      BY <2>3, <3>1
    <3>2. ASSUME NEW h \in before[f], x = hi[h] + apart[f][h] PROVE s[f] <= x
      <4> DEFINE a == hi[h]
                 b == apart[f][h]
                 c == s[h]
                 e == s[f]
      <4>1. a \in Int /\ b \in Int /\ c \in Int /\ e \in Int /\ c <= a /\ e <= c + b /\ x = a + b
        BY <1>1, <2>3, <2>4, <3>2
      <4> HIDE DEF a, b, c, e
      <4>2. e <= x
        BY <4>1
      <4> QED
        BY <4>2 DEF e
    <3> QED
      BY <2>6, <3>1, <3>2 DEF More
  <2>7. hi[f] = Min(T)
    BY <2>3 DEF Caps
  <2> HIDE DEF T
  <2>8. Min(T) \in T
    BY <2>5, MinIs DEF IntSet
  <2> QED
    BY <2>3, <2>5, <2>6, <2>7, <2>8 DEF IntSet
<1> QED
  BY <1>2

(* Both the guarantee and the optimum of two features are as close as      *)
(* Distance says.                                                          *)
LEMMA NeighbourFacts ==
  ASSUME NEW d, Proper(d), NEW key \in Reached(d), NEW f \in FeaturesOf(d, key), NEW g \in FeaturesOf(d, key)
  PROVE  LET sure(h) == SplitLeast(d, Leaves(d), d.guarantee, key, h)
             best(h) == SplitLeast(d, Leaves(d), d.optimum, key, h)
             apart == Distance(d, key[1], f, g)
         IN  /\ sure(f) \in Int /\ sure(g) \in Int /\ best(f) \in Int /\ best(g) \in Int /\ apart \in Int
             /\ sure(g) - apart <= sure(f) /\ best(f) <= best(g) + apart
<1> DEFINE apart == Distance(d, key[1], f, g)
           sf == SplitLeast(d, Leaves(d), d.guarantee, key, f)
           sg == SplitLeast(d, Leaves(d), d.guarantee, key, g)
           bf == SplitLeast(d, Leaves(d), d.optimum, key, f)
           bg == SplitLeast(d, Leaves(d), d.optimum, key, g)
<1>1. key = <<key[1], key[2]>> /\ key \in Keys(d)
  BY KeyFacts
<1>2. f \in Splittable(d, key) /\ g \in Splittable(d, key)
  BY FeatureFacts
<1>3. /\ IsDataset(d) /\ Gradual(d, Leaves(d))
      /\ IsValue(d, Leaves(d), d.optimum) /\ IsValue(d, GuidedLeaves(d), d.guarantee)
  BY JudgedValues, LeavesFacts DEF Proper
<1>4. sf \in Int /\ sg \in Int /\ apart \in Int /\ sg <= sf + apart
  BY <1>1, <1>2, <1>3, Neighbours
<1>5. bf \in Int /\ bg \in Int /\ bf <= bg + apart
  BY <1>1, <1>2, <1>3, Neighbours
<1> HIDE DEF sf, sg, bf, bg, apart
<1>6. sg - apart <= sf
  BY <1>4
<1> QED
  BY <1>4, <1>5, <1>6 DEF sf, sg, bf, bg, apart

(* load_children makes such a pass.                                        *)
LEMMA RefinedSolves ==
  ASSUME NEW key, NEW signals, NEW N, NEW F, F = DOMAIN bounds[key], NEW lows, NEW highs, NEW before, NEW apart,
         lows = [f \in F |-> {Resplit(key, f, signals).lower}
                               \cup {bounds[key][g].lower - Apart(key, f, g) : g \in After(f, F)}],
         highs = [f \in F |-> {Resplit(key, f, signals).upper}
                                \cup {bounds[key][g].upper + Apart(key, f, g) : g \in After(f, F)}],
         before = [f \in F |-> Before(f, F)], apart = [f \in F |-> [g \in F |-> Apart(key, f, g)]],
         IsList(F, N, lows, before, apart), IsList(F, N, highs, before, apart)
  PROVE  /\ Raises(RefinedLower(key, signals), F, lows, before, apart)
         /\ Caps(RefinedUpper(key, signals), F, highs, before, apart)
<1> DEFINE low(lo, f) == Max({Resplit(key, f, signals).lower}
                               \cup {bounds[key][g].lower - Apart(key, f, g) : g \in After(f, F)}
                               \cup {lo[g] - Apart(key, f, g) : g \in Before(f, F)})
           high(hi, f) == Min({Resplit(key, f, signals).upper}
                               \cup {bounds[key][g].upper + Apart(key, f, g) : g \in After(f, F)}
                               \cup {hi[g] + Apart(key, f, g) : g \in Before(f, F)})
<1>1. ASSUME NEW x, NEW f \in F
      PROVE  low(x, f) = Max(Less(lows, before, apart, x, f)) /\ high(x, f) = Min(More(highs, before, apart, x, f))
  <2>1. before[f] = Before(f, F) /\ Before(f, F) \subseteq F
    BY DEF Before
  <2>2. \A g \in Before(f, F) : apart[f][g] = Apart(key, f, g)
    BY <2>1
  <2>3. {x[g] - Apart(key, f, g) : g \in Before(f, F)} = {x[g] - apart[f][g] : g \in before[f]}
        /\ {x[g] + Apart(key, f, g) : g \in Before(f, F)} = {x[g] + apart[f][g] : g \in before[f]}
    BY <2>1, <2>2
  <2>4. lows[f] = {Resplit(key, f, signals).lower}
                               \cup {bounds[key][g].lower - Apart(key, f, g) : g \in After(f, F)}
        /\ highs[f] = {Resplit(key, f, signals).upper}
                               \cup {bounds[key][g].upper + Apart(key, f, g) : g \in After(f, F)}
    OBVIOUS
  <2> QED
    BY <2>3, <2>4 DEF Less, More
<1>2. ASSUME NEW x
      PROVE  /\ [f \in F |-> low(x, f)] = [f \in F |-> Max(Less(lows, before, apart, x, f))]
             /\ [f \in F |-> high(x, f)] = [f \in F |-> Min(More(highs, before, apart, x, f))]
  <2> HIDE DEF low, high
  <2> QED
    BY <1>1
<1> DEFINE lo == CHOOSE x : x = [f \in F |-> low(x, f)]
           hi == CHOOSE x : x = [f \in F |-> high(x, f)]
<1>3. RefinedLower(key, signals) = lo /\ RefinedUpper(key, signals) = hi
  BY DEF RefinedLower, RefinedUpper
<1> HIDE DEF low, high
<1>4. PICK x : x = [f \in F |-> low(x, f)]
  <2>1. PICK x : Raises(x, F, lows, before, apart)
    BY ListSolved
  <2>2. x = [f \in F |-> low(x, f)]
    BY <1>2, <2>1 DEF Raises
  <2> QED
    BY <2>2
<1>5. PICK y : y = [f \in F |-> high(y, f)]
  <2>1. PICK y : Caps(y, F, highs, before, apart)
    BY ListSolved
  <2>2. y = [f \in F |-> high(y, f)]
    BY <1>2, <2>1 DEF Caps
  <2> QED
    BY <2>2
<1>6. lo = [f \in F |-> low(lo, f)]
  BY <1>4
<1>7. hi = [f \in F |-> high(hi, f)]
  BY <1>5
<1> HIDE DEF lo, hi
<1>8. Raises(lo, F, lows, before, apart) /\ Caps(hi, F, highs, before, apart)
  BY <1>2, <1>6, <1>7 DEF Raises, Caps
<1> QED
  BY <1>3, <1>8

(* Where the upper bounds of the list b that such a pass leaves come from: *)
(* from the recomputed splits or from a neighbour.                         *)
UppersFrom(key, signals, b) ==
  LET F == DOMAIN bounds[key]
  IN  \A f \in F :
        /\ b[f].upper <= Resplit(key, f, signals).upper
        /\ \/ b[f].upper = Resplit(key, f, signals).upper
           \/ \E g \in After(f, F) : b[f].upper = bounds[key][g].upper + Apart(key, f, g)
           \/ \E g \in Before(f, F) : b[f].upper = b[g].upper + Apart(key, f, g)

(* So a pass of load_children over the bound list of a vertex leaves       *)
(* every entry a bracket, whatever features were signalled.                *)
LEMMA RefinedIs ==
  ASSUME Proper(data), NEW key \in Reached(data), IsBoundList(data, key, bounds[key]), NEW signals,
         \A f \in FeaturesOf(data, key) : IsSplitBound(data, key, f, Resplit(key, f, signals))
  PROVE  IsBoundList(data, key, Refined(key, signals)) /\ UppersFrom(key, signals, Refined(key, signals))
<1> DEFINE F == FeaturesOf(data, key)
           N == Cardinality(data.features)
           old == bounds[key]
           lows == [f \in F |-> {Resplit(key, f, signals).lower}
                               \cup {bounds[key][g].lower - Apart(key, f, g) : g \in After(f, F)}]
           highs == [f \in F |-> {Resplit(key, f, signals).upper}
                               \cup {bounds[key][g].upper + Apart(key, f, g) : g \in After(f, F)}]
           before == [f \in F |-> Before(f, F)]
           apart == [f \in F |-> [g \in F |-> Apart(key, f, g)]]
           sure == [f \in F |-> SplitLeast(data, Leaves(data), data.guarantee, key, f)]
           best == [f \in F |-> SplitLeast(data, Leaves(data), data.optimum, key, f)]
           lo == RefinedLower(key, signals)
           hi == RefinedUpper(key, signals)
<1>1. F = DOMAIN bounds[key]
  BY DEF IsBoundList
<1>2. N \in Nat /\ F \in SUBSET (0 .. N) /\ IsFiniteSet(F) /\ \A f \in F : f \in Nat
  <2>1. IsFiniteSet(data.features) /\ data.features = 1 .. N
    BY DEF Proper, IsDataset
  <2>2. N \in Nat
    BY <2>1, FS_CardinalityType
  <2>3. F \subseteq data.features /\ IsFiniteSet(F)
    BY FeatureFacts
  <2> HIDE DEF F, N
  <2> QED
    BY <2>1, <2>2, <2>3
<1>3. ASSUME NEW f \in F, NEW g \in F
      PROVE  /\ sure[f] \in Int /\ best[f] \in Int /\ sure[g] \in Int /\ best[g] \in Int /\ apart[f][g] \in Int
             /\ apart[f][g] = Apart(key, f, g)
             /\ sure[g] - apart[f][g] <= sure[f] /\ best[f] <= best[g] + apart[f][g]
  BY NeighbourFacts DEF Apart
<1>4. ASSUME NEW f \in F
      PROVE  /\ old[f].lower \in Int /\ old[f].upper \in Int
             /\ old[f].lower <= sure[f] /\ best[f] <= old[f].upper
             /\ Resplit(key, f, signals).lower \in Int /\ Resplit(key, f, signals).upper \in Int
             /\ Resplit(key, f, signals).lower <= sure[f] /\ best[f] <= Resplit(key, f, signals).upper
  BY DEF IsBoundList, IsSplitBound
<1>5. \A f \in F : before[f] \in SUBSET F /\ (\A h \in before[f] : h < f) /\ After(f, F) \subseteq F
  BY DEF Before, After
<1> HIDE DEF F, N, sure, best, apart, old
<1>6. ASSUME NEW f \in F
      PROVE  /\ IntSet(lows[f]) /\ \A x \in lows[f] : x <= sure[f]
             /\ IntSet(highs[f]) /\ \A x \in highs[f] : best[f] <= x
  <2> DEFINE A == After(f, F)
             rl == Resplit(key, f, signals).lower
             rh == Resplit(key, f, signals).upper
             least == [g \in A |-> old[g].lower - Apart(key, f, g)]
             most == [g \in A |-> old[g].upper + Apart(key, f, g)]
             leasts == {least[g] : g \in A}
             mosts == {most[g] : g \in A}
  <2>1. IsFiniteSet(A) /\ A \subseteq F
    BY <1>2, <1>5, FS_Subset
  <2>2. ASSUME NEW g \in A
        PROVE  least[g] \in Int /\ most[g] \in Int /\ least[g] <= sure[f] /\ best[f] <= most[g]
    <3> DEFINE ol == old[g].lower
               oh == old[g].upper
               ap == apart[f][g]
    <3>1. g \in F
      BY <2>1
    <3>2. /\ ol \in Int /\ oh \in Int /\ ap \in Int /\ sure[f] \in Int /\ best[f] \in Int
          /\ sure[g] \in Int /\ best[g] \in Int /\ ol <= sure[g] /\ best[g] <= oh
          /\ sure[g] - ap <= sure[f] /\ best[f] <= best[g] + ap
      BY <1>3, <1>4, <3>1
    <3>3. least[g] = ol - ap /\ most[g] = oh + ap
      BY <1>3, <3>1
    <3> HIDE DEF ol, oh, ap, least, most
    <3> QED
      BY <3>2, <3>3
  <2>3. lows[f] = {rl} \cup leasts /\ highs[f] = {rh} \cup mosts
    BY DEF old
  <2> HIDE DEF least, most, A, lows, highs
  <2>4. IsFiniteSet(leasts) /\ IsFiniteSet(mosts)
    BY <2>1, ImageFinite
  <2>5. leasts \in SUBSET Int /\ mosts \in SUBSET Int
        /\ (\A x \in leasts : x <= sure[f]) /\ (\A x \in mosts : best[f] <= x)
    BY <2>2
  <2> HIDE DEF leasts, mosts
  <2>6. rl \in Int /\ rh \in Int /\ rl <= sure[f] /\ best[f] <= rh
    BY <1>4
  <2>7. IsFiniteSet({rl}) /\ IsFiniteSet({rh})
    BY FS_Singleton
  <2>8. IsFiniteSet({rl} \cup leasts) /\ IsFiniteSet({rh} \cup mosts)
    BY <2>4, <2>7, FS_Union
  <2> HIDE DEF rl, rh
  <2> QED
    BY <2>3, <2>5, <2>6, <2>8 DEF IntSet
<1>7. IsList(F, N, lows, before, apart) /\ IsList(F, N, highs, before, apart)
  <2> HIDE DEF lows, highs, before
  <2> QED
    BY <1>2, <1>3, <1>5, <1>6 DEF IsList, IntSet
<1>8. Raises(lo, F, lows, before, apart) /\ Caps(hi, F, highs, before, apart)
  BY <1>1, <1>7, RefinedSolves DEF apart
<1> HIDE DEF lows, highs, before, lo, hi
<1>9. \A f \in F : lo[f] \in Int /\ lo[f] <= sure[f]
  <2>1. (\A f \in F : sure[f] \in Int) /\ \A f \in F : /\ \A x \in lows[f] : x <= sure[f]
                                                      /\ \A h \in before[f] : sure[h] - apart[f][h] <= sure[f]
    BY <1>3, <1>5, <1>6
  <2> QED
    BY <1>7, <1>8, <2>1, RaisedBelow
<1>10. \A f \in F : hi[f] \in Int /\ best[f] <= hi[f]
  <2>1. (\A f \in F : best[f] \in Int) /\ \A f \in F : /\ \A x \in highs[f] : best[f] <= x
                                                      /\ \A h \in before[f] : best[f] <= best[h] + apart[f][h]
    BY <1>3, <1>5, <1>6
  <2> QED
    BY <1>7, <1>8, <2>1, CappedAbove
<1>11. Refined(key, signals) = [f \in F |-> [lower |-> lo[f], upper |-> hi[f]]]
  BY <1>1 DEF Refined, lo, hi
<1>12. \A f \in F : IsSplitBound(data, key, f, Refined(key, signals)[f])
  BY <1>9, <1>10, <1>11 DEF IsSplitBound, sure, best
<1>13. UppersFrom(key, signals, Refined(key, signals))
  <2>1. ASSUME NEW f \in F
        PROVE  /\ hi[f] <= Resplit(key, f, signals).upper
               /\ \/ hi[f] = Resplit(key, f, signals).upper
                  \/ \E g \in After(f, F) : hi[f] = bounds[key][g].upper + Apart(key, f, g)
                  \/ \E g \in Before(f, F) : hi[f] = hi[g] + Apart(key, f, g)
    <3> DEFINE all == More(highs, before, apart, hi, f)
    <3>1. IntSet(all)
      <4>1. \A h \in before[f] : hi[h] \in Int
        BY <1>5, <1>10
      <4> QED
        BY <1>7, <4>1, ListValues
    <3>2. hi[f] = Min(all)
      BY <1>8 DEF Caps
    <3>3. all = highs[f] \cup {hi[h] + apart[f][h] : h \in before[f]}
      BY DEF More
    <3> HIDE DEF all
    <3>4. hi[f] \in all /\ \A x \in all : hi[f] <= x
      BY <3>1, <3>2, MinIs DEF IntSet
    <3>5. /\ highs[f] = {Resplit(key, f, signals).upper}
                          \cup {bounds[key][g].upper + Apart(key, f, g) : g \in After(f, F)}
          /\ before[f] = Before(f, F)
      BY DEF highs, before
    <3>6. \A h \in before[f] : apart[f][h] = Apart(key, f, h)
      BY <1>3, <1>5
    <3> QED
      BY <3>3, <3>4, <3>5, <3>6
  <2>2. \A f \in F : Refined(key, signals)[f].upper = hi[f] /\ Before(f, F) \subseteq F
    BY <1>11 DEF Before
  <2> DEFINE b == Refined(key, signals)
  <2> HIDE DEF b
  <2>3. \A f \in F : b[f].upper = hi[f] /\ Before(f, F) \subseteq F
    BY <2>2 DEF b
  <2>4. UppersFrom(key, signals, b)
    BY ONLY <1>1, <2>1, <2>3 DEF UppersFrom
  <2> QED
    BY <2>4 DEF b
<1> QED
  BY <1>11, <1>12, <1>13 DEF IsBoundList, F

-----------------------------------------------------------------------------
(* The invariant.  Its parts speak of a dataset d, of the set V of the     *)
(* subproblems that have a vertex, and of the tables C (children) and E    *)
(* (edges).                                                                *)

IsVertex(d, key, t) == key \in Reached(d) /\ IsTask(d, key, t) /\ t.features = FeaturesOf(d, key)

IsRequest(d, V, m) ==
  /\ IsExploration(m) /\ m.key = <<"exploration", m.key[2], m.key[3]>>
  /\ m.key[3] \in Reached(d) /\ Candidates(d, m.key[3], m.candidates)
  /\ IF m.key[3] = Root(d) THEN m.features = {}
     ELSE /\ m.key[2] \in V
          /\ \A s \in m.features : \E f \in FeaturesOf(d, m.key[2]), p \in BOOLEAN :
               s = Signed(f, p) /\ m.key[3] = Child(d, m.key[2], f, p)

IsSignal(d, V, m) ==
  /\ m.key = <<"exploitation", m.key[2]>>
  /\ m.key[2] \in V /\ m.features \subseteq d.features /\ m.candidates = {}

IsMail(d, V, m) ==
  /\ m = [key |-> m.key, candidates |-> m.candidates, features |-> m.features,
          scope |-> m.scope, priority |-> m.priority]
  /\ m.scope \in Int
  /\ IsRequest(d, V, m) \/ IsSignal(d, V, m)

IsLink(d, V, C, E, link) ==
  \E key \in V : \E f \in FeaturesOf(d, key), p \in BOOLEAN :
    /\ link = <<key, Signed(f, p)>> /\ C[link] = Child(d, key, f, p)
    /\ C[link] \in DOMAIN E /\ key \in DOMAIN E[C[link]] /\ f \in E[C[link]][key].features

IsEdge(d, V, C, child, key, e) ==
  /\ key \in V /\ e \in [features : SUBSET d.features, scope : Int]
  /\ \A f \in e.features : \E p \in BOOLEAN : <<key, Signed(f, p)>> \in DOMAIN C /\ C[<<key, Signed(f, p)>>] = child

Linking(d, V, C, E) ==
  /\ DOMAIN E = {key \in V : key # Root(d)}
  /\ \A link \in DOMAIN C : IsLink(d, V, C, E, link)
  /\ \A child \in DOMAIN E : \A key \in DOMAIN E[child] : IsEdge(d, V, C, child, key, E[child][key])

VerticesRight == \A key \in DOMAIN vertices : IsVertex(data, key, vertices[key])

BoundsRight ==
  DOMAIN bounds = DOMAIN vertices /\ \A key \in DOMAIN vertices : IsBoundList(data, key, bounds[key])

LinksRight == Linking(data, DOMAIN vertices, children, edges)

MailRight ==
  /\ \A m \in queue : IsMail(data, DOMAIN vertices, m)
  /\ \A w \in Workers : IF pc[w] = "dispatch" THEN IsMail(data, DOMAIN vertices, inbound[w])
                                              ELSE inbound[w] = NoMessage

RootRight ==
  IF RootKey \in DOMAIN vertices
    THEN lower = vertices[RootKey].lower /\ upper = vertices[RootKey].upper
    ELSE lower = -FltMax /\ upper = FltMax

ControlRight ==
  /\ data \in DataSets
  /\ active \in BOOLEAN
  /\ pc \in [Workers -> {"pop", "dispatch", "check", "done"}]
  /\ rooted \in [Workers -> BOOLEAN]
  /\ DOMAIN inbound = Workers

IInv == ControlRight /\ VerticesRight /\ BoundsRight /\ LinksRight /\ MailRight /\ RootRight

-----------------------------------------------------------------------------
(* Exploring a vertex: what is near, what it is tightened to               *)

(* The children a worker has at hand are tasks of the vertex's children,   *)
(* and the list first stored for the vertex is one of brackets.            *)
LEMMA NearFacts ==
  ASSUME Proper(data), NEW key \in Reached(data), NEW t, t.features = FeaturesOf(data, key)
  PROVE  LET near == Near(key, t)
             b == BoundList(t.features, near)
         IN  /\ IsBoundList(data, key, b)
             /\ NearSplits(near) = {b[f] : f \in FeaturesOf(data, key)}
             /\ IsFiniteSet(near)
             /\ \A n \in near :
                  /\ n.feature \in FeaturesOf(data, key)
                  /\ IsTask(data, Child(data, key, n.feature, FALSE), n.negative)
                  /\ IsTask(data, Child(data, key, n.feature, TRUE), n.positive)
<1> DEFINE F == FeaturesOf(data, key)
           near == Near(key, t)
           b == BoundList(F, near)
           pair == [f \in F |-> NearPair(key, t, f)]
<1>1. near = {pair[f] : f \in F} /\ \A f \in F : pair[f] \in near /\ pair[f].feature = f
  BY DEF Near, NearPair
<1>2. IsFiniteSet(near)
  <2>1. IsFiniteSet(F)
    BY FeatureFacts
  <2> HIDE DEF F, near, pair
  <2> QED
    BY <1>1, <2>1, ImageFinite
<1>3. ASSUME NEW f \in F
      PROVE  /\ IsTask(data, Child(data, key, f, FALSE), pair[f].negative)
             /\ IsTask(data, Child(data, key, f, TRUE), pair[f].positive)
  <2>1. ASSUME NEW p \in BOOLEAN PROVE IsTask(data, Child(data, key, f, p), NearChild(key, t, f, p))
    <3>1. /\ Child(data, key, f, p) \in Reached(data)
          /\ Splittable(data, Child(data, key, f, p)) \subseteq F
      BY ChildReached
    <3>2. F \in SUBSET Int
      BY FeatureFacts
    <3> QED
      BY <3>1, <3>2, NewIsTask DEF NearChild
  <2>2. pair[f].negative = NearChild(key, t, f, FALSE) /\ pair[f].positive = NearChild(key, t, f, TRUE)
    BY DEF NearPair
  <2>3. FALSE \in BOOLEAN /\ TRUE \in BOOLEAN
    OBVIOUS
  <2>4. /\ IsTask(data, Child(data, key, f, FALSE), NearChild(key, t, f, FALSE))
        /\ IsTask(data, Child(data, key, f, TRUE), NearChild(key, t, f, TRUE))
    BY <2>1, <2>3, Zenon
  <2> QED
    BY <2>2, <2>4
<1> HIDE DEF near, pair
<1>4. ASSUME NEW f \in F PROVE b[f] = NearSplit(pair[f])
  <2>1. (CHOOSE n \in near : n.feature = f) = pair[f]
    <3>1. \A n \in near : n.feature = f => n = pair[f]
      BY <1>1
    <3> QED
      BY <1>1, <3>1
  <2>2. b[f] = NearSplit(CHOOSE n \in near : n.feature = f)
    BY DEF BoundList
  <2> QED
    BY <2>1, <2>2
<1>5. IsBoundList(data, key, b)
  <2>1. ASSUME NEW f \in F PROVE IsSplitBound(data, key, f, b[f])
    <3>1. IsSplitBound(data, key, f, Split(data, pair[f].negative, pair[f].positive))
      BY <1>3, SplitBrackets
    <3> QED
      BY <1>4, <3>1 DEF NearSplit
  <2>2. DOMAIN b = F
    BY DEF BoundList
  <2> QED
    BY <2>1, <2>2 DEF IsBoundList
<1>6. NearSplits(near) = {b[f] : f \in F}
  <2>1. {NearSplit(n) : n \in near} = {NearSplit(pair[f]) : f \in F}
    BY <1>1
  <2> QED
    BY <1>4, <2>1 DEF NearSplits
<1>7. \A n \in near : /\ n.feature \in F
                     /\ IsTask(data, Child(data, key, n.feature, FALSE), n.negative)
                     /\ IsTask(data, Child(data, key, n.feature, TRUE), n.positive)
  <2> SUFFICES ASSUME NEW n \in near
               PROVE  /\ n.feature \in F
                      /\ IsTask(data, Child(data, key, n.feature, FALSE), n.negative)
                      /\ IsTask(data, Child(data, key, n.feature, TRUE), n.positive)
    OBVIOUS
  <2>1. PICK f \in F : n = pair[f]
    BY <1>1
  <2>2. n.feature = f
    BY <1>1, <2>1
  <2> QED
    BY <1>3, <2>1, <2>2
<1> QED
  BY <1>2, <1>5, <1>6, <1>7 DEF near

Tightens(d, key, t, u) ==
  /\ u.upper <= t.upper
  /\ d.guarantee[key] = d.optimum[key] => t.lower <= u.lower

(* The cap on the root is no less than its optimum.                        *)
LEMMA RootUpperIs ==
  ASSUME Proper(data)
  PROVE  RootUpper \in Int /\ data.optimum[Root(data)] <= RootUpper
<1> DEFINE one == data.config.one
           guess == data.config.upperbound_guess
           o == data.optimum[Root(data)]
<1>1. one \in Int /\ guess \in Int
  BY DEF Proper, IsDataset, IsConfiguration
<1>2. o \in Int /\ o <= one
  <2>1. Root(data) \in Reached(data)
    BY RootReached
  <2>2. o \in Nat /\ o <= Leaf(data, Root(data)[1]) /\ Leaf(data, Root(data)[1]) \in Nat
        /\ Leaf(data, Root(data)[1]) <= one
    BY <2>1, KeyFacts
  <2> HIDE DEF o, one
  <2> QED
    BY <1>1, <2>2
<1>3. guess > 0 => o <= guess
  BY DEF Proper, Calibrated
<1>4. RootUpper = IF guess > 0 THEN Min({one, guess}) ELSE one
  BY DEF RootUpper, config
<1> HIDE DEF one, guess, o
<1>5. Min({one, guess}) = IF one <= guess THEN one ELSE guess
  BY <1>1, MinOfTwo
<1>6. RootUpper \in Int /\ o <= RootUpper
  BY <1>1, <1>2, <1>3, <1>4, <1>5
<1> QED
  BY <1>6 DEF o

(* A vertex with all the rows is the root.                                 *)
LEMMA RootIs ==
  ASSUME NEW key \in Reached(data)
  PROVE  /\ IsRoot(key) <=> key = Root(data)
         /\ RootKey = Root(data)
BY DEF Reached, Root, IsRoot, RootKey, config

(* What store_self, store_children and the cap on the root leave of t, the *)
(* vertex itself if there is one and a new one if not.                     *)
LEMMA StoredIs ==
  ASSUME Proper(data), NEW key \in Reached(data), NEW m, m.scope \in Int,
         NEW fresh, IsVertex(data, key, fresh),
         NEW t, IsVertex(data, key, t),
         t = IF key \in DOMAIN vertices THEN vertices[key] ELSE fresh
  PROVE  LET u == Stored(key, m, fresh, Near(key, fresh))
         IN  IsVertex(data, key, u) /\ Tightens(data, key, t, u)
<1> DEFINE near == Near(key, fresh)
           self == IF key \in DOMAIN vertices THEN Scoped(vertices[key], m.scope) ELSE fresh
           offered == Offered(self, NearSplits(near))
           task == Updated(data, self, offered.lower, offered.upper)
           u == Stored(key, m, fresh, near)
           g == data.guarantee[key]
           o == data.optimum[key]
<1>1. IsTask(data, key, self) /\ self.features = FeaturesOf(data, key)
      /\ self.lower = t.lower /\ self.upper = t.upper
  <2>1. CASE key \in DOMAIN vertices
    <3>1. t = vertices[key] /\ IsTask(data, key, t) /\ t \in Tasks /\ t.features = FeaturesOf(data, key)
      BY <2>1 DEF IsVertex, IsTask
    <3>2. SameBut(t, Scoped(t, m.scope))
      BY <3>1, ScopedIs
    <3>3. IsTask(data, key, Scoped(t, m.scope))
      BY <3>1, <3>2, SameIsTask
    <3>4. self = Scoped(t, m.scope)
      BY <2>1, <3>1
    <3> QED
      BY <3>1, <3>2, <3>3, <3>4 DEF SameBut
  <2>2. CASE key \notin DOMAIN vertices
    <3>1. self = fresh /\ t = fresh
      BY <2>2
    <3> QED
      BY <3>1 DEF IsVertex
  <2> QED
    BY <2>1, <2>2
<1>2. IsOffer(data, key, offered)
  <2>1. PICK b : IsBoundList(data, key, b) /\ NearSplits(near) = {b[f] : f \in FeaturesOf(data, key)}
    <3> DEFINE b == BoundList(fresh.features, near)
    <3>1. fresh.features = FeaturesOf(data, key)
      BY DEF IsVertex
    <3>2. IsBoundList(data, key, b) /\ NearSplits(near) = {b[f] : f \in FeaturesOf(data, key)}
      BY <3>1, NearFacts
    <3> QED
      BY <3>2
  <2> HIDE DEF self
  <2>2. IsOffer(data, key, Offered(self, {b[f] : f \in FeaturesOf(data, key)}))
    BY <1>1, <2>1, OfferedIs
  <2> QED
    BY <2>1, <2>2
<1>3. u = IF IsRoot(key) THEN Updated(data, task, task.lower, RootUpper) ELSE task
  BY DEF Stored
<1> HIDE DEF self, offered, near, u
<1>4. /\ IsTask(data, key, task) /\ task.features = FeaturesOf(data, key)
      /\ task.upper <= t.upper /\ (g = o => t.lower <= task.lower)
  BY <1>1, <1>2, UpdatedIs DEF IsOffer
<1> HIDE DEF task
<1>5. CASE ~IsRoot(key)
  BY <1>3, <1>4, <1>5 DEF IsVertex, Tightens, u, near
<1>6. CASE IsRoot(key)
  <2>1. key = Root(data)
    BY <1>6, RootIs
  <2>2. RootUpper \in Int /\ o <= RootUpper
    BY <2>1, RootUpperIs
  <2>3. task.lower \in Int /\ task.lower <= g /\ task.upper \in Int
    BY <1>4 DEF IsTask, Tasks
  <2>4. /\ IsTask(data, key, u) /\ u.features = FeaturesOf(data, key)
        /\ u.upper <= task.upper /\ (g = o => task.lower <= u.lower)
    BY <1>3, <1>4, <1>6, <2>2, <2>3, UpdatedIs
  <2>5. u.upper \in Int /\ u.lower \in Int /\ t.upper \in Int /\ t.lower \in Int
    BY <2>4 DEF IsVertex, IsTask, Tasks
  <2> HIDE DEF g, o
  <2>6. u.upper <= t.upper /\ (g = o => t.lower <= u.lower)
    BY <1>4, <2>3, <2>4, <2>5
  <2> QED
    BY <2>4, <2>6 DEF IsVertex, Tightens, u, near, g, o
<1> QED
  BY <1>5, <1>6

(* What an overwritten table holds.                                        *)
LEMMA OverIs ==
  ASSUME NEW f, NEW g
  PROVE  /\ DOMAIN Over(f, g) = DOMAIN f \cup DOMAIN g
         /\ \A x \in DOMAIN f : Over(f, g)[x] = f[x]
         /\ \A x \in DOMAIN g : x \notin DOMAIN f => Over(f, g)[x] = g[x]
BY DEF Over

(* A table of one entry.                                                   *)
LEMMA EntryIs ==
  ASSUME NEW k, NEW v PROVE DOMAIN Entry(k, v) = {k} /\ Entry(k, v)[k] = v
BY DEF Entry

(* G is E with v at key.                                                   *)
IsEntered(E, key, v, G) ==
  /\ DOMAIN G = DOMAIN E \cup {key} /\ G[key] = v
  /\ \A x \in DOMAIN E : x # key => G[x] = E[x]

(* Entering a value changes that entry alone.                              *)
LEMMA EnteredIs ==
  ASSUME NEW E, NEW key, NEW v PROVE IsEntered(E, key, v, Over(Entry(key, v), E))
<1> DEFINE e == Entry(key, v)
<1>1. DOMAIN e = {key} /\ e[key] = v
  BY EntryIs
<1> HIDE DEF e
<1>2. /\ DOMAIN Over(e, E) = DOMAIN e \cup DOMAIN E
      /\ \A x \in DOMAIN e : Over(e, E)[x] = e[x]
      /\ \A x \in DOMAIN E : x \notin DOMAIN e => Over(e, E)[x] = E[x]
  BY OverIs, Zenon
<1> DEFINE o == Over(e, E)
<1> HIDE DEF o
<1>3. IsEntered(E, key, v, o)
  BY <1>1, <1>2 DEF o, IsEntered
<1> QED
  BY <1>3 DEF e, o

AreEdges(d, V, C, child, parents) ==
  \A key \in DOMAIN parents : IsEdge(d, V, C, child, key, parents[key])

LeadTo(C, parent, F, child) ==
  \A f \in F : \E p \in BOOLEAN : <<parent, Signed(f, p)>> \in DOMAIN C /\ C[<<parent, Signed(f, p)>>] = child

HasGained(parents, parent, F, new) ==
  /\ DOMAIN new = DOMAIN parents \cup {parent} /\ F \subseteq new[parent].features
  /\ \A key \in DOMAIN parents : parents[key].features \subseteq new[key].features

(* link_to_parent's entry in a backward table is right, and nothing        *)
(* already there is lost.                                                  *)
LEMMA WithEdgeIs ==
  ASSUME NEW d, NEW V, NEW C, NEW child, NEW parents, AreEdges(d, V, C, child, parents),
         NEW parent \in V, NEW F \in SUBSET d.features, NEW scope \in Int, LeadTo(C, parent, F, child)
  PROVE  /\ HasGained(parents, parent, F, WithEdge(parents, parent, F, scope))
         /\ AreEdges(d, V, C, child, WithEdge(parents, parent, F, scope))
<1> USE DEF AreEdges, LeadTo
<1> DEFINE old == IF parent \in DOMAIN parents THEN parents[parent] ELSE [features |-> {}, scope |-> scope]
           edge == [features |-> old.features \cup F, scope |-> Min({old.scope, scope})]
           new == WithEdge(parents, parent, F, scope)
<1>1. new = Over(Entry(parent, edge), parents)
  BY DEF WithEdge
<1>2. IsEdge(d, V, C, child, parent, old)
  <2>1. CASE parent \in DOMAIN parents
    BY <2>1
  <2>2. CASE parent \notin DOMAIN parents
    BY <2>2 DEF IsEdge
  <2> QED
    BY <2>1, <2>2
<1> HIDE DEF old
<1>3. old.scope \in Int /\ old.features \in SUBSET d.features
  BY <1>2 DEF IsEdge
<1>4. Min({old.scope, scope}) \in Int
  BY <1>3, MinOfTwo
<1>5. IsEdge(d, V, C, child, parent, edge)
  <2>1. edge \in [features : SUBSET d.features, scope : Int]
    BY <1>3, <1>4
  <2>2. edge.features = old.features \cup F
    OBVIOUS
  <2> HIDE DEF edge
  <2> QED
    BY <1>2, <2>1, <2>2 DEF IsEdge
<1>6. edge.features = old.features \cup F
  OBVIOUS
<1> HIDE DEF edge, new
<1>7. /\ DOMAIN new = DOMAIN parents \cup {parent} /\ new[parent] = edge
      /\ \A key \in DOMAIN parents : key # parent => new[key] = parents[key]
  <2> DEFINE e == Entry(parent, edge)
  <2>1. DOMAIN e = {parent} /\ e[parent] = edge
    BY EntryIs
  <2> HIDE DEF e
  <2>2. /\ DOMAIN Over(e, parents) = DOMAIN e \cup DOMAIN parents
        /\ \A x \in DOMAIN e : Over(e, parents)[x] = e[x]
        /\ \A x \in DOMAIN parents : x \notin DOMAIN e => Over(e, parents)[x] = parents[x]
    BY OverIs
  <2>3. new = Over(e, parents)
    BY <1>1 DEF e
  <2> QED
    BY <2>1, <2>2, <2>3
<1>8. parent \in DOMAIN parents => old = parents[parent]
  BY DEF old
<1>9. HasGained(parents, parent, F, new)
  BY <1>6, <1>7, <1>8 DEF HasGained
<1>10. AreEdges(d, V, C, child, new)
  BY <1>5, <1>7
<1> QED
  BY <1>9, <1>10 DEF new

(* A message grows by those of its key.                                    *)
LEMMA PushedIs ==
  ASSUME NEW d, NEW V, NEW q, NEW M, \A m \in q \cup M : IsMail(d, V, m),
         IsFiniteSet({m.scope : m \in M}), NEW m \in Pushed(q, M)
  PROVE  IsMail(d, V, m)
<1> DEFINE twins(k) == {x \in M : x.key = k}
           features(k) == UNION {x.features : x \in twins(k)}
           scopes(k) == {x.scope : x \in twins(k)}
<1>1. PICK x \in q \cup M : m = [x EXCEPT !.features = @ \cup features(x.key),
                                         !.scope = Max({@} \cup scopes(x.key))]
  <2>1. \A x \in q \cup {y \in M : y.key \notin {z.key : z \in q} /\ y = CHOOSE z \in twins(y.key) : TRUE} :
          x \in q \cup M
    OBVIOUS
  <2> QED
    BY <2>1 DEF Pushed
<1> DEFINE k == x.key
           F == x.features \cup features(k)
           s == Max({x.scope} \cup scopes(k))
<1>2. IsMail(d, V, x)
  BY <1>1
<1>3. m = [key |-> x.key, candidates |-> x.candidates, features |-> F, scope |-> s, priority |-> x.priority]
  <2>1. x = [key |-> x.key, candidates |-> x.candidates, features |-> x.features,
             scope |-> x.scope, priority |-> x.priority]
    BY <1>2 DEF IsMail
  <2> HIDE DEF features, scopes, F, s
  <2>2. m = [x EXCEPT !.features = F, !.scope = s]
    BY <1>1, <2>1 DEF F, s
  <2> QED
    BY <2>1, <2>2
<1>4. s \in Int
  <2> DEFINE T == {x.scope} \cup scopes(k)
  <2>1. x.scope \in Int /\ \A y \in M : y.scope \in Int
    BY <1>2 DEF IsMail
  <2>2. IsFiniteSet(scopes(k))
    <3>1. scopes(k) \subseteq {y.scope : y \in M}
      OBVIOUS
    <3> HIDE DEF scopes
    <3> QED
      BY <3>1, FS_Subset
  <2>3. scopes(k) \subseteq Int
    BY <2>1
  <2> HIDE DEF scopes
  <2>4. IsFiniteSet({x.scope})
    BY FS_Singleton
  <2>5. IsFiniteSet(T) /\ T \in SUBSET Int /\ T # {}
    BY <2>1, <2>2, <2>3, <2>4, FS_Union
  <2> HIDE DEF T
  <2>6. Max(T) \in Int
    BY <2>5, MaxIs
  <2> QED
    BY <2>6 DEF T
<1>5. \A f \in F : \E y \in q \cup M : IsMail(d, V, y) /\ y.key = k /\ f \in y.features
  <2>1. \A f \in features(k) : \E y \in M : y.key = k /\ f \in y.features
    OBVIOUS
  <2> HIDE DEF features
  <2> QED
    BY <1>1, <1>2, <2>1
<1> HIDE DEF F, s, twins, features, scopes
<1>6. m.key = x.key /\ m.candidates = x.candidates /\ m.features = F /\ m.scope = s
      /\ m = [key |-> m.key, candidates |-> m.candidates, features |-> m.features,
              scope |-> m.scope, priority |-> m.priority]
  BY <1>3
<1>7. CASE IsRequest(d, V, x)
  <2>1. \A y : IsMail(d, V, y) /\ y.key = k => IsRequest(d, V, y)
    BY <1>7 DEF IsMail, IsRequest, IsSignal, IsExploration
  <2>2. x.key[3] = Root(d) => F = {}
    BY <1>5, <2>1 DEF IsRequest
  <2>3. \A f \in F : x.key[3] # Root(d) =>
            \E g \in FeaturesOf(d, x.key[2]), p \in BOOLEAN :
              f = Signed(g, p) /\ x.key[3] = Child(d, x.key[2], g, p)
    BY <1>5, <2>1 DEF IsRequest
  <2>4. IsRequest(d, V, m)
    BY <1>6, <1>7, <2>2, <2>3 DEF IsRequest, IsExploration
  <2> QED
    BY <1>4, <1>6, <2>4 DEF IsMail
<1>8. CASE IsSignal(d, V, x)
  <2>1. \A y : IsMail(d, V, y) /\ y.key = k => IsSignal(d, V, y)
    BY <1>8 DEF IsMail, IsRequest, IsSignal, IsExploration
  <2>2. F \subseteq d.features
    BY <1>5, <2>1 DEF IsSignal
  <2>3. IsSignal(d, V, m)
    BY <1>6, <1>8, <2>2 DEF IsSignal
  <2> QED
    BY <1>4, <1>6, <2>3 DEF IsMail
<1> QED
  BY <1>2, <1>7, <1>8 DEF IsMail

(* What a vertex signals is mail to a vertex that there is, of features    *)
(* that lead to it.                                                        *)
LEMMA SignalsAre ==
  ASSUME NEW key, NEW t, NEW d, NEW V, NEW C, NEW child, NEW parents,
         \A k \in DOMAIN parents : IsEdge(d, V, C, child, k, parents[k])
  PROVE  /\ \A m \in Signals(key, t, parents) : IsMail(d, V, m)
         /\ IsFiniteSet({m.scope : m \in Signals(key, t, parents)})
<1>1. ASSUME NEW m \in Signals(key, t, parents) PROVE IsMail(d, V, m) /\ m.scope = 0
  <2>1. PICK k \in DOMAIN parents : m = Exploitation(k, parents[k].features, Priority(key, t))
    BY DEF Signals
  <2>2. k \in V /\ parents[k].features \subseteq d.features
    BY DEF IsEdge
  <2> HIDE DEF Priority
  <2> QED
    BY <2>1, <2>2 DEF Exploitation, IsMail, IsSignal
<1>2. {m.scope : m \in Signals(key, t, parents)} \subseteq {0}
  BY <1>1
<1>3. IsFiniteSet({m.scope : m \in Signals(key, t, parents)})
  <2>1. IsFiniteSet({0})
    BY FS_Singleton
  <2> QED
    BY <1>2, <2>1, FS_Subset
<1> QED
  BY <1>1, <1>3

(* What is asked of a child, and that a child is reached.                  *)
IsAsk(d, key, a) ==
  \E f \in FeaturesOf(d, key), p \in BOOLEAN :
    a = [feature |-> Signed(f, p), child |-> Child(d, key, f, p), scope |-> a.scope] /\ a.scope \in Int

(* What a vertex asks for are its children, by the features it has.        *)
LEMMA AskedAre ==
  ASSUME Proper(data), NEW key \in Reached(data), NEW t, IsTask(data, key, t), NEW near, IsFiniteSet(near),
         \A n \in near : /\ n.feature \in FeaturesOf(data, key)
                         /\ IsTask(data, Child(data, key, n.feature, FALSE), n.negative)
                         /\ IsTask(data, Child(data, key, n.feature, TRUE), n.positive)
  PROVE  /\ \A a \in Asked(key, t, near) : IsAsk(data, key, a)
         /\ IsFiniteSet(Asked(key, t, near))
<1> DEFINE boundary == IF data.config.look_ahead THEN Min({t.upper, t.upperscope}) ELSE t.upper
           reserve(sibling) == IF data.config.rule_list THEN sibling.base ELSE GuaranteedLower(data, sibling)
           ask(f, positive, sibling) == [feature |-> Signed(f, positive),
                                         child   |-> Child(data, key, f, positive),
                                         scope   |-> boundary - reserve(sibling)]
           inScope == {n \in near : NearSplit(n).lower <= boundary /\ NearSplit(n).upper > t.coverage}
           down == [n \in inScope |-> ask(n.feature, FALSE, n.positive)]
           up == [n \in inScope |-> ask(n.feature, TRUE, n.negative)]
           downs == {down[n] : n \in inScope}
           ups == {up[n] : n \in inScope}
<1>1. Asked(key, t, near) = downs \cup ups
  BY DEF Asked, config
<1>2. boundary \in Int
  <2>1. t.upper \in Int /\ t.upperscope \in Int
    BY DEF IsTask, Tasks
  <2>2. Min({t.upper, t.upperscope}) \in Int
    BY <2>1, MinOfTwo
  <2> QED
    BY <2>1, <2>2
<1> HIDE DEF boundary
<1>3. ASSUME NEW s \in Tasks PROVE boundary - reserve(s) \in Int
  <2>1. reserve(s) \in Int
    BY DEF GuaranteedLower, Tasks
  <2> HIDE DEF reserve
  <2> QED
    BY <1>2, <2>1
<1> HIDE DEF reserve
<1>4. inScope \subseteq near
  OBVIOUS
<1> HIDE DEF inScope
<1>5. ASSUME NEW n \in inScope PROVE IsAsk(data, key, down[n]) /\ IsAsk(data, key, up[n])
  <2>1. n.feature \in FeaturesOf(data, key) /\ n.positive \in Tasks /\ n.negative \in Tasks
    BY <1>4 DEF IsTask
  <2>2. down[n].scope \in Int /\ up[n].scope \in Int
    BY <1>3, <2>1
  <2>3. /\ down[n] = [feature |-> Signed(n.feature, FALSE), child |-> Child(data, key, n.feature, FALSE), scope |-> down[n].scope]
        /\ up[n] = [feature |-> Signed(n.feature, TRUE), child |-> Child(data, key, n.feature, TRUE), scope |-> up[n].scope]
    OBVIOUS
  <2> HIDE DEF down, up
  <2>4. FALSE \in BOOLEAN /\ TRUE \in BOOLEAN
    OBVIOUS
  <2> QED
    BY <2>1, <2>2, <2>3, <2>4, Zenon DEF IsAsk
<1> HIDE DEF down, up
<1>6. IsFiniteSet(downs) /\ IsFiniteSet(ups)
  <2>1. IsFiniteSet(inScope)
    BY <1>4, FS_Subset
  <2> QED
    BY <2>1, ImageFinite
<1>7. IsFiniteSet(downs \cup ups)
  BY <1>6, FS_Union
<1> QED
  BY <1>1, <1>5, <1>7

(* A signed feature tells the feature and the side.                        *)
LEMMA SignedIs ==
  ASSUME NEW f \in Nat \ {0}, NEW p \in BOOLEAN
  PROVE  /\ Signed(f, p) \in Int /\ (Signed(f, p) > 0) = p /\ Unsigned({Signed(f, p)}) = {f}
         /\ \A g \in Nat \ {0}, q \in BOOLEAN : Signed(f, p) = Signed(g, q) => f = g /\ p = q
<1>1. \A g \in Nat \ {0} : /\ Signed(g, TRUE) = g /\ Signed(g, FALSE) = -g
                           /\ Unsigned({g}) = {g} /\ Unsigned({-g}) = {g}
  <2> SUFFICES ASSUME NEW g \in Nat \ {0}
               PROVE  /\ Signed(g, TRUE) = g /\ Signed(g, FALSE) = -g
                      /\ Unsigned({g}) = {g} /\ Unsigned({-g}) = {g}
    OBVIOUS
  <2>1. g > 0 /\ -g < 0 /\ ~(g < 0) /\ -(-g) = g
    OBVIOUS
  <2> QED
    BY <2>1 DEF Signed, Unsigned
<1>2. ASSUME NEW g \in Nat \ {0}, NEW q \in BOOLEAN, Signed(f, p) = Signed(g, q) PROVE f = g /\ p = q
  <2>1. f > 0 /\ g > 0 /\ f \in Int /\ g \in Int
    OBVIOUS
  <2>2. /\ Signed(f, TRUE) = f /\ Signed(f, FALSE) = -f
        /\ Signed(g, TRUE) = g /\ Signed(g, FALSE) = -g
    BY <1>1
  <2>3. CASE p = TRUE /\ q = TRUE
    BY <1>2, <2>2, <2>3
  <2>4. CASE p = FALSE /\ q = FALSE
    <3>1. -f = -g
      BY <1>2, <2>2, <2>4
    <3> QED
      BY <2>1, <2>4, <3>1
  <2>5. CASE p = TRUE /\ q = FALSE
    <3>1. f = -g
      BY <1>2, <2>2, <2>5
    <3> QED
      BY <2>1, <3>1
  <2>6. CASE p = FALSE /\ q = TRUE
    <3>1. -f = g
      BY <1>2, <2>2, <2>6
    <3> QED
      BY <2>1, <3>1
  <2> QED
    BY <2>3, <2>4, <2>5, <2>6
<1>3. Signed(f, p) \in Int /\ (Signed(f, p) > 0) = p /\ Unsigned({Signed(f, p)}) = {f}
  <2>1. f > 0 /\ ~(-f > 0) /\ f \in Int /\ -f \in Int
    OBVIOUS
  <2>2. CASE p = TRUE
    BY <1>1, <2>1, <2>2
  <2>3. CASE p = FALSE
    <3>1. Signed(f, p) = -f /\ Unsigned({-f}) = {f}
      BY <1>1, <2>3
    <3>2. ~(Signed(f, p) > 0)
      BY <2>1, <3>1
    <3>3. (Signed(f, p) > 0) = p
      BY <2>3, <3>2
    <3> QED
      BY <2>1, <3>1, <3>3
  <2> QED
    BY <2>2, <2>3
<1> QED
  BY <1>2, <1>3, Zenon

(* What it sends them are requests a vertex may get.                       *)
LEMMA LettersAre ==
  ASSUME Proper(data), NEW key \in Reached(data), NEW asks, IsFiniteSet(asks),
         \A a \in asks : IsAsk(data, key, a), NEW t, t.features = FeaturesOf(data, key), NEW V, key \in V
  PROVE  /\ \A m \in Letters(asks, key, t) : IsMail(data, V, m)
         /\ IsFiniteSet({m.scope : m \in Letters(asks, key, t)})
<1> DEFINE letter == [a \in asks |-> Exploration(key, a.child, t.features, {a.feature}, a.scope, Priority(key, t))]
           scope == [a \in asks |-> letter[a].scope]
<1>1. Letters(asks, key, t) = {letter[a] : a \in asks}
  BY DEF Letters
<1>2. ASSUME NEW a \in asks PROVE IsMail(data, V, letter[a])
  <2>1. PICK f \in FeaturesOf(data, key), p \in BOOLEAN :
          a = [feature |-> Signed(f, p), child |-> Child(data, key, f, p), scope |-> a.scope] /\ a.scope \in Int
    BY DEF IsAsk
  <2> DEFINE c == Child(data, key, f, p)
             m == letter[a]
  <2>2. c \in Reached(data) /\ c[1] # Rows(data) /\ Candidates(data, c, FeaturesOf(data, key))
    BY ChildReached
  <2>3. m = Exploration(key, c, t.features, {Signed(f, p)}, a.scope, Priority(key, t))
    BY <2>1
  <2> HIDE DEF c, m, letter, Priority
  <2>4. /\ m.key = <<"exploration", key, c>> /\ m.key[2] = key /\ m.key[3] = c
        /\ m.candidates = t.features /\ m.features = {Signed(f, p)} /\ m.scope = a.scope
        /\ m = [key |-> m.key, candidates |-> m.candidates, features |-> m.features,
                scope |-> m.scope, priority |-> m.priority]
    BY <2>3 DEF Exploration
  <2>5. c # Root(data)
    BY <2>2, RootReached
  <2>6. c = Child(data, key, f, p)
    BY DEF c
  <2>7. IsRequest(data, V, m)
    BY <2>2, <2>4, <2>5, <2>6 DEF IsRequest, IsExploration
  <2> QED
    BY <2>1, <2>4, <2>7 DEF IsMail, m
<1>3. {m.scope : m \in Letters(asks, key, t)} = {scope[a] : a \in asks}
  <2>1. \A a \in asks : scope[a] = letter[a].scope
    OBVIOUS
  <2> HIDE DEF letter, scope
  <2> QED
    BY <1>1, <2>1
<1> HIDE DEF letter, scope
<1>4. IsFiniteSet({scope[a] : a \in asks})
  BY ImageFinite
<1> QED
  BY <1>1, <1>2, <1>3, <1>4

(* The features of signed ones.                                            *)
LEMMA UnsignedIs ==
  ASSUME NEW S \in SUBSET (Nat \ {0}), NEW F, \A s \in F : \E f \in S, p \in BOOLEAN : s = Signed(f, p)
  PROVE  /\ Unsigned(F) \subseteq S
         /\ \A f \in Unsigned(F) : \E p \in BOOLEAN : Signed(f, p) \in F
         /\ \A f \in S, p \in BOOLEAN : Signed(f, p) \in F => f \in Unsigned(F)
<1> DEFINE number(s) == IF s < 0 THEN -s ELSE s
<1>1. Unsigned(F) = {number(s) : s \in F}
  BY DEF Unsigned
<1>2. ASSUME NEW f \in S, NEW p \in BOOLEAN PROVE number(Signed(f, p)) = f
  <2>1. f \in Nat \ {0}
    OBVIOUS
  <2>2. Unsigned({Signed(f, p)}) = {f}
    BY <2>1, SignedIs
  <2>3. Unsigned({Signed(f, p)}) = {number(Signed(f, p))}
    BY DEF Unsigned
  <2> HIDE DEF number
  <2> QED
    BY <2>2, <2>3
<1> HIDE DEF number
<1>3. ASSUME NEW f \in Unsigned(F) PROVE f \in S /\ \E p \in BOOLEAN : Signed(f, p) \in F
  <2>1. PICK s \in F : f = number(s)
    BY <1>1, <1>3
  <2>2. PICK g \in S, p \in BOOLEAN : s = Signed(g, p)
    BY <2>1
  <2>3. f = g
    BY <1>2, <2>1, <2>2
  <2> QED
    BY <2>1, <2>2, <2>3
<1>4. ASSUME NEW f \in S, NEW p \in BOOLEAN, Signed(f, p) \in F PROVE f \in Unsigned(F)
  BY <1>1, <1>2, <1>4
<1> QED
  BY <1>3, <1>4

-----------------------------------------------------------------------------
(* The link tables                                                         *)

(* Tables only gain links, and edges only features.                        *)
Extends(C, D) == \A link \in DOMAIN C : link \in DOMAIN D /\ D[link] = C[link]

Gains(E, G) ==
  \A child \in DOMAIN E :
    /\ child \in DOMAIN G
    /\ \A key \in DOMAIN E[child] :
         key \in DOMAIN G[child] /\ E[child][key].features \subseteq G[child][key].features

(* An edge stays right when vertices and links are added.                  *)
LEMMA EdgeStays ==
  ASSUME NEW d, NEW V, NEW W, V \subseteq W, NEW C, NEW D, Extends(C, D),
         NEW child, NEW key, NEW e, IsEdge(d, V, C, child, key, e)
  PROVE  IsEdge(d, W, D, child, key, e)
BY DEF IsEdge, Extends

(* And so does a link.                                                     *)
LEMMA LinkStays ==
  ASSUME NEW d, NEW V, NEW W, V \subseteq W, NEW C, NEW D, Extends(C, D),
         NEW E, NEW G, Gains(E, G), NEW link \in DOMAIN C, IsLink(d, V, C, E, link)
  PROVE  IsLink(d, W, D, G, link)
<1>0. PICK key \in V : \E f \in FeaturesOf(d, key), p \in BOOLEAN :
        /\ link = <<key, Signed(f, p)>> /\ C[link] = Child(d, key, f, p)
        /\ C[link] \in DOMAIN E /\ key \in DOMAIN E[C[link]] /\ f \in E[C[link]][key].features
  BY DEF IsLink
<1>1. PICK f \in FeaturesOf(d, key), p \in BOOLEAN :
        /\ link = <<key, Signed(f, p)>> /\ C[link] = Child(d, key, f, p)
        /\ C[link] \in DOMAIN E /\ key \in DOMAIN E[C[link]] /\ f \in E[C[link]][key].features
  BY <1>0
<1>2. D[link] = C[link]
  BY DEF Extends
<1>3. C[link] \in DOMAIN G /\ key \in DOMAIN G[C[link]] /\ f \in G[C[link]][key].features
  BY <1>1 DEF Gains
<1>4. key \in W
  OBVIOUS
<1> QED
  BY <1>1, <1>2, <1>3, <1>4 DEF IsLink

(* What a link says is settled by its two ends.                            *)
LEMMA LinkIs ==
  ASSUME NEW d, Proper(d), NEW V, V \subseteq Reached(d), NEW C, NEW E,
         NEW key \in V, NEW f \in FeaturesOf(d, key), NEW p \in BOOLEAN,
         IsLink(d, V, C, E, <<key, Signed(f, p)>>)
  PROVE  /\ C[<<key, Signed(f, p)>>] = Child(d, key, f, p)
         /\ Child(d, key, f, p) \in DOMAIN E /\ key \in DOMAIN E[Child(d, key, f, p)]
         /\ f \in E[Child(d, key, f, p)][key].features
<1> DEFINE link == <<key, Signed(f, p)>>
<1>0. PICK k \in V : \E g \in FeaturesOf(d, k), q \in BOOLEAN :
        /\ link = <<k, Signed(g, q)>> /\ C[link] = Child(d, k, g, q)
        /\ C[link] \in DOMAIN E /\ k \in DOMAIN E[C[link]] /\ g \in E[C[link]][k].features
  BY DEF IsLink
<1>1. PICK g \in FeaturesOf(d, k), q \in BOOLEAN :
        /\ link = <<k, Signed(g, q)>> /\ C[link] = Child(d, k, g, q)
        /\ C[link] \in DOMAIN E /\ k \in DOMAIN E[C[link]] /\ g \in E[C[link]][k].features
  BY <1>0
<1>2. k = key /\ Signed(f, p) = Signed(g, q)
  BY <1>1
<1>3. f \in Nat \ {0} /\ g \in Nat \ {0}
  <2>1. FeaturesOf(d, key) \in SUBSET (Nat \ {0})
    BY FeatureFacts
  <2> QED
    BY <1>2, <2>1
<1>4. f = g /\ p = q
  BY <1>2, <1>3, SignedIs
<1> QED
  BY <1>1, <1>2, <1>4

(* D is C with links from parent by F to key, where it had none.           *)
IsLinked(C, parent, F, key, D) ==
  /\ DOMAIN D = DOMAIN C \cup ({parent} \X F)
  /\ \A x \in DOMAIN C : D[x] = C[x]
  /\ \A x \in {parent} \X F : x \notin DOMAIN C => D[x] = key

(* link_to_parent adds the links that are not there and changes none.      *)
LEMMA LinkedIs ==
  ASSUME NEW parent, NEW F, NEW key
  PROVE  IsLinked(children, parent, F, key, Linked(parent, F, key))
<1> DEFINE new == [link \in {parent} \X F |-> key]
           D == Over(children, new)
<1>1. DOMAIN new = {parent} \X F /\ \A x \in {parent} \X F : new[x] = key
  OBVIOUS
<1> HIDE DEF new
<1>2. /\ DOMAIN D = DOMAIN children \cup DOMAIN new
      /\ \A x \in DOMAIN children : D[x] = children[x]
      /\ \A x \in DOMAIN new : x \notin DOMAIN children => D[x] = new[x]
  BY OverIs, Zenon
<1> HIDE DEF D
<1>3. IsLinked(children, parent, F, key, D)
  BY <1>1, <1>2 DEF IsLinked
<1> QED
  BY <1>3 DEF D, new, Linked

(* link_to_parent, of a vertex that has a parent.                          *)
LEMMA LinkAdded ==
  ASSUME NEW d, Proper(d), NEW V, V \subseteq Reached(d), NEW C, NEW E, Linking(d, V, C, E),
         NEW parent \in V, NEW key \in Reached(d), key # Root(d), NEW scope \in Int,
         NEW F, \A s \in F : \E f \in FeaturesOf(d, parent), p \in BOOLEAN :
                               s = Signed(f, p) /\ key = Child(d, parent, f, p),
         NEW D, IsLinked(C, parent, F, key, D),
         NEW old, \A k \in DOMAIN old : key \in DOMAIN E /\ k \in DOMAIN E[key] /\ old[k] = E[key][k],
         key \in DOMAIN E => DOMAIN old = DOMAIN E[key],
         NEW G, IsEntered(E, key, WithEdge(old, parent, Unsigned(F), scope), G)
  PROVE  LET parents == WithEdge(old, parent, Unsigned(F), scope)
         IN  /\ Linking(d, V \cup {key}, D, G)
             /\ AreEdges(d, V \cup {key}, D, key, parents)
<1> DEFINE W == V \cup {key}
           parents == WithEdge(old, parent, Unsigned(F), scope)
<1>1. /\ DOMAIN D = DOMAIN C \cup ({parent} \X F) /\ Extends(C, D)
      /\ \A s \in F : <<parent, s>> \notin DOMAIN C => D[<<parent, s>>] = key
  <2>1. \A s \in F : <<parent, s>> \in {parent} \X F
    OBVIOUS
  <2> QED
    BY <2>1 DEF Extends, IsLinked
<1>2. ASSUME NEW s \in F PROVE <<parent, s>> \in DOMAIN D /\ D[<<parent, s>>] = key
  <2>1. PICK f \in FeaturesOf(d, parent), p \in BOOLEAN : s = Signed(f, p) /\ key = Child(d, parent, f, p)
    OBVIOUS
  <2>2. CASE <<parent, s>> \in DOMAIN C
    <3>1. IsLink(d, V, C, E, <<parent, s>>)
      BY <2>2 DEF Linking
    <3>2. IsLink(d, V, C, E, <<parent, Signed(f, p)>>)
      BY <2>1, <3>1
    <3>3. parent \in V /\ f \in FeaturesOf(d, parent) /\ p \in BOOLEAN /\ Proper(d) /\ V \subseteq Reached(d)
      OBVIOUS
    <3>4. C[<<parent, Signed(f, p)>>] = Child(d, parent, f, p)
      BY ONLY <3>2, <3>3, LinkIs
    <3>5. C[<<parent, s>>] = key
      BY <2>1, <3>4
    <3> QED
      BY <1>1, <2>2, <3>5 DEF Extends
  <2>3. CASE <<parent, s>> \notin DOMAIN C
    BY <1>1, <2>3
  <2> QED
    BY <2>2, <2>3
<1>3. /\ Unsigned(F) \subseteq d.features
      /\ \A f \in Unsigned(F) : \E p \in BOOLEAN : Signed(f, p) \in F
      /\ \A f \in FeaturesOf(d, parent), p \in BOOLEAN : Signed(f, p) \in F => f \in Unsigned(F)
  <2>1. parent \in Reached(d)
    OBVIOUS
  <2>2. FeaturesOf(d, parent) \in SUBSET (Nat \ {0}) /\ FeaturesOf(d, parent) \subseteq d.features
    BY <2>1, FeatureFacts
  <2>3. \A s \in F : \E f \in FeaturesOf(d, parent), p \in BOOLEAN : s = Signed(f, p)
    OBVIOUS
  <2>4. /\ Unsigned(F) \subseteq FeaturesOf(d, parent)
        /\ \A f \in Unsigned(F) : \E p \in BOOLEAN : Signed(f, p) \in F
        /\ \A f \in FeaturesOf(d, parent), p \in BOOLEAN : Signed(f, p) \in F => f \in Unsigned(F)
    BY <2>2, <2>3, UnsignedIs
  <2> QED
    BY <2>2, <2>4
<1>4. \A k \in DOMAIN old : IsEdge(d, W, D, key, k, old[k])
  <2> SUFFICES ASSUME NEW k \in DOMAIN old PROVE IsEdge(d, W, D, key, k, old[k])
    OBVIOUS
  <2>1. key \in DOMAIN E /\ k \in DOMAIN E[key] /\ old[k] = E[key][k]
    OBVIOUS
  <2>2. IsEdge(d, V, C, key, k, old[k])
    BY <2>1 DEF Linking
  <2>3. V \subseteq W
    OBVIOUS
  <2> HIDE DEF W
  <2> QED
    BY <1>1, <2>2, <2>3, EdgeStays
<1>5. /\ DOMAIN parents = DOMAIN old \cup {parent}
      /\ \A k \in DOMAIN parents : IsEdge(d, W, D, key, k, parents[k])
      /\ Unsigned(F) \subseteq parents[parent].features
      /\ \A k \in DOMAIN old : old[k].features \subseteq parents[k].features
  <2> DEFINE U == Unsigned(F)
             n == WithEdge(old, parent, U, scope)
  <2>1. LeadTo(D, parent, U, key)
    BY <1>2, <1>3 DEF LeadTo
  <2>2. parent \in W /\ U \in SUBSET d.features
    BY <1>3
  <2>3. AreEdges(d, W, D, key, old)
    BY <1>4 DEF AreEdges
  <2> HIDE DEF W, U
  <2>4. HasGained(old, parent, U, n) /\ AreEdges(d, W, D, key, n)
    BY <2>1, <2>2, <2>3, WithEdgeIs
  <2> HIDE DEF n
  <2>5. /\ DOMAIN n = DOMAIN old \cup {parent}
        /\ \A k \in DOMAIN n : IsEdge(d, W, D, key, k, n[k])
        /\ U \subseteq n[parent].features
        /\ \A k \in DOMAIN old : old[k].features \subseteq n[k].features
    BY <2>4 DEF HasGained, AreEdges
  <2> QED
    BY <2>5, Zenon DEF U, n
<1>6. /\ DOMAIN G = DOMAIN E \cup {key} /\ G[key] = parents
      /\ \A c \in DOMAIN E : c # key => G[c] = E[c]
  BY DEF IsEntered
<1> HIDE DEF parents
<1>7. Gains(E, G)
  <2> SUFFICES ASSUME NEW c \in DOMAIN E, NEW k \in DOMAIN E[c]
               PROVE  c \in DOMAIN G /\ k \in DOMAIN G[c] /\ E[c][k].features \subseteq G[c][k].features
    BY <1>6 DEF Gains
  <2>1. CASE c = key
    BY <1>5, <1>6, <2>1
  <2>2. CASE c # key
    BY <1>6, <2>2
  <2> QED
    BY <2>1, <2>2
<1>8. DOMAIN G = {k \in W : k # Root(d)}
  BY <1>6 DEF Linking
<1>9. ASSUME NEW link \in DOMAIN D PROVE IsLink(d, W, D, G, link)
  <2>1. CASE link \in DOMAIN C
    <3>1. IsLink(d, V, C, E, link) /\ V \subseteq W
      BY <2>1 DEF Linking
    <3> HIDE DEF W
    <3> QED
      BY <1>1, <1>7, <2>1, <3>1, LinkStays
  <2>2. CASE link \notin DOMAIN C
    <3>1. PICK s \in F : link = <<parent, s>>
      BY <1>1, <2>2
    <3>2. PICK f \in FeaturesOf(d, parent), p \in BOOLEAN : s = Signed(f, p) /\ key = Child(d, parent, f, p)
      OBVIOUS
    <3>3. link = <<parent, Signed(f, p)>> /\ D[link] = Child(d, parent, f, p) /\ D[link] = key
      BY <1>2, <3>1, <3>2
    <3>4. key \in DOMAIN G /\ parent \in DOMAIN G[key] /\ f \in G[key][parent].features
      BY <1>3, <1>5, <1>6, <3>2
    <3>5. parent \in W
      OBVIOUS
    <3> QED
      BY <3>3, <3>4, <3>5 DEF IsLink
  <2> QED
    BY <2>1, <2>2
<1>10. ASSUME NEW c \in DOMAIN G, NEW k \in DOMAIN G[c] PROVE IsEdge(d, W, D, c, k, G[c][k])
  <2>1. CASE c = key
    BY <1>5, <1>6, <2>1
  <2>2. CASE c # key
    <3>1. c \in DOMAIN E /\ G[c] = E[c] /\ V \subseteq W
      BY <1>6, <2>2
    <3>2. IsEdge(d, V, C, c, k, E[c][k])
      BY <3>1 DEF Linking
    <3> HIDE DEF W
    <3> QED
      BY <1>1, <3>1, <3>2, EdgeStays
  <2> QED
    BY <2>1, <2>2
<1>11. Linking(d, W, D, G)
  BY <1>8, <1>9, <1>10 DEF Linking
<1>12. AreEdges(d, W, D, key, parents)
  BY <1>5 DEF AreEdges
<1> QED
  BY <1>11, <1>12 DEF parents

(* A child that is asked for and linked has a vertex and knows the parent. *)
LEMMA ToldIs ==
  ASSUME NEW d, Proper(d), NEW V, V \subseteq Reached(d), NEW C, NEW E, Linking(d, V, C, E),
         NEW key \in V, NEW a, IsAsk(d, key, a), <<key, a.feature>> \in DOMAIN C
  PROVE  /\ a.child \in DOMAIN E /\ a.child \in V /\ a.child # key /\ a.child # Root(d)
         /\ C[<<key, a.feature>>] = a.child /\ a.scope \in Int
         /\ \E f \in FeaturesOf(d, key), p \in BOOLEAN : a.feature = Signed(f, p)
<1>1. PICK f \in FeaturesOf(d, key), p \in BOOLEAN :
        a = [feature |-> Signed(f, p), child |-> Child(d, key, f, p), scope |-> a.scope] /\ a.scope \in Int
  BY DEF IsAsk
<1>2. a.feature = Signed(f, p) /\ a.child = Child(d, key, f, p)
  BY <1>1
<1>3. IsLink(d, V, C, E, <<key, Signed(f, p)>>)
  BY <1>2 DEF Linking
<1>4. C[<<key, Signed(f, p)>>] = Child(d, key, f, p) /\ Child(d, key, f, p) \in DOMAIN E
  BY <1>3, LinkIs
<1>5. Child(d, key, f, p) # key
  BY ChildReached
<1>6. a.child \in V /\ a.child # Root(d)
  BY <1>2, <1>4 DEF Linking
<1> QED
  BY <1>1, <1>2, <1>4, <1>5, <1>6

(* send_explorer, of children that are told of a new scope.                *)
ToldEdge(told, key, old, c) ==
  LET asks == {a \in told : a.child = c}
  IN  WithEdge(old, key, Unsigned({a.feature : a \in asks}), Min({a.scope : a \in asks}))

(* Telling children of a new scope keeps the tables agreeing: the edge     *)
(* gains the feature the link already has.                                 *)
LEMMA Telling ==
  ASSUME NEW d, Proper(d), NEW V, V \subseteq Reached(d), NEW C, NEW E, Linking(d, V, C, E),
         NEW key \in V, NEW told, IsFiniteSet(told),
         \A a \in told : IsAsk(d, key, a) /\ <<key, a.feature>> \in DOMAIN C,
         NEW G, DOMAIN G = DOMAIN E,
         \A c \in DOMAIN E :
           G[c] = IF c \in {a.child : a \in told} THEN ToldEdge(told, key, E[c], c) ELSE E[c]
  PROVE  Linking(d, V, C, G)
<1>1. ASSUME NEW c \in DOMAIN E, c \in {a.child : a \in told}
      PROVE  /\ \A k \in DOMAIN G[c] : IsEdge(d, V, C, c, k, G[c][k])
             /\ \A k \in DOMAIN E[c] : k \in DOMAIN G[c] /\ E[c][k].features \subseteq G[c][k].features
  <2> DEFINE asks == {x \in told : x.child = c}
             F == {a.feature : a \in asks}
             scopes == {a.scope : a \in asks}
  <2>1. IsFiniteSet(scopes) /\ scopes \in SUBSET Int /\ scopes # {}
    <3> DEFINE scope == [a \in asks |-> a.scope]
    <3>1. IsFiniteSet(asks)
      <4>1. asks \subseteq told
        OBVIOUS
      <4> QED
        BY <4>1, FS_Subset
    <3>2. scopes = {scope[a] : a \in asks}
      OBVIOUS
    <3>3. asks # {}
      BY <1>1
    <3>4. \A a \in asks : a.scope \in Int
      BY ToldIs
    <3>5. scopes # {} /\ \A x \in scopes : x \in Int
      BY <3>3, <3>4
    <3> HIDE DEF asks, scope
    <3>6. IsFiniteSet({scope[a] : a \in asks})
      BY <3>1, ImageFinite
    <3> HIDE DEF scopes
    <3> QED
      BY <3>2, <3>5, <3>6
  <2>2. ASSUME NEW s \in F
        PROVE  (\E f \in FeaturesOf(d, key), p \in BOOLEAN : s = Signed(f, p))
               /\ <<key, s>> \in DOMAIN C /\ C[<<key, s>>] = c
    <3>1. PICK a \in told : a.child = c /\ s = a.feature
      OBVIOUS
    <3>2. IsAsk(d, key, a) /\ <<key, a.feature>> \in DOMAIN C
      OBVIOUS
    <3> QED
      BY <3>1, <3>2, ToldIs
  <2>3. FeaturesOf(d, key) \in SUBSET (Nat \ {0}) /\ FeaturesOf(d, key) \subseteq d.features
    <3>1. key \in Reached(d)
      OBVIOUS
    <3> QED
      BY <3>1, FeatureFacts
  <2> HIDE DEF F, scopes
  <2>4. /\ Unsigned(F) \subseteq FeaturesOf(d, key)
        /\ \A f \in Unsigned(F) : \E p \in BOOLEAN : Signed(f, p) \in F
    <3> DEFINE N == FeaturesOf(d, key)
    <3>1. N \in SUBSET (Nat \ {0}) /\ \A s \in F : \E f \in N, p \in BOOLEAN : s = Signed(f, p)
      BY <2>2, <2>3
    <3> HIDE DEF N
    <3>2. Unsigned(F) \subseteq N /\ \A f \in Unsigned(F) : \E p \in BOOLEAN : Signed(f, p) \in F
      BY <3>1, UnsignedIs
    <3> QED
      BY <3>2 DEF N
  <2>5. Min(scopes) \in Int
    BY <2>1, MinIs
  <2>6. G[c] = WithEdge(E[c], key, Unsigned(F), Min(scopes))
    BY <1>1 DEF F, scopes, ToldEdge
  <2>7. \A k \in DOMAIN E[c] : IsEdge(d, V, C, c, k, E[c][k])
    BY DEF Linking
  <2>8. Unsigned(F) \in SUBSET d.features
    BY <2>3, <2>4
  <2>9. \A f \in Unsigned(F) : \E p \in BOOLEAN : <<key, Signed(f, p)>> \in DOMAIN C /\ C[<<key, Signed(f, p)>>] = c
    BY <2>2, <2>4
  <2> DEFINE U == Unsigned(F)
             scope == Min(scopes)
             n == WithEdge(E[c], key, U, scope)
  <2>10. AreEdges(d, V, C, c, E[c])
    BY <2>7 DEF AreEdges
  <2>11. LeadTo(C, key, U, c)
    BY <2>9 DEF LeadTo
  <2> HIDE DEF U, scope
  <2>12. U \in SUBSET d.features /\ scope \in Int
    BY <2>5, <2>8 DEF U, scope
  <2>13. HasGained(E[c], key, U, n) /\ AreEdges(d, V, C, c, n)
    BY <2>10, <2>11, <2>12, WithEdgeIs
  <2>14. G[c] = n
    BY <2>6 DEF U, scope
  <2> HIDE DEF n
  <2>15. HasGained(E[c], key, U, G[c]) /\ AreEdges(d, V, C, c, G[c])
    BY <2>13, <2>14
  <2> QED
    BY <2>15 DEF HasGained, AreEdges
<1>2. ASSUME NEW c \in DOMAIN E, c \notin {a.child : a \in told} PROVE G[c] = E[c]
  BY <1>2
<1>3. Gains(E, G)
  BY <1>1, <1>2 DEF Gains
<1>4. ASSUME NEW link \in DOMAIN C PROVE IsLink(d, V, C, G, link)
  <2>1. IsLink(d, V, C, E, link)
    BY DEF Linking
  <2>2. Extends(C, C) /\ V \subseteq V
    BY DEF Extends
  <2> QED
    BY <1>3, <2>1, <2>2, LinkStays
<1>5. ASSUME NEW c \in DOMAIN G, NEW k \in DOMAIN G[c] PROVE IsEdge(d, V, C, c, k, G[c][k])
  BY <1>1, <1>2 DEF Linking
<1>6. DOMAIN G = {k \in V : k # Root(d)}
  BY DEF Linking
<1> QED
  BY <1>4, <1>5, <1>6 DEF Linking

-----------------------------------------------------------------------------
(* The parts of a step that explores                                       *)

(* Mail stays right when vertices are added.                               *)
LEMMA MailStays ==
  ASSUME NEW d, NEW V, NEW W, V \subseteq W, NEW m, IsMail(d, V, m) PROVE IsMail(d, W, m)
BY DEF IsMail, IsRequest, IsSignal

(* What mail of either kind says.                                          *)
LEMMA RequestIs ==
  ASSUME NEW d, NEW V, NEW m, IsMail(d, V, m)
  PROVE  /\ m.scope \in Int
         /\ IsExploration(m) => IsRequest(d, V, m)
         /\ ~IsExploration(m) => IsSignal(d, V, m)
BY DEF IsMail, IsRequest, IsSignal, IsExploration

(* The task a request makes is a vertex.                                   *)
LEMMA FreshIs ==
  ASSUME Proper(data), NEW key \in Reached(data), NEW m, m.scope \in Int, Candidates(data, key, m.candidates)
  PROVE  IsVertex(data, key, Fresh(key, m))
<1> DEFINE u == NewTask(data, key, m.candidates)
           x == Scoped(u, m.scope)
           C == m.candidates
<1>1. IsTask(data, key, u)
  <2>1. C \subseteq data.features /\ Splittable(data, key) \subseteq C
    BY DEF Candidates, Splittable
  <2>2. data.features \in SUBSET (Nat \ {0})
    BY FeatureNumbers DEF Proper
  <2>3. C \in SUBSET Int
    BY <2>1, <2>2
  <2> HIDE DEF C
  <2>4. IsTask(data, key, NewTask(data, key, C))
    BY <2>1, <2>3, NewIsTask
  <2> QED
    BY <2>4 DEF C
<1>2. Pruned(data, u, key[1]).features = FeaturesOf(data, key)
  BY FreshIsTask
<1> HIDE DEF u, C
<1>3. SameBut(u, x)
  BY <1>1, ScopedIs DEF IsTask
<1>4. IsTask(data, key, x)
  BY <1>1, <1>3, SameIsTask
<1> HIDE DEF x
<1>5. Pruned(data, u, key[1]).features = {f \in u.features : Divides(data, key[1], f)}
  BY <1>1 DEF Pruned, IsTask, Tasks
<1> DEFINE y == Pruned(data, x, key[1])
<1>6. y = [x EXCEPT !.features = {f \in @ : Divides(data, key[1], f)}]
  BY DEF Pruned
<1> HIDE DEF y
<1>7. y \in Tasks /\ y.base = x.base /\ y.lower = x.lower /\ y.upper = x.upper
      /\ y.features = {f \in x.features : Divides(data, key[1], f)}
  BY <1>4, <1>6 DEF IsTask, Tasks
<1>8. y.features = FeaturesOf(data, key)
  BY <1>2, <1>3, <1>5, <1>7 DEF SameBut
<1>9. IsVertex(data, key, y)
  BY <1>4, <1>7, <1>8 DEF IsVertex, IsTask
<1>10. y = Fresh(key, m)
  BY DEF Fresh, y, x, u, C
<1> QED
  BY <1>9, <1>10

(* Scoping a vertex leaves it one.                                         *)
LEMMA SameIsVertex ==
  ASSUME NEW d, NEW key, NEW t, IsVertex(d, key, t), NEW u, SameBut(t, u) PROVE IsVertex(d, key, u)
BY SameIsTask DEF IsVertex, SameBut

(* And so does setting its coverage.                                       *)
LEMMA CoveredIs ==
  ASSUME NEW t \in Tasks, NEW x \in Int PROVE SameBut(t, [t EXCEPT !.coverage = x])
BY DEF SameBut, Tasks

(* The tables after children were told of a new scope.                     *)
LEMMA ToldVerticesIs ==
  ASSUME NEW told, \A a \in told : a.scope \in Int, NEW W,
         \A a \in told : a.child \in DOMAIN W /\ W[a.child] = vertices[a.child] /\ W[a.child] \in Tasks
  PROVE  LET new == Over(ToldVertices(told), W)
         IN  /\ DOMAIN new = DOMAIN W
             /\ \A key \in DOMAIN W : IF key \in {a.child : a \in told} THEN SameBut(W[key], new[key])
                                                                       ELSE new[key] = W[key]
<1> DEFINE T == ToldVertices(told)
           new == Over(T, W)
           heads == {a.child : a \in told}
           scope(c) == (CHOOSE a \in told : a.child = c).scope
<1>1. T = [c \in heads |-> Scoped(vertices[c], scope(c))]
  BY DEF ToldVertices
<1>2. heads \subseteq DOMAIN W /\ \A c \in heads : vertices[c] = W[c] /\ W[c] \in Tasks
  OBVIOUS
<1>3. \A c \in heads : scope(c) \in Int
  OBVIOUS
<1> HIDE DEF scope
<1>4. DOMAIN T = heads /\ \A c \in heads : T[c] = Scoped(vertices[c], scope(c))
  BY <1>1
<1> HIDE DEF T, heads
<1>5. \A c \in heads : SameBut(W[c], T[c])
  BY <1>2, <1>3, <1>4, ScopedIs
<1>6. /\ DOMAIN Over(T, W) = DOMAIN T \cup DOMAIN W
      /\ \A x \in DOMAIN T : Over(T, W)[x] = T[x]
      /\ \A x \in DOMAIN W : x \notin DOMAIN T => Over(T, W)[x] = W[x]
  BY ONLY OverIs, Zenon
<1> DEFINE o == Over(T, W)
<1> HIDE DEF o
<1>7. /\ DOMAIN o = DOMAIN W
      /\ \A key \in DOMAIN W : IF key \in heads THEN SameBut(W[key], o[key]) ELSE o[key] = W[key]
  BY <1>2, <1>4, <1>5, <1>6 DEF o
<1> QED
  BY <1>7 DEF o, T, heads

(* The same of the backward table.                                         *)
LEMMA ToldEdgesIs ==
  ASSUME NEW told, NEW key, NEW E, \A a \in told : a.child \in DOMAIN E /\ E[a.child] = edges[a.child]
  PROVE  LET G == Over(ToldEdges(told, key), E)
         IN  /\ DOMAIN G = DOMAIN E
             /\ \A c \in DOMAIN E :
                  G[c] = IF c \in {a.child : a \in told} THEN ToldEdge(told, key, E[c], c) ELSE E[c]
<1> DEFINE T == ToldEdges(told, key)
           heads == {a.child : a \in told}
           new(old, c) == ToldEdge(told, key, old, c)
<1>1. DOMAIN T = heads /\ \A c \in heads : T[c] = new(edges[c], c)
  BY DEF ToldEdges, ToldEdge
<1>2. heads \subseteq DOMAIN E /\ \A c \in heads : edges[c] = E[c]
  OBVIOUS
<1> HIDE DEF T, heads, new
<1>3. /\ DOMAIN Over(T, E) = DOMAIN T \cup DOMAIN E
      /\ \A x \in DOMAIN T : Over(T, E)[x] = T[x]
      /\ \A x \in DOMAIN E : x \notin DOMAIN T => Over(T, E)[x] = E[x]
  BY ONLY OverIs, Zenon
<1> DEFINE o == Over(T, E)
<1> HIDE DEF o
<1>4. /\ DOMAIN o = DOMAIN E
      /\ \A c \in DOMAIN E : o[c] = IF c \in heads THEN new(E[c], c) ELSE E[c]
  BY <1>1, <1>2, <1>3 DEF o
<1> QED
  BY <1>4 DEF o, T, heads, new

-----------------------------------------------------------------------------
(* Every step keeps the invariant                                          *)

(* What a step may do to the vertices there are.                           *)
Tightened ==
  /\ DOMAIN vertices \subseteq (DOMAIN vertices)'
  /\ \A key \in DOMAIN vertices : Tightens(data, key, vertices[key], vertices'[key])

(* It moves the upper bound of one vertex, if that.                        *)
ChangedAt(key, u) ==
  /\ DOMAIN vertices' = DOMAIN vertices \cup {key} /\ vertices'[key].upper = u
  /\ \A k \in DOMAIN vertices : k # key => vertices'[k].upper = vertices[k].upper

(* What Explore does, once its values have names.                          *)
LinksTo(m, key) == IF IsRoot(key) THEN children ELSE Linked(m.key[2], m.features, key)

ParentsTo(m, key) ==
  IF IsRoot(key) THEN <<>> ELSE WithEdge(ParentsOf(key), m.key[2], Unsigned(m.features), m.scope)

WantedBy(m, task) == IF Sends(m, task) THEN Scoped(task, m.scope) ELSE task

AskedBy(m, key, task, wanted, near) == IF Sends(m, task) THEN Asked(key, wanted, near) ELSE {}

FinalBy(m, task, wanted) == [wanted EXCEPT !.coverage = IF Sends(m, task) THEN wanted.upperscope ELSE @]

Explores(w, m, key, near, task, links, parents, wanted, asked, told) ==
  /\ bounds' = Over(bounds, Entry(key, BoundList(task.features, near)))
  /\ children' = links
  /\ vertices' = Over(ToldVertices(told), Over(Entry(key, FinalBy(m, task, wanted)), vertices))
  /\ edges' = Over(ToldEdges(told, key), IF IsRoot(key) THEN edges ELSE Over(Entry(key, parents), edges))
  /\ queue' = Pushed(Pushed(queue, Signals(key, task, parents)), Letters(asked \ told, key, wanted))
  /\ IF IsRoot(key) THEN UpdateRoot(w, task) ELSE KeepRoot(w)

(* What an exploration does, with its intermediate values named.           *)
LEMMA ExploreIs ==
  ASSUME NEW w \in Workers, Explore(w)
  PROVE  LET m == inbound[w]
             key == m.key[3]
             near == Near(key, Fresh(key, m))
             task == Stored(key, m, Fresh(key, m), near)
             links == LinksTo(m, key)
             wanted == WantedBy(m, task)
             asked == AskedBy(m, key, task, wanted, near)
         IN  /\ Explores(w, m, key, near, task, links, ParentsTo(m, key), wanted, asked, Told(asked, key, links))
             /\ pc[w] = "dispatch" /\ IsExploration(m) /\ Dispatched(w)
<1> DEFINE P7(m, key, near, task, links, parents, wanted, asked) ==
             \E told \in {Told(asked, key, links)} :
               Explores(w, m, key, near, task, links, parents, wanted, asked, told)
           P6(m, key, near, task, links, parents, wanted) ==
             \E asked \in {AskedBy(m, key, task, wanted, near)} : P7(m, key, near, task, links, parents, wanted, asked)
           P5(m, key, near, task, links, parents) ==
             \E wanted \in {WantedBy(m, task)} : P6(m, key, near, task, links, parents, wanted)
           P4(m, key, near, task) ==
             \E links \in {LinksTo(m, key)}, parents \in {ParentsTo(m, key)} : P5(m, key, near, task, links, parents)
           P3(m, key, fresh, near) ==
             \E task \in {Stored(key, m, fresh, near)} : P4(m, key, near, task)
           P2(m, key, fresh) == \E near \in {Near(key, fresh)} : P3(m, key, fresh, near)
           P1(m, key) == \E fresh \in {Fresh(key, m)} : P2(m, key, fresh)
           P0(m) == \E key \in {m.key[3]} : P1(m, key)
<1>1. \E m \in {inbound[w]} : P0(m)
  <2>1. PICK m \in {inbound[w]} : \E parent \in {m.key[2]}, key \in {m.key[3]} :
     \E fresh \in {Fresh(key, m)} :
     \E near \in {Near(key, fresh)} :
     \E task \in {Stored(key, m, fresh, near)} :
     \E links \in {IF IsRoot(key) THEN children
                   ELSE Linked(parent, m.features, key)},
        parents \in {IF IsRoot(key) THEN <<>>
                     ELSE WithEdge(ParentsOf(key), parent, Unsigned(m.features), m.scope)} :
     \E wanted \in {IF Sends(m, task) THEN Scoped(task, m.scope) ELSE task} :
     \E asked \in {IF Sends(m, task) THEN Asked(key, wanted, near) ELSE {}} :
     \E told \in {Told(asked, key, links)} :
       Explores(w, m, key, near, task, links, parents, wanted, asked, told)
    BY DEF Explore, Explores, FinalBy
  <2> QED
    BY <2>1 DEF LinksTo, ParentsTo, WantedBy, AskedBy
<1>2. pc[w] = "dispatch" /\ IsExploration(inbound[w]) /\ Dispatched(w)
  BY DEF Explore
<1> DEFINE m == inbound[w]
           key == m.key[3]
           fresh == Fresh(key, m)
           near == Near(key, fresh)
           task == Stored(key, m, fresh, near)
           links == LinksTo(m, key)
           parents == ParentsTo(m, key)
           wanted == WantedBy(m, task)
           asked == AskedBy(m, key, task, wanted, near)
<1> HIDE DEF P0
<1>3. P0(m)
  BY <1>1
<1> USE DEF P0
<1> HIDE DEF P1
<1>4. P1(m, key)
  BY <1>3
<1> USE DEF P1
<1> HIDE DEF P2, m, key
<1>5. P2(m, key, fresh)
  BY <1>4
<1> USE DEF P2
<1> HIDE DEF P3, fresh
<1>6. P3(m, key, fresh, near)
  BY <1>5
<1> USE DEF P3
<1> HIDE DEF P4, near
<1>7. P4(m, key, near, task)
  BY <1>6
<1> USE DEF P4
<1> HIDE DEF P5, task
<1>8. P5(m, key, near, task, links, parents)
  BY <1>7
<1> USE DEF P5
<1> HIDE DEF P6, links, parents
<1>9. P6(m, key, near, task, links, parents, wanted)
  BY <1>8
<1> USE DEF P6
<1> HIDE DEF P7, wanted
<1>10. P7(m, key, near, task, links, parents, wanted, asked)
  BY <1>9
<1> USE DEF P7
<1> HIDE DEF asked
<1>11. Explores(w, m, key, near, task, links, parents, wanted, asked, Told(asked, key, links))
  BY <1>10
<1> QED
  BY <1>2, <1>11 DEF m, key, fresh, near, task, links, parents, wanted, asked

(* What Explore makes of the vertex and what it asks for.                  *)
LEMMA TaskIs ==
  ASSUME IInv, Proper(data), NEW m, IsMail(data, DOMAIN vertices, m), IsExploration(m)
  PROVE  LET key == m.key[3]
             fresh == Fresh(key, m)
             near == Near(key, fresh)
             task == Stored(key, m, fresh, near)
             wanted == WantedBy(m, task)
             asked == AskedBy(m, key, task, wanted, near)
         IN  /\ IsRequest(data, DOMAIN vertices, m) /\ m.scope \in Int /\ key \in Reached(data)
             /\ IsVertex(data, key, task)
             /\ key \in DOMAIN vertices => Tightens(data, key, vertices[key], task)
             /\ IsVertex(data, key, wanted) /\ SameBut(task, FinalBy(m, task, wanted))
             /\ IsBoundList(data, key, BoundList(task.features, near))
             /\ IsFiniteSet(asked) /\ \A a \in asked : IsAsk(data, key, a)
<1> DEFINE key == m.key[3]
           fresh == Fresh(key, m)
           near == Near(key, fresh)
           task == Stored(key, m, fresh, near)
           wanted == WantedBy(m, task)
           asked == AskedBy(m, key, task, wanted, near)
           t == IF key \in DOMAIN vertices THEN vertices[key] ELSE fresh
<1>1. /\ IsRequest(data, DOMAIN vertices, m) /\ m.scope \in Int /\ key \in Reached(data)
      /\ Candidates(data, key, m.candidates)
  BY RequestIs DEF IsRequest
<1>2. IsVertex(data, key, fresh)
  BY <1>1, FreshIs
<1>3. IsVertex(data, key, t)
  BY <1>2 DEF IInv, VerticesRight
<1> HIDE DEF fresh, key, t
<1>4. IsVertex(data, key, task) /\ Tightens(data, key, t, task)
  <2> DEFINE u == Stored(key, m, fresh, Near(key, fresh))
  <2>1. IsVertex(data, key, u) /\ Tightens(data, key, t, u)
    <3>1. t = IF key \in DOMAIN vertices THEN vertices[key] ELSE fresh
      BY DEF t
    <3> QED
      BY <1>1, <1>2, <1>3, <3>1, StoredIs
  <2> QED
    BY <2>1
<1>5. fresh.features = FeaturesOf(data, key)
  BY <1>2 DEF IsVertex
<1>6. /\ IsBoundList(data, key, BoundList(fresh.features, near))
      /\ IsFiniteSet(near)
      /\ \A n \in near :
           /\ n.feature \in FeaturesOf(data, key)
           /\ IsTask(data, Child(data, key, n.feature, FALSE), n.negative)
           /\ IsTask(data, Child(data, key, n.feature, TRUE), n.positive)
  BY <1>1, <1>5, NearFacts
<1> HIDE DEF near, task
<1>7. task.features = FeaturesOf(data, key) /\ IsTask(data, key, task) /\ task \in Tasks
  BY <1>4 DEF IsVertex, IsTask
<1>8. IsBoundList(data, key, BoundList(task.features, near))
  BY <1>5, <1>6, <1>7
<1>9. SameBut(task, wanted)
  <2>1. SameBut(task, Scoped(task, m.scope)) /\ SameBut(task, task)
    BY <1>1, <1>7, ScopedIs DEF SameBut
  <2> QED
    BY <2>1 DEF WantedBy
<1>10. IsVertex(data, key, wanted)
  BY <1>4, <1>9, SameIsVertex
<1> HIDE DEF wanted
<1>11. SameBut(task, FinalBy(m, task, wanted))
  <2> DEFINE x == IF Sends(m, task) THEN wanted.upperscope ELSE wanted.coverage
             final == FinalBy(m, task, wanted)
  <2>1. wanted \in Tasks
    BY <1>9 DEF SameBut
  <2>2. x \in Int
    BY <2>1 DEF Tasks
  <2>3. final = [wanted EXCEPT !.coverage = x]
    BY DEF FinalBy
  <2> HIDE DEF x, final
  <2>4. SameBut(wanted, final)
    BY <2>1, <2>2, <2>3, CoveredIs
  <2>5. SameBut(task, final)
    BY <1>9, <2>4 DEF SameBut
  <2> QED
    BY <2>5 DEF final
<1>12. IsFiniteSet(asked) /\ \A a \in asked : IsAsk(data, key, a)
  <2>1. IsTask(data, key, wanted)
    BY <1>10 DEF IsVertex
  <2>2. IsFiniteSet(Asked(key, wanted, near)) /\ \A a \in Asked(key, wanted, near) : IsAsk(data, key, a)
    BY <1>1, <1>6, <2>1, AskedAre
  <2>3. IsFiniteSet({})
    BY FS_EmptySet
  <2> QED
    BY <2>2, <2>3 DEF AskedBy
<1> HIDE DEF asked
<1>13. key \in DOMAIN vertices => t = vertices[key]
  BY DEF t
<1>14. key \in DOMAIN vertices => Tightens(data, key, vertices[key], task)
  BY <1>4, <1>13
<1> QED
  BY <1>1, <1>4, <1>8, <1>10, <1>11, <1>12, <1>14 DEF key, fresh, near, task, wanted, asked

(* The mail a worker does not hold and does not send stays what it was.    *)
LEMMA DispatchKeepsMail ==
  ASSUME IInv, NEW w \in Workers, Dispatched(w), NEW W, DOMAIN vertices \subseteq W, W = (DOMAIN vertices)',
         \A m \in queue' : IsMail(data, W, m)
  PROVE  MailRight'
<1>1. data' = data /\ pc' = [pc EXCEPT ![w] = "check"] /\ inbound' = [inbound EXCEPT ![w] = NoMessage]
  BY DEF Dispatched
<1>2. pc \in [Workers -> {"pop", "dispatch", "check", "done"}] /\ DOMAIN inbound = Workers
  BY DEF IInv, ControlRight
<1>3. ASSUME NEW v \in Workers
      PROVE  IF pc'[v] = "dispatch" THEN IsMail(data, W, inbound'[v]) ELSE inbound'[v] = NoMessage
  <2>1. CASE v = w
    BY <1>1, <1>2, <2>1
  <2>2. CASE v # w
    <3>1. pc'[v] = pc[v] /\ inbound'[v] = inbound[v]
      BY <1>1, <1>2, <2>2
    <3>2. IF pc[v] = "dispatch" THEN IsMail(data, DOMAIN vertices, inbound[v]) ELSE inbound[v] = NoMessage
      BY DEF IInv, MailRight
    <3> QED
      BY <3>1, <3>2, MailStays
  <2> QED
    BY <2>1, <2>2
<1> QED
  BY <1>1, <1>3 DEF MailRight

(* A dispatch takes its worker from a message to the check.                *)
LEMMA DispatchKeepsControl ==
  ASSUME IInv, NEW w \in Workers, Dispatched(w), rooted' \in [Workers -> BOOLEAN]
  PROVE  ControlRight'
BY DEF IInv, ControlRight, Dispatched

(* An exploration keeps the tables agreeing.                               *)
LEMMA ExploreKeepsLinks ==
  ASSUME IInv, Proper(data), NEW m, IsRequest(data, DOMAIN vertices, m), m.scope \in Int,
         NEW key, key = m.key[3], NEW parents, parents = ParentsTo(m, key), NEW links, links = LinksTo(m, key),
         NEW G, G = IF IsRoot(key) THEN edges ELSE Over(Entry(key, parents), edges)
  PROVE  /\ Linking(data, DOMAIN vertices \cup {key}, links, G)
         /\ AreEdges(data, DOMAIN vertices \cup {key}, links, key, parents)
         /\ \A c \in DOMAIN edges : c # key => G[c] = edges[c]
<1> DEFINE V == DOMAIN vertices
           parent == m.key[2]
           F == m.features
<1>1. Linking(data, V, children, edges) /\ V \subseteq Reached(data) /\ key \in Reached(data)
  BY DEF IInv, LinksRight, VerticesRight, IsVertex, IsRequest
<1>2. IsRoot(key) <=> key = Root(data)
  BY <1>1, RootIs
<1>3. CASE IsRoot(key)
  <2>1. key = Root(data) /\ links = children /\ G = edges /\ parents = <<>>
    BY <1>2, <1>3 DEF LinksTo, ParentsTo
  <2>2. ASSUME NEW link \in DOMAIN children PROVE IsLink(data, V \cup {key}, children, edges, link)
    BY <1>1, <2>1 DEF Linking, IsLink
  <2>3. ASSUME NEW c \in DOMAIN edges, NEW k \in DOMAIN edges[c]
        PROVE  IsEdge(data, V \cup {key}, children, c, k, edges[c][k])
    BY <1>1 DEF Linking, IsEdge
  <2>4. DOMAIN edges = {k \in V \cup {key} : k # Root(data)}
    BY <1>1, <2>1 DEF Linking
  <2>5. DOMAIN parents = {}
    BY <2>1
  <2> QED
    BY <2>1, <2>2, <2>3, <2>4, <2>5 DEF Linking, AreEdges
<1>4. CASE ~IsRoot(key)
  <2> DEFINE old == ParentsOf(key)
             scope == m.scope
  <2>1. /\ key # Root(data) /\ links = Linked(parent, F, key)
        /\ parents = WithEdge(old, parent, Unsigned(F), scope)
        /\ G = Over(Entry(key, parents), edges)
    BY <1>2, <1>4 DEF LinksTo, ParentsTo
  <2>2. /\ parent \in V
        /\ \A s \in F : \E f \in FeaturesOf(data, parent), p \in BOOLEAN :
             s = Signed(f, p) /\ key = Child(data, parent, f, p)
    BY <2>1 DEF IsRequest
  <2>3. /\ \A k \in DOMAIN old : key \in DOMAIN edges /\ k \in DOMAIN edges[key] /\ old[k] = edges[key][k]
        /\ key \in DOMAIN edges => DOMAIN old = DOMAIN edges[key]
    <3>1. DOMAIN <<>> = {}
      OBVIOUS
    <3> QED
      BY <3>1 DEF ParentsOf
  <2> HIDE DEF old, V, parent, F, scope
  <2>4. IsLinked(children, parent, F, key, links)
    <3>1. IsLinked(children, parent, F, key, Linked(parent, F, key))
      BY ONLY LinkedIs
    <3> QED
      BY <2>1, <3>1
  <2>5. IsEntered(edges, key, parents, G)
    BY <2>1, EnteredIs
  <2> DEFINE new == WithEdge(old, parent, Unsigned(F), scope)
  <2>6. IsEntered(edges, key, new, G)
    BY <2>1, <2>5
  <2>7. Linking(data, V \cup {key}, links, G) /\ AreEdges(data, V \cup {key}, links, key, new)
    <3>1. scope \in Int
      BY DEF scope
    <3> QED
      BY ONLY <1>1, <2>1, <2>2, <2>3, <2>4, <2>6, <3>1, Proper(data), LinkAdded
  <2> HIDE DEF new
  <2>8. parents = new
    BY <2>1 DEF new
  <2>9. \A c \in DOMAIN edges : c # key => G[c] = edges[c]
    BY <2>5 DEF IsEntered
  <2> QED
    BY <2>7, <2>8, <2>9 DEF V
<1> QED
  BY <1>3, <1>4

(* An exploration keeps the invariant and widens no bounds.                *)
LEMMA ExploreKeeps ==
  ASSUME IInv, Proper(data), NEW w \in Workers, Explore(w)
  PROVE  /\ IInv' /\ Tightened
         /\ LET m == inbound[w]
                key == m.key[3]
                fresh == Fresh(key, m)
            IN  ChangedAt(key, Stored(key, m, fresh, Near(key, fresh)).upper)
<1> DEFINE m == inbound[w]
           key == m.key[3]
           near == Near(key, Fresh(key, m))
           task == Stored(key, m, Fresh(key, m), near)
           links == LinksTo(m, key)
           parents == ParentsTo(m, key)
           wanted == WantedBy(m, task)
           asked == AskedBy(m, key, task, wanted, near)
           told == Told(asked, key, links)
           final == FinalBy(m, task, wanted)
           b == BoundList(task.features, near)
           W == Over(Entry(key, final), vertices)
           G == IF IsRoot(key) THEN edges ELSE Over(Entry(key, parents), edges)
           V == DOMAIN vertices
           V1 == V \cup {key}
           asks == asked \ told
           M == Signals(key, task, parents)
           N == Letters(asks, key, wanted)
<1>1. /\ Explores(w, m, key, near, task, links, parents, wanted, asked, told)
      /\ pc[w] = "dispatch" /\ IsExploration(m) /\ Dispatched(w)
  BY ExploreIs
<1>2. IsMail(data, V, m)
  BY <1>1 DEF IInv, MailRight
<1>3. /\ IsRequest(data, V, m) /\ m.scope \in Int /\ key \in Reached(data)
      /\ IsVertex(data, key, task)
      /\ key \in V => Tightens(data, key, vertices[key], task)
      /\ IsVertex(data, key, wanted) /\ SameBut(task, final)
      /\ IsBoundList(data, key, b)
      /\ IsFiniteSet(asked) /\ \A a \in asked : IsAsk(data, key, a)
  BY <1>1, <1>2, TaskIs
<1>4. /\ Linking(data, V1, links, G) /\ AreEdges(data, V1, links, key, parents)
      /\ \A c \in DOMAIN edges : c # key => G[c] = edges[c]
  <2>1. key = m.key[3] /\ parents = ParentsTo(m, key) /\ links = LinksTo(m, key)
        /\ G = IF IsRoot(key) THEN edges ELSE Over(Entry(key, parents), edges)
    BY DEF G
  <2> HIDE DEF key, parents, links, G, near, task, b, final, asked, wanted, m
  <2> QED
    BY <1>3, <2>1, ExploreKeepsLinks
<1> HIDE DEF m, near, links, parents, wanted, asked, final, b, W, G, M, N
<1>5. /\ data' = data /\ children' = links
      /\ bounds' = Over(bounds, Entry(key, b))
      /\ vertices' = Over(ToldVertices(told), W)
      /\ edges' = Over(ToldEdges(told, key), G)
      /\ queue' = Pushed(Pushed(queue, M), N)
      /\ IF IsRoot(key) THEN UpdateRoot(w, task) ELSE KeepRoot(w)
  BY <1>1 DEF Explores, Dispatched, b, W, G, final, M, N
<1> HIDE DEF key, task, asks
<1>6. IsEntered(vertices, key, final, W)
  BY EnteredIs DEF W
<1>7. /\ V \subseteq Reached(data) /\ V1 \subseteq Reached(data) /\ key \in V1
      /\ Linking(data, V, children, edges)
      /\ \A k \in V : IsVertex(data, k, vertices[k]) /\ vertices[k] \in Tasks
  BY <1>3 DEF IInv, VerticesRight, LinksRight, IsVertex, IsTask
<1>8. ASSUME NEW a \in told
      PROVE  /\ IsAsk(data, key, a) /\ <<key, a.feature>> \in DOMAIN links
             /\ a.child \in DOMAIN edges /\ a.child \in DOMAIN G /\ a.child \in V
             /\ a.child # key /\ a.child # Root(data) /\ a.scope \in Int
  <2>1. IsAsk(data, key, a) /\ <<key, a.feature>> \in DOMAIN links
    BY <1>3 DEF Told
  <2>2. a.child \in DOMAIN G /\ a.child \in V1 /\ a.child # key /\ a.child # Root(data) /\ a.scope \in Int
    BY ONLY <1>4, <1>7, <2>1, Proper(data), ToldIs
  <2>3. a.child \in V /\ a.child \in DOMAIN edges
    BY <1>7, <2>2 DEF Linking
  <2> QED
    BY <2>1, <2>2, <2>3
<1>9. IsFiniteSet(told) /\ IsFiniteSet(asks) /\ \A a \in asks : IsAsk(data, key, a)
  <2>1. told \subseteq asked /\ asks \subseteq asked
    BY DEF Told, asks
  <2>2. IsFiniteSet(told) /\ IsFiniteSet(asks)
    BY <1>3, <2>1, FS_Subset
  <2> QED
    BY <1>3, <2>1, <2>2
<1> HIDE DEF told
<1>10. /\ DOMAIN vertices' = V1
       /\ SameBut(task, vertices'[key])
       /\ \A k \in V : k # key => SameBut(vertices[k], vertices'[k])
  <2>1. /\ DOMAIN W = V1 /\ W[key] = final /\ \A k \in V : k # key => W[k] = vertices[k]
    BY <1>6 DEF IsEntered
  <2> DEFINE heads == {a.child : a \in told}
             new == Over(ToldVertices(told), W)
  <2>2. /\ DOMAIN new = DOMAIN W
        /\ \A k \in DOMAIN W : IF k \in heads THEN SameBut(W[k], new[k]) ELSE new[k] = W[k]
    <3>1. \A a \in told : a.scope \in Int
      BY <1>8
    <3>2. \A a \in told : a.child \in DOMAIN W /\ W[a.child] = vertices[a.child] /\ W[a.child] \in Tasks
      BY <1>7, <1>8, <2>1
    <3> QED
      BY ONLY <3>1, <3>2, ToldVerticesIs
  <2>3. key \notin heads
    BY <1>8
  <2> HIDE DEF heads, new
  <2>4. new = vertices'
    BY <1>5 DEF new
  <2>5. \A k \in V : SameBut(vertices[k], vertices[k])
    BY <1>7 DEF SameBut
  <2>6. \A k \in V : k # key => SameBut(vertices[k], new[k])
    BY <2>1, <2>2, <2>5
  <2>7. new[key] = final /\ DOMAIN new = V1
    BY <2>1, <2>2, <2>3
  <2> QED
    BY <1>3, <2>4, <2>6, <2>7
<1>11. VerticesRight'
  <2>1. ASSUME NEW k \in V1 PROVE IsVertex(data, k, vertices'[k])
    <3>1. CASE k = key
      BY <1>3, <1>10, <3>1, SameIsVertex
    <3>2. CASE k # key
      <4>1. k \in V /\ SameBut(vertices[k], vertices'[k])
        BY <1>10, <3>2
      <4> QED
        BY <1>7, <4>1, SameIsVertex
    <3> QED
      BY <3>1, <3>2
  <2> QED
    BY <1>5, <1>10, <2>1 DEF VerticesRight
<1>12. Tightened
  <2>1. ASSUME NEW k \in V PROVE Tightens(data, k, vertices[k], vertices'[k])
    <3>1. CASE k = key
      <4>1. Tightens(data, k, vertices[k], task)
        BY <1>3, <3>1
      <4>2. vertices'[k].upper = task.upper /\ vertices'[k].lower = task.lower
        BY <1>10, <3>1 DEF SameBut
      <4> QED
        BY <4>1, <4>2 DEF Tightens
    <3>2. CASE k # key
      <4>1. vertices'[k].upper = vertices[k].upper /\ vertices'[k].lower = vertices[k].lower
        BY <1>10, <3>2 DEF SameBut
      <4>2. vertices[k].upper \in Int /\ vertices[k].lower \in Int
        BY <1>7 DEF Tasks
      <4> QED
        BY <4>1, <4>2 DEF Tightens
    <3> QED
      BY <3>1, <3>2
  <2>2. V \subseteq (DOMAIN vertices)'
    BY <1>10
  <2> QED
    BY <2>1, <2>2 DEF Tightened
<1>13. BoundsRight'
  <2> DEFINE e == Entry(key, b)
  <2>1. DOMAIN bounds = V /\ \A k \in V : IsBoundList(data, k, bounds[k])
    BY DEF IInv, BoundsRight
  <2>2. DOMAIN e = {key} /\ e[key] = b
    BY EntryIs
  <2> HIDE DEF e, V
  <2>3. /\ DOMAIN Over(bounds, e) = DOMAIN bounds \cup DOMAIN e
        /\ \A x \in DOMAIN bounds : Over(bounds, e)[x] = bounds[x]
        /\ \A x \in DOMAIN e : x \notin DOMAIN bounds => Over(bounds, e)[x] = e[x]
    BY ONLY OverIs, Zenon
  <2>4. bounds' = Over(bounds, e)
    BY <1>5 DEF e
  <2>5. DOMAIN bounds' = V1 /\ \A k \in V1 : IsBoundList(data, k, bounds'[k])
    BY <1>3, <2>1, <2>2, <2>3, <2>4
  <2> QED
    BY <1>5, <1>10, <2>5 DEF BoundsRight, V
<1>14. LinksRight'
  <2> DEFINE H == Over(ToldEdges(told, key), G)
  <2>1. /\ DOMAIN H = DOMAIN G
        /\ \A c \in DOMAIN G :
             H[c] = IF c \in {a.child : a \in told} THEN ToldEdge(told, key, G[c], c) ELSE G[c]
    <3>1. \A a \in told : a.child \in DOMAIN G /\ G[a.child] = edges[a.child]
      BY <1>4, <1>8
    <3> QED
      BY ONLY <3>1, ToldEdgesIs
  <2>2. \A a \in told : IsAsk(data, key, a) /\ <<key, a.feature>> \in DOMAIN links
    BY <1>8
  <2> HIDE DEF H
  <2>3. Linking(data, V1, links, H)
    BY ONLY <1>4, <1>7, <1>9, <2>1, <2>2, Proper(data), Telling
  <2>4. H = edges'
    BY <1>5 DEF H
  <2> QED
    BY <1>5, <1>10, <2>3, <2>4 DEF LinksRight
<1>15. MailRight'
  <2>1. \A x \in M : IsMail(data, V1, x)
    BY <1>4, SignalsAre DEF M, AreEdges
  <2>2. IsFiniteSet({x.scope : x \in M})
    BY <1>4, SignalsAre DEF M, AreEdges
  <2>3. wanted.features = FeaturesOf(data, key)
    BY <1>3 DEF IsVertex
  <2>4. (\A x \in N : IsMail(data, V1, x)) /\ IsFiniteSet({x.scope : x \in N})
    BY <1>3, <1>7, <1>9, <2>3, LettersAre DEF N
  <2>5. \A x \in queue : IsMail(data, V1, x)
    BY MailStays DEF IInv, MailRight
  <2> DEFINE q == Pushed(queue, M)
  <2>6. \A x \in q : IsMail(data, V1, x)
    <3>1. \A x \in queue \cup M : IsMail(data, V1, x)
      BY <2>1, <2>5
    <3> QED
      BY ONLY <2>2, <3>1, PushedIs
  <2> HIDE DEF q, V1
  <2>7. \A x \in Pushed(q, N) : IsMail(data, V1, x)
    <3>1. \A x \in q \cup N : IsMail(data, V1, x)
      BY <2>4, <2>6
    <3> QED
      BY ONLY <2>4, <3>1, PushedIs
  <2>8. queue' = Pushed(q, N)
    BY <1>5 DEF q
  <2>9. V \subseteq V1 /\ V1 = (DOMAIN vertices)'
    BY <1>10 DEF V1
  <2> QED
    BY <1>1, <2>7, <2>8, <2>9, DispatchKeepsMail
<1>16. RootRight' /\ rooted' \in [Workers -> BOOLEAN]
  <2>1. rooted \in [Workers -> BOOLEAN] /\ RootKey = Root(data) /\ RootKey' = Root(data)
        /\ (IsRoot(key) <=> key = Root(data))
    BY <1>3, <1>5, RootIs DEF IInv, ControlRight, RootKey, Root, config
  <2>2. CASE IsRoot(key)
    <3>1. lower' = Min({task.upper, task.lower}) /\ upper' = task.upper /\ rooted' \in [Workers -> BOOLEAN]
      BY <1>5, <2>1, <2>2 DEF UpdateRoot
    <3>2. task.lower \in Int /\ task.upper \in Int /\ task.lower <= task.upper
      BY <1>3 DEF IsVertex, IsTask, Tasks
    <3>3. Min({task.upper, task.lower}) = IF task.upper <= task.lower THEN task.upper ELSE task.lower
      BY <3>2, MinOfTwo
    <3>4. lower' = task.lower
      BY <3>1, <3>2, <3>3
    <3>5. vertices'[key].lower = task.lower /\ vertices'[key].upper = task.upper
      BY <1>10 DEF SameBut
    <3> QED
      BY <1>10, <2>1, <2>2, <3>1, <3>4, <3>5 DEF RootRight
  <2>3. CASE ~IsRoot(key)
    <3>1. lower' = lower /\ upper' = upper /\ rooted' \in [Workers -> BOOLEAN]
      BY <1>5, <2>1, <2>3 DEF KeepRoot
    <3>2. RootKey # key
      BY <2>1, <2>3
    <3>3. RootKey \in V => vertices'[RootKey].lower = vertices[RootKey].lower
                           /\ vertices'[RootKey].upper = vertices[RootKey].upper
      BY <1>10, <3>2 DEF SameBut
    <3> QED
      BY <1>10, <2>1, <3>1, <3>2, <3>3 DEF RootRight, IInv
  <2> QED
    BY <2>2, <2>3
<1>17. ControlRight'
  BY <1>1, <1>16, DispatchKeepsControl
<1>18. ChangedAt(key, task.upper)
  BY <1>10 DEF ChangedAt, SameBut
<1>19. IInv'
  BY <1>11, <1>13, <1>14, <1>15, <1>16, <1>17 DEF IInv
<1> QED
  BY <1>12, <1>18, <1>19 DEF key, task, near, m

(* What Exploit does, once its values have names.                          *)
Skips(self) == Certain(self) \/ (~config.reference_LB /\ self.lower >= self.upperscope)

OfferedBy(self, splits) == Offered(self, {splits[f] : f \in DOMAIN splits})

UpdatedBy(self, offered) == Updated(data, self, offered.lower, offered.upper)

Exploits(w, key, self, splits, offered, task) ==
  /\ bounds' = [bounds EXCEPT ![key] = splits]
  /\ vertices' = [vertices EXCEPT ![key] = task]
  /\ queue' = IF ~IsRoot(key) /\ Changes(self, offered.lower, offered.upper)
                THEN Pushed(queue, Signals(key, task, edges[key])) ELSE queue
  /\ IF IsRoot(key) THEN UpdateRoot(w, task) ELSE KeepRoot(w)

(* What an exploitation does, with its intermediate values named.          *)
LEMMA ExploitIs ==
  ASSUME NEW w \in Workers, Exploit(w)
  PROVE  LET key == inbound[w].key[2]
             self == vertices[key]
             splits == Refined(key, inbound[w].features)
             offered == OfferedBy(self, splits)
         IN  /\ IF Skips(self) THEN UNCHANGED <<queue, vertices, bounds>> /\ KeepRoot(w)
                               ELSE Exploits(w, key, self, splits, offered, UpdatedBy(self, offered))
             /\ pc[w] = "dispatch" /\ ~IsExploration(inbound[w]) /\ Dispatched(w)
             /\ UNCHANGED <<children, edges>>
<1> DEFINE P3(key, self, splits, offered) ==
             \E task \in {UpdatedBy(self, offered)} : Exploits(w, key, self, splits, offered, task)
           P2(key, self, splits) == \E offered \in {OfferedBy(self, splits)} : P3(key, self, splits, offered)
           P1(key, self) ==
             IF Skips(self) THEN UNCHANGED <<queue, vertices, bounds>> /\ KeepRoot(w)
             ELSE \E splits \in {Refined(key, inbound[w].features)} : P2(key, self, splits)
           P0(key) == \E self \in {vertices[key]} : P1(key, self)
<1>1. \E key \in {inbound[w].key[2]} : P0(key)
  <2>1. PICK key \in {inbound[w].key[2]} :
     \E self \in {vertices[key]} :
       IF Certain(self) \/ (~config.reference_LB /\ self.lower >= self.upperscope)
         THEN UNCHANGED <<queue, vertices, bounds>> /\ KeepRoot(w)
         ELSE \E splits \in {Refined(key, inbound[w].features)} :
              \E offered \in {Offered(self, {splits[f] : f \in DOMAIN splits})} :
              \E task \in {Updated(data, self, offered.lower, offered.upper)} :
                Exploits(w, key, self, splits, offered, task)
    BY DEF Exploit, Exploits
  <2> QED
    BY <2>1 DEF Skips, OfferedBy, UpdatedBy
<1>2. /\ pc[w] = "dispatch" /\ ~IsExploration(inbound[w]) /\ Dispatched(w)
      /\ UNCHANGED <<children, edges>>
  BY DEF Exploit
<1> DEFINE key == inbound[w].key[2]
           self == vertices[key]
           splits == Refined(key, inbound[w].features)
           offered == OfferedBy(self, splits)
<1> HIDE DEF P0
<1>3. P0(key)
  BY <1>1
<1> USE DEF P0
<1> HIDE DEF P1, key
<1>4. P1(key, self)
  BY <1>3
<1> USE DEF P1
<1> HIDE DEF P2, self
<1>5. IF Skips(self) THEN UNCHANGED <<queue, vertices, bounds>> /\ KeepRoot(w) ELSE P2(key, self, splits)
  BY <1>4
<1> USE DEF P2
<1> HIDE DEF P3, splits
<1>6. ~Skips(self) => P3(key, self, splits, offered)
  BY <1>5
<1> USE DEF P3
<1> HIDE DEF offered
<1>7. ~Skips(self) => Exploits(w, key, self, splits, offered, UpdatedBy(self, offered))
  BY <1>6
<1>8. Skips(self) => UNCHANGED <<queue, vertices, bounds>> /\ KeepRoot(w)
  BY <1>5
<1> QED
  BY <1>2, <1>7, <1>8 DEF key, self, splits, offered

(* The bounds recomputed for a signalled feature are a bracket: the        *)
(* forward table leads to the two children of that split.                  *)
LEMMA ResplitIs ==
  ASSUME IInv, Proper(data), NEW key \in DOMAIN vertices, NEW f \in FeaturesOf(data, key), NEW signals
  PROVE  IsSplitBound(data, key, f, Resplit(key, f, signals))
<1> DEFINE link(p) == <<key, Signed(f, p)>>
           child(p) == vertices[children[link(p)]]
           ready == \A p \in BOOLEAN : link(p) \in DOMAIN children
<1>1. /\ Linking(data, DOMAIN vertices, children, edges) /\ DOMAIN vertices \subseteq Reached(data)
      /\ IsBoundList(data, key, bounds[key])
  BY DEF IInv, LinksRight, VerticesRight, IsVertex, BoundsRight
<1>2. CASE f \in signals /\ ready
  <2>1. ASSUME NEW p \in BOOLEAN PROVE IsTask(data, Child(data, key, f, p), child(p))
    <3>1. IsLink(data, DOMAIN vertices, children, edges, <<key, Signed(f, p)>>)
      BY <1>1, <1>2 DEF Linking
    <3>2. children[<<key, Signed(f, p)>>] = Child(data, key, f, p) /\ Child(data, key, f, p) \in DOMAIN edges
      <4> DEFINE V == DOMAIN vertices
      <4>1. /\ Proper(data) /\ V \subseteq Reached(data) /\ key \in V /\ f \in FeaturesOf(data, key) /\ p \in BOOLEAN
            /\ IsLink(data, V, children, edges, <<key, Signed(f, p)>>)
        BY <1>1, <3>1
      <4> HIDE DEF V
      <4> QED
        BY ONLY <4>1, LinkIs
    <3>3. Child(data, key, f, p) \in DOMAIN vertices
      BY <1>1, <3>2 DEF Linking
    <3>4. child(p) = vertices[Child(data, key, f, p)]
      BY <3>2
    <3> HIDE DEF child
    <3> QED
      BY <3>3, <3>4 DEF IInv, VerticesRight, IsVertex
  <2>2. FALSE \in BOOLEAN /\ TRUE \in BOOLEAN
    OBVIOUS
  <2> HIDE DEF child
  <2>3. IsTask(data, Child(data, key, f, FALSE), child(FALSE)) /\ IsTask(data, Child(data, key, f, TRUE), child(TRUE))
    BY <2>1, <2>2, Zenon
  <2>4. IsSplitBound(data, key, f, Split(data, child(FALSE), child(TRUE)))
    <3>1. key \in Reached(data)
      BY <1>1
    <3> DEFINE x == child(FALSE)
               y == child(TRUE)
    <3> HIDE DEF x, y
    <3>2. IsTask(data, Child(data, key, f, FALSE), x) /\ IsTask(data, Child(data, key, f, TRUE), y)
      BY <2>3 DEF x, y
    <3>3. IsSplitBound(data, key, f, Split(data, x, y))
      BY <3>1, <3>2, SplitBrackets
    <3> QED
      BY <3>3 DEF x, y
  <2>5. Resplit(key, f, signals) = Split(data, child(FALSE), child(TRUE))
    BY <1>2, Zenon DEF Resplit, child
  <2> QED
    BY <2>4, <2>5
<1>3. CASE ~(f \in signals /\ ready)
  <2>1. Resplit(key, f, signals) = bounds[key][f]
    BY <1>3, Zenon DEF Resplit
  <2> QED
    BY <1>1, <2>1 DEF IsBoundList
<1> QED
  BY <1>2, <1>3

(* An exploitation keeps the invariant and widens no bounds.               *)
LEMMA ExploitKeeps ==
  ASSUME IInv, Proper(data), NEW w \in Workers, Exploit(w) PROVE IInv' /\ Tightened
<1> DEFINE m == inbound[w]
           key == m.key[2]
           self == vertices[key]
           splits == Refined(key, m.features)
           offered == OfferedBy(self, splits)
           task == UpdatedBy(self, offered)
           V == DOMAIN vertices
           M == Signals(key, task, edges[key])
<1>1. /\ IF Skips(self) THEN UNCHANGED <<queue, vertices, bounds>> /\ KeepRoot(w)
                        ELSE Exploits(w, key, self, splits, offered, task)
      /\ pc[w] = "dispatch" /\ ~IsExploration(m) /\ Dispatched(w)
      /\ UNCHANGED <<children, edges>>
  BY ExploitIs
<1>2. key \in V
  <2>1. IsMail(data, V, m)
    BY <1>1 DEF IInv, MailRight
  <2> QED
    BY <1>1, <2>1, RequestIs DEF IsSignal
<1> HIDE DEF m, key, splits, offered, task, M
<1>3. /\ V \subseteq Reached(data) /\ key \in Reached(data)
      /\ \A k \in V : IsVertex(data, k, vertices[k]) /\ vertices[k] \in Tasks /\ IsBoundList(data, k, bounds[k])
      /\ Linking(data, V, children, edges) /\ DOMAIN bounds = V
      /\ \A x \in queue : IsMail(data, V, x)
  BY <1>2 DEF IInv, VerticesRight, BoundsRight, LinksRight, MailRight, IsVertex, IsTask
<1>4. /\ rooted \in [Workers -> BOOLEAN] /\ data' = data
      /\ RootKey = Root(data) /\ RootKey' = Root(data) /\ (IsRoot(key) <=> key = Root(data))
  BY <1>1, <1>3, RootIs DEF IInv, ControlRight, Dispatched, RootKey, Root, config
<1>5. CASE Skips(self)
  <2>1. UNCHANGED <<data, queue, vertices, bounds, children, edges, lower, upper>> /\ rooted' \in [Workers -> BOOLEAN]
    BY <1>1, <1>4, <1>5 DEF KeepRoot
  <2>2. VerticesRight' /\ BoundsRight' /\ LinksRight' /\ RootRight'
    BY <1>4, <2>1 DEF IInv, VerticesRight, BoundsRight, LinksRight, RootRight
  <2>3. MailRight'
    BY <1>1, <1>3, <2>1, DispatchKeepsMail
  <2>4. ControlRight'
    BY <1>1, <2>1, DispatchKeepsControl
  <2>5. Tightened
    <3>1. \A k \in V : vertices[k].upper \in Int /\ vertices[k].lower \in Int
      BY <1>3 DEF Tasks
    <3> QED
      BY <2>1, <3>1 DEF Tightened, Tightens
  <2> QED
    BY <2>2, <2>3, <2>4, <2>5 DEF IInv
<1>6. CASE ~Skips(self)
  <2>1. /\ bounds' = [bounds EXCEPT ![key] = splits]
        /\ vertices' = [vertices EXCEPT ![key] = task]
        /\ queue' = IF ~IsRoot(key) /\ Changes(self, offered.lower, offered.upper)
                      THEN Pushed(queue, M) ELSE queue
        /\ IF IsRoot(key) THEN UpdateRoot(w, task) ELSE KeepRoot(w)
        /\ children' = children /\ edges' = edges
    BY <1>1, <1>6 DEF Exploits, M
  <2>2. IsBoundList(data, key, splits)
    <3>1. \A f \in FeaturesOf(data, key) : IsSplitBound(data, key, f, Resplit(key, f, m.features))
      BY <1>2, ResplitIs
    <3>2. IsBoundList(data, key, bounds[key])
      BY <1>2, <1>3
    <3> QED
      BY <1>3, <3>1, <3>2, RefinedIs DEF splits
  <2>3. IsTask(data, key, self) /\ self.features = FeaturesOf(data, key) /\ self \in Tasks
    BY <1>2, <1>3 DEF IsVertex
  <2>4. IsOffer(data, key, offered)
    <3>1. DOMAIN splits = FeaturesOf(data, key)
      BY <2>2 DEF IsBoundList
    <3>2. offered = Offered(self, {splits[f] : f \in FeaturesOf(data, key)})
      BY <3>1 DEF offered, OfferedBy
    <3> HIDE DEF self
    <3>3. IsOffer(data, key, Offered(self, {splits[f] : f \in FeaturesOf(data, key)}))
      BY <1>3, <2>2, <2>3, OfferedIs
    <3> QED
      BY <3>2, <3>3
  <2>5. IsVertex(data, key, task) /\ Tightens(data, key, self, task) /\ task \in Tasks
    <3> HIDE DEF self
    <3> DEFINE u == Updated(data, self, offered.lower, offered.upper)
    <3>1. /\ IsTask(data, key, u) /\ u.features = self.features /\ u.upper <= self.upper
          /\ data.guarantee[key] = data.optimum[key] => self.lower <= u.lower
      <4> DEFINE lo == offered.lower
                 up == offered.upper
      <4>1. lo \in Int /\ up \in Int /\ lo <= data.guarantee[key] /\ data.optimum[key] <= up
        BY <2>4 DEF IsOffer
      <4> HIDE DEF lo, up
      <4>2. LET x == Updated(data, self, lo, up)
            IN  /\ IsTask(data, key, x) /\ x.features = self.features /\ x.upper <= self.upper
                /\ data.guarantee[key] = data.optimum[key] => self.lower <= x.lower
        BY <1>3, <2>3, <4>1, UpdatedIs
      <4> QED
        BY <4>2 DEF lo, up
    <3>2. task = u
      BY DEF task, UpdatedBy
    <3> HIDE DEF u
    <3> QED
      BY <1>3, <2>3, <3>1, <3>2 DEF IsVertex, Tightens, IsTask
  <2>6. /\ DOMAIN vertices' = V /\ vertices'[key] = task
        /\ \A k \in V : k # key => vertices'[k] = vertices[k]
        /\ DOMAIN bounds' = V /\ bounds'[key] = splits
        /\ \A k \in V : k # key => bounds'[k] = bounds[k]
    BY <1>2, <1>3, <2>1
  <2>7. VerticesRight' /\ BoundsRight'
    <3>1. \A k \in V : IsVertex(data, k, vertices'[k]) /\ IsBoundList(data, k, bounds'[k])
      BY <1>3, <2>2, <2>5, <2>6
    <3> QED
      BY <1>4, <2>6, <3>1 DEF VerticesRight, BoundsRight
  <2>8. LinksRight'
    BY <1>3, <1>4, <2>1, <2>6 DEF LinksRight
  <2>9. MailRight'
    <3>1. \A x \in queue' : IsMail(data, V, x)
      <4>1. CASE ~IsRoot(key)
        <5> DEFINE parents == edges[key]
        <5>1. \A k \in DOMAIN parents : IsEdge(data, V, children, key, k, parents[k])
          BY <1>2, <1>3, <1>4, <4>1 DEF Linking
        <5> HIDE DEF parents
        <5>2. (\A x \in M : IsMail(data, V, x)) /\ IsFiniteSet({x.scope : x \in M})
          BY <5>1, SignalsAre DEF M, parents
        <5>3. \A x \in queue \cup M : IsMail(data, V, x)
          BY <1>3, <5>2
        <5>4. \A x \in Pushed(queue, M) : IsMail(data, V, x)
          BY ONLY <5>2, <5>3, PushedIs
        <5> QED
          BY <1>3, <2>1, <5>4
      <4>2. CASE IsRoot(key)
        BY <1>3, <2>1, <4>2
      <4> QED
        BY <4>1, <4>2
    <3> QED
      BY <1>1, <2>6, <3>1, DispatchKeepsMail
  <2>10. Tightened
    <3>1. \A k \in V : vertices[k].upper \in Int /\ vertices[k].lower \in Int
      BY <1>3 DEF Tasks
    <3> QED
      BY <2>5, <2>6, <3>1 DEF Tightened, Tightens
  <2>11. RootRight' /\ rooted' \in [Workers -> BOOLEAN]
    <3>1. CASE IsRoot(key)
      <4>1. lower' = Min({task.upper, task.lower}) /\ upper' = task.upper /\ rooted' \in [Workers -> BOOLEAN]
        BY <1>4, <2>1, <3>1 DEF UpdateRoot
      <4>2. task.lower \in Int /\ task.upper \in Int /\ task.lower <= task.upper
        BY <2>5 DEF IsVertex, IsTask, Tasks
      <4>3. Min({task.upper, task.lower}) = IF task.upper <= task.lower THEN task.upper ELSE task.lower
        BY <4>2, MinOfTwo
      <4>4. lower' = task.lower
        BY <4>1, <4>2, <4>3
      <4> QED
        BY <1>2, <1>4, <2>6, <3>1, <4>1, <4>4 DEF RootRight
    <3>2. CASE ~IsRoot(key)
      <4>1. lower' = lower /\ upper' = upper /\ rooted' \in [Workers -> BOOLEAN]
        BY <1>4, <2>1, <3>2 DEF KeepRoot
      <4>2. RootKey # key
        BY <1>4, <3>2
      <4> QED
        BY <1>4, <2>6, <4>1, <4>2 DEF RootRight, IInv
    <3> QED
      BY <3>1, <3>2
  <2>12. ControlRight'
    BY <1>1, <2>11, DispatchKeepsControl
  <2> QED
    BY <2>7, <2>8, <2>9, <2>10, <2>11, <2>12 DEF IInv
<1> QED
  BY <1>5, <1>6

(* The invariant holds at the start.                                       *)
LEMMA InitHolds ==
  ASSUME Init, Proper(data) PROVE IInv
<1>1. DOMAIN <<>> = {}
  OBVIOUS
<1>2. /\ data \in DataSets /\ vertices = <<>> /\ bounds = <<>> /\ children = <<>> /\ edges = <<>>
      /\ queue = {Exploration(NoKey, RootKey, data.features, {}, FltMax, 0)}
      /\ lower = -FltMax /\ upper = FltMax /\ active = TRUE
      /\ pc = [w \in Workers |-> "pop"] /\ inbound = [w \in Workers |-> NoMessage]
      /\ rooted = [w \in Workers |-> FALSE]
  BY DEF Init
<1>3. /\ DOMAIN vertices = {} /\ DOMAIN bounds = {} /\ DOMAIN children = {} /\ DOMAIN edges = {}
  BY <1>1, <1>2
<1>4. VerticesRight /\ BoundsRight /\ LinksRight /\ RootRight
  BY <1>2, <1>3 DEF VerticesRight, BoundsRight, LinksRight, Linking, RootRight
<1>5. ControlRight
  BY <1>2 DEF ControlRight
<1>6. MailRight
  <2> DEFINE m == Exploration(NoKey, RootKey, data.features, {}, FltMax, 0)
  <2>1. RootKey = Root(data) /\ RootKey \in Reached(data) /\ Candidates(data, RootKey, data.features)
    BY RootReached DEF RootKey, Root, config
  <2>2. /\ m.key = <<"exploration", NoKey, RootKey>> /\ m.key[2] = NoKey /\ m.key[3] = RootKey
        /\ m.key[1] = "exploration" /\ m.candidates = data.features /\ m.features = {} /\ m.scope = FltMax
        /\ m = [key |-> m.key, candidates |-> m.candidates, features |-> m.features,
                scope |-> m.scope, priority |-> m.priority]
    BY DEF Exploration
  <2> HIDE DEF m
  <2>3. IsMail(data, DOMAIN vertices, m)
    BY <2>1, <2>2, FltMaxAssumption DEF IsMail, IsRequest, IsExploration
  <2>4. \A w \in Workers : pc[w] = "pop" /\ inbound[w] = NoMessage
    BY <1>2
  <2> QED
    BY <1>2, <2>3, <2>4 DEF MailRight, m
<1> QED
  BY <1>4, <1>5, <1>6 DEF IInv

(* Taking a message keeps it.                                              *)
LEMMA PopKeeps ==
  ASSUME IInv, NEW w \in Workers, Pop(w) PROVE IInv'
<1>1. /\ pc[w] = "pop" /\ UNCHANGED <<data, vertices, bounds, children, edges, lower, upper, active>>
      /\ \/ /\ pc' = [pc EXCEPT ![w] = "check"] /\ rooted' = [rooted EXCEPT ![w] = FALSE]
            /\ UNCHANGED <<queue, inbound>>
         \/ \E m \in queue : /\ queue' = queue \ {m} /\ inbound' = [inbound EXCEPT ![w] = m]
                             /\ pc' = [pc EXCEPT ![w] = "dispatch"] /\ UNCHANGED rooted
  BY DEF Pop
<1>2. VerticesRight' /\ BoundsRight' /\ LinksRight' /\ RootRight'
  BY <1>1 DEF IInv, VerticesRight, BoundsRight, LinksRight, RootRight, RootKey, config
<1>3. ControlRight'
  BY <1>1 DEF IInv, ControlRight
<1>4. MailRight'
  <2> DEFINE V == DOMAIN vertices
  <2>1. pc \in [Workers -> {"pop", "dispatch", "check", "done"}] /\ DOMAIN inbound = Workers
    BY DEF IInv, ControlRight
  <2>2. /\ \A m \in queue : IsMail(data, V, m)
        /\ \A v \in Workers : IF pc[v] = "dispatch" THEN IsMail(data, V, inbound[v]) ELSE inbound[v] = NoMessage
    BY DEF IInv, MailRight
  <2>3. /\ \A m \in queue' : IsMail(data, V, m)
        /\ \A v \in Workers : IF pc'[v] = "dispatch" THEN IsMail(data, V, inbound'[v]) ELSE inbound'[v] = NoMessage
    <3>1. CASE /\ pc' = [pc EXCEPT ![w] = "check"] /\ UNCHANGED <<queue, inbound>>
      BY <1>1, <2>1, <2>2, <3>1
    <3>2. CASE \E m \in queue : /\ queue' = queue \ {m} /\ inbound' = [inbound EXCEPT ![w] = m]
                                /\ pc' = [pc EXCEPT ![w] = "dispatch"]
      BY <1>1, <2>1, <2>2, <3>2
    <3> QED
      BY <1>1, <3>1, <3>2
  <2>4. data' = data /\ (DOMAIN vertices)' = V
    BY <1>1
  <2> QED
    BY <2>3, <2>4 DEF MailRight
<1> QED
  BY <1>2, <1>3, <1>4 DEF IInv

(* So does the check at the end of an iteration.                           *)
LEMMA CheckKeeps ==
  ASSUME IInv, NEW w \in Workers, Check(w) PROVE IInv'
<1>1. /\ pc[w] = "check" /\ pc' = [pc EXCEPT ![w] = IF active' THEN "pop" ELSE "done"]
      /\ UNCHANGED <<data, queue, vertices, bounds, children, edges, lower, upper, inbound, rooted>>
  BY DEF Check
<1>2. VerticesRight' /\ BoundsRight' /\ LinksRight' /\ RootRight'
  BY <1>1 DEF IInv, VerticesRight, BoundsRight, LinksRight, RootRight, RootKey, config
<1>3. ControlRight'
  <2>1. active' \in BOOLEAN
    BY DEF Check, Renew, IInv, ControlRight, Complete
  <2> QED
    BY <1>1, <2>1 DEF IInv, ControlRight
<1>4. MailRight'
  <2>1. pc \in [Workers -> {"pop", "dispatch", "check", "done"}] /\ DOMAIN inbound = Workers
    BY DEF IInv, ControlRight
  <2>2. \A v \in Workers : pc'[v] = "dispatch" <=> pc[v] = "dispatch"
    BY <1>1, <2>1
  <2> QED
    BY <1>1, <2>2 DEF IInv, MailRight
<1> QED
  BY <1>2, <1>3, <1>4 DEF IInv

(* And a step that changes nothing.                                        *)
LEMMA StutterKeeps ==
  ASSUME IInv, UNCHANGED vars PROVE IInv'
BY DEF IInv, vars, ControlRight, VerticesRight, BoundsRight, LinksRight, MailRight, RootRight, RootKey, config

(* Nothing is widened where the vertices stay.                             *)
LEMMA SameTightens ==
  ASSUME IInv, vertices' = vertices PROVE Tightened
<1>1. \A key \in DOMAIN vertices : vertices[key].upper \in Int /\ vertices[key].lower \in Int
  BY DEF IInv, VerticesRight, IsVertex, IsTask, Tasks
<1> QED
  BY <1>1 DEF Tightened, Tightens

(* So every step keeps the invariant and widens nothing.                   *)
LEMMA StepKeeps ==
  ASSUME IInv, Proper(data), [Next]_vars PROVE IInv' /\ Tightened
<1>1. CASE \E w \in Workers : Pop(w)
  <2>1. PICK w \in Workers : Pop(w)
    BY <1>1
  <2>2. vertices' = vertices
    BY <2>1 DEF Pop
  <2> QED
    BY <2>1, <2>2, PopKeeps, SameTightens
<1>2. CASE \E w \in Workers : Explore(w)
  BY <1>2, ExploreKeeps
<1>3. CASE \E w \in Workers : Exploit(w)
  BY <1>3, ExploitKeeps
<1>4. CASE \E w \in Workers : Check(w)
  <2>1. PICK w \in Workers : Check(w)
    BY <1>4
  <2>2. vertices' = vertices
    BY <2>1 DEF Check
  <2> QED
    BY <2>1, <2>2, CheckKeeps, SameTightens
<1>5. CASE UNCHANGED vars
  <2>1. vertices' = vertices
    BY <1>5 DEF vars
  <2> QED
    BY <1>5, <2>1, StutterKeeps, SameTightens
<1> QED
  BY <1>1, <1>2, <1>3, <1>4, <1>5 DEF Next

(* The inductive invariant, for datasets whose costs are calibrated: every *)
(* vertex brackets its optimum and has the features that its rows settle,  *)
(* every message is for a vertex there is, and the tables agree.           *)
THEOREM SearchInvariant == (\A d \in DataSets : Calibrated(d)) /\ Spec => []IInv
<1>1. ASSUME \A d \in DataSets : Calibrated(d) PROVE Spec => []IInv
  <2>1. \A d \in DataSets : Proper(d)
    BY <1>1, DataAssumption, JudgedAssumption DEF Proper
  <2>2. Init => IInv
    <3>1. Init => data \in DataSets
      BY DEF Init
    <3> QED
      BY <2>1, <3>1, InitHolds
  <2>3. IInv /\ [Next]_vars => IInv'
    <3>1. IInv => data \in DataSets
      BY DEF IInv, ControlRight
    <3> QED
      BY <2>1, <3>1, StepKeeps
  <2> QED
    BY <2>2, <2>3, PTL DEF Spec
<1> QED
  BY <1>1

-----------------------------------------------------------------------------
(* What the invariant says of the properties of SpotCorrect                *)

(* Features without a sign are their own.                                  *)
LEMMA NumbersUnsigned ==
  ASSUME NEW F \in SUBSET Nat PROVE Unsigned(F) = F
<1>1. \A f \in F : (IF f < 0 THEN -f ELSE f) = f
  OBVIOUS
<1> QED
  BY <1>1 DEF Unsigned

(* The types of mail.                                                      *)
LEMMA MailTypes ==
  ASSUME NEW d, Proper(d), NEW V, V \subseteq Reached(d), NEW m, IsMail(d, V, m)
  PROVE  /\ m.key[1] \in {"exploration", "exploitation"}
         /\ Unsigned(m.features) \cup m.candidates \subseteq d.features
<1>1. d.features \in SUBSET (Nat \ {0})
  BY FeatureNumbers DEF Proper
<1>2. CASE IsRequest(d, V, m)
  <2>1. m.key[1] = "exploration" /\ m.candidates \subseteq d.features
    BY <1>2 DEF IsRequest, IsExploration, Candidates
  <2>2. \A s \in m.features : \E f \in d.features, p \in BOOLEAN : s = Signed(f, p)
    <3>1. CASE m.key[3] = Root(d)
      BY <1>2, <3>1 DEF IsRequest
    <3>2. CASE m.key[3] # Root(d)
      <4>1. m.key[2] \in Reached(d)
        BY <1>2, <3>2 DEF IsRequest
      <4>2. FeaturesOf(d, m.key[2]) \subseteq d.features
        BY <4>1, FeatureFacts
      <4> QED
        BY <1>2, <3>2, <4>2 DEF IsRequest
    <3> QED
      BY <3>1, <3>2
  <2>3. Unsigned(m.features) \subseteq d.features
    <3> DEFINE S == d.features
               F == m.features
    <3> HIDE DEF S, F
    <3>1. S \in SUBSET (Nat \ {0}) /\ \A s \in F : \E f \in S, p \in BOOLEAN : s = Signed(f, p)
      BY <1>1, <2>2 DEF S, F
    <3>2. Unsigned(F) \subseteq S
      BY <3>1, UnsignedIs
    <3> QED
      BY <3>2 DEF S, F
  <2> QED
    BY <2>1, <2>3
<1>3. CASE IsSignal(d, V, m)
  <2>1. m.key[1] = "exploitation" /\ m.features \subseteq d.features /\ m.candidates = {}
    BY <1>3 DEF IsSignal
  <2>2. m.features \in SUBSET Nat
    BY <1>1, <2>1
  <2>3. Unsigned(m.features) = m.features
    BY <2>2, NumbersUnsigned
  <2> QED
    BY <2>1, <2>3
<1> QED
  BY <1>2, <1>3 DEF IsMail

(* The types of a key.                                                     *)
LEMMA ReachedTypes ==
  ASSUME NEW d, Proper(d), NEW key \in Reached(d)
  PROVE  key \in ((SUBSET Rows(d)) \ {{}}) \X (0 .. d.config.depth_budget)
<1>1. key \in Keys(d) /\ key = <<key[1], key[2]>> /\ key[1] \in SUBSET Rows(d) /\ key[1] # {}
  BY KeyFacts
<1>2. d.config.depth_budget \in Nat
  BY DEF Proper, IsDataset, IsConfiguration
<1>3. key[2] \in 0 .. d.config.depth_budget
  BY <1>1, <1>2 DEF Keys
<1> QED
  BY <1>1, <1>3

(* The range of the global bounds.                                         *)
LEMMA RootTypes ==
  ASSUME IInv, Proper(data)
  PROVE  lower \in -FltMax .. FltMax /\ upper \in -FltMax .. FltMax
<1>1. FltMax \in Nat
  BY FltMaxAssumption
<1>2. CASE RootKey \in DOMAIN vertices
  <2>1. lower = vertices[RootKey].lower /\ upper = vertices[RootKey].upper
        /\ RootKey \in Reached(data) /\ IsTask(data, RootKey, vertices[RootKey])
    BY <1>2 DEF IInv, RootRight, VerticesRight, IsVertex
  <2>2. Leaf(data, RootKey[1]) \in Nat /\ Leaf(data, RootKey[1]) <= data.config.one
    BY <2>1, KeyFacts
  <2>3. data.config.one \in Nat /\ data.config.one <= FltMax
    BY DEF Proper, Calibrated, IsDataset, IsConfiguration
  <2> DEFINE leaf == Leaf(data, RootKey[1])
             one == data.config.one
  <2>4. lower \in Int /\ upper \in Int /\ 0 <= lower /\ lower <= upper /\ upper <= leaf
    BY <2>1 DEF IsTask, Tasks
  <2> HIDE DEF leaf, one
  <2>5. leaf \in Nat /\ leaf <= one /\ one \in Nat /\ one <= FltMax
    BY <2>2, <2>3 DEF leaf, one
  <2> QED
    BY <1>1, <2>4, <2>5
<1>3. CASE RootKey \notin DOMAIN vertices
  BY <1>1, <1>3 DEF IInv, RootRight
<1> QED
  BY <1>2, <1>3

(* All of TypeOK.                                                          *)
LEMMA InvariantTypes ==
  ASSUME IInv, Proper(data) PROVE TypeOK
<1> DEFINE V == DOMAIN vertices
<1>1. data.label \in [Rows(data) -> Targets]
  BY DEF Proper, IsDataset
<1>2. V \subseteq Reached(data)
  BY DEF IInv, VerticesRight, IsVertex
<1>3. \A m \in queue \cup {inbound[w] : w \in Workers} :
        /\ m.key[1] \in {"exploration", "exploitation"}
        /\ Unsigned(m.features) \cup m.candidates \subseteq data.features
  <2>1. Unsigned({}) = {}
    BY DEF Unsigned
  <2>2. NoMessage.key[1] = "exploitation" /\ NoMessage.features = {} /\ NoMessage.candidates = {}
    BY DEF NoMessage, Exploitation
  <2>3. \A m \in queue \cup {inbound[w] : w \in Workers} : IsMail(data, V, m) \/ m = NoMessage
    BY DEF IInv, MailRight
  <2> QED
    BY <1>2, <2>1, <2>2, <2>3, MailTypes
<1>4. \A key \in V :
        /\ key \in ((SUBSET Rows(data)) \ {{}}) \X (0 .. config.depth_budget)
        /\ vertices[key].lower <= vertices[key].upper
        /\ vertices[key].upper <= vertices[key].base
        /\ DOMAIN bounds[key] \subseteq data.features
  <2> SUFFICES ASSUME NEW key \in V
               PROVE  /\ key \in ((SUBSET Rows(data)) \ {{}}) \X (0 .. config.depth_budget)
                      /\ vertices[key].lower <= vertices[key].upper
                      /\ vertices[key].upper <= vertices[key].base
                      /\ DOMAIN bounds[key] \subseteq data.features
    OBVIOUS
  <2>1. key \in ((SUBSET Rows(data)) \ {{}}) \X (0 .. config.depth_budget)
    BY <1>2, ReachedTypes DEF config
  <2>2. IsTask(data, key, vertices[key]) /\ DOMAIN bounds[key] = FeaturesOf(data, key)
    BY DEF IInv, VerticesRight, IsVertex, BoundsRight, IsBoundList
  <2>3. FeaturesOf(data, key) \subseteq data.features
    BY <1>2, FeatureFacts
  <2> QED
    BY <2>1, <2>2, <2>3 DEF IsTask
<1>5. DOMAIN bounds = DOMAIN vertices
  BY DEF IInv, BoundsRight
<1>6. DOMAIN children \subseteq V \X {Signed(f, p) : f \in data.features, p \in BOOLEAN}
  <2> SUFFICES ASSUME NEW link \in DOMAIN children
               PROVE  link \in V \X {Signed(f, p) : f \in data.features, p \in BOOLEAN}
    OBVIOUS
  <2>1. IsLink(data, V, children, edges, link)
    BY DEF IInv, LinksRight, Linking
  <2>2. PICK key \in V : \E f \in FeaturesOf(data, key), p \in BOOLEAN : link = <<key, Signed(f, p)>>
    BY <2>1 DEF IsLink
  <2>3. FeaturesOf(data, key) \subseteq data.features
    BY <1>2, FeatureFacts
  <2> QED
    BY <2>2, <2>3
<1>7. DOMAIN edges \subseteq V
  BY DEF IInv, LinksRight, Linking
<1>8. lower \in -FltMax .. FltMax /\ upper \in -FltMax .. FltMax
  BY RootTypes
<1>9. active \in BOOLEAN /\ pc \in [Workers -> {"pop", "dispatch", "check", "done"}] /\ rooted \in [Workers -> BOOLEAN]
  BY DEF IInv, ControlRight
<1> QED
  BY <1>1, <1>3, <1>4, <1>5, <1>6, <1>7, <1>8, <1>9 DEF TypeOK

(* The tables agree as LinksAgree says.                                    *)
LEMMA InvariantLinks ==
  ASSUME IInv, Proper(data) PROVE LinksAgree
<1> DEFINE V == DOMAIN vertices
<1>1. ASSUME NEW link \in DOMAIN children
      PROVE  \E f \in Unsigned({link[2]}) : /\ children[link] = Child(data, link[1], f, link[2] > 0)
                                           /\ f \in edges[children[link]][link[1]].features
  <2>1. IsLink(data, V, children, edges, link)
    BY DEF IInv, LinksRight, Linking
  <2>2. PICK key \in V : \E f \in FeaturesOf(data, key), p \in BOOLEAN :
          /\ link = <<key, Signed(f, p)>> /\ children[link] = Child(data, key, f, p)
          /\ f \in edges[children[link]][key].features
    BY <2>1 DEF IsLink
  <2>3. PICK f \in FeaturesOf(data, key), p \in BOOLEAN :
          /\ link = <<key, Signed(f, p)>> /\ children[link] = Child(data, key, f, p)
          /\ f \in edges[children[link]][key].features
    BY <2>2
  <2>4. f \in Nat \ {0}
    <3>1. key \in Reached(data)
      BY DEF IInv, VerticesRight, IsVertex
    <3> QED
      BY <3>1, FeatureFacts
  <2>5. (Signed(f, p) > 0) = p /\ Unsigned({Signed(f, p)}) = {f}
    BY <2>4, SignedIs
  <2>6. link[1] = key /\ link[2] = Signed(f, p)
    BY <2>3
  <2> QED
    BY <2>3, <2>5, <2>6
<1>2. ASSUME NEW child \in DOMAIN edges, NEW key \in DOMAIN edges[child], NEW f \in edges[child][key].features
      PROVE  \E p \in BOOLEAN : <<key, Signed(f, p)>> \in DOMAIN children /\ children[<<key, Signed(f, p)>>] = child
  BY DEF IInv, LinksRight, Linking, IsEdge
<1> QED
  BY <1>1, <1>2 DEF LinksAgree

(* The brackets are those of the properties.                               *)
LEMMA InvariantBrackets ==
  ASSUME IInv PROVE BoundsBracketOptimum /\ SplitsBracketOptimum
BY DEF IInv, VerticesRight, IsVertex, IsTask, BoundsRight, IsBoundList, IsSplitBound,
       BoundsBracketOptimum, SplitsBracketOptimum

(* Global bounds that have met are the optimum, or within the guarantee.   *)
LEMMA InvariantCertifies ==
  ASSUME IInv, Proper(data) PROVE Complete => UpperIsOptimal
<1> SUFFICES ASSUME Complete PROVE UpperIsOptimal
  OBVIOUS
<1>1. CASE RootKey \in DOMAIN vertices
  <2>1. lower = vertices[RootKey].lower /\ upper = vertices[RootKey].upper /\ IsTask(data, RootKey, vertices[RootKey])
    BY <1>1 DEF IInv, RootRight, VerticesRight, IsVertex
  <2> QED
    BY <2>1 DEF IsTask, UpperIsOptimal, Complete
<1>2. CASE RootKey \notin DOMAIN vertices
  <2>1. lower = -FltMax /\ upper = FltMax
    BY <1>2 DEF IInv, RootRight
  <2>2. data.config.one \in Nat \ {0} /\ data.config.one <= FltMax /\ FltMax \in Nat
    BY FltMaxAssumption DEF Proper, Calibrated, IsDataset, IsConfiguration
  <2> DEFINE one == data.config.one
  <2> HIDE DEF one
  <2>3. one \in Nat \ {0} /\ one <= FltMax /\ FltMax \in Nat
    BY <2>2 DEF one
  <2>4. -FltMax # FltMax
    BY <2>3
  <2> QED
    BY <2>1, <2>4 DEF Complete
<1> QED
  BY <1>1, <1>2

(* Nothing widens: neither a vertex's bounds nor the global ones.          *)
LEMMA NothingWidens ==
  ASSUME IInv, IInv', Proper(data), data' = data, Tightened,
         lower' \in -FltMax .. FltMax, upper' \in -FltMax .. FltMax
  PROVE  /\ upper' <= upper
         /\ Unbeaten(RootKey) => lower <= lower'
         /\ \A key \in DOMAIN vertices :
              /\ vertices'[key].upper <= vertices[key].upper
              /\ Unbeaten(key) => vertices[key].lower <= vertices'[key].lower
<1> DEFINE V == DOMAIN vertices
<1>1. \A key \in V : /\ key \in (DOMAIN vertices)'
                     /\ vertices'[key].upper <= vertices[key].upper
                     /\ Unbeaten(key) => vertices[key].lower <= vertices'[key].lower
  BY DEF Tightened, Tightens, IInv, VerticesRight, IsVertex, Unbeaten
<1>2. RootKey' = RootKey
  BY DEF RootKey, config
<1>3. upper' <= upper /\ (Unbeaten(RootKey) => lower <= lower')
  <2>1. CASE RootKey \in V
    BY <1>1, <1>2, <2>1 DEF IInv, RootRight
  <2>2. CASE RootKey \notin V
    <3>1. lower = -FltMax /\ upper = FltMax
      BY <2>2 DEF IInv, RootRight
    <3> QED
      BY <3>1, FltMaxAssumption
  <2> QED
    BY <2>1, <2>2
<1> QED
  BY <1>1, <1>3

(* Datasets that are calibrated are proper: the rest is assumed of every   *)
(* dataset.                                                                *)
LEMMA ProperSets ==
  ASSUME \A d \in DataSets : Calibrated(d)
  PROVE  /\ \A d \in DataSets : Proper(d)
         /\ IInv => data \in DataSets /\ Proper(data)
BY DataAssumption, JudgedAssumption DEF Proper, IInv, ControlRight

(* Every reachable state is well-typed: the messages name features of the  *)
(* dataset and the tables' keys are subproblems; every vertex's bounds are *)
(* in order and below what its leaf costs; the global ones are in range.   *)
THEOREM SearchTypes == (\A d \in DataSets : Calibrated(d)) /\ Spec => []TypeOK
<1>1. ASSUME \A d \in DataSets : Calibrated(d) PROVE Spec => []TypeOK
  <2>1. IInv => TypeOK
    BY <1>1, ProperSets, InvariantTypes
  <2>2. Spec => []IInv
    BY <1>1, SearchInvariant
  <2> QED
    BY <2>1, <2>2, PTL
<1> QED
  BY <1>1

(* The two link tables agree in every interleaving of the workers'         *)
(* explorations: link_to_parent's insertions and send_explorer's updates   *)
(* never leave a link without the edge that signals along it, or an edge   *)
(* without its link.                                                       *)
THEOREM SearchLinks == (\A d \in DataSets : Calibrated(d)) /\ Spec => []LinksAgree
<1>1. ASSUME \A d \in DataSets : Calibrated(d) PROVE Spec => []LinksAgree
  <2>1. IInv => LinksAgree
    BY <1>1, ProperSets, InvariantLinks
  <2>2. Spec => []IInv
    BY <1>1, SearchInvariant
  <2> QED
    BY <2>1, <2>2, PTL
<1> QED
  BY <1>1

(* Every vertex brackets the optimum of its subproblem, for any number of  *)
(* workers, whatever scopes, similar supports and late messages it was     *)
(* tightened by.                                                           *)
THEOREM SearchBrackets == (\A d \in DataSets : Calibrated(d)) /\ Spec => []BoundsBracketOptimum
<1>1. IInv => BoundsBracketOptimum
  BY InvariantBrackets
<1> QED
  BY <1>1, SearchInvariant, PTL

(* And every entry of a bound list brackets the best objective that starts *)
(* with its feature, after any number of passes over the list in place.    *)
THEOREM SearchSplits == (\A d \in DataSets : Calibrated(d)) /\ Spec => []SplitsBracketOptimum
<1>1. IInv => SplitsBracketOptimum
  BY InvariantBrackets
<1> QED
  BY <1>1, SearchInvariant, PTL

(* When the search certifies a root objective it is the optimum: or, under *)
(* a reference model, between the optimum and what the model guarantees.   *)
THEOREM SearchCertifies == (\A d \in DataSets : Calibrated(d)) /\ Spec => [](Complete => UpperIsOptimal)
<1>1. ASSUME \A d \in DataSets : Calibrated(d) PROVE Spec => [](Complete => UpperIsOptimal)
  <2>1. IInv => (Complete => UpperIsOptimal)
    BY <1>1, ProperSets, InvariantCertifies
  <2>2. Spec => []IInv
    BY <1>1, SearchInvariant
  <2> QED
    BY <2>1, <2>2, PTL
<1> QED
  BY <1>1

(* Bounds only tighten, those of every vertex and the global ones, where   *)
(* the reference model, if there is one, is not beaten: no late message    *)
(* takes back what was proved since it was sent.                           *)
THEOREM SearchTightens == (\A d \in DataSets : Calibrated(d)) /\ Spec => BoundsOnlyTighten
<1>1. ASSUME \A d \in DataSets : Calibrated(d) PROVE Spec => BoundsOnlyTighten
  <2>1. IInv /\ IInv' /\ TypeOK' /\ [Next]_vars =>
          [/\ upper' <= upper
           /\ Unbeaten(RootKey) => lower <= lower'
           /\ \A key \in DOMAIN vertices :
                /\ vertices'[key].upper <= vertices[key].upper
                /\ Unbeaten(key) => vertices[key].lower <= vertices'[key].lower]_vars
    <3> SUFFICES ASSUME IInv, IInv', TypeOK', [Next]_vars
                 PROVE  /\ upper' <= upper
                        /\ Unbeaten(RootKey) => lower <= lower'
                        /\ \A key \in DOMAIN vertices :
                             /\ vertices'[key].upper <= vertices[key].upper
                             /\ Unbeaten(key) => vertices[key].lower <= vertices'[key].lower
      OBVIOUS
    <3>1. Proper(data) /\ data \in DataSets
      BY <1>1, ProperSets
    <3>2. Tightened
      BY <3>1, StepKeeps
    <3>3. data' = data
      BY DEF Next, Pop, Explore, Exploit, Dispatched, Check, vars
    <3>4. lower' \in -FltMax .. FltMax /\ upper' \in -FltMax .. FltMax
      BY DEF TypeOK
    <3> QED
      BY <3>1, <3>2, <3>3, <3>4, NothingWidens
  <2> QED
    BY <2>1, <1>1, SearchInvariant, SearchTypes, PTL DEF Spec, BoundsOnlyTighten
<1> QED
  BY <1>1

RootInside ==
  /\ lower \in -FltMax .. FltMax /\ upper \in -FltMax .. FltMax
  /\ lower <= data.optimum[RootKey] /\ data.optimum[RootKey] <= upper

(* The root's bounds are around its optimum, before it is stored too.      *)
LEMMA RootBracket ==
  ASSUME IInv, Proper(data), data.guarantee[Root(data)] = data.optimum[Root(data)]
  PROVE  RootInside
<1>0. lower \in -FltMax .. FltMax /\ upper \in -FltMax .. FltMax
  BY RootTypes
<1> SUFFICES lower <= data.optimum[RootKey] /\ data.optimum[RootKey] <= upper
  BY <1>0 DEF RootInside
<1>1. RootKey = Root(data) /\ RootKey \in Reached(data)
  BY RootReached DEF RootKey, Root, config
<1>2. /\ data.optimum[RootKey] \in Nat /\ data.optimum[RootKey] <= Leaf(data, RootKey[1])
      /\ Leaf(data, RootKey[1]) \in Nat /\ Leaf(data, RootKey[1]) <= data.config.one
  BY <1>1, KeyFacts
<1>3. FltMax \in Nat /\ data.config.one \in Nat /\ data.config.one <= FltMax
  BY FltMaxAssumption DEF Proper, Calibrated, IsDataset, IsConfiguration
<1>4. CASE RootKey \in DOMAIN vertices
  <2>1. lower = vertices[RootKey].lower /\ upper = vertices[RootKey].upper /\ IsTask(data, RootKey, vertices[RootKey])
    BY <1>4 DEF IInv, RootRight, VerticesRight, IsVertex
  <2> QED
    BY <1>1, <1>2, <2>1 DEF IsTask, Tasks
<1>5. CASE RootKey \notin DOMAIN vertices
  <2>1. lower = -FltMax /\ upper = FltMax
    BY <1>5 DEF IInv, RootRight
  <2> DEFINE o == data.optimum[RootKey]
             one == data.config.one
             leaf == Leaf(data, RootKey[1])
  <2>2. o \in Nat /\ o <= leaf /\ leaf \in Nat /\ leaf <= one /\ one \in Nat /\ one <= FltMax
    BY <1>2, <1>3
  <2> HIDE DEF o, one, leaf
  <2>3. -FltMax <= o /\ o <= FltMax
    BY <1>3, <2>2
  <2> QED
    BY <1>3, <2>1, <2>2, <2>3 DEF o
<1> QED
  BY <1>4, <1>5

Occupied == queue # {} \/ \E w \in Workers : pc[w] = "dispatch"

(* A dispatch tightens the root's bounds around the optimum; the other     *)
(* steps leave them alone, and do not end or begin what is going on.       *)
LEMMA StepTightensRoot ==
  ASSUME IInv, IInv', Proper(data), data.guarantee[Root(data)] = data.optimum[Root(data)],
         [Next]_vars, RootInside', WorkerLimit = 1 => DrainedMeansSolved'
  PROVE  [RootBounds!Tighten]_RootBounds!vars
<1>1. pc \in [Workers -> {"pop", "dispatch", "check", "done"}]
  BY DEF IInv, ControlRight
<1>2. /\ RootBounds!vars = <<data.optimum[RootKey], lower, upper, Occupied>>
      /\ (RootBounds!vars)' = <<data'.optimum[RootKey'], lower', upper', Occupied'>>
  BY DEF RootBounds!vars, Occupied
<1>3. data' = data /\ RootKey' = RootKey
  <2>1. ASSUME NEW w \in Workers, Pop(w) \/ Explore(w) \/ Exploit(w) \/ Check(w) PROVE data' = data
    BY ONLY <2>1, Zenon DEF Pop, Explore, Exploit, Dispatched, Check
  <2>2. data' = data
    BY <2>1 DEF Next, vars
  <2> QED
    BY <2>2 DEF RootKey, config
<1>4. ASSUME NEW w \in Workers, Explore(w) \/ Exploit(w) PROVE RootBounds!Tighten
  <2>1. pc[w] = "dispatch"
    BY ONLY <1>4, Zenon DEF Explore, Exploit
  <2>2. Tightened
    BY StepKeeps
  <2>3. lower' \in -FltMax .. FltMax /\ upper' \in -FltMax .. FltMax
    BY DEF RootInside
  <2>4. upper' <= upper /\ (Unbeaten(RootKey) => lower <= lower')
    BY <1>3, <2>2, <2>3, NothingWidens
  <2>5. Unbeaten(RootKey)
    BY DEF Unbeaten, RootKey, Root, config
  <2>6. lower' <= data'.optimum[RootKey'] /\ data'.optimum[RootKey'] <= upper'
    BY DEF RootInside
  <2>7. WorkerLimit = 1 => Occupied' \/ lower' = upper'
    BY DEF DrainedMeansSolved, Complete, Occupied
  <2> QED
    BY <1>3, <2>1, <2>4, <2>5, <2>6, <2>7 DEF RootBounds!Tighten, Occupied
<1>5. ASSUME NEW w \in Workers, Pop(w) PROVE UNCHANGED <<lower, upper, Occupied>>
  <2>1. UNCHANGED <<lower, upper>> /\ pc[w] = "pop"
    BY <1>5 DEF Pop
  <2>2. CASE queue = {}
    <3>1. pc' = [pc EXCEPT ![w] = "check"] /\ queue' = queue
      BY <1>5, <2>2 DEF Pop
    <3> QED
      BY <1>1, <2>1, <3>1 DEF Occupied
  <2>3. CASE queue # {}
    <3>1. pc' = [pc EXCEPT ![w] = "dispatch"]
      BY <1>5, <2>3 DEF Pop
    <3>2. pc'[w] = "dispatch"
      BY <1>1, <3>1
    <3> QED
      BY <2>1, <2>3, <3>2 DEF Occupied
  <2> QED
    BY <2>2, <2>3
<1>6. ASSUME NEW w \in Workers, Check(w) PROVE UNCHANGED <<lower, upper, Occupied>>
  <2>1. UNCHANGED <<lower, upper, queue>> /\ pc[w] = "check"
        /\ pc' = [pc EXCEPT ![w] = IF active' THEN "pop" ELSE "done"]
    BY <1>6 DEF Check
  <2> QED
    BY <1>1, <2>1 DEF Occupied
<1>7. ASSUME UNCHANGED vars PROVE UNCHANGED <<lower, upper, Occupied>>
  BY <1>7 DEF vars, Occupied
<1>8. UNCHANGED <<lower, upper, Occupied>> => UNCHANGED RootBounds!vars
  BY <1>2, <1>3
<1> QED
  BY <1>4, <1>5, <1>6, <1>7, <1>8 DEF Next

(* The search keeps the promise that the run loop relies on                *)
(* (SpotRootBounds), where the reference model does not make more of the   *)
(* root than it is: every store of update_root tightens bounds around the  *)
(* optimum, and if a worker that is alone solves the root before it drains *)
(* the queue, that is all there is to promise.                             *)
THEOREM SearchRefines ==
  /\ \A d \in DataSets : Calibrated(d) /\ d.guarantee[Root(d)] = d.optimum[Root(d)]
  /\ Spec /\ [](WorkerLimit = 1 => DrainedMeansSolved)
  => RefinesRootBounds
<1>1. ASSUME \A d \in DataSets : Calibrated(d) /\ d.guarantee[Root(d)] = d.optimum[Root(d)]
      PROVE  Spec /\ [](WorkerLimit = 1 => DrainedMeansSolved) => RefinesRootBounds
  <2>1. IInv => Proper(data) /\ data.guarantee[Root(data)] = data.optimum[Root(data)]
    BY <1>1, ProperSets
  <2>2. Init /\ IInv => RootBounds!Init
    BY <2>1, RootBracket DEF Init, RootBounds!Init, RootInside
  <2>3. IInv /\ IInv' /\ [Next]_vars /\ RootInside' /\ (WorkerLimit = 1 => DrainedMeansSolved)'
          => [RootBounds!Tighten]_RootBounds!vars
    BY <2>1, StepTightensRoot
  <2>4. Spec => []IInv
    BY <1>1, SearchInvariant
  <2>5. IInv => RootInside
    BY <2>1, RootBracket
  <2> QED
    BY <2>2, <2>3, <2>4, <2>5, PTL DEF Spec, RefinesRootBounds, RootBounds!Spec
<1> QED
  BY <1>1

(* So several workers keep it, even where they drain the queue with the    *)
(* root unsolved.                                                          *)
THEOREM SeveralRefine ==
  /\ WorkerLimit > 1
  /\ \A d \in DataSets : Calibrated(d) /\ d.guarantee[Root(d)] = d.optimum[Root(d)]
  /\ Spec
  => RefinesRootBounds
<1>1. ASSUME WorkerLimit > 1, \A d \in DataSets : Calibrated(d) /\ d.guarantee[Root(d)] = d.optimum[Root(d)]
      PROVE  Spec => RefinesRootBounds
  <2>1. WorkerLimit = 1 => DrainedMeansSolved
    BY <1>1, WorkerAssumption
  <2>2. [](WorkerLimit = 1 => DrainedMeansSolved)
    BY <2>1, PTL
  <2> QED
    BY <1>1, <2>2, SearchRefines
<1> QED
  BY <1>1

-----------------------------------------------------------------------------
(* The scopes                                                              *)

(* A lowerscope that no scope of a parent falls short of: the parents that *)
(* asked under exactly zero aside.                                         *)
Within(l, scope) == scope # 0 => 0 <= l /\ l <= Max({0, scope})

(* Either nobody asked, or the summary is a scope.                         *)
Settled(l) == l = -FltMax \/ 0 <= l

WithinAll(l, parents) == \A key \in DOMAIN parents : Within(l, parents[key].scope)

ScopesRight ==
  /\ \A key \in DOMAIN vertices : Settled(vertices[key].lowerscope)
  /\ \A child \in DOMAIN edges : WithinAll(vertices[child].lowerscope, edges[child])

(* What the summary l may become: every parent within l is within n.       *)
Lowers(l, n) == n \in Int /\ Settled(n) /\ \A s \in Int : Within(l, s) => Within(n, s)

(* There is room for a scope.                                              *)
LEMMA FltMaxLarge == ASSUME NEW d, Proper(d) PROVE FltMax \in Nat \ {0}
<1> DEFINE one == d.config.one
<1>1. one \in Nat \ {0} /\ one <= FltMax /\ FltMax \in Nat
  BY FltMaxAssumption DEF Proper, Calibrated, IsDataset, IsConfiguration
<1> HIDE DEF one
<1> QED
  BY <1>1

(* A summary that stays.                                                   *)
LEMMA LowersNothing ==
  ASSUME NEW l \in Int, Settled(l) PROVE Lowers(l, l)
BY DEF Lowers

(* One lowered twice.                                                      *)
LEMMA LowersOn ==
  ASSUME NEW l, NEW m, NEW n, Lowers(l, m), Lowers(m, n) PROVE Lowers(l, n)
BY DEF Lowers

(* Task::scope takes a scope into the summary, and keeps the parents'.     *)
LEMMA ScopedWithin ==
  ASSUME FltMax \in Nat \ {0}, NEW t \in Tasks, Settled(t.lowerscope), NEW scope \in Int
  PROVE  /\ Scoped(t, scope) \in Tasks
         /\ Lowers(t.lowerscope, Scoped(t, scope).lowerscope)
         /\ Within(Scoped(t, scope).lowerscope, scope)
<1> DEFINE s == Max({0, scope})
           l == t.lowerscope
           n == Scoped(t, scope).lowerscope
           y == IF l = -FltMax THEN s ELSE Min({l, s})
<1>1. s = IF 0 <= scope THEN scope ELSE 0
  BY MaxOfTwo
<1>2. Scoped(t, scope) \in Tasks
  BY ScopedIs DEF SameBut
<1>3. l \in Int /\ -FltMax \in Int
  BY DEF Tasks
<1>4. n = IF scope = 0 THEN l ELSE y
  BY DEF Scoped, Tasks
<1> HIDE DEF s, l, n
<1>5. s \in Int /\ 0 <= s
  BY <1>1
<1>6. Min({l, s}) = IF l <= s THEN l ELSE s
  BY <1>3, <1>5, MinOfTwo
<1>7. n \in Int /\ Settled(n)
  BY <1>3, <1>4, <1>5, <1>6 DEF Settled, l
<1>8. Within(n, scope)
  <2> SUFFICES ASSUME scope # 0 PROVE 0 <= n /\ n <= s
    BY DEF Within, s
  <2>1. l = -FltMax \/ 0 <= l
    BY DEF Settled, l
  <2> QED
    BY <1>3, <1>4, <1>5, <1>6, <2>1
<1>9. ASSUME NEW r \in Int, Within(l, r) PROVE Within(n, r)
  <2> DEFINE top == Max({0, r})
  <2>1. top \in Int
    BY MaxOfTwo
  <2> HIDE DEF top
  <2> SUFFICES ASSUME r # 0 PROVE 0 <= n /\ n <= top
    BY DEF Within, top
  <2>2. 0 <= l /\ l <= top
    BY <1>9 DEF Within, top
  <2>3. l # -FltMax
    BY <1>3, <2>2
  <2> QED
    BY <1>3, <1>4, <1>5, <1>6, <2>1, <2>2, <2>3
<1> QED
  BY <1>2, <1>7, <1>8, <1>9 DEF Lowers, l, n

(* Task::update does not touch it.                                         *)
LEMMA UpdatedScope ==
  ASSUME NEW d, NEW t \in Tasks, NEW lo, NEW up
  PROVE  Updated(d, t, lo, up).lowerscope = t.lowerscope
BY DEF Updated, Tasks

(* Nor a second update, of what the first one made.                        *)
LEMMA UpdatedAgain ==
  ASSUME NEW d, NEW t \in Tasks, NEW lo, NEW up, NEW least, NEW most
  PROVE  Updated(d, Updated(d, t, lo, up), least, most).lowerscope = t.lowerscope
BY DEF Updated, Tasks

(* Nor pruning.                                                            *)
LEMMA PrunedScope ==
  ASSUME NEW d, NEW t \in Tasks, NEW S PROVE Pruned(d, t, S).lowerscope = t.lowerscope
BY DEF Pruned, Tasks

(* link_to_parent keeps the parents within a summary that has taken the    *)
(* scope in: the entry keeps the smaller of two scopes.                    *)
LEMMA EdgeWithin ==
  ASSUME NEW l \in Int, NEW parents, \A k \in DOMAIN parents : parents[k].scope \in Int, WithinAll(l, parents),
         NEW parent, NEW F, NEW scope \in Int, Within(l, scope)
  PROVE  WithinAll(l, WithEdge(parents, parent, F, scope))
<1> DEFINE old == IF parent \in DOMAIN parents THEN parents[parent] ELSE [features |-> {}, scope |-> scope]
           edge == [features |-> old.features \cup F, scope |-> Min({old.scope, scope})]
           new == WithEdge(parents, parent, F, scope)
<1>1. new = Over(Entry(parent, edge), parents)
  BY DEF WithEdge
<1>2. old.scope \in Int /\ Within(l, old.scope)
  BY DEF WithinAll
<1>3. edge.scope = Min({old.scope, scope})
  OBVIOUS
<1> HIDE DEF old, edge, new
<1>4. edge.scope = old.scope \/ edge.scope = scope
  BY <1>2, <1>3, MinOfTwo
<1>5. Within(l, edge.scope)
  BY <1>2, <1>4
<1>6. IsEntered(parents, parent, edge, new)
  BY <1>1, EnteredIs
<1>7. WithinAll(l, new)
  BY <1>5, <1>6 DEF IsEntered, WithinAll
<1> QED
  BY <1>7 DEF new

(* The other child of a split.                                             *)
Sibling(d, key, f, p) == Child(d, key, f, ~p)

(* The two sides of a split are what is left of one another, so that asks  *)
(* for one child leave the same sibling.                                   *)
LEMMA SameSibling ==
  ASSUME NEW d, NEW key, NEW f, NEW g, NEW p \in BOOLEAN, NEW q \in BOOLEAN,
         Child(d, key, f, p) = Child(d, key, g, q)
  PROVE  Sibling(d, key, f, p) = Sibling(d, key, g, q)
<1> DEFINE S == key[1]
           T(h, r) == Subset(d, S, h, r)
<1>1. T(f, p) = T(g, q)
  BY DEF Child
<1>2. ASSUME NEW h, NEW r \in BOOLEAN PROVE T(h, ~r) = S \ T(h, r)
  <2>1. ASSUME NEW x \in S PROVE x \in T(h, ~r) <=> x \notin T(h, r)
    <3>1. (x \in T(h, ~r) <=> ((h \in d.value[x]) = ~r)) /\ (x \in T(h, r) <=> ((h \in d.value[x]) = r))
      BY DEF Subset
    <3> QED
      BY <3>1
  <2>2. T(h, ~r) \subseteq S /\ T(h, r) \subseteq S
    BY DEF Subset
  <2> HIDE DEF T
  <2> QED
    BY <2>1, <2>2
<1> HIDE DEF T
<1>3. T(f, ~p) = T(g, ~q)
  BY <1>1, <1>2
<1> QED
  BY <1>3 DEF Child, Sibling, T

(* Asks for one child have one scope, whichever features they come by: so  *)
(* it does not matter in which order send_explorers makes them.            *)
LEMMA OneScope ==
  ASSUME NEW key, NEW t, NEW u,
         NEW a \in Asked(key, t, Near(key, u)), NEW b \in Asked(key, t, Near(key, u)), a.child = b.child
  PROVE  a.scope = b.scope
<1> DEFINE near == Near(key, u)
           boundary == IF config.look_ahead THEN Min({t.upper, t.upperscope}) ELSE t.upper
           reserve(sibling) == IF config.rule_list THEN sibling.base ELSE GuaranteedLower(data, sibling)
           scope(c) == boundary - reserve(NewTask(data, c, u.features))
           inScope == {n \in near : NearSplit(n).lower <= boundary /\ NearSplit(n).upper > t.coverage}
           down(n) == [feature |-> Signed(n.feature, FALSE), child |-> Child(data, key, n.feature, FALSE),
                       scope |-> boundary - reserve(n.positive)]
           up(n) == [feature |-> Signed(n.feature, TRUE), child |-> Child(data, key, n.feature, TRUE),
                     scope |-> boundary - reserve(n.negative)]
<1>1. Asked(key, t, near) = {down(n) : n \in inScope} \cup {up(n) : n \in inScope}
  BY DEF Asked
<1> HIDE DEF boundary, reserve
<1>2. ASSUME NEW n \in near
      PROVE  /\ n.negative = NewTask(data, Child(data, key, n.feature, FALSE), u.features)
             /\ n.positive = NewTask(data, Child(data, key, n.feature, TRUE), u.features)
             /\ n.feature \in u.features
  <2>1. PICK f \in u.features : n = NearPair(key, u, f)
    BY DEF Near
  <2>2. /\ n.feature = f /\ n.negative = NearChild(key, u, f, FALSE)
        /\ n.positive = NearChild(key, u, f, TRUE)
    BY <2>1 DEF NearPair
  <2> QED
    BY <2>2 DEF NearChild
<1>3. ASSUME NEW x \in Asked(key, t, near)
      PROVE  \E f \in u.features, p \in BOOLEAN :
               x.child = Child(data, key, f, p) /\ x.scope = scope(Sibling(data, key, f, p))
  <2>1. PICK n \in near : x = down(n) \/ x = up(n)
    BY <1>1
  <2>2. CASE x = down(n)
    <3>1. x.child = Child(data, key, n.feature, FALSE) /\ x.scope = scope(Child(data, key, n.feature, TRUE))
      BY <1>2, <2>2
    <3>2. Sibling(data, key, n.feature, FALSE) = Child(data, key, n.feature, TRUE)
      BY DEF Sibling
    <3> QED
      BY <1>2, <3>1, <3>2
  <2>3. CASE x = up(n)
    <3>1. x.child = Child(data, key, n.feature, TRUE) /\ x.scope = scope(Child(data, key, n.feature, FALSE))
      BY <1>2, <2>3
    <3>2. Sibling(data, key, n.feature, TRUE) = Child(data, key, n.feature, FALSE)
      BY DEF Sibling
    <3> HIDE DEF scope
    <3> QED
      BY <1>2, <3>1, <3>2
  <2> QED
    BY <2>1, <2>2, <2>3
<1> HIDE DEF scope
<1>4. PICK f \in u.features, p \in BOOLEAN : a.child = Child(data, key, f, p) /\ a.scope = scope(Sibling(data, key, f, p))
  BY <1>3
<1>5. PICK g \in u.features, q \in BOOLEAN : b.child = Child(data, key, g, q) /\ b.scope = scope(Sibling(data, key, g, q))
  BY <1>3
<1>6. Sibling(data, key, f, p) = Sibling(data, key, g, q)
  <2>1. Child(data, key, f, p) = Child(data, key, g, q) /\ p \in BOOLEAN /\ q \in BOOLEAN
    BY <1>4, <1>5
  <2> QED
    BY <2>1, SameSibling
<1> QED
  BY <1>4, <1>5, <1>6

(* What an exploration leaves of its vertex has taken the message's scope  *)
(* in: it does so up to twice, in store_self and in send_explorers.        *)
LEMMA FinalWithin ==
  ASSUME IInv, Proper(data), ScopesRight, NEW m, IsMail(data, DOMAIN vertices, m), IsExploration(m)
  PROVE  LET key == m.key[3]
             fresh == Fresh(key, m)
             task == Stored(key, m, fresh, Near(key, fresh))
             n == FinalBy(m, task, WantedBy(m, task)).lowerscope
         IN  /\ n \in Int /\ Settled(n) /\ Within(n, m.scope)
             /\ key \in DOMAIN vertices => Lowers(vertices[key].lowerscope, n)
<1> DEFINE key == m.key[3]
           fresh == Fresh(key, m)
           near == Near(key, fresh)
           task == Stored(key, m, fresh, near)
           wanted == WantedBy(m, task)
           final == FinalBy(m, task, wanted)
           b == IF key \in DOMAIN vertices THEN vertices[key] ELSE NewTask(data, key, m.candidates)
           x == Scoped(b, m.scope)
           self == IF key \in DOMAIN vertices THEN x ELSE fresh
<1>1. m.scope \in Int /\ key \in Reached(data) /\ Candidates(data, key, m.candidates)
  BY RequestIs DEF IsRequest
<1>2. task \in Tasks /\ wanted \in Tasks /\ final \in Tasks
  BY TaskIs DEF IsVertex, IsTask, SameBut
<1>3. b \in Tasks /\ Settled(b.lowerscope)
  <2>1. CASE key \in DOMAIN vertices
    BY <2>1 DEF IInv, VerticesRight, IsVertex, IsTask, ScopesRight
  <2>2. CASE key \notin DOMAIN vertices
    <3> DEFINE C == m.candidates
    <3>1. C \subseteq data.features /\ Splittable(data, key) \subseteq C
      BY <1>1 DEF Candidates, Splittable
    <3>2. data.features \in SUBSET (Nat \ {0})
      BY FeatureNumbers DEF Proper
    <3>3. C \in SUBSET Int
      BY <3>1, <3>2
    <3> HIDE DEF C, key
    <3>4. IsTask(data, key, NewTask(data, key, C))
      BY <1>1, <3>1, <3>3, NewIsTask
    <3>5. NewTask(data, key, C).lowerscope = -FltMax
      BY DEF NewTask
    <3>6. b = NewTask(data, key, C)
      BY <2>2 DEF C
    <3> QED
      BY <3>4, <3>5, <3>6 DEF IsTask, Settled
  <2> QED
    BY <2>1, <2>2
<1>4. FltMax \in Nat \ {0}
  BY FltMaxLarge
<1> HIDE DEF b
<1>5. x \in Tasks /\ Lowers(b.lowerscope, x.lowerscope) /\ Within(x.lowerscope, m.scope)
  BY <1>1, <1>3, <1>4, ScopedWithin
<1>6. self \in Tasks /\ self.lowerscope = x.lowerscope
  <2>1. CASE key \in DOMAIN vertices
    BY <1>5, <2>1
  <2>2. CASE key \notin DOMAIN vertices
    <3>1. fresh = Pruned(data, x, key[1])
      BY <2>2 DEF Fresh, b
    <3>2. fresh \in Tasks
      BY <1>1, FreshIs DEF IsVertex, IsTask
    <3> HIDE DEF fresh, x, key
    <3> QED
      BY <1>5, <2>2, <3>1, <3>2, PrunedScope
  <2> QED
    BY <2>1, <2>2
<1>7. task.lowerscope = self.lowerscope
  <2> DEFINE offered == Offered(self, NearSplits(near))
             first == Updated(data, self, offered.lower, offered.upper)
  <2>1. key \in DOMAIN vertices => self = Scoped(vertices[key], m.scope)
    BY DEF b
  <2>2. task = IF IsRoot(key) THEN Updated(data, first, first.lower, RootUpper) ELSE first
    <3>1. self = IF key \in DOMAIN vertices THEN Scoped(vertices[key], m.scope) ELSE fresh
      BY <2>1
    <3> HIDE DEF self
    <3> QED
      BY <3>1 DEF Stored
  <2> HIDE DEF self, offered, task
  <2>3. first.lowerscope = self.lowerscope
    BY <1>6, UpdatedScope
  <2>4. Updated(data, first, first.lower, RootUpper).lowerscope = self.lowerscope
    BY <1>6, UpdatedAgain
  <2> HIDE DEF first
  <2> QED
    BY <2>2, <2>3, <2>4
<1> HIDE DEF x, self, task, near, fresh, key
<1>8. x.lowerscope \in Int /\ Settled(x.lowerscope)
  BY <1>5 DEF Lowers
<1>9. Lowers(x.lowerscope, wanted.lowerscope)
  <2>1. Lowers(task.lowerscope, Scoped(task, m.scope).lowerscope)
    BY <1>1, <1>2, <1>4, <1>6, <1>7, <1>8, ScopedWithin
  <2>2. Lowers(task.lowerscope, task.lowerscope)
    BY <1>6, <1>7, <1>8, LowersNothing
  <2> QED
    BY <1>6, <1>7, <2>1, <2>2 DEF WantedBy
<1>10. final.lowerscope = wanted.lowerscope
  BY <1>2 DEF FinalBy, Tasks
<1> HIDE DEF wanted, final
<1>11. final.lowerscope \in Int /\ Settled(final.lowerscope) /\ Within(final.lowerscope, m.scope)
  BY <1>1, <1>5, <1>9, <1>10 DEF Lowers
<1>12. Lowers(b.lowerscope, final.lowerscope)
  BY <1>5, <1>9, <1>10, LowersOn
<1>13. key \in DOMAIN vertices => b = vertices[key]
  BY DEF b
<1>14. key \in DOMAIN vertices => Lowers(vertices[key].lowerscope, final.lowerscope)
  BY <1>12, <1>13
<1> QED
  BY <1>11, <1>14 DEF final, wanted, task, near, fresh, key

(* The scope a child is told of.                                           *)
ToldScope(told, c) == (CHOOSE a \in told : a.child = c).scope

(* Children that are told of a scope take it in.                           *)
LEMMA ToldAreScoped ==
  ASSUME NEW told, NEW W, \A a \in told : a.child \in DOMAIN W /\ W[a.child] = vertices[a.child]
  PROVE  LET new == Over(ToldVertices(told), W)
         IN  \A c \in DOMAIN W : new[c] = IF c \in {a.child : a \in told} THEN Scoped(W[c], ToldScope(told, c)) ELSE W[c]
<1> DEFINE T == ToldVertices(told)
           heads == {a.child : a \in told}
<1>1. DOMAIN T = heads /\ \A c \in heads : T[c] = Scoped(vertices[c], ToldScope(told, c))
  BY DEF ToldVertices, ToldScope
<1>2. \A c \in heads : c \in DOMAIN W /\ vertices[c] = W[c]
  OBVIOUS
<1> HIDE DEF T, heads
<1>3. /\ DOMAIN Over(T, W) = DOMAIN T \cup DOMAIN W
      /\ \A x \in DOMAIN T : Over(T, W)[x] = T[x]
      /\ \A x \in DOMAIN W : x \notin DOMAIN T => Over(T, W)[x] = W[x]
  BY ONLY OverIs, Zenon
<1> DEFINE o == Over(T, W)
<1> HIDE DEF o
<1>4. \A c \in DOMAIN W : o[c] = IF c \in heads THEN Scoped(W[c], ToldScope(told, c)) ELSE W[c]
  BY <1>1, <1>2, <1>3 DEF o
<1> QED
  BY <1>4 DEF o, T, heads

(* And the edge of a child that is told keeps its parents within it.       *)
LEMMA ToldWithin ==
  ASSUME FltMax \in Nat \ {0}, NEW told, \A a, b \in told : a.child = b.child => a.scope = b.scope,
         NEW c, c \in {a.child : a \in told}, \A a \in told : a.scope \in Int,
         NEW t \in Tasks, Settled(t.lowerscope), NEW key,
         NEW old, \A k \in DOMAIN old : old[k].scope \in Int, WithinAll(t.lowerscope, old)
  PROVE  LET n == Scoped(t, ToldScope(told, c)).lowerscope
         IN  Settled(n) /\ WithinAll(n, ToldEdge(told, key, old, c))
<1> DEFINE scope == ToldScope(told, c)
           asks == {a \in told : a.child = c}
           F == Unsigned({a.feature : a \in asks})
           n == Scoped(t, scope).lowerscope
<1>1. PICK b \in told : b.child = c /\ scope = b.scope
  <2>1. (CHOOSE a \in told : a.child = c) \in told /\ (CHOOSE a \in told : a.child = c).child = c
    OBVIOUS
  <2> QED
    BY <2>1 DEF ToldScope
<1>2. scope \in Int
  BY <1>1
<1>3. {a.scope : a \in asks} = {scope, scope}
  <2>1. \A a \in asks : a.scope = scope
    BY <1>1
  <2>2. b \in asks
    BY <1>1
  <2> HIDE DEF scope, asks
  <2> QED
    BY <1>1, <2>1, <2>2
<1>4. Min({a.scope : a \in asks}) = scope
  <2>1. Min({scope, scope}) = scope
    BY <1>2, MinOfTwo
  <2> QED
    BY <1>3, <2>1
<1>5. ToldEdge(told, key, old, c) = WithEdge(old, key, F, scope)
  BY <1>4 DEF ToldEdge
<1> HIDE DEF scope, F
<1>6. Lowers(t.lowerscope, n) /\ Within(n, scope)
  BY <1>2, ScopedWithin
<1> HIDE DEF n
<1>7. n \in Int /\ Settled(n) /\ WithinAll(n, old)
  BY <1>6 DEF Lowers, WithinAll
<1>8. WithinAll(n, WithEdge(old, key, F, scope))
  BY <1>2, <1>6, <1>7, EdgeWithin
<1> QED
  BY <1>5, <1>7, <1>8 DEF n, scope

(* An exploration keeps every parent within the summary.                   *)
LEMMA ExploreKeepsScopes ==
  ASSUME IInv, Proper(data), ScopesRight, NEW w \in Workers, Explore(w) PROVE ScopesRight'
<1> DEFINE m == inbound[w]
           key == m.key[3]
           fresh == Fresh(key, m)
           near == Near(key, fresh)
           task == Stored(key, m, fresh, near)
           links == LinksTo(m, key)
           parents == ParentsTo(m, key)
           wanted == WantedBy(m, task)
           asked == AskedBy(m, key, task, wanted, near)
           told == Told(asked, key, links)
           final == FinalBy(m, task, wanted)
           W == Over(Entry(key, final), vertices)
           G == IF IsRoot(key) THEN edges ELSE Over(Entry(key, parents), edges)
           V == DOMAIN vertices
           V1 == V \cup {key}
           heads == {a.child : a \in told}
<1>1. /\ Explores(w, m, key, near, task, links, parents, wanted, asked, told)
      /\ pc[w] = "dispatch" /\ IsExploration(m)
  BY ExploreIs
<1>2. IsMail(data, V, m)
  BY <1>1 DEF IInv, MailRight
<1>3. /\ IsRequest(data, V, m) /\ m.scope \in Int /\ key \in Reached(data)
      /\ \A a \in asked : IsAsk(data, key, a)
  BY <1>1, <1>2, TaskIs
<1>4. /\ final.lowerscope \in Int /\ Settled(final.lowerscope) /\ Within(final.lowerscope, m.scope)
      /\ key \in V => Lowers(vertices[key].lowerscope, final.lowerscope)
  BY <1>1, <1>2, FinalWithin
<1>5. \A a, b \in asked : a.child = b.child => a.scope = b.scope
  <2>1. asked \subseteq Asked(key, wanted, near)
    BY DEF AskedBy
  <2> HIDE DEF asked, wanted, fresh, key
  <2>2. \A a, b \in Asked(key, wanted, Near(key, fresh)) : a.child = b.child => a.scope = b.scope
    BY OneScope
  <2> QED
    BY <2>1, <2>2
<1>6. /\ Linking(data, V1, links, G) /\ \A c \in DOMAIN edges : c # key => G[c] = edges[c]
      /\ ~IsRoot(key) => G[key] = parents /\ key # Root(data)
      /\ DOMAIN G = {k \in V1 : k # Root(data)}
  <2>1. key = m.key[3] /\ parents = ParentsTo(m, key) /\ links = LinksTo(m, key)
        /\ G = IF IsRoot(key) THEN edges ELSE Over(Entry(key, parents), edges)
    BY DEF G
  <2>2. IsRoot(key) <=> key = Root(data)
    BY <1>3, RootIs
  <2> HIDE DEF key, parents, links, G, near, task, final, asked, wanted, m
  <2>3. Linking(data, V1, links, G) /\ \A c \in DOMAIN edges : c # key => G[c] = edges[c]
    BY <1>3, <2>1, ExploreKeepsLinks
  <2>4. ~IsRoot(key) => G[key] = parents
    <3>1. IsEntered(edges, key, parents, Over(Entry(key, parents), edges))
      BY EnteredIs
    <3> QED
      BY <2>1, <3>1 DEF IsEntered
  <2> QED
    BY <2>2, <2>3, <2>4 DEF Linking
<1> HIDE DEF W, G
<1>7. /\ vertices' = Over(ToldVertices(told), W)
      /\ edges' = Over(ToldEdges(told, key), G)
  BY <1>1 DEF Explores, W, G
<1>8. told \subseteq asked /\ \A a \in told : <<key, a.feature>> \in DOMAIN links
  BY DEF Told
<1>9. IsEntered(vertices, key, final, W)
  BY EnteredIs DEF W
<1>10. /\ V \subseteq Reached(data) /\ V1 \subseteq Reached(data) /\ key \in V1
       /\ Linking(data, V, children, edges)
       /\ \A k \in V : vertices[k] \in Tasks /\ Settled(vertices[k].lowerscope)
       /\ \A c \in DOMAIN edges : c \in V /\ c # Root(data) /\ WithinAll(vertices[c].lowerscope, edges[c])
                                  /\ \A k \in DOMAIN edges[c] : edges[c][k].scope \in Int
  BY <1>3 DEF IInv, VerticesRight, LinksRight, Linking, IsVertex, IsTask, IsEdge, ScopesRight
<1>11. parents = IF IsRoot(key) THEN <<>> ELSE WithEdge(ParentsOf(key), m.key[2], Unsigned(m.features), m.scope)
  BY DEF ParentsTo
<1> HIDE DEF m, fresh, near, links, parents, wanted, final, key, task, asked, told
<1>12. ASSUME NEW a \in told
       PROVE  /\ a.child \in DOMAIN edges /\ a.child \in DOMAIN G /\ a.child \in V
              /\ a.child # key /\ a.scope \in Int
  <2>1. IsAsk(data, key, a) /\ <<key, a.feature>> \in DOMAIN links
    BY <1>3, <1>8
  <2>2. a.child \in DOMAIN G /\ a.child \in V1 /\ a.child # key /\ a.child # Root(data) /\ a.scope \in Int
    BY ONLY <1>6, <1>10, <2>1, Proper(data), ToldIs
  <2> QED
    BY <1>10, <2>2 DEF Linking
<1>13. /\ DOMAIN vertices' = V1 /\ vertices'[key] = final
       /\ \A k \in V : k # key =>
            vertices'[k] = IF k \in heads THEN Scoped(vertices[k], ToldScope(told, k)) ELSE vertices[k]
  <2>1. DOMAIN W = V1 /\ W[key] = final /\ \A k \in V : k # key => W[k] = vertices[k]
    BY <1>9 DEF IsEntered
  <2>2. \A a \in told : a.child \in DOMAIN W /\ W[a.child] = vertices[a.child]
    BY <1>12, <2>1
  <2> DEFINE new == Over(ToldVertices(told), W)
  <2>3. \A c \in DOMAIN W : new[c] = IF c \in heads THEN Scoped(W[c], ToldScope(told, c)) ELSE W[c]
    BY ONLY <2>2, ToldAreScoped
  <2>4. DOMAIN new = DOMAIN W
    <3> DEFINE T == ToldVertices(told)
    <3>1. DOMAIN T = heads
      BY DEF ToldVertices
    <3>2. heads \subseteq DOMAIN W
      BY <2>2
    <3> HIDE DEF T, heads
    <3>3. DOMAIN Over(T, W) = DOMAIN T \cup DOMAIN W
      BY ONLY OverIs, Zenon
    <3>4. DOMAIN Over(T, W) = DOMAIN W
      BY <3>1, <3>2, <3>3
    <3> QED
      BY <3>4 DEF T
  <2>5. key \notin heads
    BY <1>12
  <2> HIDE DEF new, heads
  <2>6. vertices' = new
    BY <1>7 DEF new
  <2> QED
    BY <2>1, <2>3, <2>4, <2>5, <2>6
<1>14. /\ DOMAIN edges' = DOMAIN G
       /\ \A c \in DOMAIN G : edges'[c] = IF c \in heads THEN ToldEdge(told, key, G[c], c) ELSE G[c]
  <2>1. \A a \in told : a.child \in DOMAIN G /\ G[a.child] = edges[a.child]
    BY <1>6, <1>12
  <2> DEFINE H == Over(ToldEdges(told, key), G)
  <2>2. /\ DOMAIN H = DOMAIN G
        /\ \A c \in DOMAIN G : H[c] = IF c \in heads THEN ToldEdge(told, key, G[c], c) ELSE G[c]
    BY ONLY <2>1, ToldEdgesIs
  <2>3. edges' = H
    BY <1>7
  <2> HIDE DEF H, heads
  <2> QED
    BY <2>2, <2>3
<1>15. FltMax \in Nat \ {0}
  BY FltMaxLarge
<1>16. \A a, b \in told : a.child = b.child => a.scope = b.scope
  BY <1>5, <1>8
<1>17. ASSUME NEW c \in heads
       PROVE  LET n == Scoped(vertices[c], ToldScope(told, c)).lowerscope
              IN  Settled(n) /\ WithinAll(n, ToldEdge(told, key, edges[c], c))
  <2>1. c \in DOMAIN edges /\ c \in V
    BY <1>12
  <2>2. vertices[c] \in Tasks /\ Settled(vertices[c].lowerscope) /\ WithinAll(vertices[c].lowerscope, edges[c])
        /\ \A k \in DOMAIN edges[c] : edges[c][k].scope \in Int
    BY <1>10, <2>1
  <2>3. \A a \in told : a.scope \in Int
    BY <1>12
  <2> QED
    BY ONLY <1>15, <1>16, <1>17, <2>2, <2>3, ToldWithin
<1> HIDE DEF V1
<1>18. ASSUME NEW k \in DOMAIN vertices' PROVE Settled(vertices'[k].lowerscope)
  <2>1. CASE k = key
    BY <1>4, <1>13, <2>1
  <2>2. CASE k # key /\ k \in heads
    BY <1>12, <1>13, <1>17, <2>2
  <2>3. CASE k # key /\ k \notin heads
    <3>1. k \in V
      BY <1>13, <2>3 DEF V1
    <3> HIDE DEF heads
    <3> QED
      BY <1>10, <1>13, <2>3, <3>1
  <2> QED
    BY <2>1, <2>2, <2>3
<1>19. ASSUME NEW c \in DOMAIN edges' PROVE WithinAll(vertices'[c].lowerscope, edges'[c])
  <2>1. CASE c = key
    <3>1. ~IsRoot(key)
      <4>1. key # Root(data) /\ key \in Reached(data)
        BY <1>3, <1>6, <1>14, <2>1
      <4> QED
        BY <4>1, RootIs
    <3> DEFINE old == ParentsOf(key)
               n == final.lowerscope
    <3>2. (\A k \in DOMAIN old : old[k].scope \in Int) /\ WithinAll(n, old)
      <4>1. CASE key \in DOMAIN edges
        <5>1. old = edges[key] /\ key \in V /\ WithinAll(vertices[key].lowerscope, old)
              /\ \A k \in DOMAIN old : old[k].scope \in Int
          BY <1>10, <4>1 DEF ParentsOf
        <5> HIDE DEF old
        <5> QED
          BY <1>4, <5>1 DEF Lowers, WithinAll
      <4>2. CASE key \notin DOMAIN edges
        <5>1. DOMAIN old = {}
          BY <4>2 DEF ParentsOf
        <5> QED
          BY <5>1 DEF WithinAll
      <4> QED
        BY <4>1, <4>2
    <3> HIDE DEF old, n
    <3> DEFINE F == Unsigned(m.features)
    <3> HIDE DEF F
    <3>3. n \in Int /\ Within(n, m.scope)
      BY <1>4 DEF n
    <3>4. WithinAll(n, WithEdge(old, m.key[2], F, m.scope))
      BY <1>3, <3>2, <3>3, EdgeWithin
    <3>5. parents = WithEdge(old, m.key[2], F, m.scope)
      BY <1>11, <3>1 DEF old, F
    <3>6. key \notin heads
      BY <1>12
    <3> HIDE DEF heads
    <3>7. edges'[key] = parents
      BY <1>6, <1>14, <2>1, <3>1, <3>6
    <3> QED
      BY <1>13, <2>1, <3>4, <3>5, <3>7 DEF n
  <2>2. CASE c # key
    <3>1. c \in DOMAIN edges /\ c \in V /\ G[c] = edges[c]
      <4>1. c \in V /\ c # Root(data)
        BY <1>6, <1>14, <2>2 DEF V1
      <4>2. c \in DOMAIN edges
        BY <1>10, <4>1 DEF Linking
      <4> QED
        BY <1>6, <2>2, <4>1, <4>2
    <3>2. CASE c \in heads
      BY <1>13, <1>14, <1>17, <2>2, <3>1, <3>2
    <3>3. CASE c \notin heads
      <4> HIDE DEF heads
      <4> QED
        BY <1>10, <1>13, <1>14, <2>2, <3>1, <3>3
    <3> QED
      BY <3>2, <3>3
  <2> QED
    BY <2>1, <2>2
<1> QED
  BY <1>18, <1>19 DEF ScopesRight

(* An exploitation changes neither the scopes nor the edges.               *)
LEMMA ExploitKeepsScopes ==
  ASSUME IInv, Proper(data), ScopesRight, NEW w \in Workers, Exploit(w) PROVE ScopesRight'
<1> DEFINE key == inbound[w].key[2]
           self == vertices[key]
           splits == Refined(key, inbound[w].features)
           offered == OfferedBy(self, splits)
           task == UpdatedBy(self, offered)
           V == DOMAIN vertices
<1>1. /\ IF Skips(self) THEN UNCHANGED <<queue, vertices, bounds>> /\ KeepRoot(w)
                        ELSE Exploits(w, key, self, splits, offered, task)
      /\ pc[w] = "dispatch" /\ ~IsExploration(inbound[w]) /\ Dispatched(w)
      /\ UNCHANGED <<children, edges>>
  BY ExploitIs
<1>2. key \in V
  <2>1. IsMail(data, V, inbound[w])
    BY <1>1 DEF IInv, MailRight
  <2> QED
    BY <1>1, <2>1, RequestIs DEF IsSignal
<1>3. self \in Tasks
  BY <1>2 DEF IInv, VerticesRight, IsVertex, IsTask
<1>4. task.lowerscope = self.lowerscope
  BY <1>3, UpdatedScope DEF UpdatedBy
<1> HIDE DEF splits, offered, task, key
<1>5. vertices' = vertices \/ vertices' = [vertices EXCEPT ![key] = task]
  BY <1>1 DEF Exploits
<1>6. DOMAIN vertices' = V /\ \A k \in V : vertices'[k].lowerscope = vertices[k].lowerscope
  BY <1>2, <1>4, <1>5
<1>7. DOMAIN edges \subseteq V /\ edges' = edges
  BY <1>1 DEF IInv, LinksRight, Linking
<1> QED
  BY <1>6, <1>7 DEF ScopesRight

(* So no step leaves a parent short of the summary.                        *)
LEMMA ScopesStay ==
  ASSUME IInv, Proper(data), ScopesRight, [Next]_vars PROVE ScopesRight'
<1>1. CASE \E w \in Workers : Pop(w)
  BY <1>1 DEF Pop, ScopesRight
<1>2. CASE \E w \in Workers : Explore(w)
  BY <1>2, ExploreKeepsScopes
<1>3. CASE \E w \in Workers : Exploit(w)
  BY <1>3, ExploitKeepsScopes
<1>4. CASE \E w \in Workers : Check(w)
  BY <1>4 DEF Check, ScopesRight
<1>5. CASE UNCHANGED vars
  BY <1>5 DEF vars, ScopesRight
<1> QED
  BY <1>1, <1>2, <1>3, <1>4, <1>5 DEF Next

(* The summary of what the parents want, on which signal_exploiters gives  *)
(* up without looking at them, is never more than what any of them wants:  *)
(* one that asked under exactly zero aside, in every interleaving of the   *)
(* messages and scope updates that parents send to children they share.    *)
THEOREM SearchScopes == (\A d \in DataSets : Calibrated(d)) /\ Spec => []ParentsWithinScope
<1>1. ASSUME \A d \in DataSets : Calibrated(d) PROVE Spec => []ParentsWithinScope
  <2>1. Init => ScopesRight
    <3>1. DOMAIN <<>> = {}
      OBVIOUS
    <3> QED
      BY <3>1 DEF Init, ScopesRight
  <2>2. IInv /\ ScopesRight /\ [Next]_vars => ScopesRight'
    BY <1>1, ProperSets, ScopesStay
  <2>3. ScopesRight => ParentsWithinScope
    BY DEF ScopesRight, WithinAll, Within, ParentsWithinScope
  <2>4. Spec => []IInv
    BY <1>1, SearchInvariant
  <2> QED
    BY <2>1, <2>2, <2>3, <2>4, PTL DEF Spec
<1> QED
  BY <1>1

=============================================================================
