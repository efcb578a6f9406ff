------------------------- MODULE SpotOptimumProofs --------------------------
(***************************************************************************)
(* What the statistics and the bounds of SpotData prove about the          *)
(* reference of SpotOptimum, for every dataset.                            *)
(***************************************************************************)
EXTENDS SpotOptimum, ProofBasics

(* A sum over a finite set is found by taking its elements away one by     *)
(* one, in an order that does not depend on what is summed.                *)
Unrolls(g, F, T) ==
  /\ g \in [SUBSET T -> Int]
  /\ g[{}] = 0
  /\ \A s \in SUBSET T : s # {} =>
       g[s] = F[CHOOSE x \in s : TRUE] + g[s \ {CHOOSE x \in s : TRUE}]
  /\ Sum(F) = g[T]

(* The recursion that Sum stands for has a solution on the subsets of      *)
(* the domain.                                                             *)
LEMMA SumUnrolled ==
  ASSUME NEW T, IsFiniteSet(T), NEW F \in [T -> Int]
  PROVE  \E g : Unrolls(g, F, T)
<1> DEFINE pick(s) == CHOOSE x \in s : TRUE
           body(g, s) == IF s = {} THEN 0 ELSE F[pick(s)] + g[s \ {pick(s)}]
           D == SUBSET T
           B == [g \in [D -> Int] |-> [s \in D |-> body(g, s)]]
           rank == [s \in D |-> Cardinality(s)]
           N == Cardinality(T)
<1>1. \A s \in D : s # {} => /\ pick(s) \in s /\ s \ {pick(s)} \in D
                             /\ Cardinality(s) \in Nat /\ Cardinality(s \ {pick(s)}) < Cardinality(s)
  <2>1. ASSUME NEW s \in D, s # {}
        PROVE  /\ pick(s) \in s /\ s \ {pick(s)} \in D
               /\ Cardinality(s) \in Nat /\ Cardinality(s \ {pick(s)}) < Cardinality(s)
    <3>1. pick(s) \in s
      BY <2>1
    <3>2. IsFiniteSet(s)
      BY FS_Subset
    <3> HIDE DEF pick
    <3>3. s \ {pick(s)} \in SUBSET s /\ s \ {pick(s)} # s
      BY <3>1
    <3>4. Cardinality(s) \in Nat /\ Cardinality(s \ {pick(s)}) < Cardinality(s)
      BY <3>2, <3>3, ProperPart
    <3> QED
      BY <3>1, <3>4
  <2> QED
    BY <2>1
<1> HIDE DEF pick
<1>2. IsBody(B, D, Int)
  <2>1. ASSUME NEW g \in [D -> Int], NEW s \in D PROVE body(g, s) \in Int
    <3>1. s # {} => F[pick(s)] \in Int /\ g[s \ {pick(s)}] \in Int
      BY <1>1
    <3> QED
      BY <3>1
  <2> QED
    BY <2>1 DEF IsBody
<1>3. N \in Nat /\ rank \in [D -> 0 .. N]
  <2>1. \A s \in D : Cardinality(s) \in Nat /\ Cardinality(s) <= N
    BY FS_Subset, FS_CardinalityType
  <2>2. N \in Nat
    BY FS_CardinalityType
  <2> QED
    BY <2>1, <2>2
<1>4. ReadsLower(B, D, Int, rank)
  <2>1. ASSUME NEW g \in [D -> Int], NEW h \in [D -> Int], NEW s \in D,
               \A y \in D : rank[y] < rank[s] => g[y] = h[y]
        PROVE  body(g, s) = body(h, s)
    <3>1. s # {} => g[s \ {pick(s)}] = h[s \ {pick(s)}]
      BY <1>1, <2>1
    <3> QED
      BY <3>1
  <2>2. \A g \in [D -> Int] : \A s \in D : B[g][s] = body(g, s)
    OBVIOUS
  <2> HIDE DEF B, body, D, rank
  <2> QED
    BY <2>1, <2>2 DEF ReadsLower
<1>5. PICK g \in [D -> Int] : B[g] = g
  <2> HIDE DEF B, D, rank, N
  <2>1. \E g : IsSolution(g, B, D, Int)
    BY <1>2, <1>3, <1>4, RecursionSolved
  <2> QED
    BY <2>1 DEF IsSolution
<1>6. g = [s \in D |-> body(g, s)]
  <2>1. B[g] = [s \in D |-> body(g, s)]
    OBVIOUS
  <2> QED
    BY <1>5, <2>1
<1> DEFINE iter == CHOOSE i : i = [s \in D |-> body(i, s)]
<1>7. iter = [s \in D |-> body(iter, s)]
  BY <1>6
<1>8. Sum(F) = iter[T]
  <2>1. DOMAIN F = T
    OBVIOUS
  <2> QED
    BY <2>1 DEF Sum, MapThenSumSet, MapThenFoldSet, pick
<1>9. ASSUME NEW s \in D, iter[s] \notin Int PROVE FALSE
  <2> DEFINE Bad == {t \in D : iter[t] \notin Int}
  <2>1. PICK t \in Bad : \A u \in Bad : ~(u \subseteq t /\ u # t)
    <3>1. Bad # {} /\ \A t \in Bad : IsFiniteSet(t)
      BY <1>9, FS_Subset
    <3> HIDE DEF Bad
    <3> QED
      BY <3>1, SmallestSet
  <2> HIDE DEF iter
  <2>2. t \in D /\ iter[t] \notin Int
    BY <2>1
  <2>6. iter[t] = body(iter, t)
    BY <1>7, <2>2
  <2>7. t # {}
    BY <2>2, <2>6
  <2>3. pick(t) \in t /\ t \ {pick(t)} \in D
    BY <1>1, <2>2, <2>7
  <2>4. iter[t \ {pick(t)}] \in Int
    BY <2>1, <2>3
  <2>5. F[pick(t)] \in Int
    BY <2>1, <2>3
  <2> QED
    BY <2>2, <2>4, <2>5, <2>6, <2>7
<1> HIDE DEF iter
<1>10. iter \in [SUBSET T -> Int] /\ iter[{}] = 0
  BY <1>7, <1>9
<1>11. \A s \in SUBSET T : s # {} => iter[s] = F[pick(s)] + iter[s \ {pick(s)}]
  BY <1>7
<1> QED
  BY <1>8, <1>10, <1>11 DEF Unrolls, pick

Takes(x, s, T) ==
  /\ s \ {x} \in SUBSET T /\ s \ {x} \subseteq s /\ s \ {x} # s
  /\ \A F, g : Unrolls(g, F, T) => g[s] = F[x] + g[s \ {x}]

(* What the fold takes out of a set is one of its elements.                *)
LEMMA UnrollStep ==
  ASSUME NEW T, IsFiniteSet(T), NEW s \in SUBSET T, s # {}
  PROVE  \E x \in s : Takes(x, s, T)
<1> DEFINE x == CHOOSE y \in s : TRUE
<1>1. x \in s
  OBVIOUS
<1>2. ASSUME NEW F, NEW g, Unrolls(g, F, T) PROVE g[s] = F[x] + g[s \ {x}]
  BY <1>2 DEF Unrolls
<1> HIDE DEF x
<1> QED
  BY <1>1, <1>2 DEF Takes

(* Sums add up and are monotone.                                           *)
LEMMA SumInt ==
  ASSUME NEW T, IsFiniteSet(T), NEW F \in [T -> Int] PROVE Sum(F) \in Int
<1>1. PICK g : Unrolls(g, F, T)
  BY SumUnrolled
<1> QED
  BY <1>1 DEF Unrolls

(* The sum of a sum of functions.                                          *)
LEMMA SumPlus ==
  ASSUME NEW T, IsFiniteSet(T), NEW F \in [T -> Int], NEW G \in [T -> Int], NEW H \in [T -> Int],
         \A t \in T : H[t] = F[t] + G[t]
  PROVE  Sum(H) = Sum(F) + Sum(G)
<1>1. PICK f : Unrolls(f, F, T)
  BY SumUnrolled
<1>2. PICK g : Unrolls(g, G, T)
  BY SumUnrolled
<1>3. PICK h : Unrolls(h, H, T)
  BY SumUnrolled
<1> DEFINE Bad == {s \in SUBSET T : h[s] # f[s] + g[s]}
<1>4. ASSUME Bad # {} PROVE FALSE
  <2>1. PICK s \in Bad : \A u \in Bad : ~(u \subseteq s /\ u # s)
    <3>1. \A s \in Bad : IsFiniteSet(s)
      BY FS_Subset
    <3> HIDE DEF Bad
    <3> QED
      BY <1>4, <3>1, SmallestSet
  <2>2. s \in SUBSET T /\ h[s] # f[s] + g[s]
    BY <2>1
  <2>3. s # {}
    <3>1. f[{}] = 0 /\ g[{}] = 0 /\ h[{}] = 0
      BY <1>1, <1>2, <1>3 DEF Unrolls
    <3>2. h[{}] = f[{}] + g[{}]
      BY <3>1
    <3> QED
      BY <2>2, <3>2
  <2>4. PICK x \in s : /\ s \ {x} \in SUBSET T /\ s \ {x} \subseteq s /\ s \ {x} # s
                       /\ f[s] = F[x] + f[s \ {x}] /\ g[s] = G[x] + g[s \ {x}]
                       /\ h[s] = H[x] + h[s \ {x}]
    <3>1. PICK x \in s : Takes(x, s, T)
      BY <2>2, <2>3, UnrollStep
    <3> QED
      BY <1>1, <1>2, <1>3, <3>1 DEF Takes
  <2>5. h[s \ {x}] = f[s \ {x}] + g[s \ {x}]
    BY <2>1, <2>4
  <2>6. /\ f[s \ {x}] \in Int /\ g[s \ {x}] \in Int /\ F[x] \in Int /\ G[x] \in Int
        /\ H[x] = F[x] + G[x]
    BY <1>1, <1>2, <2>2, <2>4 DEF Unrolls
  <2> QED
    BY <2>2, <2>4, <2>5, <2>6
<1> QED
  BY <1>1, <1>2, <1>3, <1>4 DEF Unrolls

(* A function that is nowhere greater has no greater sum.                  *)
LEMMA SumMonotone ==
  ASSUME NEW T, IsFiniteSet(T), NEW F \in [T -> Int], NEW G \in [T -> Int],
         \A t \in T : F[t] <= G[t]
  PROVE  Sum(F) <= Sum(G)
<1>1. PICK f : Unrolls(f, F, T)
  BY SumUnrolled
<1>2. PICK g : Unrolls(g, G, T)
  BY SumUnrolled
<1> DEFINE Bad == {s \in SUBSET T : ~(f[s] <= g[s])}
<1>4. ASSUME Bad # {} PROVE FALSE
  <2>1. PICK s \in Bad : \A u \in Bad : ~(u \subseteq s /\ u # s)
    <3>1. \A s \in Bad : IsFiniteSet(s)
      BY FS_Subset
    <3> HIDE DEF Bad
    <3> QED
      BY <1>4, <3>1, SmallestSet
  <2>2. s \in SUBSET T /\ ~(f[s] <= g[s])
    BY <2>1
  <2>3. s # {}
    <3>1. f[{}] = 0 /\ g[{}] = 0
      BY <1>1, <1>2 DEF Unrolls
    <3> QED
      BY <2>2, <3>1
  <2>4. PICK x \in s : /\ s \ {x} \in SUBSET T /\ s \ {x} \subseteq s /\ s \ {x} # s
                       /\ f[s] = F[x] + f[s \ {x}] /\ g[s] = G[x] + g[s \ {x}]
    <3>1. PICK x \in s : Takes(x, s, T)
      BY <2>2, <2>3, UnrollStep
    <3> QED
      BY <1>1, <1>2, <3>1 DEF Takes
  <2>5. f[s \ {x}] <= g[s \ {x}]
    BY <2>1, <2>4
  <2>6. /\ f[s \ {x}] \in Int /\ g[s \ {x}] \in Int /\ F[x] \in Int /\ G[x] \in Int
        /\ F[x] <= G[x]
    BY <1>1, <1>2, <2>2, <2>4 DEF Unrolls
  <2> QED
    BY <2>2, <2>4, <2>5, <2>6
<1> QED
  BY <1>1, <1>2, <1>4 DEF Unrolls

-----------------------------------------------------------------------------
(* Weigh is additive in the rows and in the weights, and monotone.         *)

Weight == [Targets -> Int]

(* The number of rows of a class is a natural number.                      *)
LEMMA CountNat ==
  ASSUME NEW label, NEW S, IsFiniteSet(S), NEW t PROVE Count(label, S, t) \in Nat
BY FS_Subset, FS_CardinalityType DEF Count

(* It adds up over two sets with no row in common.                         *)
LEMMA CountPlus ==
  ASSUME NEW label, NEW A, NEW B, IsFiniteSet(A), IsFiniteSet(B), A \cap B = {}, NEW t
  PROVE  Count(label, A \cup B, t) = Count(label, A, t) + Count(label, B, t)
<1> DEFINE part(S) == {r \in S : label[r] = t}
<1>1. IsFiniteSet(part(A)) /\ IsFiniteSet(part(B))
  BY FS_Subset
<1>2. part(A \cup B) = part(A) \cup part(B) /\ part(A) \cap part(B) = {}
  OBVIOUS
<1> HIDE DEF part
<1>3. /\ Cardinality(part(A) \cup part(B)) = Cardinality(part(A)) + Cardinality(part(B)) - Cardinality({})
      /\ Cardinality(part(A)) \in Nat /\ Cardinality(part(B)) \in Nat
  BY <1>1, <1>2, FS_Union, FS_CardinalityType
<1>4. Cardinality(part(A \cup B)) = Cardinality(part(A)) + Cardinality(part(B))
  <2>1. Cardinality({}) = 0
    BY FS_EmptySet
  <2>2. \A a, b \in Nat : a + b - 0 = a + b
    OBVIOUS
  <2> QED
    BY <1>2, <1>3, <2>1, <2>2
<1> QED
  BY <1>4 DEF Count, part

(* The weight of finitely many rows is an integer.                         *)
LEMMA WeighInt ==
  ASSUME NEW w \in Weight, NEW label, NEW S, IsFiniteSet(S)
  PROVE  /\ Weigh(w, label, S) \in Int
         /\ [t \in Targets |-> w[t] * Count(label, S, t)] \in [Targets -> Int]
<1>1. ASSUME NEW t \in Targets PROVE w[t] * Count(label, S, t) \in Int
  BY CountNat DEF Weight
<1>2. [t \in Targets |-> w[t] * Count(label, S, t)] \in [Targets -> Int]
  BY <1>1
<1> QED
  BY <1>2, SumInt, TargetsAssumption DEF Weigh

(* It adds up over two sets with no row in common.                         *)
LEMMA WeighRows ==
  ASSUME NEW w \in Weight, NEW label, NEW A, NEW B, IsFiniteSet(A), IsFiniteSet(B), A \cap B = {}
  PROVE  Weigh(w, label, A \cup B) = Weigh(w, label, A) + Weigh(w, label, B)
<1> DEFINE F(S) == [t \in Targets |-> w[t] * Count(label, S, t)]
<1>1. IsFiniteSet(A \cup B)
  BY FS_Union
<1>2. F(A) \in [Targets -> Int] /\ F(B) \in [Targets -> Int] /\ F(A \cup B) \in [Targets -> Int]
  BY <1>1, WeighInt
<1>3. ASSUME NEW t \in Targets PROVE F(A \cup B)[t] = F(A)[t] + F(B)[t]
  <2>1. Count(label, A \cup B, t) = Count(label, A, t) + Count(label, B, t)
    BY CountPlus
  <2>2. Count(label, A, t) \in Int /\ Count(label, B, t) \in Int /\ w[t] \in Int
    BY CountNat DEF Weight
  <2> QED
    BY <2>1, <2>2
<1> DEFINE X == F(A)
           Y == F(B)
           Z == F(A \cup B)
<1> HIDE DEF F, X, Y, Z
<1>4. Sum(Z) = Sum(X) + Sum(Y)
  <2>1. IsFiniteSet(Targets) /\ X \in [Targets -> Int] /\ Y \in [Targets -> Int] /\ Z \in [Targets -> Int]
    BY <1>2, TargetsAssumption DEF X, Y, Z
  <2>2. \A t \in Targets : Z[t] = X[t] + Y[t]
    BY <1>3 DEF X, Y, Z
  <2> QED
    BY <2>1, <2>2, SumPlus
<1> QED
  BY <1>4 DEF Weigh, F, X, Y, Z

(* And over two weights.                                                   *)
LEMMA WeighWeights ==
  ASSUME NEW u \in Weight, NEW v \in Weight, NEW w \in Weight, \A t \in Targets : w[t] = u[t] + v[t],
         NEW label, NEW S, IsFiniteSet(S)
  PROVE  Weigh(w, label, S) = Weigh(u, label, S) + Weigh(v, label, S)
<1> DEFINE F(x) == [t \in Targets |-> x[t] * Count(label, S, t)]
<1>1. F(u) \in [Targets -> Int] /\ F(v) \in [Targets -> Int] /\ F(w) \in [Targets -> Int]
  BY WeighInt
<1>2. ASSUME NEW t \in Targets PROVE F(w)[t] = F(u)[t] + F(v)[t]
  <2>1. Count(label, S, t) \in Int /\ u[t] \in Int /\ v[t] \in Int /\ w[t] = u[t] + v[t]
    BY CountNat DEF Weight
  <2> QED
    BY <2>1
<1> DEFINE X == F(u)
           Y == F(v)
           Z == F(w)
<1> HIDE DEF F, X, Y, Z
<1>3. Sum(Z) = Sum(X) + Sum(Y)
  <2>1. IsFiniteSet(Targets) /\ X \in [Targets -> Int] /\ Y \in [Targets -> Int] /\ Z \in [Targets -> Int]
    BY <1>1, TargetsAssumption DEF X, Y, Z
  <2>2. \A t \in Targets : Z[t] = X[t] + Y[t]
    BY <1>2 DEF X, Y, Z
  <2> QED
    BY <2>1, <2>2, SumPlus
<1> QED
  BY <1>3 DEF Weigh, F, X, Y, Z

(* Weights that are no greater on the classes that occur weigh no more.    *)
LEMMA WeighMonotoneOn ==
  ASSUME NEW u \in Weight, NEW v \in Weight, NEW label, NEW S, IsFiniteSet(S),
         \A t \in Targets : (\E r \in S : label[r] = t) => u[t] <= v[t]
  PROVE  Weigh(u, label, S) <= Weigh(v, label, S)
<1> DEFINE F(x) == [t \in Targets |-> x[t] * Count(label, S, t)]
<1>1. F(u) \in [Targets -> Int] /\ F(v) \in [Targets -> Int]
  BY WeighInt
<1>2. ASSUME NEW t \in Targets PROVE F(u)[t] <= F(v)[t]
  <2>1. Count(label, S, t) \in Nat /\ u[t] \in Int /\ v[t] \in Int
    BY CountNat DEF Weight
  <2>2. CASE \E r \in S : label[r] = t
    <3>1. v[t] - u[t] \in Nat
      BY <2>1, <2>2
    <3>2. (v[t] - u[t]) * Count(label, S, t) \in Nat
      BY <2>1, <3>1, Products
    <3> QED
      BY <2>1, <3>1, <3>2
  <2>3. CASE ~\E r \in S : label[r] = t
    <3>1. Count(label, S, t) = 0
      <4>1. {r \in S : label[r] = t} = {}
        BY <2>3
      <4> QED
        BY <4>1, FS_EmptySet DEF Count
    <3> QED
      BY <2>1, <3>1
  <2> QED
    BY <2>2, <2>3
<1> HIDE DEF F
<1>3. Sum(F(u)) <= Sum(F(v))
  BY <1>1, <1>2, SumMonotone, TargetsAssumption
<1> QED
  BY <1>3 DEF Weigh, F

(* In particular those that are nowhere greater.                           *)
LEMMA WeighMonotone ==
  ASSUME NEW u \in Weight, NEW v \in Weight, \A t \in Targets : u[t] <= v[t],
         NEW label, NEW S, IsFiniteSet(S)
  PROVE  Weigh(u, label, S) <= Weigh(v, label, S)
BY WeighMonotoneOn

(* No rows weigh nothing.                                                  *)
LEMMA WeighNothing ==
  ASSUME NEW w \in Weight, NEW label PROVE Weigh(w, label, {}) = 0
<1>1. IsFiniteSet({}) /\ {} \cap {} = {} /\ {} \cup {} = {}
  BY FS_EmptySet
<1>2. Weigh(w, label, {}) = Weigh(w, label, {}) + Weigh(w, label, {}) /\ Weigh(w, label, {}) \in Int
  BY <1>1, WeighRows, WeighInt
<1>3. \A x \in Int : x = x + x => x = 0
  OBVIOUS
<1> HIDE DEF Weigh
<1> QED
  BY <1>2, <1>3

(* Weights that are natural numbers weigh one.                             *)
LEMMA WeighNat ==
  ASSUME NEW w \in Weight, \A t \in Targets : 0 <= w[t], NEW label, NEW S, IsFiniteSet(S)
  PROVE  Weigh(w, label, S) \in Nat
<1> DEFINE z == [t \in Targets |-> 0]
<1>1. z \in Weight /\ (\A t \in Targets : z[t] = z[t] + z[t]) /\ \A t \in Targets : z[t] <= w[t]
  BY DEF Weight
<1> HIDE DEF z
<1>2. Weigh(z, label, S) = Weigh(z, label, S) + Weigh(z, label, S)
  BY <1>1, WeighWeights
<1>3. Weigh(z, label, S) <= Weigh(w, label, S)
  BY <1>1, WeighMonotone
<1> QED
  BY <1>1, <1>2, <1>3, WeighInt

-----------------------------------------------------------------------------
(* The costs of a dataset, by the class of the row.                        *)

LeastWeight(d) == [t \in Targets |-> Min({d.config.cost[p][t] : p \in Targets})]
DiffWeight(d) == [t \in Targets |-> DiffCost(d.config.cost, t)]
MatchWeight(d) == [t \in Targets |-> d.config.cost[t][t]]
MismatchWeight(d) == [t \in Targets |-> MismatchCost(d.config.cost, t)]

(* How construct_cost_matrices' vectors compare with the cost matrix,      *)
(* class by class.                                                         *)
LEMMA CostFacts ==
  ASSUME NEW d, IsDataset(d), NEW t \in Targets
  PROVE  LET cost == d.config.cost
         IN  /\ LeastWeight(d)[t] \in Nat /\ DiffWeight(d)[t] \in Nat
             /\ MatchWeight(d)[t] = cost[t][t]
             /\ \A p \in Targets : /\ cost[p][t] \in Nat
                                  /\ LeastWeight(d)[t] <= cost[p][t]
                                  /\ cost[p][t] <= LeastWeight(d)[t] + DiffWeight(d)[t]
             /\ \A p \in Targets : p # t => MismatchWeight(d)[t] <= cost[p][t]
             /\ \E p \in Targets : p # t /\ MismatchWeight(d)[t] = cost[p][t]
<1> DEFINE cost == d.config.cost
           column == [p \in Targets |-> cost[p][t]]
           all == {column[p] : p \in Targets}
           others == {column[p] : p \in Targets \ {t}}
<1>1. cost \in [Targets -> [Targets -> Nat]]
  BY DEF IsDataset, IsConfiguration
<1>2. \A p \in Targets : column[p] = cost[p][t] /\ column[p] \in Nat
  BY <1>1
<1>3. IsFiniteSet(Targets) /\ IsFiniteSet(Targets \ {t}) /\ \E p \in Targets : p # t
  BY TargetsAssumption, FS_Difference
<1>4. IsFiniteSet(all) /\ IsFiniteSet(others)
  <2> HIDE DEF column
  <2> QED
    BY <1>3, ImageFinite
<1>5. all \in SUBSET Int /\ others \in SUBSET Int /\ all # {} /\ others # {}
  BY <1>2, <1>3
<1>6. all = {cost[p][t] : p \in Targets} /\ others = {cost[p][t] : p \in Targets \ {t}}
  BY <1>2
<1>7. Min(all) \in all /\ \A y \in all : Min(all) <= y
  <2> HIDE DEF all
  <2> QED
    BY <1>4, <1>5, MinIs
<1>8. Max(all) \in all /\ \A y \in all : y <= Max(all)
  <2> HIDE DEF all
  <2> QED
    BY <1>4, <1>5, MaxIs
<1>9. Min(others) \in others /\ \A y \in others : Min(others) <= y
  <2> HIDE DEF others
  <2> QED
    BY <1>4, <1>5, MinIs
<1>10. /\ LeastWeight(d)[t] = Min(all) /\ DiffWeight(d)[t] = Max(all) - Min(all)
       /\ MismatchWeight(d)[t] = Min(others) /\ MatchWeight(d)[t] = cost[t][t]
  <2> HIDE DEF all, others
  <2> QED
    BY <1>6 DEF LeastWeight, DiffWeight, MismatchWeight, MatchWeight, DiffCost, MismatchCost, cost
<1>11. Min(all) \in Nat /\ Max(all) \in Nat /\ Min(all) <= Max(all)
  <2> DEFINE lo == Min(all)
             hi == Max(all)
  <2>1. lo \in all /\ hi \in all /\ \A y \in all : lo <= y
    BY <1>7, <1>8
  <2> HIDE DEF lo, hi
  <2>2. lo \in Nat /\ hi \in Nat
    BY <1>2, <2>1
  <2> QED
    BY <2>1, <2>2 DEF lo, hi
<1>12. \A p \in Targets : cost[p][t] \in Nat /\ Min(all) <= cost[p][t] /\ cost[p][t] <= Max(all)
  <2>1. \A p \in Targets : cost[p][t] \in all
    BY <1>2
  <2> HIDE DEF all
  <2> QED
    BY <1>2, <1>7, <1>8, <2>1
<1>13. /\ \A p \in Targets : p # t => Min(others) <= cost[p][t]
       /\ \E p \in Targets : p # t /\ Min(others) = cost[p][t]
  <2>1. \A p \in Targets : p # t => cost[p][t] \in others
    BY <1>2
  <2>2. \A y \in others : \E p \in Targets : p # t /\ y = cost[p][t]
    BY <1>2
  <2> HIDE DEF others
  <2> QED
    BY <1>9, <2>1, <2>2
<1> HIDE DEF all, others, column
<1>14. \A a, b \in Nat : a <= b => b - a \in Nat /\ a + (b - a) = b
  OBVIOUS
<1> QED
  BY <1>10, <1>11, <1>12, <1>13, <1>14

(* They are weights.                                                       *)
LEMMA WeightsAre ==
  ASSUME NEW d, IsDataset(d)
  PROVE  /\ LeastWeight(d) \in Weight /\ DiffWeight(d) \in Weight
         /\ MatchWeight(d) \in Weight /\ MismatchWeight(d) \in Weight
         /\ \A p \in Targets : d.config.cost[p] \in Weight
<1>1. ASSUME NEW t \in Targets
      PROVE  /\ LeastWeight(d)[t] \in Int /\ DiffWeight(d)[t] \in Int
             /\ MatchWeight(d)[t] \in Int /\ MismatchWeight(d)[t] \in Int
  BY CostFacts
<1>2. \A p \in Targets : d.config.cost[p] \in Weight
  <2>1. d.config.cost \in [Targets -> [Targets -> Nat]]
    BY DEF IsDataset, IsConfiguration
  <2>2. [Targets -> Nat] \subseteq [Targets -> Int]
    OBVIOUS
  <2> QED
    BY <2>1, <2>2 DEF Weight
<1> QED
  BY <1>1, <1>2 DEF Weight, LeastWeight, DiffWeight, MatchWeight, MismatchWeight

-----------------------------------------------------------------------------
(* The loss of some rows, as a function of the rows: the least the classes *)
(* leave possible, and what a worse prediction can add to that.            *)

Ideals(d) == [S \in SUBSET Rows(d) |-> Weigh(LeastWeight(d), d.label, S)]
Potentials(d) == [S \in SUBSET Rows(d) |-> Potential(d, S)]

Costs(d) == [SUBSET Rows(d) -> Int]

Additive(d, L) ==
  /\ L \in [SUBSET Rows(d) -> Int]
  /\ \A A, B \in SUBSET Rows(d) : A \cap B = {} => L[A \cup B] = L[A] + L[B]

(* L loses no more on A than on B but for what the rows they do not share  *)
(* make possible.                                                          *)
Gradual(d, L) ==
  /\ L \in [SUBSET Rows(d) -> Int]
  /\ \A A, B \in SUBSET Rows(d) :
       L[A] - Ideals(d)[A] <= L[B] - Ideals(d)[B] + Potentials(d)[A \ B]

(* A set of rows is finite.                                                *)
LEMMA RowsFinite ==
  ASSUME NEW d, IsDataset(d), NEW S \in SUBSET Rows(d) PROVE IsFiniteSet(S)
BY FS_Subset DEF IsDataset

(* The weight of a set of rows is additive.                                *)
LEMMA WeighAdditive ==
  ASSUME NEW d, IsDataset(d), NEW w \in Weight
  PROVE  Additive(d, [S \in SUBSET Rows(d) |-> Weigh(w, d.label, S)])
<1>1. \A S \in SUBSET Rows(d) : Weigh(w, d.label, S) \in Int
  BY WeighInt, RowsFinite
<1>2. ASSUME NEW A \in SUBSET Rows(d), NEW B \in SUBSET Rows(d), A \cap B = {}
      PROVE  Weigh(w, d.label, A \cup B) = Weigh(w, d.label, A) + Weigh(w, d.label, B)
  BY <1>2, WeighRows, RowsFinite
<1> QED
  BY <1>1, <1>2 DEF Additive

(* What the rows must cost and what they can cost more are additive, and   *)
(* nothing for no rows.                                                    *)
LEMMA IdealFacts ==
  ASSUME NEW d, IsDataset(d)
  PROVE  /\ Additive(d, Ideals(d)) /\ Additive(d, Potentials(d))
         /\ \A S \in SUBSET Rows(d) : Ideals(d)[S] \in Nat /\ Potentials(d)[S] \in Nat
         /\ Potentials(d)[{}] = 0 /\ Ideals(d)[{}] = 0
<1>1. LeastWeight(d) \in Weight /\ DiffWeight(d) \in Weight
  BY WeightsAre
<1>2. Ideals(d) = [S \in SUBSET Rows(d) |-> Weigh(LeastWeight(d), d.label, S)]
  BY DEF Ideals
<1>3. Potentials(d) = [S \in SUBSET Rows(d) |-> Weigh(DiffWeight(d), d.label, S)]
  BY DEF Potentials, Potential, DiffWeight
<1>4. Additive(d, Ideals(d)) /\ Additive(d, Potentials(d))
  BY <1>1, <1>2, <1>3, WeighAdditive
<1>5. ASSUME NEW S \in SUBSET Rows(d)
      PROVE  Weigh(LeastWeight(d), d.label, S) \in Nat /\ Weigh(DiffWeight(d), d.label, S) \in Nat
  <2>1. \A t \in Targets : 0 <= LeastWeight(d)[t] /\ 0 <= DiffWeight(d)[t]
    BY CostFacts
  <2> QED
    BY <1>1, <2>1, WeighNat, RowsFinite
<1>6. Weigh(LeastWeight(d), d.label, {}) = 0 /\ Weigh(DiffWeight(d), d.label, {}) = 0
  BY <1>1, WeighNothing
<1> QED
  BY <1>2, <1>3, <1>4, <1>5, <1>6

(* What is additive and within those two limits is gradual.                *)
LEMMA WithinIsGradual ==
  ASSUME NEW d, IsDataset(d), NEW L, Additive(d, L),
         \A S \in SUBSET Rows(d) : /\ Ideals(d)[S] <= L[S]
                                  /\ L[S] <= Ideals(d)[S] + Potentials(d)[S]
  PROVE  Gradual(d, L)
<1> DEFINE M == Ideals(d)
           P == Potentials(d)
<1>1. Additive(d, M) /\ Additive(d, P)
  BY IdealFacts
<1>2. ASSUME NEW A \in SUBSET Rows(d), NEW B \in SUBSET Rows(d)
      PROVE  L[A] - M[A] <= L[B] - M[B] + P[A \ B]
  <2> DEFINE I == A \cap B
             X == A \ B
             Y == B \ A
  <2>1. /\ I \in SUBSET Rows(d) /\ X \in SUBSET Rows(d) /\ Y \in SUBSET Rows(d)
        /\ A = I \cup X /\ I \cap X = {} /\ B = I \cup Y /\ I \cap Y = {}
    OBVIOUS
  <2> HIDE DEF I, X, Y, M, P
  <2>2. L[A] = L[I] + L[X] /\ L[B] = L[I] + L[Y] /\ M[A] = M[I] + M[X] /\ M[B] = M[I] + M[Y]
    BY <1>1, <2>1 DEF Additive
  <2>3. /\ L[I] \in Int /\ L[X] \in Int /\ L[Y] \in Int /\ M[I] \in Int /\ M[X] \in Int /\ M[Y] \in Int
        /\ P[X] \in Int
    BY <1>1, <2>1 DEF Additive
  <2>4. L[X] <= M[X] + P[X] /\ M[Y] <= L[Y]
    BY <2>1 DEF M, P
  <2>5. L[A] - M[A] <= L[B] - M[B] + P[X]
    BY <2>2, <2>3, <2>4
  <2> QED
    BY <2>5 DEF X
<1> QED
  BY <1>2 DEF Gradual, Additive

(* The loss of any one prediction, and of being right on some rows.        *)
LEMMA LossFacts ==
  ASSUME NEW d, IsDataset(d), NEW p \in Targets
  PROVE  LET L == [S \in SUBSET Rows(d) |-> Loss(d.config.cost, d.label, S, p)]
         IN  /\ Additive(d, L) /\ Gradual(d, L)
             /\ \A S \in SUBSET Rows(d) : /\ Ideals(d)[S] <= L[S]
                                         /\ L[S] <= Ideals(d)[S] + Potentials(d)[S]
<1> DEFINE L == [S \in SUBSET Rows(d) |-> Loss(d.config.cost, d.label, S, p)]
           w == d.config.cost[p]
           both == [t \in Targets |-> LeastWeight(d)[t] + DiffWeight(d)[t]]
<1>1. w \in Weight /\ LeastWeight(d) \in Weight /\ DiffWeight(d) \in Weight
  BY WeightsAre
<1>2. both \in Weight /\ \A t \in Targets : both[t] = LeastWeight(d)[t] + DiffWeight(d)[t]
  BY <1>1 DEF Weight
<1>3. \A t \in Targets : LeastWeight(d)[t] <= w[t] /\ w[t] <= both[t]
  BY <1>2, CostFacts
<1>4. L = [S \in SUBSET Rows(d) |-> Weigh(w, d.label, S)]
  BY DEF Loss
<1> HIDE DEF w, both, L
<1>5. Additive(d, L)
  BY <1>1, <1>4, WeighAdditive
<1>6. ASSUME NEW S \in SUBSET Rows(d)
      PROVE  Ideals(d)[S] <= L[S] /\ L[S] <= Ideals(d)[S] + Potentials(d)[S]
  <2>1. IsFiniteSet(S)
    BY RowsFinite
  <2>2. Weigh(LeastWeight(d), d.label, S) <= Weigh(w, d.label, S)
    BY <1>1, <1>3, <2>1, WeighMonotone
  <2>3. Weigh(w, d.label, S) <= Weigh(both, d.label, S)
    BY <1>1, <1>2, <1>3, <2>1, WeighMonotone
  <2>4. Weigh(both, d.label, S) = Weigh(LeastWeight(d), d.label, S) + Weigh(DiffWeight(d), d.label, S)
    BY <1>1, <1>2, <2>1, WeighWeights
  <2> QED
    BY <1>4, <2>2, <2>3, <2>4 DEF Ideals, Potentials, Potential, DiffWeight
<1>7. Gradual(d, L)
  BY <1>5, <1>6, WithinIsGradual
<1> QED
  BY <1>5, <1>6, <1>7 DEF L

(* Being right on the rows R costs between the least and the most the      *)
(* rows can cost.                                                          *)
LEMMA LossWithFacts ==
  ASSUME NEW d, IsDataset(d), NEW R
  PROVE  LET L == [S \in SUBSET Rows(d) |-> LossWith(d, S, R)]
         IN  /\ Additive(d, L) /\ Gradual(d, L)
             /\ \A S \in SUBSET Rows(d) : /\ Ideals(d)[S] <= L[S]
                                         /\ L[S] <= Ideals(d)[S] + Potentials(d)[S]
<1> DEFINE L == [S \in SUBSET Rows(d) |-> LossWith(d, S, R)]
           u == MatchWeight(d)
           v == MismatchWeight(d)
           U == [S \in SUBSET Rows(d) |-> Weigh(u, d.label, S)]
           V == [S \in SUBSET Rows(d) |-> Weigh(v, d.label, S)]
           both == [t \in Targets |-> LeastWeight(d)[t] + DiffWeight(d)[t]]
<1>1. u \in Weight /\ v \in Weight /\ LeastWeight(d) \in Weight /\ DiffWeight(d) \in Weight
  BY WeightsAre
<1>2. both \in Weight /\ \A t \in Targets : both[t] = LeastWeight(d)[t] + DiffWeight(d)[t]
  BY <1>1 DEF Weight
<1>3. \A t \in Targets : /\ LeastWeight(d)[t] <= u[t] /\ u[t] <= both[t]
                        /\ LeastWeight(d)[t] <= v[t] /\ v[t] <= both[t]
  BY <1>2, CostFacts
<1>4. Additive(d, U) /\ Additive(d, V)
  BY <1>1, WeighAdditive
<1>5. \A S \in SUBSET Rows(d) : L[S] = U[S \cap R] + V[S \ R]
  BY DEF LossWith, MatchWeight, MismatchWeight
<1>6. DOMAIN L = SUBSET Rows(d) /\ L = [S \in SUBSET Rows(d) |-> L[S]]
  OBVIOUS
<1>7. /\ \A S \in SUBSET Rows(d) : U[S] = Weigh(u, d.label, S) /\ V[S] = Weigh(v, d.label, S)
      /\ \A S \in SUBSET Rows(d) : Ideals(d)[S] = Weigh(LeastWeight(d), d.label, S)
      /\ \A S \in SUBSET Rows(d) : Potentials(d)[S] = Weigh(DiffWeight(d), d.label, S)
  BY DEF Ideals, Potentials, Potential, DiffWeight
<1> HIDE DEF u, v, both, L, U, V
<1>8. Additive(d, L)
  <2>1. ASSUME NEW S \in SUBSET Rows(d) PROVE L[S] \in Int
    <3>1. S \cap R \in SUBSET Rows(d) /\ S \ R \in SUBSET Rows(d)
      OBVIOUS
    <3>2. U[S \cap R] \in Int /\ V[S \ R] \in Int
      BY <1>4, <3>1 DEF Additive
    <3>3. L[S] = U[S \cap R] + V[S \ R]
      BY <1>5
    <3>4. \A a, b \in Int : a + b \in Int
      OBVIOUS
    <3> QED
      BY <3>2, <3>3, <3>4
  <2>2. ASSUME NEW A \in SUBSET Rows(d), NEW B \in SUBSET Rows(d), A \cap B = {}
        PROVE  L[A \cup B] = L[A] + L[B]
    <3>1. /\ A \cap R \in SUBSET Rows(d) /\ A \ R \in SUBSET Rows(d)
          /\ B \cap R \in SUBSET Rows(d) /\ B \ R \in SUBSET Rows(d)
          /\ (A \cap R) \cap (B \cap R) = {} /\ (A \ R) \cap (B \ R) = {}
          /\ (A \cup B) \cap R = (A \cap R) \cup (B \cap R)
          /\ (A \cup B) \ R = (A \ R) \cup (B \ R)
          /\ A \cup B \in SUBSET Rows(d)
      BY <2>2
    <3>2. /\ U[(A \cap R) \cup (B \cap R)] = U[A \cap R] + U[B \cap R]
          /\ V[(A \ R) \cup (B \ R)] = V[A \ R] + V[B \ R]
      BY <1>4, <3>1 DEF Additive
    <3>3. /\ U[A \cap R] \in Int /\ U[B \cap R] \in Int /\ V[A \ R] \in Int /\ V[B \ R] \in Int
      BY <1>4, <3>1 DEF Additive
    <3>4. /\ L[A \cup B] = U[(A \cap R) \cup (B \cap R)] + V[(A \ R) \cup (B \ R)]
          /\ L[A] = U[A \cap R] + V[A \ R] /\ L[B] = U[B \cap R] + V[B \ R]
      BY <1>5, <3>1
    <3> QED
      BY <3>2, <3>3, <3>4
  <2> QED
    BY <1>6, <2>1, <2>2 DEF Additive
<1>9. ASSUME NEW S \in SUBSET Rows(d)
      PROVE  Ideals(d)[S] <= L[S] /\ L[S] <= Ideals(d)[S] + Potentials(d)[S]
  <2> DEFINE A == S \cap R
             B == S \ R
             M == Ideals(d)
             P == Potentials(d)
  <2>1. A \in SUBSET Rows(d) /\ B \in SUBSET Rows(d) /\ A \cap B = {} /\ A \cup B = S
    OBVIOUS
  <2> HIDE DEF A, B
  <2>2. IsFiniteSet(A) /\ IsFiniteSet(B)
    BY <2>1, RowsFinite
  <2>3. M[A] <= U[A] /\ M[B] <= V[B]
    <3>1. Weigh(LeastWeight(d), d.label, A) <= Weigh(u, d.label, A)
      BY <1>1, <1>3, <2>2, WeighMonotone
    <3>2. Weigh(LeastWeight(d), d.label, B) <= Weigh(v, d.label, B)
      BY <1>1, <1>3, <2>2, WeighMonotone
    <3> QED
      BY <1>7, <2>1, <3>1, <3>2
  <2>4. U[A] <= M[A] + P[A] /\ V[B] <= M[B] + P[B]
    <3>1. Weigh(u, d.label, A) <= Weigh(both, d.label, A)
      BY <1>1, <1>2, <1>3, <2>2, WeighMonotone
    <3>2. Weigh(v, d.label, B) <= Weigh(both, d.label, B)
      BY <1>1, <1>2, <1>3, <2>2, WeighMonotone
    <3>3. Weigh(both, d.label, A) = Weigh(LeastWeight(d), d.label, A) + Weigh(DiffWeight(d), d.label, A)
      BY <1>1, <1>2, <2>2, WeighWeights
    <3>4. Weigh(both, d.label, B) = Weigh(LeastWeight(d), d.label, B) + Weigh(DiffWeight(d), d.label, B)
      BY <1>1, <1>2, <2>2, WeighWeights
    <3> QED
      BY <1>7, <2>1, <3>1, <3>2, <3>3, <3>4
  <2>5. L[S] = U[A] + V[B]
    BY <1>5 DEF A, B
  <2>6. M[S] = M[A] + M[B] /\ P[S] = P[A] + P[B]
    BY <2>1, IdealFacts DEF Additive
  <2>7. U[A] \in Int /\ V[B] \in Int
    BY <1>4, <2>1 DEF Additive
  <2>9. M[A] \in Nat /\ M[B] \in Nat /\ P[A] \in Nat /\ P[B] \in Nat
    BY <2>1, IdealFacts
  <2> HIDE DEF M, P
  <2>8. M[S] <= L[S] /\ L[S] <= M[S] + P[S]
    BY <2>3, <2>4, <2>5, <2>6, <2>7, <2>9
  <2> QED
    BY <2>8 DEF M, P
<1>10. Gradual(d, L)
  BY <1>8, <1>9, WithinIsGradual
<1> QED
  BY <1>8, <1>9, <1>10 DEF L

-----------------------------------------------------------------------------
(* MaxLoss is the loss of the best prediction.                             *)
LEMMA MaxLossIs ==
  ASSUME NEW d, IsDataset(d), NEW S \in SUBSET Rows(d)
  PROVE  /\ MaxLoss(d, S) \in Nat
         /\ \A p \in Targets : /\ Loss(d.config.cost, d.label, S, p) \in Nat
                              /\ MaxLoss(d, S) <= Loss(d.config.cost, d.label, S, p)
         /\ \E p \in Targets : MaxLoss(d, S) = Loss(d.config.cost, d.label, S, p)
<1> DEFINE loss == [p \in Targets |-> Loss(d.config.cost, d.label, S, p)]
           all == {loss[p] : p \in Targets}
<1>1. ASSUME NEW p \in Targets PROVE loss[p] \in Nat
  <2> DEFINE L == [U \in SUBSET Rows(d) |-> Loss(d.config.cost, d.label, U, p)]
  <2>1. Additive(d, L) /\ Ideals(d)[S] <= L[S]
    BY LossFacts
  <2>2. Ideals(d)[S] \in Nat
    BY IdealFacts
  <2>3. loss[p] = L[S]
    OBVIOUS
  <2> HIDE DEF L, loss
  <2>4. L[S] \in Int
    BY <2>1 DEF Additive
  <2> QED
    BY <2>1, <2>2, <2>3, <2>4
<1>2. all = {Loss(d.config.cost, d.label, S, p) : p \in Targets}
  OBVIOUS
<1>3. IsFiniteSet(all) /\ all \in SUBSET Nat /\ all # {}
  <2>1. Targets # {} /\ IsFiniteSet(Targets)
    BY TargetsAssumption
  <2> HIDE DEF loss
  <2> QED
    BY <1>1, <2>1, ImageFinite
<1>4. Min(all) \in all /\ \A y \in all : Min(all) <= y
  <2> HIDE DEF all
  <2>1. all \in SUBSET Int
    BY <1>3
  <2> QED
    BY <1>3, <2>1, MinIs
<1>5. MaxLoss(d, S) = Min(all)
  <2> HIDE DEF all
  <2> QED
    BY <1>2 DEF MaxLoss
<1>6. \A p \in Targets : loss[p] = Loss(d.config.cost, d.label, S, p) /\ loss[p] \in all
  OBVIOUS
<1>7. \A y \in all : \E p \in Targets : y = loss[p]
  OBVIOUS
<1> HIDE DEF loss, all
<1> QED
  BY <1>1, <1>3, <1>4, <1>5, <1>6, <1>7

(* A leaf costs at least what its rows must, and what rows taken away or   *)
(* added can change of it is bounded by what they can cost.                *)
LEMMA LeavesFacts ==
  ASSUME NEW d, IsDataset(d)
  PROVE  /\ Gradual(d, Leaves(d))
         /\ \A S \in SUBSET Rows(d) : /\ Leaves(d)[S] = Leaf(d, S) /\ Leaf(d, S) \in Nat
                                     /\ Ideals(d)[S] + d.config.regularization <= Leaf(d, S)
<1> DEFINE M == Ideals(d)
           P == Potentials(d)
           L(p) == [S \in SUBSET Rows(d) |-> Loss(d.config.cost, d.label, S, p)]
           reg == d.config.regularization
<1>1. reg \in Nat
  BY DEF IsDataset, IsConfiguration
<1>2. ASSUME NEW S \in SUBSET Rows(d)
      PROVE  /\ Leaves(d)[S] = Leaf(d, S) /\ Leaf(d, S) = MaxLoss(d, S) + reg
             /\ MaxLoss(d, S) \in Nat /\ M[S] <= MaxLoss(d, S)
  <2>1. PICK p \in Targets : MaxLoss(d, S) = L(p)[S]
    BY MaxLossIs
  <2>2. M[S] <= L(p)[S]
    BY LossFacts
  <2> QED
    BY <2>1, <2>2, MaxLossIs DEF Leaves, Leaf
<1>3. ASSUME NEW A \in SUBSET Rows(d), NEW B \in SUBSET Rows(d)
      PROVE  MaxLoss(d, A) - M[A] <= MaxLoss(d, B) - M[B] + P[A \ B]
  <2>1. PICK p \in Targets : MaxLoss(d, B) = L(p)[B]
    BY MaxLossIs
  <2>2. MaxLoss(d, A) <= L(p)[A]
    BY MaxLossIs
  <2>3. L(p)[A] - M[A] <= L(p)[B] - M[B] + P[A \ B]
    <3>1. Gradual(d, L(p))
      BY LossFacts
    <3> HIDE DEF L, M, P
    <3> QED
      BY <3>1 DEF Gradual, M, P
  <2>4. L(p)[A] \in Int /\ L(p)[B] \in Int
    <3>1. Additive(d, L(p))
      BY LossFacts
    <3> HIDE DEF L
    <3> QED
      BY <3>1 DEF Additive
  <2>5. A \ B \in SUBSET Rows(d)
    OBVIOUS
  <2>6. M[A] \in Nat /\ M[B] \in Nat /\ P[A \ B] \in Nat
    BY <2>5, IdealFacts
  <2>7. MaxLoss(d, A) \in Nat /\ MaxLoss(d, B) \in Nat
    BY MaxLossIs
  <2> HIDE DEF L, M, P
  <2> QED
    BY <2>1, <2>2, <2>3, <2>4, <2>6, <2>7
<1>4. \A S \in SUBSET Rows(d) : M[S] \in Nat /\ P[S] \in Nat
  BY IdealFacts
<1> HIDE DEF M, P, L, reg
<1>5. ASSUME NEW A \in SUBSET Rows(d), NEW B \in SUBSET Rows(d)
      PROVE  Leaves(d)[A] - M[A] <= Leaves(d)[B] - M[B] + P[A \ B]
  <2>1. A \ B \in SUBSET Rows(d)
    OBVIOUS
  <2>2. P[A \ B] \in Nat
    BY <1>4, <2>1
  <2>3. /\ Leaves(d)[A] = MaxLoss(d, A) + reg /\ Leaves(d)[B] = MaxLoss(d, B) + reg
        /\ MaxLoss(d, A) \in Nat /\ MaxLoss(d, B) \in Nat /\ M[A] \in Nat /\ M[B] \in Nat
    BY <1>2, <1>4
  <2>4. MaxLoss(d, A) - M[A] <= MaxLoss(d, B) - M[B] + P[A \ B]
    BY <1>3
  <2> QED
    BY <1>1, <2>2, <2>3, <2>4
<1>6. Leaves(d) \in [SUBSET Rows(d) -> Int]
  <2>1. Leaves(d) = [S \in SUBSET Rows(d) |-> Leaf(d, S)]
    BY DEF Leaves
  <2>2. \A S \in SUBSET Rows(d) : Leaf(d, S) \in Int
    BY <1>1, <1>2
  <2> QED
    BY <2>1, <2>2
<1>7. Gradual(d, Leaves(d))
  BY <1>5, <1>6 DEF Gradual, M, P
<1>8. ASSUME NEW S \in SUBSET Rows(d)
      PROVE  Leaves(d)[S] = Leaf(d, S) /\ Leaf(d, S) \in Nat /\ M[S] + reg <= Leaf(d, S)
  BY <1>1, <1>2, <1>4
<1> QED
  BY <1>7, <1>8 DEF M, reg

-----------------------------------------------------------------------------
(* No prediction beats being right on the majority, on rows that come with *)
(* all the rows that look the same.                                        *)

Twins(d, r) == {q \in Rows(d) : d.value[q] = d.value[r]}

TwinClosed(d, S) == \A r \in S : Twins(d, r) \subseteq S

(* The cheapest prediction for S costs MaxLoss.                            *)
LEMMA CheapestIs ==
  ASSUME NEW d, IsDataset(d), NEW S \in SUBSET Rows(d)
  PROVE  LET c == Cheapest(d.config.cost, d.label, S)
         IN  c \in Targets /\ Loss(d.config.cost, d.label, S, c) = MaxLoss(d, S)
<1> DEFINE loss(p) == Loss(d.config.cost, d.label, S, p)
           best == {p \in Targets : \A q \in Targets : loss(p) <= loss(q)}
<1>1. /\ \A p \in Targets : loss(p) \in Nat /\ MaxLoss(d, S) <= loss(p)
      /\ MaxLoss(d, S) \in Nat
  BY MaxLossIs
<1>2. PICK b \in Targets : MaxLoss(d, S) = loss(b)
  BY MaxLossIs
<1> HIDE DEF loss
<1>3. b \in best
  BY <1>1, <1>2
<1>4. best \in SUBSET Int /\ best # {} /\ IsFiniteSet(best)
  <2>1. best \in SUBSET Targets
    OBVIOUS
  <2> HIDE DEF best
  <2> QED
    BY <1>3, <2>1, TargetsAssumption, FS_Subset
<1>5. Min(best) \in best
  <2> HIDE DEF best
  <2> QED
    BY <1>4, MinIs
<1>6. Min(best) \in Targets /\ loss(Min(best)) <= loss(b)
  BY <1>5
<1>7. loss(Min(best)) = MaxLoss(d, S)
  <2>1. loss(Min(best)) \in Nat /\ MaxLoss(d, S) <= loss(Min(best))
    BY <1>1, <1>6
  <2> HIDE DEF best
  <2> QED
    BY <1>1, <1>2, <1>6, <2>1
<1>8. Cheapest(d.config.cost, d.label, S) = Min(best)
  BY DEF Cheapest, loss
<1> QED
  BY <1>6, <1>7, <1>8 DEF loss

(* Rows that cannot be told apart: being right on the majority rows        *)
(* among them costs no more than the best prediction.                      *)
LEMMA MajorityOfTwins ==
  ASSUME NEW d, IsDataset(d), NEW r \in Rows(d)
  PROVE  LossWith(d, Twins(d, r), d.majority) <= MaxLoss(d, Twins(d, r))
<1> DEFINE G == Twins(d, r)
           cost == d.config.cost
           c == Cheapest(cost, d.label, G)
           A == G \cap d.majority
           B == G \ d.majority
<1>1. G \in SUBSET Rows(d)
  BY DEF Twins
<1>2. c \in Targets /\ Loss(cost, d.label, G, c) = MaxLoss(d, G)
  BY <1>1, CheapestIs
<1>3. d.majority = {q \in Rows(d) : d.label[q] = Cheapest(cost, d.label, Twins(d, q))}
  BY DEF IsDataset, Majority, Twins, Rows
<1>4. \A q \in G : Twins(d, q) = G
  BY DEF Twins
<1>5. (\A q \in A : d.label[q] = c) /\ (\A q \in B : d.label[q] # c)
  BY <1>1, <1>3, <1>4
<1>6. /\ MatchWeight(d) \in Weight /\ MismatchWeight(d) \in Weight /\ cost[c] \in Weight
  BY <1>2, WeightsAre
<1>7. IsFiniteSet(A) /\ IsFiniteSet(B) /\ A \cap B = {} /\ A \cup B = G
  <2>1. A \in SUBSET Rows(d) /\ B \in SUBSET Rows(d)
    BY <1>1
  <2> QED
    BY <2>1, RowsFinite
<1>8. LossWith(d, G, d.majority) = Weigh(MatchWeight(d), d.label, A) + Weigh(MismatchWeight(d), d.label, B)
  BY DEF LossWith, MatchWeight, MismatchWeight
<1> HIDE DEF A, B, c, G
<1>9. Weigh(MatchWeight(d), d.label, A) <= Weigh(cost[c], d.label, A)
  <2>1. ASSUME NEW t \in Targets, NEW q \in A, d.label[q] = t PROVE MatchWeight(d)[t] <= cost[c][t]
    <3>1. t = c
      BY <1>5, <2>1
    <3>2. MatchWeight(d)[t] = cost[t][t] /\ cost[t][t] \in Nat
      BY CostFacts
    <3> QED
      BY <3>1, <3>2
  <2>2. \A t \in Targets : (\E q \in A : d.label[q] = t) => MatchWeight(d)[t] <= cost[c][t]
    BY <2>1
  <2> HIDE DEF cost
  <2> QED
    BY <1>6, <1>7, <2>2, WeighMonotoneOn
<1>10. Weigh(MismatchWeight(d), d.label, B) <= Weigh(cost[c], d.label, B)
  <2>1. ASSUME NEW t \in Targets, NEW q \in B, d.label[q] = t PROVE MismatchWeight(d)[t] <= cost[c][t]
    <3>1. t # c
      BY <1>5, <2>1
    <3> QED
      BY <1>2, <3>1, CostFacts
  <2>2. \A t \in Targets : (\E q \in B : d.label[q] = t) => MismatchWeight(d)[t] <= cost[c][t]
    BY <2>1
  <2> HIDE DEF cost
  <2> QED
    BY <1>6, <1>7, <2>2, WeighMonotoneOn
<1>11. Loss(cost, d.label, G, c) = Weigh(cost[c], d.label, A) + Weigh(cost[c], d.label, B)
  <2>1. Weigh(cost[c], d.label, A \cup B) = Weigh(cost[c], d.label, A) + Weigh(cost[c], d.label, B)
    BY <1>6, <1>7, WeighRows
  <2> QED
    BY <1>7, <2>1 DEF Loss
<1>12. /\ Weigh(MatchWeight(d), d.label, A) \in Int /\ Weigh(MismatchWeight(d), d.label, B) \in Int
       /\ Weigh(cost[c], d.label, A) \in Int /\ Weigh(cost[c], d.label, B) \in Int
  BY <1>6, <1>7, WeighInt
<1>13. LossWith(d, G, d.majority) <= MaxLoss(d, G)
  BY <1>2, <1>8, <1>9, <1>10, <1>11, <1>12
<1> QED
  BY <1>13 DEF G

(* The loss of the best prediction on two parts is no more than on both.   *)
LEMMA MaxLossParts ==
  ASSUME NEW d, IsDataset(d), NEW A \in SUBSET Rows(d), NEW B \in SUBSET Rows(d), A \cap B = {}
  PROVE  MaxLoss(d, A) + MaxLoss(d, B) <= MaxLoss(d, A \cup B)
<1>1. A \cup B \in SUBSET Rows(d)
  OBVIOUS
<1>2. PICK p \in Targets : MaxLoss(d, A \cup B) = Loss(d.config.cost, d.label, A \cup B, p)
  BY <1>1, MaxLossIs
<1> DEFINE L == [S \in SUBSET Rows(d) |-> Loss(d.config.cost, d.label, S, p)]
<1>3. Additive(d, L)
  BY LossFacts
<1>4. \A S \in SUBSET Rows(d) : L[S] = Loss(d.config.cost, d.label, S, p)
  OBVIOUS
<1> HIDE DEF L
<1>5. L[A \cup B] = L[A] + L[B] /\ L[A] \in Int /\ L[B] \in Int
  BY <1>3 DEF Additive
<1>6. MaxLoss(d, A) <= L[A] /\ MaxLoss(d, B) <= L[B] /\ MaxLoss(d, A) \in Nat /\ MaxLoss(d, B) \in Nat
  BY <1>4, MaxLossIs
<1> QED
  BY <1>1, <1>2, <1>4, <1>5, <1>6

(* So for rows with all their twins no tree, and no leaf, costs less       *)
(* than being right on the majority rows: Dataset's guaranteed_min_loss.   *)
LEMMA MajorityFloor ==
  ASSUME NEW d, IsDataset(d), NEW S \in SUBSET Rows(d), TwinClosed(d, S)
  PROVE  LossWith(d, S, d.majority) <= MaxLoss(d, S)
<1> DEFINE L == [U \in SUBSET Rows(d) |-> LossWith(d, U, d.majority)]
           Bad == {U \in SUBSET Rows(d) : TwinClosed(d, U) /\ ~(L[U] <= MaxLoss(d, U))}
<1>1. Additive(d, L) /\ \A U \in SUBSET Rows(d) : L[U] = LossWith(d, U, d.majority)
  BY LossWithFacts
<1> HIDE DEF L
<1>2. ASSUME Bad # {} PROVE FALSE
  <2>1. PICK U \in Bad : \A V \in Bad : ~(V \subseteq U /\ V # U)
    <3>1. \A V \in Bad : IsFiniteSet(V)
      BY RowsFinite
    <3> HIDE DEF Bad
    <3> QED
      BY <1>2, <3>1, SmallestSet
  <2>2. U \in SUBSET Rows(d) /\ TwinClosed(d, U) /\ ~(L[U] <= MaxLoss(d, U))
    BY <2>1
  <2>3. CASE U = {}
    <3>1. {} \in SUBSET Rows(d) /\ {} \cap {} = {} /\ {} \cup {} = {}
      OBVIOUS
    <3>2. L[{}] = L[{}] + L[{}] /\ L[{}] \in Int
      BY <1>1, <3>1 DEF Additive
    <3>3. MaxLoss(d, {}) \in Nat
      BY <3>1, MaxLossIs
    <3>4. L[{}] <= MaxLoss(d, {})
      BY <3>2, <3>3
    <3> QED
      BY <2>2, <2>3, <3>4
  <2>4. CASE U # {}
    <3>1. PICK r \in U : TRUE
      BY <2>4
    <3> DEFINE G == Twins(d, r)
               V == U \ G
    <3>2. r \in Rows(d) /\ G \in SUBSET Rows(d) /\ G \subseteq U /\ r \in G
      BY <2>2, <3>1 DEF Twins, TwinClosed
    <3>3. V \in SUBSET Rows(d) /\ V \subseteq U /\ V # U /\ G \cap V = {} /\ G \cup V = U
      BY <2>2, <3>2
    <3>4. TwinClosed(d, V)
      <4>1. ASSUME NEW q \in V, NEW x \in Twins(d, q) PROVE x \in V
        <5>1. x \in U
          BY <2>2, <4>1 DEF TwinClosed
        <5>2. x \notin G
          BY <2>2, <4>1 DEF Twins
        <5> QED
          BY <5>1, <5>2
      <4> QED
        BY <4>1 DEF TwinClosed
    <3>5. L[V] <= MaxLoss(d, V)
      BY <2>1, <3>3, <3>4
    <3>6. L[G] <= MaxLoss(d, G)
      BY <1>1, <3>2, MajorityOfTwins
    <3> HIDE DEF G, V
    <3>7. L[U] = L[G] + L[V] /\ L[G] \in Int /\ L[V] \in Int
      BY <1>1, <3>2, <3>3 DEF Additive
    <3>8. MaxLoss(d, G) + MaxLoss(d, V) <= MaxLoss(d, U)
      BY <3>2, <3>3, MaxLossParts
    <3>9. MaxLoss(d, G) \in Nat /\ MaxLoss(d, V) \in Nat /\ MaxLoss(d, U) \in Nat
      BY <2>2, <3>2, <3>3, MaxLossIs
    <3> QED
      BY <2>2, <3>5, <3>6, <3>7, <3>8, <3>9
  <2> QED
    BY <2>3, <2>4
<1>3. L[S] <= MaxLoss(d, S)
  BY <1>2
<1> QED
  BY <1>1, <1>3

(* No set of rows is costlier to predict than all the rows.                *)
LEMMA MaxLossGrows ==
  ASSUME NEW d, IsDataset(d), NEW S \in SUBSET Rows(d) PROVE MaxLoss(d, S) <= MaxLoss(d, Rows(d))
<1> DEFINE T == Rows(d) \ S
<1>1. T \in SUBSET Rows(d) /\ S \cap T = {} /\ S \cup T = Rows(d)
  OBVIOUS
<1> HIDE DEF T
<1>2. MaxLoss(d, S) + MaxLoss(d, T) <= MaxLoss(d, Rows(d))
  <2>1. MaxLoss(d, S) + MaxLoss(d, T) <= MaxLoss(d, S \cup T)
    BY <1>1, MaxLossParts
  <2> QED
    BY <1>1, <2>1
<1>3. MaxLoss(d, S) \in Nat /\ MaxLoss(d, T) \in Nat /\ MaxLoss(d, Rows(d)) \in Nat
  <2>1. Rows(d) \in SUBSET Rows(d)
    OBVIOUS
  <2> QED
    BY <1>1, <2>1, MaxLossIs
<1> QED
  BY <1>2, <1>3

-----------------------------------------------------------------------------
(* What the two sides of a split amount to: a is what their best objective *)
(* is, b what stopping there costs.                                        *)

Joined(list, a0, b0, a1, b1) == IF list THEN Min({a0 + b1, a1 + b0}) ELSE a0 + a1

(* Joined is the sum of the two sides, or in a rule list the better of     *)
(* stopping on one side.                                                   *)
LEMMA JoinedIs ==
  ASSUME NEW list, NEW a0 \in Int, NEW b0 \in Int, NEW a1 \in Int, NEW b1 \in Int
  PROVE  LET x == Joined(list, a0, b0, a1, b1)
         IN  /\ x \in Int
             /\ ~list => x = a0 + a1
             /\ list => x <= a0 + b1 /\ x <= a1 + b0 /\ (x = a0 + b1 \/ x = a1 + b0)
<1>1. a0 + b1 \in Int /\ a1 + b0 \in Int
  OBVIOUS
<1>2. Min({a0 + b1, a1 + b0}) = IF a0 + b1 <= a1 + b0 THEN a0 + b1 ELSE a1 + b0
  BY <1>1, MinOfTwo
<1> QED
  BY <1>1, <1>2 DEF Joined

(* It moves no further than its sides do.                                  *)
LEMMA JoinedMonotone ==
  ASSUME NEW list, NEW a0 \in Int, NEW b0 \in Int, NEW a1 \in Int, NEW b1 \in Int,
         NEW c0 \in Int, NEW d0 \in Int, NEW c1 \in Int, NEW d1 \in Int, NEW e0 \in Int, NEW e1 \in Int,
         a0 <= c0 + e0, b0 <= d0 + e0, a1 <= c1 + e1, b1 <= d1 + e1
  PROVE  Joined(list, a0, b0, a1, b1) <= Joined(list, c0, d0, c1, d1) + e0 + e1
<1> DEFINE x == Joined(list, a0, b0, a1, b1)
           y == Joined(list, c0, d0, c1, d1)
<1>1. /\ x \in Int
      /\ ~list => x = a0 + a1
      /\ list => x <= a0 + b1 /\ x <= a1 + b0
  BY JoinedIs
<1>2. /\ y \in Int
      /\ ~list => y = c0 + c1
      /\ list => y = c0 + d1 \/ y = c1 + d0
  BY JoinedIs
<1> HIDE DEF x, y
<1>3. x <= y + e0 + e1
  <2>1. CASE ~list
    BY <1>1, <1>2, <2>1
  <2>2. CASE list
    BY <1>1, <1>2, <2>2
  <2> QED
    BY <2>1, <2>2
<1> QED
  BY <1>3 DEF x, y

(* It does not depend on their order.                                      *)
LEMMA JoinedSwaps ==
  ASSUME NEW list, NEW a0 \in Int, NEW b0 \in Int, NEW a1 \in Int, NEW b1 \in Int
  PROVE  Joined(list, a0, b0, a1, b1) = Joined(list, a1, b1, a0, b0)
<1>1. {a0 + b1, a1 + b0} = {a1 + b0, a0 + b1} /\ a0 + a1 = a1 + a0
  OBVIOUS
<1> QED
  BY <1>1 DEF Joined

(* It is at least the sum of what each side is at least.                   *)
LEMMA JoinedAtLeast ==
  ASSUME NEW list, NEW a0 \in Int, NEW b0 \in Int, NEW a1 \in Int, NEW b1 \in Int,
         NEW x0 \in Int, NEW x1 \in Int, x0 <= a0, x0 <= b0, x1 <= a1, x1 <= b1
  PROVE  x0 + x1 <= Joined(list, a0, b0, a1, b1)
<1> DEFINE x == Joined(list, a0, b0, a1, b1)
<1>1. /\ x \in Int
      /\ ~list => x = a0 + a1
      /\ list => x = a0 + b1 \/ x = a1 + b0
  BY JoinedIs
<1> HIDE DEF x
<1>2. x0 + x1 <= x
  BY <1>1
<1> QED
  BY <1>2 DEF x

-----------------------------------------------------------------------------
(* Subproblems and the two sides of their splits.                          *)

Below(k) == IF k = 0 THEN 0 ELSE k - 1

(* What a subproblem is.                                                   *)
LEMMA KeyIs ==
  ASSUME NEW d, IsDataset(d), NEW S, NEW k
  PROVE  <<S, k>> \in Keys(d) <=>
           /\ S \in SUBSET Rows(d) /\ S # {}
           /\ IF d.config.depth_budget = 0 THEN k = 0 ELSE k \in 1 .. d.config.depth_budget
BY DEF Keys

(* A subproblem is a pair.                                                 *)
LEMMA KeyPair ==
  ASSUME NEW d, NEW key \in Keys(d) PROVE key = <<key[1], key[2]>>
BY DEF Keys

(* The sides of a split divide the rows.                                   *)
LEMMA Sides ==
  ASSUME NEW d, NEW S, NEW f
  PROVE  /\ \A p \in BOOLEAN : Subset(d, S, f, p) \in SUBSET S
         /\ Subset(d, S, f, FALSE) \cap Subset(d, S, f, TRUE) = {}
         /\ Subset(d, S, f, FALSE) \cup Subset(d, S, f, TRUE) = S
BY DEF Subset

(* The children of a subproblem are smaller ones, with less depth left.    *)
LEMMA ChildIs ==
  ASSUME NEW d, IsDataset(d), NEW S, NEW k, <<S, k>> \in Keys(d), NEW f \in Splittable(d, <<S, k>>),
         NEW p \in BOOLEAN
  PROVE  LET T == Subset(d, S, f, p)
         IN  /\ Child(d, <<S, k>>, f, p) = <<T, Below(k)>> /\ <<T, Below(k)>> \in Keys(d)
             /\ T \in SUBSET Rows(d) /\ T \subseteq S /\ T # S /\ T # {}
<1>1. d.config.depth_budget \in Nat
  BY DEF IsDataset, IsConfiguration
<1>2. S \in SUBSET Rows(d) /\ (IF d.config.depth_budget = 0 THEN k = 0 ELSE k \in 1 .. d.config.depth_budget)
  BY KeyIs
<1>3. /\ ~(d.config.depth_budget # 0 /\ k = 1)
      /\ Divides(d, S, f)
  BY DEF Splittable
<1>4. IF d.config.depth_budget = 0 THEN Below(k) = 0 ELSE Below(k) \in 1 .. d.config.depth_budget
  BY <1>1, <1>2, <1>3 DEF Below
<1>5. Subset(d, S, f, FALSE) # {} /\ Subset(d, S, f, TRUE) # {}
  BY <1>3 DEF Divides
<1>6. Subset(d, S, f, p) \in SUBSET S /\ Subset(d, S, f, p) # S /\ Subset(d, S, f, p) # {}
  BY <1>5, Sides
<1>7. Child(d, <<S, k>>, f, p) = <<Subset(d, S, f, p), Below(k)>>
  BY DEF Child, Below
<1> QED
  BY <1>2, <1>4, <1>6, <1>7, KeyIs

(* The best objective of a split is Joined of its sides.                   *)
LEMMA SplitJoins ==
  ASSUME NEW d, NEW K, NEW v, NEW S, NEW k, NEW f
  PROVE  SplitLeast(d, K, v, <<S, k>>, f) =
           Joined(d.config.rule_list,
                  v[<<Subset(d, S, f, FALSE), Below(k)>>], K[Subset(d, S, f, FALSE)],
                  v[<<Subset(d, S, f, TRUE), Below(k)>>], K[Subset(d, S, f, TRUE)])
<1> DEFINE c(p) == <<Subset(d, S, f, p), Below(k)>>
<1>1. \A p \in BOOLEAN : Child(d, <<S, k>>, f, p) = c(p) /\ c(p)[1] = Subset(d, S, f, p)
  BY DEF Child, Below
<1> HIDE DEF c
<1>2. {v[Child(d, <<S, k>>, f, p)] + K[Child(d, <<S, k>>, f, ~p)[1]] : p \in BOOLEAN}
        = {v[c(FALSE)] + K[Subset(d, S, f, TRUE)], v[c(TRUE)] + K[Subset(d, S, f, FALSE)]}
  BY <1>1
<1> QED
  BY <1>1, <1>2 DEF SplitLeast, Joined, c

-----------------------------------------------------------------------------
(* The best objective of every subproblem, when a leaf over S adds L[S].   *)

IsValue(d, L, v) ==
  /\ IsLeast(d, L, v) /\ Gradual(d, L)
  /\ \A S \in SUBSET Rows(d) : Leaf(d, S) <= L[S]

(* A leaf of a value costs at least what its rows must, and the            *)
(* regularization.                                                         *)
LEMMA LeafAtLeast ==
  ASSUME NEW d, IsDataset(d), NEW L, NEW v, IsValue(d, L, v), NEW S \in SUBSET Rows(d)
  PROVE  /\ L[S] \in Int /\ Leaf(d, S) <= L[S] /\ Leaf(d, S) \in Nat
         /\ Ideals(d)[S] \in Nat /\ Potentials(d)[S] \in Nat /\ d.config.regularization \in Nat
         /\ Ideals(d)[S] + d.config.regularization <= L[S]
<1>1. L[S] \in Int /\ Leaf(d, S) <= L[S]
  BY DEF IsValue, Gradual
<1>2. Ideals(d)[S] + d.config.regularization <= Leaf(d, S) /\ Leaf(d, S) \in Nat
  BY LeavesFacts
<1>3. Ideals(d)[S] \in Nat /\ Potentials(d)[S] \in Nat
  BY IdealFacts
<1>4. d.config.regularization \in Nat
  BY DEF IsDataset, IsConfiguration
<1> QED
  BY <1>1, <1>2, <1>3, <1>4

(* The objective of a split in terms of its sides, for any leaf costs K.   *)
Joins(x, list, a0, b0, a1, b1) ==
  /\ x \in Int
  /\ ~list => x = a0 + a1
  /\ list => x <= a0 + b1 /\ x <= a1 + b0 /\ (x = a0 + b1 \/ x = a1 + b0)

(* The best objective of a split in terms of its sides' values.            *)
LEMMA SplitIs ==
  ASSUME NEW d, IsDataset(d), NEW K \in Costs(d), NEW v,
         NEW S, NEW k, <<S, k>> \in Keys(d), NEW f \in Splittable(d, <<S, k>>),
         \A p \in BOOLEAN : v[<<Subset(d, S, f, p), Below(k)>>] \in Int
  PROVE  Joins(SplitLeast(d, K, v, <<S, k>>, f), d.config.rule_list,
               v[<<Subset(d, S, f, FALSE), Below(k)>>], K[Subset(d, S, f, FALSE)],
               v[<<Subset(d, S, f, TRUE), Below(k)>>], K[Subset(d, S, f, TRUE)])
<1>1. Subset(d, S, f, FALSE) \in SUBSET Rows(d) /\ Subset(d, S, f, TRUE) \in SUBSET Rows(d)
  BY ChildIs
<1> DEFINE a0 == v[<<Subset(d, S, f, FALSE), Below(k)>>]
           b0 == K[Subset(d, S, f, FALSE)]
           a1 == v[<<Subset(d, S, f, TRUE), Below(k)>>]
           b1 == K[Subset(d, S, f, TRUE)]
           x == Joined(d.config.rule_list, a0, b0, a1, b1)
<1>4. a0 \in Int /\ b0 \in Int /\ a1 \in Int /\ b1 \in Int
  BY <1>1 DEF Costs
<1>5. SplitLeast(d, K, v, <<S, k>>, f) = x
  BY SplitJoins
<1> HIDE DEF a0, b0, a1, b1
<1>6. /\ x \in Int
      /\ ~d.config.rule_list => x = a0 + a1
      /\ d.config.rule_list => x <= a0 + b1 /\ x <= a1 + b0 /\ (x = a0 + b1 \/ x = a1 + b0)
  BY <1>4, JoinedIs
<1> HIDE DEF x
<1> QED
  BY <1>5, <1>6 DEF a0, b0, a1, b1, Joins

(* What the recursion says of one subproblem, if it does of the smaller    *)
(* ones.                                                                   *)
LEMMA ValueStep ==
  ASSUME NEW d, IsDataset(d), NEW L, NEW v, IsValue(d, L, v), NEW S, NEW k, <<S, k>> \in Keys(d),
         \A f \in Splittable(d, <<S, k>>) : SplitLeast(d, L, v, <<S, k>>, f) \in Int
  PROVE  /\ v[<<S, k>>] \in Int /\ v[<<S, k>>] <= L[S]
         /\ \A f \in Splittable(d, <<S, k>>) : v[<<S, k>>] <= SplitLeast(d, L, v, <<S, k>>, f)
         /\ \/ v[<<S, k>>] = L[S]
            \/ \E f \in Splittable(d, <<S, k>>) : v[<<S, k>>] = SplitLeast(d, L, v, <<S, k>>, f)
<1> DEFINE key == <<S, k>>
           F == Splittable(d, key)
           split == [f \in F |-> SplitLeast(d, L, v, key, f)]
           all == {L[S]} \cup {split[f] : f \in F}
<1>1. S \in SUBSET Rows(d)
  BY KeyIs
<1>2. IsFiniteSet(F)
  <2>1. F \subseteq d.features
    BY DEF Splittable
  <2>2. IsFiniteSet(d.features)
    BY DEF IsDataset
  <2> QED
    BY <2>1, <2>2, FS_Subset
<1>3. L[S] \in Int
  BY <1>1, LeafAtLeast
<1>4. \A f \in F : split[f] \in Int /\ split[f] = SplitLeast(d, L, v, key, f)
  OBVIOUS
<1>5. all = Objectives(d, L, v, key)
  BY DEF Objectives
<1> HIDE DEF split, F
<1>6. IsFiniteSet(all) /\ all \in SUBSET Int /\ all # {}
  <2>1. IsFiniteSet({split[f] : f \in F})
    BY <1>2, ImageFinite
  <2>2. IsFiniteSet({L[S]})
    BY FS_Singleton
  <2>3. IsFiniteSet({L[S]} \cup {split[f] : f \in F})
    BY <2>1, <2>2, FS_Union
  <2> QED
    BY <1>3, <1>4, <2>3
<1> HIDE DEF key
<1>7. v[key] = Min(all)
  BY <1>5 DEF IsValue, IsLeast, key
<1>8. L[S] \in all /\ (\A f \in F : split[f] \in all) /\ \A y \in all : y = L[S] \/ \E f \in F : y = split[f]
  OBVIOUS
<1> HIDE DEF all
<1>9. v[key] \in all /\ \A y \in all : v[key] <= y
  BY <1>6, <1>7, MinIs
<1> QED
  BY <1>4, <1>6, <1>8, <1>9 DEF key, F

(* A family of sets of rows has a smallest one.                            *)
LEMMA SmallestRows ==
  ASSUME NEW d, IsDataset(d), NEW F \in SUBSET SUBSET Rows(d), F # {}
  PROVE  \E S \in F : \A T \in F : ~(T \subseteq S /\ T # S)
<1>1. \A S \in F : IsFiniteSet(S)
  BY RowsFinite
<1> QED
  BY <1>1, SmallestSet

(* What is additive over the sides and a lower bound of both is one of     *)
(* the split, with two regularizations.                                    *)
LEMMA SplitAtLeast ==
  ASSUME NEW d, IsDataset(d), NEW K \in Costs(d), NEW v, NEW S, NEW k,
         <<S, k>> \in Keys(d), NEW f \in Splittable(d, <<S, k>>),
         NEW x \in Costs(d),
         x[S] = x[Subset(d, S, f, FALSE)] + x[Subset(d, S, f, TRUE)],
         NEW c \in Int,
         \A p \in BOOLEAN : /\ v[<<Subset(d, S, f, p), Below(k)>>] \in Int
                            /\ x[Subset(d, S, f, p)] + c <= v[<<Subset(d, S, f, p), Below(k)>>]
                            /\ x[Subset(d, S, f, p)] + c <= K[Subset(d, S, f, p)]
  PROVE  x[S] + 2 * c <= SplitLeast(d, K, v, <<S, k>>, f)
<1> DEFINE S0 == Subset(d, S, f, FALSE)
           S1 == Subset(d, S, f, TRUE)
           a0 == v[<<S0, Below(k)>>]
           a1 == v[<<S1, Below(k)>>]
           s == SplitLeast(d, K, v, <<S, k>>, f)
<1>1. S0 \in SUBSET Rows(d) /\ S1 \in SUBSET Rows(d)
  BY ChildIs
<1>2. /\ a0 \in Int /\ x[S0] + c <= a0 /\ x[S0] + c <= K[S0]
      /\ a1 \in Int /\ x[S1] + c <= a1 /\ x[S1] + c <= K[S1]
  OBVIOUS
<1>3. Joins(s, d.config.rule_list, a0, K[S0], a1, K[S1])
  <2>1. \A p \in BOOLEAN : v[<<Subset(d, S, f, p), Below(k)>>] \in Int
    OBVIOUS
  <2> HIDE DEF s
  <2> QED
    BY <2>1, SplitIs DEF s
<1> DEFINE x0 == x[S0]
           x1 == x[S1]
           b0 == K[S0]
           b1 == K[S1]
           all == x[S]
<1>4. x0 \in Int /\ x1 \in Int /\ b0 \in Int /\ b1 \in Int /\ all = x0 + x1
  BY <1>1 DEF Costs
<1>5. /\ a0 \in Int /\ x0 + c <= a0 /\ x0 + c <= b0
      /\ a1 \in Int /\ x1 + c <= a1 /\ x1 + c <= b1
      /\ Joins(s, d.config.rule_list, a0, b0, a1, b1)
  BY <1>2, <1>3
<1> HIDE DEF s, a0, a1, S0, S1, x0, x1, b0, b1, all
<1>6. all + 2 * c <= s
  <2>1. CASE ~d.config.rule_list
    BY <1>4, <1>5, <2>1 DEF Joins
  <2>2. CASE d.config.rule_list
    BY <1>4, <1>5, <2>2 DEF Joins
  <2> QED
    BY <2>1, <2>2
<1> QED
  BY <1>6 DEF s, all

(* X bounds what the rows cost from below, on a family C of capture sets   *)
(* that splits do not leave.                                               *)
SplitClosed(d, C) ==
  C \in SUBSET SUBSET Rows(d) /\ \A S \in C, f \in d.features, p \in BOOLEAN : Subset(d, S, f, p) \in C

Supports(d, X, L, C) ==
  Additive(d, X) /\ SplitClosed(d, C) /\ \A S \in C : X[S] + d.config.regularization <= L[S]

(* What supports the leaves supports every value, by induction over the    *)
(* sets of rows: with the regularization of one leaf, or of two under a    *)
(* split.                                                                  *)
LEMMA ValueAtLeast ==
  ASSUME NEW d, IsDataset(d), NEW L, NEW v, IsValue(d, L, v), NEW X, NEW C, Supports(d, X, L, C),
         NEW S \in C, NEW k, <<S, k>> \in Keys(d)
  PROVE  /\ v[<<S, k>>] \in Int
         /\ X[S] + d.config.regularization <= v[<<S, k>>]
         /\ \A f \in Splittable(d, <<S, k>>) :
              X[S] + 2 * d.config.regularization <= SplitLeast(d, L, v, <<S, k>>, f)
<1> DEFINE reg == d.config.regularization
           Good(T, j) == v[<<T, j>>] \in Int /\ X[T] + reg <= v[<<T, j>>]
           Bad == {T \in C : \E j : <<T, j>> \in Keys(d) /\ ~Good(T, j)}
<1>0. X \in Costs(d) /\ reg \in Nat /\ C \in SUBSET SUBSET Rows(d) /\ L \in Costs(d)
  BY DEF Supports, SplitClosed, Additive, Costs, IsDataset, IsConfiguration, IsValue, Gradual
<1>1. ASSUME NEW T \in C, NEW j, <<T, j>> \in Keys(d), NEW f \in Splittable(d, <<T, j>>),
             \A p \in BOOLEAN : Good(Subset(d, T, f, p), Below(j))
      PROVE  /\ SplitLeast(d, L, v, <<T, j>>, f) \in Int
             /\ X[T] + 2 * reg <= SplitLeast(d, L, v, <<T, j>>, f)
  <2>1. SplitLeast(d, L, v, <<T, j>>, f) \in Int
    BY <1>0, <1>1, SplitIs DEF Joins
  <2>2. reg \in Int
    BY <1>0
  <2>3. \A p \in BOOLEAN : Subset(d, T, f, p) \in C /\ Subset(d, T, f, p) \in SUBSET Rows(d)
    BY <1>0, <1>1 DEF Supports, SplitClosed, Splittable
  <2>4. X[T] = X[Subset(d, T, f, FALSE)] + X[Subset(d, T, f, TRUE)]
    BY <2>3, Sides DEF Supports, Additive
  <2>5. \A p \in BOOLEAN : X[Subset(d, T, f, p)] + reg <= L[Subset(d, T, f, p)]
    BY <2>3 DEF Supports
  <2>6. \A p \in BOOLEAN : /\ v[<<Subset(d, T, f, p), Below(j)>>] \in Int
                           /\ X[Subset(d, T, f, p)] + reg <= v[<<Subset(d, T, f, p), Below(j)>>]
    BY <1>1
  <2> HIDE DEF reg, Good, Bad
  <2>7. X[T] + 2 * reg <= SplitLeast(d, L, v, <<T, j>>, f)
    BY <1>0, <1>1, <2>2, <2>4, <2>5, <2>6, SplitAtLeast
  <2> QED
    BY <2>1, <2>7
<1>2. Bad = {}
  <2> SUFFICES ASSUME Bad # {} PROVE FALSE
    OBVIOUS
  <2>1. PICK T \in Bad : \A U \in Bad : ~(U \subseteq T /\ U # T)
    <3> HIDE DEF Good
    <3>1. Bad \in SUBSET SUBSET Rows(d)
      BY <1>0
    <3> HIDE DEF Bad
    <3> QED
      BY <3>1, SmallestRows
  <2>2. PICK j : T \in C /\ <<T, j>> \in Keys(d) /\ ~Good(T, j)
    BY <2>1
  <2>3. ASSUME NEW f \in Splittable(d, <<T, j>>)
        PROVE  /\ SplitLeast(d, L, v, <<T, j>>, f) \in Int
               /\ X[T] + 2 * reg <= SplitLeast(d, L, v, <<T, j>>, f)
    <3>1. \A p \in BOOLEAN : /\ Subset(d, T, f, p) \in C
                             /\ Subset(d, T, f, p) \subseteq T /\ Subset(d, T, f, p) # T
                             /\ <<Subset(d, T, f, p), Below(j)>> \in Keys(d)
      <4>1. \A p \in BOOLEAN : Subset(d, T, f, p) \in C
        BY <2>2, <2>3 DEF Supports, SplitClosed, Splittable
      <4> QED
        BY <2>2, <2>3, <4>1, ChildIs
    <3> HIDE DEF Good
    <3>2. \A p \in BOOLEAN : Good(Subset(d, T, f, p), Below(j))
      BY <2>1, <3>1
    <3> HIDE DEF reg, Bad
    <3> QED
      BY <1>1, <2>2, <2>3, <3>2
  <2>5. X[T] \in Int /\ L[T] \in Int /\ X[T] + reg <= L[T]
    BY <1>0, <2>2 DEF Supports, Costs
  <2>6. v[<<T, j>>] \in Int
    BY <2>2, <2>3, ValueStep
  <2>7. v[<<T, j>>] = L[T] \/ \E f \in Splittable(d, <<T, j>>) : v[<<T, j>>] = SplitLeast(d, L, v, <<T, j>>, f)
    BY <2>2, <2>3, ValueStep
  <2>8. CASE v[<<T, j>>] = L[T]
    BY <2>2, <2>5, <2>6, <2>8
  <2>9. CASE \E f \in Splittable(d, <<T, j>>) : v[<<T, j>>] = SplitLeast(d, L, v, <<T, j>>, f)
    <3>1. X[T] + 2 * reg <= v[<<T, j>>]
      BY <2>3, <2>9
    <3> HIDE DEF reg, Bad
    <3>2. X[T] + reg <= v[<<T, j>>]
      BY <1>0, <2>5, <2>6, <3>1
    <3> QED
      BY <2>2, <2>6, <3>2
  <2> QED
    BY <2>7, <2>8, <2>9
<1>3. \A T \in C : \A j : <<T, j>> \in Keys(d) => Good(T, j)
  BY <1>2
<1>4. ASSUME NEW f \in Splittable(d, <<S, k>>)
      PROVE  X[S] + 2 * reg <= SplitLeast(d, L, v, <<S, k>>, f)
  <2>1. \A p \in BOOLEAN : <<Subset(d, S, f, p), Below(k)>> \in Keys(d) /\ Subset(d, S, f, p) \in C
    <3>1. \A p \in BOOLEAN : Subset(d, S, f, p) \in C
      BY <1>4 DEF Supports, SplitClosed, Splittable
    <3> QED
      BY <1>4, <3>1, ChildIs
  <2> HIDE DEF reg, Bad, Good
  <2> QED
    BY <1>1, <1>3, <1>4, <2>1
<1> QED
  BY <1>3, <1>4

(* A tree or list costs at least what the rows must, and one leaf; with a  *)
(* split, two leaves.                                                      *)
LEMMA ValueInt ==
  ASSUME NEW d, IsDataset(d), NEW L, NEW v, IsValue(d, L, v), NEW S, NEW k, <<S, k>> \in Keys(d)
  PROVE  /\ v[<<S, k>>] \in Int
         /\ Ideals(d)[S] + d.config.regularization <= v[<<S, k>>]
         /\ \A f \in Splittable(d, <<S, k>>) :
              Ideals(d)[S] + 2 * d.config.regularization <= SplitLeast(d, L, v, <<S, k>>, f)
<1>1. Supports(d, Ideals(d), L, SUBSET Rows(d))
  <2>1. SplitClosed(d, SUBSET Rows(d))
    BY Sides DEF SplitClosed
  <2> QED
    BY <2>1, IdealFacts, LeafAtLeast DEF Supports
<1>2. S \in SUBSET Rows(d)
  BY KeyIs
<1> QED
  BY <1>1, <1>2, ValueAtLeast

(* A value is that of the leaf or of its best split, and no more than      *)
(* either.                                                                 *)
LEMMA ValueIs ==
  ASSUME NEW d, IsDataset(d), NEW L, NEW v, IsValue(d, L, v), NEW S, NEW k, <<S, k>> \in Keys(d)
  PROVE  /\ v[<<S, k>>] \in Int /\ v[<<S, k>>] <= L[S]
         /\ \A f \in Splittable(d, <<S, k>>) : /\ SplitLeast(d, L, v, <<S, k>>, f) \in Int
                                              /\ v[<<S, k>>] <= SplitLeast(d, L, v, <<S, k>>, f)
         /\ \/ v[<<S, k>>] = L[S]
            \/ \E f \in Splittable(d, <<S, k>>) : v[<<S, k>>] = SplitLeast(d, L, v, <<S, k>>, f)
<1>1. ASSUME NEW f \in Splittable(d, <<S, k>>) PROVE SplitLeast(d, L, v, <<S, k>>, f) \in Int
  <2>1. \A p \in BOOLEAN : <<Subset(d, S, f, p), Below(k)>> \in Keys(d)
    BY <1>1, ChildIs
  <2>2. \A p \in BOOLEAN : v[<<Subset(d, S, f, p), Below(k)>>] \in Int
    BY <2>1, ValueInt
  <2>3. L \in Costs(d)
    BY DEF IsValue, Gradual, Costs
  <2> QED
    BY <1>1, <2>2, <2>3, SplitIs DEF Joins
<1> QED
  BY <1>1, ValueStep

(* Two splits compared side by side, in either orientation.                *)
AreSides(d, S, f, S0, S1) ==
  \/ S0 = Subset(d, S, f, FALSE) /\ S1 = Subset(d, S, f, TRUE)
  \/ S0 = Subset(d, S, f, TRUE) /\ S1 = Subset(d, S, f, FALSE)

(* The sides of a split, in either order, are subproblems.                 *)
LEMMA SidesAre ==
  ASSUME NEW d, IsDataset(d), NEW S, NEW k, <<S, k>> \in Keys(d), NEW f \in Splittable(d, <<S, k>>),
         NEW S0, NEW S1, AreSides(d, S, f, S0, S1)
  PROVE  /\ S0 \in SUBSET Rows(d) /\ S1 \in SUBSET Rows(d)
         /\ <<S0, Below(k)>> \in Keys(d) /\ <<S1, Below(k)>> \in Keys(d)
         /\ S0 \cap S1 = {} /\ S0 \cup S1 = S
<1>1. /\ Subset(d, S, f, FALSE) \in SUBSET Rows(d) /\ Subset(d, S, f, TRUE) \in SUBSET Rows(d)
      /\ <<Subset(d, S, f, FALSE), Below(k)>> \in Keys(d) /\ <<Subset(d, S, f, TRUE), Below(k)>> \in Keys(d)
  BY ChildIs
<1>2. Subset(d, S, f, FALSE) \cap Subset(d, S, f, TRUE) = {} /\ Subset(d, S, f, FALSE) \cup Subset(d, S, f, TRUE) = S
  BY Sides
<1> QED
  BY <1>1, <1>2 DEF AreSides

IsSplit(d, S, k, f, S0, S1) ==
  <<S, k>> \in Keys(d) /\ f \in Splittable(d, <<S, k>>) /\ AreSides(d, S, f, S0, S1)

(* The best objective of a split as Joined of its sides in either order.   *)
LEMMA SplitAs ==
  ASSUME NEW d, IsDataset(d), NEW K \in Costs(d), NEW v, NEW S, NEW k, NEW f,
         NEW S0, NEW S1, IsSplit(d, S, k, f, S0, S1),
         v[<<S0, Below(k)>>] \in Int, v[<<S1, Below(k)>>] \in Int
  PROVE  SplitLeast(d, K, v, <<S, k>>, f) =
           Joined(d.config.rule_list, v[<<S0, Below(k)>>], K[S0], v[<<S1, Below(k)>>], K[S1])
<1> USE DEF IsSplit
<1>1. CASE S0 = Subset(d, S, f, FALSE) /\ S1 = Subset(d, S, f, TRUE)
  BY <1>1, SplitJoins
<1>2. CASE S0 = Subset(d, S, f, TRUE) /\ S1 = Subset(d, S, f, FALSE)
  <2>1. SplitLeast(d, K, v, <<S, k>>, f) =
          Joined(d.config.rule_list, v[<<S1, Below(k)>>], K[S1], v[<<S0, Below(k)>>], K[S0])
    BY <1>2, SplitJoins
  <2>2. K[S0] \in Int /\ K[S1] \in Int
    BY SidesAre DEF Costs, IsSplit
  <2> DEFINE a0 == v[<<S0, Below(k)>>]
             a1 == v[<<S1, Below(k)>>]
             b0 == K[S0]
             b1 == K[S1]
  <2>3. a0 \in Int /\ a1 \in Int /\ b0 \in Int /\ b1 \in Int
    BY <2>2
  <2> HIDE DEF a0, a1, b0, b1
  <2>4. Joined(d.config.rule_list, a0, b0, a1, b1) = Joined(d.config.rule_list, a1, b1, a0, b0)
    BY <2>3, JoinedSwaps
  <2> QED
    BY <2>1, <2>4 DEF a0, a1, b0, b1
<1> QED
  BY <1>1, <1>2 DEF AreSides

(* Two splits differ by no more than their sides do.                       *)
LEMMA SplitsCompared ==
  ASSUME NEW d, IsDataset(d), NEW K \in Costs(d), NEW J \in Costs(d),
         NEW v, NEW w, NEW e0 \in Int, NEW e1 \in Int,
         NEW S, NEW k, <<S, k>> \in Keys(d), NEW f \in Splittable(d, <<S, k>>),
         NEW S0, NEW S1, AreSides(d, S, f, S0, S1),
         NEW T, NEW j, <<T, j>> \in Keys(d), NEW g \in Splittable(d, <<T, j>>),
         NEW T0, NEW T1, AreSides(d, T, g, T0, T1),
         v[<<S0, Below(k)>>] \in Int, v[<<S1, Below(k)>>] \in Int,
         w[<<T0, Below(j)>>] \in Int, w[<<T1, Below(j)>>] \in Int,
         v[<<S0, Below(k)>>] <= w[<<T0, Below(j)>>] + e0, K[S0] <= J[T0] + e0,
         v[<<S1, Below(k)>>] <= w[<<T1, Below(j)>>] + e1, K[S1] <= J[T1] + e1
  PROVE  SplitLeast(d, K, v, <<S, k>>, f) <= SplitLeast(d, J, w, <<T, j>>, g) + e0 + e1
<1>1. /\ S0 \in SUBSET Rows(d) /\ S1 \in SUBSET Rows(d) /\ T0 \in SUBSET Rows(d) /\ T1 \in SUBSET Rows(d)
  BY SidesAre
<1> DEFINE a0 == v[<<S0, Below(k)>>]
           a1 == v[<<S1, Below(k)>>]
           b0 == K[S0]
           b1 == K[S1]
           c0 == w[<<T0, Below(j)>>]
           c1 == w[<<T1, Below(j)>>]
           d0 == J[T0]
           d1 == J[T1]
<1>2. /\ a0 \in Int /\ a1 \in Int /\ b0 \in Int /\ b1 \in Int
      /\ c0 \in Int /\ c1 \in Int /\ d0 \in Int /\ d1 \in Int
      /\ a0 <= c0 + e0 /\ b0 <= d0 + e0 /\ a1 <= c1 + e1 /\ b1 <= d1 + e1
  BY <1>1 DEF Costs
<1>3. SplitLeast(d, K, v, <<S, k>>, f) = Joined(d.config.rule_list, a0, b0, a1, b1)
  <2>1. IsSplit(d, S, k, f, S0, S1)
    BY DEF IsSplit
  <2> QED
    BY <2>1, SplitAs
<1>5. SplitLeast(d, J, w, <<T, j>>, g) = Joined(d.config.rule_list, c0, d0, c1, d1)
  <2>1. IsSplit(d, T, j, g, T0, T1)
    BY DEF IsSplit
  <2> QED
    BY <2>1, SplitAs
<1> HIDE DEF a0, a1, b0, b1, c0, c1, d0, d1
<1>4. Joined(d.config.rule_list, a0, b0, a1, b1) <= Joined(d.config.rule_list, c0, d0, c1, d1) + e0 + e1
  BY <1>2, JoinedMonotone
<1> QED
  BY <1>3, <1>4, <1>5

(* A larger depth budget is never worse.                                   *)
LEMMA ValueDeepens ==
  ASSUME NEW d, IsDataset(d), NEW L, NEW v, IsValue(d, L, v), NEW S, NEW k,
         <<S, k>> \in Keys(d), <<S, Below(k)>> \in Keys(d)
  PROVE  v[<<S, k>>] <= v[<<S, Below(k)>>]
<1> DEFINE Both(T, j) == <<T, j>> \in Keys(d) /\ <<T, Below(j)>> \in Keys(d)
           Good(T, j) == v[<<T, j>>] <= v[<<T, Below(j)>>]
           Bad == {T \in SUBSET Rows(d) : \E j : Both(T, j) /\ ~Good(T, j)}
<1>1. Bad = {}
  <2> SUFFICES ASSUME Bad # {} PROVE FALSE
    OBVIOUS
  <2>1. PICK T \in Bad : \A U \in Bad : ~(U \subseteq T /\ U # T)
    <3> HIDE DEF Good, Both
    <3>1. Bad \in SUBSET SUBSET Rows(d)
      OBVIOUS
    <3> HIDE DEF Bad
    <3> QED
      BY <3>1, SmallestRows
  <2>2. PICK j : Both(T, j) /\ ~Good(T, j)
    BY <2>1
  <2>3. /\ v[<<T, j>>] \in Int /\ v[<<T, j>>] <= L[T] /\ v[<<T, Below(j)>>] \in Int
    BY <2>2, ValueIs
  <2>4. v[<<T, Below(j)>>] # L[T]
    BY <2>2, <2>3
  <2>5. PICK f \in Splittable(d, <<T, Below(j)>>) :
               v[<<T, Below(j)>>] = SplitLeast(d, L, v, <<T, Below(j)>>, f)
    BY <2>2, <2>4, ValueIs
  <2>6. f \in Splittable(d, <<T, j>>)
    <3>1. d.config.depth_budget \in Nat
      BY DEF IsDataset, IsConfiguration
    <3>2. /\ IF d.config.depth_budget = 0 THEN j = 0 ELSE j \in 1 .. d.config.depth_budget
          /\ IF d.config.depth_budget = 0 THEN Below(j) = 0 ELSE Below(j) \in 1 .. d.config.depth_budget
      BY <2>2, KeyIs
    <3>3. ~(d.config.depth_budget # 0 /\ j = 1)
      BY <3>1, <3>2 DEF Below
    <3>4. f \in d.features /\ Divides(d, T, f)
      BY <2>5 DEF Splittable
    <3> QED
      BY <3>3, <3>4 DEF Splittable
  <2>7. ASSUME NEW p \in BOOLEAN
        PROVE  LET U == Subset(d, T, f, p)
               IN  /\ v[<<U, Below(j)>>] \in Int /\ v[<<U, Below(Below(j))>>] \in Int
                   /\ v[<<U, Below(j)>>] <= v[<<U, Below(Below(j))>>]
    <3> DEFINE U == Subset(d, T, f, p)
    <3>1. /\ <<U, Below(j)>> \in Keys(d) /\ <<U, Below(Below(j))>> \in Keys(d)
          /\ U \in SUBSET Rows(d) /\ U \subseteq T /\ U # T
      BY <2>2, <2>5, <2>6, ChildIs
    <3> HIDE DEF U
    <3>2. v[<<U, Below(j)>>] \in Int /\ v[<<U, Below(Below(j))>>] \in Int
      BY <3>1, ValueInt
    <3>3. Both(U, Below(j))
      BY <3>1
    <3> HIDE DEF Both, Good
    <3>4. Good(U, Below(j))
      BY <2>1, <3>1, <3>3
    <3> QED
      BY <3>2, <3>4 DEF U, Good
  <2>8. L \in Costs(d)
    BY DEF IsValue, Gradual, Costs
  <2>9. SplitLeast(d, L, v, <<T, j>>, f) <= SplitLeast(d, L, v, <<T, Below(j)>>, f) + 0 + 0
    <3> DEFINE S0 == Subset(d, T, f, FALSE)
               S1 == Subset(d, T, f, TRUE)
    <3>1. /\ v[<<S0, Below(j)>>] \in Int /\ v[<<S0, Below(Below(j))>>] \in Int
          /\ v[<<S1, Below(j)>>] \in Int /\ v[<<S1, Below(Below(j))>>] \in Int
          /\ v[<<S0, Below(j)>>] <= v[<<S0, Below(Below(j))>>]
          /\ v[<<S1, Below(j)>>] <= v[<<S1, Below(Below(j))>>]
      BY <2>7
    <3>2. S0 \in SUBSET Rows(d) /\ S1 \in SUBSET Rows(d)
      BY <2>2, <2>6, ChildIs
    <3>3. L[S0] \in Int /\ L[S1] \in Int
      BY <2>8, <3>2 DEF Costs
    <3> HIDE DEF S0, S1
    <3>5. /\ v[<<S0, Below(j)>>] <= v[<<S0, Below(Below(j))>>] + 0
          /\ v[<<S1, Below(j)>>] <= v[<<S1, Below(Below(j))>>] + 0
          /\ L[S0] <= L[S0] + 0 /\ L[S1] <= L[S1] + 0
      BY <3>1, <3>3
    <3> USE DEF S0, S1
    <3>6. /\ 0 \in Int /\ <<T, j>> \in Keys(d) /\ <<T, Below(j)>> \in Keys(d)
          /\ AreSides(d, T, f, S0, S1)
      BY <2>2 DEF AreSides
    <3> HIDE DEF S0, S1
    <3> QED
      BY <2>5, <2>6, <2>8, <3>1, <3>5, <3>6, SplitsCompared
  <2>10. /\ v[<<T, j>>] <= SplitLeast(d, L, v, <<T, j>>, f) /\ SplitLeast(d, L, v, <<T, j>>, f) \in Int
    BY <2>2, <2>6, ValueIs
  <2>11. v[<<T, j>>] <= v[<<T, Below(j)>>]
    BY <2>3, <2>5, <2>9, <2>10
  <2> QED
    BY <2>2, <2>11
<1>2. S \in SUBSET Rows(d)
  BY KeyIs
<1> QED
  BY <1>1, <1>2

(* The best objective of a split, seen from either side.                   *)
LEMMA SplitFrom ==
  ASSUME NEW d, IsDataset(d), NEW K \in Costs(d), NEW v,
         NEW S, NEW k, <<S, k>> \in Keys(d), NEW f \in Splittable(d, <<S, k>>), NEW q \in BOOLEAN,
         \A p \in BOOLEAN : v[<<Subset(d, S, f, p), Below(k)>>] \in Int
  PROVE  Joins(SplitLeast(d, K, v, <<S, k>>, f), d.config.rule_list,
               v[<<Subset(d, S, f, q), Below(k)>>], K[Subset(d, S, f, q)],
               v[<<Subset(d, S, f, ~q), Below(k)>>], K[Subset(d, S, f, ~q)])
<1>1. Joins(SplitLeast(d, K, v, <<S, k>>, f), d.config.rule_list,
            v[<<Subset(d, S, f, FALSE), Below(k)>>], K[Subset(d, S, f, FALSE)],
            v[<<Subset(d, S, f, TRUE), Below(k)>>], K[Subset(d, S, f, TRUE)])
  BY SplitIs
<1>2. Subset(d, S, f, FALSE) \in SUBSET Rows(d) /\ Subset(d, S, f, TRUE) \in SUBSET Rows(d)
  BY ChildIs
<1> DEFINE a0 == v[<<Subset(d, S, f, FALSE), Below(k)>>]
           b0 == K[Subset(d, S, f, FALSE)]
           a1 == v[<<Subset(d, S, f, TRUE), Below(k)>>]
           b1 == K[Subset(d, S, f, TRUE)]
           x == SplitLeast(d, K, v, <<S, k>>, f)
<1>3. a0 \in Int /\ b0 \in Int /\ a1 \in Int /\ b1 \in Int /\ Joins(x, d.config.rule_list, a0, b0, a1, b1)
  BY <1>1, <1>2 DEF Costs
<1> HIDE DEF a0, a1, b0, b1, x
<1>4. Joins(x, d.config.rule_list, a1, b1, a0, b0)
  BY <1>3 DEF Joins
<1> USE DEF a0, a1, b0, b1, x
<1>5. CASE q = FALSE
  BY <1>3, <1>5
<1>6. CASE q = TRUE
  BY <1>4, <1>6
<1> QED
  BY <1>5, <1>6

-----------------------------------------------------------------------------
(* How much more a capture set A can cost than B: what its rows must cost  *)
(* more, and what the rows that only A has can add.                        *)

Drift(d, A, B) == Ideals(d)[A] - Ideals(d)[B] + Potentials(d)[A \ B]

(* The drift is a number.                                                  *)
LEMMA DriftInt ==
  ASSUME NEW d, IsDataset(d), NEW A \in SUBSET Rows(d), NEW B \in SUBSET Rows(d)
  PROVE  Drift(d, A, B) \in Int
<1>1. A \ B \in SUBSET Rows(d)
  OBVIOUS
<1>2. Ideals(d)[A] \in Nat /\ Ideals(d)[B] \in Nat /\ Potentials(d)[A \ B] \in Nat
  BY <1>1, IdealFacts
<1> QED
  BY <1>2 DEF Drift

(* What is gradual moves no further than the drift.                        *)
LEMMA GradualDrifts ==
  ASSUME NEW d, IsDataset(d), NEW L, Gradual(d, L), NEW A \in SUBSET Rows(d), NEW B \in SUBSET Rows(d)
  PROVE  L[A] \in Int /\ L[B] \in Int /\ L[A] <= L[B] + Drift(d, A, B)
<1>1. A \ B \in SUBSET Rows(d)
  OBVIOUS
<1>2. Ideals(d)[A] \in Nat /\ Ideals(d)[B] \in Nat /\ Potentials(d)[A \ B] \in Nat
  BY <1>1, IdealFacts
<1>3. L[A] \in Int /\ L[B] \in Int /\ L[A] - Ideals(d)[A] <= L[B] - Ideals(d)[B] + Potentials(d)[A \ B]
  BY DEF Gradual
<1> DEFINE a == L[A]
           b == L[B]
           x == Ideals(d)[A]
           y == Ideals(d)[B]
           z == Potentials(d)[A \ B]
<1> HIDE DEF a, b, x, y, z
<1>4. a <= b + (x - y + z)
  <2>1. a \in Int /\ b \in Int /\ x \in Nat /\ y \in Nat /\ z \in Nat /\ a - x <= b - y + z
    BY <1>2, <1>3 DEF a, b, x, y, z
  <2> QED
    BY <2>1
<1> QED
  BY <1>3, <1>4 DEF a, b, x, y, z, Drift

(* Drift adds up over the two parts of a division both sets go by.         *)
LEMMA DriftParts ==
  ASSUME NEW d, IsDataset(d), NEW A0 \in SUBSET Rows(d), NEW A1 \in SUBSET Rows(d),
         NEW B0 \in SUBSET Rows(d), NEW B1 \in SUBSET Rows(d),
         A0 \cap A1 = {}, B0 \cap B1 = {}, A0 \cap B1 = {}, A1 \cap B0 = {}
  PROVE  Drift(d, A0 \cup A1, B0 \cup B1) = Drift(d, A0, B0) + Drift(d, A1, B1)
<1> DEFINE M == Ideals(d)
           P == Potentials(d)
<1>1. Additive(d, M) /\ Additive(d, P)
  BY IdealFacts
<1>2. /\ A0 \ B0 \in SUBSET Rows(d) /\ A1 \ B1 \in SUBSET Rows(d)
      /\ (A0 \ B0) \cap (A1 \ B1) = {}
      /\ (A0 \cup A1) \ (B0 \cup B1) = (A0 \ B0) \cup (A1 \ B1)
  OBVIOUS
<1> HIDE DEF M, P
<1>3. /\ M[A0 \cup A1] = M[A0] + M[A1] /\ M[B0 \cup B1] = M[B0] + M[B1]
      /\ P[(A0 \cup A1) \ (B0 \cup B1)] = P[A0 \ B0] + P[A1 \ B1]
  BY <1>1, <1>2 DEF Additive
<1>4. /\ M[A0] \in Int /\ M[A1] \in Int /\ M[B0] \in Int /\ M[B1] \in Int
      /\ P[A0 \ B0] \in Int /\ P[A1 \ B1] \in Int
  BY <1>1, <1>2 DEF Additive
<1>5. M[A0 \cup A1] - M[B0 \cup B1] + P[(A0 \cup A1) \ (B0 \cup B1)]
        = (M[A0] - M[B0] + P[A0 \ B0]) + (M[A1] - M[B1] + P[A1 \ B1])
  BY <1>3, <1>4
<1> QED
  BY <1>5 DEF Drift, M, P

(* From no rows the drift is what the rows cost at least.                  *)
LEMMA DriftNone ==
  ASSUME NEW d, IsDataset(d), NEW B \in SUBSET Rows(d)
  PROVE  Drift(d, {}, B) = 0 - Ideals(d)[B]
<1>1. {} \ B = {}
  OBVIOUS
<1>2. Potentials(d)[{}] = 0 /\ Ideals(d)[{}] = 0 /\ Ideals(d)[B] \in Nat
  BY IdealFacts
<1> QED
  BY <1>1, <1>2 DEF Drift

(* Taking rows away or adding some moves the best objective no further.    *)
Drifts(d, v, A, B, k) == v[<<A, k>>] <= v[<<B, k>>] + Drift(d, A, B)

(* Two splits whose sides' values drift by no more than their rows do.     *)
LEMMA DriftOfSplits ==
  ASSUME NEW d, IsDataset(d), NEW L, NEW K, Gradual(d, K), NEW v, IsValue(d, L, v),
         NEW A, NEW k, <<A, k>> \in Keys(d), NEW f \in Splittable(d, <<A, k>>),
         NEW A0, NEW A1, AreSides(d, A, f, A0, A1),
         NEW B, <<B, k>> \in Keys(d), NEW g \in Splittable(d, <<B, k>>),
         NEW B0, NEW B1, AreSides(d, B, g, B0, B1),
         Drifts(d, v, A0, B0, Below(k)), Drifts(d, v, A1, B1, Below(k))
  PROVE  /\ SplitLeast(d, K, v, <<A, k>>, f) <=
              SplitLeast(d, K, v, <<B, k>>, g) + Drift(d, A0, B0) + Drift(d, A1, B1)
         /\ Drift(d, A0, B0) \in Int /\ Drift(d, A1, B1) \in Int
         /\ SplitLeast(d, K, v, <<B, k>>, g) \in Int
<1> DEFINE e0 == Drift(d, A0, B0)
           e1 == Drift(d, A1, B1)
<1>1. /\ A0 \in SUBSET Rows(d) /\ A1 \in SUBSET Rows(d) /\ B0 \in SUBSET Rows(d) /\ B1 \in SUBSET Rows(d)
      /\ <<A0, Below(k)>> \in Keys(d) /\ <<A1, Below(k)>> \in Keys(d)
      /\ <<B0, Below(k)>> \in Keys(d) /\ <<B1, Below(k)>> \in Keys(d)
  BY SidesAre
<1>2. e0 \in Int /\ e1 \in Int
  BY <1>1, DriftInt
<1>3. /\ v[<<A0, Below(k)>>] \in Int /\ v[<<A1, Below(k)>>] \in Int
      /\ v[<<B0, Below(k)>>] \in Int /\ v[<<B1, Below(k)>>] \in Int
  BY <1>1, ValueInt
<1>4. v[<<A0, Below(k)>>] <= v[<<B0, Below(k)>>] + e0 /\ v[<<A1, Below(k)>>] <= v[<<B1, Below(k)>>] + e1
  BY DEF Drifts
<1>5. K[A0] <= K[B0] + e0 /\ K[A1] <= K[B1] + e1
  BY <1>1, GradualDrifts
<1>6. K \in Costs(d)
  BY DEF Gradual, Costs
<1> HIDE DEF e0, e1
<1>7. SplitLeast(d, K, v, <<A, k>>, f) <= SplitLeast(d, K, v, <<B, k>>, g) + e0 + e1
  BY <1>2, <1>3, <1>4, <1>5, <1>6, SplitsCompared
<1>8. SplitLeast(d, K, v, <<B, k>>, g) \in Int
  <2>1. \A p \in BOOLEAN : v[<<Subset(d, B, g, p), Below(k)>>] \in Int
    BY ChildIs, ValueInt
  <2> QED
    BY <1>6, <2>1, SplitIs DEF Joins
<1> QED
  BY <1>2, <1>7, <1>8 DEF e0, e1

(* If all of A is on one side of a split of B.                             *)
LEMMA DriftToSide ==
  ASSUME NEW d, IsDataset(d), NEW L, NEW v, IsValue(d, L, v),
         NEW A, NEW B, NEW k, <<A, k>> \in Keys(d), <<B, k>> \in Keys(d),
         NEW f \in Splittable(d, <<B, k>>), NEW q \in BOOLEAN,
         A \cap Subset(d, B, f, ~q) = {},
         <<A, Below(k)>> \in Keys(d) => Drifts(d, v, A, Subset(d, B, f, q), Below(k))
  PROVE  v[<<A, k>>] <= SplitLeast(d, L, v, <<B, k>>, f) + Drift(d, A, B)
<1> DEFINE Q == Subset(d, B, f, q)
           P == Subset(d, B, f, ~q)
           M == Ideals(d)
<1>1. /\ <<Q, Below(k)>> \in Keys(d) /\ <<P, Below(k)>> \in Keys(d)
      /\ Q \in SUBSET Rows(d) /\ P \in SUBSET Rows(d)
  BY ChildIs
<1>2. A \in SUBSET Rows(d) /\ A # {} /\ <<A, Below(k)>> \in Keys(d)
  BY <1>1, KeyIs
<1>3. Q \cap P = {} /\ Q \cup P = B /\ A \cap P = {}
  <2>1. CASE q = TRUE
    BY <2>1, Sides
  <2>2. CASE q = FALSE
    BY <2>2, Sides
  <2> QED
    BY <2>1, <2>2
<1>4. Drifts(d, v, A, Q, Below(k))
  BY <1>2
<1>5. Joins(SplitLeast(d, L, v, <<B, k>>, f), d.config.rule_list, v[<<Q, Below(k)>>], L[Q], v[<<P, Below(k)>>], L[P])
  <2>1. L \in Costs(d)
    BY DEF IsValue, Gradual, Costs
  <2>2. \A p \in BOOLEAN : v[<<Subset(d, B, f, p), Below(k)>>] \in Int
    BY ChildIs, ValueInt
  <2> QED
    BY <2>1, <2>2, SplitFrom
<1> DEFINE e == Drift(d, A, Q)
           a == v[<<A, k>>]
           s == SplitLeast(d, L, v, <<B, k>>, f)
           aq == v[<<Q, Below(k)>>]
           ap == v[<<P, Below(k)>>]
<1> HIDE DEF P, Q, M
<1>6. Drift(d, A, B) = e - M[P] /\ e \in Int /\ M[P] \in Nat
  <2>1. A \cup {} = A /\ A \cap {} = {} /\ {} \in SUBSET Rows(d) /\ {} \cap Q = {}
    OBVIOUS
  <2>2. Drift(d, A \cup {}, Q \cup P) = Drift(d, A, Q) + Drift(d, {}, P)
    BY <1>1, <1>2, <1>3, <2>1, DriftParts
  <2>3. Drift(d, {}, P) = 0 - M[P] /\ M[P] \in Nat
    BY <1>1, DriftNone, IdealFacts DEF M
  <2>4. e \in Int
    BY <1>1, <1>2, DriftInt
  <2>5. Drift(d, A, B) = e + (0 - M[P])
    BY <1>3, <2>1, <2>2, <2>3
  <2> HIDE DEF e
  <2> QED
    BY <2>3, <2>4, <2>5
<1>7. v[<<A, Below(k)>>] <= aq + e
  BY <1>4 DEF Drifts
<1>8. a <= v[<<A, Below(k)>>] /\ a \in Int /\ v[<<A, Below(k)>>] \in Int /\ a <= L[A] /\ aq \in Int /\ ap \in Int
  BY <1>1, <1>2, ValueDeepens, ValueIs
<1>9. L[A] <= L[Q] + e /\ L[A] \in Int /\ L[Q] \in Int
  BY <1>1, <1>2, GradualDrifts DEF IsValue
<1>10. M[P] <= ap /\ M[P] <= L[P] /\ L[P] \in Int
  <2>1. /\ M[P] + d.config.regularization <= L[P] /\ d.config.regularization \in Nat /\ M[P] \in Nat
        /\ L[P] \in Int
    BY <1>1, LeafAtLeast DEF M
  <2>2. M[P] + d.config.regularization <= ap
    BY <1>1, ValueInt DEF M
  <2> HIDE DEF ap
  <2> QED
    BY <1>8, <2>1, <2>2
<1> DEFINE m == M[P]
           bq == L[Q]
           bp == L[P]
           b == L[A]
           x == v[<<A, Below(k)>>]
<1>11. /\ Joins(s, d.config.rule_list, aq, bq, ap, bp) /\ e \in Int /\ m \in Nat
       /\ x <= aq + e /\ a <= x /\ a \in Int /\ x \in Int /\ a <= b /\ aq \in Int /\ ap \in Int
       /\ b <= bq + e /\ b \in Int /\ bq \in Int /\ bp \in Int /\ m <= ap /\ m <= bp
       /\ Drift(d, A, B) = e - m
  BY <1>5, <1>6, <1>7, <1>8, <1>9, <1>10
<1> HIDE DEF e, a, s, aq, ap, m, bq, bp, b, x
<1>12. a <= s + (e - m)
  <2>1. CASE ~d.config.rule_list
    BY <1>11, <2>1 DEF Joins
  <2>2. CASE d.config.rule_list
    BY <1>11, <2>2 DEF Joins
  <2> QED
    BY <2>1, <2>2
<1> QED
  BY <1>11, <1>12 DEF a, s

(* From one set of rows to another the value moves by no more than the     *)
(* drift, at every depth: by induction over both sets.                     *)
LEMMA ValueDrifts ==
  ASSUME NEW d, IsDataset(d), NEW L, NEW v, IsValue(d, L, v),
         NEW A, NEW B, NEW k, <<A, k>> \in Keys(d), <<B, k>> \in Keys(d)
  PROVE  Drifts(d, v, A, B, k)
<1> DEFINE Both(S, T, j) == <<S, j>> \in Keys(d) /\ <<T, j>> \in Keys(d)
           Bad == {T \in SUBSET Rows(d) : \E S, j : Both(S, T, j) /\ ~Drifts(d, v, S, T, j)}
<1>1. Bad = {}
  <2> SUFFICES ASSUME Bad # {} PROVE FALSE
    OBVIOUS
  <2>1. PICK T \in Bad : \A U \in Bad : ~(U \subseteq T /\ U # T)
    <3> HIDE DEF Both
    <3>1. Bad \in SUBSET SUBSET Rows(d)
      OBVIOUS
    <3> HIDE DEF Bad
    <3> QED
      BY <3>1, SmallestRows
  <2>2. PICK S, j : Both(S, T, j) /\ ~Drifts(d, v, S, T, j)
    BY <2>1
  <2>3. S \in SUBSET Rows(d) /\ S # {} /\ T \in SUBSET Rows(d) /\ Gradual(d, L)
    BY <2>2, KeyIs DEF IsValue
  <2>4. v[<<S, j>>] \in Int /\ v[<<T, j>>] \in Int /\ v[<<S, j>>] <= L[S]
    BY <2>2, ValueIs
  <2>5. L[S] \in Int /\ L[T] \in Int /\ L[S] <= L[T] + Drift(d, S, T) /\ Drift(d, S, T) \in Int
    BY <2>3, GradualDrifts, DriftInt
  <2>6. v[<<T, j>>] # L[T]
    BY <2>2, <2>4, <2>5 DEF Drifts
  <2>7. PICK f \in Splittable(d, <<T, j>>) : v[<<T, j>>] = SplitLeast(d, L, v, <<T, j>>, f)
    BY <2>2, <2>6, ValueIs
  <2>8. ASSUME NEW p \in BOOLEAN, NEW U, <<U, Below(j)>> \in Keys(d)
        PROVE  Drifts(d, v, U, Subset(d, T, f, p), Below(j))
    <3>1. /\ Subset(d, T, f, p) \in SUBSET Rows(d) /\ Subset(d, T, f, p) \subseteq T
          /\ Subset(d, T, f, p) # T /\ <<Subset(d, T, f, p), Below(j)>> \in Keys(d)
      BY <2>2, <2>7, ChildIs
    <3>2. Both(U, Subset(d, T, f, p), Below(j))
      BY <2>8, <3>1
    <3> HIDE DEF Both
    <3> QED
      BY <2>1, <3>1, <3>2
  <2>9. v[<<S, j>>] <= SplitLeast(d, L, v, <<T, j>>, f) + Drift(d, S, T)
    <3>1. CASE Divides(d, S, f)
      <4>1. f \in Splittable(d, <<S, j>>)
        BY <2>7, <3>1 DEF Splittable
      <4> DEFINE S0 == Subset(d, S, f, FALSE)
                 S1 == Subset(d, S, f, TRUE)
                 T0 == Subset(d, T, f, FALSE)
                 T1 == Subset(d, T, f, TRUE)
      <4>2. <<S0, Below(j)>> \in Keys(d) /\ <<S1, Below(j)>> \in Keys(d)
        BY <2>2, <4>1, ChildIs
      <4>3. Drifts(d, v, S0, T0, Below(j)) /\ Drifts(d, v, S1, T1, Below(j))
        BY <2>8, <4>2
      <4>4. SplitLeast(d, L, v, <<S, j>>, f) <=
              SplitLeast(d, L, v, <<T, j>>, f) + Drift(d, S0, T0) + Drift(d, S1, T1)
        <5>1. AreSides(d, S, f, S0, S1) /\ AreSides(d, T, f, T0, T1)
          BY DEF AreSides
        <5> HIDE DEF S0, S1, T0, T1
        <5> QED
          BY <2>2, <2>3, <2>7, <4>1, <4>3, <5>1, DriftOfSplits
      <4>5. v[<<S, j>>] <= SplitLeast(d, L, v, <<S, j>>, f) /\ SplitLeast(d, L, v, <<S, j>>, f) \in Int
        BY <2>2, <4>1, ValueIs
      <4>6. SplitLeast(d, L, v, <<T, j>>, f) \in Int
        BY <2>2, <2>7, ValueIs
      <4>7. /\ S0 \in SUBSET Rows(d) /\ S1 \in SUBSET Rows(d) /\ T0 \in SUBSET Rows(d) /\ T1 \in SUBSET Rows(d)
            /\ S0 \cap S1 = {} /\ T0 \cap T1 = {} /\ S0 \cap T1 = {} /\ S1 \cap T0 = {}
            /\ S0 \cup S1 = S /\ T0 \cup T1 = T
        BY <2>3 DEF Subset
      <4> HIDE DEF S0, S1, T0, T1
      <4>8. Drift(d, S, T) = Drift(d, S0, T0) + Drift(d, S1, T1)
        <5>1. Drift(d, S0 \cup S1, T0 \cup T1) = Drift(d, S0, T0) + Drift(d, S1, T1)
          BY <4>7, DriftParts
        <5> QED
          BY <4>7, <5>1
      <4>9. Drift(d, S0, T0) \in Int /\ Drift(d, S1, T1) \in Int
        BY <4>7, DriftInt
      <4> QED
        BY <2>4, <4>4, <4>5, <4>6, <4>8, <4>9
    <3>2. CASE ~Divides(d, S, f)
      <4>1. PICK q \in BOOLEAN : Subset(d, S, f, ~q) = {}
        <5>1. PICK p \in BOOLEAN : Subset(d, S, f, p) = {}
          BY <3>2 DEF Divides
        <5>2. CASE p = TRUE
          <6>1. ~FALSE = TRUE
            OBVIOUS
          <6> QED
            BY <5>1, <5>2, <6>1
        <5>3. CASE p = FALSE
          <6>1. ~TRUE = FALSE
            OBVIOUS
          <6> QED
            BY <5>1, <5>3, <6>1
        <5> QED
          BY <5>2, <5>3
      <4>2. S \cap Subset(d, T, f, ~q) = {}
        BY <4>1 DEF Subset
      <4>3. <<S, Below(j)>> \in Keys(d) => Drifts(d, v, S, Subset(d, T, f, q), Below(j))
        BY <2>8
      <4> QED
        BY <2>2, <2>7, <4>2, <4>3, DriftToSide
    <3> QED
      BY <3>1, <3>2
  <2> QED
    BY <2>2, <2>7, <2>9 DEF Drifts
<1>2. B \in SUBSET Rows(d)
  BY KeyIs
<1> QED
  BY <1>1, <1>2

-----------------------------------------------------------------------------
(* Dataset::distance: two splits of the same rows that differ in few of    *)
(* them have similar objectives, whichever sides they give the rows to.    *)

Halves(d, S, A0, A1) ==
  A0 \in SUBSET Rows(d) /\ A1 \in SUBSET Rows(d) /\ A0 \cap A1 = {} /\ A0 \cup A1 = S

(* Two divisions of the same rows: the drift of their sides adds up to     *)
(* what the rows on different sides can cost.                              *)
LEMMA DriftSum ==
  ASSUME NEW d, IsDataset(d), NEW S \in SUBSET Rows(d),
         NEW A0, NEW A1, Halves(d, S, A0, A1), NEW B0, NEW B1, Halves(d, S, B0, B1)
  PROVE  Drift(d, A0, B0) + Drift(d, A1, B1) = Potentials(d)[(A0 \ B0) \cup (A1 \ B1)]
<1> DEFINE M == Ideals(d)
           P == Potentials(d)
<1>1. Additive(d, M) /\ Additive(d, P)
  BY IdealFacts
<1>2. /\ A0 \ B0 \in SUBSET Rows(d) /\ A1 \ B1 \in SUBSET Rows(d)
      /\ (A0 \ B0) \cap (A1 \ B1) = {}
      /\ A0 \in SUBSET Rows(d) /\ A1 \in SUBSET Rows(d) /\ A0 \cap A1 = {} /\ A0 \cup A1 = S
      /\ B0 \in SUBSET Rows(d) /\ B1 \in SUBSET Rows(d) /\ B0 \cap B1 = {} /\ B0 \cup B1 = S
  BY DEF Halves
<1> HIDE DEF M, P
<1>3. /\ M[S] = M[A0] + M[A1] /\ M[S] = M[B0] + M[B1]
      /\ P[(A0 \ B0) \cup (A1 \ B1)] = P[A0 \ B0] + P[A1 \ B1]
  BY <1>1, <1>2 DEF Additive
<1>4. /\ M[A0] \in Int /\ M[A1] \in Int /\ M[B0] \in Int /\ M[B1] \in Int /\ M[S] \in Int
      /\ P[A0 \ B0] \in Int /\ P[A1 \ B1] \in Int
  BY <1>1, <1>2 DEF Additive
<1> DEFINE a == M[A0]
           b == M[A1]
           x == M[B0]
           y == M[B1]
           p == P[A0 \ B0]
           q == P[A1 \ B1]
<1>5. a + b = x + y /\ a \in Int /\ b \in Int /\ x \in Int /\ y \in Int /\ p \in Int /\ q \in Int
  BY <1>3, <1>4
<1> HIDE DEF a, b, x, y, p, q
<1>6. (a - x + p) + (b - y + q) = p + q
  BY <1>5
<1> QED
  BY <1>3, <1>6 DEF Drift, M, P, a, b, x, y, p, q

(* The similar-support bound: the best objectives that start with two      *)
(* features differ by no more than Dataset::distance of the two,           *)
(* whichever way round the features divide the rows.                       *)
LEMMA Neighbours ==
  ASSUME NEW d, IsDataset(d), NEW L, NEW K, Gradual(d, K), NEW v, IsValue(d, L, v),
         NEW S, NEW k, <<S, k>> \in Keys(d),
         NEW f \in Splittable(d, <<S, k>>), NEW g \in Splittable(d, <<S, k>>)
  PROVE  /\ SplitLeast(d, K, v, <<S, k>>, f) <= SplitLeast(d, K, v, <<S, k>>, g) + Distance(d, S, f, g)
         /\ SplitLeast(d, K, v, <<S, k>>, g) <= SplitLeast(d, K, v, <<S, k>>, f) + Distance(d, S, f, g)
         /\ Distance(d, S, f, g) \in Int
         /\ SplitLeast(d, K, v, <<S, k>>, f) \in Int /\ SplitLeast(d, K, v, <<S, k>>, g) \in Int
<1> DEFINE A0 == Subset(d, S, f, FALSE)
           A1 == Subset(d, S, f, TRUE)
           B0 == Subset(d, S, g, FALSE)
           B1 == Subset(d, S, g, TRUE)
           D == {r \in S : (f \in d.value[r]) # (g \in d.value[r])}
           P == Potentials(d)
           x == SplitLeast(d, K, v, <<S, k>>, f)
           y == SplitLeast(d, K, v, <<S, k>>, g)
<1>1. /\ AreSides(d, S, f, A0, A1) /\ AreSides(d, S, f, A1, A0)
      /\ AreSides(d, S, g, B0, B1) /\ AreSides(d, S, g, B1, B0)
  BY DEF AreSides
<1>2. S \in SUBSET Rows(d) /\ D \in SUBSET Rows(d) /\ S \ D \in SUBSET Rows(d)
  BY KeyIs
<1>3. /\ (A0 \ B0) \cup (A1 \ B1) = D /\ (B0 \ A0) \cup (B1 \ A1) = D
      /\ (A0 \ B1) \cup (A1 \ B0) = S \ D /\ (B1 \ A0) \cup (B0 \ A1) = S \ D
  BY DEF Subset
<1>4. Distance(d, S, f, g) = Min({P[D], P[S \ D]})
  BY <1>2 DEF Distance, Potentials
<1> HIDE DEF A0, A1, B0, B1, D
<1>5. P[D] \in Nat /\ P[S \ D] \in Nat
  BY <1>2, IdealFacts
<1>6. /\ A0 \in SUBSET Rows(d) /\ A1 \in SUBSET Rows(d) /\ B0 \in SUBSET Rows(d) /\ B1 \in SUBSET Rows(d)
      /\ <<A0, Below(k)>> \in Keys(d) /\ <<A1, Below(k)>> \in Keys(d)
      /\ <<B0, Below(k)>> \in Keys(d) /\ <<B1, Below(k)>> \in Keys(d)
      /\ A0 \cap A1 = {} /\ A0 \cup A1 = S /\ B0 \cap B1 = {} /\ B0 \cup B1 = S
  BY <1>1, SidesAre
<1>7. Halves(d, S, A0, A1) /\ Halves(d, S, A1, A0) /\ Halves(d, S, B0, B1) /\ Halves(d, S, B1, B0)
  BY <1>6 DEF Halves
<1>8. /\ Drifts(d, v, A0, B0, Below(k)) /\ Drifts(d, v, A1, B1, Below(k))
      /\ Drifts(d, v, A0, B1, Below(k)) /\ Drifts(d, v, A1, B0, Below(k))
      /\ Drifts(d, v, B0, A0, Below(k)) /\ Drifts(d, v, B1, A1, Below(k))
      /\ Drifts(d, v, B1, A0, Below(k)) /\ Drifts(d, v, B0, A1, Below(k))
  BY <1>6, ValueDrifts
<1>9. x <= y + P[D] /\ x \in Int /\ y \in Int
  <2>1. /\ x <= y + Drift(d, A0, B0) + Drift(d, A1, B1) /\ y \in Int
        /\ Drift(d, A0, B0) \in Int /\ Drift(d, A1, B1) \in Int
    BY <1>1, <1>8, DriftOfSplits
  <2>2. Drift(d, A0, B0) + Drift(d, A1, B1) = P[D]
    <3>1. Drift(d, A0, B0) + Drift(d, A1, B1) = P[(A0 \ B0) \cup (A1 \ B1)]
      BY <1>2, <1>7, DriftSum
    <3> HIDE DEF P
    <3> QED
      BY <1>3, <3>1
  <2>3. x \in Int
    BY <1>1, <1>8, DriftOfSplits
  <2> HIDE DEF x, y, P
  <2> QED
    BY <2>1, <2>2, <2>3
<1>10. x <= y + P[S \ D]
  <2>1. /\ x <= y + Drift(d, A0, B1) + Drift(d, A1, B0)
        /\ Drift(d, A0, B1) \in Int /\ Drift(d, A1, B0) \in Int
    BY <1>1, <1>8, DriftOfSplits
  <2>2. Drift(d, A0, B1) + Drift(d, A1, B0) = P[S \ D]
    <3>1. Drift(d, A0, B1) + Drift(d, A1, B0) = P[(A0 \ B1) \cup (A1 \ B0)]
      BY <1>2, <1>7, DriftSum
    <3> HIDE DEF P
    <3> QED
      BY <1>3, <3>1
  <2> HIDE DEF x, y, P
  <2> QED
    BY <1>9, <2>1, <2>2
<1>11. y <= x + P[D]
  <2>1. /\ y <= x + Drift(d, B0, A0) + Drift(d, B1, A1)
        /\ Drift(d, B0, A0) \in Int /\ Drift(d, B1, A1) \in Int
    BY <1>1, <1>8, DriftOfSplits
  <2>2. Drift(d, B0, A0) + Drift(d, B1, A1) = P[D]
    <3>1. Drift(d, B0, A0) + Drift(d, B1, A1) = P[(B0 \ A0) \cup (B1 \ A1)]
      BY <1>2, <1>7, DriftSum
    <3> HIDE DEF P
    <3> QED
      BY <1>3, <3>1
  <2> HIDE DEF x, y, P
  <2> QED
    BY <1>9, <2>1, <2>2
<1>12. y <= x + P[S \ D]
  <2>1. /\ y <= x + Drift(d, B1, A0) + Drift(d, B0, A1)
        /\ Drift(d, B1, A0) \in Int /\ Drift(d, B0, A1) \in Int
    BY <1>1, <1>8, DriftOfSplits
  <2>2. Drift(d, B1, A0) + Drift(d, B0, A1) = P[S \ D]
    <3>1. Drift(d, B1, A0) + Drift(d, B0, A1) = P[(B1 \ A0) \cup (B0 \ A1)]
      BY <1>2, <1>7, DriftSum
    <3> HIDE DEF P
    <3> QED
      BY <1>3, <3>1
  <2> HIDE DEF x, y, P
  <2> QED
    BY <1>9, <2>1, <2>2
<1> DEFINE m == P[D]
           n == P[S \ D]
<1>13. m \in Int /\ n \in Int /\ x \in Int /\ y \in Int /\ x <= y + m /\ x <= y + n /\ y <= x + m /\ y <= x + n
  BY <1>5, <1>9, <1>10, <1>11, <1>12
<1> HIDE DEF m, n, x, y
<1>14. Min({m, n}) = IF m <= n THEN m ELSE n
  BY <1>13, MinOfTwo
<1>15. x <= y + Min({m, n}) /\ y <= x + Min({m, n}) /\ Min({m, n}) \in Int
  BY <1>13, <1>14
<1> QED
  BY <1>4, <1>13, <1>15 DEF m, n, x, y

-----------------------------------------------------------------------------
(* Task::Task: with so little to gain in S no split pays for its leaves.   *)
LEMMA FewDiffer ==
  ASSUME NEW d, IsDataset(d), NEW L, NEW v, IsValue(d, L, v), NEW S, NEW k, <<S, k>> \in Keys(d),
         Potential(d, S) < 2 * d.config.regularization
  PROVE  Leaf(d, S) <= v[<<S, k>>]
<1> DEFINE M == Ideals(d)
           P == Potentials(d)
           reg == d.config.regularization
<1>1. S \in SUBSET Rows(d) /\ P[S] < 2 * reg
  BY KeyIs DEF Potentials
<1>2. Leaf(d, S) <= L[S] /\ reg \in Nat /\ Leaf(d, S) \in Nat
  BY <1>1, LeafAtLeast
<1>3. CASE v[<<S, k>>] = L[S]
  BY <1>2, <1>3
<1>4. CASE \E f \in Splittable(d, <<S, k>>) : v[<<S, k>>] = SplitLeast(d, L, v, <<S, k>>, f)
  <2>1. PICK f \in Splittable(d, <<S, k>>) : v[<<S, k>>] = SplitLeast(d, L, v, <<S, k>>, f)
    BY <1>4
  <2> DEFINE S0 == Subset(d, S, f, FALSE)
             S1 == Subset(d, S, f, TRUE)
             s == v[<<S, k>>]
             a0 == v[<<S0, Below(k)>>]
             a1 == v[<<S1, Below(k)>>]
             l0 == L[S0]
             l1 == L[S1]
             m0 == M[S0]
             m1 == M[S1]
             p0 == P[S0]
             p1 == P[S1]
             best == Leaf(d, S)
  <2>2. /\ S0 \in SUBSET Rows(d) /\ S1 \in SUBSET Rows(d)
        /\ <<S0, Below(k)>> \in Keys(d) /\ <<S1, Below(k)>> \in Keys(d)
    BY ChildIs
  <2>3. S0 \cap S1 = {} /\ S0 \cup S1 = S
    BY Sides
  <2>4. Joins(s, d.config.rule_list, a0, l0, a1, l1)
    <3>1. L \in Costs(d)
      BY DEF IsValue, Gradual, Costs
    <3>2. \A p \in BOOLEAN : v[<<Subset(d, S, f, p), Below(k)>>] \in Int
      BY ChildIs, ValueInt
    <3> QED
      BY <2>1, <3>1, <3>2, SplitIs
  <2> HIDE DEF S0, S1
  <2>5. /\ m0 \in Nat /\ m1 \in Nat /\ p0 \in Nat /\ p1 \in Nat /\ l0 \in Int /\ l1 \in Int
        /\ m0 + reg <= l0 /\ m1 + reg <= l1
    BY <2>2, LeafAtLeast
  <2>6. /\ a0 \in Int /\ a1 \in Int
        /\ a0 = l0 \/ m0 + 2 * reg <= a0
        /\ a1 = l1 \/ m1 + 2 * reg <= a1
    <3>1. a0 \in Int /\ (a0 = l0 \/ m0 + 2 * reg <= a0)
      BY <2>2, ValueIs, ValueInt
    <3>2. a1 \in Int /\ (a1 = l1 \/ m1 + 2 * reg <= a1)
      BY <2>2, ValueIs, ValueInt
    <3> QED
      BY <3>1, <3>2
  <2>7. P[S] = p0 + p1 /\ M[S] = m0 + m1
    <3>1. Additive(d, M) /\ Additive(d, P)
      BY IdealFacts
    <3> HIDE DEF M, P
    <3> QED
      BY <2>2, <2>3, <3>1 DEF Additive
  <2>8. best <= l0 + m1 + p1 /\ best <= l1 + m0 + p0
    <3>1. Gradual(d, Leaves(d))
      BY LeavesFacts
    <3>2. S \ S0 = S1 /\ S \ S1 = S0
      BY <2>3
    <3>3. Leaves(d)[S] <= Leaves(d)[S0] + Drift(d, S, S0) /\ Leaves(d)[S] <= Leaves(d)[S1] + Drift(d, S, S1)
      BY <1>1, <2>2, <3>1, GradualDrifts
    <3>4. Drift(d, S, S0) = M[S] - m0 + p1 /\ Drift(d, S, S1) = M[S] - m1 + p0
      BY <3>2 DEF Drift
    <3>5. /\ Leaves(d)[S] = best /\ Leaves(d)[S0] = Leaf(d, S0) /\ Leaves(d)[S1] = Leaf(d, S1)
          /\ Leaf(d, S0) \in Nat /\ Leaf(d, S1) \in Nat
      BY <1>1, <2>2, LeavesFacts
    <3>6. Leaf(d, S0) <= l0 /\ Leaf(d, S1) <= l1
      BY <2>2, LeafAtLeast
    <3> DEFINE x == Leaf(d, S0)
               y == Leaf(d, S1)
               u == Drift(d, S, S0)
               w == Drift(d, S, S1)
               m == M[S]
    <3>7. /\ best <= x + u /\ best <= y + w /\ x <= l0 /\ y <= l1 /\ u = m - m0 + p1 /\ w = m - m1 + p0
          /\ x \in Nat /\ y \in Nat /\ best \in Nat /\ m = m0 + m1
      BY <1>2, <2>7, <3>3, <3>4, <3>5, <3>6
    <3> HIDE DEF x, y, u, w, m, m0, m1, p0, p1, l0, l1, best
    <3> QED
      BY <2>5, <3>7
  <2>9. best <= m0 + m1 + p0 + p1 + reg
    <3>1. PICK p \in Targets : MaxLoss(d, S) = Loss(d.config.cost, d.label, S, p)
      BY <1>1, MaxLossIs
    <3>2. MaxLoss(d, S) <= M[S] + P[S]
      BY <1>1, <3>1, LossFacts
    <3>3. best = MaxLoss(d, S) + reg /\ MaxLoss(d, S) \in Nat
      BY <1>1, MaxLossIs DEF Leaf
    <3>4. MaxLoss(d, S) <= (m0 + m1) + (p0 + p1)
      BY <2>7, <3>2
    <3> HIDE DEF m0, m1, p0, p1, best
    <3> QED
      BY <1>2, <2>5, <3>3, <3>4
  <2>10. p0 + p1 < 2 * reg
    BY <1>1, <2>7
  <2>11. best \in Nat /\ reg \in Nat
    BY <1>2
  <2> HIDE DEF s, a0, a1, l0, l1, m0, m1, p0, p1, best, reg
  <2>12. best <= l0 + l1
    BY <2>5, <2>8, <2>10, <2>11
  <2>13. best <= a0 + a1
    BY <2>5, <2>6, <2>9, <2>10, <2>11, <2>12
  <2>14. best <= a0 + l1 /\ best <= a1 + l0
    BY <2>5, <2>6, <2>9, <2>10, <2>11, <2>12
  <2>15. best <= s
    BY <2>4, <2>13, <2>14 DEF Joins
  <2> QED
    BY <2>15 DEF s, best
<1> QED
  BY <1>3, <1>4, ValueIs

-----------------------------------------------------------------------------
(* What the statistics of a capture set say it costs at least: MinLoss,    *)
(* where it is below the loss of a leaf.                                   *)

Rightly(d) ==
  IF d.reference = <<>> THEN d.majority ELSE {r \in Rows(d) : d.reference[r] = d.label[r]}

Floors(d) == [S \in SUBSET Rows(d) |-> LossWith(d, S, Rightly(d))]

(* The floor under the loss of any tree, or the reference model's loss,    *)
(* is additive and gradual.                                                *)
LEMMA FloorFacts ==
  ASSUME NEW d, IsDataset(d)
  PROVE  /\ Additive(d, Floors(d)) /\ Gradual(d, Floors(d))
         /\ \A S \in SUBSET Rows(d) :
              /\ Floors(d)[S] \in Nat /\ MinLoss(d, S) \in Nat /\ MinLoss(d, S) <= Floors(d)[S]
              /\ d.reference # <<>> => MinLoss(d, S) = Floors(d)[S]
<1>1. Additive(d, Floors(d)) /\ Gradual(d, Floors(d)) /\ \A S \in SUBSET Rows(d) : Ideals(d)[S] <= Floors(d)[S]
  BY LossWithFacts DEF Floors
<1>2. ASSUME NEW S \in SUBSET Rows(d)
      PROVE  /\ Floors(d)[S] \in Nat /\ MinLoss(d, S) \in Nat /\ MinLoss(d, S) <= Floors(d)[S]
             /\ d.reference # <<>> => MinLoss(d, S) = Floors(d)[S]
  <2> DEFINE x == Floors(d)[S]
  <2>1. x \in Int /\ Ideals(d)[S] <= x /\ Ideals(d)[S] \in Nat
    BY <1>1, IdealFacts DEF Additive
  <2> HIDE DEF x
  <2>2. x \in Nat
    BY <2>1
  <2>3. CASE d.reference = <<>>
    <3>1. MinLoss(d, S) = Min({MaxLoss(d, S), x})
      BY <2>3 DEF MinLoss, GuaranteedMinLoss, x, Floors, Rightly
    <3>2. MaxLoss(d, S) \in Nat
      BY MaxLossIs
    <3>3. Min({MaxLoss(d, S), x}) = IF MaxLoss(d, S) <= x THEN MaxLoss(d, S) ELSE x
      BY <2>2, <3>2, MinOfTwo
    <3> QED
      BY <2>2, <2>3, <3>1, <3>2, <3>3 DEF x
  <2>4. CASE d.reference # <<>>
    <3>1. /\ S \cap {r \in S : d.reference[r] = d.label[r]} = S \cap {r \in Rows(d) : d.reference[r] = d.label[r]}
          /\ S \ {r \in S : d.reference[r] = d.label[r]} = S \ {r \in Rows(d) : d.reference[r] = d.label[r]}
      OBVIOUS
    <3>2. MinLoss(d, S) = x
      BY <2>4, <3>1 DEF MinLoss, LossWith, x, Floors, Rightly
    <3> QED
      BY <2>2, <2>4, <3>2 DEF x
  <2> QED
    BY <2>3, <2>4
<1> QED
  BY <1>1, <1>2

(* So are the leaves a reference model admits, and each costs at least     *)
(* the floor and a regularization.                                         *)
LEMMA GuidedFacts ==
  ASSUME NEW d, IsDataset(d)
  PROVE  /\ Gradual(d, GuidedLeaves(d))
         /\ \A S \in SUBSET Rows(d) : Leaf(d, S) <= GuidedLeaves(d)[S]
         /\ \A S \in SUBSET Rows(d) :
              TwinClosed(d, S) => Floors(d)[S] + d.config.regularization <= GuidedLeaves(d)[S]
<1> DEFINE G == GuidedLeaves(d)
           reg == d.config.regularization
<1>1. reg \in Nat
  BY DEF IsDataset, IsConfiguration
<1>2. CASE d.reference = <<>>
  <2>1. G = Leaves(d)
    BY <1>2 DEF GuidedLeaves, Leaves
  <2>2. Gradual(d, G) /\ \A S \in SUBSET Rows(d) : G[S] = Leaf(d, S) /\ Leaf(d, S) \in Nat
    BY <2>1, LeavesFacts
  <2>3. ASSUME NEW S \in SUBSET Rows(d), TwinClosed(d, S) PROVE Floors(d)[S] + reg <= G[S]
    <3>1. Floors(d)[S] <= MaxLoss(d, S)
      BY <1>2, <2>3, MajorityFloor DEF Floors, Rightly
    <3>2. Floors(d)[S] \in Nat /\ MaxLoss(d, S) \in Nat
      BY FloorFacts, MaxLossIs
    <3>3. G[S] = MaxLoss(d, S) + reg
      BY <2>2 DEF Leaf
    <3> HIDE DEF G, reg
    <3> QED
      BY <1>1, <3>1, <3>2, <3>3
  <2> HIDE DEF G
  <2>4. \A S \in SUBSET Rows(d) : Leaf(d, S) <= G[S]
    BY <2>2
  <2> QED
    BY <2>2, <2>3, <2>4 DEF G
<1>3. CASE d.reference # <<>>
  <2>1. ASSUME NEW S \in SUBSET Rows(d)
        PROVE  /\ G[S] \in Int /\ Floors(d)[S] \in Nat /\ Leaf(d, S) \in Nat
               /\ G[S] = IF Floors(d)[S] + reg <= Leaf(d, S) THEN Leaf(d, S) ELSE Floors(d)[S] + reg
    <3> DEFINE x == Floors(d)[S]
               y == MaxLoss(d, S)
    <3>1. x \in Nat /\ y \in Nat /\ MinLoss(d, S) = x
      BY <1>3, FloorFacts, MaxLossIs
    <3>2. G[S] = Max({x, y}) + reg
      BY <1>3, <3>1 DEF GuidedLeaves
    <3>3. Leaf(d, S) = y + reg
      BY DEF Leaf
    <3> HIDE DEF x, y, G, reg
    <3>4. Max({x, y}) = IF x <= y THEN y ELSE x
      BY <3>1, MaxOfTwo
    <3> QED
      BY <1>1, <3>1, <3>2, <3>3, <3>4 DEF x
  <2>2. Gradual(d, Floors(d)) /\ Gradual(d, Leaves(d))
    BY FloorFacts, LeavesFacts
  <2>3. ASSUME NEW A \in SUBSET Rows(d), NEW B \in SUBSET Rows(d)
        PROVE  G[A] - Ideals(d)[A] <= G[B] - Ideals(d)[B] + Potentials(d)[A \ B]
    <3>1. A \ B \in SUBSET Rows(d)
      OBVIOUS
    <3> DEFINE x == Floors(d)[A]
               y == Floors(d)[B]
               u == Leaf(d, A)
               w == Leaf(d, B)
               m == Ideals(d)[A]
               n == Ideals(d)[B]
               p == Potentials(d)[A \ B]
               a == G[A]
               b == G[B]
    <3>2. m \in Nat /\ n \in Nat /\ p \in Nat
      BY <3>1, IdealFacts
    <3>3. x - m <= y - n + p
      BY <2>2 DEF Gradual
    <3>4. u - m <= w - n + p
      <4>1. Leaves(d)[A] - m <= Leaves(d)[B] - n + p
        BY <2>2 DEF Gradual
      <4>2. Leaves(d)[A] = u /\ Leaves(d)[B] = w
        BY DEF Leaves
      <4> QED
        BY <4>1, <4>2
    <3>5. /\ x \in Nat /\ y \in Nat /\ u \in Nat /\ w \in Nat
          /\ a = IF x + reg <= u THEN u ELSE x + reg
          /\ b = IF y + reg <= w THEN w ELSE y + reg
      BY <2>1
    <3> HIDE DEF x, y, u, w, m, n, p, a, b, reg
    <3>6. a - m <= b - n + p
      BY <1>1, <3>2, <3>3, <3>4, <3>5
    <3> QED
      BY <3>6 DEF a, b, m, n, p
  <2>4. G \in [SUBSET Rows(d) -> Int]
    <3>1. G = [S \in SUBSET Rows(d) |-> G[S]]
      BY DEF GuidedLeaves
    <3> HIDE DEF G
    <3> QED
      BY <2>1, <3>1
  <2> HIDE DEF G
  <2>5. Gradual(d, G)
    BY <2>3, <2>4 DEF Gradual
  <2>6. ASSUME NEW S \in SUBSET Rows(d) PROVE Leaf(d, S) <= G[S] /\ Floors(d)[S] + reg <= G[S]
    <3> DEFINE x == Floors(d)[S]
               u == Leaf(d, S)
    <3>1. /\ x \in Nat /\ u \in Nat /\ G[S] = IF x + reg <= u THEN u ELSE x + reg
      BY <2>1
    <3> HIDE DEF x, u, reg
    <3> QED
      BY <1>1, <3>1 DEF x, u
  <2> QED
    BY <2>5, <2>6 DEF G
<1> QED
  BY <1>2, <1>3

(* The two functions a judged dataset carries are values in this sense.    *)
LEMMA JudgedValues ==
  ASSUME NEW d, IsDataset(d), IsJudged(d)
  PROVE  IsValue(d, Leaves(d), d.optimum) /\ IsValue(d, GuidedLeaves(d), d.guarantee)
<1>1. \A S \in SUBSET Rows(d) : Leaf(d, S) <= Leaves(d)[S]
  <2>1. \A S \in SUBSET Rows(d) : Leaves(d)[S] = Leaf(d, S) /\ Leaf(d, S) \in Nat
    BY LeavesFacts
  <2>2. \A n \in Nat : n <= n
    OBVIOUS
  <2> QED
    BY <2>1, <2>2
<1> QED
  BY <1>1, LeavesFacts, GuidedFacts DEF IsJudged, IsValue

(* A split of rows that come with their twins keeps them together.         *)
TwinSets(d) == {S \in SUBSET Rows(d) : TwinClosed(d, S)}

(* A split keeps twins together.                                           *)
LEMMA TwinsStay ==
  ASSUME NEW d, IsDataset(d) PROVE SplitClosed(d, TwinSets(d)) /\ Rows(d) \in TwinSets(d)
BY DEF SplitClosed, TwinSets, TwinClosed, Twins, Subset

(* What a reference model guarantees is that of a leaf or, under a         *)
(* split, at least the floor and two leaves' regularization.               *)
LEMMA GuaranteeAtLeast ==
  ASSUME NEW d, IsDataset(d), NEW v, IsValue(d, GuidedLeaves(d), v), NEW S \in TwinSets(d), NEW k,
         <<S, k>> \in Keys(d)
  PROVE  /\ v[<<S, k>>] \in Int
         /\ \/ Leaf(d, S) <= v[<<S, k>>]
            \/ /\ Splittable(d, <<S, k>>) # {}
               /\ Floors(d)[S] + 2 * d.config.regularization <= v[<<S, k>>]
<1>1. Supports(d, Floors(d), GuidedLeaves(d), TwinSets(d))
  BY FloorFacts, GuidedFacts, TwinsStay DEF Supports, TwinSets
<1>2. v[<<S, k>>] \in Int
  BY ValueInt
<1>3. CASE v[<<S, k>>] = GuidedLeaves(d)[S]
  BY <1>2, <1>3, GuidedFacts DEF TwinSets
<1>4. CASE \E f \in Splittable(d, <<S, k>>) : v[<<S, k>>] = SplitLeast(d, GuidedLeaves(d), v, <<S, k>>, f)
  BY <1>1, <1>2, <1>4, ValueAtLeast
<1> QED
  BY <1>2, <1>3, <1>4, ValueIs

-----------------------------------------------------------------------------
(* A fresh task, when no capture set costs more than the cap on the root:  *)
(* where the constructor gives up on splitting, the leaf is best.          *)

(* No leaf costs more than the cap on the root.                            *)
LEMMA LeafCapped ==
  ASSUME NEW d, IsDataset(d), Capped(d), NEW S \in SUBSET Rows(d)
  PROVE  Leaf(d, S) <= d.config.one
<1>1. MaxLoss(d, S) <= MaxLoss(d, Rows(d))
  BY MaxLossGrows
<1>2. MaxLoss(d, S) \in Nat /\ MaxLoss(d, Rows(d)) \in Nat
  <2>1. Rows(d) \in SUBSET Rows(d)
    OBVIOUS
  <2> QED
    BY <2>1, MaxLossIs
<1>3. d.config.regularization \in Nat /\ d.config.one \in Nat
  BY DEF IsDataset, IsConfiguration
<1> QED
  BY <1>1, <1>2, <1>3 DEF Capped, Leaf

(* Where the constructor of Task gives up on splitting, for any of its     *)
(* reasons, no tree is better than the leaf.                               *)
LEMMA LeafIsBest ==
  ASSUME NEW d, IsDataset(d), Capped(d), NEW v, IsValue(d, GuidedLeaves(d), v),
         NEW S \in TwinSets(d), NEW k, <<S, k>> \in Keys(d),
         NEW F, Splittable(d, <<S, k>>) \subseteq F, IsLeaf(d, <<S, k>>, F)
  PROVE  Leaf(d, S) <= v[<<S, k>>]
<1> DEFINE reg == d.config.regularization
           x == Floors(d)[S]
           low == MinLoss(d, S)
           high == MaxLoss(d, S)
           one == d.config.one
           y == v[<<S, k>>]
           best == Leaf(d, S)
<1>1. S \in SUBSET Rows(d)
  BY DEF TwinSets
<1>2. y \in Int /\ (best <= y \/ (Splittable(d, <<S, k>>) # {} /\ x + 2 * reg <= y))
  BY GuaranteeAtLeast
<1>3. /\ reg \in Nat /\ one \in Nat /\ x \in Nat /\ low \in Nat /\ low <= x /\ high \in Nat /\ best = high + reg
  BY <1>1, FloorFacts, MaxLossIs DEF Leaf, IsDataset, IsConfiguration
<1>4. best <= one
  BY <1>1, LeafCapped
<1>5. /\ IsValue(d, GuidedLeaves(d), v) /\ <<S, k>>[1] = S /\ <<S, k>>[2] = k
  OBVIOUS
<1>0. SUFFICES best <= y
  BY DEF best, y
<1> HIDE DEF reg, x, low, high, one, y, best
<1>6. CASE one - low < reg
  BY <1>2, <1>3, <1>4, <1>6
<1>7. CASE Potential(d, S) < 2 * reg
  BY <1>7, FewDiffer DEF reg, best, y
<1>8. CASE high - low < reg
  BY <1>2, <1>3, <1>8
<1>9. CASE Cardinality(S) <= 1
  <2>1. ASSUME NEW f \in Splittable(d, <<S, k>>) PROVE FALSE
    <3> DEFINE T == Subset(d, S, f, FALSE)
    <3>1. T \in SUBSET Rows(d) /\ T \in SUBSET S /\ T # S /\ T # {}
      BY ChildIs
    <3> HIDE DEF T
    <3>2. IsFiniteSet(S)
      BY <1>1, RowsFinite
    <3>3. Cardinality(S) \in Nat /\ Cardinality(T) \in Nat /\ Cardinality(T) < Cardinality(S) /\ IsFiniteSet(T)
      BY <3>1, <3>2, ProperPart
    <3>4. Cardinality(T) = 0
      BY <1>9, <3>3
    <3> QED
      BY <3>1, <3>3, <3>4, FS_EmptySet
  <2> QED
    BY <1>2, <2>1
<1>10. CASE F = {}
  BY <1>2, <1>10
<1>11. CASE d.config.depth_budget # 0 /\ k = 1
  <2>1. Splittable(d, <<S, k>>) = {}
    BY <1>11 DEF Splittable
  <2> QED
    BY <1>2, <2>1
<1>12. \/ one - low < reg \/ Potential(d, S) < 2 * reg \/ high - low < reg
       \/ Cardinality(S) <= 1 \/ F = {} \/ (d.config.depth_budget # 0 /\ k = 1)
  BY <1>5 DEF IsLeaf, one, low, reg, high
<1> QED
  BY <1>6, <1>7, <1>8, <1>9, <1>10, <1>11, <1>12

(* And the bounds it starts with elsewhere hold too: the leaf is an        *)
(* upper bound, and no tree costs less than the lower bound.               *)
LEMMA NewTaskBounds ==
  ASSUME NEW d, IsDataset(d), Capped(d), NEW v, IsValue(d, GuidedLeaves(d), v),
         NEW S \in TwinSets(d), NEW k, <<S, k>> \in Keys(d), NEW F, Splittable(d, <<S, k>>) \subseteq F
  PROVE  LET t == NewTask(d, <<S, k>>, F)
         IN  /\ t.base = Leaf(d, S) /\ t.upper = Leaf(d, S) /\ Leaf(d, S) \in Nat
             /\ t.lower \in Nat /\ t.lower <= Leaf(d, S) /\ t.lower <= v[<<S, k>>]
             /\ t.guaranteed \in Int
<1> DEFINE reg == d.config.regularization
           x == Floors(d)[S]
           low == MinLoss(d, S)
           y == v[<<S, k>>]
           best == Leaf(d, S)
           t == NewTask(d, <<S, k>>, F)
           sure == GuaranteedMinLoss(d, S)
<1>1. S \in SUBSET Rows(d)
  BY DEF TwinSets
<1>2. y \in Int /\ (best <= y \/ x + 2 * reg <= y)
  BY GuaranteeAtLeast
<1>3. /\ reg \in Nat /\ x \in Nat /\ low \in Nat /\ low <= x /\ best \in Nat
  BY <1>1, FloorFacts, LeafAtLeast DEF IsDataset, IsConfiguration
<1>4. sure \in Nat
  <2> DEFINE m == MaxLoss(d, S)
             n == LossWith(d, S, d.majority)
             L == [U \in SUBSET Rows(d) |-> LossWith(d, U, d.majority)]
  <2>1. Additive(d, L) /\ Ideals(d)[S] <= L[S] /\ L[S] = n
    BY <1>1, LossWithFacts
  <2>2. m \in Nat /\ Ideals(d)[S] \in Nat
    BY <1>1, MaxLossIs, IdealFacts
  <2> HIDE DEF L
  <2>3. n \in Int
    BY <1>1, <2>1 DEF Additive
  <2>4. Ideals(d)[S] <= n
    BY <2>1
  <2>5. sure = Min({m, n})
    BY DEF GuaranteedMinLoss
  <2> HIDE DEF m, n, sure
  <2>6. n \in Nat
    BY <2>2, <2>3, <2>4
  <2> QED
    BY <2>2, <2>5, <2>6, MinOfTwo
<1>5. /\ t.base = best /\ t.upper = best
      /\ t.lower = IF IsLeaf(d, <<S, k>>, F) THEN best ELSE Min({best, low + 2 * reg})
      /\ t.guaranteed = Min({best, sure + 2 * reg})
  BY DEF NewTask, Leaf
<1>6. IsLeaf(d, <<S, k>>, F) => best <= y
  BY LeafIsBest
<1> HIDE DEF reg, x, low, y, best, t, sure
<1>7. low + 2 * reg \in Nat /\ sure + 2 * reg \in Nat
  BY <1>3, <1>4
<1>8. Min({best, low + 2 * reg}) = IF best <= low + 2 * reg THEN best ELSE low + 2 * reg
  BY <1>3, <1>7, MinOfTwo
<1>9. Min({best, sure + 2 * reg}) = IF best <= sure + 2 * reg THEN best ELSE sure + 2 * reg
  BY <1>3, <1>7, MinOfTwo
<1>10. t.lower \in Nat /\ t.lower <= best /\ t.lower <= y /\ t.guaranteed \in Int
  <2>1. CASE IsLeaf(d, <<S, k>>, F)
    BY <1>2, <1>3, <1>5, <1>6, <1>7, <1>9, <2>1
  <2>2. CASE ~IsLeaf(d, <<S, k>>, F)
    BY <1>2, <1>3, <1>5, <1>7, <1>8, <1>9, <2>2
  <2> QED
    BY <2>1, <2>2
<1> QED
  BY <1>3, <1>5, <1>10 DEF t, best, y

=============================================================================
