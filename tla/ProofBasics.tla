---------------------------- MODULE ProofBasics -----------------------------
(***************************************************************************)
(* Facts about numbers, finite sets and recursive functions that the       *)
(* proofs of several components use.                                       *)
(***************************************************************************)
EXTENDS Integers, FiniteSetsExt, FiniteSetTheorems, WellFoundedInduction, TLAPS

(* The least number of a set.                                              *)
LEMMA LeastNat ==
  ASSUME NEW T \in SUBSET Nat, T # {}
  PROVE  \E x \in T : \A y \in T : x <= y
<1> DEFINE I == {1 .. n : n \in T}
           R == StrictSubsetOrdering(Nat)
           F == FiniteSubsetsOf(Nat)
<1>1. \A n \in T : IsFiniteSet(1 .. n) /\ 1 .. n \in SUBSET Nat
  BY FS_Interval
<1>2. I \subseteq F /\ I # {}
  BY <1>1 DEF FiniteSubsetsOf
<1>3. IsWellFoundedOn(R, F)
  BY FS_StrictSubsetOrderingWellFounded
<1> HIDE DEF R, F
<1>4. PICK i \in I : \A j \in I : <<j, i>> \notin R
  BY <1>2, <1>3, WFMin
<1>5. PICK x \in T : i = 1 .. x
  BY <1>4
<1>6. ASSUME NEW y \in T, y < x PROVE FALSE
  <2>1. 1 .. y \subseteq 1 .. x /\ x \in 1 .. x /\ x \notin 1 .. y
    BY <1>6
  <2>2. <<1 .. y, i>> \notin R /\ 1 .. y \in SUBSET Nat /\ i \in SUBSET Nat
    BY <1>1, <1>4, <1>5
  <2> QED
    BY <1>5, <2>1, <2>2 DEF R, StrictSubsetOrdering
<1>7. \A y \in T : x <= y
  BY <1>6
<1> QED
  BY <1>7

(* The product of two natural numbers is one, and grows with them.         *)
LEMMA Products == ASSUME NEW a \in Nat, NEW b \in Nat PROVE a * b \in Nat
OBVIOUS

(* It grows with either.                                                   *)
LEMMA ProductsGrow == ASSUME NEW a \in Nat, NEW b \in Nat, NEW c \in Nat, b <= c PROVE a * b <= c * a
<1>1. a * (c - b) \in Nat
  BY Products
<1> QED
  BY <1>1

(* Taking a part of a finite set away.                                     *)
LEMMA Taken ==
  ASSUME NEW S, IsFiniteSet(S), NEW T \in SUBSET S
  PROVE  /\ IsFiniteSet(S \ T) /\ IsFiniteSet(T)
         /\ Cardinality(S) \in Nat /\ Cardinality(T) \in Nat
         /\ Cardinality(S \ T) = Cardinality(S) - Cardinality(T)
<1>1. IsFiniteSet(T) /\ IsFiniteSet(S \ T)
  BY FS_Subset
<1>2. Cardinality(S) \in Nat /\ Cardinality(T) \in Nat /\ Cardinality(S \ T) \in Nat
  BY <1>1, FS_CardinalityType
<1>3. (S \ T) \cup T = S /\ (S \ T) \cap T = {}
  OBVIOUS
<1>4. Cardinality((S \ T) \cup T) = Cardinality(S \ T) + Cardinality(T) - Cardinality((S \ T) \cap T)
  BY <1>1, FS_Union
<1> QED
  BY <1>1, <1>2, <1>3, <1>4, FS_EmptySet

(* A proper part of a finite set has fewer elements.                       *)
LEMMA ProperPart ==
  ASSUME NEW S, IsFiniteSet(S), NEW T \in SUBSET S, T # S
  PROVE  /\ IsFiniteSet(T)
         /\ Cardinality(S) \in Nat /\ Cardinality(T) \in Nat /\ Cardinality(T) < Cardinality(S)
<1>1. Cardinality(S) \in Nat /\ Cardinality(T) \in Nat /\ IsFiniteSet(T)
  BY Taken
<1>2. Cardinality(T) <= Cardinality(S) /\ Cardinality(T) # Cardinality(S)
  BY FS_Subset
<1> QED
  BY <1>1, <1>2

(* A family of sets has a smallest one, if one of them is finite.          *)
LEMMA SmallestSet ==
  ASSUME NEW F, F # {}, \A s \in F : IsFiniteSet(s)
  PROVE  \E s \in F : \A t \in F : ~(t \subseteq s /\ t # s)
<1> DEFINE N == {Cardinality(s) : s \in F}
<1>1. N \in SUBSET Nat /\ N # {}
  BY FS_CardinalityType
<1>2. PICK n \in N : \A m \in N : n <= m
  BY <1>1, LeastNat
<1>3. PICK s \in F : n = Cardinality(s)
  BY <1>2
<1>4. ASSUME NEW t \in F, t \subseteq s, t # s PROVE FALSE
  <2>1. Cardinality(t) \in Nat /\ Cardinality(s) \in Nat /\ Cardinality(t) < Cardinality(s)
    BY <1>4, ProperPart
  <2>2. n <= Cardinality(t)
    BY <1>2
  <2> QED
    BY <1>3, <2>1, <2>2
<1> QED
  BY <1>4

(* The values of a function on a finite set.                               *)
LEMMA ImageFinite ==
  ASSUME NEW S, IsFiniteSet(S), NEW f
  PROVE  IsFiniteSet({f[x] : x \in S})
<1> DEFINE T == {f[x] : x \in S}
           g == [x \in S |-> f[x]]
<1>1. g \in Surjection(S, T)
  BY DEF Surjection
<1> HIDE DEF T, g
<1>2. IsFiniteSet(T)
  BY <1>1, FS_Surjection
<1> QED
  BY <1>2 DEF T

(* Min and Max of a finite set of integers.                                *)
LEMMA MinIs ==
  ASSUME NEW T \in SUBSET Int, IsFiniteSet(T), T # {}
  PROVE  Min(T) \in T /\ \A y \in T : Min(T) <= y
<1> DEFINE below(x) == {y \in T : y < x}
           F == {below(x) : x \in T}
<1>1. \A s \in F : IsFiniteSet(s)
  BY FS_Subset
<1>2. PICK s \in F : \A t \in F : ~(t \subseteq s /\ t # s)
  <2> HIDE DEF below
  <2>1. F # {}
    OBVIOUS
  <2> HIDE DEF F
  <2> QED
    BY <1>1, <2>1, SmallestSet
<1>3. PICK x \in T : s = below(x)
  BY <1>2
<1>4. ASSUME NEW y \in T, y < x PROVE FALSE
  <2>0. x \in Int /\ y \in Int /\ \A z \in T : z \in Int
    OBVIOUS
  <2>1. y \in below(x) /\ y \notin below(y)
    BY <1>4, <2>0
  <2>2. ASSUME NEW z \in below(y) PROVE z \in below(x)
    BY <1>4, <2>0, <2>2
  <2> QED
    BY <1>2, <1>3, <2>1, <2>2
<1>5. \A y \in T : x <= y
  BY <1>4
<1> QED
  BY <1>5 DEF Min

(* Max of a finite set of integers is its greatest element.                *)
LEMMA MaxIs ==
  ASSUME NEW T \in SUBSET Int, IsFiniteSet(T), T # {}
  PROVE  Max(T) \in T /\ \A y \in T : y <= Max(T)
<1> DEFINE above(x) == {y \in T : y > x}
           F == {above(x) : x \in T}
<1>1. \A s \in F : IsFiniteSet(s)
  BY FS_Subset
<1>2. PICK s \in F : \A t \in F : ~(t \subseteq s /\ t # s)
  <2> HIDE DEF above
  <2>1. F # {}
    OBVIOUS
  <2> HIDE DEF F
  <2> QED
    BY <1>1, <2>1, SmallestSet
<1>3. PICK x \in T : s = above(x)
  BY <1>2
<1>4. ASSUME NEW y \in T, y > x PROVE FALSE
  <2>0. x \in Int /\ y \in Int /\ \A z \in T : z \in Int
    OBVIOUS
  <2>1. y \in above(x) /\ y \notin above(y)
    BY <1>4, <2>0
  <2>2. ASSUME NEW z \in above(y) PROVE z \in above(x)
    BY <1>4, <2>0, <2>2
  <2> QED
    BY <1>2, <1>3, <2>1, <2>2
<1>5. \A y \in T : x >= y
  BY <1>4
<1> QED
  BY <1>5 DEF Max

(* Min and Max of two numbers.                                             *)
LEMMA MinOfTwo ==
  ASSUME NEW a \in Int, NEW b \in Int
  PROVE  Min({a, b}) = IF a <= b THEN a ELSE b
<1>1. IsFiniteSet({a, b})
  <2>1. {a, b} = {a} \cup {b} /\ IsFiniteSet({a}) /\ IsFiniteSet({b})
    BY FS_Singleton
  <2>2. IsFiniteSet({a} \cup {b})
    BY <2>1, FS_Union
  <2> QED
    BY <2>1, <2>2
<1>2. Min({a, b}) \in {a, b} /\ \A y \in {a, b} : Min({a, b}) <= y
  <2>1. {a, b} \in SUBSET Int /\ {a, b} # {}
    OBVIOUS
  <2> QED
    BY <1>1, <2>1, MinIs
<1> QED
  BY <1>2

(* And Max.                                                                *)
LEMMA MaxOfTwo ==
  ASSUME NEW a \in Int, NEW b \in Int
  PROVE  Max({a, b}) = IF a <= b THEN b ELSE a
<1>1. IsFiniteSet({a, b})
  <2>1. {a, b} = {a} \cup {b} /\ IsFiniteSet({a}) /\ IsFiniteSet({b})
    BY FS_Singleton
  <2>2. IsFiniteSet({a} \cup {b})
    BY <2>1, FS_Union
  <2> QED
    BY <2>1, <2>2
<1>2. Max({a, b}) \in {a, b} /\ \A y \in {a, b} : y <= Max({a, b})
  <2>1. {a, b} \in SUBSET Int /\ {a, b} # {}
    OBVIOUS
  <2> QED
    BY <1>1, <2>1, MaxIs
<1> QED
  BY <1>2

(* A recursive definition over ranked arguments has a solution: B takes a  *)
(* guess of the function to the value its body has under that guess, and   *)
(* the body at x reads the guess at arguments of lower rank only.          *)
IsBody(B, D, V) == B \in [[D -> V] -> [D -> V]]

ReadsLower(B, D, V, rank) ==
  \A g, h \in [D -> V] : \A x \in D :
    (\A y \in D : rank[y] < rank[x] => g[y] = h[y]) => B[g][x] = B[h][x]

IsSolution(g, B, D, V) == g \in [D -> V] /\ B[g] = g

(* A recursion that only reads values of a lower rank has a solution.      *)
LEMMA RecursionSolved ==
  ASSUME NEW D, NEW V, V # {}, NEW B, IsBody(B, D, V), NEW N \in Nat, NEW rank \in [D -> 0 .. N],
         ReadsLower(B, D, V, rank)
  PROVE  \E g : IsSolution(g, B, D, V)
<1> USE DEF IsBody, ReadsLower, IsSolution
<1> DEFINE Solves(g, n) == \A x \in D : rank[x] < n => B[g][x] = g[x]
           Bad == {n \in 0 .. N + 1 : ~\E g \in [D -> V] : Solves(g, n)}
<1>1. Bad = {}
  <2> SUFFICES ASSUME Bad # {} PROVE FALSE
    OBVIOUS
  <2>0. Bad \in SUBSET Nat
    OBVIOUS
  <2>1. PICK n \in Bad : \A m \in Bad : n <= m
    <3> HIDE DEF Bad
    <3> QED
      BY <2>0, LeastNat
  <2>2. CASE n = 0
    <3>1. PICK v \in V : TRUE
      OBVIOUS
    <3>2. [x \in D |-> v] \in [D -> V] /\ Solves([x \in D |-> v], 0)
      OBVIOUS
    <3> QED
      BY <2>1, <2>2, <3>2
  <2>3. CASE n # 0
    <3>1. n - 1 \in 0 .. N + 1 /\ n - 1 \notin Bad
      BY <2>1, <2>3
    <3>2. PICK g \in [D -> V] : Solves(g, n - 1)
      BY <3>1
    <3>3. B[g] \in [D -> V]
      OBVIOUS
    <3>4. ASSUME NEW x \in D, rank[x] < n PROVE B[B[g]][x] = B[g][x]
      <4>1. \A y \in D : rank[y] < rank[x] => B[g][y] = g[y]
        BY <3>2, <3>4
      <4> QED
        BY <3>3, <4>1
    <3>5. Solves(B[g], n)
      BY <3>4
    <3> QED
      BY <2>1, <3>3, <3>5
  <2> QED
    BY <2>2, <2>3
<1>2. N + 1 \in 0 .. N + 1
  OBVIOUS
<1>3. PICK g \in [D -> V] : Solves(g, N + 1)
  BY <1>1, <1>2
<1>4. \A x \in D : B[g][x] = g[x]
  BY <1>3
<1> QED
  BY <1>4

=============================================================================
