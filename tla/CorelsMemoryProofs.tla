------------------------- MODULE CorelsMemoryProofs -------------------------
(***************************************************************************)
(* The inductive invariant of the CORELS search, for any arguments of fit. *)
(* Every step keeps it: first the shape of the prefix tree (what is linked *)
(* is in memory and linked up to the root, and what waits has nothing      *)
(* below it), then the rest.  It implies the promises of CorelsMemory.     *)
(***************************************************************************)
EXTENDS CorelsMemory, ProofBasics, SequenceTheorems

(* Facts about the beginnings of a sequence                                *)

(* The first k rules of a prefix.                                          *)
LEMMA PrefixAt ==
  ASSUME NEW s \in Seq(Nat), NEW k \in 0 .. Len(s)
  PROVE  /\ SubSeq(s, 1, k) \in Seq(Nat)
         /\ Len(SubSeq(s, 1, k)) = k
         /\ \A i \in 1 .. k : SubSeq(s, 1, k)[i] = s[i]
<1>1. Len(s) \in Nat /\ \A i \in 1 .. k : s[i] \in Nat
  OBVIOUS
<1>2. /\ SubSeq(s, 1, k) \in Seq(Nat)
      /\ Len(SubSeq(s, 1, k)) = IF 1 <= k THEN k - 1 + 1 ELSE 0
      /\ \A i \in 1 .. k - 1 + 1 : SubSeq(s, 1, k)[i] = s[1 + i - 1]
  BY <1>1, SubSeqProperties
<1> QED
  BY <1>1, <1>2

(* A beginning of a beginning is a beginning.                              *)
LEMMA PrefixOfPrefix ==
  ASSUME NEW s \in Seq(Nat), NEW k \in 0 .. Len(s), NEW j \in 0 .. k
  PROVE  SubSeq(SubSeq(s, 1, k), 1, j) = SubSeq(s, 1, j)
<1> DEFINE t == SubSeq(s, 1, k)
<1>1. t \in Seq(Nat) /\ Len(t) = k /\ \A i \in 1 .. k : t[i] = s[i]
  BY PrefixAt
<1>2. j \in 0 .. Len(s)
  OBVIOUS
<1>3. SubSeq(s, 1, j) \in Seq(Nat) /\ Len(SubSeq(s, 1, j)) = j /\ \A i \in 1 .. j : SubSeq(s, 1, j)[i] = s[i]
  BY <1>2, PrefixAt
<1> HIDE DEF t
<1>4. SubSeq(t, 1, j) \in Seq(Nat) /\ Len(SubSeq(t, 1, j)) = j /\ \A i \in 1 .. j : SubSeq(t, 1, j)[i] = t[i]
  BY <1>1, PrefixAt
<1>5. SubSeq(t, 1, j) = SubSeq(s, 1, j)
  BY <1>1, <1>3, <1>4, SeqEqual
<1> QED
  BY <1>5 DEF t

(* Being a prefix is being a beginning.                                    *)
LEMMA PrefixIs ==
  ASSUME NEW s \in Seq(Nat), NEW t \in Seq(Nat)
  PROVE  IsPrefix(s, t) <=> Len(s) <= Len(t) /\ s = SubSeq(t, 1, Len(s))
<1>1. SubSeq(s, 1, Len(s)) = s
  BY SubSeqFull
<1> QED
  BY <1>1 DEF IsPrefix

(* What Append and Front do to the beginnings of a sequence.               *)
LEMMA AppendAt ==
  ASSUME NEW s \in Seq(Nat), NEW e \in Nat
  PROVE  /\ Append(s, e) \in Seq(Nat)
         /\ Len(Append(s, e)) = Len(s) + 1
         /\ \A k \in 0 .. Len(s) : SubSeq(Append(s, e), 1, k) = SubSeq(s, 1, k)
         /\ Front(Append(s, e)) = s
<1> DEFINE t == Append(s, e)
<1>1. /\ t \in Seq(Nat)
      /\ Len(t) = Len(s) + 1
      /\ \A i \in 1 .. Len(s) : t[i] = s[i]
  BY AppendProperties
<1> HIDE DEF t
<1>2. ASSUME NEW k \in 0 .. Len(s) PROVE SubSeq(t, 1, k) = SubSeq(s, 1, k)
  <2>1. k \in 0 .. Len(t)
    BY <1>1
  <2>2. SubSeq(s, 1, k) \in Seq(Nat) /\ Len(SubSeq(s, 1, k)) = k /\ \A i \in 1 .. k : SubSeq(s, 1, k)[i] = s[i]
    BY PrefixAt
  <2>3. SubSeq(t, 1, k) \in Seq(Nat) /\ Len(SubSeq(t, 1, k)) = k /\ \A i \in 1 .. k : SubSeq(t, 1, k)[i] = t[i]
    BY <1>1, <2>1, PrefixAt
  <2> QED
    BY <1>1, <2>2, <2>3, SeqEqual
<1>3. Front(t) = SubSeq(t, 1, Len(s))
  BY <1>1 DEF Front
<1>4. SubSeq(s, 1, Len(s)) = s
  BY SubSeqFull
<1>5. Front(t) = s
  BY <1>2, <1>3, <1>4
<1> QED
  BY <1>1, <1>2, <1>5 DEF t

(* Being a prefix is an order, and the prefixes of a sequence are its      *)
(* beginnings.                                                             *)
LEMMA PrefixRefl ==
  ASSUME NEW s \in Seq(Nat) PROVE IsPrefix(s, s)
BY DEF IsPrefix

(* A prefix of a prefix is a prefix.                                       *)
LEMMA PrefixTrans ==
  ASSUME NEW s \in Seq(Nat), NEW t \in Seq(Nat), NEW u \in Seq(Nat),
         IsPrefix(s, t), IsPrefix(t, u)
  PROVE  IsPrefix(s, u)
<1>1. Len(s) \in 0 .. Len(t) /\ Len(t) \in 0 .. Len(u)
  BY DEF IsPrefix
<1>2. s = SubSeq(t, 1, Len(s)) /\ t = SubSeq(u, 1, Len(t))
  BY PrefixIs
<1>3. SubSeq(SubSeq(u, 1, Len(t)), 1, Len(s)) = SubSeq(u, 1, Len(s))
  BY <1>1, PrefixOfPrefix
<1> QED
  BY <1>1, <1>2, <1>3, PrefixIs

(* The prefixes of one sequence are ordered by their lengths.              *)
LEMMA PrefixBelow ==
  ASSUME NEW s \in Seq(Nat), NEW t \in Seq(Nat), NEW k \in 0 .. Len(t)
  PROVE  /\ IsPrefix(SubSeq(t, 1, k), t)
         /\ (IsPrefix(s, t) /\ Len(s) <= k) => IsPrefix(s, SubSeq(t, 1, k))
         /\ (IsPrefix(s, t) /\ Len(s) = Len(t)) => s = t
<1> DEFINE u == SubSeq(t, 1, k)
<1>1. u \in Seq(Nat) /\ Len(u) = k
  BY PrefixAt
<1>2. ASSUME IsPrefix(s, t), Len(s) <= k PROVE s = SubSeq(u, 1, Len(s))
  <2>1. Len(s) \in 0 .. k /\ s = SubSeq(t, 1, Len(s))
    BY <1>2, PrefixIs
  <2> QED
    BY <2>1, PrefixOfPrefix
<1>3. u = SubSeq(t, 1, Len(u))
  BY <1>1
<1> HIDE DEF u
<1>4. IsPrefix(u, t)
  BY <1>1, <1>3, PrefixIs
<1>5. (IsPrefix(s, t) /\ Len(s) <= k) => IsPrefix(s, u)
  BY <1>1, <1>2, PrefixIs
<1>6. (IsPrefix(s, t) /\ Len(s) = Len(t)) => s = t
  BY PrefixIs, SubSeqFull
<1> QED
  BY <1>4, <1>5, <1>6 DEF u

(* The longest proper prefix of a sequence is its Front.                   *)
LEMMA PrefixOfFront ==
  ASSUME NEW s \in Seq(Nat), NEW t \in Seq(Nat), t # <<>>
  PROVE  /\ Front(t) = SubSeq(t, 1, Len(t) - 1)
         /\ Front(t) \in Seq(Nat) /\ Len(Front(t)) = Len(t) - 1 /\ Len(t) - 1 \in 0 .. Len(t)
         /\ IsPrefix(Front(t), t)
         /\ (IsPrefix(s, t) /\ s # t) => IsPrefix(s, Front(t))
<1>1. Len(t) \in Nat \ {0}
  BY EmptySeq
<1>2. Len(t) - 1 \in 0 .. Len(t)
  BY <1>1
<1>3. Front(t) = SubSeq(t, 1, Len(t) - 1)
  BY DEF Front
<1>4. ASSUME IsPrefix(s, t), s # t PROVE Len(s) <= Len(t) - 1
  BY <1>4, <1>1, PrefixBelow DEF IsPrefix
<1>5. Front(t) \in Seq(Nat) /\ Len(Front(t)) = Len(t) - 1
  BY <1>2, <1>3, PrefixAt
<1>6. (IsPrefix(s, t) /\ Len(s) <= Len(t) - 1) => IsPrefix(s, Front(t))
  BY <1>2, <1>3, PrefixBelow
<1>7. IsPrefix(Front(t), t)
  BY <1>2, <1>3, PrefixBelow
<1> QED
  BY <1>2, <1>3, <1>4, <1>5, <1>6, <1>7

(* A sequence without repetition is as long as it has elements.            *)
LEMMA LengthCounts ==
  ASSUME NEW s \in Seq(Nat), IsInjective(s)
  PROVE  Cardinality(ToSet(s)) = Len(s)
<1>1. Len(s) \in Nat /\ DOMAIN s = 1 .. Len(s)
  OBVIOUS
<1>2. s \in [1 .. Len(s) -> ToSet(s)]
  BY <1>1 DEF ToSet
<1>3. s \in Injection(1 .. Len(s), ToSet(s))
  BY <1>1, <1>2 DEF Injection, IsInjective
<1>4. s \in Surjection(1 .. Len(s), ToSet(s))
  BY <1>1, <1>2 DEF Surjection, ToSet
<1>5. s \in Bijection(1 .. Len(s), ToSet(s))
  BY <1>3, <1>4 DEF Bijection
<1>6. IsFiniteSet(1 .. Len(s)) /\ Cardinality(1 .. Len(s)) = Len(s)
  <2>1. Len(s) \in Int /\ 1 \in Int
    BY <1>1
  <2>2. IsFiniteSet(1 .. Len(s)) /\ Cardinality(1 .. Len(s)) = IF 1 > Len(s) THEN 0 ELSE Len(s) - 1 + 1
    BY <2>1, FS_Interval
  <2> QED
    BY <1>1, <2>2
<1> QED
  BY <1>5, <1>6, FS_Bijection DEF ExistsBijection

-----------------------------------------------------------------------------
(* The invariant                                                           *)

Evaluating == pc = "evaluate"

(* The types, of nodes as far as the proof needs them.                     *)
NodeType ==
  [lower_bound : Int, objective : Int, equivalent_minority : Int, num_captured : Int,
   prediction : Int, done : BOOLEAN, deleted : BOOLEAN]

Types ==
  /\ fit \in Fits
  /\ minority \subseteq Samples
  /\ DOMAIN nodes \subseteq Seq(Nat)
  /\ \A q \in DOMAIN nodes : nodes[q] \in NodeType
  /\ linked \subseteq DOMAIN nodes \ {root}
  /\ queue \subseteq DOMAIN nodes
  /\ min_objective \in Int /\ collected \in Int
  /\ parent \in Seq(Nat) /\ next_rule \in Nat

(* A linked node is linked up to the root, by nodes that are done.         *)
Rooted ==
  \A q \in linked : \A k \in 0 .. Len(q) - 1 :
    /\ k # 0 => SubSeq(q, 1, k) \in linked
    /\ SubSeq(q, 1, k) \in DOMAIN nodes
    /\ nodes[SubSeq(q, 1, k)].done \/ (Evaluating /\ SubSeq(q, 1, k) = parent)

(* What waits in the queue is not done; unless it is dropped, or the root, *)
(* it is linked, and if it is dropped it is not.                           *)
Waiting ==
  \A q \in queue :
    /\ ~nodes[q].done
    /\ nodes[q].deleted => q \notin linked
    /\ ~nodes[q].deleted => q = root \/ q \in linked

(* The node evaluated is not waiting, and what is below it is new.         *)
Evaluated ==
  Evaluating =>
    /\ parent \in DOMAIN nodes /\ parent \notin queue
    /\ ~nodes[parent].done
    /\ parent = root \/ parent \in linked
    /\ \A n \in DOMAIN nodes :
         IsPrefix(parent, n) /\ n # parent =>
           \E r \in Nat : r < next_rule /\ n = Append(parent, r)

(* Nothing is below a node that waits.                                     *)
Fresh == \A q \in queue, n \in DOMAIN nodes : IsPrefix(q, n) => n = q

(* Before the search begins there is nothing.                              *)
NotBegun ==
  pc \in {"mine", "combine", "begin"} =>
    nodes = <<>> /\ linked = {} /\ queue = {} /\ pmap = <<>>

(* Whatever is linked was promising at the last collection.                *)
CollectedFor ==
  /\ min_objective <= collected
  /\ \A q \in linked : nodes[q].lower_bound + LookAhead < collected

(* The minority counted for a node is what it has not captured of it.      *)
MinorityCounted ==
  \A q \in DOMAIN nodes :
    nodes[q].equivalent_minority = Unit * Cardinality(NotCaptured(q) \cap minority)

(* A rule that captures nothing new does not make a bound better.          *)
BoundGrows ==
  \A q \in linked : \A k \in 1 .. Len(q) :
    NotCaptured(SubSeq(q, 1, k)) = NotCaptured(q) =>
      nodes[SubSeq(q, 1, k)].lower_bound <= nodes[q].lower_bound

NoRuleTwice == \A q \in DOMAIN nodes : IsInjective(q)

(* The captured map remembers each linked node, the prefix map an order    *)
(* for as many rules as the key has.                                       *)
CapturedMapRight ==
  fit.map = "captured" =>
    /\ \A q \in linked :
         /\ NotCaptured(q) \in DOMAIN pmap
         /\ pmap[NotCaptured(q)].prefix = q
         /\ pmap[NotCaptured(q)].lower_bound = nodes[q].lower_bound
    /\ \A key \in DOMAIN pmap : NotCaptured(pmap[key].prefix) = key

PrefixMapRight ==
  fit.map = "prefix" =>
    \A key \in DOMAIN pmap : DOMAIN pmap[key].prefix = 1 .. Cardinality(key)

Tree == Types /\ Rooted /\ Waiting /\ Evaluated /\ Fresh /\ NotBegun

Bounds == LinkedIsPromising /\ CollectedFor /\ MinorityCounted /\ BoundGrows

Memory == NoRuleTwice /\ CapturedMapRight /\ PrefixMapRight

IInv == Tree /\ Bounds /\ Memory

-----------------------------------------------------------------------------
(* The subtrees under D.                                                   *)
Below(D) == UNION {Reached(p) : p \in D}

(* What is below linked nodes is linked, and reached from them: the nodes  *)
(* between are done, unless one is being evaluated.                        *)
LEMMA LinkedBelow ==
  ASSUME Types, Rooted, NEW D \in SUBSET linked, Evaluating => \A p \in D : ~IsPrefix(p, parent)
  PROVE  /\ \A q \in Below(D) : q \in linked /\ \E p \in D : IsPrefix(p, q)
         /\ \A q \in linked, p \in D : IsPrefix(p, q) => q \in Below(D)
<1>1. ASSUME NEW p \in D, NEW q \in Reached(p) PROVE q \in linked /\ IsPrefix(p, q)
  <2>1. q \in DOMAIN nodes /\ q \in Seq(Nat) /\ p \in Seq(Nat) /\ IsPrefix(p, q)
    BY <1>1 DEF Reached, Types
  <2>2. CASE Len(p) = Len(q)
    BY <2>1, <2>2, PrefixBelow
  <2>3. CASE Len(p) # Len(q)
    <3>1. Len(q) \in Len(p) + 1 .. Len(q)
      BY <2>1, <2>3 DEF IsPrefix
    <3>2. SubSeq(q, 1, Len(q)) = q
      BY <2>1, SubSeqFull
    <3> QED
      BY <2>1, <3>1, <3>2 DEF Reached
  <2> QED
    BY <2>2, <2>3
<1>2. ASSUME NEW q \in linked, NEW p \in D, IsPrefix(p, q) PROVE q \in Reached(p)
  <2>1. q \in DOMAIN nodes /\ q \in Seq(Nat) /\ p \in Seq(Nat) /\ p # <<>> /\ Len(p) \in Nat /\ Len(q) \in Nat
    BY DEF Types, root
  <2>2. ASSUME NEW k \in Len(p) + 1 .. Len(q)
        PROVE  SubSeq(q, 1, k) \in linked /\ nodes[SubSeq(q, 1, k - 1)].done
    <3>1. k \in 1 .. Len(q) /\ k - 1 \in 0 .. Len(q) - 1 /\ Len(p) <= k - 1 /\ k - 1 \in 0 .. Len(q)
      BY <2>1
    <3>2. SubSeq(q, 1, Len(q)) = q
      BY <2>1, SubSeqFull
    <3>3. SubSeq(q, 1, k) \in linked
      <4>1. CASE k = Len(q)
        BY <3>2, <4>1
      <4>2. CASE k # Len(q)
        <5>1. k \in 0 .. Len(q) - 1 /\ k # 0
          BY <2>1, <3>1, <4>2
        <5> QED
          BY <5>1 DEF Rooted
      <4> QED
        BY <4>1, <4>2
    <3>4. IsPrefix(p, SubSeq(q, 1, k - 1))
      BY <1>2, <2>1, <3>1, PrefixBelow
    <3>5. ~(Evaluating /\ SubSeq(q, 1, k - 1) = parent)
      BY <3>4
    <3>6. nodes[SubSeq(q, 1, k - 1)].done
      BY <3>1, <3>5 DEF Rooted
    <3> QED
      BY <3>3, <3>6
  <2> QED
    BY <1>2, <2>1, <2>2 DEF Reached
<1> QED
  BY <1>1, <1>2 DEF Below

(* Marking a node changes nothing else of it.                              *)
LEMMA Marked ==
  ASSUME NEW r \in NodeType
  PROVE  LET m == [r EXCEPT !.deleted = TRUE]
         IN  /\ m \in NodeType /\ m.deleted
             /\ m.lower_bound = r.lower_bound
             /\ m.equivalent_minority = r.equivalent_minority
             /\ m.done = r.done
BY DEF NodeType

(* Dropping subtrees, none of which the node evaluated is in, leaves the   *)
(* rest of the tree as it was, and all that waits in memory.               *)
LEMMA Drop ==
  ASSUME Types, Rooted, Waiting, Evaluated,
         NEW D \in SUBSET linked, Evaluating => \A p \in D : ~IsPrefix(p, parent)
  PROVE  LET nd == NodesWithout(D)
             ln == LinkedWithout(D)
         IN  /\ ln \subseteq linked /\ ln \subseteq DOMAIN nd
             /\ \A q \in linked : q \in ln <=> q \notin Below(D)
             /\ DOMAIN nd \subseteq DOMAIN nodes
             /\ \A q \in DOMAIN nd :
                  /\ nd[q] \in NodeType
                  /\ nd[q].lower_bound = nodes[q].lower_bound
                  /\ nd[q].equivalent_minority = nodes[q].equivalent_minority
             /\ \A q \in queue :
                  /\ q \in DOMAIN nd
                  /\ ~nd[q].done
                  /\ nd[q].deleted => q \notin ln
                  /\ ~nd[q].deleted => q = root \/ q \in ln
             /\ \A q \in ln : \A k \in 0 .. Len(q) - 1 :
                  /\ k # 0 => SubSeq(q, 1, k) \in ln
                  /\ SubSeq(q, 1, k) \in DOMAIN nd
                  /\ nd[SubSeq(q, 1, k)].done \/ (Evaluating /\ SubSeq(q, 1, k) = parent)
             /\ Evaluating => /\ parent \in DOMAIN nd
                              /\ ~nd[parent].done
                              /\ parent = root \/ parent \in ln
<1> DEFINE nd == NodesWithout(D)
           ln == LinkedWithout(D)
<1>1. /\ \A q \in Below(D) : q \in linked /\ \E p \in D : IsPrefix(p, q)
      /\ \A q \in linked, p \in D : IsPrefix(p, q) => q \in Below(D)
  BY LinkedBelow
<1>2. Freed(D) = {q \in Below(D) : nodes[q].done}
  BY DEF Freed, Below
<1>3. /\ DOMAIN nd = DOMAIN nodes \ Freed(D)
      /\ \A q \in DOMAIN nd : nd[q] = IF q \in Below(D) THEN [nodes[q] EXCEPT !.deleted = TRUE] ELSE nodes[q]
  BY DEF NodesWithout, Below
<1>4. ln = {q \in linked \ D : Front(q) \notin Freed(D)}
  BY DEF LinkedWithout
<1>5. D \subseteq Below(D)
  <2>1. \A p \in D : p \in Seq(Nat)
    BY DEF Types
  <2> QED
    BY <1>1, <2>1, PrefixRefl
<1> HIDE DEF nd, ln
<1>6. ASSUME NEW q \in linked PROVE q \in ln <=> q \notin Below(D)
  <2>1. q \in Seq(Nat) /\ q # <<>> /\ q \in DOMAIN nodes
    BY DEF Types, root
  <2>2. ASSUME q \notin Below(D) PROVE q \in ln
    <3>1. Front(q) \notin Below(D)
      <4> SUFFICES ASSUME Front(q) \in Below(D) PROVE FALSE
        OBVIOUS
      <4>1. PICK p \in D : IsPrefix(p, Front(q))
        BY <1>1
      <4>2. p \in Seq(Nat)
        BY DEF Types
      <4>3. IsPrefix(p, q)
        BY <2>1, <4>1, <4>2, PrefixOfFront, PrefixTrans
      <4> QED
        BY <1>1, <2>2, <4>3
    <3> QED
      BY <1>2, <1>4, <1>5, <2>2, <3>1
  <2>3. ASSUME q \in Below(D), q \notin D PROVE q \notin ln
    <3>1. PICK p \in D : q \in Reached(p)
      BY <2>3 DEF Below
    <3>2. p \in Seq(Nat) /\ IsPrefix(p, q) /\ p # q /\ p # <<>>
      BY <2>3, <3>1 DEF Reached, Types, root
    <3>3. IsPrefix(p, Front(q)) /\ Front(q) = SubSeq(q, 1, Len(q) - 1) /\ Len(Front(q)) = Len(q) - 1
      BY <2>1, <3>2, PrefixOfFront
    <3>4. Len(p) \in Nat \ {0} /\ Len(q) \in Nat /\ Len(p) <= Len(q) - 1
      BY <2>1, <3>2, <3>3, EmptySeq DEF IsPrefix
    <3>5. Len(q) \in Len(p) + 1 .. Len(q) /\ Len(q) - 1 \in 0 .. Len(q) - 1 /\ Len(q) - 1 # 0
      <4>1. ASSUME NEW m \in Nat \ {0}, NEW n \in Nat, m <= n - 1
            PROVE  n \in m + 1 .. n /\ n - 1 \in 0 .. n - 1 /\ n - 1 # 0
        BY <4>1
      <4> QED
        BY <3>4, <4>1
    <3>6. nodes[Front(q)].done /\ Front(q) \in linked
      BY <3>1, <3>3, <3>5 DEF Reached, Rooted
    <3>7. Front(q) \in Below(D)
      BY <1>1, <3>3, <3>6
    <3> QED
      BY <1>2, <1>4, <3>6, <3>7
  <2>4. q \in D => q \notin ln
    BY <1>4
  <2> QED
    BY <2>2, <2>3, <2>4
<1>7. ASSUME NEW q \in DOMAIN nodes, q \notin Below(D) PROVE q \in DOMAIN nd /\ nd[q] = nodes[q]
  BY <1>2, <1>3, <1>7
<1>8. ASSUME NEW q \in DOMAIN nd
      PROVE  /\ q \in DOMAIN nodes
             /\ nd[q] \in NodeType
             /\ nd[q].lower_bound = nodes[q].lower_bound
             /\ nd[q].equivalent_minority = nodes[q].equivalent_minority
             /\ nd[q].done = nodes[q].done
             /\ q \in Below(D) => nd[q].deleted
  BY <1>3, Marked DEF Types
<1>9. root \notin Below(D)
  BY <1>1 DEF Types
<1>10. ln \subseteq linked /\ ln \subseteq DOMAIN nd
  BY <1>4, <1>6, <1>7 DEF Types
<1>11. ASSUME NEW q \in queue
       PROVE  /\ q \in DOMAIN nd
              /\ ~nd[q].done
              /\ nd[q].deleted => q \notin ln
              /\ ~nd[q].deleted => q = root \/ q \in ln
  <2>1. q \in DOMAIN nodes /\ ~nodes[q].done
    BY DEF Types, Waiting
  <2>2. q \in DOMAIN nd
    BY <1>2, <1>3, <2>1
  <2>3. CASE q \in Below(D)
    BY <1>1, <1>6, <1>8, <2>1, <2>2, <2>3
  <2>4. CASE q \notin Below(D)
    BY <1>6, <1>7, <1>10, <2>1, <2>4 DEF Waiting
  <2> QED
    BY <1>8, <2>1, <2>2, <2>3, <2>4
<1>12. ASSUME NEW q \in ln, NEW k \in 0 .. Len(q) - 1
       PROVE  /\ k # 0 => SubSeq(q, 1, k) \in ln
              /\ SubSeq(q, 1, k) \in DOMAIN nd
              /\ nd[SubSeq(q, 1, k)].done \/ (Evaluating /\ SubSeq(q, 1, k) = parent)
  <2> DEFINE a == SubSeq(q, 1, k)
  <2>1. q \in linked /\ q \in Seq(Nat) /\ k \in 0 .. Len(q)
    BY <1>10 DEF Types
  <2>2. /\ k # 0 => a \in linked
        /\ a \in DOMAIN nodes
        /\ nodes[a].done \/ (Evaluating /\ a = parent)
    BY <2>1 DEF Rooted
  <2>3. a \in Seq(Nat) /\ IsPrefix(a, q)
    BY <2>1, PrefixAt, PrefixBelow
  <2> HIDE DEF a
  <2>4. a \notin Below(D)
    <3> SUFFICES ASSUME a \in Below(D) PROVE FALSE
      OBVIOUS
    <3>1. PICK p \in D : IsPrefix(p, a)
      BY <1>1
    <3>2. IsPrefix(p, q)
      BY <2>1, <2>3, <3>1, PrefixTrans DEF Types
    <3> QED
      BY <1>1, <1>6, <2>1, <3>2
  <2>5. (k # 0 => a \in ln) /\ a \in DOMAIN nd /\ (nd[a].done \/ (Evaluating /\ a = parent))
    BY <1>6, <1>7, <2>2, <2>4
  <2> QED
    BY <2>5 DEF a
<1>13. ASSUME Evaluating PROVE parent \in DOMAIN nd /\ ~nd[parent].done /\ (parent = root \/ parent \in ln)
  <2>1. parent \notin Below(D)
    BY <1>1, <1>13
  <2> QED
    BY <1>6, <1>7, <1>13, <2>1 DEF Evaluated
<1>14. QED
  BY <1>6, <1>8, <1>10, <1>11, <1>12, <1>13 DEF nd, ln

-----------------------------------------------------------------------------
(* The numbers of a call.                                                  *)
LEMMA FitFacts ==
  ASSUME fit \in Fits
  PROVE  /\ fit.samples \in Nat \ {0}
         /\ fit.c \in Nat
         /\ LookAhead \in Nat
         /\ IsFiniteSet(Samples) /\ Cardinality(Samples) = fit.samples
<1>1. fit.samples \in Nat \ {0} /\ fit.c \in 0 .. fit.samples * Unit
  BY FitsAssumption DEF FitAssumption
<1>2. fit.samples * Unit \in Nat
  BY <1>1, UnitAssumption, Products
<1>3. fit.c \in Nat
  BY <1>1, <1>2
<1>4. IsFiniteSet(Samples) /\ Cardinality(Samples) = fit.samples
  <2>1. fit.samples \in Int /\ 1 \in Int /\ 1 <= fit.samples
    BY <1>1
  <2>2. IsFiniteSet(1 .. fit.samples) /\ Cardinality(1 .. fit.samples) = fit.samples - 1 + 1
    BY <2>1, FS_Interval
  <2> QED
    BY <2>1, <2>2 DEF Samples
<1>5. LookAhead \in Nat
  BY <1>3 DEF LookAhead
<1> QED
  BY <1>1, <1>3, <1>4, <1>5

(* No set of samples has more of them than there are, and its cost is a    *)
(* number.                                                                 *)
LEMMA Counts ==
  ASSUME fit \in Fits, NEW S \in SUBSET Samples
  PROVE  /\ Cardinality(S) \in Nat /\ Cardinality(S) <= fit.samples
         /\ Unit * Cardinality(S) \in Nat
<1>1. Cardinality(S) \in Nat /\ Cardinality(S) <= fit.samples
  BY FitFacts, FS_Subset, FS_CardinalityType
<1> QED
  BY <1>1, UnitAssumption, Products

(* What a set of samples costs is a number, and nothing for no samples.    *)
LEMMA Costs ==
  ASSUME fit \in Fits, NEW S \in SUBSET Samples
  PROVE  /\ Errors(S) \in Nat /\ Errors(S) <= fit.samples * Unit
         /\ Errors({}) = 0
         /\ Prediction(S) \in Nat
<1> DEFINE right(T) == IF Prediction(T) = 1 THEN T \cap fit.ones ELSE T \ fit.ones
<1>1. Correct(S) = Cardinality(right(S)) /\ Correct({}) = Cardinality(right({}))
  BY DEF Correct
<1>2. right(S) \subseteq S /\ right({}) = {}
  OBVIOUS
<1> HIDE DEF right
<1>3. IsFiniteSet(S)
  BY FitFacts, FS_Subset
<1>4. Cardinality(right(S)) \in Nat /\ Cardinality(S) \in Nat /\ Cardinality(right(S)) <= Cardinality(S)
  BY <1>2, <1>3, FS_Subset, FS_CardinalityType
<1>5. Cardinality(S) - Correct(S) \in Nat /\ Cardinality(S) - Correct(S) <= fit.samples
  <2>1. Cardinality(S) <= fit.samples /\ fit.samples \in Nat
    BY Counts, FitFacts
  <2>2. Correct(S) \in Nat /\ Correct(S) <= Cardinality(S)
    BY <1>1, <1>4
  <2> QED
    BY <1>4, <2>1, <2>2
<1>6. Errors(S) \in Nat /\ Errors(S) <= fit.samples * Unit
  BY <1>5, FitFacts, UnitAssumption, Products, ProductsGrow DEF Errors
<1>7. Cardinality({}) - Correct({}) = 0
  BY <1>1, <1>2, FS_EmptySet
<1>8. Errors({}) = 0
  BY <1>7, UnitAssumption DEF Errors
<1>9. Prediction(S) \in Nat
  BY DEF Prediction
<1> QED
  BY <1>6, <1>8, <1>9

-----------------------------------------------------------------------------
(* The node that Extend creates                                            *)

NewPrefix == Append(parent, next_rule)
NewLeft == NotCaptured(NewPrefix)
NewLower == PureBound + Unit * Cardinality(NewLeft \cap minority)
NewObjective == PureBound + Errors(NewLeft)
NewBest == IF NewObjective < min_objective THEN NewObjective ELSE min_objective

NewNode ==
  [lower_bound |-> NewLower, objective |-> NewObjective,
   equivalent_minority |-> Unit * Cardinality(NewLeft \cap minority),
   num_captured |-> fit.samples - Cardinality(NewLeft), prediction |-> Prediction(NewlyCaptured),
   done |-> FALSE, deleted |-> FALSE]

Linking == NewLower + LookAhead < NewBest /\ Admitted(NewPrefix, NewLower)

(* What Extend does, in these terms.                                       *)
LEMMA ExtendIs ==
  ASSUME Extend
  PROVE  /\ Evaluating /\ next_rule \notin ToSet(parent)
         /\ next_rule' = next_rule + 1
         /\ min_objective' = NewBest
         /\ UNCHANGED <<fit, rules, minority, pc, collected, parent>>
         /\ Linking => /\ nodes' = With(NodesWithout(Superseded(NewPrefix)), NewPrefix, NewNode)
                       /\ linked' = {NewPrefix} \cup LinkedWithout(Superseded(NewPrefix))
                       /\ queue' = queue \cup {NewPrefix}
                       /\ pmap' = Remembered(NewPrefix, NewLower)
         /\ ~Linking => UNCHANGED <<nodes, linked, queue, pmap>>
BY DEF Extend, Worthless, treeVars, Evaluating, Linking, NewPrefix, NewLeft, NewLower, NewObjective, NewBest, NewNode

(* A longer list captures no less.                                         *)
LEMMA CapturedGrows ==
  ASSUME NEW s \in Seq(Nat), NEW t \in Seq(Nat), IsPrefix(s, t)
  PROVE  NotCaptured(t) \subseteq NotCaptured(s)
<1>1. Len(s) \in 0 .. Len(t) /\ s = SubSeq(t, 1, Len(s))
  BY PrefixIs
<1>2. \A i \in 1 .. Len(s) : s[i] = t[i]
  BY <1>1, PrefixAt
<1>3. DOMAIN s = 1 .. Len(s) /\ DOMAIN t = 1 .. Len(t) /\ 1 .. Len(s) \subseteq 1 .. Len(t)
  BY <1>1
<1> QED
  BY <1>2, <1>3 DEF NotCaptured, Captured

(* The new prefix is new, below the node evaluated only, and bounded as it *)
(* should be.                                                              *)
LEMMA NewFacts ==
  ASSUME IInv, Evaluating, next_rule \notin ToSet(parent)
  PROVE  /\ NewPrefix \in Seq(Nat) /\ NewPrefix # root
         /\ Len(NewPrefix) = Len(parent) + 1 /\ Front(NewPrefix) = parent
         /\ NewPrefix \notin DOMAIN nodes
         /\ IsInjective(NewPrefix)
         /\ \A q \in Seq(Nat) : IsPrefix(q, NewPrefix) /\ q # NewPrefix => IsPrefix(q, parent)
         /\ \A n \in DOMAIN nodes : ~IsPrefix(NewPrefix, n)
         /\ NewNode \in NodeType /\ NewBest \in Int /\ NewBest <= min_objective
         /\ NotCaptured(NewPrefix) = NotCaptured(parent) => nodes[parent].lower_bound <= NewLower
<1> DEFINE b == NewPrefix
<1>1. parent \in Seq(Nat) /\ next_rule \in Nat /\ parent \in DOMAIN nodes /\ nodes[parent] \in NodeType
      /\ fit \in Fits /\ minority \subseteq Samples /\ min_objective \in Int
  BY DEF IInv, Tree, Types, Evaluated
<1>2. b \in Seq(Nat) /\ Len(b) = Len(parent) + 1 /\ Front(b) = parent /\ b # root /\ Len(parent) \in Nat
      /\ \A i \in 1 .. Len(parent) : b[i] = parent[i]
  BY <1>1, AppendAt, AppendProperties DEF NewPrefix, root
<1>0. b[Len(parent) + 1] = next_rule
  BY <1>1, AppendProperties DEF NewPrefix
<1> HIDE DEF b
<1>3. IsPrefix(parent, b)
  BY <1>1, <1>2, PrefixOfFront DEF root
<1>4. \A q \in Seq(Nat) : IsPrefix(q, b) /\ q # b => IsPrefix(q, parent)
  BY <1>2, PrefixOfFront DEF root
<1>5. ASSUME NEW n \in DOMAIN nodes, IsPrefix(b, n) PROVE FALSE
  <2>1. n \in Seq(Nat)
    BY DEF IInv, Tree, Types
  <2>2. IsPrefix(parent, n) /\ Len(b) <= Len(n) /\ n # parent
    BY <1>1, <1>2, <1>3, <1>5, <2>1, PrefixTrans DEF IsPrefix
  <2>3. PICK r \in Nat : r < next_rule /\ n = Append(parent, r)
    BY <2>2 DEF IInv, Tree, Evaluated
  <2>4. Len(n) = Len(b)
    BY <1>1, <1>2, <2>3, AppendAt
  <2>5. n = b
    BY <1>2, <1>5, <2>1, <2>4, PrefixBelow
  <2>6. n[Len(parent) + 1] = r
    BY <1>1, <2>3, AppendProperties
  <2>7. r = next_rule
    BY <1>0, <2>5, <2>6
  <2> QED
    BY <1>1, <2>3, <2>7
<1>6. b \notin DOMAIN nodes
  BY <1>2, <1>5, PrefixRefl
<1>7. IsInjective(b)
  <2>1. IsInjective(parent) /\ DOMAIN parent = 1 .. Len(parent) /\ DOMAIN b = 1 .. Len(parent) + 1
    BY <1>1, <1>2 DEF IInv, Memory, NoRuleTwice
  <2>2. \A i \in 1 .. Len(parent) : parent[i] # next_rule
    BY <2>1 DEF ToSet
  <2>3. \A i \in 1 .. Len(parent) + 1 : i \in 1 .. Len(parent) \/ i = Len(parent) + 1
    BY <1>2
  <2> QED
    BY <1>0, <1>2, <2>1, <2>2, <2>3 DEF IsInjective
<1>8. NewLeft \subseteq Samples /\ NewlyCaptured \subseteq Samples /\ NewLeft \cap minority \subseteq Samples
      /\ NotCaptured(parent) \cap minority \subseteq Samples
  BY DEF NewLeft, NewlyCaptured, NotCaptured
<1>9. /\ Unit * Cardinality(NewLeft \cap minority) \in Nat /\ Cardinality(NewLeft) \in Nat
      /\ Errors(NewLeft) \in Nat /\ Errors(NewlyCaptured) \in Nat /\ Prediction(NewlyCaptured) \in Nat
      /\ fit.samples \in Nat /\ fit.c \in Nat
  BY <1>1, <1>8, Counts, Costs, FitFacts
<1>10. nodes[parent].lower_bound \in Int /\ nodes[parent].equivalent_minority \in Int
  BY <1>1 DEF NodeType
<1>11. PureBound \in Int
  BY <1>9, <1>10 DEF PureBound
<1>12. NewLower \in Int /\ NewObjective \in Int /\ NewBest \in Int /\ NewBest <= min_objective
  BY <1>1, <1>9, <1>11 DEF NewLower, NewObjective, NewBest
<1>13. NewNode \in NodeType
  BY <1>9, <1>12 DEF NewNode, NodeType
<1>14. ASSUME NotCaptured(b) = NotCaptured(parent) PROVE nodes[parent].lower_bound <= NewLower
  <2>1. NewlyCaptured = {}
    <3>1. ASSUME NEW s \in NewlyCaptured PROVE FALSE
      <4>1. s \in Samples /\ s \in rules[next_rule].captured /\ s \in NotCaptured(parent)
        BY <3>1 DEF NewlyCaptured, NotCaptured
      <4>2. DOMAIN b = 1 .. Len(parent) + 1 /\ Len(parent) + 1 \in 1 .. Len(parent) + 1
        BY <1>2
      <4>3. s \in Captured(b)
        BY <1>0, <4>1, <4>2 DEF Captured
      <4> QED
        BY <1>14, <4>1, <4>3 DEF NotCaptured
    <3> QED
      BY <3>1
  <2>2. Errors(NewlyCaptured) = 0
    BY <1>1, <2>1, Costs
  <2>3. nodes[parent].equivalent_minority = Unit * Cardinality(NewLeft \cap minority)
    BY <1>1, <1>14 DEF IInv, Bounds, MinorityCounted, NewLeft, b
  <2> QED
    BY <1>9, <1>10, <2>2, <2>3 DEF NewLower, PureBound
<1> QED
  BY <1>2, <1>4, <1>5, <1>6, <1>7, <1>12, <1>13, <1>14 DEF b

(* A subtree that the new node takes the place of is not one the node      *)
(* evaluated is in: what captures no more is no better.                    *)
LEMMA SupersededAside ==
  ASSUME IInv, Extend, Linking
  PROVE  \A p \in Superseded(NewPrefix) : ~IsPrefix(p, parent)
<1> DEFINE b == NewPrefix
           key == Key(b)
<1>1. /\ parent \in Seq(Nat) /\ parent \in DOMAIN nodes /\ nodes[parent] \in NodeType /\ fit \in Fits
      /\ Evaluating /\ next_rule \notin ToSet(parent)
      /\ parent = root \/ parent \in linked
  BY ExtendIs DEF IInv, Tree, Types, Evaluated
<1>2. /\ b \in Seq(Nat) /\ b # root /\ Len(b) = Len(parent) + 1 /\ Front(b) = parent /\ IsInjective(b)
      /\ NotCaptured(b) = NotCaptured(parent) => nodes[parent].lower_bound <= NewLower
  BY <1>1, NewFacts
<1>3. NewLower \in Int
  BY <1>1, NewFacts DEF NewNode, NodeType
<1>4. fit.map \in {"none", "prefix", "captured"}
  BY <1>1, FitsAssumption DEF FitAssumption
<1> SUFFICES ASSUME NEW p \in Superseded(b), IsPrefix(p, parent) PROVE FALSE
  OBVIOUS
<1>5. p \in linked /\ fit.map # "none" /\ key \in DOMAIN pmap /\ p = Permuted(key)
  BY DEF Superseded
<1>6. NewLower < pmap[key].lower_bound
  BY <1>5 DEF Linking, Admitted
<1>7. p \in Seq(Nat) /\ p # root /\ p \in DOMAIN nodes /\ nodes[p] \in NodeType
  BY <1>5 DEF IInv, Tree, Types
<1>8. Len(p) \in 1 .. Len(parent) /\ SubSeq(parent, 1, Len(p)) = p
  BY <1>1, <1>7, EmptySeq, PrefixIs DEF root
<1>9. CASE fit.map = "captured"
  <2>1. key = NotCaptured(b) /\ p = pmap[key].prefix
    BY <1>5, <1>9 DEF Key, Permuted
  <2>2. NotCaptured(p) = key /\ pmap[key].lower_bound = nodes[p].lower_bound
    BY <1>5, <1>9, <2>1 DEF IInv, Memory, CapturedMapRight
  <2>3. IsPrefix(parent, b)
    BY <1>2, PrefixOfFront DEF root
  <2>4. NotCaptured(parent) = NotCaptured(p) /\ NotCaptured(parent) = NotCaptured(b)
    <3>1. NotCaptured(b) \subseteq NotCaptured(parent)
      BY <1>1, <1>2, <2>3, CapturedGrows
    <3>2. NotCaptured(parent) \subseteq NotCaptured(p)
      BY <1>1, <1>7, CapturedGrows
    <3> QED
      BY <2>1, <2>2, <3>1, <3>2
  <2>5. parent \in linked
    BY <1>1, <1>8, EmptySeq DEF root
  <2>6. nodes[p].lower_bound <= nodes[parent].lower_bound
    BY <1>8, <2>4, <2>5 DEF IInv, Bounds, BoundGrows
  <2> QED
    BY <1>1, <1>2, <1>3, <1>6, <1>7, <2>2, <2>4, <2>6 DEF NodeType
<1>10. CASE fit.map = "prefix"
  <2>1. key = ToSet(b) /\ DOMAIN p = DOMAIN pmap[key].prefix
    BY <1>5, <1>10 DEF Key, Permuted
  <2>2. DOMAIN p = 1 .. Len(b)
    BY <1>2, <1>5, <1>10, <2>1, LengthCounts DEF IInv, Memory, PrefixMapRight
  <2>3. Len(p) = Len(b)
    BY <1>2, <1>7, <2>2
  <2> QED
    BY <1>1, <1>2, <1>8, <2>3
<1> QED
  BY <1>4, <1>5, <1>9, <1>10

-----------------------------------------------------------------------------
(* What Extend leaves of the tree, and the node it adds.                   *)
LEMMA Grown ==
  ASSUME IInv, Extend, Linking
  PROVE  LET nd == NodesWithout(Superseded(NewPrefix))
             ln == LinkedWithout(Superseded(NewPrefix))
         IN  /\ linked' = {NewPrefix} \cup ln
             /\ DOMAIN nodes' = {NewPrefix} \cup DOMAIN nd
             /\ nodes'[NewPrefix] = NewNode
             /\ \A q \in DOMAIN nd : nodes'[q] = nd[q]
             /\ NewPrefix \notin DOMAIN nd
             /\ Superseded(NewPrefix) \in SUBSET linked
             /\ \A p \in Superseded(NewPrefix) : ~IsPrefix(p, parent)
<1> DEFINE nd == NodesWithout(Superseded(NewPrefix))
<1>1. Superseded(NewPrefix) \in SUBSET linked /\ \A p \in Superseded(NewPrefix) : ~IsPrefix(p, parent)
  BY SupersededAside DEF Superseded
<1>2. DOMAIN nd \subseteq DOMAIN nodes
  BY DEF NodesWithout
<1>3. NewPrefix \notin DOMAIN nd
  BY <1>2, ExtendIs, NewFacts
<1> HIDE DEF nd
<1>4. nodes' = With(nd, NewPrefix, NewNode)
  BY ExtendIs DEF nd
<1>5. /\ DOMAIN nodes' = {NewPrefix} \cup DOMAIN nd
      /\ nodes'[NewPrefix] = NewNode
      /\ \A q \in DOMAIN nd : nodes'[q] = nd[q]
  BY <1>3, <1>4 DEF With
<1> QED
  BY <1>1, <1>3, <1>5, ExtendIs DEF nd

(* The shape of the tree                                                   *)

(* Extend drops the subtree superseded and adds a leaf.                    *)
LEMMA ExtendTree == IInv /\ Extend => Tree'
<1> SUFFICES ASSUME IInv, Extend PROVE Tree'
  OBVIOUS
<1> DEFINE b == NewPrefix
           nd == NodesWithout(Superseded(b))
           ln == LinkedWithout(Superseded(b))
<1>1. /\ Evaluating /\ Evaluating' /\ pc' = pc /\ next_rule \notin ToSet(parent)
      /\ next_rule' = next_rule + 1 /\ parent' = parent /\ fit' = fit /\ rules' = rules /\ minority' = minority
      /\ collected' = collected /\ min_objective' = NewBest
  BY ExtendIs DEF Evaluating
<1>2. Types /\ Rooted /\ Waiting /\ Evaluated /\ Fresh
  BY DEF IInv, Tree
<1>3. /\ b \in Seq(Nat) /\ b # root /\ Len(b) = Len(parent) + 1 /\ Front(b) = parent /\ b \notin DOMAIN nodes
      /\ \A q \in Seq(Nat) : IsPrefix(q, b) /\ q # b => IsPrefix(q, parent)
      /\ \A n \in DOMAIN nodes : ~IsPrefix(b, n)
      /\ NewNode \in NodeType /\ NewBest \in Int
  BY <1>1, NewFacts
<1>4. NotBegun'
  BY <1>1 DEF NotBegun, Evaluating
<1>5. Samples' = Samples
  BY <1>1 DEF Samples
<1>6. CASE ~Linking
  <2>1. UNCHANGED <<nodes, linked, queue>>
    BY <1>6, ExtendIs
  <2>2. Types'
    BY <1>1, <1>2, <1>3, <1>5, <2>1 DEF Types
  <2>3. Rooted' /\ Waiting' /\ Fresh'
    BY <1>1, <1>2, <2>1 DEF Rooted, Waiting, Fresh
  <2>4. Evaluated'
    <3>1. next_rule \in Nat
      BY <1>2 DEF Types
    <3> QED
      BY <1>1, <1>2, <2>1, <3>1 DEF Evaluated
  <2> QED
    BY <1>4, <2>2, <2>3, <2>4 DEF Tree
<1>7. CASE Linking
  <2>1. /\ linked' = {b} \cup ln /\ queue' = queue \cup {b}
        /\ DOMAIN nodes' = {b} \cup DOMAIN nd
        /\ nodes'[b] = NewNode
        /\ \A q \in DOMAIN nd : nodes'[q] = nd[q]
        /\ b \notin DOMAIN nd
    BY <1>7, Grown, ExtendIs
  <2>2. /\ ln \subseteq linked /\ ln \subseteq DOMAIN nd
        /\ DOMAIN nd \subseteq DOMAIN nodes
        /\ \A q \in DOMAIN nd : nd[q] \in NodeType
        /\ \A q \in queue :
             /\ q \in DOMAIN nd
             /\ ~nd[q].done
             /\ nd[q].deleted => q \notin ln
             /\ ~nd[q].deleted => q = root \/ q \in ln
        /\ \A q \in ln : \A k \in 0 .. Len(q) - 1 :
             /\ k # 0 => SubSeq(q, 1, k) \in ln
             /\ SubSeq(q, 1, k) \in DOMAIN nd
             /\ nd[SubSeq(q, 1, k)].done \/ (Evaluating /\ SubSeq(q, 1, k) = parent)
        /\ parent \in DOMAIN nd
        /\ ~nd[parent].done
        /\ parent = root \/ parent \in ln
    BY <1>1, <1>2, <1>7, Drop, Grown
  <2>3. ~NewNode.done /\ ~NewNode.deleted
    BY DEF NewNode
  <2>4. parent \in Seq(Nat) /\ next_rule \in Nat /\ parent \notin queue /\ parent # b
        /\ DOMAIN nodes \subseteq Seq(Nat) /\ queue \subseteq DOMAIN nodes
    BY <1>1, <1>2, <1>3 DEF Types, Evaluated
  <2> HIDE DEF b, nd, ln
  <2>5. Types'
    BY <1>1, <1>2, <1>3, <1>5, <2>1, <2>2, <2>4 DEF Types
  <2>6. Rooted'
    <3> SUFFICES ASSUME NEW q \in linked', NEW k \in 0 .. Len(q) - 1
                 PROVE  /\ k # 0 => SubSeq(q, 1, k) \in linked'
                        /\ SubSeq(q, 1, k) \in DOMAIN nodes'
                        /\ nodes'[SubSeq(q, 1, k)].done \/ SubSeq(q, 1, k) = parent
      BY <1>1 DEF Rooted
    <3>1. CASE q \in ln
      BY <2>1, <2>2, <3>1
    <3>2. CASE q = b
      <4>1. k \in 0 .. Len(parent) /\ Len(parent) \in Nat
        BY <1>3, <2>4, <3>2
      <4>2. SubSeq(b, 1, k) = SubSeq(parent, 1, k)
        BY <2>4, <4>1, AppendAt DEF b, NewPrefix
      <4>3. CASE k = Len(parent)
        <5>1. SubSeq(parent, 1, k) = parent
          BY <2>4, <4>3, SubSeqFull
        <5>2. k # 0 => parent # root
          BY <2>4, <4>3 DEF root
        <5> QED
          BY <2>1, <2>2, <3>2, <4>2, <5>1, <5>2
      <4>4. CASE k # Len(parent)
        <5>1. k \in 0 .. Len(parent) - 1 /\ parent # root
          BY <2>4, <4>1, <4>4 DEF root
        <5>2. parent \in ln
          BY <2>2, <5>1
        <5> QED
          BY <2>1, <2>2, <3>2, <4>2, <5>1, <5>2
      <4> QED
        BY <4>3, <4>4
    <3> QED
      BY <2>1, <3>1, <3>2
  <2>7. Waiting'
    BY <2>1, <2>2, <2>3, <1>3, <2>4 DEF Waiting, root
  <2>8. Fresh'
    <3> SUFFICES ASSUME NEW q \in queue', NEW n \in DOMAIN nodes', IsPrefix(q, n) PROVE n = q
      BY DEF Fresh
    <3>1. CASE q \in queue /\ n \in DOMAIN nodes
      BY <1>2, <3>1 DEF Fresh
    <3>2. CASE q \in queue /\ n = b
      <4>1. q \in Seq(Nat) /\ q # b
        BY <1>3, <2>4, <3>2
      <4>2. IsPrefix(q, parent)
        BY <1>3, <3>2, <4>1
      <4> QED
        BY <1>2, <2>2, <2>4, <3>2, <4>2 DEF Fresh
    <3>3. CASE q = b /\ n \in DOMAIN nodes
      BY <1>3, <3>3
    <3> QED
      BY <2>1, <2>2, <3>1, <3>2, <3>3
  <2>9. Evaluated'
    <3>1. \A n \in DOMAIN nodes' : IsPrefix(parent, n) /\ n # parent =>
            \E r \in Nat : r < next_rule + 1 /\ n = Append(parent, r)
      <4> SUFFICES ASSUME NEW n \in DOMAIN nodes', IsPrefix(parent, n), n # parent
                   PROVE  \E r \in Nat : r < next_rule + 1 /\ n = Append(parent, r)
        OBVIOUS
      <4>1. CASE n = b
        BY <2>4, <4>1 DEF b, NewPrefix
      <4>2. CASE n \in DOMAIN nodes
        <5>1. PICK r \in Nat : r < next_rule /\ n = Append(parent, r)
          BY <1>1, <1>2, <4>2 DEF Evaluated
        <5> QED
          BY <2>4, <5>1
      <4> QED
        BY <2>1, <2>2, <4>1, <4>2
    <3> QED
      BY <1>1, <2>1, <2>2, <2>4, <3>1 DEF Evaluated
  <2> QED
    BY <1>4, <2>5, <2>6, <2>7, <2>8, <2>9 DEF Tree
<1> QED
  BY <1>6, <1>7

(* select frees a node that no link leads to.                              *)
LEMMA DiscardTree == IInv /\ Discard => Tree'
<1> SUFFICES ASSUME IInv, Discard PROVE Tree'
  OBVIOUS
<1>1. PICK top \in Tops :
        /\ pc = "select"
        /\ nodes[top].deleted \/ Hopeless(nodes[top])
        /\ queue' = queue \ {top}
        /\ nodes' = [q \in DOMAIN nodes \ {top} |-> nodes[q]]
        /\ pc' = IF queue' = {} THEN "loop" ELSE "select"
        /\ UNCHANGED <<fit, rules, minority, linked, min_objective, collected, parent, next_rule>>
  BY DEF Discard, bestVars
<1>2. Types /\ Rooted /\ Waiting /\ Fresh
  BY DEF IInv, Tree
<1>3. top \in queue /\ top \in DOMAIN nodes /\ ~nodes[top].done
  BY <1>2 DEF Tops, Types, Waiting
<1>4. top \notin linked
  BY <1>1, <1>2, <1>3 DEF Waiting, IInv, Bounds, LinkedIsPromising
<1>5. Evaluated' /\ NotBegun'
  BY <1>1 DEF Evaluated, Evaluating, NotBegun
<1>6. Samples' = Samples
  BY <1>1 DEF Samples
<1>7. Types'
  BY <1>1, <1>2, <1>3, <1>4, <1>6 DEF Types
<1>8. Rooted'
  BY <1>1, <1>2, <1>3, <1>4 DEF Rooted, Evaluating
<1>9. Waiting' /\ Fresh'
  BY <1>1, <1>2 DEF Waiting, Fresh, Types
<1> QED
  BY <1>5, <1>7, <1>8, <1>9 DEF Tree

(* Nothing is below the node selected yet.                                 *)
LEMMA SelectTree == IInv /\ Select => Tree'
<1> SUFFICES ASSUME IInv, Select PROVE Tree'
  OBVIOUS
<1>1. PICK top \in Tops :
        /\ pc = "select"
        /\ ~nodes[top].deleted
        /\ queue' = queue \ {top}
        /\ parent' = top
        /\ next_rule' = 1
        /\ pc' = "evaluate"
        /\ UNCHANGED <<fit, rules, minority, nodes, linked, min_objective, collected>>
  BY DEF Select, bestVars, treeVars
<1>2. Types /\ Rooted /\ Waiting /\ Fresh
  BY DEF IInv, Tree
<1>3. top \in queue /\ top \in DOMAIN nodes /\ ~nodes[top].done /\ top \in Seq(Nat) /\ (top = root \/ top \in linked)
  BY <1>1, <1>2 DEF Tops, Types, Waiting
<1>4. Evaluated'
  <2>1. \A n \in DOMAIN nodes : IsPrefix(top, n) => n = top
    BY <1>2, <1>3 DEF Fresh
  <2> QED
    BY <1>1, <1>3, <2>1 DEF Evaluated
<1>5. NotBegun'
  BY <1>1 DEF NotBegun
<1>6. Samples' = Samples
  BY <1>1 DEF Samples
<1>7. Types'
  BY <1>1, <1>2, <1>3, <1>6 DEF Types
<1>8. Rooted'
  BY <1>1, <1>2 DEF Rooted, Evaluating
<1>9. Waiting' /\ Fresh'
  BY <1>1, <1>2 DEF Waiting, Fresh
<1> QED
  BY <1>4, <1>5, <1>7, <1>8, <1>9 DEF Tree

(* Each step of the search keeps the tree in order: here skipping a node   *)
(* taken from the queue.                                                   *)
LEMMA SkipTree == IInv /\ Skip => Tree'
<1> SUFFICES ASSUME IInv, Skip PROVE Tree'
  OBVIOUS
<1>1. /\ Evaluating /\ next_rule' = next_rule + 1
      /\ UNCHANGED <<fit, rules, minority, pc, nodes, linked, queue, pmap, min_objective, collected, parent>>
  BY DEF Skip, treeVars, bestVars, Evaluating
<1>2. Types /\ Rooted /\ Waiting /\ Fresh /\ NotBegun /\ Evaluated
  BY DEF IInv, Tree
<1>3. Samples' = Samples
  BY <1>1 DEF Samples
<1>4. Types' /\ Rooted' /\ Waiting' /\ Fresh' /\ NotBegun'
  BY <1>1, <1>2, <1>3 DEF Types, Rooted, Waiting, Fresh, NotBegun, Evaluating
<1>5. Evaluated'
  <2>1. next_rule \in Nat
    BY <1>2 DEF Types
  <2> QED
    BY <1>1, <1>2, <2>1 DEF Evaluated, Evaluating
<1> QED
  BY <1>4, <1>5 DEF Tree

(* And going on with a node's next rule.                                   *)
LEMMA ContinueTree == IInv /\ Continue => Tree'
<1> SUFFICES ASSUME IInv, Continue PROVE Tree'
  OBVIOUS
<1>1. /\ pc = "loop" /\ pc' = "select"
      /\ UNCHANGED <<fit, rules, minority, nodes, linked, queue, pmap, min_objective, collected, parent, next_rule>>
  BY DEF Continue, searchVars, treeVars, bestVars
<1>2. Types /\ Rooted /\ Waiting /\ Fresh
  BY DEF IInv, Tree
<1>3. Samples' = Samples
  BY <1>1 DEF Samples
<1> QED
  BY <1>1, <1>2, <1>3 DEF Tree, Types, Rooted, Waiting, Fresh, NotBegun, Evaluated, Evaluating

(* The node evaluated is done, and so are all that have children.          *)
LEMMA DoneTree == IInv /\ Done => Tree'
<1> SUFFICES ASSUME IInv, Done PROVE Tree'
  OBVIOUS
<1>1. /\ Evaluating /\ pc' = "collect"
      /\ nodes' = [nodes EXCEPT ![parent].done = TRUE]
      /\ UNCHANGED <<fit, rules, minority, linked, queue, pmap, min_objective, collected, parent, next_rule>>
  BY DEF Done, bestVars, Evaluating
<1>2. Types /\ Rooted /\ Waiting /\ Fresh /\ Evaluated
  BY DEF IInv, Tree
<1>3. parent \in DOMAIN nodes /\ parent \notin queue
  BY <1>1, <1>2 DEF Evaluated
<1>4. /\ DOMAIN nodes' = DOMAIN nodes
      /\ \A q \in DOMAIN nodes \ {parent} : nodes'[q] = nodes[q]
      /\ nodes'[parent] = [nodes[parent] EXCEPT !.done = TRUE]
  BY <1>1, <1>3
<1>5. nodes'[parent] \in NodeType /\ nodes'[parent].done
  <2>1. nodes[parent] \in NodeType
    BY <1>2, <1>3 DEF Types
  <2> QED
    BY <1>4, <2>1 DEF NodeType
<1>6. Samples' = Samples
  BY <1>1 DEF Samples
<1>7. Types'
  <2>1. \A q \in DOMAIN nodes : nodes'[q] \in NodeType
    BY <1>2, <1>4, <1>5 DEF Types
  <2> QED
    BY <1>1, <1>2, <1>4, <1>6, <2>1 DEF Types
<1>8. Rooted'
  <2> SUFFICES ASSUME NEW q \in linked, NEW k \in 0 .. Len(q) - 1
               PROVE  /\ k # 0 => SubSeq(q, 1, k) \in linked
                      /\ SubSeq(q, 1, k) \in DOMAIN nodes'
                      /\ nodes'[SubSeq(q, 1, k)].done
    BY <1>1 DEF Rooted
  <2> DEFINE a == SubSeq(q, 1, k)
  <2>1. /\ k # 0 => a \in linked
        /\ a \in DOMAIN nodes
        /\ nodes[a].done \/ a = parent
    BY <1>2 DEF Rooted
  <2> HIDE DEF a
  <2>2. (k # 0 => a \in linked) /\ a \in DOMAIN nodes' /\ nodes'[a].done
    BY <1>4, <1>5, <2>1
  <2> QED
    BY <2>2 DEF a
<1>9. Waiting' /\ Fresh'
  <2>1. \A q \in queue : nodes'[q] = nodes[q]
    BY <1>2, <1>3, <1>4 DEF Types
  <2> QED
    BY <1>1, <1>2, <1>4, <2>1 DEF Waiting, Fresh
<1>10. Evaluated' /\ NotBegun'
  BY <1>1 DEF Evaluated, NotBegun, Evaluating
<1> QED
  BY <1>7, <1>8, <1>9, <1>10 DEF Tree

(* What prune_up takes: the longest end of the path to the node evaluated  *)
(* that no other child branches off.                                       *)
UpTo(k) == SubSeq(parent, 1, k)
Emptied ==
  {k \in 0 .. Len(parent) :
     \A j \in k .. Len(parent) - 1 : ~(\E q \in Children(UpTo(j)) : q # UpTo(j + 1))}
Pruned == {UpTo(k) : k \in Emptied \ {0}}

(* What prune_up changes: the childless nodes it deletes, upwards, and     *)
(* the step after it.                                                      *)
LEMMA PruneUpIs ==
  ASSUME PruneUp
  PROVE  /\ Evaluating /\ pc' = "collect" /\ Children(parent) = {}
         /\ nodes' = [q \in DOMAIN nodes \ Pruned |-> nodes[q]]
         /\ linked' = linked \ Pruned
         /\ UNCHANGED <<fit, rules, minority, queue, pmap, min_objective, collected, parent, next_rule>>
BY DEF PruneUp, Pruned, Emptied, UpTo, Evaluating, bestVars

(* Whatever is linked below the topmost node pruned is pruned with it.     *)
LEMMA PrunedBelow ==
  ASSUME Types, Rooted, Children(parent) = {},
         NEW k \in Emptied, NEW q \in linked, Len(q) >= k, SubSeq(q, 1, k) = UpTo(k), q # UpTo(k)
  PROVE  q \in Pruned
<1>1. q \in Seq(Nat) /\ q # root /\ parent \in Seq(Nat) /\ Len(q) \in Nat /\ Len(parent) \in Nat
      /\ k \in 0 .. Len(parent) /\ k \in 0 .. Len(q) /\ k \in Nat
  BY DEF Types, Emptied
<1> DEFINE off == {m \in k .. Len(q) : ~(m <= Len(parent) /\ SubSeq(q, 1, m) = UpTo(m))}
<1>2. off = {}
  <2> SUFFICES ASSUME off # {} PROVE FALSE
    OBVIOUS
  <2>1. off \subseteq Nat
    BY <1>1
  <2>2. PICK m \in off : \A y \in off : m <= y
    BY <2>1, LeastNat
  <2>3. /\ m \in Nat /\ m # k /\ m \in 1 .. Len(q)
        /\ m - 1 \in k .. Len(q) /\ m - 1 \notin off
        /\ m - 1 \in 0 .. Len(q) - 1 /\ m - 1 \in 0 .. Len(q)
    <3>1. m \in k .. Len(q) /\ m # k
      BY <1>1
    <3>2. m - 1 \notin off
      <4> SUFFICES ASSUME m - 1 \in off PROVE FALSE
        OBVIOUS
      <4>1. m <= m - 1 /\ m \in Nat
        BY <1>1, <2>2, <3>1
      <4> QED
        BY <4>1
    <3>3. ASSUME NEW x \in Nat, NEW y \in Nat, NEW z \in x .. y, z # x
          PROVE  z \in Nat /\ z - 1 \in x .. y /\ z \in 1 .. y /\ z - 1 \in 0 .. y - 1 /\ z - 1 \in 0 .. y
      BY <3>3
    <3> QED
      BY <1>1, <3>1, <3>2, <3>3
  <2>4. m - 1 <= Len(parent) /\ SubSeq(q, 1, m - 1) = UpTo(m - 1)
    BY <2>3
  <2> DEFINE c == SubSeq(q, 1, m)
  <2>5. c \in linked
    <3>1. CASE m = Len(q)
      BY <1>1, <3>1, SubSeqFull
    <3>2. CASE m # Len(q)
      <4>1. m \in 0 .. Len(q) - 1 /\ m # 0
        BY <1>1, <2>3, <3>2
      <4> QED
        BY <4>1 DEF Rooted
    <3> QED
      BY <3>1, <3>2
  <2>6. Front(c) = UpTo(m - 1)
    <3>1. Len(c) = m /\ c \in Seq(Nat) /\ m \in 0 .. Len(q) /\ m - 1 \in 0 .. m
      BY <1>1, <2>3, PrefixAt
    <3>2. Front(c) = SubSeq(c, 1, m - 1)
      BY <3>1 DEF Front
    <3> QED
      BY <1>1, <2>4, <3>1, <3>2, PrefixOfPrefix
  <2> HIDE DEF c
  <2>7. c \in Children(UpTo(m - 1))
    BY <2>5, <2>6 DEF Children
  <2>8. CASE m - 1 = Len(parent)
    <3>1. UpTo(m - 1) = parent
      BY <1>1, <2>8, SubSeqFull DEF UpTo
    <3> QED
      BY <2>7, <3>1
  <2>9. CASE m - 1 # Len(parent)
    <3>1. m - 1 \in k .. Len(parent) - 1 /\ (m - 1) + 1 = m /\ m <= Len(parent)
      <4>1. ASSUME NEW x \in Nat, NEW y \in Nat, NEW z \in Nat, z # 0, z - 1 <= y, z - 1 # y, x <= z - 1
            PROVE  z - 1 \in x .. y - 1 /\ (z - 1) + 1 = z /\ z <= y
        BY <4>1
      <4>2. m # 0 /\ k <= m - 1
        BY <1>1, <2>3
      <4> QED
        BY <1>1, <2>3, <2>4, <2>9, <4>1, <4>2
    <3>2. c = UpTo((m - 1) + 1)
      BY <2>7, <3>1 DEF Emptied
    <3> QED
      BY <2>2, <3>1, <3>2 DEF c
  <2> QED
    BY <2>8, <2>9
<1>3. Len(q) <= Len(parent) /\ SubSeq(q, 1, Len(q)) = UpTo(Len(q))
  <2>1. Len(q) \in k .. Len(q)
    BY <1>1
  <2> QED
    BY <1>2, <2>1
<1>4. q = UpTo(Len(q))
  BY <1>1, <1>3, SubSeqFull
<1>5. Len(q) \in 0 .. Len(parent) /\ Len(q) # 0 /\ \A j \in Len(q) .. Len(parent) - 1 : j \in k .. Len(parent) - 1
  BY <1>1, <1>3, EmptySeq DEF root
<1>6. Len(q) \in Emptied \ {0}
  BY <1>5 DEF Emptied
<1> QED
  BY <1>4, <1>6 DEF Pruned

(* prune_up leaves no child without its parent.                            *)
LEMMA PruneUpTree == IInv /\ PruneUp => Tree'
<1> SUFFICES ASSUME IInv, PruneUp PROVE Tree'
  OBVIOUS
<1>1. /\ Evaluating /\ pc' = "collect" /\ Children(parent) = {}
      /\ nodes' = [q \in DOMAIN nodes \ Pruned |-> nodes[q]]
      /\ linked' = linked \ Pruned
      /\ UNCHANGED <<fit, rules, minority, queue, pmap, min_objective, collected, parent, next_rule>>
  BY PruneUpIs
<1>2. Types /\ Rooted /\ Waiting /\ Fresh /\ Evaluated
  BY DEF IInv, Tree
<1>3. parent \in Seq(Nat) /\ parent \in DOMAIN nodes /\ parent \notin queue /\ Len(parent) \in Nat
  BY <1>1, <1>2 DEF Types, Evaluated
<1>4. \A k \in Emptied : k \in 0 .. Len(parent)
  BY DEF Emptied
<1>5. ASSUME NEW q \in queue PROVE q \notin Pruned
  <2> SUFFICES ASSUME NEW k \in Emptied, q = UpTo(k) PROVE FALSE
    BY DEF Pruned
  <2>1. IsPrefix(q, parent)
    BY <1>3, <1>4, PrefixBelow DEF UpTo
  <2> QED
    BY <1>2, <1>3, <2>1 DEF Fresh
<1>6. root \notin Pruned
  <2> SUFFICES ASSUME NEW k \in Emptied \ {0}, root = UpTo(k) PROVE FALSE
    BY DEF Pruned
  <2>1. k \in 0 .. Len(parent) /\ Len(UpTo(k)) = k
    BY <1>3, <1>4, PrefixAt DEF UpTo
  <2> QED
    BY <2>1 DEF root
<1>7. Samples' = Samples
  BY <1>1 DEF Samples
<1>8. Types'
  BY <1>1, <1>2, <1>5, <1>7 DEF Types
<1>9. Rooted'
  <2> SUFFICES ASSUME NEW q \in linked', NEW k \in 0 .. Len(q) - 1
               PROVE  /\ k # 0 => SubSeq(q, 1, k) \in linked'
                      /\ SubSeq(q, 1, k) \in DOMAIN nodes'
                      /\ nodes'[SubSeq(q, 1, k)].done
    BY DEF Rooted
  <2> DEFINE a == SubSeq(q, 1, k)
  <2>1. q \in linked /\ q \in Seq(Nat) /\ q \notin Pruned /\ Len(q) \in Nat /\ k \in 0 .. Len(q) /\ k < Len(q)
    BY <1>1, <1>2 DEF Types
  <2>2. a \in Seq(Nat) /\ Len(a) = k /\ a # q
    BY <2>1, PrefixAt
  <2>3. a \notin Pruned
    <3> SUFFICES ASSUME NEW j \in Emptied, a = UpTo(j) PROVE FALSE
      BY DEF Pruned
    <3>1. j \in 0 .. Len(parent) /\ j = k
      BY <1>3, <1>4, <2>2, PrefixAt DEF UpTo
    <3>2. k \in Emptied /\ Len(q) >= k /\ SubSeq(q, 1, k) = UpTo(k) /\ q # UpTo(k)
      BY <2>1, <2>2, <3>1
    <3> QED
      BY <1>1, <1>2, <2>1, <3>2, PrunedBelow
  <2>4. a # parent
    <3> SUFFICES ASSUME a = parent PROVE FALSE
      OBVIOUS
    <3>1. Len(parent) = k /\ UpTo(k) = parent
      BY <1>3, <2>2, SubSeqFull DEF UpTo
    <3>2. k \in Emptied
      BY <1>3, <3>1 DEF Emptied
    <3>3. Len(q) >= k /\ SubSeq(q, 1, k) = UpTo(k) /\ q # UpTo(k)
      BY <2>1, <2>2, <3>1
    <3> QED
      BY <1>1, <1>2, <2>1, <3>2, <3>3, PrunedBelow
  <2>5. (k # 0 => a \in linked) /\ a \in DOMAIN nodes /\ (nodes[a].done \/ a = parent)
    BY <1>2, <2>1 DEF Rooted
  <2> HIDE DEF a
  <2>6. (k # 0 => a \in linked') /\ a \in DOMAIN nodes' /\ nodes'[a].done
    BY <1>1, <2>3, <2>4, <2>5
  <2> QED
    BY <2>6 DEF a
<1>10. Waiting'
  <2>1. \A q \in queue : nodes'[q] = nodes[q]
    BY <1>1, <1>2, <1>5 DEF Types
  <2> QED
    BY <1>1, <1>2, <1>5, <2>1 DEF Waiting
<1>11. Fresh' /\ Evaluated' /\ NotBegun'
  BY <1>1, <1>2 DEF Fresh, Evaluated, Evaluating, NotBegun
<1> QED
  BY <1>8, <1>9, <1>10, <1>11 DEF Tree

(* Garbage is dropped by whole subtrees.                                   *)
LEMMA CollectTree == IInv /\ Collect => Tree'
<1> SUFFICES ASSUME IInv, Collect PROVE Tree'
  OBVIOUS
<1>1. /\ pc = "collect" /\ pc' = "loop"
      /\ UNCHANGED <<fit, rules, minority, queue, pmap, min_objective, parent, next_rule>>
      /\ collected' \in {min_objective, collected}
  BY DEF Collect, bestVars
<1>2. Types /\ Rooted /\ Waiting /\ Fresh /\ Evaluated
  BY DEF IInv, Tree
<1>3. Samples' = Samples /\ ~Evaluating /\ ~Evaluating'
  BY <1>1 DEF Samples, Evaluating
<1>4. Evaluated' /\ NotBegun'
  BY <1>1, <1>3 DEF Evaluated, NotBegun
<1>5. CASE min_objective < collected
  <2> DEFINE nd == NodesWithout(Garbage)
             ln == LinkedWithout(Garbage)
  <2>1. nodes' = nd /\ linked' = ln
    BY <1>5 DEF Collect
  <2>2. Garbage \in SUBSET linked
    BY DEF Garbage
  <2>3. /\ ln \subseteq linked /\ ln \subseteq DOMAIN nd
        /\ DOMAIN nd \subseteq DOMAIN nodes
        /\ \A q \in DOMAIN nd : nd[q] \in NodeType
        /\ \A q \in queue :
             /\ q \in DOMAIN nd
             /\ ~nd[q].done
             /\ nd[q].deleted => q \notin ln
             /\ ~nd[q].deleted => q = root \/ q \in ln
        /\ \A q \in ln : \A k \in 0 .. Len(q) - 1 :
             /\ k # 0 => SubSeq(q, 1, k) \in ln
             /\ SubSeq(q, 1, k) \in DOMAIN nd
             /\ nd[SubSeq(q, 1, k)].done
    BY <1>2, <1>3, <2>2, Drop
  <2> HIDE DEF nd, ln
  <2>4. Types'
    BY <1>1, <1>2, <1>3, <2>1, <2>3 DEF Types
  <2>5. Rooted' /\ Waiting' /\ Fresh'
    BY <1>1, <1>2, <1>3, <2>1, <2>3 DEF Rooted, Waiting, Fresh
  <2> QED
    BY <1>4, <2>4, <2>5 DEF Tree
<1>6. CASE ~(min_objective < collected)
  <2>1. nodes' = nodes /\ linked' = linked
    BY <1>6 DEF Collect, treeVars
  <2>2. Types' /\ Rooted' /\ Waiting' /\ Fresh'
    BY <1>1, <1>2, <1>3, <2>1 DEF Types, Rooted, Waiting, Fresh
  <2> QED
    BY <1>4, <2>2 DEF Tree
<1> QED
  BY <1>5, <1>6

(* What the end frees.                                                     *)
Marks == {q \in queue : nodes[q].deleted}
Remaining == num_nodes - Cardinality(Marks)
FreedAtEnd == Marks \cup (IF Remaining # 0 THEN Reached(root) ELSE {})

(* What the end of a search frees: everything that is left, unless an      *)
(* exception ended it.                                                     *)
LEMMA EndIs ==
  ASSUME NEW early \in BOOLEAN, End(early)
  PROVE  /\ pc = "loop" /\ pc' \in {"interrupted", "ended"}
         /\ UNCHANGED <<fit, rules, minority, pmap, min_objective, collected, parent, next_rule>>
         /\ early => UNCHANGED <<nodes, linked, queue>>
         /\ ~early => /\ nodes' = [q \in DOMAIN nodes \ FreedAtEnd |-> nodes[q]]
                      /\ linked' = {q \in linked : Front(q) \notin FreedAtEnd}
                      /\ queue' = {}
BY DEF End, Marks, Remaining, FreedAtEnd, bestVars

(* The end frees all that is linked, or nothing of it.                     *)
LEMMA EndTree == ASSUME IInv, NEW early \in BOOLEAN, End(early) PROVE Tree'
<1>1. /\ pc = "loop" /\ pc' \in {"interrupted", "ended"}
      /\ UNCHANGED <<fit, rules, minority, pmap, min_objective, collected, parent, next_rule>>
  BY EndIs
<1>2. Types /\ Rooted /\ Waiting /\ Fresh
  BY DEF IInv, Tree
<1>3. Samples' = Samples /\ ~Evaluating /\ ~Evaluating'
  BY <1>1 DEF Samples, Evaluating
<1>4. Evaluated' /\ NotBegun'
  BY <1>1, <1>3 DEF Evaluated, NotBegun
<1>5. CASE early
  <2>1. UNCHANGED <<nodes, linked, queue>>
    BY <1>5, EndIs
  <2>2. Types' /\ Rooted' /\ Waiting' /\ Fresh'
    BY <1>1, <1>2, <1>3, <2>1 DEF Types, Rooted, Waiting, Fresh
  <2> QED
    BY <1>4, <2>2 DEF Tree
<1>6. CASE ~early
  <2>1. /\ nodes' = [q \in DOMAIN nodes \ FreedAtEnd |-> nodes[q]]
        /\ linked' = {q \in linked : Front(q) \notin FreedAtEnd}
        /\ queue' = {}
    BY <1>6, EndIs
  <2>2. ASSUME NEW q \in linked
        PROVE  /\ q \in Seq(Nat) /\ Len(q) \in Nat /\ Len(q) - 1 \in 0 .. Len(q) - 1
               /\ Front(q) = SubSeq(q, 1, Len(q) - 1)
               /\ \A k \in 0 .. Len(q) - 1 :
                    /\ k # 0 => SubSeq(q, 1, k) \in linked
                    /\ SubSeq(q, 1, k) \in DOMAIN nodes
                    /\ nodes[SubSeq(q, 1, k)].done
    <3>1. q \in Seq(Nat) /\ q # <<>>
      BY <1>2 DEF Types, root
    <3>2. Len(q) \in Nat /\ Len(q) - 1 \in 0 .. Len(q) - 1 /\ Front(q) = SubSeq(q, 1, Len(q) - 1)
      BY <3>1, EmptySeq DEF Front
    <3> QED
      BY <1>2, <1>3, <3>1, <3>2 DEF Rooted
  <2>3. Waiting' /\ Fresh'
    BY <2>1 DEF Waiting, Fresh
  <2>4. CASE Remaining # 0
    <3>1. ASSUME NEW q \in linked PROVE Front(q) \in Reached(root)
      <4> DEFINE f == Front(q)
      <4>1. f = SubSeq(q, 1, Len(q) - 1) /\ f \in DOMAIN nodes /\ q \in Seq(Nat) /\ Len(q) \in Nat
            /\ Len(q) - 1 \in 0 .. Len(q) - 1 /\ Len(q) - 1 \in 0 .. Len(q)
        <5>1. q \in Seq(Nat) /\ Len(q) \in Nat /\ Len(q) - 1 \in 0 .. Len(q) - 1 /\ f = SubSeq(q, 1, Len(q) - 1)
          BY <2>2
        <5>2. SubSeq(q, 1, Len(q) - 1) \in DOMAIN nodes
          BY <2>2, <5>1
        <5> QED
          BY <5>1, <5>2
      <4>2. f \in Seq(Nat) /\ Len(f) = Len(q) - 1
        BY <4>1, PrefixAt
      <4>3. IsPrefix(root, f)
        BY <4>2 DEF root, IsPrefix
      <4>4. ASSUME NEW k \in 1 .. Len(f) PROVE SubSeq(f, 1, k) \in linked /\ nodes[SubSeq(f, 1, k - 1)].done
        <5>1. k \in 0 .. Len(q) - 1 /\ k - 1 \in 0 .. Len(q) - 1 /\ k # 0
          BY <4>1, <4>2
        <5>2. SubSeq(f, 1, k) = SubSeq(q, 1, k) /\ SubSeq(f, 1, k - 1) = SubSeq(q, 1, k - 1)
          BY <4>1, <5>1, PrefixOfPrefix
        <5> QED
          BY <2>2, <5>1, <5>2
      <4> HIDE DEF f
      <4>5. f \in Reached(root)
        BY <4>1, <4>3, <4>4 DEF Reached, root
      <4> QED
        BY <4>5 DEF f
    <3>2. linked' = {}
      BY <2>1, <2>4, <3>1 DEF FreedAtEnd
    <3>3. Types'
      BY <1>1, <1>2, <1>3, <2>1, <3>2 DEF Types
    <3>4. Rooted'
      BY <3>2 DEF Rooted
    <3> QED
      BY <1>4, <2>3, <3>3, <3>4 DEF Tree
  <2>5. CASE ~(Remaining # 0)
    <3>1. FreedAtEnd = Marks
      BY <2>5 DEF FreedAtEnd
    <3>2. \A q \in linked : q \notin Marks
      BY <1>2 DEF Marks, Waiting
    <3>3. \A q \in linked : \A k \in 0 .. Len(q) - 1 : SubSeq(q, 1, k) \notin Marks
      BY <1>2, <2>2 DEF Marks, Waiting
    <3>4. linked' = linked
      BY <2>1, <2>2, <3>1, <3>3
    <3>5. DOMAIN nodes' = DOMAIN nodes \ Marks /\ \A q \in DOMAIN nodes \ Marks : nodes'[q] = nodes[q]
      BY <2>1, <3>1
    <3>6. Types'
      BY <1>1, <1>2, <1>3, <2>1, <3>2, <3>4, <3>5 DEF Types
    <3>7. Rooted'
      <4> SUFFICES ASSUME NEW q \in linked, NEW k \in 0 .. Len(q) - 1
                   PROVE  /\ k # 0 => SubSeq(q, 1, k) \in linked
                          /\ SubSeq(q, 1, k) \in DOMAIN nodes'
                          /\ nodes'[SubSeq(q, 1, k)].done
        BY <3>4 DEF Rooted
      <4> QED
        BY <2>2, <3>3, <3>5
    <3> QED
      BY <1>4, <2>3, <3>6, <3>7 DEF Tree
  <2> QED
    BY <2>4, <2>5
<1> QED
  BY <1>5, <1>6

(* What begin sets up: the root alone, in memory and in the queue.         *)
LEMMA BeginIs ==
  ASSUME Begin
  PROVE  /\ pc = "begin" /\ pc' = "loop"
         /\ DOMAIN nodes' = {root}
         /\ nodes'[root] = [lower_bound |-> Unit * Cardinality(minority), objective |-> Errors(Samples),
                            equivalent_minority |-> Unit * Cardinality(minority), num_captured |-> 0,
                            prediction |-> 0, done |-> FALSE, deleted |-> FALSE]
         /\ queue' = {root}
         /\ min_objective' = Errors(Samples) /\ collected' = fit.samples * Unit
         /\ UNCHANGED <<fit, rules, minority, linked, pmap, parent, next_rule>>
BY DEF Begin

(* The tree begins with its root, waiting.                                 *)
LEMMA BeginTree == IInv /\ Begin => Tree'
<1> SUFFICES ASSUME IInv, Begin PROVE Tree'
  OBVIOUS
<1>1. /\ pc = "begin" /\ pc' = "loop"
      /\ DOMAIN nodes' = {root}
      /\ nodes'[root] = [lower_bound |-> Unit * Cardinality(minority), objective |-> Errors(Samples),
                         equivalent_minority |-> Unit * Cardinality(minority), num_captured |-> 0,
                         prediction |-> 0, done |-> FALSE, deleted |-> FALSE]
      /\ queue' = {root}
      /\ min_objective' = Errors(Samples) /\ collected' = fit.samples * Unit
      /\ UNCHANGED <<fit, rules, minority, linked, pmap, parent, next_rule>>
  BY BeginIs
<1>2. Types /\ linked = {}
  BY <1>1 DEF IInv, Tree, NotBegun
<1>3. Errors(Samples) \in Nat /\ Unit * Cardinality(minority) \in Nat /\ fit.samples * Unit \in Nat
  BY <1>2, Costs, Counts, FitFacts, UnitAssumption, Products DEF Types
<1>4. nodes'[root] \in NodeType /\ ~nodes'[root].done /\ ~nodes'[root].deleted
  BY <1>1, <1>3 DEF NodeType
<1>5. root \in Seq(Nat)
  BY DEF root
<1>6. Samples' = Samples
  BY <1>1 DEF Samples
<1>7. Types'
  <2>1. min_objective' \in Int /\ collected' \in Int
    BY <1>1, <1>3
  <2>2. \A q \in DOMAIN nodes' : nodes'[q] \in NodeType
    BY <1>1, <1>4
  <2>3. DOMAIN nodes' = {root} /\ linked' = {} /\ queue' = {root}
        /\ UNCHANGED <<fit, minority, parent, next_rule>>
    BY <1>1, <1>2
  <2> QED
    BY <1>2, <1>5, <1>6, <2>1, <2>2, <2>3 DEF Types
<1>8. Rooted' /\ Waiting' /\ Fresh' /\ Evaluated' /\ NotBegun'
  BY <1>1, <1>2, <1>4 DEF Rooted, Waiting, Fresh, Evaluated, Evaluating, NotBegun
<1> QED
  BY <1>7, <1>8 DEF Tree

(* Mining changes nothing of the search but the minority samples.          *)
LEMMA MineIs ==
  ASSUME MineStep
  PROVE  /\ pc \in {"mine", "combine"} /\ pc' \in {"mine", "combine", "begin"}
         /\ minority' \subseteq Samples \/ minority' = minority
         /\ fit' = fit
BY DEF MineStep, MineLiteral, MinedLiterals, MineCombination, FindMinority

(* Mining leaves the tree alone.                                           *)
LEMMA MineTree == IInv /\ MineStep /\ UNCHANGED searchVars => Tree'
<1> SUFFICES ASSUME IInv, MineStep, UNCHANGED searchVars PROVE Tree'
  OBVIOUS
<1>1. /\ pc \in {"mine", "combine"} /\ pc' \in {"mine", "combine", "begin"}
      /\ minority' \subseteq Samples \/ minority' = minority
      /\ fit' = fit
  BY MineIs
<1>2. UNCHANGED <<nodes, linked, queue, pmap, min_objective, collected, parent, next_rule>>
  BY DEF searchVars, treeVars, bestVars
<1>3. Types /\ nodes = <<>> /\ linked = {} /\ queue = {} /\ pmap = <<>>
  BY <1>1 DEF IInv, Tree, NotBegun
<1>4. Samples' = Samples
  BY <1>1 DEF Samples
<1>5. Types'
  BY <1>1, <1>2, <1>3, <1>4 DEF Types
<1>6. Rooted' /\ Waiting' /\ Fresh' /\ Evaluated' /\ NotBegun'
  BY <1>1, <1>2, <1>3 DEF Rooted, Waiting, Fresh, Evaluated, Evaluating, NotBegun
<1> QED
  BY <1>5, <1>6 DEF Tree

-----------------------------------------------------------------------------
(* The whole invariant                                                     *)

(* What a prefix captures depends on the arguments and the rules only.     *)
LEMMA SameCaptured ==
  ASSUME UNCHANGED <<fit, rules>>
  PROVE  \A p : NotCaptured(p)' = NotCaptured(p)
BY DEF NotCaptured, Captured, Samples

(* What a step that adds no node has to see to.                            *)
LEMMA Shrinks ==
  ASSUME IInv, Types', Rooted', UNCHANGED <<fit, rules, minority, pmap>>,
         linked' \subseteq linked, DOMAIN nodes' \subseteq DOMAIN nodes,
         \A q \in DOMAIN nodes' : /\ nodes'[q].lower_bound = nodes[q].lower_bound
                                  /\ nodes'[q].equivalent_minority = nodes[q].equivalent_minority
  PROVE  MinorityCounted' /\ BoundGrows' /\ Memory'
<1>1. \A p : NotCaptured(p)' = NotCaptured(p)
  BY SameCaptured
<1>2. MinorityCounted'
  <2>1. \A q \in DOMAIN nodes' : nodes[q].equivalent_minority = Unit * Cardinality(NotCaptured(q) \cap minority)
    BY DEF IInv, Bounds, MinorityCounted
  <2> QED
    BY <1>1, <2>1 DEF MinorityCounted
<1>3. BoundGrows'
  <2> SUFFICES ASSUME NEW q \in linked', NEW k \in 1 .. Len(q),
                      NotCaptured(SubSeq(q, 1, k))' = NotCaptured(q)'
               PROVE  nodes'[SubSeq(q, 1, k)].lower_bound <= nodes'[q].lower_bound
    BY DEF BoundGrows
  <2>1. NotCaptured(SubSeq(q, 1, k)) = NotCaptured(q) /\ q \in linked
    BY <1>1
  <2>2. nodes[SubSeq(q, 1, k)].lower_bound <= nodes[q].lower_bound
    BY <2>1 DEF IInv, Bounds, BoundGrows
  <2>3. q \in DOMAIN nodes' /\ q \in Seq(Nat)
    BY DEF Types
  <2>4. SubSeq(q, 1, k) \in DOMAIN nodes'
    <3>1. Len(q) \in Nat
      BY <2>3
    <3>2. CASE k = Len(q)
      BY <2>3, <3>2, SubSeqFull
    <3>3. CASE k # Len(q)
      <4>1. k \in 0 .. Len(q) - 1
        BY <3>1, <3>3
      <4> QED
        BY <4>1 DEF Rooted
    <3> QED
      BY <3>2, <3>3
  <2> QED
    BY <2>2, <2>3, <2>4
<1>4. NoRuleTwice' /\ PrefixMapRight'
  BY DEF IInv, Memory, NoRuleTwice, PrefixMapRight
<1>5. CapturedMapRight'
  <2> SUFFICES ASSUME fit.map = "captured" PROVE CapturedMapRight'
    BY DEF CapturedMapRight
  <2>1. /\ \A q \in linked' :
             /\ q \in DOMAIN nodes'
             /\ NotCaptured(q) \in DOMAIN pmap
             /\ pmap[NotCaptured(q)].prefix = q
             /\ pmap[NotCaptured(q)].lower_bound = nodes'[q].lower_bound
        /\ \A key \in DOMAIN pmap : NotCaptured(pmap[key].prefix) = key
    BY DEF IInv, Memory, CapturedMapRight, Types
  <2> QED
    BY <1>1, <2>1 DEF CapturedMapRight
<1> QED
  BY <1>2, <1>3, <1>4, <1>5 DEF Memory

(* A step that adds no linked node leaves what was collected for the       *)
(* best objective true.                                                    *)
LEMMA CollectedKept ==
  ASSUME IInv, Types', UNCHANGED <<fit, collected>>, min_objective' <= min_objective,
         linked' \subseteq linked,
         \A q \in DOMAIN nodes' : nodes'[q].lower_bound = nodes[q].lower_bound
  PROVE  CollectedFor'
<1>1. LookAhead' = LookAhead
  BY DEF LookAhead
<1>2. min_objective \in Int /\ min_objective' \in Int /\ collected \in Int
  BY DEF IInv, Tree, Types
<1>3. min_objective' <= collected'
  BY <1>2 DEF IInv, Bounds, CollectedFor
<1>4. \A q \in linked' : q \in DOMAIN nodes' /\ nodes[q].lower_bound + LookAhead < collected
  BY DEF IInv, Bounds, CollectedFor, Types
<1> QED
  BY <1>1, <1>3, <1>4 DEF CollectedFor

(* A step that changes nothing keeps the invariant.                        *)
LEMMA StutterKeeps == IInv /\ UNCHANGED vars => IInv'
<1> SUFFICES ASSUME IInv, UNCHANGED vars PROVE IInv'
  OBVIOUS
<1>1. UNCHANGED <<fit, rules, minority, pc, nodes, linked, queue, pmap, min_objective, collected, parent, next_rule>>
  BY DEF vars, mineVars, searchVars, treeVars, bestVars
<1>2. Tree'
  BY <1>1 DEF IInv, Tree, Types, Rooted, Waiting, Evaluated, Fresh, NotBegun, Evaluating, Samples
<1>3. MinorityCounted' /\ BoundGrows' /\ Memory'
  BY <1>1, <1>2, Shrinks DEF Tree
<1>4. LinkedIsPromising' /\ CollectedFor'
  BY <1>1 DEF IInv, Bounds, LinkedIsPromising, CollectedFor, Hopeless, LookAhead
<1> QED
  BY <1>2, <1>3, <1>4 DEF IInv, Bounds

(* The invariant holds at the start.                                       *)
LEMMA StartsRight == Init => IInv
<1> SUFFICES ASSUME Init PROVE IInv
  OBVIOUS
<1>1. /\ fit \in Fits /\ rules = <<>> /\ minority = {} /\ pc = "mine"
      /\ nodes = <<>> /\ linked = {} /\ queue = {} /\ pmap = <<>>
      /\ min_objective = 0 /\ collected = 0 /\ parent = <<>> /\ next_rule = 0
  BY DEF Init, MineInit, SearchInit, root
<1>2. DOMAIN nodes = {} /\ DOMAIN pmap = {}
  BY <1>1
<1>3. Types
  BY <1>1, <1>2 DEF Types
<1>4. Tree
  BY <1>1, <1>2, <1>3 DEF Tree, Rooted, Waiting, Evaluated, Evaluating, Fresh, NotBegun
<1>5. Bounds
  BY <1>1, <1>2 DEF Bounds, LinkedIsPromising, CollectedFor, MinorityCounted, BoundGrows
<1>6. Memory
  BY <1>1, <1>2 DEF Memory, NoRuleTwice, CapturedMapRight, PrefixMapRight
<1> QED
  BY <1>4, <1>5, <1>6 DEF IInv

-----------------------------------------------------------------------------
(* Every step keeps the invariant                                          *)

(* The steps that add no node.                                             *)
LEMMA DiscardKeeps == IInv /\ Discard => IInv'
<1> SUFFICES ASSUME IInv, Discard PROVE IInv'
  OBVIOUS
<1>1. Tree'
  BY DiscardTree
<1>2. PICK top \in Tops :
        /\ pc = "select"
        /\ nodes[top].deleted \/ Hopeless(nodes[top])
        /\ nodes' = [q \in DOMAIN nodes \ {top} |-> nodes[q]]
        /\ UNCHANGED <<fit, rules, minority, linked, pmap, min_objective, collected>>
  BY DEF Discard, bestVars
<1>3. \A q \in DOMAIN nodes' : q \in DOMAIN nodes /\ nodes'[q] = nodes[q]
  BY <1>2
<1>4. MinorityCounted' /\ BoundGrows' /\ Memory'
  BY <1>1, <1>2, <1>3, Shrinks DEF Tree
<1>5. min_objective' <= min_objective
  BY <1>2 DEF IInv, Tree, Types
<1>6. CollectedFor'
  BY <1>1, <1>2, <1>3, <1>5, CollectedKept DEF Tree
<1>7. LinkedIsPromising'
  BY <1>1, <1>2, <1>3 DEF IInv, Tree, Types, Bounds, LinkedIsPromising, Hopeless, LookAhead
<1> QED
  BY <1>1, <1>4, <1>6, <1>7 DEF IInv, Bounds

(* And each step keeps it: taking a node from the queue.                   *)
LEMMA SelectKeeps == IInv /\ Select => IInv'
<1> SUFFICES ASSUME IInv, Select PROVE IInv'
  OBVIOUS
<1>1. Tree'
  BY SelectTree
<1>2. /\ pc' = "evaluate"
      /\ UNCHANGED <<fit, rules, minority, nodes, linked, pmap, min_objective, collected>>
  BY DEF Select, bestVars, treeVars
<1>3. MinorityCounted' /\ BoundGrows' /\ Memory'
  BY <1>1, <1>2, Shrinks DEF Tree
<1>4. min_objective' <= min_objective
  BY <1>2 DEF IInv, Tree, Types
<1>5. CollectedFor'
  BY <1>1, <1>2, <1>4, CollectedKept DEF Tree
<1>6. LinkedIsPromising'
  BY <1>2 DEF LinkedIsPromising
<1> QED
  BY <1>1, <1>3, <1>5, <1>6 DEF IInv, Bounds

(* Skipping one that is deleted or hopeless.                               *)
LEMMA SkipKeeps == IInv /\ Skip => IInv'
<1> SUFFICES ASSUME IInv, Skip PROVE IInv'
  OBVIOUS
<1>1. Tree'
  BY SkipTree
<1>2. /\ pc' = "evaluate"
      /\ UNCHANGED <<fit, rules, minority, nodes, linked, pmap, min_objective, collected>>
  BY DEF Skip, bestVars, treeVars
<1>3. MinorityCounted' /\ BoundGrows' /\ Memory'
  BY <1>1, <1>2, Shrinks DEF Tree
<1>4. min_objective' <= min_objective
  BY <1>2 DEF IInv, Tree, Types
<1>5. CollectedFor'
  BY <1>1, <1>2, <1>4, CollectedKept DEF Tree
<1>6. LinkedIsPromising'
  BY <1>2 DEF LinkedIsPromising
<1> QED
  BY <1>1, <1>3, <1>5, <1>6 DEF IInv, Bounds

(* Going on with the next rule.                                            *)
LEMMA ContinueKeeps == IInv /\ Continue => IInv'
<1> SUFFICES ASSUME IInv, Continue PROVE IInv'
  OBVIOUS
<1>1. Tree'
  BY ContinueTree
<1>2. /\ pc = "loop"
      /\ UNCHANGED <<fit, rules, minority, nodes, linked, pmap, min_objective, collected>>
  BY DEF Continue, searchVars, bestVars, treeVars
<1>3. MinorityCounted' /\ BoundGrows' /\ Memory'
  BY <1>1, <1>2, Shrinks DEF Tree
<1>4. min_objective' <= min_objective
  BY <1>2 DEF IInv, Tree, Types
<1>5. CollectedFor'
  BY <1>1, <1>2, <1>4, CollectedKept DEF Tree
<1>6. LinkedIsPromising'
  BY <1>2 DEF IInv, Bounds, LinkedIsPromising, Hopeless, LookAhead
<1> QED
  BY <1>1, <1>3, <1>5, <1>6 DEF IInv, Bounds

(* Finishing a node.                                                       *)
LEMMA DoneKeeps == IInv /\ Done => IInv'
<1> SUFFICES ASSUME IInv, Done PROVE IInv'
  OBVIOUS
<1>1. Tree'
  BY DoneTree
<1>2. /\ Evaluating /\ pc' = "collect"
      /\ nodes' = [nodes EXCEPT ![parent].done = TRUE]
      /\ UNCHANGED <<fit, rules, minority, linked, pmap, min_objective, collected>>
  BY DEF Done, bestVars, Evaluating
<1>3. \A q \in DOMAIN nodes' : /\ q \in DOMAIN nodes
                               /\ nodes'[q].lower_bound = nodes[q].lower_bound
                               /\ nodes'[q].equivalent_minority = nodes[q].equivalent_minority
  <2> SUFFICES ASSUME NEW q \in DOMAIN nodes
               PROVE  /\ nodes'[q].lower_bound = nodes[q].lower_bound
                      /\ nodes'[q].equivalent_minority = nodes[q].equivalent_minority
    BY <1>2
  <2>1. CASE q # parent
    BY <1>2, <2>1
  <2>2. CASE q = parent
    <3>1. nodes'[q] = [nodes[q] EXCEPT !.done = TRUE] /\ nodes[q] \in NodeType
      BY <1>2, <2>2 DEF IInv, Tree, Types
    <3> QED
      BY <3>1 DEF NodeType
  <2> QED
    BY <2>1, <2>2
<1>4. MinorityCounted' /\ BoundGrows' /\ Memory'
  BY <1>1, <1>2, <1>3, Shrinks DEF Tree
<1>5. min_objective' <= min_objective
  BY <1>2 DEF IInv, Tree, Types
<1>6. CollectedFor'
  BY <1>1, <1>2, <1>3, <1>5, CollectedKept DEF Tree
<1>7. LinkedIsPromising'
  BY <1>2 DEF LinkedIsPromising
<1> QED
  BY <1>1, <1>4, <1>6, <1>7 DEF IInv, Bounds

(* Deleting a finished node that has no children, and its ancestors.       *)
LEMMA PruneUpKeeps == IInv /\ PruneUp => IInv'
<1> SUFFICES ASSUME IInv, PruneUp PROVE IInv'
  OBVIOUS
<1>1. Tree'
  BY PruneUpTree
<1>2. /\ pc' = "collect"
      /\ nodes' = [q \in DOMAIN nodes \ Pruned |-> nodes[q]]
      /\ linked' = linked \ Pruned
      /\ UNCHANGED <<fit, rules, minority, pmap, min_objective, collected>>
  BY PruneUpIs
<1>3. \A q \in DOMAIN nodes' : q \in DOMAIN nodes /\ nodes'[q] = nodes[q]
  BY <1>2
<1>4. MinorityCounted' /\ BoundGrows' /\ Memory'
  BY <1>1, <1>2, <1>3, Shrinks DEF Tree
<1>5. min_objective' <= min_objective
  BY <1>2 DEF IInv, Tree, Types
<1>6. CollectedFor'
  BY <1>1, <1>2, <1>3, <1>5, CollectedKept DEF Tree
<1>7. LinkedIsPromising'
  BY <1>2 DEF LinkedIsPromising
<1> QED
  BY <1>1, <1>4, <1>6, <1>7 DEF IInv, Bounds

(* Ending the search, early or not.                                        *)
LEMMA EndKeeps == ASSUME IInv, NEW early \in BOOLEAN, End(early) PROVE IInv'
<1>1. Tree'
  BY EndTree
<1>2. /\ pc' \in {"interrupted", "ended"}
      /\ UNCHANGED <<fit, rules, minority, pmap, min_objective, collected>>
      /\ linked' \subseteq linked
      /\ \A q \in DOMAIN nodes' : q \in DOMAIN nodes /\ nodes'[q] = nodes[q]
  BY EndIs
<1>3. MinorityCounted' /\ BoundGrows' /\ Memory'
  BY <1>1, <1>2, Shrinks DEF Tree
<1>4. min_objective' <= min_objective
  BY <1>2 DEF IInv, Tree, Types
<1>5. CollectedFor'
  BY <1>1, <1>2, <1>4, CollectedKept DEF Tree
<1>6. LinkedIsPromising'
  BY <1>2 DEF LinkedIsPromising
<1> QED
  BY <1>1, <1>3, <1>5, <1>6 DEF IInv, Bounds

(* Whatever is linked and hopeless is garbage, or below garbage.           *)
LEMMA GarbageAbove ==
  ASSUME Types, Rooted, ~Evaluating, NEW q \in linked, Hopeless(nodes[q])
  PROVE  q \in Below(Garbage)
<1> DEFINE hopeless == {p \in linked : Hopeless(nodes[p])}
           H == {k \in 1 .. Len(q) : SubSeq(q, 1, k) \in hopeless}
<1>1. q \in Seq(Nat) /\ q # <<>> /\ Len(q) \in Nat \ {0}
  BY EmptySeq DEF Types, root
<1>2. Len(q) \in H
  <2>1. SubSeq(q, 1, Len(q)) = q /\ Len(q) \in 1 .. Len(q)
    BY <1>1, SubSeqFull
  <2> QED
    BY <2>1
<1>3. H \subseteq Nat
  BY <1>1
<1>4. PICK m \in H : \A k \in H : m <= k
  BY <1>2, <1>3, LeastNat
<1>5. m \in Nat /\ m \in 1 .. Len(q) /\ m \in 0 .. Len(q)
  BY <1>1, <1>4
<1> DEFINE g == SubSeq(q, 1, m)
<1>6. g \in hopeless
  BY <1>4
<1>7. g \in Seq(Nat) /\ Len(g) = m /\ IsPrefix(g, q)
  BY <1>1, <1>5, PrefixAt, PrefixBelow
<1>8. \A k \in 1 .. m : SubSeq(g, 1, k) = SubSeq(q, 1, k)
  BY <1>1, <1>5, PrefixOfPrefix
<1>9. ASSUME NEW k \in 1 .. m PROVE SubSeq(q, 1, k) \in linked
  <2>1. CASE k = m
    BY <1>6, <2>1
  <2>2. CASE k # m
    <3>1. k \in 0 .. Len(q) - 1 /\ k # 0
      BY <1>1, <1>5, <2>2
    <3> QED
      BY <3>1 DEF Rooted
  <2> QED
    BY <2>1, <2>2
<1>10. ASSUME NEW k \in 1 .. m - 1 PROVE SubSeq(q, 1, k) \notin hopeless
  <2>1. k \in 1 .. Len(q) /\ ~(m <= k)
    BY <1>1, <1>5
  <2> QED
    BY <1>4, <2>1
<1> HIDE DEF g, H, hopeless
<1>11. InTree(g)
  BY <1>7, <1>8, <1>9 DEF InTree
<1>12. \A k \in 1 .. Len(g) - 1 : SubSeq(g, 1, k) \notin hopeless
  <2>1. \A k \in 1 .. m - 1 : k \in 1 .. m
    BY <1>5
  <2> QED
    BY <1>7, <1>8, <1>10, <2>1
<1>13. g \in Garbage
  BY <1>6, <1>11, <1>12 DEF Garbage, hopeless
<1>14. Garbage \in SUBSET linked
  BY DEF Garbage
<1> QED
  BY <1>7, <1>13, <1>14, LinkedBelow

(* After a collection nothing linked is hopeless.                          *)
LEMMA CollectKeeps == IInv /\ Collect => IInv'
<1> SUFFICES ASSUME IInv, Collect PROVE IInv'
  OBVIOUS
<1>1. Tree'
  BY CollectTree
<1>2. /\ pc = "collect" /\ pc' = "loop"
      /\ UNCHANGED <<fit, rules, minority, pmap, min_objective>>
      /\ collected' = IF min_objective < collected THEN min_objective ELSE collected
  BY DEF Collect, bestVars
<1>3. Types /\ Rooted /\ Waiting /\ Evaluated /\ ~Evaluating /\ LookAhead' = LookAhead /\ CollectedFor
      /\ min_objective \in Int /\ collected \in Int
  BY <1>2 DEF IInv, Tree, Types, Bounds, Evaluating, LookAhead
<1>4. CASE min_objective < collected
  <2> DEFINE nd == NodesWithout(Garbage)
             ln == LinkedWithout(Garbage)
  <2>1. nodes' = nd /\ linked' = ln
    BY <1>4 DEF Collect
  <2>2. Garbage \in SUBSET linked
    BY DEF Garbage
  <2>3. /\ ln \subseteq linked /\ ln \subseteq DOMAIN nd
        /\ \A q \in linked : q \in ln <=> q \notin Below(Garbage)
        /\ DOMAIN nd \subseteq DOMAIN nodes
        /\ \A q \in DOMAIN nd : /\ nd[q].lower_bound = nodes[q].lower_bound
                                /\ nd[q].equivalent_minority = nodes[q].equivalent_minority
    BY <1>3, <2>2, Drop
  <2>4. \A q \in ln : ~Hopeless(nodes[q])
    BY <1>3, <2>3, GarbageAbove
  <2> HIDE DEF nd, ln
  <2>5. MinorityCounted' /\ BoundGrows' /\ Memory'
    BY <1>1, <1>2, <2>1, <2>3, Shrinks DEF Tree
  <2>6. \A q \in linked' : nodes'[q].lower_bound + LookAhead < min_objective
    <3> SUFFICES ASSUME NEW q \in ln PROVE nodes'[q].lower_bound + LookAhead < min_objective
      BY <2>1
    <3>1. nodes[q] \in NodeType /\ ~Hopeless(nodes[q]) /\ LookAhead \in Nat
      BY <1>3, <2>3, <2>4, FitFacts DEF Types
    <3> QED
      BY <1>3, <2>1, <2>3, <3>1 DEF Hopeless, NodeType
  <2>7. LinkedIsPromising'
    <3> SUFFICES ASSUME NEW q \in linked' PROVE ~(nodes'[q].lower_bound + LookAhead >= min_objective)
      BY <1>2, <1>3 DEF LinkedIsPromising, Hopeless
    <3>1. nodes[q] \in NodeType /\ nodes'[q].lower_bound = nodes[q].lower_bound /\ LookAhead \in Nat
      BY <1>3, <2>1, <2>3, FitFacts DEF Types
    <3> QED
      BY <1>3, <2>6, <3>1 DEF NodeType
  <2>8. CollectedFor'
    BY <1>2, <1>3, <1>4, <2>6 DEF CollectedFor
  <2> QED
    BY <1>1, <2>5, <2>7, <2>8 DEF IInv, Bounds
<1>5. CASE ~(min_objective < collected)
  <2>1. nodes' = nodes /\ linked' = linked /\ collected' = collected
    BY <1>2, <1>5 DEF Collect, treeVars
  <2>2. MinorityCounted' /\ BoundGrows' /\ Memory'
    BY <1>1, <1>2, <2>1, Shrinks DEF Tree
  <2>3. min_objective = collected
    BY <1>3, <1>5 DEF CollectedFor
  <2>4. CollectedFor'
    BY <1>2, <1>3, <2>1, <2>3 DEF CollectedFor
  <2>5. LinkedIsPromising'
    <3> SUFFICES ASSUME NEW q \in linked PROVE ~(nodes[q].lower_bound + LookAhead >= min_objective)
      BY <1>2, <1>3, <2>1 DEF LinkedIsPromising, Hopeless
    <3>1. nodes[q] \in NodeType /\ LookAhead \in Nat /\ nodes[q].lower_bound + LookAhead < min_objective
      BY <1>3, <2>3, FitFacts DEF Types, CollectedFor
    <3> QED
      BY <1>3, <3>1 DEF NodeType
  <2> QED
    BY <1>1, <2>2, <2>4, <2>5 DEF IInv, Bounds
<1> QED
  BY <1>4, <1>5

(* Beginning it.                                                           *)
LEMMA BeginKeeps == IInv /\ Begin => IInv'
<1> SUFFICES ASSUME IInv, Begin PROVE IInv'
  OBVIOUS
<1>1. Tree'
  BY BeginTree
<1>2. /\ pc = "begin"
      /\ DOMAIN nodes' = {root}
      /\ nodes'[root] = [lower_bound |-> Unit * Cardinality(minority), objective |-> Errors(Samples),
                         equivalent_minority |-> Unit * Cardinality(minority), num_captured |-> 0,
                         prediction |-> 0, done |-> FALSE, deleted |-> FALSE]
      /\ min_objective' = Errors(Samples) /\ collected' = fit.samples * Unit
      /\ UNCHANGED <<fit, rules, minority, linked, pmap>>
  BY BeginIs
<1>3. Types /\ linked = {} /\ pmap = <<>>
  BY <1>2 DEF IInv, Tree, NotBegun
<1>4. min_objective' <= collected'
  BY <1>2, <1>3, Costs DEF Types
<1>5. LinkedIsPromising' /\ CollectedFor' /\ BoundGrows'
  BY <1>2, <1>3, <1>4 DEF LinkedIsPromising, CollectedFor, BoundGrows
<1>6. MinorityCounted'
  <2>1. \A p : NotCaptured(p)' = NotCaptured(p)
    BY <1>2, SameCaptured
  <2>2. NotCaptured(root) \cap minority = minority
    BY <1>3 DEF NotCaptured, Captured, root, Types
  <2> QED
    BY <1>2, <2>1, <2>2 DEF MinorityCounted
<1>7. Memory'
  <2>1. NoRuleTwice'
    BY <1>2 DEF NoRuleTwice, IsInjective, root
  <2>2. DOMAIN pmap = {}
    BY <1>3
  <2> QED
    BY <1>2, <1>3, <2>1, <2>2 DEF Memory, CapturedMapRight, PrefixMapRight
<1> QED
  BY <1>1, <1>5, <1>6, <1>7 DEF IInv, Bounds

(* Mining a rule.                                                          *)
LEMMA MineKeeps == IInv /\ MineStep /\ UNCHANGED searchVars => IInv'
<1> SUFFICES ASSUME IInv, MineStep, UNCHANGED searchVars PROVE IInv'
  OBVIOUS
<1>1. Tree'
  BY MineTree
<1>2. /\ pc \in {"mine", "combine"} /\ pc' \in {"mine", "combine", "begin"} /\ fit' = fit
      /\ UNCHANGED <<nodes, linked, queue, pmap, min_objective, collected>>
  BY MineIs DEF searchVars, treeVars, bestVars
<1>3. linked = {} /\ DOMAIN nodes = {} /\ DOMAIN pmap = {} /\ min_objective <= collected
  BY <1>2 DEF IInv, Tree, NotBegun, Bounds, CollectedFor
<1>4. Bounds'
  BY <1>2, <1>3 DEF Bounds, LinkedIsPromising, CollectedFor, MinorityCounted, BoundGrows
<1>5. Memory'
  BY <1>2, <1>3 DEF Memory, NoRuleTwice, CapturedMapRight, PrefixMapRight
<1> QED
  BY <1>1, <1>4, <1>5 DEF IInv

(* The new node, among what Extend leaves, keeps the bounds.               *)
LEMMA ExtendKeeps == IInv /\ Extend => IInv'
<1> SUFFICES ASSUME IInv, Extend PROVE IInv'
  OBVIOUS
<1> DEFINE b == NewPrefix
           nd == NodesWithout(Superseded(b))
           ln == LinkedWithout(Superseded(b))
<1>1. Tree'
  BY ExtendTree
<1>2. /\ Evaluating /\ pc' = pc /\ next_rule \notin ToSet(parent)
      /\ parent' = parent /\ fit' = fit /\ rules' = rules /\ minority' = minority
      /\ collected' = collected /\ min_objective' = NewBest
  BY ExtendIs
<1>3. /\ b \in Seq(Nat) /\ b # root /\ Len(b) = Len(parent) + 1 /\ b \notin DOMAIN nodes /\ IsInjective(b)
      /\ \A q \in Seq(Nat) : IsPrefix(q, b) /\ q # b => IsPrefix(q, parent)
      /\ NewNode \in NodeType /\ NewBest \in Int /\ NewBest <= min_objective
      /\ NotCaptured(b) = NotCaptured(parent) => nodes[parent].lower_bound <= NewLower
  BY <1>2, NewFacts
<1>4. Types /\ Rooted /\ Waiting /\ Evaluated /\ NoRuleTwice /\ CapturedMapRight /\ PrefixMapRight
      /\ CollectedFor /\ MinorityCounted /\ BoundGrows
  BY DEF IInv, Tree, Bounds, Memory
<1>5. LinkedIsPromising'
  BY <1>2 DEF LinkedIsPromising, Evaluating
<1>6. CASE ~Linking
  <2>1. UNCHANGED <<nodes, linked, queue, pmap>>
    BY <1>6, ExtendIs
  <2>2. MinorityCounted' /\ BoundGrows' /\ Memory'
    BY <1>1, <1>2, <2>1, Shrinks DEF Tree
  <2>3. CollectedFor'
    BY <1>1, <1>2, <1>3, <2>1, CollectedKept DEF Tree
  <2> QED
    BY <1>1, <1>5, <2>2, <2>3 DEF IInv, Bounds
<1>7. CASE Linking
  <2>1. /\ linked' = {b} \cup ln
        /\ DOMAIN nodes' = {b} \cup DOMAIN nd
        /\ nodes'[b] = NewNode
        /\ \A q \in DOMAIN nd : nodes'[q] = nd[q]
        /\ pmap' = Remembered(b, NewLower)
        /\ b \notin DOMAIN nd
        /\ Superseded(b) \in SUBSET linked
        /\ \A p \in Superseded(b) : ~IsPrefix(p, parent)
    BY <1>7, Grown, ExtendIs
  <2>2. /\ ln \subseteq linked /\ ln \subseteq DOMAIN nd
        /\ \A q \in linked : q \in ln <=> q \notin Below(Superseded(b))
        /\ DOMAIN nd \subseteq DOMAIN nodes
        /\ \A q \in DOMAIN nd : /\ nd[q].lower_bound = nodes[q].lower_bound
                                /\ nd[q].equivalent_minority = nodes[q].equivalent_minority
        /\ \A q \in ln : \A k \in 0 .. Len(q) - 1 : k # 0 => SubSeq(q, 1, k) \in ln
        /\ parent \in DOMAIN nd
        /\ parent = root \/ parent \in ln
    BY <1>2, <1>4, <2>1, Drop
  <2> HIDE DEF nd, ln
  <2>3. \A p : NotCaptured(p)' = NotCaptured(p)
    BY <1>2, SameCaptured
  <2>4. /\ NewNode.lower_bound = NewLower
        /\ NewNode.equivalent_minority = Unit * Cardinality(NotCaptured(b) \cap minority)
    BY DEF NewNode, NewLeft
  <2>5. MinorityCounted'
    BY <1>2, <1>4, <2>1, <2>2, <2>3, <2>4 DEF MinorityCounted
  <2>6. CollectedFor'
    <3>1. LookAhead' = LookAhead
      BY <1>2 DEF LookAhead
    <3>2. /\ min_objective \in Int /\ collected \in Int /\ LookAhead \in Nat /\ NewLower \in Int
          /\ min_objective <= collected
      BY <1>3, <1>4, <2>4, FitFacts DEF Types, CollectedFor, NodeType
    <3>3. NewLower + LookAhead < collected /\ min_objective' <= collected'
      BY <1>2, <1>3, <3>2, <1>7 DEF Linking
    <3>4. \A q \in ln : nodes'[q].lower_bound + LookAhead < collected
      BY <1>4, <2>1, <2>2 DEF CollectedFor
    <3> QED
      BY <1>2, <2>1, <2>4, <3>1, <3>3, <3>4 DEF CollectedFor
  <2>7. BoundGrows'
    <3> SUFFICES ASSUME NEW q \in linked', NEW k \in 1 .. Len(q),
                        NotCaptured(SubSeq(q, 1, k))' = NotCaptured(q)'
                 PROVE  nodes'[SubSeq(q, 1, k)].lower_bound <= nodes'[q].lower_bound
      BY DEF BoundGrows
    <3> DEFINE a == SubSeq(q, 1, k)
    <3>1. NotCaptured(a) = NotCaptured(q) /\ q \in Seq(Nat) /\ Len(q) \in Nat /\ k \in Nat /\ k # 0
      BY <1>1, <2>3 DEF Tree, Types
    <3>2. CASE k = Len(q)
      <4>1. a = q /\ nodes'[q] \in NodeType
        BY <1>1, <3>1, <3>2, SubSeqFull DEF Tree, Types
      <4>2. nodes'[q].lower_bound \in Int
        BY <4>1 DEF NodeType
      <4>3. nodes'[q].lower_bound <= nodes'[q].lower_bound
        BY <4>2
      <4> HIDE DEF a
      <4>4. nodes'[a].lower_bound <= nodes'[q].lower_bound
        BY <4>1, <4>3
      <4> QED
        BY <4>4 DEF a
    <3>3. CASE k # Len(q) /\ q \in ln
      <4>1. k \in 0 .. Len(q) - 1
        BY <3>1, <3>3
      <4>2. a \in ln
        BY <2>2, <3>1, <3>3, <4>1
      <4>3. nodes[a].lower_bound <= nodes[q].lower_bound
        BY <1>4, <2>2, <3>1, <3>3 DEF BoundGrows
      <4> QED
        BY <2>1, <2>2, <3>3, <4>2, <4>3
    <3>4. CASE k # Len(q) /\ q = b
      <4>1. parent \in Seq(Nat) /\ Len(parent) \in Nat /\ k \in 1 .. Len(parent) /\ k \in 0 .. Len(parent)
        BY <1>3, <1>4, <3>1, <3>4 DEF Types
      <4>2. a = SubSeq(parent, 1, k)
        BY <1>4, <3>4, <4>1, AppendAt DEF b, NewPrefix, Types
      <4>3. a \in Seq(Nat) /\ IsPrefix(a, parent)
        BY <4>1, <4>2, PrefixAt, PrefixBelow
      <4>4. parent # root /\ parent \in ln
        BY <2>2, <4>1 DEF root
      <4>5. a \in ln
        <5>1. CASE k = Len(parent)
          BY <4>1, <4>2, <4>4, <5>1, SubSeqFull
        <5>2. CASE k # Len(parent)
          <6>1. k \in 0 .. Len(parent) - 1
            BY <4>1, <5>2
          <6> QED
            BY <2>2, <3>1, <4>2, <4>4, <6>1
        <5> QED
          BY <5>1, <5>2
      <4>6. IsPrefix(parent, b)
        BY <1>3, NewFacts, <1>2, PrefixOfFront DEF root
      <4> HIDE DEF a, b
      <4>7. NotCaptured(parent) = NotCaptured(a) /\ NotCaptured(b) = NotCaptured(parent)
        <5>1. NotCaptured(parent) \subseteq NotCaptured(a)
          BY <4>1, <4>3, CapturedGrows
        <5>2. NotCaptured(b) \subseteq NotCaptured(parent)
          BY <1>3, <4>1, <4>6, CapturedGrows
        <5> QED
          BY <3>1, <3>4, <5>1, <5>2
      <4>8. nodes[a].lower_bound <= nodes[parent].lower_bound
        BY <1>4, <2>2, <4>1, <4>2, <4>4, <4>7 DEF BoundGrows
      <4>9. nodes[parent].lower_bound <= NewLower
        BY <1>3, <4>7
      <4>10. nodes[a] \in NodeType /\ nodes[parent] \in NodeType /\ nodes'[a].lower_bound = nodes[a].lower_bound
             /\ nodes'[b].lower_bound = NewLower /\ NewNode \in NodeType
        BY <1>3, <1>4, <2>1, <2>2, <2>4, <4>4, <4>5 DEF Types
      <4>11. nodes[a].lower_bound \in Int /\ nodes[parent].lower_bound \in Int /\ NewLower \in Int
        BY <2>4, <4>10 DEF NodeType
      <4>12. nodes'[a].lower_bound <= nodes'[b].lower_bound
        BY <4>8, <4>9, <4>10, <4>11
      <4> QED
        BY <3>4, <4>12 DEF a
    <3> QED
      BY <2>1, <3>2, <3>3, <3>4
  <2>8. NoRuleTwice'
    BY <1>3, <1>4, <2>1, <2>2 DEF NoRuleTwice
  <2>9. CASE fit.map = "none"
    BY <1>1, <1>2, <1>5, <2>5, <2>6, <2>7, <2>8, <2>9 DEF IInv, Bounds, Memory, CapturedMapRight, PrefixMapRight
  <2>10. CASE fit.map = "prefix"
    <3>1. pmap' = With(pmap, ToSet(b), [lower_bound |-> NewLower, prefix |-> Ordered(b)])
      BY <2>1, <2>10 DEF Remembered, Key, Recorded
    <3>2. DOMAIN Ordered(b) = DOMAIN b /\ DOMAIN b = 1 .. Len(b) /\ Cardinality(ToSet(b)) = Len(b)
      BY <1>3, LengthCounts DEF Ordered
    <3>3. PrefixMapRight'
      <4> SUFFICES ASSUME NEW key \in DOMAIN pmap' PROVE DOMAIN pmap'[key].prefix = 1 .. Cardinality(key)
        BY DEF PrefixMapRight
      <4>1. CASE key = ToSet(b)
        <5>1. pmap'[key] = [lower_bound |-> NewLower, prefix |-> Ordered(b)]
          BY <3>1, <4>1 DEF With
        <5> QED
          BY <3>2, <4>1, <5>1
      <4>2. CASE key # ToSet(b)
        <5>1. key \in DOMAIN pmap /\ pmap'[key] = pmap[key]
          BY <3>1, <4>2 DEF With
        <5> QED
          BY <1>4, <2>10, <5>1 DEF PrefixMapRight
      <4> QED
        BY <4>1, <4>2
    <3> QED
      BY <1>1, <1>2, <1>5, <2>5, <2>6, <2>7, <2>8, <2>10, <3>3 DEF IInv, Bounds, Memory, CapturedMapRight
  <2>11. CASE fit.map = "captured"
    <3> DEFINE new == NotCaptured(b)
    <3>1. pmap' = With(pmap, new, [lower_bound |-> NewLower, prefix |-> b])
      BY <2>1, <2>11 DEF Remembered, Key, Recorded
    <3> HIDE DEF b
    <3>2. /\ new \in DOMAIN pmap' /\ pmap'[new].prefix = b /\ pmap'[new].lower_bound = NewLower
          /\ \A key \in DOMAIN pmap : key # new => key \in DOMAIN pmap' /\ pmap'[key] = pmap[key]
          /\ \A key \in DOMAIN pmap' : key = new \/ key \in DOMAIN pmap
      BY <3>1 DEF With
    <3>3. \A q \in linked : /\ NotCaptured(q) \in DOMAIN pmap
                            /\ pmap[NotCaptured(q)].prefix = q
                            /\ pmap[NotCaptured(q)].lower_bound = nodes[q].lower_bound
      BY <1>4, <2>11 DEF CapturedMapRight
    <3>4. ASSUME NEW q \in ln PROVE NotCaptured(q) # new
      <4> SUFFICES ASSUME NotCaptured(q) = new PROVE FALSE
        OBVIOUS
      <4>1. q \in linked /\ q \in Seq(Nat) /\ new \in DOMAIN pmap /\ pmap[new].prefix = q
        BY <1>4, <2>2, <3>3 DEF Types
      <4>2. InTree(q)
        <5> SUFFICES ASSUME NEW k \in 1 .. Len(q) PROVE SubSeq(q, 1, k) \in linked
          BY DEF InTree
        <5>1. CASE k = Len(q)
          BY <4>1, <5>1, SubSeqFull
        <5>2. CASE k # Len(q)
          <6>1. k \in 0 .. Len(q) - 1 /\ k # 0
            BY <4>1, <5>2
          <6> QED
            BY <1>4, <4>1, <6>1 DEF Rooted
        <5> QED
          BY <5>1, <5>2
      <4>3. q \in Superseded(b)
        BY <2>11, <4>1, <4>2 DEF Superseded, Key, Permuted
      <4>4. q \in Below(Superseded(b))
        BY <1>2, <1>4, <2>1, <4>1, <4>3, LinkedBelow, PrefixRefl
      <4> QED
        BY <2>2, <4>1, <4>4
    <3>5. \A q \in linked' : /\ NotCaptured(q) \in DOMAIN pmap'
                             /\ pmap'[NotCaptured(q)].prefix = q
                             /\ pmap'[NotCaptured(q)].lower_bound = nodes'[q].lower_bound
      <4>1. ASSUME NEW q \in ln
            PROVE  /\ NotCaptured(q) \in DOMAIN pmap'
                   /\ pmap'[NotCaptured(q)].prefix = q
                   /\ pmap'[NotCaptured(q)].lower_bound = nodes'[q].lower_bound
        BY <2>1, <2>2, <3>2, <3>3, <3>4
      <4> QED
        BY <2>1, <2>4, <3>2, <4>1
    <3>6. \A key \in DOMAIN pmap' : NotCaptured(pmap'[key].prefix) = key
      BY <1>4, <2>11, <3>2 DEF CapturedMapRight
    <3>7. CapturedMapRight'
      BY <2>3, <3>5, <3>6 DEF CapturedMapRight
    <3> QED
      BY <1>1, <1>2, <1>5, <2>5, <2>6, <2>7, <2>8, <2>11, <3>7 DEF IInv, Bounds, Memory, PrefixMapRight
  <2>12. fit.map \in {"none", "prefix", "captured"}
    BY <1>4, FitsAssumption DEF FitAssumption, Types
  <2> QED
    BY <2>9, <2>10, <2>11, <2>12
<1> QED
  BY <1>6, <1>7

(* So every step keeps it.                                                 *)
LEMMA NextKeeps == IInv /\ [Next]_vars => IInv'
<1> SUFFICES ASSUME IInv, [Next]_vars PROVE IInv'
  OBVIOUS
<1>1. CASE MineStep /\ UNCHANGED searchVars
  BY <1>1, MineKeeps
<1>2. CASE SearchStep
  BY <1>2, BeginKeeps, ContinueKeeps, DiscardKeeps, SelectKeeps, SkipKeeps, ExtendKeeps, DoneKeeps, PruneUpKeeps,
     CollectKeeps, EndKeeps DEF SearchStep
<1>3. CASE UNCHANGED vars
  BY <1>3, StutterKeeps
<1> QED
  BY <1>1, <1>2, <1>3 DEF Next

-----------------------------------------------------------------------------
(* The invariant holds throughout.                                         *)
THEOREM Invariance == Spec => []IInv
<1>1. Init => IInv
  BY StartsRight
<1>2. IInv /\ [Next]_vars => IInv'
  BY NextKeeps
<1> QED
  BY <1>1, <1>2, PTL DEF Spec

(* Nothing freed is used: what the queue holds is in memory, and whatever  *)
(* is or may be evaluated is linked up to a root that is.                  *)
THEOREM FreedIsNotUsed == Spec => []NothingFreedIsUsed
<1>1. IInv => NothingFreedIsUsed
  <2> SUFFICES ASSUME IInv PROVE NothingFreedIsUsed
    OBVIOUS
  <2> DEFINE live == {q \in queue : ~nodes[q].deleted} \cup (IF pc = "evaluate" THEN {parent} ELSE {})
  <2>1. Types /\ Rooted /\ Waiting /\ Evaluated
    BY DEF IInv, Tree
  <2>2. ASSUME NEW q \in live PROVE q \in DOMAIN nodes /\ (q = root \/ q \in linked)
    BY <2>1 DEF Types, Waiting, Evaluated, Evaluating
  <2>3. ASSUME NEW q \in linked PROVE root \in DOMAIN nodes /\ InTree(q)
    <3>1. q \in Seq(Nat) /\ Len(q) \in Nat \ {0}
      BY <2>1, EmptySeq DEF Types, root
    <3>2. 0 \in 0 .. Len(q) - 1
      BY <3>1
    <3>3. SubSeq(q, 1, 0) = root
      BY <3>1 DEF root
    <3>4. root \in DOMAIN nodes
      BY <2>1, <3>2, <3>3 DEF Rooted
    <3>5. ASSUME NEW k \in 1 .. Len(q) PROVE SubSeq(q, 1, k) \in linked
      <4>1. CASE k = Len(q)
        BY <3>1, <4>1, SubSeqFull
      <4>2. CASE k # Len(q)
        <5>1. k \in 0 .. Len(q) - 1 /\ k # 0
          BY <3>1, <4>2
        <5> QED
          BY <2>1, <5>1 DEF Rooted
      <4> QED
        BY <4>1, <4>2
    <3> QED
      BY <3>4, <3>5 DEF InTree
  <2>4. InTree(root)
    BY DEF InTree, root
  <2>5. \A q \in live : root \in DOMAIN nodes /\ InTree(q)
    BY <2>2, <2>3, <2>4
  <2> QED
    BY <2>1, <2>5 DEF NothingFreedIsUsed, Types, Waiting
<1> QED
  BY <1>1, Invariance, PTL

(* Whenever a node is about to be chosen, no linked node is hopeless: what *)
(* select frees is not linked.                                             *)
THEOREM LinkedStaysPromising == Spec => []LinkedIsPromising
<1>1. IInv => LinkedIsPromising
  BY DEF IInv, Bounds
<1> QED
  BY <1>1, Invariance, PTL

(* Of the rule lists that capture the same samples, the captured map never *)
(* leaves two linked.                                                      *)
THEOREM OneListStands == Spec => []OneWayToCapture
<1>1. IInv => OneWayToCapture
  BY DEF IInv, Memory, CapturedMapRight, OneWayToCapture
<1> QED
  BY <1>1, Invariance, PTL

=============================================================================
