------------------------- MODULE CorelsResultProofs -------------------------
(***************************************************************************)
(* On top of the invariant of the search: num_nodes counts what is in      *)
(* memory and the end frees all of it; and what fit returns is what the    *)
(* search claims, for any arguments: the rules capture what their literals *)
(* say, the bound of each linked node is what its list gets wrong, and so  *)
(* is the objective of the best list. Mining finds each rule that it is to *)
(* find, once.  And until the best list is found, a node that can be       *)
(* completed to an optimal one waits.                                      *)
(***************************************************************************)
EXTENDS CorelsMemoryProofs, CorelsCorrect

(* The nodes in memory are counted                                         *)

(* Nothing is left in memory that neither the tree nor the queue leads to. *)
Kept == DOMAIN nodes \subseteq {root} \cup linked \cup {q \in queue : nodes[q].deleted}

(* What is linked and not done waits, unless it is being evaluated.        *)
Undone == \A q \in linked : nodes[q].done \/ q \in queue \/ (Evaluating /\ q = parent)

(* A root that prune_up reached is alone, but for what is marked.          *)
Alone == linked = {} /\ root \in DOMAIN nodes /\ root \notin queue /\ ~Evaluating

Counted ==
  /\ IsFiniteSet(DOMAIN nodes)
  /\ num_nodes = Cardinality(DOMAIN nodes) \/ (num_nodes = Cardinality(DOMAIN nodes) - 1 /\ Alone)

Over == pc = "ended" => DOMAIN nodes \subseteq {root} /\ num_nodes = 0

Accounts == Kept /\ Undone /\ Counted /\ Over

(* Dropping subtrees frees what it does not leave marked in the queue.     *)
LEMMA DropAccounts ==
  ASSUME IInv, Kept, Undone,
         NEW D \in SUBSET linked, Evaluating => \A p \in D : ~IsPrefix(p, parent)
  PROVE  LET nd == NodesWithout(D)
             ln == LinkedWithout(D)
         IN  /\ DOMAIN nd = DOMAIN nodes \ Freed(D)
             /\ Freed(D) \in SUBSET DOMAIN nodes /\ Freed(D) \subseteq linked
             /\ DOMAIN nd \subseteq {root} \cup ln \cup {q \in queue : nd[q].deleted}
             /\ \A q \in ln : nd[q].done \/ q \in queue \/ (Evaluating /\ q = parent)
<1> DEFINE nd == NodesWithout(D)
           ln == LinkedWithout(D)
<1>1. Types /\ Rooted /\ Waiting /\ Evaluated
  BY DEF IInv, Tree
<1>2. \A q \in Below(D) : q \in linked /\ \E p \in D : IsPrefix(p, q)
  BY <1>1, LinkedBelow
<1>3. Freed(D) = {q \in Below(D) : nodes[q].done}
  BY DEF Freed, Below
<1>4. /\ DOMAIN nd = DOMAIN nodes \ Freed(D)
      /\ \A q \in DOMAIN nd : nd[q] = IF q \in Below(D) THEN [nodes[q] EXCEPT !.deleted = TRUE] ELSE nodes[q]
  BY DEF NodesWithout, Below
<1>5. /\ ln \subseteq linked /\ ln \subseteq DOMAIN nd
      /\ \A q \in linked : q \in ln <=> q \notin Below(D)
  BY <1>1, Drop
<1> HIDE DEF nd, ln
<1>6. \A q \in DOMAIN nd : q \in Below(D) => nd[q].deleted
  BY <1>1, <1>4, Marked DEF Types
<1>7. ASSUME NEW q \in DOMAIN nd PROVE q \in {root} \cup ln \cup {m \in queue : nd[m].deleted}
  <2>1. CASE q \in Below(D)
    <3>1. q \in linked /\ ~nodes[q].done /\ ~(Evaluating /\ q = parent)
      BY <1>2, <1>3, <1>4, <2>1
    <3> QED
      BY <1>6, <2>1, <3>1 DEF Undone
  <2>2. CASE q \notin Below(D)
    <3>1. q \in DOMAIN nodes /\ nd[q] = nodes[q]
      BY <1>4, <2>2
    <3> QED
      BY <1>5, <2>2, <3>1 DEF Kept
  <2> QED
    BY <2>1, <2>2
<1>8. ASSUME NEW q \in ln PROVE nd[q].done \/ q \in queue \/ (Evaluating /\ q = parent)
  <2>1. nd[q] = nodes[q] /\ q \in linked
    BY <1>4, <1>5
  <2> QED
    BY <2>1 DEF Undone
<1>9. Freed(D) \in SUBSET DOMAIN nodes /\ Freed(D) \subseteq linked
  BY <1>1, <1>2, <1>3 DEF Types
<1> QED
  BY <1>4, <1>7, <1>8, <1>9 DEF nd, ln

(* While a node is evaluated num_nodes counts exactly what is in memory.   *)
LEMMA CountedAll ==
  ASSUME Counted
  PROVE  /\ Cardinality(DOMAIN nodes) \in Nat /\ num_nodes \in Int
         /\ Evaluating => num_nodes = Cardinality(DOMAIN nodes)
BY FS_CardinalityType DEF Counted, Alone

(* select frees one node and takes one off the count.                      *)
LEMMA DiscardAccounts == IInv /\ Accounts /\ Discard => Accounts'
<1> SUFFICES ASSUME IInv, Accounts, Discard PROVE Accounts'
  OBVIOUS
<1>1. PICK top \in Tops :
        /\ pc = "select"
        /\ nodes[top].deleted \/ Hopeless(nodes[top])
        /\ queue' = queue \ {top}
        /\ nodes' = [q \in DOMAIN nodes \ {top} |-> nodes[q]]
        /\ num_nodes' = num_nodes - 1
        /\ pc' = IF queue' = {} THEN "loop" ELSE "select"
        /\ UNCHANGED <<linked, parent>>
  BY DEF Discard
<1>2. top \in queue /\ top \in DOMAIN nodes /\ ~Evaluating /\ ~Evaluating'
  BY <1>1 DEF Tops, IInv, Tree, Types, Evaluating
<1>3. top \notin linked
  BY <1>1, <1>2 DEF IInv, Tree, Waiting, Bounds, LinkedIsPromising
<1>4. DOMAIN nodes' = DOMAIN nodes \ {top} /\ \A q \in DOMAIN nodes' : nodes'[q] = nodes[q]
  BY <1>1
<1>5. Kept'
  BY <1>1, <1>4 DEF Accounts, Kept
<1>6. Undone'
  <2>1. \A q \in linked : q \in DOMAIN nodes' /\ q # top
    BY <1>3, <1>4 DEF IInv, Tree, Types
  <2> QED
    BY <1>1, <1>2, <1>4, <2>1 DEF Accounts, Undone
<1>7. Counted'
  <2>1. IsFiniteSet(DOMAIN nodes) /\ Cardinality(DOMAIN nodes) \in Nat /\ num_nodes \in Int
    BY CountedAll DEF Accounts, Counted
  <2>2. IsFiniteSet(DOMAIN nodes') /\ Cardinality(DOMAIN nodes') = Cardinality(DOMAIN nodes) - 1
    BY <1>2, <1>4, <2>1, FS_RemoveElement
  <2>3. Alone => Alone'
    BY <1>1, <1>2, <1>4 DEF Alone
  <2> QED
    BY <1>1, <2>1, <2>2, <2>3 DEF Accounts, Counted
<1>8. Over'
  BY <1>1 DEF Over
<1> QED
  BY <1>5, <1>6, <1>7, <1>8 DEF Accounts

(* What is selected is not marked, so the root was counted.                *)
LEMMA SelectAccounts == IInv /\ Accounts /\ Select => Accounts'
<1> SUFFICES ASSUME IInv, Accounts, Select PROVE Accounts'
  OBVIOUS
<1>1. PICK top \in Tops :
        /\ pc = "select" /\ pc' = "evaluate"
        /\ ~nodes[top].deleted
        /\ queue' = queue \ {top}
        /\ parent' = top
        /\ UNCHANGED <<nodes, linked, num_nodes>>
  BY DEF Select, treeVars
<1>2. top \in queue /\ (top = root \/ top \in linked)
  BY <1>1 DEF Tops, IInv, Tree, Waiting
<1>3. Kept'
  BY <1>1 DEF Accounts, Kept
<1>4. Undone'
  BY <1>1 DEF Accounts, Undone, Evaluating
<1>5. Counted'
  BY <1>1, <1>2 DEF Accounts, Counted, Alone
<1> QED
  BY <1>1, <1>3, <1>4, <1>5 DEF Accounts, Over

(* The steps that only move between the parts of the loop.                 *)
LEMMA IdleAccounts ==
  ASSUME Accounts, UNCHANGED <<nodes, linked, num_nodes, queue, parent>>,
         Evaluating' <=> Evaluating, pc' = "ended" => pc = "ended"
  PROVE  Accounts'
BY DEF Accounts, Kept, Undone, Counted, Alone, Over

(* One node more, and those freed less.                                    *)
LEMMA ExtendAccounts == IInv /\ Accounts /\ Extend => Accounts'
<1> SUFFICES ASSUME IInv, Accounts, Extend PROVE Accounts'
  OBVIOUS
<1> DEFINE b == NewPrefix
           nd == NodesWithout(Superseded(b))
           ln == LinkedWithout(Superseded(b))
<1>1. /\ Evaluating /\ Evaluating' /\ pc' = pc /\ parent' = parent /\ next_rule \notin ToSet(parent)
      /\ ~Linking => UNCHANGED <<nodes, linked, queue>>
      /\ Linking => queue' = queue \cup {b}
  BY ExtendIs DEF Evaluating
<1>2. /\ Linking => num_nodes' = num_nodes + 1 - Cardinality(Freed(Superseded(b)))
      /\ ~Linking => num_nodes' = num_nodes
  BY DEF Extend, treeVars, Linking, NewPrefix, NewLeft, NewLower, NewObjective, NewBest
<1>3. CASE ~Linking
  BY <1>1, <1>2, <1>3, IdleAccounts
<1>4. CASE Linking
  <2>1. /\ linked' = {b} \cup ln
        /\ DOMAIN nodes' = {b} \cup DOMAIN nd
        /\ \A q \in DOMAIN nd : nodes'[q] = nd[q]
        /\ b \notin DOMAIN nd
        /\ Superseded(b) \in SUBSET linked
        /\ \A p \in Superseded(b) : ~IsPrefix(p, parent)
    BY <1>4, Grown
  <2>2. /\ DOMAIN nd = DOMAIN nodes \ Freed(Superseded(b))
        /\ Freed(Superseded(b)) \in SUBSET DOMAIN nodes
        /\ DOMAIN nd \subseteq {root} \cup ln \cup {q \in queue : nd[q].deleted}
        /\ \A q \in ln : nd[q].done \/ q \in queue \/ (Evaluating /\ q = parent)
    BY <2>1, DropAccounts DEF Accounts
  <2>3. ln \subseteq DOMAIN nd /\ queue \subseteq DOMAIN nd
    BY <2>1, Drop DEF IInv, Tree
  <2> DEFINE gone == Freed(Superseded(b))
  <2> HIDE DEF b, nd, ln, gone
  <2>4. Kept'
    BY <1>1, <1>4, <2>1, <2>2, <2>3 DEF Kept
  <2>5. Undone'
    BY <1>1, <1>4, <2>1, <2>2, <2>3 DEF Undone
  <2>6. Counted'
    <3>1. IsFiniteSet(DOMAIN nodes) /\ num_nodes = Cardinality(DOMAIN nodes)
      BY <1>1, CountedAll DEF Accounts, Counted
    <3>2. IsFiniteSet(DOMAIN nd) /\ Cardinality(DOMAIN nd) = Cardinality(DOMAIN nodes) - Cardinality(gone)
          /\ Cardinality(DOMAIN nodes) \in Nat /\ Cardinality(gone) \in Nat
      BY <2>2, <3>1, Taken DEF gone
    <3>3. IsFiniteSet(DOMAIN nodes') /\ Cardinality(DOMAIN nodes') = Cardinality(DOMAIN nd) + 1
      BY <2>1, <3>2, FS_AddElement
    <3>4. num_nodes' = num_nodes + 1 - Cardinality(gone)
      BY <1>2, <1>4 DEF gone
    <3>5. num_nodes' = Cardinality(DOMAIN nodes')
      BY <3>1, <3>2, <3>3, <3>4
    <3> QED
      BY <3>3, <3>5 DEF Counted
  <2>7. Over'
    BY <1>1 DEF Over, Evaluating
  <2> QED
    BY <2>4, <2>5, <2>6, <2>7 DEF Accounts
<1> QED
  BY <1>3, <1>4

(* Finishing a node leaves nothing unaccounted for.                        *)
LEMMA DoneAccounts == IInv /\ Accounts /\ Done => Accounts'
<1> SUFFICES ASSUME IInv, Accounts, Done PROVE Accounts'
  OBVIOUS
<1>1. /\ Evaluating /\ ~Evaluating' /\ pc' = "collect"
      /\ nodes' = [nodes EXCEPT ![parent].done = TRUE]
      /\ UNCHANGED <<linked, num_nodes, queue, parent>>
  BY DEF Done, Evaluating
<1>2. parent \in DOMAIN nodes /\ parent \notin queue /\ nodes[parent] \in NodeType
      /\ queue \subseteq DOMAIN nodes /\ linked \subseteq DOMAIN nodes
  BY <1>1 DEF IInv, Tree, Types, Evaluated
<1>3. /\ DOMAIN nodes' = DOMAIN nodes
      /\ \A q \in DOMAIN nodes \ {parent} : nodes'[q] = nodes[q]
      /\ nodes'[parent] = [nodes[parent] EXCEPT !.done = TRUE]
  BY <1>1, <1>2
<1>4. nodes'[parent].done
  BY <1>2, <1>3 DEF NodeType
<1>5. Kept'
  BY <1>1, <1>2, <1>3 DEF Accounts, Kept
<1>6. Undone'
  <2> SUFFICES ASSUME NEW q \in linked PROVE nodes'[q].done \/ q \in queue
    BY <1>1 DEF Undone
  <2>1. CASE q = parent
    BY <1>4, <2>1
  <2>2. CASE q # parent
    BY <1>2, <1>3, <2>2 DEF Accounts, Undone
  <2> QED
    BY <2>1, <2>2
<1>7. Counted'
  BY <1>1, <1>3 DEF Accounts, Counted, Alone
<1> QED
  BY <1>1, <1>5, <1>6, <1>7 DEF Accounts, Over

(* prune_up takes one off the count for each node it frees, and one more   *)
(* when it comes to the root.                                              *)
LEMMA PruneUpAccounts == IInv /\ Accounts /\ PruneUp => Accounts'
<1> SUFFICES ASSUME IInv, Accounts, PruneUp PROVE Accounts'
  OBVIOUS
<1>1. /\ Evaluating /\ ~Evaluating' /\ pc' = "collect" /\ Children(parent) = {}
      /\ nodes' = [q \in DOMAIN nodes \ Pruned |-> nodes[q]]
      /\ linked' = linked \ Pruned
      /\ UNCHANGED <<queue, parent>>
  BY PruneUpIs DEF Evaluating
<1>2. num_nodes' = num_nodes - Cardinality(Emptied)
  BY DEF PruneUp, Emptied, UpTo
<1>3. Types /\ Rooted /\ Fresh /\ Evaluated
  BY DEF IInv, Tree
<1>4. /\ parent \in Seq(Nat) /\ parent \in DOMAIN nodes /\ parent \notin queue /\ Len(parent) \in Nat
      /\ parent = root \/ parent \in linked
  BY <1>1, <1>3 DEF Types, Evaluated
<1>5. \A k \in Emptied : k \in 0 .. Len(parent)
  BY DEF Emptied
<1>6. ASSUME NEW k \in 0 .. Len(parent) PROVE Len(UpTo(k)) = k /\ UpTo(k) \in DOMAIN nodes
  <2>1. Len(UpTo(k)) = k
    BY <1>4, PrefixAt DEF UpTo
  <2>2. CASE k = Len(parent)
    BY <1>4, <2>1, <2>2, SubSeqFull DEF UpTo
  <2>3. CASE k # Len(parent)
    <3>1. parent # root /\ k \in 0 .. Len(parent) - 1
      BY <1>4, <2>3 DEF root
    <3> QED
      BY <1>3, <1>4, <2>1, <3>1 DEF Rooted, UpTo
  <2> QED
    BY <2>2, <2>3, <2>1
<1>7. IsFiniteSet(Emptied) /\ Cardinality(Emptied) \in Nat
  <2>1. IsFiniteSet(0 .. Len(parent))
    BY <1>4, FS_Interval
  <2> QED
    BY <1>5, <2>1, FS_Subset, FS_CardinalityType
<1>8. /\ IsFiniteSet(Emptied \ {0})
      /\ Cardinality(Emptied \ {0}) = IF 0 \in Emptied THEN Cardinality(Emptied) - 1 ELSE Cardinality(Emptied)
  BY <1>7, FS_RemoveElement
<1>9. Cardinality(Pruned) = Cardinality(Emptied \ {0})
  <2> DEFINE f == [k \in Emptied \ {0} |-> UpTo(k)]
  <2>1. f \in Injection(Emptied \ {0}, Pruned)
    <3>1. f \in [Emptied \ {0} -> Pruned]
      BY DEF Pruned
    <3>2. ASSUME NEW j \in Emptied \ {0}, NEW k \in Emptied \ {0}, f[j] = f[k] PROVE j = k
      BY <1>5, <1>6, <3>2
    <3> QED
      BY <3>1, <3>2 DEF Injection, IsInjective
  <2>2. f \in Surjection(Emptied \ {0}, Pruned)
    BY <2>1 DEF Injection, Surjection, Pruned
  <2>3. f \in Bijection(Emptied \ {0}, Pruned)
    BY <2>1, <2>2 DEF Bijection
  <2> QED
    BY <1>8, <2>3, FS_Bijection DEF ExistsBijection
<1>10. Pruned \in SUBSET DOMAIN nodes
  BY <1>5, <1>6 DEF Pruned
<1>11. DOMAIN nodes' = DOMAIN nodes \ Pruned /\ \A q \in DOMAIN nodes' : nodes'[q] = nodes[q]
  BY <1>1
<1>12. Kept'
  BY <1>1, <1>11 DEF Accounts, Kept
<1>13. Undone'
  <2>1. ASSUME parent \in linked PROVE parent \in Pruned
    <3>1. Len(parent) # 0
      BY <1>3, <1>4, <2>1, EmptySeq DEF Types, root
    <3>2. Len(parent) \in Emptied \ {0}
      BY <1>4, <3>1 DEF Emptied
    <3>3. parent = UpTo(Len(parent))
      BY <1>4, SubSeqFull DEF UpTo
    <3> QED
      BY <3>2, <3>3 DEF Pruned
  <2>2. \A q \in linked' : q \in linked /\ q # parent /\ q \in DOMAIN nodes'
    BY <1>1, <1>3, <1>11, <2>1 DEF Types
  <2> QED
    BY <1>1, <1>11, <2>2 DEF Accounts, Undone
<1>14. 0 \in Emptied => Alone'
  <2> SUFFICES ASSUME 0 \in Emptied PROVE Alone'
    OBVIOUS
  <2>1. ASSUME NEW q \in linked PROVE q \in Pruned
    <3>1. q \in Seq(Nat) /\ q # root /\ Len(q) \in Nat
      BY <1>3 DEF Types
    <3>2. Len(q) >= 0 /\ SubSeq(q, 1, 0) = root /\ UpTo(0) = root
      BY <1>4, <3>1 DEF UpTo, root
    <3> QED
      BY <1>1, <1>3, <3>1, <3>2, PrunedBelow
  <2>2. root \in DOMAIN nodes'
    <3>1. root \in DOMAIN nodes
      <4>1. 0 \in 0 .. Len(parent) /\ UpTo(0) = root
        BY <1>4 DEF UpTo, root
      <4> QED
        BY <1>6, <4>1
    <3>2. root \notin Pruned
      <4> SUFFICES ASSUME NEW k \in Emptied \ {0}, root = UpTo(k) PROVE FALSE
        BY DEF Pruned
      <4>1. Len(root) = k
        BY <1>5, <1>6
      <4> QED
        BY <4>1 DEF root
    <3> QED
      BY <1>11, <3>1, <3>2
  <2>3. root \notin queue
    <3> SUFFICES ASSUME root \in queue PROVE FALSE
      OBVIOUS
    <3>1. IsPrefix(root, parent)
      BY <1>4 DEF IsPrefix, root
    <3> QED
      BY <1>3, <1>4, <3>1 DEF Fresh
  <2> QED
    BY <1>1, <2>1, <2>2, <2>3 DEF Alone
<1>15. Counted'
  <2>1. IsFiniteSet(DOMAIN nodes) /\ num_nodes = Cardinality(DOMAIN nodes)
    BY <1>1, CountedAll DEF Accounts, Counted
  <2>2. /\ IsFiniteSet(DOMAIN nodes') /\ Cardinality(DOMAIN nodes) \in Nat /\ Cardinality(Pruned) \in Nat
        /\ Cardinality(DOMAIN nodes') = Cardinality(DOMAIN nodes) - Cardinality(Pruned)
    BY <1>10, <1>11, <2>1, Taken
  <2>3. CASE 0 \in Emptied
    BY <1>2, <1>7, <1>8, <1>9, <1>14, <2>1, <2>2, <2>3 DEF Counted
  <2>4. CASE 0 \notin Emptied
    BY <1>2, <1>7, <1>8, <1>9, <2>1, <2>2, <2>4 DEF Counted
  <2> QED
    BY <2>3, <2>4
<1> QED
  BY <1>1, <1>12, <1>13, <1>15 DEF Accounts, Over

(* Nor does collecting after a better list was found.                      *)
LEMMA CollectAccounts == IInv /\ Accounts /\ Collect => Accounts'
<1> SUFFICES ASSUME IInv, Accounts, Collect PROVE Accounts'
  OBVIOUS
<1>1. /\ ~Evaluating /\ ~Evaluating' /\ pc = "collect" /\ pc' = "loop"
      /\ UNCHANGED <<queue, parent>>
  BY DEF Collect, Evaluating
<1>2. CASE min_objective < collected
  <2> DEFINE nd == NodesWithout(Garbage)
             ln == LinkedWithout(Garbage)
             gone == Freed(Garbage)
  <2>1. nodes' = nd /\ linked' = ln /\ num_nodes' = num_nodes - Cardinality(gone)
    BY <1>2 DEF Collect
  <2>2. Garbage \in SUBSET linked
    BY DEF Garbage
  <2>3. /\ DOMAIN nd = DOMAIN nodes \ gone
        /\ gone \in SUBSET DOMAIN nodes /\ gone \subseteq linked
        /\ DOMAIN nd \subseteq {root} \cup ln \cup {q \in queue : nd[q].deleted}
        /\ \A q \in ln : nd[q].done \/ q \in queue
    BY <1>1, <2>2, DropAccounts DEF Accounts
  <2>4. ln \subseteq linked
    BY <1>1, <2>2, Drop DEF IInv, Tree
  <2> HIDE DEF nd, ln, gone
  <2>5. Kept' /\ Undone'
    BY <1>1, <2>1, <2>3 DEF Kept, Undone
  <2>6. Counted'
    <3>1. IsFiniteSet(DOMAIN nodes) /\ num_nodes \in Int
      BY CountedAll DEF Accounts, Counted
    <3>2. /\ IsFiniteSet(DOMAIN nodes') /\ Cardinality(DOMAIN nodes) \in Nat /\ Cardinality(gone) \in Nat
          /\ Cardinality(DOMAIN nodes') = Cardinality(DOMAIN nodes) - Cardinality(gone)
      BY <2>1, <2>3, <3>1, Taken
    <3>3. Alone => Alone'
      BY <1>1, <2>1, <2>3, <2>4 DEF Alone
    <3> QED
      BY <2>1, <3>1, <3>2, <3>3 DEF Accounts, Counted
  <2> QED
    BY <1>1, <2>5, <2>6 DEF Accounts, Over
<1>3. CASE ~(min_objective < collected)
  <2>1. UNCHANGED <<nodes, linked, num_nodes>>
    BY <1>3 DEF Collect, treeVars
  <2> QED
    BY <1>1, <2>1, IdleAccounts
<1> QED
  BY <1>2, <1>3

(* A new search starts with everything accounted for.                      *)
LEMMA BeginAccounts == IInv /\ Begin => Accounts'
<1> SUFFICES ASSUME IInv, Begin PROVE Accounts'
  OBVIOUS
<1>1. pc' = "loop" /\ DOMAIN nodes' = {root} /\ num_nodes' = 1 /\ linked' = linked
  BY BeginIs DEF Begin
<1>2. linked = {}
  BY BeginIs DEF IInv, Tree, NotBegun
<1>3. IsFiniteSet({root}) /\ Cardinality({root}) = 1
  BY FS_Singleton
<1> QED
  BY <1>1, <1>2, <1>3 DEF Accounts, Kept, Undone, Counted, Over

(* At the end what is marked is freed, and the rest is what the count says.*)
LEMMA EndAccounts == ASSUME IInv, Accounts, NEW early \in BOOLEAN, End(early) PROVE Accounts'
<1>1. /\ pc = "loop" /\ ~Evaluating /\ ~Evaluating' /\ parent' = parent
      /\ early => pc' = "interrupted" /\ UNCHANGED <<nodes, linked, queue, num_nodes>>
  BY DEF End, Evaluating
<1>2. CASE early
  BY <1>1, <1>2, IdleAccounts
<1>3. CASE ~early
  <2>1. /\ nodes' = [q \in DOMAIN nodes \ FreedAtEnd |-> nodes[q]]
        /\ linked' = {q \in linked : Front(q) \notin FreedAtEnd}
        /\ queue' = {}
    BY <1>3, EndIs
  <2>2. num_nodes' = Remaining - Cardinality(FreedAtEnd \ Marks)
    BY <1>3 DEF End, Remaining, Marks, FreedAtEnd
  <2>3. Types /\ Rooted /\ Waiting
    BY DEF IInv, Tree
  <2>4. Marks \in SUBSET DOMAIN nodes /\ DOMAIN nodes \ Marks \subseteq {root} \cup linked
    BY <2>3 DEF Marks, Accounts, Kept, Types
  <2>5. /\ IsFiniteSet(DOMAIN nodes) /\ num_nodes \in Int
        /\ num_nodes = Cardinality(DOMAIN nodes) \/ (num_nodes = Cardinality(DOMAIN nodes) - 1 /\ Alone)
    BY CountedAll DEF Accounts, Counted
  <2>6. /\ IsFiniteSet(DOMAIN nodes \ Marks)
        /\ Cardinality(DOMAIN nodes) \in Nat /\ Cardinality(Marks) \in Nat
        /\ Cardinality(DOMAIN nodes \ Marks) = Cardinality(DOMAIN nodes) - Cardinality(Marks)
    BY <2>4, <2>5, Taken
  <2>7. \A q \in linked : q \notin Marks
    BY <2>3 DEF Marks, Waiting
  <2>8. CASE num_nodes = Cardinality(DOMAIN nodes)
    <3>1. FreedAtEnd = DOMAIN nodes
      <4>1. CASE Remaining # 0
        <5>1. FreedAtEnd = Marks \cup Reached(root)
          BY <4>1 DEF FreedAtEnd
        <5>2. Reached(root) \subseteq DOMAIN nodes
          BY DEF Reached
        <5>3. ASSUME NEW q \in DOMAIN nodes \ Marks PROVE q \in Reached(root)
          <6>1. q \in Seq(Nat) /\ Len(q) \in Nat /\ (q = root \/ q \in linked)
            BY <2>3, <2>4 DEF Types
          <6>2. IsPrefix(root, q)
            BY <6>1 DEF IsPrefix, root
          <6>3. ASSUME NEW k \in 1 .. Len(q) PROVE SubSeq(q, 1, k) \in linked /\ nodes[SubSeq(q, 1, k - 1)].done
            <7>1. q \in linked
              BY <6>1, <6>3 DEF root
            <7>2. k - 1 \in 0 .. Len(q) - 1
              BY <6>1
            <7>3. nodes[SubSeq(q, 1, k - 1)].done
              BY <1>1, <2>3, <7>1, <7>2 DEF Rooted
            <7>4. CASE k = Len(q)
              <8>1. SubSeq(q, 1, k) = q
                BY <6>1, <7>4, SubSeqFull
              <8> QED
                BY <7>1, <7>3, <8>1
            <7>5. CASE k # Len(q)
              <8>1. k \in 0 .. Len(q) - 1 /\ k # 0
                BY <6>1, <7>5
              <8> QED
                BY <2>3, <7>1, <7>3, <8>1 DEF Rooted
            <7> QED
              BY <7>4, <7>5
          <6> QED
            BY <6>2, <6>3 DEF Reached, root
        <5> QED
          BY <2>4, <5>1, <5>2, <5>3
      <4>2. CASE ~(Remaining # 0)
        <5>1. Cardinality(DOMAIN nodes \ Marks) = 0
          BY <2>6, <2>8, <4>2 DEF Remaining
        <5>2. DOMAIN nodes \ Marks = {}
          BY <2>6, <5>1, FS_EmptySet
        <5> QED
          BY <2>4, <4>2, <5>2 DEF FreedAtEnd
      <4> QED
        BY <4>1, <4>2
    <3>2. DOMAIN nodes' = {} /\ num_nodes' = 0
      <4>1. num_nodes' = Remaining - Cardinality(DOMAIN nodes \ Marks)
        BY <2>2, <3>1
      <4> QED
        BY <2>1, <2>6, <2>8, <3>1, <4>1 DEF Remaining
    <3>3. linked' = {}
      <4> SUFFICES ASSUME NEW q \in linked PROVE Front(q) \in DOMAIN nodes
        BY <2>1, <3>1
      <4>1. q \in Seq(Nat) /\ q # <<>>
        BY <2>3 DEF Types, root
      <4>2. Len(q) - 1 \in 0 .. Len(q) - 1 /\ Front(q) = SubSeq(q, 1, Len(q) - 1)
        BY <4>1, EmptySeq DEF Front
      <4> QED
        BY <2>3, <4>2 DEF Rooted
    <3> QED
      BY <3>2, <3>3, FS_EmptySet DEF Accounts, Kept, Undone, Counted, Over
  <2>9. CASE num_nodes = Cardinality(DOMAIN nodes) - 1 /\ Alone
    <3>1. root \in DOMAIN nodes /\ root \notin Marks /\ linked = {}
      BY <2>9 DEF Alone, Marks
    <3>2. DOMAIN nodes \ Marks = {root}
      BY <2>4, <3>1
    <3>3. Cardinality(DOMAIN nodes \ Marks) = 1
      BY <3>2, FS_Singleton
    <3>4. Remaining = 0
      BY <2>6, <2>9, <3>3 DEF Remaining
    <3>5. FreedAtEnd = Marks
      BY <3>4 DEF FreedAtEnd
    <3>6. Cardinality(FreedAtEnd \ Marks) = 0
      <4>1. FreedAtEnd \ Marks = {}
        BY <3>5
      <4> QED
        BY <4>1, FS_EmptySet
    <3>7. DOMAIN nodes' = {root} /\ linked' = {} /\ num_nodes' = 0
      BY <2>1, <2>2, <3>1, <3>2, <3>4, <3>5, <3>6
    <3>8. Counted'
      <4>1. IsFiniteSet({root}) /\ Cardinality({root}) = 1
        BY FS_Singleton
      <4> QED
        BY <1>1, <2>1, <3>7, <4>1 DEF Counted, Alone
    <3> QED
      BY <3>7, <3>8 DEF Accounts, Kept, Undone, Over
  <2> QED
    BY <2>5, <2>8, <2>9
<1> QED
  BY <1>2, <1>3

(* So every step leaves everything in memory accounted for.                *)
LEMMA NextAccounts == IInv /\ Accounts /\ [Next]_vars => Accounts'
<1> SUFFICES ASSUME IInv, Accounts, [Next]_vars PROVE Accounts'
  OBVIOUS
<1>1. CASE MineStep /\ UNCHANGED searchVars
  <2>1. UNCHANGED <<nodes, linked, num_nodes, queue, parent>> /\ pc \in {"mine", "combine"}
        /\ pc' \in {"mine", "combine", "begin"}
    BY <1>1, MineIs DEF searchVars, treeVars
  <2> QED
    BY <2>1, IdleAccounts DEF Evaluating
<1>2. CASE Skip
  BY <1>2, IdleAccounts DEF Skip, treeVars, Evaluating
<1>3. CASE Continue
  BY <1>3, IdleAccounts DEF Continue, searchVars, treeVars, Evaluating
<1>4. CASE Begin \/ Discard \/ Select \/ Extend \/ Done \/ PruneUp \/ Collect
  BY <1>4, BeginAccounts, DiscardAccounts, SelectAccounts, ExtendAccounts, DoneAccounts, PruneUpAccounts,
     CollectAccounts
<1>5. CASE \E early \in BOOLEAN : End(early)
  BY <1>5, EndAccounts
<1>6. CASE UNCHANGED vars
  BY <1>6, IdleAccounts DEF vars, searchVars, treeVars, Evaluating
<1> QED
  BY <1>1, <1>2, <1>3, <1>4, <1>5, <1>6 DEF Next, SearchStep

(* What the tree and the queue lead to is all there is in memory.          *)
THEOREM Accounted == Spec => []Accounts
<1>1. Init => Accounts
  <2> SUFFICES ASSUME Init PROVE Accounts
    OBVIOUS
  <2>1. nodes = <<>> /\ linked = {} /\ num_nodes = 0 /\ pc = "mine"
    BY DEF Init, MineInit, SearchInit
  <2>2. DOMAIN nodes = {}
    BY <2>1
  <2> QED
    BY <2>1, <2>2, FS_EmptySet DEF Accounts, Kept, Undone, Counted, Over
<1>2. IInv /\ Accounts /\ [Next]_vars => Accounts'
  BY NextAccounts
<1> QED
  BY <1>1, <1>2, Invariance, PTL DEF Spec

(* num_nodes counts the nodes in memory but for a root that prune_up has   *)
(* reached, and the end of the fit frees all of them but such a root.      *)
THEOREM AllAccounted == Spec => []EveryNodeAccounted
<1>1. IInv /\ Accounts => EveryNodeAccounted
  <2> SUFFICES ASSUME IInv, Accounts PROVE EveryNodeAccounted
    OBVIOUS
  <2>1. Cardinality(DOMAIN nodes) \in Nat
    BY CountedAll DEF Accounts
  <2>2. Alone => Children(root) = {} /\ \A q \in queue : nodes[q].deleted
    BY DEF Alone, Children, IInv, Tree, Waiting
  <2> QED
    BY <2>1, <2>2 DEF Accounts, Counted, Over, EveryNodeAccounted
<1> QED
  BY <1>1, Invariance, Accounted, PTL

-----------------------------------------------------------------------------
(* What fit returns                                                        *)

Label(s) == IF s \in fit.ones THEN 1 ELSE 0

(* The i-th rule of a list is the first to capture a sample.               *)
Decides(q, i, s) ==
  /\ s \in rules[q[i]].captured
  /\ \A j \in 1 .. i - 1 : s \notin rules[q[j]].captured

(* What rules that predict these labels get wrong of what they capture.    *)
WrongBy(q, labels) == {s \in Samples : \E i \in DOMAIN q : Decides(q, i, s) /\ labels[i] # Label(s)}

WrongIn(S, label) == {s \in S : label # Label(s)}

RuleType == [ids : Seq(Int), captured : SUBSET Samples]

RulesRight ==
  /\ rules \in Seq(RuleType)
  /\ \A i \in DOMAIN rules :
       /\ 0 \notin ToSet(rules[i].ids)
       /\ rules[i].captured = {s \in Samples : \A a \in ToSet(rules[i].ids) : s \in Literal(a)}

(* Of each feature the literal or its negation is frequent, so that there  *)
(* are as many literals as a rule may have.                                *)
Mining ==
  /\ literal \in 1 .. 2 * Len(fit.features) + 1
  /\ mined \in Seq(Int \ {0})
  /\ \A i \in 1 .. literal - 1 : Frequent(Literal(Literals[i])) => Literals[i] \in ToSet(mined)
  /\ pc = "combine" => fit.max_card <= Len(mined)
  /\ rule_ids \in Seq(1 .. Len(mined)) /\ Len(rule_ids) <= fit.max_card

-----------------------------------------------------------------------------
(* Mining                                                                  *)

(* The literals of a call: every feature and its negation, each a set of   *)
(* samples.                                                                *)
LEMMA Features ==
  ASSUME fit \in Fits
  PROVE  /\ fit.features \in Seq(SUBSET Samples)
         /\ Len(fit.features) \in Nat
         /\ fit.max_card \in 1 .. Len(fit.features)
         /\ fit.min_support \in Nat /\ 2 * fit.min_support <= fit.samples
         /\ DOMAIN Literals = 1 .. 2 * Len(fit.features)
         /\ \A i \in 1 .. Len(fit.features) :
              /\ Literals[i] = i
              /\ Literals[Len(fit.features) + i] = -i
              /\ i \in 1 .. 2 * Len(fit.features)
              /\ Len(fit.features) + i \in 1 .. 2 * Len(fit.features)
              /\ Literal(i) = fit.features[i] /\ Literal(i) \subseteq Samples
              /\ Literal(-i) = Samples \ fit.features[i]
         /\ \A i \in 1 .. 2 * Len(fit.features) :
              Literals[i] \in Int \ {0} /\ Literal(Literals[i]) \subseteq Samples
<1> DEFINE F == Len(fit.features)
<1>1. /\ fit.features \in Seq(SUBSET Samples) /\ fit.max_card \in 1 .. F
      /\ fit.min_support \in Nat /\ 2 * fit.min_support <= fit.samples
  BY FitsAssumption DEF FitAssumption, Samples
<1>2. F \in Nat
  BY <1>1
<1>3. Literals = [i \in 1 .. 2 * F |-> IF i <= F THEN i ELSE F - i]
  BY DEF Literals
<1>4. \A i \in 1 .. F : fit.features[i] \subseteq Samples
  BY <1>1, <1>2
<1>5. ASSUME NEW i \in 1 .. F
      PROVE  /\ Literals[i] = i /\ Literals[F + i] = -i
             /\ i \in 1 .. 2 * F /\ F + i \in 1 .. 2 * F
             /\ Literal(i) = fit.features[i] /\ Literal(i) \subseteq Samples
             /\ Literal(-i) = Samples \ fit.features[i]
  <2> HIDE DEF F
  <2>1. i \in Int /\ i > 0 /\ ~(-i > 0) /\ -(-i) = i
    BY <1>2
  <2>2. i \in 1 .. 2 * F /\ F + i \in 1 .. 2 * F /\ ~(F + i <= F) /\ F - (F + i) = -i /\ i <= F
    BY <1>2
  <2>3. Literals[i] = i /\ Literals[F + i] = -i
    BY <1>3, <2>2
  <2> QED
    BY <1>4, <2>1, <2>2, <2>3 DEF Literal
<1>6. ASSUME NEW i \in 1 .. 2 * F
      PROVE  Literals[i] \in Int \ {0} /\ Literal(Literals[i]) \subseteq Samples
  <2> HIDE DEF F
  <2>1. CASE i <= F
    <3>1. i \in 1 .. F
      BY <1>2, <2>1
    <3> QED
      BY <1>2, <1>5, <3>1
  <2>2. CASE ~(i <= F)
    <3>1. i - F \in 1 .. F /\ i = F + (i - F)
      BY <1>2, <2>2
    <3>2. Literals[i] = -(i - F) /\ Literal(-(i - F)) = Samples \ fit.features[i - F]
      BY <1>5, <3>1
    <3> QED
      BY <1>2, <3>1, <3>2
  <2> QED
    BY <2>1, <2>2
<1> QED
  BY <1>1, <1>2, <1>3, <1>5, <1>6

(* A sequence has no more elements than it is long.                        *)
LEMMA FewElements ==
  ASSUME NEW S, NEW s \in Seq(S)
  PROVE  IsFiniteSet(ToSet(s)) /\ Cardinality(ToSet(s)) <= Len(s)
<1>1. Len(s) \in Nat /\ DOMAIN s = 1 .. Len(s)
  OBVIOUS
<1>2. s \in Surjection(1 .. Len(s), ToSet(s))
  BY <1>1 DEF Surjection, ToSet
<1>3. IsFiniteSet(1 .. Len(s)) /\ Cardinality(1 .. Len(s)) = Len(s)
  <2>1. Len(s) \in Int /\ 1 \in Int
    BY <1>1
  <2>2. IsFiniteSet(1 .. Len(s)) /\ Cardinality(1 .. Len(s)) = IF 1 > Len(s) THEN 0 ELSE Len(s) - 1 + 1
    BY <2>1, FS_Interval
  <2> QED
    BY <1>1, <2>2
<1> QED
  BY <1>2, <1>3, FS_Surjection

(* When the single literals are through, enough are mined to combine as    *)
(* many as max_card.                                                       *)
LEMMA EnoughMined ==
  ASSUME fit \in Fits, Mining, literal \notin DOMAIN Literals
  PROVE  fit.max_card <= Len(mined)
<1> DEFINE F == Len(fit.features)
           T == ToSet(mined)
           f == [i \in 1 .. F |-> IF i \in T THEN i ELSE -i]
<1>1. F \in Nat /\ literal = 2 * F + 1 /\ fit.max_card \in 1 .. F
  <2>1. F \in Nat /\ fit.max_card \in 1 .. F
    BY Features
  <2>2. literal \in 1 .. 2 * F + 1 /\ literal \notin 1 .. 2 * F
    BY Features DEF Mining
  <2> HIDE DEF F
  <2> QED
    BY <2>1, <2>2
<1>2. ASSUME NEW i \in 1 .. F PROVE i \in T \/ -i \in T
  <2>1. Literals[i] = i /\ Literals[F + i] = -i /\ i \in 1 .. literal - 1 /\ F + i \in 1 .. literal - 1
    BY <1>1, Features
  <2>2. Literal(i) \subseteq Samples /\ Literal(-i) = Samples \ Literal(i)
    BY Features
  <2>3. /\ Cardinality(Literal(-i)) = Cardinality(Samples) - Cardinality(Literal(i))
        /\ Cardinality(Literal(i)) \in Nat /\ Cardinality(Samples) = fit.samples
    BY <2>2, FitFacts, Taken
  <2>4. fit.min_support \in Nat /\ 2 * fit.min_support <= fit.samples /\ fit.samples \in Nat
    BY Features, FitFacts
  <2>5. Frequent(Literal(i)) \/ Frequent(Literal(-i))
    BY <2>3, <2>4 DEF Frequent
  <2> QED
    BY <2>1, <2>5 DEF Mining
<1>3. f \in Injection(1 .. F, T)
  <2>1. f \in [1 .. F -> T]
    BY <1>2
  <2>2. \A i, j \in 1 .. F : f[i] = f[j] => i = j
    BY <1>1
  <2> HIDE DEF f
  <2> QED
    BY <2>1, <2>2 DEF Injection, IsInjective
<1>4. IsFiniteSet(T) /\ Cardinality(T) <= Len(mined) /\ Len(mined) \in Nat
  BY FewElements DEF Mining
<1>5. Cardinality(1 .. F) <= Cardinality(T)
  BY <1>3, <1>4, FS_Injection
<1>6. Cardinality(1 .. F) = F
  <2>1. F \in Int /\ 1 \in Int
    BY <1>1
  <2>2. Cardinality(1 .. F) = IF 1 > F THEN 0 ELSE F - 1 + 1
    BY <2>1, FS_Interval
  <2> QED
    BY <1>1, <2>2
<1>7. Cardinality(T) \in Nat
  BY <1>4, FS_CardinalityType
<1> QED
  BY <1>1, <1>4, <1>5, <1>6, <1>7

(* The greatest number of a set that is bounded.                           *)
LEMMA GreatestUpTo ==
  ASSUME NEW n \in Nat, NEW T \in SUBSET (1 .. n), T # {}
  PROVE  \E x \in T : \A y \in T : y <= x
<1> DEFINE U == {n - y : y \in T}
<1>1. U \subseteq Nat /\ U # {}
  <2>1. \A y \in T : y \in 1 .. n /\ n - y \in Nat
    OBVIOUS
  <2> QED
    BY <2>1
<1>2. PICK u \in U : \A v \in U : u <= v
  BY <1>1, LeastNat
<1>3. PICK x \in T : u = n - x
  BY <1>2
<1>4. ASSUME NEW y \in T PROVE y <= x
  <2>1. n - x <= n - y
    BY <1>2, <1>3
  <2> QED
    BY <2>1
<1> QED
  BY <1>4

(* A combination chooses among the literals there are.                     *)
LEMMA CombinationRight ==
  ASSUME NEW n \in Nat, NEW card \in Nat, card <= n
  PROVE  FirstCombination(card) \in Seq(1 .. n) /\ Len(FirstCombination(card)) = card
<1>1. FirstCombination(card) \in [1 .. card -> 1 .. n]
  BY DEF FirstCombination
<1> QED
  BY <1>1

(* getnextperm returns a combination of the mined literals, of no more     *)
(* than max_card.                                                          *)
LEMMA NextRight ==
  ASSUME fit \in Fits, NEW n \in Nat, fit.max_card <= n,
         NEW ids \in Seq(1 .. n), Len(ids) <= fit.max_card
  PROVE  NextCombination(n, ids) \in Seq(1 .. n) /\ Len(NextCombination(n, ids)) <= fit.max_card
<1> DEFINE r == Len(ids)
           movable == {p \in 1 .. r : ids[p] < n - (r - p)}
           p == CHOOSE q \in movable : \A m \in movable : m <= q
           next == [q \in 1 .. r |-> IF q < p THEN ids[q] ELSE ids[p] + 1 + (q - p)]
<1>1. r \in Nat /\ fit.max_card \in Nat
  BY Features
<1>2. CASE movable # {}
  <2>1. movable \subseteq 1 .. r
    OBVIOUS
  <2>2. p \in movable
    <3> HIDE DEF movable
    <3>1. \E q \in movable : \A m \in movable : m <= q
      BY <1>1, <1>2, <2>1, GreatestUpTo
    <3> QED
      BY <3>1
  <2> HIDE DEF p
  <2>3. p \in 1 .. r /\ ids[p] \in 1 .. n /\ ids[p] < n - (r - p)
    BY <1>1, <2>2
  <2>4. ASSUME NEW q \in 1 .. r PROVE next[q] \in 1 .. n
    <3>1. ids[q] \in 1 .. n
      BY <1>1, <2>4
    <3>2. ~(q < p) => ids[p] + 1 + (q - p) \in 1 .. n
      BY <1>1, <2>3
    <3> QED
      BY <3>1, <3>2
  <2>5. next \in [1 .. r -> 1 .. n]
    BY <2>4
  <2>6. next \in Seq(1 .. n) /\ Len(next) = r
    <3> HIDE DEF next
    <3> QED
      BY <1>1, <2>5
  <2>7. NextCombination(n, ids) = next
    BY <1>2 DEF NextCombination, p
  <2> QED
    BY <2>6, <2>7
<1>3. CASE movable = {} /\ r < fit.max_card
  <2>1. NextCombination(n, ids) = FirstCombination(r + 1)
    BY <1>3 DEF NextCombination
  <2>2. r + 1 \in Nat /\ r + 1 <= n /\ r + 1 <= fit.max_card
    BY <1>1, <1>3
  <2> QED
    BY <2>1, <2>2, CombinationRight
<1>4. CASE movable = {} /\ ~(r < fit.max_card)
  <2>1. NextCombination(n, ids) = <<>>
    BY <1>4 DEF NextCombination
  <2> QED
    BY <1>1, <2>1, EmptySeq
<1> QED
  BY <1>2, <1>3, <1>4

(* A rule added that captures what its literals say.                       *)
LEMMA RuleAdded ==
  ASSUME RulesRight, fit' = fit, NEW ids \in Seq(Int \ {0}),
         NEW captured, captured = {s \in Samples : \A a \in ToSet(ids) : s \in Literal(a)},
         rules' = Append(rules, [ids |-> ids, captured |-> captured])
  PROVE  RulesRight' /\ Len(rules') = Len(rules) + 1
<1> DEFINE r == [ids |-> ids, captured |-> captured]
<1>1. r \in RuleType
  <2>1. ids \in Seq(Int)
    OBVIOUS
  <2> QED
    BY <2>1 DEF RuleType
<1>2. 0 \notin ToSet(ids)
  BY DEF ToSet
<1>3. Samples' = Samples /\ (\A a : Literal(a)' = Literal(a))
  BY DEF Samples, Literal
<1>4. /\ rules' \in Seq(RuleType) /\ Len(rules') = Len(rules) + 1
      /\ \A i \in 1 .. Len(rules) : rules'[i] = rules[i]
      /\ rules'[Len(rules) + 1] = r
  BY <1>1, AppendProperties DEF RulesRight
<1>5. ASSUME NEW i \in DOMAIN rules'
      PROVE  /\ 0 \notin ToSet(rules'[i].ids)
             /\ rules'[i].captured = {s \in Samples : \A a \in ToSet(rules'[i].ids) : s \in Literal(a)}
  <2>1. Len(rules) \in Nat /\ DOMAIN rules = 1 .. Len(rules) /\ DOMAIN rules' = 1 .. Len(rules) + 1
    BY <1>4 DEF RulesRight
  <2>2. CASE i = Len(rules) + 1
    BY <1>2, <1>4, <2>2
  <2>3. CASE i \in 1 .. Len(rules)
    BY <1>4, <2>1, <2>3 DEF RulesRight
  <2> QED
    BY <2>1, <2>2, <2>3
<1> QED
  BY <1>3, <1>4, <1>5 DEF RulesRight, RuleType

(* One literal, and one combination, more.                                 *)
LEMMA LiteralMined ==
  ASSUME fit \in Fits, RulesRight, Mining, MineLiteral
  PROVE  RulesRight' /\ Mining' /\ Len(rules') >= Len(rules)
<1> DEFINE l == Literals[literal]
<1>1. /\ pc = "mine" /\ literal \in DOMAIN Literals
      /\ mined' = IF Frequent(Literal(l)) THEN Append(mined, l) ELSE mined
      /\ literal' = literal + 1
      /\ UNCHANGED <<fit, rule_ids, pc>>
  BY DEF MineLiteral
<1>2. /\ literal \in 1 .. 2 * Len(fit.features)
      /\ l \in Int \ {0} /\ Literal(l) \subseteq Samples
      /\ Len(fit.features) \in Nat
  BY <1>1, Features
<1>3. /\ Samples' = Samples /\ (\A a : Literal(a)' = Literal(a))
      /\ Literals' = Literals /\ \A S : Frequent(S)' <=> Frequent(S)
  BY <1>1 DEF Samples, Literal, Literals, Frequent
<1>4. RulesRight' /\ Len(rules') >= Len(rules)
  <2>1. CASE Frequent(Literal(l)) /\ Selective(Literal(l))
    <3> DEFINE ids == <<l>>
               captured == Literal(l)
    <3>1. rules' = Append(rules, [ids |-> ids, captured |-> captured])
      BY <2>1 DEF MineLiteral
    <3>2. ids \in Seq(Int \ {0}) /\ ToSet(ids) = {l}
      BY <1>2 DEF ToSet
    <3>3. captured = {s \in Samples : \A a \in ToSet(ids) : s \in Literal(a)}
      BY <1>2, <3>2
    <3> HIDE DEF ids, captured
    <3>4. Len(rules) \in Nat
      BY DEF RulesRight
    <3>5. RulesRight' /\ Len(rules') = Len(rules) + 1
      BY <1>1, <3>1, <3>2, <3>3, RuleAdded
    <3> QED
      BY <3>4, <3>5
  <2>2. CASE ~(Frequent(Literal(l)) /\ Selective(Literal(l)))
    <3>1. rules' = rules
      BY <2>2 DEF MineLiteral
    <3>2. Len(rules) \in Nat
      BY DEF RulesRight
    <3> QED
      BY <1>3, <3>1, <3>2 DEF RulesRight, RuleType
  <2> QED
    BY <2>1, <2>2
<1>5. /\ mined' \in Seq(Int \ {0}) /\ Len(mined) <= Len(mined')
      /\ ToSet(mined) \subseteq ToSet(mined')
      /\ Frequent(Literal(l)) => l \in ToSet(mined')
  <2>1. mined \in Seq(Int \ {0}) /\ Len(mined) \in Nat /\ DOMAIN mined = 1 .. Len(mined)
    BY DEF Mining
  <2>2. CASE Frequent(Literal(l))
    <3>1. mined' = Append(mined, l)
      BY <1>1, <2>2
    <3>2. /\ mined' \in Seq(Int \ {0}) /\ Len(mined') = Len(mined) + 1
          /\ \A i \in 1 .. Len(mined) : mined'[i] = mined[i]
          /\ mined'[Len(mined) + 1] = l
      BY <1>2, <2>1, <3>1, AppendProperties
    <3>3. DOMAIN mined' = 1 .. Len(mined) + 1 /\ Len(mined) + 1 \in 1 .. Len(mined) + 1
          /\ 1 .. Len(mined) \subseteq 1 .. Len(mined) + 1
      BY <2>1, <3>2
    <3>4. ToSet(mined) \subseteq ToSet(mined')
      BY <2>1, <3>2, <3>3 DEF ToSet
    <3>5. l \in ToSet(mined')
      BY <3>2, <3>3 DEF ToSet
    <3> QED
      BY <2>1, <3>2, <3>4, <3>5
  <2>3. CASE ~Frequent(Literal(l))
    BY <1>1, <2>1, <2>3
  <2> QED
    BY <2>2, <2>3
<1>6. Mining'
  <2>1. literal' \in 1 .. 2 * Len(fit.features) + 1
    BY <1>1, <1>2
  <2>2. \A i \in 1 .. literal' - 1 : Frequent(Literal(Literals[i])) => Literals[i] \in ToSet(mined')
    <3>1. \A i \in 1 .. literal' - 1 : i \in 1 .. literal - 1 \/ i = literal
      BY <1>1, <1>2
    <3> QED
      BY <1>5, <3>1 DEF Mining
  <2>3. rule_ids \in Seq(1 .. Len(mined')) /\ Len(rule_ids) <= fit.max_card
    <3>1. Len(mined) \in Nat /\ Len(mined') \in Nat /\ rule_ids \in Seq(1 .. Len(mined)) /\ Len(rule_ids) \in Nat
          /\ Len(rule_ids) <= fit.max_card
      BY <1>5 DEF Mining
    <3>2. rule_ids \in [1 .. Len(rule_ids) -> 1 .. Len(mined')]
      <4>1. \A i \in 1 .. Len(rule_ids) : rule_ids[i] \in 1 .. Len(mined) /\ rule_ids[i] \in 1 .. Len(mined')
        BY <1>5, <3>1
      <4> QED
        BY <3>1, <4>1
    <3> QED
      BY <3>1, <3>2
  <2> QED
    BY <1>1, <1>3, <1>5, <2>1, <2>2, <2>3 DEF Mining
<1> QED
  BY <1>4, <1>6

(* Mining a combination adds rules that capture what their literals say.   *)
LEMMA CombinationMined ==
  ASSUME fit \in Fits, RulesRight, Mining, MineCombination
  PROVE  RulesRight' /\ Mining' /\ Len(rules') >= Len(rules)
<1> DEFINE ids == [i \in DOMAIN rule_ids |-> mined[rule_ids[i]]]
           captured == {s \in Samples : \A i \in DOMAIN ids : s \in Literal(ids[i])}
<1>1. /\ pc = "combine" /\ rule_ids' = NextCombination(Len(mined), rule_ids)
      /\ rules' = IF Frequent(captured) /\ Selective(captured)
                  THEN Append(rules, [ids |-> ids, captured |-> captured])
                  ELSE rules
      /\ UNCHANGED <<fit, literal, mined, pc>>
  BY DEF MineCombination
<1>2. /\ mined \in Seq(Int \ {0}) /\ Len(mined) \in Nat /\ DOMAIN mined = 1 .. Len(mined)
      /\ rule_ids \in Seq(1 .. Len(mined)) /\ Len(rule_ids) \in Nat /\ DOMAIN rule_ids = 1 .. Len(rule_ids)
      /\ Len(rule_ids) <= fit.max_card /\ fit.max_card <= Len(mined)
  BY <1>1 DEF Mining
<1>3. ids \in Seq(Int \ {0})
  <2>1. \A i \in 1 .. Len(rule_ids) : mined[rule_ids[i]] \in Int \ {0}
    BY <1>2
  <2>2. ids \in [1 .. Len(rule_ids) -> Int \ {0}]
    BY <1>2, <2>1
  <2> HIDE DEF ids
  <2> QED
    BY <1>2, <2>2
<1> HIDE DEF ids
<1>4. captured = {s \in Samples : \A a \in ToSet(ids) : s \in Literal(a)}
  BY DEF ToSet
<1> HIDE DEF captured
<1>5. /\ Samples' = Samples /\ (\A a : Literal(a)' = Literal(a))
      /\ Literals' = Literals /\ \A S : Frequent(S)' <=> Frequent(S)
  BY <1>1 DEF Samples, Literal, Literals, Frequent
<1>6. RulesRight' /\ Len(rules') >= Len(rules)
  <2>1. Len(rules) \in Nat
    BY DEF RulesRight
  <2>2. CASE Frequent(captured) /\ Selective(captured)
    BY <1>1, <1>3, <1>4, <2>1, <2>2, RuleAdded
  <2>3. CASE ~(Frequent(captured) /\ Selective(captured))
    BY <1>1, <1>5, <2>1, <2>3 DEF RulesRight, RuleType
  <2> QED
    BY <2>2, <2>3
<1>7. rule_ids' \in Seq(1 .. Len(mined)) /\ Len(rule_ids') <= fit.max_card
  BY <1>1, <1>2, NextRight
<1>8. Mining'
  BY <1>1, <1>5, <1>7 DEF Mining
<1> QED
  BY <1>6, <1>8

(* So does every step of the mining.                                       *)
LEMMA MineRight ==
  ASSUME fit \in Fits, RulesRight, Mining, MineStep
  PROVE  RulesRight' /\ Mining' /\ Len(rules') >= Len(rules)
<1>1. CASE MineLiteral
  BY <1>1, LiteralMined
<1>2. CASE MineCombination
  BY <1>2, CombinationMined
<1>3. CASE MinedLiterals \/ FindMinority
  <2>1. /\ UNCHANGED <<fit, rules, literal, mined>>
        /\ pc' = "combine" => literal \notin DOMAIN Literals
        /\ \/ rule_ids' = rule_ids /\ pc' # "combine"
           \/ rule_ids' = (IF fit.max_card = 1 THEN <<>> ELSE FirstCombination(2)) /\ pc' = "combine"
    BY <1>3 DEF MinedLiterals, FindMinority
  <2>2. /\ Samples' = Samples /\ (\A a : Literal(a)' = Literal(a))
        /\ Literals' = Literals /\ \A S : Frequent(S)' <=> Frequent(S)
    BY <2>1 DEF Samples, Literal, Literals, Frequent
  <2>3. RulesRight' /\ Len(rules') >= Len(rules)
    BY <2>1, <2>2 DEF RulesRight, RuleType
  <2>4. pc' = "combine" => fit.max_card <= Len(mined)
    BY <2>1, EnoughMined
  <2>5. rule_ids' \in Seq(1 .. Len(mined)) /\ Len(rule_ids') <= fit.max_card
    <3>1. CASE rule_ids' = rule_ids /\ pc' # "combine"
      BY <3>1 DEF Mining
    <3>2. CASE rule_ids' = (IF fit.max_card = 1 THEN <<>> ELSE FirstCombination(2)) /\ pc' = "combine"
      <4>1. fit.max_card \in Nat \ {0} /\ Len(mined) \in Nat
        BY Features DEF Mining
      <4>2. CASE fit.max_card = 1
        BY <3>2, <4>1, <4>2, EmptySeq
      <4>3. CASE fit.max_card # 1
        <5>1. fit.max_card <= Len(mined)
          BY <2>4, <3>2
        <5>2. 2 \in Nat /\ 2 <= Len(mined) /\ 2 <= fit.max_card
          BY <4>1, <4>3, <5>1
        <5> QED
          BY <3>2, <4>1, <4>3, <5>2, CombinationRight
      <4> QED
        BY <4>2, <4>3
    <3> QED
      BY <2>1, <3>1, <3>2
  <2> QED
    BY <2>1, <2>2, <2>3, <2>4, <2>5 DEF Mining
<1> QED
  BY <1>1, <1>2, <1>3 DEF MineStep

-----------------------------------------------------------------------------
(* What lists cost                                                         *)

(* What a set of samples costs is what its prediction gets wrong of it.    *)
LEMMA ErrorsCount ==
  ASSUME fit \in Fits, NEW S \in SUBSET Samples
  PROVE  Errors(S) = Unit * Cardinality(WrongIn(S, Prediction(S))) /\ Prediction(S) \in 0 .. 1
<1> DEFINE right == IF Prediction(S) = 1 THEN S \cap fit.ones ELSE S \ fit.ones
<1>1. Prediction(S) \in 0 .. 1
  BY DEF Prediction
<1>2. right \subseteq S /\ S \ right = WrongIn(S, Prediction(S))
  BY <1>1 DEF WrongIn, Label
<1>3. Correct(S) = Cardinality(right)
  BY DEF Correct
<1> HIDE DEF right
<1>4. IsFiniteSet(S)
  BY FitFacts, FS_Subset
<1>5. Cardinality(S \ right) = Cardinality(S) - Cardinality(right)
  BY <1>2, <1>4, Taken
<1> QED
  BY <1>1, <1>2, <1>3, <1>5 DEF Errors

(* The costs of two sets of samples with none in common add up.            *)
LEMMA Adds ==
  ASSUME fit \in Fits, NEW S \in SUBSET Samples, NEW T \in SUBSET Samples, S \cap T = {}
  PROVE  /\ Unit * Cardinality(S \cup T) = Unit * Cardinality(S) + Unit * Cardinality(T)
         /\ Unit * Cardinality(S) \in Nat /\ Unit * Cardinality(T) \in Nat
<1>1. IsFiniteSet(S) /\ IsFiniteSet(T)
  BY FitFacts, FS_Subset
<1>2. Cardinality(S) \in Nat /\ Cardinality(T) \in Nat
  BY <1>1, FS_CardinalityType
<1>3. Cardinality(S \cup T) = Cardinality(S) + Cardinality(T) - Cardinality(S \cap T)
  BY <1>1, FS_Union
<1>4. Cardinality(S \cup T) = Cardinality(S) + Cardinality(T)
  BY <1>2, <1>3, FS_EmptySet
<1>5. \A a, b \in Nat : Unit * (a + b) = Unit * a + Unit * b
  BY UnitAssumption
<1> QED
  BY <1>2, <1>4, <1>5, Counts

(* A rule more decides what it captures and no rule before it does.        *)
LEMMA OneRuleMore ==
  ASSUME NEW q \in Seq(Nat), NEW r \in Nat, NEW old, NEW new, \A i \in 1 .. Len(q) : new[i] = old[i]
  PROVE  LET b == Append(q, r)
             fresh == NotCaptured(q) \cap rules[r].captured
         IN  /\ WrongBy(b, new) = WrongBy(q, old) \cup WrongIn(fresh, new[Len(q) + 1])
             /\ WrongBy(q, old) \cap WrongIn(fresh, new[Len(q) + 1]) = {}
             /\ WrongBy(b, new) \cap NotCaptured(b) = {}
             /\ WrongBy(q, old) \subseteq Samples /\ fresh \subseteq Samples
<1> DEFINE b == Append(q, r)
           fresh == NotCaptured(q) \cap rules[r].captured
<1>1. /\ Len(q) \in Nat /\ DOMAIN q = 1 .. Len(q) /\ DOMAIN b = 1 .. Len(q) + 1
      /\ Len(q) + 1 \in 1 .. Len(q) + 1
      /\ \A i \in 1 .. Len(q) : b[i] = q[i]
      /\ b[Len(q) + 1] = r
  BY AppendProperties
<1> HIDE DEF b
<1>2. ASSUME NEW s \in Samples, NEW i \in 1 .. Len(q) PROVE Decides(b, i, s) <=> Decides(q, i, s)
  <2>1. \A j \in 1 .. i - 1 : j \in 1 .. Len(q)
    BY <1>1
  <2> QED
    BY <1>1, <2>1 DEF Decides
<1>3. ASSUME NEW s \in Samples PROVE Decides(b, Len(q) + 1, s) <=> s \in fresh
  <2>1. 1 .. Len(q) + 1 - 1 = 1 .. Len(q)
    BY <1>1
  <2> QED
    BY <1>1, <2>1 DEF Decides, NotCaptured, Captured
<1>4. ASSUME NEW s \in Samples
      PROVE  s \in WrongBy(b, new) <=> s \in WrongBy(q, old) \/ s \in WrongIn(fresh, new[Len(q) + 1])
  <2> HIDE DEF fresh
  <2>1. \A i \in 1 .. Len(q) + 1 : i \in 1 .. Len(q) \/ i = Len(q) + 1
    BY <1>1
  <2>2. \A i \in 1 .. Len(q) : i \in 1 .. Len(q) + 1
    BY <1>1
  <2>3. s \in WrongBy(b, new) <=>
          \/ \E i \in 1 .. Len(q) : Decides(b, i, s) /\ new[i] # Label(s)
          \/ Decides(b, Len(q) + 1, s) /\ new[Len(q) + 1] # Label(s)
    BY <1>1, <2>1, <2>2 DEF WrongBy
  <2> QED
    BY <1>1, <1>2, <1>3, <2>3 DEF WrongBy, WrongIn
<1>5. WrongBy(b, new) \subseteq Samples /\ WrongBy(q, old) \subseteq Samples /\ fresh \subseteq Samples
      /\ WrongIn(fresh, new[Len(q) + 1]) \subseteq Samples
  BY DEF WrongBy, WrongIn, NotCaptured
<1>6. WrongBy(q, old) \cap WrongIn(fresh, new[Len(q) + 1]) = {}
  BY <1>1 DEF WrongBy, WrongIn, Decides, NotCaptured, Captured
<1>7. WrongBy(b, new) \cap NotCaptured(b) = {}
  BY <1>1 DEF WrongBy, Decides, NotCaptured, Captured
<1>8. WrongBy(b, new) = WrongBy(q, old) \cup WrongIn(fresh, new[Len(q) + 1])
  <2> HIDE DEF fresh
  <2> QED
    BY <1>4, <1>5
<1> QED
  BY <1>5, <1>6, <1>7, <1>8 DEF b

(* The rule list of a node, without what it leaves to the default; and a   *)
(* list whole.                                                             *)
PathCost(q) == Unit * Cardinality(WrongBy(q, Predictions(q))) + fit.c * Len(q)

ListCost(q, labels) ==
  Unit * Cardinality(WrongBy(q, labels) \cup WrongIn(NotCaptured(q), labels[Len(q) + 1])) + fit.c * Len(q)

NodesRight ==
  /\ \A q \in DOMAIN nodes : ToSet(q) \subseteq RuleIds /\ nodes[q] \in Node
  /\ \A q \in DOMAIN nodes :
       q \in linked \/ q = root => nodes[q].lower_bound - nodes[q].equivalent_minority = PathCost(q)

Unbegun == pc \in {"mine", "combine", "begin"}

BestRight ==
  /\ min_objective \in Nat
  /\ opt_rulelist \in Seq(Nat) /\ ToSet(opt_rulelist) \subseteq RuleIds
  /\ ~Unbegun => min_objective = ListCost(opt_rulelist, opt_predictions)

OthersRight ==
  /\ pc \in {"mine", "combine", "begin", "loop", "select", "evaluate", "collect", "ended", "interrupted"}
  /\ Unbegun => opt_rulelist = <<>>
  /\ next_rule \in 0 .. Len(rules) + 1
  /\ \A key \in DOMAIN pmap : pmap[key].lower_bound \in Nat

Result == RulesRight /\ Mining /\ NodesRight /\ BestRight /\ OthersRight

-----------------------------------------------------------------------------
(* The steps that add no node                                              *)

(* A node that stays linked keeps its list, the predictions of it and      *)
(* what it costs.                                                          *)
LEMMA PathKept ==
  ASSUME IInv, Tree', UNCHANGED <<fit, rules>>,
         NEW q \in DOMAIN nodes, q \in DOMAIN nodes', (q \in linked /\ q \in linked') \/ q = root,
         \A p \in DOMAIN nodes : p \in DOMAIN nodes' => nodes'[p].prediction = nodes[p].prediction
  PROVE  Predictions(q)' = Predictions(q) /\ PathCost(q)' = PathCost(q)
<1>1. q \in Seq(Nat) /\ Len(q) \in Nat /\ DOMAIN q = 1 .. Len(q)
  BY DEF IInv, Tree, Types
<1>2. ASSUME NEW k \in 1 .. Len(q) PROVE nodes'[SubSeq(q, 1, k)].prediction = nodes[SubSeq(q, 1, k)].prediction
  <2>1. q \in linked /\ q \in linked'
    BY <1>1, <1>2 DEF root
  <2>2. CASE k = Len(q)
    BY <1>1, <2>2, SubSeqFull
  <2>3. CASE k # Len(q)
    <3>0. Len(q) \in Nat /\ k \in Nat
      BY <1>1, <1>2
    <3>1. k \in 0 .. Len(q) - 1
      BY <1>2, <2>3, <3>0
    <3>2. SubSeq(q, 1, k) \in DOMAIN nodes /\ SubSeq(q, 1, k) \in DOMAIN nodes'
      BY <2>1, <3>1 DEF IInv, Tree, Rooted
    <3> QED
      BY <3>2
  <2> QED
    BY <2>2, <2>3
<1>3. Predictions(q)' = Predictions(q)
  BY <1>1, <1>2 DEF Predictions
<1> QED
  BY <1>3 DEF PathCost, WrongBy, Decides, Label, Samples

(* A step that adds no node leaves every bound what its list gets wrong.   *)
LEMMA NodesKept ==
  ASSUME IInv, Tree', NodesRight, UNCHANGED <<fit, rules>>,
         linked' \subseteq linked, DOMAIN nodes' \subseteq DOMAIN nodes,
         \A q \in DOMAIN nodes' : /\ nodes'[q] \in Node
                                  /\ nodes'[q].lower_bound = nodes[q].lower_bound
                                  /\ nodes'[q].equivalent_minority = nodes[q].equivalent_minority
                                  /\ nodes'[q].prediction = nodes[q].prediction
  PROVE  NodesRight'
<1>1. Node' = Node /\ RuleIds' = RuleIds
  BY DEF Node, RuleIds
<1>2. ASSUME NEW q \in DOMAIN nodes', q \in linked' \/ q = root
      PROVE  nodes'[q].lower_bound - nodes'[q].equivalent_minority = PathCost(q)'
  <2>1. q \in DOMAIN nodes /\ ((q \in linked /\ q \in linked') \/ q = root)
    BY <1>2
  <2>2. PathCost(q)' = PathCost(q)
    BY <1>2, <2>1, PathKept
  <2> QED
    BY <1>2, <2>1, <2>2 DEF NodesRight
<1> QED
  BY <1>1, <1>2 DEF NodesRight

(* Marking a node as done or deleted changes none of its bounds.           *)
LEMMA OnlyMarked ==
  ASSUME NEW n \in Node
  PROVE  \A m \in {[n EXCEPT !.deleted = TRUE], [n EXCEPT !.done = TRUE]} :
           /\ m \in Node
           /\ m.lower_bound = n.lower_bound
           /\ m.equivalent_minority = n.equivalent_minority
           /\ m.prediction = n.prediction
BY DEF Node

(* Freeing nodes changes none of the others.                               *)
LEMMA NodesLeft ==
  ASSUME \A q \in DOMAIN nodes : nodes[q] \in Node, NEW D
  PROVE  LET nd == NodesWithout(D)
         IN  /\ DOMAIN nd \subseteq DOMAIN nodes
             /\ \A q \in DOMAIN nd : /\ nd[q] \in Node
                                     /\ nd[q].lower_bound = nodes[q].lower_bound
                                     /\ nd[q].equivalent_minority = nodes[q].equivalent_minority
                                     /\ nd[q].prediction = nodes[q].prediction
<1> DEFINE nd == NodesWithout(D)
<1>1. /\ DOMAIN nd \subseteq DOMAIN nodes
      /\ \A q \in DOMAIN nd : nd[q] = nodes[q] \/ nd[q] = [nodes[q] EXCEPT !.deleted = TRUE]
  BY DEF NodesWithout
<1> HIDE DEF nd
<1>2. \A q \in DOMAIN nd : /\ nd[q] \in Node
                           /\ nd[q].lower_bound = nodes[q].lower_bound
                           /\ nd[q].equivalent_minority = nodes[q].equivalent_minority
                           /\ nd[q].prediction = nodes[q].prediction
  BY <1>1, OnlyMarked
<1> QED
  BY <1>1, <1>2 DEF nd

(* A step that does not better the list.                                   *)
LEMMA RestKept ==
  ASSUME BestRight, OthersRight, ~Unbegun, ~Unbegun',
         UNCHANGED <<fit, rules, bestVars>>
  PROVE  BestRight'
BY DEF BestRight, bestVars, Unbegun, ListCost, WrongBy, WrongIn, Decides, Label, NotCaptured, Captured, Samples, RuleIds

(* A step that mines nothing leaves the mined rules right.                 *)
LEMMA MinedKept ==
  ASSUME RulesRight, Mining, UNCHANGED <<fit, rules, literal, mined, rule_ids>>, pc' # "combine"
  PROVE  RulesRight' /\ Mining'
BY DEF RulesRight, RuleType, Mining, Samples, Literal, Literals, Frequent

(* What such a step leaves of the nodes, and of the rest.                  *)
LEMMA StepLeaves ==
  ASSUME RulesRight, NodesRight, OthersRight,
         \/ Discard \/ Select \/ Skip \/ Continue \/ Done \/ PruneUp \/ Collect
         \/ \E early \in BOOLEAN : End(early)
  PROVE  /\ UNCHANGED <<fit, rules, bestVars, pmap>>
         /\ ~Unbegun /\ OthersRight' /\ ~Unbegun' /\ pc' # "combine"
         /\ linked' \subseteq linked /\ DOMAIN nodes' \subseteq DOMAIN nodes
         /\ \A q \in DOMAIN nodes' : /\ nodes'[q] \in Node
                                     /\ nodes'[q].lower_bound = nodes[q].lower_bound
                                     /\ nodes'[q].equivalent_minority = nodes[q].equivalent_minority
                                     /\ nodes'[q].prediction = nodes[q].prediction
<1> DEFINE Left == /\ linked' \subseteq linked /\ DOMAIN nodes' \subseteq DOMAIN nodes
                   /\ \A q \in DOMAIN nodes' : /\ nodes'[q] \in Node
                                               /\ nodes'[q].lower_bound = nodes[q].lower_bound
                                               /\ nodes'[q].equivalent_minority = nodes[q].equivalent_minority
                                               /\ nodes'[q].prediction = nodes[q].prediction
           Rest == /\ UNCHANGED <<fit, rules, bestVars, pmap>>
                   /\ pc \in {"loop", "select", "evaluate", "collect"}
                   /\ pc' \in {"loop", "select", "evaluate", "collect", "ended", "interrupted"}
                   /\ next_rule' \in 0 .. Len(rules) + 1
<1>1. Len(rules) \in Nat /\ next_rule \in 0 .. Len(rules) + 1 /\ 1 \in 0 .. Len(rules) + 1
      /\ \A n \in RuleIds : n + 1 \in 0 .. Len(rules) + 1
  BY DEF RulesRight, OthersRight, RuleIds
<1>2. \A q \in DOMAIN nodes : nodes[q] \in Node
  BY DEF NodesRight
<1>3. UNCHANGED <<nodes, linked>> => Left
  BY <1>2
<1>4. \A D : DOMAIN nodes' = DOMAIN nodes \ D /\ (\A q \in DOMAIN nodes' : nodes'[q] = nodes[q])
             /\ linked' \subseteq linked => Left
  BY <1>2
<1>5. \A D : nodes' = NodesWithout(D) /\ linked' = LinkedWithout(D) => Left
  <2>1. \A D : LinkedWithout(D) \subseteq linked
    BY DEF LinkedWithout
  <2> QED
    BY <1>2, <2>1, NodesLeft
<1> SUFFICES Left /\ Rest
  <2>1. ASSUME Rest PROVE OthersRight' /\ ~Unbegun /\ ~Unbegun' /\ pc' # "combine"
    BY <2>1 DEF OthersRight, Unbegun
  <2> QED
    BY <2>1
<1> HIDE DEF Left
<1>6. CASE Select \/ Skip \/ Continue
  <2>1. Rest /\ UNCHANGED <<nodes, linked>>
    BY <1>1, <1>6 DEF Select, Skip, Continue, treeVars, searchVars, bestVars
  <2> QED
    BY <1>3, <2>1
<1>7. CASE Discard
  <2>1. PICK top \in Tops :
          /\ nodes' = [q \in DOMAIN nodes \ {top} |-> nodes[q]] /\ linked' = linked
          /\ pc = "select" /\ pc' \in {"loop", "select"}
          /\ UNCHANGED <<fit, rules, bestVars, pmap, next_rule>>
    BY <1>7 DEF Discard
  <2>2. DOMAIN nodes' = DOMAIN nodes \ {top} /\ \A q \in DOMAIN nodes' : nodes'[q] = nodes[q]
    BY <2>1
  <2> QED
    BY <1>1, <1>4, <2>1, <2>2
<1>8. CASE Done
  <2>1. /\ nodes' = [nodes EXCEPT ![parent].done = TRUE] /\ linked' = linked
        /\ pc = "evaluate" /\ pc' = "collect"
        /\ UNCHANGED <<fit, rules, bestVars, pmap, next_rule>>
    BY <1>8 DEF Done
  <2>2. /\ DOMAIN nodes' = DOMAIN nodes
        /\ \A q \in DOMAIN nodes : nodes'[q] = nodes[q] \/ nodes'[q] = [nodes[q] EXCEPT !.done = TRUE]
    BY <2>1
  <2>3. \A q \in DOMAIN nodes : /\ nodes'[q] \in Node
                                /\ nodes'[q].lower_bound = nodes[q].lower_bound
                                /\ nodes'[q].equivalent_minority = nodes[q].equivalent_minority
                                /\ nodes'[q].prediction = nodes[q].prediction
    BY <1>2, <2>2, OnlyMarked
  <2>4. Left
    BY <2>1, <2>2, <2>3 DEF Left
  <2> QED
    BY <1>1, <2>1, <2>4
<1>9. CASE PruneUp
  <2>1. /\ nodes' = [q \in DOMAIN nodes \ Pruned |-> nodes[q]] /\ linked' = linked \ Pruned
        /\ pc = "evaluate" /\ pc' = "collect"
        /\ UNCHANGED <<fit, rules, pmap, next_rule>>
    BY <1>9, PruneUpIs DEF Evaluating
  <2>2. UNCHANGED bestVars
    BY <1>9 DEF PruneUp
  <2>3. DOMAIN nodes' = DOMAIN nodes \ Pruned /\ \A q \in DOMAIN nodes' : nodes'[q] = nodes[q]
    BY <2>1
  <2>4. linked' \subseteq linked
    BY <2>1
  <2> QED
    BY <1>1, <1>4, <2>1, <2>2, <2>3, <2>4
<1>10. CASE Collect
  <2>1. /\ pc = "collect" /\ pc' = "loop"
        /\ UNCHANGED <<fit, rules, bestVars, pmap, next_rule>>
        /\ \/ nodes' = NodesWithout(Garbage) /\ linked' = LinkedWithout(Garbage)
           \/ UNCHANGED <<nodes, linked>>
    BY <1>10 DEF Collect, treeVars
  <2> QED
    BY <1>1, <1>3, <1>5, <2>1
<1>11. CASE \E early \in BOOLEAN : End(early)
  <2>1. PICK early \in BOOLEAN : End(early)
    BY <1>11
  <2>2. /\ pc = "loop" /\ pc' \in {"interrupted", "ended"}
        /\ UNCHANGED <<fit, rules, pmap, next_rule>>
        /\ early => UNCHANGED <<nodes, linked>>
        /\ ~early => /\ nodes' = [q \in DOMAIN nodes \ FreedAtEnd |-> nodes[q]]
                     /\ linked' = {q \in linked : Front(q) \notin FreedAtEnd}
    BY <2>1, EndIs
  <2>3. UNCHANGED bestVars
    BY <2>1 DEF End
  <2>4. CASE early
    BY <1>1, <1>3, <2>2, <2>3, <2>4
  <2>5. CASE ~early
    <3>1. /\ DOMAIN nodes' = DOMAIN nodes \ FreedAtEnd /\ \A q \in DOMAIN nodes' : nodes'[q] = nodes[q]
          /\ linked' \subseteq linked
      BY <2>2, <2>5
    <3> QED
      BY <1>1, <1>4, <2>2, <2>3, <3>1
  <2> QED
    BY <2>4, <2>5
<1> QED
  BY <1>6, <1>7, <1>8, <1>9, <1>10, <1>11

(* A step that neither mines, begins nor extends leaves the result         *)
(* right.                                                                  *)
LEMMA StepKeeps ==
  ASSUME IInv, Tree', Result, UNCHANGED <<literal, mined, rule_ids>>,
         \/ Discard \/ Select \/ Skip \/ Continue \/ Done \/ PruneUp \/ Collect
         \/ \E early \in BOOLEAN : End(early)
  PROVE  Result'
BY StepLeaves, NodesKept, RestKept, MinedKept DEF Result

-----------------------------------------------------------------------------
(* The steps that add one                                                  *)

(* No rule captures nothing and gets nothing wrong.                        *)
LEMMA NoRule ==
  ASSUME fit \in Fits, NEW labels
  PROVE  WrongBy(root, labels) = {} /\ NotCaptured(root) = Samples /\ Len(root) = 0 /\ fit.c * 0 = 0
                              /\ Unit * 0 = 0 /\ ToSet(root) = {}
<1>1. DOMAIN root = {} /\ Len(root) = 0
  BY DEF root
<1> QED
  BY <1>1, FitFacts, UnitAssumption DEF WrongBy, NotCaptured, Captured, ToSet

(* A search begins with a right result: no rule, and the cost of the       *)
(* default alone.                                                          *)
LEMMA BeginRight == IInv /\ Result /\ Begin /\ UNCHANGED <<literal, mined, rule_ids>> => Result'
<1> SUFFICES ASSUME IInv, Result, Begin, UNCHANGED <<literal, mined, rule_ids>> PROVE Result'
  OBVIOUS
<1>1. /\ pc = "begin" /\ pc' = "loop" /\ DOMAIN nodes' = {root} /\ linked' = {}
      /\ nodes'[root] = [lower_bound |-> Unit * Cardinality(minority), objective |-> Errors(Samples),
                         equivalent_minority |-> Unit * Cardinality(minority), num_captured |-> 0,
                         prediction |-> 0, done |-> FALSE, deleted |-> FALSE]
      /\ min_objective' = Errors(Samples) /\ opt_rulelist' = opt_rulelist
      /\ opt_predictions' = <<Prediction(Samples)>>
      /\ UNCHANGED <<fit, rules, minority, pmap, next_rule>>
  <2>1. linked = {}
    BY DEF Begin, IInv, Tree, NotBegun
  <2>2. opt_predictions' = <<Prediction(Samples)>> /\ opt_rulelist' = opt_rulelist
    BY DEF Begin
  <2> QED
    BY <2>1, <2>2, BeginIs
<1>2. fit \in Fits /\ minority \subseteq Samples /\ opt_rulelist = root
  BY <1>1 DEF IInv, Tree, Types, Result, OthersRight, Unbegun, root
<1>3. /\ Unit * Cardinality(minority) \in Nat /\ Errors(Samples) \in Nat /\ fit.samples \in Nat
      /\ Cardinality({}) = 0
  BY <1>2, Counts, Costs, FitFacts, FS_EmptySet
<1>4. /\ Samples' = Samples /\ NotCaptured(root)' = NotCaptured(root) /\ RuleIds' = RuleIds /\ Node' = Node
      /\ (\A S, p : WrongIn(S, p)' = WrongIn(S, p)) /\ \A p : WrongBy(root, p)' = WrongBy(root, p)
  BY <1>1 DEF NotCaptured, Captured, Samples, WrongIn, WrongBy, Decides, Label, RuleIds, Node
<1>5. NodesRight'
  <2>1. PathCost(root)' = 0
    <3>1. WrongBy(root, Predictions(root))' = {}
      BY <1>1 DEF WrongBy, root
    <3> QED
      BY <1>1, <1>2, <1>3, <3>1, NoRule DEF PathCost
  <2>2. nodes'[root] \in Node
    BY <1>1, <1>3 DEF Node
  <2> QED
    <3>1. nodes'[root].lower_bound - nodes'[root].equivalent_minority = PathCost(root)'
      BY <1>1, <1>3, <2>1
    <3>2. ToSet(root) \subseteq RuleIds
      BY <1>2, NoRule
    <3>3. \A q \in DOMAIN nodes' : q = root
      BY <1>1
    <3> QED
      BY <1>4, <2>2, <3>1, <3>2, <3>3 DEF NodesRight
<1>6. BestRight'
  <2>1. ListCost(root, opt_predictions)' = Errors(Samples)
    <3>1. opt_predictions'[Len(root) + 1] = Prediction(Samples)
      BY <1>1, <1>2, NoRule
    <3>2. WrongBy(root, opt_predictions)' = {}
      BY <1>1 DEF WrongBy, root
    <3>3. WrongIn(NotCaptured(root), opt_predictions[Len(root) + 1])' = WrongIn(Samples, Prediction(Samples))
      BY <1>1, <1>2, <3>1, NoRule DEF NotCaptured, Captured, Samples, WrongIn, Label
    <3>4. ListCost(root, opt_predictions)' = Unit * Cardinality(WrongIn(Samples, Prediction(Samples))) + 0
      <4>1. /\ {} \cup WrongIn(Samples, Prediction(Samples)) = WrongIn(Samples, Prediction(Samples))
            /\ fit'.c * Len(root) = 0
        BY <1>1, <1>2, NoRule
      <4> QED
        BY <3>2, <3>3, <4>1 DEF ListCost
    <3>5. Errors(Samples) = Unit * Cardinality(WrongIn(Samples, Prediction(Samples)))
      BY <1>2, ErrorsCount
    <3> QED
      BY <1>3, <3>4, <3>5
  <2>2. root \in Seq(Nat)
    BY DEF root
  <2> QED
    BY <1>1, <1>2, <1>3, <1>4, <2>1, <2>2, NoRule DEF BestRight
<1>7. OthersRight'
  BY <1>1 DEF OthersRight, Result, Unbegun
<1>8. RulesRight' /\ Mining'
  BY <1>1, MinedKept DEF Result
<1> QED
  BY <1>5, <1>6, <1>7, <1>8 DEF Result

(* Mining leaves the result right.                                         *)
LEMMA MiningRight == IInv /\ Result /\ MineStep /\ UNCHANGED searchVars => Result'
<1> SUFFICES ASSUME IInv, Result, MineStep, UNCHANGED searchVars PROVE Result'
  OBVIOUS
<1>1. /\ pc \in {"mine", "combine"} /\ pc' \in {"mine", "combine", "begin"}
      /\ fit' = fit
      /\ UNCHANGED <<nodes, linked, pmap, min_objective, opt_rulelist, next_rule>>
  BY MineIs DEF searchVars, treeVars, bestVars
<1>2. nodes = <<>> /\ opt_rulelist = <<>> /\ Unbegun' /\ fit \in Fits
  BY <1>1 DEF IInv, Tree, Types, NotBegun, Result, OthersRight, Unbegun
<1>3. RulesRight' /\ Mining' /\ Len(rules') >= Len(rules)
  BY <1>2, MineRight DEF Result
<1>4. NodesRight'
  BY <1>1, <1>2 DEF NodesRight
<1>5. BestRight'
  <2>1. ToSet(opt_rulelist') = {}
    BY <1>1, <1>2 DEF ToSet
  <2> QED
    BY <1>1, <1>2, <2>1 DEF Result, BestRight
<1>6. OthersRight'
  <2>1. Len(rules) \in Nat /\ Len(rules') \in Nat
    BY <1>3 DEF Result, RulesRight
  <2>2. next_rule' \in 0 .. Len(rules') + 1
    BY <1>1, <1>3, <2>1 DEF Result, OthersRight
  <2> QED
    BY <1>1, <1>2, <2>2 DEF Result, OthersRight
<1> QED
  BY <1>3, <1>4, <1>5, <1>6 DEF Result

(* The bound that a node is extended with is what the longer list costs.   *)
LEMMA NewCost ==
  ASSUME IInv, Result, Evaluating, NEW labels,
         \A i \in 1 .. Len(parent) : labels[i] = Predictions(parent)[i],
         labels[Len(parent) + 1] = Prediction(NewlyCaptured)
  PROVE  /\ PureBound \in Nat
         /\ PureBound = Unit * Cardinality(WrongBy(NewPrefix, labels)) + fit.c * Len(NewPrefix)
         /\ WrongBy(NewPrefix, labels) \cap NewLeft = {}
         /\ WrongBy(NewPrefix, labels) \subseteq Samples
<1> DEFINE W == WrongBy(parent, Predictions(parent))
           N == WrongIn(NewlyCaptured, Prediction(NewlyCaptured))
           new == WrongBy(NewPrefix, labels)
<1>1. /\ fit \in Fits /\ parent \in Seq(Nat) /\ next_rule \in Nat /\ Len(parent) \in Nat
      /\ parent \in DOMAIN nodes /\ (parent \in linked \/ parent = root) /\ nodes[parent] \in Node
  BY DEF IInv, Tree, Types, Evaluated, Result, NodesRight
<1>2. /\ new = W \cup N /\ W \cap N = {} /\ new \cap NewLeft = {}
      /\ W \subseteq Samples /\ NewlyCaptured \subseteq Samples
  <2> DEFINE old == Predictions(parent)
             fresh == NotCaptured(parent) \cap rules[next_rule].captured
  <2>1. \A i \in 1 .. Len(parent) : labels[i] = old[i]
    OBVIOUS
  <2> HIDE DEF old
  <2>2. /\ WrongBy(Append(parent, next_rule), labels)
             = WrongBy(parent, old) \cup WrongIn(fresh, labels[Len(parent) + 1])
        /\ WrongBy(parent, old) \cap WrongIn(fresh, labels[Len(parent) + 1]) = {}
        /\ WrongBy(Append(parent, next_rule), labels) \cap NotCaptured(Append(parent, next_rule)) = {}
        /\ WrongBy(parent, old) \subseteq Samples /\ fresh \subseteq Samples
    BY <1>1, <2>1, OneRuleMore
  <2> QED
    BY <2>2 DEF NewPrefix, NewLeft, NewlyCaptured, old
<1>3. N \subseteq Samples
  BY <1>2 DEF WrongIn
<1>4. nodes[parent].lower_bound - nodes[parent].equivalent_minority = Unit * Cardinality(W) + fit.c * Len(parent)
  BY <1>1 DEF Result, NodesRight, PathCost
<1>5. Errors(NewlyCaptured) = Unit * Cardinality(N)
  BY <1>1, <1>2, ErrorsCount
<1> HIDE DEF W, N
<1>6. /\ Unit * Cardinality(new) = Unit * Cardinality(W) + Unit * Cardinality(N)
      /\ Unit * Cardinality(W) \in Nat /\ Unit * Cardinality(N) \in Nat
  BY <1>1, <1>2, <1>3, Adds
<1> HIDE DEF new
<1>7. /\ fit.c \in Nat /\ fit.c * Len(parent) \in Nat
      /\ fit.c * Len(NewPrefix) = fit.c * Len(parent) + fit.c
  <2>1. fit.c \in Nat /\ Len(NewPrefix) = Len(parent) + 1
    BY <1>1, FitFacts, AppendAt DEF NewPrefix
  <2>2. \A a, k \in Nat : a * (k + 1) = a * k + a
    OBVIOUS
  <2> QED
    BY <1>1, <2>1, <2>2, Products
<1>8. nodes[parent].lower_bound \in Nat /\ nodes[parent].equivalent_minority \in Nat
  BY <1>1 DEF Node
<1>9. PureBound = Unit * Cardinality(W) + fit.c * Len(parent) + Unit * Cardinality(N) + fit.c
  BY <1>4, <1>5 DEF PureBound
<1>10. PureBound \in Nat /\ PureBound = Unit * Cardinality(new) + fit.c * Len(NewPrefix)
  <2> DEFINE w == Unit * Cardinality(W)
             n == Unit * Cardinality(N)
             l == fit.c * Len(parent)
  <2>1. w \in Nat /\ n \in Nat /\ l \in Nat /\ fit.c \in Nat
    BY <1>6, <1>7
  <2>2. PureBound = w + l + n + fit.c /\ Unit * Cardinality(new) = w + n /\ fit.c * Len(NewPrefix) = l + fit.c
    BY <1>6, <1>7, <1>9
  <2> HIDE DEF w, n, l
  <2> QED
    BY <2>1, <2>2
<1> QED
  BY <1>2, <1>3, <1>10 DEF new

(* The numbers computed for a new node are in range and what its list      *)
(* gets wrong.                                                             *)
LEMMA NewInRange ==
  ASSUME IInv, Result, Evaluating, next_rule \in RuleIds, next_rule \notin ToSet(parent)
  PROVE  /\ PureBound \in Nat /\ NewLower \in Nat /\ NewObjective \in Nat /\ NewBest \in Nat
         /\ NewNode \in Node
         /\ NewLower - Unit * Cardinality(NewLeft \cap minority) = PureBound
         /\ ToSet(NewPrefix) \subseteq RuleIds
<1> DEFINE labels == [i \in 1 .. Len(parent) + 1 |->
                       IF i = Len(parent) + 1 THEN Prediction(NewlyCaptured) ELSE Predictions(parent)[i]]
<1>1. fit \in Fits /\ parent \in Seq(Nat) /\ next_rule \in Nat /\ Len(parent) \in Nat
  BY DEF IInv, Tree, Types
<1>2. PureBound \in Nat
  <2>1. /\ \A i \in 1 .. Len(parent) : labels[i] = Predictions(parent)[i]
        /\ labels[Len(parent) + 1] = Prediction(NewlyCaptured)
    BY <1>1
  <2> HIDE DEF labels
  <2> QED
    BY <2>1, NewCost
<1>3. /\ Unit * Cardinality(NewLeft \cap minority) \in Nat /\ Errors(NewLeft) \in Nat
      /\ fit.samples - Cardinality(NewLeft) \in 0 .. fit.samples
      /\ Prediction(NewlyCaptured) \in 0 .. 1
  <2>1. NewLeft \subseteq Samples /\ NewLeft \cap minority \subseteq Samples /\ NewlyCaptured \subseteq Samples
    BY DEF NewLeft, NewlyCaptured, NotCaptured
  <2>2. Cardinality(NewLeft) \in Nat /\ Cardinality(NewLeft) <= fit.samples /\ fit.samples \in Nat
    BY <1>1, <2>1, Counts, FitFacts
  <2> QED
    BY <1>1, <2>1, <2>2, Counts, Costs, ErrorsCount
<1>4. NewLower \in Nat /\ NewObjective \in Nat /\ NewBest \in Nat
  BY <1>2, <1>3 DEF NewLower, NewObjective, NewBest, Result, BestRight
<1>5. NewNode \in Node
  BY <1>3, <1>4 DEF NewNode, Node
<1>6. ToSet(NewPrefix) \subseteq RuleIds
  <2>1. ToSet(parent) \subseteq RuleIds
    BY DEF Evaluated, IInv, Tree, Result, NodesRight
  <2>2. /\ DOMAIN NewPrefix = 1 .. Len(parent) + 1 /\ DOMAIN parent = 1 .. Len(parent)
        /\ \A i \in 1 .. Len(parent) : NewPrefix[i] = parent[i]
        /\ NewPrefix[Len(parent) + 1] = next_rule
    BY <1>1, AppendProperties DEF NewPrefix
  <2>3. \A i \in 1 .. Len(parent) + 1 : i \in 1 .. Len(parent) \/ i = Len(parent) + 1
    BY <1>1
  <2> QED
    BY <2>1, <2>2, <2>3 DEF ToSet
<1>7. NewLower - Unit * Cardinality(NewLeft \cap minority) = PureBound
  BY <1>2, <1>3 DEF NewLower
<1> QED
  BY <1>2, <1>4, <1>5, <1>6, <1>7

(* A better list is remembered with the labels its rules predict.          *)
LEMMA BestBettered == IInv /\ Result /\ Extend => BestRight'
<1> SUFFICES ASSUME IInv, Result, Extend PROVE BestRight'
  OBVIOUS
<1> DEFINE two == <<Prediction(NewlyCaptured), Prediction(NewLeft)>>
<1>1. /\ Evaluating /\ ~Unbegun /\ ~Unbegun' /\ next_rule \in RuleIds /\ next_rule \notin ToSet(parent)
      /\ min_objective' = NewBest /\ UNCHANGED <<fit, rules>>
      /\ NewObjective < min_objective => opt_rulelist' = NewPrefix /\ opt_predictions' = Predictions(parent) \o two
      /\ ~(NewObjective < min_objective) => UNCHANGED <<opt_rulelist, opt_predictions>>
  <2>1. pc = "evaluate" /\ pc' = "evaluate" /\ next_rule \in RuleIds
    BY DEF Extend
  <2>2. /\ NewObjective < min_objective => opt_rulelist' = NewPrefix /\ opt_predictions' = Predictions(parent) \o two
        /\ ~(NewObjective < min_objective) => UNCHANGED <<opt_rulelist, opt_predictions>>
    BY DEF Extend, NewObjective, NewLeft, NewPrefix
  <2> QED
    BY <2>1, <2>2, ExtendIs DEF Unbegun, Evaluating
<1>2. /\ NewBest \in Nat /\ PureBound \in Nat /\ NewObjective \in Nat /\ ToSet(NewPrefix) \subseteq RuleIds
      /\ NewPrefix \in Seq(Nat) /\ Len(NewPrefix) = Len(parent) + 1
  BY <1>1, NewInRange, NewFacts
<1>3. ListCost(opt_rulelist, opt_predictions)' = ListCost(opt_rulelist', opt_predictions')
  BY <1>1 DEF ListCost, WrongBy, WrongIn, Decides, Label, NotCaptured, Captured, Samples
<1>4. RuleIds' = RuleIds
  BY <1>1 DEF RuleIds
<1>5. CASE ~(NewObjective < min_objective)
  BY <1>1, <1>3, <1>4, <1>5 DEF BestRight, Result, NewBest
<1>6. CASE NewObjective < min_objective
  <2> DEFINE labels == Predictions(parent) \o two
  <2>1. fit \in Fits /\ parent \in Seq(Nat) /\ Len(parent) \in Nat /\ NewLeft \subseteq Samples
    BY DEF IInv, Tree, Types, NewLeft, NotCaptured
  <2>2. /\ \A i \in 1 .. Len(parent) : labels[i] = Predictions(parent)[i]
        /\ labels[Len(parent) + 1] = Prediction(NewlyCaptured)
        /\ labels[Len(NewPrefix) + 1] = Prediction(NewLeft)
    <3> DEFINE old == Predictions(parent)
               S == {old[i] : i \in 1 .. Len(parent)} \cup {two[1], two[2]}
    <3>1. DOMAIN old = 1 .. Len(parent) /\ old = [i \in 1 .. Len(parent) |-> old[i]]
      BY <2>1 DEF Predictions
    <3> HIDE DEF old
    <3>2. old \in Seq(S) /\ Len(old) = Len(parent)
      <4>1. old \in [1 .. Len(parent) -> S]
        BY <3>1
      <4> HIDE DEF S
      <4> QED
        BY <2>1, <4>1
    <3>3. two \in Seq(S) /\ Len(two) = 2 /\ two[1] = Prediction(NewlyCaptured) /\ two[2] = Prediction(NewLeft)
      OBVIOUS
    <3> HIDE DEF S, two
    <3>4. \A i \in 1 .. Len(old) + Len(two) : (old \o two)[i] = IF i <= Len(old) THEN old[i] ELSE two[i - Len(old)]
      BY <3>2, <3>3, ConcatProperties
    <3>5. /\ \A i \in 1 .. Len(parent) : i \in 1 .. Len(old) + Len(two) /\ i <= Len(old)
          /\ Len(parent) + 1 \in 1 .. Len(old) + Len(two) /\ ~(Len(parent) + 1 <= Len(old))
          /\ Len(parent) + 2 \in 1 .. Len(old) + Len(two) /\ ~(Len(parent) + 2 <= Len(old))
          /\ Len(parent) + 1 - Len(old) = 1 /\ Len(parent) + 2 - Len(old) = 2
          /\ Len(NewPrefix) + 1 = Len(parent) + 2
      BY <1>2, <2>1, <3>2, <3>3
    <3>6. labels = old \o two
      BY DEF old
    <3> HIDE DEF labels
    <3>7. \A i \in 1 .. Len(parent) : labels[i] = old[i]
      BY <3>4, <3>5, <3>6
    <3>8. labels[Len(parent) + 1] = two[1] /\ labels[Len(NewPrefix) + 1] = two[2]
      BY <3>4, <3>5, <3>6
    <3> QED
      BY <3>3, <3>7, <3>8 DEF old
  <2> HIDE DEF labels
  <2>3. /\ PureBound = Unit * Cardinality(WrongBy(NewPrefix, labels)) + fit.c * Len(NewPrefix)
        /\ WrongBy(NewPrefix, labels) \cap NewLeft = {}
        /\ WrongBy(NewPrefix, labels) \subseteq Samples
    BY <1>1, <2>2, NewCost
  <2>4. Errors(NewLeft) = Unit * Cardinality(WrongIn(NewLeft, Prediction(NewLeft)))
    BY <2>1, ErrorsCount
  <2>5. WrongIn(NewLeft, Prediction(NewLeft)) \subseteq Samples /\ WrongIn(NewLeft, Prediction(NewLeft)) \subseteq NewLeft
    BY <2>1 DEF WrongIn
  <2>6. /\ Unit * Cardinality(WrongBy(NewPrefix, labels) \cup WrongIn(NewLeft, Prediction(NewLeft)))
             = Unit * Cardinality(WrongBy(NewPrefix, labels)) + Unit * Cardinality(WrongIn(NewLeft, Prediction(NewLeft)))
        /\ Unit * Cardinality(WrongBy(NewPrefix, labels)) \in Nat
        /\ Unit * Cardinality(WrongIn(NewLeft, Prediction(NewLeft))) \in Nat
    BY <2>1, <2>3, <2>5, Adds
  <2>7. ListCost(NewPrefix, labels)
          = Unit * Cardinality(WrongBy(NewPrefix, labels) \cup WrongIn(NewLeft, Prediction(NewLeft))) + fit.c * Len(NewPrefix)
    BY <2>2 DEF ListCost, NewLeft
  <2>8. fit.c * Len(NewPrefix) \in Nat
    BY <1>2, <2>1, FitFacts, Products
  <2>9. ListCost(NewPrefix, labels) = NewObjective
    BY <2>3, <2>4, <2>6, <2>7, <2>8 DEF NewObjective
  <2>10. NewBest = NewObjective /\ opt_rulelist' = NewPrefix /\ opt_predictions' = labels
    BY <1>1, <1>6 DEF NewBest, labels
  <2> QED
    BY <1>1, <1>2, <1>3, <1>4, <2>9, <2>10 DEF BestRight
<1> QED
  BY <1>5, <1>6

(* The new node costs what its list does, and what Extend leaves as before.*)
LEMMA NodesExtended == IInv /\ Tree' /\ Result /\ Extend => NodesRight'
<1> SUFFICES ASSUME IInv, Tree', Result, Extend PROVE NodesRight'
  OBVIOUS
<1>1. /\ Evaluating /\ next_rule \in RuleIds /\ next_rule \notin ToSet(parent)
      /\ UNCHANGED <<fit, rules>>
      /\ ~Linking => UNCHANGED <<nodes, linked>>
  <2>1. next_rule \in RuleIds
    BY DEF Extend
  <2> QED
    BY <2>1, ExtendIs
<1>2. CASE ~Linking
  BY <1>1, <1>2, NodesKept DEF Result, NodesRight
<1>3. CASE Linking
  <2> DEFINE nd == NodesWithout(Superseded(NewPrefix))
             ln == LinkedWithout(Superseded(NewPrefix))
  <2>1. /\ linked' = {NewPrefix} \cup ln
        /\ DOMAIN nodes' = {NewPrefix} \cup DOMAIN nd
        /\ nodes'[NewPrefix] = NewNode
        /\ \A q \in DOMAIN nd : nodes'[q] = nd[q]
        /\ NewPrefix \notin DOMAIN nd
    BY <1>3, Grown
  <2>2. /\ DOMAIN nd \subseteq DOMAIN nodes
        /\ \A q \in DOMAIN nd : /\ nd[q] \in Node
                                /\ nd[q].lower_bound = nodes[q].lower_bound
                                /\ nd[q].equivalent_minority = nodes[q].equivalent_minority
                                /\ nd[q].prediction = nodes[q].prediction
    BY NodesLeft DEF Result, NodesRight
  <2>3. ln \subseteq linked
    BY DEF LinkedWithout
  <2> HIDE DEF nd, ln
  <2>4. /\ NewPrefix \in Seq(Nat) /\ NewPrefix # root /\ Len(NewPrefix) = Len(parent) + 1
        /\ NewPrefix \notin DOMAIN nodes /\ parent \in Seq(Nat) /\ next_rule \in Nat
    BY <1>1, NewFacts DEF IInv, Tree, Types
  <2>5. NewNode \in Node /\ ToSet(NewPrefix) \subseteq RuleIds
        /\ NewLower - Unit * Cardinality(NewLeft \cap minority) = PureBound
    BY <1>1, NewInRange
  <2>6. Node' = Node /\ RuleIds' = RuleIds
    BY <1>1 DEF Node, RuleIds
  <2>7. \A q \in DOMAIN nodes' : ToSet(q) \subseteq RuleIds /\ nodes'[q] \in Node
    BY <2>1, <2>2, <2>5 DEF Result, NodesRight
  <2>8. ASSUME NEW q \in DOMAIN nd, q \in linked' \/ q = root
        PROVE  nodes'[q].lower_bound - nodes'[q].equivalent_minority = PathCost(q)'
    <3>1. q \in DOMAIN nodes /\ q \in DOMAIN nodes' /\ ((q \in linked /\ q \in linked') \/ q = root)
      BY <2>1, <2>2, <2>3, <2>8
    <3>2. \A p \in DOMAIN nodes : p \in DOMAIN nodes' => nodes'[p].prediction = nodes[p].prediction
      BY <2>1, <2>2, <2>4
    <3>3. PathCost(q)' = PathCost(q)
      BY <1>1, <3>1, <3>2, PathKept
    <3>4. nodes[q].lower_bound - nodes[q].equivalent_minority = PathCost(q)
      BY <3>1 DEF Result, NodesRight
    <3> QED
      BY <2>1, <2>2, <3>3, <3>4
  <2>9. ASSUME NEW b, b = NewPrefix
        PROVE  nodes'[b].lower_bound - nodes'[b].equivalent_minority = PathCost(b)'
    <3> DEFINE labels == [k \in DOMAIN b |-> nodes'[SubSeq(b, 1, k)].prediction]
    <3>1. /\ Len(parent) \in Nat /\ DOMAIN b = 1 .. Len(parent) + 1 /\ DOMAIN parent = 1 .. Len(parent)
          /\ Len(parent) + 1 \in 1 .. Len(parent) + 1 /\ b \in Seq(Nat) /\ Len(b) = Len(parent) + 1
          /\ b \in linked' /\ b \notin DOMAIN nd
      BY <2>1, <2>4, <2>9
    <3>2. ASSUME NEW k \in 1 .. Len(parent) PROVE labels[k] = Predictions(parent)[k]
      <4>1. k \in 0 .. Len(parent) /\ k \in 0 .. Len(b) - 1 /\ k \in DOMAIN b
            /\ k \in 0 .. Len(b) /\ k # Len(b)
        BY <3>1, <3>2
      <4>2. SubSeq(b, 1, k) = SubSeq(parent, 1, k)
        BY <2>4, <2>9, <4>1, AppendAt DEF NewPrefix
      <4>3. SubSeq(b, 1, k) \in DOMAIN nodes'
        BY <3>1, <4>1 DEF Tree, Rooted
      <4>4. Len(SubSeq(b, 1, k)) = k
        BY <3>1, <4>1, PrefixAt
      <4>5. SubSeq(b, 1, k) \in DOMAIN nd
        BY <2>1, <2>9, <4>1, <4>3, <4>4
      <4> QED
        BY <2>1, <2>2, <3>1, <3>2, <4>1, <4>2, <4>5 DEF Predictions
    <3>3. labels[Len(parent) + 1] = Prediction(NewlyCaptured)
      <4>1. SubSeq(b, 1, Len(parent) + 1) = b
        BY <3>1, SubSeqFull
      <4>2. labels[Len(parent) + 1] = nodes'[b].prediction
        BY <3>1, <4>1
      <4> QED
        BY <2>1, <2>9, <4>2 DEF NewNode
    <3>4. Predictions(b)' = labels
      BY DEF Predictions
    <3> HIDE DEF labels
    <3>5. PathCost(b)' = Unit * Cardinality(WrongBy(b, labels)) + fit.c * Len(b)
      BY <1>1, <3>4 DEF PathCost, WrongBy, Decides, Label, Samples
    <3>6. PureBound = Unit * Cardinality(WrongBy(b, labels)) + fit.c * Len(b)
      BY <1>1, <2>9, <3>2, <3>3, NewCost
    <3>7. nodes'[b].lower_bound = NewLower /\ nodes'[b].equivalent_minority = Unit * Cardinality(NewLeft \cap minority)
      BY <2>1, <2>9 DEF NewNode
    <3> QED
      BY <2>5, <3>5, <3>6, <3>7
  <2>10. \A q \in DOMAIN nodes' : q = NewPrefix \/ q \in DOMAIN nd
    BY <2>1
  <2>11. \A q \in DOMAIN nodes' : q \in linked' \/ q = root =>
           nodes'[q].lower_bound - nodes'[q].equivalent_minority = PathCost(q)'
    BY <2>8, <2>9, <2>10
  <2> QED
    BY <2>6, <2>7, <2>11 DEF NodesRight
<1> QED
  BY <1>2, <1>3

(* A node is added, and the best list replaced, with the cost it really    *)
(* has.                                                                    *)
LEMMA ExtendRight == IInv /\ Tree' /\ Result /\ Extend /\ UNCHANGED <<literal, mined, rule_ids>> => Result'
<1> SUFFICES ASSUME IInv, Tree', Result, Extend, UNCHANGED <<literal, mined, rule_ids>> PROVE Result'
  OBVIOUS
<1>1. /\ Evaluating /\ next_rule \in RuleIds /\ next_rule \notin ToSet(parent)
      /\ pc = "evaluate" /\ pc' = "evaluate" /\ next_rule' = next_rule + 1
      /\ UNCHANGED <<fit, rules>>
      /\ pmap' = pmap \/ pmap' = Remembered(NewPrefix, NewLower)
  <2>1. next_rule \in RuleIds
    BY DEF Extend
  <2> QED
    BY <2>1, ExtendIs DEF Evaluating
<1>2. NewLower \in Nat
  BY <1>1, NewInRange
<1>3. \A key \in DOMAIN pmap' : pmap'[key].lower_bound \in Nat
  BY <1>1, <1>2 DEF Remembered, With, Result, OthersRight
<1>4. next_rule' \in 0 .. Len(rules') + 1
  <2>1. Len(rules) \in Nat
    BY DEF Result, RulesRight
  <2> QED
    BY <1>1, <2>1 DEF RuleIds
<1>5. OthersRight'
  BY <1>1, <1>3, <1>4 DEF OthersRight, Unbegun
<1>6. RulesRight' /\ Mining'
  BY <1>1, MinedKept DEF Result
<1> QED
  BY <1>5, <1>6, NodesExtended, BestBettered DEF Result

(* So every step keeps the result right.                                   *)
LEMMA NextResult == IInv /\ IInv' /\ Result /\ [Next]_vars => Result'
<1> SUFFICES ASSUME IInv, IInv', Result, [Next]_vars PROVE Result'
  OBVIOUS
<1>0. Tree'
  BY DEF IInv
<1>1. CASE MineStep /\ UNCHANGED searchVars
  BY <1>1, MiningRight
<1>2. CASE SearchStep /\ UNCHANGED <<literal, mined, rule_ids>>
  BY <1>0, <1>2, BeginRight, ExtendRight, StepKeeps DEF SearchStep
<1>3. CASE UNCHANGED vars
  <2>1. UNCHANGED <<fit, rules, literal, mined, rule_ids, pc, nodes, linked, pmap, min_objective, opt_rulelist,
                    opt_predictions, next_rule>>
    BY <1>3 DEF vars, mineVars, searchVars, treeVars, bestVars
  <2>2. RulesRight' /\ Mining'
    BY <2>1 DEF Result, RulesRight, RuleType, Mining, Literals, Literal, Frequent, Samples
  <2>3. NodesRight'
    BY <1>0, <2>1, NodesKept DEF Result, NodesRight
  <2>4. BestRight'
    BY <2>1 DEF Result, BestRight, RuleIds, Unbegun, ListCost, WrongBy, WrongIn, Decides, Label, NotCaptured, Captured,
       Samples
  <2>5. OthersRight'
    BY <2>1 DEF Result, OthersRight, Unbegun
  <2> QED
    BY <2>2, <2>3, <2>4, <2>5 DEF Result
<1> QED
  BY <1>1, <1>2, <1>3 DEF Next

(* At the start there is no result.                                        *)
LEMMA StartsWithNothing == Init => Result
<1> SUFFICES ASSUME Init PROVE Result
  OBVIOUS
<1>1. /\ fit \in Fits /\ rules = <<>> /\ literal = 1 /\ mined = <<>> /\ rule_ids = <<>> /\ pc = "mine"
      /\ nodes = <<>> /\ pmap = <<>> /\ min_objective = 0 /\ opt_rulelist = <<>> /\ next_rule = 0
  BY DEF Init, MineInit, SearchInit
<1>2. Len(fit.features) \in Nat /\ fit.max_card \in 1 .. Len(fit.features)
  BY <1>1, Features
<1>3. RulesRight
  BY <1>1 DEF RulesRight
<1>4. Mining
  <2>1. 1 \in 1 .. 2 * Len(fit.features) + 1 /\ 0 <= fit.max_card
    BY <1>2
  <2> QED
    BY <1>1, <2>1 DEF Mining
<1>5. NodesRight /\ BestRight /\ OthersRight
  BY <1>1 DEF NodesRight, BestRight, OthersRight, Unbegun, ToSet
<1> QED
  BY <1>3, <1>4, <1>5 DEF Result

-----------------------------------------------------------------------------
(* In every reachable state rules capture what their literals say, the     *)
(* bound of a linked node is what its list gets wrong, and the best        *)
(* objective is the cost of the best list.                                 *)
THEOREM ResultInvariance == Spec => []Result
<1>1. Init => Result
  BY StartsWithNothing
<1>2. IInv /\ IInv' /\ Result /\ [Next]_vars => Result'
  BY NextResult
<1> QED
  BY <1>1, <1>2, Invariance, PTL DEF Spec

(* Bounds and objectives are natural numbers, however many subtrees were   *)
(* dropped num_nodes is not negative, no rule is twice in a list, and      *)
(* every rule of a list is one of those mined.                             *)
THEOREM TypeCorrect == Spec => []TypeOK
<1>1. IInv /\ Accounts /\ Result => TypeOK
  <2> SUFFICES ASSUME IInv, Accounts, Result PROVE TypeOK
    OBVIOUS
  <2>1. num_nodes \in Nat
    <3>1. IsFiniteSet(DOMAIN nodes) /\ Cardinality(DOMAIN nodes) \in Nat
      BY FS_CardinalityType DEF Accounts, Counted
    <3>2. Alone => Cardinality(DOMAIN nodes) # 0
      BY <3>1, FS_EmptySet DEF Alone
    <3> QED
      BY <3>1, <3>2 DEF Accounts, Counted
  <2>2. min_objective \in Nat /\ collected \in Nat
    BY DEF IInv, Tree, Types, Bounds, CollectedFor, Result, BestRight
  <2>3. \A i \in DOMAIN rules : rules[i].captured \subseteq Samples
    BY DEF Result, RulesRight
  <2>4. minority \subseteq Samples /\ linked \subseteq DOMAIN nodes /\ root \notin linked
    BY DEF IInv, Tree, Types
  <2>5. \A q \in DOMAIN nodes : ToSet(q) \subseteq RuleIds /\ IsInjective(q) /\ nodes[q] \in Node
    BY DEF Result, NodesRight, IInv, Memory, NoRuleTwice
  <2> QED
    BY <2>1, <2>2, <2>3, <2>4, <2>5 DEF TypeOK, Result, BestRight, OthersRight
<1> QED
  BY <1>1, Invariance, Accounted, ResultInvariance, PTL

(* The list returned, applied as corels_predict_wrap does, gets wrong what *)
(* the rules of the best list do.                                          *)
LEMMA PredictsAsSearched ==
  ASSUME Result
  PROVE  LET q == opt_rulelist
         IN  /\ Len(Returned) = Len(q) + 1 /\ Len(q) \in Nat
             /\ Misclassified = WrongBy(q, opt_predictions) \cup WrongIn(NotCaptured(q), opt_predictions[Len(q) + 1])
<1> DEFINE q == opt_rulelist
           list == Returned
           Wrong == WrongBy(q, opt_predictions) \cup WrongIn(NotCaptured(q), opt_predictions[Len(q) + 1])
<1>1. Len(q) \in Nat /\ DOMAIN q = 1 .. Len(q) /\ \A i \in 1 .. Len(q) : q[i] \in DOMAIN rules
  <2>1. q \in Seq(Nat) /\ ToSet(q) \subseteq RuleIds /\ DOMAIN rules = RuleIds
    BY DEF Result, BestRight, RulesRight, RuleIds
  <2> QED
    BY <2>1 DEF ToSet
<1> HIDE DEF q
<1>2. /\ Len(list) = Len(q) + 1
      /\ \A i \in 1 .. Len(q) + 1 : list[i].prediction = opt_predictions[i]
      /\ \A i \in 1 .. Len(q) : list[i].antecedents = rules[q[i]].ids
  <2>1. list = [i \in 1 .. Len(q) + 1 |-> [antecedents |-> IF i <= Len(q) THEN rules[q[i]].ids ELSE <<0>>,
                                           prediction |-> opt_predictions[i]]]
    BY DEF Returned, q
  <2> HIDE DEF list
  <2>2. \A i \in 1 .. Len(q) : i \in 1 .. Len(q) + 1 /\ i <= Len(q)
    BY <1>1
  <2> QED
    BY <1>1, <2>1, <2>2
<1> HIDE DEF list
<1>3. ASSUME NEW s \in Samples PROVE s \in Misclassified <=> s \in Wrong
  <2> DEFINE matches(i) == \A a \in ToSet(list[i].antecedents) : a # 0 /\ s \in Literal(a)
             matching == {i \in 1 .. Len(list) - 1 : matches(i)}
  <2>1. \A i \in 1 .. Len(q) : matches(i) <=> s \in rules[q[i]].captured
    BY <1>1, <1>2 DEF Result, RulesRight
  <2> HIDE DEF matches
  <2>2. matching = {i \in 1 .. Len(q) : s \in rules[q[i]].captured}
    <3>1. Len(list) - 1 = Len(q)
      BY <1>1, <1>2
    <3> QED
      BY <2>1, <3>1
  <2>3. Predict(Returned, s) = list[IF matching = {} THEN Len(list) ELSE Min(matching)].prediction
    BY DEF Predict, list, matches
  <2> HIDE DEF matching
  <2>4. s \in Misclassified <=> Predict(Returned, s) # Label(s)
    BY DEF Misclassified, Label
  <2>5. CASE matching = {}
    <3>1. \A i \in 1 .. Len(q) : ~Decides(q, i, s)
      BY <2>2, <2>5 DEF Decides
    <3>2. s \in NotCaptured(q) /\ s \notin WrongBy(q, opt_predictions)
      BY <1>1, <2>2, <2>5, <3>1 DEF NotCaptured, Captured, WrongBy
    <3>3. Predict(Returned, s) = opt_predictions[Len(q) + 1]
      BY <1>1, <1>2, <2>3, <2>5
    <3> QED
      BY <2>4, <3>2, <3>3 DEF WrongIn
  <2>6. CASE matching # {}
    <3> DEFINE m == Min(matching)
    <3>1. matching \subseteq Nat
      BY <1>1, <2>2
    <3>2. m \in matching /\ \A i \in matching : m <= i
      <4>1. \E n \in matching : \A i \in matching : n <= i
        BY <2>6, <3>1, LeastNat
      <4> QED
        BY <4>1 DEF Min
    <3> HIDE DEF m
    <3>3. m \in 1 .. Len(q) /\ s \in rules[q[m]].captured /\ m \in Nat
      BY <2>2, <3>1, <3>2
    <3>4. Decides(q, m, s)
      <4>1. ASSUME NEW j \in 1 .. m - 1 PROVE j \notin matching /\ j \in 1 .. Len(q)
        BY <1>1, <3>2, <3>3, <4>1
      <4> QED
        BY <2>2, <3>3, <4>1 DEF Decides
    <3>5. \A i \in 1 .. Len(q) : Decides(q, i, s) => i = m
      <4>1. ASSUME NEW i \in 1 .. Len(q), Decides(q, i, s) PROVE i = m
        <5>1. i \in matching
          BY <2>2, <4>1 DEF Decides
        <5>2. m <= i /\ i \in Nat
          BY <3>1, <3>2, <5>1
        <5>3. m \notin 1 .. i - 1
          BY <3>3, <4>1 DEF Decides
        <5> QED
          BY <3>3, <5>2, <5>3
      <4> QED
        BY <4>1
    <3>6. s \notin NotCaptured(q) /\ (s \in WrongBy(q, opt_predictions) <=> opt_predictions[m] # Label(s))
      BY <1>1, <3>3, <3>4, <3>5 DEF NotCaptured, Captured, WrongBy
    <3>7. Predict(Returned, s) = opt_predictions[m]
      <4>1. m \in 1 .. Len(q) + 1
        BY <1>1, <3>3
      <4> QED
        BY <1>2, <2>3, <2>6, <4>1 DEF m
    <3> QED
      BY <2>4, <3>6, <3>7 DEF WrongIn
  <2> QED
    BY <2>5, <2>6
<1>4. Misclassified \subseteq Samples /\ Wrong \subseteq Samples
  BY DEF Misclassified, WrongBy, WrongIn, NotCaptured
<1>5. Misclassified = Wrong
  <2> HIDE DEF Wrong
  <2> QED
    BY <1>3, <1>4
<1> QED
  BY <1>1, <1>2, <1>5 DEF q, list

(* What fit returns classifies the samples it was trained on at the        *)
(* objective the search claims, however the fit ends.                      *)
THEOREM ReturnsCertified == Spec => []ReturnsWhatItCertifies
<1>1. Result => ReturnsWhatItCertifies
  <2> SUFFICES ASSUME Result, Finished
               PROVE  Unit * Cardinality(Misclassified) + fit.c * (Len(Returned) - 1) = min_objective
    BY DEF ReturnsWhatItCertifies
  <2>1. min_objective = ListCost(opt_rulelist, opt_predictions)
    BY DEF Finished, Unbegun, Result, BestRight
  <2>2. Len(Returned) - 1 = Len(opt_rulelist)
    BY PredictsAsSearched
  <2> QED
    BY <2>1, <2>2, PredictsAsSearched DEF ListCost
<1> QED
  BY <1>1, ResultInvariance, PTL

-----------------------------------------------------------------------------
(* The combinations that mining goes through                               *)

(* An increasing choice leaves room for what lies between.                 *)
Spaced(c) == \A i, j \in DOMAIN c : i <= j => c[j] - c[i] >= j - i

IsChoice(c, n) == c \in Seq(1 .. n) /\ Spaced(c)

SameBefore(c, d, p) == \A i \in 1 .. p - 1 : c[i] = d[i]

LessAt(c, d, p) == p \in DOMAIN c /\ c[p] < d[p] /\ SameBefore(c, d, p)

(* The order of the combinations: the shorter first, else as words.        *)
Precedes(c, d) == Len(c) < Len(d) \/ (Len(c) = Len(d) /\ \E p \in DOMAIN c : LessAt(c, d, p))

(* Functions with the same values are the same.                            *)
LEMMA SameFunction ==
  ASSUME NEW D, NEW R, NEW f \in [D -> R], NEW g \in [D -> R], \A i \in D : f[i] = g[i]
  PROVE  f = g
OBVIOUS

(* A choice's numbers: each at least its position, none too great for those*)
(* that follow.                                                            *)
LEMMA ChoiceBounds ==
  ASSUME NEW n \in Nat, NEW c, IsChoice(c, n)
  PROVE  /\ Len(c) \in Nat /\ DOMAIN c = 1 .. Len(c)
         /\ \A i \in 1 .. Len(c) : c[i] \in 1 .. n /\ i <= c[i] /\ c[i] <= n - (Len(c) - i)
         /\ \A i, j \in 1 .. Len(c) : i <= j => c[j] - c[i] >= j - i
<1>1. Len(c) \in Nat /\ DOMAIN c = 1 .. Len(c) /\ \A i \in 1 .. Len(c) : c[i] \in 1 .. n
  BY DEF IsChoice
<1>2. \A i, j \in 1 .. Len(c) : i <= j => c[j] - c[i] >= j - i
  BY <1>1 DEF IsChoice, Spaced
<1>3. ASSUME NEW i \in 1 .. Len(c) PROVE i <= c[i] /\ c[i] <= n - (Len(c) - i)
  <2>1. 1 \in 1 .. Len(c) /\ Len(c) \in 1 .. Len(c) /\ 1 <= i /\ i <= Len(c)
    BY <1>1
  <2>2. c[i] - c[1] >= i - 1 /\ c[Len(c)] - c[i] >= Len(c) - i
    BY <1>2, <2>1
  <2>3. c[1] \in 1 .. n /\ c[i] \in 1 .. n /\ c[Len(c)] \in 1 .. n
    BY <1>1, <2>1
  <2> QED
    BY <1>1, <2>2, <2>3
<1> QED
  BY <1>1, <1>2, <1>3

(* Two of one length are the same or one precedes the other.               *)
LEMMA Compared ==
  ASSUME NEW n \in Nat, NEW c, IsChoice(c, n), NEW d, IsChoice(d, n), Len(c) = Len(d)
  PROVE  c = d \/ \E p \in 1 .. Len(c) : LessAt(c, d, p) \/ LessAt(d, c, p)
<1> DEFINE P == {p \in 1 .. Len(c) : c[p] # d[p]}
<1>1. /\ Len(c) \in Nat /\ DOMAIN c = 1 .. Len(c) /\ DOMAIN d = 1 .. Len(c)
      /\ \A i \in 1 .. Len(c) : c[i] \in Nat /\ d[i] \in Nat
      /\ c \in Seq(1 .. n) /\ d \in Seq(1 .. n)
  BY ChoiceBounds DEF IsChoice
<1>2. CASE P = {}
  <2>1. \A i \in 1 .. Len(c) : c[i] = d[i]
    BY <1>2
  <2>2. c \in [1 .. Len(c) -> 1 .. n] /\ d \in [1 .. Len(c) -> 1 .. n]
    BY <1>1
  <2> QED
    BY <2>1, <2>2, SameFunction
<1>3. CASE P # {}
  <2>1. P \in SUBSET Nat
    BY <1>1
  <2>2. PICK p \in P : \A q \in P : p <= q
    BY <1>3, <2>1, LeastNat
  <2>3. p \in 1 .. Len(c) /\ c[p] # d[p] /\ p \in Nat
    BY <1>1
  <2>4. ASSUME NEW i \in 1 .. p - 1 PROVE c[i] = d[i]
    <3>1. i \in 1 .. Len(c) /\ ~(p <= i)
      BY <1>1, <2>3
    <3> QED
      BY <2>2, <3>1
  <2>5. c[p] < d[p] \/ d[p] < c[p]
    BY <1>1, <2>3
  <2> QED
    BY <1>1, <2>3, <2>4, <2>5 DEF LessAt, SameBefore
<1> QED
  BY <1>2, <1>3

(* The order is one.                                                       *)
LEMMA InOrder ==
  ASSUME NEW n \in Nat, NEW c, IsChoice(c, n), NEW d, IsChoice(d, n), NEW e, IsChoice(e, n)
  PROVE  /\ c = d \/ Precedes(c, d) \/ Precedes(d, c)
         /\ ~(Precedes(c, d) /\ Precedes(d, c))
         /\ Precedes(c, d) /\ Precedes(d, e) => Precedes(c, e)
<1>1. /\ Len(c) \in Nat /\ DOMAIN c = 1 .. Len(c) /\ Len(d) \in Nat /\ DOMAIN d = 1 .. Len(d)
      /\ Len(e) \in Nat /\ DOMAIN e = 1 .. Len(e)
      /\ \A i \in 1 .. Len(c) : c[i] \in Nat
      /\ \A i \in 1 .. Len(d) : d[i] \in Nat
      /\ \A i \in 1 .. Len(e) : e[i] \in Nat
  BY ChoiceBounds
<1>0. Len(c) \in Int /\ Len(d) \in Int /\ Len(e) \in Int
  BY <1>1
<1>2. c = d \/ Precedes(c, d) \/ Precedes(d, c)
  <2>1. Len(c) = Len(d) \/ Len(c) < Len(d) \/ Len(d) < Len(c)
    BY <1>0
  <2>2. CASE Len(c) = Len(d)
    <3>1. c = d \/ \E p \in 1 .. Len(c) : LessAt(c, d, p) \/ LessAt(d, c, p)
      BY <2>2, Compared, Zenon
    <3>2. DOMAIN c = 1 .. Len(c) /\ DOMAIN d = 1 .. Len(c)
      BY <1>1, <2>2, Zenon
    <3> QED
      BY <2>2, <3>1, <3>2, Zenon DEF Precedes
  <2> QED
    BY <2>1, <2>2, Zenon DEF Precedes
<1>3. ASSUME Precedes(c, d), Precedes(d, c) PROVE FALSE
  <2>1. Len(c) = Len(d)
    BY <1>0, <1>3 DEF Precedes
  <2>2. PICK p \in 1 .. Len(c) : LessAt(c, d, p)
    BY <1>1, <1>3, <2>1 DEF Precedes
  <2>3. PICK q \in 1 .. Len(c) : LessAt(d, c, q)
    BY <1>1, <1>3, <2>1 DEF Precedes
  <2>4. c[p] < d[p] /\ d[q] < c[q] /\ c[p] \in Nat /\ d[p] \in Nat /\ c[q] \in Nat /\ d[q] \in Nat
    BY <1>1, <2>1, <2>2, <2>3 DEF LessAt
  <2>5. ~(q < p) /\ ~(p < q)
    <3>1. q < p => q \in 1 .. p - 1
      BY <1>1
    <3>2. p < q => p \in 1 .. q - 1
      BY <1>1
    <3>3. (q \in 1 .. p - 1 => c[q] = d[q]) /\ (p \in 1 .. q - 1 => d[p] = c[p])
      BY <2>2, <2>3 DEF LessAt, SameBefore
    <3> QED
      BY <2>4, <3>1, <3>2, <3>3
  <2>6. p = q
    BY <1>1, <2>5
  <2> QED
    BY <2>4, <2>6
<1>4. ASSUME Precedes(c, d), Precedes(d, e) PROVE Precedes(c, e)
  <2>1. CASE Len(c) < Len(e)
    BY <2>1 DEF Precedes
  <2>2. CASE ~(Len(c) < Len(e))
    <3>1. Len(c) = Len(d) /\ Len(d) = Len(e)
      <4>1. /\ Len(c) < Len(d) \/ Len(c) = Len(d)
            /\ Len(d) < Len(e) \/ Len(d) = Len(e)
        BY <1>4, Zenon DEF Precedes
      <4> QED
        BY <1>0, <2>2, <4>1
    <3>2. PICK p \in 1 .. Len(c) : LessAt(c, d, p)
      BY <1>1, <1>4, <3>1 DEF Precedes
    <3>3. PICK q \in 1 .. Len(c) : LessAt(d, e, q)
      BY <1>1, <1>4, <3>1 DEF Precedes
    <3>4. /\ c[p] < d[p] /\ d[q] < e[q]
          /\ \A i \in 1 .. p - 1 : c[i] = d[i]
          /\ \A i \in 1 .. q - 1 : d[i] = e[i]
      BY <3>2, <3>3 DEF LessAt, SameBefore
    <3>5. /\ p \in Nat /\ q \in Nat
          /\ c[p] \in Nat /\ d[p] \in Nat /\ e[p] \in Nat /\ c[q] \in Nat /\ d[q] \in Nat /\ e[q] \in Nat
      BY <1>1, <3>1
    <3>6. CASE p < q
      <4>1. p \in 1 .. q - 1 /\ \A i \in 1 .. p - 1 : i \in 1 .. q - 1
        BY <3>5, <3>6, <1>1
      <4>2. c[p] < e[p] /\ \A i \in 1 .. p - 1 : c[i] = e[i]
        BY <3>4, <4>1
      <4> QED
        BY <1>1, <3>1, <4>2 DEF Precedes, LessAt, SameBefore
    <3>7. CASE q < p
      <4>1. q \in 1 .. p - 1 /\ \A i \in 1 .. q - 1 : i \in 1 .. p - 1
        BY <3>5, <3>7, <1>1
      <4>2. c[q] < e[q] /\ \A i \in 1 .. q - 1 : c[i] = e[i]
        BY <3>4, <4>1
      <4> QED
        BY <1>1, <3>1, <4>2 DEF Precedes, LessAt, SameBefore
    <3>8. CASE p = q
      <4>1. c[p] < e[p] /\ \A i \in 1 .. p - 1 : c[i] = e[i]
        BY <3>4, <3>5, <3>8
      <4> QED
        BY <1>1, <3>1, <4>1 DEF Precedes, LessAt, SameBefore
    <3> QED
      BY <3>5, <3>6, <3>7, <3>8
  <2> QED
    BY <2>1, <2>2
<1> QED
  BY <1>2, <1>3, <1>4

(* Choices of the same numbers are the same.                               *)
LEMMA SameNumbers ==
  ASSUME NEW n \in Nat, NEW c, IsChoice(c, n), NEW d, IsChoice(d, n), ToSet(c) = ToSet(d)
  PROVE  c = d
<1>1. /\ Len(c) \in Nat /\ DOMAIN c = 1 .. Len(c) /\ Len(d) \in Nat /\ DOMAIN d = 1 .. Len(d)
      /\ \A i \in 1 .. Len(c) : c[i] \in Nat
      /\ \A i \in 1 .. Len(d) : d[i] \in Nat
      /\ c \in Seq(1 .. n) /\ d \in Seq(1 .. n)
  BY ChoiceBounds DEF IsChoice
<1>2. ToSet(c) = {c[i] : i \in 1 .. Len(c)} /\ ToSet(d) = {d[i] : i \in 1 .. Len(d)}
  BY <1>1 DEF ToSet
<1> DEFINE P == {p \in Nat : p \in 1 .. Len(c) /\ p \in 1 .. Len(d) /\ c[p] # d[p]}
<1>3. \A i, j \in 1 .. Len(c) : i <= j => c[j] - c[i] >= j - i
  BY ChoiceBounds
<1>4. \A i, j \in 1 .. Len(d) : i <= j => d[j] - d[i] >= j - i
  BY ChoiceBounds
<1>5. P = {}
  <2> SUFFICES ASSUME P # {} PROVE FALSE
    OBVIOUS
  <2>1. PICK p \in P : \A q \in P : p <= q
    BY LeastNat
  <2>2. p \in Nat /\ p \in 1 .. Len(c) /\ p \in 1 .. Len(d) /\ c[p] # d[p]
    OBVIOUS
  <2>3. ASSUME NEW i \in 1 .. p - 1 PROVE i \in 1 .. Len(c) /\ i \in 1 .. Len(d) /\ c[i] = d[i]
    <3>1. i \in Nat /\ i \in 1 .. Len(c) /\ i \in 1 .. Len(d) /\ ~(p <= i)
      BY <1>1, <2>2
    <3> QED
      BY <2>1, <3>1
  <2>4. PICK j \in 1 .. Len(d) : c[p] = d[j]
    BY <1>2, <2>2
  <2>5. PICK k \in 1 .. Len(c) : d[p] = c[k]
    BY <1>2, <2>2
  <2>6. ~(j < p)
    <3> SUFFICES ASSUME j < p PROVE FALSE
      OBVIOUS
    <3>1. j \in 1 .. p - 1
      BY <1>1, <2>2
    <3>2. c[j] = d[j] /\ j \in 1 .. Len(c)
      BY <2>3, <3>1
    <3>3. c[p] - c[j] >= p - j
      BY <1>3, <2>2, <3>2
    <3> QED
      BY <1>1, <2>2, <2>4, <3>2, <3>3
  <2>7. ~(k < p)
    <3> SUFFICES ASSUME k < p PROVE FALSE
      OBVIOUS
    <3>1. k \in 1 .. p - 1
      BY <1>1, <2>2
    <3>2. c[k] = d[k] /\ k \in 1 .. Len(d)
      BY <2>3, <3>1
    <3>3. d[p] - d[k] >= p - k
      BY <1>4, <2>2, <3>2
    <3> QED
      BY <1>1, <2>2, <2>5, <3>2, <3>3
  <2>8. d[j] - d[p] >= j - p /\ c[k] - c[p] >= k - p
    BY <1>1, <1>3, <1>4, <2>2, <2>6, <2>7
  <2>9. /\ j \in Int /\ k \in Int /\ p \in Int
        /\ c[p] \in Int /\ d[p] \in Int /\ c[k] \in Int /\ d[j] \in Int
    BY <1>1, <2>2
  <2> HIDE DEF P
  <2>10. d[j] >= d[p]
    BY <2>6, <2>8, <2>9
  <2>11. c[k] >= c[p]
    BY <2>7, <2>8, <2>9
  <2> QED
    BY <2>2, <2>4, <2>5, <2>9, <2>10, <2>11
<1>6. \A p \in Nat : p \in 1 .. Len(c) /\ p \in 1 .. Len(d) => c[p] = d[p]
  BY <1>5
<1>7. Len(d) <= Len(c)
  <2> SUFFICES ASSUME Len(c) < Len(d) PROVE FALSE
    BY <1>1
  <2>1. Len(d) \in 1 .. Len(d)
    BY <1>1
  <2>2. PICK j \in 1 .. Len(c) : d[Len(d)] = c[j]
    BY <1>2, <2>1
  <2>3. j \in 1 .. Len(d) /\ j \in Nat /\ j < Len(d)
    BY <1>1
  <2>4. d[j] = c[j] /\ d[Len(d)] - d[j] >= Len(d) - j
    BY <1>4, <1>6, <2>1, <2>3
  <2> QED
    BY <1>1, <2>2, <2>3, <2>4
<1>8. Len(c) <= Len(d)
  <2> SUFFICES ASSUME Len(d) < Len(c) PROVE FALSE
    BY <1>1
  <2>1. Len(c) \in 1 .. Len(c)
    BY <1>1
  <2>2. PICK j \in 1 .. Len(d) : c[Len(c)] = d[j]
    BY <1>2, <2>1
  <2>3. j \in 1 .. Len(c) /\ j \in Nat /\ j < Len(c)
    BY <1>1
  <2>4. d[j] = c[j] /\ c[Len(c)] - c[j] >= Len(c) - j
    BY <1>3, <1>6, <2>1, <2>3
  <2> QED
    BY <1>1, <2>2, <2>3, <2>4
<1>9. Len(c) = Len(d)
  <2>1. Len(c) \in Int /\ Len(d) \in Int
    BY <1>1
  <2> QED
    BY <1>7, <1>8, <2>1
<1>10. \A p \in 1 .. Len(c) : c[p] = d[p]
  BY <1>1, <1>6, <1>9
<1>11. c \in [1 .. Len(c) -> 1 .. n] /\ d \in [1 .. Len(c) -> 1 .. n]
  BY <1>1, <1>9
<1> QED
  BY <1>10, <1>11, SameFunction

(* Any of the numbers can be chosen.                                       *)
LEMMA Enumerated ==
  ASSUME NEW n \in Nat, NEW T \in SUBSET (1 .. n)
  PROVE  \E c : IsChoice(c, n) /\ ToSet(c) = T
<1> DEFINE Bad == {S \in SUBSET (1 .. n) : ~\E c : IsChoice(c, n) /\ ToSet(c) = S}
<1>1. SUFFICES ASSUME Bad # {} PROVE FALSE
  OBVIOUS
<1>2. \A S \in Bad : IsFiniteSet(S)
  <2>1. IsFiniteSet(1 .. n)
    BY FS_Interval
  <2> QED
    BY <2>1, FS_Subset
<1>3. PICK S \in Bad : \A R \in Bad : ~(R \subseteq S /\ R # S)
  <2> HIDE DEF Bad
  <2> QED
    BY <1>1, <1>2, SmallestSet
<1>4. S \subseteq 1 .. n /\ ~\E c : IsChoice(c, n) /\ ToSet(c) = S
  OBVIOUS
<1>5. S # {}
  <2>1. <<>> \in Seq(1 .. n) /\ Spaced(<<>>) /\ ToSet(<<>>) = {}
    BY DEF Spaced, ToSet
  <2> QED
    BY <1>4, <2>1 DEF IsChoice
<1>6. PICK m \in S : \A y \in S : y <= m
  BY <1>4, <1>5, GreatestUpTo
<1>7. S \ {m} \notin Bad
  BY <1>3
<1>8. PICK c : IsChoice(c, n) /\ ToSet(c) = S \ {m}
  BY <1>4, <1>7
<1> HIDE DEF Bad
<1>9. /\ Len(c) \in Nat /\ DOMAIN c = 1 .. Len(c) /\ c \in Seq(1 .. n)
      /\ \A i \in 1 .. Len(c) : c[i] \in 1 .. n
      /\ \A i, j \in 1 .. Len(c) : i <= j => c[j] - c[i] >= j - i
  BY <1>8, ChoiceBounds DEF IsChoice
<1> DEFINE e == Append(c, m)
<1>10. /\ e \in Seq(1 .. n) /\ Len(e) = Len(c) + 1 /\ DOMAIN e = 1 .. Len(c) + 1
       /\ \A i \in 1 .. Len(c) : e[i] = c[i]
       /\ e[Len(c) + 1] = m
  <2>1. m \in 1 .. n
    BY <1>4
  <2> QED
    BY <1>9, <2>1, AppendProperties
<1> HIDE DEF e
<1>11. \A i \in 1 .. Len(c) : c[i] \in S /\ c[i] < m
  <2>1. \A i \in 1 .. Len(c) : c[i] \in S \ {m}
    BY <1>8, <1>9 DEF ToSet
  <2>2. \A x \in S : x \in Int
    BY <1>4
  <2> QED
    BY <1>6, <2>1, <2>2
<1>12. Spaced(e)
  <2> SUFFICES ASSUME NEW i \in 1 .. Len(c) + 1, NEW j \in 1 .. Len(c) + 1, i <= j
               PROVE  e[j] - e[i] >= j - i
    BY <1>10 DEF Spaced
  <2>1. CASE j \in 1 .. Len(c)
    <3>1. i \in 1 .. Len(c)
      BY <1>9, <2>1
    <3> QED
      BY <1>9, <1>10, <2>1, <3>1
  <2>2. CASE i = Len(c) + 1
    <3>1. j = i /\ e[i] = m /\ m \in Nat
      BY <1>4, <1>9, <1>10, <2>2
    <3> QED
      BY <1>9, <3>1
  <2>3. CASE j = Len(c) + 1 /\ i \in 1 .. Len(c)
    <3>1. Len(c) \in 1 .. Len(c) /\ i <= Len(c)
      BY <1>9, <2>3
    <3>2. c[Len(c)] - c[i] >= Len(c) - i /\ c[Len(c)] < m /\ e[i] = c[i] /\ e[j] = m
      BY <1>9, <1>10, <1>11, <2>3, <3>1
    <3>3. c[Len(c)] \in Int /\ c[i] \in Int /\ m \in Int
      BY <1>4, <1>9, <2>3, <3>1
    <3>4. i \in Int
      BY <2>3
    <3> DEFINE k == Len(c)
               ck == c[Len(c)]
               ci == c[i]
    <3>5. e[j] - e[i] = m - ci /\ ck - ci >= k - i /\ ck < m /\ j = k + 1 /\ ck \in Int /\ ci \in Int /\ k \in Int
      BY <1>9, <2>3, <3>2, <3>3
    <3> HIDE DEF k, ck, ci
    <3> QED
      BY <3>3, <3>4, <3>5
  <2> QED
    BY <1>9, <2>1, <2>2, <2>3
<1>13. ToSet(e) = S
  <2>1. ToSet(e) = {e[i] : i \in 1 .. Len(c) + 1} /\ ToSet(c) = {c[i] : i \in 1 .. Len(c)}
    BY <1>9, <1>10 DEF ToSet
  <2>2. ASSUME NEW x \in ToSet(e) PROVE x \in S
    <3>1. PICK i \in 1 .. Len(c) + 1 : x = e[i]
      BY <2>1
    <3>2. i \in 1 .. Len(c) \/ i = Len(c) + 1
      BY <1>9
    <3> QED
      BY <1>10, <1>11, <3>1, <3>2
  <2>3. ASSUME NEW x \in S PROVE x \in ToSet(e)
    <3>1. CASE x = m
      <4>1. Len(c) + 1 \in 1 .. Len(c) + 1
        BY <1>9
      <4> QED
        BY <1>10, <2>1, <3>1, <4>1
    <3>2. CASE x # m
      <4>1. PICK i \in 1 .. Len(c) : x = c[i]
        BY <1>8, <2>1, <3>2
      <4>2. i \in 1 .. Len(c) + 1
        BY <1>9
      <4> QED
        BY <1>10, <2>1, <4>1, <4>2
    <3> QED
      BY <3>1, <3>2
  <2> QED
    BY <2>2, <2>3
<1> QED
  BY <1>4, <1>10, <1>12, <1>13 DEF IsChoice

(* A number of a choice may be raised where another choice has more.       *)
LEMMA Raised ==
  ASSUME NEW n \in Nat, NEW ids, IsChoice(ids, n), NEW c, IsChoice(c, n), Len(c) = Len(ids),
         NEW q, LessAt(ids, c, q)
  PROVE  q \in 1 .. Len(ids) /\ ids[q] < n - (Len(ids) - q)
<1>1. /\ DOMAIN ids = 1 .. Len(ids) /\ Len(ids) \in Nat
      /\ \A i \in 1 .. Len(ids) : ids[i] \in 1 .. n
  BY ChoiceBounds
<1>2. q \in 1 .. Len(ids) /\ ids[q] < c[q]
  BY <1>1 DEF LessAt
<1>3. q \in 1 .. Len(c)
  BY <1>2
<1>4. c[q] \in 1 .. n /\ c[q] <= n - (Len(c) - q)
  BY <1>3, ChoiceBounds
<1>5. c[q] <= n - (Len(ids) - q)
  BY <1>4
<1>6. c[q] \in Int /\ ids[q] \in Int /\ Len(ids) \in Int /\ q \in Int
  BY <1>1, <1>2, <1>4
<1> QED
  BY <1>2, <1>5, <1>6

(* A choice none of whose numbers may be raised is the last of its length. *)
LEMMA NoneBeyond ==
  ASSUME NEW n \in Nat, NEW ids, IsChoice(ids, n),
         \A q \in 1 .. Len(ids) : ~(ids[q] < n - (Len(ids) - q)),
         NEW c, IsChoice(c, n), Len(c) <= Len(ids)
  PROVE  c = ids \/ Precedes(c, ids)
<1>1. Len(c) \in Int /\ Len(ids) \in Int /\ DOMAIN c = 1 .. Len(c)
  BY ChoiceBounds
<1>2. CASE Len(c) < Len(ids)
  BY <1>2 DEF Precedes
<1>3. CASE Len(c) = Len(ids)
  <2>1. c = ids \/ \E p \in 1 .. Len(c) : LessAt(c, ids, p) \/ LessAt(ids, c, p)
    BY <1>3, Compared
  <2>2. \A p \in 1 .. Len(c) : ~LessAt(ids, c, p)
    BY <1>3, Raised
  <2> QED
    BY <1>1, <1>3, <2>1, <2>2, Zenon DEF Precedes
<1> QED
  BY <1>1, <1>2, <1>3

(* Raising the last number that may be, and those after it to the least    *)
(* they may be, gives the next choice of as many numbers.                  *)
LEMMA RaisedLast ==
  ASSUME NEW n \in Nat, NEW ids, IsChoice(ids, n),
         NEW p \in 1 .. Len(ids), ids[p] < n - (Len(ids) - p),
         \A q \in 1 .. Len(ids) : ids[q] < n - (Len(ids) - q) => q <= p,
         NEW next, next = [q \in 1 .. Len(ids) |-> IF q < p THEN ids[q] ELSE ids[p] + 1 + (q - p)]
  PROVE  /\ IsChoice(next, n) /\ Len(next) = Len(ids)
         /\ \A c : IsChoice(c, n) => (Precedes(c, next) <=> Precedes(c, ids) \/ c = ids)
<1> DEFINE r == Len(ids)
<1>1. /\ r \in Nat /\ DOMAIN ids = 1 .. r /\ p \in Nat
      /\ \A i \in 1 .. r : ids[i] \in 1 .. n /\ ids[i] \in Nat
      /\ \A i, j \in 1 .. r : i <= j => ids[j] - ids[i] >= j - i
  BY ChoiceBounds
<1>2. \A q \in 1 .. r : next[q] = IF q < p THEN ids[q] ELSE ids[p] + 1 + (q - p)
  OBVIOUS
<1>3. next \in [1 .. r -> 1 .. n]
  <2>1. ASSUME NEW q \in 1 .. r PROVE next[q] \in 1 .. n
    <3>1. ~(q < p) => ids[p] + 1 + (q - p) \in 1 .. n
      BY <1>1
    <3> QED
      BY <1>1, <1>2, <3>1
  <2> QED
    BY <2>1
<1>4. next \in Seq(1 .. n) /\ Len(next) = r /\ DOMAIN next = 1 .. r
  BY <1>1, <1>3
<1>5. Spaced(next)
  <2> SUFFICES ASSUME NEW i \in 1 .. r, NEW j \in 1 .. r, i <= j PROVE next[j] - next[i] >= j - i
    BY <1>4 DEF Spaced
  <2>1. ids[i] \in Int /\ ids[j] \in Int /\ ids[p] \in Int /\ i \in Int /\ j \in Int /\ p \in Int
    BY <1>1
  <2>2. ids[j] - ids[i] >= j - i
    BY <1>1
  <2>3. i <= p => ids[p] - ids[i] >= p - i
    BY <1>1
  <2>4. /\ next[i] = IF i < p THEN ids[i] ELSE ids[p] + 1 + (i - p)
        /\ next[j] = IF j < p THEN ids[j] ELSE ids[p] + 1 + (j - p)
    BY <1>2
  <2>5. CASE j < p
    BY <2>1, <2>2, <2>4, <2>5
  <2>6. CASE ~(j < p) /\ i < p
    <3>1. next[j] = ids[p] + 1 + (j - p) /\ next[i] = ids[i]
      BY <2>4, <2>6
    <3>2. ids[p] - ids[i] >= p - i
      BY <2>1, <2>3, <2>6
    <3> QED
      BY ONLY <2>1, <3>1, <3>2
  <2>7. CASE ~(i < p)
    <3>1. ~(j < p)
      BY <2>1, <2>7
    <3>2. next[j] = ids[p] + 1 + (j - p) /\ next[i] = ids[p] + 1 + (i - p)
      BY <2>4, <2>7, <3>1
    <3> QED
      BY ONLY <2>1, <3>2
  <2> QED
    BY <2>5, <2>6, <2>7
<1>6. IsChoice(next, n)
  BY <1>4, <1>5 DEF IsChoice
<1>7. Precedes(ids, next)
  <2>1. ids[p] < next[p]
    BY <1>1, <1>2
  <2>2. \A i \in 1 .. p - 1 : next[i] = ids[i]
    BY <1>1, <1>2
  <2>3. LessAt(ids, next, p) /\ p \in DOMAIN ids
    BY <1>1, <2>1, <2>2 DEF LessAt, SameBefore
  <2> QED
    BY <1>4, <2>3, Zenon DEF Precedes
<1>8. ASSUME NEW c, IsChoice(c, n), Precedes(c, ids) \/ c = ids PROVE Precedes(c, next)
  BY <1>6, <1>7, <1>8, InOrder
<1>9. ASSUME NEW c, IsChoice(c, n), Precedes(c, next) PROVE Precedes(c, ids) \/ c = ids
  <2> SUFFICES ASSUME Precedes(ids, c) PROVE FALSE
    BY <1>9, InOrder
  <2>1. Len(c) \in Int /\ DOMAIN c = 1 .. Len(c)
    BY <1>9, ChoiceBounds
  <2>2. Len(c) = r
    <3>1. Len(c) < r \/ Len(c) = r
      BY <1>4, <1>9, Zenon DEF Precedes
    <3>2. r < Len(c) \/ r = Len(c)
      BY Zenon DEF Precedes
    <3>3. r \in Int
      BY <1>1
    <3> QED
      BY <2>1, <3>1, <3>2, <3>3
  <2>3. PICK q \in 1 .. r : LessAt(ids, c, q)
    BY <1>1, <2>1, <2>2 DEF Precedes
  <2>4. ids[q] < c[q] /\ \A i \in 1 .. q - 1 : ids[i] = c[i]
    BY <2>3 DEF LessAt, SameBefore
  <2>5. q <= p /\ q \in Nat
    <3>1. ids[q] < n - (Len(ids) - q)
      BY <1>9, <2>2, <2>3, Raised
    <3> QED
      BY <1>1, <3>1
  <2>6. CASE q < p
    <3>1. next[q] < c[q]
      BY <1>1, <1>2, <2>4, <2>6
    <3>2. \A i \in 1 .. q - 1 : next[i] = c[i]
      BY <1>1, <1>2, <2>4, <2>5, <2>6
    <3>3. LessAt(next, c, q) /\ q \in DOMAIN next
      BY <1>4, <3>1, <3>2 DEF LessAt, SameBefore
    <3>4. Precedes(next, c)
      BY <1>4, <2>2, <3>3, Zenon DEF Precedes
    <3> QED
      BY <1>6, <1>9, <3>4, InOrder
  <2>7. CASE q = p
    <3>1. PICK s \in 1 .. r : LessAt(c, next, s)
      <4>1. ~(Len(c) < Len(next)) /\ DOMAIN c = 1 .. r
        BY <1>1, <1>4, <2>1, <2>2
      <4> QED
        BY <1>9, <4>1, Zenon DEF Precedes
    <3>2. c[s] < next[s] /\ s \in Nat
      BY <1>1, <3>1 DEF LessAt
    <3>3. s \in 1 .. Len(c) /\ p \in 1 .. Len(c)
      BY <2>2
    <3>4. c[s] \in Int /\ c[p] \in Int
      <4>1. c[s] \in 1 .. n /\ c[p] \in 1 .. n
        BY <1>9, <3>3, ChoiceBounds
      <4> QED
        BY <4>1
    <3>5. p <= s => c[s] - c[p] >= s - p
      BY <1>9, <3>3, ChoiceBounds
    <3>6. ids[p] \in Int /\ ids[p] < c[p] /\ p \in Int /\ s \in Int
      BY <1>1, <2>4, <2>7
    <3>7. CASE s < p
      <4>1. s \in 1 .. q - 1
        BY <1>1, <2>7, <3>7
      <4>2. c[s] = ids[s] /\ next[s] = ids[s]
        BY <1>2, <2>4, <3>7, <4>1
      <4> QED
        BY <3>2, <3>4, <4>2
    <3>8. CASE ~(s < p)
      <4>1. next[s] = ids[p] + 1 + (s - p)
        BY <1>2, <3>8
      <4> QED
        <5>1. c[s] - c[p] >= s - p
          BY <3>5, <3>6, <3>8
        <5>2. c[s] < ids[p] + 1 + (s - p)
          BY <3>2, <4>1
        <5> QED
          BY ONLY <3>4, <3>6, <5>1, <5>2
    <3> QED
      BY <3>7, <3>8
  <2> QED
    BY <1>1, <2>5, <2>6, <2>7
<1> QED
  BY <1>4, <1>6, <1>8, <1>9

(* The first combination of some length is preceded by the shorter ones.   *)
LEMMA FirstIsFirst ==
  ASSUME NEW n \in Nat, NEW card \in Nat, card <= n
  PROVE  /\ IsChoice(FirstCombination(card), n) /\ Len(FirstCombination(card)) = card
         /\ \A c : IsChoice(c, n) => (Precedes(c, FirstCombination(card)) <=> Len(c) < card)
<1> DEFINE first == FirstCombination(card)
<1>1. first \in Seq(1 .. n) /\ Len(first) = card
  BY CombinationRight
<1>2. DOMAIN first = 1 .. card /\ \A i \in 1 .. card : first[i] = i
  BY DEF FirstCombination
<1>3. IsChoice(first, n)
  BY <1>1, <1>2 DEF IsChoice, Spaced
<1>4. ASSUME NEW c, IsChoice(c, n), Precedes(c, first) PROVE Len(c) < card
  <2> SUFFICES ASSUME ~(Len(c) < card) PROVE FALSE
    OBVIOUS
  <2>1. PICK p \in DOMAIN c : Len(c) = card /\ LessAt(c, first, p)
    BY <1>1, <1>4, Zenon DEF Precedes
  <2>2. p \in 1 .. Len(c) /\ c[p] < first[p]
    BY <1>4, <2>1, ChoiceBounds DEF LessAt
  <2>3. p <= c[p] /\ c[p] \in 1 .. n
    BY <1>4, <2>2, ChoiceBounds
  <2>4. first[p] = p /\ p \in Int
    BY <1>2, <2>1, <2>2
  <2> QED
    BY <2>2, <2>3, <2>4
<1>5. ASSUME NEW c, IsChoice(c, n), Len(c) < card PROVE Precedes(c, first)
  BY <1>1, <1>5, Zenon DEF Precedes
<1> QED
  BY <1>1, <1>3, <1>4, <1>5

(* getnextperm goes through the combinations in order and leaves none out. *)
LEMMA NextInOrder ==
  ASSUME fit \in Fits, NEW n \in Nat, fit.max_card <= n,
         NEW ids, IsChoice(ids, n), Len(ids) \in 1 .. fit.max_card
  PROVE  LET next == NextCombination(n, ids)
         IN  /\ IsChoice(next, n)
             /\ next = <<>> \/ Len(next) \in 1 .. fit.max_card
             /\ \A c : IsChoice(c, n) /\ Len(c) <= fit.max_card =>
                  ((next = <<>> \/ Precedes(c, next)) <=> (Precedes(c, ids) \/ c = ids))
<1> DEFINE r == Len(ids)
           movable == {p \in 1 .. r : ids[p] < n - (r - p)}
           p == CHOOSE q \in movable : \A m \in movable : m <= q
           raised == [q \in 1 .. r |-> IF q < p THEN ids[q] ELSE ids[p] + 1 + (q - p)]
           next == NextCombination(n, ids)
<1>1. r \in Nat /\ r >= 1 /\ fit.max_card \in Nat /\ r <= fit.max_card
  BY Features, ChoiceBounds
<1>2. next = IF movable # {} THEN raised
             ELSE IF r < fit.max_card THEN FirstCombination(r + 1)
             ELSE <<>>
  BY DEF NextCombination
<1> HIDE DEF next
<1>3. CASE movable # {}
  <2>1. p \in movable /\ \A m \in movable : m <= p
    <3> HIDE DEF movable
    <3>1. \E q \in movable : \A m \in movable : m <= q
      <4>1. movable \subseteq 1 .. r
        BY DEF movable
      <4> QED
        BY <1>1, <1>3, <4>1, GreatestUpTo
    <3> QED
      BY <3>1
  <2> HIDE DEF p
  <2>2. /\ p \in 1 .. Len(ids) /\ ids[p] < n - (Len(ids) - p)
        /\ \A q \in 1 .. Len(ids) : ids[q] < n - (Len(ids) - q) => q <= p
    BY <2>1
  <2> HIDE DEF movable
  <2>3. next = raised
    BY <1>2, <1>3
  <2>4. /\ IsChoice(next, n) /\ Len(next) = r
        /\ \A c : IsChoice(c, n) => (Precedes(c, next) <=> Precedes(c, ids) \/ c = ids)
    BY <2>2, <2>3, RaisedLast
  <2>5. next # <<>> /\ Len(next) \in 1 .. fit.max_card
    <3>1. Len(next) # Len(<<>>)
      BY <1>1, <2>4
    <3> QED
      BY <1>1, <2>4, <3>1
  <2> QED
    BY <2>4, <2>5 DEF next
<1>4. CASE movable = {}
  <2>1. \A q \in 1 .. Len(ids) : ~(ids[q] < n - (Len(ids) - q))
    BY <1>4
  <2> HIDE DEF movable
  <2>2. ASSUME NEW c, IsChoice(c, n), Len(c) <= r PROVE Precedes(c, ids) \/ c = ids
    BY <2>1, <2>2, NoneBeyond
  <2>3. ASSUME NEW c, IsChoice(c, n), Precedes(c, ids) \/ c = ids PROVE Len(c) <= r
    <3>1. Len(c) < r \/ Len(c) = r
      BY <2>3, Zenon DEF Precedes
    <3>2. Len(c) \in Int
      BY <2>3, ChoiceBounds
    <3> QED
      BY <1>1, <3>1, <3>2
  <2>4. CASE r < fit.max_card
    <3>1. next = FirstCombination(r + 1)
      BY <1>2, <1>4, <2>4
    <3>2. r + 1 \in Nat /\ r + 1 <= n /\ r + 1 \in 1 .. fit.max_card
      BY <1>1, <2>4
    <3>3. /\ IsChoice(next, n) /\ Len(next) = r + 1
          /\ \A c : IsChoice(c, n) => (Precedes(c, next) <=> Len(c) < r + 1)
      BY <3>1, <3>2, FirstIsFirst
    <3>4. next # <<>>
      <4>1. Len(next) # Len(<<>>)
        BY <1>1, <3>3
      <4> QED
        BY <4>1
    <3>5. ASSUME NEW c, IsChoice(c, n) PROVE Len(c) < r + 1 <=> Len(c) <= r
      <4>1. Len(c) \in Int
        BY <3>5, ChoiceBounds
      <4> QED
        BY <1>1, <4>1
    <3> QED
      BY <2>2, <2>3, <3>2, <3>3, <3>4, <3>5 DEF next
  <2>5. CASE ~(r < fit.max_card)
    <3>1. next = <<>> /\ r = fit.max_card
      BY <1>1, <1>2, <1>4, <2>5
    <3>2. IsChoice(<<>>, n)
      BY DEF IsChoice, Spaced
    <3> QED
      BY <2>2, <3>1, <3>2 DEF next
  <2> QED
    BY <2>4, <2>5
<1> QED
  BY <1>3, <1>4

-----------------------------------------------------------------------------
(* What mining finds                                                       *)

(* The literals that a combination of mined ones conjoins.                 *)
Chosen(c) == {mined[c[i]] : i \in DOMAIN c}

Wanted(ls) ==
  LET captured == {s \in Samples : \A l \in ls : s \in Literal(l)}
  IN  Frequent(captured) /\ Selective(captured)

IsCombination(c) == IsChoice(c, Len(mined)) /\ Len(c) \in 1 .. fit.max_card

LookedAt(c) == rule_ids = <<>> \/ Precedes(c, rule_ids)

RulesOf == [i \in DOMAIN rules |-> ToSet(rules[i].ids)]

Found == {RulesOf[i] : i \in DOMAIN rules}

MinedOnce ==
  /\ IsInjective(mined)
  /\ \A k \in DOMAIN mined : \E i \in 1 .. literal - 1 : mined[k] = Literals[i]

SinglesFound == \A ls : ls \in Found <=> \E k \in DOMAIN mined : ls = {mined[k]} /\ Wanted(ls)

LookedAtFound == \A ls : ls \in Found <=> \E c : IsCombination(c) /\ LookedAt(c) /\ ls = Chosen(c) /\ Wanted(ls)

(* Rules are found once, and found are those looked at that are wanted: the*)
(* single literals first, then the combinations in their order.            *)
EachOnce ==
  pc \in {"mine", "combine", "begin"} =>
    /\ MinedOnce /\ IsInjective(RulesOf)
    /\ rule_ids = <<>> \/ IsCombination(rule_ids)
    /\ pc = "mine" => SinglesFound
    /\ pc # "mine" => LookedAtFound /\ literal \notin DOMAIN Literals
    /\ pc = "begin" => rule_ids = <<>>

(* Combinations that conjoin the same literals are the same.               *)
LEMMA ChosenSame ==
  ASSUME Mining, MinedOnce, NEW c, IsChoice(c, Len(mined)), NEW d, IsChoice(d, Len(mined)), Chosen(c) = Chosen(d)
  PROVE  c = d
<1>1. Len(mined) \in Nat /\ DOMAIN mined = 1 .. Len(mined)
  BY DEF Mining
<1>2. \A i \in DOMAIN c : c[i] \in DOMAIN mined
  BY <1>1, ChoiceBounds
<1>3. \A i \in DOMAIN d : d[i] \in DOMAIN mined
  BY <1>1, ChoiceBounds
<1>4. \A k, l \in DOMAIN mined : mined[k] = mined[l] => k = l
  BY DEF MinedOnce, IsInjective
<1>5. ToSet(c) = ToSet(d)
  <2>1. ASSUME NEW x \in ToSet(c) PROVE x \in ToSet(d)
    <3>1. PICK i \in DOMAIN c : x = c[i]
      BY DEF ToSet
    <3>2. mined[x] \in Chosen(d)
      BY <3>1 DEF Chosen
    <3>3. PICK j \in DOMAIN d : mined[x] = mined[d[j]]
      BY <3>2 DEF Chosen
    <3>4. x = d[j]
      BY <1>2, <1>3, <1>4, <3>1, <3>3
    <3> QED
      BY <3>4 DEF ToSet
  <2>2. ASSUME NEW x \in ToSet(d) PROVE x \in ToSet(c)
    <3>1. PICK i \in DOMAIN d : x = d[i]
      BY DEF ToSet
    <3>2. mined[x] \in Chosen(c)
      BY <3>1 DEF Chosen
    <3>3. PICK j \in DOMAIN c : mined[x] = mined[c[j]]
      BY <3>2 DEF Chosen
    <3>4. x = c[j]
      BY <1>2, <1>3, <1>4, <3>1, <3>3
    <3> QED
      BY <3>4 DEF ToSet
  <2> QED
    BY <2>1, <2>2
<1> QED
  BY <1>1, <1>5, SameNumbers

(* A combination conjoins as many literals as it has numbers.              *)
LEMMA ChosenCount ==
  ASSUME Mining, MinedOnce, NEW c, IsChoice(c, Len(mined))
  PROVE  Cardinality(Chosen(c)) = Len(c)
<1>1. /\ Len(mined) \in Nat /\ DOMAIN mined = 1 .. Len(mined)
      /\ Len(c) \in Nat /\ DOMAIN c = 1 .. Len(c)
      /\ \A i \in 1 .. Len(c) : c[i] \in DOMAIN mined
      /\ \A i, j \in 1 .. Len(c) : i <= j => c[j] - c[i] >= j - i
  <2>1. Len(mined) \in Nat /\ DOMAIN mined = 1 .. Len(mined)
    BY DEF Mining
  <2> QED
    BY <2>1, ChoiceBounds
<1> DEFINE g == [i \in 1 .. Len(c) |-> mined[c[i]]]
<1>2. \A i, j \in 1 .. Len(c) : c[i] = c[j] => i = j
  <2> SUFFICES ASSUME NEW i \in 1 .. Len(c), NEW j \in 1 .. Len(c), c[i] = c[j], i < j PROVE FALSE
    BY <1>1
  <2>1. c[j] - c[i] >= j - i /\ c[i] \in Int
    BY <1>1
  <2> QED
    BY <2>1
<1>3. \A k, l \in DOMAIN mined : mined[k] = mined[l] => k = l
  BY DEF MinedOnce, IsInjective
<1>4. \A i, j \in 1 .. Len(c) : g[i] = g[j] => i = j
  BY <1>1, <1>2, <1>3
<1>5. Chosen(c) = {g[i] : i \in 1 .. Len(c)}
  BY <1>1 DEF Chosen
<1>6. g \in [1 .. Len(c) -> Chosen(c)] /\ DOMAIN g = 1 .. Len(c)
  BY <1>5
<1> HIDE DEF g
<1>7. g \in Surjection(1 .. Len(c), Chosen(c))
  BY <1>5, <1>6 DEF Surjection
<1>8. g \in Injection(1 .. Len(c), Chosen(c))
  BY <1>4, <1>6 DEF Injection, IsInjective
<1>9. IsFiniteSet(1 .. Len(c)) /\ Cardinality(1 .. Len(c)) = Len(c)
  <2>1. Len(c) \in Int /\ 1 \in Int
    BY <1>1
  <2>2. IsFiniteSet(1 .. Len(c)) /\ Cardinality(1 .. Len(c)) = IF 1 > Len(c) THEN 0 ELSE Len(c) - 1 + 1
    BY <2>1, FS_Interval
  <2> QED
    BY <1>1, <2>2
<1> QED
  BY <1>7, <1>8, <1>9, FS_Surjection

(* A rule found for the first time.                                        *)
LEMMA FoundMore ==
  ASSUME RulesRight, IsInjective(RulesOf), NEW r \in RuleType, rules' = Append(rules, r),
         ToSet(r.ids) \notin Found
  PROVE  IsInjective(RulesOf)' /\ Found' = Found \cup {ToSet(r.ids)}
<1> DEFINE n == Len(rules)
<1>1. n \in Nat /\ DOMAIN rules = 1 .. n
  BY DEF RulesRight
<1>2. /\ DOMAIN rules' = 1 .. n + 1
      /\ \A i \in 1 .. n : rules'[i] = rules[i]
      /\ rules'[n + 1] = r
  BY AppendProperties DEF RulesRight
<1>3. \A i \in 1 .. n : RulesOf[i] = ToSet(rules[i].ids) /\ RulesOf[i] \in Found
  BY <1>1 DEF RulesOf, Found
<1>4. DOMAIN RulesOf' = 1 .. n + 1 /\ \A i \in 1 .. n + 1 : RulesOf'[i] = ToSet(rules'[i].ids)
  BY <1>2 DEF RulesOf
<1> HIDE DEF n
<1>5. (\A i \in 1 .. n : RulesOf'[i] = RulesOf[i]) /\ RulesOf'[n + 1] = ToSet(r.ids)
  BY <1>1, <1>2, <1>3, <1>4
<1>6. \A i \in 1 .. n + 1 : i \in 1 .. n \/ i = n + 1
  BY <1>1
<1>7. \A i, j \in 1 .. n : RulesOf[i] = RulesOf[j] => i = j
  BY <1>1 DEF IsInjective, RulesOf
<1>8. \A i, j \in 1 .. n + 1 : RulesOf'[i] = RulesOf'[j] => i = j
  BY <1>3, <1>5, <1>6, <1>7
<1>9. IsInjective(RulesOf)'
  BY <1>4, <1>8 DEF IsInjective
<1>10. Found' = {RulesOf'[i] : i \in 1 .. n + 1} /\ Found = {RulesOf[i] : i \in 1 .. n}
  BY <1>1, <1>2 DEF Found
<1>11. n + 1 \in 1 .. n + 1 /\ 1 .. n \subseteq 1 .. n + 1
  BY <1>1
<1>12. Found' = Found \cup {ToSet(r.ids)}
  <2>1. ASSUME NEW x \in Found' PROVE x \in Found \cup {ToSet(r.ids)}
    <3>1. PICK i \in 1 .. n + 1 : x = RulesOf'[i]
      BY <1>10
    <3> QED
      BY <1>5, <1>6, <1>10, <3>1
  <2>2. ASSUME NEW x \in Found \cup {ToSet(r.ids)} PROVE x \in Found'
    <3>1. CASE x \in Found
      <4>1. PICK i \in 1 .. n : x = RulesOf[i]
        BY <1>10, <3>1
      <4> QED
        BY <1>5, <1>10, <1>11, <4>1
    <3>2. CASE x = ToSet(r.ids)
      BY <1>5, <1>10, <1>11, <3>2
    <3> QED
      BY <2>2, <3>1, <3>2
  <2> QED
    BY <2>1, <2>2
<1> QED
  BY <1>9, <1>12

(* What is wanted depends on the arguments alone.                          *)
LEMMA SameWanted ==
  ASSUME fit' = fit
  PROVE  /\ \A ls : Wanted(ls)' <=> Wanted(ls)
         /\ Literals' = Literals
BY DEF Wanted, Frequent, Selective, Samples, Literal, Literals

(* The combinations of one are the mined literals.                         *)
LEMMA OfOne ==
  ASSUME fit \in Fits, Mining, NEW ls
  PROVE  (\E c : IsCombination(c) /\ Len(c) = 1 /\ ls = Chosen(c) /\ Wanted(ls))
         <=> (\E k \in DOMAIN mined : ls = {mined[k]} /\ Wanted(ls))
<1>1. Len(mined) \in Nat /\ DOMAIN mined = 1 .. Len(mined) /\ 1 \in 1 .. fit.max_card
  BY Features DEF Mining
<1>2. ASSUME NEW c, IsCombination(c), Len(c) = 1 PROVE \E k \in DOMAIN mined : Chosen(c) = {mined[k]}
  <2>1. DOMAIN c = 1 .. 1 /\ c[1] \in DOMAIN mined
    BY <1>1, <1>2, ChoiceBounds DEF IsCombination
  <2>2. Chosen(c) = {mined[c[1]]}
    BY <2>1 DEF Chosen
  <2> QED
    BY <2>1, <2>2
<1>3. ASSUME NEW k \in DOMAIN mined PROVE \E c : IsCombination(c) /\ Len(c) = 1 /\ {mined[k]} = Chosen(c)
  <2> DEFINE c == <<k>>
  <2>1. c \in Seq(1 .. Len(mined)) /\ Len(c) = 1 /\ DOMAIN c = 1 .. 1 /\ c[1] = k
    BY <1>1
  <2> HIDE DEF c
  <2>2. IsCombination(c)
    <3>1. \A i, j \in DOMAIN c : c[j] - c[i] = 0 /\ j - i = 0
      BY <1>1, <2>1
    <3> QED
      BY <1>1, <2>1, <3>1 DEF IsCombination, IsChoice, Spaced
  <2>3. Chosen(c) = {mined[k]}
    BY <2>1 DEF Chosen
  <2> QED
    BY <2>1, <2>2, <2>3
<1> QED
  BY <1>2, <1>3

(* A literal more: it was not mined, so that it makes a new rule.          *)
LEMMA LiteralOnce == fit \in Fits /\ RulesRight /\ Mining /\ EachOnce /\ MineLiteral => EachOnce'
<1> SUFFICES ASSUME fit \in Fits, RulesRight, Mining, EachOnce, MineLiteral PROVE EachOnce'
  OBVIOUS
<1> DEFINE l == Literals[literal]
<1>1. /\ pc = "mine" /\ literal \in DOMAIN Literals
      /\ mined' = IF Frequent(Literal(l)) THEN Append(mined, l) ELSE mined
      /\ rules' = IF Frequent(Literal(l)) /\ Selective(Literal(l))
                  THEN Append(rules, [ids |-> <<l>>, captured |-> Literal(l)])
                  ELSE rules
      /\ literal' = literal + 1
      /\ UNCHANGED <<fit, rule_ids, pc>>
  BY DEF MineLiteral
<1>2. MinedOnce /\ IsInjective(RulesOf) /\ SinglesFound /\ (rule_ids = <<>> \/ IsCombination(rule_ids))
  BY <1>1 DEF EachOnce
<1>3. /\ literal \in 1 .. 2 * Len(fit.features) /\ Len(fit.features) \in Nat
      /\ l \in Int \ {0} /\ Literal(l) \subseteq Samples
  BY <1>1, Features
<1>4. /\ mined \in Seq(Int \ {0}) /\ Len(mined) \in Nat /\ DOMAIN mined = 1 .. Len(mined)
  BY DEF Mining
<1>5. Literals' = Literals /\ \A ls : Wanted(ls)' <=> Wanted(ls)
  BY <1>1, SameWanted
<1>6. Wanted({l}) <=> Frequent(Literal(l)) /\ Selective(Literal(l))
  <2>1. {s \in Samples : \A a \in {l} : s \in Literal(a)} = Literal(l)
    BY <1>3
  <2> QED
    BY <2>1 DEF Wanted
<1>7. \A k \in DOMAIN mined : mined[k] # l
  <2> SUFFICES ASSUME NEW k \in DOMAIN mined, mined[k] = l PROVE FALSE
    OBVIOUS
  <2>1. PICK i \in 1 .. literal - 1 : Literals[i] = l
    BY <1>2 DEF MinedOnce
  <2>2. \A j \in 1 .. 2 * Len(fit.features) :
          Literals[j] = IF j <= Len(fit.features) THEN j ELSE Len(fit.features) - j
    BY DEF Literals
  <2> DEFINE F == Len(fit.features)
             j == literal
  <2>3. F \in Nat /\ i \in 1 .. 2 * F /\ j \in 1 .. 2 * F /\ i # j
    BY <1>3
  <2>4. Literals[i] = (IF i <= F THEN i ELSE F - i) /\ Literals[j] = (IF j <= F THEN j ELSE F - j)
    BY <2>2, <2>3
  <2>5. (IF i <= F THEN i ELSE F - i) = (IF j <= F THEN j ELSE F - j)
    BY <2>1, <2>4
  <2> HIDE DEF F, j
  <2> QED
    BY ONLY <2>3, <2>5
<1>8. rule_ids' = <<>> \/ IsCombination(rule_ids)'
  <2>1. CASE rule_ids = <<>>
    BY <1>1, <2>1
  <2>2. CASE IsCombination(rule_ids)
    <3>1. Len(mined') \in Nat /\ Len(mined) <= Len(mined')
      BY <1>1, <1>3, <1>4
    <3>2. rule_ids \in Seq(1 .. Len(mined')) /\ Spaced(rule_ids)
      <4>1. rule_ids \in Seq(1 .. Len(mined)) /\ Spaced(rule_ids)
        BY <2>2 DEF IsCombination, IsChoice
      <4>2. rule_ids \in [1 .. Len(rule_ids) -> 1 .. Len(mined')] /\ Len(rule_ids) \in Nat
        <5>1. \A x \in 1 .. Len(mined) : x \in 1 .. Len(mined')
          BY <1>4, <3>1
        <5> QED
          BY <4>1, <5>1
      <4> QED
        BY <4>1, <4>2
    <3> QED
      BY <1>1, <2>2, <3>2 DEF IsCombination, IsChoice, Spaced
  <2> QED
    BY <1>2, <2>1, <2>2
<1>9. MinedOnce' /\ (SinglesFound' <=> \A ls : ls \in Found' <=> ls \in Found \/ (ls = {l} /\ Wanted(ls)))
  <2>1. \A i \in 1 .. literal - 1 : i \in 1 .. literal' - 1
    BY <1>1, <1>3
  <2>2. literal \in 1 .. literal' - 1
    BY <1>1, <1>3
  <2>3. CASE Frequent(Literal(l))
    <3>1. /\ DOMAIN mined' = 1 .. Len(mined) + 1
          /\ \A i \in 1 .. Len(mined) : mined'[i] = mined[i]
          /\ mined'[Len(mined) + 1] = l
      <4>1. mined' = Append(mined, l)
        BY <1>1, <2>3
      <4> QED
        BY <1>3, <1>4, <4>1, AppendProperties
    <3>2. \A i \in DOMAIN mined' : i \in DOMAIN mined \/ i = Len(mined) + 1
      BY <1>4, <3>1
    <3>3. /\ \A i \in DOMAIN mined : i \in DOMAIN mined' /\ mined'[i] = mined[i]
          /\ Len(mined) + 1 \in DOMAIN mined'
      BY <1>4, <3>1
    <3>4. IsInjective(mined)'
      BY <1>2, <1>7, <3>1, <3>2, <3>3 DEF MinedOnce, IsInjective
    <3>5. ASSUME NEW k \in DOMAIN mined' PROVE \E i \in 1 .. literal' - 1 : mined'[k] = Literals[i]
      <4>1. CASE k \in DOMAIN mined
        BY <1>2, <2>1, <3>3, <4>1 DEF MinedOnce
      <4>2. CASE k = Len(mined) + 1
        BY <2>2, <3>1, <4>2
      <4> QED
        BY <3>2, <4>1, <4>2
    <3>6. MinedOnce'
      BY <1>5, <3>4, <3>5 DEF MinedOnce
    <3>7. ASSUME NEW ls
          PROVE  (\E k \in DOMAIN mined' : ls = {mined'[k]} /\ Wanted(ls))
                 <=> ls \in Found \/ (ls = {l} /\ Wanted(ls))
      <4>1. ls \in Found <=> \E k \in DOMAIN mined : ls = {mined[k]} /\ Wanted(ls)
        BY <1>2 DEF SinglesFound
      <4> QED
        BY <3>1, <3>2, <3>3, <4>1
    <3> QED
      BY <1>5, <3>6, <3>7 DEF SinglesFound
  <2>4. CASE ~Frequent(Literal(l))
    <3>1. mined' = mined /\ ~Wanted({l})
      BY <1>1, <1>6, <2>4
    <3>2. MinedOnce'
      BY <1>2, <1>5, <2>1, <3>1 DEF MinedOnce
    <3>3. ASSUME NEW ls
          PROVE  (\E k \in DOMAIN mined' : ls = {mined'[k]} /\ Wanted(ls))
                 <=> ls \in Found \/ (ls = {l} /\ Wanted(ls))
      BY <1>2, <3>1 DEF SinglesFound
    <3> QED
      BY <1>5, <3>2, <3>3 DEF SinglesFound
  <2> QED
    BY <2>3, <2>4
<1>10. IsInjective(RulesOf)' /\ \A ls : ls \in Found' <=> ls \in Found \/ (ls = {l} /\ Wanted(ls))
  <2>1. CASE Wanted({l})
    <3> DEFINE r == [ids |-> <<l>>, captured |-> Literal(l)]
    <3>1. rules' = Append(rules, r)
      BY <1>1, <1>6, <2>1
    <3>2. r \in RuleType /\ ToSet(r.ids) = {l}
      BY <1>3 DEF RuleType, ToSet
    <3> HIDE DEF r
    <3>3. {l} \notin Found
      <4> SUFFICES ASSUME {l} \in Found PROVE FALSE
        OBVIOUS
      <4>1. PICK k \in DOMAIN mined : {l} = {mined[k]}
        BY <1>2 DEF SinglesFound
      <4>2. l = mined[k]
        BY <4>1
      <4> QED
        BY <1>7, <4>2
    <3>4. IsInjective(RulesOf)' /\ Found' = Found \cup {{l}}
      BY <1>2, <3>1, <3>2, <3>3, FoundMore
    <3> QED
      BY <2>1, <3>4
  <2>2. CASE ~Wanted({l})
    <3>1. rules' = rules
      BY <1>1, <1>6, <2>2
    <3>2. RulesOf' = RulesOf /\ Found' = Found
      BY <3>1 DEF RulesOf, Found
    <3> QED
      BY <1>2, <2>2, <3>2 DEF IsInjective
  <2> QED
    BY <2>1, <2>2
<1> QED
  BY <1>1, <1>8, <1>9, <1>10 DEF EachOnce

(* With the literals through, the combinations of one have been looked at. *)
LEMMA LiteralsOnce == fit \in Fits /\ Mining /\ EachOnce /\ MinedLiterals => EachOnce'
<1> SUFFICES ASSUME fit \in Fits, Mining, EachOnce, MinedLiterals PROVE EachOnce'
  OBVIOUS
<1>1. /\ pc = "mine" /\ literal \notin DOMAIN Literals
      /\ rule_ids' = IF fit.max_card = 1 THEN <<>> ELSE FirstCombination(2)
      /\ pc' = "combine"
      /\ UNCHANGED <<fit, rules, literal, mined>>
  BY DEF MinedLiterals
<1>2. MinedOnce /\ IsInjective(RulesOf) /\ SinglesFound
  BY <1>1 DEF EachOnce
<1>3. Literals' = Literals /\ \A ls : Wanted(ls)' <=> Wanted(ls)
  BY <1>1, SameWanted
<1>4. /\ MinedOnce' /\ IsInjective(RulesOf)' /\ Found' = Found
      /\ \A c : Chosen(c)' = Chosen(c) /\ (IsCombination(c)' <=> IsCombination(c))
  BY <1>1, <1>2, <1>3 DEF MinedOnce, IsInjective, RulesOf, Found, Chosen, IsCombination, IsChoice, Spaced
<1>5. Len(mined) \in Nat /\ fit.max_card \in Nat \ {0} /\ fit.max_card <= Len(mined)
  <2>1. Len(mined) \in Nat
    BY DEF Mining
  <2>2. fit.max_card \in 1 .. Len(fit.features) /\ Len(fit.features) \in Nat
    BY Features
  <2>3. fit.max_card <= Len(mined)
    BY <1>1, EnoughMined
  <2> QED
    BY <2>1, <2>2, <2>3
<1>6. /\ rule_ids' = <<>> \/ IsCombination(rule_ids')
      /\ \A c : IsCombination(c) => (LookedAt(c)' <=> Len(c) = 1)
  <2>1. CASE fit.max_card = 1
    BY <1>1, <2>1 DEF LookedAt, IsCombination
  <2>2. CASE fit.max_card # 1
    <3>1. 2 \in Nat /\ 2 <= Len(mined) /\ 2 \in 1 .. fit.max_card
      BY <1>5, <2>2
    <3>2. /\ IsChoice(rule_ids', Len(mined)) /\ Len(rule_ids') = 2
          /\ \A c : IsChoice(c, Len(mined)) => (Precedes(c, rule_ids') <=> Len(c) < 2)
      BY <1>1, <1>5, <2>2, <3>1, FirstIsFirst
    <3>3. rule_ids' # <<>>
      <4>1. Len(rule_ids') # Len(<<>>)
        BY <3>2
      <4> QED
        BY <4>1
    <3>4. \A c : LookedAt(c)' <=> Precedes(c, rule_ids')
      BY <3>3 DEF LookedAt, Precedes, LessAt, SameBefore
    <3>5. ASSUME NEW c, IsCombination(c) PROVE Len(c) < 2 <=> Len(c) = 1
      <4>1. Len(c) \in 1 .. fit.max_card
        BY <3>5 DEF IsCombination
      <4>2. Len(c) \in Int /\ 1 <= Len(c)
        BY <1>5, <4>1
      <4> DEFINE k == Len(c)
      <4> HIDE DEF k
      <4>3. k \in Int /\ 1 <= k
        BY <4>2 DEF k
      <4>4. k < 2 <=> k = 1
        BY ONLY <4>3
      <4> QED
        BY <4>4 DEF k
    <3> QED
      BY <3>1, <3>2, <3>4, <3>5 DEF IsCombination
  <2> QED
    BY <2>1, <2>2
<1>7. LookedAtFound'
  <2>1. ASSUME NEW ls
        PROVE  ls \in Found <=> \E c : IsCombination(c) /\ LookedAt(c)' /\ ls = Chosen(c) /\ Wanted(ls)
    BY <1>2, <1>6, OfOne DEF SinglesFound
  <2> QED
    BY <1>3, <1>4, <2>1 DEF LookedAtFound
<1>8. rule_ids' = <<>> \/ IsCombination(rule_ids)'
  BY <1>1, <1>6 DEF IsCombination, IsChoice, Spaced
<1> QED
  BY <1>1, <1>3, <1>4, <1>7, <1>8 DEF EachOnce

(* A combination more: no other conjoins the same literals.                *)
LEMMA CombinationOnce == fit \in Fits /\ RulesRight /\ Mining /\ EachOnce /\ MineCombination => EachOnce'
<1> SUFFICES ASSUME fit \in Fits, RulesRight, Mining, EachOnce, MineCombination PROVE EachOnce'
  OBVIOUS
<1> DEFINE ids == [i \in DOMAIN rule_ids |-> mined[rule_ids[i]]]
           captured == {s \in Samples : \A i \in DOMAIN ids : s \in Literal(ids[i])}
           ls0 == Chosen(rule_ids)
           n == Len(mined)
<1>1. /\ pc = "combine" /\ rule_ids # <<>> /\ rule_ids' = NextCombination(n, rule_ids)
      /\ rules' = IF Frequent(captured) /\ Selective(captured)
                  THEN Append(rules, [ids |-> ids, captured |-> captured])
                  ELSE rules
      /\ UNCHANGED <<fit, literal, mined, pc>>
  BY DEF MineCombination
<1>2. /\ MinedOnce /\ IsInjective(RulesOf) /\ IsCombination(rule_ids) /\ LookedAtFound
      /\ literal \notin DOMAIN Literals
  BY <1>1 DEF EachOnce
<1>3. Literals' = Literals /\ \A ls : Wanted(ls)' <=> Wanted(ls)
  BY <1>1, SameWanted
<1>4. /\ mined \in Seq(Int \ {0}) /\ n \in Nat /\ DOMAIN mined = 1 .. n
      /\ rule_ids \in Seq(1 .. n) /\ Len(rule_ids) \in Nat /\ DOMAIN rule_ids = 1 .. Len(rule_ids)
      /\ fit.max_card <= n /\ IsChoice(rule_ids, n) /\ Len(rule_ids) \in 1 .. fit.max_card
  BY <1>1, <1>2 DEF Mining, IsCombination
<1> HIDE DEF n
<1>5. ids \in Seq(Int \ {0}) /\ ToSet(ids) = ls0
  <2>1. \A i \in 1 .. Len(rule_ids) : mined[rule_ids[i]] \in Int \ {0}
    BY <1>4
  <2>2. ids \in [1 .. Len(rule_ids) -> Int \ {0}]
    BY <1>4, <2>1
  <2>3. ToSet(ids) = ls0
    BY DEF ToSet, Chosen
  <2> HIDE DEF ids, ls0
  <2>4. ids \in Seq(Int \ {0})
    <3>1. Len(rule_ids) \in Nat
      BY <1>4
    <3> QED
      BY ONLY <2>2, <3>1
  <2> QED
    BY <2>3, <2>4
<1>6. Wanted(ls0) <=> Frequent(captured) /\ Selective(captured)
  <2>1. captured = {s \in Samples : \A l \in ls0 : s \in Literal(l)}
    BY DEF Chosen
  <2> HIDE DEF captured, ls0
  <2> QED
    BY <2>1 DEF Wanted
<1>7. /\ MinedOnce'
      /\ \A c : Chosen(c)' = Chosen(c) /\ (IsCombination(c)' <=> IsCombination(c))
  BY <1>1, <1>2, <1>3 DEF MinedOnce, IsInjective, Chosen, IsCombination, IsChoice, Spaced
<1>8. /\ rule_ids' = <<>> \/ IsCombination(rule_ids')
      /\ \A c : IsCombination(c) => (LookedAt(c)' <=> LookedAt(c) \/ c = rule_ids)
  <2>1. /\ IsChoice(rule_ids', n)
        /\ rule_ids' = <<>> \/ Len(rule_ids') \in 1 .. fit.max_card
        /\ \A c : IsChoice(c, n) /\ Len(c) <= fit.max_card =>
             ((rule_ids' = <<>> \/ Precedes(c, rule_ids')) <=> (Precedes(c, rule_ids) \/ c = rule_ids))
    BY <1>1, <1>4, NextInOrder
  <2>2. \A c : LookedAt(c)' <=> rule_ids' = <<>> \/ Precedes(c, rule_ids')
    BY DEF LookedAt, Precedes, LessAt, SameBefore
  <2>3. \A c : LookedAt(c) <=> Precedes(c, rule_ids)
    BY <1>1 DEF LookedAt
  <2>4. \A c : IsCombination(c) <=> IsChoice(c, n) /\ Len(c) \in 1 .. fit.max_card
    BY DEF IsCombination, n
  <2>5. fit.max_card \in Nat /\ \A k \in 1 .. fit.max_card : k <= fit.max_card
    BY Features
  <2> QED
    BY <2>1, <2>2, <2>3, <2>4, <2>5
<1>9. rule_ids' = <<>> \/ IsCombination(rule_ids)'
  BY <1>1, <1>8 DEF IsCombination, IsChoice, Spaced
<1>10. IsInjective(RulesOf)' /\ \A ls : ls \in Found' <=> ls \in Found \/ (ls = ls0 /\ Wanted(ls))
  <2>1. CASE Wanted(ls0)
    <3> DEFINE r == [ids |-> ids, captured |-> captured]
    <3>1. rules' = Append(rules, r)
      BY <1>1, <1>6, <2>1
    <3>2. r \in RuleType /\ ToSet(r.ids) = ls0
      <4>1. ids \in Seq(Int) /\ captured \in SUBSET Samples
        BY <1>5
      <4> HIDE DEF ids, captured, ls0
      <4> QED
        BY <1>5, <4>1 DEF RuleType
    <3> HIDE DEF r, ls0, ids, captured
    <3>3. ls0 \notin Found
      <4> SUFFICES ASSUME ls0 \in Found PROVE FALSE
        OBVIOUS
      <4>1. PICK c : IsCombination(c) /\ LookedAt(c) /\ ls0 = Chosen(c)
        BY <1>2 DEF LookedAtFound
      <4>2. c = rule_ids
        BY <1>2, <4>1, ChosenSame DEF ls0, IsCombination
      <4>3. Precedes(rule_ids, rule_ids)
        BY <1>1, <4>1, <4>2 DEF LookedAt
      <4> QED
        BY <1>4, <4>3, InOrder
    <3>4. IsInjective(RulesOf)' /\ Found' = Found \cup {ls0}
      BY <1>2, <3>1, <3>2, <3>3, FoundMore
    <3> QED
      BY <2>1, <3>4
  <2>2. CASE ~Wanted(ls0)
    <3>1. rules' = rules
      BY <1>1, <1>6, <2>2
    <3>2. RulesOf' = RulesOf /\ Found' = Found
      BY <3>1 DEF RulesOf, Found
    <3> QED
      BY <1>2, <2>2, <3>2 DEF IsInjective
  <2> QED
    BY <2>1, <2>2
<1>11. LookedAtFound'
  <2> HIDE DEF ids, captured
  <2>1. ASSUME NEW ls
        PROVE  ls \in Found' <=> \E c : IsCombination(c) /\ LookedAt(c)' /\ ls = Chosen(c) /\ Wanted(ls)
    <3>1. ls \in Found <=> \E c : IsCombination(c) /\ LookedAt(c) /\ ls = Chosen(c) /\ Wanted(ls)
      BY <1>2 DEF LookedAtFound
    <3> QED
      BY <1>2, <1>8, <1>10, <3>1
  <2> QED
    BY <1>3, <1>7, <2>1 DEF LookedAtFound
<1> HIDE DEF ids, captured, ls0
<1> QED
  BY <1>1, <1>2, <1>3, <1>7, <1>9, <1>10, <1>11 DEF EachOnce

(* The other steps find no rule.                                           *)
LEMMA OthersOnce ==
  ASSUME EachOnce,
         \/ FindMinority
         \/ SearchStep
         \/ UNCHANGED <<fit, rules, literal, mined, rule_ids, pc>>
  PROVE  EachOnce'
<1>1. CASE SearchStep
  BY <1>1 DEF EachOnce, SearchStep, Begin, Select, Discard, Extend, Skip, Continue, Done, PruneUp, Collect, End
<1>2. CASE FindMinority \/ UNCHANGED <<fit, rules, literal, mined, rule_ids, pc>>
  <2>1. /\ UNCHANGED <<fit, rules, literal, mined, rule_ids>>
        /\ pc' = pc \/ (pc = "combine" /\ pc' = "begin" /\ rule_ids = <<>>)
    BY <1>2 DEF FindMinority
  <2>2. Literals' = Literals /\ \A ls : Wanted(ls)' <=> Wanted(ls)
    BY <2>1, SameWanted
  <2>3. /\ MinedOnce' <=> MinedOnce
        /\ IsInjective(RulesOf)' <=> IsInjective(RulesOf)
        /\ Found' = Found
        /\ \A c : Chosen(c)' = Chosen(c) /\ (IsCombination(c)' <=> IsCombination(c)) /\ (LookedAt(c)' <=> LookedAt(c))
    BY <2>1, <2>2 DEF MinedOnce, IsInjective, RulesOf, Found, Chosen, IsCombination, IsChoice, Spaced, LookedAt, Precedes, LessAt, SameBefore
  <2>4. (SinglesFound' <=> SinglesFound) /\ (LookedAtFound' <=> LookedAtFound)
    BY <2>1, <2>2, <2>3 DEF SinglesFound, LookedAtFound
  <2>5. IsCombination(rule_ids)' <=> IsCombination(rule_ids)
    BY <2>1 DEF IsCombination, IsChoice, Spaced
  <2> QED
    BY <2>1, <2>2, <2>3, <2>4, <2>5 DEF EachOnce
<1> QED
  BY <1>1, <1>2

(* So, when mining is over, what was found is what there is to find.       *)
LEMMA AllFound ==
  ASSUME fit \in Fits, Mining, EachOnce
  PROVE  MinesEachRuleOnce
<1>1. ToSet(rule_ids) \subseteq DOMAIN mined
  BY DEF Mining, ToSet
<1>2. ASSUME pc = "begin" PROVE ToSet(RulesOf) = Conjunctions /\ IsInjective(RulesOf)
  <2> DEFINE literals == ToSet(Literals)
  <2>1. MinedOnce /\ IsInjective(RulesOf) /\ LookedAtFound /\ literal \notin DOMAIN Literals /\ rule_ids = <<>>
    BY <1>2 DEF EachOnce
  <2>2. ToSet(RulesOf) = Found
    BY DEF ToSet, Found, RulesOf
  <2>3. /\ Len(mined) \in Nat /\ DOMAIN mined = 1 .. Len(mined)
        /\ Len(fit.features) \in Nat /\ DOMAIN Literals = 1 .. 2 * Len(fit.features)
        /\ literal = 2 * Len(fit.features) + 1
    <3>1. /\ Len(mined) \in Nat /\ DOMAIN mined = 1 .. Len(mined)
          /\ literal \in 1 .. 2 * Len(fit.features) + 1
      BY DEF Mining
    <3>2. Len(fit.features) \in Nat /\ DOMAIN Literals = 1 .. 2 * Len(fit.features)
      BY Features
    <3> QED
      BY <2>1, <3>1, <3>2
  <2>4. \A ls : ls \in Conjunctions <=>
          ls \subseteq literals /\ Cardinality(ls) \in 1 .. fit.max_card /\ Wanted(ls)
    BY DEF Conjunctions, kSubset, Wanted
  <2>5. \A k \in DOMAIN mined : mined[k] \in literals
    <3> SUFFICES ASSUME NEW k \in DOMAIN mined PROVE mined[k] \in literals
      OBVIOUS
    <3>1. PICK i \in 1 .. literal - 1 : mined[k] = Literals[i]
      BY <2>1 DEF MinedOnce
    <3>2. i \in DOMAIN Literals
      BY <2>3
    <3> QED
      BY <3>1, <3>2 DEF ToSet
  <2>6. ASSUME NEW c, IsCombination(c), Wanted(Chosen(c)) PROVE Chosen(c) \in Conjunctions
    <3>1. \A i \in DOMAIN c : c[i] \in DOMAIN mined
      BY <2>3, <2>6, ChoiceBounds DEF IsCombination
    <3>2. Chosen(c) \subseteq literals
      BY <2>5, <3>1 DEF Chosen
    <3>3. Cardinality(Chosen(c)) \in 1 .. fit.max_card
      BY <2>1, <2>6, ChosenCount DEF IsCombination
    <3> QED
      BY <2>4, <2>6, <3>2, <3>3
  <2>7. ASSUME NEW ls, ls \in Conjunctions PROVE \E c : IsCombination(c) /\ ls = Chosen(c)
    <3>1. ls \subseteq literals /\ Cardinality(ls) \in 1 .. fit.max_card /\ Wanted(ls)
      BY <2>4, <2>7
    <3> DEFINE captured == {s \in Samples : \A l \in ls : s \in Literal(l)}
    <3>2. ASSUME NEW l \in ls PROVE l \in ToSet(mined)
      <4>1. PICK i \in DOMAIN Literals : l = Literals[i]
        BY <3>1 DEF ToSet
      <4>2. i \in 1 .. literal - 1 /\ Literal(l) \subseteq Samples
        BY <2>3, <4>1, Features
      <4>3. captured \subseteq Literal(l)
        OBVIOUS
      <4>4. Frequent(captured)
        BY <3>1 DEF Wanted
      <4> HIDE DEF captured
      <4>5. IsFiniteSet(Literal(l)) /\ Cardinality(Literal(l)) \in Nat
        BY <4>2, FitFacts, Taken
      <4>6. Cardinality(captured) <= Cardinality(Literal(l)) /\ Cardinality(captured) \in Nat
        BY <4>3, <4>5, FS_Subset, FS_CardinalityType
      <4>7. fit.min_support \in Nat
        BY Features
      <4>8. Frequent(Literal(l))
        BY <4>4, <4>5, <4>6, <4>7 DEF Frequent
      <4> QED
        BY <4>1, <4>2, <4>8 DEF Mining
    <3> HIDE DEF captured
    <3> DEFINE T == {k \in DOMAIN mined : mined[k] \in ls}
    <3>3. PICK c : IsChoice(c, Len(mined)) /\ ToSet(c) = T
      <4>1. T \in SUBSET (1 .. Len(mined))
        BY <2>3
      <4> HIDE DEF T
      <4> QED
        BY <2>3, <4>1, Enumerated
    <3>4. Chosen(c) = ls
      <4>1. ASSUME NEW x \in Chosen(c) PROVE x \in ls
        <5>1. PICK i \in DOMAIN c : x = mined[c[i]]
          BY DEF Chosen
        <5>2. c[i] \in T
          BY <3>3 DEF ToSet
        <5> QED
          BY <5>1, <5>2
      <4>2. ASSUME NEW x \in ls PROVE x \in Chosen(c)
        <5>1. PICK k \in DOMAIN mined : x = mined[k]
          BY <3>2 DEF ToSet
        <5>2. k \in ToSet(c)
          BY <3>3, <5>1
        <5>3. PICK i \in DOMAIN c : k = c[i]
          BY <5>2 DEF ToSet
        <5> QED
          BY <5>1, <5>3 DEF Chosen
      <4> QED
        BY <4>1, <4>2
    <3>5. Len(c) = Cardinality(ls)
      BY <2>1, <3>3, <3>4, ChosenCount
    <3> QED
      BY <3>1, <3>3, <3>4, <3>5 DEF IsCombination
  <2>8. \A ls : ls \in Found <=> \E c : IsCombination(c) /\ ls = Chosen(c) /\ Wanted(ls)
    BY <2>1 DEF LookedAtFound, LookedAt
  <2>9. \A ls : ls \in Found <=> ls \in Conjunctions
    <3>1. ASSUME NEW ls \in Found PROVE ls \in Conjunctions
      BY <2>6, <2>8
    <3>2. ASSUME NEW ls \in Conjunctions PROVE ls \in Found
      BY <2>4, <2>7, <2>8
    <3> QED
      BY <3>1, <3>2
  <2>10. Found = Conjunctions
    BY <2>9
  <2> QED
    BY <2>1, <2>2, <2>10
<1> QED
  BY <1>1, <1>2 DEF MinesEachRuleOnce, RulesOf

(* mine_rules looks at every combination of literals once, in the order of *)
(* getnextperm: what it ends with is each conjunction that is neither too  *)
(* rare nor too common, once, for any arguments.                           *)
THEOREM EachRuleMined == Spec => []MinesEachRuleOnce
<1>1. Init => EachOnce
  <2> SUFFICES ASSUME Init PROVE EachOnce
    OBVIOUS
  <2>1. rules = <<>> /\ literal = 1 /\ mined = <<>> /\ rule_ids = <<>> /\ pc = "mine"
    BY DEF Init, MineInit
  <2>2. Found = {} /\ DOMAIN mined = {}
    BY <2>1 DEF Found
  <2> QED
    BY <2>1, <2>2 DEF EachOnce, MinedOnce, IsInjective, RulesOf, SinglesFound
<1>2. IInv /\ Result /\ EachOnce /\ [Next]_vars => EachOnce'
  <2> SUFFICES ASSUME IInv, Result, EachOnce, [Next]_vars PROVE EachOnce'
    OBVIOUS
  <2>1. fit \in Fits /\ RulesRight /\ Mining
    BY DEF IInv, Tree, Types, Result
  <2>2. CASE MineStep
    BY <2>1, <2>2, LiteralOnce, LiteralsOnce, CombinationOnce, OthersOnce DEF MineStep
  <2>3. CASE SearchStep
    BY <2>3, OthersOnce
  <2>4. CASE UNCHANGED vars
    BY <2>4, OthersOnce DEF vars, mineVars, searchVars
  <2> QED
    BY <2>2, <2>3, <2>4 DEF Next
<1>3. IInv /\ Result /\ EachOnce => MinesEachRuleOnce
  BY AllFound DEF IInv, Tree, Types, Result
<1> QED
  BY <1>1, <1>2, <1>3, Invariance, ResultInvariance, PTL DEF Spec

-----------------------------------------------------------------------------
(* What a list can be completed to                                         *)

(* What a further rule would add to what covered costs, and then.          *)
Adding(covered, r) ==
  LET S == rules[r].captured
  IN  Errors(S \cap (Samples \ covered)) + fit.c + Completion[covered \cup S]

(* A rule that captures something more and with which the best completion  *)
(* goes on.                                                                *)
GoesOn(covered, r) ==
  /\ r \in RuleIds
  /\ rules[r].captured \cap (Samples \ covered) # {}
  /\ Completion[covered] = Adding(covered, r)

(* Completion is what its definition says: the recursion is over ever      *)
(* larger sets of samples.                                                 *)
LEMMA CompletionSolves ==
  ASSUME fit \in Fits, RulesRight
  PROVE  /\ Completion \in [SUBSET Samples -> Int]
         /\ \A X \in SUBSET Samples :
              LET left == Samples \ X
                  useful == {S \in {r.captured : r \in ToSet(rules)} : S \cap left # {}}
                  with(S) == Errors(S \cap left) + fit.c + Completion[X \cup S]
                  costs == {Errors(left)} \cup {with(S) : S \in useful}
              IN  /\ Completion[X] = Min(costs)
                  /\ costs \subseteq Int /\ costs # {} /\ IsFiniteSet(costs)
<1> DEFINE D == SUBSET Samples
           U == {r.captured : r \in ToSet(rules)}
           useful(X) == {S \in U : S \cap (Samples \ X) # {}}
           with(g, X, S) == Errors(S \cap (Samples \ X)) + fit.c + g[X \cup S]
           costs(g, X) == {Errors(Samples \ X)} \cup {with(g, X, S) : S \in useful(X)}
           B == [g \in [D -> Int] |-> [X \in D |-> Min(costs(g, X))]]
           rank == [X \in D |-> Cardinality(Samples \ X)]
<1>1. /\ fit.samples \in Nat /\ fit.c \in Nat /\ IsFiniteSet(Samples) /\ Cardinality(Samples) = fit.samples
  BY FitFacts
<1>2. U \subseteq D /\ IsFiniteSet(U)
  <2>1. ToSet(rules) = {rules[i] : i \in DOMAIN rules} /\ \A i \in DOMAIN rules : rules[i].captured \in D
    BY DEF ToSet, RulesRight, RuleType
  <2>2. U = {rules[i].captured : i \in DOMAIN rules}
    BY <2>1
  <2>3. DOMAIN rules = 1 .. Len(rules) /\ Len(rules) \in Nat
    BY DEF RulesRight
  <2>4. IsFiniteSet(DOMAIN rules)
    BY <2>3, FS_Interval
  <2> DEFINE f == [i \in DOMAIN rules |-> rules[i].captured]
  <2>5. U = {f[i] : i \in DOMAIN rules}
    BY <2>2
  <2> HIDE DEF f, U
  <2>6. IsFiniteSet(U)
    BY <2>4, <2>5, ImageFinite
  <2> QED
    BY <2>1, <2>2, <2>6
<1> HIDE DEF U
<1>3. ASSUME NEW g, NEW X \in D, \A S \in useful(X) : g[X \cup S] \in Int
      PROVE  costs(g, X) \subseteq Int /\ costs(g, X) # {} /\ IsFiniteSet(costs(g, X)) /\ Min(costs(g, X)) \in Int
  <2>1. useful(X) \subseteq U /\ IsFiniteSet(useful(X))
    BY <1>2, FS_Subset
  <2>2. Errors(Samples \ X) \in Int /\ \A S \in useful(X) : with(g, X, S) \in Int
    <3>1. Samples \ X \in SUBSET Samples
      OBVIOUS
    <3>2. ASSUME NEW S \in useful(X) PROVE with(g, X, S) \in Int
      <4>1. S \cap (Samples \ X) \in SUBSET Samples /\ X \cup S \in D
        BY <1>2
      <4>2. Errors(S \cap (Samples \ X)) \in Nat /\ g[X \cup S] \in Int
        BY <1>3, <4>1, Costs
      <4> QED
        BY <1>1, <4>2
    <3>3. Errors(Samples \ X) \in Nat
      BY <3>1, Costs
    <3> HIDE DEF with, useful
    <3> QED
      BY <3>2, <3>3
  <2> DEFINE h == [S \in useful(X) |-> with(g, X, S)]
             T == {h[S] : S \in useful(X)}
  <2>3. IsFiniteSet(T)
    <3> HIDE DEF useful, h
    <3> QED
      BY <2>1, ImageFinite
  <2>4. T = {with(g, X, S) : S \in useful(X)}
    OBVIOUS
  <2>5. IsFiniteSet({Errors(Samples \ X)} \cup T)
    <3> HIDE DEF T
    <3> QED
      BY <2>3, FS_Singleton, FS_Union
  <2>6. costs(g, X) = {Errors(Samples \ X)} \cup T
    BY <2>4
  <2>7. costs(g, X) \subseteq Int /\ costs(g, X) # {}
    <3> HIDE DEF with, useful
    <3> QED
      BY <2>2
  <2> HIDE DEF costs, T
  <2>8. IsFiniteSet(costs(g, X))
    BY <2>5, <2>6
  <2> QED
    BY <2>7, <2>8, MinIs
<1>4. ASSUME NEW g \in [D -> Int], NEW h \in [D -> Int], NEW X \in D,
             \A Y \in D : rank[Y] < rank[X] => g[Y] = h[Y]
      PROVE  Min(costs(g, X)) = Min(costs(h, X))
  <2>1. ASSUME NEW S \in useful(X) PROVE with(g, X, S) = with(h, X, S)
    <3>1. X \cup S \in D /\ Samples \ (X \cup S) \subseteq Samples \ X /\ Samples \ (X \cup S) # Samples \ X
      BY <1>2
    <3>2. IsFiniteSet(Samples \ X)
      BY <1>1, FS_Subset
    <3>3. Cardinality(Samples \ (X \cup S)) < Cardinality(Samples \ X)
      BY <3>1, <3>2, ProperPart
    <3>4. rank[X \cup S] < rank[X]
      BY <3>1, <3>3
    <3>5. g[X \cup S] = h[X \cup S]
      BY <1>4, <3>1, <3>4
    <3> QED
      BY <3>5
  <2> HIDE DEF with, useful
  <2>2. costs(g, X) = costs(h, X)
    BY <2>1
  <2> QED
    BY <2>2
<1>5. rank \in [D -> 0 .. fit.samples]
  <2>1. ASSUME NEW X \in D PROVE Cardinality(Samples \ X) \in 0 .. fit.samples
    <3>1. Samples \ X \in SUBSET Samples
      OBVIOUS
    <3> QED
      BY <1>1, <3>1, Counts
  <2> QED
    BY <2>1
<1>6. \A g \in [D -> Int] : B[g] = [X \in D |-> Min(costs(g, X))] /\ \A X \in D : B[g][X] = Min(costs(g, X))
  OBVIOUS
<1>60. Completion = CHOOSE g : g = [X \in D |-> Min(costs(g, X))]
  BY DEF Completion, U
<1> HIDE DEF costs, rank
<1>7. IsBody(B, D, Int)
  <2>1. \A g \in [D -> Int], X \in D : \A S \in useful(X) : g[X \cup S] \in Int
    BY <1>2
  <2> HIDE DEF useful
  <2>2. \A g \in [D -> Int], X \in D : Min(costs(g, X)) \in Int
    BY <1>3, <2>1
  <2> QED
    BY <2>2 DEF IsBody
<1> HIDE DEF B
<1>8. ReadsLower(B, D, Int, rank)
  <2>1. \A g \in [D -> Int], h \in [D -> Int] : \A X \in D :
          (\A Y \in D : rank[Y] < rank[X] => g[Y] = h[Y]) => B[g][X] = B[h][X]
    <3>1. ASSUME NEW g \in [D -> Int], NEW h \in [D -> Int], NEW X \in D,
                 \A Y \in D : rank[Y] < rank[X] => g[Y] = h[Y]
          PROVE  B[g][X] = B[h][X]
      <4>1. Min(costs(g, X)) = Min(costs(h, X))
        BY <1>4, <3>1
      <4>2. B[g][X] = Min(costs(g, X)) /\ B[h][X] = Min(costs(h, X))
        BY <1>6
      <4> QED
        BY <4>1, <4>2
    <3> QED
      BY <3>1
  <2> QED
    BY <2>1 DEF ReadsLower
<1>9. PICK g : IsSolution(g, B, D, Int)
  <2>1. Int # {}
    OBVIOUS
  <2> QED
    BY <1>1, <1>5, <1>7, <1>8, <2>1, RecursionSolved
<1>10. g \in [D -> Int] /\ g = [X \in D |-> Min(costs(g, X))]
  BY <1>6, <1>9 DEF IsSolution
<1>11. Completion = [X \in D |-> Min(costs(Completion, X))]
  BY <1>10, <1>60
<1>12. ASSUME NEW X \in D PROVE Completion[X] \in Int
  <2> DEFINE Bad == {Samples \ Y : Y \in {Y \in D : Completion[Y] \notin Int}}
  <2> SUFFICES ASSUME Completion[X] \notin Int PROVE FALSE
    OBVIOUS
  <2>1. Bad # {} /\ \A s \in Bad : IsFiniteSet(s)
    <3>1. \A Y \in D : Samples \ Y \in SUBSET Samples
      OBVIOUS
    <3>2. \A Y \in D : IsFiniteSet(Samples \ Y)
      BY <1>1, <3>1, FS_Subset
    <3> QED
      BY <3>2
  <2>2. PICK s \in Bad : \A t \in Bad : ~(t \subseteq s /\ t # s)
    <3> HIDE DEF Bad
    <3> QED
      BY <2>1, SmallestSet
  <2>3. PICK Y \in D : Completion[Y] \notin Int /\ s = Samples \ Y
    BY <2>2
  <2>4. ASSUME NEW S \in useful(Y) PROVE Completion[Y \cup S] \in Int
    <3>1. Y \cup S \in D /\ Samples \ (Y \cup S) \subseteq Samples \ Y /\ Samples \ (Y \cup S) # Samples \ Y
      BY <1>2
    <3> QED
      BY <2>2, <2>3, <3>1
  <2>5. Min(costs(Completion, Y)) \in Int
    <3> HIDE DEF useful, Bad
    <3> QED
      BY <1>3, <2>4
  <2>6. Completion[Y] = Min(costs(Completion, Y))
    BY <1>11
  <2> QED
    BY <2>3, <2>5, <2>6
<1>13. Completion \in [D -> Int]
  <2>1. Completion = [X \in D |-> Completion[X]]
    BY <1>11
  <2> QED
    BY <1>12, <2>1
<1>14. ASSUME NEW X \in D
       PROVE  /\ Completion[X] = Min(costs(Completion, X))
              /\ costs(Completion, X) \subseteq Int /\ costs(Completion, X) # {} /\ IsFiniteSet(costs(Completion, X))
  <2>1. \A S \in useful(X) : Completion[X \cup S] \in Int
    BY <1>2, <1>12
  <2>2. Completion[X] = Min(costs(Completion, X))
    BY <1>11
  <2> HIDE DEF useful
  <2> QED
    BY <1>3, <2>1, <2>2
<1> QED
  BY <1>13, <1>14 DEF costs, U

(* No rule, useful or not, completes a list for less; the best completion  *)
(* stops, or goes on with a rule that captures something more.             *)
LEMMA CompletionIs ==
  ASSUME fit \in Fits, RulesRight, NEW X \in SUBSET Samples
  PROVE  /\ Completion[X] \in Nat
         /\ Completion[X] <= Errors(Samples \ X)
         /\ \A r \in RuleIds : Completion[X] <= Adding(X, r)
         /\ Completion[X] = Errors(Samples \ X) \/ \E r \in RuleIds : GoesOn(X, r)
<1> DEFINE useful(Y) == {S \in {r.captured : r \in ToSet(rules)} : S \cap (Samples \ Y) # {}}
           with(Y, S) == Errors(S \cap (Samples \ Y)) + fit.c + Completion[Y \cup S]
           costs(Y) == {Errors(Samples \ Y)} \cup {with(Y, S) : S \in useful(Y)}
<1>1. Completion \in [SUBSET Samples -> Int]
  BY CompletionSolves
<1>2. \A Y \in SUBSET Samples :
        /\ Completion[Y] = Min(costs(Y))
        /\ costs(Y) \subseteq Int /\ costs(Y) # {} /\ IsFiniteSet(costs(Y))
  BY CompletionSolves
<1>3. \A Y \in SUBSET Samples :
        /\ Completion[Y] \in costs(Y)
        /\ \A z \in costs(Y) : Completion[Y] <= z
  <2> HIDE DEF costs
  <2> QED
    BY <1>2, MinIs
<1>4. fit.c \in Nat /\ IsFiniteSet(Samples)
  BY FitFacts
<1>5. DOMAIN rules = RuleIds /\ ToSet(rules) = {rules[r] : r \in RuleIds} /\ \A r \in RuleIds : rules[r].captured \in SUBSET Samples
  BY DEF RulesRight, RuleIds, RuleType, ToSet
<1>6. \A Y \in SUBSET Samples : \A S \in useful(Y) : \E r \in RuleIds : S = rules[r].captured
  BY <1>5
<1>7. \A Y \in SUBSET Samples : \A r \in RuleIds :
        rules[r].captured \cap (Samples \ Y) # {} => rules[r].captured \in useful(Y)
  BY <1>5
<1> HIDE DEF useful
<1>8. ASSUME NEW Y \in SUBSET Samples
      PROVE  Completion[Y] = Errors(Samples \ Y) \/ \E r \in RuleIds : GoesOn(Y, r)
  <2>1. Completion[Y] = Errors(Samples \ Y) \/ \E S \in useful(Y) : Completion[Y] = with(Y, S)
    <3> HIDE DEF with
    <3> QED
      BY <1>3
  <2>2. ASSUME NEW S \in useful(Y), Completion[Y] = with(Y, S) PROVE \E r \in RuleIds : GoesOn(Y, r)
    <3>1. PICK r \in RuleIds : S = rules[r].captured
      BY <1>6
    <3>2. S \cap (Samples \ Y) # {}
      BY DEF useful
    <3> QED
      BY <2>2, <3>1, <3>2 DEF GoesOn, Adding
  <2> QED
    BY <2>1, <2>2
<1>9. ASSUME NEW Y \in SUBSET Samples PROVE Completion[Y] \in Nat
  <2> DEFINE Bad == {Samples \ Z : Z \in {Z \in SUBSET Samples : Completion[Z] \notin Nat}}
  <2> SUFFICES ASSUME Completion[Y] \notin Nat PROVE FALSE
    OBVIOUS
  <2>0. \A Z \in SUBSET Samples : IsFiniteSet(Samples \ Z) /\ Samples \ Z \in SUBSET Samples
    <3>1. \A Z \in SUBSET Samples : Samples \ Z \in SUBSET Samples
      OBVIOUS
    <3> QED
      BY <1>4, <3>1, FS_Subset
  <2>1. Bad # {} /\ \A s \in Bad : IsFiniteSet(s)
    BY <2>0
  <2>2. PICK s \in Bad : \A t \in Bad : ~(t \subseteq s /\ t # s)
    <3> HIDE DEF Bad
    <3> QED
      BY <2>1, SmallestSet
  <2>3. PICK Z \in SUBSET Samples : Completion[Z] \notin Nat /\ s = Samples \ Z
    BY <2>2
  <2>4. Errors(Samples \ Z) \in Nat
    BY <2>0, Costs
  <2>5. PICK r \in RuleIds : GoesOn(Z, r)
    BY <1>8, <2>3, <2>4
  <2> DEFINE S == rules[r].captured
  <2>6. /\ Z \cup S \in SUBSET Samples /\ S \cap (Samples \ Z) \in SUBSET Samples
        /\ Samples \ (Z \cup S) \subseteq Samples \ Z /\ Samples \ (Z \cup S) # Samples \ Z
    BY <1>5, <2>5 DEF GoesOn
  <2>7. Completion[Z \cup S] \in Nat
    BY <2>2, <2>3, <2>6
  <2>8. Errors(S \cap (Samples \ Z)) \in Nat
    BY <2>6, Costs
  <2>9. Completion[Z] = Errors(S \cap (Samples \ Z)) + fit.c + Completion[Z \cup S]
    BY <2>5 DEF GoesOn, Adding
  <2> HIDE DEF S
  <2> QED
    BY <1>4, <2>3, <2>7, <2>8, <2>9
<1>10. Completion[X] <= Errors(Samples \ X)
  BY <1>3
<1>11. ASSUME NEW r \in RuleIds PROVE Completion[X] <= Adding(X, r)
  <2> DEFINE S == rules[r].captured
  <2>1. CASE S \cap (Samples \ X) # {}
    <3>1. with(X, S) \in costs(X) /\ with(X, S) = Adding(X, r)
      BY <1>7, <2>1 DEF Adding
    <3> QED
      BY <1>3, <3>1
  <2>2. CASE S \cap (Samples \ X) = {}
    <3>1. X \cup S = X
      BY <1>5, <2>2
    <3>2. Adding(X, r) = Errors({}) + fit.c + Completion[X]
      BY <2>2, <3>1 DEF Adding
    <3>3. Errors({}) = 0
      BY Costs
    <3> QED
      BY <1>4, <1>9, <3>2, <3>3
  <2> QED
    BY <2>1, <2>2
<1> QED
  BY <1>8, <1>9, <1>10, <1>11

-----------------------------------------------------------------------------
(* What more samples cost                                                  *)

(* A set's own prediction gets no more of it wrong than the other.         *)
LEMMA LeastErrors ==
  ASSUME fit \in Fits, NEW S \in SUBSET Samples, NEW l \in 0 .. 1
  PROVE  Errors(S) <= Unit * Cardinality(WrongIn(S, l)) /\ WrongIn(S, l) \in SUBSET Samples
<1>1. WrongIn(S, 0) = S \cap fit.ones /\ WrongIn(S, 1) = S \ fit.ones
  BY DEF WrongIn, Label
<1>2. S \cap fit.ones \in SUBSET Samples /\ S \ fit.ones \in SUBSET Samples
  OBVIOUS
<1>3. Cardinality(S \cap fit.ones) \in Nat /\ Cardinality(S \ fit.ones) \in Nat
  BY <1>2, Counts
<1>4. l = 0 \/ l = 1
  OBVIOUS
<1>5. Cardinality(WrongIn(S, Prediction(S))) <= Cardinality(WrongIn(S, l))
      /\ Cardinality(WrongIn(S, Prediction(S))) \in Nat /\ Cardinality(WrongIn(S, l)) \in Nat
  BY <1>1, <1>3, <1>4 DEF Prediction
<1>6. Unit \in Nat /\ Errors(S) = Unit * Cardinality(WrongIn(S, Prediction(S)))
  BY UnitAssumption, ErrorsCount
<1>7. Unit * Cardinality(WrongIn(S, Prediction(S))) <= Cardinality(WrongIn(S, l)) * Unit
  BY <1>5, <1>6, ProductsGrow
<1> QED
  BY <1>1, <1>2, <1>4, <1>5, <1>6, <1>7

(* The cost of a part.                                                     *)
LEMMA PartCosts ==
  ASSUME fit \in Fits, NEW S \in SUBSET Samples, NEW T \in SUBSET S
  PROVE  /\ Unit * Cardinality(T) <= Unit * Cardinality(S)
         /\ Unit * Cardinality(T) \in Nat /\ Unit * Cardinality(S) \in Nat
<1>1. IsFiniteSet(S) /\ T \in SUBSET Samples
  BY FitFacts, FS_Subset
<1>2. Cardinality(T) <= Cardinality(S) /\ Cardinality(T) \in Nat /\ Cardinality(S) \in Nat
  BY <1>1, Counts, FS_Subset
<1>3. Unit * Cardinality(T) <= Cardinality(S) * Unit
  BY <1>2, UnitAssumption, ProductsGrow
<1> QED
  BY <1>1, <1>2, <1>3, Counts, UnitAssumption

(* More samples cost at most what they cost if all are classified wrongly. *)
LEMMA MoreErrors ==
  ASSUME fit \in Fits, NEW S \in SUBSET Samples, NEW T \in SUBSET Samples, NEW R \in SUBSET (S \cup T)
  PROVE  Errors(R) <= Errors(S) + Unit * Cardinality(T)
<1> DEFINE l == Prediction(S)
<1>1. Errors(S) = Unit * Cardinality(WrongIn(S, l)) /\ l \in 0 .. 1
  BY ErrorsCount
<1> HIDE DEF l
<1>2. /\ R \in SUBSET Samples
      /\ WrongIn(S, l) \in SUBSET Samples /\ T \ WrongIn(S, l) \in SUBSET Samples
      /\ WrongIn(R, l) \subseteq WrongIn(S, l) \cup (T \ WrongIn(S, l))
      /\ WrongIn(S, l) \cap (T \ WrongIn(S, l)) = {}
      /\ WrongIn(S, l) \cup (T \ WrongIn(S, l)) \in SUBSET Samples
  BY DEF WrongIn
<1>3. Errors(R) <= Unit * Cardinality(WrongIn(R, l))
  BY <1>1, <1>2, LeastErrors
<1> DEFINE W == WrongIn(S, l)
           M == T \ W
           Q == WrongIn(R, l)
<1>4. W \in SUBSET Samples /\ M \in SUBSET Samples /\ W \cup M \in SUBSET Samples /\ W \cap M = {} /\ M \in SUBSET T
      /\ Q \in SUBSET (W \cup M)
  BY <1>2
<1> HIDE DEF W, M, Q
<1>5. /\ Unit * Cardinality(Q) <= Unit * Cardinality(W \cup M)
      /\ Unit * Cardinality(Q) \in Nat /\ Unit * Cardinality(W \cup M) \in Nat
  BY <1>4, PartCosts
<1>6. /\ Unit * Cardinality(W \cup M) = Unit * Cardinality(W) + Unit * Cardinality(M)
      /\ Unit * Cardinality(W) \in Nat /\ Unit * Cardinality(M) \in Nat
  BY <1>4, Adds
<1>7. Unit * Cardinality(M) <= Unit * Cardinality(T) /\ Unit * Cardinality(T) \in Nat
  BY <1>4, PartCosts
<1>8. Errors(R) \in Nat /\ Errors(R) <= Unit * Cardinality(Q) /\ Errors(S) = Unit * Cardinality(W)
  BY <1>1, <1>2, <1>3, Costs DEF W, Q
<1> QED
  BY ONLY <1>5, <1>6, <1>7, <1>8

(* Having captured more saves at most the cost of what was captured.       *)
LEMMA CapturedSaves ==
  ASSUME fit \in Fits, RulesRight, NEW X \in SUBSET Samples, NEW Y \in SUBSET Samples, X \subseteq Y
  PROVE  Completion[X] <= Completion[Y] + Unit * Cardinality(Y \ X)
<1> DEFINE Saves(A, B) == Completion[A] <= Completion[B] + Unit * Cardinality(B \ A)
           Wrong == {B \in SUBSET Samples : \E A \in SUBSET B : ~Saves(A, B)}
           Bad == {Samples \ B : B \in Wrong}
<1> SUFFICES ASSUME Y \in Wrong PROVE FALSE
  OBVIOUS
<1>0. \A r \in RuleIds : rules[r].captured \in SUBSET Samples
  BY DEF RulesRight, RuleIds, RuleType
<1>1. Bad # {} /\ \A s \in Bad : IsFiniteSet(s)
  <2>1. \A B \in Wrong : Samples \ B \in SUBSET Samples
    OBVIOUS
  <2>2. \A B \in Wrong : IsFiniteSet(Samples \ B)
    BY <2>1, FitFacts, FS_Subset
  <2> QED
    BY <2>2
<1>2. PICK s \in Bad : \A t \in Bad : ~(t \subseteq s /\ t # s)
  <2> HIDE DEF Bad
  <2> QED
    BY <1>1, SmallestSet
<1>3. PICK B \in SUBSET Samples : B \in Wrong /\ s = Samples \ B
  BY <1>2
<1>4. PICK A \in SUBSET B : ~Saves(A, B)
  BY <1>3
<1>5. A \in SUBSET Samples /\ B \ A \in SUBSET Samples
  BY <1>3, <1>4
<1>6. /\ Completion[A] \in Nat /\ Completion[A] <= Errors(Samples \ A)
      /\ Completion[B] = Errors(Samples \ B) \/ \E r \in RuleIds : GoesOn(B, r)
      /\ \A r \in RuleIds : Completion[A] <= Adding(A, r)
  BY <1>5, CompletionIs
<1>7. Unit * Cardinality(B \ A) \in Nat
  BY <1>5, Counts
<1>8. Completion[B] # Errors(Samples \ B)
  <2>1. Samples \ B \in SUBSET Samples /\ Samples \ A \in SUBSET ((Samples \ B) \cup (B \ A))
    OBVIOUS
  <2>2. Errors(Samples \ A) <= Errors(Samples \ B) + Unit * Cardinality(B \ A) /\ Errors(Samples \ B) \in Nat
        /\ Errors(Samples \ A) \in Nat
    BY <1>5, <2>1, MoreErrors, Costs
  <2> QED
    BY <1>4, <1>6, <1>7, <2>2
<1>9. PICK r \in RuleIds : GoesOn(B, r)
  BY <1>6, <1>8
<1> DEFINE S == rules[r].captured
<1>10. S \in SUBSET Samples /\ S \cap (Samples \ B) # {}
       /\ Completion[B] = Errors(S \cap (Samples \ B)) + fit.c + Completion[B \cup S]
       /\ Completion[A] <= Errors(S \cap (Samples \ A)) + fit.c + Completion[A \cup S]
  BY <1>0, <1>6, <1>9 DEF GoesOn, Adding
<1> HIDE DEF S
<1>11. /\ B \cup S \in SUBSET Samples /\ A \cup S \in SUBSET (B \cup S) /\ B \cup S \notin Wrong /\ A \cup S \in SUBSET Samples
  <2>1. B \cup S \in SUBSET Samples /\ A \cup S \in SUBSET (B \cup S) /\ A \cup S \in SUBSET Samples
    BY <1>10
  <2>2. Samples \ (B \cup S) \subseteq s /\ Samples \ (B \cup S) # s
    BY <1>3, <1>10
  <2>3. Samples \ (B \cup S) \notin Bad
    BY <1>2, <2>2
  <2> QED
    BY <2>1, <2>3
<1>12. Completion[A \cup S] <= Completion[B \cup S] + Unit * Cardinality((B \cup S) \ (A \cup S))
  BY <1>11
<1> HIDE DEF Saves, Wrong, Bad
<1> DEFINE M == (B \cup S) \ (A \cup S)
           N == S \cap (B \ A)
<1>13. /\ M \in SUBSET Samples /\ N \in SUBSET Samples /\ M \cap N = {} /\ M \cup N = B \ A
       /\ S \cap (Samples \ B) \in SUBSET Samples /\ S \cap (Samples \ A) \in SUBSET Samples
       /\ S \cap (Samples \ A) \in SUBSET ((S \cap (Samples \ B)) \cup N)
  BY <1>5, <1>10
<1>14. Unit * Cardinality(B \ A) = Unit * Cardinality(M) + Unit * Cardinality(N)
       /\ Unit * Cardinality(M) \in Nat /\ Unit * Cardinality(N) \in Nat
  <2> HIDE DEF M, N
  <2> QED
    BY <1>13, Adds
<1>15. Errors(S \cap (Samples \ A)) <= Errors(S \cap (Samples \ B)) + Unit * Cardinality(N)
       /\ Errors(S \cap (Samples \ A)) \in Nat /\ Errors(S \cap (Samples \ B)) \in Nat
  <2> HIDE DEF N
  <2> QED
    BY <1>13, MoreErrors, Costs
<1>16. Completion[A] > Completion[B] + Unit * Cardinality(B \ A) /\ Completion[B] \in Nat
       /\ Completion[B \cup S] \in Nat /\ Completion[A \cup S] \in Nat /\ fit.c \in Nat
  <2>1. Completion[B] \in Nat /\ Completion[B \cup S] \in Nat /\ Completion[A \cup S] \in Nat /\ fit.c \in Nat
    BY <1>3, <1>11, CompletionIs, FitFacts
  <2>2. ~(Completion[A] <= Completion[B] + Unit * Cardinality(B \ A))
    BY <1>4 DEF Saves
  <2> QED
    BY ONLY <1>6, <1>7, <2>1, <2>2
<1>17. Completion[A \cup S] <= Completion[B \cup S] + Unit * Cardinality(M)
  BY <1>12 DEF M
<1> HIDE DEF M, N
<1> QED
  BY ONLY <1>6, <1>7, <1>10, <1>14, <1>15, <1>16, <1>17

(* The rule with which the best completion goes on captures and classifies *)
(* correctly enough to pay for itself.                                     *)
LEMMA GoesOnSupported ==
  ASSUME fit \in Fits, RulesRight, NEW X \in SUBSET Samples, NEW r, GoesOn(X, r)
  PROVE  LET fresh == rules[r].captured \cap (Samples \ X)
         IN  ~Unsupported(Cardinality(fresh)) /\ ~Unsupported(Correct(fresh))
<1> DEFINE S == rules[r].captured
           fresh == S \cap (Samples \ X)
<1>1. S \in SUBSET Samples /\ X \cup S \in SUBSET Samples /\ fresh \in SUBSET Samples /\ (X \cup S) \ X = fresh
      /\ Completion[X] = Errors(fresh) + fit.c + Completion[X \cup S]
  BY DEF GoesOn, Adding, RulesRight, RuleIds, RuleType
<1>2. Completion[X] <= Completion[X \cup S] + Unit * Cardinality((X \cup S) \ X)
  <2> HIDE DEF S
  <2> QED
    BY <1>1, CapturedSaves
<1>3. Completion[X \cup S] \in Nat /\ fit.c \in Nat
  <2> HIDE DEF S
  <2> QED
    BY <1>1, CompletionIs, FitFacts
<1>4. Errors(fresh) = Unit * (Cardinality(fresh) - Correct(fresh)) /\ Errors(fresh) \in Nat
      /\ Cardinality(fresh) \in Nat /\ Correct(fresh) \in Nat /\ Correct(fresh) <= Cardinality(fresh)
      /\ Unit \in Nat
  <2>1. Correct(fresh) = Cardinality(IF Prediction(fresh) = 1 THEN fresh \cap fit.ones ELSE fresh \ fit.ones)
    BY DEF Correct
  <2> DEFINE right == IF Prediction(fresh) = 1 THEN fresh \cap fit.ones ELSE fresh \ fit.ones
  <2>2. right \in SUBSET fresh
    OBVIOUS
  <2>3. Correct(fresh) = Cardinality(right)
    BY <2>1
  <2> HIDE DEF fresh, right
  <2>4. IsFiniteSet(fresh) /\ Errors(fresh) \in Nat
    BY <1>1, FitFacts, Costs, FS_Subset
  <2>5. Cardinality(fresh) \in Nat /\ Cardinality(right) \in Nat /\ Cardinality(right) <= Cardinality(fresh)
    BY <2>2, <2>4, FS_Subset, FS_CardinalityType
  <2> QED
    BY <2>3, <2>4, <2>5, UnitAssumption DEF Errors
<1>5. Unit * Cardinality(fresh) >= Errors(fresh) + fit.c
  <2>1. Unit * Cardinality(fresh) \in Nat /\ Completion[X] \in Nat
    BY <1>1, CompletionIs, Counts
  <2>2. Completion[X] <= Completion[X \cup S] + Unit * Cardinality(fresh)
    BY <1>1, <1>2
  <2> HIDE DEF fresh, S
  <2> QED
    BY <1>1, <1>3, <1>4, <2>1, <2>2
<1>6. Unit * Cardinality(fresh) = Unit * (Cardinality(fresh) - Correct(fresh)) + Unit * Correct(fresh)
      /\ Unit * Correct(fresh) \in Nat
  <2> HIDE DEF fresh
  <2>1. \A a, b \in Nat : b <= a => Unit * a = Unit * (a - b) + Unit * b
    BY UnitAssumption
  <2> QED
    BY <1>4, <2>1, Products
<1>7. \A n \in Nat : n * Unit = Unit * n
  BY UnitAssumption
<1> HIDE DEF fresh
<1>8. Cardinality(fresh) * Unit >= fit.c
  BY <1>3, <1>4, <1>5, <1>7
<1>9. Correct(fresh) * Unit >= fit.c
  BY <1>3, <1>4, <1>5, <1>6, <1>7
<1> QED
  BY <1>3, <1>4, <1>7, <1>6, <1>8, <1>9 DEF Unsupported, fresh

-----------------------------------------------------------------------------
(* The minority                                                            *)

(* The minority is what mining found.                                      *)
MinorityIs == minority = {s \in Samples : Outvoted(s)}

(* No sample is in a set without those that no rule tells from it.         *)
Together(T) == \A s \in Samples : \A t \in Twins(s) : s \in T <=> t \in T

(* Being a twin is an equivalence.                                         *)
LEMMA TwinsAre ==
  ASSUME NEW s \in Samples
  PROVE  s \in Twins(s) /\ Twins(s) \in SUBSET Samples /\ \A t \in Twins(s) : Twins(t) = Twins(s)
BY DEF Twins

(* What rules capture is captured together, and so is what is left.        *)
LEMMA CapturedTogether ==
  ASSUME NEW X \in SUBSET Samples, Together(X), DOMAIN rules = RuleIds, NEW r \in RuleIds
  PROVE  /\ Together(Samples \ X) /\ Together(X \cup rules[r].captured)
         /\ Together(rules[r].captured \cap (Samples \ X))
<1>1. \A s \in Samples : \A t \in Twins(s) : s \in rules[r].captured <=> t \in rules[r].captured
  BY DEF Twins
<1>2. \A s \in Samples : Twins(s) \subseteq Samples
  BY DEF Twins
<1> QED
  BY <1>1, <1>2 DEF Together

(* What a list captures is together.                                       *)
LEMMA PrefixTogether ==
  ASSUME DOMAIN rules = RuleIds, NEW q, \A i \in DOMAIN q : q[i] \in RuleIds
  PROVE  Together(Captured(q)) /\ Captured(q) \in SUBSET Samples
<1>1. \A s \in Samples : \A t \in Twins(s) : \A r \in RuleIds : s \in rules[r].captured <=> t \in rules[r].captured
  BY DEF Twins
<1>2. \A s \in Samples : Twins(s) \subseteq Samples
  BY DEF Twins
<1> QED
  BY <1>1, <1>2 DEF Together, Captured

(* Of samples that are together, any one prediction gets no less wrong     *)
(* than the minority.                                                      *)
LEMMA MinorityWrong ==
  ASSUME fit \in Fits, MinorityIs, NEW T \in SUBSET Samples, Together(T)
  PROVE  Unit * Cardinality(T \cap minority) <= Errors(T)
<1> DEFINE l == Prediction(T)
           Cost(R) == Unit * Cardinality(R)
           Fewer(R) == Cost(R \cap minority) <= Cost(WrongIn(R, l))
           Bad == {R \in SUBSET Samples : Together(R) /\ ~Fewer(R)}
<1>1. Errors(T) = Cost(WrongIn(T, l)) /\ l \in 0 .. 1
  BY ErrorsCount
<1> HIDE DEF l
<1> SUFFICES ASSUME Bad # {} PROVE FALSE
  BY <1>1
<1>2. \A R \in Bad : IsFiniteSet(R)
  BY FitFacts, FS_Subset
<1>3. PICK R \in Bad : \A Q \in Bad : ~(Q \subseteq R /\ Q # R)
  <2> HIDE DEF Bad
  <2> QED
    BY <1>2, SmallestSet
<1>4. R \in SUBSET Samples /\ Together(R) /\ ~Fewer(R)
  BY <1>3
<1>5. R # {}
  <2>1. ASSUME R = {} PROVE FALSE
    <3>1. R \cap minority = {} /\ WrongIn(R, l) = {}
      BY <2>1 DEF WrongIn
    <3>2. Cost({}) \in Nat
      <4>1. {} \in SUBSET Samples
        OBVIOUS
      <4> QED
        BY <4>1, Counts
    <3> QED
      BY <1>4, <3>1, <3>2
  <2> QED
    BY <2>1
<1>6. PICK s \in R : TRUE
  BY <1>5
<1> DEFINE C == Twins(s)
           Q == R \ C
<1>7. s \in Samples /\ s \in C /\ C \in SUBSET R /\ \A t \in C : Twins(t) = C
  BY <1>4, <1>6, TwinsAre DEF Together
<1>8. Q \in SUBSET Samples /\ Together(Q) /\ Q \subseteq R /\ Q # R
  <2>1. \A u \in Samples : \A v \in Twins(u) : v \in Samples /\ (u \in C <=> v \in C)
    <3>1. ASSUME NEW u \in Samples, NEW v \in Twins(u) PROVE v \in Samples /\ (u \in C <=> v \in C)
      <4>1. v \in Samples /\ Twins(v) = Twins(u) /\ v \in Twins(v) /\ u \in Twins(u)
        BY TwinsAre
      <4> QED
        BY <1>7, <4>1
    <3> QED
      BY <3>1
  <2> HIDE DEF C
  <2> QED
    BY <1>4, <1>7, <2>1 DEF Together
<1>9. Fewer(Q)
  BY <1>3, <1>8
<1>10. C \in SUBSET Samples /\ Cost(C \cap minority) <= Cost(WrongIn(C, l))
  <2>1. C \cap fit.ones \in SUBSET Samples /\ C \ fit.ones \in SUBSET Samples /\ C \in SUBSET Samples
    BY <1>4, <1>7
  <2> DEFINE ones == Cardinality(C \cap fit.ones)
             zeroes == Cardinality(C \ fit.ones)
  <2>2. ones \in Nat /\ zeroes \in Nat
    BY <2>1, Counts
  <2>3. \A t \in C : t \in minority <=> (t \in fit.ones <=> zeroes >= ones)
    BY <1>7, <2>1 DEF MinorityIs, Outvoted
  <2>4. WrongIn(C, 0) = C \cap fit.ones /\ WrongIn(C, 1) = C \ fit.ones
    BY DEF WrongIn, Label
  <2>5. l = 0 \/ l = 1
    BY <1>1
  <2>6. \A a, b \in Nat : a <= b => Unit * a <= Unit * b
    <3>1. \A a, b \in Nat : a <= b => Unit * a <= b * Unit
      BY ProductsGrow, UnitAssumption
    <3> QED
      BY <3>1, UnitAssumption
  <2>7. CASE zeroes >= ones
    <3>1. C \cap minority = C \cap fit.ones
      BY <2>3, <2>7
    <3> HIDE DEF C
    <3>2. Unit * ones <= Unit * zeroes /\ Unit * ones \in Nat
      BY <2>2, <2>6, <2>7, Products, UnitAssumption
    <3>3. Cost(C \cap minority) = Unit * ones
      BY <3>1
    <3>4. Cost(WrongIn(C, l)) = Unit * ones \/ Cost(WrongIn(C, l)) = Unit * zeroes
      BY <2>4, <2>5
    <3> HIDE DEF Cost
    <3> QED
      BY <2>1, <3>2, <3>3, <3>4
  <2>8. CASE ~(zeroes >= ones)
    <3>1. C \cap minority = C \ fit.ones
      BY <2>3, <2>8
    <3> HIDE DEF C
    <3>2. Unit * zeroes <= Unit * ones /\ Unit * zeroes \in Nat
      BY <2>2, <2>6, <2>8, Products, UnitAssumption
    <3>3. Cost(C \cap minority) = Unit * zeroes
      BY <3>1
    <3>4. Cost(WrongIn(C, l)) = Unit * ones \/ Cost(WrongIn(C, l)) = Unit * zeroes
      BY <2>4, <2>5
    <3> HIDE DEF Cost
    <3> QED
      BY <2>1, <3>2, <3>3, <3>4
  <2> QED
    BY <2>1, <2>7, <2>8
<1> HIDE DEF Bad, C
<1>11. /\ R \cap minority = (Q \cap minority) \cup (C \cap minority)
       /\ (Q \cap minority) \cap (C \cap minority) = {}
       /\ WrongIn(R, l) = WrongIn(Q, l) \cup WrongIn(C, l)
       /\ WrongIn(Q, l) \cap WrongIn(C, l) = {}
       /\ Q \cap minority \in SUBSET Samples /\ C \cap minority \in SUBSET Samples
       /\ WrongIn(Q, l) \in SUBSET Samples /\ WrongIn(C, l) \in SUBSET Samples
  BY <1>4, <1>7, <1>8 DEF WrongIn
<1>12. /\ Cost(R \cap minority) = Cost(Q \cap minority) + Cost(C \cap minority)
       /\ Cost(Q \cap minority) \in Nat /\ Cost(C \cap minority) \in Nat
  BY <1>11, Adds
<1>13. /\ Cost(WrongIn(R, l)) = Cost(WrongIn(Q, l)) + Cost(WrongIn(C, l))
       /\ Cost(WrongIn(Q, l)) \in Nat /\ Cost(WrongIn(C, l)) \in Nat
  BY <1>11, Adds
<1> HIDE DEF Cost, Q
<1> QED
  BY <1>4, <1>9, <1>10, <1>12, <1>13

(* However a list is completed, it gets the minority of what is left       *)
(* wrong, and pays for a rule if it does not stop.                         *)
LEMMA CompletionCosts ==
  ASSUME fit \in Fits, RulesRight, MinorityIs, NEW X \in SUBSET Samples, Together(X)
  PROVE  /\ Unit * Cardinality((Samples \ X) \cap minority) \in Nat
         /\ Unit * Cardinality((Samples \ X) \cap minority) <= Completion[X]
         /\ Completion[X] < Errors(Samples \ X) =>
              Unit * Cardinality((Samples \ X) \cap minority) + fit.c <= Completion[X]
<1> DEFINE Least(Y) == Unit * Cardinality((Samples \ Y) \cap minority)
           Wrong == {Y \in SUBSET Samples : Together(Y) /\ ~(Least(Y) <= Completion[Y])}
           Bad == {Samples \ Y : Y \in Wrong}
<1>0. DOMAIN rules = RuleIds /\ fit.c \in Nat
  BY FitFacts DEF RulesRight, RuleIds
<1>1. ASSUME NEW Y \in SUBSET Samples
      PROVE  Least(Y) \in Nat /\ Completion[Y] \in Nat /\ Errors(Samples \ Y) \in Nat
  <2>1. (Samples \ Y) \cap minority \in SUBSET Samples /\ Samples \ Y \in SUBSET Samples
    OBVIOUS
  <2> QED
    BY <2>1, Counts, CompletionIs, Costs
<1>2. ASSUME NEW Y \in SUBSET Samples, Together(Y), NEW r, GoesOn(Y, r),
             Together(Y \cup rules[r].captured) => Least(Y \cup rules[r].captured) <= Completion[Y \cup rules[r].captured]
      PROVE  Least(Y) + fit.c <= Completion[Y]
  <2> DEFINE S == rules[r].captured
             N == S \cap (Samples \ Y)
             Z == Y \cup S
  <2>1. S \in SUBSET Samples /\ r \in RuleIds /\ Completion[Y] = Errors(N) + fit.c + Completion[Z]
    BY <1>2 DEF GoesOn, Adding, RulesRight, RuleIds, RuleType
  <2>2. Together(Z) /\ Together(N)
    BY <1>0, <1>2, <2>1, CapturedTogether
  <2>3. Least(Z) <= Completion[Z]
    BY <1>2, <2>2
  <2>4. Z \in SUBSET Samples /\ N \in SUBSET Samples
    BY <2>1
  <2>5. Unit * Cardinality(N \cap minority) <= Errors(N) /\ Errors(N) \in Nat
    <3> HIDE DEF N
    <3> QED
      BY <2>2, <2>4, MinorityWrong, Costs
  <2>6. Least(Y) = Unit * Cardinality(N \cap minority) + Least(Z)
        /\ Unit * Cardinality(N \cap minority) \in Nat
    <3> DEFINE A == N \cap minority
               B == (Samples \ Z) \cap minority
    <3>1. A \in SUBSET Samples /\ B \in SUBSET Samples /\ A \cap B = {} /\ A \cup B = (Samples \ Y) \cap minority
      BY <2>1
    <3> HIDE DEF A, B
    <3>2. Unit * Cardinality(A \cup B) = Unit * Cardinality(A) + Unit * Cardinality(B) /\ Unit * Cardinality(A) \in Nat
      BY <3>1, Adds
    <3> QED
      BY <3>1, <3>2 DEF A, B
  <2>7. Least(Z) \in Nat /\ Completion[Z] \in Nat /\ Least(Y) \in Nat
    BY <1>1, <2>4
  <2> HIDE DEF Least, N, Z
  <2> QED
    BY <1>0, <2>1, <2>3, <2>5, <2>6, <2>7
<1>3. Wrong = {}
  <2> SUFFICES ASSUME Wrong # {} PROVE FALSE
    OBVIOUS
  <2>1. Bad # {} /\ \A s \in Bad : IsFiniteSet(s)
    <3>1. \A Y \in Wrong : Samples \ Y \in SUBSET Samples
      OBVIOUS
    <3>2. \A Y \in Wrong : IsFiniteSet(Samples \ Y)
      BY <3>1, FitFacts, FS_Subset
    <3> QED
      BY <3>2
  <2>2. PICK s \in Bad : \A t \in Bad : ~(t \subseteq s /\ t # s)
    <3> HIDE DEF Bad
    <3> QED
      BY <2>1, SmallestSet
  <2>3. PICK Y \in SUBSET Samples : Y \in Wrong /\ s = Samples \ Y
    BY <2>2
  <2>4. Together(Y) /\ ~(Least(Y) <= Completion[Y]) /\ Least(Y) \in Nat /\ Completion[Y] \in Nat
    BY <1>1, <2>3
  <2>5. Completion[Y] # Errors(Samples \ Y)
    <3>1. Together(Samples \ Y) /\ Samples \ Y \in SUBSET Samples
      BY <2>4, TwinsAre DEF Together
    <3>2. Unit * Cardinality((Samples \ Y) \cap minority) <= Errors(Samples \ Y)
      BY <3>1, MinorityWrong
    <3> QED
      BY <2>4, <3>2
  <2>6. PICK r \in RuleIds : GoesOn(Y, r)
    BY <2>5, CompletionIs
  <2> DEFINE Z == Y \cup rules[r].captured
  <2>7. Z \in SUBSET Samples /\ Samples \ Z \subseteq s /\ Samples \ Z # s
    BY <2>3, <2>6 DEF GoesOn, RulesRight, RuleIds, RuleType
  <2>8. Z \notin Wrong
    BY <2>2, <2>7
  <2>9. Together(Z) => Least(Z) <= Completion[Z]
    BY <2>7, <2>8
  <2>10. Least(Y) + fit.c <= Completion[Y]
    <3> HIDE DEF Least
    <3> QED
      BY <1>2, <2>4, <2>6, <2>9
  <2> HIDE DEF Least
  <2> QED
    BY <1>0, <2>4, <2>10
<1>4. \A Y \in SUBSET Samples : Together(Y) => Least(Y) <= Completion[Y]
  BY <1>3
<1>5. ASSUME Completion[X] < Errors(Samples \ X) PROVE Least(X) + fit.c <= Completion[X]
  <2>1. PICK r \in RuleIds : GoesOn(X, r)
    BY <1>1, <1>5, CompletionIs
  <2>2. X \cup rules[r].captured \in SUBSET Samples
    BY <2>1 DEF GoesOn, RulesRight, RuleIds, RuleType
  <2>3. Together(X \cup rules[r].captured) => Least(X \cup rules[r].captured) <= Completion[X \cup rules[r].captured]
    BY <1>4, <2>2
  <2> HIDE DEF Least
  <2> QED
    BY <1>2, <2>1, <2>3
<1> QED
  BY <1>1, <1>4, <1>5

-----------------------------------------------------------------------------
(* What the permutation map remembers                                      *)

(* The ones numbered less than j, in a numbering that tells all apart.     *)
Lesser(D, f, j) == {k \in D : f[k] < f[j]}

IsNumbering(f, D) == IsFiniteSet(D) /\ f \in [D -> Int] /\ \A j, k \in D : f[j] = f[k] => j = k

(* Of n different numbers, one has i - 1 lesser ones, for each i up to n.  *)
LEMMA RankReached ==
  ASSUME NEW D, NEW f, IsNumbering(f, D), NEW i \in 1 .. Cardinality(D)
  PROVE  \E j \in D : Cardinality(Lesser(D, f, j)) = i - 1
<1> DEFINE n == Cardinality(D)
           lesser(j) == {k \in D : f[k] < f[j]}
           rank == [j \in D |-> Cardinality(lesser(j))]
<1>0. IsFiniteSet(D) /\ f \in [D -> Int] /\ \A j, k \in D : f[j] = f[k] => j = k
  BY DEF IsNumbering
<1>1. n \in Nat
  BY <1>0, FS_CardinalityType
<1>2. \A j \in D : lesser(j) \in SUBSET D /\ j \notin lesser(j) /\ IsFiniteSet(lesser(j))
  <2>1. \A j \in D : lesser(j) \in SUBSET D /\ j \notin lesser(j)
    BY <1>0
  <2> HIDE DEF lesser
  <2> QED
    BY <1>0, <2>1, FS_Subset
<1>3. ASSUME NEW j \in D, NEW k \in D, f[j] < f[k]
      PROVE  lesser(j) \in SUBSET lesser(k) /\ lesser(j) # lesser(k)
  BY <1>0, <1>3
<1> HIDE DEF lesser
<1>4. ASSUME NEW j \in D, NEW k \in D, f[j] < f[k] PROVE rank[j] < rank[k]
  BY <1>0, <1>2, <1>3, <1>4, ProperPart
<1>5. \A j \in D : rank[j] \in 0 .. n - 1
  <2>1. ASSUME NEW j \in D PROVE rank[j] \in 0 .. n - 1
    <3>1. Cardinality(lesser(j)) \in Nat /\ Cardinality(lesser(j)) < n
      BY <1>0, <1>2, ProperPart
    <3> QED
      BY <1>1, <3>1
  <2> QED
    BY <2>1
<1>6. rank \in Injection(D, 0 .. n - 1)
  <2>1. ASSUME NEW j \in D, NEW k \in D, rank[j] = rank[k] PROVE j = k
    <3>1. f[j] \in Int /\ f[k] \in Int /\ rank[j] \in Int /\ rank[k] \in Int
      BY <1>0, <1>5
    <3> HIDE DEF rank
    <3>2. ~(f[j] < f[k]) /\ ~(f[k] < f[j])
      BY <1>4, <2>1, <3>1
    <3>3. f[j] = f[k]
      BY <3>1, <3>2
    <3> QED
      BY <1>0, <3>3
  <2>2. rank \in [D -> 0 .. n - 1]
    BY <1>5
  <2> HIDE DEF rank
  <2> QED
    BY <2>1, <2>2 DEF Injection, IsInjective
<1>7. IsFiniteSet(0 .. n - 1) /\ Cardinality(0 .. n - 1) = n
  <2>1. 0 \in Int /\ n - 1 \in Int
    BY <1>1
  <2>2. IsFiniteSet(0 .. n - 1) /\ Cardinality(0 .. n - 1) = IF 0 > n - 1 THEN 0 ELSE n - 1 - 0 + 1
    BY <2>1, FS_Interval
  <2> QED
    BY <1>1, <2>2
<1> HIDE DEF rank
<1>8. rank \in Surjection(D, 0 .. n - 1)
  BY <1>6, <1>7, FS_Injection
<1>9. i - 1 \in 0 .. n - 1
  BY <1>1
<1>10. PICK j \in D : rank[j] = i - 1
  BY <1>8, <1>9 DEF Surjection
<1> QED
  BY <1>10 DEF rank, lesser, Lesser

(* What the rules of a key, or the prefixes it stands for, capture.        *)
KeyCaptured(key) ==
  IF fit.map = "prefix" THEN {s \in Samples : \E r \in key : s \in rules[r].captured} ELSE Samples \ key

(* An order is recorded as positions.                                      *)
OrderRight ==
  fit.map = "prefix" =>
    \A key \in DOMAIN pmap :
      /\ key \in SUBSET Nat /\ IsFiniteSet(key)
      /\ \A i \in 1 .. Cardinality(key) : pmap[key].prefix[i] \in 1 .. Cardinality(key)

(* The key of a prefix tells what it captures.                             *)
LEMMA KeyIs == ASSUME NEW q PROVE KeyCaptured(Key(q)) = Captured(q)
<1>1. Captured(q) \subseteq Samples
  BY DEF Captured
<1>2. CASE fit.map = "prefix"
  <2>1. \A s \in Samples : (\E r \in ToSet(q) : s \in rules[r].captured) <=> s \in Captured(q)
    BY DEF ToSet, Captured
  <2> QED
    BY <1>1, <1>2, <2>1 DEF KeyCaptured, Key
<1>3. CASE fit.map # "prefix"
  BY <1>1, <1>3 DEF KeyCaptured, Key, NotCaptured
<1> QED
  BY <1>2, <1>3

(* The order a prefix is remembered by.                                    *)
LEMMA OrderedAt ==
  ASSUME NEW q \in Seq(Nat), IsInjective(q)
  PROVE  /\ ToSet(q) \in SUBSET Nat /\ IsFiniteSet(ToSet(q)) /\ Cardinality(ToSet(q)) = Len(q)
         /\ \A i \in 1 .. Len(q) : Ordered(q)[i] \in 1 .. Len(q)
<1>1. Len(q) \in Nat /\ DOMAIN q = 1 .. Len(q) /\ \A i \in 1 .. Len(q) : q[i] \in Nat
  OBVIOUS
<1>2. IsFiniteSet(1 .. Len(q)) /\ Cardinality(1 .. Len(q)) = Len(q)
  <2>1. Len(q) \in Int /\ 1 \in Int
    BY <1>1
  <2>2. IsFiniteSet(1 .. Len(q)) /\ Cardinality(1 .. Len(q)) = IF 1 > Len(q) THEN 0 ELSE Len(q) - 1 + 1
    BY <2>1, FS_Interval
  <2> QED
    BY <1>1, <2>2
<1>3. \A j, k \in 1 .. Len(q) : q[j] = q[k] => j = k
  BY <1>1 DEF IsInjective
<1>4. ToSet(q) = {q[i] : i \in 1 .. Len(q)}
  BY <1>1 DEF ToSet
<1>5. IsFiniteSet(ToSet(q))
  BY <1>2, <1>4, ImageFinite
<1>6. ASSUME NEW i \in 1 .. Len(q) PROVE Ordered(q)[i] \in 1 .. Len(q)
  <2>1. q \in [1 .. Len(q) -> Int]
    BY <1>1
  <2>2. \E j \in 1 .. Len(q) : Cardinality({k \in 1 .. Len(q) : q[k] < q[j]}) = i - 1
    <3> DEFINE D == 1 .. Len(q)
    <3>1. IsNumbering(q, D) /\ i \in 1 .. Cardinality(D)
      BY <1>2, <1>3, <2>1 DEF IsNumbering
    <3> HIDE DEF D
    <3>2. \E j \in D : Cardinality(Lesser(D, q, j)) = i - 1
      BY <3>1, RankReached
    <3> QED
      BY <3>2 DEF D, Lesser
  <2>3. Ordered(q)[i] = CHOOSE j \in 1 .. Len(q) : Cardinality({k \in 1 .. Len(q) : q[k] < q[j]}) = i - 1
    BY <1>1 DEF Ordered
  <2> QED
    BY <2>2, <2>3
<1> QED
  BY <1>1, <1>4, <1>5, <1>6, LengthCounts

(* The prefix taken for a key, if it is linked, has that key.              *)
LEMMA PermutedHasKey ==
  ASSUME IInv, OrderRight, NEW key \in DOMAIN pmap, fit.map # "none", Permuted(key) \in linked
  PROVE  Key(Permuted(key)) = key
<1> DEFINE p == Permuted(key)
<1>1. p \in DOMAIN nodes /\ p \in Seq(Nat) /\ IsInjective(p) /\ fit \in Fits
  BY DEF IInv, Tree, Types, Memory, NoRuleTwice
<1>2. fit.map \in {"none", "prefix", "captured"}
  BY <1>1, FitsAssumption DEF FitAssumption
<1>3. CASE fit.map = "captured"
  <2>1. p = pmap[key].prefix
    BY <1>3 DEF Permuted
  <2> QED
    BY <1>3, <2>1 DEF IInv, Memory, CapturedMapRight, Key
<1>4. CASE fit.map = "prefix"
  <2> DEFINE n == Cardinality(key)
             at == pmap[key].prefix
  <2>1. key \in SUBSET Nat /\ IsFiniteSet(key) /\ DOMAIN at = 1 .. n /\ \A i \in 1 .. n : at[i] \in 1 .. n
    BY <1>4 DEF OrderRight, IInv, Memory, PrefixMapRight
  <2>2. p = [i \in DOMAIN at |-> Sorted(key)[at[i]]]
    BY <1>4 DEF Permuted
  <2>3. ASSUME NEW j \in 1 .. n PROVE Sorted(key)[j] \in key
    <3> DEFINE f == [x \in key |-> x]
    <3>1. IsNumbering(f, key)
      BY <2>1 DEF IsNumbering
    <3>2. \E x \in key : Cardinality(Lesser(key, f, x)) = j - 1
      <4> HIDE DEF f
      <4> QED
        BY <3>1, RankReached
    <3>3. \A x \in key : Lesser(key, f, x) = {y \in key : y < x}
      BY DEF Lesser
    <3>4. \E x \in key : Cardinality({y \in key : y < x}) = j - 1
      BY <3>2, <3>3
    <3>5. Sorted(key)[j] = CHOOSE x \in key : Cardinality({y \in key : y < x}) = j - 1
      BY DEF Sorted
    <3> QED
      BY <3>4, <3>5
  <2>4. DOMAIN p = 1 .. n /\ \A i \in 1 .. n : p[i] \in key
    BY <2>1, <2>2, <2>3
  <2>5. ToSet(p) \in SUBSET key
    BY <2>4 DEF ToSet
  <2>6. Cardinality(ToSet(p)) = Len(p)
    BY <1>1, LengthCounts
  <2>7. n \in Nat
    BY <2>1, FS_CardinalityType
  <2>8. Len(p) = n
    <3>1. DOMAIN p = 1 .. Len(p) /\ Len(p) \in Nat
      BY <1>1
    <3> QED
      BY <2>4, <2>7, <3>1
  <2>9. ToSet(p) = key
    <3> HIDE DEF p
    <3> QED
      BY <2>1, <2>5, <2>6, <2>7, <2>8, ProperPart
  <2> QED
    BY <1>4, <2>9 DEF Key
<1> QED
  BY <1>2, <1>3, <1>4

-----------------------------------------------------------------------------
(* What waits                                                              *)

(* What a node's rules cost, and what the best list from there on does.    *)
Pure(q) == nodes[q].lower_bound - nodes[q].equivalent_minority

Value(q) == Pure(q) + Completion[Captured(q)]

(* The same, for the list a key of the permutation map remembers.          *)
KeyValue(key) ==
  pmap[key].lower_bound - Unit * Cardinality((Samples \ KeyCaptured(key)) \cap minority)
    + Completion[KeyCaptured(key)]

Searching == pc \in {"loop", "select", "evaluate", "collect"}

MinorityRight == pc \notin {"mine", "combine"} => MinorityIs

(* No value is better than the optimum, the root's is, and none gets better*)
(* down the tree; no list seen so far is better than the best.             *)
Valued ==
  /\ root \in DOMAIN nodes => Value(root) = Optimum
  /\ Optimum <= min_objective
  /\ \A q \in DOMAIN nodes : q \in linked \/ q = root => min_objective <= Pure(q) + Errors(NotCaptured(q))
  /\ \A q \in linked : \A k \in 0 .. Len(q) - 1 : Value(SubSeq(q, 1, k)) <= Value(q)

(* The permutation map remembers each linked node, by a bound that is no   *)
(* greater than the node's, and nothing that is better than the optimum.   *)
Remembers ==
  fit.map # "none" =>
    /\ \A q \in linked : Key(q) \in DOMAIN pmap /\ pmap[Key(q)].lower_bound <= nodes[q].lower_bound
    /\ \A key \in DOMAIN pmap : Optimum <= KeyValue(key)

(* A node whose completion is still to be looked at: it waits, or is being *)
(* evaluated and a rule with which its best completion goes on is to come. *)
Open(w) ==
  \/ w \in queue /\ ~nodes[w].deleted
  \/ Evaluating /\ w = parent /\ \E r \in RuleIds : r >= next_rule /\ GoesOn(Captured(w), r)

Promising(w) == Open(w) /\ Value(w) = Optimum

(* Until the optimum is found there is one that leads to it; and for what  *)
(* is remembered and leads to it, one that captures no less.               *)
Covered ==
  Optimum < min_objective =>
    /\ \E w \in DOMAIN nodes : Promising(w)
    /\ fit.map # "none" =>
         \A key \in DOMAIN pmap :
           KeyValue(key) = Optimum => \E w \in DOMAIN nodes : Promising(w) /\ KeyCaptured(key) \subseteq Captured(w)

Waits ==
  /\ MinorityRight /\ OrderRight
  /\ Evaluating => next_rule # 0
  /\ Searching => Valued /\ Remembers /\ Covered

-----------------------------------------------------------------------------
(* What changes with the data does not change in the search.               *)
LEMMA DataKept ==
  ASSUME UNCHANGED <<fit, rules, minority>>
  PROVE  /\ Completion' = Completion /\ Optimum' = Optimum /\ RuleIds' = RuleIds /\ Samples' = Samples
         /\ \A q : Captured(q)' = Captured(q) /\ NotCaptured(q)' = NotCaptured(q) /\ Key(q)' = Key(q)
         /\ \A S : Errors(S)' = Errors(S)
         /\ \A X, r : GoesOn(X, r)' = GoesOn(X, r)
         /\ \A key : KeyCaptured(key)' = KeyCaptured(key)
         /\ MinorityIs' = MinorityIs
<1>1. Samples' = Samples /\ RuleIds' = RuleIds
  BY DEF Samples, RuleIds
<1>2. Completion' = Completion
  BY DEF Completion, Samples, Errors, Correct, Prediction
<1>3. \A q : Captured(q)' = Captured(q) /\ NotCaptured(q)' = NotCaptured(q) /\ Key(q)' = Key(q)
  BY <1>1 DEF Captured, NotCaptured, Key
<1>4. \A S : Errors(S)' = Errors(S)
  BY DEF Errors, Correct, Prediction
<1>5. \A X, r : Adding(X, r)' = Adding(X, r)
  BY <1>1, <1>2, <1>4 DEF Adding
<1>6. ASSUME NEW X, NEW r PROVE GoesOn(X, r)' = GoesOn(X, r)
  BY <1>1, <1>2, <1>5 DEF GoesOn
<1>7. \A key : KeyCaptured(key)' = KeyCaptured(key)
  BY <1>1 DEF KeyCaptured
<1>8. MinorityIs' = MinorityIs
  BY <1>1 DEF MinorityIs, Outvoted, Twins
<1> QED
  BY <1>1, <1>2, <1>3, <1>4, <1>6, <1>7, <1>8 DEF Optimum

(* The value of a node is no less than its bound, and at least the cost of *)
(* a rule more unless its best completion is to stop.                      *)
LEMMA ValueFacts ==
  ASSUME IInv, Result, MinorityIs, NEW q \in DOMAIN nodes
  PROVE  /\ q \in Seq(Nat) /\ Captured(q) \in SUBSET Samples /\ NotCaptured(q) = Samples \ Captured(q)
         /\ NotCaptured(q) \in SUBSET Samples
         /\ nodes[q].lower_bound \in Nat /\ Pure(q) \in Int /\ Completion[Captured(q)] \in Nat /\ Value(q) \in Int
         /\ nodes[q].lower_bound = Pure(q) + Unit * Cardinality((Samples \ Captured(q)) \cap minority)
         /\ Unit * Cardinality((Samples \ Captured(q)) \cap minority) \in Nat
         /\ Errors(NotCaptured(q)) \in Nat
         /\ nodes[q].lower_bound <= Value(q) /\ Value(q) <= Pure(q) + Errors(NotCaptured(q))
         /\ Value(q) < Pure(q) + Errors(NotCaptured(q)) =>
              /\ nodes[q].lower_bound + fit.c <= Value(q)
              /\ \E r \in RuleIds : GoesOn(Captured(q), r)
<1>1. fit \in Fits /\ RulesRight /\ q \in Seq(Nat) /\ nodes[q] \in Node /\ ToSet(q) \subseteq RuleIds
  BY DEF IInv, Tree, Types, Result, NodesRight
<1>2. DOMAIN rules = RuleIds /\ \A i \in DOMAIN q : q[i] \in RuleIds
  BY <1>1 DEF RulesRight, RuleIds, ToSet
<1>3. Together(Captured(q)) /\ Captured(q) \in SUBSET Samples
  BY <1>2, PrefixTogether
<1>4. NotCaptured(q) = Samples \ Captured(q) /\ NotCaptured(q) \in SUBSET Samples
  BY DEF NotCaptured
<1> DEFINE X == Captured(q)
           least == Unit * Cardinality((Samples \ X) \cap minority)
<1>5. least \in Nat /\ least <= Completion[X] /\ (Completion[X] < Errors(Samples \ X) => least + fit.c <= Completion[X])
  <2> HIDE DEF X
  <2>1. X \in SUBSET Samples /\ Together(X)
    BY <1>3 DEF X
  <2> QED
    BY <1>1, <2>1, CompletionCosts
<1>6. /\ Completion[X] \in Nat /\ Completion[X] <= Errors(Samples \ X) /\ Errors(Samples \ X) \in Nat /\ fit.c \in Nat
      /\ Completion[X] = Errors(Samples \ X) \/ \E r \in RuleIds : GoesOn(X, r)
  <2>1. X \in SUBSET Samples /\ Samples \ X \in SUBSET Samples
    BY <1>3
  <2> HIDE DEF X
  <2> QED
    BY <1>1, <2>1, CompletionIs, Costs, FitFacts
<1>7. nodes[q].equivalent_minority = least
  BY <1>4 DEF IInv, Bounds, MinorityCounted
<1>8. nodes[q].lower_bound \in Nat
  BY <1>1 DEF Node
<1>9. Pure(q) = nodes[q].lower_bound - least /\ Value(q) = Pure(q) + Completion[X]
  BY <1>7 DEF Pure, Value
<1> HIDE DEF least, X
<1>10. /\ Pure(q) \in Int /\ Value(q) \in Int /\ nodes[q].lower_bound = Pure(q) + least
       /\ nodes[q].lower_bound <= Value(q) /\ Value(q) <= Pure(q) + Errors(Samples \ X)
       /\ Value(q) < Pure(q) + Errors(Samples \ X) =>
            /\ nodes[q].lower_bound + fit.c <= Value(q)
            /\ Completion[X] # Errors(Samples \ X)
  BY <1>5, <1>6, <1>8, <1>9
<1> QED
  BY <1>1, <1>3, <1>4, <1>5, <1>6, <1>8, <1>10 DEF X, least

(* A node that leads to the optimum, while that is to be found, is not     *)
(* hopeless, and its best completion goes on.                              *)
LEMMA OptimalStays ==
  ASSUME IInv, Result, MinorityIs, Valued, NEW q \in DOMAIN nodes, q \in linked \/ q = root,
         Value(q) < min_objective
  PROVE  ~Hopeless(nodes[q]) /\ \E r \in RuleIds : GoesOn(Captured(q), r)
<1>1. min_objective \in Int /\ fit.c \in Nat /\ LookAhead \in {0, fit.c}
  BY FitFacts DEF IInv, Tree, Types, LookAhead
<1>2. min_objective <= Pure(q) + Errors(NotCaptured(q))
  BY DEF Valued
<1>3. /\ nodes[q].lower_bound \in Nat /\ Pure(q) \in Int /\ Value(q) \in Int /\ Errors(NotCaptured(q)) \in Nat
      /\ Value(q) < Pure(q) + Errors(NotCaptured(q)) =>
              /\ nodes[q].lower_bound + fit.c <= Value(q)
              /\ \E r \in RuleIds : GoesOn(Captured(q), r)
  BY ValueFacts
<1>4. Value(q) < Pure(q) + Errors(NotCaptured(q))
  BY <1>1, <1>2, <1>3
<1>5. nodes[q].lower_bound + LookAhead < min_objective
  BY <1>1, <1>3, <1>4
<1>6. ~(nodes[q].lower_bound + LookAhead >= min_objective)
  BY <1>1, <1>3, <1>5
<1> QED
  BY <1>3, <1>4, <1>6 DEF Hopeless

(* The same of what is promising, and it is in the tree.                   *)
LEMMA PromisingIs ==
  ASSUME IInv, Result, MinorityIs, Valued, NEW w, Promising(w), Optimum < min_objective
  PROVE  /\ w \in DOMAIN nodes /\ (w \in linked \/ w = root)
         /\ ~Hopeless(nodes[w]) /\ \E r \in RuleIds : GoesOn(Captured(w), r)
<1>1. w \in DOMAIN nodes /\ (w \in linked \/ w = root)
  BY DEF Promising, Open, IInv, Tree, Types, Waiting, Evaluated
<1>2. Value(w) < min_objective
  BY DEF Promising
<1> QED
  BY <1>1, <1>2, OptimalStays

(* What is below a node is worth no more, and nothing more than the        *)
(* optimum.                                                                *)
LEMMA ValueBelow ==
  ASSUME IInv, Result, MinorityIs, Valued, NEW w \in DOMAIN nodes, w \in linked \/ w = root
  PROVE  /\ Optimum <= Value(w)
         /\ \A p \in linked : IsPrefix(p, w) => Value(p) <= Value(w)
<1>1. w \in Seq(Nat) /\ Value(w) \in Int
  BY ValueFacts
<1>2. Optimum <= Value(w)
  <2>1. CASE w = root
    BY <1>1, <2>1 DEF Valued
  <2>2. CASE w \in linked
    <3>1. w # root /\ Len(w) \in Nat
      BY <1>1, <2>2 DEF IInv, Tree, Types
    <3>2. 0 \in 0 .. Len(w) - 1
      BY <1>1, <3>1, EmptySeq DEF root
    <3>3. SubSeq(w, 1, 0) = root
      BY <1>1 DEF root
    <3>4. root \in DOMAIN nodes
      BY <2>2, <3>2, <3>3 DEF IInv, Tree, Rooted
    <3>5. Value(root) <= Value(w) /\ Value(root) = Optimum
      BY <2>2, <3>2, <3>3, <3>4 DEF Valued
    <3> QED
      BY <3>5
  <2> QED
    BY <2>1, <2>2
<1>3. ASSUME NEW p \in linked, IsPrefix(p, w) PROVE Value(p) <= Value(w)
  <2>1. p \in Seq(Nat) /\ p # root
    BY DEF IInv, Tree, Types
  <2>2. Len(p) \in 0 .. Len(w) /\ p = SubSeq(w, 1, Len(p)) /\ Len(w) \in Nat
    BY <1>1, <1>3, <2>1, PrefixIs
  <2>3. CASE Len(p) = Len(w)
    <3>1. p = w
      BY <1>1, <2>2, <2>3, SubSeqFull
    <3> QED
      BY <1>1, <3>1
  <2>4. CASE Len(p) # Len(w)
    <3>1. Len(p) \in 0 .. Len(w) - 1
      BY <2>2, <2>4
    <3>2. w # root
      BY <3>1 DEF root
    <3> QED
      BY <2>2, <3>1, <3>2 DEF Valued
  <2> QED
    BY <2>3, <2>4
<1> QED
  BY <1>2, <1>3

-----------------------------------------------------------------------------
(* The steps that add no node                                              *)

(* What keeps its bound keeps its value.                                   *)
LEMMA ValueKept ==
  ASSUME UNCHANGED <<fit, rules, minority>>, NEW q,
         nodes'[q].lower_bound = nodes[q].lower_bound,
         nodes'[q].equivalent_minority = nodes[q].equivalent_minority
  PROVE  Pure(q)' = Pure(q) /\ Value(q)' = Value(q)
<1>1. Completion' = Completion /\ Captured(q)' = Captured(q)
  BY DataKept
<1> QED
  BY <1>1 DEF Pure, Value

(* What is remembered of a key, and so what it is worth.                   *)
LEMMA KeyValueKept ==
  ASSUME UNCHANGED <<fit, rules, minority>>, NEW key, pmap'[key] = pmap[key]
  PROVE  KeyValue(key)' = KeyValue(key)
<1>1. Completion' = Completion /\ KeyCaptured(key)' = KeyCaptured(key) /\ Samples' = Samples
  BY DataKept
<1> QED
  BY <1>1 DEF KeyValue

(* A step that drops nodes and nothing else.                               *)
OnlyDrops ==
  /\ UNCHANGED <<fit, rules, minority, min_objective, pmap>>
  /\ linked' \subseteq linked /\ DOMAIN nodes' \subseteq DOMAIN nodes
  /\ \A q \in DOMAIN nodes' : /\ nodes'[q].lower_bound = nodes[q].lower_bound
                              /\ nodes'[q].equivalent_minority = nodes[q].equivalent_minority

(* It changes no values and nothing that is remembered.                    *)
LEMMA ValuedKept ==
  ASSUME Tree', Valued, Remembers, OnlyDrops
  PROVE  Valued' /\ Remembers'
<1>1. UNCHANGED <<fit, rules, minority, min_objective, pmap>>
      /\ linked' \subseteq linked /\ DOMAIN nodes' \subseteq DOMAIN nodes
  BY DEF OnlyDrops
<1>2. \A q \in DOMAIN nodes' : Pure(q)' = Pure(q) /\ Value(q)' = Value(q)
  BY ValueKept DEF OnlyDrops
<1>3. Optimum' = Optimum /\ (\A q : Errors(NotCaptured(q))' = Errors(NotCaptured(q))) /\ \A q : Key(q)' = Key(q)
  <2>1. \A q : NotCaptured(q)' = NotCaptured(q) /\ Key(q)' = Key(q)
    BY <1>1, DataKept
  <2>2. \A S : Errors(S)' = Errors(S)
    BY <1>1, DataKept
  <2> QED
    BY <1>1, <2>1, <2>2, DataKept DEF Errors, Correct, Prediction
<1>4. root' = root
  BY DEF root
<1>5. \A q \in DOMAIN nodes' : q \in linked' \/ q = root => min_objective' <= Pure(q)' + Errors(NotCaptured(q))'
  BY <1>1, <1>2, <1>3 DEF Valued
<1>6. ASSUME NEW q \in linked', NEW k \in 0 .. Len(q) - 1 PROVE Value(SubSeq(q, 1, k))' <= Value(q)'
  <2>1. q \in linked /\ q \in DOMAIN nodes' /\ SubSeq(q, 1, k) \in DOMAIN nodes'
    BY <1>1, <1>6 DEF Tree, Types, Rooted
  <2>2. Value(SubSeq(q, 1, k)) <= Value(q)
    BY <1>6, <2>1 DEF Valued
  <2>3. Value(SubSeq(q, 1, k))' = Value(SubSeq(q, 1, k))
    BY <1>2, <2>1
  <2>4. Value(q)' = Value(q)
    BY <1>2, <2>1
  <2> QED
    BY <2>2, <2>3, <2>4
<1>7. Valued'
  <2>1. root' \in DOMAIN nodes' => Value(root)' = Optimum'
    <3>1. ASSUME root \in DOMAIN nodes' PROVE Value(root)' = Optimum
      <4>1. Value(root)' = Value(root) /\ root \in DOMAIN nodes
        BY <1>1, <1>2, <3>1
      <4> QED
        BY <4>1 DEF Valued
    <3> QED
      BY <1>3, <1>4, <3>1
  <2>2. Optimum' <= min_objective'
    BY <1>1, <1>3 DEF Valued
  <2> QED
    BY <1>4, <1>5, <1>6, <2>1, <2>2 DEF Valued
<1>8. Remembers'
  <2>1. \A key : KeyValue(key)' = KeyValue(key)
    BY <1>1, KeyValueKept
  <2>2. \A q \in linked' : q \in DOMAIN nodes'
    BY DEF Tree, Types
  <2> QED
    BY <1>1, <1>3, <2>1, <2>2 DEF Remembers, OnlyDrops
<1> QED
  BY <1>7, <1>8

(* The optimum is a cost.                                                  *)
LEMMA OptimumIs == ASSUME fit \in Fits, RulesRight PROVE Optimum \in Nat
<1>1. {} \in SUBSET Samples
  OBVIOUS
<1> QED
  BY <1>1, CompletionIs DEF Optimum

(* What was covered is, if what was promising still is or leads to what is *)
(* now, and so is all that is remembered anew.                             *)
LEMMA CoverKept ==
  ASSUME IInv, Result, min_objective' \in Int, Covered, UNCHANGED <<fit, rules, minority>>,
         min_objective' <= min_objective,
         Optimum < min_objective' /\ Optimum < min_objective =>
           /\ \A w \in DOMAIN nodes :
                Promising(w) => \E v \in DOMAIN nodes' : Promising(v)' /\ Captured(w) \subseteq Captured(v)
           /\ fit.map # "none" =>
                \A key \in DOMAIN pmap' :
                  \/ key \in DOMAIN pmap /\ KeyValue(key)' = KeyValue(key)
                  \/ KeyValue(key)' # Optimum
                  \/ \E v \in DOMAIN nodes' : Promising(v)' /\ KeyCaptured(key) \subseteq Captured(v)
  PROVE  Covered'
<1>1. Optimum' = Optimum /\ (\A q : Captured(q)' = Captured(q)) /\ \A key : KeyCaptured(key)' = KeyCaptured(key)
  BY DataKept
<1> SUFFICES ASSUME Optimum < min_objective'
             PROVE  /\ \E w \in DOMAIN nodes' : Promising(w)'
                    /\ fit.map # "none" =>
                         \A key \in DOMAIN pmap' :
                           KeyValue(key)' = Optimum =>
                             \E w \in DOMAIN nodes' : Promising(w)' /\ KeyCaptured(key) \subseteq Captured(w)
  BY <1>1 DEF Covered
<1>2. Optimum \in Nat /\ min_objective \in Int
  BY OptimumIs DEF IInv, Tree, Types, Result
<1>3. Optimum < min_objective
  BY <1>2
<1>4. \A w \in DOMAIN nodes :
        Promising(w) => \E v \in DOMAIN nodes' : Promising(v)' /\ Captured(w) \subseteq Captured(v)
  BY <1>3
<1>5. \E w \in DOMAIN nodes' : Promising(w)'
  BY <1>3, <1>4 DEF Covered
<1>6. ASSUME fit.map # "none", NEW key \in DOMAIN pmap', KeyValue(key)' = Optimum
      PROVE  \E w \in DOMAIN nodes' : Promising(w)' /\ KeyCaptured(key) \subseteq Captured(w)
  <2>1. CASE key \in DOMAIN pmap /\ KeyValue(key)' = KeyValue(key)
    <3>1. PICK w \in DOMAIN nodes : Promising(w) /\ KeyCaptured(key) \subseteq Captured(w)
      BY <1>3, <1>6, <2>1 DEF Covered
    <3>2. PICK v \in DOMAIN nodes' : Promising(v)' /\ Captured(w) \subseteq Captured(v)
      BY <1>4, <3>1
    <3> QED
      BY <3>1, <3>2
  <2> QED
    BY <1>3, <1>6, <2>1
<1> QED
  BY <1>5, <1>6

(* The steps that neither mine, begin nor extend, which only drop nodes.   *)
Dropping ==
  \/ Discard \/ Select \/ Skip \/ Continue \/ Done \/ PruneUp \/ Collect
  \/ \E early \in BOOLEAN : End(early)

(* They do no more than that.                                              *)
LEMMA DroppingIs ==
  ASSUME Result, Dropping
  PROVE  OnlyDrops /\ Searching
<1>1. RulesRight /\ NodesRight /\ OthersRight
  BY DEF Result
<1>2. /\ UNCHANGED <<fit, rules, bestVars, pmap>>
      /\ linked' \subseteq linked /\ DOMAIN nodes' \subseteq DOMAIN nodes
      /\ \A q \in DOMAIN nodes' : /\ nodes'[q].lower_bound = nodes[q].lower_bound
                                  /\ nodes'[q].equivalent_minority = nodes[q].equivalent_minority
  BY <1>1, StepLeaves DEF Dropping
<1>3. minority' = minority /\ Searching
  BY DEF Dropping, Searching, Discard, Select, Skip, Continue, Done, PruneUp, Collect, End
<1> QED
  BY <1>2, <1>3 DEF OnlyDrops, bestVars

(* They keep what waits if what is promising stays open.                   *)
LEMMA DroppingWaits ==
  ASSUME IInv, Tree', Result, Waits, Dropping, Evaluating' => next_rule' # 0,
         Searching' /\ Optimum < min_objective =>
           \A w \in DOMAIN nodes : Promising(w) => w \in DOMAIN nodes' /\ Open(w)'
  PROVE  Waits'
<1>1. OnlyDrops /\ Searching
  BY DroppingIs
<1>2. UNCHANGED <<fit, rules, minority, min_objective, pmap>>
  BY <1>1 DEF OnlyDrops
<1>3. MinorityIs /\ OrderRight /\ Valued /\ Remembers /\ Covered
  BY <1>1 DEF Waits, MinorityRight, Searching
<1>4. MinorityRight'
  <2>1. MinorityIs' = MinorityIs
    BY <1>2, DataKept
  <2> QED
    BY <1>3, <2>1 DEF MinorityRight
<1>5. OrderRight'
  BY <1>2, <1>3 DEF OrderRight
<1>6. Valued' /\ Remembers'
  BY <1>1, <1>3, ValuedKept
<1>7. ASSUME Searching' PROVE Covered'
  <2>1. min_objective' \in Int /\ min_objective' <= min_objective
    BY <1>2 DEF IInv, Tree, Types
  <2>2. Optimum' = Optimum /\ \A q : Captured(q)' = Captured(q)
    BY <1>2, DataKept
  <2>3. ASSUME Optimum < min_objective, NEW w \in DOMAIN nodes, Promising(w)
        PROVE  w \in DOMAIN nodes' /\ Promising(w)'
    <3>1. w \in DOMAIN nodes' /\ Open(w)'
      BY <1>7, <2>3
    <3>2. Value(w)' = Value(w)
      BY <1>1, <1>2, <3>1, ValueKept DEF OnlyDrops
    <3> QED
      BY <2>2, <2>3, <3>1, <3>2 DEF Promising
  <2>4. \A key : KeyValue(key)' = KeyValue(key)
    BY <1>2, KeyValueKept
  <2> QED
    BY <1>2, <1>3, <2>1, <2>3, <2>4, CoverKept
<1> QED
  BY <1>4, <1>5, <1>6, <1>7 DEF Waits

(* What is open stays so as long as it stays in the queue unmarked.        *)
LEMMA QueuedStays ==
  ASSUME NEW w, Promising(w), ~Evaluating
  PROVE  w \in queue /\ ~nodes[w].deleted
BY DEF Promising, Open

(* Queue::select frees nothing that leads to the optimum.                  *)
LEMMA DiscardWaits == IInv /\ Tree' /\ Result /\ Waits /\ Discard => Waits'
<1> SUFFICES ASSUME IInv, Tree', Result, Waits, Discard PROVE Waits'
  OBVIOUS
<1>1. PICK top \in Tops :
        /\ pc = "select" /\ pc' \in {"loop", "select"}
        /\ nodes[top].deleted \/ Hopeless(nodes[top])
        /\ queue' = queue \ {top}
        /\ nodes' = [q \in DOMAIN nodes \ {top} |-> nodes[q]]
  BY DEF Discard
<1>2. ~Evaluating' /\ ~Evaluating /\ MinorityIs /\ Valued
  BY <1>1 DEF Evaluating, Waits, MinorityRight, Searching
<1>3. ASSUME Optimum < min_objective, NEW w \in DOMAIN nodes, Promising(w)
      PROVE  w \in DOMAIN nodes' /\ Open(w)'
  <2>1. w \in queue /\ ~nodes[w].deleted /\ ~Hopeless(nodes[w])
    BY <1>2, <1>3, QueuedStays, PromisingIs
  <2>2. w # top
    BY <1>1, <2>1
  <2>3. w \in DOMAIN nodes' /\ nodes'[w] = nodes[w] /\ w \in queue'
    BY <1>1, <2>1, <2>2
  <2> QED
    BY <2>1, <2>3 DEF Open
<1> QED
  BY <1>2, <1>3, DroppingWaits DEF Dropping

(* What it selects is evaluated from the first rule on.                    *)
LEMMA SelectWaits == IInv /\ Tree' /\ Result /\ Waits /\ Select => Waits'
<1> SUFFICES ASSUME IInv, Tree', Result, Waits, Select PROVE Waits'
  OBVIOUS
<1>1. PICK top \in Tops :
        /\ pc = "select" /\ pc' = "evaluate"
        /\ queue' = queue \ {top}
        /\ parent' = top /\ next_rule' = 1
        /\ UNCHANGED <<fit, rules, minority, nodes>>
  BY DEF Select, treeVars
<1>2. Evaluating' /\ ~Evaluating /\ MinorityIs /\ Valued
  BY <1>1 DEF Evaluating, Waits, MinorityRight, Searching
<1>3. ASSUME Optimum < min_objective, NEW w \in DOMAIN nodes, Promising(w)
      PROVE  w \in DOMAIN nodes' /\ Open(w)'
  <2>1. w \in queue /\ ~nodes[w].deleted /\ \E r \in RuleIds : GoesOn(Captured(w), r)
    BY <1>2, <1>3, QueuedStays, PromisingIs
  <2>2. CASE w = top
    <3>1. PICK r \in RuleIds : GoesOn(Captured(w), r)
      BY <2>1
    <3>2. RuleIds' = RuleIds /\ GoesOn(Captured(w), r)' = GoesOn(Captured(w), r) /\ Captured(w)' = Captured(w)
      BY <1>1, DataKept
    <3>3. GoesOn(Captured(w), r)' /\ r >= 1
      BY <3>1, <3>2 DEF RuleIds
    <3> QED
      BY <1>1, <1>2, <2>2, <3>1, <3>2, <3>3 DEF Open
  <2>3. CASE w # top
    BY <1>1, <2>1, <2>3 DEF Open
  <2> QED
    BY <1>1, <2>2, <2>3
<1>4. next_rule' # 0
  BY <1>1
<1> QED
  BY <1>3, <1>4, DroppingWaits DEF Dropping

(* Calling the loop again changes nothing.                                 *)
LEMMA ContinueWaits == IInv /\ Tree' /\ Result /\ Waits /\ Continue => Waits'
<1> SUFFICES ASSUME IInv, Tree', Result, Waits, Continue PROVE Waits'
  OBVIOUS
<1>1. ~Evaluating' /\ ~Evaluating /\ UNCHANGED <<nodes, queue>>
  BY DEF Continue, searchVars, treeVars, Evaluating
<1>2. ASSUME NEW w \in DOMAIN nodes, Promising(w) PROVE w \in DOMAIN nodes' /\ Open(w)'
  BY <1>1, <1>2, QueuedStays DEF Open
<1> QED
  BY <1>1, <1>2, DroppingWaits DEF Dropping

(* When every rule has been tried nothing is open in the node evaluated;   *)
(* what goes with it waits for nothing.                                    *)
LEMMA FinishWaits == IInv /\ Tree' /\ Result /\ Waits /\ (Done \/ PruneUp) => Waits'
<1> SUFFICES ASSUME IInv, Tree', Result, Waits, Done \/ PruneUp PROVE Waits'
  OBVIOUS
<1>1. /\ Evaluating /\ ~Evaluating' /\ next_rule \notin RuleIds /\ queue' = queue
      /\ \A w \in DOMAIN nodes : w \in DOMAIN nodes' /\ w # parent => nodes'[w] = nodes[w]
  <2>1. CASE Done
    BY <2>1 DEF Done, Evaluating
  <2>2. CASE PruneUp
    BY <2>2, PruneUpIs DEF PruneUp, Evaluating
  <2> QED
    BY <2>1, <2>2
<1>2. next_rule \in 0 .. Len(rules) + 1 /\ Len(rules) \in Nat /\ next_rule # 0
  BY <1>1 DEF Waits, Result, OthersRight, RulesRight
<1>3. \A r \in RuleIds : ~(r >= next_rule)
  BY <1>1, <1>2 DEF RuleIds
<1>4. parent \notin queue /\ queue' \subseteq DOMAIN nodes'
  BY <1>1 DEF IInv, Tree, Evaluated, Types
<1>5. ASSUME NEW w \in DOMAIN nodes, Promising(w) PROVE w \in DOMAIN nodes' /\ Open(w)'
  <2>1. w \in queue /\ ~nodes[w].deleted
    BY <1>3, <1>5 DEF Promising, Open
  <2> QED
    BY <1>1, <1>4, <2>1 DEF Open
<1> QED
  BY <1>1, <1>5, DroppingWaits DEF Dropping

(* Garbage collection drops no node that leads to the optimum: nothing     *)
(* above it is hopeless.                                                   *)
LEMMA CollectWaits == IInv /\ Tree' /\ Result /\ Waits /\ Collect => Waits'
<1> SUFFICES ASSUME IInv, Tree', Result, Waits, Collect PROVE Waits'
  OBVIOUS
<1>1. /\ ~Evaluating /\ ~Evaluating' /\ queue' = queue
      /\ nodes' = NodesWithout(Garbage) \/ nodes' = nodes
  BY DEF Collect, treeVars, Evaluating
<1>2. MinorityIs /\ Valued
  BY DEF Waits, MinorityRight, Searching, Collect
<1>3. queue' \subseteq DOMAIN nodes'
  BY DEF Tree, Types
<1>4. ASSUME Optimum < min_objective, NEW w \in DOMAIN nodes, Promising(w)
      PROVE  w \in DOMAIN nodes' /\ Open(w)'
  <2>1. w \in queue /\ ~nodes[w].deleted /\ (w \in linked \/ w = root)
    BY <1>1, <1>2, <1>4, QueuedStays, PromisingIs
  <2>2. w \notin Below(Garbage)
    <3> SUFFICES ASSUME w \in Below(Garbage) PROVE FALSE
      OBVIOUS
    <3>1. Garbage \in SUBSET linked /\ \A p \in Garbage : Hopeless(nodes[p])
      BY DEF Garbage
    <3>2. PICK p \in Garbage : IsPrefix(p, w)
      BY <1>1, <3>1, LinkedBelow DEF IInv, Tree
    <3>3. Value(p) <= Value(w) /\ p \in linked /\ p \in DOMAIN nodes
      BY <1>2, <2>1, <3>1, <3>2, ValueBelow DEF IInv, Tree, Types
    <3>4. Value(w) = Optimum /\ Value(p) \in Int /\ Optimum \in Nat /\ min_objective \in Int
      BY <1>2, <1>4, <3>3, ValueFacts, OptimumIs DEF Promising, IInv, Tree, Types, Result
    <3>5. Value(p) < min_objective
      BY <1>4, <3>3, <3>4
    <3> QED
      BY <1>2, <3>1, <3>3, <3>5, OptimalStays
  <2>3. w \in DOMAIN nodes' /\ nodes'[w] = nodes[w]
    BY <1>1, <1>3, <2>1, <2>2 DEF NodesWithout, Below
  <2> QED
    BY <1>1, <2>1, <2>3 DEF Open
<1> QED
  BY <1>1, <1>4, DroppingWaits DEF Dropping

(* When the search has ended nothing needs to wait.                        *)
LEMMA EndWaits ==
  ASSUME IInv, Tree', Result, Waits, NEW early \in BOOLEAN, End(early)
  PROVE  Waits'
<1>1. ~Searching' /\ ~Evaluating'
  BY EndIs DEF Searching, Evaluating
<1> QED
  BY <1>1, DroppingWaits DEF Dropping

(* A rule that is passed over is none with which the best completion goes  *)
(* on: that captures something more, enough of it, and costs too little.   *)
LEMMA SkipWaits == IInv /\ Tree' /\ Result /\ Waits /\ Skip => Waits'
<1> SUFFICES ASSUME IInv, Tree', Result, Waits, Skip PROVE Waits'
  OBVIOUS
<1>1. /\ Evaluating /\ Evaluating' /\ next_rule \in RuleIds /\ Worthless /\ next_rule' = next_rule + 1
      /\ UNCHANGED <<fit, rules, minority, nodes, queue, parent>>
  BY DEF Skip, treeVars, Evaluating
<1>2. MinorityIs /\ Valued /\ fit \in Fits /\ RulesRight /\ next_rule \in Nat /\ min_objective \in Int
      /\ parent \in DOMAIN nodes
  BY <1>1 DEF Waits, MinorityRight, Searching, IInv, Tree, Types, Result, Evaluated, Evaluating
<1>3. ASSUME Optimum < min_objective, Value(parent) = Optimum PROVE ~GoesOn(Captured(parent), next_rule)
  <2> SUFFICES ASSUME GoesOn(Captured(parent), next_rule) PROVE FALSE
    OBVIOUS
  <2> DEFINE X == Captured(parent)
  <2>1. X \in SUBSET Samples /\ NotCaptured(parent) = Samples \ X /\ Value(parent) = Pure(parent) + Completion[X]
        /\ Pure(parent) \in Int
    BY <1>2, ValueFacts DEF Value
  <2>2. NewlyCaptured = rules[next_rule].captured \cap (Samples \ X) /\ NewlyCaptured # {}
    BY <2>1 DEF NewlyCaptured, GoesOn
  <2>3. next_rule \notin ToSet(parent)
    <3> SUFFICES ASSUME NEW i \in DOMAIN parent, parent[i] = next_rule PROVE FALSE
      BY DEF ToSet
    <3>1. \A s \in Samples : s \in rules[next_rule].captured => s \in X
      BY DEF Captured
    <3> QED
      BY <2>2, <3>1
  <2>4. ~Unsupported(Cardinality(NewlyCaptured)) /\ ~Unsupported(Correct(NewlyCaptured))
    BY <1>2, <2>1, <2>2, GoesOnSupported
  <2>5. PureBound = Pure(parent) + Errors(NewlyCaptured) + fit.c
    BY DEF PureBound, Pure
  <2> DEFINE Y == X \cup rules[next_rule].captured
  <2>6. Completion[X] = Errors(NewlyCaptured) + fit.c + Completion[Y]
    BY <2>2 DEF GoesOn, Adding
  <2>7. Y \in SUBSET Samples
    BY <1>1, <1>2, <2>1 DEF RulesRight, RuleIds
  <2>8. Completion[Y] \in Nat /\ Errors(NewlyCaptured) \in Nat /\ fit.c \in Nat /\ Optimum \in Nat
    <3> HIDE DEF Y
    <3> QED
      BY <1>2, <2>1, <2>2, <2>7, CompletionIs, Costs, FitFacts, OptimumIs
  <2> HIDE DEF X, Y
  <2>9. PureBound < min_objective
    BY <1>2, <1>3, <2>1, <2>5, <2>6, <2>8
  <2> QED
    BY <1>1, <1>2, <2>1, <2>3, <2>4, <2>5, <2>8, <2>9 DEF Worthless
<1>4. ASSUME Optimum < min_objective, NEW w \in DOMAIN nodes, Promising(w)
      PROVE  w \in DOMAIN nodes' /\ Open(w)'
  <2>1. CASE w \in queue /\ ~nodes[w].deleted
    BY <1>1, <2>1 DEF Open
  <2>2. CASE ~(w \in queue /\ ~nodes[w].deleted)
    <3>1. w = parent /\ Value(w) = Optimum /\ \E r \in RuleIds : r >= next_rule /\ GoesOn(Captured(w), r)
      BY <1>4, <2>2 DEF Promising, Open
    <3>2. PICK r \in RuleIds : r >= next_rule /\ GoesOn(Captured(w), r)
      BY <3>1
    <3>3. r # next_rule /\ r \in Nat
      BY <1>3, <1>4, <3>1, <3>2 DEF RuleIds
    <3>4. r >= next_rule'
      BY <1>1, <1>2, <3>2, <3>3
    <3>5. RuleIds' = RuleIds /\ GoesOn(Captured(w), r)' = GoesOn(Captured(w), r) /\ Captured(w)' = Captured(w)
      BY <1>1, DataKept
    <3> QED
      BY <1>1, <3>1, <3>2, <3>4, <3>5 DEF Open
  <2> QED
    BY <1>1, <2>1, <2>2
<1>5. next_rule' # 0
  BY <1>1, <1>2
<1> QED
  BY <1>4, <1>5, DroppingWaits DEF Dropping

-----------------------------------------------------------------------------
(* The steps before the search                                             *)

(* Mining ends with the minority.                                          *)
LEMMA MineWaits == IInv /\ Waits /\ MineStep /\ UNCHANGED searchVars => Waits'
<1> SUFFICES ASSUME IInv, Waits, MineStep, UNCHANGED searchVars PROVE Waits'
  OBVIOUS
<1>1. pc \in {"mine", "combine"} /\ pc' \in {"mine", "combine", "begin"} /\ fit' = fit
  BY MineIs
<1>2. OrderRight'
  <2>1. pmap' = pmap /\ pmap = <<>>
    BY <1>1 DEF searchVars, IInv, Tree, NotBegun
  <2> QED
    BY <1>1, <2>1 DEF OrderRight
<1>3. MinorityRight'
  <2> SUFFICES ASSUME pc' = "begin" PROVE MinorityIs'
    BY <1>1 DEF MinorityRight
  <2>1. minority' = {s \in Samples : Outvoted(s)} /\ UNCHANGED <<fit, rules>>
    BY DEF MineStep, MineLiteral, MinedLiterals, MineCombination, FindMinority
  <2>2. Samples' = Samples /\ \A s : Outvoted(s)' = Outvoted(s)
    BY <2>1 DEF Samples, Outvoted, Twins
  <2> QED
    BY <2>1, <2>2 DEF MinorityIs
<1> QED
  BY <1>1, <1>2, <1>3 DEF Waits, Searching, Evaluating

(* The search begins with the root, from which any list is reached.        *)
LEMMA BeginWaits == IInv /\ Result /\ Waits /\ Begin => Waits'
<1> SUFFICES ASSUME IInv, Result, Waits, Begin PROVE Waits'
  OBVIOUS
<1>1. /\ pc = "begin" /\ pc' = "loop" /\ DOMAIN nodes' = {root}
      /\ nodes'[root].lower_bound = Unit * Cardinality(minority)
      /\ nodes'[root].equivalent_minority = Unit * Cardinality(minority)
      /\ ~nodes'[root].deleted /\ queue' = {root}
      /\ min_objective' = Errors(Samples)
      /\ UNCHANGED <<fit, rules, minority, linked, pmap>>
  BY BeginIs
<1>2. linked = {} /\ pmap = <<>> /\ fit \in Fits /\ RulesRight /\ minority \in SUBSET Samples /\ MinorityIs
  BY <1>1 DEF IInv, Tree, Types, NotBegun, Result, Waits, MinorityRight
<1>3. /\ Completion' = Completion /\ Optimum' = Optimum /\ (\A q : Captured(q)' = Captured(q))
      /\ (\A q : NotCaptured(q)' = NotCaptured(q)) /\ (\A S : Errors(S)' = Errors(S)) /\ MinorityIs' = MinorityIs
  BY <1>1, DataKept
<1>4. Captured(root) = {} /\ NotCaptured(root) = Samples
  BY DEF Captured, NotCaptured, root
<1>5. Pure(root)' = 0 /\ Value(root)' = Optimum
  <2>1. Unit * Cardinality(minority) \in Nat /\ Optimum \in Nat
    BY <1>2, Counts, OptimumIs
  <2>2. Pure(root)' = Unit * Cardinality(minority) - Unit * Cardinality(minority)
    BY <1>1 DEF Pure
  <2>3. Pure(root)' = 0
    BY <2>1, <2>2
  <2>4. Value(root)' = 0 + Optimum
    BY <1>3, <1>4, <2>3 DEF Value, Optimum
  <2> QED
    BY <2>1, <2>3, <2>4
<1>6. Errors(Samples) \in Nat /\ Optimum <= Errors(Samples)
  <2>1. {} \in SUBSET Samples /\ Samples \ {} = Samples /\ Samples \in SUBSET Samples
    OBVIOUS
  <2>2. Errors(Samples) \in Nat
    BY <1>2, <2>1, Costs
  <2>3. Completion[{}] <= Errors(Samples \ {})
    BY <1>2, <2>1, CompletionIs
  <2> QED
    BY <2>1, <2>2, <2>3 DEF Optimum
<1>7. root' = root
  BY DEF root
<1>8. Valued'
  <2>1. min_objective' <= Pure(root)' + Errors(NotCaptured(root))'
    <3>1. Errors(NotCaptured(root))' = Errors(Samples)
      BY <1>1, <1>3, <1>4 DEF Errors, Correct, Prediction
    <3> QED
      BY <1>1, <1>5, <1>6, <3>1
  <2> QED
    BY <1>1, <1>2, <1>3, <1>5, <1>6, <1>7, <2>1 DEF Valued
<1>9. Remembers' /\ OrderRight'
  BY <1>1, <1>2 DEF Remembers, OrderRight
<1>10. Covered'
  <2>1. Promising(root)'
    BY <1>1, <1>3, <1>5 DEF Promising, Open
  <2>2. DOMAIN pmap' = {}
    BY <1>1, <1>2
  <2> QED
    BY <1>1, <2>1, <2>2 DEF Covered
<1> QED
  BY <1>1, <1>2, <1>3, <1>8, <1>9, <1>10 DEF Waits, MinorityRight, Searching, Evaluating

-----------------------------------------------------------------------------
(* Another rule                                                            *)

(* What the new list can be completed to.                                  *)
NewValue == PureBound + Completion[Captured(NewPrefix)]

NewMinority == Unit * Cardinality((Samples \ Captured(NewPrefix)) \cap minority)

(* It is no less than what its parent can be, the same if the best         *)
(* completion of the parent goes on with the new rule; and its bounds are  *)
(* right.                                                                  *)
LEMMA NewValueIs ==
  ASSUME IInv, Result, MinorityIs, Evaluating, next_rule \in RuleIds, next_rule \notin ToSet(parent)
  PROVE  /\ PureBound \in Nat /\ NewLower \in Nat /\ NewObjective \in Nat /\ NewBest \in Nat /\ NewValue \in Nat
         /\ NewMinority \in Nat /\ NewLower = PureBound + NewMinority
         /\ NewObjective = PureBound + Errors(NotCaptured(NewPrefix))
         /\ Value(parent) \in Int /\ Value(parent) <= NewValue /\ NewValue <= NewObjective
         /\ NewValue < NewObjective => NewLower + fit.c <= NewValue
         /\ Captured(parent) \subseteq Captured(NewPrefix)
         /\ GoesOn(Captured(parent), next_rule) =>
              NewValue = Value(parent) /\ Captured(parent) # Captured(NewPrefix)
<1> DEFINE X == Captured(parent)
           S == rules[next_rule].captured
           Y == Captured(NewPrefix)
<1>1. /\ fit \in Fits /\ RulesRight /\ parent \in Seq(Nat) /\ next_rule \in Nat /\ parent \in DOMAIN nodes
      /\ Len(parent) \in Nat
  BY DEF IInv, Tree, Types, Result, Evaluated
<1>2. /\ PureBound \in Nat /\ NewLower \in Nat /\ NewObjective \in Nat /\ NewBest \in Nat
      /\ ToSet(NewPrefix) \subseteq RuleIds
  BY NewInRange
<1>3. /\ X \in SUBSET Samples /\ NotCaptured(parent) = Samples \ X /\ Value(parent) \in Int
      /\ Pure(parent) \in Int /\ Value(parent) = Pure(parent) + Completion[X]
  BY <1>1, ValueFacts DEF Value
<1>4. S \in SUBSET Samples /\ DOMAIN rules = RuleIds
  BY <1>1 DEF RulesRight, RuleIds
<1>5. Y = X \cup S
  <2>1. NewPrefix = Append(parent, next_rule) /\ NewPrefix \in Seq(Nat) /\ Len(NewPrefix) = Len(parent) + 1
    BY NewFacts DEF NewPrefix
  <2>2. /\ DOMAIN NewPrefix = 1 .. Len(parent) + 1 /\ DOMAIN parent = 1 .. Len(parent)
        /\ (\A i \in 1 .. Len(parent) : NewPrefix[i] = parent[i]) /\ NewPrefix[Len(parent) + 1] = next_rule
    BY <1>1, <2>1, AppendProperties
  <2>3. \A i : i \in DOMAIN NewPrefix <=> i \in DOMAIN parent \/ i = Len(parent) + 1
    BY <1>1, <2>2
  <2> QED
    BY <1>4, <2>2, <2>3 DEF Captured
<1>6. Together(Y) /\ Y \in SUBSET Samples
  <2>1. \A i \in DOMAIN NewPrefix : NewPrefix[i] \in RuleIds
    BY <1>2 DEF ToSet
  <2> QED
    BY <1>4, <2>1, PrefixTogether
<1>7. NotCaptured(NewPrefix) = Samples \ Y
  BY DEF NotCaptured
<1>8. NewlyCaptured = S \cap (Samples \ X)
  BY <1>3 DEF NewlyCaptured
<1>9. PureBound = Pure(parent) + Errors(S \cap (Samples \ X)) + fit.c
  BY <1>8 DEF PureBound, Pure
<1>10. Adding(X, next_rule) = Errors(S \cap (Samples \ X)) + fit.c + Completion[Y]
  BY <1>5 DEF Adding
<1>11. GoesOn(X, next_rule) => Completion[X] = Adding(X, next_rule) /\ S \cap (Samples \ X) # {}
  BY DEF GoesOn
<1>12. NewLower = PureBound + NewMinority /\ NewObjective = PureBound + Errors(Samples \ Y)
       /\ NewValue = PureBound + Completion[Y] /\ NewMinority = Unit * Cardinality((Samples \ Y) \cap minority)
  BY <1>7 DEF NewLower, NewObjective, NewLeft, NewMinority, NewValue
<1> HIDE DEF X, S, Y
<1>13. S \cap (Samples \ X) \in SUBSET Samples /\ Samples \ Y \in SUBSET Samples
  BY <1>3, <1>4
<1>14. /\ Completion[X] \in Nat /\ Completion[X] <= Adding(X, next_rule)
       /\ Completion[Y] \in Nat /\ Completion[Y] <= Errors(Samples \ Y)
       /\ Errors(S \cap (Samples \ X)) \in Nat /\ Errors(Samples \ Y) \in Nat /\ fit.c \in Nat
  BY <1>1, <1>3, <1>6, <1>13, CompletionIs, Costs, FitFacts
<1>15. NewMinority \in Nat /\ NewMinority <= Completion[Y]
       /\ (Completion[Y] < Errors(Samples \ Y) => NewMinority + fit.c <= Completion[Y])
  BY <1>1, <1>6, <1>12, CompletionCosts
<1>16. /\ NewValue \in Nat /\ Value(parent) <= NewValue /\ NewValue <= NewObjective
       /\ NewValue < NewObjective => NewLower + fit.c <= NewValue
       /\ GoesOn(X, next_rule) => NewValue = Value(parent)
  BY <1>2, <1>3, <1>9, <1>10, <1>11, <1>12, <1>14, <1>15
<1>17. X \subseteq Y /\ (GoesOn(X, next_rule) => X # Y)
  BY <1>5, <1>11
<1> QED
  BY <1>2, <1>3, <1>7, <1>12, <1>15, <1>16, <1>17 DEF X, Y

(* What the map remembers by the new key costs as much as the new list,    *)
(* but for the bound.                                                      *)
LEMMA NewKeyValue ==
  ASSUME Key(NewPrefix) \in DOMAIN pmap
  PROVE  KeyValue(Key(NewPrefix)) = pmap[Key(NewPrefix)].lower_bound - NewMinority + Completion[Captured(NewPrefix)]
BY KeyIs DEF KeyValue, NewMinority

(* No worse than the optimum.                                              *)
LEMMA NewIsNoBetter ==
  ASSUME IInv, Result, Waits, Extend
  PROVE  /\ Optimum <= NewValue /\ Optimum <= NewBest /\ NewBest <= min_objective /\ Optimum \in Nat
         /\ MinorityIs /\ OrderRight /\ Valued /\ Remembers /\ Covered
         /\ Evaluating /\ next_rule \in RuleIds /\ next_rule \notin ToSet(parent)
         /\ parent \in DOMAIN nodes /\ (parent = root \/ parent \in linked)
<1>1. /\ Evaluating /\ next_rule \in RuleIds /\ next_rule \notin ToSet(parent)
      /\ MinorityIs /\ OrderRight /\ Valued /\ Remembers /\ Covered
  <2>1. Evaluating /\ next_rule \notin ToSet(parent)
    BY ExtendIs
  <2>2. next_rule \in RuleIds
    BY DEF Extend
  <2> QED
    BY <2>1, <2>2 DEF Waits, MinorityRight, Searching, Evaluating
<1>2. parent \in DOMAIN nodes /\ (parent = root \/ parent \in linked) /\ min_objective \in Int
      /\ fit \in Fits /\ RulesRight
  BY <1>1 DEF IInv, Tree, Types, Evaluated, Result
<1>3. Optimum <= Value(parent) /\ Optimum \in Nat /\ Optimum <= min_objective
  BY <1>1, <1>2, ValueBelow, OptimumIs DEF Valued
<1>4. /\ NewObjective \in Nat /\ NewValue \in Nat /\ Value(parent) \in Int
      /\ Value(parent) <= NewValue /\ NewValue <= NewObjective
  BY <1>1, NewValueIs
<1>5. Optimum <= NewValue /\ Optimum <= NewBest /\ NewBest <= min_objective
  BY <1>2, <1>3, <1>4 DEF NewBest
<1> QED
  BY <1>1, <1>2, <1>3, <1>5

(* A list that is not entered: what is promising stays open, or the list   *)
(* the map remembers for what the new one captures leads to the optimum.   *)
LEMMA ExtendWaits ==
  ASSUME IInv, Tree', Result, Waits, Extend, ~Linking
  PROVE  Waits'
<1>1. /\ Optimum <= NewValue /\ Optimum <= NewBest /\ NewBest <= min_objective /\ Optimum \in Nat
      /\ MinorityIs /\ OrderRight /\ Valued /\ Remembers /\ Covered
      /\ Evaluating /\ next_rule \in RuleIds /\ next_rule \notin ToSet(parent)
      /\ parent \in DOMAIN nodes /\ (parent = root \/ parent \in linked)
  BY NewIsNoBetter
<1>2. /\ next_rule' = next_rule + 1 /\ min_objective' = NewBest
      /\ UNCHANGED <<fit, rules, minority, pc, parent, nodes, linked, queue, pmap>>
  BY ExtendIs
<1>3. next_rule \in Nat /\ min_objective \in Int /\ fit.c \in Nat /\ LookAhead \in {0, fit.c}
  BY FitFacts DEF IInv, Tree, Types, LookAhead
<1>4. /\ NewLower \in Nat /\ NewObjective \in Nat /\ NewBest \in Nat /\ NewValue \in Nat
      /\ PureBound \in Nat /\ NewMinority \in Nat /\ NewLower = PureBound + NewMinority
      /\ NewValue <= NewObjective
      /\ NewValue < NewObjective => NewLower + fit.c <= NewValue
      /\ Captured(parent) \subseteq Captured(NewPrefix)
      /\ GoesOn(Captured(parent), next_rule) =>
              NewValue = Value(parent) /\ Captured(parent) # Captured(NewPrefix)
  BY <1>1, NewValueIs
<1>5. /\ Optimum' = Optimum /\ RuleIds' = RuleIds /\ MinorityIs' = MinorityIs
      /\ (\A q : Captured(q)' = Captured(q)) /\ (\A q : NotCaptured(q)' = NotCaptured(q)) /\ (\A q : Key(q)' = Key(q))
      /\ (\A S : Errors(S)' = Errors(S)) /\ (\A key : KeyCaptured(key)' = KeyCaptured(key))
      /\ \A X, r : GoesOn(X, r)' = GoesOn(X, r)
  BY <1>2, DataKept
<1>6. (\A q : Pure(q)' = Pure(q) /\ Value(q)' = Value(q)) /\ (\A key : KeyValue(key)' = KeyValue(key)) /\ root' = root
  BY <1>2, ValueKept, KeyValueKept DEF root
<1>7. Valued'
  <2>1. ASSUME NEW q \in DOMAIN nodes, q \in linked \/ q = root
        PROVE  NewBest <= Pure(q)' + Errors(NotCaptured(q))'
    <3>1. min_objective <= Pure(q) + Errors(NotCaptured(q)) /\ Pure(q) \in Int /\ Errors(NotCaptured(q)) \in Nat
      BY <1>1, <2>1, ValueFacts DEF Valued
    <3>2. Errors(NotCaptured(q))' = Errors(NotCaptured(q))
      BY <1>2, <1>5 DEF Errors, Correct, Prediction
    <3> QED
      BY <1>1, <1>3, <1>4, <1>6, <3>1, <3>2
  <2> QED
    BY <1>1, <1>2, <1>5, <1>6, <2>1 DEF Valued
<1>8. Remembers' /\ OrderRight'
  BY <1>1, <1>2, <1>5, <1>6 DEF Remembers, OrderRight
<1>9. ASSUME Optimum < NewBest, NEW w \in DOMAIN nodes, Promising(w)
      PROVE  \E v \in DOMAIN nodes : Promising(v)' /\ Captured(w) \subseteq Captured(v)
  <2>1. ASSUME NEW v \in DOMAIN nodes, Promising(v),
               (v \in queue /\ ~nodes[v].deleted)
                 \/ (v = parent /\ \E r \in RuleIds : r >= next_rule + 1 /\ GoesOn(Captured(v), r))
        PROVE  Promising(v)'
    <3>1. Value(v)' = Optimum'
      BY <1>5, <1>6, <2>1 DEF Promising
    <3>2. Open(v)'
      <4>1. CASE v \in queue /\ ~nodes[v].deleted
        BY <1>2, <4>1 DEF Open
      <4>2. CASE v = parent /\ \E r \in RuleIds : r >= next_rule + 1 /\ GoesOn(Captured(v), r)
        <5>1. PICK r \in RuleIds : r >= next_rule + 1 /\ GoesOn(Captured(v), r)
          BY <4>2
        <5>2. GoesOn(Captured(v), r)' /\ Evaluating' /\ v = parent' /\ r \in RuleIds' /\ r >= next_rule'
          BY <1>1, <1>2, <1>5, <4>2, <5>1 DEF Evaluating
        <5>3. Captured(v)' = Captured(v)
          BY <1>5
        <5> QED
          BY <5>2, <5>3 DEF Open
      <4> QED
        BY <2>1, <4>1, <4>2
    <3> QED
      BY <3>1, <3>2 DEF Promising
  <2>2. CASE (w \in queue /\ ~nodes[w].deleted)
                 \/ (w = parent /\ \E r \in RuleIds : r >= next_rule + 1 /\ GoesOn(Captured(w), r))
    BY <1>9, <2>1, <2>2
  <2>3. CASE ~((w \in queue /\ ~nodes[w].deleted)
                 \/ (w = parent /\ \E r \in RuleIds : r >= next_rule + 1 /\ GoesOn(Captured(w), r)))
    <3>1. PICK r \in RuleIds : w = parent /\ r >= next_rule /\ GoesOn(Captured(w), r)
      BY <1>9, <2>3 DEF Promising, Open
    <3>2. r = next_rule
      <4>1. ~(r >= next_rule + 1) /\ r \in Nat
        BY <2>3, <3>1 DEF RuleIds
      <4> QED
        BY <1>3, <3>1, <4>1
    <3>3. NewValue = Optimum /\ Captured(parent) # Captured(NewPrefix)
      BY <1>4, <1>9, <3>1, <3>2 DEF Promising
    <3>4. NewBest <= NewObjective
      BY <1>3, <1>4 DEF NewBest
    <3>5. NewLower + LookAhead < NewBest
      BY <1>1, <1>3, <1>4, <1>9, <3>3, <3>4
    <3>6. fit.map # "none" /\ Key(NewPrefix) \in DOMAIN pmap /\ ~(NewLower < pmap[Key(NewPrefix)].lower_bound)
      BY <3>5 DEF Linking, Admitted
    <3> DEFINE key == Key(NewPrefix)
               least == pmap[key].lower_bound
    <3>7. least \in Nat
      BY <3>6 DEF Result, OthersRight
    <3>8. KeyValue(key) = least - NewMinority + Completion[Captured(NewPrefix)] /\ KeyCaptured(key) = Captured(NewPrefix)
      BY <3>6, NewKeyValue, KeyIs
    <3>9. Optimum <= KeyValue(key)
      BY <1>1, <3>6 DEF Remembers
    <3>10. Completion[Captured(NewPrefix)] \in Int /\ NewValue = PureBound + Completion[Captured(NewPrefix)]
      <4>1. Captured(NewPrefix) \in SUBSET Samples /\ fit \in Fits /\ RulesRight
        BY DEF Captured, IInv, Tree, Types, Result
      <4>2. Completion[Captured(NewPrefix)] \in Nat
        BY <4>1, CompletionIs
      <4> QED
        BY <4>2 DEF NewValue
    <3>11. KeyValue(key) = Optimum
      <4>1. ~(NewLower < least)
        BY <3>6
      <4> HIDE DEF key, least
      <4> QED
        BY <1>1, <1>4, <3>3, <3>7, <3>8, <3>9, <3>10, <4>1
    <3>12. PICK v \in DOMAIN nodes : Promising(v) /\ KeyCaptured(key) \subseteq Captured(v)
      <4>1. Optimum < min_objective
        BY <1>1, <1>3, <1>4, <1>9
      <4> QED
        BY <1>1, <3>6, <3>11, <4>1 DEF Covered
    <3>13. v # parent /\ Captured(parent) \subseteq Captured(v)
      BY <1>4, <3>3, <3>8, <3>12
    <3>14. v \in queue /\ ~nodes[v].deleted
      BY <3>12, <3>13 DEF Promising, Open
    <3>15. Promising(v)'
      BY <2>1, <3>12, <3>14
    <3> QED
      BY <3>1, <3>13, <3>15
  <2> QED
    BY <2>2, <2>3
<1>10. Covered'
  <2>1. min_objective' \in Int /\ min_objective' <= min_objective
    BY <1>1, <1>2, <1>4
  <2> QED
    BY <1>1, <1>2, <1>6, <1>9, <2>1, CoverKept
<1>11. next_rule' # 0
  BY <1>2, <1>3
<1> QED
  BY <1>1, <1>2, <1>5, <1>7, <1>8, <1>10, <1>11 DEF Waits, MinorityRight, Searching

(* A list that is entered: what it takes the place of costs more, and it   *)
(* leads to the optimum itself if its parent did by no other rule to come. *)
LEMMA LinkWaits ==
  ASSUME IInv, Tree', Result, Waits, Extend, Linking
  PROVE  Waits'
<1> SUFFICES ASSUME NEW b, b = NewPrefix, NEW key0, key0 = Key(b) PROVE Waits'
  OBVIOUS
<1> DEFINE D == Superseded(b)
           nd == NodesWithout(D)
           ln == LinkedWithout(D)
           least == pmap[key0].lower_bound
<1>1. /\ Optimum <= NewValue /\ Optimum <= NewBest /\ NewBest <= min_objective /\ Optimum \in Nat
      /\ MinorityIs /\ OrderRight /\ Valued /\ Remembers /\ Covered
      /\ Evaluating /\ next_rule \in RuleIds /\ next_rule \notin ToSet(parent)
      /\ parent \in DOMAIN nodes /\ (parent = root \/ parent \in linked)
  BY NewIsNoBetter
<1>2. /\ next_rule' = next_rule + 1 /\ min_objective' = NewBest
      /\ UNCHANGED <<fit, rules, minority, pc, parent>>
      /\ queue' = queue \cup {b} /\ pmap' = Remembered(b, NewLower)
  BY ExtendIs
<1>3. next_rule \in Nat /\ min_objective \in Int /\ fit.c \in Nat /\ parent \in Seq(Nat) /\ Len(parent) \in Nat
  BY FitFacts DEF IInv, Tree, Types
<1>4. /\ NewLower \in Nat /\ NewObjective \in Nat /\ NewBest \in Nat /\ NewValue \in Nat
      /\ PureBound \in Nat /\ NewMinority \in Nat /\ NewLower = PureBound + NewMinority
      /\ NewObjective = PureBound + Errors(NotCaptured(b))
      /\ NewValue <= NewObjective /\ Value(parent) <= NewValue /\ Value(parent) \in Int
      /\ Captured(parent) \subseteq Captured(b)
      /\ GoesOn(Captured(parent), next_rule) => NewValue = Value(parent)
  BY <1>1, NewValueIs
<1>5. /\ Optimum' = Optimum /\ RuleIds' = RuleIds /\ MinorityIs' = MinorityIs /\ Completion' = Completion
      /\ (\A q : Captured(q)' = Captured(q)) /\ (\A q : NotCaptured(q)' = NotCaptured(q)) /\ (\A q : Key(q)' = Key(q))
      /\ (\A S : Errors(S)' = Errors(S)) /\ (\A key : KeyCaptured(key)' = KeyCaptured(key))
      /\ \A X, r : GoesOn(X, r)' = GoesOn(X, r)
  BY <1>2, DataKept
<1>6. /\ linked' = {b} \cup ln
      /\ DOMAIN nodes' = {b} \cup DOMAIN nd
      /\ nodes'[b] = NewNode
      /\ \A q \in DOMAIN nd : nodes'[q] = nd[q]
      /\ b \notin DOMAIN nd /\ D \in SUBSET linked
      /\ \A p \in D : ~IsPrefix(p, parent)
  BY Grown
<1>7. /\ ln \subseteq linked /\ ln \subseteq DOMAIN nd /\ DOMAIN nd \subseteq DOMAIN nodes
      /\ \A q \in DOMAIN nd : /\ nd[q].lower_bound = nodes[q].lower_bound
                              /\ nd[q].equivalent_minority = nodes[q].equivalent_minority
      /\ \A q \in ln : \A k \in 0 .. Len(q) - 1 : SubSeq(q, 1, k) \in DOMAIN nd
  BY <1>6, Drop DEF IInv, Tree
<1>8. \A q \in DOMAIN nodes \ Below(D) : q \in DOMAIN nd /\ nd[q] = nodes[q]
  BY DEF NodesWithout, Below, Freed
<1>9. /\ b \in Seq(Nat) /\ b # root /\ Len(b) = Len(parent) + 1 /\ IsInjective(b)
      /\ \A k \in 0 .. Len(parent) : SubSeq(b, 1, k) = SubSeq(parent, 1, k)
  BY <1>1, <1>3, NewFacts, AppendAt DEF NewPrefix
<1>10. ToSet(b) \in SUBSET RuleIds /\ parent \in DOMAIN nd /\ root' = root
  <2>1. parent \in DOMAIN nd
    BY <1>1, <1>6, Drop DEF IInv, Tree
  <2> QED
    BY <1>1, <2>1, NewInRange DEF root
<1>11. NewNode.lower_bound = NewLower /\ NewNode.equivalent_minority = NewMinority /\ ~NewNode.deleted
  BY DEF NewNode, NewMinority, NewLeft, NotCaptured
<1>12. fit.map # "none" =>
         /\ DOMAIN pmap' = {key0} \cup DOMAIN pmap
         /\ pmap'[key0] = [lower_bound |-> NewLower, prefix |-> Recorded(b)]
         /\ \A key \in DOMAIN pmap \ {key0} : pmap'[key] = pmap[key]
         /\ key0 \in DOMAIN pmap => NewLower < least /\ least \in Nat
  BY <1>2 DEF Remembered, With, Linking, Admitted, Result, OthersRight
<1>13. fit.map = "none" => D = {}
  BY DEF Superseded
<1> HIDE DEF nd, ln, D
<1>14. \A q \in DOMAIN nd : Pure(q)' = Pure(q) /\ Value(q)' = Value(q) /\ q \in DOMAIN nodes
  BY <1>2, <1>6, <1>7, ValueKept
<1>15. Pure(b)' = PureBound /\ Value(b)' = NewValue
  <2>1. Pure(b)' = NewLower - NewMinority
    BY <1>6, <1>11 DEF Pure
  <2>2. Pure(b)' = PureBound
    BY <1>4, <2>1
  <2> QED
    BY <1>5, <2>2 DEF Value, NewValue
<1>16. KeyCaptured(key0) = Captured(b)
  BY KeyIs
<1>17. fit.map # "none" => KeyValue(key0)' = NewValue /\ \A key \in DOMAIN pmap \ {key0} : KeyValue(key)' = KeyValue(key)
  <2> SUFFICES ASSUME fit.map # "none"
               PROVE  KeyValue(key0)' = NewValue /\ \A key \in DOMAIN pmap \ {key0} : KeyValue(key)' = KeyValue(key)
    OBVIOUS
  <2>1. KeyValue(key0)' = NewLower - NewMinority + Completion[Captured(b)]
    <3>1. pmap'[key0].lower_bound = NewLower /\ KeyCaptured(key0)' = Captured(b) /\ Samples' = Samples /\ minority' = minority
      BY <1>2, <1>5, <1>12, <1>16, DataKept
    <3> QED
      BY <1>5, <3>1 DEF KeyValue, NewMinority
  <2>2. NewLower - NewMinority = PureBound
    BY <1>4
  <2>3. KeyValue(key0)' = NewValue
    BY <2>1, <2>2 DEF NewValue
  <2> QED
    BY <1>2, <1>12, <2>3, KeyValueKept
<1> HIDE DEF least
<1>18. Valued'
  <2>1. root' \in DOMAIN nodes' => Value(root)' = Optimum'
    BY <1>1, <1>5, <1>6, <1>9, <1>10, <1>14 DEF Valued
  <2>2. ASSUME NEW q \in DOMAIN nodes', q \in linked' \/ q = root
        PROVE  NewBest <= Pure(q)' + Errors(NotCaptured(q))'
    <3>1. Errors(NotCaptured(q))' = Errors(NotCaptured(q))
      BY <1>2, <1>5 DEF Errors, Correct, Prediction
    <3>2. CASE q = b
      BY <1>3, <1>4, <1>15, <3>1, <3>2 DEF NewBest
    <3>3. CASE q # b
      <4>1. q \in DOMAIN nd /\ q \in DOMAIN nodes /\ (q \in linked \/ q = root)
        BY <1>6, <1>7, <1>14, <2>2, <3>3
      <4>2. min_objective <= Pure(q) + Errors(NotCaptured(q)) /\ Pure(q) \in Int /\ Errors(NotCaptured(q)) \in Nat
        BY <1>1, <4>1, ValueFacts DEF Valued
      <4> QED
        BY <1>1, <1>3, <1>4, <1>14, <3>1, <4>1, <4>2
    <3> QED
      BY <3>2, <3>3
  <2>3. ASSUME NEW q \in linked', NEW k \in 0 .. Len(q) - 1
        PROVE  Value(SubSeq(q, 1, k))' <= Value(q)'
    <3>1. CASE q = b
      <4>1. k \in 0 .. Len(parent) /\ SubSeq(q, 1, k) = SubSeq(parent, 1, k)
        <5>1. Len(q) = Len(parent) + 1 /\ \A j \in 0 .. Len(parent) : SubSeq(q, 1, j) = SubSeq(parent, 1, j)
          BY <1>9, <3>1
        <5>2. k \in 0 .. Len(parent)
          BY <1>3, <5>1
        <5> QED
          BY <5>1, <5>2
      <4>2. CASE k = Len(parent)
        <5>1. SubSeq(q, 1, k) = parent
          BY <1>3, <4>1, <4>2, SubSeqFull
        <5> QED
          BY <1>4, <1>10, <1>14, <1>15, <3>1, <5>1
      <4>3. CASE k # Len(parent)
        <5>1. k \in 0 .. Len(parent) - 1 /\ parent # root
          BY <1>3, <4>1, <4>3 DEF root
        <5>2. parent \in linked /\ SubSeq(parent, 1, k) \in DOMAIN nodes
          BY <1>1, <5>1 DEF IInv, Tree, Rooted
        <5>3. Value(SubSeq(parent, 1, k)) <= Value(parent) /\ Value(SubSeq(parent, 1, k)) \in Int
          BY <1>1, <5>1, <5>2, ValueFacts DEF Valued
        <5>4. SubSeq(q, 1, k) \in DOMAIN nodes'
          BY <2>3 DEF Tree, Rooted
        <5>5. Len(SubSeq(parent, 1, k)) = k /\ k # Len(b)
          BY <1>3, <1>9, <4>1, PrefixAt
        <5>6. SubSeq(q, 1, k) \in DOMAIN nd
          BY <1>6, <4>1, <5>4, <5>5
        <5>7. Value(SubSeq(q, 1, k))' = Value(SubSeq(q, 1, k)) /\ Value(q)' = NewValue
          BY <1>14, <1>15, <3>1, <5>6
        <5>8. Value(SubSeq(q, 1, k)) <= Value(parent) /\ Value(SubSeq(q, 1, k)) \in Int
          BY <4>1, <5>3
        <5> QED
          BY <1>4, <5>7, <5>8
      <4> QED
        BY <4>2, <4>3
    <3>2. CASE q # b
      <4>1. q \in ln /\ q \in linked /\ q \in DOMAIN nd
        BY <1>6, <1>7, <2>3, <3>2
      <4>2. Value(SubSeq(q, 1, k)) <= Value(q)
        BY <1>1, <2>3, <4>1 DEF Valued
      <4> QED
        BY <1>7, <1>14, <4>1, <4>2
    <3> QED
      BY <3>1, <3>2
  <2> QED
    BY <1>1, <1>2, <1>5, <1>10, <2>1, <2>2, <2>3 DEF Valued
<1>19. Remembers'
  <2> SUFFICES ASSUME fit.map # "none"
               PROVE  /\ \A q \in linked' : Key(q) \in DOMAIN pmap' /\ pmap'[Key(q)].lower_bound <= nodes'[q].lower_bound
                      /\ \A key \in DOMAIN pmap' : Optimum <= KeyValue(key)'
    BY <1>2, <1>5 DEF Remembers
  <2>1. Key(b) = key0
    OBVIOUS
  <2>2. ASSUME NEW q \in linked'
        PROVE  Key(q) \in DOMAIN pmap' /\ pmap'[Key(q)].lower_bound <= nodes'[q].lower_bound
    <3>1. CASE q = b
      BY <1>4, <1>6, <1>11, <1>12, <2>1, <3>1
    <3>2. CASE q # b
      <4>1. /\ q \in linked /\ q \in DOMAIN nd /\ nodes'[q].lower_bound = nodes[q].lower_bound
            /\ q \in DOMAIN nodes
        BY <1>6, <1>7, <2>2, <3>2
      <4>2. Key(q) \in DOMAIN pmap /\ pmap[Key(q)].lower_bound <= nodes[q].lower_bound
        BY <1>1, <4>1 DEF Remembers
      <4>3. nodes[q].lower_bound \in Nat
        BY <1>1, <4>1, ValueFacts
      <4>4. CASE Key(q) = key0
        <5>1. NewLower < least /\ least \in Nat /\ least <= nodes[q].lower_bound
          BY <1>12, <4>2, <4>4 DEF least
        <5>2. pmap'[Key(q)].lower_bound = NewLower
          BY <1>12, <4>4
        <5> QED
          BY <1>4, <1>12, <4>1, <4>2, <4>3, <5>1, <5>2
      <4>5. CASE Key(q) # key0
        BY <1>12, <4>1, <4>2, <4>5
      <4> QED
        BY <4>4, <4>5
    <3> QED
      BY <3>1, <3>2
  <2>3. \A key \in DOMAIN pmap' : Optimum <= KeyValue(key)'
    BY <1>1, <1>12, <1>17 DEF Remembers
  <2> QED
    BY <2>2, <2>3
<1>20. OrderRight'
  <2> SUFFICES ASSUME fit.map = "prefix", NEW key \in DOMAIN pmap'
               PROVE  /\ key \in SUBSET Nat /\ IsFiniteSet(key)
                      /\ \A i \in 1 .. Cardinality(key) : pmap'[key].prefix[i] \in 1 .. Cardinality(key)
    BY <1>2 DEF OrderRight
  <2>1. CASE key = key0
    <3>1. key0 = ToSet(b) /\ pmap'[key0].prefix = Ordered(b)
      BY <1>12 DEF Key, Recorded
    <3> QED
      BY <1>9, <2>1, <3>1, OrderedAt
  <2>2. CASE key # key0
    BY <1>1, <1>12, <2>2 DEF OrderRight
  <2> QED
    BY <2>1, <2>2
<1>21. b \in queue' /\ ~nodes'[b].deleted /\ b \in DOMAIN nodes'
  BY <1>2, <1>6, <1>11
<1>22. NewValue = Optimum => Promising(b)'
  BY <1>5, <1>15, <1>21 DEF Promising, Open
<1>23. ASSUME NEW w \in DOMAIN nodes, Promising(w)
       PROVE  \E v \in DOMAIN nodes' : Promising(v)' /\ Captured(w) \subseteq Captured(v)
  <2>1. CASE w \in queue /\ ~nodes[w].deleted
    <3>1. w \notin Below(D)
      <4> SUFFICES ASSUME w \in Below(D) PROVE FALSE
        OBVIOUS
      <4>1. PICK p \in D : IsPrefix(p, w)
        BY <1>6, LinkedBelow DEF IInv, Tree
      <4>2. /\ fit.map # "none" /\ key0 \in DOMAIN pmap /\ p = Permuted(key0) /\ p \in linked
            /\ p \in DOMAIN nodes
        BY <4>1 DEF D, Superseded, IInv, Tree, Types
      <4>3. Key(p) = key0
        BY <1>1, <4>2, PermutedHasKey
      <4>4. Captured(p) = Captured(b)
        BY <1>16, <4>3, KeyIs
      <4>5. least <= nodes[p].lower_bound /\ NewLower < least /\ least \in Nat
        BY <1>1, <1>12, <4>2, <4>3 DEF Remembers, least
      <4>6. /\ nodes[p].lower_bound = Pure(p) + NewMinority /\ nodes[p].lower_bound \in Nat
            /\ Value(p) = Pure(p) + Completion[Captured(b)] /\ Pure(p) \in Int
            /\ Completion[Captured(b)] \in Nat /\ Value(p) \in Int
        BY <1>1, <4>2, <4>4, ValueFacts DEF Value, NewMinority
      <4>7. w = root \/ w \in linked
        BY <2>1 DEF IInv, Tree, Waiting
      <4>8. Value(p) <= Optimum
        BY <1>1, <1>23, <4>1, <4>2, <4>7, ValueBelow DEF Promising
      <4>9. NewValue = PureBound + Completion[Captured(b)]
        BY DEF NewValue
      <4> QED
        BY <1>1, <1>4, <4>5, <4>6, <4>8, <4>9
    <3>2. w \in DOMAIN nd /\ nodes'[w] = nodes[w]
      BY <1>6, <1>8, <3>1
    <3>3. Value(w)' = Optimum' /\ w \in DOMAIN nodes'
      BY <1>5, <1>6, <1>14, <1>23, <3>2 DEF Promising
    <3>4. Promising(w)'
      BY <1>2, <2>1, <3>2, <3>3 DEF Promising, Open
    <3> QED
      BY <3>3, <3>4
  <2>2. CASE ~(w \in queue /\ ~nodes[w].deleted)
    <3>1. PICK r \in RuleIds : w = parent /\ r >= next_rule /\ GoesOn(Captured(w), r) /\ Value(w) = Optimum
      BY <1>23, <2>2 DEF Promising, Open
    <3>2. CASE r = next_rule
      <4>1. NewValue = Optimum
        BY <1>4, <3>1, <3>2
      <4> QED
        BY <1>4, <1>21, <1>22, <3>1, <4>1
    <3>3. CASE r # next_rule
      <4>1. r >= next_rule'
        <5>1. r \in Nat
          BY DEF RuleIds
        <5> QED
          BY <1>2, <1>3, <3>1, <3>3, <5>1
      <4>2. GoesOn(Captured(w), r)' /\ Captured(w)' = Captured(w) /\ r \in RuleIds' /\ Evaluating' /\ w = parent'
        BY <1>1, <1>2, <1>5, <3>1 DEF Evaluating
      <4>3. Value(w)' = Optimum' /\ w \in DOMAIN nodes'
        BY <1>5, <1>6, <1>10, <1>14, <3>1
      <4>4. Promising(w)'
        BY <4>1, <4>2, <4>3 DEF Promising, Open
      <4> QED
        BY <4>3, <4>4
    <3> QED
      BY <3>2, <3>3
  <2> QED
    BY <2>1, <2>2
<1>24. Covered'
  <2>1. min_objective' \in Int /\ min_objective' <= min_objective
    BY <1>1, <1>2, <1>4
  <2>2. ASSUME fit.map # "none", NEW key \in DOMAIN pmap'
        PROVE  \/ key \in DOMAIN pmap /\ KeyValue(key)' = KeyValue(key)
               \/ KeyValue(key)' # Optimum
               \/ \E v \in DOMAIN nodes' : Promising(v)' /\ KeyCaptured(key) \subseteq Captured(v)
    BY <1>12, <1>16, <1>17, <1>21, <1>22, <2>2
  <2> QED
    BY <1>1, <1>2, <1>23, <2>1, <2>2, CoverKept
<1>25. next_rule' # 0
  BY <1>2, <1>3
<1> QED
  BY <1>1, <1>2, <1>5, <1>18, <1>19, <1>20, <1>24, <1>25 DEF Waits, MinorityRight, Searching

-----------------------------------------------------------------------------
(* Nor does doing nothing.                                                 *)
LEMMA StutterWaits == ASSUME Waits, UNCHANGED vars PROVE Waits'
<1>1. UNCHANGED <<fit, rules, minority, pc, nodes, linked, queue, pmap, min_objective, parent, next_rule>>
  BY DEF vars, mineVars, searchVars, treeVars, bestVars
<1>2. /\ Optimum' = Optimum /\ RuleIds' = RuleIds /\ MinorityIs' = MinorityIs
      /\ (\A q : Captured(q)' = Captured(q)) /\ (\A q : NotCaptured(q)' = NotCaptured(q)) /\ (\A q : Key(q)' = Key(q))
      /\ (\A S : Errors(S)' = Errors(S)) /\ (\A key : KeyCaptured(key)' = KeyCaptured(key))
      /\ \A X, r : GoesOn(X, r)' = GoesOn(X, r)
  BY <1>1, DataKept
<1>3. (\A q : Pure(q)' = Pure(q) /\ Value(q)' = Value(q)) /\ (\A key : KeyValue(key)' = KeyValue(key)) /\ root' = root
  BY <1>1, ValueKept, KeyValueKept DEF root
<1>4. Valued => Valued'
  <2>1. \A q : Errors(NotCaptured(q))' = Errors(NotCaptured(q))
    BY <1>1, <1>2 DEF Errors, Correct, Prediction
  <2> QED
    BY <1>1, <1>2, <1>3, <2>1 DEF Valued
<1>5. Remembers => Remembers'
  BY <1>1, <1>2, <1>3 DEF Remembers
<1>6. \A w : Promising(w)' <=> Promising(w)
  <2>1. \A w, r : GoesOn(Captured(w), r)' <=> GoesOn(Captured(w), r)
    BY <1>1, <1>2 DEF GoesOn, Adding, Errors, Correct, Prediction, Completion, Samples, RuleIds, Captured
  <2> QED
    BY <1>1, <1>2, <1>3, <2>1 DEF Promising, Open, Evaluating
<1>7. Covered => Covered'
  BY <1>1, <1>2, <1>3, <1>6 DEF Covered
<1>8. (MinorityRight => MinorityRight') /\ (OrderRight => OrderRight')
  BY <1>1, <1>2 DEF MinorityRight, OrderRight
<1> QED
  BY <1>1, <1>4, <1>5, <1>7, <1>8 DEF Waits, Searching, Evaluating

(* So what can be completed to the optimum waits at every point of a fit.  *)
LEMMA WaitsAlways == Spec => []Waits
<1>1. Init => Waits
  BY DEF Init, MineInit, SearchInit, Waits, MinorityRight, OrderRight, Searching, Evaluating
<1>2. IInv /\ IInv' /\ Result /\ Waits /\ [Next]_vars => Waits'
  <2> SUFFICES ASSUME IInv, Tree', Result, Waits, [Next]_vars PROVE Waits'
    BY DEF IInv
  <2>1. CASE MineStep /\ UNCHANGED searchVars
    BY <2>1, MineWaits
  <2>2. CASE SearchStep
    BY <2>2, BeginWaits, ContinueWaits, DiscardWaits, SelectWaits, SkipWaits, ExtendWaits, LinkWaits,
       FinishWaits, CollectWaits, EndWaits DEF SearchStep
  <2>3. CASE UNCHANGED vars
    BY <2>3, StutterWaits
  <2> QED
    BY <2>1, <2>2, <2>3 DEF Next
<1> QED
  BY <1>1, <1>2, Invariance, ResultInvariance, PTL DEF Spec

(* As long as the best list so far can be improved, a node from which the  *)
(* optimum can be reached waits: no bound, no look-ahead, no permutation   *)
(* map and no collection loses the last one, for any arguments of fit.     *)
THEOREM OptimumWaits == Spec => []OptimumNotLost
<1>1. IInv /\ Result /\ Waits => OptimumNotLost
  <2> SUFFICES ASSUME IInv, Result, Waits, pc = "loop", min_objective # Optimum
               PROVE  \E q \in {q \in queue : ~nodes[q].deleted} :
                        nodes[q].lower_bound - nodes[q].equivalent_minority + Completion[Captured(q)] = Optimum
    BY DEF OptimumNotLost
  <2>1. Valued /\ Covered /\ ~Evaluating
    BY DEF Waits, Searching, Evaluating
  <2>2. Optimum <= min_objective /\ Optimum \in Nat /\ min_objective \in Int
    BY <2>1, OptimumIs DEF Valued, IInv, Tree, Types, Result
  <2>3. Optimum < min_objective
    BY <2>2
  <2>4. PICK w \in DOMAIN nodes : Promising(w)
    BY <2>1, <2>3 DEF Covered
  <2>5. w \in queue /\ ~nodes[w].deleted /\ Value(w) = Optimum
    BY <2>1, <2>4 DEF Promising, Open
  <2> QED
    BY <2>5 DEF Value, Pure
<1> QED
  BY <1>1, WaitsAlways, Invariance, ResultInvariance, PTL

(* When the search ends because nothing waits any more, what fit returns,  *)
(* applied as predict does, costs the optimum of the samples.              *)
THEOREM ReturnsAnOptimum ==
  Spec => [][(pc = "loop" /\ queue = {} /\ pc' = "ended") =>
               Unit * Cardinality(Misclassified') + fit'.c * (Len(Returned') - 1) = Optimum']_vars
<1> DEFINE Returns == (pc = "loop" /\ queue = {} /\ pc' = "ended") =>
                        Unit * Cardinality(Misclassified') + fit'.c * (Len(Returned') - 1) = Optimum'
<1>1. OptimumNotLost /\ ReturnsWhatItCertifies' /\ [Next]_vars => [Returns]_vars
  <2> SUFFICES ASSUME OptimumNotLost, ReturnsWhatItCertifies', Next, pc = "loop", queue = {}, pc' = "ended"
               PROVE  Unit * Cardinality(Misclassified') + fit'.c * (Len(Returned') - 1) = Optimum'
    OBVIOUS
  <2>1. min_objective = Optimum
    BY DEF OptimumNotLost
  <2>2. PICK early \in BOOLEAN : End(early)
    BY DEF Next, MineStep, MineLiteral, MinedLiterals, MineCombination, FindMinority,
           SearchStep, Begin, Continue, Discard, Select, Skip, Extend, Done, PruneUp, Collect
  <2>3. UNCHANGED <<fit, rules, minority, min_objective>>
    BY <2>2, EndIs
  <2>4. Optimum' = Optimum
    BY <2>3, DataKept
  <2>5. Unit * Cardinality(Misclassified') + fit'.c * (Len(Returned') - 1) = min_objective'
    BY DEF ReturnsWhatItCertifies, Finished
  <2> QED
    BY <2>1, <2>3, <2>4, <2>5
<1> QED
  BY <1>1, OptimumWaits, ReturnsCertified, PTL DEF Spec

=============================================================================
