---------------------------- MODULE CorelsSearch ----------------------------
(***************************************************************************)
(* The branch and bound of CORELS over rule lists (corels.cpp, cache.cpp,  *)
(* pmap.cpp, queue.h): a prefix tree of nodes, a priority queue of the     *)
(* nodes to evaluate, and a permutation map that keeps one of the prefixes *)
(* that capture the same samples.  A node in the queue cannot be taken out *)
(* of its middle, so a node dropped from the tree is marked, and freed     *)
(* when the queue comes to it.                                             *)
(*                                                                         *)
(* A node stands for its prefix, the sequence of its rules' indices: a     *)
(* prefix is created at most once.  parent() is its Front, depth() its     *)
(* length, children_ what of linked extends it by one rule.                *)
(***************************************************************************)
EXTENDS CorelsData

VARIABLES
  nodes,            \* the nodes in memory, by prefix
  linked,           \* the prefixes whose parent has them in children_
  queue,            \* the prefixes queued
  pmap,             \* the permutation map
  num_nodes,        \* CacheTree::num_nodes_
  min_objective,    \* CacheTree::min_objective_
  collected,        \* the static min_objective of bbound_loop: the objective last collected for
  opt_rulelist,     \* CacheTree::opt_rulelist_
  opt_predictions,  \* CacheTree::opt_predictions_
  parent,           \* the prefix whose children are being evaluated
  next_rule         \* the rule it is to be extended with next

treeVars == <<nodes, linked, num_nodes>>
bestVars == <<min_objective, opt_rulelist, opt_predictions>>
searchVars == <<treeVars, queue, pmap, bestVars, collected, parent, next_rule>>

(* The map that takes x to y and is f elsewhere.                           *)
With(f, x, y) == [z \in {x} \cup DOMAIN f |-> IF z = x THEN y ELSE f[z]]

root == <<>>
RuleIds == 1 .. Len(rules)

Captured(prefix) == {s \in Samples : \E i \in DOMAIN prefix : s \in rules[prefix[i]].captured}
NotCaptured(prefix) == Samples \ Captured(prefix)

Children(prefix) == {q \in linked : Front(q) = prefix}

(* One step ahead: every child costs at least another rule.                *)
LookAhead == IF fit.ablation = 2 THEN 0 ELSE fit.c

Hopeless(node) == node.lower_bound + LookAhead >= min_objective

-----------------------------------------------------------------------------
(***************************************************************************)
(* The queue                                                               *)
(***************************************************************************)

(* CuriousNode: the cost per captured sample, infinite for none.           *)
LessCurious(m, n) ==
  (m.lower_bound - m.equivalent_minority) * n.num_captured
    <= (n.lower_bound - n.equivalent_minority) * m.num_captured

(* The comparators hold for equal keys too: ties come out in any order.    *)
NotAfter(p, q) ==
  CASE fit.policy = "bfs" -> Len(p) <= Len(q)
    [] fit.policy = "dfs" -> Len(p) >= Len(q)
    [] fit.policy = "curious" -> LessCurious(nodes[p], nodes[q])
    [] fit.policy = "lower_bound" -> nodes[p].lower_bound <= nodes[q].lower_bound
    [] fit.policy = "objective" -> nodes[p].objective <= nodes[q].objective

Tops == {p \in queue : \A q \in queue : NotAfter(p, q)}

-----------------------------------------------------------------------------
(***************************************************************************)
(* The tree.  delete_subtree goes down the children of done nodes only.    *)
(***************************************************************************)

Reached(prefix) ==
  {q \in DOMAIN nodes :
     /\ IsPrefix(prefix, q)
     /\ \A k \in Len(prefix) + 1 .. Len(q) :
          SubSeq(q, 1, k) \in linked /\ nodes[SubSeq(q, 1, k - 1)].done}

(* The nodes of the subtrees dropped that are freed: inner nodes at once.  *)
Freed(dropped) == {q \in UNION {Reached(p) : p \in dropped} : nodes[q].done}

(* What is left of the nodes, and of the links, when subtrees are dropped  *)
(* from children_: leaves stay in memory, marked.                          *)
NodesWithout_FreesLeaves(dropped) ==
  [q \in DOMAIN nodes \ UNION {Reached(p) : p \in dropped} |-> nodes[q]]

NodesWithout_Unmarked(dropped) == [q \in DOMAIN nodes \ Freed(dropped) |-> nodes[q]]

NodesWithout(dropped) ==
  LET reached == UNION {Reached(p) : p \in dropped}
  IN  [q \in DOMAIN nodes \ Freed(dropped) |->
         IF q \in reached THEN [nodes[q] EXCEPT !.deleted = TRUE] ELSE nodes[q]]

LinkedWithout_KeepsBelow(dropped) == linked \ dropped

LinkedWithout(dropped) == {q \in linked \ dropped : Front(q) \notin Freed(dropped)}

(* check_prefix                                                            *)
InTree(prefix) == \A k \in 1 .. Len(prefix) : SubSeq(prefix, 1, k) \in linked

-----------------------------------------------------------------------------
(***************************************************************************)
(* The permutation maps.  The prefix map is keyed by the rules, sorted,    *)
(* and remembers the order of a prefix as the positions its rules had in   *)
(* it; check_prefix is asked for the sorted rules at those positions.      *)
(***************************************************************************)

Key(prefix) == IF fit.map = "prefix" THEN ToSet(prefix) ELSE NotCaptured(prefix)

(* The elements of a set of numbers, each at its rank.                     *)
Sorted(S) == [i \in 1 .. Cardinality(S) |-> CHOOSE x \in S : Cardinality({y \in S : y < x}) = i - 1]

(* The position of the i-th smallest rule of a prefix, for each i.         *)
Ordered(prefix) ==
  [i \in DOMAIN prefix |->
     CHOOSE j \in DOMAIN prefix :
       Cardinality({k \in DOMAIN prefix : prefix[k] < prefix[j]}) = i - 1]

Recorded(prefix) == IF fit.map = "prefix" THEN Ordered(prefix) ELSE prefix

(* The prefix the entry of a key is taken for.                             *)
Permuted(key) ==
  LET indices == pmap[key].prefix
      sorted == Sorted(key)
  IN  IF fit.map = "prefix" THEN [i \in DOMAIN indices |-> sorted[indices[i]]] ELSE indices

Admitted(prefix, lower) ==
  LET key == Key(prefix)
  IN  fit.map = "none" \/ key \notin DOMAIN pmap \/ lower < pmap[key].lower_bound

Remembered(prefix, lower) ==
  IF fit.map = "none" THEN pmap
  ELSE With(pmap, Key(prefix), [lower_bound |-> lower, prefix |-> Recorded(prefix)])

(* The subtree that a better order of the same rules, or another way to    *)
(* capture the same samples, takes the place of.                           *)
Superseded_SameLength(prefix) ==
  {p \in linked : /\ fit.map # "none" /\ Key(prefix) \in DOMAIN pmap
                  /\ p = Permuted(Key(prefix)) /\ InTree(p)
                  /\ Len(p) = Len(prefix)}

Superseded(prefix) ==
  {p \in linked : /\ fit.map # "none" /\ Key(prefix) \in DOMAIN pmap
                  /\ p = Permuted(Key(prefix)) /\ InTree(p)}

-----------------------------------------------------------------------------
(***************************************************************************)
(* The search                                                              *)
(***************************************************************************)

SearchInit ==
  /\ nodes = <<>> /\ linked = {} /\ queue = {} /\ pmap = <<>>
  /\ num_nodes = 0 /\ min_objective = 0 /\ collected = 0
  /\ opt_rulelist = <<>> /\ opt_predictions = <<>>
  /\ parent = root /\ next_rule = 0

(* bbound_begin, insert_root.  The root's prediction is never set or read. *)
Begin ==
  LET equivalent == Unit * Cardinality(minority)
      objective == Errors(Samples)
  IN  /\ pc = "begin"
      /\ nodes' = [q \in {root} |->
                     [lower_bound |-> equivalent, objective |-> objective,
                      equivalent_minority |-> equivalent, num_captured |-> 0,
                      prediction |-> 0, done |-> FALSE, deleted |-> FALSE]]
      /\ num_nodes' = 1
      /\ queue' = {root}
      /\ min_objective' = objective
      /\ opt_predictions' = <<Prediction(Samples)>>
      /\ collected' = fit.samples * Unit
      /\ pc' = "loop"
      /\ UNCHANGED <<fit, rules, minority, linked, pmap, opt_rulelist, parent, next_rule>>

(* run_corels_loop                                                         *)
MayContinue_NodesOnly == num_nodes < fit.max_num_nodes

MayContinue == num_nodes < fit.max_num_nodes /\ queue # {}

Continue ==
  /\ pc = "loop" /\ MayContinue
  /\ pc' = "select"
  /\ UNCHANGED <<fit, rules, minority, searchVars>>

(* Queue::select frees what it finds marked or hopeless, and tries the     *)
(* next one.                                                               *)
Discard ==
  \E top \in Tops :
    /\ pc = "select"
    /\ nodes[top].deleted \/ Hopeless(nodes[top])
    /\ queue' = queue \ {top}
    /\ nodes' = [q \in DOMAIN nodes \ {top} |-> nodes[q]]
    /\ num_nodes' = num_nodes - 1
    /\ pc' = IF queue' = {} THEN "loop" ELSE "select"
    /\ UNCHANGED <<fit, rules, minority, linked, pmap, bestVars, collected, parent, next_rule>>

Select ==
  \E top \in Tops :
    /\ pc = "select"
    /\ ~nodes[top].deleted /\ ~Hopeless(nodes[top])
    /\ queue' = queue \ {top}
    /\ parent' = top
    /\ next_rule' = 1
    /\ pc' = "evaluate"
    /\ UNCHANGED <<fit, rules, minority, treeVars, pmap, bestVars, collected>>

(* evaluate_children, one iteration: what the next rule captures, and the  *)
(* parent's bound, without the part for its own minority, plus its cost.   *)
NewlyCaptured == NotCaptured(parent) \cap rules[next_rule].captured

PureBound_WithMinority == nodes[parent].lower_bound + Errors(NewlyCaptured) + fit.c

PureBound ==
  nodes[parent].lower_bound - nodes[parent].equivalent_minority + Errors(NewlyCaptured) + fit.c

Worthless ==
  \/ next_rule \in ToSet(parent)
  \/ fit.ablation # 1 /\ Unsupported(Cardinality(NewlyCaptured))
  \/ fit.ablation # 1 /\ Unsupported(Correct(NewlyCaptured))
  \/ PureBound >= min_objective

Skip ==
  /\ pc = "evaluate" /\ next_rule \in RuleIds
  /\ Worthless
  /\ next_rule' = next_rule + 1
  /\ UNCHANGED <<fit, rules, minority, pc, treeVars, queue, pmap, bestVars, collected, parent>>

(* The predictions of the list, collected on the way up to the root.       *)
Predictions_LeafFirst(prefix) ==
  [k \in DOMAIN prefix |-> nodes[SubSeq(prefix, 1, Len(prefix) + 1 - k)].prediction]

Predictions(prefix) == [k \in DOMAIN prefix |-> nodes[SubSeq(prefix, 1, k)].prediction]

Extend ==
  LET prefix == Append(parent, next_rule)
      left == NotCaptured(prefix)
      objective == PureBound + Errors(left)
      best == IF objective < min_objective THEN objective ELSE min_objective
      equivalent == Unit * Cardinality(left \cap minority)
      lower == PureBound + equivalent
      viable == lower + LookAhead < best
      prediction == Prediction(NewlyCaptured)
      created == [lower_bound |-> lower, objective |-> objective, equivalent_minority |-> equivalent,
                  num_captured |-> fit.samples - Cardinality(left), prediction |-> prediction,
                  done |-> FALSE, deleted |-> FALSE]
      dropped == Superseded(prefix)
  IN  /\ pc = "evaluate" /\ next_rule \in RuleIds
      /\ ~Worthless
      /\ next_rule' = next_rule + 1
      /\ min_objective' = best
      /\ IF objective < min_objective
         THEN /\ opt_rulelist' = prefix
              /\ opt_predictions' = Predictions(parent) \o <<prediction, Prediction(left)>>
         ELSE UNCHANGED <<opt_rulelist, opt_predictions>>
      /\ IF viable /\ Admitted(prefix, lower)
         THEN /\ nodes' = With(NodesWithout(dropped), prefix, created)
              /\ linked' = {prefix} \cup LinkedWithout(dropped)
              /\ num_nodes' = num_nodes + 1 - Cardinality(Freed(dropped))
              /\ queue' = queue \cup {prefix}
              /\ pmap' = Remembered(prefix, lower)
         ELSE UNCHANGED <<treeVars, queue, pmap>>
      /\ UNCHANGED <<fit, rules, minority, pc, collected, parent>>

(* The end of evaluate_children.                                           *)
Done ==
  /\ pc = "evaluate" /\ next_rule \notin RuleIds
  /\ Children(parent) # {}
  /\ nodes' = [nodes EXCEPT ![parent].done = TRUE]
  /\ pc' = "collect"
  /\ UNCHANGED <<fit, rules, minority, linked, num_nodes, queue, pmap, bestVars, collected, parent, next_rule>>

(* prune_up: the node goes, and each ancestor whose last child went.  When *)
(* the root's did, the root stays but is no longer counted.                *)
PruneUp ==
  LET upto(k) == SubSeq(parent, 1, k)
      keeps(k) == \E q \in Children(upto(k)) : q # upto(k + 1)
      emptied == {k \in 0 .. Len(parent) : \A j \in k .. Len(parent) - 1 : ~keeps(j)}
      pruned == {upto(k) : k \in emptied \ {0}}
  IN  /\ pc = "evaluate" /\ next_rule \notin RuleIds
      /\ Children(parent) = {}
      /\ nodes' = [q \in DOMAIN nodes \ pruned |-> nodes[q]]
      /\ linked' = linked \ pruned
      /\ num_nodes' = num_nodes - Cardinality(emptied)
      /\ pc' = "collect"
      /\ UNCHANGED <<fit, rules, minority, queue, pmap, bestVars, collected, parent, next_rule>>

(* garbage_collect goes down from the root and drops the topmost children  *)
(* that became hopeless.                                                   *)
Garbage_NoLookAhead ==
  LET hopeless == {q \in linked : nodes[q].lower_bound >= min_objective}
  IN  {q \in hopeless : InTree(q) /\ \A k \in 1 .. Len(q) - 1 : SubSeq(q, 1, k) \notin hopeless}

Garbage ==
  LET hopeless == {q \in linked : Hopeless(nodes[q])}
  IN  {q \in hopeless : InTree(q) /\ \A k \in 1 .. Len(q) - 1 : SubSeq(q, 1, k) \notin hopeless}

(* The end of bbound_loop: only a better list makes new garbage.           *)
Collect ==
  /\ pc = "collect"
  /\ IF min_objective < collected
     THEN /\ nodes' = NodesWithout(Garbage)
          /\ linked' = LinkedWithout(Garbage)
          /\ num_nodes' = num_nodes - Cardinality(Freed(Garbage))
     ELSE UNCHANGED treeVars
  /\ collected' = IF min_objective < collected THEN min_objective ELSE collected
  /\ pc' = "loop"
  /\ UNCHANGED <<fit, rules, minority, queue, pmap, bestVars, parent, next_rule>>

(* bbound_end frees the marked nodes of the queue, ~CacheTree the rest,    *)
(* down from the root, unless nothing is counted any more.  After an       *)
(* exception (early) both are skipped.                                     *)
End(early) ==
  LET marked == {q \in queue : nodes[q].deleted}
      counted == num_nodes - Cardinality(marked)
      freed == marked \cup (IF counted # 0 THEN Reached(root) ELSE {})
  IN  /\ pc = "loop"
      /\ early \/ ~MayContinue
      /\ IF early THEN UNCHANGED <<nodes, linked, queue, num_nodes>>
         ELSE /\ nodes' = [q \in DOMAIN nodes \ freed |-> nodes[q]]
              /\ linked' = {q \in linked : Front(q) \notin freed}
              /\ num_nodes' = counted - Cardinality(freed \ marked)
              /\ queue' = {}
      /\ pc' = IF early THEN "interrupted" ELSE "ended"
      /\ UNCHANGED <<fit, rules, minority, pmap, bestVars, collected, parent, next_rule>>

SearchStep ==
  \/ Begin \/ Continue \/ Discard \/ Select \/ Skip \/ Extend \/ Done \/ PruneUp \/ Collect
  \/ \E early \in BOOLEAN : End(early)

=============================================================================
