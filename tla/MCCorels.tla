------------------------------ MODULE MCCorels ------------------------------
(***************************************************************************)
(* CORELS on data found by simulation, such that between them a better     *)
(* order, or another way to capture the same samples, replaces a node that *)
(* waits or whose children wait, the prefix map decodes an order wrongly,  *)
(* pruning goes up several levels and reaches the root, a collection drops *)
(* done subtrees, and the node limit stops the search.                     *)
(***************************************************************************)
EXTENDS CorelsCorrect

Policies == {"bfs", "curious", "lower_bound", "objective", "dfs"}
Maps == {"none", "prefix", "captured"}

Data(samples, ones, features, min_support, max_card) ==
  [samples |-> samples, ones |-> ones, features |-> features,
   min_support |-> min_support, max_card |-> max_card]

(* The bounds of curiosity are 0/0, not a number, when a rule costs nothing*)
(* and may capture nothing: no policy is asked about that.                 *)
Settings(data, c, policies, maps, ablations, max_num_nodes) ==
  {d @@ [c |-> c, policy |-> p, map |-> m, ablation |-> a, max_num_nodes |-> n] :
     d \in data, p \in policies, m \in maps, a \in ablations, n \in max_num_nodes}

Small == {Data(8, {1,2,7,8}, <<{1,5,6,7}, {2,3,4}, {2,3,5,6,8}>>, 1, 1),
          Data(8, {1,2,4,5}, <<{1,3,5,6}, {1,2,4,5,7,8}, {1,2,3,4}>>, 1, 1)}

Deep == {Data(10, {2,5,7,8,9,10}, <<{1,2,3}, {2,7,9}, {2,4,6,7,9,10}, {1,4,6,7,8}>>, 1, 1)}

(* A subtree below which nodes wait is replaced, with either map.          *)
Reordered == {Data(16, {1,2,3,4,5,6,7,13,14,16},
  <<{6,8,10,11,12,13}, {1,2,5,6,16}, {1,4,5,7,8,11,12}, {1,3,6,11,14,16}>>, 1, 1)}

Recaptured == {Data(16, {1,2,7,8,11,15,16},
  <<{1,3,4,6,7,8,10,11,12,13,15,16}, {3,4,5,7,8,9,10,11,14,16}, {1,2,3,5,6,7,9,11,14,15,16},
    {1,2,3,4,5,6,7,9,10,11,12,13,14,15,16}>>, 0, 1)}

(* The prefix map misses the order it recorded.                            *)
Rotated == {Data(16, {1,2,4,6,9,10,11},
  <<{1,2,3,4,7,8,9,12,13,14,16}, {1,2,3,6,9,12,13,14,15}, {1,2,3,4,6,7,8,10,11,13}, {1,2,5,6,8,9,10,12,16}>>,
  3, 1)}

(* Pruning takes three levels with it.                                     *)
Chain == {Data(12, {1,3,4,5,9,10,12}, <<{3,8,10,12}, {2,3,8,10,12}, {1,3,6,7,9,11}, {4,5,6,7}>>, 0, 1)}

Conjoined == {Data(8, {1,3,4,5,6,8}, <<{2,3,6,8}, {2,3,4,5,7,8}, {1,3,6,7,8}>>, 3, 2),
              Data(8, {3,4,6}, <<{4,7}, {6,7,8}, {1,4,5,6,7}>>, 3, 2)}

(* Nothing to learn; no rule to be had; as few literals as max_card asks.  *)
Trivial == {Data(4, {}, <<{1,2}>>, 1, 1), Data(4, {1,2}, <<{1,2,3}>>, 2, 1),
            Data(6, {1,2,3}, <<{1,2,3,4}, {1,2,3,5}>>, 3, 2)}

AllFits ==
  Settings(Small, 1, Policies, Maps, 0 .. 2, {1000})
  \cup Settings(Small, 1, {"bfs", "objective"}, Maps, {0}, {1, 3, 5})
  \cup Settings(Small, 0, {"curious", "lower_bound"}, Maps, {0}, {1000})
  \cup Settings(Small, 2, Policies, Maps, {0}, {1000})
  \cup Settings(Deep, 1, {"curious", "lower_bound"}, Maps, {0}, {1000})
  \cup Settings(Reordered, 1, {"objective"}, {"prefix"}, {2}, {1000})
  \cup Settings(Recaptured, 1, {"curious", "objective"}, {"captured"}, {0}, {1000})
  \cup Settings(Rotated, 1, {"objective"}, Maps, {2}, {1000})
  \cup Settings(Chain, 1, {"curious", "objective"}, Maps, {0}, {1000})
  \cup Settings(Conjoined, 1, {"curious", "dfs"}, Maps, {0}, {1000})
  \cup Settings(Trivial, 1, Policies, Maps, {0}, {1000})

=============================================================================
