---------------------------- MODULE CorelsMemory ----------------------------
(***************************************************************************)
(* What makes the prefix tree of CORELS, its queue and its permutation map *)
(* fit together: what is in memory, what is linked and what is remembered. *)
(***************************************************************************)
EXTENDS CorelsFit

(* Nothing freed is followed: what the queue compares is in memory, and so *)
(* are all ancestors of a node that may still be evaluated, which select   *)
(* and update_opt_predictions walk through, each linked from its parent.   *)
NothingFreedIsUsed ==
  LET live == {q \in queue : ~nodes[q].deleted} \cup (IF pc = "evaluate" THEN {parent} ELSE {})
  IN  /\ queue \subseteq DOMAIN nodes
      /\ linked \subseteq DOMAIN nodes
      /\ \A q \in live : root \in DOMAIN nodes /\ InTree(q)
      /\ \A q \in queue : nodes[q].deleted => q \notin linked

(* num_nodes counts the nodes in memory, apart from a root that prune_up   *)
(* has reached, below which nothing is left to search.  In the end nothing *)
(* but such a root is left behind.                                         *)
EveryNodeAccounted ==
  LET pruned == Cardinality(DOMAIN nodes) - num_nodes
  IN  /\ pruned \in {0, 1}
      /\ pruned = 1 => Children(root) = {} /\ \A q \in queue : nodes[q].deleted
      /\ pc = "ended" => DOMAIN nodes \subseteq {root} /\ num_nodes = 0

(* Between two nodes, what the tree links is promising: select frees what  *)
(* is hopeless without unlinking it.                                       *)
LinkedIsPromising ==
  pc \in {"loop", "select"} => \A q \in linked : ~Hopeless(nodes[q])

(* Two ways to capture the same samples are not both searched: the         *)
(* captured map lets one linked node stand for them all.  (The prefix map  *)
(* does not quite: see Permuted.)                                          *)
OneWayToCapture ==
  \A p, q \in linked :
    (p # q /\ fit.map = "captured") => NotCaptured(p) # NotCaptured(q)

=============================================================================
