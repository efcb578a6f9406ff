---------------------------- MODULE SpotOptimum -----------------------------
(***************************************************************************)
(* The reference the search is held against: the least objective of any    *)
(* tree (any rule list, under rule_list) over a capture set, by exhaustive *)
(* recursion over all splits, with none of the engine's bounds.            *)
(***************************************************************************)
EXTENDS SpotData, TLC

(* The subproblems of d: its sets of rows, and the depth budgets left for  *)
(* them; 0 stands for no limit.                                            *)
Keys(d) ==
  ((SUBSET Rows(d)) \ {{}}) \X (IF d.config.depth_budget = 0 THEN {0} ELSE 1 .. d.config.depth_budget)

Leaf(d, S) == MaxLoss(d, S) + d.config.regularization

Leaves(d) == [S \in SUBSET Rows(d) |-> Leaf(d, S)]

Splittable(d, key) ==
  IF d.config.depth_budget # 0 /\ key[2] = 1 THEN {} ELSE {f \in d.features : Divides(d, key[1], f)}

(* The least objective that starts with f, if best is that of every child  *)
(* and leaf that of stopping there.                                        *)
SplitLeast(d, leaf, best, key, f) ==
  LET child(positive) == Child(d, key, f, positive)
  IN  IF d.config.rule_list THEN Min({best[child(p)] + leaf[child(~p)[1]] : p \in BOOLEAN})
                            ELSE best[child(FALSE)] + best[child(TRUE)]

Objectives(d, leaf, best, key) ==
  {leaf[key[1]]} \cup {SplitLeast(d, leaf, best, key, f) : f \in Splittable(d, key)}

(* best[key] is the least objective when leaf[S] is what a leaf over S     *)
(* adds to it.                                                             *)
IsLeast(d, leaf, best) ==
  /\ DOMAIN best = Keys(d)
  /\ \A key \in Keys(d) : best[key] = Min(Objectives(d, leaf, best, key))

(* It is found from the smallest capture sets up.                          *)
Least(d, leaf) ==
  LET upTo[n \in 0 .. Cardinality(Rows(d))] ==
        IF n = 0 THEN <<>>
        ELSE LET best == upTo[n - 1]
                 keys == {key \in Keys(d) : Cardinality(key[1]) = n}
             IN  best @@ [key \in keys |-> Min(Objectives(d, leaf, best, key))]
  IN  upTo[Cardinality(Rows(d))]

(* What the search promises when a reference model guides it: the best     *)
(* objective if no leaf could have a smaller loss than the reference has   *)
(* on its rows.  It is the optimum if the reference is nowhere beaten.     *)
GuidedLeaves(d) ==
  [S \in SUBSET Rows(d) |->
     IF d.reference = <<>> THEN Leaf(d, S)
     ELSE Max({MinLoss(d, S), MaxLoss(d, S)}) + d.config.regularization]

(* A dataset that carries its optimum along, for the properties to read.   *)
IsJudged(d) ==
  IsLeast(d, Leaves(d), d.optimum) /\ IsLeast(d, GuidedLeaves(d), d.guarantee)

(* What the bounds rest on: the cost 1.0, which Task::update and the       *)
(* optimizer take for an upper bound of the root, is no less than that of  *)
(* a single leaf and a float; a guess is no less than the optimum.         *)
Root(d) == <<Rows(d), d.config.depth_budget>>

Capped(d) == MaxLoss(d, Rows(d)) + d.config.regularization <= d.config.one

Calibrated(d) ==
  /\ Capped(d) /\ d.config.one <= FltMax
  /\ d.config.upperbound_guess > 0 => d.optimum[Root(d)] <= d.config.upperbound_guess

(* What the result rests on besides.  The guess is of no use if it is no   *)
(* more than what is guaranteed of the root: it may cap the root at the    *)
(* optimum and leave the graph without a model.                            *)
Outguesses(d) == d.config.upperbound_guess > 0 => d.guarantee[Root(d)] < d.config.upperbound_guess

(* A prediction for any row is worth something.                            *)
Charged(d) == \A r \in Rows(d) : 0 < DiffCost(d.config.cost, d.label[r])

(* Under these options the bound lists say what to extract; rule lists are *)
(* compared with the objective themselves.                                 *)
Exacting(d) == ~d.config.rule_list /\ (d.config.similar_support => Charged(d))

(* The objective promised is the optimum, and nothing else is extracted.   *)
Promising(d) == Outguesses(d) /\ d.guarantee[Root(d)] = d.optimum[Root(d)] /\ (d.config.rule_list \/ Exacting(d))

Judged(d) ==
  LET optimum == Least(d, Leaves(d))
  IN  ("optimum" :> optimum)
        @@ ("guarantee" :> IF d.reference = <<>> THEN optimum ELSE Least(d, GuidedLeaves(d))) @@ d

=============================================================================
