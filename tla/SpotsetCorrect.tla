--------------------------- MODULE SpotsetCorrect ---------------------------
(***************************************************************************)
(* What makes a SPOTSET fit correct: the set it returns is held against    *)
(* all the trees within the bound, found by exhaustive recursion.          *)
(***************************************************************************)
EXTENDS SpotsetSearch, SpotCorrect

(* The trees over a key with their objectives, as far as these are within  *)
(* budget: the leaves predict as Target does, and no split has two leaves  *)
(* of one class for its sides.                                             *)
RECURSIVE GoodTrees(_, _)
GoodTrees(key, budget) ==
  LET child(f, p) == Child(data, key, f, p)
      side(f, p) == GoodTrees(child(f, p), budget - data.optimum[child(f, ~p)])
      splits == IF config.depth_budget # 0 /\ key[2] = 1 THEN {}
                ELSE {f \in data.features : Divides(data, key[1], f)}
      trivial(n, p) == Len(n[2]) = 1 /\ n[2] = p[2]
  IN  {x \in {<<Leaf(data, key[1]), <<Target(key[1])>>>>} : x[1] <= budget}
        \cup UNION {{<<n[1] + p[1], <<f, n[2], p[2]>>>> :
                       <<n, p>> \in {np \in side(f, FALSE) \X side(f, TRUE) :
                                       np[1][1] + np[2][1] <= budget /\ ~trivial(np[1], np[2])}} :
                    f \in splits}

Side(key, tree, p) == Child(data, key, tree[1], p)

(* What a tree over a key costs.                                           *)
RECURSIVE Objective(_, _)
Objective(key, tree) ==
  IF Len(tree) = 1 THEN Leaf(data, key[1])
  ELSE Objective(Side(key, tree, FALSE), tree[2]) + Objective(Side(key, tree, TRUE), tree[3])

(* Somewhere in the tree are the sides of a split each worth a leaf, and   *)
(* these leaves predict the same.  Then each side is in a ModelSet with    *)
(* its leaf, and the pair of the two passes for a trivial extension,       *)
(* whatever else is in it (rash_models.hpp:231-238).                       *)
RECURSIVE Hidden(_, _)
Hidden(key, tree) ==
  LET side(p) == Side(key, tree, p)
      subtree(p) == IF p THEN tree[3] ELSE tree[2]
  IN  /\ Len(tree) = 3
      /\ \/ /\ \A p \in BOOLEAN : Objective(side(p), subtree(p)) = Leaf(data, side(p)[1])
            /\ Target(side(FALSE)[1]) = Target(side(TRUE)[1])
         \/ \E p \in BOOLEAN : Hidden(side(p), subtree(p))

(* The trees of the set the fit returned, each with the objective it is    *)
(* stored under.                                                           *)
Returned == UNION {{k} \X TreesIn(found, k) : k \in DOMAIN found}

SetTypeOK ==
  /\ TypeOK
  /\ phase \in {"optimum", "set", "done"}
  /\ bound \in Nat
  /\ \A k \in DOMAIN found : k \in Nat /\ found[k].count \in Nat \ {0} /\ Len(found[k].leaf) <= 1

(* The bound of the set is taken from the true optimum, although the first *)
(* search skips what it believes covered and any of its models may come    *)
(* first in the unordered set (GOSDT::fit, models).  It is if the bounds   *)
(* have met; if the queue drains before, it need not be.                   *)
BoundFromOptimum ==
  phase # "optimum" =>
    bound = data.optimum[RootKey] + (data.optimum[RootKey] * config.multiplier) \div 100

(* Every tree returned is one of the good trees: it has the objective it   *)
(* is stored under, within the bound, although subproblems' results are    *)
(* taken from a cache that was filled under larger scopes (rash_models).   *)
SetIsSound == phase = "done" => Returned \subseteq GoodTrees(RootKey, bound)

(* Every good tree that no tied leaf hides is returned: no leaf test,      *)
(* scope, bound or cached result of the second search and of the           *)
(* extraction loses one.  Hidden trees are excepted because the code loses *)
(* them by the other test, for trivial extensions (rash_models.hpp:231).   *)
SetIsComplete ==
  phase = "done" => {x \in GoodTrees(RootKey, bound) : ~Hidden(RootKey, x[2])} \subseteq Returned

(* What the documentation promises, "every tree" within the bound          *)
(* (docs/models/spotset.md:3-5), trivial extensions aside.                 *)
SetIsWhole == phase = "done" => GoodTrees(RootKey, bound) \subseteq Returned

(* The indices below a ModelSet's stored count decode to so many different *)
(* trees: the count the engine sums up on insertion and the numbering that *)
(* the Python container decodes it by agree (insert, get_tree_at_idx).     *)
EachIndexItsTree ==
  \A k \in DOMAIN found : Cardinality(TreesIn(found, k)) = found[k].count

(* A fit returns: both searches end, whatever the order of the messages.   *)
SetTermination == <>(phase = "done")

=============================================================================
