--------------------------- MODULE SpotsetModels ---------------------------
(***************************************************************************)
(* The extraction of the Rashomon set from the graph (rash_models.hpp,     *)
(* model_set.cpp).  A results_t maps an objective to a ModelSet, which     *)
(* holds trees in shared form:                                             *)
(*   leaf    the class predicted if a leaf is one of them (terminal), <<>> *)
(*           if not                                                        *)
(*   grown   the splits: a feature, and the ModelSets of its two sides     *)
(*   count   stored_model_count                                            *)
(* Objectives are exact here, and model_limit is out of reach.             *)
(***************************************************************************)
EXTENDS SpotSearch, TLC

LOCAL INSTANCE SequencesExt

(* Dataset::summary's target_index: a tie goes to the highest class.       *)
Target(S) == Max({p \in Targets : Loss(config.cost, data.label, S, p) = MaxLoss(data, S)})

LeafResults(S) ==
  (MaxLoss(data, S) + config.regularization) :> [leaf |-> <<Target(S)>>, grown |-> {}, count |-> 1]

NoModels == [leaf |-> <<>>, grown |-> {}, count |-> 0]

(* A split of two leaves of one class, as far as the leaves tell: what     *)
(* else is in the two sets goes with it.                                   *)
TrivialExtension(negative, positive) == negative.leaf # <<>> /\ negative.leaf = positive.leaf

Pairs_EachInScope(negatives, positives, scope, leftScope, rightScope) ==
  {np \in (DOMAIN negatives) \X (DOMAIN positives) :
     /\ np[1] <= leftScope /\ np[2] <= rightScope
     /\ ~TrivialExtension(negatives[np[1]], positives[np[2]])}

(* The pairs of a feature's two sides that are within scope.               *)
Pairs(negatives, positives, scope, leftScope, rightScope) ==
  {np \in (DOMAIN negatives) \X (DOMAIN positives) :
     /\ np[1] <= leftScope /\ np[2] <= rightScope /\ np[1] + np[2] <= scope
     /\ ~TrivialExtension(negatives[np[1]], positives[np[2]])}

(* ModelSet::insert of the pairs, each under its objective                 *)
WithPairs(results, f, negatives, positives, pairs) ==
  LET at(k) == {np \in pairs : np[1] + np[2] = k}
      split(np) == <<f, negatives[np[1]], positives[np[2]]>>
      trees(np) == negatives[np[1]].count * positives[np[2]].count
      old(k) == IF k \in DOMAIN results THEN results[k] ELSE NoModels
  IN  [k \in DOMAIN results \cup {np[1] + np[2] : np \in pairs} |->
         [leaf  |-> old(k).leaf,
          grown |-> old(k).grown \cup {split(np) : np \in at(k)},
          count |-> old(k).count + MapThenSumSet(trees, at(k))]]

Within(results, scope) == \E k \in DOMAIN results : k <= scope

(* rash_models: the results for a key within a scope, or those that an     *)
(* earlier call has cached for a scope no smaller; and the cache after it. *)
RECURSIVE Models(_, _, _)

(* The split of key by f, on top of what is known so far.                  *)
Grown(known, key, f, scope) ==
  LET link(p) == <<key, Signed(f, p)>>
      id(p) == IF link(p) \in DOMAIN children THEN children[link(p)] ELSE Child(data, key, f, p)
      leaf(p) == LeafResults(id(p)[1])
      low(p) == IF id(p) \in DOMAIN vertices THEN vertices[id(p)].lower
                ELSE CHOOSE k \in DOMAIN leaf(p) : TRUE
      sideScope(p) == scope - low(~p)
      side(cache, p) == IF id(p) \in DOMAIN vertices THEN Models(cache, id(p), sideScope(p))
                        ELSE [cache |-> cache, results |-> leaf(p)]
      negative == side(known.cache, FALSE)
      positive == side(negative.cache, TRUE)
  IN  CASE \E p \in BOOLEAN : low(p) > scope -> known
        [] OTHER -> IF ~Within(negative.results, sideScope(FALSE))
                      THEN [known EXCEPT !.cache = negative.cache]
                    ELSE IF ~Within(positive.results, sideScope(TRUE))
                      THEN [known EXCEPT !.cache = positive.cache]
                    ELSE [cache |-> positive.cache,
                          results |-> WithPairs(known.results, f, negative.results, positive.results,
                                        Pairs(negative.results, positive.results, scope,
                                              sideScope(FALSE), sideScope(TRUE)))]

Models(cache, key, scope) ==
  IF key \in DOMAIN cache /\ cache[key].scope >= scope
    THEN [cache |-> cache, results |-> cache[key].results]
    ELSE LET leaf == LeafResults(key[1])
             stump == IF Within(leaf, scope) THEN leaf ELSE <<>>
             inScope == {f \in DOMAIN bounds[key] : bounds[key][f].lower <= scope}
             all == FoldLeft(LAMBDA known, f : Grown(known, key, f, scope),
                             [cache |-> cache, results |-> stump],
                             SetToSortSeq(inScope, <))
         IN  [cache |-> (key :> [scope |-> scope, results |-> all.results]) @@ all.cache,
              results |-> all.results]

RashomonSet(scope) == Models(<<>>, RootKey, scope).results

-----------------------------------------------------------------------------
(* ModelSetContainer.get_tree_at_model_set_idx: the i-th tree of a         *)
(* ModelSet, which is <<class>> or <<feature, negative, positive>>.  The   *)
(* leaf comes first, then the splits one after the other, each with its    *)
(* trees numbered by the pair of the two sides' indices.                   *)
RECURSIVE TreeAt(_, _), TreeAmong(_, _)

TreeAmong_OneIndex(splits, i) ==
  LET s == Head(splits)
      trees == s[2].count * s[3].count
  IN  IF i < trees THEN <<s[1], TreeAt(s[2], i % s[2].count), TreeAt(s[3], i % s[3].count)>>
      ELSE TreeAmong(Tail(splits), i - trees)

TreeAmong(splits, i) ==
  LET s == Head(splits)
      trees == s[2].count * s[3].count
  IN  IF i < trees THEN <<s[1], TreeAt(s[2], i % s[2].count), TreeAt(s[3], i \div s[2].count)>>
      ELSE TreeAmong(Tail(splits), i - trees)

TreeAt(modelSet, i) ==
  IF i < Len(modelSet.leaf) THEN modelSet.leaf
  ELSE TreeAmong(SetToSeq(modelSet.grown), i - Len(modelSet.leaf))

TreesIn(results, k) == {TreeAt(results[k], i) : i \in 0 .. results[k].count - 1}

=============================================================================
