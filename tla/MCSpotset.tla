----------------------------- MODULE MCSpotset -----------------------------
(***************************************************************************)
(* The datasets of the SPOTSET runs.  In those of passing runs no bound    *)
(* falls on an objective.  Where a row's error costs 20, no leaf shares a  *)
(* ModelSet with splits; in TiedRows an error costs as much as a leaf, and *)
(* some do.                                                                *)
(***************************************************************************)
EXTENDS SpotsetCorrect, MCSpotData

(* The bound is the optimum and percent of it.                             *)
Set(n, c, r, percent) ==
  [Default(n, c) EXCEPT !.regularization = r] @@ ("multiplier" :> percent)

(* All labellings but the parity of the features, for which the messages   *)
(* have too many orders.                                                   *)
SixRows == Labelled(Set(6, 20, 14, 10), Six, AnyLabels(6) \ {<<0, 1, 1, 0, 1, 0>>})

(* Wider bounds, for one labelling, once within a depth budget.            *)
WiderRows ==
  Labelled(Set(6, 20, 24, 30), Six, {<<0, 1, 1, 0, 0, 1>>})
    \cup Labelled([Set(6, 20, 14, 30) EXCEPT !.depth_budget = 3], Six, {<<0, 1, 1, 0, 0, 1>>})

(* Two features are twins, and both sides of the best split need one.      *)
TwinRows == Labelled(Set(4, 20, 10, 10), <<{}, {2, 3}, {1}, {1, 2, 3}>>, {<<0, 1, 1, 0>>})

(* Where a split saves just one error it ties with the leaf it replaces:   *)
(* both are in one ModelSet.  All costs are quarters.                      *)
FourRows == <<{}, {1}, {2}, {1, 2}>>

TiedRows == Labelled(Set(4, 5, 5, 60), FourRows, AnyLabels(4))

SetRows == SixRows \cup WiderRows \cup TwinRows \cup TiedRows

(* An exclusive-or: the root is worth three leaves, as a leaf, and each    *)
(* half of it two, as a leaf or split.                                     *)
HiddenRows == Labelled(Set(4, 5, 5, 40), FourRows, {<<0, 1, 1, 0>>})

(* Eight rows over five features, none tied, with a regularization of      *)
(* 0.0875 and a multiplier of 0.02.                                        *)
ScopeRows ==
  Labelled(Set(8, 1000, 700, 2),
           <<{2, 3, 5}, {1, 3, 4, 5}, {1, 4, 5}, {1}, {1, 5}, {1, 4}, {1, 2, 3, 5}, {1, 3, 4}>>,
           {<<1, 0, 1, 0, 0, 1, 1, 1>>})

LostRows == HiddenRows \cup ScopeRows

(* Nine rows over six features, which drain the queue of the first search  *)
(* before it is solved, and messages of equal priority in a fixed order.   *)
DrainedRows ==
  Labelled(Set(9, 30, 20, 5),
           <<{1, 3, 4}, {2, 6}, {2, 4, 5, 6}, {1, 2, 3}, {2, 3, 4, 6}, {}, {2, 3, 5}, {5}, {2, 3, 4, 5}>>,
           {<<0, 1, 0, 1, 0, 0, 0, 1, 1>>})

FixedOrder ==
  \A w \in Workers : pc[w] = "pop" /\ pc'[w] = "dispatch" =>
    inbound'[w] = CHOOSE m \in queue : IsTop(queue, m)

TwoRows == Labelled(Set(3, 20, 14, 10), <<{}, {1}, {2}>>, {<<0, 1, 1>>})

=============================================================================
