---------------------------- MODULE MCSpotSearch ----------------------------
(***************************************************************************)
(* The datasets of the search's runs, each with the configuration it is    *)
(* searched with.                                                          *)
(***************************************************************************)
EXTENDS SpotCorrect, MCSpotData

(* Two rows have the same features: they may be labelled differently.      *)
(* Which of the two has which label makes no difference.                   *)
Seven == Six \o <<{1, 3}>>

SevenLabels == {label \in AnyLabels(7) : label[6] <= label[7]}

SevenRows == Labelled(Default(7, 2), Seven, SevenLabels)

(* Seven rows over four features, in two labelled ways, on which the       *)
(* search revisits subproblems, widens their scopes and shares children.   *)
SharedRows ==
  Labelled(Default(7, 2), <<{2, 3}, {4}, {1, 2}, {3, 4}, {4}, {1, 2, 3}, {1, 3, 4}>>,
           {<<0, 1, 0, 0, 1, 1, 0>>})

WidenedRows ==
  Labelled(Default(7, 2), <<{1, 4}, {1, 3, 4}, {3, 4}, {1, 2}, {4}, {}, {1}>>,
           {<<0, 1, 0, 1, 1, 1, 1>>})

(* The exclusive-or of the first two features.                             *)
XorRows == Labelled(Default(7, 2), Seven, {<<0, 1, 1, 0, 0, 1, 1>>})

PairRows == XorRows \cup SharedRows

(* Seven rows over five features on which comparing neighbouring features  *)
(* does tighten bounds, labelled so that it does.                          *)
NearRows ==
  Labelled([Default(7, 4) EXCEPT !.regularization = 3],
           <<{1, 2, 3}, {1, 2}, {1, 2, 3, 5}, {3, 4}, {1, 3}, {}, {3, 4, 5}>>, {<<1, 1, 0, 1, 0, 0, 0>>})

(* Rule lists over rows on which a child is wanted under exactly zero and  *)
(* under more: what is left of a parent's bound when a leaf costs it all.  *)
ZeroRows ==
  Labelled([Default(7, 2) EXCEPT !.rule_list = TRUE],
           <<{4}, {1, 3, 4}, {1, 2, 3}, {1, 2, 3}, {3}, {1, 4}, {3, 4}>>, {<<0, 0, 1, 1, 0, 0, 1>>})

ListRows == Labelled([Default(7, 2) EXCEPT !.rule_list = TRUE], Seven, SevenLabels)

(* Costlier errors, so that trees deeper than the budget would be better.  *)
DepthRows ==
  Labelled([Default(6, 3) EXCEPT !.depth_budget = 3, !.look_ahead = FALSE], Six, AnyLabels(6))

Guided(cfg, values, label, reference) ==
  Judged(Dataset([cfg EXCEPT !.reference_LB = TRUE], 1 .. Max(UNION {values[r] : r \in DOMAIN values}),
                 values, label, reference))

(* Guided by every reference model that knows both classes, whatever rows  *)
(* it gets wrong, as SPOTClassifier demands of y_ref; of the two rows that *)
(* are alike it makes no difference which it gets wrong.                   *)
GuidedRows ==
  {Guided(Default(7, 2), Seven, <<0, 1, 1, 0, 0, 1, 1>>, reference) :
     reference \in {r \in [1 .. 7 -> Targets] : r[6] <= r[7] /\ \A t \in Targets : \E i \in 1 .. 7 : r[i] = t}}

AloneRows ==
  SevenRows \cup SharedRows \cup WidenedRows \cup ZeroRows \cup NearRows \cup ListRows \cup DepthRows \cup GuidedRows

(* Guided by a model that is right on every row, also on those the one     *)
(* feature does not tell apart: it was trained on more than that.          *)
SharpRows ==
  LET label == <<0, 0, 1, 1, 1, 0, 0, 1, 1>>
  IN  {Guided(Default(9, 1), <<{}, {}, {}, {}, {}, {1}, {1}, {1}, {1}>>, label, label)}

(* Eight rows over five features on which a vertex that waits for children *)
(* that have settled is widened by a message that comes late.              *)
DelayedRows ==
  Labelled(Default(8, 2),
           <<{2, 3, 4, 5}, {2, 4, 5}, {2, 4}, {2, 5}, {2, 3, 5}, {1, 2, 3, 5}, {}, {1, 3, 4}>>,
           {<<1, 0, 1, 1, 0, 0, 1, 1>>})

(* One kind of schedule of two workers: worker 1, having popped a message, *)
(* does not get the lock before worker 0 finds nothing else to dispatch.   *)
(* Messages of equal priority are popped in a fixed order.                 *)
LateDispatch ==
  /\ \A w \in Workers : pc[w] = "pop" /\ pc'[w] = "dispatch" =>
       inbound'[w] = CHOOSE m \in queue : IsTop(queue, m)
  /\ pc[1] = "dispatch" /\ pc'[1] # "dispatch" => queue = {} /\ pc[0] # "dispatch"
  /\ (\E w \in Workers : pc[w] = "check") => \A w \in Workers : pc[w] # "check" => pc'[w] = pc[w]

(* An error costs 1.0 instead of 1 / n, and two rows cannot be told apart. *)
CostlyRows == Labelled([Default(7, 2) EXCEPT !.cost = UnitCost(14)], Seven, AnyLabels(7))

(* Every other dataset is one that the theorems about bounds speak of.     *)
ASSUME CalibratedAssumption ==
  \A d \in DataSets : d.config.cost = UnitCost(14) \/ Calibrated(d)

(* And so does the theorem about the result, those apart that a reference  *)
(* model guides and those that a guess caps.                               *)
ASSUME PromisingAssumption ==
  \A d \in DataSets :
    \/ d.config.cost = UnitCost(14) \/ d.config.upperbound_guess > 0 \/ d.config.reference_LB
    \/ Promising(d)

(* The guess is a valid one: no less than the optimum.                     *)
GuessedRows ==
  {d \in Labelled([Default(6, 2) EXCEPT !.upperbound_guess = 4], Six, AnyLabels(6)) :
     d.optimum[<<1 .. 6, 0>>] <= 4}

CappedRows == CostlyRows \cup GuessedRows

=============================================================================
