----------------------------- MODULE MCSpotData -----------------------------
(***************************************************************************)
(* Small datasets and the configurations they are searched with.           *)
(***************************************************************************)
EXTENDS SpotOptimum

(* Every error costs c: what matters is how many errors pay for a leaf.    *)
UnitCost(c) == [p \in Targets |-> [t \in Targets |-> IF p = t THEN 0 ELSE c]]

(* As SPOTClassifier sets the options, on n rows of which each costs c.    *)
Default(n, c) ==
  [cost |-> UnitCost(c), one |-> n * c, regularization |-> 1, depth_budget |-> 0,
   rule_list |-> FALSE, reference_LB |-> FALSE, cancellation |-> TRUE, upperbound_guess |-> 0,
   look_ahead |-> TRUE, similar_support |-> TRUE]

Labelled(cfg, values, labels) ==
  LET features == 1 .. Max(UNION {values[r] : r \in DOMAIN values})
  IN  {Judged(Dataset(cfg, features, values, label, <<>>)) : label \in labels}

(* By symmetry of the classes the first row has class 0.                   *)
AnyLabels(n) == {label \in [1 .. n -> Targets] : label[1] = 0}

Six == <<{}, {1}, {2}, {1, 2}, {3}, {1, 3}>>

=============================================================================
