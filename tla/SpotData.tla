------------------------------ MODULE SpotData ------------------------------
(***************************************************************************)
(* What the SPOT engine computes from its dataset: the summary statistics  *)
(* of a capture set, the bounds a fresh Task starts with, how a Task is    *)
(* tightened, and its split into children (dataset.cpp, task.cpp).         *)
(*                                                                         *)
(* A capture set is the set of rows its Bitmask marks.  A subproblem, or   *)
(* key, is the pair <<capture set, depth budget>>: Bitmask equality        *)
(* compares both.  Costs are integers in a unit that divides every cost,   *)
(* and a comparison up to the float tolerance is an exact one.             *)
(*                                                                         *)
(* A dataset d has the fields                                              *)
(*   features   1..n: the binarised features in index order                *)
(*   value      value[r] is the set of the features true of row r          *)
(*   label      label[r] is the class of row r                             *)
(*   reference  the class a reference model gives each row, <<>> if none  *)
(*   majority   the rows that the code's m_majority_bitmask marks          *)
(*   config     the Configuration it is searched with: its options, the    *)
(*              cost matrix (cost[p][t]: predicting p for a row of class t)*)
(*              and one, the cost 1.0                                      *)
(***************************************************************************)
EXTENDS Integers, FiniteSets, FiniteSetsExt

CONSTANTS
  Targets,         \* the classes, integers: a tie goes to the lowest
  FltMax           \* std::numeric_limits<float>::max()

ASSUME TargetsAssumption ==
  IsFiniteSet(Targets) /\ Targets \subseteq Int /\ \E p, q \in Targets : p # q

ASSUME FltMaxAssumption == FltMax \in Nat

Rows(d) == DOMAIN d.label

Subset(d, S, f, positive) == {r \in S : (f \in d.value[r]) = positive}

Support(d, S) == (d.config.one * Cardinality(S)) \div Cardinality(Rows(d))

-----------------------------------------------------------------------------
(* Dataset::construct_cost_matrices                                        *)

DiffCost(cost, t) == Max({cost[p][t] : p \in Targets}) - Min({cost[p][t] : p \in Targets})

MismatchCost(cost, t) == Min({cost[p][t] : p \in Targets \ {t}})

Sum(F) == MapThenSumSet(LAMBDA t : F[t], DOMAIN F)

Count(label, S, t) == Cardinality({r \in S : label[r] = t})

(* The cost of the rows S when one of class t costs weight[t].             *)
Weigh(weight, label, S) == Sum([t \in Targets |-> weight[t] * Count(label, S, t)])

(* The cost of predicting p for the rows S of the classes label gives.     *)
Loss(cost, label, S, p) == Weigh(cost[p], label, S)

(* Dataset::construct_majority_bitmask: the rows labelled with the class   *)
(* that is cheapest for all the rows with the same features.               *)
Cheapest(cost, label, S) ==
  Min({p \in Targets : \A q \in Targets : Loss(cost, label, S, p) <= Loss(cost, label, S, q)})

Majority(cost, value, label) ==
  LET twins(r) == {q \in DOMAIN label : value[q] = value[r]}
  IN  {r \in DOMAIN label : label[r] = Cheapest(cost, label, twins(r))}

Dataset(config, features, value, label, reference) ==
  [features |-> features, value |-> value, label |-> label, reference |-> reference,
   majority |-> Majority(config.cost, value, label), config |-> config]

IsConfiguration(c) ==
  /\ c.cost \in [Targets -> [Targets -> Nat]]
  /\ c.one \in Nat \ {0} /\ c.regularization \in Nat /\ c.depth_budget \in Nat
  /\ c.upperbound_guess \in Int
  /\ \A option \in {c.rule_list, c.reference_LB, c.cancellation, c.look_ahead, c.similar_support} :
       option \in BOOLEAN

IsDataset(d) ==
  /\ IsFiniteSet(Rows(d)) /\ Rows(d) # {}
  /\ d.label \in [Rows(d) -> Targets]
  /\ IsFiniteSet(d.features) /\ d.features = 1 .. Cardinality(d.features)
  /\ d.value \in [Rows(d) -> SUBSET d.features]
  /\ d.reference = <<>> \/ d.reference \in [Rows(d) -> Targets]
  /\ d.majority = Majority(d.config.cost, d.value, d.label)
  /\ IsConfiguration(d.config)

-----------------------------------------------------------------------------
(* Dataset::summary_statistics and Dataset::distance                       *)

Potential(d, S) == Weigh([t \in Targets |-> DiffCost(d.config.cost, t)], d.label, S)

MaxLoss(d, S) == Min({Loss(d.config.cost, d.label, S, p) : p \in Targets})

(* The loss of a classifier that is right on the rows R only.              *)
LossWith(d, S, R) ==
  LET cost == d.config.cost
  IN  Weigh([t \in Targets |-> cost[t][t]], d.label, S \cap R)
        + Weigh([t \in Targets |-> MismatchCost(cost, t)], d.label, S \ R)

GuaranteedMinLoss_Minority(d, S) == Min({MaxLoss(d, S), LossWith(d, S, Rows(d) \ d.majority)})

GuaranteedMinLoss(d, S) == Min({MaxLoss(d, S), LossWith(d, S, d.majority)})

MinLoss(d, S) ==
  IF d.reference = <<>> THEN GuaranteedMinLoss(d, S)
  ELSE LossWith(d, S, {r \in S : d.reference[r] = d.label[r]})

Distance_OneWay(d, S, i, j) ==
  Potential(d, {r \in S : i \in d.value[r] /\ j \notin d.value[r]})

Distance(d, S, i, j) ==
  LET differ == {r \in S : (i \in d.value[r]) # (j \in d.value[r])}
  IN  Min({Potential(d, differ), Potential(d, S \ differ)})

-----------------------------------------------------------------------------
(* Task::Task.  The two conditions under which the code gives up on the    *)
(* node differ in what they prove, not in what they assign.                *)

IsLeaf(d, key, F) ==
  LET S == key[1]
      regularization == d.config.regularization
  IN  \/ d.config.one - MinLoss(d, S) < regularization
      \/ Potential(d, S) < 2 * regularization
      \/ MaxLoss(d, S) - MinLoss(d, S) < regularization
      \/ Cardinality(S) <= 1
      \/ F = {}
      \/ d.config.depth_budget # 0 /\ key[2] = 1

NewTask(d, key, F) ==
  LET base == MaxLoss(d, key[1]) + d.config.regularization
      twoLeaves(loss) == Min({base, loss + 2 * d.config.regularization})
      leaf == IsLeaf(d, key, F)
  IN  [base       |-> base,
       guaranteed |-> twoLeaves(GuaranteedMinLoss(d, key[1])),
       lower      |-> IF leaf THEN base ELSE twoLeaves(MinLoss(d, key[1])),
       upper      |-> base,
       features   |-> IF leaf THEN {} ELSE F,
       coverage   |-> -FltMax,
       lowerscope |-> -FltMax,
       upperscope |-> FltMax]

(* Task::guaranteed_lowerbound                                             *)
GuaranteedLower(d, task) == IF d.config.reference_LB THEN task.guaranteed ELSE task.lower

Scoped_Once(task, scope) ==
  IF scope = 0 \/ task.upperscope # FltMax THEN task
  ELSE [task EXCEPT !.upperscope = Max({0, scope}), !.lowerscope = Max({0, scope})]

(* Task::scope: a scope of exactly zero is ignored, a negative one is zero *)
Scoped(task, scope) ==
  LET s == Max({0, scope})
  IN  IF scope = 0 THEN task
      ELSE [task EXCEPT !.upperscope = IF @ = FltMax THEN s ELSE Max({@, s}),
                        !.lowerscope = IF @ = -FltMax THEN s ELSE Min({@, s})]

(* Task::update: the new task, and whether the call reports a change       *)
Updated(d, task, lower, upper) ==
  LET up == Min({task.upper, upper})
      lo == Min({up, Max({task.lower, lower})})
  IN  [task EXCEPT !.upper = up,
                   !.lower = IF d.config.cancellation /\ d.config.one < lo THEN up ELSE lo]

Changes(task, lower, upper) == lower # task.lower \/ upper # task.upper

Certain(task) == task.lower = task.upper

-----------------------------------------------------------------------------
(* Task::create_children                                                   *)

Child(d, key, f, positive) ==
  <<Subset(d, key[1], f, positive), IF key[2] = 0 THEN 0 ELSE key[2] - 1>>

Divides(d, S, f) == \A positive \in BOOLEAN : Subset(d, S, f, positive) # {}

Pruned(d, task, S) == [task EXCEPT !.features = {f \in @ : Divides(d, S, f)}]

Split_NoLists(d, left, right) ==
  [lower |-> left.lower + right.lower, upper |-> left.upper + right.upper]

(* What two children bound: the same formula stands in load_children and   *)
(* store_children (dispatch.cpp) and in send_explorers (optimizer.cpp).    *)
Split(d, left, right) ==
  IF d.config.rule_list
    THEN [lower |-> Min({left.lower + right.base, left.base + right.lower}),
          upper |-> Min({left.upper + right.base, left.base + right.upper})]
    ELSE [lower |-> left.lower + right.lower,
          upper |-> left.upper + right.upper]

=============================================================================
