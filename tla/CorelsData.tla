---------------------------- MODULE CorelsData ------------------------------
(***************************************************************************)
(* What one call of CorelsClassifier.fit works on (bridge.cpp): the        *)
(* arguments, the mined rules, the minority samples, and the sums drawn    *)
(* from them.  A bit vector over the samples is a set of samples.          *)
(*                                                                         *)
(* Costs are integers: a misclassified sample costs Unit, a rule costs     *)
(* fit.c, so that an objective of the code is the one here divided by      *)
(* fit.samples * Unit, and c of the code is fit.c divided by the same.     *)
(***************************************************************************)
EXTENDS Integers, FiniteSets, Sequences, SequencesExt

CONSTANTS
  Fits,   \* the sets of arguments fit may be called with
  Unit    \* what a misclassified sample costs

(* corels.py checks these ranges before it calls the engine.  A feature is *)
(* the set of the samples that have it, ones the samples labelled 1.       *)
FitAssumption ==
  \A f \in Fits :
    /\ f.samples \in Nat \ {0}
    /\ f.features \in Seq(SUBSET (1 .. f.samples))
    /\ f.ones \subseteq 1 .. f.samples
    /\ f.c \in 0 .. f.samples * Unit
    /\ f.max_card \in 1 .. Len(f.features)
    /\ f.min_support \in Nat /\ 2 * f.min_support <= f.samples
    /\ f.policy \in {"bfs", "curious", "lower_bound", "objective", "dfs"}
    /\ f.map \in {"none", "prefix", "captured"}
    /\ f.ablation \in 0 .. 2
    /\ f.max_num_nodes \in Nat

ASSUME UnitAssumption == Unit \in Nat \ {0}
ASSUME FitsAssumption == FitAssumption

VARIABLES
  fit,        \* the arguments of this call
  rules,      \* g_rules from index 1 on: the literals of each rule and the samples it captures
  minority,   \* g_minor
  pc          \* where the call is

Samples == 1 .. fit.samples

(* A literal is the number of a feature, negative for its negation.        *)
Literal(l) == IF l > 0 THEN fit.features[l] ELSE Samples \ fit.features[-l]

(* evaluate_children, insert_root: a tie of the two classes is predicted 1.*)
Prediction(S) == IF Cardinality(S \ fit.ones) > Cardinality(S \cap fit.ones) THEN 0 ELSE 1

Correct(S) ==
  LET right == IF Prediction(S) = 1 THEN S \cap fit.ones ELSE S \ fit.ones
  IN  Cardinality(right)

Errors(S) == Unit * (Cardinality(S) - Correct(S))

(* captured < c * nsamples                                                 *)
Unsupported(count) == count * Unit < fit.c

=============================================================================
