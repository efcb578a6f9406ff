------------------------------ MODULE CorelsFit -----------------------------
(***************************************************************************)
(* One call of CorelsClassifier.fit (corels.py) through the C interface    *)
(* (bridge.cpp, run.cpp): begin mines the rules and sets the search up,    *)
(* loop is called until it says that there is nothing left to do, end      *)
(* flattens the best rule list into antecedents and predictions.  An       *)
(* exception between two calls of loop ends the fit early.                 *)
(***************************************************************************)
EXTENDS CorelsRules, CorelsSearch

vars == <<mineVars, rules, minority, pc, searchVars>>

Init == MineInit /\ SearchInit

Next ==
  \/ MineStep /\ UNCHANGED searchVars
  \/ SearchStep /\ UNCHANGED <<literal, mined, rule_ids>>

Spec == Init /\ [][Next]_vars

(* The caller's while loop calls again; nothing makes it raise.            *)
FairSpec == Spec /\ WF_vars(Next)

Finished == pc \in {"ended", "interrupted"}

(* shinrin_corels_end, corels_fit_wrap_end: the rule list as it is handed  *)
(* to Python, the default prediction last under the antecedent 0.          *)
Returned ==
  [i \in 1 .. Len(opt_rulelist) + 1 |->
     [antecedents |-> IF i <= Len(opt_rulelist) THEN rules[opt_rulelist[i]].ids ELSE <<0>>,
      prediction |-> opt_predictions[i]]]

(* corels_predict_wrap: the first rule all of whose antecedents hold.      *)
Predict(list, s) ==
  LET matches(i) == \A a \in ToSet(list[i].antecedents) : a # 0 /\ s \in Literal(a)
      matching == {i \in 1 .. Len(list) - 1 : matches(i)}
  IN  list[IF matching = {} THEN Len(list) ELSE Min(matching)].prediction

Misclassified == {s \in Samples : Predict(Returned, s) # (IF s \in fit.ones THEN 1 ELSE 0)}

-----------------------------------------------------------------------------

Node ==
  [lower_bound : Nat, objective : Nat, equivalent_minority : Nat, num_captured : 0 .. fit.samples,
   prediction : 0 .. 1, done : BOOLEAN, deleted : BOOLEAN]

TypeOK ==
  /\ pc \in {"mine", "combine", "begin", "loop", "select", "evaluate", "collect", "ended", "interrupted"}
  /\ \A i \in DOMAIN rules : rules[i].captured \subseteq Samples
  /\ minority \subseteq Samples
  /\ \A q \in DOMAIN nodes : ToSet(q) \subseteq RuleIds /\ IsInjective(q) /\ nodes[q] \in Node
  /\ linked \subseteq DOMAIN nodes /\ root \notin linked
  /\ num_nodes \in Nat /\ min_objective \in Nat /\ collected \in Nat
  /\ ToSet(opt_rulelist) \subseteq RuleIds
  /\ \A key \in DOMAIN pmap : pmap[key].lower_bound \in Nat
  /\ next_rule \in 0 .. Len(rules) + 1

(* What fit returns classifies the samples it was trained on at the        *)
(* objective the search claims: by OptimumNotLost the optimum, when the    *)
(* queue is empty.                                                         *)
ReturnsWhatItCertifies ==
  Finished => Unit * Cardinality(Misclassified) + fit.c * (Len(Returned) - 1) = min_objective

=============================================================================
