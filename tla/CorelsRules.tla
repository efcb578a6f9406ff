---------------------------- MODULE CorelsRules -----------------------------
(***************************************************************************)
(* mining/utils.cpp: mine_rules conjoins literals into the rules of the    *)
(* search, minority marks the samples no rule list can classify correctly. *)
(* The default rule, index 0 of the code's array, captures every sample    *)
(* and is left implicit: rules starts at index 1, where the search starts. *)
(***************************************************************************)
EXTENDS CorelsData

VARIABLES
  literal,    \* the index of the literal to look at next
  mined,      \* rules_vec_mine: the literals kept for conjunction
  rule_ids    \* the combination of mined literals to conjoin next, none when empty

mineVars == <<fit, literal, mined, rule_ids>>

Literals ==
  LET F == Len(fit.features) IN [i \in 1 .. 2 * F |-> IF i <= F THEN i ELSE F - i]

Frequent(S) == Cardinality(S) >= fit.min_support
Selective(S) == Cardinality(S) <= fit.samples - fit.min_support

(* getnextperm, first call: it does not look at how many literals exist.   *)
FirstCombination(card) == [i \in 1 .. card |-> i]

(* getnextperm, later calls: the next increasing choice of Len(ids) of the *)
(* numbers 1 .. n, or the first one of one literal more.                   *)
NextCombination_OffByOne(n, ids) ==
  LET r == Len(ids)
      movable == {p \in 1 .. r : ids[p] <= n - (r - p)}
      p == CHOOSE q \in movable : \A m \in movable : m <= q
  IN  IF movable # {} THEN [q \in 1 .. r |-> IF q < p THEN ids[q] ELSE ids[p] + 1 + (q - p)]
      ELSE IF r < fit.max_card THEN FirstCombination(r + 1)
      ELSE <<>>

NextCombination(n, ids) ==
  LET r == Len(ids)
      movable == {p \in 1 .. r : ids[p] < n - (r - p)}
      p == CHOOSE q \in movable : \A m \in movable : m <= q
  IN  IF movable # {} THEN [q \in 1 .. r |-> IF q < p THEN ids[q] ELSE ids[p] + 1 + (q - p)]
      ELSE IF r < fit.max_card THEN FirstCombination(r + 1)
      ELSE <<>>

MineInit ==
  /\ fit \in Fits
  /\ rules = <<>> /\ minority = {} /\ literal = 1 /\ mined = <<>> /\ rule_ids = <<>>
  /\ pc = "mine"

(* Too rare a literal is dropped, too common a one only kept to conjoin.   *)
MineLiteral ==
  LET l == Literals[literal]
  IN  /\ pc = "mine" /\ literal \in DOMAIN Literals
      /\ mined' = IF Frequent(Literal(l)) THEN Append(mined, l) ELSE mined
      /\ rules' = IF Frequent(Literal(l)) /\ Selective(Literal(l))
                  THEN Append(rules, [ids |-> <<l>>, captured |-> Literal(l)])
                  ELSE rules
      /\ literal' = literal + 1
      /\ UNCHANGED <<fit, minority, rule_ids, pc>>

MinedLiterals ==
  /\ pc = "mine" /\ literal \notin DOMAIN Literals
  /\ rule_ids' = IF fit.max_card = 1 THEN <<>> ELSE FirstCombination(2)
  /\ pc' = "combine"
  /\ UNCHANGED <<fit, rules, minority, literal, mined>>

(* One combination.  That every partial conjunction is frequent, which the *)
(* code tests to stop early, follows from the whole one being frequent.    *)
MineCombination ==
  LET ids == [i \in DOMAIN rule_ids |-> mined[rule_ids[i]]]
      captured == {s \in Samples : \A i \in DOMAIN ids : s \in Literal(ids[i])}
  IN  /\ pc = "combine" /\ rule_ids # <<>>
      /\ rules' = IF Frequent(captured) /\ Selective(captured)
                  THEN Append(rules, [ids |-> ids, captured |-> captured])
                  ELSE rules
      /\ rule_ids' = NextCombination(Len(mined), rule_ids)
      /\ UNCHANGED <<fit, minority, literal, mined, pc>>

(* Samples no rule tells apart; of a group the rarer label is in the       *)
(* minority, the label 1 when both are as frequent.                        *)
Twins(s) == {t \in Samples : \A i \in DOMAIN rules : s \in rules[i].captured <=> t \in rules[i].captured}

Outvoted(s) ==
  LET ones == Cardinality(Twins(s) \cap fit.ones)
      zeroes == Cardinality(Twins(s) \ fit.ones)
  IN  s \in fit.ones <=> zeroes >= ones

FindMinority ==
  /\ pc = "combine" /\ rule_ids = <<>>
  /\ minority' = {s \in Samples : Outvoted(s)}
  /\ pc' = "begin"
  /\ UNCHANGED <<fit, rules, literal, mined, rule_ids>>

MineStep == MineLiteral \/ MinedLiterals \/ MineCombination \/ FindMinority

=============================================================================
