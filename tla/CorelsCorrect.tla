---------------------------- MODULE CorelsCorrect ---------------------------
(***************************************************************************)
(* What makes the CORELS fit correct, held against exhaustive references   *)
(* that use none of its bounds.                                            *)
(***************************************************************************)
EXTENDS CorelsMemory

(* The conjunctions mine_rules is to find, as sets of literals.            *)
Conjunctions ==
  LET literals == ToSet(Literals)
      captured(ls) == {s \in Samples : \A l \in ls : s \in Literal(l)}
  IN  {ls \in UNION {kSubset(k, literals) : k \in 1 .. fit.max_card} :
         Frequent(captured(ls)) /\ Selective(captured(ls))}

(* The least a list can add to what captured costs so far: predict the     *)
(* rest by default, or capture more of it with another rule.               *)
Completion[captured \in SUBSET Samples] ==
  LET left == Samples \ captured
      useful == {r.captured : r \in ToSet(rules)}
      with(S) == Errors(S \cap left) + fit.c + Completion[captured \cup S]
  IN  Min({Errors(left)} \cup {with(S) : S \in {S \in useful : S \cap left # {}}})

Optimum == Completion[{}]

-----------------------------------------------------------------------------

(* mine_rules tries indices of mined literals only, although getnextperm   *)
(* never compares its first combination with their number; and it ends     *)
(* with each conjunction that is neither too rare nor too common once.     *)
MinesEachRuleOnce ==
  /\ ToSet(rule_ids) \subseteq DOMAIN mined
  /\ pc = "begin" =>
       LET found == [i \in DOMAIN rules |-> ToSet(rules[i].ids)]
       IN  ToSet(found) = Conjunctions /\ IsInjective(found)

(* As long as the best list so far can be improved, a node that can be     *)
(* completed to an optimal list is waiting: no bound, permutation,         *)
(* collection or pruning loses the last one.                               *)
OptimumNotLost ==
  pc = "loop" =>
    LET pure(q) == nodes[q].lower_bound - nodes[q].equivalent_minority
        live == {q \in queue : ~nodes[q].deleted}
    IN  \/ min_objective = Optimum
        \/ \E q \in live : pure(q) + Completion[Captured(q)] = Optimum

(* Every fit ends.                                                         *)
Termination == <>Finished

=============================================================================
