---------------------------- MODULE SpotCorrect -----------------------------
(***************************************************************************)
(* What makes the SPOT search correct, held against the exhaustive         *)
(* reference of SpotOptimum: DataSets is a set of Judged datasets.         *)
(***************************************************************************)
EXTENDS SpotSearch, SpotOptimum

ASSUME JudgedAssumption == \A d \in DataSets : IsJudged(d)

TypeOK ==
  /\ data.label \in [Rows(data) -> Targets]
  /\ \A m \in queue \cup {inbound[w] : w \in Workers} :
       /\ m.key[1] \in {"exploration", "exploitation"}
       /\ Unsigned(m.features) \cup m.candidates \subseteq data.features
  /\ \A key \in DOMAIN vertices :
       /\ key \in ((SUBSET Rows(data)) \ {{}}) \X (0 .. config.depth_budget)
       /\ vertices[key].lower <= vertices[key].upper
       /\ vertices[key].upper <= vertices[key].base
       /\ DOMAIN bounds[key] \subseteq data.features
  /\ DOMAIN bounds = DOMAIN vertices
  /\ DOMAIN children \subseteq (DOMAIN vertices) \X {Signed(f, p) : f \in data.features, p \in BOOLEAN}
  /\ DOMAIN edges \subseteq DOMAIN vertices
  /\ lower \in -FltMax .. FltMax /\ upper \in -FltMax .. FltMax
  /\ active \in BOOLEAN
  /\ pc \in [Workers -> {"pop", "dispatch", "check", "done"}]
  /\ rooted \in [Workers -> BOOLEAN]

(* Every vertex brackets the optimum of its capture set under its depth    *)
(* budget, whatever scopes, similar-support bounds and stale messages it   *)
(* was tightened by (Task::update, load_children, store_children); under a *)
(* reference model its lower bound keeps to what that guarantees.          *)
BoundsBracketOptimum ==
  \A key \in DOMAIN vertices :
    vertices[key].lower <= data.guarantee[key] /\ data.optimum[key] <= vertices[key].upper

(* Every entry of a bound list brackets the best objective that starts     *)
(* with its feature, however stale the children it was computed from and   *)
(* however it was compared with its neighbours in the list.                *)
SplitsBracketOptimum ==
  \A key \in DOMAIN bounds : \A f \in DOMAIN bounds[key] :
    /\ bounds[key][f].lower <= SplitLeast(data, Leaves(data), data.guarantee, key, f)
    /\ SplitLeast(data, Leaves(data), data.optimum, key, f) <= bounds[key][f].upper

(* The two link tables agree: a child reached by a signed feature is the   *)
(* subproblem of that side of the split, and it knows the parent and the   *)
(* feature to signal; and no feature is to be signalled without a link.    *)
LinksAgree ==
  /\ \A link \in DOMAIN children :
       \E f \in Unsigned({link[2]}) :
         /\ children[link] = Child(data, link[1], f, link[2] > 0)
         /\ f \in edges[children[link]][link[1]].features
  /\ \A child \in DOMAIN edges : \A key \in DOMAIN edges[child] : \A f \in edges[child][key].features :
       \E p \in BOOLEAN :
         /\ <<key, Signed(f, p)>> \in DOMAIN children
         /\ children[<<key, Signed(f, p)>>] = child

(* signal_exploiters gives up below lowerscope without looking at the      *)
(* parents: none of them may be satisfied by less than that.  A parent     *)
(* that asked under exactly zero is the exception: Task::scope passes over *)
(* its scope, and lowerscope is what the other parents leave it.           *)
ParentsWithinScope ==
  \A child \in DOMAIN edges : \A key \in DOMAIN edges[child] :
    \/ edges[child][key].scope = 0
    \/ vertices[child].lowerscope <= Max({0, edges[child][key].scope})

(* When the queue is drained and nobody dispatches, the root is solved: no *)
(* message that was dropped as out of scope, merged into a queued one or   *)
(* replaced by a scope update was still needed.                            *)
DrainedMeansSolved ==
  queue = {} /\ (\A w \in Workers : pc[w] # "dispatch") => Complete

UpperIsOptimal == data.optimum[RootKey] <= upper /\ upper <= data.guarantee[RootKey]

(* When the root's bounds meet they meet at the optimum, and the graph     *)
(* holds a model attaining it, and no other model, for the extraction.     *)
(* Under a reference model they meet between the optimum and what that     *)
(* guarantees: the objective returned is a true one and no worse.          *)
CertifiedIsOptimal ==
  Complete => UpperIsOptimal /\ Extracted = {upper}

(* A search that is certified has a model to return: extraction never      *)
(* comes back empty from bounds that have met.                             *)
CertifiedHasModel == Complete => Extracted # {}

(* The reference model, if there is one, is not beaten on a subproblem.    *)
Unbeaten(key) == data.guarantee[key] = data.optimum[key]

(* Bounds only tighten, those of a vertex and the global ones: a message   *)
(* that is late never takes back what a dispatch has proved since.  The    *)
(* lower bound that a reference model sets is taken back where the search  *)
(* beats the model.                                                        *)
BoundsOnlyTighten ==
  [][/\ upper' <= upper
     /\ Unbeaten(RootKey) => lower <= lower'
     /\ \A key \in DOMAIN vertices :
          /\ vertices'[key].upper <= vertices[key].upper
          /\ Unbeaten(key) => vertices[key].lower <= vertices'[key].lower]_vars

(* All the workers return, in every interleaving.                          *)
Termination == <>Terminated

(* The search keeps the promise the run loop relies on: the root's bounds  *)
(* close in on the optimum, once idle the search stays so, and a worker    *)
(* that is alone is not idle before they have met.                         *)
RootBounds == INSTANCE SpotRootBounds WITH
  optimum <- data.optimum[RootKey],
  busy <- queue # {} \/ \E w \in Workers : pc[w] = "dispatch",
  Alone <- WorkerLimit = 1

RefinesRootBounds == RootBounds!Spec

=============================================================================
