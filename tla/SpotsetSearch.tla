--------------------------- MODULE SpotsetSearch ---------------------------
(***************************************************************************)
(* The SPOTSET engine (gosdt.cpp, optimizer.cpp, dispatch.hpp, task.cpp    *)
(* under _spotset): a fit searches for the optimum, takes the Rashomon     *)
(* bound from it, clears graph and queue, searches again for everything    *)
(* within the bound, and extracts the set.                                 *)
(*                                                                         *)
(* The engine is a fork of SPOT's: queue, messages, summary statistics,    *)
(* links, signals and the refinement of bound lists are the same line for  *)
(* line and are taken from SpotSearch.  Defined here is what the fork does *)
(* otherwise.                                                              *)
(***************************************************************************)
EXTENDS SpotsetModels

VARIABLES
  phase,     \* "optimum" or "set": the rashomon_flag, then "done"
  bound,     \* rashomon_bound
  found      \* the results_t of the extraction

fit == <<phase, bound, found>>

Flagged == phase = "set"

-----------------------------------------------------------------------------
(* Bounds                                                                  *)

NewVertex_LeafTests(key, F) == NewTask(data, key, F)

(* Task::Task under the flag: no leaf test, for a leaf that cannot be      *)
(* split in any optimal tree can be in a good one.                         *)
NewVertex(key, F) ==
  LET task == NewTask(data, key, F)
      exhausted == config.depth_budget # 0 /\ key[2] = 1
  IN  IF Flagged /\ ~exhausted THEN [task EXCEPT !.lower = task.guaranteed, !.features = F]
                               ELSE task

(* What the splits in scope offer.  If none is in scope it is the leaf.    *)
Offers(task, splits) ==
  LET inScope == {s \in splits : s.lower <= task.upperscope}
  IN  [lower |-> Min({task.base} \cup {s.lower : s \in inScope}),
       upper |-> Min({task.base} \cup {s.upper : s \in inScope})]

(* Task::prune_features and store_children on a task that is new: unless   *)
(* it is out of scope its bounds are what its splits offer.                *)
Tightened(task, offers) ==
  IF offers.lower > task.upperscope THEN task
  ELSE Updated(data, [task EXCEPT !.lower = offers.lower, !.upper = offers.upper],
               offers.lower, offers.upper)

(* Optimizer::update_root                                                  *)
SetRoot(w, task) ==
  /\ upper' = IF Flagged THEN bound ELSE task.upper
  /\ lower' = Min({upper', task.lower})
  /\ rooted' = [rooted EXCEPT ![w] = task.lower # lower \/ task.upper # upper]

-----------------------------------------------------------------------------
(* Task::send_explorers: every split within the bound is followed under    *)
(* the flag, also one whose children are known to be leaves.               *)
Wanted(key, task, near) ==
  LET reach == IF Flagged THEN bound ELSE task.upper
      boundary == IF config.look_ahead THEN Min({reach, task.upperscope}) ELSE reach
      ask(f, positive, sibling) == [feature |-> Signed(f, positive),
                                    child   |-> Child(data, key, f, positive),
                                    scope   |-> boundary - sibling.lower]
      inScope == {n \in near : /\ NearSplit(n).lower <= boundary
                               /\ Flagged \/ NearSplit(n).upper > task.coverage}
  IN  {ask(n.feature, FALSE, n.positive) : n \in inScope}
        \cup {ask(n.feature, TRUE, n.negative) : n \in inScope}

-----------------------------------------------------------------------------
(* The steps                                                               *)

(* Optimizer::dispatch, a message travelling down: a vertex that is there  *)
(* keeps its scope and bounds, and every parent is signalled.              *)
Down(w) ==
  /\ pc[w] = "dispatch"
  /\ IsExploration(inbound[w])
  /\ \E m \in {inbound[w]} :
     \E parent \in {m.key[2]}, key \in {m.key[3]} :
     \E fresh \in {Pruned(data, Scoped(NewVertex(key, m.candidates), m.scope), key[1])} :
     \E near \in {Near(key, fresh)} :
     \E self \in {IF key \in DOMAIN vertices THEN vertices[key]
                  ELSE Tightened(fresh, Offers(fresh, NearSplits(near)))} :
     \E task \in {IF IsRoot(key) THEN Updated(data, self, self.lower, RootUpper) ELSE self} :
     \E links \in {IF IsRoot(key) THEN children
                   ELSE Over(children, [x \in {parent} \X m.features |-> key])},
        parents \in {IF IsRoot(key) THEN <<>>
                     ELSE WithEdge(ParentsOf(key), parent, Unsigned(m.features), m.scope)},
        sends \in {m.scope >= task.upperscope /\ (Flagged \/ ~Certain(task))} :
     \E wanted \in {IF sends THEN Scoped(task, m.scope) ELSE task} :
     \E asked \in {IF sends THEN Wanted(key, wanted, near) ELSE {}} :
     \E told \in {Told(asked, key, links)} :
       /\ bounds' = Over(bounds, Entry(key, BoundList(fresh.features, near)))
       /\ children' = links
       /\ vertices' = Over(ToldVertices(told),
                           Over(Entry(key, [wanted EXCEPT !.coverage = IF sends THEN wanted.upperscope ELSE @]),
                                vertices))
       /\ edges' = Over(ToldEdges(told, key),
                        IF IsRoot(key) THEN edges ELSE Over(Entry(key, parents), edges))
       /\ queue' = Pushed(Pushed(queue, Signals(key, task, parents)),
                          Letters(asked \ told, key, wanted))
       /\ IF IsRoot(key) THEN SetRoot(w, task) ELSE KeepRoot(w)
  /\ Dispatched(w)
  /\ UNCHANGED fit

(* Optimizer::dispatch, a message travelling up                            *)
Up(w) ==
  /\ pc[w] = "dispatch"
  /\ ~IsExploration(inbound[w])
  /\ \E key \in {inbound[w].key[2]} :
     \E self \in {vertices[key]} :
       IF Certain(self) \/ self.lower >= self.upperscope
         THEN UNCHANGED <<queue, vertices, bounds>> /\ KeepRoot(w)
         ELSE \E splits \in {Refined(key, inbound[w].features)} :
              \E offers \in {Offers(self, {splits[f] : f \in DOMAIN splits})} :
              \E task \in {Updated(data, self, offers.lower, offers.upper)} :
                /\ bounds' = [bounds EXCEPT ![key] = splits]
                /\ vertices' = [vertices EXCEPT ![key] = task]
                /\ queue' = IF IsRoot(key) THEN queue
                            ELSE Pushed(queue, Signals(key, task, edges[key]))
                /\ IF IsRoot(key) THEN SetRoot(w, task) ELSE KeepRoot(w)
  /\ Dispatched(w)
  /\ UNCHANGED <<children, edges, fit>>

(* The end of GOSDT::fit_gosdt and the start of fit_rashomon: whichever    *)
(* model comes first gives the bound, State is reset but for the dataset,  *)
(* the optimizer keeps its global bounds.                                  *)
StartSet ==
  /\ phase = "optimum" /\ Terminated
  /\ \E objective \in Extracted :
       bound' = objective + (objective * config.multiplier) \div 100
  /\ phase' = "set"
  /\ vertices' = <<>> /\ bounds' = <<>> /\ children' = <<>> /\ edges' = <<>>
  /\ queue' = {Exploration(NoKey, RootKey, data.features, {}, FltMax, 0)}
  /\ active' = TRUE
  /\ pc' = [w \in Workers |-> "pop"]
  /\ inbound' = [w \in Workers |-> NoMessage]
  /\ rooted' = [w \in Workers |-> FALSE]
  /\ UNCHANGED <<data, lower, upper, found>>

(* Optimizer::rash_models, when the workers have been joined               *)
Extract ==
  /\ phase = "set" /\ Terminated
  /\ phase' = "done"
  /\ found' = RashomonSet(bound)
  /\ UNCHANGED <<vars, bound>>

SetInit == Init /\ phase = "optimum" /\ bound = 0 /\ found = <<>>

SetNext ==
  \/ \E w \in Workers : \/ Pop(w) /\ UNCHANGED fit
                        \/ Down(w) \/ Up(w)
                        \/ Check(w) /\ UNCHANGED fit
  \/ StartSet \/ Extract
  \/ phase = "done" /\ UNCHANGED <<vars, fit>>

SetSpec == SetInit /\ [][SetNext]_<<vars, fit>>

(* Threads keep running, worker 0 renews the flag every so many of its     *)
(* ticks, and the caller goes on when the workers are joined.              *)
Joined == phase # "done" /\ Terminated /\ phase' \in {"set", "done"} \ {phase}

SetFairSpec == SetSpec /\ Fairness /\ SF_pc(Check(0) /\ Renew) /\ WF_phase(Joined)

=============================================================================
