----------------------------- MODULE SpotSearch -----------------------------
(***************************************************************************)
(* The SPOT engine's search (optimizer.cpp, dispatch.cpp): worker threads  *)
(* pop messages from the shared queue and apply them to the shared graph   *)
(* of subproblems, until worker 0 sees the root's bounds meet.             *)
(*                                                                         *)
(* A worker's iteration is three steps: Pop (under the queue's lock),      *)
(* Explore or Exploit (everything from the first vertex accessor on holds  *)
(* the shim's one lock, and what comes before it reads only the dataset    *)
(* and the message), and Check (worker 0 decides, the others read).        *)
(***************************************************************************)
EXTENDS SpotData, SpotMessage, Sequences

CONSTANTS
  DataSets,         \* the datasets to search, one is chosen at the start
  WorkerLimit       \* the workers are 0 .. WorkerLimit - 1

ASSUME WorkerAssumption == WorkerLimit \in Nat \ {0}

ASSUME DataAssumption == \A d \in DataSets : IsDataset(d)

VARIABLES
  data,      \* the dataset
  queue,     \* the queued messages, no two with the same key
  vertices,  \* Graph::vertices: key -> Task
  bounds,    \* Graph::bounds: key -> feature -> bounds of the split; the
             \* code's list is in feature order
  children,  \* Graph::children: <<key, signed feature>> -> key
  edges,     \* Graph::edges: key -> parent -> the features it is a child by
             \* and the scope under which the parent wants it
  lower,     \* global_lowerbound
  upper,     \* global_upperbound
  active,    \* the continuation flag
  pc,        \* what each worker does next
  inbound,   \* the message each worker has popped
  rooted     \* whether each worker's last dispatch moved the root's bounds

vars == <<data, queue, vertices, bounds, children, edges, lower, upper, active, pc, inbound, rooted>>

Workers == 0 .. WorkerLimit - 1
config == data.config

(* Hash tables: the table of one entry, and g overwritten by f.            *)
Entry(k, v) == [x \in {k} |-> v]

Over(f, g) == [x \in DOMAIN f \cup DOMAIN g |-> IF x \in DOMAIN f THEN f[x] ELSE g[x]]

-----------------------------------------------------------------------------
(* Keys and messages                                                       *)

RootKey == <<Rows(data), config.depth_budget>>
NoKey == <<{}, 0>>
IsRoot(key) == key[1] = Rows(data)

Signed(f, positive) == IF positive THEN f ELSE -f
Unsigned_Kept(F) == F

Unsigned(F) == {IF f < 0 THEN -f ELSE f : f \in F}

Exploration(parent, key, candidates, features, scope, priority) ==
  [key |-> <<"exploration", parent, key>>, candidates |-> candidates,
   features |-> features, scope |-> scope, priority |-> priority]

(* Nothing reads the scope of an exploitation message.                     *)
Exploitation(key, features, priority) ==
  [key |-> <<"exploitation", key>>, candidates |-> {},
   features |-> features, scope |-> 0, priority |-> priority]

NoMessage == Exploitation(NoKey, {}, 0)

IsExploration(m) == m.key[1] = "exploration"

(* Pushing the messages M one after the other, all of one priority: those  *)
(* of one key merge with one another and with the queued one.              *)
Pushed(q, M) ==
  LET twins(k) == {m \in M : m.key = k}
      merged(m) == [m EXCEPT !.features = @ \cup UNION {x.features : x \in twins(m.key)},
                             !.scope = Max({@} \cup {x.scope : x \in twins(m.key)})]
      queued == {x.key : x \in q}
  IN  {merged(m) : m \in q \cup {x \in M : x.key \notin queued /\ x = CHOOSE y \in twins(x.key) : TRUE}}

Priority(key, task) == Support(data, key[1]) - task.lower

-----------------------------------------------------------------------------
(* The bounds of a vertex from those of its splits                         *)

Offered_OutOfScope(task, splits) ==
  LET inScope == {s \in splits : s.lower <= task.upperscope}
  IN  [lower |-> Min({task.base} \cup {s.lower : s \in inScope}),
       upper |-> Min({task.base} \cup {s.upper : s \in inScope})]

(* The end of store_children and load_children alike: splits out of scope  *)
(* are passed over, and if nothing is left in scope then all that is known *)
(* is that the objective exceeds the scope.                                *)
Offered(task, splits) ==
  LET inScope == {s \in splits : s.lower <= task.upperscope}
  IN  [lower |-> Min({task.base, task.upperscope} \cup {s.lower : s \in inScope}),
       upper |-> Min({task.base} \cup {s.upper : s \in inScope})]

(* The children a worker has at hand for an exploration, by feature: fresh *)
(* ones (feature_transform is on).  Nothing reads their features but to    *)
(* see there are some.                                                     *)
NearChild(key, task, f, positive) == NewTask(data, Child(data, key, f, positive), task.features)

NearPair(key, task, f) ==
  [feature |-> f, negative |-> NearChild(key, task, f, FALSE), positive |-> NearChild(key, task, f, TRUE)]

Near(key, task) == {NearPair(key, task, f) : f \in task.features}

NearSplit(n) == Split(data, n.negative, n.positive)

NearSplits(near) == {NearSplit(n) : n \in near}

BoundList(F, near) == [f \in F |-> NearSplit(CHOOSE n \in near : n.feature = f)]

(* load_children: the splits by the signalled features are recomputed from *)
(* the graph, then each split is compared with its neighbours in the list, *)
(* in list order and in place: the one before has been visited, the one    *)
(* after has not.                                                          *)
Resplit(key, f, signals) ==
  LET link(positive) == <<key, Signed(f, positive)>>
      ready == \A positive \in BOOLEAN : link(positive) \in DOMAIN children
      child(positive) == vertices[children[link(positive)]]
  IN  IF f \in signals /\ ready THEN Split(data, child(FALSE), child(TRUE)) ELSE bounds[key][f]

Before(f, F) == {g \in F : config.similar_support /\ g < f /\ \A h \in F : h < f => h <= g}
After(f, F) == {g \in F : config.similar_support /\ g > f /\ \A h \in F : h > f => h >= g}

Apart(key, f, g) == Distance(data, key[1], f, g)

RefinedLower(key, signals) ==
  LET old == bounds[key]
      F == DOMAIN old
      lo[f \in F] == Max({Resplit(key, f, signals).lower}
                            \cup {old[g].lower - Apart(key, f, g) : g \in After(f, F)}
                            \cup {lo[g] - Apart(key, f, g) : g \in Before(f, F)})
  IN  lo

RefinedUpper(key, signals) ==
  LET old == bounds[key]
      F == DOMAIN old
      hi[f \in F] == Min({Resplit(key, f, signals).upper}
                            \cup {old[g].upper + Apart(key, f, g) : g \in After(f, F)}
                            \cup {hi[g] + Apart(key, f, g) : g \in Before(f, F)})
  IN  hi

Refined(key, signals) ==
  LET lo == RefinedLower(key, signals)
      hi == RefinedUpper(key, signals)
  IN  [f \in DOMAIN bounds[key] |-> [lower |-> lo[f], upper |-> hi[f]]]

-----------------------------------------------------------------------------
(* signal_exploiters: what a vertex tells its parents                      *)

Signals_OnlyCertain(key, task, parents) ==
  IF ~Certain(task) THEN {}
  ELSE {Exploitation(p, parents[p].features, Priority(key, task)) : p \in DOMAIN parents}

Signals(key, task, parents) ==
  LET heard(p) == Certain(task) \/ task.lower >= parents[p].scope
  IN  IF ~Certain(task) /\ task.lower < task.lowerscope THEN {}
      ELSE {Exploitation(p, parents[p].features, Priority(key, task)) :
              p \in {p \in DOMAIN parents : heard(p)}}

WithEdge_OnInsertion(parents, parent, features, scope) ==
  Over(parents, Entry(parent, [features |-> {Min(features)}, scope |-> scope]))

(* link_to_parent: insertions keep what the tables have                    *)
WithEdge(parents, parent, features, scope) ==
  LET old == IF parent \in DOMAIN parents THEN parents[parent]
                                          ELSE [features |-> {}, scope |-> scope]
  IN  Over(Entry(parent, [features |-> old.features \cup features,
                          scope |-> Min({old.scope, scope})]), parents)

Linked(parent, features, key) == Over(children, [link \in {parent} \X features |-> key])

ParentsOf(key) == IF key \in DOMAIN edges THEN edges[key] ELSE <<>>

-----------------------------------------------------------------------------
(* send_explorers: what a vertex asks of its children                      *)

Asked(key, task, near) ==
  LET boundary == IF config.look_ahead THEN Min({task.upper, task.upperscope}) ELSE task.upper
      reserve(sibling) == IF config.rule_list THEN sibling.base ELSE GuaranteedLower(data, sibling)
      ask(f, positive, sibling) == [feature |-> Signed(f, positive),
                                    child   |-> Child(data, key, f, positive),
                                    scope   |-> boundary - reserve(sibling)]
      inScope == {n \in near : NearSplit(n).lower <= boundary /\ NearSplit(n).upper > task.coverage}
  IN  {ask(n.feature, FALSE, n.positive) : n \in inScope}
        \cup {ask(n.feature, TRUE, n.negative) : n \in inScope}

(* send_explorer: a child that is linked and already wanted under a larger *)
(* scope is only told of the new one; the others get a message.            *)
Told(asked, key, links) ==
  {a \in asked : <<key, a.feature>> \in DOMAIN links /\ a.scope < vertices[a.child].upperscope}

Letters(asks, key, task) ==
  {Exploration(key, a.child, task.features, {a.feature}, a.scope, Priority(key, task)) : a \in asks}

(* Asks for one child have one scope: they are the sides of splits that    *)
(* divide the rows alike.                                                  *)
ToldVertices(told) ==
  [c \in {a.child : a \in told} |->
     Scoped(vertices[c], (CHOOSE a \in told : a.child = c).scope)]

ToldEdges(told, key) ==
  [c \in {a.child : a \in told} |->
     LET asks == {a \in told : a.child = c}
     IN  WithEdge(edges[c], key, Unsigned({a.feature : a \in asks}), Min({a.scope : a \in asks}))]

-----------------------------------------------------------------------------
(* The steps of a worker                                                   *)

Init ==
  /\ data \in DataSets
  /\ queue = {Exploration(NoKey, RootKey, data.features, {}, FltMax, 0)}
  /\ vertices = <<>> /\ bounds = <<>> /\ children = <<>> /\ edges = <<>>
  /\ lower = -FltMax /\ upper = FltMax
  /\ active = TRUE
  /\ pc = [w \in Workers |-> "pop"]
  /\ inbound = [w \in Workers |-> NoMessage]
  /\ rooted = [w \in Workers |-> FALSE]

(* GosdtQueue::pop.  A worker that finds the queue empty dispatches        *)
(* nothing.                                                                *)
Pop(w) ==
  /\ pc[w] = "pop"
  /\ IF queue = {}
       THEN /\ pc' = [pc EXCEPT ![w] = "check"]
            /\ rooted' = [rooted EXCEPT ![w] = FALSE]
            /\ UNCHANGED <<queue, inbound>>
       ELSE \E m \in queue :
              /\ IsTop(queue, m)
              /\ queue' = queue \ {m}
              /\ inbound' = [inbound EXCEPT ![w] = m]
              /\ pc' = [pc EXCEPT ![w] = "dispatch"]
              /\ UNCHANGED rooted
  /\ UNCHANGED <<data, vertices, bounds, children, edges, lower, upper, active>>

(* Optimizer::update_root, by the dispatch of worker w                     *)
UpdateRoot(w, task) ==
  /\ upper' = task.upper
  /\ lower' = Min({task.upper, task.lower})
  /\ rooted' = [rooted EXCEPT ![w] = task.lower # lower \/ task.upper # upper]

KeepRoot(w) ==
  /\ rooted' = [rooted EXCEPT ![w] = FALSE]
  /\ UNCHANGED <<lower, upper>>

Dispatched(w) ==
  /\ pc' = [pc EXCEPT ![w] = "check"]
  /\ inbound' = [inbound EXCEPT ![w] = NoMessage]
  /\ UNCHANGED <<data, active>>

RootUpper ==
  IF config.upperbound_guess > 0 THEN Min({config.one, config.upperbound_guess}) ELSE config.one

(* Optimizer::dispatch, a message travelling down.  A quantifier over one  *)
(* value names it.                                                         *)
Fresh(key, m) == Pruned(data, Scoped(NewTask(data, key, m.candidates), m.scope), key[1])

Stored_Overwritten(key, m, fresh, near) ==
  LET offered == Offered(fresh, NearSplits(near))
      task == Updated(data, fresh, offered.lower, offered.upper)
  IN  IF IsRoot(key) THEN Updated(data, task, task.lower, RootUpper) ELSE task

(* store_self, store_children and the cap on the root                      *)
Stored(key, m, fresh, near) ==
  LET self == IF key \in DOMAIN vertices THEN Scoped(vertices[key], m.scope) ELSE fresh
      offered == Offered(self, NearSplits(near))
      task == Updated(data, self, offered.lower, offered.upper)
  IN  IF IsRoot(key) THEN Updated(data, task, task.lower, RootUpper) ELSE task

(* Whether the children are asked anything.                                *)
Sends(m, task) == (config.reference_LB \/ m.scope >= task.upperscope) /\ ~Certain(task)

Explore(w) ==
  /\ pc[w] = "dispatch"
  /\ IsExploration(inbound[w])
  /\ \E m \in {inbound[w]} :
     \E parent \in {m.key[2]}, key \in {m.key[3]} :
     \E fresh \in {Fresh(key, m)} :
     \E near \in {Near(key, fresh)} :
     \E task \in {Stored(key, m, fresh, near)} :
     \E links \in {IF IsRoot(key) THEN children
                   ELSE Linked(parent, m.features, key)},
        parents \in {IF IsRoot(key) THEN <<>>
                     ELSE WithEdge(ParentsOf(key), parent, Unsigned(m.features), m.scope)} :
     \E wanted \in {IF Sends(m, task) THEN Scoped(task, m.scope) ELSE task} :
     \E asked \in {IF Sends(m, task) THEN Asked(key, wanted, near) ELSE {}} :
     \E told \in {Told(asked, key, links)} :
       /\ bounds' = Over(bounds, Entry(key, BoundList(task.features, near)))
       /\ children' = links
       /\ vertices' = Over(ToldVertices(told),
                           Over(Entry(key, [wanted EXCEPT !.coverage = IF Sends(m, task) THEN wanted.upperscope ELSE @]),
                                vertices))
       /\ edges' = Over(ToldEdges(told, key),
                        IF IsRoot(key) THEN edges ELSE Over(Entry(key, parents), edges))
       /\ queue' = Pushed(Pushed(queue, Signals(key, task, parents)),
                          Letters(asked \ told, key, wanted))
       /\ IF IsRoot(key) THEN UpdateRoot(w, task) ELSE KeepRoot(w)
  /\ Dispatched(w)

(* Optimizer::dispatch, a message travelling up                            *)
Exploit(w) ==
  /\ pc[w] = "dispatch"
  /\ ~IsExploration(inbound[w])
  /\ \E key \in {inbound[w].key[2]} :
     \E self \in {vertices[key]} :
       IF Certain(self) \/ (~config.reference_LB /\ self.lower >= self.upperscope)
         THEN UNCHANGED <<queue, vertices, bounds>> /\ KeepRoot(w)
         ELSE \E splits \in {Refined(key, inbound[w].features)} :
              \E offered \in {Offered(self, {splits[f] : f \in DOMAIN splits})} :
              \E task \in {Updated(data, self, offered.lower, offered.upper)} :
                /\ bounds' = [bounds EXCEPT ![key] = splits]
                /\ vertices' = [vertices EXCEPT ![key] = task]
                /\ queue' = IF ~IsRoot(key) /\ Changes(self, offered.lower, offered.upper)
                              THEN Pushed(queue, Signals(key, task, edges[key])) ELSE queue
                /\ IF IsRoot(key) THEN UpdateRoot(w, task) ELSE KeepRoot(w)
  /\ Dispatched(w)
  /\ UNCHANGED <<children, edges>>

(* The end of Optimizer::iterate: worker 0 renews the flag when its        *)
(* dispatch moved the root, when the bounds have met and every so many     *)
(* ticks; every worker goes by what it then reads.                         *)
Complete == lower = upper

Renew_NoQueueTest == active' = ~Complete

Renew == active' = (~Complete /\ (WorkerLimit > 1 \/ queue # {}))

Check(w) ==
  /\ pc[w] = "check"
  /\ IF w # 0 THEN UNCHANGED active
     ELSE \/ Renew
          \/ ~rooted[0] /\ ~Complete /\ UNCHANGED active
  /\ pc' = [pc EXCEPT ![w] = IF active' THEN "pop" ELSE "done"]
  /\ UNCHANGED <<data, queue, vertices, bounds, children, edges, lower, upper, inbound, rooted>>

Terminated == \A w \in Workers : pc[w] = "done"

Next ==
  \/ \E w \in Workers : Pop(w) \/ Explore(w) \/ Exploit(w) \/ Check(w)
  \/ Terminated /\ UNCHANGED vars

Spec == Init /\ [][Next]_vars

(* A worker's thread keeps running: weak fairness of its steps.  One of    *)
(* them is enabled until it is done, and each moves its pc.                *)
Moves(w) ==
  /\ pc[w] # "done"
  /\ \E next \in {"pop", "dispatch", "check", "done"} \ {pc[w]} : pc' = [pc EXCEPT ![w] = next]

Fairness == \A w \in Workers : WF_pc(Moves(w))

FairSpec == Spec /\ Fairness

-----------------------------------------------------------------------------
(* Optimizer::models: the objectives of the models extraction can return   *)
(* for a key, whatever the model limit.                                    *)

Extracted ==
  LET objectives[key \in DOMAIN vertices] ==
        LET task == vertices[key]
            fresh(f, positive) == NewTask(data, Child(data, key, f, positive), {}).base
            side(f, positive) ==
              LET link == <<key, Signed(f, positive)>>
              IN  IF link \in DOMAIN children THEN objectives[children[link]]
                                              ELSE {fresh(f, positive)}
            grown(f) ==
              IF config.rule_list
                THEN {r \in UNION {{x + fresh(f, ~p) : x \in side(f, p)} : p \in BOOLEAN} :
                        r <= task.upper /\ \A p \in BOOLEAN : side(f, p) # {}}
                ELSE {x + y : x \in side(f, FALSE), y \in side(f, TRUE)}
        IN  {task.base : x \in {y \in {0} : task.base <= task.upper}}
              \cup UNION {grown(f) : f \in {g \in DOMAIN bounds[key] : bounds[key][g].upper <= task.upper}}
  IN  objectives[RootKey]

=============================================================================
