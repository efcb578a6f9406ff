# A formal model of shinrin

shinrin bundles several learners behind a scikit-learn interface. Most of them are sequential numerical code. Three are
not, and are the ones whose results carry a certificate: C++ engines that search by branch and bound.

- **SPOT** finds the optimal sparse decision tree, with worker threads that exchange messages over a shared graph of
  subproblems.
- **SPOTSET**, a fork of SPOT's engine, finds every tree within a bound of the optimum.
- **CORELS** finds the optimal rule list, in a prefix tree whose nodes are freed while a queue still points to them.

This project models all three and checks them with TLC. With TLAPS it proves SPOT's run loop, its queue and that every
bound of its search brackets the optimum; and of CORELS its memory and that the list returned costs what the search
claims. Below `libspot` stands for
`src/src/shinrin/_spot/cpp/libspot`, `engine` for `src/src/shinrin/_spotset/cpp/engine` and `corels` for
`src/src/shinrin/_corels/cpp/corels`.

## Inventory

### SPOT

| Part | State | Operations | Correct when |
|---|---|---|---|
| Message queue (`queue.cpp`, `queue.hpp`, `message.cpp`) | heap of messages, membership filter | push (merges into a queued message of the same key), pop | no request lost or invented, filter and heap agree |
| Dataset (`dataset.cpp`) | bit columns, costs, majority rows; immutable | summary statistics, subset, distance of two features | the bounds drawn from it bracket the optimum |
| Task (`task.cpp`) | bounds, scopes, coverage, features of a subproblem | construct, scope, create_children, update | bounds only tighten, around the optimum |
| Graph (`graph.hpp`) | vertices, bound lists, children, edges | insert, find under accessors | the two link tables agree |
| Dispatch (`dispatch.cpp`, `optimizer.cpp`) | the graph, the root's bounds | exploration (down), exploitation (up) | a drained queue means a solved root, a closed gap means the optimum |
| Run loop (`gosdt.cpp`, `Optimizer::iterate`) | worker threads, continuation flag, ticks, clock | iterate, timeout, join, status | stops when and only when solved or out of time, reports which |
| Extraction (`models.cpp`) | none | rebuild the models from the bound lists | the models have the certified objective |
| TBB shim (`tbbshim`) | one process-global recursive mutex | accessors that hold it | a dispatch is one critical section |
| Bitmasks, configuration, JSON, diagnosis, C bridge | none of its own | conversions | |

The parts interact through shared state only. A worker pops a message, dispatches it against the graph, pushes what
follows from it and moves the root's bounds; worker 0 looks at the root's bounds and takes the flag down; every worker
reads the flag. An *exploration* message goes from a parent down to a child and carries the scope beyond which the parent
has no interest; an *exploitation* message goes up and names the features whose splits have news.

What is hard: messages of one key merge while they are queued; a dispatch drops messages, skips splits and sends no
message at all where scopes say nobody is interested, so that one wrong scope leaves a subproblem waiting for ever; bounds
are computed from children that have moved since, and compared with neighbours half updated; the two bounds of the root
are stored one after the other and read without the lock; worker 0 alone can stop the run, and several workers do not stop
on an empty queue. `PROJECT.json` lists each under "hazards", at its line.

### SPOTSET

| Part | State | Operations | Correct when |
|---|---|---|---|
| Fit (`gosdt.cpp`) | the phase, the Rashomon bound | search, take the bound, reset, search again, extract | the bound is drawn from the true optimum, the fit ends |
| Search (`optimizer.cpp`, `dispatch.hpp`, `task.cpp`) | as SPOT's | as SPOT's; under a flag nothing is certain and everything within the bound is explored | no tree within the bound is cut off |
| Extraction (`rash_models.hpp`, `model_set.cpp`) | a cache of results by subproblem | rebuild shared sets of trees bottom-up | all trees within the bound but those a tied leaf hides, and no other |
| Container (`model_set.py`) | the shared sets | decode the i-th tree | each index a different tree |
| Classifier, CSV encoder, bridge | none of their own | conversions | |

What is hard: tests that are right for an optimum lose trees when the goal is the whole set (a leaf that no optimal tree
splits, a subproblem whose bounds have met); bounds now mean something else than the parent's interest does; results are
cached under one scope and read under another; counts summed up while the sets are built must fit the numbering by which
another program decodes them; and what ended SPOT's loop, met bounds, no longer happens.

### CORELS

| Part | State | Operations | Correct when |
|---|---|---|---|
| Mining (`mining/utils.cpp`) | rules, minority samples | conjoin literals within the support bounds | every such conjunction once |
| Prefix tree (`cache.cpp`, `cache.h`) | nodes, links, count, best list | insert, delete a subtree, prune upwards, collect | nothing freed is used, nothing is left behind |
| Queue (`queue.h`) | prefixes, by one of five policies | select, dropping what is marked or hopeless | |
| Permutation map (`pmap.cpp`) | for each set of rules, or of samples, the best prefix | insert, superseding a worse prefix | the optimum stays reachable |
| Search (`corels.cpp`, `run.cpp`) | the node being evaluated | begin, loop, end | ends with the optimal list |
| `CorelsClassifier`, bridge (`corels.py`, `bridge.cpp`, `lib.rs`) | the fit in progress | fit, interrupt, predict | the list returned has the objective certified |

What is hard: a node cannot be taken out of the middle of the queue, so whoever drops it marks it and whoever finds it
there frees it, while inner nodes are freed at once; four places drop nodes, each with bookkeeping of its own, and each
prunes by bounds that the others rely on; one prefix stands for all that capture the same samples.

### The rest of the repository

| Part | Behaviour | Here |
|---|---|---|
| Mondrian forests (`_skgarden/mondrian`) | `partial_fit` extends trees in place | planned |
| Backend selection (`_backend.py`, `_native_mojo.py`) | which native kernels are used | planned |
| Minimal-flip tweaking (`_tweaking`) | best-first search over leaf boxes | candidate |
| Rule mining, ORDT, quantile forests, SHAP, ONNX, categorical encoding, `lib.rs` kernels | sequential numerics and conversions | not modelled |
| mini-gmp, nlohmann json, csv.h | third-party | not modelled |

## Modules

    SpotData                 what is computed from the dataset: statistics, Task, Split
      SpotOptimum            the reference
        SpotOptimumProofs
      SpotSearch             the search; also on SpotMessage, messages and their merging
        SpotCorrect          its properties; also on SpotOptimum; implements SpotRootBounds
          SpotSearchProofs   also on SpotOptimumProofs
            SpotResultProofs
          MCSpotSearch
        SpotsetModels        SPOTSET's extraction and container
          SpotsetSearch      its fit
            SpotsetCorrect   its properties; also on SpotCorrect
              MCSpotset
    SpotMessage
      SpotQueue -- SpotQueueProofs, MCSpotQueue
    SpotRootBounds           abstract: what a search promises the run loop
    SpotRun                  the run loop; implements SpotRootBounds -- SpotRunProofs, MCSpotRun

    CorelsData
      CorelsRules, CorelsSearch
        CorelsFit
          CorelsMemory
            CorelsCorrect -- MCCorels
            CorelsMemoryProofs
              CorelsResultProofs (and CorelsCorrect)

Each module extends those it is indented under. `ProofBasics`, facts about numbers, finite sets and recursion, is under `SpotOptimumProofs` and `CorelsMemoryProofs`.
`MCSpotData` holds datasets for both `MCSpotSearch` and `MCSpotset`.

**SpotMessage, SpotQueue.** `membership` and `queue` are the two containers of `GosdtQueue`, `Push` and `Pop` its two
operations, each one step because each runs under the shim's lock. `ledger`, what was pushed and not yet popped, is a
history variable the properties compare with.

**SpotData.** The pure part, as operators: a capture set is a set of rows, a key the pair of a capture set and a depth
budget (`Bitmask::operator==` compares both), a Task a record. Each operator is one function of `dataset.cpp` or
`task.cpp`. The code adds costs as floats and compares up to an epsilon; here costs are integers in a unit that divides
them all (`one` is the code's 1.0) and comparisons are exact, so what is said here holds of the code up to rounding. A
Task's support, which orders the queue, is rounded down to that unit when `one` is not a multiple of the number of rows;
in all the runs it is a multiple. A dataset carries the options it is searched with (`config`) and the predictions of a
reference model (`reference`). `feature_transform` is on, as in all that the classifier does.

**SpotSearch.** The graph (`vertices`, `bounds`, `children`, `edges`), the queue, the root's bounds and the workers. One
iteration of a worker is three steps: `Pop`, then `Explore` or `Exploit`, then `Check`. A dispatch is one step because
everything in it from the first vertex accessor on runs while that accessor holds the process-global mutex, and what comes
before reads only the dataset and the message. Both dispatch actions are the whole handler: storing and scoping the
vertex, its bound list, the cap on the root, linking, signalling the parents, and asking the children. Messages of equal
priority are popped in any order, which the heap of the code decides arbitrarily. What a dispatch asks of one child is
decided by the child as it was before (`Told`); in the code telling it once may set its scope, if it was only ever wanted under zero,
and then a second feature that divides the rows alike sends it a message. The model does without that message. Left out: the tile order
(`translations`, always the identity here), printing and profiling.

`Extracted` is `Optimizer::models`: the objectives of the models that can be rebuilt from the graph for the root.

**SpotOptimum, SpotCorrect.** The reference: the optimum of each subproblem, without any of the engine's bounds; and the
properties of the search, stated against it. `IsLeast` says what the optimum is, an equation between that of a subproblem
and those of its children, and `Least` computes it from the smallest sets of rows up. A dataset carries its optimum along
(`IsJudged`), so that the properties and the proofs go by the equation. A search guided by a reference model promises less,
since it takes for granted that no leaf has a smaller loss than the reference has on its rows: `guarantee` is the optimum
under that belief, and `CertifiedIsOptimal` says that the result lies between the two, at the optimum where the reference
is nowhere beaten.

**SpotRootBounds.** The abstract specification: two bounds close in on an optimum that never changes, as long as there is
something to dispatch. Only of a worker that is `Alone` does it promise that the bounds have met once nothing is left: the
loop needs that of nobody else (it goes on, with several workers, on an empty queue), and several do not keep it
(`search_delayed`, below).

**SpotRun.** The run loop at a finer grain: the two stores of `update_root` and the two loads of `uncertainty` are steps
of their own, loads in either order; `holder` is the worker in the lock between its two stores. What a dispatch computes is
abstracted to what `SpotRootBounds` allows. So the split is an assume-guarantee one: `SpotCorrect!RefinesRootBounds` says
that the search gives what `SpotRun` takes, and `SpotRun!RefinesRootBounds` that the torn stores do not spoil it.

**SpotsetModels, SpotsetSearch, SpotsetCorrect.** A SPOTSET fit: `phase` is the `rashomon_flag` and what comes after it.
`StartSet` takes the bound from whichever optimal model comes first and resets what the code resets, `Extract` rebuilds
the set. The fork shares SPOT's queue, links, signals and refinement of bound lists line for line, and so the model shares
the definitions; new are `NewVertex` (no leaf test under the flag), `Offers` and `Tightened` (no scope cap), `Wanted`
(explores also what is certain), `SetRoot` (the upper bound stays where the Rashomon bound is), `Down` and `Up`. `Models`
is the extraction with its cache, which answers a request of a smaller scope with what was found under a larger one;
`TreeAt` decodes an index as the Python container does. `GoodTrees` is the reference: all trees within a budget, by
recursion over every split. A split of two leaves of one class is no tree of the set, as the default of the option that
ignores trivial extensions has it. `Hidden` names the trees that the code loses by the way it does this: it compares two
ModelSets by their leaves (`TrivialExtension`), and a ModelSet holds every tree of its objective. A tree is hidden if in it
both sides of a split cost what a leaf costs there, and the two leaves are of one class. `SetIsComplete` excepts the hidden
trees, `SetIsWhole` does not. The compiled engine was compared with this on 800 000 random datasets of eight rows with
dyadic costs: it never returned a hidden tree, and lost no other.

**CorelsData, CorelsRules, CorelsSearch, CorelsFit, CorelsMemory, CorelsCorrect.** A CORELS fit, from mining to the list
returned. One step is one iteration of a loop of the code: a literal, a combination of them, a node taken from the queue,
a rule tried on the node being evaluated, a collection. `nodes` is what is in memory, `linked` what the tree reaches through `children_`:
they differ by the nodes that are dropped and wait in the queue to be freed, which is what the properties are about. Costs
are integers, a misclassified sample `Unit` and a rule `c`. `CorelsMemory` states what memory owes the search, and
`CorelsFit` what the list returned is worth. In `CorelsCorrect` are the
properties that compare with a reference. The references are `Conjunctions`, every conjunction of
literals within the support bounds, and `Completion`, the least that any further rules can add to what a prefix captures.

A definition named `X_Y` is `X` with the defect `Y`, a mutant: `PROJECT.json` pairs each with a property it breaks.

## Runs

| Run | Instance | Distinct states | Shows |
|---|---|---|---|
| `queue` | 2 keys, features, scopes, priorities; 3 requests owed | 8 561 | merging loses and invents nothing |
| `search_alone` | 1 worker; 7 rows, all 48 labellings over 3 features, for trees and for rule lists; 6 rows under a depth budget; hard sets over 4 or 5 features; 94 reference models | 108 380 | bounds and splits bracket the optimum, links and scopes agree, a drained queue means solved, a closed gap means the optimum, nothing widens |
| `search_pair` | 2 workers, 2 datasets of 7 rows, all interleavings | 46 006 | on these two every schedule ends, certified at the same optimum; implements `SpotRootBounds` |
| `run_pair` | 2 workers, time limit, torn bounds | 48 636 | the flag, the status and the return; implements `SpotRootBounds` |
| `spotset` | 1 worker; 31 labellings of 6 rows, wider bounds, a depth budget, twin features; 8 labellings of 4 rows with ties | 64 667 | on these the set is drawn from the true optimum, is sound, is complete but for hidden trees, its indices are its trees, the fit ends |
| `corels` | 2 to 16 samples, 1 to 4 features; 5 policies, 3 maps, 3 ablations, node limits | 40 319 | mining, memory, the optimum, the list returned, the end |
| `search_capped` | `upperbound_guess` a valid bound; errors that cost more than 1/n | | violation, below |
| `search_sharp` | 9 rows, 1 feature, a reference model that is always right | | violation, below |
| `search_delayed` | 2 workers, 8 rows, 5 features, default options, schedules with a late dispatch | | violation, below |
| `spotset_lost` | 4 rows with ties; 8 rows, 5 features, without | | violation, below |
| `spotset_bound` | 1 worker, 9 rows, 6 features, a regularization of 2/27, messages of equal priority in one order | | violation, below |
| `spotset_pair` | 2 workers, 3 rows | | violation, below |

**Bounds and why they are enough.** Seven rows are enough for leaves, dead ends and deeper trees to be optimal: over
the 48 labellings (all, up to the symmetry of the two classes and of the two rows that are alike) the optimal tree is a
leaf for 15, has one level of splits for 17 and two for 16. The two rows that are alike, labelled differently, make the
equivalent-points bound differ from zero. But over three features few subproblems are reached twice. Two more datasets over
four features, found by searching for inputs on which omitting a signal or a link shows, make the search revisit
subproblems, widen their scopes and share children between parents; the mutants of `LinksAgree`, `DrainedMeansSolved` and
`BoundsOnlyTighten` are only caught on them. Four kinds of input change what a bound means. The similar-support bound does
nothing on most sets this small; one over five features was searched for on which it tightens a bound, and on which a
distance counted from one side only, the mutant of `SplitsBracketOptimum`, makes a bound wrong. The 48 labellings are
searched for rule lists too, and one rule list is there because a child is wanted under exactly zero in it. The 32 labellings
of six rows, with an error that costs more so that nine of them need three levels of splits, are searched under a depth
budget that allows two. One labelling is searched under all reference models that know both classes, 94 up to the symmetry,
most of them wrong somewhere.
`search_pair` has an exclusive-or, which needs messages down and up along shared subproblems, and one of the
hard datasets; two workers multiply the states. A
queue that drained before the search is solved would show as `Termination` failing. The rows of `search_delayed` were found by
simulating two workers on random data; of its schedules `LateDispatch`, an action constraint, leaves those in which worker 1
is slow to dispatch what it has popped, because all interleavings of eight rows are too many. A violation found under it is
one of the whole specification. In `SpotRun` two objective values make the bounds move twice before
they meet, two queued messages let one worker drain the queue, with the root solved or not, while the other refills it, and two ticks make the
periodic check happen and not happen. `MaxOwed`, `MaxWaiting` and `TickDuration` are bounds of the model, named as
constants. That a single worker may stop on an empty queue has no run of its own: `StopsRight` and `StatusRight` prove it.

The second search of SPOTSET is given any order of the messages too. Six rows are enough for sets of several trees of
different shapes and objectives; of the 32 labellings the parity of the features is left out, whose messages have more
than a million orders. No bound falls on
an objective, where rounding would decide in the code. Where an error costs 20, no ModelSet of a set that is
returned holds both a leaf and splits. `TiedRows` are for that: an error costs
what a leaf does, so a split that saves just one error ties with the leaf it replaces. Four rows make quarters of all costs, and
nothing rounds. On six of the eight labellings nothing is lost, and in three of these a ModelSet below the root holds its leaf and a
split, which is where the container has to number the leaf first; on two labellings trees are hidden, six
and two. The compiled engine returns as many trees as the model on each labelling of two classes. Twin features make two trees of one ModelSet
differ in both sides, which is what decoding an index can get wrong. The eight
rows of `spotset_lost` and those of `spotset_bound` were found by
comparing the compiled engine's answer with all trees within the bound, or with the optimum, on random data; `FixedOrder`, an
action constraint, leaves one order of the messages of equal priority, because all of them are too many.

The instances of CORELS were found by simulating the model for what must happen in one of them: that a better order, or
another way to capture the same samples, replaces a node that waits, or one whose children wait; that pruning goes up
several levels, and reaches the root; that a collection drops done subtrees; that the prefix map decodes an order wrongly;
that the node limit stops the search. `MCCorels` names each. There are no bounds of the model besides the instances.

**Fairness.** `search_pair` assumes that a worker's thread keeps running: weak fairness of its steps, stated on `pc`
because each step moves it. `run_pair` assumes more: a thread that keeps finding the lock free obtains it in the end
(strong fairness of the steps that take it). With weak fairness alone `ReturnsWhenDue` fails: worker 0, the only one that
can stop the run, may find the lock taken each time it looks while the other workers poll. A mutex of the standard library
does not promise this, it is what its implementations do in practice, and the return of `fit` rests on it. The clock
needs no fairness: `ReturnsWhenDue` speaks of a time that has expired. `spotset` and `spotset_pair` add that worker 0's
check falls on a tick that renews the flag again and again (it does every `tick_duration` ticks, which the model leaves
open), and that the caller goes on when its workers are joined. `corels` assumes that the caller's `while` loop calls the
engine again. Only `corels` allows a deadlock, for there the fit returns; the others end in a step that changes nothing.

### What the violations say

- **`search_capped`.** The code makes 1.0, or a smaller `upperbound_guess`, the root's upper bound before any model attains
  it (`dispatch.cpp:29-33`). `docs/models/spot.md:83` describes the guess as an "External upper bound in (0, 1] used for
  pruning"; one that equals the lower bound ends the search at once, with
  nothing to extract. For example six rows whose three binary features spell 0 to 5, with labels 0 0 0 1 1 0, a
  regularization of 1/12 and a guess of 4/12: the search ends after no iteration with bounds [4/12, 4/12] and the status
  `FALSE_CONVERGENCE`; without a time limit `gosdt.cpp:108-111` reads the first of no models.
  `docs/models/spot.md:97-98` offers a matrix of misclassification costs, but 1.0 only bounds an objective whose errors cost
  no more than 1/n. With costs of 1.0 an error and two rows that cannot be told apart the bounds meet at 1.0 in the first
  dispatch, where no model is: the search ends in the same way. Each of the two datasets alone violates the property.
- **`search_sharp`.** `docs/models/spot.md:52-53` offers to "hand the optimizer predictions from any blackbox model to
  tighten its bounds", and `tests/test_spot.py:82` asserts that a search so guided converges. A model that knows more than
  the binary features may be right on rows these do not tell apart. Its loss there, which the code takes for `min_loss`, is
  less than `guaranteed_min_loss`, and the guaranteed lower bound of a task exceeds its lower bound (`task.cpp:34, 38`). `send_explorers` hands a child the boundary less what is *guaranteed* of its sibling
  (`optimizer.cpp:231-232`): both children are closed at their scopes, their lower bounds add up to less than the
  boundary, and nothing asks them again. Nine rows of one feature, five without it (0 0 1 1 1) and four with it (0 0 1 1),
  y_ref = y, an error and a leaf at 1/9 each: the queue drains with the root at [4/9, 5/9], which no message will close.
  One worker ends with `NON_CONVERGENCE`, two without a time limit poll the empty queue for ever (`optimizer.cpp:101`). The
  tree found is a good one; what is missing is the certificate.
- **`search_delayed`.** `tests/test_spot.py:89` says that "Parallel workers must return the same certified optimum as one
  worker", whatever the scheduling. `send_explorer` only notes the new scope of a child that is linked and already wanted under a larger
  one (`optimizer.cpp:246-255`; `Told`): the child is expected to signal when it has news. If it has settled (certain, or
  at its own scope), it has none. So a vertex must not be widened when it has waited for all its children already and all of
  them have settled; then nothing is asked, nothing is signalled, and what waits for the vertex waits for ever. The order of the
  messages, by what a parent still has to gain, seems to keep a single worker from it: more than 35 million random searches
  found no such case. A worker that pops an exploration and then waits for the lock, while the other goes on, dispatches it out of order. On eight
  rows of five features, all options at their defaults (a leaf at 1/16, an error at 1/8), the queue drains with the root at
  [4/16, 5/16]; both workers poll it until the time limit, if there is one (`optimizer.cpp:101`). The compiled engine does the same when worker 1 is
  held for 100 ms between its pop and its dispatch of the 26th message. What is certified stays true (`SearchCertifies`):
  what is lost is the certificate and, without a time limit, the return.
- **`spotset_lost`.** `docs/models/spotset.md:3-5` promises "every tree" within the bound. Two parts of the code lose some,
  and the run has a dataset for each; each alone violates `SetIsWhole`.
  *Tied leaves.* A pair of ModelSets that both hold a leaf of one class is skipped as a trivial extension
  (`rash_models.hpp:231-238`; the option is on by default, and the classifier does not set it). If a split costs as much as
  the leaf it replaces, both are in one ModelSet, and the pair stands for other trees too. An exclusive-or of two features,
  four rows, a regularization of 1/4 and a multiplier of 0.4: the optimum is the leaf at 3/4. Six trees cost 1, within the
  bound of 1.05: either feature at the root, and the other on one side or on both. Both halves cost 1/2 as a leaf and as a
  split, their leaves predict the same, and the set is the one leaf. The engine returns the same, and nine trees with the
  option off: these seven, and two trivial extensions. All values are dyadic, so this is not rounding.
  *A missing cap.* SPOT caps a lower bound at the
  scope when no split is within it (`_spot/.../dispatch.cpp:173`), because what is left is then no bound of the splits.
  The fork does not (`dispatch.hpp:173-180` and `231-238`, `task.cpp:168-175`); `load_children` hands the value on to
  the neighbouring feature by similar support, and the extraction passes over what exceeds the scope. On these eight rows,
  with a regularization of 0.0875 and a multiplier of 0.02, the engine returns three of the four trees of objective
  0.3875, the optimum, and all four with `similar_support` off. With the cap put back the model returns all four. No tree
  over these rows ties with a leaf: `SetIsComplete`, which `spotset` checks, fails here too, so it holds on the datasets of that run and not in general.
- **`spotset_bound`.** `docs/models/spotset.md:64-65` says that "Every tree's objective is guaranteed within `(1 +
  rashomon_bound_multiplier)` times the optimum". In SPOT a vertex that is there already takes the scope of a message to it and then has its
  splits offered anew (`_spot/.../dispatch.cpp:22-27`), capped at the scope when none is within it (`:240`). The fork offers
  them once only (`dispatch.hpp:198`), without the cap (`:237`), and takes the scope after that, in `send_explorers`, if it is
  at least the vertex's own (`:46`, `task.cpp:228`). A vertex with no split in scope stays below it, asks its children nothing
  and does not tell its parent that it is done, and the queue can drain with the bounds apart. The worker, being alone, stops; `fit_gosdt` notes a
  status that the second search resets (`gosdt.cpp:184`, `:232`), and whatever model the extraction yields first is taken for
  the optimum (`gosdt.cpp:110`). On these nine rows, with a regularization of 2/27 and all else at its default, the root is
  left at [10/27, 13/27] and the bound is drawn from 13/27; the optimum is 12/27. The compiled engine does the same and
  returns 15 trees of 13/27, 1.083 times the optimum, next to the optimal one. On random data of up to 12 rows it drained so
  in about one fit of 20, and in one of 10 000 the bound was too large; with SPOT's lines put back in neither. So
  `BoundFromOptimum`, which `spotset` checks, holds on the datasets of that run and not in general.
- **`spotset_pair`.** `docs/models/spotset.md:84` and `classifier.py:64-65` offer "Parallel search workers". The second
  search keeps the upper bound at the Rashomon bound, so the two bounds do not meet, and an empty queue ends the loop only
  for a single worker (`optimizer.cpp:110`): two workers poll for ever, as those of the engine do.

## Proofs

`SpotRunProofs` proves for every number of workers, every set of objective values and all bounds of the model:

- `StopsRight`, `StatusRight`, `TypeCorrect`: the properties `run_pair` checks, as theorems of `Spec`;
- `Refinement`: the loop implements `SpotRootBounds`.

That holds whether or not several workers may drain the queue with the root unsolved.

`SpotQueueProofs` proves all four properties of the queue for every set of keys, features, scopes and priorities.

`SpotSearchProofs` proves of the search, for any number of workers and any datasets (any rows, features, classes and cost
matrix; rule lists, depth budget, reference model, look-ahead, similar support and cancellation on or off):

- `SearchBrackets` and `SearchSplits`: every vertex and every entry of a bound list brackets its optimum, always;
- `SearchCertifies`: bounds of the root that have met have met at the optimum (or within a reference model's guarantee);
- `SearchTightens`: no step widens an upper bound, nor the lower bound of a subproblem on which no reference model is beaten;
- `SearchLinks` and `SearchTypes`: the two link tables agree, and everything has its type;
- `SearchRefines`, `SeveralRefine`: the search implements `SpotRootBounds`, where the reference model does not make more of the
  root's optimum than it is: two and more workers as they are, one on the condition that it does not drain the queue unsolved;
- `SearchScopes`: no parent of a vertex wants it for less than the summary `lowerscope` says, on which
  `signal_exploiters` gives up without looking at the parents.

`SpotResultProofs` proves what the search returns, again for any number of workers and any datasets:

- `SearchHasModel`: when the root's bounds have met, the extraction finds a model, unless a guess is no more than what is
  guaranteed of the root;
- `SearchResult`: it finds the optimum and nothing else (`CertifiedIsOptimal`), on datasets that are `Promising`.

What they rest on are facts about the optimum of *any* dataset, in `SpotOptimumProofs`: `Neighbours` (two features'
splits differ by no more than `Dataset::distance`), `MajorityFloor` (what `guaranteed_min_loss` guarantees), `FewDiffer` and
`LeafIsBest` (the reasons for which the constructor of Task gives up on splitting are good ones) and `NewTaskBounds`.

For any arguments of `fit` (any samples, features, labels, costs, policy, permutation map, ablation and node limit) are
proved of CORELS:

- in `CorelsMemoryProofs`, `FreedIsNotUsed`, `LinkedStaysPromising` and `OneListStands`: what the queue holds or may still
  be evaluated is in memory and linked to the root, no linked node is hopeless between two nodes, and with the captured map
  no two linked nodes capture the same samples;
- in `CorelsResultProofs`, `AllAccounted`: `num_nodes` counts what is in memory and the end frees it; `TypeCorrect`;
  `EachRuleMined`: mining ends with each conjunction that is neither too rare nor too common, once; `ReturnsCertified`: the
  list that is handed to Python, applied as `predict` applies it, costs exactly the objective the search ends with;
  `OptimumWaits`: as long as the best list so far can be improved, a node that can be completed to an optimal list waits;
  and what both give together, `ReturnsAnOptimum`: when the search ends because nothing waits any more, the list returned
  costs the optimum of the samples.

The assumptions are the named ASSUMEs of `SpotRun`, `SpotQueue` and `CorelsData`: at least one worker, integer objectives
between the two float limits, positive bounds, integer scopes and priorities; and what `corels.py` checks of its arguments
before it calls the engine (`FitAssumption`), with a positive `Unit`. Those of the search are `TargetsAssumption` (finitely
many classes, two at least), `DataAssumption` (`IsDataset`: what `Dataset` is constructed from, natural costs in the common
unit) and `JudgedAssumption` (the optimum a dataset carries is the optimum). TLC evaluates them in the runs. The theorems
about the search have one hypothesis more, `Calibrated`: a leaf over all the rows costs no more than 1.0, and a guess is
no less than the optimum. The code rests on both without checking them: `Task::update` and the root's cap take 1.0 for an
upper bound, and `search_capped` shows what happens where it is none. With the costs that `SPOTClassifier` sets by default a
leaf costs at most 1 - 1/classes and a regularization. Of the datasets of the runs all but the costly ones of `search_capped` are calibrated
(`CalibratedAssumption` in `MCSpotSearch`).

The two theorems about the result have more hypotheses, and each is there for a reason. `Outguesses`: a guess equal to the
optimum caps the root at it, and the bounds meet before the graph has a model: `search_capped` shows it. `SearchResult` also
takes that the reference model does not make more of the root's optimum than it is (otherwise the result is only known to be
between the two, and that nothing worse than the bounds is extracted then is model-checked, in `search_alone`), and that
the lists are `Exacting`, or the search one for rule lists, where a grown model is compared with the objective. In a tree search
with similar support, rows whose class costs the same however they are predicted would be at no distance from one another,
and the entry of one feature could be lowered to the optimum by another that divides other rows. With the default costs, or
any that charge for some prediction of each class, that cannot be. Of the datasets of the runs all but those of `search_capped`
and the guided ones are `Promising` (`PromisingAssumption` in `MCSpotSearch`).

*The argument for the loop.* That the flag only goes down rightly is not inductive: it depends on what worker 0 loaded
before. The invariant adds `SeenIsStale`: as bounds only tighten, what was loaded is never tighter than what is, so if the
loaded ones have met the current ones have too. Bounds only tighten because the lower bound that is about to be stored
brackets as well (`Bracket`), which takes that nobody else is in the lock meanwhile (`LockHeld`). `DrainedHasMet` is the
abstract promise to a worker that is alone, and gives it the right to stop on an empty queue. `FlagStaysDown` says that nothing
renews a flag that is down. `IInv` is their conjunction, TLC has checked it on the runs' instances, and each action
preserves each conjunct it can disturb.

*The argument for the queue.* `FilterMirrorsHeap` is inductive with the types; it makes "the queued message of this key"
unique, from which what merging keeps and adds follows by cases on whether a message is the one merged into.

*The argument for the optimum* (`SpotOptimumProofs`). Costs and potentials of a set of rows are sums over its rows
(`Additive`). What an additive function supports at the leaves it supports at every subproblem, with the regularization of
one leaf, or of two if there is a split (`ValueAtLeast`); by induction over the sets of rows, as a smallest counterexample.
The floor is the loss of a classifier that is right on the majority row of each class of rows that cannot be told apart; it
is a floor only for sets that contain the twins of their rows, and these are the ones a search reaches, since splits keep
twins together. For `Neighbours` the
drift from a set of rows A to another, B, is what the rows only A has can cost, less what those that only B has must: the
optimum over A exceeds that over B by no more (`ValueDrifts`), by induction over both sets at once, following a best split
of B: either it divides A too, or A is all on one side of it. Two features divide the same rows, so that the drifts of their sides
add up to the potential of the rows on different sides; and as the sides can be compared the other way round too, to
the smaller of the two sums.

*The argument for the search* (`IInv` in `SpotSearchProofs`). That bounds bracket is not inductive without knowing what else is in the graph and in
the mail. `VerticesRight`: a vertex is a subproblem that splitting the root leads to (`Reached`), brackets its optimum, and has the features
that its rows settle, *whatever message created it*: a message proposes a superset of the features that divide the rows,
because a parent that has features at all has every one that divides its rows, and so pruning leaves the same set. This is what makes the
list `bounds` stored at the first visit fit the vertices of all later ones, the code's `inserted` flags. `BoundsRight`: a
list has an entry for each feature of its vertex, and each brackets. One pass of
`load_children` compares with the entry before, already visited, and the one after, not yet: it is a recursion along the
list, and any recursion of this shape keeps below what is as far apart as the entries are (`RaisedBelow`, `CappedAbove`); the
optima are, by `Neighbours`. `LinksRight`: a link leads to the child on that side of a split that the vertex has, and each table has
what the other needs; it makes recomputing a split from the graph take the right two children. `MailRight`: a request is
for a child of a vertex there is, by features that lead to it, and a signal is for a vertex there is. `RootRight`: the global bounds are
the root's. For an offer the difficult part is the lower bound: splits out of scope are passed over, and
what stands in for them is the scope itself (`OfferedIs`). TLC has checked `IInv` on the datasets of `search_alone`, before
it was proved.

*The argument for the scopes* (`ScopesRight`). The summary only goes down where an explorer brings a scope, and whoever brings
one is linked by the same handler, under that scope or, in a message that was merged or sent again, the smaller of two. A child
that a vertex asks for by several features is asked for under one scope whatever the order (`OneScope`), since the sides
of a split are what is left of one another. The exception is a scope of exactly zero, which `Task::scope` passes over while
`link_to_parent` records it: without it the property is false, as TLC found for rule lists, where a leaf may cost all that
a parent wants to spend. The parent that asked under exactly zero is then told no earlier than the other parents' scopes allow.

*The argument for the result* (`ModelsRight` in `SpotResultProofs`). The extraction follows the entries of a bound list that are within
the vertex's upper bound, while that bound came from an entry of some earlier list, and similar support lowers entries below
what the graph holds. What a list promises is hence not entry by entry (`IsKept`): the *least* entry is kept, that is,
splitting by the feature of some least entry costs no more than it says, with the child vertices as they are; and in an exacting
search every entry that is down to the optimum is. A pass of `load_children` keeps both (`RefinedKeeps`), because a
least entry that was lowered by a neighbour is as low as the neighbour, so they are at no distance, make the same two
children, and are known the same. That takes that the graph treats such twins alike: if a link by one signed feature is
there, so is the link to the same child by the other (`TwinsRight`), which holds because explorers for a child are merged
or sent with all the features that lead to it. Children only tighten and links only come, so that what is kept stays kept
(`ListStays`), and a vertex's upper bound is always its leaf's, that of an entry still in its list, or the guess
(`IsBacked`, `StoredUpper`). The extraction is a recursion over smaller and smaller capture sets: it has a solution (`RecursionSolved`),
and a smallest vertex whose models were wrong would have children whose models are right (`ModelsExtracted`). TLC has
checked `ModelsRight` and `TwinsRight` on the datasets of `search_alone`, before they were proved.

*The argument for CORELS' memory* (`IInv` in `CorelsMemoryProofs`). That nothing freed is used is about the tree: `Rooted` (what is
linked is linked up to the root, by done nodes), `Waiting` (what waits is not done, and linked unless it is marked), `Fresh`
(nothing is below what waits) and `Evaluated` (what is below the node being evaluated is only what it was extended with just
now). Dropping a subtree keeps them as long as it does not contain the node being evaluated, and that is the difficult part:
`Extend` drops the subtree that a new prefix supersedes while the parent of that prefix is being evaluated. It is not above
the parent because a prefix of the same rules is as long (`PrefixMapRight`, `NoRuleTwice`), and one that captures the same
samples would have a lower bound no higher than the new prefix has (`CapturedMapRight`, `BoundGrows`, `MinorityCounted`),
so that it would not have been superseded. A node `select` frees has to be one that the tree no longer links unless it is
the root; hence `LinkedIsPromising`, which `Collect` restores only if whatever is linked was promising at the last
collection (`CollectedFor`), since it goes down to the topmost hopeless nodes. For `prune_up`, the ancestors that go are the
ones from the least number on such that none keeps a child. The count adds that whatever is in memory is the root, linked
or marked in the queue (`Kept`, `Undone`), and that only a root alone may be missing from it (`Alone`).

*The argument for CORELS' result* (`CorelsResultProofs`, `Result`). A node's bound, without the part for the minority
samples, is what its list gets wrong of the samples it captures, plus its rules (`PathCost`): each node adds what its own
rule gets wrong of what no rule before it captured, and the predictions of its ancestors are never changed. The best list's
objective is that and what the default gets wrong (`ListCost`). A mined rule captures the samples that its literals describe
(`RulesRight`), so that `predict`, which looks for the first rule whose literals hold, decides as the search did. That
mining never conjoins a literal that does not exist, although `getnextperm` does not compare its first combination with the
number of literals, takes a count: of each feature the literal or its negation is frequent, as the minimal support is at
most one half, and there are at least as many features as literals in a rule (`Mining`).

*The argument for mining* (`EachRuleMined`). The increasing choices of at most `max_card` numbers up to the number of mined
literals are ordered, the shorter first, else as words (`Precedes`); `NextCombination` steps to the least choice that
follows (`NextInOrder`), or to none when none does. So at any time the rules of several literals are the conjunctions of
the choices that precede `rule_ids` (`LookedAtFound`), each once, and when it is empty, of all. That a conjunction with a
literal that is not frequent is not frequent gives the rest (`AllFound`).

*The argument for CORELS' optimum* (`Waits` in `CorelsResultProofs`). `Completion`, what the best list from a set of captured
samples on still costs, is a recursive function over larger and larger sets, and solves its equation (`CompletionSolves`, from
`RecursionSolved`). So what a node is worth (`Value`) is its bound without the minority part and the completion of
what it captures; the root is worth the optimum, and a child by a rule with which the best completion goes on (`GoesOn`) is worth as
much as its parent. Whatever is dropped must therefore cost more than that. The minority samples are a floor of any
completion, because a completion never separates samples that no rule tells apart (`CompletionCosts`); so what is hopeless, or
pruned by its bound or by the look-ahead, is worth no less than the best objective, and a rule that captures too few
samples, or is right on too few of them, never pays for itself (`CapturedSaves`, `GoesOnSupported`). The permutation maps take more:
what waits instead of a prefix that was turned away need not capture the same samples, since the winner itself may be
done. The invariant says it of every key of the map (`Covered`): if the list a key remembers can be completed to the
optimum, some promising node captures all that it captures. A done node hands this on to its child, which captures more
(`ExtendWaits`, `LinkWaits`); the subtree of a node that is superseded is worth more than the list that supersedes it,
because values do not fall down the tree (`Valued`); and the collection never takes a promising node, or what is above one (`CollectWaits`).

TLC has checked these invariants on the instances of `corels`.

**Only model-checked.** Liveness (`Termination`, `ReturnsWhenDue`, `SetTermination`): TLAPS proves no liveness under
fairness. Of the search, `DrainedMeansSolved`, which is no theorem: it fails with two workers (`search_delayed`) and under a
reference model that is right on rows the features do not tell apart (`search_sharp`). Both were found in the attempt to prove
it. For one worker without such a model it rests on the order in which messages are popped, and no inductive
invariant that speaks of that order has been found; TLC checks it in `search_alone`. It is what `SearchRefines` assumes of a
worker that is alone, and what `Refinement` and `StopsRight` take over for one: then the single worker stops on an empty
queue rightly. Everything about SPOTSET: the good trees, the extraction with the cache it hands along, and the decoding are `RECURSIVE`
operators, about which the installed provers can prove nothing, and the invariants of the search would have to be proved again
for the fork's handlers.

## Not modelled, and why

- **SPOT.** Float rounding (integers instead); `feature_transform` off, which `SPOTClassifier` never sets; the
  IntegrityViolation paths, which end the process; the copying of models, their JSON and the order in which extraction
  fills `model_limit`; the diagnosis output.
- **SPOTSET.** The time limit and the status; memory checkpoints; `model_limit`; a bound given as a number or an adder;
  rule lists and feature exchange; the set for other metrics ("values of interest"); JSON, and the container's `evaluate`
  and tries; the empty set that `rashomon=False` returns. That the bounds bracket the optimum is not claimed of the second
  search, where they are not meant to. Its workers start on the global bounds the first search left (`optimizer.cpp`),
  which matters with several of them only, and those never return. `predict` takes the first tree for the best one
  (`classifier.py:195`), although the order is a hash table's.
- **CORELS.** The logger, printing and the reading and saving of lists; failures to allocate; a second fit while one is
  open; the narrow counters (`unsigned short` lengths); the `curious` policy where a curiosity is 0/0. Two things the
  properties had to allow for: a root that `prune_up` reaches is counted as gone but not freed, and the prefix map records
  an order by its inverse, so that orders that are not their own inverse are looked up in the wrong place, which costs
  time and not the optimum. `OneWayToCapture` is hence only stated of the captured map.
- **The rest** (above): sequential numerics and conversions, where a unit test reaches what a model would.

## Plan

1. *Done.* SPOT's queue, search with its options, reference models and costs, run loop, and their composition through
   `SpotRootBounds`; proofs of the loop and the queue.
2. *Done.* CORELS. SPOTSET: both searches, the extraction, the container's decoding.
3. Proofs about the searches. *Done*: memory, accounting and result of CORELS; links, bounds and their tightening in
   SPOT's search, its scopes, its result and what it promises the run loop; that CORELS finds an optimum. Next: the types of SPOTSET, and that a first search whose
   bounds have met gives the right bound (if they have not it need not, `spotset_bound`).
4. The diagnosis of non-convergence, the model limit in extraction, the mapping of outcomes to Python results; SPOTSET's
   time limit and status.
5. Mondrian `partial_fit`, the bitmask algorithms, the backend selection.
