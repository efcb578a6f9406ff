------------------------------ MODULE SpotRun -------------------------------
(***************************************************************************)
(* The loop that runs the search (gosdt::fit, Optimizer::iterate): worker  *)
(* threads share one continuation flag that worker 0 alone renews, from    *)
(* bounds it reads without the lock while another worker stores them one   *)
(* after the other.                                                        *)
(*                                                                         *)
(* What a dispatch computes is left to SpotSearch: here a dispatch moves   *)
(* the root's bounds as SpotRootBounds promises and queues any number of   *)
(* messages.  Its two stores to the bounds are two steps, and so are the   *)
(* two loads of Optimizer::uncertainty.                                    *)
(***************************************************************************)
EXTENDS Integers

CONSTANTS
  WorkerLimit,    \* the workers are 0 .. WorkerLimit - 1
  Objectives,     \* the values the bounds can take
  FltMax,         \* std::numeric_limits<float>::max()
  MaxWaiting,     \* the most messages the queue holds (a bound of the model)
  TickDuration,   \* worker 0 renews the flag at least every so many ticks
  TimeLimited     \* whether time_limit > 0

ASSUME WorkerAssumption == WorkerLimit \in Nat \ {0}
ASSUME ObjectivesAssumption ==
  /\ Objectives \subseteq Int /\ FltMax \in Int
  /\ \A x \in Objectives : -FltMax <= x /\ x <= FltMax
ASSUME BoundsAssumption == MaxWaiting \in Nat \ {0} /\ TickDuration \in Nat \ {0}
ASSUME TimeLimitedAssumption == TimeLimited \in BOOLEAN

VARIABLES
  optimum,   \* the least objective of any model
  lower,     \* global_lowerbound
  upper,     \* global_upperbound
  waiting,   \* how many messages are queued
  holder,    \* the worker inside the lock from one step to the next, or Nobody
  target,    \* the lower bound each worker is about to store
  rooted,    \* what each worker's last dispatch returned
  ticks,     \* worker 0's ticks, modulo TickDuration
  loaded,    \* which bounds worker 0 has loaded for the test it is at
  seenLower, seenUpper,   \* what it has loaded
  active,    \* the continuation flag
  expired,   \* whether the time limit has passed
  pc,        \* what each worker does next
  status     \* what fit returns, "running" before it does

rootVars == <<optimum, lower, upper, target, rooted>>
loadVars == <<ticks, loaded, seenLower, seenUpper>>
vars == <<rootVars, waiting, holder, loadVars, active, expired, pc, status>>

Workers == 0 .. WorkerLimit - 1
Nobody == -1

Goto(w, label) == pc' = [pc EXCEPT ![w] = label]

Free == holder = Nobody

(* Whether a message is queued or being dispatched                         *)
Busy == waiting > 0 \/ \E w \in Workers : pc[w] \in {"dispatch", "store"}

-----------------------------------------------------------------------------
Init ==
  /\ optimum \in Objectives
  /\ lower = -FltMax /\ upper = FltMax
  /\ waiting = 1
  /\ holder = Nobody
  /\ target = [w \in Workers |-> -FltMax]
  /\ rooted = [w \in Workers |-> FALSE]
  /\ ticks = 0
  /\ loaded = {}
  /\ seenLower = -FltMax /\ seenUpper = FltMax
  /\ active = TRUE
  /\ expired = FALSE
  /\ pc = [w \in Workers |-> "pop"]
  /\ status = "running"

(* GosdtQueue::pop, under the lock                                         *)
Pop(w) ==
  /\ pc[w] = "pop" /\ Free
  /\ IF waiting = 0
       THEN /\ Goto(w, "tick")
            /\ rooted' = [rooted EXCEPT ![w] = FALSE]
            /\ UNCHANGED waiting
       ELSE /\ Goto(w, "dispatch")
            /\ waiting' = waiting - 1
            /\ UNCHANGED rooted
  /\ UNCHANGED <<optimum, lower, upper, target, holder, loadVars, active, expired, status>>

(* A dispatch leaves the lock, with messages pushed.  SpotRootBounds: if   *)
(* the only worker leaves nothing to dispatch the bounds have met.         *)
Leave(w) ==
  /\ Goto(w, "tick")
  /\ waiting' \in waiting .. MaxWaiting
  /\ WorkerLimit = 1 => Busy' \/ lower' = upper'

(* A dispatch that does not reach the root                                 *)
Dispatch(w) ==
  /\ pc[w] = "dispatch" /\ Free
  /\ rooted' = [rooted EXCEPT ![w] = FALSE]
  /\ UNCHANGED <<optimum, lower, upper, target, holder, loadVars, active, expired, status>>
  /\ Leave(w)

KeepLock_Not(w) == UNCHANGED holder

(* The vertex accessor holds the lock from here on.                        *)
KeepLock(w) == holder' = w

(* A dispatch that does: Optimizer::update_root stores the upper bound ... *)
StoreUpper(w) ==
  /\ pc[w] = "dispatch" /\ Free
  /\ \E lo, up \in Objectives :
       /\ lower <= lo /\ lo <= optimum /\ optimum <= up /\ up <= upper
       /\ upper' = up
       /\ target' = [target EXCEPT ![w] = lo]
       /\ rooted' = [rooted EXCEPT ![w] = lo # lower \/ up # upper]
  /\ KeepLock(w)
  /\ Goto(w, "store")
  /\ UNCHANGED <<optimum, lower, waiting, loadVars, active, expired, status>>

(* ... and then the lower one.                                             *)
StoreLower(w) ==
  /\ pc[w] = "store"
  /\ lower' = target[w]
  /\ holder' = Nobody
  /\ UNCHANGED <<optimum, upper, target, rooted, loadVars, active, expired, status>>
  /\ Leave(w)

-----------------------------------------------------------------------------
NextTick_Unwrapped == ticks + 1

NextTick == (ticks + 1) % TickDuration

(* The end of Optimizer::iterate.  Worker 0 counts the tick; it goes       *)
(* straight to renewing the flag if its dispatch moved the root's bounds,  *)
(* else it looks whether they have met.                                    *)
Tick(w) ==
  /\ pc[w] = "tick"
  /\ IF w = 0 THEN /\ ticks' = NextTick
                   /\ Goto(w, IF rooted[w] THEN "renew" ELSE "look")
              ELSE Goto(w, "heed") /\ UNCHANGED ticks
  /\ UNCHANGED <<rootVars, waiting, holder, loaded, seenLower, seenUpper, active, expired, status>>

(* Optimizer::uncertainty loads the two bounds in an order the compiler    *)
(* chooses.                                                                *)
Load(w) ==
  /\ pc[w] \in {"look", "renew"}
  /\ \/ "upper" \notin loaded /\ seenUpper' = upper /\ loaded' = loaded \cup {"upper"} /\ UNCHANGED seenLower
     \/ "lower" \notin loaded /\ seenLower' = lower /\ loaded' = loaded \cup {"lower"} /\ UNCHANGED seenUpper
  /\ UNCHANGED <<rootVars, waiting, holder, ticks, active, expired, pc, status>>

Met_Strictly == seenUpper - seenLower < 0

Met_Roughly == seenUpper - seenLower <= 1

(* Optimizer::complete, on what was loaded: a negative gap counts as none. *)
Met == seenUpper - seenLower <= 0

Looked(w) == loaded = {"lower", "upper"} /\ loaded' = {} /\ UNCHANGED <<ticks, seenLower, seenUpper>>

Look(w) ==
  /\ pc[w] = "look" /\ Looked(w)
  /\ Goto(w, IF Met \/ ticks = 0 THEN "renew" ELSE "heed")
  /\ UNCHANGED <<rootVars, waiting, holder, active, expired, status>>

MayGoOn_Queued == waiting > 0

(* A worker that is alone stops on an empty queue; others may refill it.   *)
MayGoOn == WorkerLimit > 1 \/ waiting > 0

Renew(w) ==
  /\ pc[w] = "renew" /\ Looked(w)
  /\ active' = (~Met /\ ~expired /\ MayGoOn)
  /\ Goto(w, "heed")
  /\ UNCHANGED <<rootVars, waiting, holder, expired, status>>

(* Every worker goes by the flag it reads.                                 *)
Heed(w) ==
  /\ pc[w] = "heed"
  /\ Goto(w, IF active THEN "pop" ELSE "done")
  /\ UNCHANGED <<rootVars, waiting, holder, loadVars, active, expired, status>>

-----------------------------------------------------------------------------
(* The clock                                                               *)
Expire ==
  /\ TimeLimited /\ ~expired /\ status = "running"
  /\ expired' = TRUE
  /\ UNCHANGED <<rootVars, waiting, holder, loadVars, active, pc, status>>

(* gosdt::fit joins the workers and judges the outcome; without a limit    *)
(* any time that has passed counts as a timeout.                           *)
Return ==
  /\ status = "running"
  /\ \A w \in Workers : pc[w] = "done"
  /\ \E late \in IF TimeLimited THEN {expired} ELSE BOOLEAN :
       status' = IF lower = upper THEN "CONVERGED"
                 ELSE IF late \/ waiting > 0 THEN "TIMEOUT" ELSE "NON_CONVERGENCE"
  /\ UNCHANGED <<rootVars, waiting, holder, loadVars, active, expired, pc>>

Step(w) ==
  \/ Pop(w) \/ Dispatch(w) \/ StoreUpper(w) \/ StoreLower(w)
  \/ Tick(w) \/ Load(w) \/ Look(w) \/ Renew(w) \/ Heed(w)

Next ==
  \/ \E w \in Workers : Step(w)
  \/ Expire
  \/ Return
  \/ status # "running" /\ UNCHANGED vars

Spec == Init /\ [][Next]_vars

(* A thread keeps running, and one that keeps finding the lock free in the *)
(* end obtains it; the clock keeps running.                                *)
Fairness ==
  /\ \A w \in Workers : WF_vars(Step(w)) /\ SF_vars(Pop(w)) /\ SF_vars(Dispatch(w) \/ StoreUpper(w))
  /\ WF_vars(Return)

FairSpec == Spec /\ Fairness

-----------------------------------------------------------------------------
TypeOK ==
  /\ optimum \in Objectives
  /\ lower \in Objectives \cup {-FltMax}
  /\ upper \in Objectives \cup {FltMax}
  /\ waiting \in 0 .. MaxWaiting
  /\ holder \in Workers \cup {Nobody}
  /\ target \in [Workers -> Objectives \cup {-FltMax}]
  /\ rooted \in [Workers -> BOOLEAN]
  /\ ticks \in 0 .. TickDuration - 1
  /\ loaded \in SUBSET {"lower", "upper"}
  /\ seenLower \in Objectives \cup {-FltMax}
  /\ seenUpper \in Objectives \cup {FltMax}
  /\ active \in BOOLEAN
  /\ expired \in BOOLEAN
  /\ pc \in [Workers -> {"pop", "dispatch", "store", "tick", "look", "renew", "heed", "done"}]
  /\ status \in {"running", "CONVERGED", "TIMEOUT", "NON_CONVERGENCE"}

(* The flag is taken down only when the bounds have met, at the optimum,   *)
(* or the time has expired: loading one bound before and the other after   *)
(* another worker's stores never shows a gap closed that is not.           *)
StopsSolvedOrExpired ==
  ~active => (lower = optimum /\ upper = optimum) \/ expired

(* What fit returns is true: a result reported as converged is optimal,    *)
(* one reported as a timeout ran out of time, and no run ends without      *)
(* either (the two statuses gosdt.cpp tells apart after the join).         *)
StatusIsTrue ==
  /\ status = "CONVERGED" => lower = optimum /\ upper = optimum
  /\ status = "TIMEOUT" => expired
  /\ status # "NON_CONVERGENCE"

(* Once the bounds have met or the time has expired every worker leaves    *)
(* its loop and fit returns, whoever closed the gap and whatever worker 0  *)
(* was reading then.                                                       *)
ReturnsWhenDue == (lower = upper \/ expired) ~> status # "running"

(* The loop keeps the promise it relies on: storing the bounds one after   *)
(* the other is still tightening them around the optimum.                  *)
RootBounds == INSTANCE SpotRootBounds WITH busy <- Busy, Alone <- WorkerLimit = 1
RefinesRootBounds == RootBounds!Spec

=============================================================================
