--------------------------- MODULE SpotRunProofs ----------------------------
(***************************************************************************)
(* Proofs about the run loop, for any number of workers, any set of        *)
(* objective values and any bounds on the queue and the ticks.             *)
(***************************************************************************)
EXTENDS SpotRun, TLAPS

(* The bounds bracket the optimum, and so does what is about to be stored. *)
Bracket ==
  /\ lower <= optimum /\ optimum <= upper
  /\ \A w \in Workers : pc[w] = "store" =>
       target[w] \in Objectives /\ lower <= target[w] /\ target[w] <= optimum

(* The lock is held across steps by the one worker between its two stores. *)
LockHeld == \A w \in Workers : pc[w] = "store" <=> holder = w

(* What worker 0 has loaded, now or for an earlier test, is no tighter     *)
(* than the bounds: they only close in.                                    *)
SeenIsStale == seenLower <= lower /\ upper <= seenUpper

(* What a worker that is alone relies on when it stops on an empty queue.  *)
DrainedHasMet == WorkerLimit = 1 => Busy \/ lower = upper

(* Worker 0 alone renews the flag, and takes its own "stop" at once.       *)
FlagStaysDown ==
  /\ \A w \in Workers : pc[w] \in {"look", "renew"} => w = 0
  /\ ~active => pc[0] \in {"heed", "done"}
  /\ \A w \in Workers : pc[w] = "done" => ~active
  /\ status # "running" => \A w \in Workers : pc[w] = "done"

(* Time only runs out under a limit.                                       *)
TimeIsLimited == expired => TimeLimited

IInv ==
  /\ TypeOK /\ Bracket /\ LockHeld /\ SeenIsStale /\ DrainedHasMet /\ FlagStaysDown
  /\ TimeIsLimited /\ StopsSolvedOrExpired /\ StatusIsTrue

-----------------------------------------------------------------------------
(* The invariant holds at the start.                                       *)
LEMMA InitIInv == Init => IInv
<1> SUFFICES ASSUME Init PROVE IInv
  OBVIOUS
<1> USE WorkerAssumption, ObjectivesAssumption, BoundsAssumption DEF Init, Workers, Nobody
<1>1. TypeOK
  <2>1. rooted \in [Workers -> BOOLEAN]
    BY Zenon
  <2>2. target \in [Workers -> Objectives \cup {-FltMax}]
    BY SMT
  <2>3. pc \in [Workers -> {"pop", "dispatch", "store", "tick", "look", "renew", "heed", "done"}]
    BY SMT
  <2>4. waiting \in 0 .. MaxWaiting /\ ticks \in 0 .. TickDuration - 1 /\ holder \in Workers \cup {Nobody}
    BY SMT
  <2>5. loaded \in SUBSET {"lower", "upper"} /\ active \in BOOLEAN /\ expired \in BOOLEAN
    BY Zenon
  <2> QED
    BY <2>1, <2>2, <2>3, <2>4, <2>5, Zenon DEF TypeOK
<1>2. Bracket
  BY DEF Bracket
<1>3. LockHeld /\ SeenIsStale /\ DrainedHasMet
  BY DEF LockHeld, SeenIsStale, DrainedHasMet, Busy
<1>4. FlagStaysDown /\ TimeIsLimited /\ StopsSolvedOrExpired /\ StatusIsTrue
  BY DEF FlagStaysDown, TimeIsLimited, StopsSolvedOrExpired, StatusIsTrue
<1> QED
  BY <1>1, <1>2, <1>3, <1>4 DEF IInv

(* Every step keeps the types.                                             *)
LEMMA TypeStep == TypeOK /\ [Next]_vars => TypeOK'
<1> SUFFICES ASSUME TypeOK, [Next]_vars PROVE TypeOK'
  OBVIOUS
<1> USE WorkerAssumption, ObjectivesAssumption, BoundsAssumption
    DEF TypeOK, Goto, Nobody, rootVars, loadVars
<1>1. ASSUME NEW w \in Workers, Pop(w) PROVE TypeOK'
  <2>1. rooted' \in [Workers -> BOOLEAN]
    BY <1>1, Zenon DEF Pop
  <2>2. pc' \in [Workers -> {"pop", "dispatch", "store", "tick", "look", "renew", "heed", "done"}]
    BY <1>1, SMT DEF Pop
  <2>3. waiting' \in 0 .. MaxWaiting
    BY <1>1, SMT DEF Pop
  <2> QED
    BY <1>1, <2>1, <2>2, <2>3 DEF Pop
<1>2. ASSUME NEW w \in Workers, Dispatch(w) PROVE TypeOK'
  BY <1>2 DEF Dispatch, Leave
<1>3. ASSUME NEW w \in Workers, StoreUpper(w) PROVE TypeOK'
  BY <1>3 DEF StoreUpper, KeepLock
<1>4. ASSUME NEW w \in Workers, StoreLower(w) PROVE TypeOK'
  BY <1>4 DEF StoreLower, Leave
<1>5. ASSUME NEW w \in Workers, Tick(w) PROVE TypeOK'
  BY <1>5 DEF Tick, NextTick
<1>6. ASSUME NEW w \in Workers, Load(w) PROVE TypeOK'
  BY <1>6 DEF Load
<1>7. ASSUME NEW w \in Workers, Look(w) PROVE TypeOK'
  BY <1>7 DEF Look, Looked
<1>8. ASSUME NEW w \in Workers, Renew(w) PROVE TypeOK'
  BY <1>8 DEF Renew, MayGoOn, Looked, Met
<1>9. ASSUME NEW w \in Workers, Heed(w) PROVE TypeOK'
  BY <1>9 DEF Heed
<1>10. CASE Expire
  BY <1>10 DEF Expire
<1>11. CASE Return
  BY <1>11 DEF Return
<1>12. CASE UNCHANGED vars
  BY <1>12 DEF vars
<1> QED
  BY <1>1, <1>2, <1>3, <1>4, <1>5, <1>6, <1>7, <1>8, <1>9, <1>10, <1>11, <1>12 DEF Next, Step

(* The bounds: every step but the two stores leaves them alone.            *)
LEMMA BracketStep == IInv /\ [Next]_vars => Bracket' /\ LockHeld' /\ SeenIsStale'
<1> SUFFICES ASSUME IInv, [Next]_vars PROVE Bracket' /\ LockHeld' /\ SeenIsStale'
  OBVIOUS
<1>0. TypeOK'
  BY TypeStep DEF IInv
<1> USE <1>0, WorkerAssumption, ObjectivesAssumption
    DEF IInv, TypeOK, Bracket, LockHeld, SeenIsStale, Goto, Free, Nobody, Workers, rootVars, loadVars
<1>1. ASSUME NEW w \in Workers, Pop(w) PROVE Bracket' /\ LockHeld' /\ SeenIsStale'
  BY <1>1 DEF Pop
<1>2. ASSUME NEW w \in Workers, Dispatch(w) PROVE Bracket' /\ LockHeld' /\ SeenIsStale'
  BY <1>2 DEF Dispatch, Leave
<1>3. ASSUME NEW w \in Workers, StoreUpper(w) PROVE Bracket' /\ LockHeld' /\ SeenIsStale'
  BY <1>3 DEF StoreUpper, KeepLock
<1>4. ASSUME NEW w \in Workers, StoreLower(w) PROVE Bracket' /\ LockHeld' /\ SeenIsStale'
  BY <1>4 DEF StoreLower, Leave
<1>5. ASSUME NEW w \in Workers, Tick(w) PROVE Bracket' /\ LockHeld' /\ SeenIsStale'
  BY <1>5 DEF Tick, NextTick
<1>6. ASSUME NEW w \in Workers, Load(w) PROVE Bracket' /\ LockHeld' /\ SeenIsStale'
  BY <1>6 DEF Load
<1>7. ASSUME NEW w \in Workers, Look(w) PROVE Bracket' /\ LockHeld' /\ SeenIsStale'
  BY <1>7 DEF Look, Looked, Met
<1>8. ASSUME NEW w \in Workers, Renew(w) PROVE Bracket' /\ LockHeld' /\ SeenIsStale'
  BY <1>8 DEF Renew, MayGoOn, Looked, Met
<1>9. ASSUME NEW w \in Workers, Heed(w) PROVE Bracket' /\ LockHeld' /\ SeenIsStale'
  BY <1>9 DEF Heed
<1>10. CASE Expire
  BY <1>10 DEF Expire
<1>11. CASE Return
  BY <1>11 DEF Return
<1>12. CASE UNCHANGED vars
  BY <1>12 DEF vars
<1> QED
  BY <1>1, <1>2, <1>3, <1>4, <1>5, <1>6, <1>7, <1>8, <1>9, <1>10, <1>11, <1>12 DEF Next, Step

(* The flag and the workers that have gone by it.                          *)
LEMMA FlagStep == IInv /\ [Next]_vars => FlagStaysDown'
<1> SUFFICES ASSUME IInv, [Next]_vars PROVE FlagStaysDown'
  OBVIOUS
<1>0. TypeOK' /\ Bracket' /\ LockHeld'
  BY TypeStep, BracketStep DEF IInv
<1> USE <1>0, WorkerAssumption, ObjectivesAssumption
    DEF IInv, TypeOK, FlagStaysDown, Goto, Workers, rootVars, loadVars
<1>1. ASSUME NEW w \in Workers, Pop(w) PROVE FlagStaysDown'
  BY <1>1 DEF Pop
<1>2. ASSUME NEW w \in Workers, Dispatch(w) PROVE FlagStaysDown'
  BY <1>2 DEF Dispatch, Leave
<1>3. ASSUME NEW w \in Workers, StoreUpper(w) PROVE FlagStaysDown'
  BY <1>3 DEF StoreUpper, KeepLock
<1>4. ASSUME NEW w \in Workers, StoreLower(w) PROVE FlagStaysDown'
  BY <1>4 DEF StoreLower, Leave
<1>5. ASSUME NEW w \in Workers, Tick(w) PROVE FlagStaysDown'
  BY <1>5 DEF Tick, NextTick
<1>6. ASSUME NEW w \in Workers, Load(w) PROVE FlagStaysDown'
  BY <1>6 DEF Load
<1>7. ASSUME NEW w \in Workers, Look(w) PROVE FlagStaysDown'
  BY <1>7 DEF Look, Looked
<1>8. ASSUME NEW w \in Workers, Renew(w) PROVE FlagStaysDown'
  BY <1>8 DEF Renew, MayGoOn, Looked
<1>9. ASSUME NEW w \in Workers, Heed(w) PROVE FlagStaysDown'
  BY <1>9 DEF Heed
<1>10. CASE Expire
  BY <1>10 DEF Expire
<1>11. CASE Return
  BY <1>11 DEF Return
<1>12. CASE UNCHANGED vars
  BY <1>12 DEF vars
<1> QED
  BY <1>1, <1>2, <1>3, <1>4, <1>5, <1>6, <1>7, <1>8, <1>9, <1>10, <1>11, <1>12 DEF Next, Step

(* A worker that finds the queue empty changes nothing; the others keep    *)
(* the promise of SpotRootBounds.                                          *)
LEMMA DrainedStep == IInv /\ [Next]_vars => DrainedHasMet'
<1> SUFFICES ASSUME IInv, [Next]_vars PROVE DrainedHasMet'
  OBVIOUS
<1>0. TypeOK' /\ Bracket' /\ LockHeld'
  BY TypeStep, BracketStep DEF IInv
<1> USE <1>0, WorkerAssumption, ObjectivesAssumption
    DEF IInv, TypeOK, DrainedHasMet, Busy, Goto, Workers, rootVars, loadVars
<1>1. ASSUME NEW w \in Workers, Pop(w) PROVE DrainedHasMet'
  BY <1>1 DEF Pop
<1>2. ASSUME NEW w \in Workers, Dispatch(w) PROVE DrainedHasMet'
  BY <1>2 DEF Dispatch, Leave
<1>3. ASSUME NEW w \in Workers, StoreUpper(w) PROVE DrainedHasMet'
  BY <1>3 DEF StoreUpper, KeepLock
<1>4. ASSUME NEW w \in Workers, StoreLower(w) PROVE DrainedHasMet'
  BY <1>4 DEF StoreLower, Leave
<1>5. ASSUME NEW w \in Workers, Tick(w) PROVE DrainedHasMet'
  BY <1>5 DEF Tick, NextTick
<1>6. ASSUME NEW w \in Workers, Load(w) PROVE DrainedHasMet'
  BY <1>6 DEF Load
<1>7. ASSUME NEW w \in Workers, Look(w) PROVE DrainedHasMet'
  BY <1>7 DEF Look, Looked
<1>8. ASSUME NEW w \in Workers, Renew(w) PROVE DrainedHasMet'
  BY <1>8 DEF Renew, MayGoOn, Looked
<1>9. ASSUME NEW w \in Workers, Heed(w) PROVE DrainedHasMet'
  BY <1>9 DEF Heed
<1>10. CASE Expire
  BY <1>10 DEF Expire
<1>11. CASE Return
  BY <1>11 DEF Return
<1>12. CASE UNCHANGED vars
  BY <1>12 DEF vars
<1> QED
  BY <1>1, <1>2, <1>3, <1>4, <1>5, <1>6, <1>7, <1>8, <1>9, <1>10, <1>11, <1>12 DEF Next, Step

(* The torn loads: a gap worker 0 sees closed is closed, at the optimum.   *)
LEMMA MetIsSolved == IInv /\ Met => lower = optimum /\ upper = optimum
BY ObjectivesAssumption DEF IInv, TypeOK, Bracket, SeenIsStale, Met

(* No step takes the flag down before the bounds have met or the time is   *)
(* up.                                                                     *)
LEMMA StopsStep == IInv /\ [Next]_vars => StopsSolvedOrExpired'
<1> SUFFICES ASSUME IInv, [Next]_vars PROVE StopsSolvedOrExpired'
  OBVIOUS
<1>0. TypeOK' /\ Bracket' /\ DrainedHasMet'
  BY TypeStep, BracketStep, DrainedStep DEF IInv
<1>1. ASSUME NEW w \in Workers, Renew(w) PROVE StopsSolvedOrExpired'
  <2> SUFFICES ASSUME ~active' PROVE (lower = optimum /\ upper = optimum) \/ expired
    BY <1>1 DEF StopsSolvedOrExpired, Renew, rootVars
  <2>1. Met \/ expired \/ (WorkerLimit = 1 /\ waiting = 0)
    <3>1. Met \/ expired \/ ~(WorkerLimit > 1 \/ waiting > 0)
      BY <1>1, Zenon DEF Renew, MayGoOn
    <3> QED
      BY <3>1, WorkerAssumption DEF IInv, TypeOK
  <2>2. CASE Met
    BY <2>2, MetIsSolved
  <2>3. CASE WorkerLimit = 1 /\ waiting = 0
    <3>1. w = 0 /\ Workers = {0}
      BY <1>1, <2>3 DEF Workers
    <3>2. ~Busy
      BY <1>1, <2>3, <3>1 DEF Busy, Renew
    <3> QED
      BY <2>3, <3>2, ObjectivesAssumption DEF IInv, TypeOK, DrainedHasMet, Bracket
  <2> QED
    BY <2>1, <2>2, <2>3
<1>2. ASSUME NEW w \in Workers, StoreUpper(w) \/ StoreLower(w) PROVE StopsSolvedOrExpired'
  <2>1. lower <= lower' /\ upper' <= upper /\ UNCHANGED <<active, expired, optimum>>
    BY <1>2, ObjectivesAssumption DEF StoreUpper, StoreLower, rootVars, IInv, TypeOK, Bracket
  <2> QED
    BY <1>0, <2>1, ObjectivesAssumption DEF IInv, TypeOK, Bracket, StopsSolvedOrExpired
<1>3. CASE Expire
  BY <1>3 DEF Expire, StopsSolvedOrExpired
<1>4. CASE UNCHANGED <<lower, upper, optimum, active, expired>>
  BY <1>4 DEF StopsSolvedOrExpired, IInv
<1>5. ASSUME NEW w \in Workers,
             Pop(w) \/ Dispatch(w) \/ Tick(w) \/ Load(w) \/ Look(w) \/ Heed(w)
      PROVE  UNCHANGED <<lower, upper, optimum, active, expired>>
  BY <1>5 DEF Pop, Dispatch, Tick, Load, Look, Heed, rootVars
<1>6. Return \/ UNCHANGED vars => UNCHANGED <<lower, upper, optimum, active, expired>>
  BY DEF Return, vars, rootVars
<1> QED
  BY <1>1, <1>2, <1>3, <1>4, <1>5, <1>6 DEF Next, Step

(* No step expires the time of a run without a limit.                      *)
LEMMA TimeStep == IInv /\ [Next]_vars => TimeIsLimited'
<1> SUFFICES ASSUME IInv, [Next]_vars PROVE TimeIsLimited'
  OBVIOUS
<1>1. Expire => TimeLimited
  BY DEF Expire
<1>2. ASSUME NEW w \in Workers, Step(w) PROVE expired' = expired
  BY <1>2 DEF Step, Pop, Dispatch, StoreUpper, StoreLower, Tick, Load, Look, Renew, Heed
<1>3. Return \/ UNCHANGED vars => expired' = expired
  BY DEF Return, vars
<1> QED
  BY <1>1, <1>2, <1>3 DEF Next, TimeIsLimited, IInv

(* No step reports a status that is not true.                              *)
LEMMA StatusStep == IInv /\ [Next]_vars => StatusIsTrue'
<1> SUFFICES ASSUME IInv, [Next]_vars PROVE StatusIsTrue'
  OBVIOUS
<1>1. CASE Return
  <2>1. 0 \in Workers
    BY WorkerAssumption DEF Workers
  <2>2. ~active
    BY <1>1, <2>1 DEF Return, IInv, FlagStaysDown
  <2>3. (lower = optimum /\ upper = optimum) \/ expired
    BY <2>2 DEF IInv, StopsSolvedOrExpired
  <2>4. UNCHANGED <<lower, upper, optimum, expired>>
    BY <1>1 DEF Return, rootVars
  <2>5. CASE lower = upper
    <3>1. status' = "CONVERGED"
      BY <1>1, <2>5, TimeLimitedAssumption DEF Return
    <3>2. lower = optimum /\ upper = optimum
      BY <2>5, ObjectivesAssumption DEF IInv, TypeOK, Bracket
    <3> QED
      BY <2>4, <3>1, <3>2 DEF StatusIsTrue
  <2>6. CASE lower # upper
    <3>1. expired
      BY <2>3, <2>6
    <3>2. TimeLimited
      BY <3>1 DEF IInv, TimeIsLimited
    <3>3. status' = "TIMEOUT"
      BY <1>1, <2>6, <3>1, <3>2 DEF Return
    <3> QED
      BY <2>4, <3>1, <3>3 DEF StatusIsTrue
  <2> QED
    BY <2>5, <2>6
<1>2. ASSUME NEW w \in Workers, Step(w) PROVE StatusIsTrue'
  <2>1. pc[w] # "done" /\ status' = status
    BY <1>2 DEF Step, Pop, Dispatch, StoreUpper, StoreLower, Tick, Load, Look, Renew, Heed
  <2>2. status = "running"
    BY <2>1 DEF IInv, FlagStaysDown
  <2> QED
    BY <2>1, <2>2 DEF StatusIsTrue
<1>3. CASE Expire
  BY <1>3 DEF Expire, StatusIsTrue
<1>4. CASE UNCHANGED vars
  BY <1>4 DEF vars, rootVars, StatusIsTrue, IInv
<1> QED
  BY <1>1, <1>2, <1>3, <1>4 DEF Next

-----------------------------------------------------------------------------
(* The inductive invariant of the run loop: what iterate's loads, stores   *)
(* and torn reads of the root's bounds can leave each worker with.         *)
THEOREM Invariance == Spec => []IInv
<1>1. IInv /\ [Next]_vars => IInv'
  BY TypeStep, BracketStep, FlagStep, DrainedStep, TimeStep, StopsStep, StatusStep DEF IInv
<1> QED
  BY InitIInv, <1>1, PTL DEF Spec

(* The variables of the run loop have their types.                         *)
THEOREM TypeCorrect == Spec => []TypeOK
BY Invariance, PTL DEF IInv

(* However the loads of worker 0 and the stores of the others interleave,  *)
(* the search stops at the optimum or out of time.                         *)
THEOREM StopsRight == Spec => []StopsSolvedOrExpired
BY Invariance, PTL DEF IInv

(* The status fit returns is what happened, and "non-convergence" is never *)
(* returned.                                                               *)
THEOREM StatusRight == Spec => []StatusIsTrue
BY Invariance, PTL DEF IInv

(* The loop implements the abstract bounds it takes its dispatches from:   *)
(* two stores, seen one after the other, are two tightenings.              *)
THEOREM Refinement == Spec => RefinesRootBounds
<1>1. Init => RootBounds!Init
  BY ObjectivesAssumption DEF Init, RootBounds!Init, Busy
<1>2. IInv /\ [Next]_vars => [RootBounds!Tighten]_RootBounds!vars
  <2> SUFFICES ASSUME IInv, [Next]_vars PROVE [RootBounds!Tighten]_RootBounds!vars
    OBVIOUS
  <2> USE DEF RootBounds!Tighten, RootBounds!vars
  <2>0. DrainedHasMet' /\ Bracket' /\ TypeOK'
    BY TypeStep, BracketStep, DrainedStep DEF IInv
  <2>1. Busy' \in BOOLEAN /\ Busy \in BOOLEAN
    BY DEF Busy
  <2>2. ASSUME NEW w \in Workers, Dispatch(w) \/ StoreUpper(w) \/ StoreLower(w)
        PROVE  RootBounds!Tighten
    <3>1. Busy
      BY <2>2 DEF Dispatch, StoreUpper, StoreLower, Busy
    <3>2. lower <= lower' /\ upper' <= upper /\ UNCHANGED optimum
      BY <2>2, ObjectivesAssumption DEF Dispatch, StoreUpper, StoreLower, rootVars, IInv, TypeOK, Bracket
    <3> QED
      BY <2>0, <2>1, <3>1, <3>2 DEF Bracket, DrainedHasMet
  <2>3. ASSUME NEW w \in Workers, Pop(w) PROVE UNCHANGED <<optimum, lower, upper>> /\ Busy' = Busy
    BY <2>3 DEF Pop, Busy, Goto, IInv, TypeOK
  <2>4. ASSUME NEW w \in Workers, Tick(w) \/ Load(w) \/ Look(w) \/ Renew(w) \/ Heed(w)
        PROVE  UNCHANGED <<optimum, lower, upper>> /\ Busy' = Busy
    BY <2>4 DEF Tick, Load, Look, Renew, Heed, Goto, rootVars, Busy, IInv, TypeOK
  <2>5. CASE Expire \/ Return \/ UNCHANGED vars
    BY <2>5 DEF Expire, Return, vars, rootVars, Busy
  <2> QED
    BY <2>2, <2>3, <2>4, <2>5 DEF Next, Step
<1> QED
  BY <1>1, <1>2, Invariance, PTL DEF Spec, RefinesRootBounds, RootBounds!Spec

=============================================================================
