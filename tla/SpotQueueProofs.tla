-------------------------- MODULE SpotQueueProofs ---------------------------
(***************************************************************************)
(* Proofs about the message queue, for all keys, features, scopes and      *)
(* priorities.  The invariants need no strengthening beyond one another:   *)
(* that merging loses nothing rests on the filter mirroring the heap.      *)
(***************************************************************************)
EXTENDS SpotQueue, TLAPS

IInv == TypeOK /\ FilterMirrorsHeap /\ NothingLost /\ NothingInvented

(* Merging widens the queued message and keeps its key and priority.       *)
LEMMA MergedWidens ==
  ASSUME NEW old \in Message, NEW m \in Message
  PROVE  /\ Merged(old, m) \in Message
         /\ Merged(old, m).key = old.key /\ Merged(old, m).priority = old.priority
         /\ Merged(old, m).features = old.features \cup m.features
         /\ old.scope <= Merged(old, m).scope /\ m.scope <= Merged(old, m).scope
         /\ Merged(old, m).scope \in {old.scope, m.scope}
<1> DEFINE scope == Larger(old.scope, m.scope)
<1>1. old.scope \in Int /\ m.scope \in Int
  BY ScopesAssumption DEF Message
<1>2. scope \in {old.scope, m.scope} /\ old.scope <= scope /\ m.scope <= scope
  BY <1>1 DEF Larger
<1> HIDE DEF scope
<1>3. scope \in Scopes
  BY <1>2 DEF Message
<1>4. Merged(old, m) = [old EXCEPT !.features = old.features \cup m.features, !.scope = scope]
  BY DEF Merged, scope
<1> QED
  BY <1>2, <1>3, <1>4 DEF Message

(* Merging a message into the queue changes the one with its key only.     *)
LEMMA AbsorbChanges ==
  ASSUME queue \in SUBSET Message, NEW m \in Message, NEW q \in Absorb(queue, m)
  PROVE  \/ q \in queue /\ q.key # m.key
         \/ \E x \in queue : x.key = m.key /\ q = Merged(x, m)
BY DEF Absorb

(* A queued message, merged or not, is still in the queue after a push.    *)
LEMMA AbsorbKeeps ==
  ASSUME queue \in SUBSET Message, NEW m \in Message, NEW x \in queue
  PROVE  (IF x.key = m.key THEN Merged(x, m) ELSE x) \in Absorb(queue, m)
BY DEF Absorb

(* Every step keeps the types.                                             *)
LEMMA TypeStep == TypeOK /\ [Next]_vars => TypeOK'
<1> SUFFICES ASSUME TypeOK, [Next]_vars PROVE TypeOK'
  OBVIOUS
<1>1. ASSUME NEW m \in Message, Push(m) PROVE TypeOK'
  <2>1. m.key \in Keys
    BY DEF Message
  <2>2. CASE m.key \in membership
    <3>1. ASSUME NEW q \in Absorb(queue, m) PROVE q \in Message
      BY <3>1, AbsorbChanges, MergedWidens DEF TypeOK
    <3> QED
      BY <1>1, <2>2, <3>1 DEF Push, Known, TypeOK
  <2>3. CASE m.key \notin membership
    BY <1>1, <2>1, <2>3 DEF Push, Known, TypeOK
  <2> QED
    BY <2>2, <2>3
<1>2. ASSUME NEW m \in queue, Pop(m) PROVE TypeOK'
  BY <1>2 DEF Pop, TypeOK
<1>3. CASE UNCHANGED vars
  BY <1>3 DEF vars, TypeOK
<1> QED
  BY <1>1, <1>2, <1>3 DEF Next

(* Every step keeps the filter the index of the heap.                      *)
LEMMA FilterStep == TypeOK /\ FilterMirrorsHeap /\ [Next]_vars => FilterMirrorsHeap'
<1> SUFFICES ASSUME TypeOK, FilterMirrorsHeap, [Next]_vars PROVE FilterMirrorsHeap'
  OBVIOUS
<1>1. ASSUME NEW m \in Message, Push(m) PROVE FilterMirrorsHeap'
  <2>1. CASE m.key \in membership
    <3>1. queue' = Absorb(queue, m) /\ membership' = membership
      BY <1>1, <2>1 DEF Push, Known
    <3>2. ASSUME NEW q \in queue' PROVE q.key \in membership
      BY <3>1, <3>2, AbsorbChanges, MergedWidens DEF TypeOK, FilterMirrorsHeap
    <3>3. ASSUME NEW k \in membership PROVE \E q \in queue' : q.key = k
      <4> PICK x \in queue : x.key = k
        BY <3>3 DEF FilterMirrorsHeap
      <4> QED
        BY <3>1, AbsorbKeeps, MergedWidens DEF TypeOK
    <3>4. ASSUME NEW p \in queue', NEW q \in queue', p.key = q.key PROVE p = q
      BY <3>1, <3>4, AbsorbChanges, MergedWidens DEF TypeOK, FilterMirrorsHeap
    <3>5. membership = {q.key : q \in queue'}
      BY <3>2, <3>3
    <3> QED
      BY <3>1, <3>4, <3>5 DEF FilterMirrorsHeap
  <2>2. CASE m.key \notin membership
    BY <1>1, <2>2 DEF Push, Known, FilterMirrorsHeap
  <2> QED
    BY <2>1, <2>2
<1>2. ASSUME NEW m \in queue, Pop(m) PROVE FilterMirrorsHeap'
  BY <1>2 DEF Pop, FilterMirrorsHeap
<1>3. CASE UNCHANGED vars
  BY <1>3 DEF vars, FilterMirrorsHeap
<1> QED
  BY <1>1, <1>2, <1>3 DEF Next

(* No step loses what a request asked for.                                 *)
LEMMA LostStep == IInv /\ [Next]_vars => NothingLost'
<1> SUFFICES ASSUME IInv, [Next]_vars PROVE NothingLost'
  OBVIOUS
<1>0. TypeOK
  BY DEF IInv
<1>1. ASSUME NEW m \in Message, Push(m) PROVE NothingLost'
  <2> SUFFICES ASSUME NEW r \in ledger'
               PROVE  \E q \in queue' : q.key = r.key /\ r.features \subseteq q.features /\ r.scope <= q.scope
    BY DEF NothingLost
  <2>1. r \in Message /\ r \in ledger \cup {m}
    BY <1>0, <1>1 DEF Push, Known, TypeOK
  <2>2. CASE m.key \notin membership
    <3>1. queue' = queue \cup {m}
      BY <1>1, <2>2 DEF Push, Known
    <3>2. CASE r = m
      <4>1. r.scope \in Int
        BY <2>1, ScopesAssumption DEF Message
      <4>2. r.scope <= r.scope
        BY <4>1
      <4> QED
        BY <3>1, <3>2, <4>2
    <3>3. CASE r \in ledger
      BY <3>1, <3>3 DEF IInv, NothingLost
    <3> QED
      BY <2>1, <3>2, <3>3
  <2>3. CASE m.key \in membership
    <3>1. queue' = Absorb(queue, m)
      BY <1>1, <2>3 DEF Push, Known
    <3>2. CASE r = m
      <4> PICK x \in queue : x.key = m.key
        BY <2>3 DEF IInv, FilterMirrorsHeap
      <4> QED
        BY <1>0, <3>1, <3>2, AbsorbKeeps, MergedWidens DEF TypeOK
    <3>3. CASE r \in ledger
      <4> PICK x \in queue : x.key = r.key /\ r.features \subseteq x.features /\ r.scope <= x.scope
        BY <3>3 DEF IInv, NothingLost
      <4>1. CASE x.key = m.key
        <5>1. Merged(x, m) \in queue'
          BY <1>0, <3>1, <4>1, AbsorbKeeps DEF TypeOK
        <5>2. r.scope <= Merged(x, m).scope
          <6>1. x \in Message
            BY <1>0 DEF TypeOK
          <6>2. x.scope <= Merged(x, m).scope /\ Merged(x, m) \in Message
            BY <6>1, MergedWidens
          <6>3. r.scope \in Int /\ x.scope \in Int /\ Merged(x, m).scope \in Int
            BY <2>1, <6>1, <6>2, ScopesAssumption DEF Message
          <6> QED
            BY <6>2, <6>3
        <5> QED
          BY <1>0, <5>1, <5>2, MergedWidens DEF TypeOK
      <4>2. CASE x.key # m.key
        BY <1>0, <3>1, <4>2, AbsorbKeeps DEF TypeOK
      <4> QED
        BY <4>1, <4>2
    <3> QED
      BY <2>1, <3>2, <3>3
  <2> QED
    BY <2>2, <2>3
<1>2. ASSUME NEW m \in queue, Pop(m) PROVE NothingLost'
  BY <1>2 DEF Pop, IInv, NothingLost
<1>3. CASE UNCHANGED vars
  BY <1>3 DEF vars, IInv, NothingLost
<1> QED
  BY <1>1, <1>2, <1>3 DEF Next

(* No step adds what no request asked for.                                 *)
LEMMA InventedStep == IInv /\ [Next]_vars => NothingInvented'
<1> SUFFICES ASSUME IInv, [Next]_vars PROVE NothingInvented'
  OBVIOUS
<1>0. TypeOK
  BY DEF IInv
<1>1. ASSUME NEW m \in Message, Push(m) PROVE NothingInvented'
  <2>1. m \in ledger' /\ ledger \subseteq ledger'
    BY <1>1 DEF Push, Known
  <2> DEFINE Backed(q) ==
        /\ \A f \in q.features : \E r \in ledger' : r.key = q.key /\ f \in r.features
        /\ \E r \in ledger' : r.key = q.key /\ r.scope = q.scope
        /\ \E r \in ledger' : r.key = q.key /\ r.priority = q.priority
  <2>2. ASSUME NEW q \in queue PROVE Backed(q)
    BY <2>1, <2>2 DEF IInv, NothingInvented
  <2>3. Backed(m)
    BY <2>1
  <2>4. ASSUME NEW x \in queue, x.key = m.key PROVE Backed(Merged(x, m))
    BY <1>0, <2>2, <2>3, <2>4, MergedWidens DEF TypeOK
  <2>5. ASSUME NEW q \in queue' PROVE Backed(q)
    <3>1. CASE m.key \in membership
      <4>1. q \in Absorb(queue, m)
        BY <1>1, <2>5, <3>1 DEF Push, Known
      <4>2. q \in queue \/ \E x \in queue : x.key = m.key /\ q = Merged(x, m)
        BY <1>0, <4>1, AbsorbChanges DEF TypeOK
      <4> HIDE DEF Backed
      <4> QED
        BY <2>2, <2>4, <4>2
    <3>2. CASE m.key \notin membership
      <4>1. q \in queue \/ q = m
        BY <1>1, <2>5, <3>2 DEF Push, Known
      <4> HIDE DEF Backed
      <4> QED
        BY <2>2, <2>3, <4>1
    <3> QED
      BY <3>1, <3>2
  <2> QED
    BY <2>5 DEF NothingInvented
<1>2. ASSUME NEW m \in queue, Pop(m) PROVE NothingInvented'
  <2>1. ASSUME NEW q \in queue' PROVE q \in queue /\ q.key # m.key
    BY <1>2, <2>1 DEF Pop, IInv, FilterMirrorsHeap
  <2>2. ASSUME NEW r \in ledger, r.key # m.key PROVE r \in ledger'
    BY <1>2, <2>2 DEF Pop
  <2> QED
    BY <2>1, <2>2 DEF IInv, NothingInvented
<1>3. CASE UNCHANGED vars
  BY <1>3 DEF vars, IInv, NothingInvented
<1> QED
  BY <1>1, <1>2, <1>3 DEF Next

-----------------------------------------------------------------------------
(* The inductive invariant of the queue: GosdtQueue's filter mirrors its   *)
(* heap, and heap and popped messages carry what was pushed, all of it     *)
(* and nothing else.                                                       *)
THEOREM Invariance == Spec => []IInv
<1>1. Init => IInv
  BY DEF Init, IInv, TypeOK, FilterMirrorsHeap, NothingLost, NothingInvented
<1>2. IInv /\ [Next]_vars => IInv'
  BY TypeStep, FilterStep, LostStep, InventedStep DEF IInv
<1> QED
  BY <1>1, <1>2, PTL DEF Spec

(* The filter, the heap and the ledger have their types.                   *)
THEOREM TypeCorrect == Spec => []TypeOK
BY Invariance, PTL DEF IInv

(* The filter is the heap's index after every push, merge and pop.         *)
THEOREM FilterCorrect == Spec => []FilterMirrorsHeap
BY Invariance, PTL DEF IInv

(* A push that is merged away is served by the message it was merged into. *)
THEOREM MergingKeeps == Spec => []NothingLost
BY Invariance, PTL DEF IInv

(* A queued message asks for nothing that was not pushed.                  *)
THEOREM MergingAddsNothing == Spec => []NothingInvented
BY Invariance, PTL DEF IInv

=============================================================================
