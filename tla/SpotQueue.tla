----------------------------- MODULE SpotQueue ------------------------------
(***************************************************************************)
(* GosdtQueue (queue.cpp): the priority queue of messages the workers      *)
(* share, behind a membership filter.  A message whose key is already in   *)
(* the filter is not queued again: looking it up merges it into the queued *)
(* one.                                                                    *)
(*                                                                         *)
(* The filter and the heap are two containers of the code and two          *)
(* variables here.  A push or a pop runs under the shim lock: one step.    *)
(* ledger is a history variable: what was pushed and not yet popped.       *)
(***************************************************************************)
EXTENDS SpotMessage

CONSTANTS
  Keys,        \* what Message::operator== compares
  Features,    \* the features a message can carry
  Scopes,      \* the scopes a message can carry
  Priorities   \* the priorities of the messages

ASSUME ScopesAssumption == Scopes \subseteq Int
ASSUME PrioritiesAssumption == Priorities \subseteq Int

VARIABLES
  membership,  \* the keys of the messages in the filter
  queue,       \* the heap: the set of the queued messages
  ledger       \* the messages pushed since their key was last popped

vars == <<membership, queue, ledger>>

Message == [key : Keys, features : SUBSET Features, scope : Scopes, priority : Priorities]

Init ==
  /\ membership = {}
  /\ queue = {}
  /\ ledger = {}

Known_Never(m) == FALSE

(* Whether the filter finds a message with m's key                         *)
Known(m) == m.key \in membership

(* GosdtQueue::push                                                        *)
Push(m) ==
  /\ IF Known(m)
       THEN /\ queue' = Absorb(queue, m)
            /\ UNCHANGED membership
       ELSE /\ queue' = queue \cup {m}
            /\ membership' = membership \cup {m.key}
  /\ ledger' = ledger \cup {m}

(* GosdtQueue::pop: the top leaves the heap, its key leaves the filter     *)
Pop(m) ==
  /\ IsTop(queue, m)
  /\ queue' = queue \ {m}
  /\ membership' = membership \ {m.key}
  /\ ledger' = {r \in ledger : r.key # m.key}

Next ==
  \/ \E m \in Message : Push(m)
  \/ \E m \in queue : Pop(m)

Spec == Init /\ [][Next]_vars

-----------------------------------------------------------------------------
TypeOK ==
  /\ membership \in SUBSET Keys
  /\ queue \in SUBSET Message
  /\ ledger \in SUBSET Message

(* The filter is the heap's index: it holds the key of every queued        *)
(* message and no other, and no two queued messages have the same key.     *)
(* Otherwise push would drop a message that nothing queued stands for, or  *)
(* pop would free the key of a message that is still queued.               *)
FilterMirrorsHeap ==
  /\ membership = {q.key : q \in queue}
  /\ \A p, q \in queue : p.key = q.key => p = q

(* What push merges away is not lost: every request still owed is carried, *)
(* with all its features and at least its scope, by a queued message.      *)
NothingLost ==
  \A r \in ledger : \E q \in queue :
    /\ q.key = r.key
    /\ r.features \subseteq q.features
    /\ r.scope <= q.scope

(* Merging invents nothing: each feature of a queued message was asked for *)
(* by a request still owed, and so were its scope and its priority.        *)
NothingInvented ==
  \A q \in queue :
    /\ \A f \in q.features : \E r \in ledger : r.key = q.key /\ f \in r.features
    /\ \E r \in ledger : r.key = q.key /\ r.scope = q.scope
    /\ \E r \in ledger : r.key = q.key /\ r.priority = q.priority

=============================================================================
