---------------------------- MODULE SpotMessage -----------------------------
(***************************************************************************)
(* Messages of the SPOT engine and how two of them merge (message.cpp,     *)
(* queue.hpp).  A message is a record with at least the fields             *)
(*   key       what Message::operator== compares                           *)
(*   features  the features it is about; those of an exploration message   *)
(*             are signed as the code's features and signs masks say       *)
(*   scope     the scope it asks for                                       *)
(*   priority  its place in the heap                                       *)
(*                                                                         *)
(* In this and the other modules a definition named X_Y is X with the      *)
(* defect Y: a mutant that shows what the properties can tell apart.       *)
(***************************************************************************)
EXTENDS Integers

Larger_Sum(x, y) == x + y

Larger(x, y) == IF x < y THEN y ELSE x

Merged_NarrowScope(old, new) == [old EXCEPT !.features = @ \cup new.features]

(* MembershipKeyHashCompare::equal, on the message that stays queued: it   *)
(* keeps its place in the heap, the priority of the first push.            *)
Merged(old, new) ==
  [old EXCEPT !.features = @ \cup new.features,
              !.scope = Larger(@, new.scope)]

Absorb_AnyKey(q, m) == {Merged(x, m) : x \in q}

Absorb(q, m) == {IF x.key = m.key THEN Merged(x, m) ELSE x : x \in q}

(* The heap hands out a message of greatest priority; equal ones come in   *)
(* any order.                                                              *)
IsTop(q, m) == \A x \in q : x.priority <= m.priority

=============================================================================
