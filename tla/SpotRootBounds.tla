--------------------------- MODULE SpotRootBounds ---------------------------
(***************************************************************************)
(* What the dispatch of messages promises the loop that runs it (the role  *)
(* of global_lowerbound and global_upperbound in optimizer.hpp): the       *)
(* root's bounds close in on the optimum, as long as there is something to *)
(* dispatch; a worker that is alone dispatches until they have met.        *)
(***************************************************************************)
EXTENDS Integers

CONSTANT Alone  \* whether there is only one worker

VARIABLES
  optimum,  \* the least objective of any model; it never changes
  lower,    \* the global lower bound
  upper,    \* the global upper bound
  busy      \* whether a message is queued or being dispatched

vars == <<optimum, lower, upper, busy>>

Init ==
  /\ lower <= optimum /\ optimum <= upper
  /\ busy = TRUE

Tighten ==
  /\ busy
  /\ lower <= lower' /\ lower' <= optimum
  /\ optimum <= upper' /\ upper' <= upper
  /\ Alone => busy' \/ lower' = upper'
  /\ busy' \in BOOLEAN
  /\ UNCHANGED optimum

Spec == Init /\ [][Tighten]_vars

=============================================================================
