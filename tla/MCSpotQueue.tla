---------------------------- MODULE MCSpotQueue -----------------------------
(* Two keys, two features, two scopes and two priorities, and at most      *)
(* MaxOwed requests owed at a time: a queued message can be merged with,   *)
(* outranked and outlived by others.                                       *)
EXTENDS SpotQueue, FiniteSets

CONSTANT MaxOwed

LedgerBound == Cardinality(ledger) <= MaxOwed
=============================================================================
