----------------------------- MODULE MCKVIndex -----------------------------
(***************************************************************************)
(* Checks the Scan handler's ascending walk against the spec's definition  *)
(* of SCAN over every index on three keys and every pair of bounds,        *)
(* including bounds below, between and above the stored keys and start    *)
(* greater than end.                                                       *)
(***************************************************************************)
EXTENDS KVIndex, FiniteSets

CONSTANT Bounds  \* scan bounds to enumerate (a superset of Keys)

VARIABLES idx, startKey, endKey

vars == <<idx, startKey, endKey>>

Init ==
  /\ idx \in Index
  /\ startKey \in Bounds
  /\ endKey \in Bounds

\* Any request may follow any state: move to any other input.
Pick ==
  /\ idx' \in Index
  /\ startKey' \in Bounds
  /\ endKey' \in Bounds

Spec == Init /\ [][Pick]_vars


\* SCAN start end returns exactly the stored pairs with start <= key <= end,
\* each once, strictly ascending (spec.md 8.4 and 8.5): the handler's
\* AscendGreaterOrEqual walk with its "key > end => stop" visitor computes
\* this for every index and every pair of bounds.
ScanMatchesSpec == ScanSpec(idx, startKey, endKey) = {Scan(idx, startKey, endKey)}
=============================================================================
