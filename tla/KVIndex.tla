------------------------------ MODULE KVIndex ------------------------------
(***************************************************************************)
(* The server's in-memory ordered index and its command applier, shared by *)
(* the three server variants (kvstore/server/main.go, unnamed/part_001,    *)
(* unnamed/part_002).  The google/btree of item{key, value} ordered by     *)
(* item.Less is abstracted to a total function from keys to values, with   *)
(* Absent for a key the tree does not hold.  Keys are integers: their      *)
(* order stands for Go's byte-wise string order, which is all item.Less    *)
(* and the Scan visitor compare.                                           *)
(***************************************************************************)
EXTENDS Integers, Sequences, SequencesExt

CONSTANTS
  Keys,    \* keys a request may carry (a finite set of integers)
  Values,  \* values a request may carry (model values)
  Absent   \* "no item": tree.Get returning nil, or the proto zero value

ASSUME Keys \subseteq Int /\ Absent \notin Values

\* item{key, value}: the tree holds at most one item per key.
Index == [Keys -> Values \cup {Absent}]

\* btree.New(8): every server starts from an empty tree.
EmptyIndex == [k \in Keys |-> Absent]

\* walCommand / kvpb.WALCommand: the record appended to the durable log.
\* A delete carries no value (json omitempty, proto zero value).
Cmd == [op: {"put", "swap"}, key: Keys, value: Values]
         \cup [op: {"delete"}, key: Keys, value: {Absent}]

\* One pair of a ScanReply (kvpb.KVPair).
Pair == [key: Keys, value: Values]

\* tree.ReplaceOrInsert(item{k, v}) and tree.Delete(item{key: k}).
ReplaceOrInsert(idx, k, v) == [idx EXCEPT ![k] = v]
DeleteItem(idx, k) == [idx EXCEPT ![k] = Absent]

\* applyCommand: put and swap upsert, delete removes; the results are dropped.
applyCommand(idx, cmd) ==
  CASE cmd.op \in {"put", "swap"} -> ReplaceOrInsert(idx, cmd.key, cmd.value)
    [] cmd.op = "delete"          -> DeleteItem(idx, cmd.key)
    [] OTHER                      -> idx

\* Applying a sequence of commands, in order, to an empty tree: what a
\* successful replay of the log rebuilds.
ApplyAll(log) == FoldLeft(applyCommand, EmptyIndex, log)

\* Keys the tree holds at or above the pivot, in the order
\* AscendGreaterOrEqual visits them.
AscendFrom(idx, startKey) ==
  SetToSortSeq({k \in Keys : idx[k] # Absent /\ k >= startKey}, <)

\* A wrong stop test (end treated as exclusive), kept to validate the scan
\* property.
RECURSIVE VisitExclusive(_, _, _)
VisitExclusive(idx, ks, endKey) ==
  IF ks = <<>> \/ Head(ks) >= endKey THEN <<>>
  ELSE <<[key |-> Head(ks), value |-> idx[Head(ks)]]>>
         \o VisitExclusive(idx, Tail(ks), endKey)

\* The Scan handler's visitor run over the ascending walk: it returns false
\* (stop) at the first key above endKey, else appends the pair and goes on.
RECURSIVE Visit(_, _, _)
Visit(idx, ks, endKey) ==
  IF ks = <<>> \/ Head(ks) > endKey THEN <<>>
  ELSE <<[key |-> Head(ks), value |-> idx[Head(ks)]]>>
         \o Visit(idx, Tail(ks), endKey)

\* Scan(startKey, endKey): the pairs the handler returns.
Scan(idx, startKey, endKey) == Visit(idx, AscendFrom(idx, startKey), endKey)

\* The spec's SCAN (spec.md 4.E): every stored pair with
\* startKey <= key <= endKey, strictly ascending by key.  A reference
\* definition, independent of the walk.
ScanSpec(idx, startKey, endKey) ==
  LET inRange == {k \in Keys : idx[k] # Absent /\ startKey <= k /\ k <= endKey}
  IN  { s \in [1..Cardinality(inRange) -> Pair] :
          /\ {s[i].key : i \in DOMAIN s} = inRange
          /\ \A i \in DOMAIN s : s[i].value = idx[s[i].key]
          /\ IsSorted([i \in DOMAIN s |-> s[i].key], <) }
=============================================================================
