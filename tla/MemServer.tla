------------------------------ MODULE MemServer ------------------------------
(***************************************************************************)
(* The in-memory server (unnamed/part_001): five handlers over the btree,  *)
(* each running its whole body under s.mu, with no log.  A handler body is *)
(* a function of the tree before it and the request: the tree it leaves    *)
(* and the reply it sends.  Client composes these bodies with the stdin    *)
(* clients, the transport and s.mu, and checks them against KVStore.       *)
(***************************************************************************)
EXTENDS KVIndex

CONSTANTS Clients, ScanBounds, NoReq, NoReply, ErrReply

LOCAL KV == INSTANCE KVStore WITH store <- EmptyIndex, up <- TRUE,
                                   pending <- NoReq, resp <- NoReply

MkReply(found, value, pairs) == KV!MkReply(found, value, pairs)

\* Put: prev := tree.ReplaceOrInsert(item); found = prev != nil.
Put(m, r) ==
  [index |-> ReplaceOrInsert(m, r.key, r.value),
   reply |-> MkReply(m[r.key] # Absent, Absent, <<>>)]

\* Get: got := tree.Get(item); found and value from got.
Get(m, r) ==
  [index |-> m, reply |-> MkReply(m[r.key] # Absent, m[r.key], <<>>)]

\* A Swap that reads the old value after replacing it, kept to validate
\* HandlersAtomic.
SwapReadAfter(m, r) ==
  LET after == ReplaceOrInsert(m, r.key, r.value)
  IN  [index |-> after, reply |-> MkReply(after[r.key] # Absent, after[r.key], <<>>)]

\* Swap: got := tree.Get(key); tree.ReplaceOrInsert(item); reply from got.
Swap(m, r) ==
  [index |-> ReplaceOrInsert(m, r.key, r.value),
   reply |-> MkReply(m[r.key] # Absent, m[r.key], <<>>)]

\* Delete: del := tree.Delete(item); found = del != nil.
Delete(m, r) ==
  [index |-> DeleteItem(m, r.key),
   reply |-> MkReply(m[r.key] # Absent, Absent, <<>>)]

\* Scan: AscendGreaterOrEqual(start) with the inclusive-end visitor.
ScanHandler(m, r) ==
  [index |-> m, reply |-> MkReply(FALSE, Absent, Scan(m, r.start, r.end))]

\* The KVS service registration: each RPC to its handler.
Handle(m, r) ==
  CASE r.op = "put"    -> Put(m, r)
    [] r.op = "get"    -> Get(m, r)
    [] r.op = "swap"   -> Swap(m, r)
    [] r.op = "delete" -> Delete(m, r)
    [] r.op = "scan"   -> ScanHandler(m, r)
=============================================================================
