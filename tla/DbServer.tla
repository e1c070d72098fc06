------------------------------ MODULE DbServer ------------------------------
(***************************************************************************)
(* The SQLite-backed server (unnamed/part_002, lines 1-246).  Each RPC     *)
(* runs in its own goroutine (one per client call); s.mu serializes the    *)
(* handlers.  A mutation reads the prior value, inserts one row into       *)
(* wal_log, applies the command to the tree and replies.  The insert is    *)
(* one SQLite transaction with synchronous = FULL: it either commits       *)
(* durably or fails and leaves the table as it was.  A crash loses the     *)
(* tree and every in-flight call; newKVServer rebuilds the tree by         *)
(* replaying wal_log in seq order.                                         *)
(***************************************************************************)
EXTENDS KVIndex, FiniteSets

CONSTANTS
  Clients, ScanBounds, NoReq, NoReply, ErrReply,
  Nobody,      \* s.mu is unlocked
  MaxLog,      \* bound on the rows of wal_log
  MaxCrashes,  \* bound on the crashes of one behaviour
  ExecErrors   \* what a failed INSERT may leave: subset of
               \* {"rolled_back", "committed"}

ASSUME ExecErrors \subseteq {"rolled_back", "committed"}

VARIABLES
  up,       \* "up" while the process serves, "down" after a crash
  index,    \* s.tree
  log,      \* the wal_log table, rows in seq order
  lock,     \* holder of s.mu, or Nobody
  pc,       \* pc[c]: where c's handler goroutine is
  req,      \* req[c]: c's outstanding request, or NoReq
  prev,     \* prev[c]: the tree.Get result the handler read under the lock
  resp,     \* resp[c]: the reply c received
  crashes   \* crashes so far

vars == <<up, index, log, lock, pc, req, prev, resp, crashes>>

\* replayLog: rows in ascending seq, each decoded and applied.  Every row was
\* written by appendLog from a valid op, so decoding never fails here.
replayLog == ApplyAll(log)

\* The refinement mapping: while the server is down, the map it promises is
\* the one replay will rebuild.
store == IF up = "up" THEN index ELSE replayLog

KV == INSTANCE KVStore WITH store <- store, up <- (up = "up"),
                             pending <- req, resp <- resp

Request == KV!Request
IsMutation(r) == KV!IsMutation(r)
Reply == KV!Reply
MkReply(found, value, pairs) == KV!MkReply(found, value, pairs)

\* The command a mutation handler builds: kvpb.WALCommand{Op, Key, Value}.
\* A copy-paste slip, kept to validate TypeOK: Delete built with OP_PUT.
CmdOfPasted(r) ==
  IF r.op = "delete" THEN [op |-> "put", key |-> r.key, value |-> Absent]
  ELSE [op |-> r.op, key |-> r.key, value |-> r.value]
CmdOf(r) ==
  IF r.op = "delete" THEN [op |-> "delete", key |-> r.key, value |-> Absent]
  ELSE [op |-> r.op, key |-> r.key, value |-> r.value]

\* The reply of a mutation handler from the value it read before appending.
\* Put and Delete: found = prev != nil.  Swap: also the old value.
MutationReply(r, p) ==
  IF r.op = "swap" THEN MkReply(p # Absent, p, <<>>)
  ELSE MkReply(p # Absent, Absent, <<>>)

TypeOK ==
  /\ up \in {"up", "down"}
  /\ index \in Index
  /\ log \in Seq(Cmd) /\ Len(log) <= MaxLog
  /\ lock \in Clients \cup {Nobody}
  /\ pc \in [Clients -> {"idle", "wait", "locked", "logged"}]
  /\ req \in [Clients -> Request \cup {NoReq}]
  /\ prev \in [Clients -> Values \cup {Absent}]
  /\ resp \in [Clients -> Reply \cup {NoReply, ErrReply}]
  /\ crashes \in 0..MaxCrashes

\* Mutations outstanding: each may still add one row.
InFlightMutations == {c \in Clients : req[c] # NoReq /\ IsMutation(req[c])}

Init ==
  /\ up = "up"
  /\ index = EmptyIndex
  /\ log = <<>>
  /\ lock = Nobody
  /\ pc = [c \in Clients |-> "idle"]
  /\ req = [c \in Clients |-> NoReq]
  /\ prev = [c \in Clients |-> Absent]
  /\ resp = [c \in Clients |-> NoReply]
  /\ crashes = 0

\* A client issues an RPC; the server starts a goroutine for it.
Call(c, r) ==
  /\ up = "up" /\ pc[c] = "idle"
  /\ IsMutation(r) => Len(log) + Cardinality(InFlightMutations) < MaxLog
  /\ pc' = [pc EXCEPT ![c] = "wait"]
  /\ req' = [req EXCEPT ![c] = r]
  /\ resp' = [resp EXCEPT ![c] = NoReply]
  /\ UNCHANGED <<up, index, log, lock, prev, crashes>>

\* The handler's exit: deferred s.mu.Unlock() and the reply on the wire.
Return(c, reply) ==
  /\ lock' = Nobody
  /\ pc' = [pc EXCEPT ![c] = "idle"]
  /\ req' = [req EXCEPT ![c] = NoReq]
  /\ resp' = [resp EXCEPT ![c] = reply]

\* Get: lock, tree.Get, reply, unlock.
Get(c) ==
  /\ up = "up" /\ pc[c] = "wait" /\ req[c].op = "get" /\ lock = Nobody
  /\ Return(c, MkReply(index[req[c].key] # Absent, index[req[c].key], <<>>))
  /\ UNCHANGED <<up, index, log, prev, crashes>>

\* Scan: lock, AscendGreaterOrEqual with the inclusive-end visitor, unlock.
ScanHandler(c) ==
  /\ up = "up" /\ pc[c] = "wait" /\ req[c].op = "scan" /\ lock = Nobody
  /\ Return(c, MkReply(FALSE, Absent, Scan(index, req[c].start, req[c].end)))
  /\ UNCHANGED <<up, index, log, prev, crashes>>

\* Two faulty forms of LockAndAppend, kept to validate the properties: one
\* ignores appendLog's error and applies the command anyway, one releases
\* s.mu before the append (the lock spans the read only).
LockAndAppendIgnoringError(c) ==
  /\ up = "up" /\ pc[c] = "wait" /\ IsMutation(req[c]) /\ lock = Nobody
  /\ \/ log' = Append(log, CmdOf(req[c]))
     \/ UNCHANGED log
  /\ lock' = c
  /\ pc' = [pc EXCEPT ![c] = "logged"]
  /\ prev' = [prev EXCEPT ![c] = index[req[c].key]]
  /\ UNCHANGED <<req, resp, up, index, crashes>>
LockAndAppendUnlocked(c) ==
  /\ up = "up" /\ pc[c] = "wait" /\ IsMutation(req[c]) /\ lock = Nobody
  /\ log' = Append(log, CmdOf(req[c]))
  /\ pc' = [pc EXCEPT ![c] = "logged"]
  /\ prev' = [prev EXCEPT ![c] = index[req[c].key]]
  /\ UNCHANGED <<lock, req, resp, up, index, crashes>>

\* Put, Swap, Delete up to the append: s.mu.Lock(), prev := tree.Get(key),
\* then appendLog: one INSERT that commits durably, or returns an error; on
\* error the handler returns it (deferred unlock).  An error normally means
\* the transaction rolled back, but an fsync of SQLite's WAL that fails
\* after the commit frame was written returns SQLITE_IOERR with a commit
\* that WAL recovery restores on the next open.
LockAndAppend(c) ==
  /\ up = "up" /\ pc[c] = "wait" /\ IsMutation(req[c]) /\ lock = Nobody
  /\ \/ /\ log' = Append(log, CmdOf(req[c]))
        /\ lock' = c
        /\ pc' = [pc EXCEPT ![c] = "logged"]
        /\ prev' = [prev EXCEPT ![c] = index[req[c].key]]
        /\ UNCHANGED <<req, resp>>
     \/ /\ Return(c, ErrReply)
        /\ \E e \in ExecErrors :
             log' = IF e = "committed" THEN Append(log, CmdOf(req[c])) ELSE log
        /\ UNCHANGED prev
  /\ UNCHANGED <<up, index, crashes>>

\* Put, Swap, Delete after a successful append: applyCommand, reply from
\* the value read before the append, unlock.
Apply(c) ==
  /\ up = "up" /\ pc[c] = "logged"
  /\ index' = applyCommand(index, CmdOf(req[c]))
  /\ Return(c, MutationReply(req[c], prev[c]))
  /\ UNCHANGED <<up, log, prev, crashes>>

\* The process dies: the tree and every in-flight call are lost, committed
\* rows stay.
Crash ==
  /\ up = "up" /\ crashes < MaxCrashes
  /\ up' = "down"
  /\ index' = EmptyIndex
  /\ lock' = Nobody
  /\ pc' = [c \in Clients |-> "idle"]
  /\ req' = [c \in Clients |-> NoReq]
  /\ prev' = [c \in Clients |-> Absent]
  /\ resp' = [c \in Clients |-> IF pc[c] # "idle" THEN ErrReply ELSE resp[c]]
  /\ crashes' = crashes + 1
  /\ UNCHANGED log

\* newKVServer: open the database, initDB, replayLog into a fresh tree.
Restart ==
  /\ up = "down"
  /\ up' = "up"
  /\ index' = replayLog
  /\ UNCHANGED <<log, lock, pc, req, prev, resp, crashes>>

Next ==
  \/ \E c \in Clients, r \in Request : Call(c, r)
  \/ \E c \in Clients :
       Get(c) \/ ScanHandler(c) \/ LockAndAppend(c) \/ Apply(c)
  \/ Crash \/ Restart

Spec == Init /\ [][Next]_vars

-----------------------------------------------------------------------------
(* Properties *)

\* Every state the server answers from is the state a restart would rebuild
\* (spec.md 7, "the index and the log are consistent at all reply
\* boundaries"): whenever no handler sits between its append and its apply,
\* replaying wal_log into an empty tree gives exactly s.tree.  It fails if a
\* handler applies a command whose row was not committed, or commits a row
\* it never applies.
LogMatchesIndex ==
  (up = "up" /\ \A c \in Clients : pc[c] # "logged") => replayLog = index

\* The server implements KVStore: every reply is the one an atomic
\* execution of the calls in linearization order gives, failed mutations
\* change nothing, and a crash loses no acknowledged mutation (spec.md 8.1,
\* 8.2, 8.3, 8.6, 8.7).
KVSpec == KV!Spec
=============================================================================
