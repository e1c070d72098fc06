# TLA+ models of the KVStore servers

This directory holds TLA+ models of the key-value servers in `src/`. TLC checks them.
The models cover the durable cores: the ordered index, the write-ahead log and the
SQLite log, crash recovery, and the mutex that serializes the handlers. They are
written from the Go source. `spec.md` is used only for the abstract contract
(`KVStore`) and for the properties.

## 1. Inventory

### The source

| File | What it is |
|---|---|
| `src/kvstore/server/main.go` | Server with a hand-framed WAL file (`--wal`). Frame = 4-byte big-endian length + JSON `walCommand`. |
| `src/unnamed/part_002` (lines 1-246) | Server with a SQLite `wal_log` table (`--backer`). Payload is a protobuf `WALCommand`. `synchronous = FULL`. |
| `src/unnamed/part_002` (lines 247-410) | Go tests for the SQLite server (spec scenarios S3 and S4). |
| `src/unnamed/part_001` | In-memory server with no durability (the project 1 baseline). |
| `src/unnamed/part_000` | Client. It has a CLI mode (one RPC per run) and a stdin mode (one command per line). Each RPC has a context timeout (2 s by default). |
| `src/req.bash`, `src/report/proj1.md` | Toolchain setup and a course report. |

### Components, their state and their operations

* **Ordered index** (`btree.BTree` of `item{key,value}`, all three servers). It maps each
  key to at most one value. It is used through `Get`, `ReplaceOrInsert`, `Delete`, and
  `AscendGreaterOrEqual` with a visitor.
* **Command applier** (`applyCommand`). Put and swap upsert, delete removes, and the
  results are dropped. Live mutations and replay both use it.
* **WAL file log** (`appendWAL`, `replayWAL`, `readFullWithEOFAsBoundary`, `writeFull`).
  * State: the file's bytes and its offset. The kernel holds a page cache that may not
    be on stable storage yet.
  * `appendWAL` does two `writeFull` calls (length, then payload) and then `Sync`. Each
    of the three steps can fail after writing part of its bytes.
  * `replayWAL` reads frames until EOF. A trailing partial frame is meant to be
    ignored. An oversized frame, bad JSON or an unknown op is an error.
  * After replay, `newKVServer` seeks to the end of the file.
* **SQLite log** (`initDB`, `appendLog`, `replayLog`). State: the rows of `wal_log` in
  `seq` order. An insert is one transaction that is durable on commit.
* **Server core** (the handlers `Put`, `Get`, `Swap`, `Delete`, `Scan`).
  * Every handler holds `s.mu` for its whole body.
  * A mutation reads the prior value, appends, applies, then replies from the prior
    value.
  * If the append fails, the handler returns the error and skips the apply.
* **Recovery** (`newKVServer`). It opens the log and replays it into an empty tree. A
  replay error makes `main` exit.
* **Client** (`part_000`). It makes one outstanding call per process. A call gets a
  context with a timeout. In stdin mode a failed call is logged and the loop goes on.
  The client never retries.

### How they interact

The gRPC server runs each call in its own goroutine. The goroutines meet at `s.mu`.
Within the lock, the only points where something can go wrong part-way are the log
writes and the fsync: a process kill, a power loss, or an I/O error. Recovery
connects two runs of the process through the bytes or rows they share.

### What is hard

* **Crash between steps.** A crash can come between the two writes, between the
  writes and the fsync, or between the append and the apply.
* **Failure part-way through.** A short write, a failed fsync, or a failed insert.
* **What replay does with torn bytes.** This covers a torn tail, and torn bytes
  followed by later frames.
* **Handlers racing for the lock.** The reply must match a serial order.
* **Scan bounds.** The end is inclusive, start may be greater than end, and the
  bounds may lie outside the stored keys.
* **Client timeouts.** A deadline can expire while the handler, which never checks
  `ctx`, has not yet taken the lock; the client goes on to its next line.
* **The frame bound.** `appendWAL` bounds the JSON payload, not the value, and the
  writer's and reader's checks must agree exactly at 1024 bytes.
* **Progress.** Every error path must release `s.mu`, and every waiter must get it.

### What makes each component correct

* **Index and scan:** a scan returns exactly the stored pairs in `[start, end]`, in
  ascending order.
* **Server core:** replies are linearizable, a failed mutation changes nothing, and
  (for the durable servers) no acknowledged mutation is lost.
* **Log:**
  * Every acknowledged record is durable and in acknowledgement order.
  * At every reply boundary, a replay rebuilds exactly the served map.
  * Startup succeeds on any file the server itself wrote.

`PROJECT.json` lists every component and every hazard, each at its source line, with
the properties that cover it.

## 2. Modules

| Module | Models | Main correspondence |
|---|---|---|
| `KVIndex` | The btree, `applyCommand`, the Scan walk | The tree is `[Keys -> Values ∪ {Absent}]`. Integer keys stand for Go's byte order on strings. `Visit` is the visitor (`key > end ⇒ stop`) over `AscendFrom`. `ScanSpec` is the spec's SCAN, written independently. |
| `MCKVIndex` | Input enumeration for the scan check | Every index over 3 keys and every start/end in `0..4`. |
| `KVStore` | The abstract contract (spec.md 4.E, 5, 7) | `store`, `up`, `pending`, `resp`. It has `Call`, `Do` (the linearization point), `Fail`, `Crash` and `Restart`. `Crash` may make one logged but unacknowledged mutation take effect. |
| `DbServer` | SQLite server (`part_002`) | Per-client `pc` and one `lock`. `LockAndAppend` is Lock, `Get` prev and `appendLog`; it either commits one row or returns an error, which (per `ExecErrors`) rolled the row back or, after a late WAL fsync failure, left it committed. `Apply` runs `applyCommand`, replies and unlocks. `Crash` loses the tree and in-flight calls. `Restart` is `newKVServer`/`replayLog`. |
| `WalServer` | WAL server (`kvstore/server/main.go`) | The file is a sequence of frames that are `whole` or torn (`hdr_part`, `hdr_only`, `body_part`). `durable` counts the fsynced frames. The steps `LockAndRead`, `WriteHeader`, `WritePayload`, `SyncWAL` and `Apply` follow the source lines. Each write step can fail after a partial write. An fsync can fail in two ways (`sync`, `sync_drop`); after `sync_drop` the unsynced frames are in `dropped`. `ProcessCrash` keeps the page cache. `PowerLoss` keeps the fsynced frames plus any prefix of the rest, with dropped frames read back as zeros (`OnDisk`). `linked` says whether the file's name is on disk: it starts false when `FreshFile` (the file was just created by `newKVServer`), `DirWriteback` is the kernel committing it later, and a power loss before that loses the whole file. `ReplayFrom` is `replayWAL`'s loop and `FrameTooLarge` its size check. |
| `MemServer` | In-memory server (`part_001`) | The five handler bodies as functions from the tree and the request to the new tree and the reply; `Handle` is the service registration. It has no state of its own: `Client` runs these bodies. |
| `Client` | stdin-mode client (`part_000`) composed with the server's handler shape | Per client: `line`, `cstate`. Per call `<<client, line>>` (a line sent as an RPC): `handler` goes `wire → wait → locked → done` (or `dropped`). `Issue`, `Timeout`, `Receive`, `Skip`, `Stop`, `EndOfInput`, `ScanError` follow `stdinMode`; `Acquire` is `s.mu.Lock()`; `Serve` is a handler body, `MemServer!Handle`, then the deferred Unlock. `Deliver`/`Drop` are the transport. `may` and `printed` are history variables for `ReadYourWrites`. |
| `MCClient` | Scripts for the client check | c1: `put 1 v1`, `put 1 v2`, `get 1`; c2: a bad line, `swap 2 v1`, `swap 2 v2`, `delete 2`, `scan`, `STOP`; c3: an over-long line, then a `get` never sent. An `ASSUME` checks that the scripts send every operation, and that some swap and some delete follow a mutation of their key, so both replies of those handlers are reached. |

Each of `DbServer` and `WalServer` is checked against `KVStore` with
`INSTANCE KVStore WITH ...`, using this refinement mapping:

* `store` is the tree while the server is up. While it is down, `store` is the map a
  replay would rebuild.
* `pending` is the request a client has outstanding.

### How the WAL's bytes are abstracted

Replay's behaviour on a torn frame depends only on two things: the frame's shape, and
whether more bytes follow it. `ReplayFrom` follows the code:

* At a frame boundary, `io.EOF` ends the replay.
* `hdr_part` and `body_part` at the end give `ErrUnexpectedEOF`, which is ignored.
* `hdr_only` at the end gives `io.EOF` from the payload read, which is an error.
* A torn frame followed by more bytes is read out of alignment. The outcome is chosen
  nondeterministically: either an error (bad JSON or an oversized length), or a read
  past EOF that is taken for a partial frame.

`PayloadLen` is `len(json.Marshal(cmd))`: 18 bytes around the op and key, 11 more
around a value. Keys and ordinary values are 1 byte; the values in `LongValues` are
`LongValueLen` bytes. With `LongValueLen = 991`, a put of `v2` is exactly 1024 bytes
(accepted), and a swap of it is 1025 (rejected by `RejectOversized`).

A misaligned read never decodes as a valid command: every length field contains a
0x00 byte, and JSON rejects that byte.

### A failed fsync

`SyncWAL` has two failure kinds:

* `sync` leaves the unsynced pages dirty. A later successful fsync writes them.
* `sync_drop` is how Linux has behaved since 4.13 on ext4 and xfs. The kernel marks
  the pages clean after reporting the error, so their bytes never reach the disk.

After `sync_drop`, the frames written since the last good fsync go into `dropped`.
A later successful fsync still advances `durable`, and with it the file size the
disk keeps. On a power loss, `OnDisk` turns each dropped frame below `durable` into
`zeroed`, unless it is shorter than a length field. Replay reads a zeroed frame as
length 0 with an empty payload. `json.Unmarshal` rejects it, so startup fails.

## 3. Runs

| Run | Cfg | Expect | Checks | Shows |
|---|---|---|---|---|
| `scan_walk` | `MCKVIndex.cfg` | pass | `ScanMatchesSpec` | The walk equals the spec's SCAN on all 675 inputs. This includes start > end and bounds outside the stored keys. |
| `db_crash` | `DbServer.cfg` | pass | `TypeOK`, `LogMatchesIndex`, `KVSpec` | SQLite server, 2 clients, failed inserts and a crash anywhere. The log and the tree agree at every reply boundary, and the server implements `KVStore`. |
| `db_commit_error` | `DbCommitError.cfg` | violation | `LogMatchesIndex` | An INSERT that returns an I/O error after its commit frame reached SQLite's WAL: the handler replies with an error and skips the apply, but the row is there for the next replay. |
| `wal_live` | `WalLive.cfg` | pass | `TypeOK`, `KVSpec`, `EveryCallReturns` | WAL server with short writes, fsync errors and payloads at and over the bound, but no crash. It implements `KVStore` (a failed or rejected append leaves the tree alone), and every call returns whatever error path its handler takes. |
| `wal_crash` | `WalCrash.cfg` | pass | `AckedDurable`, `AbortOnlyOnTornBytes` | Faults, process kills and power losses in any order. Every acknowledged frame stays whole and durable where it was written. Startup aborts only on torn bytes, never on the 1024-byte frame a put of `v2` writes. |
| `wal_torn_header` | `WalTornHeader.cfg` | violation | `RecoveryNeverAborts` | A kill between the two writes leaves a bare header, and startup fails for good. |
| `wal_torn_tail` | `WalTornTail.cfg` | violation | `LogMatchesIndex` | Spec scenario S5 fails. After a power loss tears the tail, the next acknowledged Put is unreadable on the next restart. |
| `wal_append_fail` | `WalAppendFail.cfg` | violation | `LogMatchesIndex` | A failed write or fsync leaves bytes in the file that a restart replays or misframes. |
| `wal_new_file` | `WalNewFile.cfg` | violation | `AckedDurable` | On a log `newKVServer` has just created, a put is fsynced and acknowledged, and a power loss before the directory entry is written back loses the whole file with it. |
| `wal_fsync_drop` | `WalFsyncDrop.cfg` | violation | `AbortOnlyOnTornBytes` | An fsync fails and drops its pages. The next append's fsync succeeds. After a power loss the first frame reads as zeros, and startup aborts in front of a frame that fsync reported durable. |
| `client_sessions` | `ClientSessions.cfg` | pass | `HandlersFinish`, `SessionsEnd`, `HandlersAtomic` | With one deadline that may expire on any call, and requests that reach the server late or never, every handler goroutine runs to completion and every session ends. Each in-memory handler body, run under `s.mu`, changes the tree and replies exactly as one atomic `KVStore` operation. |
| `client_timeout_reorder` | `ClientTimeoutReorder.cfg` | violation | `ReadYourWrites` | c1's first Put times out, its handler takes `s.mu` after the second Put was acknowledged, and c1's Get returns `v1`. |

Two results stand side by side:

* `AckedDurable` holds: the acknowledged bytes are on disk (`wal_crash`, whose fsync
  errors keep their pages).
* `LogMatchesIndex` fails for the WAL server: replay cannot always reach those bytes.

The gap between the two is three of the code-bug findings in `PROJECT.json`. The
fourth, `wal_new_file`, is a gap in `AckedDurable` itself: the bytes are on disk
but the file's name may not be, because `newKVServer` never fsyncs the directory it
created the log in. ext4 and xfs in their default modes usually commit the name
with the file's first fsync, which is why no test sees it. A fifth
WAL finding, `wal_fsync_drop`, is a spec gap. spec.md 7 says the server "continues"
after a flush failure. On Linux, continuing to append to the same file after a failed
fsync can lose data that a later fsync reported as durable.

`LogMatchesIndex` holds for the SQLite server as long as a failed INSERT rolls back (`db_crash`);
when SQLite reports an fsync error after the commit frame is written, it fails
too (`db_commit_error`).

Every property of a passing run has a mutant in `PROJECT.json`, and TLC finds the
property violated with that mutant. Each mutant is a plausible slip:

* `Visit` stops at `>=` instead of `>`.
* `Delete` is built with op "put" (a copy-paste slip).
* The append error is ignored.
* The lock is released before the append.
* The `Sync` call is missing.
* `Swap` reads the old value after replacing it (caught by `HandlersAtomic`).
* A `Sync` error path returns without releasing `s.mu`.
* Replay's size check rejects a frame of exactly `maxWALFrameSize` bytes (`>=` for
  `>`).
* A handler returns `ctx.Err()` for a caller that is gone and skips the Unlock.

### Bounds and why they are enough

* **Clients and data:** 2 clients, 2 keys, 2 values.
  * Two clients on one key are enough for every race on the lock.
  * Two values are enough to tell an old value from a new one.
* **Durable server runs:**
  * Scans use the range `[1, 1]`, which must stop at key 2. The scan walk itself is
    checked exhaustively by `scan_walk`.
  * At most 3 rows (SQLite) or 2 frames (WAL), so a failure or torn frame can be
    followed by one acknowledged append.
  * At most 1-2 crashes and 1 fault.
  * Every finding's trace needs at most these bounds: one crash or fault and two
    appends.
* **Client runs:** three sessions of at most six lines and one expired deadline.
  One deadline is what the reordering needs; the third session only adds the
  over-long line. c2's two swaps and its delete of one key reach the found and
  not-found reply of both handlers, with the old value in the swap's reply. Giving
  c3 an RPC of its own as well takes the liveness check past ten minutes. No
  symmetry is used: the runs check liveness.
* **Larger bounds:** `WalLive` with 3 frames and 2 faults also passes, but it takes
  19 minutes (10.5M states, measured before `sync_drop` was added).

### Fairness

`WalServer` and `Client` state their fairness as part of `Spec`:

* Weak fairness on each step of a handler that holds `s.mu` (success or error
  path), on the client process while it has lines, and on the transport delivering
  a request on the wire.
* Strong fairness on taking `s.mu`: the lock is free only now and then, and Go's
  `sync.Mutex` hands it to a waiter blocked over 1 ms (starvation mode), so no
  waiter is passed over forever.
* Calls, deadlines, dropped streams, crashes, restarts and faults are the
  environment's and are never fair. `DbServer` carries no fairness:
  its runs check safety only.

Deadlock is checked everywhere except in `wal_crash`, `wal_torn_tail`,
`wal_fsync_drop`, `wal_new_file` and the two
client runs. In the WAL runs a startup that failed on a corrupt file really is
terminal: a retry replays the same bytes. In the client runs every session ends and
the processes exit.

## 4. Not modelled, and why

* **gRPC transport, flag parsing, directory creation, open errors at startup.** These
  are library I/O. The model assumes one goroutine per call and reliable unary RPCs.
* **SQLite internals.** An INSERT is taken as atomic and durable on commit
  (`synchronous = FULL`). A failed INSERT either rolled back or, after a late
  fsync error, committed; nothing in between.
* **Unusual writeback behaviour.** The model assumes the unsynced tail survives a
  power loss as a prefix. Out-of-order page writeback is not modelled. Pages dropped
  after a failed fsync are modelled (`sync_drop`).
* **JSON encoding.** Only its length is modelled (`PayloadLen`), which is all the
  size checks read. HTML escaping (`<` becomes 6 bytes) is covered by giving a
  value any encoded length.
* **Client CLI mode and printing.** CLI mode sends one request and exits on error:
  a one-line session. The printed text is left out; `printed` keeps the reply.
* **The client's server side.** `Client` composes with the in-memory server's
  handlers (`MemServer`), which have no storage faults.
  Composing the client with `WalServer` itself would multiply two large state
  spaces for no new interleaving: storage faults are already checked there.

## 5. Plan

Done in sitting 1: `KVIndex`, `MCKVIndex`, `KVStore`, `DbServer`, `WalServer` (the
three findings) and `MemServer`.

Done in sitting 2:

1. `Client`/`MCClient`: stdin sessions with RPC deadlines, late and dropped
   requests. Every handler and session finishes; an expired Put can land after the
   session's next Put (a spec gap).
2. `DbServer`: an INSERT error after the commit (`db_commit_error`, a spec gap).
3. `WalServer`: the 1 KB payload bound (`RejectOversized`, replay's size check,
   `AbortOnlyOnTornBytes`), and fairness with `EveryCallReturns`.

Done in sitting 3:

4. `WalServer`: pages dropped after a failed fsync, as the fault kind `sync_drop`
   (`wal_fsync_drop`, a spec gap). `WalLive` includes it among the error paths
   every call returns through. Replay's size check is now its own operator,
   `FrameTooLarge`.

Done in sitting 4:

5. `Client` now runs `MemServer`'s handler bodies instead of the abstract
   operation, and `HandlersAtomic` checks each against `KVStore` (this replaces the
   separate `mem_live` run).
6. `WalServer`: the log file's directory entry (`FreshFile`, `linked`,
   `DirWriteback`). `wal_new_file` shows an acknowledged put lost with the whole
   freshly created file (a code bug).

Done in sitting 5: `MCClient`'s scripts now reach `Delete` and a `Swap` that
finds its key, so `HandlersAtomic` checks every handler body. A call is a line
sent as an RPC. `wal_crash` no longer repeats `wal_live`'s `TypeOK`.

Next sittings:

7. A `WalServer` variant with the fixes applied, shown to pass `LogMatchesIndex`:
   treat a payload `io.EOF` as partial, truncate to the last good frame before
   appending, and truncate back on a failed append.
8. Liveness in `DbServer` (every call returns, as in `WalServer`). On the full
   `DbServer.cfg`, the check takes over three minutes alongside the safety
   properties. It needs bounds that keep it well inside a run's time.
9. Pre-existing logs as initial states (scenario S4).
