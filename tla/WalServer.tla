----------------------------- MODULE WalServer -----------------------------
(***************************************************************************)
(* The write-ahead-log server (kvstore/server/main.go).  A mutation, under *)
(* s.mu, reads the prior value, then appendWAL writes a 4-byte big-endian  *)
(* length and the JSON payload with two writeFull calls and fsyncs; only   *)
(* then is the command applied and the reply sent.  newKVServer replays    *)
(* the file frame by frame and seeks to its end.                           *)
(*                                                                         *)
(* The file is a sequence of frames.  A frame written completely is        *)
(* "whole"; a write cut short leaves one of three torn shapes:             *)
(*   hdr_part  1 to 3 bytes of the length                                  *)
(*   hdr_only  the 4 length bytes and no payload                           *)
(*   body_part the length and part of the payload                          *)
(* Bytes are abstracted to these shapes: what replay does with a torn      *)
(* frame depends only on its shape and on whether bytes follow it.         *)
(* `durable` counts the frames fsync has made stable: a power loss keeps   *)
(* them and any prefix of the rest, a process crash keeps everything the   *)
(* kernel already has.  A failed fsync comes in two kinds: "sync" leaves  *)
(* the unsynced pages dirty, so a later fsync writes them; "sync_drop" is  *)
(* the Linux behaviour of marking them clean, so their bytes never reach   *)
(* the disk.  Those frames are `dropped`: a power loss leaves zeros where  *)
(* they were, even after a later fsync succeeded.  The file's name is a    *)
(* directory entry that only an fsync of the directory, which the code     *)
(* never does, or the filesystem's own writeback makes durable: until then *)
(* a power loss can take the whole file with it.                           *)
(***************************************************************************)
EXTENDS KVIndex, FiniteSets

CONSTANTS
  Clients, ScanBounds, NoReq, NoReply, ErrReply,
  Nobody,       \* s.mu is unlocked
  CrashKinds,   \* subset of {"process", "power"}
  FaultKinds,   \* subset of {"header", "payload", "sync", "sync_drop"}
  MaxLog,       \* bound on the frames in the file
  MaxCrashes,   \* bound on crashes in a behaviour
  MaxFaults,    \* bound on failed writes or fsyncs in a behaviour
  MaxWALFrameSize, \* maxWALFrameSize, the payload bound (1 << 10)
  LongValues,   \* values whose JSON encoding is LongValueLen bytes
  LongValueLen, \* (every key and every other value encodes to 1 byte)
  FreshFile     \* TRUE: newKVServer's O_CREATE made the file in this run

ASSUME CrashKinds \subseteq {"process", "power"}
ASSUME FaultKinds \subseteq {"header", "payload", "sync", "sync_drop"}

Torn == {"hdr_part", "hdr_only", "body_part"}
Frame == [rec: Cmd, part: {"whole", "zeroed"} \cup Torn]

\* len(json.Marshal(cmd)): {"op":"<op>","key":"<key>"} is 18 bytes around
\* the op and key, and ,"value":"<value>" adds 11 around a value that
\* omitempty keeps.  A put and a swap of one value differ by one byte.
PayloadLen(cmd) ==
  18 + Len(cmd.op) + 1
     + (IF cmd.value = Absent THEN 0
        ELSE 11 + (IF cmd.value \in LongValues THEN LongValueLen ELSE 1))

VARIABLES
  up,       \* "up", "down" after a crash, "aborted" when startup failed
  index,    \* s.tree
  file,     \* the WAL file's frames, in file order
  durable,  \* frames 1..durable are on stable storage
  lock,     \* holder of s.mu, or Nobody
  pc,       \* pc[c]: where c's handler goroutine is
  req,      \* req[c]: c's outstanding request, or NoReq
  prev,     \* prev[c]: what tree.Get returned under the lock
  resp,     \* resp[c]: the reply c received
  acked,    \* history: <<position, record>> of every acknowledged append
  crashes,  \* crashes so far
  faults,   \* write or fsync errors so far
  dropped,  \* positions of frames whose pages a failed fsync dropped
  linked    \* the file's directory entry is on stable storage

kernel == <<dropped, linked>>

vars == <<up, index, file, durable, lock, pc, req, prev, resp, acked,
          crashes, faults, kernel>>

(***************************************************************************)
(* replayWAL.  Each outcome is [ok, index]: ok = FALSE is an error return, *)
(* which makes newKVServer fail and main exit.  At a frame boundary io.EOF *)
(* ends the replay.  A torn last frame is ignored when                     *)
(* readFullWithEOFAsBoundary reports ErrUnexpectedEOF (some bytes read),   *)
(* but a frame with its length and no payload bytes gets io.EOF from the   *)
(* payload read, which replayWAL returns as an error.  A torn frame with   *)
(* bytes after it makes the loop read the next frame's bytes as length and *)
(* payload: the result is either an error (JSON that does not decode, or a *)
(* length over maxWALFrameSize) or a read that runs past the end of file   *)
(* and is taken for a trailing partial frame.  Misread bytes never decode  *)
(* as a command: every frame's length field holds a 0x00 byte, which JSON  *)
(* rejects.  Zeroed bytes read as a length of 0 and an empty payload,      *)
(* which json.Unmarshal rejects.                                           *)
(***************************************************************************)
\* replayWAL's bound on a frame's length field, sz > maxWALFrameSize.
\* A bound that rejects a frame of exactly maxWALFrameSize bytes, kept to
\* validate AbortOnlyOnTornBytes.
FrameTooLargeAtBound(cmd) == PayloadLen(cmd) >= MaxWALFrameSize
FrameTooLarge(cmd) == PayloadLen(cmd) > MaxWALFrameSize

RECURSIVE ReplayFrom(_, _)
ReplayFrom(idx, f) ==
  LET stop == [ok |-> TRUE, index |-> idx]
      fail == [ok |-> FALSE, index |-> idx]
  IN  CASE f = <<>>                 -> {stop}
        [] Head(f).part = "zeroed"  -> {fail}
        [] Head(f).part = "whole" /\ FrameTooLarge(Head(f).rec) -> {fail}
        [] Head(f).part = "whole"   -> ReplayFrom(applyCommand(idx, Head(f).rec),
                                                  Tail(f))
        [] Len(f) > 1               -> {stop, fail}
        [] Head(f).part = "hdr_only" -> {fail}
        [] OTHER                    -> {stop}

replayWAL == ReplayFrom(EmptyIndex, file)

\* The refinement mapping: while down, the map a successful replay rebuilds.
store ==
  IF up = "up" THEN index
  ELSE (CHOOSE o \in replayWAL : o.ok \/ \A p \in replayWAL : ~p.ok).index

KV == INSTANCE KVStore WITH store <- store, up <- (up = "up"),
                             pending <- req, resp <- resp

Request == KV!Request
IsMutation(r) == KV!IsMutation(r)
MkReply(found, value, pairs) == KV!MkReply(found, value, pairs)

\* walCommand{Op, Key, Value} built by the Put, Swap and Delete handlers.
\* CmdOfPasted, a Delete handler copied from Put that keeps Op "put", is
\* kept to validate TypeOK.
CmdOfPasted(r) ==
  IF r.op = "delete" THEN [op |-> "put", key |-> r.key, value |-> Absent]
  ELSE [op |-> r.op, key |-> r.key, value |-> r.value]
CmdOf(r) ==
  IF r.op = "delete" THEN [op |-> "delete", key |-> r.key, value |-> Absent]
  ELSE [op |-> r.op, key |-> r.key, value |-> r.value]

MutationReply(r, p) ==
  IF r.op = "swap" THEN MkReply(p # Absent, p, <<>>)
  ELSE MkReply(p # Absent, Absent, <<>>)

\* The file a power loss leaves: the durable frames and any prefix of the
\* rest, possibly ending inside a frame.
Shorter(part) ==
  CASE part = "whole"     -> Torn
    [] part = "body_part" -> Torn
    [] OTHER              -> {"hdr_part"}
Survivors ==
  {SubSeq(file, 1, n) : n \in durable..Len(file)}
    \cup UNION {{Append(SubSeq(file, 1, n - 1), [file[n] EXCEPT !.part = t]) :
                   t \in Shorter(file[n].part)} : n \in durable + 1..Len(file)}

InFlightMutations == {c \in Clients : req[c] # NoReq /\ IsMutation(req[c])}
Appending == {c \in Clients : pc[c] \in {"hdr", "body", "logged"}}

TypeOK ==
  /\ up \in {"up", "down", "aborted"}
  /\ index \in Index
  /\ file \in Seq(Frame) /\ Len(file) <= MaxLog
  /\ durable \in 0..Len(file)
  /\ lock \in Clients \cup {Nobody}
  /\ pc \in [Clients -> {"idle", "wait", "locked", "hdr", "body", "logged"}]
  /\ req \in [Clients -> Request \cup {NoReq}]
  /\ prev \in [Clients -> Values \cup {Absent}]
  /\ resp \in [Clients -> KV!Reply \cup {NoReply, ErrReply}]
  /\ acked \in Seq((1..MaxLog) \X Cmd)
  /\ crashes \in 0..MaxCrashes
  /\ faults \in 0..MaxFaults
  /\ dropped \subseteq 1..MaxLog
  /\ linked \in BOOLEAN

Init ==
  /\ up = "up"
  /\ index = EmptyIndex
  /\ file = <<>>
  /\ durable = 0
  /\ lock = Nobody
  /\ pc = [c \in Clients |-> "idle"]
  /\ req = [c \in Clients |-> NoReq]
  /\ prev = [c \in Clients |-> Absent]
  /\ resp = [c \in Clients |-> NoReply]
  /\ acked = <<>>
  /\ crashes = 0
  /\ faults = 0
  /\ dropped = {}
  /\ linked = ~FreshFile

\* A client issues an RPC; the server starts a goroutine for it.
Call(c, r) ==
  /\ up = "up" /\ pc[c] = "idle"
  /\ IsMutation(r) => Len(file) + Cardinality(InFlightMutations) < MaxLog
  /\ pc' = [pc EXCEPT ![c] = "wait"]
  /\ req' = [req EXCEPT ![c] = r]
  /\ resp' = [resp EXCEPT ![c] = NoReply]
  /\ UNCHANGED <<up, index, file, durable, lock, prev, acked, crashes, faults,
                 kernel>>

\* The handler's exit: deferred s.mu.Unlock() and the reply on the wire.
Return(c, reply) ==
  /\ lock' = Nobody
  /\ pc' = [pc EXCEPT ![c] = "idle"]
  /\ req' = [req EXCEPT ![c] = NoReq]
  /\ resp' = [resp EXCEPT ![c] = reply]

\* A write or fsync error of the kind given, within the fault bound.
Fault(kind) == kind \in FaultKinds /\ faults < MaxFaults /\ faults' = faults + 1

Get(c) ==
  /\ up = "up" /\ pc[c] = "wait" /\ req[c].op = "get" /\ lock = Nobody
  /\ Return(c, MkReply(index[req[c].key] # Absent, index[req[c].key], <<>>))
  /\ UNCHANGED <<up, index, file, durable, prev, acked, crashes, faults,
                 kernel>>

ScanHandler(c) ==
  /\ up = "up" /\ pc[c] = "wait" /\ req[c].op = "scan" /\ lock = Nobody
  /\ Return(c, MkReply(FALSE, Absent, Scan(index, req[c].start, req[c].end)))
  /\ UNCHANGED <<up, index, file, durable, prev, acked, crashes, faults,
                 kernel>>

\* A handler that reads under s.mu but does not hold it across appendWAL,
\* kept to validate KVSpec.
LockAndReadUnlocked(c) ==
  /\ up = "up" /\ pc[c] = "wait" /\ IsMutation(req[c]) /\ lock = Nobody
  /\ pc' = [pc EXCEPT ![c] = "locked"]
  /\ prev' = [prev EXCEPT ![c] = index[req[c].key]]
  /\ UNCHANGED <<up, index, file, durable, lock, req, resp, acked, crashes,
                 faults, kernel>>

\* Put, Swap, Delete: s.mu.Lock(), prev := s.tree.Get(key).
LockAndRead(c) ==
  /\ up = "up" /\ pc[c] = "wait" /\ IsMutation(req[c]) /\ lock = Nobody
  /\ lock' = c
  /\ pc' = [pc EXCEPT ![c] = "locked"]
  /\ prev' = [prev EXCEPT ![c] = index[req[c].key]]
  /\ UNCHANGED <<up, index, file, durable, req, resp, acked, crashes, faults,
                 kernel>>

\* appendWAL's checks before any write: the op is always valid, and a
\* payload over maxWALFrameSize is an error with the file untouched.
RejectOversized(c) ==
  /\ pc[c] = "locked" /\ PayloadLen(CmdOf(req[c])) > MaxWALFrameSize
  /\ Return(c, ErrReply)
  /\ UNCHANGED <<up, index, file, durable, prev, acked, crashes, faults,
                 kernel>>

\* appendWAL, first writeFull: the 4 length bytes.  A failed Write may have
\* written some of them; the file offset stays past whatever was written.
WriteHeader(c) ==
  /\ pc[c] = "locked" /\ PayloadLen(CmdOf(req[c])) <= MaxWALFrameSize
  /\ \/ /\ file' = Append(file, [rec |-> CmdOf(req[c]), part |-> "hdr_only"])
        /\ pc' = [pc EXCEPT ![c] = "hdr"]
        /\ UNCHANGED <<lock, req, resp, faults>>
     \/ /\ Fault("header")
        /\ \/ file' = file
           \/ file' = Append(file, [rec |-> CmdOf(req[c]), part |-> "hdr_part"])
        /\ Return(c, ErrReply)
  /\ UNCHANGED <<up, index, durable, prev, acked, crashes, kernel>>

\* appendWAL, second writeFull: the JSON payload.
WritePayload(c) ==
  /\ pc[c] = "hdr"
  /\ \/ /\ file' = [file EXCEPT ![Len(file)].part = "whole"]
        /\ pc' = [pc EXCEPT ![c] = "body"]
        /\ UNCHANGED <<lock, req, resp, faults>>
     \/ /\ Fault("payload")
        /\ \/ file' = file
           \/ file' = [file EXCEPT ![Len(file)].part = "body_part"]
        /\ Return(c, ErrReply)
  /\ UNCHANGED <<up, index, durable, prev, acked, crashes, kernel>>

\* An appendWAL without the Sync call, kept to validate AckedDurable.
SyncWALMissing(c) ==
  /\ pc[c] = "body"
  /\ pc' = [pc EXCEPT ![c] = "logged"]
  /\ UNCHANGED <<up, index, file, durable, lock, req, resp, prev, acked,
                 crashes, faults, kernel>>

\* A Sync error path that returns without releasing s.mu, kept to validate
\* EveryCallReturns.
SyncWALKeepsLock(c) ==
  /\ pc[c] = "body"
  /\ \/ /\ durable' = Len(file)
        /\ pc' = [pc EXCEPT ![c] = "logged"]
        /\ UNCHANGED <<lock, req, resp, faults>>
     \/ /\ Fault("sync")
        /\ pc' = [pc EXCEPT ![c] = "idle"]
        /\ req' = [req EXCEPT ![c] = NoReq]
        /\ resp' = [resp EXCEPT ![c] = ErrReply]
        /\ UNCHANGED <<lock, durable>>
  /\ UNCHANGED <<up, index, file, prev, acked, crashes, kernel>>

\* appendWAL, s.logFile.Sync(): on success every frame written so far is on
\* stable storage, dropped pages apart; on failure the handler returns the
\* error, and with "sync_drop" the frames written since the last good fsync
\* are lost to the disk.
SyncWAL(c) ==
  /\ pc[c] = "body"
  /\ \/ /\ durable' = Len(file)
        /\ pc' = [pc EXCEPT ![c] = "logged"]
        /\ UNCHANGED <<lock, req, resp, faults, kernel>>
     \/ /\ Fault("sync")
        /\ Return(c, ErrReply)
        /\ UNCHANGED <<durable, kernel>>
     \/ /\ Fault("sync_drop")
        /\ dropped' = dropped \cup (durable + 1..Len(file))
        /\ Return(c, ErrReply)
        /\ UNCHANGED <<durable, linked>>
  /\ UNCHANGED <<up, index, file, prev, acked, crashes>>

\* applyCommand, then the reply from the value read before the append; the
\* deferred unlock.
Apply(c) ==
  /\ pc[c] = "logged"
  /\ index' = applyCommand(index, CmdOf(req[c]))
  /\ acked' = Append(acked, <<Len(file), CmdOf(req[c])>>)
  /\ Return(c, MutationReply(req[c], prev[c]))
  /\ UNCHANGED <<up, file, durable, prev, crashes, faults, kernel>>

\* What any crash does to the process: the tree, the lock and every
\* in-flight call are gone.
ProcessLost ==
  /\ up' = "down"
  /\ index' = EmptyIndex
  /\ lock' = Nobody
  /\ pc' = [c \in Clients |-> "idle"]
  /\ req' = [c \in Clients |-> NoReq]
  /\ prev' = [c \in Clients |-> Absent]
  /\ resp' = [c \in Clients |-> IF pc[c] # "idle" THEN ErrReply ELSE resp[c]]
  /\ crashes' = crashes + 1

\* The process is killed: the kernel keeps every byte it was given.
ProcessCrash ==
  /\ "process" \in CrashKinds /\ up = "up" /\ crashes < MaxCrashes
  /\ ProcessLost
  /\ UNCHANGED <<file, durable, acked, faults, kernel>>

\* What the disk holds of a surviving file: a later good fsync made the
\* file's size durable, but every dropped frame of 4 bytes or more before
\* it reads back as zeros.
OnDisk(f) ==
  [i \in DOMAIN f |-> IF i \in dropped /\ i <= durable /\ f[i].part # "hdr_part"
                       THEN [f[i] EXCEPT !.part = "zeroed"] ELSE f[i]]

\* The machine loses power, serving or not: only fsynced frames are sure to
\* survive, followed by any prefix of the bytes written after them; a file
\* whose name is not yet durable may be gone, and newKVServer creates it
\* afresh.
PowerLoss ==
  /\ "power" \in CrashKinds /\ crashes < MaxCrashes
  /\ ProcessLost
  /\ file' \in {OnDisk(f) : f \in Survivors} \cup (IF linked THEN {} ELSE {<<>>})
  /\ durable' = Len(file')
  /\ dropped' = {}
  /\ UNCHANGED <<acked, faults, linked>>

\* The filesystem writes the directory entry back on its own (a journal
\* commit); nothing in the code asks for it.
DirWriteback ==
  /\ ~linked
  /\ linked' = TRUE
  /\ UNCHANGED <<up, index, file, durable, lock, pc, req, prev, resp, acked,
                 crashes, faults, dropped>>

\* newKVServer after a crash: replayWAL, then Seek(0, io.SeekEnd), so later
\* frames go after every byte in the file.  A replay error makes main exit:
\* the server stays down, and restarting it replays the same bytes again.
Restart ==
  /\ up = "down"
  /\ \E o \in replayWAL :
       /\ up' = IF o.ok THEN "up" ELSE "aborted"
       /\ index' = IF o.ok THEN o.index ELSE EmptyIndex
  /\ UNCHANGED <<file, durable, lock, pc, req, prev, resp, acked, crashes,
                 faults, kernel>>

Next ==
  \/ \E c \in Clients, r \in Request : Call(c, r)
  \/ \E c \in Clients :
       \/ Get(c) \/ ScanHandler(c) \/ LockAndRead(c)
       \/ RejectOversized(c) \/ WriteHeader(c) \/ WritePayload(c) \/ SyncWAL(c) \/ Apply(c)
  \/ ProcessCrash \/ PowerLoss \/ DirWriteback \/ Restart

(***************************************************************************)
(* Fairness.  A goroutine holding s.mu keeps running its handler: each of  *)
(* its steps, success or error, is weakly fair.  s.mu is free only now and *)
(* then, so taking it is strongly fair: Go's sync.Mutex hands the lock to  *)
(* a waiter blocked over 1 ms (starvation mode).  Calls, crashes and       *)
(* restarts are the environment's and are not fair.                        *)
(***************************************************************************)
Fairness ==
  \A c \in Clients :
    /\ SF_vars(Get(c) \/ ScanHandler(c) \/ LockAndRead(c))
    /\ WF_vars(RejectOversized(c) \/ WriteHeader(c) \/ WritePayload(c)
               \/ SyncWAL(c) \/ Apply(c))

Spec == Init /\ [][Next]_vars /\ Fairness

-----------------------------------------------------------------------------
(* Properties *)

\* Whenever no append is in progress, a restart would rebuild exactly the
\* map the server is answering from (spec.md 7 and scenario S5: after a
\* torn tail is dropped, the next Put "succeeds and is recoverable").  It
\* fails if a failed append leaves bytes in the file, or if an append lands
\* behind bytes the replay cannot frame.
LogMatchesIndex ==
  (up = "up" /\ Appending = {}) => replayWAL = {[ok |-> TRUE, index |-> index]}

\* Startup never fails on a file only this server has written: a crash
\* in the middle of an append leaves a trailing partial frame, which
\* replayWAL is meant to ignore (spec.md 4.B, 7).
RecoveryNeverAborts == up # "aborted"

\* Every acknowledged mutation's frame stays in the file, whole and on
\* stable storage, where appendWAL wrote it, through any sequence of write
\* errors, fsync errors, process crashes and power losses (spec.md 3, L2).
AckedDurable ==
  \A i \in 1..Len(acked) :
    LET p == acked[i][1] IN
      /\ p <= durable
      /\ file[p] = [rec |-> acked[i][2], part |-> "whole"]

\* Startup aborts only on bytes a cut-short write left: every whole frame
\* appendWAL writes passes replayWAL's checks, and every frame an fsync
\* reported durable reads back as written.  It fails if the writer's
\* size bound (appendWAL, len(payload) > maxWALFrameSize) and the reader's
\* (replayWAL, sz > maxWALFrameSize) disagree at the boundary (spec.md 9:
\* the bound must be "consistent between writer and replay"), or if an
\* fsync error loses frames behind which later frames were acknowledged.
AbortOnlyOnTornBytes ==
  up = "aborted" => \E i \in 1..Len(file) : file[i].part \in Torn

\* Every call returns while the server is up: each handler releases s.mu
\* on every path, the four error returns of appendWAL included (the
\* deferred Unlock), so no waiter is blocked for good.
EveryCallReturns == \A c \in Clients : req[c] # NoReq ~> req[c] = NoReq

\* The server implements KVStore (with crashes disabled, see README).
KVSpec == KV!Spec
=============================================================================
