------------------------------ MODULE Client ------------------------------
(***************************************************************************)
(* The stdin-mode client (unnamed/part_000, stdinMode) driving a server.   *)
(* Each client reads its lines in order; a request line becomes one RPC    *)
(* under context.WithTimeout, and the client moves to the next line when   *)
(* the reply arrives or the deadline passes.  No server handler looks at   *)
(* ctx: a handler goroutine that has started waits for s.mu and runs its   *)
(* whole body even after the caller has given up (spec.md 5).              *)
(*                                                                         *)
(* The server is the in-memory one (MemServer): s.mu.Lock(), the handler  *)
(* body, the deferred Unlock.  DbServer and WalServer share this shape and *)
(* are shown to implement KVStore on their own.  A call is named           *)
(* <<client, line>>.                                                       *)
(***************************************************************************)
EXTENDS KVIndex, FiniteSets

CONSTANTS
  Clients, ScanBounds, NoReq, NoReply, ErrReply,
  Nobody,       \* s.mu is unlocked
  Script,       \* Script[c]: the lines client c reads, one record per line
  MaxTimeouts   \* bound on RPC deadlines that expire in a behaviour

KVS == INSTANCE KVStore WITH store <- EmptyIndex, up <- TRUE,
                              pending <- NoReq, resp <- NoReply
Mem == INSTANCE MemServer

\* A line is a request, a line stdinMode logs and skips (empty, missing
\* arguments, unknown command, STOP with arguments), STOP, or a line over
\* the scanner's 1 MB buffer.
Line == KVS!Request \cup {[op |-> "bad"], [op |-> "stop"], [op |-> "long"]}

ASSUME \A c \in Clients : Script[c] \in Seq(Line)

\* A call is a line that stdinMode sends as an RPC.
CallIds == UNION {{<<c, i>> : i \in {j \in 1..Len(Script[c]) : Script[c][j] \in KVS!Request}}
                   : c \in Clients}
RequestOf(h) == Script[h[1]][h[2]]

\* Keys no other client's script mutates.
OwnKeys(c) ==
  {k \in Keys : \A d \in Clients \ {c} : \A i \in 1..Len(Script[d]) :
                  ~(KVS!IsMutation(Script[d][i]) /\ Script[d][i].key = k)}

VARIABLES
  line,      \* line[c]: the line client c is on
  cstate,    \* cstate[c]: "reading", "waiting" for a reply, or "done"
  handler,   \* handler[h]: "idle", "wire", "wait", "locked", "done", "dropped"
  hresp,     \* hresp[h]: the reply handler h sent
  mu,        \* holder of s.mu, or Nobody
  index,     \* s.tree
  timeouts,  \* deadlines expired so far
  may,       \* may[c][k]: values c's own calls allow a Get of k to return
  printed    \* printed[c]: <<request, reply>> c printed last, or NoReply

vars == <<line, cstate, handler, hresp, mu, index, timeouts, may, printed>>

Current(c) == <<c, line[c]>>

\* main: dial, then stdinMode; the server starts with an empty tree.
Init ==
  /\ line = [c \in Clients |-> 1]
  /\ cstate = [c \in Clients |-> "reading"]
  /\ handler = [h \in CallIds |-> "idle"]
  /\ hresp = [h \in CallIds |-> NoReply]
  /\ mu = Nobody
  /\ index = EmptyIndex
  /\ timeouts = 0
  /\ may = [c \in Clients |-> [k \in Keys |-> {Absent}]]
  /\ printed = [c \in Clients |-> NoReply]

Reading(c, kinds) ==
  /\ cstate[c] = "reading" /\ line[c] <= Len(Script[c])
  /\ Script[c][line[c]].op \in kinds

\* A line that is logged and skipped: `continue` to the next line.
Skip(c) ==
  /\ Reading(c, {"bad"})
  /\ line' = [line EXCEPT ![c] = @ + 1]
  /\ UNCHANGED <<cstate, handler, hresp, mu, index, timeouts, may, printed>>

\* STOP: cancel() and return from stdinMode.
Stop(c) ==
  /\ Reading(c, {"stop"})
  /\ cstate' = [cstate EXCEPT ![c] = "done"]
  /\ UNCHANGED <<line, handler, hresp, mu, index, timeouts, may, printed>>

\* scanner.Scan() returns false at end of input; the loop ends.
EndOfInput(c) ==
  /\ cstate[c] = "reading" /\ line[c] > Len(Script[c])
  /\ cstate' = [cstate EXCEPT ![c] = "done"]
  /\ UNCHANGED <<line, handler, hresp, mu, index, timeouts, may, printed>>

\* A line over 1 MB: scanner.Scan() fails with ErrTooLong, the loop ends and
\* scanner.Err() makes the client exit (log.Fatalf) without the later lines.
ScanError(c) ==
  /\ Reading(c, {"long"})
  /\ cstate' = [cstate EXCEPT ![c] = "done"]
  /\ UNCHANGED <<line, handler, hresp, mu, index, timeouts, may, printed>>

\* ctx, cancel := context.WithTimeout(...); c.Put/Get/...(ctx, req).
Issue(c) ==
  /\ Reading(c, {"put", "get", "swap", "delete", "scan"})
  /\ handler' = [handler EXCEPT ![Current(c)] = "wire"]
  /\ cstate' = [cstate EXCEPT ![c] = "waiting"]
  /\ printed' = [printed EXCEPT ![c] = NoReply]
  /\ UNCHANGED <<line, hresp, mu, index, timeouts, may>>

\* What c may read back for the key of its call r once the call is over:
\* the value r installed if it replied, one more possibility if it failed.
MayAfter(c, r, replied) ==
  IF ~KVS!IsMutation(r) THEN may[c]
  ELSE LET v == KVS!Effect(EmptyIndex, r)[r.key]
       IN  [may[c] EXCEPT ![r.key] = IF replied THEN {v} ELSE @ \cup {v}]

\* The deadline passes: the RPC returns DeadlineExceeded, the client logs
\* "RPC failed", cancels and reads the next line.
Timeout(c) ==
  /\ cstate[c] = "waiting" /\ timeouts < MaxTimeouts
  /\ timeouts' = timeouts + 1
  /\ may' = [may EXCEPT ![c] = MayAfter(c, RequestOf(Current(c)), FALSE)]
  /\ cstate' = [cstate EXCEPT ![c] = "reading"]
  /\ line' = [line EXCEPT ![c] = @ + 1]
  /\ UNCHANGED <<handler, hresp, mu, index, printed>>

\* The reply arrives in time: the client prints it and reads the next line.
Receive(c) ==
  /\ cstate[c] = "waiting" /\ handler[Current(c)] = "done"
  /\ printed' = [printed EXCEPT ![c] = <<RequestOf(Current(c)),
                                         hresp[Current(c)]>>]
  /\ may' = [may EXCEPT ![c] = MayAfter(c, RequestOf(Current(c)), TRUE)]
  /\ cstate' = [cstate EXCEPT ![c] = "reading"]
  /\ line' = [line EXCEPT ![c] = @ + 1]
  /\ UNCHANGED <<handler, hresp, mu, index, timeouts>>

\* The transport starts a handler goroutine for a request on the wire, even
\* one whose caller has already given up.
Deliver(h) ==
  /\ handler[h] = "wire"
  /\ handler' = [handler EXCEPT ![h] = "wait"]
  /\ UNCHANGED <<line, cstate, hresp, mu, index, timeouts, may, printed>>

\* A cancelled stream that never reached a handler.
Drop(h) ==
  /\ handler[h] = "wire" /\ ~(cstate[h[1]] = "waiting" /\ line[h[1]] = h[2])
  /\ handler' = [handler EXCEPT ![h] = "dropped"]
  /\ UNCHANGED <<line, cstate, hresp, mu, index, timeouts, may, printed>>

\* s.mu.Lock() at the top of every handler.
Acquire(h) ==
  /\ handler[h] = "wait" /\ mu = Nobody
  /\ mu' = h
  /\ handler' = [handler EXCEPT ![h] = "locked"]
  /\ UNCHANGED <<line, cstate, hresp, index, timeouts, may, printed>>

\* A handler that returns ctx.Err() when its caller is gone and skips the
\* Unlock on that path, kept to validate HandlersFinish.
ServeNoUnlockOnCancel(h) ==
  /\ handler[h] = "locked"
  /\ index' = Mem!Handle(index, RequestOf(h)).index
  /\ hresp' = [hresp EXCEPT ![h] = Mem!Handle(index, RequestOf(h)).reply]
  /\ handler' = [handler EXCEPT ![h] = "done"]
  /\ mu' = IF cstate[h[1]] = "waiting" /\ line[h[1]] = h[2] THEN Nobody ELSE mu
  /\ UNCHANGED <<line, cstate, timeouts, may, printed>>

\* The handler body under the lock, the reply, and the deferred Unlock.
Serve(h) ==
  /\ handler[h] = "locked"
  /\ index' = Mem!Handle(index, RequestOf(h)).index
  /\ hresp' = [hresp EXCEPT ![h] = Mem!Handle(index, RequestOf(h)).reply]
  /\ handler' = [handler EXCEPT ![h] = "done"]
  /\ mu' = Nobody
  /\ UNCHANGED <<line, cstate, timeouts, may, printed>>

ClientStep(c) ==
  \/ Skip(c) \/ Stop(c) \/ EndOfInput(c) \/ ScanError(c)
  \/ Issue(c) \/ Receive(c)

Next ==
  \/ \E c \in Clients : ClientStep(c) \/ Timeout(c)
  \/ \E h \in CallIds : Deliver(h) \/ Drop(h) \/ Acquire(h) \/ Serve(h)

(***************************************************************************)
(* Fairness.  A client process keeps reading while it has lines; the       *)
(* transport delivers what is on the wire; a handler holding s.mu finishes *)
(* its body.  s.mu is free only now and then, so a waiter needs strong     *)
(* fairness: Go's sync.Mutex hands the lock to a waiter that has waited    *)
(* over 1 ms (starvation mode), so no waiter is passed over forever.       *)
(* Deadlines and dropped streams are not fair: they may never happen.      *)
(***************************************************************************)
Fairness ==
  /\ \A c \in Clients : WF_vars(ClientStep(c))
  /\ \A h \in CallIds : WF_vars(Deliver(h)) /\ SF_vars(Acquire(h))
                        /\ WF_vars(Serve(h))

Spec == Init /\ [][Next]_vars /\ Fairness

-----------------------------------------------------------------------------
(* Properties *)

\* Every handler goroutine that has started, whether its caller still
\* waits or has timed out, eventually runs its body and releases s.mu
\* (spec.md 5: once issued, "the operation runs to completion").
HandlersFinish ==
  \A h \in CallIds : handler[h] = "wait" ~> handler[h] = "done"

\* Every handler body, run under s.mu, leaves the tree and sends the reply
\* of the spec's atomic operation on the tree just before it (spec.md 4.E,
\* 8.3, 8.6): a Swap returns the value it replaced, a Put or Delete finds
\* what was there.  With the lock held across the body, this makes the
\* server linearizable whatever order the handlers take s.mu in.
HandlersAtomic ==
  [][\A h \in CallIds :
       Serve(h) => /\ index' = KVS!Effect(index, RequestOf(h))
                   /\ hresp'[h] = KVS!SpecReply(index, RequestOf(h))]_vars

\* Every client works through its input to STOP or end of input.
SessionsEnd == <>(\A c \in Clients : cstate[c] = "done")

\* A Get of a key only this client writes returns what the client's last
\* acknowledged mutation of it installed, or what one of its timed-out
\* mutations since then may have installed (spec.md 8.1: "after any
\* mutation's reply ... GET k returns the value the mutation installed").
ReadYourWrites ==
  \A c \in Clients :
    (printed[c] # NoReply /\ printed[c][1].op = "get"
                          /\ printed[c][1].key \in OwnKeys(c))
      => printed[c][2].value \in may[c][printed[c][1].key]
=============================================================================
