------------------------------ MODULE KVStore ------------------------------
(***************************************************************************)
(* What the durable server promises its clients (spec.md 4.E, 5, 7): one   *)
(* ordered map, five operations that each take effect atomically at one   *)
(* linearization point and reply from the map as it was just before, and  *)
(* crashes that lose no acknowledged mutation.  A mutation may also fail   *)
(* with a storage error and leave the map as it was.  A crash may cut off  *)
(* a mutation whose record was already logged: it then takes effect        *)
(* without a reply (spec.md 5, "the state change is retained").            *)
(*                                                                         *)
(* DbServer and WalServer are shown to implement this specification.       *)
(***************************************************************************)
EXTENDS KVIndex, FiniteSets

CONSTANTS
  Clients,      \* processes issuing RPCs, one outstanding call each
  ScanBounds,   \* start and end keys a Scan request may carry
  NoReq,        \* no call outstanding
  NoReply,      \* no reply delivered since the last call
  ErrReply      \* the RPC returned an error

\* The five RPCs of kvpb.KVS (spec.md 6).
Request ==
       [op: {"put", "swap"}, key: Keys, value: Values]
  \cup [op: {"get", "delete"}, key: Keys]
  \cup [op: {"scan"}, start: ScanBounds, end: ScanBounds]

IsMutation(r) == r.op \in {"put", "swap", "delete"}

\* Reply fields: found, value (Get's value, Swap's old value) and the pairs
\* of a Scan; a field an RPC does not carry is at its zero value.
Reply == [found: BOOLEAN, value: Values \cup {Absent}, pairs: Seq(Pair)]

MkReply(found, value, pairs) == [found |-> found, value |-> value, pairs |-> pairs]

\* The state an operation leaves, and the reply it gives, from the map just
\* before it (spec.md 4.E).
Effect(m, r) ==
  CASE r.op \in {"put", "swap"} -> [m EXCEPT ![r.key] = r.value]
    [] r.op = "delete"          -> [m EXCEPT ![r.key] = Absent]
    [] OTHER                    -> m

SpecReply(m, r) ==
  CASE r.op \in {"get", "swap"} -> MkReply(m[r.key] # Absent, m[r.key], <<>>)
    [] r.op \in {"put", "delete"} -> MkReply(m[r.key] # Absent, Absent, <<>>)
    [] r.op = "scan" ->
         MkReply(FALSE, Absent, CHOOSE s \in ScanSpec(m, r.start, r.end) : TRUE)

VARIABLES
  store,    \* the map
  up,       \* the server is serving
  pending,  \* pending[c]: the call client c has outstanding, or NoReq
  resp      \* resp[c]: the reply to c's last call, NoReply or ErrReply

vars == <<store, up, pending, resp>>

TypeOK ==
  /\ store \in Index
  /\ up \in BOOLEAN
  /\ pending \in [Clients -> Request \cup {NoReq}]
  /\ resp \in [Clients -> Reply \cup {NoReply, ErrReply}]

Init ==
  /\ store = EmptyIndex
  /\ up = TRUE
  /\ pending = [c \in Clients |-> NoReq]
  /\ resp = [c \in Clients |-> NoReply]

Call(c, r) ==
  /\ up /\ pending[c] = NoReq
  /\ pending' = [pending EXCEPT ![c] = r]
  /\ resp' = [resp EXCEPT ![c] = NoReply]
  /\ UNCHANGED <<store, up>>

\* The linearization point of c's call.
Do(c) ==
  /\ up /\ pending[c] # NoReq
  /\ store' = Effect(store, pending[c])
  /\ resp' = [resp EXCEPT ![c] = SpecReply(store, pending[c])]
  /\ pending' = [pending EXCEPT ![c] = NoReq]
  /\ UNCHANGED up

\* A mutation fails with a storage error; the map is unchanged.
Fail(c) ==
  /\ up /\ pending[c] # NoReq /\ IsMutation(pending[c])
  /\ resp' = [resp EXCEPT ![c] = ErrReply]
  /\ pending' = [pending EXCEPT ![c] = NoReq]
  /\ UNCHANGED <<store, up>>

\* Every outstanding call fails; at most one logged mutation survives.
Crash ==
  /\ up
  /\ \/ store' = store
     \/ \E c \in Clients : /\ pending[c] # NoReq /\ IsMutation(pending[c])
                           /\ store' = Effect(store, pending[c])
  /\ up' = FALSE
  /\ pending' = [c \in Clients |-> NoReq]
  /\ resp' = [c \in Clients |-> IF pending[c] # NoReq THEN ErrReply ELSE resp[c]]

Restart ==
  /\ ~up
  /\ up' = TRUE
  /\ UNCHANGED <<store, pending, resp>>

Next ==
  \/ \E c \in Clients, r \in Request : Call(c, r)
  \/ \E c \in Clients : Do(c) \/ Fail(c)
  \/ Crash \/ Restart

Spec == Init /\ [][Next]_vars
=============================================================================
