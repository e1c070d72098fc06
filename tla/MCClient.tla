------------------------------ MODULE MCClient ------------------------------
(***************************************************************************)
(* Three stdin sessions.  c1 overwrites key 1 and reads it back, so a late *)
(* handler of its first Put can land after the second.  c2 sends a bad     *)
(* line, two Swaps and a Delete of key 2 (the second Swap and the Delete   *)
(* find the key, unless the call before them timed out and its handler    *)
(* has not run yet), a Scan, then STOP.  c3's first line is over the       *)
(* scanner's buffer, so its Get is never sent.                             *)
(***************************************************************************)
EXTENDS Client

MCScript ==
  [c \in Clients |->
     CASE c = "c1" -> <<[op |-> "put", key |-> 1, value |-> "v1"],
                        [op |-> "put", key |-> 1, value |-> "v2"],
                        [op |-> "get", key |-> 1]>>
       [] c = "c2" -> <<[op |-> "bad"],
                        [op |-> "swap", key |-> 2, value |-> "v1"],
                        [op |-> "swap", key |-> 2, value |-> "v2"],
                        [op |-> "delete", key |-> 2],
                        [op |-> "scan", start |-> 1, end |-> 2],
                        [op |-> "stop"]>>
       [] OTHER    -> <<[op |-> "long"], [op |-> "get", key |-> 2]>>]

\* The scripts reach every handler body and both of its replies: they send
\* each of put, get, swap, delete and scan, and some swap and some delete
\* come after an earlier mutation of their key, so they may find it.
OpsSent == UNION {{MCScript[c][i].op : i \in DOMAIN MCScript[c]} : c \in Clients}
FollowsMutation(o) ==
  \E c \in Clients : \E i, j \in DOMAIN MCScript[c] :
    /\ j < i /\ MCScript[c][i].op = o
    /\ KVS!IsMutation(MCScript[c][j]) /\ MCScript[c][j].key = MCScript[c][i].key
ASSUME /\ {"put", "get", "swap", "delete", "scan"} \subseteq OpsSent
       /\ FollowsMutation("swap") /\ FollowsMutation("delete")
=============================================================================
