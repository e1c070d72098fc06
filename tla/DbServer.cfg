\* Two clients racing on two keys, two values, a scan [1,1] that must stop at
\* key 2, up to three committed rows, insert errors at any append and one
\* crash anywhere in a behaviour.
CONSTANTS
  Clients = {c1, c2}
  Keys = {1, 2}
  Values = {v1, v2}
  ScanBounds = {1}
  Absent = Absent
  NoReq = NoReq
  NoReply = NoReply
  ErrReply = ErrReply
  Nobody = Nobody
  MaxLog = 3
  MaxCrashes = 1
  ExecErrors = {"rolled_back"}

SPECIFICATION Spec

INVARIANT TypeOK
INVARIANT LogMatchesIndex
PROPERTY KVSpec
