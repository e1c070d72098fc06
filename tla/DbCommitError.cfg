\* An INSERT whose WAL fsync fails after the commit frame is written: one
\* client, no crash needed.
CONSTANTS
  Clients = {c1}
  Keys = {1, 2}
  Values = {v1, v2}
  ScanBounds = {1}
  Absent = Absent
  NoReq = NoReq
  NoReply = NoReply
  ErrReply = ErrReply
  Nobody = Nobody
  MaxLog = 2
  MaxCrashes = 1
  ExecErrors = {"committed"}

SPECIFICATION Spec

INVARIANT LogMatchesIndex
