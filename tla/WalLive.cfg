\* The WAL server without crashes: two clients, every write and fsync
\* error kind, one of them, up to two frames in the file.
\* v2 is the longest value a put accepts; a swap of it is rejected.
CONSTANTS
  Clients = {c1, c2}
  Keys = {1, 2}
  Values = {v1, v2}
  ScanBounds = {1}
  Absent = Absent
  NoReq = NoReq
  NoReply = NoReply
  ErrReply = ErrReply
  Nobody = Nobody
  CrashKinds = {}
  FaultKinds = {"header", "payload", "sync", "sync_drop"}
  MaxLog = 2
  MaxCrashes = 0
  MaxFaults = 1
  MaxWALFrameSize = 1024
  LongValues = {v2}
  LongValueLen = 991
  FreshFile = TRUE

SPECIFICATION Spec

INVARIANT TypeOK
PROPERTY KVSpec
PROPERTY EveryCallReturns
