\* Write and fsync errors, process kills and power losses in any order:
\* two clients, up to two frames, two crashes and one error.  v2 encodes so
\* that a put of it is exactly maxWALFrameSize bytes and a swap one more.
\* The file existed before this run, so its name is durable (WalNewFile
\* covers a file newKVServer has just created).
CONSTANTS
  Clients = {c1, c2}
  Keys = {1, 2}
  Values = {v1, v2}
  ScanBounds = {1}
  Absent = Absent
  NoReq = NoReq
  NoReply = NoReply
  ErrReply = ErrReply
  Nobody = Nobody
  CrashKinds = {"process", "power"}
  FaultKinds = {"header", "payload", "sync"}
  MaxLog = 2
  MaxCrashes = 2
  MaxFaults = 1
  MaxWALFrameSize = 1024
  LongValues = {v2}
  LongValueLen = 991
  FreshFile = FALSE

SPECIFICATION Spec

INVARIANT AckedDurable
INVARIANT AbortOnlyOnTornBytes

\* A startup that fails on a corrupt file fails again on every retry: the
\* server really stops there.
CHECK_DEADLOCK FALSE
