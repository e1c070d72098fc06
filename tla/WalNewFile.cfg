\* A server started on a log file that newKVServer has just created, no
\* I/O errors, one power loss.
CONSTANTS
  Clients = {c1}
  Keys = {1, 2}
  Values = {v1, v2}
  ScanBounds = {1}
  Absent = Absent
  NoReq = NoReq
  NoReply = NoReply
  ErrReply = ErrReply
  Nobody = Nobody
  CrashKinds = {"power"}
  FaultKinds = {}
  MaxLog = 2
  MaxCrashes = 1
  MaxFaults = 0
  MaxWALFrameSize = 1024
  LongValues = {}
  LongValueLen = 1
  FreshFile = TRUE

SPECIFICATION Spec

INVARIANT AckedDurable

\* A power loss can leave a frame with its length and no payload, on which
\* startup fails for good (see WalTornHeader): the server really stops there.
CHECK_DEADLOCK FALSE
