\* Power loss only, no I/O errors: a frame torn by the power loss, then
\* the next append after restart.
CONSTANTS
  Clients = {c1, c2}
  Keys = {1, 2}
  Values = {v1, v2}
  ScanBounds = {1}
  Absent = Absent
  NoReq = NoReq
  NoReply = NoReply
  ErrReply = ErrReply
  Nobody = Nobody
  CrashKinds = {"power"}
  FaultKinds = {}
  MaxLog = 2
  MaxCrashes = 1
  MaxFaults = 0
  MaxWALFrameSize = 1024
  LongValues = {}
  LongValueLen = 1
  FreshFile = FALSE

SPECIFICATION Spec

INVARIANT LogMatchesIndex

\* A power loss can leave a frame with its length and no payload, on which
\* startup fails for good (see WalTornHeader): the server really stops there.
CHECK_DEADLOCK FALSE
