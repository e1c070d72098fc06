\* No crashes; one failed writeFull or fsync in appendWAL.
CONSTANTS
  Clients = {c1, c2}
  Keys = {1, 2}
  Values = {v1, v2}
  ScanBounds = {1}
  Absent = Absent
  NoReq = NoReq
  NoReply = NoReply
  ErrReply = ErrReply
  Nobody = Nobody
  CrashKinds = {}
  FaultKinds = {"header", "payload", "sync"}
  MaxLog = 2
  MaxCrashes = 0
  MaxFaults = 1
  MaxWALFrameSize = 1024
  LongValues = {}
  LongValueLen = 1
  FreshFile = FALSE

SPECIFICATION Spec

INVARIANT LogMatchesIndex
