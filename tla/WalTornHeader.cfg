\* Process kills only, no I/O errors: a kill between the two writeFull
\* calls of appendWAL.
CONSTANTS
  Clients = {c1, c2}
  Keys = {1, 2}
  Values = {v1, v2}
  ScanBounds = {1}
  Absent = Absent
  NoReq = NoReq
  NoReply = NoReply
  ErrReply = ErrReply
  Nobody = Nobody
  CrashKinds = {"process"}
  FaultKinds = {}
  MaxLog = 2
  MaxCrashes = 1
  MaxFaults = 0
  MaxWALFrameSize = 1024
  LongValues = {}
  LongValueLen = 1
  FreshFile = FALSE

SPECIFICATION Spec

INVARIANT RecoveryNeverAborts
