\* One client, one fsync error that drops the unsynced pages (the Linux
\* behaviour since 4.13 for ext4 and xfs), then a power loss.
CONSTANTS
  Clients = {c1}
  Keys = {1, 2}
  Values = {v1, v2}
  ScanBounds = {1}
  Absent = Absent
  NoReq = NoReq
  NoReply = NoReply
  ErrReply = ErrReply
  Nobody = Nobody
  CrashKinds = {"power"}
  FaultKinds = {"sync_drop"}
  MaxLog = 2
  MaxCrashes = 1
  MaxFaults = 1
  MaxWALFrameSize = 1024
  LongValues = {}
  LongValueLen = 1
  FreshFile = FALSE

SPECIFICATION Spec

INVARIANT AbortOnlyOnTornBytes

\* A startup that fails on the zeroed frame fails again on every retry.
CHECK_DEADLOCK FALSE
