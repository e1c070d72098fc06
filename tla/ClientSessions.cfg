\* Two sessions, one RPC deadline that may expire on any call, late and
\* dropped requests: every handler and every session still finishes.
CONSTANTS
  Clients = {"c1", "c2", "c3"}
  Keys = {1, 2}
  Values = {"v1", "v2"}
  ScanBounds = {1, 2}
  Absent = Absent
  NoReq = NoReq
  NoReply = NoReply
  ErrReply = ErrReply
  Nobody = Nobody
  Script <- MCScript
  MaxTimeouts = 1

SPECIFICATION Spec

PROPERTY HandlersFinish
PROPERTY SessionsEnd
PROPERTY HandlersAtomic

\* Both sessions end and every handler finishes: nothing is left to do.
CHECK_DEADLOCK FALSE
