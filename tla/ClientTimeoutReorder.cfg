\* One deadline: c1's first Put times out and its handler runs after the
\* second Put was acknowledged.
CONSTANTS
  Clients = {"c1", "c2", "c3"}
  Keys = {1, 2}
  Values = {"v1", "v2"}
  ScanBounds = {1, 2}
  Absent = Absent
  NoReq = NoReq
  NoReply = NoReply
  ErrReply = ErrReply
  Nobody = Nobody
  Script <- MCScript
  MaxTimeouts = 1

SPECIFICATION Spec

INVARIANT ReadYourWrites

\* Both sessions end and every handler finishes: nothing is left to do.
CHECK_DEADLOCK FALSE
