SPECIFICATION PollSpec
CONSTANTS
  c1 = c1
  c2 = c2
  c3 = c3
  NoConn = NoConn
  Conns = {c1, c2, c3}
  Abortive = {}
  Slow = {}
  MaxFd = 2
  MaxSend = 2
  Terse = {}
  Backlog = 1
  SndRoom = 1
  BufferLength = 2
  PollFaults = {"noise", "garbage", "overlap"}
SYMMETRY ConnSymmetry
INVARIANTS
  WaitsOnlyForNewest
  NothingLost
PROPERTIES
  CloseOnlyAtEnd
  TakesTurns
CHECK_DEADLOCK FALSE
