SPECIFICATION SelectFairSpec
CONSTANTS
  c1 = c1
  c2 = c2
  c3 = c3
  NoConn = NoConn
  Conns = {c1, c2, c3}
  Abortive = {c1}
  Slow = {c3}
  MaxFd = 2
  MaxSend = 2
  Terse = {c1, c2}
  Backlog = 1
  SndRoom = 1
  BufferLength = 1
  StrayFd = 1
  SelectFaults = {"abort"}
INVARIANTS
  WatchedExact
  NeverWaits
  MxfdCoversOpen
PROPERTIES
  ServedUnlessStuck
CHECK_DEADLOCK FALSE
