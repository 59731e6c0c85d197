SPECIFICATION FairSpec
CONSTANTS
  c1 = c1
  c2 = c2
  c3 = c3
  NoConn = NoConn
  Conns = {c1, c2, c3}
  Abortive = {}
  MaxFd = 2
  MaxSend = 2
  Terse = {c1, c2}
  Backlog = 1
  SndRoom = 1
  BufferLength = 2
  MaxEvents = 3
  ResponseLength = 1
  Faults = {}
  Slow = {c3}
PROPERTIES
  Served
  AllServed
CHECK_DEADLOCK FALSE
