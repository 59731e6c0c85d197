SPECIFICATION Spec
CONSTANTS
  c1 = c1
  c2 = c2
  NoConn = NoConn
  Conns = {c1, c2}
  Abortive = {}
  MaxFd = 2
  MaxSend = 2
  Terse = {}
  Backlog = 2
  SndRoom = 1
  BufferLength = 3
  MaxEvents = 3
  ResponseLength = 2
  Faults = {}
  Slow = {}
INVARIANT
  ResponseComplete
CHECK_DEADLOCK FALSE
