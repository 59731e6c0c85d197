SPECIFICATION PollSpec
CONSTANTS
  c1 = c1
  c2 = c2
  NoConn = NoConn
  Conns = {c1, c2}
  Abortive = {}
  Slow = {}
  MaxFd = 2
  MaxSend = 1
  Terse = {}
  Backlog = 2
  SndRoom = 1
  BufferLength = 2
  PollFaults = {"garbage"}
INVARIANT
  NeverWaits
CHECK_DEADLOCK FALSE
