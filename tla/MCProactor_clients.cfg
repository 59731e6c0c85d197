SPECIFICATION FairSpec
CONSTANTS
  c1 = c1
  c2 = c2
  NoConn = NoConn
  Conns = {c1, c2}
  Abortive = {c2}
  Slow = {c2}
  MaxFd = 3
  MaxSend = 2
  Terse = {}
  Backlog = 1
  SndRoom = 1
  BufferLength = 2
  SqEntries = 4
  CqBatch = 2
  Faults = {"lost", "stack"}
INVARIANTS
  OneChainPerDescriptor
  EchoOwnBytesInOrder
PROPERTIES
  CloseOnlyAtEnd
  TakesTurns
  Served
CHECK_DEADLOCK FALSE
