SPECIFICATION FairSpec
CONSTANTS
  c1 = c1
  c2 = c2
  NoConn = NoConn
  Conns = {c1, c2}
  Abortive = {}
  Slow = {c2}
  MaxFd = 3
  MaxSend = 2
  Terse = {}
  Backlog = 1
  SndRoom = 1
  BufferLength = 2
  ResponseLength = 1
  SqEntries = 4
  CqBatch = 2
INVARIANTS
  TypeOK
  NeverOwnRequest
  AlwaysArmed
  OneChainPerDescriptor
PROPERTIES
  TakesTurns
  AnsweredAndReleased
CHECK_DEADLOCK FALSE
