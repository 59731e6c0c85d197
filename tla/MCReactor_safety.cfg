SPECIFICATION Spec
CONSTANTS
  c1 = c1
  c2 = c2
  NoConn = NoConn
  Conns = {c1, c2}
  Abortive = {c1, c2}
  MaxFd = 2
  MaxSend = 4
  Terse = {c2}
  Backlog = 2
  SndRoom = 1
  BufferLength = 3
  MaxEvents = 3
  ResponseLength = 1
  Faults = {"nofile", "index"}
  Slow = {}
INVARIANTS
  TypeOK
  Registered
  EventsFresh
  RepliesFollowRequests
  BufferHoldsOwnBytes
  KilledByBrokenPeer
  NeverBlocks
PROPERTIES
  CloseOnlyAtEndOrFull
  TakesTurns
CHECK_DEADLOCK FALSE
