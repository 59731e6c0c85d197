SPECIFICATION Spec
CONSTANTS
  c1 = c1
  c2 = c2
  c3 = c3
  NoConn = NoConn
  Conns = {c1, c2, c3}
  Abortive = {}
  Slow = {}
  MaxFd = 2
  MaxSend = 1
  Terse = {}
  Backlog = 1
  SndRoom = 1
  BufferLength = 1
  SqEntries = 4
  CqBatch = 2
  Faults = {"lost", "stack"}
SYMMETRY ConnSymmetry
INVARIANTS
  TypeOK
  AcceptArmed
  CompletionsFresh
  RingsNeverFull
  NoStrandedSubmission
CHECK_DEADLOCK FALSE
