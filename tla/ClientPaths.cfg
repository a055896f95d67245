CONSTANTS
  Paths = {p1, p2}
  Packets = {a, b}
  PendingCap = 1
  MaxSocks = 3
SPECIFICATION LiveSpec
INVARIANTS SocketsAccounted ReaderStays StagedOnce OnlyLateStuck
PROPERTY CloseReturns
CHECK_DEADLOCK FALSE
