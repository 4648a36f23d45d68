SPECIFICATION Spec
CONSTANTS
  Proc = {p1, p2, p3}
  Home = {b1, b2, b3}
  Val = {v1, v2}
  None = None
  MAXOPBLOCKS = 2
  LOGSIZE = 4
  nlog = 4
SYMMETRY Sym
INVARIANTS SleepersHaveWaker Reservation PinsMatchLog
PROPERTY ImplementsAtomicDisk
