SPECIFICATION Spec
CONSTANTS
  Proc = {p1, p2, p3}
  Buf = {c1, c2}
  Block = {k1, k2, k3}
  None = None
  Sizes = {4, 8}
  WRAP = 16
SYMMETRY Sym
VIEW View
INVARIANTS OneBufferPerBlock BufferCoherent ChainsIntact NoMissedWakeup
