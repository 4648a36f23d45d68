SPECIFICATION Spec
CONSTANTS
  NPAGE = 62
  PGSIZE = 8
  WORD = 16384
  NPROC = 6
  MAXARG = 4
  MAXPATH = 4
  PIPESIZE = 2
  MaxCalls = 3
  Tests <- Suite
  Images <- MCImages
  Grow <- MCGrow
  Addrs <- MCAddrs
  Execs <- MCExecs
INVARIANTS KernelSound AsExpected
PROPERTY AllReaped
