SPECIFICATION Spec
CONSTANTS
  NINODES = 16 NBLOCK = 24 NINODE = 6 NDIRECT = 4 BSIZE = 4 DIRSIZ = 14 MAXOPBLOCKS = 10
  NFILE = 6 NOFILE = 6 NDEV = 2 CONSOLE = 1 MaxRead = 1 Fds = {0} MaxCalls = 5
  Tests <- Suite
  Proc <- MCProc Callers <- MCCallers Image <- MCImage FullImage <- MCFullImage
  Paths <- MCPaths Olds <- MCOlds Modes <- MCModes Sources <- MCSources Majors <- MCMajors
INVARIANTS Consistent RefCounts OpFits AsExpected
