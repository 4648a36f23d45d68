SPECIFICATION FairSpec
CONSTANTS
  NCPU = 2
  NPROC = 3
  LOG_SIZE = 2
INVARIANTS
  OneHart
  SchedChecks
  NoLostWakeup
  SleepLockMutex
PROPERTIES
  
  NoStarvation
