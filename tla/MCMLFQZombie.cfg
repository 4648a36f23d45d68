SPECIFICATION Spec
CONSTANTS
  NPROC = 2
  Q0_QUANTA = 1
  Q1_QUANTA = 1
  Q2_QUANTA = 1
  BOOST = 3
  NiceIncs <- NiceUp
  AbnormalExits = FALSE
  InterruptsInDequeue = FALSE
INVARIANT NeverToReturn
