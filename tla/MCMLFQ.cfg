SPECIFICATION FairSpec
CONSTANTS
  NPROC = 3
  Q0_QUANTA = 1
  Q1_QUANTA = 0
  Q2_QUANTA = 0
  BOOST = 1
  NiceIncs <- NoNice
  AbnormalExits = TRUE
  InterruptsInDequeue = FALSE
INVARIANTS
  QueuesAreLists
  RunnableQueued
  NoMissedExit
PROPERTIES
  ImplementsQueues
  EveryoneRuns
