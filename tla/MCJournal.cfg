SPECIFICATION FairSpec
CONSTANTS
  NUM_TESTS = 3
  BUFFER_SIZE = 2
INVARIANTS
  BufferBounds
  InOrder
  SemaphoreAccounting
PROPERTIES
  ImplementsService
  AllComplete
