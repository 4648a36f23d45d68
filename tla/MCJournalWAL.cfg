SPECIFICATION Spec
CONSTANTS
  NUM_TESTS = 3
  BUFFER_SIZE = 2
INVARIANT
  CheckpointAfterCommit
