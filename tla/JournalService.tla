--------------------------- MODULE JournalService ---------------------------
(***************************************************************************)
(* What the journaling service promises the file system, without threads,  *)
(* buffers or semaphores.  Requests 1, 2, 3, ... pass through the stages   *)
(* requested, journaled (data and journal metadata written), committed     *)
(* (txe issued), checkpointed and completed in the order they were made.   *)
(* A stage is the number of requests that have reached it.  The service    *)
(* accepts and holds a bounded number of requests: with buffers of         *)
(* BUFFER_SIZE, at most 3 * BUFFER_SIZE + 3 are ever in flight, the last   *)
(* three being in the hands of the three threads.                          *)
(***************************************************************************)
EXTENDS Integers

CONSTANTS NUM_TESTS, BUFFER_SIZE

VARIABLES requested, journaled, committed, checkpointed, completed, stopped

svars == <<requested, journaled, committed, checkpointed, completed, stopped>>

SInit == /\ requested = 0 /\ journaled = 0 /\ committed = 0
         /\ checkpointed = 0 /\ completed = 0
         /\ stopped = FALSE

RequestWrite ==
  /\ ~stopped
  /\ requested < NUM_TESTS
  /\ requested < journaled + BUFFER_SIZE
  /\ requested' = requested + 1
  /\ UNCHANGED <<journaled, committed, checkpointed, completed, stopped>>

Journal ==
  /\ ~stopped
  /\ journaled < requested
  /\ journaled < committed + BUFFER_SIZE + 1
  /\ journaled' = journaled + 1
  /\ UNCHANGED <<requested, committed, checkpointed, completed, stopped>>

Commit ==
  /\ ~stopped
  /\ committed < journaled
  /\ committed < checkpointed + BUFFER_SIZE + 1
  /\ committed' = committed + 1
  /\ UNCHANGED <<requested, journaled, checkpointed, completed, stopped>>

Checkpoint ==
  /\ ~stopped
  /\ checkpointed < committed
  /\ checkpointed < completed + 1
  /\ checkpointed' = checkpointed + 1
  /\ UNCHANGED <<requested, journaled, committed, completed, stopped>>

Complete ==
  /\ ~stopped
  /\ completed < checkpointed
  /\ completed' = completed + 1
  /\ UNCHANGED <<requested, journaled, committed, checkpointed, stopped>>

\* The file system's process ends, whatever is still in flight.
Stop ==
  /\ ~stopped
  /\ requested = NUM_TESTS
  /\ stopped' = TRUE
  /\ UNCHANGED <<requested, journaled, committed, checkpointed, completed>>

SNext == \/ RequestWrite \/ Journal \/ Commit \/ Checkpoint \/ Complete
         \/ Stop

SSpec == SInit /\ [][SNext]_svars
=============================================================================
