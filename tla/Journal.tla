------------------------------- MODULE Journal -------------------------------
(***************************************************************************)
(* The metadata journaling service: journal.c, the file system that drives *)
(* it (filesystem.c) and the block service below it (block_service.c).     *)
(*                                                                         *)
(* The file system's main thread hands NUM_TESTS write requests to         *)
(* request_write.  Three threads move each request through three circular  *)
(* buffers: metaDataWrite writes the data and the journal's begin record,  *)
(* bitmap and inode; journalCommit issues the journal's end record (txe);  *)
(* journalCommitComplete checkpoints the bitmap and the inode and reports  *)
(* the write complete.  One semaphore, mutex, guards the buffers, and a    *)
(* pair of counting semaphores per buffer blocks consumers and producers.  *)
(*                                                                         *)
(* Every semaphore operation, buffer operation and block write is a step.  *)
(***************************************************************************)
EXTENDS Integers, Sequences

CONSTANTS NUM_TESTS,     \* requests the file system makes (10 in filesystem.c)
          BUFFER_SIZE    \* slots of each buffer, and initial HasSpace (8)

ASSUME NumTestsAssumption == NUM_TESTS \in Nat
ASSUME BufferSizeAssumption == BUFFER_SIZE \in Nat \ {0}

\* test_requests[i - 1] is request i; a null pointer is 0.
Request == 1 .. NUM_TESTS
NoRequest == 0

INSTANCE CircBuffer

Worker == {"metaDataWrite", "journalCommit", "journalCommitComplete"}
Thread == Worker \cup {"main"}

Buffer == {"requestBuffer", "metaDataBuffer", "commitCompletedBuffer"}

\* The buffer a worker takes requests from, and the one a thread puts them in.
In == [metaDataWrite         |-> "requestBuffer",
       journalCommit         |-> "metaDataBuffer",
       journalCommitComplete |-> "commitCompletedBuffer"]
Out == [main          |-> "requestBuffer",
        metaDataWrite |-> "metaDataBuffer",
        journalCommit |-> "commitCompletedBuffer"]

\* The block writes, in the order journal.c issues them for one request, with
\* the acceptance of the request before them and its completion after them.
Event == {"requested", "data", "txb", "jbitmap", "jinode", "txe",
          "bitmap", "inode", "complete"}

VARIABLES
  buf,        \* the three circ_buff_t
  mutex,      \* the semaphore mutex
  hasSpace,   \* per buffer, the semaphore ...HasSpaceMutex
  notEmpty,   \* per buffer, the semaphore ...NotEmptyMutex
  pc,         \* per thread, the statement it is about to execute
  wr,         \* per thread, its local wr (main: the request it hands over)
  done,       \* per event, the requests it has happened to, oldest first
  txeThread,  \* per request, the thread its issue_journal_txe created
  start       \* the block service's global start

vars == <<buf, mutex, hasSpace, notEmpty, pc, wr, done, txeThread, start>>

\* The statements of each thread.
WorkerLabel == {"waitItem", "lockIn", "dequeue", "unlockIn", "postSpace"}
ForwardLabel == {"check", "stuck", "waitSpace", "lockOut", "enqueue",
                 "unlockOut", "postItem"}
Label == [metaDataWrite |-> WorkerLabel \cup ForwardLabel
                              \cup {"data", "txb", "jbitmap", "jinode"},
          journalCommit |-> WorkerLabel \cup ForwardLabel \cup {"txe"},
          journalCommitComplete |-> WorkerLabel
                                      \cup {"bitmap", "inode", "complete"},
          main |-> {"waitSpace", "lockOut", "enqueue", "unlockOut", "postItem",
                    "sleep", "exited"}]

PcOK == /\ pc = [t \in Thread |-> pc[t]]
        /\ \A t \in Thread : pc[t] \in Label[t]

\* Types, including the range of every semaphore and index.
TypeOK ==
  /\ buf \in [Buffer -> circ_buff_t]
  /\ mutex \in 0 .. 1
  /\ hasSpace \in [Buffer -> 0 .. BUFFER_SIZE]
  /\ notEmpty \in [Buffer -> 0 .. BUFFER_SIZE]
  /\ PcOK
  /\ wr \in [Thread -> Request \cup {NoRequest}]
  /\ done \in [Event -> Seq(Request)]
  /\ txeThread \in [Request -> {"none", "created", "sleeping", "returned"}]
  /\ start \in {0, 1}

\* Mutant: the HasSpace semaphores count one slot too many, as they do when
\* BUFFER_SIZE is lowered and the constant 8 of init_journal is not.
InitOneSlotTooMany ==
  /\ buf = [b \in Buffer |-> EmptyBuffer]
  /\ mutex = 1
  /\ hasSpace = [b \in Buffer |-> BUFFER_SIZE + 1]
  /\ notEmpty = [b \in Buffer |-> 0]
  /\ pc = [t \in Thread |-> IF t # "main" THEN "waitItem" ELSE "waitSpace"]
  /\ wr = [t \in Thread |-> IF t = "main" THEN 1 ELSE NoRequest]
  /\ done = [e \in Event |-> <<>>]
  /\ txeThread = [r \in Request |-> "none"]
  /\ start = 1

\* init_journal, after which main enters its loop with the first request.
Init ==
  /\ buf = [b \in Buffer |-> EmptyBuffer]
  /\ mutex = 1
  /\ hasSpace = [b \in Buffer |-> BUFFER_SIZE]
  /\ notEmpty = [b \in Buffer |-> 0]
  /\ pc = [t \in Thread |-> IF t # "main" THEN "waitItem"
                            ELSE IF NUM_TESTS = 0 THEN "sleep"
                            ELSE "waitSpace"]
  /\ wr = [t \in Thread |-> IF t = "main" /\ NUM_TESTS > 0 THEN 1
                            ELSE NoRequest]
  /\ done = [e \in Event |-> <<>>]
  /\ txeThread = [r \in Request |-> "none"]
  /\ start = 1

-----------------------------------------------------------------------------
(***************************************************************************)
(* The statements the threads are made of.  A thread runs only until main  *)
(* returns, which ends the process.                                        *)
(***************************************************************************)
At(t, label) == pc[t] = label /\ pc["main"] # "exited"
Goto(t, label) == pc' = [pc EXCEPT ![t] = label]

\* sem_wait(&mutex) and sem_post(&mutex)
Lock(t, from, to) ==
  /\ At(t, from)
  /\ mutex > 0
  /\ mutex' = mutex - 1
  /\ Goto(t, to)
  /\ UNCHANGED <<buf, hasSpace, notEmpty, wr, done, txeThread, start>>

Unlock(t, from, to) ==
  /\ At(t, from)
  /\ mutex' = mutex + 1
  /\ Goto(t, to)
  /\ UNCHANGED <<buf, hasSpace, notEmpty, wr, done, txeThread, start>>

\* sem_wait on the NotEmpty semaphore of the buffer t consumes
WaitItem(t, to) ==
  /\ At(t, "waitItem")
  /\ notEmpty[In[t]] > 0
  /\ notEmpty' = [notEmpty EXCEPT ![In[t]] = @ - 1]
  /\ Goto(t, to)
  /\ UNCHANGED <<buf, mutex, hasSpace, wr, done, txeThread, start>>

\* Mutant: the consumer of a filled slot is not told.
PostItemForgotten(t, to) ==
  /\ At(t, "postItem")
  /\ Goto(t, to)
  /\ UNCHANGED <<buf, mutex, hasSpace, notEmpty, wr, done, txeThread, start>>

\* sem_post on the NotEmpty semaphore of the buffer t fills
PostItem(t, to) ==
  /\ At(t, "postItem")
  /\ notEmpty' = [notEmpty EXCEPT ![Out[t]] = @ + 1]
  /\ Goto(t, to)
  /\ UNCHANGED <<buf, mutex, hasSpace, wr, done, txeThread, start>>

\* sem_wait on the HasSpace semaphore of the buffer t fills
WaitSpace(t, from) ==
  /\ At(t, from)
  /\ hasSpace[Out[t]] > 0
  /\ hasSpace' = [hasSpace EXCEPT ![Out[t]] = @ - 1]
  /\ Goto(t, "lockOut")
  /\ UNCHANGED <<buf, mutex, notEmpty, wr, done, txeThread, start>>

\* Mutant: the freed slot is not given back.
PostSpaceForgotten(t, to) ==
  /\ At(t, "postSpace")
  /\ Goto(t, to)
  /\ UNCHANGED <<buf, mutex, hasSpace, notEmpty, wr, done, txeThread, start>>

\* sem_post on the HasSpace semaphore of the buffer t consumes
PostSpace(t, to) ==
  /\ At(t, "postSpace")
  /\ hasSpace' = [hasSpace EXCEPT ![In[t]] = @ + 1]
  /\ Goto(t, to)
  /\ UNCHANGED <<buf, mutex, notEmpty, wr, done, txeThread, start>>

\* wr = dequeue(&in)
Dequeue(t, to) ==
  /\ At(t, "dequeue")
  /\ wr' = [wr EXCEPT ![t] = Front(buf[In[t]])]
  /\ buf' = [buf EXCEPT ![In[t]] = dequeue(@)]
  /\ Goto(t, to)
  /\ UNCHANGED <<mutex, hasSpace, notEmpty, done, txeThread, start>>

\* enqueue(&out, wr)
Enqueue(t, to) ==
  /\ At(t, "enqueue")
  /\ buf' = [buf EXCEPT ![Out[t]] = enqueue(@, wr[t])]
  /\ Goto(t, to)
  /\ UNCHANGED <<mutex, hasSpace, notEmpty, wr, txeThread, start>>

\* The unlocked test of the next buffer's size, whose only effect is the
\* message "*Thread stuck because ... buffer is full*" (label stuck).
CheckFull(t) ==
  /\ At(t, "check")
  /\ Goto(t, IF buf[Out[t]].size >= BUFFER_SIZE - 1 THEN "stuck"
                                                    ELSE "waitSpace")
  /\ UNCHANGED <<buf, mutex, hasSpace, notEmpty, wr, done, txeThread, start>>

\* A block write whose completion callback the block service calls before the
\* write returns (every one but txe), or the call of write_complete.
Write(t, event, to) ==
  /\ At(t, event)
  /\ done' = [done EXCEPT ![event] = Append(@, wr[t])]
  /\ Goto(t, to)
  /\ UNCHANGED <<buf, mutex, hasSpace, notEmpty, wr, txeThread, start>>

\* issue_journal_txe: a new thread will report the txe block complete.
issue_journal_txe(t, to) ==
  /\ At(t, "txe")
  /\ done' = [done EXCEPT !["txe"] = Append(@, wr[t])]
  /\ txeThread' = [txeThread EXCEPT ![wr[t]] = "created"]
  /\ Goto(t, to)
  /\ UNCHANGED <<buf, mutex, hasSpace, notEmpty, wr, start>>

-----------------------------------------------------------------------------
(***************************************************************************)
(* The threads.                                                            *)
(***************************************************************************)
metaDataWrite ==
  LET t == "metaDataWrite" IN
  \/ WaitItem(t, "lockIn")
  \/ Lock(t, "lockIn", "dequeue")
  \/ Dequeue(t, "data")
  \/ Write(t, "data", "txb")
  \/ Write(t, "txb", "jbitmap")
  \/ Write(t, "jbitmap", "jinode")
  \/ Write(t, "jinode", "unlockIn")
  \/ Unlock(t, "unlockIn", "postSpace")
  \/ PostSpace(t, "check")
  \/ CheckFull(t)
  \/ WaitSpace(t, "stuck")
  \/ WaitSpace(t, "waitSpace")
  \/ Lock(t, "lockOut", "enqueue")
  \/ Enqueue(t, "postItem") /\ UNCHANGED done
  \/ PostItem(t, "unlockOut")
  \/ Unlock(t, "unlockOut", "waitItem")

journalCommit ==
  LET t == "journalCommit" IN
  \/ WaitItem(t, "lockIn")
  \/ Lock(t, "lockIn", "dequeue")
  \/ Dequeue(t, "txe")
  \/ issue_journal_txe(t, "unlockIn")
  \/ Unlock(t, "unlockIn", "postSpace")
  \/ PostSpace(t, "check")
  \/ CheckFull(t)
  \/ WaitSpace(t, "stuck")
  \/ WaitSpace(t, "waitSpace")
  \/ Lock(t, "lockOut", "enqueue")
  \/ Enqueue(t, "unlockOut") /\ UNCHANGED done
  \/ Unlock(t, "unlockOut", "postItem")
  \/ PostItem(t, "waitItem")

\* Mutant: completion is reported before the checkpoint is written.
journalCommitCompleteEarly ==
  LET t == "journalCommitComplete" IN
  \/ WaitItem(t, "lockIn")
  \/ Lock(t, "lockIn", "dequeue")
  \/ Dequeue(t, "complete")
  \/ Write(t, "complete", "bitmap")
  \/ Write(t, "bitmap", "inode")
  \/ Write(t, "inode", "unlockIn")
  \/ Unlock(t, "unlockIn", "postSpace")
  \/ PostSpace(t, "waitItem")

journalCommitComplete ==
  LET t == "journalCommitComplete" IN
  \/ WaitItem(t, "lockIn")
  \/ Lock(t, "lockIn", "dequeue")
  \/ Dequeue(t, "bitmap")
  \/ Write(t, "bitmap", "inode")
  \/ Write(t, "inode", "unlockIn")
  \/ Unlock(t, "unlockIn", "postSpace")
  \/ PostSpace(t, "complete")
  \/ Write(t, "complete", "waitItem")

request_write ==
  LET t == "main" IN
  \/ WaitSpace(t, "waitSpace")
  \/ Lock(t, "lockOut", "enqueue")
  \/ /\ Enqueue(t, "unlockOut")
     /\ done' = [done EXCEPT !["requested"] = Append(@, wr[t])]
  \/ Unlock(t, "unlockOut", "postItem")

\* The end of request_write and of main's loop body: the next request, if any.
NextTest ==
  /\ At("main", "postItem")
  /\ notEmpty' = [notEmpty EXCEPT !["requestBuffer"] = @ + 1]
  /\ \/ /\ wr["main"] < NUM_TESTS
        /\ wr' = [wr EXCEPT !["main"] = @ + 1]
        /\ Goto("main", "waitSpace")
     \/ /\ wr["main"] = NUM_TESTS
        /\ Goto("main", "sleep")
        /\ UNCHANGED wr
  /\ UNCHANGED <<buf, mutex, hasSpace, done, txeThread, start>>

\* sleep(5); return 0.  Nothing in the code relates the five seconds to the
\* progress of the other threads, so main may return at any time.
Return ==
  /\ At("main", "sleep")
  /\ Goto("main", "exited")
  /\ UNCHANGED <<buf, mutex, hasSpace, notEmpty, wr, done, txeThread, start>>

main == request_write \/ NextTest \/ Return

\* The thread issue_journal_txe creates for request r: it sleeps a second
\* unless some such thread has already slept, then calls the (empty)
\* journal_txe_complete and returns.
threadSleep(r) ==
  /\ pc["main"] # "exited"
  /\ \/ /\ txeThread[r] = "created" /\ start = 1
        /\ txeThread' = [txeThread EXCEPT ![r] = "sleeping"]
        /\ UNCHANGED start
     \/ /\ \/ txeThread[r] = "created" /\ start = 0 /\ UNCHANGED start
           \/ txeThread[r] = "sleeping" /\ start' = 0
        /\ txeThread' = [txeThread EXCEPT ![r] = "returned"]
  /\ UNCHANGED <<buf, mutex, hasSpace, notEmpty, pc, wr, done>>

\* The process is gone.
Terminated == pc["main"] = "exited" /\ UNCHANGED vars

Next == \/ main
        \/ metaDataWrite
        \/ journalCommit
        \/ journalCommitComplete
        \/ \E r \in Request : threadSleep(r)
        \/ Terminated

(***************************************************************************)
(* Every thread keeps running while it can, which is what a preemptive     *)
(* scheduler gives it.  main's final return is not made fair.              *)
(***************************************************************************)
Fairness == /\ WF_vars(request_write \/ NextTest)
            /\ WF_vars(metaDataWrite)
            /\ WF_vars(journalCommit)
            /\ WF_vars(journalCommitComplete)
            /\ \A r \in Request : WF_vars(threadSleep(r))

Spec == Init /\ [][Next]_vars
FairSpec == Spec /\ Fairness

-----------------------------------------------------------------------------
(***************************************************************************)
(* Properties.                                                             *)
(***************************************************************************)

\* The statements executed between sem_wait(&mutex) and sem_post(&mutex).
InCritical(t) ==
  \/ pc[t] \in {"dequeue", "data", "txb", "jbitmap", "jinode", "txe", "bitmap",
                "inode", "unlockIn", "enqueue", "unlockOut"}
  \/ t = "metaDataWrite" /\ pc[t] = "postItem"

\* At most one thread is inside a critical section of journal.c, although
\* mutex is a counting semaphore that anyone may post.
MutualExclusion ==
  \A s, t \in Thread : InCritical(s) /\ InCritical(t) => s = t

\* enqueue and dequeue test neither for a full nor for an empty buffer, yet no
\* buffer is ever overrun or underrun: head is always size places after tail.
BufferBounds == \A b \in Buffer : WellFormed(buf[b])

\* The producer and the consumer of each buffer.
Producer == [requestBuffer         |-> "main",
             metaDataBuffer        |-> "metaDataWrite",
             commitCompletedBuffer |-> "journalCommit"]
Consumer == [requestBuffer         |-> "metaDataWrite",
             metaDataBuffer        |-> "journalCommit",
             commitCompletedBuffer |-> "journalCommitComplete"]

One(cond) == IF cond THEN 1 ELSE 0

\* t has waited for a slot and not filled it yet.
Reserved(t) == pc[t] \in {"lockOut", "enqueue"}

\* t has filled a slot and not posted NotEmpty yet.
Announcing(t) == \/ pc[t] = "postItem"
                 \/ pc[t] = "unlockOut" /\ t # "metaDataWrite"

\* t has waited for an item and not taken it yet.
Claimed(t) == pc[t] \in {"lockIn", "dequeue"}

\* t has taken an item and not posted HasSpace yet.
Releasing(t) == pc[t] \in {"data", "txb", "jbitmap", "jinode", "txe", "bitmap",
                           "inode", "unlockIn", "postSpace"}

\* The semaphores of a buffer count exactly what its size says, once the
\* threads between a wait and the matching buffer operation, and between a
\* buffer operation and the matching post, are taken into account.
SemaphoreAccounting ==
  \A b \in Buffer :
    /\ hasSpace[b] + buf[b].size + One(Reserved(Producer[b]))
         + One(Releasing(Consumer[b])) = BUFFER_SIZE
    /\ notEmpty[b] + One(Announcing(Producer[b]))
         + One(Claimed(Consumer[b])) = buf[b].size

\* Every block write, and every completion report, happens to the requests in
\* the order the file system made them, none lost and none duplicated.
InOrder == \A e \in Event : \A i \in 1 .. Len(done[e]) : done[e][i] = i

\* For every request, each write is issued only after the one before it: data
\* and journal metadata, then txe, then the checkpoint, then write_complete.
WriteOrder ==
  LET before(e, f) == Len(done[f]) <= Len(done[e]) IN
  /\ before("requested", "data") /\ before("data", "txb")
  /\ before("txb", "jbitmap")    /\ before("jbitmap", "jinode")
  /\ before("jinode", "txe")     /\ before("txe", "bitmap")
  /\ before("bitmap", "inode")   /\ before("inode", "complete")

\* Every request the file system makes is reported complete, unless main
\* returns first: no thread waits for ever on a semaphore nobody posts.
AllComplete ==
  \A r \in Request : <>(Len(done["complete"]) >= r \/ pc["main"] = "exited")

\* Crash consistency needs a request's bitmap checkpointed only once its txe
\* block has reached the disk, that is once journal_txe_complete was called.
CheckpointAfterCommit ==
  \A i \in 1 .. Len(done["bitmap"]) : txeThread[done["bitmap"][i]] = "returned"

-----------------------------------------------------------------------------
(***************************************************************************)
(* The threads, buffers and semaphores implement the abstract service.     *)
(***************************************************************************)
Service == INSTANCE JournalService WITH
             requested    <- Len(done["requested"]),
             journaled    <- Len(done["jinode"]),
             committed    <- Len(done["txe"]),
             checkpointed <- Len(done["inode"]),
             completed    <- Len(done["complete"]),
             stopped      <- pc["main"] = "exited"

\* Every step of journal.c is a step of the abstract service or invisible to
\* it: the stages advance one request at a time, never overtaking each other,
\* and the semaphores bound how many requests each stage can be ahead.
ImplementsService == Service!SSpec

=============================================================================
