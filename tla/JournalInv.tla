----------------------------- MODULE JournalInv -----------------------------
(***************************************************************************)
(* The inductive invariant of the journaling service, for any number of    *)
(* requests and any buffer size, and the proof that every step preserves   *)
(* its parts on types, the mutex and the semaphores.                       *)
(***************************************************************************)
EXTENDS Journal, TLAPS

-----------------------------------------------------------------------------
(***************************************************************************)
(* The inductive invariant: the mutex, the semaphores, and where every     *)
(* request is.                                                             *)
(***************************************************************************)
MutexInv == /\ \A t \in Thread : InCritical(t) => mutex = 0
            /\ MutualExclusion

\* How often an event has happened.
N(e) == Len(done[e])

\* t holds a request: it has taken it (main: chosen it) and not passed it on.
Holding(t) == pc[t] \in {"data", "txb", "jbitmap", "jinode", "txe", "bitmap",
                         "inode", "unlockIn", "postSpace", "complete", "check",
                         "stuck", "waitSpace", "lockOut", "enqueue"}

\* How many requests a worker has taken from its buffer.
Taken == [metaDataWrite         |-> N("data") + One(pc["metaDataWrite"] = "data"),
          journalCommit         |-> N("txe") + One(pc["journalCommit"] = "txe"),
          journalCommitComplete |-> N("bitmap")
                                     + One(pc["journalCommitComplete"] = "bitmap")]

\* How many requests a thread has put in the next buffer.
Given == [main          |-> N("requested"),
          metaDataWrite |-> Taken["metaDataWrite"] - One(Holding("metaDataWrite")),
          journalCommit |-> Taken["journalCommit"] - One(Holding("journalCommit"))]

\* The writes of one thread follow each other.
ChainInv ==
  /\ N("data") = N("txb") + One(pc["metaDataWrite"] = "txb")
  /\ N("txb") = N("jbitmap") + One(pc["metaDataWrite"] = "jbitmap")
  /\ N("jbitmap") = N("jinode") + One(pc["metaDataWrite"] = "jinode")
  /\ N("bitmap") = N("inode") + One(pc["journalCommitComplete"] = "inode")
  /\ N("inode") = N("complete") + One(pc["journalCommitComplete"]
                                        \in {"unlockIn", "postSpace", "complete"})

\* The request in a thread's hands is the last one it took.
HandInv ==
  /\ \A t \in Worker : Holding(t) => wr[t] = Taken[t]
  /\ Holding("main") => wr["main"] = N("requested") + 1
  /\ pc["main"] \in {"unlockOut", "postItem"} => wr["main"] = N("requested")

\* A buffer holds the requests given to it and not yet taken, oldest first.
QueueInv ==
  \A b \in Buffer :
    /\ WellFormed(buf[b])
    /\ Given[Producer[b]] = Taken[Consumer[b]] + buf[b].size
    /\ \A k \in 0 .. buf[b].size - 1 :
         buf[b].buffer[Slot(buf[b], k)] = Taken[Consumer[b]] + k + 1

IInv == /\ TypeOK
        /\ MutexInv
        /\ SemaphoreAccounting
        /\ ChainInv
        /\ HandInv
        /\ QueueInv
        /\ InOrder

-----------------------------------------------------------------------------
(***************************************************************************)
(* The steps of the threads by the kind of statement.                      *)
(***************************************************************************)
Forwarder == {"metaDataWrite", "journalCommit"}

FirstWrite == [metaDataWrite |-> "data", journalCommit |-> "txe",
               journalCommitComplete |-> "bitmap"]

LockStep(t) == \/ t \in Worker /\ Lock(t, "lockIn", "dequeue")
               \/ t \in Forwarder \cup {"main"} /\ Lock(t, "lockOut", "enqueue")

UnlockStep(t) ==
  \/ t \in Worker /\ Unlock(t, "unlockIn", "postSpace")
  \/ t = "metaDataWrite" /\ Unlock(t, "unlockOut", "waitItem")
  \/ t \in {"journalCommit", "main"} /\ Unlock(t, "unlockOut", "postItem")

WriteStep(t) ==
  \/ t = "metaDataWrite" /\ \/ Write(t, "data", "txb")
                            \/ Write(t, "txb", "jbitmap")
                            \/ Write(t, "jbitmap", "jinode")
                            \/ Write(t, "jinode", "unlockIn")
  \/ t = "journalCommitComplete" /\ \/ Write(t, "bitmap", "inode")
                                    \/ Write(t, "inode", "unlockIn")
                                    \/ Write(t, "complete", "waitItem")

PostSpaceStep(t) ==
  \/ t \in Forwarder /\ PostSpace(t, "check")
  \/ t = "journalCommitComplete" /\ PostSpace(t, "complete")

WaitSpaceStep(t) ==
  \/ t \in Forwarder /\ WaitSpace(t, "stuck")
  \/ t \in Forwarder \cup {"main"} /\ WaitSpace(t, "waitSpace")

EnqueueStep(t) ==
  \/ t = "metaDataWrite" /\ Enqueue(t, "postItem") /\ UNCHANGED done
  \/ t = "journalCommit" /\ Enqueue(t, "unlockOut") /\ UNCHANGED done
  \/ /\ t = "main"
     /\ Enqueue(t, "unlockOut")
     /\ done' = [done EXCEPT !["requested"] = Append(@, wr[t])]

PostItemStep(t) == \/ t = "metaDataWrite" /\ PostItem(t, "unlockOut")
                   \/ t = "journalCommit" /\ PostItem(t, "waitItem")

\* Every step of the service executes one statement of one thread.
LEMMA StepKinds ==
  Next => \/ \E t \in Worker : WaitItem(t, "lockIn")
          \/ \E t \in Thread : LockStep(t)
          \/ \E t \in Thread : UnlockStep(t)
          \/ \E t \in Worker : Dequeue(t, FirstWrite[t])
          \/ \E t \in Thread : WriteStep(t)
          \/ issue_journal_txe("journalCommit", "unlockIn")
          \/ \E t \in Thread : PostSpaceStep(t)
          \/ \E t \in Forwarder : CheckFull(t)
          \/ \E t \in Thread : WaitSpaceStep(t)
          \/ \E t \in Thread : EnqueueStep(t)
          \/ \E t \in Thread : PostItemStep(t)
          \/ NextTest
          \/ Return
          \/ \E r \in Request : threadSleep(r)
          \/ Terminated
<1> FirstWrite["metaDataWrite"] = "data" /\ FirstWrite["journalCommit"] = "txe"
      /\ FirstWrite["journalCommitComplete"] = "bitmap"
  BY DEF FirstWrite
<1>1. main => \/ \E t \in Thread : WaitSpaceStep(t)
              \/ \E t \in Thread : LockStep(t)
              \/ \E t \in Thread : EnqueueStep(t)
              \/ \E t \in Thread : UnlockStep(t)
              \/ NextTest
              \/ Return
  BY DEF main, request_write, Thread, WaitSpaceStep, LockStep, EnqueueStep,
         UnlockStep
<1>2. metaDataWrite => \/ \E t \in Worker : WaitItem(t, "lockIn")
                       \/ \E t \in Thread : LockStep(t)
                       \/ \E t \in Thread : UnlockStep(t)
                       \/ \E t \in Worker : Dequeue(t, FirstWrite[t])
                       \/ \E t \in Thread : WriteStep(t)
                       \/ \E t \in Thread : PostSpaceStep(t)
                       \/ \E t \in Forwarder : CheckFull(t)
                       \/ \E t \in Thread : WaitSpaceStep(t)
                       \/ \E t \in Thread : EnqueueStep(t)
                       \/ \E t \in Thread : PostItemStep(t)
  BY DEF metaDataWrite, Thread, Worker, Forwarder, WaitSpaceStep, LockStep,
         EnqueueStep, UnlockStep, WriteStep, PostSpaceStep, PostItemStep
<1>3. journalCommit => \/ \E t \in Worker : WaitItem(t, "lockIn")
                       \/ \E t \in Thread : LockStep(t)
                       \/ \E t \in Thread : UnlockStep(t)
                       \/ \E t \in Worker : Dequeue(t, FirstWrite[t])
                       \/ issue_journal_txe("journalCommit", "unlockIn")
                       \/ \E t \in Thread : PostSpaceStep(t)
                       \/ \E t \in Forwarder : CheckFull(t)
                       \/ \E t \in Thread : WaitSpaceStep(t)
                       \/ \E t \in Thread : EnqueueStep(t)
                       \/ \E t \in Thread : PostItemStep(t)
  BY DEF journalCommit, Thread, Worker, Forwarder, WaitSpaceStep, LockStep,
         EnqueueStep, UnlockStep, PostSpaceStep, PostItemStep
<1>4. journalCommitComplete => \/ \E t \in Worker : WaitItem(t, "lockIn")
                               \/ \E t \in Thread : LockStep(t)
                               \/ \E t \in Thread : UnlockStep(t)
                               \/ \E t \in Worker : Dequeue(t, FirstWrite[t])
                               \/ \E t \in Thread : WriteStep(t)
                               \/ \E t \in Thread : PostSpaceStep(t)
  BY DEF journalCommitComplete, Thread, Worker, LockStep, UnlockStep, WriteStep,
         PostSpaceStep
<1>5. QED
  BY <1>1, <1>2, <1>3, <1>4 DEF Next


-----------------------------------------------------------------------------
(***************************************************************************)
(* The circular buffer as a queue.                                         *)
(***************************************************************************)

\* The components of the buffer enqueue leaves.
LEMMA EnqueueFields ==
  ASSUME NEW c \in circ_buff_t, NEW r \in Request
  PROVE  /\ enqueue(c, r) \in circ_buff_t
         /\ enqueue(c, r).tail = c.tail
         /\ enqueue(c, r).head = NextIndex(c.head)
         /\ enqueue(c, r).size = c.size + 1
         /\ enqueue(c, r).buffer = [c.buffer EXCEPT ![c.head] = r]
<1>1. /\ c.buffer \in [Index -> Request \cup {NoRequest}]
      /\ c.head \in Index /\ c.tail \in Index /\ c.size \in Int
  BY DEF circ_buff_t
<1>2. NextIndex(c.head) \in Index
  BY <1>1, BufferSizeAssumption DEF NextIndex, Index
<1>3. QED
  BY <1>1, <1>2 DEF circ_buff_t, enqueue

\* The components of the buffer dequeue leaves.
LEMMA DequeueFields ==
  ASSUME NEW c \in circ_buff_t
  PROVE  /\ dequeue(c) \in circ_buff_t
         /\ dequeue(c).tail = NextIndex(c.tail)
         /\ dequeue(c).head = c.head
         /\ dequeue(c).size = c.size - 1
         /\ dequeue(c).buffer = c.buffer
<1>1. /\ c.buffer \in [Index -> Request \cup {NoRequest}]
      /\ c.head \in Index /\ c.tail \in Index /\ c.size \in Int
  BY DEF circ_buff_t
<1>2. NextIndex(c.tail) \in Index
  BY <1>1, BufferSizeAssumption DEF NextIndex, Index
<1>3. QED
  BY <1>1, <1>2 DEF circ_buff_t, dequeue

\* enqueue on a buffer that is not full appends to what the buffer holds.
LEMMA EnqueueAppends ==
  ASSUME NEW c \in circ_buff_t, NEW r \in Request,
         WellFormed(c), c.size < BUFFER_SIZE
  PROVE  /\ WellFormed(enqueue(c, r))
         /\ enqueue(c, r).buffer[Slot(enqueue(c, r), c.size)] = r
         /\ \A k \in 0 .. c.size - 1 :
              enqueue(c, r).buffer[Slot(enqueue(c, r), k)]
                = c.buffer[Slot(c, k)]
<1>1. c.tail \in Index /\ c.head \in Index /\ c.size \in 0 .. BUFFER_SIZE - 1
      /\ c.buffer \in [Index -> Request \cup {NoRequest}]
  BY BufferSizeAssumption DEF circ_buff_t, WellFormed
<1>2. c.head = Slot(c, c.size)
  BY <1>1, BufferSizeAssumption DEF WellFormed
<1>3. \A k : Slot(enqueue(c, r), k) = Slot(c, k)
  BY EnqueueFields, Zenon DEF Slot
<1>4. WellFormed(enqueue(c, r))
  <2>1. NextIndex(Slot(c, c.size)) = IF c.size + 1 = BUFFER_SIZE
                                       THEN c.tail ELSE Slot(c, c.size + 1)
    BY <1>1, BufferSizeAssumption, SMTT(30) DEF Slot, NextIndex, Index
  <2>2. c.size + 1 \in 0 .. BUFFER_SIZE
    BY <1>1, BufferSizeAssumption
  <2>3. QED
    BY <1>2, <1>3, <2>1, <2>2, EnqueueFields, Zenon DEF WellFormed
<1>5. ASSUME NEW k \in 0 .. c.size - 1
      PROVE  Slot(c, k) \in Index /\ Slot(c, k) # c.head
  <2>1. Slot(c, k) \in Index
    BY <1>1, BufferSizeAssumption, SMTT(30) DEF Slot, Index
  <2>2. Slot(c, k) # Slot(c, c.size)
    BY <1>1, BufferSizeAssumption, SMTT(30) DEF Slot, Index
  <2>3. QED
    BY <1>2, <2>1, <2>2
<1>6. QED
  <2>1. enqueue(c, r).buffer = [c.buffer EXCEPT ![c.head] = r]
    BY EnqueueFields
  <2>2. enqueue(c, r).buffer[c.head] = r
    BY <1>1, <2>1
  <2>3. \A k \in 0 .. c.size - 1 :
          enqueue(c, r).buffer[Slot(c, k)] = c.buffer[Slot(c, k)]
    BY <1>1, <1>5, <2>1
  <2>4. QED
    BY <1>2, <1>3, <1>4, <2>2, <2>3

\* dequeue on a buffer that is not empty removes the oldest request.
LEMMA DequeueRemoves ==
  ASSUME NEW c \in circ_buff_t, WellFormed(c), c.size > 0
  PROVE  /\ WellFormed(dequeue(c))
         /\ Front(c) = c.buffer[Slot(c, 0)]
         /\ \A k \in 0 .. c.size - 2 :
              dequeue(c).buffer[Slot(dequeue(c), k)]
                = c.buffer[Slot(c, k + 1)]
<1>1. c.tail \in Index /\ c.head \in Index /\ c.size \in 1 .. BUFFER_SIZE
  BY BufferSizeAssumption DEF circ_buff_t, WellFormed
<1>2. Front(c) = c.buffer[Slot(c, 0)]
  BY <1>1, BufferSizeAssumption DEF Front, Slot, Index
<1>3. WellFormed(dequeue(c))
  BY <1>1, DequeueFields, BufferSizeAssumption
     DEF WellFormed, Slot, NextIndex, Index
<1>4. \A k \in 0 .. c.size - 2 : Slot(dequeue(c), k) = Slot(c, k + 1)
  BY <1>1, DequeueFields, BufferSizeAssumption DEF Slot, NextIndex, Index
<1>5. QED
  BY <1>2, <1>3, <1>4, DequeueFields


-----------------------------------------------------------------------------
(***************************************************************************)
(* Consequences of the invariant in one state.                             *)
(***************************************************************************)

\* The fields of the three buffers.
LEMMA BufferFields ==
  ASSUME TypeOK, NEW b \in Buffer
  PROVE  /\ buf[b] \in circ_buff_t
         /\ buf[b].size \in Int
         /\ DOMAIN buf = Buffer
BY DEF TypeOK, circ_buff_t

\* No event has happened more often than there are requests, because the n-th
\* time it happened to request n.
LEMMA EventCounts ==
  ASSUME TypeOK, InOrder, NEW e \in Event
  PROVE  N(e) \in 0 .. NUM_TESTS
<1>1. done[e] \in Seq(Request) /\ Len(done[e]) \in Nat
  BY DEF TypeOK
<1>2. CASE Len(done[e]) = 0
  BY <1>2, NumTestsAssumption DEF N
<1>3. CASE Len(done[e]) > 0
  <2>1. Len(done[e]) \in 1 .. Len(done[e])
    BY <1>1, <1>3
  <2>2. done[e][Len(done[e])] \in Request
    BY <1>1, <2>1
  <2>3. done[e][Len(done[e])] = Len(done[e])
    BY <2>1 DEF InOrder
  <2>4. QED
    BY <1>1, <2>2, <2>3, NumTestsAssumption DEF N, Request
<1>4. QED
  BY <1>1, <1>2, <1>3

\* The same for the requests taken from a buffer and put into one.
LEMMA HandCounts ==
  ASSUME IInv
  PROVE  /\ \A t \in Worker : Taken[t] \in 0 .. NUM_TESTS
         /\ \A b \in Buffer : Given[Producer[b]] \in 0 .. NUM_TESTS
         /\ \A b \in Buffer : buf[b].size \in 0 .. BUFFER_SIZE
<1>1. \A e \in Event : N(e) \in 0 .. NUM_TESTS
  BY EventCounts DEF IInv
<1>2. \A b \in Buffer : buf[b].size \in 0 .. BUFFER_SIZE
  BY DEF IInv, QueueInv, WellFormed
<1>3. /\ Given["main"] = N("requested")
      /\ Given["metaDataWrite"] = Taken["metaDataWrite"]
                                    - One(Holding("metaDataWrite"))
      /\ Given["journalCommit"] = Taken["journalCommit"]
                                    - One(Holding("journalCommit"))
  BY DEF Given
<1>4. /\ Given["main"] = Taken["metaDataWrite"] + buf["requestBuffer"].size
      /\ Given["metaDataWrite"] = Taken["journalCommit"]
                                    + buf["metaDataBuffer"].size
      /\ Given["journalCommit"] = Taken["journalCommitComplete"]
                                    + buf["commitCompletedBuffer"].size
  BY DEF IInv, QueueInv, Buffer, Producer, Consumer
<1>5. /\ Taken["metaDataWrite"] \in Nat
      /\ Taken["journalCommit"] \in Nat
      /\ Taken["journalCommitComplete"] \in Nat
  BY <1>1 DEF Taken, One, Event
<1>6. \A c : One(c) \in {0, 1}
  BY DEF One
<1>7. QED
  BY <1>1, <1>2, <1>3, <1>4, <1>5, <1>6, NumTestsAssumption
     DEF Worker, Buffer, Producer, Event

\* What a thread holds, and what it is about to take, is a request.
LEMMA HandIsRequest ==
  ASSUME IInv
  PROVE  /\ \A t \in Thread : Holding(t) => wr[t] \in Request
         /\ \A t \in Worker : Claimed(t)
              => buf[In[t]].size > 0 /\ Front(buf[In[t]]) = Taken[t] + 1
                   /\ Front(buf[In[t]]) \in Request
<1>1. \A e \in Event : N(e) \in 0 .. NUM_TESTS
  BY EventCounts DEF IInv
<1>2. ASSUME NEW t \in Worker, Holding(t)
      PROVE  Taken[t] >= 1
  <2>1. CASE t \in {"metaDataWrite", "journalCommit"}
    BY <1>2, <2>1, HandCounts DEF Given, One, Buffer, Producer, Worker
  <2>2. CASE t = "journalCommitComplete"
    <3>1. pc[t] \in {"bitmap", "inode", "unlockIn", "postSpace", "complete"}
      BY <1>2, <2>2 DEF Holding, IInv, TypeOK, PcOK, Thread, Worker, Label, WorkerLabel
    <3>2. QED
      BY <1>1, <2>2, <3>1 DEF Taken, One, IInv, ChainInv, Event
  <2>3. QED
    BY <2>1, <2>2 DEF Worker
<1>3. ASSUME NEW t \in Thread, Holding(t)
      PROVE  wr[t] \in Request
  <2>1. CASE t \in Worker
    BY <1>2, <1>3, <2>1, HandCounts, NumTestsAssumption
       DEF IInv, HandInv, Request
  <2>2. CASE t = "main"
    <3>1. wr["main"] \in 0 .. NUM_TESTS
      BY NumTestsAssumption DEF IInv, TypeOK, Thread, Request, NoRequest
    <3>2. wr["main"] = N("requested") + 1 /\ N("requested") \in Nat
      BY <1>1, <1>3, <2>2 DEF IInv, HandInv, Event
    <3>3. QED
      BY <2>2, <3>1, <3>2, NumTestsAssumption DEF Request
  <2>3. QED
    BY <2>1, <2>2 DEF Thread
<1>4. ASSUME NEW t \in Worker, Claimed(t)
      PROVE  buf[In[t]].size > 0 /\ Front(buf[In[t]]) = Taken[t] + 1
               /\ Front(buf[In[t]]) \in Request
  <2>1. In[t] \in Buffer /\ Consumer[In[t]] = t
    BY DEF Worker, In, Buffer, Consumer
  <2>2. /\ notEmpty[In[t]] \in Nat
        /\ notEmpty[In[t]] + One(Announcing(Producer[In[t]]))
             + One(Claimed(t)) = buf[In[t]].size
    BY <2>1, BufferSizeAssumption DEF IInv, SemaphoreAccounting, TypeOK
  <2>3. buf[In[t]].size > 0
    BY <1>4, <2>2 DEF One
  <2>4. Front(buf[In[t]]) = buf[In[t]].buffer[Slot(buf[In[t]], 0)]
    BY <2>1, <2>3, BufferFields, DequeueRemoves DEF IInv, QueueInv
  <2>5. buf[In[t]].size \in Nat
    BY <2>1, HandCounts, BufferSizeAssumption
  <2>6. 0 \in 0 .. buf[In[t]].size - 1
    BY <2>3, <2>5
  <2>7. Front(buf[In[t]]) = Taken[t] + 0 + 1
    BY <2>1, <2>4, <2>6 DEF IInv, QueueInv
  <2>8. /\ Given[Producer[In[t]]] = Taken[t] + buf[In[t]].size
        /\ Given[Producer[In[t]]] \in 0 .. NUM_TESTS
        /\ Taken[t] \in 0 .. NUM_TESTS
    BY <2>1, HandCounts DEF IInv, QueueInv
  <2>9. QED
    BY <2>3, <2>5, <2>7, <2>8, NumTestsAssumption DEF Request
<1>5. QED
  BY <1>3, <1>4


-----------------------------------------------------------------------------
(***************************************************************************)
(* Types.                                                                  *)
(***************************************************************************)

\* The labels of each thread, written out.
LEMMA Labels ==
  /\ Label["metaDataWrite"] =
       {"waitItem", "lockIn", "dequeue", "unlockIn", "postSpace", "check", "stuck",
        "waitSpace", "lockOut", "enqueue", "unlockOut", "postItem", "data", "txb",
        "jbitmap", "jinode"}
  /\ Label["journalCommit"] =
       {"waitItem", "lockIn", "dequeue", "unlockIn", "postSpace", "check", "stuck",
        "waitSpace", "lockOut", "enqueue", "unlockOut", "postItem", "txe"}
  /\ Label["journalCommitComplete"] =
       {"waitItem", "lockIn", "dequeue", "unlockIn", "postSpace", "bitmap",
        "inode", "complete"}
  /\ Label["main"] = {"waitSpace", "lockOut", "enqueue", "unlockOut", "postItem",
                      "sleep", "exited"}
BY DEF Label, WorkerLabel, ForwardLabel

\* A jump within a thread keeps pc well typed.
LEMMA PcMove ==
  ASSUME PcOK, NEW t \in Thread, NEW l \in Label[t], Goto(t, l)
  PROVE  PcOK'
BY DEF PcOK, Goto

\* Every step jumps within one thread, or leaves pc alone.
LEMMA PcStep ==
  ASSUME TypeOK, Next
  PROVE  PcOK'
<1> USE DEF At
<1>0. PcOK
  BY DEF TypeOK
<1>1. ASSUME NEW t \in Worker
      PROVE  {"waitItem", "lockIn", "dequeue", "unlockIn", "postSpace",
              FirstWrite[t]} \subseteq Label[t] /\ t \in Thread
  BY Labels DEF Worker, Thread, FirstWrite
<1>2. ASSUME NEW t \in Forwarder
      PROVE  {"check", "stuck", "waitSpace", "lockOut", "enqueue", "unlockOut",
              "postItem"} \subseteq Label[t] /\ t \in Thread
  BY Labels DEF Worker, Thread, Forwarder
<1>3. CASE \E t \in Thread : WriteStep(t)
  <2>1. PICK t \in Thread : WriteStep(t)
    BY <1>3
  <2>2. \E l \in Label[t] : Goto(t, l)
    BY <2>1, Labels DEF WriteStep, Write
  <2>3. QED
    BY <1>0, <2>2, PcMove
<1>4. CASE \E t \in Thread : LockStep(t) \/ UnlockStep(t)
  <2>1. PICK t \in Thread : LockStep(t) \/ UnlockStep(t)
    BY <1>4
  <2>2. \E l \in Label[t] : Goto(t, l)
    BY <2>1, <1>1, <1>2, Labels DEF LockStep, Lock, UnlockStep, Unlock, Worker,
                                    Forwarder
  <2>3. QED
    BY <1>0, <2>2, PcMove
<1>5. CASE \E t \in Thread : PostSpaceStep(t) \/ WaitSpaceStep(t)
  <2>1. PICK t \in Thread : PostSpaceStep(t) \/ WaitSpaceStep(t)
    BY <1>5
  <2>2. \E l \in Label[t] : Goto(t, l)
    BY <2>1, <1>1, <1>2, Labels DEF PostSpaceStep, PostSpace, WaitSpaceStep,
                                    WaitSpace, Forwarder
  <2>3. QED
    BY <1>0, <2>2, PcMove
<1>6. CASE \E t \in Thread : EnqueueStep(t) \/ PostItemStep(t)
  <2>1. PICK t \in Thread : EnqueueStep(t) \/ PostItemStep(t)
    BY <1>6
  <2>2. \E l \in Label[t] : Goto(t, l)
    BY <2>1, Labels DEF EnqueueStep, Enqueue, PostItemStep, PostItem
  <2>3. QED
    BY <1>0, <2>2, PcMove
<1>7. CASE \E t \in Worker : WaitItem(t, "lockIn") \/ Dequeue(t, FirstWrite[t])
  BY <1>0, <1>1, <1>7, PcMove DEF WaitItem, Dequeue
<1>8. CASE \E t \in Forwarder : CheckFull(t)
  BY <1>0, <1>2, <1>8, PcMove DEF CheckFull
<1>9. CASE issue_journal_txe("journalCommit", "unlockIn")
  BY <1>0, <1>1, <1>9, PcMove DEF issue_journal_txe, Worker
<1>10. CASE NextTest \/ Return
  <2>1. "main" \in Thread /\ \E l \in Label["main"] : Goto("main", l)
    BY <1>10, Labels DEF NextTest, Return, Thread
  <2>2. QED
    BY <1>0, <2>1, PcMove
<1>11. CASE UNCHANGED pc
  BY <1>0, <1>11 DEF PcOK
<1>12. QED
  BY <1>3, <1>4, <1>5, <1>6, <1>7, <1>8, <1>9, <1>10, <1>11, StepKinds
     DEF threadSleep, Terminated, vars


\* Every step keeps the types, in particular every semaphore in its range.
LEMMA TypeStep ==
  ASSUME IInv, Next
  PROVE  TypeOK'
<1> USE DEF At
<1>0. /\ TypeOK
      /\ MutexInv
      /\ PcOK'
      /\ \A t \in Worker : In[t] \in Buffer /\ Consumer[In[t]] = t
      /\ \A t \in Forwarder \cup {"main"} : Out[t] \in Buffer /\ Producer[Out[t]] = t
  BY PcStep DEF IInv, Buffer, Worker, Forwarder, In, Out, Consumer, Producer
<1>1. CASE \E t \in Worker : WaitItem(t, "lockIn")
  <2>1. PICK t \in Worker : WaitItem(t, "lockIn")
    BY <1>1
  <2>2. notEmpty' \in [Buffer -> 0 .. BUFFER_SIZE]
    BY <1>0, <2>1, BufferSizeAssumption DEF TypeOK, WaitItem
  <2>3. QED
    BY <1>0, <2>1, <2>2 DEF TypeOK, WaitItem
<1>2. CASE \E t \in Thread : LockStep(t)
  BY <1>0, <1>2 DEF TypeOK, LockStep, Lock
<1>3. CASE \E t \in Thread : UnlockStep(t)
  BY <1>0, <1>3 DEF TypeOK, UnlockStep, Unlock, MutexInv, InCritical
<1>4. CASE \E t \in Worker : Dequeue(t, FirstWrite[t])
  <2>1. PICK t \in Worker : Dequeue(t, FirstWrite[t])
    BY <1>4
  <2>2. Claimed(t)
    BY <2>1 DEF Dequeue, Claimed
  <2>3. Front(buf[In[t]]) \in Request /\ dequeue(buf[In[t]]) \in circ_buff_t
    BY <1>0, <2>2, HandIsRequest, BufferFields, DequeueFields
  <2>4. QED
    BY <1>0, <2>1, <2>3, Zenon DEF TypeOK, Dequeue
<1>5. CASE \E t \in Thread : WriteStep(t)
  <2>0. PICK t \in Thread : \E e \in Event : \E l : Write(t, e, l) /\ Holding(t)
    BY <1>5, SMTT(30) DEF WriteStep, Write, Holding, Event
  <2>1. PICK e \in Event : \E l : Write(t, e, l) /\ Holding(t)
    BY <2>0
  <2>2. Append(done[e], wr[t]) \in Seq(Request)
    BY <1>0, <2>1, HandIsRequest DEF TypeOK
  <2>3. QED
    BY <1>0, <2>1, <2>2 DEF TypeOK, Write
<1>6. CASE issue_journal_txe("journalCommit", "unlockIn")
  <2>1. wr["journalCommit"] \in Request /\ "txe" \in Event
    BY <1>6, HandIsRequest DEF issue_journal_txe, Holding, Thread, Worker, Event
  <2>2. Append(done["txe"], wr["journalCommit"]) \in Seq(Request)
    BY <1>0, <2>1 DEF TypeOK
  <2>3. QED
    BY <1>0, <1>6, <2>1, <2>2 DEF TypeOK, issue_journal_txe
<1>7. CASE \E t \in Thread : PostSpaceStep(t)
  <2>1. PICK t \in Worker : \E l : PostSpace(t, l)
    BY <1>7 DEF PostSpaceStep, Worker, Forwarder
  <2>2. hasSpace[In[t]] + buf[In[t]].size + One(Reserved(Producer[In[t]])) + 1
          = BUFFER_SIZE
    BY <1>0, <2>1 DEF IInv, SemaphoreAccounting, Releasing, PostSpace, One
  <2>3. /\ hasSpace[In[t]] \in 0 .. BUFFER_SIZE
        /\ buf[In[t]].size \in 0 .. BUFFER_SIZE
        /\ One(Reserved(Producer[In[t]])) \in {0, 1}
    BY <1>0, HandCounts DEF One, TypeOK
  <2>4. hasSpace[In[t]] + 1 \in 0 .. BUFFER_SIZE
    BY <2>2, <2>3, BufferSizeAssumption
  <2>5. QED
    BY <1>0, <2>1, <2>4 DEF TypeOK, PostSpace
<1>8. CASE \E t \in Forwarder : CheckFull(t)
  BY <1>0, <1>8 DEF TypeOK, CheckFull
<1>9. CASE \E t \in Thread : WaitSpaceStep(t)
  <2>1. PICK t \in Forwarder \cup {"main"} : \E l : WaitSpace(t, l)
    BY <1>9 DEF WaitSpaceStep, Forwarder
  <2>2. hasSpace' \in [Buffer -> 0 .. BUFFER_SIZE]
    BY <1>0, <2>1, BufferSizeAssumption DEF TypeOK, WaitSpace
  <2>3. QED
    BY <1>0, <2>1, <2>2 DEF TypeOK, WaitSpace
<1>10. CASE \E t \in Thread : EnqueueStep(t)
  <2>1. PICK t \in Forwarder \cup {"main"} : EnqueueStep(t)
    BY <1>10 DEF EnqueueStep, Forwarder
  <2>2. wr[t] \in Request /\ "requested" \in Event
    BY <2>1, HandIsRequest DEF EnqueueStep, Enqueue, Holding, Forwarder, Thread,
                               Worker, Event
  <2>3. enqueue(buf[Out[t]], wr[t]) \in circ_buff_t
    BY <1>0, <2>2, BufferFields, EnqueueFields, Zenon
  <2>4. Append(done["requested"], wr[t]) \in Seq(Request)
    BY <1>0, <2>2 DEF TypeOK
  <2>5. done' \in [Event -> Seq(Request)]
    BY <1>0, <2>1, <2>2, <2>4, Zenon DEF TypeOK, EnqueueStep
  <2>6. PICK l : Enqueue(t, l)
    BY <2>1 DEF EnqueueStep
  <2>7. QED
    BY <1>0, <2>3, <2>5, <2>6 DEF TypeOK, Enqueue
<1>11. CASE \E t \in Thread : PostItemStep(t)
  <2>1. PICK t \in Forwarder : \E l : PostItem(t, l)
    BY <1>11 DEF PostItemStep, Forwarder
  <2>2. notEmpty[Out[t]] + 1 + One(Claimed(Consumer[Out[t]])) = buf[Out[t]].size
    BY <1>0, <2>1, SMTT(30) DEF IInv, SemaphoreAccounting, Announcing, PostItem, One
  <2>3. /\ notEmpty[Out[t]] \in 0 .. BUFFER_SIZE
        /\ buf[Out[t]].size \in 0 .. BUFFER_SIZE
        /\ One(Claimed(Consumer[Out[t]])) \in {0, 1}
    BY <1>0, HandCounts, SMTT(30) DEF One, TypeOK
  <2>4. notEmpty[Out[t]] + 1 \in 0 .. BUFFER_SIZE
    BY <2>2, <2>3, BufferSizeAssumption
  <2>5. QED
    BY <1>0, <2>1, <2>4, SMTT(30) DEF TypeOK, PostItem
<1>12. CASE NextTest
  <2>1. "requestBuffer" \in Buffer /\ "main" \in Thread
    BY DEF Buffer, Thread
  <2>2. notEmpty["requestBuffer"] + 1 + One(Claimed("metaDataWrite"))
          = buf["requestBuffer"].size
    BY <1>12, <2>1 DEF IInv, SemaphoreAccounting, Producer, Consumer, Announcing,
                       NextTest, One
  <2>3. /\ notEmpty["requestBuffer"] \in 0 .. BUFFER_SIZE
        /\ buf["requestBuffer"].size \in 0 .. BUFFER_SIZE
        /\ One(Claimed("metaDataWrite")) \in {0, 1}
    BY <1>0, <2>1, HandCounts DEF One, TypeOK
  <2>4. notEmpty["requestBuffer"] + 1 \in 0 .. BUFFER_SIZE
    BY <2>2, <2>3, BufferSizeAssumption
  <2>5. wr' \in [Thread -> Request \cup {NoRequest}]
    <3>1. wr["main"] \in Int /\ wr["main"] >= 0
      BY <1>0, <2>1, NumTestsAssumption DEF TypeOK, Request, NoRequest
    <3>2. CASE wr["main"] < NUM_TESTS /\ wr' = [wr EXCEPT !["main"] = @ + 1]
      <4>1. wr["main"] + 1 \in Request
        BY <3>1, <3>2, NumTestsAssumption DEF Request
      <4>2. QED
        BY <1>0, <2>1, <3>2, <4>1 DEF TypeOK
    <3>3. CASE UNCHANGED wr
      BY <1>0, <3>3 DEF TypeOK
    <3>4. QED
      BY <1>12, <3>2, <3>3 DEF NextTest
  <2>6. QED
    BY <1>0, <1>12, <2>1, <2>4, <2>5 DEF TypeOK, NextTest
<1>13. CASE Return
  BY <1>0, <1>13 DEF TypeOK, Return
<1>14. CASE \E r \in Request : threadSleep(r)
  <2>1. PICK r \in Request : threadSleep(r)
    BY <1>14
  <2>2. txeThread' \in [Request -> {"none", "created", "sleeping", "returned"}]
    BY <1>0, <2>1, Zenon DEF TypeOK, threadSleep
  <2>3. QED
    BY <1>0, <2>1, <2>2, SMTT(30) DEF TypeOK, threadSleep
<1>15. CASE Terminated
  BY <1>0, <1>15 DEF TypeOK, Terminated, vars
<1>16. QED
  BY <1>1, <1>2, <1>3, <1>4, <1>5, <1>6, <1>7, <1>8, <1>9, <1>10, <1>11, <1>12,
     <1>13, <1>14, <1>15, StepKinds


-----------------------------------------------------------------------------
(***************************************************************************)
(* The mutex and the semaphores.                                           *)
(***************************************************************************)

\* mutex is 0 while a thread is in a critical section, so no other enters.
LEMMA MutexStep ==
  ASSUME IInv, Next
  PROVE  MutexInv'
<1> USE DEF At, Goto, InCritical
<1>0. MutexInv /\ PcOK /\ mutex \in 0 .. 1
  BY DEF IInv, TypeOK
<1>1. CASE \E t \in Worker : WaitItem(t, "lockIn")
  BY <1>0, <1>1 DEF MutexInv, MutualExclusion, PcOK, Worker, Forwarder, Thread, WaitItem
<1>2. CASE \E t \in Thread : LockStep(t)
  BY <1>0, <1>2 DEF MutexInv, MutualExclusion, PcOK, Worker, Forwarder, Thread, LockStep, Lock
<1>3. CASE \E t \in Thread : UnlockStep(t)
  BY <1>0, <1>3 DEF MutexInv, MutualExclusion, PcOK, Worker, Forwarder, Thread, UnlockStep, Unlock
<1>4. CASE \E t \in Worker : Dequeue(t, FirstWrite[t])
  BY <1>0, <1>4, SMTT(30) DEF MutexInv, MutualExclusion, PcOK, Worker, Forwarder, Thread, Dequeue,
     FirstWrite
<1>5. CASE \E t \in Thread : WriteStep(t)
  BY <1>0, <1>5, SMTT(30) DEF MutexInv, MutualExclusion, PcOK, Worker, Forwarder, Thread,
     WriteStep, Write
<1>6. CASE issue_journal_txe("journalCommit", "unlockIn")
  BY <1>0, <1>6 DEF MutexInv, MutualExclusion, PcOK, Worker, Forwarder, Thread, issue_journal_txe
<1>7. CASE \E t \in Thread : PostSpaceStep(t)
  BY <1>0, <1>7 DEF MutexInv, MutualExclusion, PcOK, Worker, Forwarder, Thread, PostSpaceStep,
     PostSpace
<1>8. CASE \E t \in Forwarder : CheckFull(t)
  BY <1>0, <1>8 DEF MutexInv, MutualExclusion, PcOK, Worker, Forwarder, Thread, CheckFull
<1>9. CASE \E t \in Thread : WaitSpaceStep(t)
  BY <1>0, <1>9 DEF MutexInv, MutualExclusion, PcOK, Worker, Forwarder, Thread, WaitSpaceStep,
     WaitSpace
<1>10. CASE \E t \in Thread : EnqueueStep(t)
  BY <1>0, <1>10 DEF MutexInv, MutualExclusion, PcOK, Worker, Forwarder, Thread, EnqueueStep,
     Enqueue
<1>11. CASE \E t \in Thread : PostItemStep(t)
  BY <1>0, <1>11 DEF MutexInv, MutualExclusion, PcOK, Worker, Forwarder, Thread, PostItemStep,
     PostItem
<1>12. CASE NextTest
  BY <1>0, <1>12 DEF MutexInv, MutualExclusion, PcOK, Worker, Forwarder, Thread, NextTest
<1>13. CASE Return
  BY <1>0, <1>13 DEF MutexInv, MutualExclusion, PcOK, Worker, Forwarder, Thread, Return
<1>14. CASE \E r \in Request : threadSleep(r)
  BY <1>0, <1>14 DEF MutexInv, MutualExclusion, PcOK, Worker, Forwarder, Thread, threadSleep
<1>15. CASE Terminated
  BY <1>0, <1>15 DEF MutexInv, MutualExclusion, PcOK, Worker, Forwarder, Thread, Terminated, vars
<1>16. QED
  BY <1>1, <1>2, <1>3, <1>4, <1>5, <1>6, <1>7, <1>8, <1>9, <1>10, <1>11, <1>12, <1>13, <1>14,
     <1>15, StepKinds


\* Every step keeps the semaphores and the sizes of the buffers in step.
LEMMA AccountingStep ==
  ASSUME IInv, Next
  PROVE  SemaphoreAccounting'
<1> USE DEF At, Goto
<1>0. /\ SemaphoreAccounting /\ PcOK
      /\ DOMAIN hasSpace = Buffer /\ DOMAIN notEmpty = Buffer /\ DOMAIN buf = Buffer
      /\ \A b \in Buffer : /\ hasSpace[b] \in Int /\ notEmpty[b] \in Int
                           /\ buf[b].size \in Int
  BY BufferSizeAssumption DEF IInv, TypeOK, circ_buff_t
<1>1. CASE \E t \in Worker : WaitItem(t, "lockIn")
  BY <1>0, <1>1
     DEF SemaphoreAccounting, PcOK, Worker, Forwarder, Thread, In, Out,
     Producer, Consumer, Buffer, One, Reserved, Announcing, Claimed, Releasing,
     enqueue, dequeue, WaitItem
<1>2. CASE \E t \in Thread : LockStep(t)
  BY <1>0, <1>2
     DEF SemaphoreAccounting, PcOK, Worker, Forwarder, Thread, In, Out,
     Producer, Consumer, Buffer, One, Reserved, Announcing, Claimed, Releasing,
     enqueue, dequeue, LockStep, Lock
<1>3. CASE \E t \in Thread : UnlockStep(t)
  BY <1>0, <1>3
     DEF SemaphoreAccounting, PcOK, Worker, Forwarder, Thread, In, Out,
     Producer, Consumer, Buffer, One, Reserved, Announcing, Claimed, Releasing,
     enqueue, dequeue, UnlockStep, Unlock
<1>4. CASE \E t \in Worker : Dequeue(t, FirstWrite[t])
  <2>1. PICK t \in Worker : Dequeue(t, FirstWrite[t])
    BY <1>4
  <2>2. /\ buf'[In[t]].size = buf[In[t]].size - 1
        /\ \A b \in Buffer \ {In[t]} : buf'[b] = buf[b]
    BY <1>0, <2>1 DEF Dequeue, dequeue, Worker, In, Buffer
  <2>3. /\ ~Releasing(t) /\ Releasing(t)' /\ Claimed(t) /\ ~Claimed(t)'
        /\ ~Reserved(t) /\ ~Reserved(t)' /\ ~Announcing(t) /\ ~Announcing(t)'
        /\ \A s \in Thread \ {t} : pc'[s] = pc[s]
    BY <1>0, <2>1 DEF Dequeue, PcOK, FirstWrite, Worker, Thread, Releasing,
                      Claimed, Reserved, Announcing
  <2>4. QED
    BY <1>0, <2>1, <2>2, <2>3, SMTT(30)
       DEF Dequeue, SemaphoreAccounting, Worker, Thread, In, Buffer, Producer,
           Consumer, One, Reserved, Announcing, Claimed, Releasing
<1>5. CASE \E t \in Thread : WriteStep(t)
  <2>1. PICK t \in Worker : WriteStep(t)
    BY <1>5 DEF WriteStep, Worker
  <2>2. /\ Releasing(t)' = Releasing(t) /\ ~Claimed(t) /\ ~Claimed(t)'
        /\ ~Reserved(t) /\ ~Reserved(t)' /\ ~Announcing(t) /\ ~Announcing(t)'
        /\ \A s \in Thread \ {t} : pc'[s] = pc[s]
    BY <1>0, <2>1, SMTT(30) DEF WriteStep, Write, PcOK, Worker, Thread, Releasing, Claimed,
                      Reserved, Announcing
  <2>3. UNCHANGED <<buf, hasSpace, notEmpty>>
    BY <2>1 DEF WriteStep, Write
  <2>4. QED
    BY <1>0, <2>1, <2>2, <2>3, SMTT(30)
       DEF SemaphoreAccounting, Worker, Thread, Buffer, Producer, Consumer, One,
           Reserved, Announcing, Claimed, Releasing
<1>6. CASE issue_journal_txe("journalCommit", "unlockIn")
  <2>1. /\ pc["journalCommit"] = "txe" /\ pc'["journalCommit"] = "unlockIn"
        /\ \A s \in Thread \ {"journalCommit"} : pc'[s] = pc[s]
        /\ UNCHANGED <<buf, hasSpace, notEmpty>>
    BY <1>0, <1>6 DEF issue_journal_txe, PcOK, Thread, Worker
  <2>2. QED
    BY <1>0, <2>1
       DEF SemaphoreAccounting, Worker, Thread, Buffer, Producer, Consumer, One,
           Reserved, Announcing, Claimed, Releasing
<1>7. CASE \E t \in Thread : PostSpaceStep(t)
  BY <1>0, <1>7, SMTT(30)
     DEF SemaphoreAccounting, PcOK, Worker, Forwarder, Thread, In, Out,
     Producer, Consumer, Buffer, One, Reserved, Announcing, Claimed, Releasing,
     enqueue, dequeue, PostSpaceStep, PostSpace
<1>8. CASE \E t \in Forwarder : CheckFull(t)
  BY <1>0, <1>8, SMTT(30)
     DEF SemaphoreAccounting, PcOK, Worker, Forwarder, Thread, In, Out,
     Producer, Consumer, Buffer, One, Reserved, Announcing, Claimed, Releasing,
     enqueue, dequeue, CheckFull
<1>9. CASE \E t \in Thread : WaitSpaceStep(t)
  BY <1>0, <1>9, SMTT(30)
     DEF SemaphoreAccounting, PcOK, Worker, Forwarder, Thread, In, Out,
     Producer, Consumer, Buffer, One, Reserved, Announcing, Claimed, Releasing,
     enqueue, dequeue, WaitSpaceStep, WaitSpace
<1>10. CASE \E t \in Thread : EnqueueStep(t)
  <2>1. PICK t \in Forwarder \cup {"main"} : EnqueueStep(t)
    BY <1>10 DEF EnqueueStep, Forwarder
  <2>2. /\ buf'[Out[t]].size = buf[Out[t]].size + 1
        /\ \A b \in Buffer \ {Out[t]} : buf'[b] = buf[b]
        /\ UNCHANGED <<hasSpace, notEmpty>>
    BY <1>0, <2>1, SMTT(30) DEF EnqueueStep, Enqueue, enqueue, Forwarder, Out, Buffer
  <2>3. /\ ~Releasing(t) /\ ~Releasing(t)' /\ ~Claimed(t) /\ ~Claimed(t)'
        /\ Reserved(t) /\ ~Reserved(t)' /\ ~Announcing(t) /\ Announcing(t)'
        /\ \A s \in Thread \ {t} : pc'[s] = pc[s]
    BY <1>0, <2>1 DEF EnqueueStep, Enqueue, PcOK, Forwarder, Worker, Thread,
                      Releasing, Claimed, Reserved, Announcing
  <2>4. QED
    BY <1>0, <2>1, <2>2, <2>3, SMTT(30)
       DEF SemaphoreAccounting, Forwarder, Worker, Thread, Out, Buffer, Producer,
           Consumer, One, Reserved, Announcing, Claimed, Releasing
<1>11. CASE \E t \in Thread : PostItemStep(t)
  BY <1>0, <1>11, SMTT(30)
     DEF SemaphoreAccounting, PcOK, Worker, Forwarder, Thread, In, Out,
     Producer, Consumer, Buffer, One, Reserved, Announcing, Claimed, Releasing,
     enqueue, dequeue, PostItemStep, PostItem
<1>12. CASE NextTest
  BY <1>0, <1>12
     DEF SemaphoreAccounting, PcOK, Worker, Forwarder, Thread, In, Out,
     Producer, Consumer, Buffer, One, Reserved, Announcing, Claimed, Releasing,
     enqueue, dequeue, NextTest
<1>13. CASE Return
  BY <1>0, <1>13, SMTT(30)
     DEF SemaphoreAccounting, PcOK, Worker, Forwarder, Thread, In, Out,
     Producer, Consumer, Buffer, One, Reserved, Announcing, Claimed, Releasing,
     enqueue, dequeue, Return
<1>14. CASE \E r \in Request : threadSleep(r)
  BY <1>0, <1>14, SMTT(30)
     DEF SemaphoreAccounting, PcOK, Worker, Forwarder, Thread, In, Out,
     Producer, Consumer, Buffer, One, Reserved, Announcing, Claimed, Releasing,
     enqueue, dequeue, threadSleep
<1>15. CASE Terminated
  BY <1>0, <1>15
     DEF SemaphoreAccounting, PcOK, Worker, Forwarder, Thread, In, Out,
     Producer, Consumer, Buffer, One, Reserved, Announcing, Claimed, Releasing,
     enqueue, dequeue, Terminated, vars
<1>16. QED
  BY <1>1, <1>2, <1>3, <1>4, <1>5, <1>6, <1>7, <1>8, <1>9, <1>10, <1>11, <1>12,
     <1>13, <1>14, <1>15, StepKinds
=============================================================================
