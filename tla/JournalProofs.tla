--------------------------- MODULE JournalProofs ----------------------------
(***************************************************************************)
(* The theorems about the journaling service: its invariant holds, and     *)
(* with it the properties, for any number of requests and any buffer size, *)
(* and it implements the abstract service.                                 *)
(***************************************************************************)
EXTENDS JournalOrder

\* Every worker's hand holds the last request it took.
LEMMA HandStep ==
  ASSUME IInv, Next
  PROVE  HandInv'
<1>0. HandInv /\ TypeOK /\ PcOK
  BY DEF IInv, TypeOK
<1>1. CASE QuietStep
  <2>1. \A t \in Worker : Holding(t)' => wr'[t] = Taken'[t]
    BY <1>0, <1>1, QuietFrame, QuietCounts DEF HandInv
  <2>2. N("requested")' = N("requested") /\ N("requested") \in Int
    BY <1>1, <1>0, QuietFrame, EventCounts DEF N, IInv, Event
  <2>3. CASE pc'["main"] = pc["main"] /\ wr'["main"] = wr["main"]
    BY <1>0, <2>1, <2>2, <2>3 DEF HandInv, Holding
  <2>4. CASE NextTest
    <3>1. /\ pc["main"] = "postItem"
          /\ \/ pc'["main"] = "waitSpace" /\ wr'["main"] = wr["main"] + 1
             \/ pc'["main"] = "sleep"
      BY <1>0, <2>4 DEF NextTest, At, Goto, PcOK, Thread, TypeOK
    <3>2. QED
      BY <1>0, <2>1, <2>2, <3>1 DEF HandInv, Holding
  <2>5. CASE Return
    <3>1. pc'["main"] = "exited"
      BY <1>0, <2>5 DEF Return, Goto, PcOK, Thread
    <3>2. QED
      BY <2>1, <3>1 DEF HandInv, Holding
  <2>6. CASE LockStep("main") \/ UnlockStep("main") \/ WaitSpaceStep("main")
    <3>1. /\ UNCHANGED wr
          /\ \/ pc["main"] \in {"waitSpace", "lockOut"}
                  /\ pc'["main"] \in {"lockOut", "enqueue"}
             \/ pc["main"] = "unlockOut" /\ pc'["main"] = "postItem"
      BY <1>0, <2>6 DEF LockStep, Lock, UnlockStep, Unlock, WaitSpaceStep,
         WaitSpace, At, Goto, PcOK, Thread, Worker, Forwarder
    <3>2. QED
      BY <1>0, <2>1, <2>2, <3>1 DEF HandInv, Holding
  <2>7. \/ pc'["main"] = pc["main"] /\ wr'["main"] = wr["main"]
        \/ NextTest
        \/ Return
        \/ LockStep("main") \/ UnlockStep("main") \/ WaitSpaceStep("main")
    BY <1>0, <1>1, SMTT(30) DEF QuietStep, WaitItem, LockStep, Lock, UnlockStep, Unlock,
       PostSpaceStep, PostSpace, CheckFull, WaitSpaceStep, WaitSpace,
       PostItemStep, PostItem, threadSleep, Terminated, vars, Goto, PcOK,
       Worker, Forwarder, Thread
  <2>8. QED
    BY <2>3, <2>4, <2>5, <2>6, <2>7
<1>2. CASE \/ \E t \in Thread : WriteStep(t)
           \/ issue_journal_txe("journalCommit", "unlockIn")
  BY <1>0, <1>2, WriteCounts DEF HandInv, Holding
<1>3. CASE \E t \in Worker : Dequeue(t, FirstWrite[t])
  <2>1. PICK t \in Worker : Dequeue(t, FirstWrite[t])
    BY <1>3
  <2>2. Claimed(t)
    BY <2>1 DEF Dequeue, At, Claimed
  <2>3. wr'[t] = Taken'[t]
    BY <2>1, <2>2, DequeueCounts, HandIsRequest
  <2>4. /\ \A s \in Worker \ {t} : Holding(s)' => wr'[s] = Taken'[s]
        /\ pc'["main"] = pc["main"] /\ wr'["main"] = wr["main"]
        /\ N("requested")' = N("requested")
    BY <1>0, <2>1, DequeueCounts, SMTT(30) DEF HandInv, Holding, Thread, Worker, N
  <2>5. QED
    BY <1>0, <2>3, <2>4 DEF HandInv, Holding
<1>4. CASE \E t \in Thread : EnqueueStep(t)
  <2>1. PICK t \in Forwarder \cup {"main"} : EnqueueStep(t)
    BY <1>4 DEF EnqueueStep, Forwarder
  <2>2. \A s \in Worker : Holding(s)' => wr'[s] = Taken'[s]
    BY <1>0, <2>1, EnqueueCounts DEF HandInv, Holding, Thread, Worker
  <2>3. CASE t = "main"
    BY <2>1, <2>2, <2>3, EnqueueCounts DEF HandInv, Holding, Given
  <2>4. CASE t # "main"
    <3>1. /\ pc'["main"] = pc["main"] /\ wr'["main"] = wr["main"]
          /\ N("requested")' = N("requested")
      BY <2>1, <2>4, EnqueueCounts DEF Thread
    <3>2. QED
      BY <1>0, <2>2, <3>1 DEF HandInv, Holding
  <2>5. QED
    BY <2>3, <2>4
<1>5. QED
  BY <1>1, <1>2, <1>3, <1>4, StepKinds DEF QuietStep


\* Every buffer holds what was given to it and not yet taken, in order.
LEMMA QueueStep ==
  ASSUME IInv, Next
  PROVE  QueueInv'
<1>0. /\ QueueInv /\ TypeOK
      /\ \A b \in Buffer : /\ Consumer[b] \in Worker /\ In[Consumer[b]] = b
                           /\ Producer[b] \in Forwarder \cup {"main"}
                           /\ Out[Producer[b]] = b
      /\ \A t \in Worker : In[t] \in Buffer /\ Consumer[In[t]] = t
      /\ \A t \in Forwarder \cup {"main"} : Out[t] \in Buffer /\ Producer[Out[t]] = t
  BY DEF IInv, Buffer, Consumer, Producer, In, Out, Worker, Forwarder
<1>1. CASE \/ QuietStep
           \/ \E t \in Thread : WriteStep(t)
           \/ issue_journal_txe("journalCommit", "unlockIn")
  <2>1. /\ UNCHANGED buf
        /\ \A t \in Worker : Taken'[t] = Taken[t]
        /\ \A t \in Forwarder \cup {"main"} : Given'[t] = Given[t]
    BY <1>0, <1>1, QuietFrame, QuietCounts, WriteCounts
  <2>2. QED
    BY <1>0, <2>1 DEF QueueInv
<1>2. CASE \E t \in Worker : Dequeue(t, FirstWrite[t])
  <2>1. PICK t \in Worker : Dequeue(t, FirstWrite[t])
    BY <1>2
  <2> DEFINE c == buf[In[t]]
  <2>2. Claimed(t)
    BY <2>1 DEF Dequeue, At, Claimed
  <2>3. c \in circ_buff_t /\ WellFormed(c) /\ c.size > 0 /\ c.size \in Int
    BY <1>0, <2>2, BufferFields, HandIsRequest DEF QueueInv
  <2>4. /\ buf'[In[t]] = dequeue(c)
        /\ \A b \in Buffer \ {In[t]} : buf'[b] = buf[b]
    BY <1>0, <2>1 DEF Dequeue, TypeOK
  <2>5. /\ Taken'[t] = Taken[t] + 1 /\ Taken[t] \in Int
        /\ \A s \in Worker \ {t} : Taken'[s] = Taken[s]
        /\ \A s \in Forwarder \cup {"main"} : Given'[s] = Given[s]
    <3>1. Taken[t] \in Int
      BY <2>1, HandCounts
    <3>2. /\ Taken'[t] = Taken[t] + 1
          /\ \A s \in Worker \ {t} : Taken'[s] = Taken[s]
          /\ \A s \in Forwarder \cup {"main"} : Given'[s] = Given[s]
      BY <2>1, DequeueCounts
    <3>3. QED
      BY <3>1, <3>2
  <2>6. ASSUME NEW b \in Buffer \ {In[t]}
        PROVE  /\ buf'[b] = buf[b] /\ Taken'[Consumer[b]] = Taken[Consumer[b]]
               /\ Given'[Producer[b]] = Given[Producer[b]]
    BY <1>0, <2>4, <2>5
  <2>7. /\ WellFormed(dequeue(c))
        /\ dequeue(c).size = c.size - 1
        /\ Given'[Producer[In[t]]] = Taken'[t] + (c.size - 1)
    <3>1. WellFormed(dequeue(c))
      BY <2>3, DequeueRemoves
    <3>2. dequeue(c).size = c.size - 1
      BY <2>3, DequeueFields
    <3>3. Given'[Producer[In[t]]] = Taken[t] + c.size
      BY <1>0, <2>3, <2>5, SMTT(30) DEF QueueInv
    <3>4. c.size \in Int
      BY <2>3 DEF circ_buff_t
    <3>5. QED
      BY <2>5, <3>1, <3>2, <3>3, <3>4
  <2>8. ASSUME NEW k \in 0 .. (c.size - 1) - 1
        PROVE  dequeue(c).buffer[Slot(dequeue(c), k)] = Taken'[t] + k + 1
    <3>1. k \in 0 .. c.size - 2 /\ k + 1 \in 0 .. c.size - 1
      BY <2>3
    <3>2. dequeue(c).buffer[Slot(dequeue(c), k)] = c.buffer[Slot(c, k + 1)]
      BY <2>3, <3>1, DequeueRemoves
    <3>3. c.buffer[Slot(c, k + 1)] = Taken[t] + (k + 1) + 1
      BY <1>0, <3>1 DEF QueueInv
    <3>4. QED
      BY <2>5, <3>2, <3>3
  <2>9. ASSUME NEW b \in Buffer
        PROVE  /\ WellFormed(buf'[b])
               /\ Given'[Producer[b]] = Taken'[Consumer[b]] + buf'[b].size
               /\ \A k \in 0 .. buf'[b].size - 1 :
                    buf'[b].buffer[Slot(buf'[b], k)] = Taken'[Consumer[b]] + k + 1
    <3>1. CASE b = In[t]
      BY <1>0, <2>4, <2>7, <2>8, <3>1
    <3>2. CASE b # In[t]
      BY <1>0, <2>6, <3>2 DEF QueueInv
    <3>3. QED
      BY <3>1, <3>2
  <2>10. QED
    BY <2>9 DEF QueueInv, WellFormed, Slot
<1>3. CASE \E t \in Thread : EnqueueStep(t)
  <2>1. PICK t \in Forwarder \cup {"main"} : EnqueueStep(t)
    BY <1>3 DEF EnqueueStep, Forwarder
  <2> DEFINE c == buf[Out[t]]
  <2> DEFINE d == enqueue(c, wr[t])
  <2>2. /\ wr[t] \in Request /\ wr[t] = Given[t] + 1 /\ pc[t] = "enqueue"
        /\ Given'[t] = Given[t] + 1
        /\ \A s \in (Forwarder \cup {"main"}) \ {t} : Given'[s] = Given[s]
        /\ \A s \in Worker : Taken'[s] = Taken[s]
    BY <2>1, EnqueueCounts
  <2>3. /\ hasSpace[Out[t]] \in Nat /\ c.size \in Nat
        /\ hasSpace[Out[t]] + c.size + 1 + One(Releasing(Consumer[Out[t]]))
             = BUFFER_SIZE
    <3>1. Reserved(t)
      BY <2>2 DEF Reserved
    <3>2. hasSpace[Out[t]] + c.size + One(Reserved(Producer[Out[t]]))
            + One(Releasing(Consumer[Out[t]])) = BUFFER_SIZE
      BY <1>0 DEF IInv, SemaphoreAccounting
    <3>3. One(Reserved(Producer[Out[t]])) = 1
      BY <1>0, <3>1 DEF One
    <3>4. hasSpace[Out[t]] \in Nat /\ c.size \in Nat
      BY <1>0, HandCounts, BufferSizeAssumption DEF TypeOK
    <3>5. QED
      BY <3>2, <3>3, <3>4
  <2>4. c \in circ_buff_t /\ WellFormed(c) /\ c.size < BUFFER_SIZE
    BY <1>0, <2>3, BufferFields, BufferSizeAssumption DEF QueueInv, One
  <2>5. /\ buf'[Out[t]] = d
        /\ \A b \in Buffer \ {Out[t]} : buf'[b] = buf[b]
    BY <1>0, <2>1, SMTT(30) DEF EnqueueStep, Enqueue, TypeOK
  <2>6. ASSUME NEW b \in Buffer \ {Out[t]}
        PROVE  /\ buf'[b] = buf[b] /\ Taken'[Consumer[b]] = Taken[Consumer[b]]
               /\ Given'[Producer[b]] = Given[Producer[b]]
    BY <1>0, <2>2, <2>5
  <2>7. /\ Given[t] = Taken[Consumer[Out[t]]] + c.size
        /\ Taken'[Consumer[Out[t]]] = Taken[Consumer[Out[t]]]
        /\ Taken[Consumer[Out[t]]] \in Int
    BY <1>0, <2>2, HandCounts, SMTT(30) DEF QueueInv
  <2>8. /\ WellFormed(d)
        /\ d.size = c.size + 1
        /\ Given'[t] = Taken'[Consumer[Out[t]]] + (c.size + 1)
    <3>1. WellFormed(d) /\ d.size = c.size + 1
      BY <2>2, <2>4, EnqueueAppends, EnqueueFields, Zenon
    <3>2. Given'[t] = Taken'[Consumer[Out[t]]] + (c.size + 1)
      BY <2>2, <2>3, <2>7
    <3>3. QED
      BY <3>1, <3>2
  <2>9. ASSUME NEW k \in 0 .. (c.size + 1) - 1
        PROVE  d.buffer[Slot(d, k)] = Taken'[Consumer[Out[t]]] + k + 1
    <3>1. CASE k = c.size
      BY <2>2, <2>3, <2>4, <2>7, <3>1, EnqueueAppends, SMTT(30)
    <3>2. CASE k # c.size
      <4>1. k \in 0 .. c.size - 1
        BY <2>3, <3>2
      <4>2. d.buffer[Slot(d, k)] = c.buffer[Slot(c, k)]
        BY <2>2, <2>4, <4>1, EnqueueAppends
      <4>3. c.buffer[Slot(c, k)] = Taken[Consumer[Out[t]]] + k + 1
        BY <1>0, <4>1 DEF QueueInv
      <4>4. QED
        BY <2>7, <4>2, <4>3, SMTT(30)
    <3>3. QED
      BY <3>1, <3>2
  <2>10. ASSUME NEW b \in Buffer
         PROVE  /\ WellFormed(buf'[b])
                /\ Given'[Producer[b]] = Taken'[Consumer[b]] + buf'[b].size
                /\ \A k \in 0 .. buf'[b].size - 1 :
                     buf'[b].buffer[Slot(buf'[b], k)] = Taken'[Consumer[b]] + k + 1
    <3>1. CASE b = Out[t]
      BY <1>0, <2>5, <2>8, <2>9, <3>1, SMTT(30)
    <3>2. CASE b # Out[t]
      BY <1>0, <2>6, <3>2 DEF QueueInv
    <3>3. QED
      BY <3>1, <3>2
  <2>11. QED
    BY <2>10 DEF QueueInv, WellFormed, Slot
<1>4. QED
  BY <1>1, <1>2, <1>3, StepKinds DEF QuietStep


-----------------------------------------------------------------------------
(***************************************************************************)
(* The invariant holds, and with it the properties.                        *)
(***************************************************************************)

\* The state init_journal leaves satisfies the invariant.
LEMMA InitIInv == Init => IInv
<1> SUFFICES ASSUME Init PROVE IInv
  OBVIOUS
<1> USE NumTestsAssumption, BufferSizeAssumption
<1>1. EmptyBuffer \in circ_buff_t /\ EmptyBuffer.size = 0 /\ WellFormed(EmptyBuffer)
  BY DEF EmptyBuffer, circ_buff_t, Index, WellFormed, Slot
<1>2. /\ pc["metaDataWrite"] = "waitItem" /\ pc["journalCommit"] = "waitItem"
      /\ pc["journalCommitComplete"] = "waitItem"
      /\ pc["main"] \in {"waitSpace", "sleep"}
      /\ pc["main"] = "waitSpace" => wr["main"] = 1
  BY DEF Init, Thread, Worker
<1>3. TypeOK
  <2>1. PcOK
    BY <1>2, Labels DEF Init, PcOK, Thread, Worker
  <2>2. wr \in [Thread -> Request \cup {NoRequest}]
    BY DEF Init, Request, NoRequest
  <2>3. done \in [Event -> Seq(Request)]
    BY DEF Init
  <2>4. QED
    BY <1>1, <2>1, <2>2, <2>3 DEF Init, TypeOK
<1>4. MutexInv
  BY <1>2 DEF MutexInv, MutualExclusion, InCritical, Thread, Worker
<1>5. \A e \in Event : done[e] = <<>> /\ N(e) = 0
  BY DEF Init, N
<1>6. ChainInv
  BY <1>2, <1>5 DEF ChainInv, One, Event
<1>7. /\ \A t \in Worker : Taken[t] = 0 /\ ~Holding(t)
      /\ \A b \in Buffer : Given[Producer[b]] = 0
  BY <1>2, <1>5 DEF Taken, Given, Holding, One, Worker, Buffer, Producer, Event
<1>8. HandInv
  BY <1>2, <1>5, <1>7 DEF HandInv, Holding, Event
<1>9. SemaphoreAccounting
  BY <1>1, <1>2 DEF Init, SemaphoreAccounting, Buffer, Producer, Consumer, One,
     Reserved, Announcing, Claimed, Releasing
<1>10. QueueInv
  BY <1>1, <1>7 DEF Init, QueueInv, Buffer, Consumer, Worker
<1>11. InOrder
  BY <1>5 DEF InOrder
<1>12. QED
  BY <1>3, <1>4, <1>6, <1>8, <1>9, <1>10, <1>11 DEF IInv

\* Every step, and every stutter, keeps the invariant.
LEMMA NextIInv == IInv /\ [Next]_vars => IInv'
<1> SUFFICES ASSUME IInv, [Next]_vars PROVE IInv'
  OBVIOUS
<1>1. CASE Next
  BY <1>1, TypeStep, MutexStep, AccountingStep, ChainStep, HandStep, QueueStep,
     InOrderStep DEF IInv
<1>2. CASE UNCHANGED vars
  <2> USE <1>2 DEF vars, IInv
  <2>1. TypeOK' /\ MutexInv'
    BY DEF TypeOK, PcOK, MutexInv, MutualExclusion, InCritical
  <2>2. SemaphoreAccounting' /\ ChainInv' /\ InOrder'
    BY Zenon DEF SemaphoreAccounting, Reserved, Announcing, Claimed, Releasing,
           ChainInv, N, InOrder
  <2>3. Taken' = Taken /\ Given' = Given
    BY DEF Taken, Given, Holding, N
  <2>4. HandInv' /\ QueueInv'
    BY <2>3 DEF HandInv, QueueInv, Holding, N
  <2>5. QED
    BY <2>1, <2>2, <2>4
<1>3. QED
  BY <1>1, <1>2

\* The inductive invariant is an invariant.
THEOREM Invariance == Spec => []IInv
BY InitIInv, NextIInv, PTL DEF Spec

\* Every variable of the service keeps its type: the semaphores never go below
\* zero or above their initial range and the indices stay within the arrays.
THEOREM TypeCorrect == Spec => []TypeOK
<1>1. IInv => TypeOK
  BY DEF IInv
<1>2. QED
  BY <1>1, Invariance, PTL

\* At most one thread is in a critical section of journal.c.
THEOREM MutexCorrect == Spec => []MutualExclusion
<1>1. IInv => MutualExclusion
  BY DEF IInv, MutexInv
<1>2. QED
  BY <1>1, Invariance, PTL

\* The semaphores count the free and the filled slots of each buffer.
THEOREM AccountingCorrect == Spec => []SemaphoreAccounting
<1>1. IInv => SemaphoreAccounting
  BY DEF IInv
<1>2. QED
  BY <1>1, Invariance, PTL

\* No buffer is overrun or underrun, whatever its size.
THEOREM BuffersNeverOverrun == Spec => []BufferBounds
<1>1. IInv => BufferBounds
  BY DEF IInv, QueueInv, BufferBounds
<1>2. QED
  BY <1>1, Invariance, PTL

\* Each kind of block write happens to request 1, then 2, then 3, ...: no
\* request is lost, duplicated or overtaken between the threads.
THEOREM WritesInOrder == Spec => []InOrder
<1>1. IInv => InOrder
  BY DEF IInv
<1>2. QED
  BY <1>1, Invariance, PTL

\* For every request, each write is issued after the one before it.
THEOREM WritesOrdered == Spec => []WriteOrder
<1>1. IInv => WriteOrder
  <2> SUFFICES ASSUME IInv PROVE WriteOrder
    OBVIOUS
  <2>1. \A e \in Event : N(e) \in Int
    BY EventCounts DEF IInv
  <2>2. \A c : One(c) \in {0, 1}
    BY DEF One
  <2>3. /\ N("requested") = Taken["metaDataWrite"] + buf["requestBuffer"].size
        /\ Taken["metaDataWrite"] - One(Holding("metaDataWrite"))
             = Taken["journalCommit"] + buf["metaDataBuffer"].size
        /\ Taken["journalCommit"] - One(Holding("journalCommit"))
             = Taken["journalCommitComplete"] + buf["commitCompletedBuffer"].size
    BY DEF IInv, QueueInv, Given, Producer, Consumer, Buffer
  <2>4. /\ buf["requestBuffer"].size >= 0 /\ buf["requestBuffer"].size \in Int
        /\ buf["metaDataBuffer"].size >= 0 /\ buf["metaDataBuffer"].size \in Int
        /\ buf["commitCompletedBuffer"].size >= 0
        /\ buf["commitCompletedBuffer"].size \in Int
    BY HandCounts, BufferSizeAssumption DEF Buffer
  <2>5. /\ Taken["metaDataWrite"] = N("data") + One(pc["metaDataWrite"] = "data")
        /\ Taken["journalCommit"] = N("txe") + One(pc["journalCommit"] = "txe")
        /\ Taken["journalCommitComplete"]
             = N("bitmap") + One(pc["journalCommitComplete"] = "bitmap")
    BY DEF Taken
  <2>6. One(pc["metaDataWrite"] = "data") + One(pc["metaDataWrite"] = "txb")
          + One(pc["metaDataWrite"] = "jbitmap")
          + One(pc["metaDataWrite"] = "jinode") <= One(Holding("metaDataWrite"))
    BY DEF One, Holding
  <2>7. One(pc["journalCommit"] = "txe") <= One(Holding("journalCommit"))
    BY DEF One, Holding
  <2>8. N("data") <= N("requested")
    BY <2>1, <2>2, <2>3, <2>4, <2>5 DEF Event
  <2>9. N("txe") <= N("jinode")
    BY <2>1, <2>2, <2>3, <2>4, <2>5, <2>6 DEF Event, IInv, ChainInv
  <2>10. N("bitmap") <= N("txe")
    BY <2>1, <2>2, <2>3, <2>4, <2>5, <2>7 DEF Event
  <2>11. /\ N("txb") <= N("data") /\ N("jbitmap") <= N("txb")
         /\ N("jinode") <= N("jbitmap") /\ N("inode") <= N("bitmap")
         /\ N("complete") <= N("inode")
    BY <2>1, <2>2 DEF IInv, ChainInv, Event
  <2>12. QED
    BY <2>8, <2>9, <2>10, <2>11 DEF WriteOrder, N
<1>2. QED
  BY <1>1, Invariance, PTL

-----------------------------------------------------------------------------
(***************************************************************************)
(* The threads, buffers and semaphores implement the abstract service.     *)
(***************************************************************************)

\* main leaves its loop only after its last request.
MainInv == pc["main"] \in {"sleep", "exited"} => N("requested") = NUM_TESTS

\* No stage is ahead of the one before it, nor further behind it than the
\* buffer between them and the hand of the consumer allow.
LEMMA StageBounds ==
  ASSUME IInv
  PROVE  /\ \A e \in Event : N(e) \in 0 .. NUM_TESTS
         /\ pc["main"] = "enqueue" => N("requested") < N("jinode") + BUFFER_SIZE
         /\ pc["metaDataWrite"] = "jinode"
              => /\ N("jinode") < N("requested")
                 /\ N("jinode") < N("txe") + BUFFER_SIZE + 1
         /\ pc["journalCommit"] = "txe"
              => /\ N("txe") < N("jinode")
                 /\ N("txe") < N("inode") + BUFFER_SIZE + 1
         /\ pc["journalCommitComplete"] = "inode"
              => N("inode") < N("txe") /\ N("inode") = N("complete")
         /\ pc["journalCommitComplete"] = "complete" => N("complete") < N("inode")
<1>1. \A e \in Event : N(e) \in 0 .. NUM_TESTS
  BY EventCounts DEF IInv
<1> DEFINE req == buf["requestBuffer"].size
           meta == buf["metaDataBuffer"].size
           com == buf["commitCompletedBuffer"].size
<1>2. req \in 0 .. BUFFER_SIZE /\ meta \in 0 .. BUFFER_SIZE /\ com \in 0 .. BUFFER_SIZE
  BY HandCounts DEF Buffer
<1>3. /\ N("requested") = Taken["metaDataWrite"] + req
      /\ Taken["metaDataWrite"] - One(Holding("metaDataWrite"))
           = Taken["journalCommit"] + meta
      /\ Taken["journalCommit"] - One(Holding("journalCommit"))
           = Taken["journalCommitComplete"] + com
  BY DEF IInv, QueueInv, Given, Producer, Consumer, Buffer
<1>4. /\ Taken["metaDataWrite"] = N("data") + One(pc["metaDataWrite"] = "data")
      /\ Taken["journalCommit"] = N("txe") + One(pc["journalCommit"] = "txe")
      /\ Taken["journalCommitComplete"]
           = N("bitmap") + One(pc["journalCommitComplete"] = "bitmap")
  BY DEF Taken
<1>5. /\ req + One(Reserved("main")) + One(Releasing("metaDataWrite")) <= BUFFER_SIZE
      /\ meta + One(Releasing("journalCommit")) <= BUFFER_SIZE
      /\ com + One(Releasing("journalCommitComplete")) <= BUFFER_SIZE
  <2>1. \A b \in Buffer : hasSpace[b] \in Nat
    BY BufferSizeAssumption DEF IInv, TypeOK
  <2>2. \A c : One(c) \in {0, 1}
    BY DEF One
  <2>3. /\ hasSpace["requestBuffer"] + req + One(Reserved("main"))
             + One(Releasing("metaDataWrite")) = BUFFER_SIZE
        /\ hasSpace["metaDataBuffer"] + meta + One(Reserved("metaDataWrite"))
             + One(Releasing("journalCommit")) = BUFFER_SIZE
        /\ hasSpace["commitCompletedBuffer"] + com + One(Reserved("journalCommit"))
             + One(Releasing("journalCommitComplete")) = BUFFER_SIZE
    BY DEF IInv, SemaphoreAccounting, Buffer, Producer, Consumer
  <2>4. /\ hasSpace["requestBuffer"] \in Nat /\ hasSpace["metaDataBuffer"] \in Nat
        /\ hasSpace["commitCompletedBuffer"] \in Nat
    BY <2>1 DEF Buffer
  <2>5. QED
    BY <1>2, <2>2, <2>3, <2>4, BufferSizeAssumption
<1>6. /\ N("data") = N("jinode") + One(pc["metaDataWrite"] = "txb")
                       + One(pc["metaDataWrite"] = "jbitmap")
                       + One(pc["metaDataWrite"] = "jinode")
      /\ N("jinode") <= N("data")
      /\ N("bitmap") = N("inode") + One(pc["journalCommitComplete"] = "inode")
      /\ N("inode") = N("complete") + One(pc["journalCommitComplete"]
                                          \in {"unlockIn", "postSpace", "complete"})
  BY <1>1 DEF IInv, ChainInv, Event, One
<1> HIDE DEF req, meta, com
<1>7. /\ N("requested") \in Int /\ N("data") \in Int /\ N("jinode") \in Int
      /\ N("txe") \in Int /\ N("bitmap") \in Int /\ N("inode") \in Int
      /\ N("complete") \in Int
  BY <1>1 DEF Event
<1> USE <1>2, <1>3, <1>4, <1>5, <1>6, <1>7, BufferSizeAssumption
<1>8. pc["main"] = "enqueue" => N("requested") < N("jinode") + BUFFER_SIZE
  BY DEF One, Reserved, Releasing
<1>9. pc["metaDataWrite"] = "jinode" => /\ N("jinode") < N("requested")
                                        /\ N("jinode") < N("txe") + BUFFER_SIZE + 1
  BY DEF One, Holding, Releasing
<1>10. pc["journalCommit"] = "txe" => N("txe") < N("jinode")
  BY DEF One, Holding
<1>11. pc["journalCommit"] = "txe" => N("txe") < N("inode") + BUFFER_SIZE + 1
  BY DEF One, Holding, Releasing
<1>12. pc["journalCommitComplete"] = "inode"
         => N("inode") < N("txe") /\ N("inode") = N("complete")
  BY DEF One, Holding
<1>13. pc["journalCommitComplete"] = "complete" => N("complete") < N("inode")
  BY DEF One
<1>14. QED
  BY <1>1, <1>8, <1>9, <1>10, <1>11, <1>12, <1>13

\* Nothing runs once main has returned.
LEMMA NothingAfterExit == Next => Terminated \/ pc["main"] # "exited"
<1> USE DEF At
<1>1. main => pc["main"] # "exited"
  BY Zenon DEF main, request_write, NextTest, Return, Lock, Unlock, CheckFull, WaitSpace,
     Enqueue, PostItem
<1>2. metaDataWrite => pc["main"] # "exited"
  BY Zenon DEF metaDataWrite, WaitItem, Lock, Unlock, Dequeue, Write, PostSpace, CheckFull,
     WaitSpace, Enqueue, PostItem
<1>3. journalCommit => pc["main"] # "exited"
  BY Zenon DEF journalCommit, issue_journal_txe, WaitItem, Lock, Unlock, Dequeue, Write,
     PostSpace, CheckFull, WaitSpace, Enqueue, PostItem
<1>4. journalCommitComplete => pc["main"] # "exited"
  BY Zenon DEF journalCommitComplete, WaitItem, Lock, Unlock, Dequeue, Write, PostSpace
<1>5. QED
  BY <1>1, <1>2, <1>3, <1>4 DEF Next, threadSleep

\* A step of the service moves one stage by one request, or none, and stops
\* the service only when it returns from main.
LEMMA StageStep ==
  ASSUME IInv, Next, pc["main"] # "exited"
  PROVE  \/ /\ \A e \in Event : N(e)' = N(e)
            /\ pc'["main"] # "exited" \/ Return
         \/ /\ pc'["main"] # "exited"
            /\ \E t \in Thread, f \in Event :
                 /\ N(f)' = N(f) + 1 /\ \A e \in Event \ {f} : N(e)' = N(e)
                 /\ \/ f \notin {"requested", "jinode", "txe", "inode", "complete"}
                    \/ f = "requested" /\ t = "main" /\ pc[t] = "enqueue"
                    \/ f = "jinode" /\ t = "metaDataWrite" /\ pc[t] = f
                    \/ f = "txe" /\ t = "journalCommit" /\ pc[t] = f
                    \/ f \in {"inode", "complete"}
                         /\ t = "journalCommitComplete" /\ pc[t] = f
<1>0. TypeOK /\ PcOK
  BY DEF IInv, TypeOK
<1>1. CASE QuietStep
  <2>1. \A e \in Event : N(e)' = N(e)
    BY <1>0, <1>1, QuietFrame DEF N
  <2>2. pc'["main"] # "exited" \/ Return
    <3>1. CASE \/ \E t \in Worker : WaitItem(t, "lockIn")
               \/ \E t \in Thread : LockStep(t)
               \/ \E t \in Thread : UnlockStep(t)
               \/ \E t \in Thread : PostSpaceStep(t)
      BY <1>0, <3>1 DEF WaitItem, LockStep, Lock, UnlockStep, Unlock, PostSpaceStep,
         PostSpace, Goto, PcOK, Worker, Forwarder, Thread
    <3>2. CASE \/ \E t \in Forwarder : CheckFull(t)
               \/ \E t \in Thread : WaitSpaceStep(t)
               \/ \E t \in Thread : PostItemStep(t)
      BY <1>0, <3>2 DEF CheckFull, WaitSpaceStep, WaitSpace, PostItemStep, PostItem, Goto,
         PcOK, Worker, Forwarder, Thread
    <3>3. CASE NextTest \/ (\E r \in Request : threadSleep(r)) \/ Terminated
      BY <1>0, <3>3 DEF NextTest, threadSleep, Terminated, vars, Goto, PcOK, Worker, Thread
    <3>4. QED
      BY <1>1, <3>1, <3>2, <3>3, Zenon DEF QuietStep
  <2>3. QED
    BY <2>1, <2>2
<1>2. CASE \E t \in Thread : WriteStep(t)
  <2>1. PICK t \in Worker : WriteStep(t)
    BY <1>2 DEF WriteStep, Worker
  <2>2. PICK f \in Event : /\ \E l : Write(t, f, l)
                           /\ \/ f \notin {"requested", "jinode", "txe", "inode",
                                           "complete"}
                              \/ f = "jinode" /\ t = "metaDataWrite"
                              \/ /\ f \in {"inode", "complete"}
                                 /\ t = "journalCommitComplete"
    BY <2>1 DEF WriteStep, Event
  <2>3. wr[t] \in Request /\ pc[t] = f
    BY <2>2, WriteNumber DEF Write, At
  <2>4. N(f)' = N(f) + 1 /\ \A e \in Event \ {f} : N(e)' = N(e)
    BY <1>0, <2>2, <2>3, OneMore, Zenon DEF Write
  <2>5. pc'["main"] = pc["main"]
    BY <1>2, WriteCounts
  <2>6. QED
    BY <2>2, <2>3, <2>4, <2>5 DEF Thread
<1>3. CASE issue_journal_txe("journalCommit", "unlockIn")
  <2>1. "journalCommit" \in Worker /\ "txe" \in Event /\ "journalCommit" \in Thread
    BY DEF Worker, Event, Thread
  <2>2. wr["journalCommit"] \in Request /\ pc["journalCommit"] = "txe"
    BY <1>3, <2>1, WriteNumber DEF issue_journal_txe, At
  <2>3. N("txe")' = N("txe") + 1 /\ \A e \in Event \ {"txe"} : N(e)' = N(e)
    BY <1>0, <1>3, <2>1, <2>2, OneMore, Zenon DEF issue_journal_txe
  <2>4. pc'["main"] = pc["main"]
    BY <1>3, WriteCounts
  <2>5. QED
    BY <2>1, <2>2, <2>3, <2>4
<1>4. CASE \E t \in Worker : Dequeue(t, FirstWrite[t])
  <2>1. UNCHANGED done /\ pc'["main"] = pc["main"]
    BY <1>4, DequeueCounts DEF Thread, Worker
  <2>2. QED
    BY <2>1 DEF N
<1>5. CASE \E t \in Thread : EnqueueStep(t)
  <2>1. PICK t \in Forwarder \cup {"main"} : EnqueueStep(t)
    BY <1>5 DEF EnqueueStep, Forwarder
  <2>2. pc[t] = "enqueue" /\ pc'[t] # "exited" /\ wr[t] \in Request
        /\ \A s \in Thread \ {t} : pc'[s] = pc[s]
    BY <2>1, EnqueueCounts
  <2>3. pc'["main"] # "exited"
    BY <2>2 DEF Thread
  <2>4. CASE UNCHANGED done
    BY <2>3, <2>4 DEF N
  <2>5. CASE t = "main" /\ done' = [done EXCEPT !["requested"] = Append(@, wr[t])]
    <3>1. "requested" \in Event /\ "main" \in Thread
      BY DEF Event, Thread
    <3>2. /\ N("requested")' = N("requested") + 1
          /\ \A e \in Event \ {"requested"} : N(e)' = N(e)
      BY <1>0, <2>2, <2>5, <3>1, OneMore, Zenon
    <3>3. QED
      BY <2>2, <2>3, <2>5, <3>1, <3>2
  <2>6. QED
    BY <2>1, <2>4, <2>5 DEF EnqueueStep
<1>6. QED
  BY <1>1, <1>2, <1>3, <1>4, <1>5, StepKinds, SMTT(30) DEF QuietStep

\* main reaches sleep(5) after its last request, and makes no request there.
LEMMA MainStep ==
  ASSUME IInv, MainInv, [Next]_vars
  PROVE  MainInv'
<1>0. TypeOK /\ PcOK /\ HandInv
  BY DEF IInv, TypeOK
<1>1. CASE UNCHANGED vars
  BY <1>1 DEF MainInv, N, vars
<1>2. CASE Terminated
  BY <1>2 DEF Terminated, MainInv, N, vars
<1>3. CASE Next /\ pc["main"] # "exited"
  <2>1. /\ \/ N("requested")' = N("requested")
           \/ pc["main"] = "enqueue"
        /\ pc'["main"] = "exited" => Return /\ N("requested")' = N("requested")
    BY <1>3, StageStep DEF Event
  <2>2. \/ pc'["main"] = pc["main"]
        \/ pc'["main"] \notin {"sleep", "exited"}
        \/ NextTest
        \/ Return
    BY <1>0, <1>3, ZenonT(60) DEF Next, main, request_write, metaDataWrite, journalCommit,
       journalCommitComplete, WaitItem, Lock, Unlock, Dequeue, Write,
       issue_journal_txe, PostSpace, CheckFull, WaitSpace, Enqueue, PostItem,
       threadSleep, Terminated, At, Goto, PcOK, Worker, Thread
  <2>3. CASE pc'["main"] = pc["main"]
    BY <2>1, <2>3, SMTT(30) DEF MainInv
  <2>4. CASE NextTest
    <3>1. /\ N("requested")' = N("requested") /\ wr["main"] = N("requested")
          /\ pc'["main"] = "sleep" => wr["main"] = NUM_TESTS
          /\ pc'["main"] \in {"sleep", "waitSpace"}
      BY <1>0, <2>4 DEF NextTest, At, Goto, PcOK, Thread, N, HandInv
    <3>2. QED
      BY <3>1 DEF MainInv
  <2>5. CASE Return
    <3>1. pc["main"] = "sleep" /\ N("requested")' = N("requested")
      BY <2>5 DEF Return, At, N
    <3>2. QED
      BY <3>1 DEF MainInv
  <2>6. QED
    BY <2>2, <2>3, <2>4, <2>5 DEF MainInv
<1>4. QED
  BY <1>1, <1>2, <1>3, NothingAfterExit

\* The abstract service begins as init_journal leaves the buffers: empty.
LEMMA ServiceInit == Init => Service!SInit /\ MainInv
<1> SUFFICES ASSUME Init PROVE Service!SInit /\ MainInv
  OBVIOUS
<1>1. \A e \in Event : Len(done[e]) = 0
  BY DEF Init
<1>2. pc["main"] # "exited" /\ (pc["main"] = "sleep" => NUM_TESTS = 0)
  BY DEF Init, Thread
<1>3. QED
  BY <1>1, <1>2 DEF Service!SInit, MainInv, N, Event

\* Every step of journal.c is a step of the abstract service or invisible to it.
LEMMA ServiceStep ==
  ASSUME IInv, MainInv, [Next]_vars
  PROVE  [Service!SNext]_(Service!svars)
<1>1. CASE UNCHANGED vars \/ Terminated
  BY <1>1 DEF Terminated, vars, Service!svars
<1>2. CASE Next /\ pc["main"] # "exited"
  <2>0. \A e \in Event : N(e) \in 0 .. NUM_TESTS
    BY StageBounds
  <2>1. CASE /\ \A e \in Event : N(e)' = N(e)
             /\ pc'["main"] # "exited"
    BY <1>2, <2>1, SMTT(30) DEF Service!svars, N, Event
  <2>2. CASE Return
    <3>1. /\ pc["main"] = "sleep" /\ pc'["main"] = "exited" /\ UNCHANGED done
          /\ N("requested") = NUM_TESTS
      BY <2>2 DEF Return, At, Goto, MainInv, IInv, TypeOK, PcOK, Thread
    <3>2. Service!Stop
      BY <3>1 DEF Service!Stop, N
    <3>3. QED
      BY <3>2 DEF Service!SNext
  <2>3. ASSUME NEW t \in Thread, NEW f \in Event,
               pc'["main"] # "exited", N(f)' = N(f) + 1,
               \A e \in Event \ {f} : N(e)' = N(e)
        PROVE  /\ f = "requested" /\ pc["main"] = "enqueue" => Service!RequestWrite
               /\ f = "jinode" /\ pc["metaDataWrite"] = f => Service!Journal
               /\ f = "txe" /\ pc["journalCommit"] = f => Service!Commit
               /\ f = "inode" /\ pc["journalCommitComplete"] = f => Service!Checkpoint
               /\ f = "complete" /\ pc["journalCommitComplete"] = f => Service!Complete
               /\ f \notin {"requested", "jinode", "txe", "inode", "complete"}
                    => UNCHANGED Service!svars
    <3> DEFINE Kept(e) == Len(done'[e]) = Len(done[e])
    <3>1. \A e \in Event \ {f} : Kept(e)
      BY <2>3 DEF N
    <3>2. Len(done'[f]) = Len(done[f]) + 1
      BY <2>3 DEF N
    <3>3. (pc'["main"] = "exited") = (pc["main"] = "exited") /\ pc["main"] # "exited"
      BY <1>2, <2>3
    <3>4. f = "requested" /\ pc["main"] = "enqueue" => Service!RequestWrite
      <4>1. Holding("main") /\ pc["main"] = "enqueue"
              => wr["main"] = N("requested") + 1 /\ wr["main"] \in 1 .. NUM_TESTS
        BY HandIsRequest DEF IInv, HandInv, Thread, Request
      <4>2. pc["main"] = "enqueue" => /\ Len(done["requested"]) < NUM_TESTS
                                      /\ Len(done["requested"])
                                           < Len(done["jinode"]) + BUFFER_SIZE
        BY <4>1, StageBounds, NumTestsAssumption DEF Holding, N, Event
      <4>3. QED
        BY <3>1, <3>2, <3>3, <4>2 DEF Service!RequestWrite, Event
    <3>5. f = "jinode" /\ pc["metaDataWrite"] = f => Service!Journal
      BY <3>1, <3>2, <3>3, StageBounds DEF Service!Journal, N, Event
    <3>6. f = "txe" /\ pc["journalCommit"] = f => Service!Commit
      BY <3>1, <3>2, <3>3, StageBounds DEF Service!Commit, N, Event
    <3>7. f = "inode" /\ pc["journalCommitComplete"] = f => Service!Checkpoint
      BY <2>0, <3>1, <3>2, <3>3, StageBounds DEF Service!Checkpoint, N, Event
    <3>8. f = "complete" /\ pc["journalCommitComplete"] = f => Service!Complete
      BY <3>1, <3>2, <3>3, StageBounds DEF Service!Complete, N, Event
    <3>9. f \notin {"requested", "jinode", "txe", "inode", "complete"}
            => UNCHANGED Service!svars
      BY <3>1, <3>3 DEF Service!svars, Event
    <3>10. QED
      BY <3>4, <3>5, <3>6, <3>7, <3>8, <3>9
  <2>4. QED
    BY <1>2, <2>1, <2>2, <2>3, StageStep DEF Service!SNext
<1>3. QED
  BY <1>1, <1>2, NothingAfterExit

\* journal.c implements the abstract service: the stages advance one request at
\* a time, never overtake each other, and stay within what the buffers hold.
THEOREM ServiceImplemented == Spec => ImplementsService
<1>1. IInv /\ MainInv /\ [Next]_vars => MainInv' /\ [Service!SNext]_(Service!svars)
  BY MainStep, ServiceStep
<1>2. QED
  BY <1>1, ServiceInit, Invariance, PTL DEF Spec, ImplementsService, Service!SSpec

=============================================================================
