---------------------------- MODULE JournalOrder ----------------------------
(***************************************************************************)
(* Where every request of the journaling service is: the order of the      *)
(* writes, and what a step adds to the counts of its event.                *)
(***************************************************************************)
EXTENDS JournalInv

\* Recording one more request for event e.
LEMMA OneMore ==
  ASSUME TypeOK, NEW e \in Event, NEW r \in Request,
         done' = [done EXCEPT ![e] = Append(@, r)]
  PROVE  /\ N(e)' = N(e) + 1
         /\ \A f \in Event \ {e} : done'[f] = done[f] /\ N(f)' = N(f)
         /\ done'[e][N(e) + 1] = r
         /\ \A i \in 1 .. N(e) : done'[e][i] = done[e][i]
<1>1. done \in [Event -> Seq(Request)] /\ done[e] \in Seq(Request)
  BY DEF TypeOK
<1>2. done'[e] = Append(done[e], r)
  BY <1>1
<1>3. QED
  BY <1>1, <1>2 DEF N

\* The writes of a thread follow each other in the order of its code.
LEMMA ChainStep ==
  ASSUME IInv, Next
  PROVE  ChainInv'
<1> USE DEF At, Goto
<1>0. /\ ChainInv /\ PcOK
      /\ done \in [Event -> Seq(Request)]
      /\ \A e \in Event : N(e) \in Int
      /\ \A t \in Thread : Holding(t) => wr[t] \in Request
  BY HandIsRequest DEF IInv, TypeOK, N
<1>1. CASE \E t \in Worker : WaitItem(t, "lockIn")
  BY <1>0, <1>1, Zenon
     DEF ChainInv, PcOK, Worker, Forwarder, Thread, One, N, Event, Holding,
     WaitItem
<1>2. CASE \E t \in Thread : LockStep(t)
  BY <1>0, <1>2, ZenonT(60)
     DEF ChainInv, PcOK, Worker, Forwarder, Thread, One, N, Event, Holding,
     LockStep, Lock
<1>3. CASE \E t \in Thread : UnlockStep(t)
  BY <1>0, <1>3, ZenonT(60)
     DEF ChainInv, PcOK, Worker, Forwarder, Thread, One, N, Event, Holding,
     UnlockStep, Unlock
<1>4. CASE \E t \in Worker : Dequeue(t, FirstWrite[t])
  <2>1. PICK t \in Worker : Dequeue(t, FirstWrite[t])
    BY <1>4
  <2>2. /\ UNCHANGED done
        /\ pc[t] = "dequeue" /\ pc'[t] \in {"data", "txe", "bitmap"}
        /\ \A s \in Thread \ {t} : pc'[s] = pc[s]
    BY <1>0, <2>1 DEF Dequeue, FirstWrite, PcOK, Worker, Thread
  <2>3. QED
    BY <1>0, <2>1, <2>2, Zenon DEF ChainInv, One, N, Thread, Worker
<1>5. CASE \E t \in Thread : WriteStep(t)
  <2>1. PICK t \in Thread : WriteStep(t)
    BY <1>5
  <2>2. wr[t] \in Request
    BY <1>0, <2>1 DEF WriteStep, Write, Holding
  <2>3. \A e \in Event : \A l : Write(t, e, l)
          => /\ N(e)' = N(e) + 1 /\ \A f \in Event \ {e} : N(f)' = N(f)
             /\ pc[t] = e /\ pc'[t] = l
             /\ \A s \in Thread \ {t} : pc'[s] = pc[s]
    BY <1>0, <2>2, OneMore, Zenon DEF Write, PcOK, IInv
  <2>4. CASE t = "metaDataWrite"
    <3>0. N("data") \in Int /\ N("txb") \in Int /\ N("jbitmap") \in Int /\ N("jinode") \in Int
      BY <1>0 DEF Event
    <3>1. /\ pc'["journalCommitComplete"] = pc["journalCommitComplete"]
          /\ N("bitmap")' = N("bitmap") /\ N("inode")' = N("inode") /\ N("complete")' = N("complete")
      BY <2>1, <2>3, <2>4 DEF WriteStep, Event, Thread, Worker
    <3>2. CASE Write(t, "data", "txb")
      <4>1. /\ pc["metaDataWrite"] = "data" /\ pc'["metaDataWrite"] = "txb"
            /\ N("data")' = N("data") + 1
            /\ N("txb")' = N("txb") /\ N("jbitmap")' = N("jbitmap") /\ N("jinode")' = N("jinode")
        BY <2>3, <2>4, <3>2 DEF Event
      <4>2. QED
        BY <1>0, <3>0, <3>1, <4>1 DEF ChainInv, One
    <3>3. CASE Write(t, "txb", "jbitmap")
      <4>1. /\ pc["metaDataWrite"] = "txb" /\ pc'["metaDataWrite"] = "jbitmap"
            /\ N("txb")' = N("txb") + 1
            /\ N("data")' = N("data") /\ N("jbitmap")' = N("jbitmap") /\ N("jinode")' = N("jinode")
        BY <2>3, <2>4, <3>3 DEF Event
      <4>2. QED
        BY <1>0, <3>0, <3>1, <4>1 DEF ChainInv, One
    <3>4. CASE Write(t, "jbitmap", "jinode")
      <4>1. /\ pc["metaDataWrite"] = "jbitmap" /\ pc'["metaDataWrite"] = "jinode"
            /\ N("jbitmap")' = N("jbitmap") + 1
            /\ N("data")' = N("data") /\ N("txb")' = N("txb") /\ N("jinode")' = N("jinode")
        BY <2>3, <2>4, <3>4 DEF Event
      <4>2. QED
        BY <1>0, <3>0, <3>1, <4>1 DEF ChainInv, One
    <3>5. CASE Write(t, "jinode", "unlockIn")
      <4>1. /\ pc["metaDataWrite"] = "jinode" /\ pc'["metaDataWrite"] = "unlockIn"
            /\ N("jinode")' = N("jinode") + 1
            /\ N("data")' = N("data") /\ N("txb")' = N("txb") /\ N("jbitmap")' = N("jbitmap")
        BY <2>3, <2>4, <3>5 DEF Event
      <4>2. QED
        BY <1>0, <3>0, <3>1, <4>1 DEF ChainInv, One
    <3>6. QED
      BY <2>1, <2>4, <3>2, <3>3, <3>4, <3>5 DEF WriteStep
  <2>5. CASE t = "journalCommitComplete"
    <3>0. N("bitmap") \in Int /\ N("inode") \in Int /\ N("complete") \in Int
      BY <1>0 DEF Event
    <3>1. /\ pc'["metaDataWrite"] = pc["metaDataWrite"]
          /\ N("data")' = N("data") /\ N("txb")' = N("txb") /\ N("jbitmap")' = N("jbitmap") /\ N("jinode")' = N("jinode")
      BY <2>1, <2>3, <2>5 DEF WriteStep, Event, Thread, Worker
    <3>2. CASE Write(t, "bitmap", "inode")
      <4>1. /\ pc["journalCommitComplete"] = "bitmap" /\ pc'["journalCommitComplete"] = "inode"
            /\ N("bitmap")' = N("bitmap") + 1
            /\ N("inode")' = N("inode") /\ N("complete")' = N("complete")
        BY <2>3, <2>5, <3>2 DEF Event
      <4>2. QED
        BY <1>0, <3>0, <3>1, <4>1 DEF ChainInv, One
    <3>3. CASE Write(t, "inode", "unlockIn")
      <4>1. /\ pc["journalCommitComplete"] = "inode" /\ pc'["journalCommitComplete"] = "unlockIn"
            /\ N("inode")' = N("inode") + 1
            /\ N("bitmap")' = N("bitmap") /\ N("complete")' = N("complete")
        BY <2>3, <2>5, <3>3 DEF Event
      <4>2. QED
        BY <1>0, <3>0, <3>1, <4>1 DEF ChainInv, One
    <3>4. CASE Write(t, "complete", "waitItem")
      <4>1. /\ pc["journalCommitComplete"] = "complete" /\ pc'["journalCommitComplete"] = "waitItem"
            /\ N("complete")' = N("complete") + 1
            /\ N("bitmap")' = N("bitmap") /\ N("inode")' = N("inode")
        BY <2>3, <2>5, <3>4 DEF Event
      <4>2. QED
        BY <1>0, <3>0, <3>1, <4>1 DEF ChainInv, One
    <3>5. QED
      BY <2>1, <2>5, <3>2, <3>3, <3>4 DEF WriteStep
  <2>6. QED
    BY <2>1, <2>4, <2>5 DEF WriteStep
<1>6. CASE issue_journal_txe("journalCommit", "unlockIn")
  <2>1. wr["journalCommit"] \in Request
    BY <1>0, <1>6 DEF issue_journal_txe, Holding, Thread, Worker
  <2>2. /\ \A f \in Event \ {"txe"} : N(f)' = N(f)
        /\ \A s \in Thread \ {"journalCommit"} : pc'[s] = pc[s]
    BY <1>0, <1>6, <2>1, OneMore, Zenon
       DEF issue_journal_txe, PcOK, Event, IInv, Thread, Worker
  <2>3. QED
    BY <1>0, <2>2, Zenon DEF ChainInv, One, Event, Thread, Worker
<1>7. CASE \E t \in Thread : PostSpaceStep(t)
  BY <1>0, <1>7, ZenonT(60)
     DEF ChainInv, PcOK, Worker, Forwarder, Thread, One, N, Event, Holding,
     PostSpaceStep, PostSpace
<1>8. CASE \E t \in Forwarder : CheckFull(t)
  BY <1>0, <1>8, Zenon
     DEF ChainInv, PcOK, Worker, Forwarder, Thread, One, N, Event, Holding,
     CheckFull
<1>9. CASE \E t \in Thread : WaitSpaceStep(t)
  BY <1>0, <1>9, Zenon
     DEF ChainInv, PcOK, Worker, Forwarder, Thread, One, N, Event, Holding,
     WaitSpaceStep, WaitSpace
<1>10. CASE \E t \in Thread : EnqueueStep(t)
  BY <1>0, <1>10, ZenonT(60)
     DEF ChainInv, PcOK, Worker, Forwarder, Thread, One, N, Event, Holding,
     EnqueueStep, Enqueue
<1>11. CASE \E t \in Thread : PostItemStep(t)
  BY <1>0, <1>11, ZenonT(60)
     DEF ChainInv, PcOK, Worker, Forwarder, Thread, One, N, Event, Holding,
     PostItemStep, PostItem
<1>12. CASE NextTest
  BY <1>0, <1>12, Zenon
     DEF ChainInv, PcOK, Worker, Forwarder, Thread, One, N, Event, Holding,
     NextTest
<1>13. CASE Return
  BY <1>0, <1>13, Zenon
     DEF ChainInv, PcOK, Worker, Forwarder, Thread, One, N, Event, Holding,
     Return
<1>14. CASE \E r \in Request : threadSleep(r)
  BY <1>0, <1>14, Zenon
     DEF ChainInv, PcOK, Worker, Forwarder, Thread, One, N, Event, Holding,
     threadSleep
<1>15. CASE Terminated
  BY <1>0, <1>15, Zenon
     DEF ChainInv, PcOK, Worker, Forwarder, Thread, One, N, Event, Holding,
     Terminated, vars
<1>16. QED
  BY <1>1, <1>2, <1>3, <1>4, <1>5, <1>6, <1>7, <1>8, <1>9, <1>10, <1>11, <1>12,
     <1>13, <1>14, <1>15, StepKinds


\* The steps that neither take, write, nor hand on a request.
QuietStep == \/ \E t \in Worker : WaitItem(t, "lockIn")
             \/ \E t \in Thread : LockStep(t)
             \/ \E t \in Thread : UnlockStep(t)
             \/ \E t \in Thread : PostSpaceStep(t)
             \/ \E t \in Forwarder : CheckFull(t)
             \/ \E t \in Thread : WaitSpaceStep(t)
             \/ \E t \in Thread : PostItemStep(t)
             \/ NextTest
             \/ Return
             \/ \E r \in Request : threadSleep(r)
             \/ Terminated

\* A quiet step leaves the buffers, the writes and every worker's hand alone.
LEMMA QuietFrame ==
  ASSUME TypeOK, QuietStep
  PROVE  /\ UNCHANGED <<buf, done>>
         /\ \A t \in Worker : /\ wr'[t] = wr[t]
                              /\ Holding(t)' <=> Holding(t)
                              /\ pc'[t] = FirstWrite[t] <=> pc[t] = FirstWrite[t]
<1> USE DEF At, Goto, Holding, FirstWrite, PcOK, Worker, Thread, Forwarder
<1>0. PcOK /\ wr \in [Thread -> Request \cup {NoRequest}]
  BY DEF TypeOK
<1>1. CASE \E t \in Worker : WaitItem(t, "lockIn")
  BY <1>0, <1>1 DEF WaitItem
<1>2. CASE \E t \in Thread : LockStep(t)
  BY <1>0, <1>2 DEF LockStep, Lock
<1>3. CASE \E t \in Thread : UnlockStep(t)
  BY <1>0, <1>3 DEF UnlockStep, Unlock
<1>4. CASE \E t \in Thread : PostSpaceStep(t)
  BY <1>0, <1>4 DEF PostSpaceStep, PostSpace
<1>5. CASE \E t \in Forwarder : CheckFull(t)
  BY <1>0, <1>5 DEF CheckFull
<1>6. CASE \E t \in Thread : WaitSpaceStep(t)
  BY <1>0, <1>6 DEF WaitSpaceStep, WaitSpace
<1>7. CASE \E t \in Thread : PostItemStep(t)
  BY <1>0, <1>7 DEF PostItemStep, PostItem
<1>8. CASE NextTest
  BY <1>0, <1>8 DEF NextTest
<1>9. CASE Return
  BY <1>0, <1>9 DEF Return
<1>10. CASE \E r \in Request : threadSleep(r)
  BY <1>0, <1>10 DEF threadSleep
<1>11. CASE Terminated
  BY <1>0, <1>11 DEF Terminated, vars
<1>12. QED
  BY <1>1, <1>2, <1>3, <1>4, <1>5, <1>6, <1>7, <1>8, <1>9, <1>10, <1>11, SMTT(30)
     DEF QuietStep

\* The request a worker writes is the next one for that write.
LEMMA WriteNumber ==
  ASSUME IInv, NEW t \in Worker, NEW e \in Event, pc[t] = e
  PROVE  wr[t] = N(e) + 1 /\ wr[t] \in Request
<1>1. wr[t] = Taken[t] /\ wr[t] \in Request
  BY HandIsRequest, SMTT(30) DEF IInv, HandInv, Holding, PcOK, TypeOK, Label, WorkerLabel,
     ForwardLabel, Worker, Thread, Event
<1>2. \A f \in Event : N(f) \in Int
  BY EventCounts DEF IInv
<1>3. CASE t = "metaDataWrite"
  <2>1. e \in {"data", "txb", "jbitmap", "jinode"}
    BY <1>3, Labels, Zenon DEF IInv, TypeOK, PcOK, Event, Thread
  <2>2. QED
    BY <1>1, <1>2, <1>3, <2>1 DEF Taken, One, IInv, ChainInv, Event
<1>4. CASE t = "journalCommit"
  <2>1. e = "txe"
    BY <1>4, Labels, Zenon DEF IInv, TypeOK, PcOK, Event, Thread, Worker
  <2>2. QED
    BY <1>1, <1>2, <1>4, <2>1 DEF Taken, One, Event
<1>5. CASE t = "journalCommitComplete"
  <2>1. e \in {"bitmap", "inode", "complete"}
    BY <1>5, Labels, Zenon DEF IInv, TypeOK, PcOK, Event, Thread, Worker
  <2>2. QED
    BY <1>1, <1>2, <1>5, <2>1 DEF Taken, One, IInv, ChainInv, Event
<1>6. QED
  BY <1>3, <1>4, <1>5 DEF Worker

\* Extending the record of e by its next request keeps it in order.
LEMMA AppendInOrder ==
  ASSUME TypeOK, InOrder, NEW e \in Event, N(e) + 1 \in Request,
         done' = [done EXCEPT ![e] = Append(@, N(e) + 1)]
  PROVE  InOrder'
<1>1. N(e) \in Nat /\ N(e)' = N(e) + 1
  BY OneMore DEF N, TypeOK
<1>2. ASSUME NEW f \in Event, NEW i \in 1 .. Len(done'[f])
      PROVE  done'[f][i] = i
  <2>1. CASE f # e
    BY <1>2, <2>1, OneMore DEF InOrder
  <2>2. CASE f = e /\ i = N(e) + 1
    BY <2>2, OneMore, ZenonT(60)
  <2>3. CASE f = e /\ i # N(e) + 1
    <3>1. i \in 1 .. N(e)
      BY <1>1, <1>2, <2>3 DEF N
    <3>2. QED
      BY <2>3, <3>1, OneMore DEF InOrder, N
  <2>4. QED
    BY <2>1, <2>2, <2>3
<1>3. QED
  BY <1>2 DEF InOrder

\* Every write happens to the requests in the order they were made.
LEMMA InOrderStep ==
  ASSUME IInv, Next
  PROVE  InOrder'
<1> USE DEF At, Goto
<1>0. TypeOK /\ InOrder
  BY DEF IInv
<1>1. CASE QuietStep \/ \E t \in Worker : Dequeue(t, FirstWrite[t])
  <2>1. UNCHANGED done
    BY <1>0, <1>1, QuietFrame DEF Dequeue
  <2>2. QED
    BY <1>0, <2>1 DEF InOrder
<1>2. CASE \E t \in Thread : WriteStep(t)
  <2>1. PICK t \in Worker : \E e \in Event : \E l : Write(t, e, l)
    BY <1>2 DEF WriteStep, Worker, Event
  <2>2. PICK e \in Event : \E l : Write(t, e, l)
    BY <2>1
  <2>3. wr[t] = N(e) + 1 /\ wr[t] \in Request
    BY <2>2, WriteNumber DEF Write
  <2>4. QED
    BY <1>0, <2>2, <2>3, AppendInOrder, Zenon DEF Write
<1>3. CASE issue_journal_txe("journalCommit", "unlockIn")
  <2>1. "journalCommit" \in Worker /\ "txe" \in Event
    BY DEF Worker, Event
  <2>2. wr["journalCommit"] = N("txe") + 1 /\ wr["journalCommit"] \in Request
    BY <1>3, <2>1, WriteNumber DEF issue_journal_txe
  <2>3. QED
    BY <1>0, <1>3, <2>1, <2>2, AppendInOrder, Zenon DEF issue_journal_txe
<1>4. CASE \E t \in Thread : EnqueueStep(t)
  <2>1. CASE UNCHANGED done
    BY <1>0, <2>1 DEF InOrder
  <2>2. CASE done' = [done EXCEPT !["requested"] = Append(@, wr["main"])]
             /\ Enqueue("main", "unlockOut")
    <3>1. "main" \in Thread /\ "requested" \in Event /\ Holding("main")
      BY <2>2 DEF Enqueue, Holding, Thread, Event
    <3>2. wr["main"] = N("requested") + 1 /\ wr["main"] \in Request
      BY <3>1, HandIsRequest DEF IInv, HandInv
    <3>3. QED
      BY <1>0, <2>2, <3>1, <3>2, AppendInOrder, Zenon
  <2>3. QED
    BY <1>4, <2>1, <2>2 DEF EnqueueStep
<1>5. QED
  BY <1>1, <1>2, <1>3, <1>4, StepKinds DEF QuietStep


\* A quiet step takes nothing and gives nothing.
LEMMA QuietCounts ==
  ASSUME TypeOK, QuietStep
  PROVE  /\ \A t \in Worker : Taken'[t] = Taken[t]
         /\ \A t \in Forwarder \cup {"main"} : Given'[t] = Given[t]
BY QuietFrame, Zenon DEF Taken, Given, One, N, Worker, Forwarder, FirstWrite

\* A write takes nothing and gives nothing.
LEMMA WriteCounts ==
  ASSUME IInv,
         \/ \E t \in Thread : WriteStep(t)
         \/ issue_journal_txe("journalCommit", "unlockIn")
  PROVE  /\ UNCHANGED <<buf, wr>>
         /\ N("requested")' = N("requested") /\ pc'["main"] = pc["main"]
         /\ \A t \in Worker : Taken'[t] = Taken[t] /\ (Holding(t)' => Holding(t))
         /\ \A t \in Forwarder \cup {"main"} : Given'[t] = Given[t]
<1> USE DEF At, Goto
<1>0. PcOK /\ \A e \in Event : N(e) \in Int
  BY EventCounts DEF IInv, TypeOK
<1>1. CASE issue_journal_txe("journalCommit", "unlockIn")
  <2>1. wr["journalCommit"] \in Request /\ "txe" \in Event
    BY <1>1, WriteNumber DEF issue_journal_txe, Worker, Event
  <2>2. /\ N("txe")' = N("txe") + 1 /\ N("data")' = N("data")
        /\ N("bitmap")' = N("bitmap") /\ N("requested")' = N("requested")
    BY <1>1, <2>1, OneMore, ZenonT(60) DEF issue_journal_txe, IInv, Event
  <2>3. /\ pc["journalCommit"] = "txe" /\ pc'["journalCommit"] = "unlockIn"
        /\ pc'["metaDataWrite"] = pc["metaDataWrite"]
        /\ pc'["journalCommitComplete"] = pc["journalCommitComplete"]
        /\ pc'["main"] = pc["main"]
        /\ UNCHANGED <<buf, wr>>
    BY <1>0, <1>1 DEF issue_journal_txe, PcOK, Thread, Worker
  <2>4. N("txe") \in Int
    BY <1>0 DEF Event
  <2>5. QED
    BY <2>2, <2>3, <2>4, SMTT(30) DEF Taken, Given, One, Holding, Worker, Forwarder
<1>2. CASE \E t \in Thread : WriteStep(t)
  <2>1. PICK t \in Worker : WriteStep(t)
    BY <1>2 DEF WriteStep, Worker
  <2>2. PICK e \in Event : \E l : Write(t, e, l)
    BY <2>1 DEF WriteStep, Event
  <2>3. wr[t] \in Request
    BY <2>2, WriteNumber DEF Write
  <2>4. N(e)' = N(e) + 1 /\ \A f \in Event \ {e} : N(f)' = N(f)
    BY <2>2, <2>3, OneMore, Zenon DEF Write, IInv
  <2>5. /\ UNCHANGED <<buf, wr>>
        /\ \A s \in Thread \ {t} : pc'[s] = pc[s]
        /\ pc[t] = e
    BY <1>0, <2>2 DEF Write, PcOK
  <2>6. /\ pc'["main"] = pc["main"] /\ e # "requested" /\ e # "txe"
        /\ pc'["journalCommit"] = pc["journalCommit"]
    BY <2>1, <2>5, SMTT(30) DEF WriteStep, Write, Thread, Worker
  <2>7. N("requested")' = N("requested") /\ N("txe")' = N("txe")
    BY <2>4, <2>6 DEF Event
  <2>8. CASE t = "metaDataWrite"
    <3>1. /\ pc'["journalCommitComplete"] = pc["journalCommitComplete"]
          /\ N("bitmap")' = N("bitmap")
      BY <2>1, <2>4, <2>5, <2>8, SMTT(30) DEF WriteStep, Write, Event, Thread, Worker
    <3>2. /\ N("data")' + One(pc'["metaDataWrite"] = "data")
               = N("data") + One(pc["metaDataWrite"] = "data")
          /\ Holding("metaDataWrite") /\ Holding("metaDataWrite")'
      <4>1. pc["metaDataWrite"] = "data" => N("data")' = N("data") + 1
        BY <2>4, <2>5, <2>8
      <4>2. pc["metaDataWrite"] # "data" => N("data")' = N("data")
        BY <2>4, <2>5, <2>8 DEF Event
      <4>3. /\ pc["metaDataWrite"] \in {"data", "txb", "jbitmap", "jinode"}
            /\ pc'["metaDataWrite"] \in {"txb", "jbitmap", "jinode", "unlockIn"}
        BY <1>0, <2>1, <2>8, SMTT(30) DEF WriteStep, Write, PcOK, Thread, Worker
      <4>4. N("data") \in Int
        BY <1>0 DEF Event
      <4>5. QED
        BY <4>1, <4>2, <4>3, <4>4 DEF One, Holding
    <3>3. QED
      BY <2>5, <2>6, <2>7, <3>1, <3>2, SMTT(30)
         DEF Taken, Given, Holding, Worker, Forwarder, One
  <2>9. CASE t = "journalCommitComplete"
    <3>1. pc'["metaDataWrite"] = pc["metaDataWrite"] /\ N("data")' = N("data")
      BY <2>1, <2>4, <2>5, <2>9, SMTT(30) DEF WriteStep, Write, Event, Thread, Worker
    <3>2. /\ N("bitmap")' + One(pc'["journalCommitComplete"] = "bitmap")
               = N("bitmap") + One(pc["journalCommitComplete"] = "bitmap")
          /\ Holding("journalCommitComplete")
      <4>1. pc["journalCommitComplete"] = "bitmap" => N("bitmap")' = N("bitmap") + 1
        BY <2>4, <2>5, <2>9
      <4>2. pc["journalCommitComplete"] # "bitmap" => N("bitmap")' = N("bitmap")
        BY <2>4, <2>5, <2>9 DEF Event
      <4>3. /\ pc["journalCommitComplete"] \in {"bitmap", "inode", "complete"}
            /\ pc'["journalCommitComplete"] \in {"inode", "unlockIn", "waitItem"}
        BY <1>0, <2>1, <2>9, SMTT(30) DEF WriteStep, Write, PcOK, Thread, Worker
      <4>4. N("bitmap") \in Int
        BY <1>0 DEF Event
      <4>5. QED
        BY <4>1, <4>2, <4>3, <4>4 DEF One, Holding
    <3>3. QED
      BY <2>5, <2>6, <2>7, <3>1, <3>2
         DEF Taken, Given, Holding, Worker, Forwarder, One
  <2>10. QED
    BY <2>1, <2>8, <2>9 DEF WriteStep
<1>3. QED
  BY <1>1, <1>2

\* dequeue takes one request and gives none.
LEMMA DequeueCounts ==
  ASSUME IInv, NEW t \in Worker, Dequeue(t, FirstWrite[t])
  PROVE  /\ Taken'[t] = Taken[t] + 1
         /\ \A s \in Worker \ {t} : Taken'[s] = Taken[s]
         /\ \A s \in Forwarder \cup {"main"} : Given'[s] = Given[s]
         /\ \A s \in Thread \ {t} : pc'[s] = pc[s] /\ wr'[s] = wr[s]
         /\ wr'[t] = Front(buf[In[t]]) /\ UNCHANGED done
<1>0. \A e \in Event : N(e) \in Int
  BY EventCounts DEF IInv
<1>1. /\ pc[t] = "dequeue" /\ pc'[t] = FirstWrite[t]
      /\ \A s \in Thread \ {t} : pc'[s] = pc[s] /\ wr'[s] = wr[s]
      /\ wr'[t] = Front(buf[In[t]]) /\ UNCHANGED done
  BY DEF Dequeue, At, Goto, IInv, TypeOK, PcOK, Thread, Worker
<1>2. \A e \in Event : N(e)' = N(e)
  BY <1>1 DEF N
<1>3. /\ Taken'[t] = Taken[t] + 1
      /\ \A s \in Worker \ {t} : Taken'[s] = Taken[s]
  <2>1. /\ N("data") \in Int /\ N("data")' = N("data")
        /\ N("txe") \in Int /\ N("txe")' = N("txe")
        /\ N("bitmap") \in Int /\ N("bitmap")' = N("bitmap")
    BY <1>0, <1>2 DEF Event
  <2>2. /\ Taken["metaDataWrite"] = N("data") + One(pc["metaDataWrite"] = "data")
        /\ Taken["journalCommit"] = N("txe") + One(pc["journalCommit"] = "txe")
        /\ Taken["journalCommitComplete"]
             = N("bitmap") + One(pc["journalCommitComplete"] = "bitmap")
    BY DEF Taken
  <2>3. /\ Taken'["metaDataWrite"]
             = N("data")' + One(pc'["metaDataWrite"] = "data")
        /\ Taken'["journalCommit"]
             = N("txe")' + One(pc'["journalCommit"] = "txe")
        /\ Taken'["journalCommitComplete"]
             = N("bitmap")' + One(pc'["journalCommitComplete"] = "bitmap")
    BY DEF Taken, One
  <2>4. CASE t = "metaDataWrite"
    <3>1. /\ pc["metaDataWrite"] = "dequeue" /\ pc'["metaDataWrite"] = "data"
          /\ pc'["journalCommit"] = pc["journalCommit"]
          /\ pc'["journalCommitComplete"] = pc["journalCommitComplete"]
      BY <1>1, <2>4 DEF FirstWrite, Thread, Worker
    <3>2. QED
      BY <2>1, <2>2, <2>3, <2>4, <3>1 DEF One, Worker
  <2>5. CASE t = "journalCommit"
    <3>1. /\ pc["journalCommit"] = "dequeue" /\ pc'["journalCommit"] = "txe"
          /\ pc'["metaDataWrite"] = pc["metaDataWrite"]
          /\ pc'["journalCommitComplete"] = pc["journalCommitComplete"]
      BY <1>1, <2>5 DEF FirstWrite, Thread, Worker
    <3>2. QED
      BY <2>1, <2>2, <2>3, <2>5, <3>1 DEF One, Worker
  <2>6. CASE t = "journalCommitComplete"
    <3>1. /\ pc["journalCommitComplete"] = "dequeue"
          /\ pc'["journalCommitComplete"] = "bitmap"
          /\ pc'["metaDataWrite"] = pc["metaDataWrite"]
          /\ pc'["journalCommit"] = pc["journalCommit"]
      BY <1>1, <2>6 DEF FirstWrite, Thread, Worker
    <3>2. QED
      BY <2>1, <2>2, <2>3, <2>6, <3>1 DEF One, Worker
  <2>7. QED
    BY <2>4, <2>5, <2>6 DEF Worker
<1>4. /\ \A s \in Forwarder \ {t} : Holding(s)' <=> Holding(s)
      /\ ~Holding(t) /\ Holding(t)'
  BY <1>1 DEF Holding, FirstWrite, Worker, Forwarder, Thread
<1>5. /\ N("requested")' = N("requested") /\ \A s \in Worker : Taken[s] \in Int
  BY <1>2, HandCounts DEF Event
<1>6. \A s \in Forwarder \cup {"main"} : Given'[s] = Given[s]
  BY <1>3, <1>4, <1>5 DEF Given, One, Worker, Forwarder
<1>7. QED
  BY <1>1, <1>3, <1>6, SMTT(30)

\* enqueue gives one request and takes none.
LEMMA EnqueueCounts ==
  ASSUME IInv, NEW t \in Forwarder \cup {"main"}, EnqueueStep(t)
  PROVE  /\ Given'[t] = Given[t] + 1
         /\ \A s \in (Forwarder \cup {"main"}) \ {t} : Given'[s] = Given[s]
         /\ \A s \in Worker : Taken'[s] = Taken[s]
         /\ \A s \in Thread \ {t} : pc'[s] = pc[s]
         /\ pc[t] = "enqueue" /\ pc'[t] \in {"postItem", "unlockOut"}
         /\ wr[t] = Given[t] + 1 /\ wr[t] \in Request /\ UNCHANGED wr
         /\ t # "main" => N("requested")' = N("requested")
<1>0. \A e \in Event : N(e) \in Int
  BY EventCounts DEF IInv
<1>1. /\ pc[t] = "enqueue" /\ pc'[t] \in {"postItem", "unlockOut"}
      /\ \A s \in Thread \ {t} : pc'[s] = pc[s] /\ UNCHANGED wr
  BY DEF EnqueueStep, Enqueue, At, Goto, IInv, TypeOK, PcOK, Thread, Worker,
         Forwarder
<1>2. Holding(t) /\ t \in Thread
  BY <1>1 DEF Holding, Thread, Worker, Forwarder
<1>3. wr[t] \in Request
  BY <1>2, HandIsRequest
<1>4. wr[t] = Given[t] + 1
  BY <1>0, <1>2, SMTT(30) DEF IInv, HandInv, Given, Taken, One, Worker, Forwarder, Event
<1>5. /\ \A e \in Event \ {"requested"} : N(e)' = N(e)
      /\ N("requested")' = IF t = "main" THEN N("requested") + 1
                                          ELSE N("requested")
  <2>1. CASE t = "main"
    BY <1>3, <2>1, OneMore DEF EnqueueStep, IInv, Event
  <2>2. CASE t # "main"
    BY <2>2 DEF EnqueueStep, N
  <2>3. QED
    BY <2>1, <2>2
<1>6. /\ N("data")' = N("data") /\ N("txe")' = N("txe")
      /\ N("bitmap")' = N("bitmap")
      /\ N("data") \in Int /\ N("txe") \in Int /\ N("bitmap") \in Int
      /\ N("requested") \in Int
  BY <1>0, <1>5 DEF Event
<1>7. UNCHANGED wr
  BY DEF EnqueueStep, Enqueue
<1>8. /\ \A s \in Worker : Taken'[s] = Taken[s] /\ Taken[s] \in Int
      /\ \A s \in Thread \ {t} : pc'[s] = pc[s] /\ (Holding(s)' <=> Holding(s))
      /\ Holding(t) /\ ~Holding(t)'
  <2>1. /\ \A s \in Thread \ {t} : pc'[s] = pc[s] /\ (Holding(s)' <=> Holding(s))
        /\ Holding(t) /\ ~Holding(t)'
    BY <1>1 DEF Holding
  <2>2. \A s \in Worker : (pc'[s] = FirstWrite[s]) = (pc[s] = FirstWrite[s])
    BY <1>1 DEF FirstWrite, Worker, Thread
  <2>3. \A s \in Worker : Taken'[s] = Taken[s] /\ Taken[s] \in Int
    BY <1>6, <2>2 DEF Taken, One, Worker, FirstWrite
  <2>4. QED
    BY <2>1, <2>3
<1>9. /\ Given'[t] = Given[t] + 1
      /\ \A s \in (Forwarder \cup {"main"}) \ {t} : Given'[s] = Given[s]
  <2>1. CASE t = "main"
    BY <1>5, <1>6, <1>8, <2>1 DEF Given, One, Worker, Forwarder, Thread
  <2>2. CASE t = "metaDataWrite"
    BY <1>5, <1>6, <1>8, <2>2 DEF Given, One, Worker, Forwarder, Thread
  <2>3. CASE t = "journalCommit"
    BY <1>5, <1>6, <1>8, <2>3 DEF Given, One, Worker, Forwarder, Thread
  <2>4. QED
    BY <2>1, <2>2, <2>3 DEF Forwarder
<1>10. QED
  BY <1>1, <1>3, <1>4, <1>5, <1>7, <1>8, <1>9
=============================================================================
