------------------------------ MODULE RRProofs ------------------------------
(***************************************************************************)
(* The theorems about the round-robin scheduler, for any number of harts   *)
(* and processes and any size of the log.                                  *)
(***************************************************************************)
EXTENDS RRStack

\* No hart has chosen a process and no spinlock is held after the boot.
LEMMA StackInit == Init => StackInv
<1> SUFFICES ASSUME Init PROVE StackInv
  OBVIOUS
<1>1. TypeOK
  <2>1. 1 \in Proc /\ 1 \in 1 .. NPROC + 1 /\ 0 \in 0 .. LOG_SIZE
    BY RRAssumption DEF Proc
  <2>2. state \in [Proc -> {"UNUSED", "SLEEPING", "RUNNABLE", "RUNNING"}]
    BY DEF Init
  <2>3. hpc \in [Hart -> HartLabel]
    BY DEF Init, HartLabel
  <2>4. QED
    BY <2>1, <2>2, <2>3, Zenon DEF Init, TypeOK, ProcLabel
<1>2. \A h \in Hart : hpc[h] \in {"scan", "off"} /\ cproc[h] = NoProc
  BY DEF Init
<1>3. \A p \in Proc : /\ ppc[p] = "resumed" /\ ret[p] = "run"
                      /\ state[p] \in {"RUNNABLE", "UNUSED"}
  BY DEF Init
<1>4. HartInv /\ RunInv /\ ProcInv /\ StateInv /\ OneHart
  BY <1>2, <1>3 DEF HartInv, RunInv, ProcInv, StateInv, OneHart, Busy, Choosing,
     Parked
<1>5. \A h \in Hart : ~HoldsLk(h) /\ \A p \in Proc : ~Holds(h, p)
  BY <1>2 DEF HoldsLk, Holds, Runs, Choosing
<1>6. LockInv
  BY <1>5, Names DEF Init, LockInv
<1>7. QED
  BY <1>1, <1>4, <1>6 DEF StackInv

\* StackInv is about the state of the kernel only.
LEMMA StackUnchanged == StackInv /\ UNCHANGED vars => StackInv'
BY DEF StackInv, TypeOK, HartInv, LockInv, RunInv, ProcInv, StateInv, OneHart,
   Holds, HoldsLk, Runs, vars, hartVars, procVars, logVars

\* No step breaks StackInv: the lemmas of RRStack together.
LEMMA StackStep == StackInv /\ [Next]_vars => StackInv'
<1> SUFFICES ASSUME StackInv, Next PROVE StackInv'
  BY StackUnchanged
<1>1. ASSUME NEW h \in Hart, HartStep(h) PROVE StackInv'
  BY <1>1, ScanStack, SkipStack, ChooseStack, LogStack, SwtchStack, BackStack
     DEF HartStep
<1>2. ASSUME NEW h \in Hart, NEW p \in Proc, KernelStep(h, p) PROVE StackInv'
  BY <1>2, ResumeStack, YieldStack, SchedStack, TakeSleepLockStack,
     SleepAcquireStack, SleepReleaseStack, SleepStack, SleptStack, ReacquireStack,
     FreeSleepLockStack, WakeupLockStack, WakeOneStack, WakeupSelfStack,
     WakeupDoneStack DEF KernelStep
<1>3. ASSUME NEW h \in Hart, NEW p \in Proc, ProgramStep(h, p) PROVE StackInv'
  BY <1>3, TimerStack, AcquireSleepStack, ReleaseSleepStack, StartlogStack
     DEF ProgramStep
<1>4. QED
  BY <1>1, <1>2, <1>3 DEF Next

-----------------------------------------------------------------------------
(***************************************************************************)
(* The sleep lock and its wakeups.                                         *)
(***************************************************************************)

\* What a step leaves alone.
InsideKept == locked' = locked /\ \A q \in Proc : Inside(q)' <=> Inside(q)

Waits(p) == state[p] = "SLEEPING" \/ ppc[p] \in {"sleep", "asleep"}
Wakes(p) == ppc[p] \in {"wakeup", "wakeOne"}

WakersKept == \A q \in Proc : Wakes(q) => Wakes(q)' /\ wi'[q] = wi[q]

\* scheduler() neither wakes nor puts to sleep, and has no sleep lock.
LEMMA HartSleepLock ==
  ASSUME IInv, NEW h \in Hart, HartStep(h)
  PROVE  SleepLockInv' /\ WakeInv'
<1>1. UNCHANGED <<procVars, locked>>
  BY DEF HartStep, Scan, Skip, Choose, LogTest, LogWrite, LogInc, Swtch, Back
<1>2. \A q \in Proc : state'[q] = "SLEEPING" => state[q] = "SLEEPING"
  BY DEF IInv, StackInv, TypeOK, HartStep, Scan, Skip, Choose, LogTest, LogWrite,
     LogInc, Swtch, Back
<1>3. SleepLockInv'
  BY <1>1 DEF IInv, SleepLockInv, SleepLockMutex, Inside, Place, procVars
<1>4. WakeInv'
  BY <1>1, <1>2 DEF IInv, WakeInv, Pending, procVars
<1>5. QED
  BY <1>3, <1>4

\* Who is inside the sleep lock matters only to the steps that change it.
LEMMA MutexKept == SleepLockInv /\ InsideKept => SleepLockInv'
BY DEF SleepLockInv, InsideKept, SleepLockMutex, Inside

\* Nobody loses a wakeup when no waiter is added and no wakeup() goes on.
LEMMA WaitersKept ==
  ASSUME WakeInv, WakersKept, locked => locked', \A q \in Proc : Waits(q)' => Waits(q)
  PROVE  WakeInv'
BY DEF WakeInv, WakersKept, Pending, Waits, Wakes

\* Steps that have to do neither with the lock nor with who waits for it.
LEMMA OtherSleepLock ==
  ASSUME IInv, NEW h \in Hart, NEW p \in Proc,
         \/ Resume(h, p) \/ Timer(h, p) \/ yield(h, p) \/ sched(h, p)
         \/ AcquireSleep(h, p) \/ sleepRelease(h, p) \/ sleep(h, p)
         \/ Slept(h, p) \/ Reacquire(h, p) \/ ReleaseSleep(h, p)
         \/ sys_startlog(h, p)
  PROVE  SleepLockInv' /\ WakeInv'
<1> USE DEF Resume, Timer, yield, sched, AcquireSleep, sleepRelease, sleep, Slept,
        Reacquire, ReleaseSleep, sys_startlog, PGoto
<1>1. TypeOK /\ ProcInv
  BY SMTT(30) DEF IInv, StackInv
<1>2. UNCHANGED <<locked, wi>> /\ \A q \in Proc \ {p} : /\ ppc'[q] = ppc[q]
                                                        /\ ret'[q] = ret[q]
                                                        /\ state'[q] = state[q]
  BY <1>1 DEF TypeOK
<1>3. Inside(p)' <=> Inside(p)
  <2> USE <1>1 DEF TypeOK, ProcInv, Place, Inside
  <2>1. CASE Resume(h, p) \/ Timer(h, p)
    BY <2>1, SMTT(30)
  <2>2. CASE yield(h, p) \/ sys_startlog(h, p)
    BY <2>2, SMTT(30)
  <2>3. CASE sched(h, p) \/ sleep(h, p)
    BY <2>3, SMTT(30)
  <2>4. CASE AcquireSleep(h, p) \/ sleepRelease(h, p) \/ Slept(h, p)
             \/ Reacquire(h, p) \/ ReleaseSleep(h, p)
    BY <2>4, SMTT(30)
  <2>5. QED
    BY <2>1, <2>2, <2>3, <2>4, Zenon
<1>4. InsideKept
  BY <1>2, <1>3, SMTT(30) DEF InsideKept, Inside, Place
<1>5. ~Wakes(p) /\ (Waits(p)' => Waits(p))
  BY <1>1 DEF TypeOK, ProcInv, Wakes, Waits
<1>6. WakersKept /\ \A q \in Proc : Waits(q)' => Waits(q)
  BY <1>2, <1>5 DEF WakersKept, Waits, Wakes
<1>7. QED
  BY <1>2, <1>4, <1>6, MutexKept, WaitersKept, SMTT(30) DEF IInv

\* acquiresleep() gets the lock: nobody was inside, and those who wait have a
\* holder to wait for.
LEMMA TakeSleepLockMutex ==
  ASSUME IInv, NEW h \in Hart, NEW p \in Proc, TakeSleepLock(h, p)
  PROVE  SleepLockInv' /\ WakeInv'
<1> USE DEF TakeSleepLock, PGoto
<1>1. /\ \A q \in Proc : ~Inside(q)
      /\ \A q \in Proc \ {p} : Inside(q)' <=> Inside(q)
  BY DEF IInv, StackInv, TypeOK, SleepLockInv, Inside, Place
<1>2. Inside(p)' /\ locked'
  BY DEF IInv, StackInv, TypeOK, Inside, Place
<1>3. QED
  BY <1>1, <1>2 DEF SleepLockInv, SleepLockMutex, Inside, WakeInv, Pending

\* acquiresleep() goes to sleep while the lock is held, under lk.
LEMMA SleepAcquireMutex ==
  ASSUME IInv, NEW h \in Hart, NEW p \in Proc, SleepAcquire(h, p)
  PROVE  SleepLockInv' /\ WakeInv'
<1> USE DEF SleepAcquire, PGoto
<1>1. InsideKept
  BY DEF IInv, StackInv, TypeOK, InsideKept, Inside, Place
<1>2. locked'
  OBVIOUS
<1>3. QED
  BY <1>1, <1>2, MutexKept DEF IInv, WakeInv, Pending

\* releasesleep() frees the lock and has the whole table before it to wake.
LEMMA FreeSleepLockMutex ==
  ASSUME IInv, NEW h \in Hart, NEW p \in Proc, FreeSleepLock(h, p)
  PROVE  SleepLockInv' /\ WakeInv'
<1> USE DEF FreeSleepLock, PGoto
<1>1. Inside(p) /\ ~Inside(p)'
  BY DEF IInv, StackInv, TypeOK, Inside, Place
<1>2. \A q \in Proc \ {p} : ~Inside(q) /\ (Inside(q)' <=> Inside(q))
  BY <1>1, Zenon DEF IInv, StackInv, TypeOK, SleepLockInv, SleepLockMutex, Inside, Place
<1>3. ppc'[p] = "wakeup" /\ \A q \in Proc : wi'[p] <= q
  BY DEF IInv, StackInv, TypeOK, Proc
<1>4. QED
  BY <1>1, <1>2, <1>3 DEF SleepLockInv, SleepLockMutex, Inside, WakeInv, Pending

\* wakeup() goes past a slot only if nobody waits in it any more: a process
\* about to sleep holds the p->lock that wakeup() has in its hands.
LEMMA WakeupMutex ==
  ASSUME IInv, NEW h \in Hart, NEW p \in Proc,
         WakeupLock(h, p) \/ WakeOne(h, p) \/ WakeupSelf(h, p) \/ WakeupDone(h, p)
  PROVE  SleepLockInv' /\ WakeInv'
<1> USE DEF WakeupLock, WakeOne, WakeupSelf, WakeupDone, PGoto
<1>1. TypeOK /\ ProcInv
  BY DEF IInv, StackInv
<1>2. InsideKept
  BY <1>1 DEF TypeOK, InsideKept, Inside, Place
<1>3. /\ \A q \in Proc : Waits(q)' => Waits(q)
      /\ \A q \in Proc \ {p} : Wakes(q) => Wakes(q)' /\ wi'[q] = wi[q]
  BY <1>1, SMTT(30) DEF TypeOK, ProcInv, Waits, Wakes
<1>4. ASSUME NEW q \in Proc, Waits(q)', wi[p] <= q
      PROVE  Wakes(p)' /\ wi'[p] <= q
  <2>1. CASE WakeupLock(h, p)
    BY <1>1, <1>4, <2>1 DEF TypeOK, Wakes
  <2>2. CASE WakeOne(h, p)
    <3>1. q # wi[p]
      <4>1. ASSUME q = wi[p] PROVE FALSE
        <5>1. state'[q] # "SLEEPING" /\ q # p /\ ppc'[q] = ppc[q]
          BY <1>1, <2>2, <4>1 DEF TypeOK, ProcInv
        <5>2. ppc[q] \in {"sleep", "asleep"}
          BY <1>4, <5>1 DEF Waits
        <5>3. PICK g \in Hart : Runs(g, q)
          BY <5>2 DEF IInv, StackInv, RunInv, Parked
        <5>4. Runs(h, p)
          BY <2>2, SMTT(30) DEF IInv, StackInv, HartInv, Busy, Runs
        <5>5. Holds(g, q) /\ Holds(h, q)
          BY <2>2, <4>1, <5>2, <5>3, <5>4 DEF Holds, OwnLock
        <5>6. g = h
          BY <5>5, Names, SMTT(30) DEF IInv, StackInv, LockInv
        <5>7. QED
          BY <5>1, <5>3, <5>4, <5>6 DEF Runs
      <4>2. QED
        BY <4>1, SMTT(30)
    <3>2. wi[p] \in Int /\ q \in Int
      BY <1>1, RRAssumption DEF TypeOK, Proc
    <3>3. ppc'[p] = "wakeup" /\ wi'[p] = wi[p] + 1
      BY <1>1, <2>2 DEF TypeOK
    <3>4. QED
      BY <1>4, <3>1, <3>2, <3>3, SMTT(30) DEF Wakes
  <2>3. CASE WakeupSelf(h, p)
    <3>1. ~Waits(p)'
      BY <1>1, <2>3, Zenon DEF TypeOK, ProcInv, Waits
    <3>2. q # wi[p] /\ wi[p] \in Int /\ q \in Int
      BY <1>1, <1>4, <2>3, <3>1, RRAssumption DEF TypeOK, Proc
    <3>3. ppc'[p] = "wakeup" /\ wi'[p] = wi[p] + 1
      BY <1>1, <2>3 DEF TypeOK
    <3>4. QED
      BY <1>4, <3>2, <3>3, SMTT(30) DEF Wakes
  <2>4. CASE WakeupDone(h, p)
    BY <1>4, <2>4, RRAssumption, SMTT(30) DEF Proc
  <2>5. QED
    BY <2>1, <2>2, <2>3, <2>4, SMTT(30)
<1>5. WakeInv'
  <2>1. ASSUME NEW q \in Proc, Waits(q)' PROVE Pending(q)'
    <3>1. Pending(q)
      BY <1>3, <2>1, SMTT(30) DEF IInv, WakeInv, Waits
    <3>2. locked' = locked
      BY SMTT(30)
    <3>3. QED
      BY <1>3, <1>4, <2>1, <3>1, <3>2 DEF Pending, Wakes
  <2>2. QED
    BY <2>1 DEF WakeInv, Waits
<1>6. QED
  BY <1>2, <1>5, MutexKept DEF IInv

-----------------------------------------------------------------------------
\* The whole invariant.
LEMMA InvStep == IInv /\ [Next]_vars => IInv'
<1>1. IInv /\ UNCHANGED vars => SleepLockInv' /\ WakeInv'
  BY DEF IInv, SleepLockInv, SleepLockMutex, WakeInv, Pending, Inside, Place, vars,
     procVars
<1>2. ASSUME IInv, Next PROVE SleepLockInv' /\ WakeInv'
  <2>1. ASSUME NEW h \in Hart, NEW p \in Proc, KernelStep(h, p) \/ ProgramStep(h, p)
        PROVE  SleepLockInv' /\ WakeInv'
    BY <1>2, <2>1, OtherSleepLock, TakeSleepLockMutex, SleepAcquireMutex,
       FreeSleepLockMutex, WakeupMutex DEF KernelStep, ProgramStep
  <2>2. QED
    BY <1>2, <2>1, HartSleepLock DEF Next
<1>3. QED
  BY <1>1, <1>2, StackStep DEF IInv

\* The whole invariant holds after the boot.
LEMMA InvInit == Init => IInv
<1> SUFFICES ASSUME Init PROVE IInv
  OBVIOUS
<1>1. \A p \in Proc : /\ ~Inside(p) /\ ppc[p] = "resumed"
                      /\ state[p] \in {"RUNNABLE", "UNUSED"}
  BY DEF Init, Inside, Place
<1>2. ~locked
  BY DEF Init
<1>3. QED
  BY <1>1, <1>2, StackInit DEF IInv, SleepLockInv, SleepLockMutex, Inside, WakeInv

\* The invariant holds of the scheduler, yield, sleep, wakeup and the sleep
\* lock, whatever the harts, the processes and the size of the log.
THEOREM Invariance == Spec => []IInv
BY InvInit, InvStep, PTL DEF Spec

\* The variables of the kernel keep their types: no slot past the table is
\* scanned, and no entry past the end of schedlog is written.
THEOREM TypeCorrect == Spec => []TypeOK
<1>1. IInv => TypeOK
  BY DEF IInv, StackInv
<1>2. QED
  BY <1>1, Invariance, PTL

\* No two harts run on the kernel stack of one process.
THEOREM OneHartPerProcess == Spec => []OneHart
<1>1. IInv => OneHart
  BY DEF IInv, StackInv
<1>2. QED
  BY <1>1, Invariance, PTL

\* The panics of sched() cannot happen.
THEOREM SchedNeverPanics == Spec => []SchedChecks
<1>1. ASSUME IInv PROVE SchedChecks
  <2>1. ASSUME NEW h \in Hart, hpc[h] = "process", ppc[cproc[h]] = "sched"
        PROVE  /\ {p \in Proc : plock[p] = h} = {cproc[h]} /\ lk # h
               /\ state[cproc[h]] # "RUNNING"
    <3>1. cproc[h] = idx[h] /\ idx[h] \in Proc
      BY <1>1, <2>1 DEF IInv, StackInv, TypeOK, HartInv, Busy
    <3>2. \A p \in Proc : Holds(h, p) <=> p = idx[h]
      BY <2>1, <3>1 DEF Holds, Runs, OwnLock, Choosing
    <3>3. ~HoldsLk(h)
      BY <2>1, <3>1 DEF HoldsLk, Runs, UnderLk
    <3>4. \A p \in Proc : plock[p] = h <=> p = cproc[h]
      BY <1>1, <3>1, <3>2 DEF IInv, StackInv, LockInv
    <3>5. lk # h
      BY <1>1, <3>3 DEF IInv, StackInv, LockInv
    <3>6. QED
      BY <1>1, <2>1, <3>1, <3>4, <3>5 DEF IInv, StackInv, StateInv
  <2>2. QED
    BY <2>1 DEF SchedChecks
<1>2. QED
  BY <1>1, Invariance, PTL

\* sleep() misses no wakeup(): it takes p->lock before it gives up lk.
THEOREM NoWakeupIsLost == Spec => []NoLostWakeup
<1>1. IInv => NoLostWakeup
  BY DEF IInv, WakeInv, Pending, NoLostWakeup
<1>2. QED
  BY <1>1, Invariance, PTL

\* acquiresleep() and releasesleep() exclude one another's processes.
THEOREM SleepLockExcludes == Spec => []SleepLockMutex
<1>1. IInv => SleepLockMutex
  BY DEF IInv, SleepLockInv
<1>2. QED
  BY <1>1, Invariance, PTL

-----------------------------------------------------------------------------
(***************************************************************************)
(* The log of context switches, with one hart.                             *)
(***************************************************************************)

\* Only hart 1 takes steps then.
LEMMA AloneStep ==
  ASSUME TypeOK, Alone \/ Alone', Next
  PROVE  /\ Alone
         /\ HartStep(1) \/ \E p \in Proc : KernelStep(1, p) \/ ProgramStep(1, p)
<1> USE DEF HartStep, Scan, Skip, Choose, LogTest, LogWrite, LogInc, Swtch, Back,
        SGoto
<1>1. ASSUME NEW h \in Hart, HartStep(h) PROVE h = 1 /\ Alone
  BY <1>1, SMTT(30) DEF TypeOK, Alone
<1>2. ASSUME NEW h \in Hart, NEW p \in Proc, KernelStep(h, p) \/ ProgramStep(h, p)
      PROVE  h = 1 /\ Alone
  <2>1. hpc[h] = "process" /\ (UNCHANGED hpc \/ hpc' = [hpc EXCEPT ![h] = "back"])
    BY <1>2, Zenon DEF KernelStep, ProgramStep, Resume, Timer, yield, sched, AcquireSleep,
       TakeSleepLock, SleepAcquire, sleepRelease, sleep, Slept, Reacquire,
       ReleaseSleep, FreeSleepLock, WakeupLock, WakeOne, WakeupSelf, WakeupDone,
       sys_startlog, PGoto, procUnchanged, hartVars
  <2>2. QED
    BY <2>1 DEF TypeOK, Alone
<1> HIDE DEF HartStep
<1>3. QED
  BY <1>1, <1>2 DEF Next

\* A process leaves the log alone.
LEMMA ProcessLog ==
  ASSUME TypeOK, NEW h \in Hart, NEW p \in Proc, KernelStep(h, p) \/ ProgramStep(h, p)
  PROVE  /\ UNCHANGED <<idx, ln, logVars>> /\ hpc[h] = "process"
         /\ hpc'[h] \in {"process", "back"}
<1>1. /\ UNCHANGED <<idx, ln, logVars>> /\ hpc[h] = "process"
      /\ UNCHANGED hpc \/ hpc' = [hpc EXCEPT ![h] = "back"]
  BY Zenon DEF KernelStep, ProgramStep, Resume, Timer, yield, sched, AcquireSleep,
     TakeSleepLock, SleepAcquire, sleepRelease, sleep, Slept, Reacquire,
     ReleaseSleep, FreeSleepLock, WakeupLock, WakeOne, WakeupSelf, WakeupDone,
     sys_startlog, PGoto, procUnchanged, hartVars, logVars
<1>2. QED
  BY <1>1 DEF TypeOK

\* A step of the only hart keeps what the log says and adds to it at the end.
LEMMA AloneLog ==
  ASSUME TypeOK, HartInv, AloneInv, 1 \in Hart,
         HartStep(1) \/ \E p \in Proc : KernelStep(1, p) \/ ProgramStep(1, p)
  PROVE  /\ AloneInv'
         /\ numLog' >= numLog
         /\ \A i \in 1 .. numLog : schedlog'[i] = schedlog[i]
<1> USE DEF TypeOK
<1>0. /\ numLog \in Nat /\ LOG_SIZE \in Nat /\ numLog <= LOG_SIZE
  BY RRAssumption
<1>1. CASE \/ Scan(1) \/ Skip(1) \/ Choose(1) \/ Swtch(1) \/ Back(1)
           \/ \E p \in Proc : KernelStep(1, p) \/ ProgramStep(1, p)
  <2>1. /\ UNCHANGED logVars /\ hpc[1] \notin {"logWrite", "logInc"}
        /\ hpc'[1] \notin {"logWrite", "logInc"}
    BY <1>1, ProcessLog, SMTT(30) DEF Scan, Skip, Choose, Swtch, Back, SGoto
  <2>2. QED
    BY <1>0, <2>1 DEF AloneInv, Last, logVars
<1>2. CASE LogTest(1)
  BY <1>0, <1>2 DEF LogTest, SGoto, AloneInv, Last, logVars
<1>3. CASE LogWrite(1)
  <2>1. /\ ln[1] = numLog /\ numLog < LOG_SIZE /\ hpc'[1] = "logInc"
        /\ UNCHANGED <<numLog, ln, idx>>
    BY <1>3, SMTT(30) DEF LogWrite, SGoto, AloneInv, HartInv
  <2>2. numLog + 1 \in 1 .. LOG_SIZE
    BY <1>0, <2>1
  <2>3. /\ \A i \in 1 .. numLog : schedlog'[i] = schedlog[i]
        /\ schedlog'[numLog + 1] = idx[1] /\ lastProcessId' = idx[1]
    BY <1>0, <1>3, <2>1, <2>2 DEF LogWrite
  <2>4. Last' = Last
    BY <1>0, <2>1, <2>3 DEF Last
  <2>5. \A i \in 1 .. numLog - 1 : schedlog'[i] # schedlog'[i + 1]
    BY <1>0, <2>3 DEF AloneInv
  <2>6. QED
    BY <1>0, <1>3, <2>1, <2>3, <2>4, <2>5, SMTT(30) DEF AloneInv, LogWrite, SGoto
<1>4. CASE LogInc(1)
  <2>1. /\ numLog' = numLog + 1 /\ idx[1] # Last /\ schedlog[numLog + 1] = idx[1]
        /\ lastProcessId = idx[1] /\ hpc'[1] = "swtch"
        /\ UNCHANGED <<schedlog, lastProcessId>>
    BY <1>4, SMTT(30) DEF LogInc, SGoto, AloneInv
  <2>2. \A i \in 1 .. numLog : schedlog[i] # schedlog[i + 1]
    <3>1. ASSUME NEW i \in 1 .. numLog PROVE schedlog[i] # schedlog[i + 1]
      <4>1. CASE i = numLog
        BY <1>0, <2>1, <4>1 DEF Last
      <4>2. CASE i # numLog
        BY <1>0, <4>2 DEF AloneInv
      <4>3. QED
        BY <4>1, <4>2
    <3>2. QED
      BY <3>1
  <2>3. QED
    BY <1>0, <2>1, <2>2 DEF AloneInv, Last
<1>5. QED
  BY <1>1, <1>2, <1>3, <1>4 DEF HartStep

\* The same for any step of the kernel while only one hart runs.
LEMMA LogStep ==
  ASSUME IInv, LogInv, [Next]_vars
  PROVE  /\ LogInv'
         /\ Next /\ Alone => /\ numLog' >= numLog
                             /\ \A i \in 1 .. numLog : schedlog'[i] = schedlog[i]
<1>1. TypeOK /\ HartInv /\ 1 \in Hart
  BY RRAssumption DEF IInv, StackInv, Hart
<1>2. CASE UNCHANGED vars
  BY <1>1, <1>2, RRAssumption, SMTT(30) DEF LogInv, AloneInv, Alone, Last, vars, hartVars,
     logVars, TypeOK
<1>3. CASE Next
  BY <1>1, <1>3, AloneStep, AloneLog, SMTT(30) DEF LogInv
<1>4. QED
  BY <1>1, <1>2, <1>3 DEF LogInv

\* What the log says holds at all times.
LEMMA LogInvariance == Spec => []LogInv
<1>1. Init => LogInv
  <2>1. ASSUME Init PROVE AloneInv
    <3>1. /\ hpc[1] \in {"scan", "off"} /\ numLog = 0 /\ lastProcessId = NoProc
      BY <2>1, RRAssumption DEF Init, Hart
    <3>2. QED
      BY <3>1 DEF AloneInv, Last
  <2>2. QED
    BY <2>1 DEF LogInv
<1>2. IInv /\ LogInv /\ [Next]_vars => LogInv'
  BY LogStep
<1>3. QED
  BY <1>1, <1>2, Invariance, PTL DEF Spec

\* With one hart, the log never names a process twice in a row.
THEOREM LogHasNoRepeats == Spec => []LogNoRepeats
<1>1. LogInv => LogNoRepeats
  BY DEF LogInv, AloneInv, LogNoRepeats
<1>2. QED
  BY <1>1, LogInvariance, PTL

\* With one hart, no step takes back or changes a recorded entry, startlog()
\* included.
THEOREM LogIsKept == Spec => LogKept
<1>1. IInv /\ LogInv /\ [Next]_vars =>
        [Alone => /\ numLog' >= numLog
                  /\ \A i \in 1 .. numLog : schedlog'[i] = schedlog[i]]_vars
  BY LogStep
<1>2. QED
  BY <1>1, Invariance, LogInvariance, PTL DEF Spec, LogKept

\* What sys_getlog() returns is a record of the context switches of the hart
\* that only grows and in which no process follows itself.
THEOREM LogIsARecord == Spec => LogRecords
BY LogHasNoRepeats, LogIsKept, PTL DEF LogRecords

=============================================================================
