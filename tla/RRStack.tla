------------------------------ MODULE RRStack -------------------------------
(***************************************************************************)
(* No step of the round-robin scheduler breaks StackInv.                   *)
(***************************************************************************)
EXTENDS RRInv

\* NoHart names no hart and NoProc no slot of proc[].
LEMMA Names == NoHart \notin Hart /\ NoProc \notin Proc
BY RRAssumption DEF Hart, Proc, NoHart, NoProc

\* The scan of scheduler() stays within proc[].
LEMMA NextInTable == \A i \in Proc : (i % NPROC) + 1 \in Proc
BY RRAssumption DEF Proc

\* Whose p->lock another hart holds is not on its way to or from swtch: it runs,
\* away from the code under its lock.
LEMMA HeldElsewhere ==
  ASSUME StackInv, NEW h \in Hart, NEW g \in Hart, NEW p \in Proc, g # h,
         plock[p] = h, hpc[g] \in Busy, idx[g] = p
  PROVE  Runs(g, p) /\ ppc[p] \notin OwnLock /\ state[p] = "RUNNING"
<1>1. ~Holds(g, p)
  BY Names DEF StackInv, LockInv
<1>2. Runs(g, p) /\ ppc[p] \notin OwnLock
  BY <1>1 DEF Holds, Busy, Choosing, Runs
<1>3. QED
  BY <1>2 DEF StackInv, StateInv, Runs, OwnLock

\* Two harts are never at the same process.
LEMMA OneStack ==
  ASSUME StackInv, NEW h \in Hart, NEW g \in Hart,
         hpc[h] \in Busy, hpc[g] \in Busy, idx[h] = idx[g]
  PROVE  h = g
BY Names DEF StackInv, HartInv, OneHart, TypeOK

\* A process on its way to or from swtch is where sched() left it.
LEMMA ParkedOnTheWay ==
  ASSUME StackInv, NEW h \in Hart, hpc[h] \in Choosing \cup {"back"}
  PROVE  ppc[idx[h]] \in Parked
BY OneStack DEF StackInv, RunInv, Runs, TypeOK, Busy, Choosing

-----------------------------------------------------------------------------
(***************************************************************************)
(* Steps of the scheduler.                                                 *)
(***************************************************************************)
\* scheduler() takes p->lock of the slot it has come to, which was free.
LEMMA ScanStack ==
  ASSUME StackInv, NEW h \in Hart, Scan(h)
  PROVE  StackInv'
<1> USE DEF StackInv, Scan, SGoto, acquireP, TypeOK, procVars, logVars, HartLabel
<1>1. TypeOK' /\ ProcInv' /\ OneHart'
  BY DEF ProcInv, OneHart
<1>2. HartInv' /\ RunInv' /\ StateInv'
  BY DEF HartInv, RunInv, StateInv, Busy, Choosing, Runs
<1>3. LockInv'
  <2>1. \A g \in Hart, p \in Proc :
          Holds(g, p)' <=> Holds(g, p) \/ (g = h /\ p = idx[h])
    BY DEF Holds, Runs, Choosing
  <2>2. \A g \in Hart : ~Holds(g, idx[h])
    BY Names DEF LockInv
  <2>3. \A g \in Hart : HoldsLk(g)' <=> HoldsLk(g)
    BY DEF HoldsLk, Runs
  <2>4. QED
    BY <2>1, <2>2, <2>3, Names DEF LockInv
<1>4. QED
  BY <1>1, <1>2, <1>3

\* It gives the lock back when the slot is not RUNNABLE.
LEMMA SkipStack ==
  ASSUME StackInv, NEW h \in Hart, Skip(h)
  PROVE  StackInv'
<1> USE DEF StackInv, Skip, SGoto, releaseP, NextSlot, TypeOK, procVars, logVars,
        HartLabel
<1>1. TypeOK' /\ ProcInv' /\ OneHart'
  BY NextInTable DEF ProcInv, OneHart
<1>2. HartInv' /\ RunInv' /\ StateInv'
  BY DEF HartInv, RunInv, StateInv, Busy, Choosing, Runs
<1>3. LockInv'
  <2>1. \A g \in Hart, p \in Proc :
          Holds(g, p)' <=> Holds(g, p) /\ g # h
    BY DEF Holds, Runs, Choosing
  <2>2. \A p \in Proc : plock[p] = h <=> p = idx[h]
    BY DEF LockInv, Holds, Runs
  <2>3. \A g \in Hart : HoldsLk(g)' <=> HoldsLk(g)
    BY DEF HoldsLk, Runs
  <2>4. QED
    BY <2>1, <2>2, <2>3, Names DEF LockInv
<1>4. QED
  BY <1>1, <1>2, <1>3

\* It keeps the lock of a process it is about to run, which no other hart
\* runs: that one would hold the same lock.
LEMMA ChooseStack ==
  ASSUME StackInv, NEW h \in Hart, Choose(h)
  PROVE  StackInv'
<1> USE DEF StackInv, Choose, SGoto, TypeOK, procVars, logVars, HartLabel
<1>1. plock[idx[h]] = h
  BY DEF LockInv, Holds
<1>2. \A g \in Hart : hpc[g] \in Busy => idx[g] # idx[h]
  <2>1. ASSUME NEW g \in Hart, hpc[g] \in Busy, idx[g] = idx[h]  PROVE FALSE
    <3>1. g # h
      BY <2>1 DEF Busy, Choosing
    <3>2. QED
      BY <1>1, <2>1, <3>1, HeldElsewhere
  <2>2. QED
    BY <2>1
<1>3. TypeOK' /\ HartInv'
  BY DEF HartInv, Busy, Choosing
<1>4. RunInv'
  BY DEF RunInv, Runs
<1>5. ProcInv'
  BY DEF ProcInv
<1>6. StateInv'
  BY <1>2 DEF StateInv, Busy, Choosing
<1>7. OneHart'
  BY <1>2, Names DEF OneHart, HartInv
<1>8. LockInv'
  <2>1. \A g \in Hart, p \in Proc : Holds(g, p)' <=> Holds(g, p)
    BY DEF Holds, Runs, Choosing
  <2>2. \A g \in Hart : HoldsLk(g)' <=> HoldsLk(g)
    BY DEF HoldsLk, Runs
  <2>3. QED
    BY <2>1, <2>2 DEF LockInv
<1>9. QED
  BY <1>3, <1>4, <1>5, <1>6, <1>7, <1>8

\* The statements that keep the log touch no lock and no process.
LEMMA LogStack ==
  ASSUME StackInv, NEW h \in Hart, LogTest(h) \/ LogWrite(h) \/ LogInc(h)
  PROVE  StackInv'
<1> USE DEF StackInv, LogTest, LogWrite, LogInc, SGoto, TypeOK, procVars, logVars,
        HartLabel
<1> DEFINE Room == \A g \in Hart : hpc[g] \in {"logWrite", "logInc"}
                                     => ln[g] < LOG_SIZE
<1>1. ASSUME LogTest(h)  PROVE TypeOK' /\ Room'
  <2>1. ln' = [ln EXCEPT ![h] = numLog] /\ numLog \in 0 .. LOG_SIZE
    BY <1>1
  <2>2. TypeOK'
    BY <1>1, <2>1
  <2>3. Room'
    BY <1>1, <2>1 DEF HartInv
  <2>4. QED
    BY <2>2, <2>3, Zenon
<1>2. ASSUME LogWrite(h)  PROVE TypeOK' /\ Room'
  <2>1. ln[h] + 1 \in 1 .. LOG_SIZE /\ idx[h] \in Proc
    BY <1>2, RRAssumption DEF HartInv
  <2>2. TypeOK'
    BY <1>2, <2>1
  <2>3. Room'
    BY <1>2 DEF HartInv
  <2>4. QED
    BY <2>2, <2>3, Zenon
<1>3. ASSUME LogInc(h)  PROVE TypeOK' /\ Room'
  <2>1. ln[h] + 1 \in 0 .. LOG_SIZE
    BY <1>3, RRAssumption DEF HartInv
  <2>2. TypeOK'
    BY <1>3, <2>1
  <2>3. Room'
    BY <1>3 DEF HartInv
  <2>4. QED
    BY <2>2, <2>3, Zenon
<1>4. TypeOK' /\ HartInv'
  <2>1. /\ \A g \in Hart : hpc'[g] \in Busy <=> hpc[g] \in Busy
        /\ UNCHANGED <<cproc, idx>>
    BY DEF Busy, Choosing
  <2> HIDE DEF StackInv, TypeOK, LogTest, LogWrite, LogInc, Room
  <2>2. TypeOK' /\ Room'
    BY <1>1, <1>2, <1>3, Zenon
  <2>3. HartInv
    BY DEF StackInv
  <2>4. HartInv'
    BY <2>1, <2>2, <2>3 DEF HartInv, Room
  <2>5. QED
    BY <2>2, <2>4
<1>5. RunInv' /\ ProcInv' /\ StateInv' /\ OneHart'
  BY DEF RunInv, ProcInv, StateInv, OneHart, Runs, Choosing
<1>6. LockInv'
  <2>1. \A g \in Hart, p \in Proc : Holds(g, p)' <=> Holds(g, p)
    BY DEF Holds, Runs, Choosing
  <2>2. \A g \in Hart : HoldsLk(g)' <=> HoldsLk(g)
    BY DEF HoldsLk, Runs
  <2>3. QED
    BY <2>1, <2>2 DEF LockInv
<1>7. QED
  BY <1>4, <1>5, <1>6, Zenon

\* swtch() hands p->lock from the scheduler to the process.
LEMMA SwtchStack ==
  ASSUME StackInv, NEW h \in Hart, Swtch(h)
  PROVE  StackInv'
<1> USE DEF StackInv, Swtch, SGoto, TypeOK, procVars, logVars, HartLabel
<1>1. ppc[idx[h]] \in Parked
  BY ParkedOnTheWay DEF Choosing
<1>2. TypeOK' /\ HartInv' /\ ProcInv' /\ OneHart'
  BY DEF HartInv, ProcInv, OneHart, Busy, Choosing
<1>3. RunInv'
  BY DEF RunInv, Runs
<1>4. StateInv'
  BY <1>1 DEF StateInv, Choosing, Parked
<1>5. LockInv'
  <2>1. \A g \in Hart, p \in Proc : Holds(g, p)' <=> Holds(g, p)
    BY <1>1 DEF Holds, Runs, Choosing, Parked, OwnLock
  <2>2. \A g \in Hart : HoldsLk(g)' <=> HoldsLk(g)
    BY <1>1 DEF HoldsLk, Runs, Parked, UnderLk
  <2>3. QED
    BY <2>1, <2>2 DEF LockInv
<1>6. QED
  BY <1>2, <1>3, <1>4, <1>5

\* The process has handed p->lock back through sched().
LEMMA BackStack ==
  ASSUME StackInv, NEW h \in Hart, Back(h)
  PROVE  StackInv'
<1> USE DEF StackInv, Back, SGoto, releaseP, NextSlot, TypeOK, procVars, logVars,
        HartLabel
<1>1. TypeOK' /\ ProcInv'
  BY NextInTable DEF ProcInv
<1>2. HartInv' /\ RunInv' /\ StateInv'
  BY DEF HartInv, RunInv, StateInv, Busy, Choosing, Runs
<1>3. OneHart'
  BY DEF OneHart
<1>4. LockInv'
  <2>1. \A g \in Hart, p \in Proc :
          Holds(g, p)' <=> Holds(g, p) /\ g # h
    BY DEF Holds, Runs, Choosing
  <2>2. \A p \in Proc : plock[p] = h <=> p = idx[h]
    BY DEF LockInv, Holds, Runs
  <2>3. \A g \in Hart : HoldsLk(g)' <=> HoldsLk(g)
    BY DEF HoldsLk, Runs
  <2>4. QED
    BY <2>1, <2>2, <2>3, Names DEF LockInv
<1>5. QED
  BY <1>1, <1>2, <1>3, <1>4

-----------------------------------------------------------------------------
(***************************************************************************)
(* Steps of a process.                                                     *)
(***************************************************************************)

\* A step of process p on hart h that leaves the schedulers alone.
ProcessStep(h, p, from, to) ==
  /\ PGoto(h, p, from, to) /\ to \in ProcLabel
  /\ UNCHANGED hartVars
  /\ \A q \in Proc \ {p} : wi'[q] = wi[q]

\* A process that runs and moves from one label to another changes nothing
\* about who runs what.
LEMMA ProcessFrame ==
  ASSUME StackInv, NEW h \in Hart, NEW p \in Proc, NEW from, NEW to,
         ProcessStep(h, p, from, to)
  PROVE  /\ HartInv' /\ OneHart' /\ RunInv'
         /\ \A g \in Hart : Runs(g, p) <=> g = h
         /\ \A q \in Proc : Runs(h, q) <=> q = p
<1> USE DEF StackInv, ProcessStep, PGoto, hartVars
<1>1. HartInv' /\ OneHart'
  BY DEF HartInv, OneHart
<1>2. idx[h] = p
  BY DEF HartInv, Busy
<1>3. \A g \in Hart : Runs(g, p) <=> g = h
  BY <1>2, OneStack DEF Runs, Busy
<1>4. \A q \in Proc : Runs(h, q) <=> q = p
  BY <1>2 DEF Runs
<1>5. RunInv'
  BY <1>2, <1>3 DEF RunInv, Runs, TypeOK
<1>6. QED
  BY <1>1, <1>3, <1>4, <1>5

\* Such a step leaves the other harts with the locks they hold; its own hart
\* holds what the places before and after the step say.
LEMMA ProcessLocks ==
  ASSUME StackInv, NEW h \in Hart, NEW p \in Proc, NEW from, NEW to,
         ProcessStep(h, p, from, to)
  PROVE  /\ \A g \in Hart \ {h} : /\ \A q \in Proc : Holds(g, q)' <=> Holds(g, q)
                                  /\ HoldsLk(g)' <=> HoldsLk(g)
         /\ \A q \in Proc :
              /\ Holds(h, q) <=> \/ q = p /\ from \in OwnLock
                                 \/ from = "wakeOne" /\ wi[p] = q
              /\ Holds(h, q)' <=> \/ q = p /\ to \in OwnLock
                                  \/ to = "wakeOne" /\ wi'[p] = q
         /\ HoldsLk(h) <=> from \in UnderLk
         /\ HoldsLk(h)' <=> to \in UnderLk
<1>1. /\ \A g \in Hart : Runs(g, p) <=> g = h
      /\ \A q \in Proc : Runs(h, q) <=> q = p
  BY ProcessFrame
<1>2. \A g \in Hart, q \in Proc : Runs(g, q)' <=> Runs(g, q)
  BY DEF ProcessStep, Runs, hartVars
<1>3. /\ \A q \in Proc \ {p} : ppc'[q] = ppc[q] /\ wi'[q] = wi[q]
      /\ ppc[p] = from /\ ppc'[p] = to
  BY DEF ProcessStep, PGoto, StackInv, TypeOK
<1>4. hpc[h] = "process" /\ UNCHANGED <<hpc, idx>>
  BY DEF ProcessStep, PGoto, hartVars
<1>5. ASSUME NEW g \in Hart \ {h}
      PROVE  /\ \A q \in Proc : Holds(g, q)' <=> Holds(g, q)
             /\ HoldsLk(g)' <=> HoldsLk(g)
  <2>1. ~Runs(g, p)
    BY <1>1
  <2>2. QED
    BY <1>2, <1>3, <1>4, <2>1 DEF Holds, HoldsLk
<1>6. ASSUME NEW q \in Proc
      PROVE  /\ Holds(h, q) <=> \/ q = p /\ from \in OwnLock
                                \/ from = "wakeOne" /\ wi[p] = q
             /\ Holds(h, q)' <=> \/ q = p /\ to \in OwnLock
                                 \/ to = "wakeOne" /\ wi'[p] = q
  BY <1>1, <1>2, <1>3, <1>4 DEF Holds, Choosing
<1>7. (HoldsLk(h) <=> from \in UnderLk) /\ (HoldsLk(h)' <=> to \in UnderLk)
  BY <1>1, <1>2, <1>3 DEF HoldsLk
<1>8. QED
  BY <1>5, <1>6, <1>7

\* Before such a step its hart holds exactly the locks that the place of the
\* process says; if after it too, and the step takes no lock away from another
\* hart, LockInv is preserved.
LEMMA LocksBefore ==
  ASSUME StackInv, NEW h \in Hart, NEW p \in Proc, NEW from, NEW to,
         ProcessStep(h, p, from, to)
  PROVE  /\ \A q \in Proc : plock[q] = h <=> \/ q = p /\ from \in OwnLock
                                             \/ from = "wakeOne" /\ wi[p] = q
         /\ lk = h <=> from \in UnderLk
BY ProcessLocks DEF StackInv, LockInv

\* To show LockInv after the step of a process it is enough to account for
\* the locks of its own hart, and to leave the others alone.
LEMMA LocksAfter ==
  ASSUME StackInv, NEW h \in Hart, NEW p \in Proc, NEW from, NEW to,
         ProcessStep(h, p, from, to),
         \A q \in Proc : plock'[q] = h <=> \/ q = p /\ to \in OwnLock
                                           \/ to = "wakeOne" /\ wi'[p] = q,
         lk' = h <=> to \in UnderLk,
         \A g \in Hart \ {h} : /\ \A q \in Proc : plock'[q] = g <=> plock[q] = g
                               /\ lk' = g <=> lk = g
  PROVE  LockInv'
<1>1. \A q \in Proc : plock'[q] = h <=> Holds(h, q)'
  BY ProcessLocks
<1>2. lk' = h <=> HoldsLk(h)'
  BY ProcessLocks
<1>3. ASSUME NEW g \in Hart \ {h}
      PROVE  /\ \A q \in Proc : plock'[q] = g <=> Holds(g, q)'
             /\ lk' = g <=> HoldsLk(g)'
  <2>1. \A q \in Proc : plock[q] = g <=> Holds(g, q)
    BY DEF StackInv, LockInv
  <2>2. lk = g <=> HoldsLk(g)
    BY DEF StackInv, LockInv
  <2>3. /\ \A q \in Proc : Holds(g, q)' <=> Holds(g, q)
        /\ HoldsLk(g)' <=> HoldsLk(g)
    BY ProcessLocks
  <2>4. QED
    BY <2>1, <2>2, <2>3
<1>4. QED
  BY <1>1, <1>2, <1>3 DEF LockInv

\* The ways in which the steps change the locks of their hart: not at all, the
\* process's own lock taken or given back, the sleep lock's spinlock taken or
\* given back.
LEMMA LocksKept ==
  ASSUME StackInv, NEW h \in Hart, NEW p \in Proc, NEW from, NEW to,
         ProcessStep(h, p, from, to), from # "wakeOne", to # "wakeOne",
         UNCHANGED <<plock, lk>>,
         to \in OwnLock <=> from \in OwnLock, to \in UnderLk <=> from \in UnderLk
  PROVE  LockInv'
BY LocksBefore, LocksAfter

\* The same for a step that takes p->lock of the process itself, ...
LEMMA OwnTaken ==
  ASSUME StackInv, NEW h \in Hart, NEW p \in Proc, NEW from, NEW to,
         ProcessStep(h, p, from, to), from # "wakeOne", to # "wakeOne",
         acquireP(h, p), UNCHANGED lk,
         from \notin OwnLock, to \in OwnLock, to \in UnderLk <=> from \in UnderLk
  PROVE  LockInv'
<1>1. /\ \A q \in Proc : plock[q] # h /\ (plock'[q] = h <=> q = p)
      /\ \A g \in Hart \ {h}, q \in Proc : plock'[q] = g <=> plock[q] = g
  <2>1. plock \in [Proc -> Hart \cup {NoHart}]
    BY DEF StackInv, TypeOK
  <2>2. \A q \in Proc : plock[q] # h
    BY LocksBefore
  <2>3. QED
    BY <2>1, <2>2, Names DEF acquireP
<1>2. lk' = h <=> to \in UnderLk
  BY LocksBefore
<1>3. /\ \A q \in Proc : plock'[q] = h <=> \/ q = p /\ to \in OwnLock
                                           \/ to = "wakeOne" /\ wi'[p] = q
      /\ \A g \in Hart \ {h} : /\ \A q \in Proc : plock'[q] = g <=> plock[q] = g
                               /\ lk' = g <=> lk = g
  BY <1>1
<1>4. QED
  BY <1>2, <1>3, LocksAfter

\* ... for one that gives it back, ...
LEMMA OwnGiven ==
  ASSUME StackInv, NEW h \in Hart, NEW p \in Proc, NEW from, NEW to,
         ProcessStep(h, p, from, to), from # "wakeOne", to # "wakeOne",
         releaseP(p), UNCHANGED lk,
         from \in OwnLock, to \notin OwnLock, to \in UnderLk <=> from \in UnderLk
  PROVE  LockInv'
<1>1. /\ \A q \in Proc : (plock[q] = h <=> q = p) /\ plock'[q] # h
      /\ \A g \in Hart \ {h}, q \in Proc : plock'[q] = g <=> plock[q] = g
  <2>1. plock \in [Proc -> Hart \cup {NoHart}]
    BY DEF StackInv, TypeOK
  <2>2. \A q \in Proc : plock[q] = h <=> q = p
    BY LocksBefore
  <2>3. QED
    BY <2>1, <2>2, Names DEF releaseP
<1>2. lk' = h <=> to \in UnderLk
  BY LocksBefore
<1>3. /\ \A q \in Proc : plock'[q] = h <=> \/ q = p /\ to \in OwnLock
                                           \/ to = "wakeOne" /\ wi'[p] = q
      /\ \A g \in Hart \ {h} : /\ \A q \in Proc : plock'[q] = g <=> plock[q] = g
                               /\ lk' = g <=> lk = g
  BY <1>1
<1>4. QED
  BY <1>2, <1>3, LocksAfter

\* ... for one that takes the spinlock inside the sleep lock, ...
LEMMA LkTaken ==
  ASSUME StackInv, NEW h \in Hart, NEW p \in Proc, NEW from, NEW to,
         ProcessStep(h, p, from, to), from # "wakeOne", to # "wakeOne",
         acquireLk(h), UNCHANGED plock,
         from \notin UnderLk, to \in UnderLk, to \in OwnLock <=> from \in OwnLock
  PROVE  LockInv'
<1>1. lk' = h /\ \A g \in Hart \ {h} : lk' = g <=> lk = g
  BY Names DEF acquireLk
<1>2. QED
  BY <1>1, LocksBefore, LocksAfter

\* ... and for one that gives that back.
LEMMA LkGiven ==
  ASSUME StackInv, NEW h \in Hart, NEW p \in Proc, NEW from, NEW to,
         ProcessStep(h, p, from, to), from # "wakeOne", to # "wakeOne",
         releaseLk, UNCHANGED plock,
         from \in UnderLk, to \notin UnderLk, to \in OwnLock <=> from \in OwnLock
  PROVE  LockInv'
<1>1. lk' # h /\ \A g \in Hart \ {h} : lk' = g <=> lk = g
  BY LocksBefore, Names DEF releaseLk
<1>2. QED
  BY <1>1, LocksBefore, LocksAfter

\* StateInv after the step of a process is a matter of that process only, ...
LEMMA StateOfOne ==
  ASSUME StackInv, NEW h \in Hart, NEW p \in Proc, NEW from, NEW to,
         ProcessStep(h, p, from, to),
         \A q \in Proc \ {p} : state'[q] = state[q],
         state'[p] = "RUNNING" <=> to # "sched"
  PROVE  StateInv'
<1>1. /\ \A g \in Hart : Runs(g, p) <=> g = h
      /\ hpc[h] = "process" /\ idx[h] = p /\ UNCHANGED <<hpc, idx>>
      /\ ppc'[p] = to /\ \A q \in Proc \ {p} : ppc'[q] = ppc[q]
  <2>1. \A g \in Hart : Runs(g, p) <=> g = h
    BY ProcessFrame
  <2>2. QED
    BY <2>1 DEF ProcessStep, PGoto, hartVars, StackInv, TypeOK, Runs
<1>2. \A g \in Hart \ {h} : hpc[g] \in Busy => idx[g] \in Proc \ {p}
  BY <1>1, OneStack DEF StackInv, TypeOK, Busy
<1>3. StateInv
  BY DEF StackInv
<1>4. ASSUME NEW g \in Hart
      PROVE  /\ hpc[g] \in Choosing => state'[idx[g]] = "RUNNING"
             /\ hpc[g] = "process" => (state'[idx[g]] = "RUNNING" <=> ppc'[idx[g]] # "sched")
             /\ hpc[g] = "back" => state'[idx[g]] # "RUNNING"
  <2>1. CASE g = h
    BY <1>1, <2>1 DEF Choosing
  <2>2. CASE g # h
    BY <1>1, <1>2, <1>3, <2>2 DEF StateInv, Busy
  <2>3. QED
    BY <2>1, <2>2, Zenon
<1>5. QED
  BY <1>1, <1>4 DEF StateInv

\* ... and of none if it stays RUNNING.
LEMMA StateSame ==
  ASSUME StackInv, NEW h \in Hart, NEW p \in Proc, NEW from, NEW to,
         ProcessStep(h, p, from, to), UNCHANGED state, from # "sched", to # "sched"
  PROVE  StateInv'
<1>1. hpc[h] = "process" /\ idx[h] = p /\ ppc[p] = from
  <2>1. Runs(h, p)
    BY ProcessFrame
  <2>2. QED
    BY <2>1 DEF ProcessStep, PGoto, Runs
<1>2. state[p] = "RUNNING"
  BY <1>1 DEF StackInv, StateInv
<1>3. QED
  BY <1>2, StateOfOne

\* After its swtch() a process gives back p->lock, as forkret() and yield() do.
LEMMA ResumeStack ==
  ASSUME StackInv, NEW h \in Hart, NEW p \in Proc, Resume(h, p)
  PROVE  StackInv'
<1>0. ret[p] \in {"run", "critical"}
  BY DEF StackInv, TypeOK
<1>1. ProcessStep(h, p, "resumed", ret[p])
  BY DEF StackInv, TypeOK, ProcessStep, ProcLabel, Resume, PGoto, procUnchanged,
     hartVars, logVars, releaseP
<1>2. TypeOK'
  BY DEF StackInv, TypeOK, ProcLabel, Resume, PGoto, procUnchanged, hartVars, logVars,
     releaseP
<1>3. HartInv' /\ OneHart' /\ RunInv' /\ idx[h] = p
  BY <1>1, ProcessFrame DEF Runs
<1>4. LockInv'
  BY <1>0, <1>1, OwnGiven DEF OwnLock, UnderLk, Resume
<1>5. ProcInv'
  BY SMTT(30) DEF StackInv, TypeOK, ProcInv, Resume, PGoto, procUnchanged, hartVars,
     logVars, releaseP
<1>6. StateInv'
  BY <1>0, <1>1, StateSame DEF Resume
<1>7. QED
  BY <1>2, <1>3, <1>4, <1>5, <1>6, Zenon DEF StackInv

\* The timer sends a process into yield().
LEMMA TimerStack ==
  ASSUME StackInv, NEW h \in Hart, NEW p \in Proc, Timer(h, p)
  PROVE  StackInv'
<1>0. ret'[p] \in {"run", "critical"}
  BY DEF StackInv, TypeOK, Timer
<1>1. ProcessStep(h, p, ret'[p], "yield")
  BY DEF StackInv, TypeOK, ProcessStep, ProcLabel, Timer, PGoto, procUnchanged,
     hartVars, logVars, acquireP
<1>2. TypeOK'
  BY DEF StackInv, TypeOK, ProcLabel, Timer, PGoto, procUnchanged, hartVars, logVars,
     acquireP
<1>3. HartInv' /\ OneHart' /\ RunInv' /\ idx[h] = p
  BY <1>1, ProcessFrame DEF Runs
<1>4. LockInv'
  BY <1>0, <1>1, OwnTaken DEF OwnLock, UnderLk, Timer
<1>5. ProcInv'
  BY SMTT(30) DEF StackInv, TypeOK, ProcInv, Timer, PGoto, procUnchanged, hartVars,
     logVars, acquireP
<1>6. StateInv'
  BY <1>0, <1>1, StateSame DEF Timer
<1>7. QED
  BY <1>2, <1>3, <1>4, <1>5, <1>6, Zenon DEF StackInv

\* yield() takes p->lock and makes the process RUNNABLE.
LEMMA YieldStack ==
  ASSUME StackInv, NEW h \in Hart, NEW p \in Proc, yield(h, p)
  PROVE  StackInv'
<1>1. ProcessStep(h, p, "yield", "sched")
  BY DEF StackInv, TypeOK, ProcessStep, ProcLabel, yield, PGoto, procUnchanged,
     hartVars, logVars
<1>2. TypeOK'
  BY SMTT(30) DEF StackInv, TypeOK, ProcLabel, yield, PGoto, procUnchanged, hartVars,
     logVars
<1>3. HartInv' /\ OneHart' /\ RunInv' /\ idx[h] = p
  BY <1>1, ProcessFrame DEF Runs
<1>4. LockInv'
  BY <1>1, LocksKept DEF OwnLock, UnderLk, yield
<1>5. ProcInv'
  BY DEF StackInv, TypeOK, ProcInv, yield, PGoto, procUnchanged, hartVars, logVars
<1>6. StateInv'
  <2>1. state'[p] # "RUNNING" /\ \A q \in Proc \ {p} : state'[q] = state[q]
    BY DEF StackInv, TypeOK, yield
  <2>2. QED
    BY <1>1, <2>1, StateOfOne
<1>7. QED
  BY <1>2, <1>3, <1>4, <1>5, <1>6, Zenon DEF StackInv

\* acquiresleep() takes lk.
LEMMA AcquireSleepStack ==
  ASSUME StackInv, NEW h \in Hart, NEW p \in Proc, AcquireSleep(h, p)
  PROVE  StackInv'
<1>1. ProcessStep(h, p, "run", "test")
  BY DEF StackInv, TypeOK, ProcessStep, ProcLabel, AcquireSleep, PGoto, procUnchanged,
     hartVars, logVars, acquireLk
<1>2. TypeOK'
  BY DEF StackInv, TypeOK, ProcLabel, AcquireSleep, PGoto, procUnchanged, hartVars,
     logVars, acquireLk
<1>3. HartInv' /\ OneHart' /\ RunInv' /\ idx[h] = p
  BY <1>1, ProcessFrame DEF Runs
<1>4. LockInv'
  BY <1>1, LkTaken DEF OwnLock, UnderLk, AcquireSleep
<1>5. ProcInv'
  BY DEF StackInv, TypeOK, ProcInv, AcquireSleep, PGoto, procUnchanged, hartVars,
     logVars, acquireLk
<1>6. StateInv'
  BY <1>1, StateSame DEF AcquireSleep
<1>7. QED
  BY <1>2, <1>3, <1>4, <1>5, <1>6, Zenon DEF StackInv

\* It finds the lock free, takes it and gives lk back.
LEMMA TakeSleepLockStack ==
  ASSUME StackInv, NEW h \in Hart, NEW p \in Proc, TakeSleepLock(h, p)
  PROVE  StackInv'
<1>1. ProcessStep(h, p, "test", "critical")
  BY DEF StackInv, TypeOK, ProcessStep, ProcLabel, TakeSleepLock, PGoto,
     procUnchanged, hartVars, logVars, releaseLk
<1>2. TypeOK'
  BY DEF StackInv, TypeOK, ProcLabel, TakeSleepLock, PGoto, procUnchanged, hartVars,
     logVars, releaseLk
<1>3. HartInv' /\ OneHart' /\ RunInv' /\ idx[h] = p
  BY <1>1, ProcessFrame DEF Runs
<1>4. LockInv'
  BY <1>1, LkGiven DEF OwnLock, UnderLk, TakeSleepLock
<1>5. ProcInv'
  BY SMTT(30) DEF StackInv, TypeOK, ProcInv, TakeSleepLock, PGoto, procUnchanged,
     hartVars, logVars, releaseLk
<1>6. StateInv'
  BY <1>1, StateSame DEF TakeSleepLock
<1>7. QED
  BY <1>2, <1>3, <1>4, <1>5, <1>6, Zenon DEF StackInv

\* It finds the lock taken, and sleep() takes p->lock, ...
LEMMA SleepAcquireStack ==
  ASSUME StackInv, NEW h \in Hart, NEW p \in Proc, SleepAcquire(h, p)
  PROVE  StackInv'
<1>1. ProcessStep(h, p, "test", "sleep")
  BY DEF StackInv, TypeOK, ProcessStep, ProcLabel, SleepAcquire, PGoto, procUnchanged,
     hartVars, logVars, acquireP
<1>2. TypeOK'
  BY DEF StackInv, TypeOK, ProcLabel, SleepAcquire, PGoto, procUnchanged, hartVars,
     logVars, acquireP
<1>3. HartInv' /\ OneHart' /\ RunInv' /\ idx[h] = p
  BY <1>1, ProcessFrame DEF Runs
<1>4. LockInv'
  BY <1>1, OwnTaken DEF OwnLock, UnderLk, SleepAcquire
<1>5. ProcInv'
  BY SMTT(30) DEF StackInv, TypeOK, ProcInv, SleepAcquire, PGoto, procUnchanged,
     hartVars, logVars, acquireP
<1>6. StateInv'
  BY <1>1, StateSame DEF SleepAcquire
<1>7. QED
  BY <1>2, <1>3, <1>4, <1>5, <1>6, Zenon DEF StackInv

\* ... gives lk back ...
LEMMA SleepReleaseStack ==
  ASSUME StackInv, NEW h \in Hart, NEW p \in Proc, sleepRelease(h, p)
  PROVE  StackInv'
<1>1. ProcessStep(h, p, "sleep", "asleep")
  BY SMTT(30) DEF StackInv, TypeOK, ProcessStep, ProcLabel, sleepRelease, PGoto,
     procUnchanged, hartVars, logVars, releaseLk
<1>2. TypeOK'
  BY SMTT(30) DEF StackInv, TypeOK, ProcLabel, sleepRelease, PGoto, procUnchanged,
     hartVars, logVars, releaseLk
<1>3. HartInv' /\ OneHart' /\ RunInv' /\ idx[h] = p
  BY <1>1, ProcessFrame DEF Runs
<1>4. LockInv'
  BY <1>1, LkGiven DEF OwnLock, UnderLk, sleepRelease
<1>5. ProcInv'
  BY DEF StackInv, TypeOK, ProcInv, sleepRelease, PGoto, procUnchanged, hartVars,
     logVars, releaseLk
<1>6. StateInv'
  BY <1>1, StateSame DEF sleepRelease
<1>7. QED
  BY <1>2, <1>3, <1>4, <1>5, <1>6, Zenon DEF StackInv

\* ... and makes the process SLEEPING.
LEMMA SleepStack ==
  ASSUME StackInv, NEW h \in Hart, NEW p \in Proc, sleep(h, p)
  PROVE  StackInv'
<1>1. ProcessStep(h, p, "asleep", "sched")
  BY DEF StackInv, TypeOK, ProcessStep, ProcLabel, sleep, PGoto, procUnchanged,
     hartVars, logVars
<1>2. TypeOK'
  BY SMTT(30) DEF StackInv, TypeOK, ProcLabel, sleep, PGoto, procUnchanged, hartVars,
     logVars
<1>3. HartInv' /\ OneHart' /\ RunInv' /\ idx[h] = p
  BY <1>1, ProcessFrame DEF Runs
<1>4. LockInv'
  BY <1>1, LocksKept DEF OwnLock, UnderLk, sleep
<1>5. ProcInv'
  BY SMTT(30) DEF StackInv, TypeOK, ProcInv, sleep, PGoto, procUnchanged, hartVars,
     logVars
<1>6. StateInv'
  <2>1. state'[p] # "RUNNING" /\ \A q \in Proc \ {p} : state'[q] = state[q]
    BY DEF StackInv, TypeOK, sleep
  <2>2. QED
    BY <1>1, <2>1, StateOfOne
<1>7. QED
  BY <1>2, <1>3, <1>4, <1>5, <1>6, Zenon DEF StackInv

\* Woken up, the process gives p->lock back ...
LEMMA SleptStack ==
  ASSUME StackInv, NEW h \in Hart, NEW p \in Proc, Slept(h, p)
  PROVE  StackInv'
<1>1. ProcessStep(h, p, "slept", "reacquire")
  BY DEF StackInv, TypeOK, ProcessStep, ProcLabel, Slept, PGoto, procUnchanged,
     hartVars, logVars, releaseP
<1>2. TypeOK'
  BY SMTT(30) DEF StackInv, TypeOK, ProcLabel, Slept, PGoto, procUnchanged, hartVars,
     logVars, releaseP
<1>3. HartInv' /\ OneHart' /\ RunInv' /\ idx[h] = p
  BY <1>1, ProcessFrame DEF Runs
<1>4. LockInv'
  BY <1>1, OwnGiven DEF OwnLock, UnderLk, Slept
<1>5. ProcInv'
  BY <1>3, SMTT(30) DEF StackInv, TypeOK, ProcInv, StateInv, Slept, PGoto,
     procUnchanged, hartVars, logVars, releaseP
<1>6. StateInv'
  BY <1>1, StateSame DEF Slept
<1>7. QED
  BY <1>2, <1>3, <1>4, <1>5, <1>6, Zenon DEF StackInv

\* ... and takes lk again, to test the sleep lock anew.
LEMMA ReacquireStack ==
  ASSUME StackInv, NEW h \in Hart, NEW p \in Proc, Reacquire(h, p)
  PROVE  StackInv'
<1>1. ProcessStep(h, p, "reacquire", "test")
  BY DEF StackInv, TypeOK, ProcessStep, ProcLabel, Reacquire, PGoto, procUnchanged,
     hartVars, logVars, acquireLk
<1>2. TypeOK'
  BY DEF StackInv, TypeOK, ProcLabel, Reacquire, PGoto, procUnchanged, hartVars,
     logVars, acquireLk
<1>3. HartInv' /\ OneHart' /\ RunInv' /\ idx[h] = p
  BY <1>1, ProcessFrame DEF Runs
<1>4. LockInv'
  BY <1>1, LkTaken DEF OwnLock, UnderLk, Reacquire
<1>5. ProcInv'
  BY DEF StackInv, TypeOK, ProcInv, Reacquire, PGoto, procUnchanged, hartVars,
     logVars, acquireLk
<1>6. StateInv'
  BY <1>1, StateSame DEF Reacquire
<1>7. QED
  BY <1>2, <1>3, <1>4, <1>5, <1>6, Zenon DEF StackInv

\* releasesleep() takes lk ...
LEMMA ReleaseSleepStack ==
  ASSUME StackInv, NEW h \in Hart, NEW p \in Proc, ReleaseSleep(h, p)
  PROVE  StackInv'
<1>1. ProcessStep(h, p, "critical", "free")
  BY DEF StackInv, TypeOK, ProcessStep, ProcLabel, ReleaseSleep, PGoto, procUnchanged,
     hartVars, logVars, acquireLk
<1>2. TypeOK'
  BY DEF StackInv, TypeOK, ProcLabel, ReleaseSleep, PGoto, procUnchanged, hartVars,
     logVars, acquireLk
<1>3. HartInv' /\ OneHart' /\ RunInv' /\ idx[h] = p
  BY <1>1, ProcessFrame DEF Runs
<1>4. LockInv'
  BY <1>1, LkTaken DEF OwnLock, UnderLk, ReleaseSleep
<1>5. ProcInv'
  BY SMTT(30) DEF StackInv, TypeOK, ProcInv, ReleaseSleep, PGoto, procUnchanged,
     hartVars, logVars, acquireLk
<1>6. StateInv'
  BY <1>1, StateSame DEF ReleaseSleep
<1>7. QED
  BY <1>2, <1>3, <1>4, <1>5, <1>6, Zenon DEF StackInv

\* ... frees the sleep lock and begins wakeup() at the first slot.
LEMMA FreeSleepLockStack ==
  ASSUME StackInv, NEW h \in Hart, NEW p \in Proc, FreeSleepLock(h, p)
  PROVE  StackInv'
<1>1. ProcessStep(h, p, "free", "wakeup")
  BY DEF StackInv, TypeOK, ProcessStep, ProcLabel, FreeSleepLock, PGoto,
     procUnchanged, hartVars, logVars
<1>2. TypeOK'
  <2>1. 1 \in 1 .. NPROC + 1
    BY RRAssumption DEF Proc
  <2>2. QED
    BY <2>1, Zenon DEF StackInv, TypeOK, ProcLabel, FreeSleepLock, PGoto,
       procUnchanged, hartVars, logVars
<1>3. HartInv' /\ OneHart' /\ RunInv' /\ idx[h] = p
  BY <1>1, ProcessFrame DEF Runs
<1>4. LockInv'
  BY <1>1, LocksKept DEF OwnLock, UnderLk, FreeSleepLock
<1>5. ProcInv'
  BY SMTT(30) DEF StackInv, TypeOK, ProcInv, FreeSleepLock, PGoto, procUnchanged,
     hartVars, logVars
<1>6. StateInv'
  BY <1>1, StateSame DEF FreeSleepLock
<1>7. QED
  BY <1>2, <1>3, <1>4, <1>5, <1>6, Zenon DEF StackInv

\* wakeup() passes over the process that calls it.
LEMMA WakeupSelfStack ==
  ASSUME StackInv, NEW h \in Hart, NEW p \in Proc, WakeupSelf(h, p)
  PROVE  StackInv'
<1>1. ProcessStep(h, p, "wakeup", "wakeup")
  BY DEF StackInv, TypeOK, ProcessStep, ProcLabel, WakeupSelf, PGoto, procUnchanged,
     hartVars, logVars
<1>2. TypeOK'
  <2>1. p + 1 \in 1 .. NPROC + 1
    BY RRAssumption DEF Proc
  <2>2. QED
    BY <2>1, SMTT(30) DEF StackInv, TypeOK, ProcLabel, WakeupSelf, PGoto,
       procUnchanged, hartVars, logVars
<1>3. HartInv' /\ OneHart' /\ RunInv' /\ idx[h] = p
  BY <1>1, ProcessFrame DEF Runs
<1>4. LockInv'
  BY <1>1, LocksKept DEF OwnLock, UnderLk, WakeupSelf
<1>5. ProcInv'
  BY SMTT(30) DEF StackInv, TypeOK, ProcInv, WakeupSelf, PGoto, procUnchanged,
     hartVars, logVars
<1>6. StateInv'
  BY <1>1, StateSame DEF WakeupSelf
<1>7. QED
  BY <1>2, <1>3, <1>4, <1>5, <1>6, Zenon DEF StackInv

\* At the end of the table releasesleep() gives lk back.
LEMMA WakeupDoneStack ==
  ASSUME StackInv, NEW h \in Hart, NEW p \in Proc, WakeupDone(h, p)
  PROVE  StackInv'
<1>1. ProcessStep(h, p, "wakeup", "run")
  BY DEF StackInv, TypeOK, ProcessStep, ProcLabel, WakeupDone, PGoto, procUnchanged,
     hartVars, logVars, releaseLk
<1>2. TypeOK'
  <2>1. 1 \in 1 .. NPROC + 1
    BY RRAssumption DEF Proc
  <2>2. QED
    BY <2>1, SMTT(30) DEF StackInv, TypeOK, ProcLabel, WakeupDone, PGoto,
       procUnchanged, hartVars, logVars, releaseLk
<1>3. HartInv' /\ OneHart' /\ RunInv' /\ idx[h] = p
  BY <1>1, ProcessFrame DEF Runs
<1>4. LockInv'
  BY <1>1, LkGiven DEF OwnLock, UnderLk, WakeupDone
<1>5. ProcInv'
  BY SMTT(30) DEF StackInv, TypeOK, ProcInv, WakeupDone, PGoto, procUnchanged,
     hartVars, logVars, releaseLk
<1>6. StateInv'
  BY <1>1, StateSame DEF WakeupDone
<1>7. QED
  BY <1>2, <1>3, <1>4, <1>5, <1>6, Zenon DEF StackInv

\* startlog() touches no lock and no process.
LEMMA StartlogStack ==
  ASSUME StackInv, NEW h \in Hart, NEW p \in Proc, sys_startlog(h, p)
  PROVE  StackInv'
<1>1. ProcessStep(h, p, "run", "run")
  BY SMTT(30) DEF StackInv, TypeOK, ProcessStep, ProcLabel, sys_startlog, PGoto,
     procUnchanged, hartVars, logVars
<1>2. TypeOK'
  BY RRAssumption, SMTT(30) DEF StackInv, TypeOK, ProcLabel, sys_startlog, PGoto,
     procUnchanged, hartVars, logVars
<1>3. HartInv' /\ OneHart' /\ RunInv' /\ idx[h] = p
  BY <1>1, ProcessFrame DEF Runs
<1>4. LockInv'
  BY <1>1, LocksKept DEF OwnLock, UnderLk, sys_startlog
<1>5. ProcInv'
  BY SMTT(30) DEF StackInv, TypeOK, ProcInv, sys_startlog, PGoto, procUnchanged,
     hartVars, logVars
<1>6. StateInv'
  BY <1>1, StateSame DEF sys_startlog
<1>7. QED
  BY <1>2, <1>3, <1>4, <1>5, <1>6, Zenon DEF StackInv

\* wakeup() takes p->lock of another slot while it holds lk: the one step at
\* which a process holds the p->lock of another.
LEMMA WakeupLockStack ==
  ASSUME StackInv, NEW h \in Hart, NEW p \in Proc, WakeupLock(h, p)
  PROVE  StackInv'
<1>1. ProcessStep(h, p, "wakeup", "wakeOne")
  BY SMTT(30) DEF StackInv, TypeOK, ProcessStep, ProcLabel, WakeupLock, PGoto,
     procUnchanged, hartVars, logVars, acquireP
<1>2. TypeOK'
  BY SMTT(30) DEF StackInv, TypeOK, ProcLabel, WakeupLock, PGoto, procUnchanged,
     hartVars, logVars, acquireP
<1>3. HartInv' /\ OneHart' /\ RunInv' /\ idx[h] = p
  BY <1>1, ProcessFrame DEF Runs
<1>4. LockInv'
  <2>0. PICK w \in Proc : w = wi[p]
    BY Zenon DEF WakeupLock
  <2>1. /\ plock' = [plock EXCEPT ![w] = h] /\ plock[w] = NoHart
        /\ plock \in [Proc -> Hart \cup {NoHart}] /\ UNCHANGED lk /\ wi'[p] = w
    BY <2>0 DEF StackInv, TypeOK, WakeupLock, acquireP
  <2>2. PICK to : to = "wakeOne"
    OBVIOUS
  <2>3. \A q \in Proc : plock[q] # h
    BY <1>1, LocksBefore DEF OwnLock
  <2>4. \A q \in Proc : plock'[q] = h <=> q = w
    BY <2>1, <2>3
  <2>5. lk' = h <=> to \in UnderLk
    BY <1>1, <2>1, <2>2, LocksBefore DEF UnderLk
  <2>6. \A g \in Hart \ {h} : /\ \A q \in Proc : plock'[q] = g <=> plock[q] = g
                              /\ lk' = g <=> lk = g
    BY <2>1, Names
  <2>7. to \notin OwnLock /\ to = "wakeOne" /\ wi'[p] = w
    BY <2>1, <2>2 DEF OwnLock
  <2>8. ProcessStep(h, p, "wakeup", to)
    BY <1>1, <2>2
  <2>9. QED
    BY <2>4, <2>5, <2>6, <2>7, <2>8, LocksAfter
<1>5. ProcInv'
  BY SMTT(30) DEF StackInv, TypeOK, ProcInv, WakeupLock, PGoto, procUnchanged,
     hartVars, logVars, acquireP
<1>6. StateInv'
  <2>1. UNCHANGED state
    BY Zenon DEF WakeupLock, procUnchanged
  <2>2. QED
    BY <1>1, <2>1, StateSame
<1>7. QED
  BY <1>2, <1>3, <1>4, <1>5, <1>6, Zenon DEF StackInv

\* It makes a sleeper RUNNABLE and gives that lock back.  A process on a hart
\* is not a sleeper: its hart would hold the lock.
LEMMA WakeOneStack ==
  ASSUME StackInv, NEW h \in Hart, NEW p \in Proc, WakeOne(h, p)
  PROVE  StackInv'
<1>0. PICK w \in Proc \ {p} : w = wi[p]
  BY DEF WakeOne, PGoto, StackInv, ProcInv
<1>1. /\ ppc[p] = "wakeOne" /\ ppc' = [ppc EXCEPT ![p] = "wakeup"]
      /\ state' = [state EXCEPT ![w] = IF @ = "SLEEPING" THEN "RUNNABLE" ELSE @]
      /\ plock' = [plock EXCEPT ![w] = NoHart] /\ wi' = [wi EXCEPT ![p] = w + 1]
  BY <1>0 DEF WakeOne, PGoto, releaseP
<1>2. UNCHANGED <<hpc, cproc, idx, ln, ret, lk, locked, logVars>>
  BY Zenon DEF WakeOne, procUnchanged, hartVars
<1>3. ProcessStep(h, p, "wakeOne", "wakeup")
  BY DEF WakeOne, ProcessStep, ProcLabel, procUnchanged, StackInv, TypeOK
<1>4. /\ ppc'[p] = "wakeup" /\ \A q \in Proc \ {p} : ppc'[q] = ppc[q] /\ wi'[q] = wi[q]
      /\ \A q \in Proc \ {w} : plock'[q] = plock[q] /\ state'[q] = state[q]
      /\ plock'[w] = NoHart /\ state'[w] # "SLEEPING"
      /\ state[w] # "SLEEPING" => state'[w] = state[w]
  BY <1>1 DEF StackInv, TypeOK
<1>5. TypeOK'
  <2>1. w + 1 \in 1 .. NPROC + 1
    BY RRAssumption DEF Proc
  <2>2. "wakeup" \in ProcLabel
    BY DEF ProcLabel
  <2>3. state' \in [Proc -> {"UNUSED", "SLEEPING", "RUNNABLE", "RUNNING"}]
    BY <1>1 DEF StackInv, TypeOK
  <2>4. plock' \in [Proc -> Hart \cup {NoHart}]
    BY <1>1 DEF StackInv, TypeOK
  <2>5. wi' \in [Proc -> 1 .. NPROC + 1] /\ ppc' \in [Proc -> ProcLabel]
    BY <1>1, <2>1, <2>2 DEF StackInv, TypeOK
  <2>6. QED
    BY <1>2, <2>3, <2>4, <2>5, Zenon DEF StackInv, TypeOK, logVars
<1>6. HartInv' /\ OneHart' /\ RunInv'
  BY <1>3, ProcessFrame
<1>7. \A q \in Proc : plock[q] = h <=> q = w
  BY <1>0, <1>3, LocksBefore DEF OwnLock
<1>8. LockInv'
  <2>1. PICK to : to = "wakeup"
    OBVIOUS
  <2>2. \A q \in Proc : plock'[q] # h
    BY <1>4, <1>7, Names
  <2>3. lk' = h <=> to \in UnderLk
    BY <1>2, <1>3, <2>1, LocksBefore DEF UnderLk
  <2>4. \A g \in Hart \ {h} : /\ \A q \in Proc : plock'[q] = g <=> plock[q] = g
                              /\ lk' = g <=> lk = g
    BY <1>2, <1>4, <1>7, Names
  <2>5. to \notin OwnLock /\ to # "wakeOne"
    BY <2>1 DEF OwnLock
  <2>6. ProcessStep(h, p, "wakeOne", to)
    BY <1>3, <2>1
  <2>7. QED
    BY <2>2, <2>3, <2>4, <2>5, <2>6, LocksAfter
<1>9. ProcInv'
  <2>1. ProcInv
    BY DEF StackInv
  <2>2. \A q \in Proc : state'[q] = "SLEEPING" => state[q] = "SLEEPING"
    BY <1>4, Zenon
  <2>3. QED
    BY <1>1, <1>2, <1>4, <2>1, <2>2 DEF ProcInv
<1>10. StateInv'
  <2>1. ASSUME NEW g \in Hart, hpc[g] \in Busy
        PROVE  state'[idx[g]] = state[idx[g]]
    <3>1. PICK i \in Proc : i = idx[g]
      BY DEF StackInv, TypeOK
    <3>2. CASE i = w
      <4>1. plock[w] = h /\ idx[g] = w /\ idx[h] = p
        <5>1. Runs(h, p)
          BY <1>3, ProcessFrame
        <5>2. QED
          BY <1>7, <3>1, <3>2, <5>1 DEF Runs
      <4>2. state[w] = "RUNNING"
        BY <2>1, <4>1, HeldElsewhere
      <4>3. QED
        BY <1>4, <4>1, <4>2, Zenon
    <3>3. CASE i # w
      BY <1>4, <3>1, <3>3
    <3>4. QED
      BY <3>2, <3>3
  <2>2. ASSUME NEW g \in Hart PROVE ppc[idx[g]] # "sched" <=> ppc'[idx[g]] # "sched"
    <3>1. PICK i \in Proc : i = idx[g]
      BY DEF StackInv, TypeOK
    <3>2. QED
      BY <1>1, <1>4, <3>1
  <2>3. StateInv
    BY DEF StackInv
  <2>4. UNCHANGED <<hpc, idx>>
    BY <1>2
  <2>5. \A g \in Hart : /\ hpc[g] \in Choosing => hpc[g] \in Busy
                        /\ hpc[g] = "process" => hpc[g] \in Busy
                        /\ hpc[g] = "back" => hpc[g] \in Busy
    BY DEF Busy
  <2>6. ASSUME NEW g \in Hart
        PROVE  /\ hpc[g] \in Choosing => state'[idx[g]] = "RUNNING"
               /\ hpc[g] = "process" => (state'[idx[g]] = "RUNNING" <=> ppc'[idx[g]] # "sched")
               /\ hpc[g] = "back" => state'[idx[g]] # "RUNNING"
    <3>1. hpc[g] \in Busy => state'[idx[g]] = state[idx[g]]
      BY <2>1
    <3>2. ppc[idx[g]] # "sched" <=> ppc'[idx[g]] # "sched"
      BY <2>2
    <3>3. /\ hpc[g] \in Choosing => state[idx[g]] = "RUNNING"
          /\ hpc[g] = "process" => (state[idx[g]] = "RUNNING" <=> ppc[idx[g]] # "sched")
          /\ hpc[g] = "back" => state[idx[g]] # "RUNNING"
      BY <2>3 DEF StateInv
    <3>4. QED
      BY <2>5, <3>1, <3>2, <3>3, Zenon
  <2>7. QED
    BY <2>4, <2>6, Zenon DEF StateInv
<1>11. QED
  BY <1>5, <1>6, <1>8, <1>9, <1>10 DEF StackInv

\* sched() leaves the process with p->lock held, for the scheduler of the hart.
LEMMA SchedStack ==
  ASSUME StackInv, NEW h \in Hart, NEW p \in Proc, sched(h, p)
  PROVE  StackInv'
<1>0. /\ hpc[h] = "process" /\ cproc[h] = p /\ ppc[p] = "sched"
      /\ ppc' = [ppc EXCEPT ![p] = IF state[p] = "SLEEPING" THEN "slept" ELSE "resumed"]
      /\ hpc' = [hpc EXCEPT ![h] = "back"]
      /\ UNCHANGED <<state, plock, cproc, idx, ln, ret, wi, lk, locked, logVars>>
  BY DEF sched, PGoto
<1>1. idx[h] = p
  BY <1>0 DEF StackInv, HartInv, Busy
<1>2. \A g \in Hart : hpc[g] \in Busy /\ idx[g] = p => g = h
  BY <1>0, <1>1, OneStack DEF Busy
<1>3. /\ ppc'[p] \in Parked /\ \A q \in Proc \ {p} : ppc'[q] = ppc[q]
      /\ state[p] = "SLEEPING" => ppc'[p] = "slept"
      /\ hpc'[h] = "back" /\ \A g \in Hart \ {h} : hpc'[g] = hpc[g]
  BY <1>0 DEF StackInv, TypeOK, Parked
<1>4. TypeOK' /\ HartInv'
  <2>1. ppc' \in [Proc -> ProcLabel] /\ hpc' \in [Hart -> HartLabel]
    BY <1>0 DEF StackInv, TypeOK, ProcLabel, HartLabel
  <2>2. TypeOK'
    BY <1>0, <2>1, Zenon DEF StackInv, TypeOK, logVars
  <2>3. HartInv
    BY DEF StackInv
  <2>4. HartInv'
    BY <1>0, <1>1, <1>3, <2>3 DEF HartInv, Busy
  <2>5. QED
    BY <2>2, <2>4
<1>5. OneHart' /\ ProcInv'
  <2>1. OneHart /\ ProcInv
    BY DEF StackInv
  <2>2. OneHart'
    BY <1>0, <2>1 DEF OneHart
  <2>3. ProcInv'
    BY <1>0, <1>3, <2>1 DEF ProcInv, Parked
  <2>4. QED
    BY <2>2, <2>3
<1>6. RunInv'
  <2>1. RunInv
    BY DEF StackInv
  <2>2. QED
    BY <1>0, <1>1, <1>3, <2>1 DEF RunInv, Runs
<1>7. StateInv'
  <2>1. StateInv /\ \A g \in Hart : idx[g] \in Proc
    BY DEF StackInv, TypeOK
  <2>2. QED
    BY <1>0, <1>1, <1>2, <1>3, <2>1 DEF StateInv, Choosing, Busy
<1>8. LockInv'
  <2>1. \A g \in Hart, q \in Proc : Holds(g, q)' <=> Holds(g, q)
    <3>0. hpc[h] = "process" /\ ppc[p] = "sched" /\ UNCHANGED <<idx, wi>>
      BY <1>0
    <3>1. \A q \in Proc : Holds(h, q) <=> q = p
      BY <1>1, <3>0 DEF Holds, Runs, OwnLock, Choosing
    <3>2. \A q \in Proc : Holds(h, q)' <=> q = p
      BY <1>1, <1>3, <3>0 DEF Holds, Runs
    <3>3. ASSUME NEW g \in Hart \ {h}, NEW q \in Proc
          PROVE  Holds(g, q)' <=> Holds(g, q)
      <4>1. ~Runs(g, p) /\ hpc'[g] = hpc[g] /\ idx'[g] = idx[g]
        BY <1>0, <1>2, <1>3, Zenon DEF Runs, Busy
      <4>2. QED
        BY <1>3, <3>0, <4>1 DEF Holds, Runs
    <3>4. QED
      BY <3>1, <3>2, <3>3
  <2>2. \A g \in Hart : HoldsLk(g)' <=> HoldsLk(g)
    BY <1>0, <1>1, <1>2, <1>3 DEF HoldsLk, Runs, UnderLk, Busy
  <2>3. LockInv /\ UNCHANGED <<plock, lk>>
    BY <1>0, Zenon DEF StackInv
  <2>4. QED
    BY <2>1, <2>2, <2>3 DEF LockInv
<1>9. QED
  BY <1>4, <1>5, <1>6, <1>7, <1>8 DEF StackInv

=============================================================================
