----------------------------- MODULE RRScheduler -----------------------------
(***************************************************************************)
(* The round-robin scheduler of "XV6 Scheduler" on several harts: the      *)
(* scheduler loop of each hart and its log of context switches, yield,     *)
(* sleep and wakeup, the spinlocks that order them, and a sleep lock       *)
(* (sleeplock.c) that the processes contend for.                           *)
(*                                                                         *)
(* A step is one acquire or release of a spinlock, or what a hart does     *)
(* between two of them.                                                    *)
(***************************************************************************)
EXTENDS Integers, Sequences, FiniteSets

CONSTANTS NCPU,       \* the harts, 1 .. NCPU
          NPROC,      \* the processes, 1 .. NPROC (also their pids)
          LOG_SIZE    \* entries of schedlog (100)

ASSUME RRAssumption == /\ NCPU \in Nat \ {0} /\ NPROC \in Nat \ {0}
                       /\ LOG_SIZE \in Nat

Hart == 1 .. NCPU
NoHart == 0
Proc == 1 .. NPROC
NoProc == 0

VARIABLES state, plock,      \* p->state, and the hart that holds p->lock
          cproc, hpc, idx,   \* per hart: c->proc, where its scheduler is, p,
          ln,                \* and the copy of numLog it has loaded
          ppc, ret, wi,      \* per process: where it is, where yield returns to,
                             \* and the slot its wakeup() is at
          lk, locked,        \* the sleep lock: the hart that holds its spinlock,
                             \* and the lock itself
          numLog, lastProcessId, schedlog

hartVars == <<cproc, hpc, idx, ln>>
procVars == <<ppc, ret, wi>>
logVars == <<numLog, lastProcessId, schedlog>>
vars == <<state, plock, hartVars, procVars, lk, locked, logVars>>

HartLabel == {"off", "scan", "check", "log", "logWrite", "logInc", "swtch", "process",
              "back"}
ProcLabel == {"resumed", "run", "critical", "yield", "sched",
              "test", "sleep", "asleep", "slept", "reacquire",
              "free", "wakeup", "wakeOne"}

TypeOK == /\ state \in [Proc -> {"UNUSED", "SLEEPING", "RUNNABLE", "RUNNING"}]
          /\ plock \in [Proc -> Hart \cup {NoHart}]
          /\ cproc \in [Hart -> Proc \cup {NoProc}]
          /\ hpc \in [Hart -> HartLabel] /\ idx \in [Hart -> Proc]
          /\ ln \in [Hart -> 0 .. LOG_SIZE]
          /\ ppc \in [Proc -> ProcLabel]
          /\ ret \in [Proc -> {"run", "critical"}]
          /\ wi \in [Proc -> 1 .. NPROC + 1]
          /\ lk \in Hart \cup {NoHart} /\ locked \in BOOLEAN
          /\ numLog \in 0 .. LOG_SIZE /\ lastProcessId \in Proc \cup {NoProc}
          /\ schedlog \in [1 .. LOG_SIZE -> Proc \cup {NoProc}]

\* Some slots of the table hold a process.  -smp decides how many harts there
\* are: the others never start.
Init == /\ \E n \in Proc :
             state = [p \in Proc |-> IF p <= n THEN "RUNNABLE" ELSE "UNUSED"]
        /\ plock = [p \in Proc |-> NoHart]
        /\ cproc = [h \in Hart |-> NoProc]
        /\ \E n \in Hart :
             hpc = [h \in Hart |-> IF h <= n THEN "scan" ELSE "off"]
        /\ idx = [h \in Hart |-> 1]
        /\ ln = [h \in Hart |-> 0]
        /\ ppc = [p \in Proc |-> "resumed"]
        /\ ret = [p \in Proc |-> "run"] /\ wi = [p \in Proc |-> 1]
        /\ lk = NoHart /\ locked = FALSE
        /\ numLog = 0 /\ lastProcessId = NoProc
        /\ schedlog = [i \in 1 .. LOG_SIZE |-> NoProc]

-----------------------------------------------------------------------------
(***************************************************************************)
(* The scheduler of hart h.                                                *)
(***************************************************************************)
SGoto(h, from, to) == hpc[h] = from /\ hpc' = [hpc EXCEPT ![h] = to]

\* Mutant: the loop starts over after every process.
NextSlotRestarts(h) == idx' = [idx EXCEPT ![h] = 1]

NextSlot(h) == idx' = [idx EXCEPT ![h] = (@ % NPROC) + 1]

acquireP(h, p) == plock[p] = NoHart /\ plock' = [plock EXCEPT ![p] = h]
releaseP(p) == plock' = [plock EXCEPT ![p] = NoHart]

Scan(h) == /\ SGoto(h, "scan", "check")
           /\ acquireP(h, idx[h])
           /\ UNCHANGED <<state, cproc, idx, ln, procVars, lk, locked, logVars>>

\* Not runnable: release and on to the next slot.
Skip(h) == /\ SGoto(h, "check", "scan")
           /\ state[idx[h]] # "RUNNABLE"
           /\ releaseP(idx[h]) /\ NextSlot(h)
           /\ UNCHANGED <<state, cproc, ln, procVars, lk, locked, logVars>>

Choose(h) == /\ SGoto(h, "check", "log")
             /\ state[idx[h]] = "RUNNABLE"
             /\ state' = [state EXCEPT ![idx[h]] = "RUNNING"]
             /\ cproc' = [cproc EXCEPT ![h] = idx[h]]
             /\ UNCHANGED <<plock, idx, ln, procVars, lk, locked, logVars>>

\* No lock protects the log, which the harts share.  The compiled loop loads
\* numLog once: the test, the index and the increment all use that copy.
LogTest(h) ==
  /\ SGoto(h, "log", IF numLog < LOG_SIZE /\ lastProcessId # idx[h]
                     THEN "logWrite" ELSE "swtch")
  /\ ln' = [ln EXCEPT ![h] = numLog]
  /\ UNCHANGED <<state, plock, cproc, idx, procVars, lk, locked, logVars>>

LogWrite(h) ==
  /\ SGoto(h, "logWrite", "logInc")
  /\ schedlog' = [schedlog EXCEPT ![ln[h] + 1] = idx[h]]
  /\ lastProcessId' = idx[h]
  /\ UNCHANGED <<state, plock, cproc, idx, ln, procVars, lk, locked, numLog>>

LogInc(h) ==
  /\ SGoto(h, "logInc", "swtch")
  /\ numLog' = ln[h] + 1
  /\ UNCHANGED <<state, plock, cproc, idx, ln, procVars, lk, locked,
                 lastProcessId, schedlog>>

\* swtch to the process, which goes on behind its own swtch.
Swtch(h) == /\ SGoto(h, "swtch", "process")
            /\ UNCHANGED <<state, plock, cproc, idx, ln, procVars, lk, locked,
                           logVars>>

\* The process is back: c->proc = 0, release, next slot.
Back(h) == /\ SGoto(h, "back", "scan")
           /\ cproc' = [cproc EXCEPT ![h] = NoProc]
           /\ releaseP(idx[h]) /\ NextSlot(h)
           /\ UNCHANGED <<state, ln, procVars, lk, locked, logVars>>

-----------------------------------------------------------------------------
(***************************************************************************)
(* Process p, running on hart h.                                           *)
(***************************************************************************)
PGoto(h, p, from, to) ==
  /\ hpc[h] = "process" /\ cproc[h] = p
  /\ ppc[p] = from /\ ppc' = [ppc EXCEPT ![p] = to]

procUnchanged == UNCHANGED <<hartVars, logVars>>

acquireLk(h) == lk = NoHart /\ lk' = h
releaseLk == lk' = NoHart

\* The process is running again behind the swtch of its yield() (or in
\* forkret()): it releases p->lock and returns to where it was.
Resume(h, p) == /\ PGoto(h, p, "resumed", ret[p])
                /\ releaseP(p)
                /\ ret' = [ret EXCEPT ![p] = "run"]
                /\ UNCHANGED <<state, wi, lk, locked>> /\ procUnchanged

\* The timer: yield() takes p->lock ...
Timer(h, p) == \E from \in {"run", "critical"} :
                 /\ PGoto(h, p, from, "yield")
                 /\ acquireP(h, p)
                 /\ ret' = [ret EXCEPT ![p] = from]
                 /\ UNCHANGED <<state, wi, lk, locked>> /\ procUnchanged

\* Mutant: ... and gives it back before it has left its stack.
yieldUnlocked(h, p) == /\ PGoto(h, p, "yield", "sched")
                       /\ state' = [state EXCEPT ![p] = "RUNNABLE"]
                       /\ releaseP(p)
                       /\ UNCHANGED <<ret, wi, lk, locked>> /\ procUnchanged

\* ... and the process is runnable,
yield(h, p) == /\ PGoto(h, p, "yield", "sched")
               /\ state' = [state EXCEPT ![p] = "RUNNABLE"]
               /\ UNCHANGED <<plock, ret, wi, lk, locked>> /\ procUnchanged

\* until sched() gives the hart back to its scheduler.
sched(h, p) ==
  /\ PGoto(h, p, "sched",
           IF state[p] = "SLEEPING" THEN "slept" ELSE "resumed")
  /\ hpc' = [hpc EXCEPT ![h] = "back"]
  /\ UNCHANGED <<state, plock, cproc, idx, ln, ret, wi, lk, locked, logVars>>

\* acquiresleep() takes the lock's spinlock ...
AcquireSleep(h, p) == /\ PGoto(h, p, "run", "test")
                      /\ acquireLk(h)
                      /\ UNCHANGED <<state, plock, ret, wi, locked>>
                      /\ procUnchanged

\* ... finds the lock free
\* (Mutant: or does not look,)
TakeUntested(h, p) == /\ PGoto(h, p, "test", "critical")
                      /\ locked' = TRUE
                      /\ releaseLk
                      /\ UNCHANGED <<state, plock, ret, wi>> /\ procUnchanged

TakeSleepLock(h, p) == /\ PGoto(h, p, "test", "critical")
                       /\ ~locked /\ locked' = TRUE
                       /\ releaseLk
                       /\ UNCHANGED <<state, plock, ret, wi>> /\ procUnchanged

\* or goes to sleep(): acquire(&p->lock),
SleepAcquire(h, p) == /\ PGoto(h, p, "test", "sleep")
                      /\ locked /\ acquireP(h, p)
                      /\ UNCHANGED <<state, ret, wi, lk, locked>>
                      /\ procUnchanged

\* then release(lk),
\* (Mutant: which it keeps while it sleeps,)
sleepKeep(h, p) == /\ PGoto(h, p, "sleep", "asleep")
                   /\ UNCHANGED <<state, plock, ret, wi, lk, locked>>
                   /\ procUnchanged

sleepRelease(h, p) == /\ PGoto(h, p, "sleep", "asleep")
                      /\ releaseLk
                      /\ UNCHANGED <<state, plock, ret, wi, locked>>
                      /\ procUnchanged

\* and only then the state.
sleep(h, p) == /\ PGoto(h, p, "asleep", "sched")
               /\ state' = [state EXCEPT ![p] = "SLEEPING"]
               /\ UNCHANGED <<plock, ret, wi, lk, locked>> /\ procUnchanged

\* The end of sleep(): release(&p->lock), acquire(lk) and the test again.
Slept(h, p) == /\ PGoto(h, p, "slept", "reacquire")
               /\ releaseP(p)
               /\ UNCHANGED <<state, ret, wi, lk, locked>> /\ procUnchanged

Reacquire(h, p) == /\ PGoto(h, p, "reacquire", "test")
                   /\ acquireLk(h)
                   /\ UNCHANGED <<state, plock, ret, wi, locked>>
                   /\ procUnchanged

\* releasesleep(): acquire, free the lock,
ReleaseSleep(h, p) == /\ PGoto(h, p, "critical", "free")
                      /\ acquireLk(h)
                      /\ UNCHANGED <<state, plock, ret, wi, locked>>
                      /\ procUnchanged

\* Mutant: the wakeup() that follows begins with the second process.
FreeSkipsFirst(h, p) == /\ PGoto(h, p, "free", "wakeup")
                        /\ locked' = FALSE
                        /\ wi' = [wi EXCEPT ![p] = 2]
                        /\ UNCHANGED <<state, plock, ret, lk>> /\ procUnchanged

FreeSleepLock(h, p) == /\ PGoto(h, p, "free", "wakeup")
                       /\ locked' = FALSE
                       /\ wi' = [wi EXCEPT ![p] = 1]
                       /\ UNCHANGED <<state, plock, ret, lk>> /\ procUnchanged

\* wakeup(): every process but the caller, under its p->lock,
WakeupLock(h, p) == /\ PGoto(h, p, "wakeup", "wakeOne")
                    /\ wi[p] \in Proc \ {p} /\ acquireP(h, wi[p])
                    /\ UNCHANGED <<state, ret, wi, lk, locked>>
                    /\ procUnchanged

WakeOne(h, p) == /\ PGoto(h, p, "wakeOne", "wakeup")
                 /\ state' = [state EXCEPT ![wi[p]] =
                                IF @ = "SLEEPING" THEN "RUNNABLE" ELSE @]
                 /\ releaseP(wi[p])
                 /\ wi' = [wi EXCEPT ![p] = @ + 1]
                 /\ UNCHANGED <<ret, lk, locked>> /\ procUnchanged

WakeupSelf(h, p) == /\ PGoto(h, p, "wakeup", "wakeup") /\ wi[p] = p
                    /\ wi' = [wi EXCEPT ![p] = @ + 1]
                    /\ UNCHANGED <<state, plock, ret, lk, locked>>
                    /\ procUnchanged

\* and release.
WakeupDone(h, p) == /\ PGoto(h, p, "wakeup", "run") /\ wi[p] = NPROC + 1
                    /\ releaseLk
                    /\ wi' = [wi EXCEPT ![p] = 1]
                    /\ UNCHANGED <<state, plock, ret, locked>>
                    /\ procUnchanged

\* Mutant: startlog() begins the log anew.
sys_startlogAnew(h, p) == /\ PGoto(h, p, "run", "run")
                          /\ numLog' = 0
                          /\ UNCHANGED <<state, plock, ret, wi, lk, locked,
                                         hartVars, lastProcessId, schedlog>>

\* startlog() from a user program: it fails unless the log is empty.
sys_startlog(h, p) == /\ PGoto(h, p, "run", "run")
                      /\ numLog' = IF numLog # 0 THEN numLog ELSE 0
                      /\ UNCHANGED <<state, plock, ret, wi, lk, locked,
                                     hartVars, lastProcessId, schedlog>>

-----------------------------------------------------------------------------
HartStep(h) == Scan(h) \/ Skip(h) \/ Choose(h) \/ LogTest(h) \/ LogWrite(h)
               \/ LogInc(h) \/ Swtch(h) \/ Back(h)

\* What the kernel does of its own accord once it has begun.
KernelStep(h, p) ==
  \/ Resume(h, p) \/ yield(h, p) \/ sched(h, p)
  \/ TakeSleepLock(h, p) \/ SleepAcquire(h, p) \/ sleepRelease(h, p)
  \/ sleep(h, p) \/ Slept(h, p) \/ Reacquire(h, p)
  \/ FreeSleepLock(h, p) \/ WakeupLock(h, p) \/ WakeOne(h, p)
  \/ WakeupSelf(h, p) \/ WakeupDone(h, p)

\* What comes from the timer and from the program.
ProgramStep(h, p) == Timer(h, p) \/ AcquireSleep(h, p) \/ ReleaseSleep(h, p)
                     \/ sys_startlog(h, p)

Next == \E h \in Hart : \/ HartStep(h)
                        \/ \E p \in Proc : KernelStep(h, p) \/ ProgramStep(h, p)

Spec == Init /\ [][Next]_vars

\* Hart 1 goes on executing; a timer interrupt stays pending until the process
\* lets it in between two critical sections; and a process that holds the
\* sleep lock releases it in the end.
Fairness ==
  /\ WF_vars(HartStep(1) \/ \E p \in Proc : KernelStep(1, p))
  /\ SF_vars(\E p \in Proc : Timer(1, p))
  /\ SF_vars(\E p \in Proc : ReleaseSleep(1, p))

FairSpec == Spec /\ Fairness

-----------------------------------------------------------------------------
(***************************************************************************)
(* Properties.                                                             *)
(***************************************************************************)

\* No two harts are on the kernel stack of the same process, although another
\* hart may find it RUNNABLE before yield() has left that stack.
OneHart == \A h, g \in Hart : cproc[h] # NoProc /\ cproc[h] = cproc[g] => h = g

\* None of the panics of sched() can happen: the caller holds its own p->lock,
\* its hart holds no other spinlock, and it is no longer RUNNING.
SchedChecks ==
  \A h \in Hart : hpc[h] = "process" /\ ppc[cproc[h]] = "sched" =>
    /\ {p \in Proc : plock[p] = h} = {cproc[h]} /\ lk # h
    /\ state[cproc[h]] # "RUNNING"

\* "we can be guaranteed that we won't miss any wakeup" (sleep): a process
\* sleeps only while the sleep lock is taken, or while a wakeup() that has not
\* yet come to it is on its way.
NoLostWakeup ==
  \A p \in Proc : state[p] = "SLEEPING" =>
    \/ locked
    \/ \E q \in Proc : ppc[q] \in {"wakeup", "wakeOne"} /\ wi[q] <= p

\* Where a process is in its program.
Place(p) == IF ppc[p] \in {"resumed", "yield", "sched"} THEN ret[p] ELSE ppc[p]

\* acquiresleep() and releasesleep() let one process at a time in between
\* them, across yields and whichever harts the processes run on.
SleepLockMutex ==
  \A p, q \in Proc : /\ p # q
                     /\ Place(p) \in {"critical", "free"}
                     => Place(q) \notin {"critical", "free"}

\* Only one hart was started (-smp 1).
Alone == \A h \in Hart \ {1} : hpc[h] = "off"

\* "we don't want same process ID in a row though" (scheduler): with one hart,
\* no two neighbouring entries of the log name the same process.  (With two,
\* which share the log without a lock, they may.)
LogNoRepeats ==
  Alone => \A i \in 1 .. numLog - 1 : schedlog[i] # schedlog[i + 1]

\* "how many logs have been recorded" (sys_getlog): with one hart, entries that
\* have been recorded stay recorded.
LogKept == [][Alone => /\ numLog' >= numLog
                       /\ \A i \in 1 .. numLog : schedlog'[i] = schedlog[i]]_vars

\* What sys_getlog() returns with one hart: a record that only grows and in
\* which no process follows itself.
LogRecords == []LogNoRepeats /\ LogKept

\* With one hart, every runnable process gets to run.
EveryoneRuns == \A p \in Proc :
  Alone /\ state[p] = "RUNNABLE" ~> state[p] = "RUNNING"

\* With one hart, every process that sleeps for the sleep lock is woken.
EveryoneWakes == \A p \in Proc :
  Alone /\ state[p] = "SLEEPING" ~> state[p] # "SLEEPING"

\* Neither the scan of scheduler() nor the sleep lock starves a process.
NoStarvation == EveryoneRuns /\ EveryoneWakes
=============================================================================
