------------------------------- MODULE RRInv --------------------------------
(***************************************************************************)
(* The inductive invariant of the round-robin scheduler, and what it says  *)
(* about who is on which stack.                                            *)
(***************************************************************************)
EXTENDS RRScheduler, TLAPS

\* The places of a hart's scheduler between its choice of a process and the
\* swtch to it, and those with a process in c->proc.
Choosing == {"log", "logWrite", "logInc", "swtch"}
Busy == Choosing \cup {"process", "back"}

\* The places at which a running process holds its own p->lock, at which it
\* holds the spinlock of the sleep lock, and in which it is left by sched().
OwnLock == {"resumed", "yield", "sched", "sleep", "asleep", "slept"}
UnderLk == {"test", "sleep", "free", "wakeup", "wakeOne"}
Parked == {"resumed", "slept"}

\* Hart h runs process p.
Runs(h, p) == hpc[h] = "process" /\ idx[h] = p

\* Hart h holds p->lock of process p: its scheduler does, or the process it
\* runs, for itself or in wakeup().
Holds(h, p) ==
  \/ hpc[h] \in {"check", "back"} \cup Choosing /\ idx[h] = p
  \/ Runs(h, p) /\ ppc[p] \in OwnLock
  \/ \E q \in Proc : Runs(h, q) /\ ppc[q] = "wakeOne" /\ wi[q] = p

HoldsLk(h) == \E p \in Proc : Runs(h, p) /\ ppc[p] \in UnderLk

\* c->proc is the slot the scheduler has stopped at; and a log entry is
\* written only while there is room for it.
HartInv == \A h \in Hart :
  /\ hpc[h] \in Busy => cproc[h] = idx[h]
  /\ hpc[h] \notin Busy => cproc[h] = NoProc
  /\ hpc[h] \in {"logWrite", "logInc"} => ln[h] < LOG_SIZE

\* Each spinlock is held exactly by the hart whose program is between its
\* acquire and its release.
LockInv == \A h \in Hart : /\ \A p \in Proc : plock[p] = h <=> Holds(h, p)
                           /\ lk = h <=> HoldsLk(h)

\* A process away from its sched() is run by a hart.
RunInv == \A p \in Proc :
  ppc[p] \notin Parked => \E h \in Hart : Runs(h, p)

\* What a process keeps for itself.
ProcInv == \A p \in Proc :
  /\ ret[p] = "critical" => ppc[p] \in {"resumed", "yield", "sched"}
  /\ ppc[p] = "wakeOne" => wi[p] \in Proc \ {p}
  /\ state[p] = "SLEEPING" => ppc[p] \in {"sched", "slept"} /\ ret[p] = "run"

\* A process on a hart is RUNNING, except on its way out.
StateInv == \A h \in Hart :
  /\ hpc[h] \in Choosing => state[idx[h]] = "RUNNING"
  /\ hpc[h] = "process" => (state[idx[h]] = "RUNNING" <=> ppc[idx[h]] # "sched")
  /\ hpc[h] = "back" => state[idx[h]] # "RUNNING"

\* The sleep lock is taken exactly while a process is between acquiresleep()
\* and releasesleep().
Inside(p) == Place(p) \in {"critical", "free"}

SleepLockInv == /\ locked <=> \E p \in Proc : Inside(p)
                /\ SleepLockMutex

\* NoLostWakeup, from the moment at which acquiresleep() has found the lock
\* taken.
Pending(p) == \/ locked
              \/ \E q \in Proc : ppc[q] \in {"wakeup", "wakeOne"} /\ wi[q] <= p

WakeInv == \A p \in Proc :
  state[p] = "SLEEPING" \/ ppc[p] \in {"sleep", "asleep"} => Pending(p)

StackInv == /\ TypeOK /\ HartInv /\ LockInv /\ RunInv /\ ProcInv /\ StateInv
            /\ OneHart

IInv == StackInv /\ SleepLockInv /\ WakeInv

\* The log, with one hart: lastProcessId is its last entry, and the entry the
\* hart is about to write, or has written without counting it, is another.
Last == IF numLog > 0 THEN schedlog[numLog] ELSE NoProc

AloneInv ==
  /\ \A i \in 1 .. numLog - 1 : schedlog[i] # schedlog[i + 1]
  /\ hpc[1] \in {"logWrite", "logInc"} => ln[1] = numLog /\ idx[1] # Last
  /\ hpc[1] # "logInc" => lastProcessId = Last
  /\ hpc[1] = "logInc" => /\ lastProcessId = idx[1]
                          /\ schedlog[numLog + 1] = idx[1]

LogInv == Alone => AloneInv
=============================================================================
