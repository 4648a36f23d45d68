-------------------------------- MODULE MLFQ ---------------------------------
(***************************************************************************)
(* The process table and the multilevel feedback queue scheduler of "XV6   *)
(* Multilevel feedback queue" on one hart: every operation that makes a    *)
(* process runnable, stops it or changes its queue, the scheduler loop     *)
(* with its priority boost, and the traps that interrupt either of them.   *)
(*                                                                         *)
(* Code that runs with interrupts off (a spinlock is held, or a trap is    *)
(* being handled) is one step; where interrupts are on, a trap can come    *)
(* between two steps.                                                      *)
(***************************************************************************)
EXTENDS QTable, FiniteSets

CONSTANTS BOOST,                \* yields between two priority boosts (60)
          NiceIncs,             \* arguments user programs pass to nice()
          AbnormalExits,        \* do processes fault or get killed?
          InterruptsInDequeue   \* do traps hit the scheduler while it is
                                \* at work on the queues?

ASSUME MLFQAssumption == /\ BOOST \in Nat
                         /\ NiceIncs \subseteq Int
                         /\ AbnormalExits \in BOOLEAN
                         /\ InterruptsInDequeue \in BOOLEAN

NoProc == -1
initproc == 0

\* Sleep channels: a process sleeping in wait() uses its own address.
NoChan == -1
ticks == NPROC
io == NPROC + 1
Chan == Proc \cup {NoChan, ticks, io}

VARIABLES proc,       \* the process table
          qtable,     \* the run queues
          boost,      \* timeSincePriorityBoost
          cur,        \* the hart's c->proc
          intr,       \* are interrupts on while the scheduler runs?
          spc,        \* where the scheduler is
          sp,         \* its local variables: the process it chose ...
          oldPrev, oldNext,
          bi          \* ... and the slot its boost loop is at

vars == <<proc, qtable, boost, cur, intr, spc, sp, oldPrev, oldNext, bi>>
schedLocals == <<sp, oldPrev, oldNext, bi>>

procstate == {"UNUSED", "USED", "SLEEPING", "RUNNABLE", "RUNNING", "ZOMBIE"}

\* at: where the process is: in user mode (or a system call that needs no
\* modelling), in wait(), or in the middle of fork() or nice().
\* np: the child fork() is making.
ProcRecord ==
  [state : procstate, chan : Chan, killed : BOOLEAN, parent : Proc \cup {NoProc},
   nice : -20 .. 19, quanta : Nat, queue : Level,
   at : {"user", "wait", "fork", "niceRemove", "niceEnqueue"},
   np : Proc \cup {NoProc}]

TypeOK == /\ proc \in [Proc -> ProcRecord]
          /\ qtable \in [Entry -> qentry]
          /\ boost \in 0 .. BOOST + 1
          /\ cur \in Proc \cup {NoProc}
          /\ intr \in BOOLEAN
          /\ spc \in {"loop", "boost", "pick", "unlink", "relink", "run",
                      "process", "panic"}
          /\ sp \in Entry /\ oldPrev \in Entry /\ oldNext \in Entry
          /\ bi \in 0 .. NPROC

-----------------------------------------------------------------------------
(***************************************************************************)
(* Operations on the process table k.proc and the queues k.qtable together,*)
(* so that handlers compose them in the order of their calls.              *)
(***************************************************************************)
kernel == [proc |-> proc, qtable |-> qtable]

Install(k) == proc' = k.proc /\ qtable' = k.qtable

enqueue(k, p) ==
  LET r == k.proc[p]
      q == LevelOut(r.nice, r.queue, r.quanta)
  IN [proc |-> [k.proc EXCEPT
                  ![p].quanta = QuantaOut(r.nice, r.queue, r.quanta),
                  ![p].queue = q],
      qtable |-> append(k.qtable, p, q)]

\* (The channel of a process that does not sleep is not looked at: it is
\* cleared here, not when the sleeper runs again.)
MakeRunnable(k, p) ==
  enqueue([k EXCEPT !.proc[p].state = "RUNNABLE", !.proc[p].chan = NoChan], p)

\* The loop of wakeup: the slots of P in order.
MakeAllRunnable(k, P) ==
  LET f[n \in 0 .. NPROC] ==
        IF n = 0 THEN k
        ELSE IF n - 1 \in P THEN MakeRunnable(f[n - 1], n - 1) ELSE f[n - 1]
  IN f[NPROC]

\* wakeup(chan), called by process self or (NoProc) by the scheduler's trap.
wakeup(k, chan, self) ==
  MakeAllRunnable(k, {p \in Proc \ {self} : /\ k.proc[p].state = "SLEEPING"
                                            /\ k.proc[p].chan = chan})

Children(k, p) == {c \in Proc : k.proc[c].parent = p}

reparent(k, p) ==
  LET given == [k EXCEPT !.proc =
                  [c \in Proc |-> IF c \in Children(k, p)
                                  THEN [k.proc[c] EXCEPT !.parent = initproc]
                                  ELSE k.proc[c]]]
  IN IF Children(k, p) = {} THEN k ELSE wakeup(given, initproc, p)

\* Mutant: the parent is not told of the exit.
exitSilent(k, p) == [reparent(k, p) EXCEPT !.proc[p].state = "ZOMBIE"]

\* exit(), from taking wait_lock to the call of sched(): interrupts are off.
exit(k, p) ==
  LET woken == wakeup(reparent(k, p), k.proc[p].parent, p)
  IN [woken EXCEPT !.proc[p].state = "ZOMBIE"]

\* Mutant: the process gives up the processor without queueing itself.
yieldUnqueued(k, p) ==
  [k EXCEPT !.proc[p].state = "RUNNABLE", !.proc[p].quanta = @ + 1]

\* yield(), up to the call of sched().
yield(k, p) ==
  enqueue([k EXCEPT !.proc[p].state = "RUNNABLE", !.proc[p].quanta = @ + 1], p)

freeproc(r) ==
  [r EXCEPT !.state = "UNUSED", !.chan = NoChan, !.killed = FALSE,
            !.parent = NoProc, !.nice = 0]

\* sched(): the hart is the scheduler's again.  release(&p->lock) in dequeue
\* turns interrupts on if they were on when the process took its first lock.
Switch(intena) == /\ cur' = NoProc /\ spc' = "loop" /\ intr' = intena
                  /\ UNCHANGED schedLocals

\* The process goes on: nothing of the hart changes.
Stay == UNCHANGED <<boost, cur, intr, spc, schedLocals>>

\* panic() prints and spins.
Panic == /\ spc' = "panic"
         /\ UNCHANGED <<proc, qtable, boost, cur, intr, schedLocals>>

\* k is the kernel's state when the process gets to exit().
Exit(k, p, intena) ==
  IF p = initproc THEN Panic
  ELSE Install(exit(k, p)) /\ Switch(intena) /\ UNCHANGED boost

-----------------------------------------------------------------------------
\* userinit() has made init runnable and the hart enters scheduler() with
\* interrupts still off.
Init ==
  LET slot == [state |-> "UNUSED", chan |-> NoChan, killed |-> FALSE,
               parent |-> NoProc, nice |-> 0, quanta |-> 0, queue |-> 0,
               at |-> "user", np |-> NoProc]
      k == MakeRunnable([proc |-> [p \in Proc |-> slot],
                         qtable |-> setupQueue(ZeroTable)], initproc)
  IN /\ proc = k.proc /\ qtable = k.qtable
     /\ boost = 0 /\ cur = NoProc /\ intr = FALSE /\ spc = "loop"
     /\ sp = 0 /\ oldPrev = 0 /\ oldNext = 0 /\ bi = 0

(***************************************************************************)
(* The scheduler.                                                          *)
(***************************************************************************)
\* The test of the boost at the top of the loop; setupQueue is one step.
Loop ==
  /\ spc = "loop"
  /\ IF boost > BOOST THEN qtable' = setupQueue(qtable) /\ spc' = "boost"
                      ELSE spc' = "pick" /\ UNCHANGED qtable
  /\ UNCHANGED <<proc, boost, cur, intr, schedLocals>>

\* Mutant: the boost passes over the last slot of the table.
BoostShort ==
  /\ spc = "boost"
  /\ IF bi < NPROC - 1
     THEN /\ Install(IF proc[bi].state = "RUNNABLE" THEN enqueue(kernel, bi)
                     ELSE kernel)
          /\ bi' = bi + 1 /\ UNCHANGED <<boost, spc>>
     ELSE boost' = 0 /\ bi' = 0 /\ spc' = "pick" /\ UNCHANGED <<proc, qtable>>
  /\ UNCHANGED <<cur, intr, sp, oldPrev, oldNext>>

\* One slot of the boost's loop, or its end.
Boost ==
  /\ spc = "boost"
  /\ IF bi < NPROC
     THEN /\ Install(IF proc[bi].state = "RUNNABLE" THEN enqueue(kernel, bi)
                     ELSE kernel)
          /\ bi' = bi + 1 /\ UNCHANGED <<boost, spc>>
     ELSE boost' = 0 /\ bi' = 0 /\ spc' = "pick" /\ UNCHANGED <<proc, qtable>>
  /\ UNCHANGED <<cur, intr, sp, oldPrev, oldNext>>

Empty(q) == qtable[HEAD(q)].next = TAIL(q)

\* Mutant: a queue is looked at before the one above it.
PickUpsideDown ==
  /\ spc = "pick"
  /\ \E q \in Level :
       LET i == qtable[HEAD(q)].next IN
       /\ ~Empty(q) /\ \A h \in Level : h > q => Empty(h)
       /\ sp' = i /\ oldPrev' = qtable[i].prev /\ oldNext' = qtable[i].next
       /\ qtable' = [qtable EXCEPT ![i].queue = EMPTY]
  /\ spc' = "unlink"
  /\ UNCHANGED <<proc, boost, cur, intr, bi>>

\* dequeue: the head of the first queue that is not empty; removeFromQueue
\* marks its entry and reads its links.
Pick ==
  /\ spc = "pick"
  /\ \E q \in Level :
       LET i == qtable[HEAD(q)].next IN
       /\ ~Empty(q) /\ \A h \in Level : h < q => Empty(h)
       /\ sp' = i /\ oldPrev' = qtable[i].prev /\ oldNext' = qtable[i].next
       /\ qtable' = [qtable EXCEPT ![i].queue = EMPTY]
  /\ spc' = "unlink"
  /\ UNCHANGED <<proc, boost, cur, intr, bi>>

\* dequeue with nothing to run returns before its intr_on().
PickNone == /\ spc = "pick" /\ \A q \in Level : Empty(q)
            /\ spc' = "loop"
            /\ UNCHANGED <<proc, qtable, boost, cur, intr, schedLocals>>

\* The two link assignments of removeFromQueue.
Unlink == /\ spc = "unlink"
          /\ qtable' = [qtable EXCEPT ![oldPrev].next = oldNext]
          /\ spc' = "relink"
          /\ UNCHANGED <<proc, boost, cur, intr, schedLocals>>

\* Mutant: the second one is left out.
RelinkForgotten == /\ spc = "relink"
                   /\ oldPrev' = 0 /\ oldNext' = 0
                   /\ spc' = "run" /\ intr' = TRUE
                   /\ UNCHANGED <<proc, qtable, boost, cur, sp, bi>>

\* The second one, and intr_on().
Relink == /\ spc = "relink"
          /\ qtable' = [qtable EXCEPT ![oldNext].prev = oldPrev]
          /\ oldPrev' = 0 /\ oldNext' = 0
          /\ spc' = "run" /\ intr' = TRUE
          /\ UNCHANGED <<proc, boost, cur, sp, bi>>

\* From acquire(&p->lock) to the process: it goes on behind its sched(), a
\* sleeper clearing its channel.  A process that has exited ends up in
\* panic("zombie exit").
Run ==
  /\ spc = "run" /\ sp \in Proc
  /\ proc' = [proc EXCEPT ![sp].state = "RUNNING", ![sp].chan = NoChan]
  /\ spc' = IF proc[sp].state \in {"ZOMBIE", "UNUSED"} THEN "panic"
            ELSE "process"
  /\ cur' = sp /\ sp' = 0
  /\ UNCHANGED <<qtable, boost, intr, oldPrev, oldNext, bi>>

\* An entry that is no process: the scheduler takes the memory behind the
\* process table for one.  What happens then is not modelled.
RunWild == /\ spc = "run" /\ sp \notin Proc
           /\ spc' = "panic"
           /\ UNCHANGED <<proc, qtable, boost, cur, intr, schedLocals>>

\* A timer or device interrupt in the scheduler: there is no process to yield.
SchedulerTrap ==
  /\ cur = NoProc /\ intr
  /\ \/ spc \in {"loop", "run"}
     \/ spc # "panic" /\ InterruptsInDequeue
  /\ \E chan \in {ticks, io} : Install(wakeup(kernel, chan, NoProc))
  /\ UNCHANGED <<boost, cur, intr, spc, schedLocals>>

Halted == spc = "panic" /\ UNCHANGED vars

(***************************************************************************)
(* The running process.                                                    *)
(***************************************************************************)
Running(p) == spc = "process" /\ cur = p

User(p) == Running(p) /\ proc[p].at = "user"

\* A system call begins: usertrap has found the process not killed.
Calls(p) == User(p) /\ ~proc[p].killed

\* A timer interrupt: clockintr wakes the sleepers on ticks; from user mode a
\* killed process exits (interrupts are off); otherwise it yields.
TimerTrap(p) ==
  /\ Running(p)
  /\ LET k == wakeup(kernel, ticks, p) IN
     IF proc[p].at = "user" /\ proc[p].killed THEN Exit(k, p, FALSE)
     ELSE Install(yield(k, p)) /\ boost' = boost + 1 /\ Switch(FALSE)

\* A device interrupt.
DeviceTrap(p) ==
  /\ Running(p)
  /\ LET k == wakeup(kernel, io, p) IN
     IF proc[p].at = "user" /\ proc[p].killed THEN Exit(k, p, FALSE)
     ELSE Install(k) /\ Stay

\* An exception in user mode: setkilled() and exit(-1), interrupts still off.
Fault(p) ==
  /\ AbnormalExits /\ User(p)
  /\ Exit([kernel EXCEPT !.proc[p].killed = TRUE], p, FALSE)

\* A killed process exits when it enters a system call (interrupts still
\* off) or when it leaves one.
ExitKilled(p) == /\ User(p) /\ proc[p].killed
                 /\ \E intena \in BOOLEAN : Exit(kernel, p, intena)

\* sys_exit.  init exits only when something it needs fails.
sys_exit(p) == /\ Calls(p) /\ (p = initproc => AbnormalExits)
               /\ Exit(kernel, p, TRUE)

\* A system call that sleeps until an interrupt or another process wakes it.
sleep(p) ==
  /\ Calls(p)
  /\ \E chan \in {ticks, io} :
       proc' = [proc EXCEPT ![p].state = "SLEEPING", ![p].chan = chan]
  /\ Switch(TRUE) /\ UNCHANGED <<qtable, boost>>

\* A system call that wakes others (a pipe, a released sleep lock).
wake(p) == Calls(p) /\ Install(wakeup(kernel, io, p)) /\ Stay

\* fork(), while it holds np->lock: allocproc takes the first free slot.
forkAlloc(p) ==
  /\ Calls(p)
  /\ \E np \in Proc :
       /\ proc[np].state = "UNUSED"
       /\ \A i \in 0 .. np - 1 : proc[i].state # "UNUSED"
       /\ proc' = [proc EXCEPT ![np].state = "USED", ![np].at = "user",
                               ![p].at = "fork", ![p].np = np]
  /\ Stay /\ UNCHANGED qtable

\* fork() goes on: the parent, then the child is runnable.
forkStart(p) ==
  /\ Running(p) /\ proc[p].at = "fork"
  /\ LET np == proc[p].np IN
     Install(MakeRunnable([kernel EXCEPT !.proc[np].parent = p,
                                         !.proc[p].at = "user",
                                         !.proc[p].np = NoProc], np))
  /\ Stay

enterWait(p) == /\ Calls(p) /\ proc' = [proc EXCEPT ![p].at = "wait"]
                /\ Stay /\ UNCHANGED qtable

\* One round of wait(), wait_lock held: free the first child that has exited,
\* or give up, or sleep on the caller's own address.
wait(p) ==
  /\ Running(p) /\ proc[p].at = "wait"
  /\ LET kids == Children(kernel, p)
         zombies == {c \in kids : proc[c].state = "ZOMBIE"}
         first == CHOOSE c \in zombies : \A d \in zombies : c <= d
     IN IF zombies # {}
        THEN /\ proc' = [proc EXCEPT ![first] = freeproc(@), ![p].at = "user"]
             /\ Stay
        ELSE IF kids = {} \/ proc[p].killed
        THEN proc' = [proc EXCEPT ![p].at = "user"] /\ Stay
        ELSE /\ proc' = [proc EXCEPT ![p].state = "SLEEPING", ![p].chan = p]
             /\ Switch(TRUE) /\ UNCHANGED boost
  /\ UNCHANGED qtable

\* Mutant: the woken victim is not queued.
killUnqueued(p) ==
  /\ AbnormalExits /\ Calls(p)
  /\ \E v \in Proc :
       /\ proc[v].state # "UNUSED"
       /\ proc' = [proc EXCEPT ![v].killed = TRUE,
                     ![v].state = IF @ = "SLEEPING" THEN "RUNNABLE" ELSE @]
  /\ Stay /\ UNCHANGED qtable

\* kill(): a sleeping victim is woken so that it can exit.
kill(p) ==
  /\ AbnormalExits /\ Calls(p)
  /\ \E v \in Proc :
       LET k == [kernel EXCEPT !.proc[v].killed = TRUE] IN
       /\ proc[v].state # "UNUSED"
       /\ Install(IF proc[v].state = "SLEEPING" THEN MakeRunnable(k, v) ELSE k)
  /\ Stay

Clamp(n) == IF n > 19 THEN 19 ELSE IF n < -20 THEN -20 ELSE n

\* tempQueue as sys_nice computes it.
TempQueue(n) == IF n > 10 THEN 0 ELSE IF n < -10 THEN 1
                ELSE IF n <= -10 THEN 2 ELSE -1

\* sys_nice, up to its comparison of the two queues ...
sys_nice(p) ==
  /\ Calls(p)
  /\ \E inc \in NiceIncs :
       LET n == Clamp(proc[p].nice + inc) IN
       proc' = [proc EXCEPT ![p].nice = n,
                            ![p].at = IF TempQueue(n) # proc[p].queue
                                      THEN "niceRemove" ELSE "user"]
  /\ Stay /\ UNCHANGED qtable

\* ... and its two calls, which a trap can separate.
niceRemove(p) ==
  /\ Running(p) /\ proc[p].at = "niceRemove"
  /\ qtable' = removeFromQueue(qtable, p)
  /\ proc' = [proc EXCEPT ![p].at = "niceEnqueue"]
  /\ Stay

niceEnqueue(p) ==
  /\ Running(p) /\ proc[p].at = "niceEnqueue"
  /\ Install(enqueue([kernel EXCEPT !.proc[p].at = "user"], p))
  /\ Stay

-----------------------------------------------------------------------------
SchedulerStep == Loop \/ Boost \/ Pick \/ PickNone \/ Unlink \/ Relink \/ Run
                 \/ RunWild

ProcessStep(p) ==
  \/ TimerTrap(p) \/ DeviceTrap(p) \/ Fault(p) \/ ExitKilled(p)
  \/ sys_exit(p) \/ sleep(p) \/ wake(p) \/ forkAlloc(p) \/ forkStart(p)
  \/ enterWait(p) \/ wait(p) \/ kill(p)
  \/ sys_nice(p) \/ niceRemove(p) \/ niceEnqueue(p)

Next == \/ SchedulerStep \/ SchedulerTrap \/ Halted
        \/ \E p \in Proc : ProcessStep(p)

Spec == Init /\ [][Next]_vars

\* The scheduler's loop never stops.  The timer goes on ticking: it cannot for
\* ever come only while the scheduler runs, nor hit only killed processes,
\* which do not yield but exit.  (Weak fairness of SchedulerStep and strong
\* fairness of the two kinds of TimerTrap, spelled out.)
Fairness ==
  /\ []<>(spc \in {"process", "panic"}) \/ []<><<SchedulerStep>>_vars
  /\ <>[](spc # "process") \/ []<><<\E p \in Proc : TimerTrap(p)>>_vars
  /\ \/ <>[](spc = "process" => proc[cur].at = "user" /\ proc[cur].killed)
     \/ []<><<\E p \in Proc : TimerTrap(p) /\ boost' = boost + 1>>_vars

FairSpec == Spec /\ Fairness

-----------------------------------------------------------------------------
(***************************************************************************)
(* Properties.                                                             *)
(***************************************************************************)

\* The three run queues are proper doubly linked lists of distinct processes
\* whenever the scheduler is not between the two assignments with which
\* removeFromQueue unlinks an entry.
QueuesAreLists == spc # "relink" => \A q \in Level : IsList(qtable, q)

\* The process dequeue has taken off its queue and not yet run, and the ones
\* the boost has dropped and not yet put back.
InHand(p) == \/ spc \in {"relink", "run"} /\ p = sp
             \/ spc = "boost" /\ p >= bi

\* A process is linked into a run queue exactly if it is RUNNABLE: once, in
\* the queue its p->queue names.  (A runnable process in no queue is never
\* scheduled, one that is queued twice or is not runnable runs when it must
\* not.)
RunnableQueued ==
  LET m == [q \in Level |-> Members(qtable, q)] IN
  \A p \in Proc : ~InHand(p) =>
    \A q \in Level :
      Cardinality({i \in DOMAIN m[q] : m[q][i] = p})
        = IF proc[p].state = "RUNNABLE" /\ q = proc[p].queue THEN 1 ELSE 0

\* wait() does not sleep through an exit: no process sleeps in wait() while it
\* has a child, its own or one left to init by reparent(), that has exited.
NoMissedExit ==
  \A p \in Proc : proc[p].state = "SLEEPING" /\ proc[p].chan = p =>
    \A c \in Children(kernel, p) : proc[c].state # "ZOMBIE"

\* Whatever nice() did to the queues, a priority boost leaves them proper
\* lists that hold exactly the runnable processes.
BoostRepairs ==
  [][spc = "boost" /\ spc' = "pick" => (QueuesAreLists /\ RunnableQueued)']_vars

\* The boosts, BOOST + 1 yields apart, keep the processes in the first BOOST + 1
\* slots (61 of the kernel's 64) from starvation, whatever runs in the queues
\* above theirs: when they are runnable they get to run, unless the kernel
\* panics because init was killed.  (A boost refills the queues in the order of
\* the slots, so the slots behind them may starve.)
EveryoneRuns ==
  \A p \in {q \in Proc : q <= BOOST} :
    proc[p].state = "RUNNABLE" ~> (proc[p].state = "RUNNING" \/ spc = "panic")

\* The linked table implements three first-in first-out queues: processes join
\* at the end of one, the scheduler dispatches the oldest process of the
\* highest queue that has one, and a boost puts back whom it drops.
Queues == INSTANCE RunQueues WITH
  Procs <- Proc, None <- NoProc,
  line <- [q \in 1 .. 3 |-> Members(qtable, q - 1)],
  dispatched <- IF spc \in {"relink", "run"} THEN sp ELSE cur,
  limbo <- IF spc = "boost"
           THEN {p \in bi .. NPROC - 1 : proc[p].state = "RUNNABLE"} ELSE {}

ImplementsQueues == Queues!RQSpec

-----------------------------------------------------------------------------
(***************************************************************************)
(* What comments of the code say, and the code does not do.                *)
(***************************************************************************)

\* "Jump into the scheduler, never to return." (exit): no process that has
\* exited is about to run.
NeverToReturn ==
  spc = "run" /\ sp \in Proc => proc[sp].state \notin {"ZOMBIE", "UNUSED"}

\* "Avoid deadlock by ensuring that devices can interrupt." (the scheduler
\* of the other kernel tree): a hart with nothing to run has its interrupts on.
IdleInterruptible ==
  spc = "pick" /\ (\A q \in Level : Empty(q)) => intr
=============================================================================
