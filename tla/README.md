# A verification project for CS352

The repository holds three systems projects. This directory models them in TLA+,
model-checks the models with TLC, and proves three of the components with TLAPS for every
value of their constants.

| Project (under `src/`) | What it is |
|---|---|
| `Metadata journaling service` | a user-space write-ahead journal: three pthreads joined by circular buffers and semaphores |
| `XV6 Multilevel feedback queue` | xv6-riscv with a three-level feedback queue scheduler |
| `XV6 Scheduler` | xv6-riscv with the stock round-robin scheduler and a log of context switches |

The two xv6 trees are nearly the same kernel; they differ in `proc.c` and in small details. A part that is the
same in both is modelled once.

`PROJECT.json` maps every definition to the lines it models, and lists the runs, the theorems and the hazards
(the places where the code could go wrong in a way a test would hardly reach).

## 1. Modules and runs

| Part of the system | Modules | Run | Proofs |
|---|---|---|---|
| journaling service (`journal.c`, `block_service.c`, `file_system.c`) | `CircBuffer`, `Journal`, `JournalService` | `journal`, `journal_wal` | `JournalInv`, `JournalOrder`, `JournalProofs` |
| MLFQ run queues and scheduler (`proc.c`, `trap.c`) | `QTable`, `MLFQ`, `RunQueues` | `mlfq_queues`, `mlfq_boost`, `mlfq_zombie` | – |
| round-robin scheduler, sleep/wakeup, sleep locks, context-switch log (`proc.c`, `sleeplock.c`) | `RRScheduler` | `rr_scheduler` | `RRInv`, `RRStack`, `RRProofs` |
| write-ahead log (`log.c`) | `Xv6Log`, `AtomicDisk` | `log_crash` | `Xv6LogInv`, `Xv6LogProofs` |
| buffer cache and disk driver (`bio.c`, `virtio_disk.c`) | `BufferCache`, `VirtioDisk` | `disk_io` | – |
| inodes, directories, file calls (`fs.c`, `file.c`, `sysfile.c`, `mkfs.c`) | `Inodes`, `FileCalls`, `FileSystem`, `UserTests` | `file_system` | – |
| pages, page tables, processes, exec (`kalloc.c`, `vm.c`, `proc.c`, `exec.c`) | `Memory`, `Processes`, `ProcTests` | `memory_process` | – |
| pipes, shell, filters (`pipe.c`, `sh.c`, `cat.c`, `grep.c`, `wc.c`) | `Pipe`, `Sh`, `Shell` | `pipes_shell` | – |
| console, UART, interrupts, spinlocks (`console.c`, `uart.c`, `trap.c`, `plic.c`, `spinlock.c`) | `Console`, `LineDiscipline` | `console_io` | – |

A module `MCx` with the `.cfg` of the run gives the constants of `x` their values. The parts meet as they do in the kernel:
`BufferCache` extends the driver it calls; the file calls extend the inodes; the shell extends the pipes; `Xv6Log`
has the pins of the buffer cache in it, and the file calls count the blocks that each of them logs (`OpFits`), which is the
precondition under which `Xv6Log` is checked.

There are two styles. Where the hard part is the interleaving (journal, schedulers, log, cache, driver, console), a
module has one variable per piece of state and one action per stretch of code between two points at which
another thread, hart, interrupt or crash can come in. Where the hard part is what a long sequential function does on all its paths
(file system, memory, processes, pipes), a module has one operator per C function, from a state
record to a state record, and an action is one system call.

## 2. The journaling service

`CircBuffer` is `circ_buff_t` with `enqueue` and `dequeue` as operators on records. `Journal` has the
buffers, the mutex, the semaphores and program counters of `main` and the three workers, and the threads that
complete a txe; one step is one semaphore operation, one buffer operation or one block write. `wr` is each
thread's local variable of that name; `done` is a history: for each kind of event, the requests it has happened
to, in order. `JournalService` is what a client sees: how many requests are made, journaled, committed,
checkpointed and completed, each count ahead of the next by no more than the buffers allow.

| Run | Bounds | Shows |
|---|---|---|
| `journal` | 3 requests, buffers of 2 | buffer bounds, order through the stages, semaphore accounting; the threads implement `JournalService`; all requests complete unless `main` returns first |
| `journal_wal` (violation) | the same | the checkpoint can precede the completion of the txe |

More requests than slots makes every buffer wrap, fill and block its producer. Fairness is weak fairness
of each thread, which a preemptive scheduler gives. It is enough although `mutex` is contended, because
the requests are finitely many: no thread can take `mutex` again and again for ever. The final return
of `main` is not assumed. `metaDataBuffer.size` is also read without the mutex, but only to choose a message.

**Proved** (for every number of requests and every buffer size, from `NumTestsAssumption` and
`BufferSizeAssumption`): `TypeCorrect`, `MutexCorrect`, `AccountingCorrect`, `BuffersNeverOverrun`, `WritesInOrder`,
`WritesOrdered`, `ServiceImplemented`. None of
the properties is inductive. A buffer is not overrun because a producer that has passed `HasSpace` owns
a slot, so the invariant has to account for every slot: it is free (in the semaphore), reserved by
a producer, filled, or emptied by a consumer that has not posted it yet; and likewise for the filled
slots and the other semaphore (`SemaphoreAccounting`). The order of the writes needs in addition that each
buffer holds exactly the requests its producer has given and its consumer not taken, oldest first
(`QueueInv`), that the request in a thread's hands is the last one it took (`HandInv`), and that the
writes of one thread follow each other (`ChainInv`). `Invariance` proves the conjunction `IInv`, one lemma
per conjunct (`TypeStep`, `MutexStep`, `AccountingStep`, `ChainStep`, `HandStep`, `QueueStep`, `InOrderStep`) and in
each one case per kind of step; `StepKinds` classifies the steps of `Next`. `TypeOK` is part of it because
it bounds the semaphores, and the bounds follow only from the accounting.

`ServiceImplemented` is the refinement. `StageBounds` turns the accounting into the inequalities between the counts of two
neighbouring stages, including the request that a worker has in its hand; `StageStep` says which count a step advances, so that
it is one step of the service or a stutter (`ServiceStep`). That `main` is past its loop only after the last
request (`MainInv`) and that nothing happens after it returns (`NothingAfterExit`) give the end of the service.

## 3. The MLFQ kernel

`QTable` has the table and the operators `setupQueue`, `append` (the link assignments of `enqueue`) and
`removeFromQueue`, and the choice of queue (`LevelOut`, `QuantaOut`). `MLFQ` has the process table, the
scheduler split where an interrupt can come in (`Pick`, `Unlink`, `Relink`, `Run`, one step per slot
of the boost), and one action per system call or trap. Code that runs with interrupts off is one
step. The model has one hart: on several, `qtable` is simply unprotected. `intr` follows `intena`: a
process that leaves by `yield`, by a fault or by being killed on entry leaves interrupts off; one that
sleeps or exits in a system call leaves them on. Of the sleep channels, `ticks` stands for the
clock's, `io` for all the others, and a process's index for the one of `wait`. `setupQueue`, and each of the
two calls in `nice`, is one step: finer steps are not modelled. What `dequeue` does with an entry that is no
process is not followed (`RunWild` stops the model).

`RunQueues` says what the table stands for: FIFO queues, joined at the end, served from the head of
the highest one that is not empty.

Four constants choose the environment: `NiceIncs` (arguments of `nice`), `AbnormalExits`
(faults and kills), `InterruptsInDequeue` (interrupts while the scheduler is inside `dequeue` or the boost,
as opposed to before and after) and the limits, which are 15, 10, 1 and 60 in the code and are cut
down so that demotions and boosts happen.

| Run | Environment | Shows |
|---|---|---|
| `mlfq_queues` | 3 slots, faults and kills, no nice, no interrupts in dequeue | the lists are proper and hold exactly the runnable processes; no exit is missed by `wait`, init's included; `RunQueues` is implemented; the first `BOOST + 1` slots do not starve |
| `mlfq_boost` | 2 slots, `nice(15)` | whatever `nice` did, a boost restores the queues |
| `mlfq_zombie` (violation) | 2 slots, `nice(15)` | a process that called `nice` and exited is scheduled again |

Three slots give init, a parent and a child, so that children are handed to init, and a queue with a head, a middle and a
tail. They do not tell the wakeup of init in `reparent` from that of the parent in `exit`: that takes a
grandchild. Fairness: the scheduler's loop goes on (weak), and the timer interrupts processes again and
again (strong: it stays pending while interrupts are off, and the model excludes only that it
always comes while the scheduler runs, or always to a killed process). It is written out without `ENABLED`, by the states
in which the step is possible. `EveryoneRuns` speaks of the first `BOOST + 1` slots, because a boost refills the
queues in the order of the table: the code's 61 yields against 64 slots leave the last three without a guarantee.

Two more observations about this code do not have runs. With interrupts let into `dequeue`, `RunnableQueued` fails:
a process that the clock wakes between the two assignments of `removeFromQueue` is in no queue. And with
faults the scheduler can be left over empty queues with interrupts off, for ever: the last runnable process faults while its
parent is not in `wait`. Both are among the hazards.

## 4. The round-robin kernel

`RRScheduler` has harts that scan the process table under `p->lock`, the processes that run on them,
and one sleep lock all processes use. A step is one acquire or release, or the code between two. All
processes exist and are runnable at the start; a hart may be off for good, so that one instance covers a machine with fewer harts. The
log follows the compiled loop (`kernel.asm`), which
loads `numLog` once for the test, the index and the increment. `ret` is where `yield` returns to.

| Run | Bounds | Shows |
|---|---|---|
| `rr_scheduler` | 1 or 2 harts, 3 processes, 2 log entries | one hart per process, the panics of `sched` unreachable, no lost wakeup, one holder of the sleep lock, no deadlock; on one hart everyone runs, every sleeper is woken, and the log has no repeats and keeps its entries |

Three processes let one hold the sleep lock, one sleep on it and one be between the two. Liveness is checked on
one hart (`Alone`): spinlocks are not fair, so with several harts none of these promises follows from the
code. Fairness: hart 1 goes on (weak); the timer, pending while locks are held, gets in (strong);
a holder of the sleep lock releases it (strong, since yields come between). On two harts, which share the log without
a lock, TLC finds the same process twice in a row in the log; the comment at `proc.c:519` says it should not be.

**Proved** (for any number of harts, processes and log entries): `TypeCorrect`, `OneHartPerProcess`,
`SchedNeverPanics`, `NoWakeupIsLost`, `SleepLockExcludes`, and the action property with its invariant, `LogIsARecord`
(from `LogHasNoRepeats` and `LogIsKept`). That a process is on one hart says nothing about why: it holds because
`p->lock` travels with the process through `swtch`. So the invariant (`RRInv`) says, for every point of the
scheduler's and of a process's code, which locks the hart then holds (`Holds`, `HoldsLk`), and that each lock is held by
exactly the hart whose code says so (`LockInv`); that a process outside `sched` is run by some hart (`RunInv`);
and how `p->state` goes with that (`StateInv`, `ProcInv`, `HartInv`). `RRStack` proves this part, `StackInv`, one lemma per
action. Most steps move one process between two places and take or give at most one lock; the lemmas `LocksKept`,
`OwnTaken`, `OwnGiven`, `LkTaken` and `LkGiven` say this once. On top of it, `SleepLockInv` ties `locked`
to who is between `acquiresleep` and `releasesleep`, and `WakeInv` strengthens `NoLostWakeup`: the promise of a
wakeup has to hold from the moment `acquiresleep` has found the lock taken, under `lk->lk`, and not only once the process is
SLEEPING. The log needs `AloneInv`: `lastProcessId` is the last entry, and the entry under construction is a different one.

## 5. The write-ahead log

`Xv6Log` has `log.c` with the part of the buffer cache it leans on. What happens under `log.lock` is one step; `commit` and
the recovery take one step per block written, with the loop in `stage` and `tail`. A `Crash` is possible
between any two of them and keeps only `disk`, `dlog` and `dhead`. `Load` and `Recycle` are what other users of the buffer cache do to
a buffer that is not pinned. `AtomicDisk` is the promise: the writes of a group of calls become durable together, when no call
is in progress, and a crash goes back to the last group.

| Run | Bounds | Shows |
|---|---|---|
| `log_crash` | 3 processes, 3 blocks, 2 values, 2 blocks a call, 4 entries | nobody sleeps in `begin_op` without a waker, reservations and pins add up, and the log implements `AtomicDisk` under the mapping: *stable* is what a recovery from the present disk would leave, *view* is what `bread` returns |

Four entries and two blocks a call let two calls in and make the third wait; three blocks let calls overlap and be
absorbed. The reservations are those of `LOGSIZE`, while `log_write` panics at `nlog - 1` entries: with `nlog = LOGSIZE`, as
in the code, a transaction that fills the header exactly panics. The model keeps this.

**Proved** (for any sets of processes, blocks and values and any log size that holds one call): `TypeCorrect`,
`SleepersAreWoken`, `PinsAreExact`, `AtomicDiskImplemented`. The inductive invariant `LInv` (`Xv6LogInv`) has five parts beside
the types. `CallInv`: calls, a commit and a recovery exclude each other, `outstanding` counts the calls, and
nothing is logged when nothing is going on; the last is what rules out a sleeper that finds the log full with nobody to
empty it, and it needs `MAXOPBLOCKS <= LOGSIZE`. `HeadInv`: no block is in a header twice, and the header on the disk is
empty until the commit writes it, then equal to `log.lh`. `CopyInv`: how far the copies to the log and from the log have come.
`PinInv`: exactly the buffers of the transaction that are not yet in their place are pinned, once, and are cached. `CleanInv`: every
other buffer has what the disk has. The last two are why a block that `write_log` or a reader fetches is never stale.
Each action has a lemma for the invariant (`...Inv`) and one for the refinement (`...Step`). The commit point is
`WriteHeadStep`: before it a recovery gives `disk` (`NothingToRecover`), after it the view of the calls. After a panic in `log_write` the
modified buffer is not pinned and the cache may drop it; the abstract disk sees that as a write by the call
that panicked, and only a crash follows (`CacheStep`).

`Reservation` is a sum over the calls in progress and needs induction over a set; it stays with TLC.

## 6. Buffer cache and disk

`VirtioDisk` is the driver and the device as the driver uses it: the descriptors with their chains, the available and
the used ring, whose indices wrap at `WRAP`, and the interrupt handler, one step per used entry because the device goes on meanwhile.
`BufferCache` puts `bget`, `bread`, `bwrite` and `brelse` with the LRU list and the sleep lock of each
buffer on top. A process holds one buffer at a time.

`disk_io` (3 processes, 2 buffers, 3 blocks, 4 or 8 descriptors, processes and blocks symmetric, and a view that forgets ring
entries that are done with): a block is in one buffer at most; who
has a buffer from `bread` alone holds it and finds the last contents written; the chains of requests under way are disjoint; nobody sleeps
for a completion, a descriptor or a buffer that is there. With four descriptors a second request has to wait for
the chain of the first; with two buffers and three blocks every miss recycles.

## 7. The file system

`Inodes` is `fs.c` with one operator per function, on a record of disk, bitmap, inode table and open transaction; `FileCalls` is
`file.c` and `sysfile.c`, and the image of `mkfs`. In `FileSystem` a call is one step,
`Calls` the calls a process may make at will, and `Crash` falls between calls. `UserTests` runs the file system tests of `usertests.c` and some programs as
scripts (the constant `Tests`): the same calls, and what each must return; scripts of a test that forks interleave. Its `syscall` has one
disjunct per call, and takes the call from a script or from `Calls`. Every operator gets the state as its first argument and
`Then` hands the result of one to the next. Sizes are those of the
instance (24 blocks, 16 inodes, 4 direct blocks of 4 cells).

`file_system`: all scripts pass and nothing panics (`AsExpected`); bitmap, link counts, directory tree and inodes agree
between calls (`Consistent`), every reference of the inode and file tables is somebody's (`RefCounts`), and no call logs
more than `MAXOPBLOCKS` blocks (`OpFits`), also on a disk with two free inodes and four free blocks, where calls fail in the middle.

What the code does and the model keeps: creating or linking in a removed working directory leaks an inode, and `chdir("..")`
out of one leads to the panic of `ilock` (the state `adrift`, which the properties exclude by name); a crash between
an unlink and the last close leaves an orphan inode; `mkfs` rounds the size of the root directory up over unused entries; `writei` does not log the block
of a copy that failed half way; `readi` may allocate a block outside a transaction for a hole, which no call makes.

## 8. Memory and processes

`Memory` is `kalloc.c` and `vm.c`: three-level page tables in pages of 8 cells, so that a heap of a few pages needs tables on all
levels. `Processes` has fork, exec, exit, wait, kill, sbrk and faults with the memory they own, and `ProcTests` the process and memory
tests of `usertests.c` as scripts, and processes that call anything three times.

`memory_process` (62 pages, 6 processes): every page has one owner, `p->sz` matches the table and every process
has a living parent (`KernelSound`); the scripts get what they demand; every test ends with its children reaped (`AllReaped`),
under weak fairness of each runnable process, with `ENABLED` written out (`Ready`). The memory runs out inside fork, exec and
sbrk at every place. `kill(0)` marks a free slot, `kill(1)` ends in the panic of `exit`, and `wait` with a
bad address leaves the zombie; the scripts do not call the first two.

## 9. Pipes and the shell

`Pipe` has the ring with its wrapping counters, both sleeping sides, and the descriptors; `Sh` the recursive descent parser over
tokens, `runcmd` as the calls a process makes, and echo, cat, wc and grep; `Shell` interleaves the processes call by call.

`pipes_shell` (6 processes, 2 pipes of 2 bytes, counters that wrap at 4; all lines of up to three tokens but for some that start
too many processes, wrong lines of four, and a choice of long ones): ends of pipes are counted and nobody sleeps who could go on (`PipesSound`); the parser
accepts exactly the grammar, given as sets of derivations, and builds the one derivation there is (`ParsesGrammar`); what
was written is what the command means, a reference semantics (`MeansWhatItSays`); every command ends, also when a process in
the middle is killed (`CommandsEnd`, fair to each runnable process). Kept from the code: `>>` writes from offset 0, the first of two
redirections wins, grep stops at a line longer than its buffer and ignores a last line without an end, `pipewrite` returns -1 after
part of a write when the readers have gone, and a kill between the test and the sleep is noticed at the next wakeup.

## 10. Console and interrupts

`Console` has two harts with stacks of frames, interrupts at every point where they are enabled, the nesting of
`push_off`, the interrupt controller, the UART with its two FIFOs, both ways to write it, line editing, and `sys_sleep`. `LineDiscipline`
is what readers are promised.

`console_io` (rings of 1 and 2 bytes, counters that wrap at 4, seven scripts of keys, calls and timer ticks): no
panic of the locks and no handler that waits for what it interrupted; what leaves the device is what was written and typed; the
ring implements `LineDiscipline`; every write, read and sleep ends. No step but `Wait` can be repeated, so weak fairness of
`Next` is enough. The echo of `uartputc_sync` and `uartstart` can both find the transmitter ready; that this loses nothing
relies on a FIFO at least as deep as there are harts, which `TXFIFO` states. `sleep` with a negative argument waits
for a huge unsigned time, and is not called.

## 11. Violations

| Run | Property | What the code does |
|---|---|---|
| `journal_wal` | `CheckpointAfterCommit` | writes the checkpoint before the txe is durable: nothing waits for `journal_txe_complete` |
| `mlfq_zombie` | `NeverToReturn` | a process that called `nice` stays in a queue when it exits and is scheduled into `panic("zombie exit")` |

## 12. What is only model-checked, and what is not modelled

*Only model-checked.* Liveness (`AllComplete`, `EveryoneRuns`, `NoStarvation`, `AllReaped`, `CommandsEnd`, `AllServed`), because the prover
handles neither fairness nor `ENABLED`. `Reservation`, because it is a sum over a set and needs induction. The MLFQ kernel, the
buffer cache and the driver are not proved yet; they have nothing that would prevent it. The file system,
memory, processes, shell and console use recursive operators, for which the prover has no backend, and their properties compare scripts and reference
definitions over bounded inputs. The inductive invariants `IInv` (journal, round robin) and `LInv` were checked with
TLC on the instances above before they were proved.

*Not modelled.* Boot and the kernel's own page table (straight-line set-up), printing and string functions (formatting), the user
library with `umalloc` (sequential code on private memory), `grind` (a random mix of calls), the assembly of trap entry, several
harts in the MLFQ kernel, and the interleaving of two file system calls inside the calls.
