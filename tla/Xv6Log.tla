------------------------------- MODULE Xv6Log --------------------------------
(***************************************************************************)
(* The write-ahead log of xv6 (kernel/log.c), with the part of the buffer  *)
(* cache it leans on: a buffer that is pinned is not recycled.  A block is *)
(* one value; a write of one block to the disk is atomic, and a crash may  *)
(* fall between any two of them.  What happens under log.lock is one step. *)
(***************************************************************************)
EXTENDS Integers, Sequences, FiniteSets, FiniteSetsExt

CONSTANTS Proc,         \* processes that make file system calls
          Home,         \* blocks outside the log
          Val,          \* contents of a block
          None,         \* a block that is not cached
          MAXOPBLOCKS,  \* blocks a call may write (10)
          LOGSIZE,      \* entries of the log header (30)
          nlog          \* blocks of the on-disk log, its header included (30)

ASSUME LogAssumption == /\ MAXOPBLOCKS \in Nat \ {0} /\ LOGSIZE \in Nat
                        /\ nlog \in Nat /\ MAXOPBLOCKS <= LOGSIZE /\ LOGSIZE <= nlog
                        /\ None \notin Val /\ Val # {} /\ IsFiniteSet(Proc)

VARIABLES disk,         \* the home blocks on the disk
          dlog, dhead,  \* the log blocks and the block numbers of the header on disk
          cache, pins,  \* buffered home blocks; bpin's references
          lh,           \* log.lh: the block numbers of the transaction
          outstanding, committing,
          pc,           \* what each process does
          wrote,        \* the distinct blocks its call has written
          stage, tail,  \* the loop of a commit or of the recovery, and its index
          panicked

volatile == <<cache, pins, lh, outstanding, committing, pc, wrote>>
vars == <<disk, dlog, dhead, volatile, stage, tail, panicked>>

logVars == <<lh, outstanding, committing>>
bufVars == <<cache, pins>>
diskVars == <<disk, dlog, dhead>>
procVars == <<pc, wrote>>
commitVars == <<stage, tail>>

Recovery == {"read_head", "r_install", "r_clear"}

TypeOK ==
  /\ disk \in [Home -> Val] /\ dlog \in [1 .. LOGSIZE -> Val]
  /\ Len(dhead) <= LOGSIZE /\ Len(lh) <= LOGSIZE
  /\ dhead \in Seq(Home) /\ lh \in Seq(Home)
  /\ cache \in [Home -> Val \cup {None}] /\ pins \in [Home -> Nat]
  /\ outstanding \in 0 .. Cardinality(Proc) /\ committing \in BOOLEAN
  /\ pc \in [Proc -> {"out", "asleep", "op", "commit"}]
  /\ wrote \in [Proc -> SUBSET Home]
  /\ stage \in Recovery \cup {"none", "write_log", "write_head", "install", "clear"}
  /\ tail \in 0 .. LOGSIZE /\ panicked \in BOOLEAN

\* A kernel that starts on a disk whose log is empty: mkfs leaves it so.
Init == /\ disk \in [Home -> Val]
        /\ dlog \in [1 .. LOGSIZE -> {CHOOSE v \in Val : TRUE}] /\ dhead = <<>>
        /\ cache = [b \in Home |-> None] /\ pins = [b \in Home |-> 0]
        /\ lh = <<>> /\ outstanding = 0 /\ committing = FALSE
        /\ pc = [p \in Proc |-> "out"] /\ wrote = [p \in Proc |-> {}]
        /\ stage = "read_head" /\ tail = 0 /\ panicked = FALSE

-----------------------------------------------------------------------------
(***************************************************************************)
(* File system calls.                                                      *)
(***************************************************************************)

Up == stage \notin Recovery /\ ~panicked

NoRoomOffByOne == committing \/ Len(lh) + outstanding * MAXOPBLOCKS > LOGSIZE

\* begin_op has to wait: for a commit, or for log space.
NoRoom == committing \/ Len(lh) + (outstanding + 1) * MAXOPBLOCKS > LOGSIZE

\* One pass of begin_op's loop: sleep on &log, or enter.
begin_op(p) ==
  /\ Up /\ pc[p] = "out"
  /\ IF NoRoom
     THEN pc' = [pc EXCEPT ![p] = "asleep"] /\ UNCHANGED <<outstanding, wrote>>
     ELSE /\ outstanding' = outstanding + 1
          /\ pc' = [pc EXCEPT ![p] = "op"] /\ wrote' = [wrote EXCEPT ![p] = {}]
  /\ UNCHANGED <<diskVars, bufVars, lh, committing, commitVars, panicked>>

wakeupNobody(f) == f

\* wakeup(&log), on top of the new states f of the processes.
wakeup(f) == [q \in Proc |-> IF f[q] = "asleep" THEN "out" ELSE f[q]]

bpinMissing(b) == UNCHANGED pins

bpin(b) == pins' = [pins EXCEPT ![b] = @ + 1]

\* The header after log_write: a block that is there is absorbed.
Absorb(b) == IF \E i \in DOMAIN lh : lh[i] = b THEN lh ELSE Append(lh, b)

\* bread, the modification and log_write of a block by a call that keeps to
\* its MAXOPBLOCKS; the sleep lock of the buffer is held throughout.
log_write(p, b, v) ==
  /\ Up /\ pc[p] = "op"
  /\ Cardinality(wrote[p] \cup {b}) <= MAXOPBLOCKS
  /\ cache' = [cache EXCEPT ![b] = v]
  /\ IF Len(lh) >= LOGSIZE \/ Len(lh) >= nlog - 1
     THEN panicked' = TRUE /\ UNCHANGED <<lh, pins, wrote>>
     ELSE /\ lh' = Absorb(b)
          /\ IF lh' # lh THEN bpin(b) ELSE UNCHANGED pins
          /\ wrote' = [wrote EXCEPT ![p] = @ \cup {b}]
          /\ UNCHANGED panicked
  /\ UNCHANGED <<diskVars, outstanding, committing, pc, commitVars>>

\* end_op up to the call of commit, which returns at once when nothing is logged.
end_op(p) ==
  /\ Up /\ pc[p] = "op"
  /\ outstanding' = outstanding - 1
  /\ IF outstanding' = 0
     THEN /\ committing' = TRUE
          /\ pc' = [pc EXCEPT ![p] = "commit"]
          /\ stage' = IF lh = <<>> THEN "none" ELSE "write_log"
     ELSE /\ pc' = wakeup([pc EXCEPT ![p] = "out"])
          /\ UNCHANGED <<committing, stage>>
  /\ tail' = 0 /\ wrote' = [wrote EXCEPT ![p] = {}]
  /\ UNCHANGED <<diskVars, bufVars, lh, panicked>>

\* end_op after commit.
commit_done(p) ==
  /\ Up /\ pc[p] = "commit" /\ stage = "none"
  /\ committing' = FALSE
  /\ pc' = wakeup([pc EXCEPT ![p] = "out"])
  /\ UNCHANGED <<diskVars, bufVars, lh, outstanding, wrote, commitVars, panicked>>

-----------------------------------------------------------------------------
(***************************************************************************)
(* Commit and recovery, one block of the disk at a time.                   *)
(***************************************************************************)

\* What bread returns for block b.
Data(b) == IF cache[b] # None THEN cache[b] ELSE disk[b]

\* The loop of a stage is over: go on with the next one.
Goto(s) == stage' = s /\ tail' = 0

write_log ==
  /\ stage = "write_log"
  /\ IF tail < Len(lh)
     THEN LET b == lh[tail + 1] IN
          /\ dlog' = [dlog EXCEPT ![tail + 1] = Data(b)]
          /\ cache' = [cache EXCEPT ![b] = Data(b)]
          /\ tail' = tail + 1 /\ UNCHANGED stage
     ELSE Goto("write_head") /\ UNCHANGED <<dlog, cache>>
  /\ UNCHANGED <<disk, dhead, pins, logVars, procVars, panicked>>

\* write_head, and the assignment log.lh.n = 0 before the call that erases.
write_head ==
  /\ \/ /\ stage = "write_head"
        /\ Goto("install") /\ dhead' = lh /\ UNCHANGED lh
     \/ /\ stage \in {"clear", "r_clear"}
        /\ Goto("none") /\ lh' = <<>> /\ dhead' = <<>>
  /\ UNCHANGED <<disk, dlog, bufVars, outstanding, committing, procVars, panicked>>

\* Only a commit unpins what it installs: the recovery pinned nothing.
Unpinned(b) == IF stage = "install" THEN [pins EXCEPT ![b] = @ - 1] ELSE pins

install_trans ==
  /\ stage \in {"install", "r_install"}
  /\ IF tail < Len(lh)
     THEN LET b == lh[tail + 1] IN
          /\ disk' = [disk EXCEPT ![b] = dlog[tail + 1]]
          /\ cache' = [cache EXCEPT ![b] = dlog[tail + 1]]
          /\ pins' = Unpinned(b)
          /\ tail' = tail + 1 /\ UNCHANGED stage
     ELSE /\ Goto(IF stage = "install" THEN "clear" ELSE "r_clear")
          /\ UNCHANGED <<disk, bufVars>>
  /\ UNCHANGED <<dlog, dhead, logVars, procVars, panicked>>

read_headOnly ==
  /\ stage = "read_head"
  /\ lh' = dhead /\ Goto("r_clear")
  /\ UNCHANGED <<diskVars, bufVars, outstanding, committing, procVars, panicked>>

\* initlog: recover_from_log reads the header first.
read_head ==
  /\ stage = "read_head"
  /\ lh' = dhead /\ Goto("r_install")
  /\ UNCHANGED <<diskVars, bufVars, outstanding, committing, procVars, panicked>>

-----------------------------------------------------------------------------
(***************************************************************************)
(* The buffer cache and the machine.                                       *)
(***************************************************************************)

\* bread by a reader, and bget's recycling of a buffer without references.
Load(b) == /\ stage \notin Recovery /\ cache[b] = None
           /\ cache' = [cache EXCEPT ![b] = disk[b]]
           /\ UNCHANGED <<diskVars, pins, logVars, procVars, commitVars, panicked>>

Recycle(b) == /\ cache[b] # None /\ pins[b] = 0
              /\ cache' = [cache EXCEPT ![b] = None]
              /\ UNCHANGED <<diskVars, pins, logVars, procVars, commitVars, panicked>>

\* The machine stops, from a panic or without warning, and boots again.
Crash == /\ stage # "read_head"
         /\ cache' = [b \in Home |-> None] /\ pins' = [b \in Home |-> 0]
         /\ lh' = <<>> /\ outstanding' = 0 /\ committing' = FALSE
         /\ pc' = [p \in Proc |-> "out"] /\ wrote' = [p \in Proc |-> {}]
         /\ stage' = "read_head" /\ tail' = 0 /\ panicked' = FALSE
         /\ UNCHANGED diskVars

Next ==
  \/ \E p \in Proc :
       \/ begin_op(p) \/ end_op(p) \/ commit_done(p)
       \/ \E b \in Home, v \in Val : log_write(p, b, v)
  \/ write_log \/ write_head \/ install_trans \/ read_head
  \/ \E b \in Home : Load(b) \/ Recycle(b)
  \/ Crash

Spec == Init /\ [][Next]_vars

-----------------------------------------------------------------------------
\* A process asleep in begin_op has somebody to wake it: a call in progress,
\* whose end_op wakes it, or a commit (log.c:131-135, 162, 172).
SleepersHaveWaker ==
  (\E p \in Proc : pc[p] = "asleep") => outstanding > 0 \/ committing

\* The reservations of begin_op hold: what is logged, together with what the
\* calls in progress may still log, fits in the header (log.c:133).
Reservation ==
  stage \notin Recovery =>
    Len(lh) + MapThenSumSet(LAMBDA p : MAXOPBLOCKS - Cardinality(wrote[p]),
                            {p \in Proc : pc[p] = "op"}) <= LOGSIZE

\* Only buffers of the transaction are pinned, each once, until the commit has
\* installed them: a pin too many and the buffer is never recycled, a pin too
\* few and refcnt, which is unsigned, wraps (log.c:78, 231).
PinsMatchLog ==
  \A b \in Home :
    pins[b] = Cardinality({i \in DOMAIN lh :
                 /\ lh[i] = b
                 /\ stage \notin Recovery \cup {"clear"}
                 /\ stage = "install" => i > tail})

\* "log_write: too big a transaction" is not reached by calls that write at
\* most the MAXOPBLOCKS blocks that begin_op has reserved for each of them.
NeverTooBig == ~panicked

\* The disk as a recovery from the log would leave it.
Recovered == [b \in Home |->
                IF \E i \in DOMAIN dhead : dhead[i] = b
                THEN dlog[CHOOSE i \in DOMAIN dhead : dhead[i] = b] ELSE disk[b]]

AD == INSTANCE AtomicDisk WITH
        stable <- Recovered,
        view <- IF stage \in Recovery THEN Recovered ELSE [b \in Home |-> Data(b)],
        active <- {p \in Proc : pc[p] = "op"}

\* The log implements the atomic disk: at every instant, also in the middle of
\* a commit, of an installation or of a recovery, a crash leaves the blocks as
\* after a whole group of calls (log.c:11-16, 99-101).
ImplementsAtomicDisk == AD!ADSpec
=============================================================================
