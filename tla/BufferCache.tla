----------------------------- MODULE BufferCache -----------------------------
(***************************************************************************)
(* The buffer cache (kernel/bio.c) with the sleep lock of each buffer      *)
(* (kernel/sleeplock.c), on top of the disk driver.  What happens under    *)
(* bcache.lock, or under the spinlock of a sleep lock, is one step.  A     *)
(* process holds one buffer at a time, and writes through what it changes. *)
(***************************************************************************)
EXTENDS VirtioDisk, SequencesExt

VARIABLES lru,            \* the buffers, the most recently used one first
          valid, refcnt,  \* b->valid, b->refcnt
          holder,         \* b->lock: the process that holds it, or None
          pc,             \* where each process is between bread and brelse
          want, at,       \* the block it has asked for, the buffer it works with
          latest          \* the last contents given to each block

bioVars == <<lru, valid, refcnt, holder, pc, want, at, latest>>
diskVars == <<descVars, ringVars, deviceVars, isr, handler, req, owned, data, blockno>>
vars == <<bioVars, diskVars>>

TypeOK ==
  /\ DiskTypeOK
  /\ lru \in Seq(Buf) /\ Len(lru) = Cardinality(Buf)
  /\ valid \in [Buf -> BOOLEAN] /\ refcnt \in [Buf -> 0 .. Cardinality(Proc)]
  /\ holder \in [Buf -> Proc \cup {None}]
  /\ pc \in [Proc -> {"out", "acquire", "asleep", "reading", "hold",
                      "writing", "unlocked"}]
  /\ want \in [Proc -> Block \cup {None}] /\ at \in [Proc -> Buf \cup {None}]
  /\ latest \in [Block -> Val]

Init ==
  /\ virtio_disk_init
  /\ owned = [b \in Buf |-> FALSE] /\ data = [b \in Buf |-> 0]
  /\ blockno = [b \in Buf |-> None] /\ platter = [k \in Block |-> 0]
  /\ lru = SetToSeq(Buf)
  /\ valid = [b \in Buf |-> FALSE] /\ refcnt = [b \in Buf |-> 0]
  /\ holder = [b \in Buf |-> None]
  /\ pc = [p \in Proc |-> "out"] /\ at = [p \in Proc |-> None]
  /\ want = at /\ latest = platter

-----------------------------------------------------------------------------
Step(p, from, to) == pc[p] = from /\ pc' = [pc EXCEPT ![p] = to]

CachedInUse(k) == {b \in Buf : blockno[b] = k /\ refcnt[b] > 0}

\* The buffers that hold block k.
Cached(k) == {b \in Buf : blockno[b] = k}

VictimUnlocked == LET idle == {i \in DOMAIN lru : holder[lru[i]] = None}
             IN IF idle = {} THEN None ELSE lru[Max(idle)]

\* bget: the buffer of the block, or the least recently used one nobody refers
\* to; without one bget panics.
Victim == LET idle == {i \in DOMAIN lru : refcnt[lru[i]] = 0}
          IN IF idle = {} THEN None ELSE lru[Max(idle)]

bget(p, k) ==
  /\ Step(p, "out", "acquire") /\ want' = [want EXCEPT ![p] = k]
  /\ IF Cached(k) # {}
     THEN /\ \E b \in Cached(k) : /\ refcnt' = [refcnt EXCEPT ![b] = @ + 1]
                                  /\ at' = [at EXCEPT ![p] = b]
          /\ UNCHANGED <<blockno, valid>>
     ELSE /\ Victim # None
          /\ at' = [at EXCEPT ![p] = Victim]
          /\ blockno' = [blockno EXCEPT ![Victim] = k]
          /\ valid' = [valid EXCEPT ![Victim] = FALSE]
          /\ refcnt' = [refcnt EXCEPT ![Victim] = 1]
  /\ UNCHANGED <<lru, holder, latest, descVars, ringVars, deviceVars, isr, handler,
                 req, owned, data>>

\* One pass of acquiresleep's loop in state "acquire"; the holder goes on to
\* state next.
acquiresleep(p, next) ==
  /\ pc[p] = "acquire"
  /\ IF holder[at[p]] # None
     THEN Step(p, "acquire", "asleep") /\ UNCHANGED holder
     ELSE Step(p, "acquire", next) /\ holder' = [holder EXCEPT ![at[p]] = p]

\* bread: with the lock it reads what is not valid.
bread(p) ==
  /\ \/ /\ acquiresleep(p, "hold") /\ valid[at[p]]
        /\ UNCHANGED req
     \/ /\ acquiresleep(p, "reading") /\ ~valid[at[p]]
        /\ IF pc'[p] = "reading" THEN Request(p, at[p], FALSE) ELSE UNCHANGED req
  /\ UNCHANGED <<lru, valid, refcnt, want, at, latest,
                 descVars, ringVars, deviceVars, isr, handler, owned, data, blockno>>

\* The holder changes the contents and calls bwrite.
bwrite(p) ==
  LET b == at[p] IN
  /\ Step(p, "hold", "writing") /\ Request(p, b, TRUE)
  /\ holder[b] = p
  /\ data' = [data EXCEPT ![b] = 1 - @]
  /\ latest' = [latest EXCEPT ![blockno[b]] = data'[b]]
  /\ UNCHANGED <<lru, valid, refcnt, holder, want, at,
                 descVars, ringVars, deviceVars, isr, handler, owned, blockno>>

\* The end of virtio_disk_rw, and with it of bread or bwrite.
disk_return(p) ==
  /\ finish(p)
  /\ IF req'[p] = NoReq
     THEN pc' = [pc EXCEPT ![p] = "hold"] /\ valid' = [valid EXCEPT ![at[p]] = TRUE]
     ELSE UNCHANGED <<pc, valid>>
  /\ UNCHANGED <<lru, refcnt, holder, want, at, latest>>

wakelockNobody(f, b) == f

\* wakeup(lk) for the processes that wait for the lock of b.
wakelock(f, b) == [q \in Proc |-> IF f[q] = "asleep" /\ at[q] = b THEN "acquire" ELSE f[q]]

\* brelse: first the sleep lock, ...
releasesleep(p) ==
  /\ pc[p] = "hold" /\ holder[at[p]] = p
  /\ holder' = [holder EXCEPT ![at[p]] = None]
  /\ pc' = wakelock([pc EXCEPT ![p] = "unlocked"], at[p])
  /\ UNCHANGED <<lru, valid, refcnt, want, at, latest, diskVars>>

MostRecent(b) == <<b>> \o SelectSeq(lru, LAMBDA c : c # b)

\* ... then, under bcache.lock, the reference and the place in the list.
brelse(p) ==
  LET b == at[p] IN
  /\ Step(p, "unlocked", "out")
  /\ refcnt' = [refcnt EXCEPT ![b] = @ - 1]
  /\ lru' = IF refcnt'[b] = 0 THEN MostRecent(b) ELSE lru
  /\ at' = [at EXCEPT ![p] = None] /\ want' = [want EXCEPT ![p] = None]
  /\ UNCHANGED <<valid, holder, latest, diskVars>>

-----------------------------------------------------------------------------
Process(p) ==
  \/ \E k \in Block : bget(p, k)
  \/ bread(p) \/ bwrite(p) \/ disk_return(p) \/ releasesleep(p) \/ brelse(p)
  \/ (alloc3_fail(p) \/ submit(p)) /\ UNCHANGED bioVars

Next == \/ \E p \in Proc : Process(p)
        \/ (Interrupt \/ Device) /\ UNCHANGED bioVars

Spec == Init /\ [][Next]_vars

-----------------------------------------------------------------------------
\* A block is in one buffer at most, whoever misses on it at the same time
\* (bio.c:65-89).
OneBufferPerBlock ==
  \A b, c \in Buf : blockno[b] = blockno[c] /\ blockno[b] # None => b = c

\* A process that bread has given a buffer alone holds it and finds the block
\* it asked for, with the last contents written to it, whatever was recycled, requested and
\* completed in between (bio.c:91, 105).
BufferCoherent ==
  \A p \in Proc : pc[p] = "hold" =>
    LET b == at[p] IN /\ holder[b] = p /\ blockno[b] = want[p]
                      /\ data[b] = latest[blockno[b]]
                      /\ ~owned[b]

\* The entries of a ring from index i up to, not including, index j.
Entries(ring, i, j) == [n \in 1 .. (j - i) % WRAP |-> ring[(i + n - 1) % NUM]]

\* A request that the driver sleeps on is somewhere on its way: in the
\* available ring, in the device, or in the used ring with an interrupt to
\* come or the handler at work (virtio_disk.c:284, 299-305, 312).
NoLostCompletion ==
  /\ \A p \in Proc : req[p].st = "sleep" =>
       /\ owned[req[p].buf] /\ infoBuf[req[p].head] = req[p].buf
       /\ req[p].head \in taken \cup ToSet(Entries(avail, seen, availIdx)
                                   \o Entries(used, used_idx, usedIdx))
  /\ used_idx # usedIdx => isr \/ handler
  /\ \A h \in ToSet(Entries(used, used_idx, usedIdx)) : status[h] = 0

\* Who sleeps for descriptors finds fewer than three of them free, so that the
\* next chain to be freed wakes it (virtio_disk.c:181, 232).
NoMissedDescriptor ==
  (\E p \in Proc : req[p].st = "alloc_sleep") => Cardinality(free) < 3

\* The chains of the requests under way are disjoint, are not free and name
\* the buffer and the direction of their request (virtio_disk.c:229-269).
ChainsIntact ==
  LET busy == {p \in Proc : req[p].st \in {"sleep", "wait"}} IN
  /\ \A p \in busy :
       LET c == chain(req[p].head)
           d == desc[desc[req[p].head].next]
       IN /\ Cardinality(c) = 3 /\ c \cap free = {}
          /\ d.addr = req[p].buf /\ d.write # req[p].write
  /\ Cardinality(free) + 3 * Cardinality(busy) = NUM

\* acquiresleep's sleepers are woken when the lock is released
\* (sleeplock.c:25, 39).
NoMissedRelease ==
  \A p \in Proc : pc[p] = "asleep" => holder[at[p]] # None

\* Whoever sleeps in the driver or in the cache, for a completion, for
\* descriptors or for the lock of a buffer, has a wakeup ahead of it.
NoMissedWakeup == NoLostCompletion /\ NoMissedDescriptor /\ NoMissedRelease
=============================================================================
