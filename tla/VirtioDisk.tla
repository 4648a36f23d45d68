----------------------------- MODULE VirtioDisk ------------------------------
(***************************************************************************)
(* The disk driver (kernel/virtio_disk.c) and the device as the driver     *)
(* uses it: descriptors, the available and the used ring, the interrupt.   *)
(* What the driver does between acquiring and releasing vdisk_lock, or     *)
(* sleeping, is one step; the interrupt handler is one step per entry of   *)
(* the used ring, because the device goes on while the handler runs.       *)
(***************************************************************************)
EXTENDS Integers, Sequences, FiniteSets, FiniteSetsExt

CONSTANTS Proc, Buf, Block,
          None,      \* no buffer, no block, no process
          Sizes,     \* how many descriptors there may be: the code has 8
          WRAP       \* the ring indices are counted modulo WRAP (2^16)

ASSUME DiskAssumption == WRAP \in Nat \ {0} /\ \A n \in Sizes : n \in 1 .. WRAP /\ WRAP % n = 0

VARIABLES NUM,                   \* the number of descriptors, one of Sizes for good
          free, desc,            \* disk.free, disk.desc
          ops, status, infoBuf,  \* disk.ops, disk.info
          avail, availIdx, used, usedIdx, used_idx,
          seen, taken,           \* the device: entries it has seen, chains it works on
          isr,                   \* the device's interrupt is pending
          handler,               \* virtio_disk_intr holds vdisk_lock
          req,                   \* each process in virtio_disk_rw
          owned,                 \* b->disk
          data, blockno,         \* b->data, b->blockno
          platter                \* what is on the disk

Val == {0, 1}
Desc == 0 .. NUM - 1
descriptor == [addr : Buf \cup {"req", "status", "zero"}, write : BOOLEAN,
               more : BOOLEAN, next : Desc]
Cleared == [addr |-> "zero", write |-> FALSE, more |-> FALSE, next |-> 0]

ringVars == <<avail, availIdx, used, usedIdx, used_idx>>
descVars == <<free, desc, ops, status, infoBuf>>
deviceVars == <<NUM, seen, taken, platter>>

NoReq == [st |-> "no", buf |-> None, write |-> FALSE, head |-> 0]

DiskTypeOK ==
  /\ NUM \in Sizes
  /\ free \subseteq Desc /\ desc \in [Desc -> descriptor]
  /\ ops \in [Desc -> [type : {"in", "out"}, sector : Block \cup {None}]]
  /\ status \in [Desc -> {0, 255}] /\ infoBuf \in [Desc -> Buf \cup {None}]
  /\ avail \in [Desc -> Desc] /\ used \in [Desc -> Desc]
  /\ {availIdx, usedIdx, used_idx, seen} \subseteq 0 .. WRAP - 1
  /\ taken \subseteq Desc /\ isr \in BOOLEAN /\ handler \in BOOLEAN
  /\ req \in [Proc -> [st : {"no", "alloc", "alloc_sleep", "wait", "sleep"},
                       buf : Buf \cup {None}, write : BOOLEAN, head : Desc]]
  /\ owned \in [Buf -> BOOLEAN] /\ data \in [Buf -> Val]
  /\ blockno \in [Buf -> Block \cup {None}] /\ platter \in [Block -> Val]

\* virtio_disk_init: queue memory zeroed, every descriptor free; the indices of
\* the rings are zero, or about to wrap after many requests.
virtio_disk_init ==
  /\ NUM \in Sizes /\ free = Desc /\ desc = [i \in Desc |-> Cleared]
  /\ ops = [i \in Desc |-> [type |-> "in", sector |-> None]]
  /\ status = [i \in Desc |-> 0] /\ infoBuf = [i \in Desc |-> None]
  /\ avail = [i \in Desc |-> 0] /\ used = [i \in Desc |-> 0]
  /\ availIdx \in {0, WRAP - 1} /\ usedIdx = availIdx /\ used_idx = availIdx
  /\ seen = availIdx
  /\ taken = {} /\ isr = FALSE /\ handler = FALSE
  /\ req = [p \in Proc |-> NoReq]

\* wakeup(chan) for the processes that sleep in state s and, unless b is None,
\* on buffer b: they go on in state t.
wakeup(r, s, b, t) ==
  [q \in Proc |-> IF r[q].st = s /\ b \in {None, r[q].buf}
                  THEN [r[q] EXCEPT !.st = t] ELSE r[q]]

\* The increment of a ring index, a uint16 that is reduced modulo NUM only
\* where it is used.
Bump(i) == (i + 1) % WRAP

-----------------------------------------------------------------------------
(***************************************************************************)
(* virtio_disk_rw                                                          *)
(***************************************************************************)

\* The call, up to vdisk_lock.
Request(p, b, w) ==
  req' = [req EXCEPT ![p] = [st |-> "alloc", buf |-> b, write |-> w, head |-> 0]]

\* The k-th free descriptor, as alloc_desc hands them out.
alloc_desc(k) == CHOOSE i \in free : Cardinality({j \in free : j < i}) = k - 1

\* alloc3_desc fails: what it took it gives back, waking the waiters.
alloc3_fail(p) ==
  /\ ~handler /\ req[p].st = "alloc" /\ Cardinality(free) < 3
  /\ LET r == IF free = {} THEN req ELSE wakeup(req, "alloc_sleep", None, "alloc")
     IN req' = [r EXCEPT ![p].st = "alloc_sleep"]
  /\ desc' = [i \in Desc |-> IF i \in free THEN Cleared ELSE desc[i]]
  /\ UNCHANGED <<free, ops, status, infoBuf, ringVars, deviceVars, isr, handler,
                 owned, data, blockno>>

\* The three descriptors, b->disk, the entry of the ring and the notification;
\* then the process sleeps on b.
submit(p) ==
  LET b == req[p].buf
      w == req[p].write
      i == [k \in 1 .. 3 |-> alloc_desc(k)]
  IN /\ ~handler /\ req[p].st = "alloc" /\ Cardinality(free) >= 3
     /\ free' = free \ {i[1], i[2], i[3]}
     /\ ops' = [ops EXCEPT ![i[1]] = [type |-> IF w THEN "out" ELSE "in",
                                      sector |-> blockno[b]]]
     /\ desc' = [desc EXCEPT
          ![i[1]] = [addr |-> "req", write |-> FALSE, more |-> TRUE, next |-> i[2]],
          ![i[2]] = [addr |-> b, write |-> ~w, more |-> TRUE, next |-> i[3]],
          ![i[3]] = [addr |-> "status", write |-> TRUE, more |-> FALSE, next |-> 0]]
     /\ status' = [status EXCEPT ![i[1]] = 255]
     /\ infoBuf' = [infoBuf EXCEPT ![i[1]] = b]
     /\ owned' = [owned EXCEPT ![b] = TRUE]
     /\ avail' = [avail EXCEPT ![availIdx % NUM] = i[1]]
     /\ availIdx' = Bump(availIdx)
     /\ req' = [req EXCEPT ![p].st = "sleep", ![p].head = i[1]]
     /\ UNCHANGED <<used, usedIdx, used_idx, deviceVars, isr, handler, data, blockno>>

\* A chain of which the last descriptor is forgotten.
chainShort(i) == {i, desc[i].next}

\* free_chain follows the links while the descriptor has VRING_DESC_F_NEXT.
chain(i) == LET f[n \in 0 .. 3, d \in Desc] ==
                  IF n = 0 THEN {}
                  ELSE {d} \cup IF desc[d].more THEN f[n - 1, desc[d].next] ELSE {}
            IN f[3, i]

\* free_desc for each of them, with its wakeup of the waiters for descriptors.
free_chain(h) ==
  /\ free' = free \cup chain(h)
  /\ desc' = [i \in Desc |-> IF i \in chain(h) THEN Cleared ELSE desc[i]]

\* A woken process sees whether the disk is done with its buffer.
finish(p) ==
  /\ ~handler /\ req[p].st = "wait"
  /\ IF owned[req[p].buf]
     THEN req' = [req EXCEPT ![p].st = "sleep"] /\ UNCHANGED descVars
     ELSE /\ infoBuf' = [infoBuf EXCEPT ![req[p].head] = None]
          /\ free_chain(req[p].head)
          /\ req' = wakeup([req EXCEPT ![p] = NoReq], "alloc_sleep", None, "alloc")
          /\ UNCHANGED <<ops, status>>
  /\ UNCHANGED <<ringVars, deviceVars, isr, handler, owned, data, blockno>>

-----------------------------------------------------------------------------
(***************************************************************************)
(* virtio_disk_intr                                                        *)
(***************************************************************************)

\* The interrupt is taken: the lock, and the acknowledgement.
intr_ack ==
  /\ isr /\ ~handler
  /\ isr' = FALSE /\ handler' = TRUE
  /\ UNCHANGED <<descVars, ringVars, deviceVars, req, owned, data, blockno>>

\* One completed chain, as the used ring names it.
intr_entry ==
  /\ handler /\ used_idx # usedIdx
  /\ LET b == infoBuf[used[used_idx % NUM]] IN
     /\ owned' = [owned EXCEPT ![b] = FALSE]
     /\ req' = wakeup(req, "sleep", b, "wait")
  /\ used_idx' = Bump(used_idx)
  /\ UNCHANGED <<descVars, avail, availIdx, used, usedIdx, deviceVars, isr, handler,
                 data, blockno>>

intr_return ==
  /\ handler /\ used_idx = usedIdx
  /\ handler' = FALSE
  /\ UNCHANGED <<descVars, ringVars, deviceVars, isr, req, owned, data, blockno>>

-----------------------------------------------------------------------------
(***************************************************************************)
(* The device: it takes chains in order and completes them in any order.   *)
(***************************************************************************)

DeviceTake ==
  /\ seen # availIdx
  /\ taken' = taken \cup {avail[seen % NUM]} /\ seen' = Bump(seen)
  /\ UNCHANGED <<descVars, ringVars, NUM, platter, isr, handler, req, owned, data, blockno>>

DeviceComplete(h) ==
  LET d == desc[desc[h].next]
  IN /\ h \in taken
     /\ IF ops[h].type = "in"
        THEN /\ data' = [data EXCEPT ![d.addr] = platter[ops[h].sector]]
             /\ UNCHANGED platter
        ELSE /\ platter' = [platter EXCEPT ![ops[h].sector] = data[d.addr]]
             /\ UNCHANGED data
     /\ status' = [status EXCEPT ![h] = 0]
     /\ used' = [used EXCEPT ![usedIdx % NUM] = h] /\ usedIdx' = Bump(usedIdx)
     /\ taken' = taken \ {h} /\ isr' = TRUE
     /\ UNCHANGED <<NUM, free, desc, ops, infoBuf, avail, availIdx, used_idx, seen, handler,
                    req, owned, blockno>>

Interrupt == intr_ack \/ intr_entry \/ intr_return
Device == DeviceTake \/ \E h \in Desc : DeviceComplete(h)
=============================================================================
