------------------------------- MODULE QTable --------------------------------
(***************************************************************************)
(* The run queues of the multilevel feedback queue scheduler (proc.c of    *)
(* "XV6 Multilevel feedback queue"): three doubly linked lists threaded    *)
(* through one table with an entry per process slot, a head and a tail     *)
(* entry per list, and the choice of the list a process goes to.           *)
(***************************************************************************)
EXTENDS Integers, Sequences

CONSTANTS NPROC,        \* process slots (64)
          Q0_QUANTA,    \* yields allowed in queue 0 (15)
          Q1_QUANTA,    \* yields allowed in queue 1 (10)
          Q2_QUANTA     \* yields allowed in queue 2 (1)

ASSUME QTableAssumption == /\ NPROC \in Nat \ {0}
                           /\ Q0_QUANTA \in Nat /\ Q1_QUANTA \in Nat
                           /\ Q2_QUANTA \in Nat

Proc == 0 .. NPROC - 1
Level == 0 .. 2
EMPTY == -1

\* Entries NPROC, NPROC + 1, ... are the heads and tails of queues 0, 1, 2.
HEAD(q) == NPROC + 2 * q
TAIL(q) == NPROC + 2 * q + 1
Entry == 0 .. NPROC + 5

qentry == [queue : Level \cup {EMPTY}, prev : Entry, next : Entry]

\* The table as the linker leaves it: all zero.
ZeroTable == [i \in Entry |-> [queue |-> 0, prev |-> 0, next |-> 0]]

\* Every list becomes empty; the links of the process entries stay.
setupQueue(qt) ==
  [i \in Entry |->
     IF i \in Proc THEN [qt[i] EXCEPT !.queue = EMPTY]
     ELSE LET q == (i - NPROC) \div 2 IN
          IF i = HEAD(q) THEN [qt[i] EXCEPT !.queue = q, !.next = TAIL(q)]
                         ELSE [qt[i] EXCEPT !.queue = q, !.prev = HEAD(q)]]

\* The four link assignments at the end of enqueue, in their order (which
\* matters when i is already the last entry of the list).
append(qt, i, q) ==
  LET oldTail == qt[TAIL(q)].prev IN
  [qt EXCEPT ![i] = [queue |-> q, prev |-> oldTail, next |-> TAIL(q)],
             ![oldTail].next = i,
             ![TAIL(q)].prev = i]

\* removeFromQueue: it unlinks i from wherever its own links say it is.
removeFromQueue(qt, i) ==
  LET oldPrev == qt[i].prev
      oldNext == qt[i].next
  IN [qt EXCEPT ![i].queue = EMPTY,
                ![oldPrev].next = oldNext,
                ![oldNext].prev = oldPrev]

\* The queue a nice value asks for.
NiceLevel(nice) == IF nice > 10 THEN 0 ELSE IF nice > -10 THEN 1 ELSE 2

\* The quanta with which enqueue goes on to test the limits: they are reset
\* when the nice value puts the process above the queue it was last in.
QuantaIn(nice, queue, quanta) ==
  IF NiceLevel(nice) < 2 /\ queue > NiceLevel(nice) THEN 0 ELSE quanta

Limit(q) == <<Q0_QUANTA, Q1_QUANTA, Q2_QUANTA>>[q + 1]

\* The queue enqueue chooses, and the quanta it leaves: a process over the
\* limit of its queue goes one queue down (if there is one) with none.
LevelOut(nice, queue, quanta) ==
  LET q == NiceLevel(nice) IN
  IF QuantaIn(nice, queue, quanta) > Limit(q) /\ q < 2 THEN q + 1 ELSE q

QuantaOut(nice, queue, quanta) ==
  IF QuantaIn(nice, queue, quanta) > Limit(NiceLevel(nice)) THEN 0
  ELSE QuantaIn(nice, queue, quanta)

-----------------------------------------------------------------------------
(***************************************************************************)
(* Reading a list.                                                         *)
(***************************************************************************)

\* The processes reached from entry i in at most n steps along next, up to
\* the first entry that is none.
After(qt) ==
  LET f[n \in 0 .. NPROC, i \in Entry] ==
        IF n = 0 \/ qt[i].next \notin Proc THEN <<>>
        ELSE <<qt[i].next>> \o f[n - 1, qt[i].next]
  IN f

\* The processes of queue q in order.
Members(qt, q) == After(qt)[NPROC, HEAD(q)]

\* Queue q is a list: next leads from its head over distinct processes to its
\* tail, and prev leads back.
IsList(qt, q) ==
  LET m == Members(qt, q)
      path == <<HEAD(q)>> \o m \o <<TAIL(q)>>
  IN /\ \A j, k \in 1 .. Len(m) : m[j] = m[k] => j = k
     /\ \A k \in 1 .. Len(m) + 1 : /\ qt[path[k]].next = path[k + 1]
                                   /\ qt[path[k + 1]].prev = path[k]
=============================================================================
