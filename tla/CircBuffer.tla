----------------------------- MODULE CircBuffer -----------------------------
(***************************************************************************)
(* The bounded FIFO of the metadata journaling service: struct circ_buff_t *)
(* of "Metadata journaling service/journal.c" with its two operations.     *)
(* Neither operation tests for a full or an empty buffer: staying within   *)
(* bounds is the job of the semaphores of the callers (module Journal).    *)
(***************************************************************************)
EXTENDS Integers

CONSTANTS BUFFER_SIZE,   \* slots of a buffer (8 in journal.h)
          Request,       \* the write requests a slot can point to
          NoRequest      \* the null pointer of a slot never written

Index == 0 .. BUFFER_SIZE - 1

circ_buff_t == [buffer : [Index -> Request \cup {NoRequest}],
                head   : Index,
                tail   : Index,
                size   : Int]

\* Static storage: every slot is null and the three integers are zero.
EmptyBuffer == [buffer |-> [i \in Index |-> NoRequest],
                head |-> 0, tail |-> 0, size |-> 0]

\* The slot after slot i, wrapping around by comparison as the code does.
NextIndex(i) == IF i + 1 >= BUFFER_SIZE THEN 0 ELSE i + 1

enqueue(c, wr) == [buffer |-> [c.buffer EXCEPT ![c.head] = wr],
                   head   |-> NextIndex(c.head),
                   tail   |-> c.tail,
                   size   |-> c.size + 1]

\* Mutant: head and tail confused.
FrontAtHead(c) == c.buffer[c.head]

\* What dequeue returns, and the buffer it leaves behind.
Front(c) == c.buffer[c.tail]

dequeue(c) == [buffer |-> c.buffer,
               head   |-> c.head,
               tail   |-> NextIndex(c.tail),
               size   |-> c.size - 1]

(***************************************************************************)
(* The slot k places after the tail, and the buffer read as a queue: what  *)
(* the invariants are stated with.                                         *)
(***************************************************************************)
Slot(c, k) == IF c.tail + k >= BUFFER_SIZE THEN c.tail + k - BUFFER_SIZE
                                           ELSE c.tail + k

WellFormed(c) == /\ c.size \in 0 .. BUFFER_SIZE
                 /\ c.head = (IF c.size = BUFFER_SIZE THEN c.tail
                                                      ELSE Slot(c, c.size))

Contents(c) == [k \in 1 .. c.size |-> c.buffer[Slot(c, k - 1)]]
=============================================================================
