---------------------------- MODULE MCBufferCache ----------------------------
EXTENDS BufferCache, TLC

Sym == Permutations(Proc) \cup Permutations(Block)

\* States that differ only in where the rings have got to, in ring entries
\* that are done with, in the headers of free descriptors or in the contents
\* of buffers without valid data behave alike.
View ==
  LET live == UNION {chain(req[p].head) : p \in {q \in Proc : req[q].st \in {"sleep", "wait"}}}
  IN << bioVars, NUM, availIdx = WRAP - 1, seen = WRAP - 1, used_idx = WRAP - 1,
         free, desc, infoBuf, platter, taken, isr, handler, req, owned, blockno,
        Entries(avail, seen, availIdx), Entries(used, used_idx, usedIdx),
        [i \in live |-> <<ops[i], status[i]>>],
        [b \in {c \in Buf : valid[c] \/ refcnt[c] > 0} |-> data[b]] >>
=============================================================================
