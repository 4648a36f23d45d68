------------------------------- MODULE Inodes -------------------------------
(***************************************************************************)
(* kernel/fs.c, one function per operator.  An operator takes the state of *)
(* the file system, a record s, and returns the state after the call; s.r  *)
(* is the value the function returns.  A cell is the unit of a block: a    *)
(* directory entry, an entry of an indirect block or a piece of a file.    *)
(*                                                                         *)
(*   dino, data, used   the disk: inodes, data blocks, bitmap              *)
(*   ic                 the inode table: references and in-memory copies   *)
(*   inop, log, fits    the open transaction and the blocks it logged      *)
(*   panic              the message of the first panic                     *)
(*   adrift             a process went up from, or linked into, a          *)
(*                      directory that had been removed                    *)
(***************************************************************************)
EXTENDS Integers, Sequences, FiniteSets, FiniteSetsExt, SequencesExt

CONSTANTS NINODES,      \* inodes on the disk, number 0 included
          NBLOCK,       \* data blocks on the disk
          NINODE,       \* entries of the inode table
          NDIRECT,      \* direct addresses of an inode
          BSIZE,        \* cells of a block
          DIRSIZ,       \* characters of a name
          MAXOPBLOCKS   \* blocks one transaction may log

ROOTINO == 1
Inum == 0 .. NINODES - 1
nmeta == 46                                  \* blocks before the data blocks
Block == nmeta .. nmeta + NBLOCK - 1
NINDIRECT == BSIZE
MAXFILE == NDIRECT + NINDIRECT
within(off) == off % BSIZE
patch(b, at, src) == SubSeq(b, 1, at) \o src \o SubSeq(b, at + Len(src) + 1, BSIZE)

Zero == [n |-> "", i |-> 0]
Zeroes == SubSeq([k \in 1 .. BSIZE |-> Zero], 1, BSIZE)
NoInode == [type |-> "none", major |-> 0, nlink |-> 0, size |-> 0,
            addrs |-> [k \in 0 .. NDIRECT |-> 0]]
Fault == [n |-> "unmapped user page", i |-> 0]

(* What follows a call, given the state it returns.                        *)
Then(t, Rest(_)) == Rest(t)

panic(s, msg) == IF s.panic = "" THEN [s EXCEPT !.panic = msg] ELSE s

-----------------------------------------------------------------------------
(* Transactions (log.c), as the calls of this file use them.               *)
begin_op(s) == [s EXCEPT !.inop = TRUE]
end_op(s) == [s EXCEPT !.inop = FALSE, !.log = {},
                       !.fits = @ /\ Cardinality(s.log) <= MAXOPBLOCKS]
log_write(s, b) ==
  IF s.inop THEN [s EXCEPT !.log = @ \cup {b}]
            ELSE panic(s, "log_write outside of trans")

(* Blocks.                                                                 *)
bzero(s, b) == log_write([s EXCEPT !.data[b] = Zeroes], <<"data", b>>)

balloc(s) ==
  LET b == Min(Block \ s.used)
  IN  IF Block \subseteq s.used THEN [s EXCEPT !.r = 0]
      ELSE [bzero(log_write([s EXCEPT !.used = @ \cup {b}], <<"bitmap", 0>>), b)
              EXCEPT !.r = b]

bfree(s, b) ==
  IF b \notin s.used THEN panic(s, "freeing free block")
  ELSE log_write([s EXCEPT !.used = @ \ {b}], <<"bitmap", 0>>)

-----------------------------------------------------------------------------
(* Inodes.                                                                 *)
ino(s, i) == s.ic[i].ino
Cached(s) == {i \in Inum : s.ic[i].ref > 0}

iget(s, i) ==
  IF s.ic[i].ref > 0 THEN [s EXCEPT !.ic[i].ref = @ + 1, !.r = i]
  ELSE IF Cardinality(Cached(s)) = NINODE THEN panic(s, "iget: no inodes")
  ELSE [s EXCEPT !.ic[i] = [ref |-> 1, valid |-> FALSE, ino |-> NoInode],
                 !.r = i]

idup(s, i) == [s EXCEPT !.ic[i].ref = @ + 1, !.r = i]

ialloc(s, type) ==
  LET free == {i \in Inum \ {0} : s.dino[i].type = "none"}
      i == Min(free)
  IN  IF free = {} THEN [s EXCEPT !.r = 0]
      ELSE iget(log_write([s EXCEPT !.dino[i] = [NoInode EXCEPT !.type = type]],
                          <<"inode", i>>), i)

iupdate(s, i) == log_write([s EXCEPT !.dino[i] = ino(s, i)], <<"inode", i>>)

ilock(s, i) ==
  IF s.ic[i].ref < 1 THEN panic(s, "ilock")
  ELSE IF s.ic[i].valid THEN s
  ELSE LET t == [s EXCEPT !.ic[i].valid = TRUE, !.ic[i].ino = s.dino[i]]
       IN  IF s.dino[i].type = "none" THEN panic(t, "ilock: no type") ELSE t

(* The blocks an inode owns, in the order itrunc frees them.               *)
owned(s, n) ==
  LET ind == n.addrs[NDIRECT]
  IN  SelectSeq([k \in 1 .. NDIRECT |-> n.addrs[k - 1]]
                \o (IF ind = 0 THEN <<>>
                    ELSE [k \in 1 .. NINDIRECT |-> s.data[ind][k].i] \o <<ind>>),
                LAMBDA a : a # 0)

itrunc(s, i) ==
  iupdate([FoldLeft(bfree, s, owned(s, ino(s, i)))
             EXCEPT !.ic[i].ino.addrs = NoInode.addrs, !.ic[i].ino.size = 0], i)

iput(s, i) ==
  LET last == s.ic[i].ref = 1 /\ s.ic[i].valid /\ ino(s, i).nlink = 0
      t == IF ~last THEN s
           ELSE [iupdate([itrunc(s, i) EXCEPT !.ic[i].ino.type = "none"], i)
                   EXCEPT !.ic[i].valid = FALSE]
  IN  [t EXCEPT !.ic[i] = IF @.ref = 1 THEN [ref |-> 0, valid |-> FALSE, ino |-> NoInode]
                          ELSE [@ EXCEPT !.ref = @ - 1]]

-----------------------------------------------------------------------------
(* Content.                                                                *)

(* addrs[k] of an inode, allocated when it is zero.                        *)
slot(s, i, k) ==
  IF ino(s, i).addrs[k] # 0 THEN [s EXCEPT !.r = ino(s, i).addrs[k]]
  ELSE Then(balloc(s), LAMBDA t :
         IF t.r = 0 THEN t ELSE [t EXCEPT !.ic[i].ino.addrs[k] = t.r])

bmap(s, i, bn) ==
  LET k == bn - NDIRECT + 1 IN
  IF bn >= MAXFILE THEN panic(s, "bmap: out of range")
  ELSE Then(slot(s, i, Min({bn, NDIRECT})), LAMBDA t :
         IF bn < NDIRECT \/ t.r = 0 THEN t
         ELSE IF t.data[t.r][k].i # 0 THEN [t EXCEPT !.r = t.data[t.r][k].i]
         ELSE Then(balloc(t), LAMBDA u :
                IF u.r = 0 THEN u
                ELSE [log_write([u EXCEPT !.data[t.r][k].i = u.r], <<"data", t.r>>)
                        EXCEPT !.r = u.r]))

stati(s, i) == [ino |-> i, type |-> ino(s, i).type,
                nlink |-> ino(s, i).nlink, size |-> ino(s, i).size]

(* The copy loop of readi: the first `room' cells of the user buffer are   *)
(* mapped.                                                                 *)
RECURSIVE readloop(_, _, _, _, _)
readloop(s, i, off, left, room) ==
  LET m == Min({left, BSIZE - within(off)}) IN
  IF left = 0 THEN s
  ELSE Then(bmap(s, i, off \div BSIZE), LAMBDA t :
         IF t.r = 0 THEN t
         ELSE IF m > room THEN [t EXCEPT !.out = <<>>, !.r = -1]
         ELSE readloop([t EXCEPT !.out = @ \o SubSeq(t.data[t.r], within(off) + 1,
                                                     within(off) + m)],
                       i, off + m, left - m, room - m))

readi(s, i, off, n, room) ==
  LET size == ino(s, i).size IN
  IF off > size THEN [s EXCEPT !.out = <<>>, !.r = 0]
  ELSE Then(readloop([s EXCEPT !.out = <<>>], i, off, Min({n, size - off}), room),
            LAMBDA t : [t EXCEPT !.r = IF @ = -1 THEN -1 ELSE Len(t.out)])

(* The copy loop of writei, which leaves in r the offset it reached.       *)
RECURSIVE writeloop(_, _, _, _)
writeloop(s, i, off, src) ==
  LET m == Min({Len(src), BSIZE - within(off)})
      bad == {k \in 1 .. m : src[k] = Fault}
      good == IF bad = {} THEN m ELSE Min(bad) - 1
      copied(t) == [t EXCEPT !.data[t.r] = patch(@, within(off), SubSeq(src, 1, good))]
  IN  IF src = <<>> THEN [s EXCEPT !.r = off]
      ELSE Then(bmap(s, i, off \div BSIZE), LAMBDA t :
             IF t.r = 0 THEN [t EXCEPT !.r = off]
             ELSE IF bad # {} THEN [copied(t) EXCEPT !.r = off]
             ELSE writeloop(log_write(copied(t), <<"data", t.r>>), i, off + m,
                            SubSeq(src, m + 1, Len(src))))

writei(s, i, off, src) ==
  IF off > ino(s, i).size \/ off + Len(src) > MAXFILE * BSIZE THEN [s EXCEPT !.r = -1]
  ELSE Then(writeloop(s, i, off, src), LAMBDA t :
         [iupdate([t EXCEPT !.ic[i].ino.size = Max({@, t.r})], i) EXCEPT !.r = t.r - off])

-----------------------------------------------------------------------------
(* Directories.                                                            *)

(* What the cells of an inode hold; a cell without a block reads as zero.  *)
addr(s, n, bn) ==
  IF bn < NDIRECT THEN n.addrs[bn]
  ELSE IF n.addrs[NDIRECT] = 0 THEN 0
  ELSE s.data[n.addrs[NDIRECT]][bn - NDIRECT + 1].i
content(s, n) ==
  [k \in 1 .. n.size |-> LET a == addr(s, n, (k - 1) \div BSIZE)
                         IN  IF a = 0 THEN Zero ELSE s.data[a][within(k - 1) + 1]]

(* Where the directory dp has an entry for name, or is free.               *)
entries(s, dp, name) ==
  LET c == content(s, ino(s, dp))
  IN  {o \in 0 .. Len(c) - 1 : c[o + 1].i # 0 /\ c[o + 1].n = name}
unused(s, dp) ==
  LET c == content(s, ino(s, dp)) IN {o \in 0 .. Len(c) - 1 : c[o + 1].i = 0}
(* Read entries of dp until one is a hit: leaves its offset, or the size,  *)
(* in r.  Reading maps every block on the way.                             *)
scan(s, dp, hits) ==
  LET n == ino(s, dp)
      off == IF hits = {} THEN n.size ELSE Min(hits)
      read(t, b) == Then(bmap(t, dp, b - 1), LAMBDA u :
                      IF u.r = 0 THEN panic(u, "directory read") ELSE u)
      blocks == IF n.size = 0 THEN <<>>
                ELSE [b \in 1 .. Min({off, n.size - 1}) \div BSIZE + 1 |-> b]
  IN  [FoldLeft(read, s, blocks) EXCEPT !.r = off]

(* r is the inode found, or 0; off is where its entry is.                  *)
dirlookup(s, dp, name) ==
  IF ino(s, dp).type # "dir" THEN panic(s, "dirlookup not DIR")
  ELSE Then(scan(s, dp, entries(s, dp, name)), LAMBDA t :
         IF t.r = ino(s, dp).size THEN [t EXCEPT !.r = 0]
         ELSE [iget(t, content(t, ino(t, dp))[t.r + 1].i)
                 EXCEPT !.off = t.r, !.adrift = @ \/ (name = ".." /\ ino(s, dp).nlink = 0)])

(* The entry goes into the first free place, or after the last one.        *)
dirput(s, dp, entry) ==
  Then(scan(s, dp, unused(s, dp)), LAMBDA u :
    Then(writei(u, dp, u.r, <<entry>>), LAMBDA v :
      [v EXCEPT !.r = IF @ = 1 THEN 0 ELSE -1, !.adrift = @ \/ ino(s, dp).nlink = 0]))

dirlinkLeaks(s, dp, name, inum) ==
  Then(dirlookup(s, dp, name), LAMBDA t :
    IF t.r # 0 THEN [t EXCEPT !.r = -1] ELSE dirput(t, dp, [n |-> name, i |-> inum]))
dirlink(s, dp, name, inum) ==
  Then(dirlookup(s, dp, name), LAMBDA t :
    IF t.r # 0 THEN [iput(t, t.r) EXCEPT !.r = -1]
    ELSE dirput(t, dp, [n |-> name, i |-> inum]))

-----------------------------------------------------------------------------
(* Paths.  A path is a sequence of names and slashes.                      *)
skipelemWhole(path) == SelectSeq(path, LAMBDA e : e # "/")
skipelem(path) ==
  LET names == SelectSeq(path, LAMBDA e : e # "/")
  IN  [k \in 1 .. Len(names) |->
         IF Len(names[k]) >= DIRSIZ THEN SubSeq(names[k], 1, DIRSIZ) ELSE names[k]]

RECURSIVE walk(_, _, _, _)
walk(s, ip, names, parent) ==
  LET none(t) == [iput(t, ip) EXCEPT !.r = 0] IN
  IF names = <<>> THEN IF parent THEN none(s) ELSE [s EXCEPT !.r = ip]
  ELSE Then(ilock(s, ip), LAMBDA t :
         IF ino(t, ip).type # "dir" THEN none(t)
         ELSE IF parent /\ Len(names) = 1 THEN [t EXCEPT !.r = ip]
         ELSE Then(dirlookup(t, ip, Head(names)), LAMBDA u :
                IF u.r = 0 THEN none(u)
                ELSE walk(iput(u, ip), u.r, Tail(names), parent)))

namex(s, p, path, parent) ==
  Then(IF path # <<>> /\ path[1] = "/" THEN iget(s, ROOTINO) ELSE idup(s, s.cwd[p]),
       LAMBDA t : walk(t, t.r, skipelem(path), parent))

namei(s, p, path) == namex(s, p, path, FALSE)
nameiparent(s, p, path) == namex(s, p, path, TRUE)
name(path) == Last(skipelem(path))
=============================================================================
