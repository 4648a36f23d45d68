------------------------------ MODULE FileCalls ------------------------------
(***************************************************************************)
(* kernel/file.c and kernel/sysfile.c on top of Inodes, the parts of fork, *)
(* exit and exec that hold files, and the image that mkfs/mkfs.c writes.   *)
(* The state gains ftab (the file table), ofile and cwd (per process).     *)
(* Pipes have a module of their own.                                       *)
(***************************************************************************)
EXTENDS Inodes

CONSTANTS Proc, NFILE, NOFILE, NDEV, CONSOLE

File == 100 .. 99 + NFILE                    \* addresses of ftable entries
Fd == 0 .. NOFILE - 1
NoFile == [ref |-> 0, type |-> "none", readable |-> FALSE, writable |-> FALSE,
           ip |-> 0, off |-> 0, major |-> 0]
ret(s, v) == [s EXCEPT !.r = v]

-----------------------------------------------------------------------------
(* A disk of zeroes and a kernel that has just started.                    *)
Blank ==
  [dino |-> [i \in Inum |-> NoInode], data |-> [b \in Block |-> Zeroes], used |-> {},
   ic |-> [i \in Inum |-> [ref |-> 0, valid |-> FALSE, ino |-> NoInode]],
   inop |-> FALSE, log |-> {}, fits |-> TRUE, panic |-> "", adrift |-> FALSE,
   r |-> 0, out |-> <<>>, off |-> 0,
   ftab |-> [f \in File |-> NoFile],
   ofile |-> [p \in Proc |-> [fd \in Fd |-> 0]],
   cwd |-> [p \in Proc |-> 0]]

(* mkfs: inodes and blocks are handed out in order; used is what the       *)
(* bitmap written at the end will say.                                     *)
freeblock(s) == nmeta + Cardinality(s.used)

fresh(s, inum, k) ==
  IF s.dino[inum].addrs[k] # 0 THEN s
  ELSE [s EXCEPT !.dino[inum].addrs[k] = freeblock(s), !.used = @ \cup {freeblock(s)}]

(* The address of block bn of an inode, in r.                              *)
mkfs_map(s, inum, bn) ==
  LET k == bn - NDIRECT + 1 IN
  IF bn < NDIRECT
  THEN Then(fresh(s, inum, bn), LAMBDA t : [t EXCEPT !.r = t.dino[inum].addrs[bn]])
  ELSE Then(fresh(s, inum, NDIRECT), LAMBDA t :
         LET ind == t.dino[inum].addrs[NDIRECT] IN
         IF t.data[ind][k].i # 0 THEN [t EXCEPT !.r = t.data[ind][k].i]
         ELSE [t EXCEPT !.data[ind][k].i = freeblock(t), !.used = @ \cup {freeblock(t)},
                        !.r = freeblock(t)])

RECURSIVE iappend(_, _, _)
iappend(s, inum, src) ==
  LET off == s.dino[inum].size
      n1 == Min({Len(src), BSIZE - within(off)})
  IN  IF src = <<>> THEN [s EXCEPT !.r = 0]
      ELSE Then(mkfs_map(s, inum, off \div BSIZE), LAMBDA t :
             iappend([t EXCEPT !.data[t.r] = patch(@, within(off), SubSeq(src, 1, n1)),
                               !.dino[inum].size = @ + n1], inum,
                     SubSeq(src, n1 + 1, Len(src))))

mkfs_ialloc(s, inum, type) == [s EXCEPT !.dino[inum] = [NoInode EXCEPT !.type = type, !.nlink = 1]]

mkfs_root(s) == iappend(mkfs_ialloc(s, ROOTINO, "dir"), ROOTINO,
                        <<[n |-> ".", i |-> ROOTINO], [n |-> "..", i |-> ROOTINO]>>)

mkfs_file(s, file) ==
  LET i == Min({j \in Inum \ {0} : s.dino[j].type = "none"})
      t == iappend(mkfs_ialloc(s, i, "file"), ROOTINO, <<[n |-> file.name, i |-> i]>>)
  IN  iappend(t, i, file.data)

mkfs_end(s) == [s EXCEPT !.dino[ROOTINO].size = (@ \div BSIZE + 1) * BSIZE]

userinit(s, p) == Then(iget(s, ROOTINO), LAMBDA t : [t EXCEPT !.cwd[p] = t.r])

-----------------------------------------------------------------------------
(* file.c                                                                  *)
filealloc(s) ==
  LET free == {f \in File : s.ftab[f].ref = 0}
  IN  IF free = {} THEN ret(s, 0)
      ELSE [s EXCEPT !.ftab[Min(free)].ref = 1, !.r = Min(free)]

filedup(s, f) == IF s.ftab[f].ref < 1 THEN panic(s, "filedup")
                 ELSE [s EXCEPT !.ftab[f].ref = @ + 1]

fileclose(s, f) ==
  IF s.ftab[f].ref < 1 THEN panic(s, "fileclose")
  ELSE IF s.ftab[f].ref > 1 THEN [s EXCEPT !.ftab[f].ref = @ - 1]
  ELSE LET t == [s EXCEPT !.ftab[f] = NoFile]
       IN  IF s.ftab[f].type = "none" THEN t
           ELSE end_op(iput(begin_op(t), s.ftab[f].ip))

filestat(s, f, mapped) ==
  LET i == s.ftab[f].ip IN
  Then(ilock(s, i), LAMBDA t :
    [t EXCEPT !.out = <<stati(t, i)>>, !.r = IF mapped THEN 0 ELSE -1])

fileread(s, f, n, room) ==
  LET h == s.ftab[f] IN
      IF ~h.readable THEN ret(s, -1)
      ELSE IF h.type = "device"
      THEN [s EXCEPT !.out = <<>>, !.r = IF h.major = CONSOLE THEN 0 ELSE -1]
      ELSE Then(readi(ilock(s, h.ip), h.ip, h.off, n, room), LAMBDA u :
             IF u.r > 0 THEN [u EXCEPT !.ftab[f].off = @ + u.r] ELSE u)

(* One transaction for each piece of a write that fits one.                *)
RECURSIVE filewriteloop(_, _, _, _)
filewriteloop(s, f, src, max) ==
  LET piece == SubSeq(src, 1, Min({max, Len(src)}))
      moved(t) == IF t.r > 0 THEN [t EXCEPT !.ftab[f].off = @ + t.r] ELSE t
  IN  IF src = <<>> THEN ret(s, 0)
      ELSE Then(end_op(moved(writei(ilock(begin_op(s), s.ftab[f].ip), s.ftab[f].ip,
                                    s.ftab[f].off, piece))), LAMBDA u :
             IF u.r # Len(piece) THEN ret(u, -1)
             ELSE filewriteloop(u, f, SubSeq(src, Len(piece) + 1, Len(src)), max))

(* filewrite, with pieces of at most max cells.                            *)
filewritePieces(s, f, src, max) ==
  LET h == s.ftab[f] IN
  IF ~h.writable THEN ret(s, -1)
  ELSE IF h.type = "device" THEN ret(s, IF h.major = CONSOLE THEN Len(src) ELSE -1)
  ELSE Then(filewriteloop(s, f, src, max), LAMBDA t :
         ret(t, IF t.r = 0 THEN Len(src) ELSE -1))

filewriteAtOnce(s, f, src) == filewritePieces(s, f, src, Len(src))
filewrite(s, f, src) == filewritePieces(s, f, src, ((MAXOPBLOCKS - 1 - 1 - 2) \div 2) * BSIZE)

-----------------------------------------------------------------------------
(* sysfile.c                                                               *)
argfd(s, p, fd) == IF fd \in Fd THEN s.ofile[p][fd] ELSE 0

fdalloc(s, p, f) ==
  LET free == {fd \in Fd : s.ofile[p][fd] = 0}
  IN  IF free = {} THEN ret(s, -1)
      ELSE [s EXCEPT !.ofile[p][Min(free)] = f, !.r = Min(free)]

sys_dup(s, p, fd) ==
  LET f == argfd(s, p, fd) IN
  IF f = 0 THEN ret(s, -1)
  ELSE Then(fdalloc(s, p, f), LAMBDA t : IF t.r < 0 THEN t ELSE filedup(t, f))

sys_read(s, p, fd, n, room) ==
  LET f == argfd(s, p, fd) IN IF f = 0 THEN ret(s, -1) ELSE fileread(s, f, n, room)

sys_write(s, p, fd, src) ==
  LET f == argfd(s, p, fd) IN IF f = 0 THEN ret(s, -1) ELSE filewrite(s, f, src)

sys_close(s, p, fd) ==
  LET f == argfd(s, p, fd)
  IN  IF f = 0 THEN ret(s, -1)
      ELSE ret(fileclose([s EXCEPT !.ofile[p][fd] = 0], f), 0)

sys_fstat(s, p, fd, mapped) ==
  LET f == argfd(s, p, fd) IN IF f = 0 THEN ret(s, -1) ELSE filestat(s, f, mapped)

relinkNoDrop(s, i, d) == iupdate([s EXCEPT !.ic[i].ino.nlink = @ + Max({d, 0})], i)
relink(s, i, d) == iupdate([s EXCEPT !.ic[i].ino.nlink = @ + d], i)

sys_link(s, p, old, new) ==
  LET bad(t, ip) == ret(end_op(iput(relink(ilock(t, ip), ip, -1), ip)), -1)
      enter(c, ip) ==
        LET dp == c.r IN
        IF dp = 0 THEN bad(c, ip)
        ELSE Then(dirlink(ilock(c, dp), dp, name(new), ip), LAMBDA e :
               IF e.r < 0 THEN bad(iput(e, dp), ip)
               ELSE ret(end_op(iput(iput(e, dp), ip)), 0))
  IN  Then(namei(begin_op(s), p, old), LAMBDA a :
        IF a.r = 0 THEN ret(end_op(a), -1)
        ELSE Then(ilock(a, a.r), LAMBDA b :
               IF ino(b, a.r).type = "dir" THEN ret(end_op(iput(b, a.r)), -1)
               ELSE enter(nameiparent(relink(b, a.r, 1), p, new), a.r)))

isdirempty(s, dp) == \A k \in 3 .. ino(s, dp).size : content(s, ino(s, dp))[k].i = 0

sys_unlink(s, p, path) ==
  LET bad(t, dp) == ret(end_op(iput(t, dp)), -1)
      erase(t, dp, ip) ==
        LET dir == ino(t, ip).type = "dir" IN
        IF ino(t, ip).nlink < 1 THEN panic(t, "unlink: nlink < 1")
        ELSE IF dir /\ ~isdirempty(t, ip) THEN bad(iput(t, ip), dp)
        ELSE Then(writei(t, dp, t.off, <<Zero>>), LAMBDA e :
               IF e.r # 1 THEN panic(e, "unlink: writei")
               ELSE Then(iput(IF dir THEN relink(e, dp, -1) ELSE e, dp), LAMBDA f :
                      ret(end_op(iput(relink(f, ip, -1), ip)), 0)))
      look(b, dp) ==
        IF name(path) \in {".", ".."} THEN bad(b, dp)
        ELSE Then(dirlookup(b, dp, name(path)), LAMBDA t :
               IF t.r = 0 THEN bad(t, dp) ELSE erase(ilock(t, t.r), dp, t.r))
  IN  Then(nameiparent(begin_op(s), p, path), LAMBDA a :
        IF a.r = 0 THEN ret(end_op(a), -1) ELSE look(ilock(a, a.r), a.r))

create(s, p, path, type, major) ==
  LET dir == type = "dir"
      found(t, dp, ip) ==                    \* the name exists already
        Then(ilock(iput(t, dp), ip), LAMBDA u :
          IF type = "file" /\ ino(u, ip).type \in {"file", "device"}
          THEN ret(u, ip) ELSE ret(iput(u, ip), 0))
      dots(t, dp, ip) ==
        IF ~dir THEN ret(t, 0)
        ELSE Then(dirlink(t, ip, ".", ip), LAMBDA e :
               IF e.r < 0 THEN e ELSE dirlink(e, ip, "..", dp))
      fail(t, dp, ip) ==
        ret(iput(iput(iupdate([t EXCEPT !.ic[ip].ino.nlink = 0], ip), ip), dp), 0)
      enter(t, dp, ip) ==
        Then(iupdate([t EXCEPT !.ic[ip].ino.major = major, !.ic[ip].ino.nlink = 1], ip),
          LAMBDA u : Then(dots(u, dp, ip),
          LAMBDA v : Then(IF v.r < 0 THEN v ELSE dirlink(v, dp, name(path), ip),
          LAMBDA h : IF h.r < 0 THEN fail(h, dp, ip)
                     ELSE ret(iput(IF dir THEN relink(h, dp, 1) ELSE h, dp), ip))))
      within_dir(t, dp) ==
        IF t.r # 0 THEN found(t, dp, t.r)
        ELSE Then(ialloc(t, type), LAMBDA u :
               IF u.r = 0 THEN ret(iput(u, dp), 0) ELSE enter(ilock(u, u.r), dp, u.r))
  IN  Then(nameiparent(s, p, path), LAMBDA a :
        IF a.r = 0 THEN a ELSE within_dir(dirlookup(ilock(a, a.r), a.r, name(path)), a.r))

sys_open(s, p, path, omode) ==
  LET inode == IF "CREATE" \in omode THEN create(begin_op(s), p, path, "file", 0)
               ELSE Then(namei(begin_op(s), p, path), LAMBDA n :
                      IF n.r = 0 THEN n ELSE ilock(n, n.r))
      bad(t, ip) == ret(end_op(iput(t, ip)), -1)
      opened(t, f, ip) ==
        [t EXCEPT !.ftab[f] =
           [@ EXCEPT !.type = IF ino(t, ip).type = "device" THEN "device" ELSE "inode",
                     !.major = ino(t, ip).major, !.ip = ip,
                     !.readable = "WRONLY" \notin omode,
                     !.writable = omode \cap {"WRONLY", "RDWR"} # {}]]
      attach(b, ip) ==
        IF b.r = 0 THEN bad(b, ip)
        ELSE Then(fdalloc(b, p, b.r), LAMBDA t :
               IF t.r < 0 THEN bad(fileclose(t, b.r), ip)
               ELSE Then(opened(t, b.r, ip), LAMBDA u :
                      ret(end_op(IF "TRUNC" \in omode /\ ino(u, ip).type = "file"
                                 THEN itrunc(u, ip) ELSE u), t.r)))
  IN  Then(inode, LAMBDA a :
        LET ip == a.r
            type == ino(a, ip).type
        IN  IF ip = 0 THEN ret(end_op(a), -1)
            ELSE IF "CREATE" \notin omode /\ type = "dir" /\ omode # {} THEN bad(a, ip)
            ELSE IF type = "device" /\ ino(a, ip).major \notin 0 .. NDEV - 1 THEN bad(a, ip)
            ELSE attach(filealloc(a), ip))

(* mkdir and mknod put the inode that create made.                         *)
made(t) == IF t.r = 0 THEN ret(end_op(t), -1) ELSE ret(end_op(iput(t, t.r)), 0)
sys_mkdir(s, p, path) == made(create(begin_op(s), p, path, "dir", 0))
sys_mknod(s, p, path, major) == made(create(begin_op(s), p, path, "device", major))

sys_chdir(s, p, path) ==
  Then(namei(begin_op(s), p, path), LAMBDA a :
    IF a.r = 0 THEN ret(end_op(a), -1)
    ELSE Then(ilock(a, a.r), LAMBDA b :
           IF ino(b, a.r).type # "dir" THEN ret(end_op(iput(b, a.r)), -1)
           ELSE [end_op(iput(b, s.cwd[p])) EXCEPT !.cwd[p] = a.r, !.r = 0]))

-----------------------------------------------------------------------------
(* Programs are files whose first cell is the ELF header.                  *)
exec(s, p, path) ==
  Then(namei(begin_op(s), p, path), LAMBDA a :
    IF a.r = 0 THEN ret(end_op(a), -1)
    ELSE Then(readi(ilock(a, a.r), a.r, 0, 1, 1), LAMBDA b :
           ret(end_op(iput(b, a.r)), IF b.r = 1 /\ b.out[1].n = "ELF" THEN 0 ELSE -1)))

fork(s, p, np) ==
  LET open == SelectSeq([k \in 1 .. NOFILE |-> s.ofile[p][k - 1]], LAMBDA f : f # 0)
      t == FoldLeft(filedup, [s EXCEPT !.ofile[np] = s.ofile[p]], open)
  IN  [idup(t, s.cwd[p]) EXCEPT !.cwd[np] = s.cwd[p], !.r = 0]

exit(s, p) ==
  LET open == SelectSeq([k \in 1 .. NOFILE |-> s.ofile[p][k - 1]], LAMBDA f : f # 0)
      t == FoldLeft(fileclose, [s EXCEPT !.ofile[p] = [fd \in Fd |-> 0]], open)
  IN  [end_op(iput(begin_op(t), s.cwd[p])) EXCEPT !.cwd[p] = 0, !.r = 0]
=============================================================================
