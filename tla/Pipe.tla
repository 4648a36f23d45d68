-------------------------------- MODULE Pipe --------------------------------
(***************************************************************************)
(* kernel/pipe.c with the file table of kernel/file.c and the calls of     *)
(* kernel/sysfile.c and kernel/proc.c that hand descriptors around, as     *)
(* operators on a state record s.  A system call is a sequence whose head  *)
(* is its name, and proc[p].todo is what process p will do.  A call runs   *)
(* from where it takes the lock of the pipe to where it sleeps or returns; *)
(* one that sleeps stays at the head of todo and is made again.            *)
(*                                                                         *)
(*   file      ftable                                                      *)
(*   pipe      the pages that hold pipes                                   *)
(*   proc      the process table; r is what the last call returned, buf    *)
(*             what it read, p the two descriptors of the last pipe call   *)
(*   fs        the contents of the files there are, by directory and name  *)
(*   console   what was written to the console                             *)
(***************************************************************************)
EXTENDS Integers, Sequences, FiniteSets, FiniteSetsExt, SequencesExt, TLC

CONSTANTS NPROC, NFILE, NOFILE,
          NPIPE,       \* pages that kalloc can give
          PIPESIZE,
          UINT         \* number of values of an unsigned int

ASSUME PipeSizes == PIPESIZE \in Nat \ {0} /\ UINT > PIPESIZE /\ UINT % PIPESIZE = 0

Proc == 1 .. NPROC
File == 1 .. NFILE
Fd == 0 .. NOFILE - 1
Page == 1 .. NPIPE
Nowhere == <<0, "">>      \* no channel

NoFile == [ref |-> 0, type |-> "none", pipe |-> 0, readable |-> FALSE, writable |-> FALSE,
           off |-> 0, ip |-> <<"", "">>]
NoPipe == [live |-> FALSE, data |-> [i \in 0 .. PIPESIZE - 1 |-> 0], nread |-> 0, nwrite |-> 0,
           readopen |-> FALSE, writeopen |-> FALSE]
NoProc == [state |-> "unused", parent |-> 0, ofile |-> [fd \in Fd |-> 0], chan |-> Nowhere,
           killed |-> 0, todo |-> <<>>, r |-> 0, buf |-> <<>>, p |-> <<0, 0>>, mem |-> <<>>,
           cwd |-> "/"]

ret(s, p, v) == [s EXCEPT !.proc[p].r = v]

(* What follows a step that gives t.                                       *)
Then(t, Rest(_)) == Rest(t)

-----------------------------------------------------------------------------
(* killed is 1 after kill, and 2 once p has slept since: the test before   *)
(* the next sleep sees it then, while a kill can still fall between the    *)
(* test and the sleep that follows.                                        *)
sleep(s, p, chan) ==
  [s EXCEPT !.proc[p].state = "sleeping", !.proc[p].chan = chan,
            !.proc[p].killed = IF @ = 1 THEN 2 ELSE @]

wakeup(s, chan) ==
  [s EXCEPT !.proc = [q \in Proc |-> IF @[q].state = "sleeping" /\ @[q].chan = chan
                                     THEN [@[q] EXCEPT !.state = "runnable", !.chan = Nowhere]
                                     ELSE @[q]]]

kill(s, p) ==
  [s EXCEPT !.proc[p].killed = Max({@, 1}), !.proc[p].chan = Nowhere,
            !.proc[p].state = IF @ = "sleeping" THEN "runnable" ELSE @]

-----------------------------------------------------------------------------
full(pi) == pi.nwrite = (pi.nread + PIPESIZE) % UINT
empty(pi) == pi.nread = pi.nwrite

(* The copying loop of pipewrite, until the pipe is full.                  *)
RECURSIVE put(_, _)
put(pi, bytes) ==
  IF bytes = <<>> \/ full(pi) THEN [pipe |-> pi, left |-> bytes]
  ELSE put([pi EXCEPT !.data[pi.nwrite % PIPESIZE] = Head(bytes),
                      !.nwrite = (@ + 1) % UINT], Tail(bytes))

RECURSIVE take(_, _, _)
take(pi, n, bytes) ==
  IF n = 0 \/ empty(pi) THEN [pipe |-> pi, bytes |-> bytes]
  ELSE take([pi EXCEPT !.nread = (@ + 1) % UINT], n - 1,
            Append(bytes, pi.data[pi.nread % PIPESIZE]))

(* x is <<"write", fd, the bytes still to be written, how many in all>>.   *)
pipewrite(s, p, pg, x) ==
  LET w == put(s.pipe[pg], x[3])
      t == wakeup([s EXCEPT !.pipe[pg] = w.pipe], <<pg, "nread">>)
  IN  IF x[3] # <<>> /\ (~s.pipe[pg].readopen \/ s.proc[p].killed = 2) THEN ret(s, p, -1)
      ELSE IF w.left = <<>> THEN ret(t, p, x[4])
      ELSE sleep([t EXCEPT !.proc[p].todo[1][3] = w.left], p, <<pg, "nwrite">>)

pipereadPeeks(s, p, pg, n) ==
  LET g == take(s.pipe[pg], n, <<>>)
  IN  IF empty(s.pipe[pg]) /\ s.pipe[pg].writeopen THEN sleep(s, p, <<pg, "nread">>)
      ELSE wakeup([s EXCEPT !.pipe[pg] = [g.pipe EXCEPT !.nread = s.pipe[pg].nwrite],
                            !.proc[p].buf = g.bytes, !.proc[p].r = Len(g.bytes)],
                  <<pg, "nwrite">>)
piperead(s, p, pg, n) ==
  LET g == take(s.pipe[pg], n, <<>>)
  IN  IF empty(s.pipe[pg]) /\ s.pipe[pg].writeopen
      THEN IF s.proc[p].killed = 2 THEN ret(s, p, -1) ELSE sleep(s, p, <<pg, "nread">>)
      ELSE wakeup([s EXCEPT !.pipe[pg] = g.pipe, !.proc[p].buf = g.bytes,
                            !.proc[p].r = Len(g.bytes)], <<pg, "nwrite">>)

pipecloseQuiet(s, pg, writable) ==
  LET t == IF writable THEN [s EXCEPT !.pipe[pg].writeopen = FALSE]
                       ELSE [s EXCEPT !.pipe[pg].readopen = FALSE]
  IN  IF t.pipe[pg].readopen \/ t.pipe[pg].writeopen THEN t ELSE [t EXCEPT !.pipe[pg] = NoPipe]
pipeclose(s, pg, writable) ==
  LET t == IF writable THEN wakeup([s EXCEPT !.pipe[pg].writeopen = FALSE], <<pg, "nread">>)
                       ELSE wakeup([s EXCEPT !.pipe[pg].readopen = FALSE], <<pg, "nwrite">>)
  IN  IF t.pipe[pg].readopen \/ t.pipe[pg].writeopen THEN t ELSE [t EXCEPT !.pipe[pg] = NoPipe]

-----------------------------------------------------------------------------
(* The file table.  0 is the null pointer.                                 *)
filealloc(s) == LET idle == {f \in File : s.file[f].ref = 0}
                IN  IF idle = {} THEN 0 ELSE Min(idle)

filedup(s, f) == [s EXCEPT !.file[f].ref = @ + 1]

fileclose(s, f) ==
  LET ff == s.file[f]
      t == [s EXCEPT !.file[f] = NoFile]
  IN  IF ff.ref > 1 THEN [s EXCEPT !.file[f].ref = @ - 1]
      ELSE IF ff.type = "pipe" THEN pipeclose(t, ff.pipe, ff.writable) ELSE t

pipealloc(s) ==
  LET f0 == filealloc(s)
      end(w, pg) == [NoFile EXCEPT !.ref = 1, !.type = "pipe", !.pipe = pg, !.readable = ~w,
                                   !.writable = w]
      f1 == filealloc([s EXCEPT !.file[f0].ref = 1])
      pages == {g \in Page : ~s.pipe[g].live}
      pg == Min(pages)
      none == [s |-> s, f |-> <<0, 0>>]
  IN  IF f0 = 0 THEN none
      ELSE IF f1 = 0 \/ pages = {} THEN none
      ELSE [s |-> [s EXCEPT !.file[f0] = end(FALSE, pg), !.file[f1] = end(TRUE, pg),
                            !.pipe[pg] = [NoPipe EXCEPT !.live = TRUE, !.readopen = TRUE,
                                                        !.writeopen = TRUE]],
            f |-> <<f0, f1>>]

(* The descriptor fdalloc would give, or -1.                               *)
fdalloc(s, p) == LET idle == {fd \in Fd : s.proc[p].ofile[fd] = 0}
                 IN  IF idle = {} THEN -1 ELSE Min(idle)
argfd(s, p, fd) == IF fd \in Fd THEN s.proc[p].ofile[fd] ELSE 0
install(s, p, fd, f) == [s EXCEPT !.proc[p].ofile[fd] = f, !.proc[p].r = fd]

-----------------------------------------------------------------------------
(* System calls.                                                           *)
sys_close(s, p, fd) ==
  IF argfd(s, p, fd) = 0 THEN ret(s, p, -1)
  ELSE ret(fileclose([s EXCEPT !.proc[p].ofile[fd] = 0], s.proc[p].ofile[fd]), p, 0)

sys_dup(s, p, fd) ==
  LET f == argfd(s, p, fd)
  IN  IF f = 0 \/ fdalloc(s, p) < 0 THEN ret(s, p, -1)
      ELSE filedup(install(s, p, fdalloc(s, p), f), f)

sys_pipe(s, p) ==
  LET drop(u, f) == ret(fileclose(fileclose(u, f[1]), f[2]), p, -1)
      second(t, fd0, fd1, f) ==
        IF fd1 < 0 THEN drop([t EXCEPT !.proc[p].ofile[fd0] = 0], f)
        ELSE [install(t, p, fd1, f[2]) EXCEPT !.proc[p].p = <<fd0, fd1>>, !.proc[p].r = 0]
      first(a, fd0) ==
        IF fd0 < 0 THEN drop(a.s, a.f)
        ELSE Then(install(a.s, p, fd0, a.f[1]), LAMBDA t : second(t, fd0, fdalloc(t, p), a.f))
  IN  Then(pipealloc(s), LAMBDA a : IF a.f[1] = 0 THEN ret(s, p, -1)
                                    ELSE first(a, fdalloc(a.s, p)))

(* mode is one of r, w (create and truncate), a (create) and rw.           *)
sys_open(s, p, name, mode) ==
  LET ip == <<s.proc[p].cwd, name>>
      there == name = "console" \/ ip \in DOMAIN s.fs
      f == filealloc(s)
      fd == fdalloc(s, p)
      made == IF there THEN IF mode = "w" /\ name # "console" THEN [s EXCEPT !.fs[ip] = <<>>] ELSE s
              ELSE [s EXCEPT !.fs = (ip :> <<>>) @@ @]
      new == [NoFile EXCEPT !.ref = 1, !.type = IF name = "console" THEN "device" ELSE "inode",
                            !.ip = ip, !.readable = mode \in {"r", "rw"},
                            !.writable = mode \in {"w", "a", "rw"}]
  IN  IF ~there /\ mode \in {"r", "rw"} THEN ret(s, p, -1)
      ELSE IF f = 0 \/ fd < 0
      THEN ret(IF there THEN s ELSE made, p, -1)
      ELSE install([made EXCEPT !.file[f] = new], p, fd, f)

sys_read(s, p, fd, n) ==
  LET f == argfd(s, p, fd)
      ff == s.file[f]
      got == SubSeq(s.fs[ff.ip], ff.off + 1, Min({ff.off + n, Len(s.fs[ff.ip])}))
  IN  IF f = 0 THEN ret(s, p, -1)
      ELSE IF ~ff.readable THEN ret(s, p, -1)
      ELSE IF ff.type = "pipe" THEN piperead(s, p, ff.pipe, n)
      ELSE IF ff.type = "device" THEN ret([s EXCEPT !.proc[p].buf = <<>>], p, 0)
      ELSE [s EXCEPT !.proc[p].buf = got, !.proc[p].r = Len(got), !.file[f].off = @ + Len(got)]

sys_write(s, p, x) ==
  LET f == argfd(s, p, x[2])
      ff == s.file[f]
      old == s.fs[ff.ip]
  IN  IF f = 0 THEN ret(s, p, -1)
      ELSE IF ~ff.writable THEN ret(s, p, -1)
      ELSE IF ff.type = "pipe" THEN pipewrite(s, p, ff.pipe, x)
      ELSE IF ff.type = "device" THEN [s EXCEPT !.console = @ \o x[3], !.proc[p].r = x[4]]
      ELSE [s EXCEPT !.fs[ff.ip] = SubSeq(old, 1, ff.off) \o x[3]
                                   \o SubSeq(old, ff.off + x[4] + 1, Len(old)),
                     !.file[f].off = @ + x[4], !.proc[p].r = x[4]]

(* The child has the open files of its parent and goes on with todo.       *)
fork(s, p, todo) ==
  LET idle == {q \in Proc : s.proc[q].state = "unused"}
      np == Min(idle)
      held(f) == Cardinality({fd \in Fd : s.proc[p].ofile[fd] = f})
  IN  IF idle = {} THEN ret(s, p, -1)
      ELSE [s EXCEPT !.proc[np] = [s.proc[p] EXCEPT !.parent = p, !.todo = todo, !.killed = 0],
                     !.proc[p].r = np,
                     !.file = [f \in File |-> [@[f] EXCEPT !.ref = @ + held(f)]]]

(* exit closes one file at a time and then leaves its children to init; a  *)
(* child of init is reaped at once.                                        *)
exit(s, p) ==
  LET open == {fd \in Fd : s.proc[p].ofile[fd] # 0}
      orphan(q) == [q EXCEPT !.parent = IF @ = p THEN 0 ELSE @]
      gone(q) == q.parent = 0 /\ q.state = "zombie"
  IN  IF open # {} THEN sys_close(s, p, Min(open))
      ELSE LET t == [wakeup(s, <<s.proc[p].parent, "wait">>)
                       EXCEPT !.proc[p] = [NoProc EXCEPT !.state = "zombie",
                                                         !.parent = s.proc[p].parent]]
               left == [q \in Proc |-> orphan(t.proc[q])]
           IN  [t EXCEPT !.proc = [q \in Proc |-> IF gone(left[q]) THEN NoProc ELSE left[q]]]

Kids(s, p) == {q \in Proc : s.proc[q].parent = p}
Zombies(s, p) == {q \in Kids(s, p) : s.proc[q].state = "zombie"}
wait(s, p) ==
  IF Zombies(s, p) # {} THEN ret([s EXCEPT !.proc[Min(Zombies(s, p))] = NoProc], p, 0)
  ELSE IF Kids(s, p) = {} \/ s.proc[p].killed = 2 THEN ret(s, p, -1)
  ELSE sleep(s, p, <<p, "wait">>)
=============================================================================
