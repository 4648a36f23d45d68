----------------------------- MODULE Processes -----------------------------
(***************************************************************************)
(* The life of a process (kernel/proc.c, kernel/sysproc.c), exec           *)
(* (kernel/exec.c, sys_exec) and traps from user mode (usertrap) on top of *)
(* Memory, again one function per operator.  The state gains               *)
(*                                                                         *)
(*   proc      the process table                                           *)
(*   nextpid   the next pid                                                *)
(*   pipe      one pipe: its page, its bytes and who holds which end       *)
(*                                                                         *)
(* Calls are atomic here; how wait and exit sleep and wake each other is   *)
(* in MLFQ and RRScheduler, and pipes at their own grain are in Pipe.      *)
(***************************************************************************)
EXTENDS Memory

CONSTANTS NPROC, MAXARG, MAXPATH, PIPESIZE,
          Images     \* the programs on the disk

Slot == 64 .. 63 + NPROC
initproc == 64
NoProc == [state |-> "unused", pid |-> 0, parent |-> 0, killed |-> FALSE, xstate |-> 0,
           trapframe |-> 0, pagetable |-> 0, sz |-> 0]
NoPipe == [page |-> 0, data |-> <<>>, rd |-> {}, wr |-> {}]
table(k, p) == k.proc[p].pagetable

(* The kernel before kinit and userinit.                                   *)
Blank == [mem |-> [pa \in Page |-> Fill(0)], free |-> <<>>, at |-> 0, out |-> <<>>,
          panic |-> "", r |-> 0, proc |-> [p \in Slot |-> NoProc], nextpid |-> 1,
          pipe |-> NoPipe]

-----------------------------------------------------------------------------
proc_pagetable(k, p) ==
  LET fail(t, pt) == ret(uvmfree(t, pt, 0), 0)
      frame(u, pt) ==
        IF u.r < 0 THEN fail(u, pt)
        ELSE Then(mappages(u, pt, TRAPFRAME, k.proc[p].trapframe, {"R", "W"}), LAMBDA v :
               IF v.r < 0 THEN fail(uvmunmap(v, pt, TRAMPOLINE, 1, FALSE), pt)
               ELSE ret(v, pt))
  IN  Then(uvmcreate(k), LAMBDA t :
        IF t.r = 0 THEN t
        ELSE frame(mappages(t, t.r, TRAMPOLINE, trampoline, {"R", "X"}), t.r))

proc_freepagetable(k, pt, sz) ==
  uvmfree(uvmunmap(uvmunmap(k, pt, TRAMPOLINE, 1, FALSE), pt, TRAPFRAME, 1, FALSE), pt, sz)

freeproc(k, p) ==
  LET q == k.proc[p]
      t == IF q.trapframe # 0 THEN kfree(k, q.trapframe) ELSE k
      u == IF q.pagetable # 0 THEN proc_freepagetable(t, q.pagetable, q.sz) ELSE t
  IN  [u EXCEPT !.proc[p] = NoProc]

allocproc(k) ==
  LET unused == {p \in Slot : k.proc[p].state = "unused"}
      fail(t, p) == ret(freeproc(t, p), 0)
      fill(t, p) ==
        IF t.r = 0 THEN fail(t, p)
        ELSE Then(proc_pagetable([t EXCEPT !.proc[p].trapframe = t.r], p), LAMBDA v :
               IF v.r = 0 THEN fail(v, p) ELSE [v EXCEPT !.proc[p].pagetable = v.r, !.r = p])
      take(p) == [k EXCEPT !.proc[p].pid = k.nextpid, !.nextpid = @ + 1,
                           !.proc[p].state = "used"]
  IN  IF unused = {} THEN ret(k, 0)
      ELSE Then(Min(unused), LAMBDA p : fill(kalloc(take(p)), p))

(* initcode, the program of the first process: it calls exec("/init").     *)
userinit(k, initcode) ==
  Then(allocproc(k), LAMBDA t :
    [uvmfirst(t, table(t, t.r), initcode)
       EXCEPT !.proc[t.r].sz = PGSIZE, !.proc[t.r].state = "runnable"])

growproc(k, p, n) ==
  LET sz == k.proc[p].sz
      newsz == (sz + n) % WORD
      t == CASE n > 0 -> uvmalloc(k, table(k, p), sz, newsz, {"W"})
             [] n < 0 -> uvmdealloc(k, table(k, p), sz, newsz)
             [] OTHER -> ret(k, sz)
  IN  Then(t, LAMBDA u : IF n > 0 /\ u.r = 0 THEN ret(u, -1)
                         ELSE [u EXCEPT !.proc[p].sz = u.r, !.r = 0])

sys_sbrk(k, p, n) ==
  Then(growproc(k, p, n), LAMBDA t : IF t.r < 0 THEN t ELSE ret(t, k.proc[p].sz))

fork(k, p) ==
  LET also(s, np) == IF p \in s THEN s \cup {np} ELSE s
      child(t, np) ==
        IF t.r < 0 THEN ret(freeproc(t, np), -1)
        ELSE [t EXCEPT !.proc[np].sz = k.proc[p].sz, !.proc[np].parent = p,
                       !.proc[np].state = "runnable", !.pipe.rd = also(@, np),
                       !.pipe.wr = also(@, np), !.r = t.proc[np].pid]
  IN  Then(allocproc(k), LAMBDA a :
        IF a.r = 0 THEN ret(a, -1)
        ELSE child(uvmcopy(a, table(a, p), table(a, a.r), k.proc[p].sz), a.r))

pipeclose(k, p, ends) ==
  LET t == [k EXCEPT !.pipe.rd = IF "rd" \in ends THEN @ \ {p} ELSE @,
                     !.pipe.wr = IF "wr" \in ends THEN @ \ {p} ELSE @]
      some(s) == s.pipe.rd \cup s.pipe.wr # {}
  IN  IF some(k) /\ ~some(t) THEN [kfree(t, k.pipe.page) EXCEPT !.pipe = NoPipe] ELSE t

reparent(k, p) ==
  [k EXCEPT !.proc = [q \in Slot |-> IF @[q].parent = p THEN [@[q] EXCEPT !.parent = initproc]
                                     ELSE @[q]]]

exit(k, p, status) ==
  IF p = initproc THEN panic(k, "init exiting")
  ELSE [reparent(pipeclose(k, p, {"rd", "wr"}), p)
          EXCEPT !.proc[p].xstate = status, !.proc[p].state = "zombie"]

Kids(k, p) == {q \in Slot : k.proc[q].parent = p}
Zombies(k, p) == {q \in Kids(k, p) : k.proc[q].state = "zombie"}
(* wait sleeps.                                                            *)
waiting(k, p) == Kids(k, p) # {} /\ Zombies(k, p) = {} /\ ~k.proc[p].killed
wait(k, p, addr) ==
  LET reap(pp) ==
        Then(IF addr = 0 THEN ret(k, 0)
             ELSE copyout(k, table(k, p), addr, <<<<k.proc[pp].xstate>>>>), LAMBDA t :
          IF t.r < 0 THEN t ELSE ret(freeproc(t, pp), k.proc[pp].pid))
  IN  IF Zombies(k, p) = {} THEN ret(k, -1) ELSE reap(Min(Zombies(k, p)))

killSleepersOnly(k, pid) ==
  LET them == {p \in Slot : k.proc[p].pid = pid}
  IN  ret(k, IF them = {} THEN -1 ELSE 0)
kill(k, pid) ==
  LET them == {p \in Slot : k.proc[p].pid = pid}
  IN  IF them = {} THEN ret(k, -1)
      ELSE [k EXCEPT !.proc[Min(them)].killed = TRUE, !.r = 0]

-----------------------------------------------------------------------------
(* A load or a store by user code, then usertrap when it faults: the       *)
(* process is killed and exits on its way back to user mode.               *)
access(k, p, va, right) ==
  IF va >= MAXVA THEN 0
  ELSE Then(walk(k, table(k, p), va, FALSE), LAMBDA w :
         IF w.at = 0 THEN 0
         ELSE IF ~valid(pte(w, va)) \/ ~({"U", right} \subseteq pte(w, va)[2]) THEN 0
         ELSE pte(w, va)[1])

setkilled(k, p) == [k EXCEPT !.proc[p].killed = TRUE]
usertrap(k, p) == exit(setkilled(k, p), p, -1)

load(k, p, va) ==
  Then(access(k, p, va, "R"), LAMBDA pa :
    IF pa = 0 THEN usertrap(k, p) ELSE ret(k, k.mem[pa][within(va) + 1][1]))
store(k, p, va, v) ==
  Then(access(k, p, va, "W"), LAMBDA pa :
    IF pa = 0 THEN usertrap(k, p) ELSE [k EXCEPT !.mem[pa][within(va) + 1] = <<v>>])

-----------------------------------------------------------------------------
(* exec.  A segment of a program has an address, a size in memory, its     *)
(* bytes in the file, and permissions; `short' is a file that ends early.  *)
strlen(k, page) == Min({i \in 1 .. PGSIZE : k.mem[page][i] = <<0>>}) - 1
align(sp) == sp - (sp % 2)

RECURSIVE loadseg(_, _, _, _)
loadseg(k, pagetable, va, data) ==
  LET n == Min({PGSIZE, Len(data)}) IN
  IF data = <<>> THEN k
  ELSE Then(walkaddr(k, pagetable, va), LAMBDA pa :
         IF pa = 0 THEN panic(k, "loadseg: address should exist")
         ELSE loadseg([k EXCEPT !.mem[pa] = SubSeq(data, 1, n) \o SubSeq(@, n + 1, PGSIZE)],
                      pagetable, va + n, SubSeq(data, n + 1, Len(data))))

(* The program headers in turn; the result is the state, the size so far   *)
(* and whether all of them were good.                                      *)
RECURSIVE segments(_, _, _, _)
segments(k, pagetable, sz, phs) ==
  LET ph == Head(phs)
      done(s, size, ok) == [k |-> s, sz |-> size, ok |-> ok]
  IN  IF phs = <<>> THEN done(k, sz, TRUE)
      ELSE IF ph.memsz < Len(ph.data) \/ within(ph.vaddr) # 0 THEN done(k, sz, FALSE)
      ELSE Then(uvmalloc(k, pagetable, sz, ph.vaddr + ph.memsz, ph.flags), LAMBDA t :
             IF t.r = 0 THEN done(t, sz, FALSE)
             ELSE Then(loadseg(t, pagetable, ph.vaddr, ph.data), LAMBDA u :
                    IF ph.short THEN done(u, t.r, FALSE)
                    ELSE segments(u, pagetable, t.r, Tail(phs))))

(* Push the argument strings; sp goes down and ustack remembers it.        *)
RECURSIVE push(_, _, _, _, _, _)
push(k, pagetable, stackbase, sp0, ustack, argv) ==
  LET n == strlen(k, Head(argv))
      sp == align(sp0 - (n + 1))
      done(s, ok) == [k |-> s, sp |-> sp0, ustack |-> ustack, ok |-> ok]
  IN  IF argv = <<>> THEN done(k, TRUE)
      ELSE IF Len(ustack) >= MAXARG \/ sp < stackbase THEN done(k, FALSE)
      ELSE Then(copyout(k, pagetable, sp, SubSeq(k.mem[Head(argv)], 1, n + 1)), LAMBDA t :
             IF t.r < 0 THEN done(t, FALSE)
             ELSE push(t, pagetable, stackbase, sp, Append(ustack, <<sp>>), Tail(argv)))

(* A failure goes to bad, which frees the new page table.                  *)
exec(k, p, path, argv) ==
  LET bad(s, pt, sz) == ret(proc_freepagetable(s, pt, sz), -1)
      commit(e, pt, sz) ==
        IF e.r < 0 THEN bad(e, pt, sz)
        ELSE ret(proc_freepagetable([e EXCEPT !.proc[p].pagetable = pt, !.proc[p].sz = sz],
                                    table(k, p), k.proc[p].sz), Len(argv))
      arguments(d, pt, sz) ==
        LET sp == align(d.sp - (Len(argv) + 1)) IN
        commit(IF d.ok /\ sp >= sz - PGSIZE THEN copyout(d.k, pt, sp, Append(d.ustack, <<0>>))
               ELSE ret(d.k, -1), pt, sz)
      stack(c, pt, sz0) ==
        IF c.r = 0 THEN bad(c, pt, sz0)
        ELSE arguments(push(uvmclear(c, pt, c.r - 2 * PGSIZE), pt, c.r - PGSIZE, c.r,
                            <<>>, argv), pt, c.r)
      image(b, pt) ==
        LET sz0 == PGROUNDUP(b.sz) IN
        IF ~b.ok THEN bad(b.k, pt, b.sz)
        ELSE stack(uvmalloc(b.k, pt, sz0, sz0 + 2 * PGSIZE, {"W"}), pt, sz0)
  IN  IF path \notin DOMAIN Images THEN ret(k, -1)
      ELSE Then(proc_pagetable(k, p), LAMBDA a :
             IF a.r = 0 THEN ret(a, -1) ELSE image(segments(a, a.r, 0, Images[path]), a.r))

fetchaddr(k, p, addr) ==
  IF addr >= k.proc[p].sz \/ (addr + 1) % WORD > k.proc[p].sz THEN ret(k, -1)
  ELSE copyin(k, table(k, p), addr, 1)
fetchstr(k, p, addr, max) == copyinstr(k, table(k, p), addr, max)

(* The loop of sys_exec: argv is the kernel pages the strings went to.     *)
RECURSIVE fetchargs(_, _, _, _)
fetchargs(k, p, uargv, argv) ==
  LET done(s, a, ok) == [k |-> s, argv |-> a, ok |-> ok]
      string(u, addr) ==
        IF u.r = 0 THEN done(u, argv, FALSE)
        ELSE Then(fetchstr(u, p, addr, PGSIZE), LAMBDA v :
               IF v.r < 0 THEN done(v, Append(argv, u.r), FALSE)
               ELSE fetchargs([v EXCEPT !.mem[u.r] = v.out \o SubSeq(@, Len(v.out) + 1, PGSIZE)],
                              p, uargv, Append(argv, u.r)))
  IN  IF Len(argv) >= MAXARG THEN done(k, argv, FALSE)
      ELSE Then(fetchaddr(k, p, (uargv + Len(argv)) % WORD), LAMBDA t :
             IF t.r < 0 THEN done(t, argv, FALSE)
             ELSE IF t.out[1] = <<0>> THEN done(t, argv, TRUE)
             ELSE string(kalloc(t), t.out[1][1]))

RECURSIVE kfrees(_, _)
kfrees(k, argv) == IF argv = <<>> THEN k ELSE kfrees(kfree(k, Head(argv)), Tail(argv))

sys_execKeepsArgs(k, p, path, uargv) ==
  Then(fetchargs(k, p, uargv, <<>>), LAMBDA x :
    IF ~x.ok THEN ret(x.k, -1)
    ELSE Then(exec(x.k, p, path, x.argv), LAMBDA t : ret(kfrees(t, x.argv), t.r)))
sys_exec(k, p, path, uargv) ==
  Then(fetchargs(k, p, uargv, <<>>), LAMBDA x :
    Then(IF x.ok THEN exec(x.k, p, path, x.argv) ELSE ret(x.k, -1), LAMBDA t :
      ret(kfrees(t, x.argv), t.r)))

-----------------------------------------------------------------------------
(* Calls of other files as far as they touch memory.                       *)

(* The path of open, link, unlink: argstr.                                 *)
argstr(k, p, addr) == fetchstr(k, p, addr, MAXPATH)

(* The user's end of read and write of a file: all of it or an error.      *)
either_copyout(k, p, addr, n) == copyout(k, table(k, p), addr, [i \in 1 .. n |-> <<102>>])
either_copyin(k, p, addr, n) == copyin(k, table(k, p), addr, n)

sys_pipe(k, p, fdarray) ==
  LET copy(u) ==
        Then(copyout(u, table(k, p), fdarray, <<<<3>>, <<4>>>>), LAMBDA v :
          IF v.r < 0 THEN ret(pipeclose(u, p, {"rd", "wr"}), -1) ELSE v)
  IN  Then(kalloc(k), LAMBDA t :
        IF t.r = 0 THEN ret(t, -1)
        ELSE copy([t EXCEPT !.pipe = [page |-> t.r, data |-> <<>>, rd |-> {p}, wr |-> {p}]]))

(* One byte: enough room, or the call would sleep.                         *)
pipewrite(k, p, addr) ==
  IF k.pipe.rd = {} THEN ret(k, -1)
  ELSE Then(copyin(k, table(k, p), addr, 1), LAMBDA t :
         IF t.r < 0 THEN ret(t, 0) ELSE [t EXCEPT !.pipe.data = Append(@, t.out[1]), !.r = 1])
piperead(k, p, addr) ==
  IF k.pipe.data = <<>> THEN ret(k, 0)
  ELSE Then(copyout([k EXCEPT !.pipe.data = Tail(@)], table(k, p), addr, <<Head(k.pipe.data)>>),
            LAMBDA t : ret(t, IF t.r < 0 THEN 0 ELSE 1))
=============================================================================
