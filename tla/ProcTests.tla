----------------------------- MODULE ProcTests -----------------------------
(***************************************************************************)
(* The process and memory tests of user/usertests.c, and small programs,   *)
(* as scripts on Processes.  A test is a set of threads of steps; fork     *)
(* starts a child on a thread of its own.  The addresses are those of the  *)
(* image of usertests: text at 0, data and bss at PGSIZE, the guard page,  *)
(* the stack page, and the heap from SZ on.                                *)
(***************************************************************************)
EXTENDS Processes

CONSTANTS Tests,                  \* the tests to run, each with its threads
          MaxCalls,               \* bound on the calls made at will
          Grow, Addrs, Execs      \* what they pass

VARIABLES k, test,
          run,      \* per slot: thread, pc, and the pids it has forked
          left,     \* calls still to be made at will
          stop,     \* the file stopforking exists
          passed

vars == <<k, test, run, left, stop, passed>>

PG == PGSIZE
DATA == PG
STACK == 3 * PG
SZ == 4 * PG            \* sbrk(0) when the test starts
X == DATA               \* the string "x" and, behind it, argv arrays
ARGV2 == DATA + 2
ARGV1 == DATA + 3
BSS == DATA + 5
KERNBASE == MAXVA \div 2
ALL1 == WORD - 1        \* 0xffffffffffffffff
LAST == 1000            \* stands for the pid of the latest child

AnyRet == -1 .. 2000
go(call, want) == <<[call |-> call, want |-> want, unless |-> AnyRet, by |-> 1]>>
(* Repeat the step until it returns one of these.                          *)
until(call, some) == <<[call |-> call, want |-> AnyRet, unless |-> some, by |-> 0]>>
jump(call, some, by) == <<[call |-> call, want |-> AnyRet, unless |-> some, by |-> by]>>
forks(th) == go(<<"fork", th>>, 1 .. 99)
leave(status) == go(<<"exit", status>>, AnyRet)
waits(want) == go(<<"wait", 0>>, want)
waitstatus(status) == go(<<"wait", STACK>>, {LAST}) \o go(<<"load", STACK>>, {status})
sbrk(n, want) == go(<<"sbrk", n>>, want)
peek(va, want) == go(<<"load", va>>, want)
poke(va, v) == go(<<"store", va, v>>, AnyRet)
path(addr, want) == go(<<"path", addr>>, want)
spin == until(<<"getpid">>, {})
Each(a, b, Body(_)) == FlattenSeq([i \in 1 .. b - a + 1 |-> Body(a + i - 1)])
Repeat(q, n) == FlattenSeq([i \in 1 .. n |-> q])
Solo(q) == [m |-> q]
Faults(q) == [m |-> forks("c") \o waitstatus(-1), c |-> q \o leave(1)]

-----------------------------------------------------------------------------
(* Processes.                                                              *)
killstatus == [m |-> Repeat(forks("c") \o go(<<"kill", 0>>, {0}) \o waitstatus(-1), 2),
               c |-> spin]

preempt ==
  [m |-> forks("c") \o forks("c") \o go(<<"pipe", BSS>>, {0}) \o forks("w")
         \o go(<<"pclose", {"wr"}>>, AnyRet) \o go(<<"pread", STACK>>, {1})
         \o go(<<"pclose", {"rd"}>>, AnyRet) \o go(<<"kill", 2>>, {0}) \o go(<<"kill", 1>>, {0})
         \o go(<<"kill", 0>>, {0}) \o Repeat(waits(1 .. 99), 3),
   c |-> spin,
   w |-> go(<<"pclose", {"rd"}>>, AnyRet) \o go(<<"pwrite", X>>, {1})
         \o go(<<"pclose", {"wr"}>>, AnyRet) \o spin]

exitwait == [m |-> forks("c") \o waitstatus(0) \o forks("d") \o waitstatus(1),
             c |-> leave(0), d |-> leave(1)]

(* Children that exit while their own children live.                       *)
reparentTest == [m |-> Repeat(forks("c") \o waits({LAST}), 2), c |-> forks("d") \o leave(0),
                 d |-> leave(0)]

twochildren == [m |-> Repeat(forks("c") \o forks("c") \o waits(1 .. 99) \o waits(1 .. 99), 2),
                c |-> leave(0)]

forkfork ==
  [m |-> forks("c") \o forks("c")
         \o Repeat(go(<<"wait", STACK>>, 1 .. 99) \o peek(STACK, {0}), 2),
   c |-> Repeat(forks("d") \o waits(1 .. 99), 2) \o leave(0), d |-> leave(0)]

(* A child forks until that fails, and all of them notice a file then; the *)
(* children of the child only wait for it, which bounds the interleavings. *)
forkforkfork ==
  [m |-> forks("c") \o go(<<"creat">>, AnyRet) \o waits({LAST}),
   c |-> jump(<<"look">>, {-1}, 3) \o jump(<<"fork", "d">>, {-1}, -1)
         \o jump(<<"creat">>, {}, -2) \o leave(0),
   d |-> until(<<"look">>, {0}) \o leave(0)]

reparent2 == [m |-> forks("c") \o waits({LAST}),
              c |-> jump(<<"fork", "d">>, {}, 1) \o jump(<<"fork", "e">>, {}, 1) \o leave(0),
              d |-> jump(<<"fork", "e">>, {}, 1) \o leave(0), e |-> leave(0)]

(* Memory runs out before the process table does.                          *)
forktest ==
  [m |-> sbrk(2 * PG, {SZ}) \o go(<<"fork", "c">>, 1 .. 99) \o until(<<"fork", "c">>, {-1})
         \o until(<<"wait", 0>>, {-1}),
   c |-> leave(0)]

(* user/forktest.c is small enough to use up the process table.            *)
forktest_c ==
  [m |-> go(<<"exec", "forktest", ARGV1>>, {1}) \o until(<<"fork", "c">>, {-1})
         \o Repeat(waits(1 .. 99), NPROC - 2) \o waits({-1}),
   c |-> leave(0)]

zombie == [m |-> forks("c") \o leave(0), c |-> leave(0)]

-----------------------------------------------------------------------------
(* sbrk.                                                                   *)
sbrkbasic ==
  [m |-> forks("c") \o waitstatus(0) \o sbrk(0, {SZ})
         \o Each(SZ, SZ + PG, LAMBDA a : sbrk(1, {a}) \o poke(a, 1))
         \o forks("d") \o sbrk(1, {SZ + PG + 1}) \o sbrk(1, {SZ + PG + 2}) \o waitstatus(0),
   c |-> sbrk(70 * PG, {-1}) \o leave(0),
   d |-> sbrk(1, {SZ + PG + 1}) \o sbrk(1, {SZ + PG + 2}) \o leave(0)]

(* A page that is given back comes again full of zeroes.                   *)
sbrkmuch ==
  LET big == SZ + 6 * PG
  IN  Solo(sbrk(0, {SZ}) \o sbrk(6 * PG, {SZ})
           \o Each(0, 5, LAMBDA i : poke(SZ + i * PG, 1)) \o poke(big - 1, 99)
           \o sbrk(-PG, {big}) \o sbrk(0, {big - PG}) \o sbrk(PG, {big - PG})
           \o sbrk(0, {big}) \o peek(big - 1, {0}) \o sbrk(-6 * PG, {big}) \o sbrk(0, {SZ}))

(* Ten children take memory until there is no more; the failed ones have   *)
(* given back what they got.                                               *)
sbrkfail ==
  [m |-> go(<<"pipe", BSS>>, {0})
         \o Repeat(forks("c") \o go(<<"pread", STACK>>, {1}), 2)
         \o sbrk(PG, {SZ}) \o go(<<"kill", 0>>, {0}) \o waits({LAST})
         \o go(<<"kill", 1>>, {0}) \o waits(1 .. 99) \o forks("d") \o go(<<"wait", STACK>>, {LAST})
         \o peek(STACK, {-1}),
   c |-> go(<<"sbrk", 18 * PG>>, AnyRet) \o go(<<"pwrite", X>>, {1}) \o spin,
   d |-> sbrk(0, {SZ + PG}) \o sbrk(60 * PG, {-1}) \o peek(SZ + PG, {}) \o leave(1)]

sbrkarg == Solo(sbrk(PG, {SZ}) \o go(<<"write", SZ, PG>>, {0}) \o sbrk(PG, {SZ + PG})
                \o go(<<"pipe", SZ + PG>>, {0}))

sbrkbugs ==
  [m |-> forks("c") \o waits({LAST}) \o forks("d") \o waits({LAST}) \o forks("e")
         \o waits({LAST}),
   c |-> sbrk(-SZ, {SZ}) \o peek(0, {}) \o leave(0),
   d |-> sbrk(-(SZ - PG + 1), {SZ}) \o leave(0),
   e |-> sbrk(6 * PG + PG \div 2 - SZ, {SZ}) \o sbrk(-1, AnyRet) \o leave(0)]

sbrklast ==
  LET top == SZ + PG - 1
  IN  Solo(sbrk(PG, {SZ}) \o sbrk(1, {SZ + PG}) \o sbrk(-2, {SZ + PG + 1}) \o sbrk(0, {top})
           \o poke(top - 3, 120) \o poke(top - 2, 0) \o path(top - 3, {0})
           \o go(<<"write", top - 3, 1>>, {0}) \o poke(top - 3, 0)
           \o go(<<"read", top - 3, 1>>, {0}) \o peek(top - 3, {102}))

(* A negative argument that goes below zero leaves the size alone.         *)
sbrk8000 == Solo(sbrk(-(SZ + PG), AnyRet) \o sbrk(0, {SZ}) \o poke(SZ - 1, 1))

rwsbrk == Solo(sbrk(2 * PG, {SZ}) \o sbrk(-2 * PG, {SZ + 2 * PG})
               \o go(<<"write", SZ + PG, 2>>, {-1}) \o go(<<"read", SZ + PG, 1>>, {-1}))

-----------------------------------------------------------------------------
(* Addresses the user has no business with.                                *)
kernmem == Faults(peek(KERNBASE, {}))
MAXVAplus == Faults(poke(MAXVA, 99))
stacktest == Faults(peek(STACK - PG, {}))
textwrite == Faults(poke(0, 10))

copyinTest ==
  LET bad(a) == go(<<"write", a, 2 * PG>>, {-1}) \o go(<<"pipe", BSS>>, {0})
                \o go(<<"pwrite", a>>, {0}) \o go(<<"pclose", {"rd", "wr"}>>, AnyRet)
  IN  Solo(bad(KERNBASE) \o bad(ALL1))
copyoutTest ==
  LET bad(a) == go(<<"read", a, 2 * PG>>, {-1}) \o go(<<"pipe", BSS>>, {0})
                \o go(<<"pwrite", X>>, {1}) \o go(<<"pread", a>>, {0})
                \o go(<<"pclose", {"rd", "wr"}>>, AnyRet)
  IN  Solo(bad(KERNBASE) \o bad(ALL1))

copyinstr1 == Solo(path(KERNBASE, {-1}) \o path(ALL1, {-1}))
(* A path of MAXPATH characters has no room for its null; an argument      *)
(* string of a page has none either.                                       *)
copyinstr2 ==
  [m |-> Each(0, MAXPATH - 1, LAMBDA i : poke(STACK + i, 120))
         \o poke(STACK + MAXPATH, 0) \o path(STACK, {-1}) \o path(STACK + 1, {0})
         \o forks("c") \o waitstatus(747),
   c |-> sbrk(2 * PG, {SZ}) \o Each(0, PG - 1, LAMBDA i : poke(SZ + i, 120))
         \o poke(BSS, SZ) \o go(<<"exec", "echo", BSS>>, {-1}) \o leave(747)]
(* A string that crosses the end of the last page.                         *)
copyinstr3 == Solo(sbrk(2 * PG, {SZ}) \o poke(SZ + 2 * PG - 1, 120)
                   \o path(SZ + 2 * PG - 1, {-1}))
validatetest == Solo(Each(0, 5, LAMBDA i : path(i * PG, AnyRet)))
pgbug == Solo(go(<<"exec", "", ARGV1>>, {-1}) \o go(<<"pipe", ALL1 - 4>>, {-1}))

bsstest == Solo(Each(BSS, 2 * PG - 1, LAMBDA i : peek(i, {0})))

(* exec refuses arguments that do not fit the stack page, and bad ones,    *)
(* and leaves the caller as it was.                                        *)
bigargtest == [m |-> forks("c") \o waitstatus(0),
               c |-> poke(DATA + 4, X) \o go(<<"exec", "echo", ARGV2>>, {-1}) \o leave(0)]
badarg == Solo(poke(BSS, MAXVA - 1) \o Repeat(go(<<"exec", "echo", BSS>>, {-1}), 3))

(* exec when little memory is left.                                        *)
execout ==
  LET avail(n) == until(<<"sbrk", PG>>, {-1}) \o Repeat(go(<<"sbrk", -PG>>, AnyRet), n)
                  \o go(<<"exec", "echo", ARGV2>>, AnyRet) \o leave(0)
  IN  [m |-> FlattenSeq([i \in 1 .. 6 |-> forks(<<"a", "b", "c", "d", "e", "f">>[i]) \o waits({LAST})]),
       a |-> avail(0), b |-> avail(1), c |-> avail(3), d |-> avail(6), e |-> avail(8),
       f |-> avail(12)]

(* usertests counts the free pages before and after the tests.             *)
countfree ==
  [m |-> go(<<"pipe", BSS>>, {0}) \o forks("c") \o go(<<"pclose", {"wr"}>>, AnyRet)
         \o until(<<"pread", STACK>>, {0}) \o go(<<"pclose", {"rd"}>>, AnyRet) \o waits({LAST}),
   c |-> go(<<"pclose", {"rd"}>>, AnyRet) \o jump(<<"sbrk", 6 * PG>>, 1 .. 2000, 3)
         \o go(<<"pwrite", X>>, {1}) \o jump(<<"getpid">>, {}, -2) \o leave(0)]
-----------------------------------------------------------------------------
Suite ==
  [killstatus |-> killstatus, preempt |-> preempt, exitwait |-> exitwait,
   reparent |-> reparentTest, twochildren |-> twochildren, forkfork |-> forkfork,
   forkforkfork |-> forkforkfork, reparent2 |-> reparent2, forktest |-> forktest,
   forktest_c |-> forktest_c, zombie |-> zombie, sbrkbasic |-> sbrkbasic,
   sbrkmuch |-> sbrkmuch, sbrkfail |-> sbrkfail, sbrkarg |-> sbrkarg, sbrkbugs |-> sbrkbugs,
   sbrklast |-> sbrklast, sbrk8000 |-> sbrk8000, rwsbrk |-> rwsbrk, kernmem |-> kernmem,
   MAXVAplus |-> MAXVAplus, stacktest |-> stacktest, textwrite |-> textwrite,
   copyin |-> copyinTest, copyout |-> copyoutTest, copyinstr1 |-> copyinstr1,
   copyinstr2 |-> copyinstr2, copyinstr3 |-> copyinstr3, validatetest |-> validatetest,
   pgbug |-> pgbug, bsstest |-> bsstest, bigargtest |-> bigargtest, badarg |-> badarg,
   execout |-> execout, countfree |-> countfree]

(* user/init.c: start the test, then reap whatever becomes its child.      *)
init == go(<<"exec", "init", 1>>, {1}) \o forks("m") \o until(<<"wait", 0>>, {LAST})
        \o until(<<"wait", 0>>, {-1})
runs == go(<<"exec", "usertests", ARGV1>>, {1})

Script(th) == CASE th = "init" -> init
                [] th = "m" -> runs \o (IF test = "free" THEN <<>> ELSE Tests[test].m \o leave(0))
                [] OTHER -> IF test = "free" THEN <<>> ELSE Tests[test][th]
Start(th) == [th |-> th, pc |-> 1, kids |-> <<>>]

Init == /\ k = Blank
        /\ test \in DOMAIN Tests \cup {"free"}
        /\ run = [p \in Slot |-> Start("none")]
        /\ left = 0 /\ stop = FALSE /\ passed = TRUE

initcode == <<<<23>>, <<3>>, <<0>>, <<105>>, <<0>>>>

Boot == /\ k.nextpid = 1
        /\ k' = IF k.free = <<>> THEN freerange(k) ELSE userinit(k, initcode)
        /\ run' = [run EXCEPT ![initproc] = Start("init")]
        /\ left' = IF test = "free" THEN MaxCalls ELSE 0
        /\ UNCHANGED <<test, stop, passed>>

(* The call sleeps, and killing the process would wake it.                 *)
blocked(p, x) ==
  /\ ~k.proc[p].killed
  /\ CASE x[1] = "wait" -> waiting(k, p)
       [] x[1] = "pread" -> k.pipe.data = <<>> /\ k.pipe.wr # {}
       [] x[1] = "pwrite" -> Len(k.pipe.data) >= PIPESIZE /\ k.pipe.rd # {}
       [] OTHER -> FALSE

kids(p) == run[p].kids

(* r, at and out mean nothing between calls.                               *)
Between(t) == [t EXCEPT !.r = 0, !.at = 0, !.out = <<>>]
(* The child of a fork starts on its thread, and its parent remembers it.  *)
Forked(p, t, th) ==
  LET np == CHOOSE q \in Slot : t.proc[q].pid = t.r
  IN  [run EXCEPT ![p].kids = Append(@, t.r), ![np] = Start(th)]

Killed(p) == /\ k.proc[p].state = "runnable" /\ k.proc[p].killed
             /\ k' = Between(exit(k, p, -1))
             /\ UNCHANGED <<test, run, left, stop, passed>>

(* Any call at all, and an exit at the end.                                *)
Will(p) ==
  {<<"fork", "w">>, <<"exit", 0>>} \cup {<<"wait", a>> : a \in Addrs \cup {0}}
  \cup {<<"killpid", i>> : i \in 2 .. k.nextpid} \cup {<<"sbrk", n>> : n \in Grow}
  \cup {<<"exec", e, a>> : e \in Execs, a \in {ARGV2, BSS}}
  \cup {<<"load", a>> : a \in Addrs} \cup {<<"store", a, 7>> : a \in Addrs}
  \cup (IF k.pipe.page = 0 THEN {<<"pipe", a>> : a \in Addrs}
        ELSE {<<"pclose", {e}>> : e \in {"rd", "wr"}}
             \cup (IF p \in k.pipe.rd THEN {<<"pread", a>> : a \in Addrs} ELSE {})
             \cup (IF p \in k.pipe.wr THEN {<<"pwrite", a>> : a \in Addrs} ELSE {}))

(* What a process may call next: the step of its script, and after it, in  *)
(* the test that calls anything, a call at will.                           *)
Todo(p) ==
  LET q == Script(run[p].th) IN
  IF run[p].pc <= Len(q) THEN {q[run[p].pc]}
  ELSE IF test = "free" /\ run[p].th \in {"m", "w"}
  THEN {go(x, AnyRet)[1] : x \in IF left > 0 THEN Will(p) ELSE {<<"exit", 0>>}}
  ELSE {}

(* The call x of process p leaves the state t.                             *)
Return(p, x, t) ==
  LET scripted == run[p].pc <= Len(Script(run[p].th))
      is(s) == t.r \in s \/ (LAST \in s /\ kids(p) # <<>> /\ t.r = Last(kids(p)))
      started == IF x.call[1] = "fork" /\ t.r > 0 THEN Forked(p, t, x.call[2]) ELSE run
  IN  /\ k' = Between(t)
      /\ run' = IF scripted
                THEN [started EXCEPT ![p].pc = @ + IF is(x.unless) THEN 1 ELSE x.by]
                ELSE started
      /\ left' = IF scripted THEN left ELSE Max({left - 1, 0})
      /\ stop' = (stop \/ x.call[1] = "creat")
      /\ passed' = (passed /\ (t.proc[p].state = "zombie" \/ is(x.want)))
      /\ UNCHANGED test

(* syscall: the table of kernel/syscall.c, with the loads and stores of    *)
(* user code.                                                              *)
syscall(p, x) ==
  LET n == x.call[1]
      arg == Tail(x.call)
  IN  \/ n = "fork" /\ Return(p, x, fork(k, p))
      \/ n = "exit" /\ Return(p, x, exit(k, p, arg[1]))
      \/ n = "wait" /\ Return(p, x, wait(k, p, arg[1]))
      \/ n = "kill" /\ Return(p, x, kill(k, kids(p)[Len(kids(p)) - arg[1]]))
      \/ n = "killpid" /\ Return(p, x, kill(k, arg[1]))
      \/ n = "sbrk" /\ Return(p, x, sys_sbrk(k, p, arg[1]))
      \/ n = "load" /\ Return(p, x, load(k, p, arg[1]))
      \/ n = "store" /\ Return(p, x, store(k, p, arg[1], arg[2]))
      \/ n = "path" /\ Return(p, x, argstr(k, p, arg[1]))
      \/ n = "read" /\ Return(p, x, either_copyout(k, p, arg[1], arg[2]))
      \/ n = "write" /\ Return(p, x, either_copyin(k, p, arg[1], arg[2]))
      \/ n = "pipe" /\ Return(p, x, sys_pipe(k, p, arg[1]))
      \/ n = "pread" /\ Return(p, x, piperead(k, p, arg[1]))
      \/ n = "pwrite" /\ Return(p, x, pipewrite(k, p, arg[1]))
      \/ n = "pclose" /\ Return(p, x, pipeclose(k, p, arg[1]))
      \/ n = "exec" /\ Return(p, x, sys_exec(k, p, arg[1], arg[2]))
      \/ n = "look" /\ Return(p, x, ret(k, IF stop THEN 0 ELSE -1))
      \/ n \in {"creat", "getpid"} /\ Return(p, x, ret(k, k.proc[p].pid))

Step(p) == /\ k.proc[p].state = "runnable" /\ ~k.proc[p].killed
           /\ \E x \in Todo(p) : ~blocked(p, x.call) /\ syscall(p, x)

Finished == /\ run[initproc].pc > Len(init)
            /\ UNCHANGED vars

Next == Boot \/ (\E p \in Slot : Killed(p) \/ Step(p)) \/ Finished

(* The scheduler runs every runnable process again and again.  Weak        *)
(* fairness of each, with ENABLED written out: a process can change the    *)
(* state unless it sleeps or polls in vain.                                *)
polls(call) == call[1] = "getpid" \/ (call[1] = "look" /\ ~stop)
Ready(p) ==
  /\ k.proc[p].state = "runnable"
  /\ \/ k.proc[p].killed
     \/ LET q == Script(run[p].th)
        IN  IF run[p].pc <= Len(q)
            THEN ~blocked(p, q[run[p].pc].call)
                 /\ ~(q[run[p].pc].by = 0 /\ polls(q[run[p].pc].call))
            ELSE test = "free" /\ p # initproc
Fairness == /\ []<>(k.nextpid > 1)
            /\ \A p \in Slot : []<>~Ready(p) \/ []<><<Killed(p) \/ Step(p)>>_vars
Spec == Init /\ [][Next]_vars /\ Fairness

-----------------------------------------------------------------------------
Used == {p \in Slot : k.proc[p].state # "unused"}
cells(pa) == {i \in 1 .. PGSIZE : valid(k.mem[pa][i])}
below(pts) == UNION {{k.mem[pt][i][1] : i \in cells(pt)} : pt \in pts}
(* The pages of a page table.                                              *)
Tables(pt) == {pt} \cup below({pt}) \cup below(below({pt}))
(* The leaves of a page table with their virtual addresses.                *)
Leaves(pt) ==
  UNION {UNION {{[va |-> ((i - 1) * PG * PG + (j - 1) * PG + h - 1) * PG,
                  pa |-> k.mem[k.mem[k.mem[pt][i][1]][j][1]][h][1],
                  flags |-> k.mem[k.mem[k.mem[pt][i][1]][j][1]][h][2]] :
                    h \in cells(k.mem[k.mem[pt][i][1]][j][1])} :
                  j \in cells(k.mem[pt][i][1])} : i \in cells(pt)}

TypeOK ==
  /\ ToSet(k.free) \subseteq Page /\ k.nextpid \in Nat
  /\ \A p \in Slot : /\ k.proc[p].state \in {"unused", "runnable", "zombie"}
                      /\ k.proc[p].sz \in 0 .. TRAPFRAME
                      /\ k.proc[p].parent \in Slot \cup {0}
  /\ passed \in BOOLEAN /\ stop \in BOOLEAN /\ left \in 0 .. MaxCalls

(* "lost some free pages" (drivetests) cannot happen: between calls every  *)
(* page kinit freed is on the free list, or is a trapframe, a page table   *)
(* page or a user page of exactly one process, or holds the pipe, however  *)
(* fork, exec and sbrk failed on the way.                                  *)
PagesOwnedOnce ==
  k.panic = "" /\ k.nextpid > 1 =>
    LET own(p) == {<<0, p, k.proc[p].trapframe>>, <<1, p, k.proc[p].pagetable>>}
                  \cup {<<pt, i, k.mem[pt][i][1]>> :
                          pt \in Tables(k.proc[p].pagetable), i \in 1 .. PGSIZE}
        frames == {k.proc[p].trapframe : p \in Used}
        refs == {<<2, i, k.free[i]>> : i \in DOMAIN k.free} \cup {<<3, 0, k.pipe.page>>}
                \cup UNION {own(p) : p \in Used}
        page(pa) == {x \in refs : x[3] = pa}
    IN  \A pa \in Page : Cardinality(page(pa)) = IF pa \in frames THEN 2 ELSE 1

(* p->sz tells the truth: exactly the pages below it are mapped, at pages  *)
(* nobody else can reach, and the kernel's two pages above are mapped      *)
(* without PTE_U.  uvmcopy, uvmunmap and uvmfree trust it.                 *)
SizeMatchesTable ==
  k.panic = "" =>
    \A p \in Used :
      LET all == Leaves(k.proc[p].pagetable)
          user == {l \in all : l.va < TRAPFRAME}
      IN  /\ {l.va : l \in user} = ToSet(pages(0, PGROUNDUP(k.proc[p].sz)))
          /\ Cardinality({l.pa : l \in user}) = Cardinality(user)
          /\ all \ user = {[va |-> TRAMPOLINE, pa |-> trampoline, flags |-> {"R", "X"}],
                            [va |-> TRAPFRAME, pa |-> k.proc[p].trapframe, flags |-> {"R", "W"}]}

(* "Give any children to init" (exit): the parent of a process never is a  *)
(* zombie or a free slot, so somebody is there to wait for it.             *)
ParentAlive ==
  k.panic = "" => \A p \in Used \ {initproc} : k.proc[k.proc[p].parent].state = "runnable"

(* No sequence of calls makes the kernel panic.                            *)
NoPanic == k.panic = ""

(* Between two calls every page has one owner, every p->sz tells the       *)
(* truth and every process has somebody to wait for it.                    *)
KernelSound == TypeOK /\ PagesOwnedOnce /\ SizeMatchesTable /\ ParentAlive

(* Every call returns what the test that makes it demands, and none makes  *)
(* the kernel panic.                                                       *)
AsExpected == passed /\ NoPanic

(* Every test comes to its end, its children killed or reaped, and init    *)
(* has collected every orphan.                                             *)
AllReaped == <>(run[initproc].pc > Len(init) /\ Used = {initproc})
=============================================================================
