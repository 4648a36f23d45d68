------------------------------- MODULE Console -------------------------------
(***************************************************************************)
(* The console: kernel/console.c on kernel/uart.c, with the traps          *)
(* (trap.c), the interrupt controller (plic.c), the spin locks with their  *)
(* nested disabling of interrupts (spinlock.c) and sys_sleep, on several   *)
(* harts.  Every thread has a stack of frames: a process or a scheduler at *)
(* the bottom, trap handlers above it.  `at' is where a frame stands, lk   *)
(* the lock it spins for, next where it goes with that lock, back where    *)
(* uartstart returns to.                                                   *)
(***************************************************************************)
EXTENDS Integers, Sequences, FiniteSets, SequencesExt, FiniteSetsExt

CONSTANTS NCPU, NPROC,
          INPUT_BUF, UART_TX_BUF_SIZE,
          UINT,          \* number of values of an unsigned counter
          TXFIFO, RXFIFO,  \* depth of the device's queues
          Text,          \* characters one can type
          Scripts        \* [keys, calls: what each process does, timers, kill]

ASSUME ConsoleSizes == /\ INPUT_BUF < UINT /\ UINT % INPUT_BUF = 0
                       /\ UART_TX_BUF_SIZE < UINT /\ UINT % UART_TX_BUF_SIZE = 0

VARIABLES cpu, lock, stack, proc,
          cons, tx,      \* the input ring and the output ring
          ticks,
          uart, plic,    \* the device and the interrupt controller
          script,        \* what is still to come from outside
          eaten,         \* every byte that readers have removed
          panicked

vars == <<cpu, lock, stack, proc, cons, tx, ticks, uart, plic, script, eaten, panicked>>

Cpu == 1 .. NCPU
Proc == 1 .. NPROC
Lock == {"cons", "tx", "ticks", "pr"}
Idle(c) == 100 + c                    \* the scheduler's thread
Thread == Proc \cup {Idle(c) : c \in Cpu}

NL == 10
CR == 13
CTRL_D == 4
CTRL_H == 8
DEL == 127
CTRL_U == 21
CTRL_P == 16
DUMP == 63                            \* procdump's output
BACKSPACE == <<8, 32, 8>>

frame(at) == [at |-> at, lk |-> "pr", next |-> "", back |-> "", c |-> 0, out |-> <<>>]

Init ==
  /\ script \in Scripts
  /\ cpu = [c \in Cpu |-> [thread |-> Idle(c), intr |-> TRUE, noff |-> 0, intena |-> TRUE]]
  /\ lock = [l \in Lock |-> 0]
  /\ proc = [p \in Proc |-> [state |-> "runnable", chan |-> "", killed |-> FALSE, intena |-> TRUE,
                             todo |-> script.calls[p], got |-> <<>>, since |-> 0, slept |-> 0]]
  /\ stack = [t \in Thread |-> IF t \in Proc THEN <<frame("user")>> ELSE <<>>]
  /\ cons = [buf |-> [i \in 0 .. INPUT_BUF - 1 |-> 0], r |-> 0, w |-> 0, e |-> 0]
  /\ tx = [buf |-> [i \in 0 .. UART_TX_BUF_SIZE - 1 |-> 0], r |-> 0, w |-> 0]
  /\ ticks = UINT - 1
  /\ uart = [fifo |-> <<>>, rx |-> <<>>, sent |-> <<>>]
  /\ plic = [pending |-> FALSE, claimed |-> FALSE]
  /\ eaten = <<>> /\ panicked = FALSE

-----------------------------------------------------------------------------
thread(c) == cpu[c].thread
running(c) == stack[thread(c)] # <<>>
top(c) == Last(stack[thread(c)])
at(c, label) == running(c) /\ top(c).at = label /\ ~panicked
goto(c, f) == stack' = [stack EXCEPT ![thread(c)] = Append(Front(@), f)]
step(c, label) == goto(c, [top(c) EXCEPT !.at = label])

(* spinlock.c.  acquire turns interrupts off before it takes the lock or   *)
(* starts to spin.  intena has no meaning, and is TRUE, while noff is 0.   *)
push_off(k) == [k EXCEPT !.intr = FALSE, !.intena = IF k.noff = 0 THEN k.intr ELSE @, !.noff = @ + 1]
pop_off(k) == IF k.noff = 1 THEN [k EXCEPT !.noff = 0, !.intr = k.intena, !.intena = TRUE]
              ELSE [k EXCEPT !.noff = @ - 1]
holding(c, l) == lock[l] = c
taken(c, l) == lock' = IF lock[l] = 0 THEN [lock EXCEPT ![l] = c] ELSE lock
goes(c, l, f, label) ==
  goto(c, IF lock[l] = 0 THEN [f EXCEPT !.at = label]
          ELSE [f EXCEPT !.at = "spin", !.lk = l, !.next = label])
acquireUnmasked(c, l, f, label) ==
  /\ panicked' = holding(c, l)
  /\ cpu' = [cpu EXCEPT ![c].noff = @ + 1]
  /\ taken(c, l) /\ goes(c, l, f, label)
acquire(c, l, f, label) ==
  /\ panicked' = holding(c, l)
  /\ cpu' = [cpu EXCEPT ![c] = push_off(@)]
  /\ taken(c, l) /\ goes(c, l, f, label)
proceed(f) == [f EXCEPT !.at = f.next, !.lk = "pr", !.next = ""]
Spin(c) ==
  /\ at(c, "spin") /\ lock[top(c).lk] = 0
  /\ lock' = [lock EXCEPT ![top(c).lk] = c]
  /\ goto(c, proceed(top(c)))
  /\ UNCHANGED <<cpu, proc, cons, tx, ticks, uart, plic, script, eaten, panicked>>
release(c, l) ==
  /\ panicked' = (~holding(c, l) \/ cpu[c].intr \/ cpu[c].noff < 1)
  /\ lock' = [lock EXCEPT ![l] = 0]
  /\ cpu' = [cpu EXCEPT ![c] = pop_off(@)]

(* proc.c.                                                                 *)
woken(pr, chan) ==
  [p \in Proc |-> IF pr[p].state = "sleeping" /\ pr[p].chan = chan
                  THEN [pr[p] EXCEPT !.state = "runnable", !.chan = ""] ELSE pr[p]]
swtch(c) == cpu' = [cpu EXCEPT ![c].thread = Idle(c), ![c].intr = TRUE, ![c].noff = 0, ![c].intena = TRUE]
(* pr is the process table the caller leaves.  The lock is retaken at      *)
(* "relock", after which the frame goes on where it slept.                 *)
sleep(c, pr, chan, l) ==
  /\ panicked' = (cpu[c].noff # 1 \/ ~holding(c, l))
  /\ lock' = [lock EXCEPT ![l] = 0]
  /\ proc' = [pr EXCEPT ![thread(c)].state = "sleeping", ![thread(c)].chan = chan,
                        ![thread(c)].intena = cpu[c].intena]
  /\ goto(c, [top(c) EXCEPT !.at = "relock", !.lk = l, !.next = top(c).at])
  /\ swtch(c)
Relock(c) ==
  /\ at(c, "relock")
  /\ acquire(c, top(c).lk, proceed(top(c)), top(c).next)
  /\ UNCHANGED <<proc, cons, tx, ticks, uart, plic, script, eaten>>

Scheduler(c, p) ==
  /\ thread(c) = Idle(c) /\ ~running(c) /\ ~panicked
  /\ proc[p].state = "runnable"
  /\ proc' = [proc EXCEPT ![p].state = "running", ![p].intena = TRUE]
  /\ cpu' = [cpu EXCEPT ![c] = [thread |-> p, intr |-> proc[p].intena, noff |-> 0, intena |-> TRUE]]
  /\ UNCHANGED <<lock, stack, cons, tx, ticks, uart, plic, script, eaten, panicked>>

exit(c) ==
  /\ proc' = [proc EXCEPT ![thread(c)].state = "zombie"]
  /\ stack' = [stack EXCEPT ![thread(c)] = <<>>]
  /\ swtch(c)
  /\ UNCHANGED <<lock, cons, tx, ticks, uart, plic, script, eaten, panicked>>

-----------------------------------------------------------------------------
(* usertrap with a system call; a call is <<name, argument>>.              *)
call(c) == Head(proc[thread(c)].todo)
syscall(c) ==
  /\ at(c, "user") /\ thread(c) \in Proc
  /\ LET me == proc[thread(c)]
     IN  IF me.todo = <<>> \/ me.killed THEN exit(c)
         ELSE /\ CASE call(c)[1] = "write" -> step(c, "putc") /\ UNCHANGED <<cpu, lock, panicked>>
                   [] call(c)[1] = "read" -> acquire(c, "cons", top(c), "get")
                   [] call(c)[1] = "sleep" -> acquire(c, "ticks", top(c), "since")
              /\ UNCHANGED <<proc, cons, tx, ticks, uart, plic, script, eaten>>

(* The rest of todo after the current call.                                *)
returned(pr, p) == [pr EXCEPT ![p].todo = Tail(@), ![p].got = <<>>, ![p].since = 0, ![p].slept = 0]

(* consolewrite: uartputc for each byte.                                   *)
Putc(c) ==
  /\ at(c, "putc")
  /\ acquire(c, "tx", top(c), "put")
  /\ UNCHANGED <<proc, cons, tx, ticks, uart, plic, script, eaten>>
uartputc(c) ==
  /\ at(c, "put")
  /\ IF tx.w = (tx.r + UART_TX_BUF_SIZE) % UINT
     THEN sleep(c, proc, "tx_r", "tx") /\ UNCHANGED tx
     ELSE /\ tx' = [tx EXCEPT !.buf[tx.w % UART_TX_BUF_SIZE] = Head(call(c)[2]),
                              !.w = (@ + 1) % UINT]
          /\ goto(c, [frame("start") EXCEPT !.back = "wrote"])
          /\ UNCHANGED <<cpu, lock, proc, panicked>>
  /\ UNCHANGED <<cons, ticks, uart, plic, script, eaten>>
Wrote(c) ==
  /\ at(c, "wrote")
  /\ release(c, "tx")
  /\ LET p == thread(c)
         left == Tail(call(c)[2])
     IN  IF left = <<>> THEN proc' = returned(proc, p) /\ goto(c, frame("user"))
         ELSE proc' = [proc EXCEPT ![p].todo[1][2] = left] /\ goto(c, frame("putc"))
  /\ UNCHANGED <<cons, tx, ticks, uart, plic, script, eaten>>

(* uart.c.  LSR is read in one step and THR written in the next.           *)
LSR_TX_IDLE == uart.fifo = <<>>
WriteReg(b) == uart' = [uart EXCEPT !.fifo = IF Len(@) < TXFIFO THEN Append(@, b) ELSE @]
uartstartQuiet(c) ==
  /\ at(c, "start")
  /\ IF tx.w = tx.r \/ ~LSR_TX_IDLE THEN step(c, top(c).back) /\ UNCHANGED <<proc, tx>>
     ELSE /\ tx' = [tx EXCEPT !.r = (@ + 1) % UINT]
          /\ UNCHANGED proc
          /\ goto(c, [top(c) EXCEPT !.at = "thr", !.c = tx.buf[tx.r % UART_TX_BUF_SIZE]])
  /\ UNCHANGED <<cpu, lock, cons, ticks, uart, plic, script, eaten, panicked>>
uartstart(c) ==
  /\ at(c, "start")
  /\ IF tx.w = tx.r \/ ~LSR_TX_IDLE THEN step(c, top(c).back) /\ UNCHANGED <<proc, tx>>
     ELSE /\ tx' = [tx EXCEPT !.r = (@ + 1) % UINT]
          /\ proc' = woken(proc, "tx_r")
          /\ goto(c, [top(c) EXCEPT !.at = "thr", !.c = tx.buf[tx.r % UART_TX_BUF_SIZE]])
  /\ UNCHANGED <<cpu, lock, cons, ticks, uart, plic, script, eaten, panicked>>
Thr(c) ==
  /\ at(c, "thr")
  /\ WriteReg(top(c).c) /\ goto(c, [top(c) EXCEPT !.at = "start", !.c = 0])
  /\ UNCHANGED <<cpu, lock, proc, cons, tx, ticks, plic, script, eaten, panicked>>

-----------------------------------------------------------------------------
(* The bytes of the input ring between two counters.                       *)
ring(from, to) == [i \in 1 .. (to - from) % UINT |-> cons.buf[((from + i - 1) % UINT) % INPUT_BUF]]

(* consoleread: as many bytes as there are of one line, and again until    *)
(* the line or the count is complete.                                      *)
wanted(c) == LET have == ring(cons.r, cons.w)
                 stops == {i \in DOMAIN have : have[i] \in {NL, CTRL_D}}
                 n == Min({call(c)[2] - Len(proc[thread(c)].got), Len(have)} \cup stops)
             IN  SubSeq(have, 1, n)
consolereadKeepsEof(c) ==
  /\ at(c, "get")
  /\ LET p == thread(c)
         w == wanted(c)
         eof == w # <<>> /\ Last(w) = CTRL_D
         bytes == IF eof THEN Front(w) ELSE w
         used == IF eof /\ Len(w) > 1 THEN bytes ELSE w
         got == proc[p].got \o bytes
     IN  IF w = <<>> /\ ~proc[p].killed
         THEN sleep(c, proc, "cons_r", "cons") /\ UNCHANGED <<cons, eaten>>
         ELSE /\ cons' = [cons EXCEPT !.r = (@ + Len(used)) % UINT]
              /\ eaten' = eaten \o used
              /\ proc' = [proc EXCEPT ![p].got = got]
              /\ step(c, IF w = <<>> \/ eof \/ Last(w) = NL \/ Len(got) = call(c)[2]
                         THEN "got" ELSE "get")
              /\ UNCHANGED <<cpu, lock, panicked>>
  /\ UNCHANGED <<tx, ticks, uart, plic, script>>
consoleread(c) ==
  /\ at(c, "get")
  /\ LET p == thread(c)
         w == wanted(c)
         eof == w # <<>> /\ Last(w) = CTRL_D
         bytes == IF eof THEN Front(w) ELSE w
         got == proc[p].got \o bytes
         used == IF eof /\ got # <<>> THEN bytes ELSE w
     IN  IF w = <<>> /\ ~proc[p].killed
         THEN sleep(c, proc, "cons_r", "cons") /\ UNCHANGED <<cons, eaten>>
         ELSE /\ cons' = [cons EXCEPT !.r = (@ + Len(used)) % UINT]
              /\ eaten' = eaten \o used
              /\ proc' = [proc EXCEPT ![p].got = got]
              /\ step(c, IF w = <<>> \/ eof \/ Last(w) = NL \/ Len(got) = call(c)[2]
                         THEN "got" ELSE "get")
              /\ UNCHANGED <<cpu, lock, panicked>>
  /\ UNCHANGED <<tx, ticks, uart, plic, script>>
Got(c) ==
  /\ at(c, "got")
  /\ release(c, "cons") /\ proc' = returned(proc, thread(c)) /\ goto(c, frame("user"))
  /\ UNCHANGED <<cons, tx, ticks, uart, plic, script, eaten>>

(* sys_sleep.                                                              *)
Since(c) ==
  /\ at(c, "since")
  /\ proc' = [proc EXCEPT ![thread(c)].since = ticks, ![thread(c)].slept = 0]
  /\ step(c, "nap")
  /\ UNCHANGED <<cpu, lock, cons, tx, ticks, uart, plic, script, eaten, panicked>>
passed(p, n) == (ticks - proc[p].since) % UINT >= n
sys_sleep(c) ==
  /\ at(c, "nap")
  /\ LET p == thread(c)
     IN  IF ~passed(p, call(c)[2]) /\ ~proc[p].killed THEN sleep(c, proc, "ticks", "ticks")
         ELSE release(c, "ticks") /\ proc' = returned(proc, p) /\ goto(c, frame("user"))
  /\ UNCHANGED <<cons, tx, ticks, uart, plic, script, eaten>>

-----------------------------------------------------------------------------
(* Traps from the devices; usertrap and kerneltrap differ in nothing that  *)
(* matters here.                                                           *)
trap(c, f) == stack' = [stack EXCEPT ![thread(c)] = Append(@, f)]
External(c) ==
  /\ cpu[c].intr /\ plic.pending /\ ~plic.claimed /\ ~panicked
  /\ trap(c, frame("claim")) /\ cpu' = [cpu EXCEPT ![c].intr = FALSE]
  /\ UNCHANGED <<lock, proc, cons, tx, ticks, uart, plic, script, eaten, panicked>>
(* Another hart may have claimed the interrupt already.                    *)
plic_claim(c) ==
  /\ at(c, "claim")
  /\ IF plic.pending /\ ~plic.claimed
     THEN plic' = [pending |-> FALSE, claimed |-> TRUE] /\ step(c, "getc")
     ELSE UNCHANGED plic /\ step(c, "trapret")
  /\ UNCHANGED <<cpu, lock, proc, cons, tx, ticks, uart, script, eaten, panicked>>

uartgetc(c) ==
  /\ at(c, "getc")
  /\ IF uart.rx # <<>>
     THEN /\ uart' = [uart EXCEPT !.rx = Tail(@)]
          /\ acquire(c, "cons", [top(c) EXCEPT !.c = Head(uart.rx)], "key")
     ELSE UNCHANGED uart /\ acquire(c, "tx", [top(c) EXCEPT !.back = "sent"], "start")
  /\ UNCHANGED <<proc, cons, tx, ticks, plic, script, eaten>>

erase(n) == FlattenSeq([i \in 1 .. n |-> BACKSPACE])
room == (cons.e - cons.r) % UINT < INPUT_BUF
store(k) ==
  LET e == (cons.e + 1) % UINT
      whole == k \in {NL, CTRL_D} \/ (e - cons.r) % UINT = INPUT_BUF
  IN  [cons EXCEPT !.buf[cons.e % INPUT_BUF] = k, !.e = e, !.w = IF whole THEN e ELSE @]
(* The state after a key and what consputc shows.                          *)
pressedBlind(k) ==
  LET editing == Len(ring(cons.w, cons.e))
      n == IF k = CTRL_U THEN editing ELSE Min({1, editing})
      key == IF k = CR THEN NL ELSE k
  IN  CASE k \in {CTRL_U, CTRL_H, DEL} -> [cons |-> [cons EXCEPT !.e = (@ - n) % UINT], out |-> erase(n)]
        [] OTHER -> [cons |-> IF k # 0 /\ room THEN store(key) ELSE cons, out |-> <<key>>]
pressed(k) ==
  LET editing == Len(ring(cons.w, cons.e))
      n == IF k = CTRL_U THEN editing ELSE Min({1, editing})
      key == IF k = CR THEN NL ELSE k
  IN  CASE k \in {CTRL_U, CTRL_H, DEL} -> [cons |-> [cons EXCEPT !.e = (@ - n) % UINT], out |-> erase(n)]
        [] k # 0 /\ room -> [cons |-> store(key), out |-> <<key>>]
        [] OTHER -> [cons |-> cons, out |-> <<>>]
consoleintr(c) ==
  /\ at(c, "key")
  /\ LET k == top(c).c
         t == pressed(k)
     IN  IF k = CTRL_P
         THEN /\ acquire(c, "pr", [frame("sync") EXCEPT !.out = <<DUMP>>], "sync")
              /\ UNCHANGED <<cons, proc>>
         ELSE /\ cons' = t.cons
              /\ proc' = IF t.cons.w # cons.w THEN woken(proc, "cons_r") ELSE proc
              /\ goto(c, [frame("sync") EXCEPT !.out = t.out])
              /\ UNCHANGED <<cpu, lock, panicked>>
  /\ UNCHANGED <<tx, ticks, uart, plic, script, eaten>>

(* uartputc_sync spins until the device is idle, holding no lock of its    *)
(* own; then printf and consoleintr let go of theirs.                      *)
uartputc_sync(c) ==
  /\ at(c, "sync") /\ top(c).out # <<>> /\ LSR_TX_IDLE
  /\ step(c, "sync_thr")
  /\ UNCHANGED <<cpu, lock, proc, cons, tx, ticks, uart, plic, script, eaten, panicked>>
SyncThr(c) ==
  /\ at(c, "sync_thr")
  /\ WriteReg(Head(top(c).out)) /\ goto(c, [top(c) EXCEPT !.at = "sync", !.out = Tail(@)])
  /\ UNCHANGED <<cpu, lock, proc, cons, tx, ticks, plic, script, eaten, panicked>>
Shown(c) ==
  /\ at(c, "sync") /\ top(c).out = <<>>
  /\ IF holding(c, "pr") THEN release(c, "pr") /\ UNCHANGED stack
     ELSE release(c, "cons") /\ step(c, "getc")
  /\ UNCHANGED <<proc, cons, tx, ticks, uart, plic, script, eaten>>

(* The end of uartintr, and plic_complete.                                 *)
plic_complete(c) ==
  /\ at(c, "sent")
  /\ release(c, "tx") /\ step(c, "trapret")
  /\ plic' = [plic EXCEPT !.claimed = FALSE]
  /\ UNCHANGED <<proc, cons, tx, ticks, uart, script, eaten>>

(* The timer; only the first hart counts.                                  *)
Timer(c) ==
  /\ cpu[c].intr /\ script.timers > 0 /\ ~panicked
  /\ script' = [script EXCEPT !.timers = @ - 1]
  /\ trap(c, frame(IF c = 1 THEN "clock" ELSE "yield")) /\ cpu' = [cpu EXCEPT ![c].intr = FALSE]
  /\ UNCHANGED <<lock, proc, cons, tx, ticks, uart, plic, eaten, panicked>>
Clock(c) ==
  /\ at(c, "clock")
  /\ acquire(c, "ticks", top(c), "tick")
  /\ UNCHANGED <<proc, cons, tx, ticks, uart, plic, script, eaten>>
napping(p) == proc[p].todo # <<>> /\ Head(proc[p].todo)[1] = "sleep"
clockintr(c) ==
  /\ at(c, "tick")
  /\ ticks' = (ticks + 1) % UINT
  /\ proc' = woken([p \in Proc |-> [proc[p] EXCEPT !.slept = IF napping(p) THEN @ + 1 ELSE @]], "ticks")
  /\ release(c, "ticks") /\ step(c, "yield")
  /\ UNCHANGED <<cons, tx, uart, plic, script, eaten>>
yield(c) ==
  /\ at(c, "yield")
  /\ step(c, "trapret")
  /\ IF thread(c) \in Proc
     THEN /\ proc' = [proc EXCEPT ![thread(c)].state = "runnable", ![thread(c)].intena = cpu[c].intr]
          /\ swtch(c)
     ELSE UNCHANGED <<cpu, proc>>
  /\ UNCHANGED <<lock, cons, tx, ticks, uart, plic, script, eaten, panicked>>
usertrapret(c) ==
  /\ at(c, "trapret")
  /\ stack' = [stack EXCEPT ![thread(c)] = Front(@)]
  /\ cpu' = [cpu EXCEPT ![c].intr = TRUE]
  /\ UNCHANGED <<lock, proc, cons, tx, ticks, uart, plic, script, eaten, panicked>>

-----------------------------------------------------------------------------
(* The device sends and receives on its own, and asks for an interrupt     *)
(* when it has sent everything and when a key arrives.                     *)
Send ==
  /\ uart.fifo # <<>>
  /\ uart' = [uart EXCEPT !.fifo = Tail(@), !.sent = Append(@, Head(uart.fifo))]
  /\ plic' = [plic EXCEPT !.pending = @ \/ Len(uart.fifo) = 1]
  /\ UNCHANGED <<cpu, lock, stack, proc, cons, tx, ticks, script, eaten, panicked>>
Receive ==
  /\ script.keys # <<>> /\ Len(uart.rx) < RXFIFO
  /\ uart' = [uart EXCEPT !.rx = Append(@, Head(script.keys))]
  /\ script' = [script EXCEPT !.keys = Tail(@)]
  /\ plic' = [plic EXCEPT !.pending = TRUE]
  /\ UNCHANGED <<cpu, lock, stack, proc, cons, tx, ticks, eaten, panicked>>

kill(p) ==
  /\ script.kill = p /\ script' = [script EXCEPT !.kill = 0]
  /\ proc[p].state # "zombie"
  /\ proc' = [proc EXCEPT ![p].killed = TRUE, ![p].chan = "",
                          ![p].state = IF @ = "sleeping" THEN "runnable" ELSE @]
  /\ UNCHANGED <<cpu, lock, stack, cons, tx, ticks, uart, plic, eaten, panicked>>

Quiet == /\ \A c \in Cpu : thread(c) = Idle(c) /\ ~running(c)
         /\ \A p \in Proc : proc[p].state # "runnable"
         /\ uart.fifo = <<>> /\ script.keys = <<>> /\ ~plic.pending
(* wfi: nothing left to do.                                                *)
Wait == Quiet /\ UNCHANGED vars

Call(c) == \/ syscall(c) \/ Relock(c) \/ Putc(c) \/ uartputc(c) \/ Wrote(c)
           \/ consoleread(c) \/ Got(c) \/ Since(c) \/ sys_sleep(c)
Handler(c) == \/ plic_claim(c) \/ uartgetc(c) \/ consoleintr(c) \/ uartputc_sync(c) \/ SyncThr(c)
              \/ Shown(c) \/ plic_complete(c)
              \/ Clock(c) \/ clockintr(c) \/ yield(c) \/ usertrapret(c)
Next == \/ \E c \in Cpu : \/ Spin(c) \/ uartstart(c) \/ Thr(c) \/ Call(c) \/ Handler(c)
                          \/ External(c) \/ Timer(c) \/ \E p \in Proc : Scheduler(c, p)
        \/ Send \/ Receive \/ \E p \in Proc : kill(p)
        \/ Wait

(* No step but Wait can be repeated, so it is enough that the machine does *)
(* not stop while something is possible: a spinning hart takes no step.    *)
Spec == Init /\ [][Next]_vars /\ WF_vars(Next)

-----------------------------------------------------------------------------
Counter == 0 .. UINT - 1
TypeOK ==
  /\ \A c \in Cpu : cpu[c].thread \in Proc \cup {Idle(c)} /\ cpu[c].noff \in 0 .. 3
  /\ lock \in [Lock -> 0 .. NCPU]
  /\ \A p \in Proc : proc[p].state \in {"running", "runnable", "sleeping", "zombie"}
  /\ {cons.r, cons.w, cons.e, tx.r, tx.w, ticks} \subseteq Counter

(* acquire never finds its own hart holding the lock, release always does, *)
(* and nobody sleeps with a second lock: the tests before each panic.      *)
NoPanic == ~panicked

(* The nesting of push_off: a hart that holds or waits for a lock has      *)
(* interrupts off, as many levels deep as it has locks, so no handler can  *)
(* wait for what it interrupted; and no handler is itself interrupted, so  *)
(* a kernel stack holds at most one.                                       *)
LocksMasked ==
  /\ \A c \in Cpu :
       LET held == {l \in Lock : lock[l] = c}
       IN  /\ cpu[c].noff = Cardinality(held) + (IF at(c, "spin") THEN 1 ELSE 0)
           /\ cpu[c].noff > 0 => ~cpu[c].intr
  /\ \A t \in Thread : Len(stack[t]) <= IF t \in Proc THEN 2 ELSE 1

(* The spinlocks do their work: no panic, and no handler that could wait   *)
(* for what it interrupted.                                                *)
LocksSound == TypeOK /\ NoPanic /\ LocksMasked

shown == uart.sent \o uart.fifo
mine(p, b) == b \div 10 = 20 + p          \* byte b is one that p writes
writes(p) == FlattenSeq([i \in DOMAIN script.calls[p] |->
                          IF script.calls[p][i][1] = "write" THEN script.calls[p][i][2] ELSE <<>>])
waits(p) == \/ proc[p].chan = "cons_r" /\ cons.r = cons.w
            \/ proc[p].chan = "ticks" /\ ~passed(p, Head(proc[p].todo)[2])
Served ==
  /\ \A p \in Proc : proc[p].state = "zombie" \/ waits(p)
  /\ tx.r = tx.w /\ uart.fifo = <<>> /\ uart.rx = <<>> /\ script.keys = <<>>
(* Each writer's bytes leave the device in order and once, whoever moves   *)
(* them from the ring, and all of them do in the end.                      *)
WritesInOrder ==
  \A p \in Proc : LET out == SelectSeq(shown, LAMBDA b : mine(p, b))
                  IN  /\ IsPrefix(out, writes(p))
                      /\ Served /\ Quiet /\ proc[p].todo = <<>> => out = writes(p)

(* What a terminal shows after these bytes, up to the cursor.              *)
RECURSIVE Render(_, _, _)
Render(bytes, text, pos) ==
  IF bytes = <<>> THEN SubSeq(text, 1, pos)
  ELSE IF Head(bytes) = 8 THEN Render(Tail(bytes), text, pos - 1)
  ELSE Render(Tail(bytes), SubSeq(text, 1, pos) \o <<Head(bytes)>> \o SubSeq(text, pos + 2, Len(text)), pos + 1)
(* The echo shows exactly what readers have had and will get: neither a    *)
(* key that found no room nor a byte lost between two writers of the       *)
(* device's register.                                                      *)
EchoShowsInput ==
  lock["cons"] = 0 =>
    Render(SelectSeq(shown, LAMBDA b : b < 200 /\ b # DUMP), <<>>, 0) = eaten \o ring(cons.r, cons.e)

(* What leaves the device is what was written and what was typed.          *)
OutputSound == WritesInOrder /\ EchoShowsInput

(* p is in the loop of consoleread: `next' is where it goes on when it has *)
(* slept or waited for the lock.                                           *)
inread(p) == stack[p] # <<>> /\ "get" \in {stack[p][1].at, stack[p][1].next}
Discipline == INSTANCE LineDiscipline WITH
  Reader <- Proc, Key <- Text \cup {NL, CTRL_D}, Size <- INPUT_BUF, NewLine <- NL, Eof <- CTRL_D,
  line <- ring(cons.r, cons.w), edit <- ring(cons.w, cons.e), got <- [p \in Proc |-> proc[p].got],
  reading <- [p \in Proc |-> inread(p)], killed <- [p \in Proc |-> proc[p].killed]
(* The ring with its three counters, which wrap, is the line discipline.   *)
KeepsDiscipline == Discipline!Spec

(* sleep(n) does not return before n ticks have passed, also when the      *)
(* counter of ticks wraps meanwhile, unless the process was killed.        *)
SleepsLongEnough ==
  [][\A p \in Proc : proc'[p].todo # proc[p].todo /\ ~proc[p].killed =>
       LET x == Head(proc[p].todo) IN x[1] = "sleep" => proc[p].slept >= x[2]]_vars

(* Every write, read and sleep ends, no sleep too early, and all output    *)
(* leaves the machine; only a read without a line and a sleep without      *)
(* enough ticks wait.                                                      *)
AllServed == <>Served /\ SleepsLongEnough
=============================================================================
