------------------------------- MODULE Shell -------------------------------
(***************************************************************************)
(* A shell and the processes it starts, interleaved call by call.  Init    *)
(* chooses the lines that are typed; a process may be killed now and then. *)
(***************************************************************************)
EXTENDS Sh

CONSTANTS Scripts,      \* sequences of lines
          Mortal,       \* scripts during which somebody calls kill
          Disk,         \* the files there are in the beginning
          Dirs          \* the directories one can change to

VARIABLES s, script,
          kills,        \* calls of kill still to come
          short         \* some table was full

vars == <<s, script, kills, short>>

Sh == 1       \* the shell's slot

Init ==
  /\ script \in Scripts
  /\ s = [file |-> [f \in File |-> NoFile], pipe |-> [pg \in Page |-> NoPipe],
          proc |-> [p \in Proc |-> IF p = Sh THEN [NoProc EXCEPT !.state = "runnable",
                                                                 !.todo = main(script)]
                                   ELSE NoProc],
          fs |-> Disk, console |-> <<>>]
  /\ kills = IF script \in Mortal THEN 1 ELSE 0
  /\ short = FALSE

fdof(p, fd) == CASE fd = P0 -> s.proc[p].p[1] [] fd = P1 -> s.proc[p].p[2] [] OTHER -> fd

syscall(p, x) ==
  CASE x[1] = "close" -> sys_close(s, p, fdof(p, x[2]))
    [] x[1] = "dup" -> sys_dup(s, p, fdof(p, x[2]))
    [] x[1] = "pipe" -> sys_pipe(s, p)
    [] x[1] = "open" -> sys_open(s, p, x[2], x[3])
    [] x[1] = "read" -> sys_read(s, p, fdof(p, x[2]), x[3])
    [] x[1] = "write" -> sys_write(s, p, <<x[1], fdof(p, x[2]), x[3], x[4]>>)
    [] x[1] = "fork" -> fork(s, p, x[2])
    [] x[1] = "wait" -> wait(s, p)
    [] x[1] = "exit" -> exit(s, p)
    [] x[1] = "chdir" -> IF x[2] \in Dirs THEN [s EXCEPT !.proc[p].cwd = x[2], !.proc[p].r = 0]
                         ELSE ret(s, p, -1)
    [] x[1] = "exec" -> IF x[2][1] \in Programs
                        THEN [s EXCEPT !.proc[p].todo = <<x>> \o program(x[2]), !.proc[p].mem = <<>>]
                        ELSE ret(s, p, -1)
    [] OTHER -> [s EXCEPT !.proc[p].todo = <<x>> \o @]      \* its own code comes first

(* A call by p and then p's own code; when p was killed meanwhile it exits *)
(* instead of returning to user mode.                                      *)
resume(q) == IF q.killed > 0 THEN [q EXCEPT !.todo = <<Exit(-1)>>]
             ELSE settle([q EXCEPT !.todo = Tail(@)])
Return(p, x, t) ==
  /\ s' = IF t.proc[p].state # "runnable" \/ x[1] = "exit" THEN t
          ELSE [t EXCEPT !.proc[p] = resume(@)]
  /\ short' = (short \/ (x[1] \in {"pipe", "fork"} /\ t.proc[p].r < 0)
                     \/ (x[1] = "open" /\ (filealloc(s) = 0 \/ fdalloc(s, p) < 0)))
Step(p) ==
  /\ s.proc[p].state = "runnable"
  /\ LET x == Head(s.proc[p].todo) IN Return(p, x, syscall(p, x))
  /\ UNCHANGED <<script, kills>>

(* usertrap finds the process killed.                                      *)
Killed(p) ==
  /\ s.proc[p].state = "runnable" /\ s.proc[p].killed > 0
  /\ Head(s.proc[p].todo)[1] # "exit"
  /\ s' = [s EXCEPT !.proc[p].todo = <<Exit(-1)>>]
  /\ UNCHANGED <<script, kills, short>>

Kill(p) ==
  /\ kills > 0 /\ kills' = kills - 1
  /\ p # Sh /\ s.proc[p].state \in {"runnable", "sleeping"} /\ s.proc[p].killed = 0
  /\ s' = kill(s, p)
  /\ UNCHANGED <<script, short>>

Done == \A p \in Proc : s.proc[p].state = "unused"
Finished == Done /\ UNCHANGED vars

Next == (\E p \in Proc : Step(p) \/ Killed(p) \/ Kill(p)) \/ Finished

(* The scheduler runs every runnable process again and again; a runnable   *)
(* process always has a step to take.                                      *)
Fairness == \A p \in Proc : []<>(s.proc[p].state # "runnable")
                            \/ []<><<Step(p) \/ Killed(p)>>_vars
Spec == Init /\ [][Next]_vars /\ Fairness

-----------------------------------------------------------------------------
(* The grammar of command lines as sets of derivations: what the parser is *)
(* checked against.                                                        *)
upto(l, k) == SubSeq(l, 1, k - 1)
after(l, k) == SubSeq(l, k + 1, Len(l))
where(l, tok) == {k \in DOMAIN l : l[k] = tok}
isword(l, k) == k \in DOMAIN l /\ l[k] \notin symbols
isredir(l, k) == k \in DOMAIN l /\ l[k] \in {"<", ">", "+"}
mode(tok) == CASE tok = "<" -> "r" [] tok = ">" -> "w" [] tok = "+" -> "a"
(* Redirections and words in any order; the first redirection is innermost.*)
items(l) == {k \in DOMAIN l : isredir(l, k)}
simple(l) == /\ \A k \in DOMAIN l : isword(l, k) \/ (isredir(l, k) /\ isword(l, k + 1))
plain(l) == {k \in DOMAIN l : isword(l, k) /\ ~isredir(l, k - 1)}
inorder(S) == SetToSortSeq(S, <)
redirected(cmd, l) ==
  wrap(cmd, [j \in 1 .. Cardinality(items(l)) |->
              LET k == inorder(items(l))[j]
              IN  <<l[k + 1], mode(l[k]), IF l[k] = "<" THEN 0 ELSE 1>>])
RECURSIVE Line(_)
Exec(l) ==
  (IF simple(l) /\ Cardinality(plain(l)) < MAXARGS
   THEN {redirected(execcmd([j \in 1 .. Cardinality(plain(l)) |-> l[inorder(plain(l))[j]]]), l)}
   ELSE {})
  \cup (IF l # <<>> /\ l[1] = "("
        THEN UNION {{redirected(c, after(l, k)) : c \in Line(SubSeq(l, 2, k - 1))} :
                      k \in {h \in where(l, ")") : simple(after(l, h)) /\ plain(after(l, h)) = {}}}
        ELSE {})
RECURSIVE Pipeline(_)
Pipeline(l) == Exec(l) \cup UNION {{pipecmd(a, b) : a \in Exec(upto(l, k)), b \in Pipeline(after(l, k))} :
                                     k \in where(l, "|")}
RECURSIVE Job(_)
Job(l) == Pipeline(l) \cup (IF l # <<>> /\ Last(l) = "&" THEN {backcmd(c) : c \in Job(Front(l))} ELSE {})
Line(l) == Job(l) \cup UNION {{listcmd(a, b) : a \in Job(upto(l, k)), b \in Line(after(l, k))} :
                                k \in where(l, ";")}

-----------------------------------------------------------------------------
(* What a command means, without processes or pipes: e has the files, the  *)
(* console, the input that is left, and where output goes (a file with an  *)
(* offset, the console, or what the next command will read).               *)
CONSOLE == <<"", "console">>
PIPED == <<"", "pipe">>

Emit(e, bytes) ==
  CASE e.dst = CONSOLE -> [e EXCEPT !.console = @ \o bytes]
    [] e.dst = PIPED -> [e EXCEPT !.piped = @ \o bytes]
    [] OTHER -> [e EXCEPT !.fs[e.dst] = SubSeq(@, 1, e.off) \o bytes
                                        \o SubSeq(@, e.off + Len(bytes) + 1, Len(@)),
                          !.off = @ + Len(bytes)]

(* A pattern is a sequence of parts; the text is cut into pieces for them. *)
RECURSIVE Parts(_)
Parts(re) == IF re = <<>> THEN <<>>
             ELSE IF Len(re) > 1 /\ re[2] = STAR
             THEN <<<<re[1], TRUE>>>> \o Parts(SubSeq(re, 3, Len(re)))
             ELSE <<<<re[1], FALSE>>>> \o Parts(Tail(re))
Fits(part, piece) == /\ \A i \in DOMAIN piece : part[1] \in {DOT, piece[i]}
                     /\ part[2] \/ Len(piece) = 1
Matches(re, text) ==
  LET hat == re # <<>> /\ re[1] = HAT
      body == Parts(IF hat THEN Tail(re) ELSE re)
      end == body # <<>> /\ Last(body) = <<DOLLAR, FALSE>>
      parts == IF end THEN Front(body) ELSE body
  IN  \E cut \in [0 .. Len(parts) -> 0 .. Len(text)] :
        /\ hat => cut[0] = 0
        /\ end => cut[Len(parts)] = Len(text)
        /\ \A k \in 1 .. Len(parts) :
             cut[k - 1] <= cut[k] /\ Fits(parts[k], SubSeq(text, cut[k - 1] + 1, cut[k]))

(* Line k of the text ends at the k-th newline; the rest is no line.       *)
Grep(re, text) ==
  LET ends == inorder({i \in DOMAIN text : text[i] = NL})
      line(k) == SubSeq(text, IF k = 1 THEN 1 ELSE ends[k - 1] + 1, ends[k] - 1)
  IN  FlattenSeq([k \in DOMAIN ends |-> IF Matches(re, line(k)) THEN Append(line(k), NL) ELSE <<>>])
Wc(text) ==
  LET word(i) == ~blank(text[i]) /\ (i = 1 \/ blank(text[i - 1]))
  IN  <<digit(Cardinality({i \in DOMAIN text : text[i] = NL})),
        digit(Cardinality({i \in DOMAIN text : word(i)})), digit(Len(text)),
        digit(Cardinality({i \in DOMAIN text : vowel(text[i])})), NL>>
Echo(argv) == FlattenSeq([j \in 1 .. Len(argv) - 1 |->
                           Append(Spelling[argv[j + 1]], IF j + 1 < Len(argv) THEN SP ELSE NL)])

(* The output of a filter on its files, up to the first that is missing.   *)
RECURSIVE OnFiles(_, _, _, _)
OnFiles(e, F(_), files, lost) ==
  IF files = <<>> THEN e
  ELSE IF <<e.cwd, Head(files)>> \notin DOMAIN e.fs THEN Emit(e, lost)
  ELSE OnFiles(Emit(e, F(e.fs[<<e.cwd, Head(files)>>])), F, Tail(files), lost)
Filter(e, F(_), files, lost) ==
  IF files = <<>> THEN [Emit(e, F(e.in)) EXCEPT !.in = <<>>] ELSE OnFiles(e, F, files, lost)

RECURSIVE Mean(_, _)
Mean(cmd, e) ==
  CASE cmd.type = "EXEC" ->
         LET a == cmd.argv
             name == IF a = <<>> THEN "" ELSE a[1]
         IN  CASE name = "echo" -> Emit(e, Echo(a))
               [] name = "cat" -> Filter(e, LAMBDA t : t, Tail(a), <<>>)
               [] name = "wc" -> Filter(e, Wc, Tail(a), <<63, NL>>)
               [] name = "grep" /\ Len(a) > 1 ->
                    Filter(e, LAMBDA t : Grep(Spelling[a[2]], t), SubSeq(a, 3, Len(a)), <<63, NL>>)
               [] OTHER -> e
    [] cmd.type = "REDIR" ->
         LET ip == <<e.cwd, cmd.file>>
             there == ip \in DOMAIN e.fs
             f == IF there /\ cmd.mode = "a" THEN e.fs ELSE (ip :> <<>>) @@ e.fs
             w == Mean(cmd.cmd, [e EXCEPT !.fs = f, !.dst = ip, !.off = 0])
         IN  IF cmd.mode = "r"
             THEN IF there THEN [Mean(cmd.cmd, [e EXCEPT !.in = e.fs[ip]]) EXCEPT !.in = e.in] ELSE e
             ELSE [w EXCEPT !.dst = e.dst, !.off = e.off]
    [] cmd.type = "LIST" -> Mean(cmd.right, Mean(cmd.left, e))
    [] cmd.type = "PIPE" ->
         LET l == Mean(cmd.left, [e EXCEPT !.dst = PIPED, !.piped = <<>>])
             r == Mean(cmd.right, [l EXCEPT !.in = l.piped, !.dst = e.dst, !.off = e.off,
                                            !.piped = e.piped])
         IN  [r EXCEPT !.in = l.in]

RECURSIVE Backed(_)
Backed(cmd) == CASE cmd.type = "EXEC" -> FALSE
                 [] cmd.type = "BACK" -> TRUE
                 [] cmd.type = "REDIR" -> Backed(cmd.cmd)
                 [] OTHER -> Backed(cmd.left) \/ Backed(cmd.right)

RECURSIVE Session(_, _)
Session(e, lns) ==
  LET did(l) == IF at(l, 1) = "cd" /\ Len(l) > 1
                THEN IF Len(l) = 2 /\ l[2] \in Dirs THEN [e EXCEPT !.cwd = l[2]] ELSE e
                ELSE IF Line(l) = {} THEN e ELSE Mean(CHOOSE c \in Line(l) : TRUE, e)
  IN  IF lns = <<>> THEN e ELSE Session(did(Head(lns)), Tail(lns))
Sequential == \A i \in DOMAIN script : \A c \in Line(script[i]) : ~Backed(c)
Expected == Session([fs |-> Disk, console |-> <<>>, in |-> <<>>, dst |-> CONSOLE, off |-> 0,
                     piped |-> <<>>, cwd |-> "/"], script)

-----------------------------------------------------------------------------
TypeOK ==
  /\ \A p \in Proc : /\ s.proc[p].state \in {"unused", "runnable", "sleeping", "zombie"}
                     /\ s.proc[p].ofile \in [Fd -> File \cup {0}]
                     /\ s.proc[p].killed \in 0 .. 2
  /\ \A pg \in Page : s.pipe[pg].nread \in 0 .. UINT - 1 /\ s.pipe[pg].nwrite \in 0 .. UINT - 1
  /\ kills \in 0 .. 1 /\ short \in BOOLEAN

(* Reference counts (file.c): a file is referred to by exactly ref         *)
(* descriptors, and a pipe has an end open exactly while some file stands  *)
(* for it; so the last close and only that gives the reader its end of     *)
(* file and frees the page.                                                *)
EndsCounted ==
  /\ \A f \in File : s.file[f].ref = Cardinality({x \in Proc \X Fd : s.proc[x[1]].ofile[x[2]] = f})
  /\ \A pg \in Page :
       LET end(w) == {f \in File : s.file[f].type = "pipe" /\ s.file[f].pipe = pg
                                   /\ s.file[f].writable = w}
       IN  /\ s.pipe[pg].readopen <=> end(FALSE) # {}
           /\ s.pipe[pg].writeopen <=> end(TRUE) # {}
           /\ s.pipe[pg].live <=> end(TRUE) \cup end(FALSE) # {}

(* No lost wakeup: whoever sleeps on a pipe or in wait has nothing to do   *)
(* yet, whatever close, exit, read and write did since it looked.          *)
SleepersWait ==
  \A p \in Proc : s.proc[p].state = "sleeping" =>
    LET c == s.proc[p].chan
    IN  CASE c[2] = "nread" -> empty(s.pipe[c[1]]) /\ s.pipe[c[1]].writeopen
          [] c[2] = "nwrite" -> full(s.pipe[c[1]]) /\ s.pipe[c[1]].readopen
          [] c[2] = "wait" -> Kids(s, p) # {} /\ Zombies(s, p) = {}

(* Between two steps the files and the ends of the pipes are counted and   *)
(* nobody sleeps who could go on.                                          *)
PipesSound == TypeOK /\ EndsCounted /\ SleepersWait

(* The parser accepts exactly the grammar, and builds the one derivation   *)
(* there is.                                                               *)
ParsesGrammar ==
  \A p \in Proc : LET x == s.proc[p].todo
                  IN  x # <<>> /\ x[1][1] = "parse" =>
                        Then(parsecmd(x[1][2]), LAMBDA c :
                          Line(x[1][2]) = IF c.bad = "" THEN {c.cmd} ELSE {})

(* What the processes wrote, in whatever order they ran and however the    *)
(* pipes cut their data into pieces, is what the command means.            *)
MeansWhatItSays ==
  Done /\ Sequential /\ ~short /\ script \notin Mortal =>
    Then(Expected, LAMBDA e : /\ SelectSeq(s.console, LAMBDA b : b # 33) = e.console
                              /\ s.fs = e.fs)

(* Every command ends, also when a process in the middle is killed, and    *)
(* the shell with it: no pipeline waits for an end nobody will close.      *)
CommandsEnd == <>Done
=============================================================================
