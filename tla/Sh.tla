--------------------------------- MODULE Sh ---------------------------------
(***************************************************************************)
(* user/sh.c and the programs it runs: the parser as a recursive descent   *)
(* over a line of tokens, runcmd as the list of system calls a process     *)
(* makes, and the loops of echo, cat, grep and wc.                         *)
(*                                                                         *)
(* A line is a sequence of words and symbols; a word holds its place in    *)
(* the line until nulterminate cuts it out.  A parsing function takes the  *)
(* place where it starts and returns the command with the place after it;  *)
(* `bad' is the message of panic.                                          *)
(***************************************************************************)
EXTENDS Pipe

CONSTANTS MAXARGS,
          Spelling,     \* the bytes of a word
          CATBUF, GREPBUF, WCBUF

symbols == {"<", "|", ">", "&", ";", "(", ")", "+"}     \* + is >>
at(line, i) == IF i <= Len(line) THEN line[i] ELSE ""
peek(line, i, toks) == at(line, i) \in toks
(* "a" for a word, the symbol itself, "" at the end of the line.           *)
gettoken(line, i) ==
  IF i > Len(line) THEN "" ELSE IF line[i] \in symbols THEN line[i] ELSE "a"

execcmd(argv) == [type |-> "EXEC", argv |-> argv]
redircmd(cmd, file, mode, fd) ==
  [type |-> "REDIR", cmd |-> cmd, file |-> file, mode |-> mode, fd |-> fd]
pipecmd(left, right) == [type |-> "PIPE", left |-> left, right |-> right]
listcmd(left, right) == [type |-> "LIST", left |-> left, right |-> right]
backcmd(cmd) == [type |-> "BACK", cmd |-> cmd]

parsed(cmd, i) == [cmd |-> cmd, i |-> i, bad |-> ""]
broken(msg) == [cmd |-> execcmd(<<>>), i |-> 1, bad |-> msg]

(* parseredirs wraps a command that is still growing, so a redirection is  *)
(* kept apart until the command is complete: <<file, mode, fd>>.           *)
RECURSIVE parseredirs(_, _)
parseredirs(line, i) ==
  LET rest == parseredirs(line, i + 2)
      one == CASE line[i] = "<" -> <<i + 1, "r", 0>>
               [] line[i] = ">" -> <<i + 1, "w", 1>>
               [] line[i] = "+" -> <<i + 1, "a", 1>>
  IN  IF ~peek(line, i, {"<", ">", "+"}) THEN [redirs |-> <<>>, i |-> i, bad |-> ""]
      ELSE IF gettoken(line, i + 1) # "a"
      THEN [redirs |-> <<>>, i |-> i, bad |-> "missing file for redirection"]
      ELSE [rest EXCEPT !.redirs = <<one>> \o @]

RECURSIVE wrap(_, _)
wrap(cmd, redirs) ==
  IF redirs = <<>> THEN cmd
  ELSE wrap(redircmd(cmd, Head(redirs)[1], Head(redirs)[2], Head(redirs)[3]), Tail(redirs))

(* The loop of parseexec over the arguments.                               *)
RECURSIVE args(_, _, _, _)
args(line, i, argv, redirs) ==
  LET tok == gettoken(line, i)
  IN  IF peek(line, i, {"|", ")", "&", ";"}) \/ tok = ""
      THEN parsed(wrap(execcmd(argv), redirs), i)
      ELSE IF tok # "a" THEN broken("syntax")
      ELSE IF Len(argv) + 1 >= MAXARGS THEN broken("too many args")
      ELSE Then(parseredirs(line, i + 1), LAMBDA d :
             IF d.bad # "" THEN broken(d.bad)
             ELSE args(line, d.i, Append(argv, i), redirs \o d.redirs))

(* Behind c comes the token sep, and another command, ...                  *)
follows(line, c, sep) == c.bad = "" /\ peek(line, c.i, {sep})
(* ... d, and cmd is made of the two.                                      *)
joined(d, cmd) == IF d.bad # "" THEN d ELSE parsed(cmd, d.i)

RECURSIVE parseline(_, _)
parseblock(line, i) ==
  LET closed(c, d) == IF d.bad # "" THEN broken(d.bad) ELSE parsed(wrap(c.cmd, d.redirs), d.i)
  IN  Then(parseline(line, i + 1), LAMBDA c :
        IF c.bad # "" THEN c
        ELSE IF ~peek(line, c.i, {")"}) THEN broken("syntax - missing )")
        ELSE closed(c, parseredirs(line, c.i + 1)))

parseexec(line, i) ==
  IF peek(line, i, {"("}) THEN parseblock(line, i)
  ELSE Then(parseredirs(line, i), LAMBDA d :
         IF d.bad # "" THEN broken(d.bad) ELSE args(line, d.i, <<>>, d.redirs))

RECURSIVE parsepipe(_, _)
parsepipeLeft(line, i) ==
  Then(parseexec(line, i), LAMBDA c :
    IF ~follows(line, c, "|") THEN c
    ELSE Then(parseexec(line, c.i + 1), LAMBDA d : joined(d, pipecmd(c.cmd, d.cmd))))
parsepipe(line, i) ==
  Then(parseexec(line, i), LAMBDA c :
    IF ~follows(line, c, "|") THEN c
    ELSE Then(parsepipe(line, c.i + 1), LAMBDA d : joined(d, pipecmd(c.cmd, d.cmd))))

RECURSIVE amps(_, _)
amps(line, c) ==
  IF c.bad = "" /\ peek(line, c.i, {"&"}) THEN amps(line, parsed(backcmd(c.cmd), c.i + 1)) ELSE c
parseline(line, i) ==
  Then(amps(line, parsepipe(line, i)), LAMBDA c :
    IF ~follows(line, c, ";") THEN c
    ELSE Then(parseline(line, c.i + 1), LAMBDA d : joined(d, listcmd(c.cmd, d.cmd))))

RECURSIVE nulterminate(_, _)
nulterminate(cmd, line) ==
  CASE cmd.type = "EXEC" -> [cmd EXCEPT !.argv = [j \in DOMAIN @ |-> line[@[j]]]]
    [] cmd.type = "REDIR" -> [cmd EXCEPT !.cmd = nulterminate(@, line), !.file = line[@]]
    [] cmd.type = "BACK" -> [cmd EXCEPT !.cmd = nulterminate(@, line)]
    [] cmd.type \in {"PIPE", "LIST"} -> [cmd EXCEPT !.left = nulterminate(@, line),
                                                    !.right = nulterminate(@, line)]

parsecmd(line) ==
  Then(parseline(line, 1), LAMBDA c :
    IF c.bad # "" THEN c
    ELSE IF c.i <= Len(line) THEN broken("syntax")
    ELSE parsed(nulterminate(c.cmd, line), c.i))

-----------------------------------------------------------------------------
(* What a process does next: system calls, and marks such as <<"need">>    *)
(* where its own code looks at what the last call returned.                *)
P0 == -10       \* stands for the descriptor in p[0]
P1 == -11
NL == 10
SP == 32
W(fd, bytes) == <<"write", fd, bytes, Len(bytes)>>
Exit(status) == <<"exit", status>>
Complain(fd) == W(fd, IF fd = 2 THEN <<33>> ELSE <<63, NL>>)

(* runcmd never returns.                                                   *)
runcmd(cmd) ==
  CASE cmd.type = "EXEC" -> IF cmd.argv = <<>> THEN <<Exit(1)>>
                            ELSE <<<<"exec", cmd.argv>>, Complain(2), Exit(0)>>
    [] cmd.type = "REDIR" -> <<<<"close", cmd.fd>>, <<"open", cmd.file, cmd.mode>>, <<"need">>,
                               <<"run", cmd.cmd>>>>
    [] cmd.type = "LIST" -> <<<<"fork", <<<<"run", cmd.left>>>>>>, <<"need">>, <<"wait">>,
                              <<"run", cmd.right>>>>
    [] cmd.type = "PIPE" ->
         <<<<"pipe">>, <<"need">>,
           <<"fork", <<<<"close", 1>>, <<"dup", P1>>, <<"close", P0>>, <<"close", P1>>,
                       <<"run", cmd.left>>>>>>, <<"need">>,
           <<"fork", <<<<"close", 0>>, <<"dup", P0>>, <<"close", P0>>, <<"close", P1>>,
                       <<"run", cmd.right>>>>>>, <<"need">>,
           <<"close", P0>>, <<"close", P1>>, <<"wait">>, <<"wait">>, Exit(0)>>
    [] cmd.type = "BACK" -> <<<<"fork", <<<<"run", cmd.cmd>>>>>>, <<"need">>, Exit(0)>>

(* One line of main's loop; cd is done by the shell itself.                *)
command(line) ==
  IF at(line, 1) = "cd" /\ Len(line) > 1
  THEN <<<<"chdir", IF Len(line) = 2 THEN line[2] ELSE "?">>, <<"cd">>>>
  ELSE <<<<"fork", <<<<"parse", line>>>>>>, <<"need">>, <<"wait">>>>
main(lines) == <<<<"open", "console", "rw">>, <<"tty">>>> \o FlattenSeq([j \in DOMAIN lines |-> command(lines[j])])
               \o <<Exit(0)>>

-----------------------------------------------------------------------------
(* grep.                                                                   *)
STAR == 42
DOT == 46
HAT == 94
DOLLAR == 36

RECURSIVE matchhere(_, _)
RECURSIVE matchstar(_, _, _)
matchhere(re, text) ==
  IF re = <<>> THEN TRUE
  ELSE IF Len(re) > 1 /\ re[2] = STAR THEN matchstar(re[1], SubSeq(re, 3, Len(re)), text)
  ELSE IF re = <<DOLLAR>> THEN text = <<>>
  ELSE text # <<>> /\ (re[1] = DOT \/ re[1] = text[1]) /\ matchhere(Tail(re), Tail(text))
matchstar(c, re, text) ==
  \/ matchhere(re, text)
  \/ text # <<>> /\ (text[1] = c \/ c = DOT) /\ matchstar(c, re, Tail(text))

match(re, text) ==
  IF re # <<>> /\ re[1] = HAT THEN matchhere(Tail(re), text)
  ELSE \E i \in 1 .. Len(text) + 1 : matchhere(re, SubSeq(text, i, Len(text)))

(* The complete lines of m that match, and what is left over.              *)
RECURSIVE lines(_, _, _)
lines(re, m, out) ==
  LET ends == {i \in DOMAIN m : m[i] = NL}
      q == Min(ends)
  IN  IF ends = {} THEN [out |-> out, left |-> m]
      ELSE lines(re, SubSeq(m, q + 1, Len(m)),
                 IF match(re, SubSeq(m, 1, q - 1)) THEN Append(out, W(1, SubSeq(m, 1, q))) ELSE out)

first == [grep |-> GREPBUF - 1, cat |-> CATBUF, wc |-> WCBUF]
reads(prog, fd, n, arg) == <<<<"read", fd, n>>, <<prog, fd, arg>>>>

(* The body of the loop of grep, cat and wc after read has returned.       *)
grep(pr, fd, re) ==
  LET g == lines(re, pr.mem \o pr.buf, <<>>)
  IN  IF pr.r <= 0 THEN [pr EXCEPT !.mem = <<>>]
      ELSE [pr EXCEPT !.mem = g.left,
                      !.todo = g.out \o reads("grep", fd, GREPBUF - Len(g.left) - 1, re) \o @]

catForever(pr, fd) ==
  IF pr.r < 0 THEN [pr EXCEPT !.todo = <<Complain(2), Exit(1)>>]
  ELSE [pr EXCEPT !.todo = <<W(1, pr.buf), <<"wrote", pr.r>>>> \o reads("cat", fd, CATBUF, <<>>) \o @]
cat(pr, fd) ==
  IF pr.r < 0 THEN [pr EXCEPT !.todo = <<Complain(2), Exit(1)>>]
  ELSE IF pr.r = 0 THEN pr
  ELSE [pr EXCEPT !.todo = <<W(1, pr.buf), <<"wrote", pr.r>>>> \o reads("cat", fd, CATBUF, <<>>) \o @]

blank(b) == b \in {SP, NL}
vowel(b) == b \in {97, 101, 105, 111, 117}
one(test) == IF test THEN 1 ELSE 0
(* mem is <<lines, words, characters, vowels, whether in a word>>.         *)
RECURSIVE count(_, _)
count(c, bytes) ==
  LET b == Head(bytes)
  IN  IF bytes = <<>> THEN c
      ELSE count(<<c[1] + one(b = NL), c[2] + one(~blank(b) /\ c[5] = 0), c[3] + 1,
                   c[4] + one(vowel(b)), one(~blank(b))>>, Tail(bytes))
digit(n) == 48 + n
wc(pr, fd) ==
  LET sum == IF pr.mem = <<>> THEN <<0, 0, 0, 0, 0>> ELSE pr.mem IN
  IF pr.r < 0 THEN [pr EXCEPT !.todo = <<Complain(1), Exit(1)>>]
  ELSE IF pr.r = 0
  THEN [pr EXCEPT !.todo = <<W(1, <<digit(sum[1]), digit(sum[2])>>),
                             W(1, <<digit(sum[3]), digit(sum[4]), NL>>)>> \o @, !.mem = <<>>]
  ELSE [pr EXCEPT !.mem = count(sum, pr.buf), !.todo = reads("wc", fd, WCBUF, <<>>) \o @]

echo(argv) == FlattenSeq([j \in 1 .. Len(argv) - 1 |->
                 <<W(1, Spelling[argv[j + 1]]), W(1, <<IF j + 1 < Len(argv) THEN SP ELSE NL>>)>>])
              \o <<Exit(0)>>

(* Each file in turn, or standard input (descriptor 0).                    *)
eachfile(prog, files, arg) ==
  (IF files = <<>> THEN reads(prog, 0, first[prog], arg)
   ELSE FlattenSeq([j \in DOMAIN files |-> <<<<"open", files[j], "r">>, <<"with", prog, arg>>>>]))
  \o <<Exit(0)>>

(* usertests' pipe1: the child writes, the parent reads more each time and *)
(* checks; mem is <<the next byte, how much to read>>.                     *)
pipe1 ==
  <<<<"pipe">>, <<"need">>,
    <<"fork", <<<<"close", P0>>, W(P1, <<1, 2, 3>>), <<"wrote", 3>>, W(P1, <<4, 5, 6>>),
                <<"wrote", 3>>, Exit(0)>>>>, <<"need">>, <<"close", P1>>>>
  \o reads("pipe1", P0, 1, <<>>) \o <<<<"close", P0>>, <<"wait">>, Exit(0)>>
pipe1read(pr) ==
  LET next == IF pr.mem = <<>> THEN <<1, 1>> ELSE pr.mem
  IN  IF pr.r <= 0 THEN IF next[1] = 7 THEN pr ELSE [pr EXCEPT !.todo = <<Complain(1), Exit(1)>>]
      ELSE IF \E j \in DOMAIN pr.buf : pr.buf[j] # next[1] + j - 1
      THEN [pr EXCEPT !.todo = <<Complain(1), Exit(1)>>]
      ELSE LET cc == Min({2 * next[2], 4})
           IN  [pr EXCEPT !.mem = <<next[1] + pr.r, cc>>, !.todo = reads("pipe1", P0, cc, <<>>) \o @]

Programs == {"echo", "cat", "grep", "wc", "pipe1"}
program(argv) ==
  CASE argv[1] = "echo" -> echo(argv)
    [] argv[1] = "cat" -> eachfile("cat", Tail(argv), <<>>)
    [] argv[1] = "wc" -> eachfile("wc", Tail(argv), <<>>)
    [] argv[1] = "grep" -> IF Len(argv) = 1 THEN <<Complain(2), Exit(1)>>
                           ELSE eachfile("grep", SubSeq(argv, 3, Len(argv)), Spelling[argv[2]])
    [] argv[1] = "pipe1" -> pipe1

(* The process's own code, up to its next system call.                     *)
RECURSIVE settle(_)
settle(pr) ==
  LET x == Head(pr.todo)
      rest == [pr EXCEPT !.todo = Tail(@)]
      do(ops) == [rest EXCEPT !.todo = ops \o @]
      fails(fd) == [pr EXCEPT !.todo = <<Complain(fd), Exit(1)>>]
  IN  CASE x[1] = "run" -> settle([pr EXCEPT !.todo = runcmd(x[2])])
        [] x[1] = "parse" -> Then(parsecmd(x[2]), LAMBDA c :
                               IF c.bad # "" THEN fails(2)
                               ELSE settle([pr EXCEPT !.todo = runcmd(c.cmd)]))
        [] x[1] = "need" -> IF pr.r < 0 THEN fails(2) ELSE settle(rest)
        [] x[1] = "wrote" -> IF pr.r # x[2] THEN fails(2) ELSE settle(rest)
        [] x[1] = "cd" -> IF pr.r < 0 THEN do(<<Complain(2)>>) ELSE settle(rest)
        [] x[1] = "tty" -> IF pr.r >= 3 THEN do(<<<<"close", pr.r>>>>)
                           ELSE IF pr.r >= 0 THEN do(<<<<"open", "console", "rw">>, x>>)
                           ELSE settle(rest)
        [] x[1] = "with" -> IF pr.r < 0 THEN fails(IF x[2] = "cat" THEN 2 ELSE 1)
                            ELSE do(reads(x[2], pr.r, first[x[2]], x[3]) \o <<<<"close", pr.r>>>>)
        [] x[1] = "grep" -> settle(grep(rest, x[2], x[3]))
        [] x[1] = "cat" -> settle(cat(rest, x[2]))
        [] x[1] = "wc" -> settle(wc(rest, x[2]))
        [] x[1] = "pipe1" -> settle(pipe1read(rest))
        [] OTHER -> [pr EXCEPT !.r = 0, !.buf = <<>>]
=============================================================================
