----------------------------- MODULE UserTests -----------------------------
(***************************************************************************)
(* The file system tests of user/usertests.c, and small user programs, as  *)
(* scripts of system calls run on FileSystem.  A script says what every    *)
(* call must return; a test that forks has one script per process, and the *)
(* scripts interleave freely.  Sizes and repetitions are scaled to the     *)
(* geometry of the instance, and branches that report a failure are the    *)
(* results the script demands.                                             *)
(***************************************************************************)
EXTENDS FileSystem

CONSTANTS Image,        \* the files mkfs puts into the image
          Tests,        \* the tests to run, each with a script per process
          MaxCalls,     \* bound on the calls made at will
          FullImage     \* the files of an image that is almost full

VARIABLES test, pc, passed,
          todo          \* the files mkfs has not written yet

m == "m"     \* the process that runs the test
c == "c"     \* its children
d == "d"

(* A step of a script: the call, what it may return and what it reads.     *)
Good == 0 .. 99
Bad == {-1}
AnyRet == -1 .. 99
step(call, want) == <<[call |-> call, want |-> want, out |-> <<>>, cmp |-> "none"]>>
open(path, mode, want) == step(<<"open", path, mode>>, want)
close(fd) == step(<<"close", fd>>, AnyRet)
dup(fd, want) == step(<<"dup", fd>>, {want})
write(fd, src, want) == step(<<"write", fd, src>>, want)
expect(fd, n, out, cmp) ==
  <<[call |-> <<"read", fd, n, n>>, want |-> {Len(out)}, out |-> out, cmp |-> cmp]>>
read(fd, n, out) == expect(fd, n, out, "same")
tally(fd, n, out) == expect(fd, n, out, "bag")
list(fd, names) == <<[call |-> <<"read", fd, 32, 32>>, want |-> Good, out |-> names, cmp |-> "list"]>>
try_read(fd, n, room) == step(<<"read", fd, n, room>>, AnyRet)
fstat(fd, want) == step(<<"fstat", fd, TRUE>>, want)
link(old, new, want) == step(<<"link", old, new>>, want)
unlink(path, want) == step(<<"unlink", path>>, want)
mkdir(path, want) == step(<<"mkdir", path>>, want)
mknod(path, major, want) == step(<<"mknod", path, major>>, want)
chdir(path, want) == step(<<"chdir", path>>, want)
run(path, want) == step(<<"exec", path>>, want)
spawn(q) == step(<<"fork", q>>, Good)
await(q) == step(<<"wait", q>>, Good)
leave == step(<<"exit">>, Good)

RDONLY == {}
WRONLY == {"WRONLY"}
RDWR == {"RDWR"}
CREATE == {"CREATE"}
CRW == {"CREATE", "RDWR"}
TRUNC == {"TRUNC"}

Cat(ss) == FlattenSeq(ss)
Solo(q) == [m |-> q, c |-> <<>>, d |-> <<>>]
Rep(v, n) == [k \in 1 .. n |-> [n |-> v, i |-> 0]]
Repeat(q, n) == Cat([k \in 1 .. n |-> q])
Digits == <<"0", "1", "2", "3", "4", "5", "6", "7", "8", "9", "a", "b", "c", "d", "e">>
Over(n, Body(_)) == Cat([k \in 1 .. n |-> Body(Digits[k])])

-----------------------------------------------------------------------------
(* user/init.c up to the shell: the console on descriptors 0, 1 and 2.     *)
init == Solo(open(<<"console">>, RDWR, Bad) \o mknod(<<"console">>, CONSOLE, {0})
             \o open(<<"console">>, RDWR, {0}) \o dup(0, 1) \o dup(0, 2))

truncate1 ==
  Solo(unlink(<<"t">>, AnyRet) \o open(<<"t">>, CREATE \cup WRONLY \cup TRUNC, {3})
       \o write(3, Rep("a", 4), {4}) \o close(3)
       \o open(<<"t">>, RDONLY, {3}) \o read(3, 32, Rep("a", 4))
       \o open(<<"t">>, WRONLY \cup TRUNC, {4}) \o open(<<"t">>, RDONLY, {5})
       \o read(5, 32, <<>>) \o read(3, 32, <<>>)
       \o write(4, Rep("b", 6), {6}) \o read(5, 32, Rep("b", 6)) \o read(3, 32, Rep("b", 2))
       \o unlink(<<"t">>, AnyRet) \o close(4) \o close(3) \o close(5))

(* A write beyond the end of a truncated file fails.                       *)
truncate2 ==
  Solo(unlink(<<"t">>, AnyRet) \o open(<<"t">>, CREATE \cup TRUNC \cup WRONLY, {3})
       \o write(3, Rep("a", 4), {4}) \o open(<<"t">>, TRUNC \cup WRONLY, {4})
       \o write(3, Rep("x", 1), Bad) \o unlink(<<"t">>, AnyRet) \o close(3) \o close(4))

truncate3 ==
  LET reader == open(<<"t">>, WRONLY, Good) \o write(3, Rep("0", 5), {5}) \o close(3)
                \o open(<<"t">>, RDONLY, Good) \o try_read(3, 32, 32) \o close(3)
      writer == open(<<"t">>, CREATE \cup WRONLY \cup TRUNC, Good)
                \o write(3, Rep("x", 3), {3}) \o close(3)
  IN  [m |-> open(<<"t">>, CREATE \cup TRUNC \cup WRONLY, {3}) \o close(3) \o spawn(c)
             \o Repeat(writer, 3) \o await(c) \o unlink(<<"t">>, {0}),
       c |-> Repeat(reader, 2) \o leave, d |-> <<>>]

(* chdir and exit put the last reference of a removed directory.           *)
iputtest ==
  Solo(mkdir(<<"iputdir">>, {0}) \o chdir(<<"iputdir">>, {0})
       \o unlink(<<"..", "iputdir">>, {0}) \o chdir(<<"/">>, {0}))

exitiputtest ==
  [m |-> spawn(c) \o await(c), d |-> <<>>,
   c |-> mkdir(<<"iputdir">>, {0}) \o chdir(<<"iputdir">>, {0})
         \o unlink(<<"..", "iputdir">>, {0}) \o leave]

openiputtest ==
  [m |-> mkdir(<<"oidir">>, {0}) \o spawn(c) \o unlink(<<"oidir">>, {0}) \o await(c),
   c |-> open(<<"oidir">>, RDWR, Bad) \o leave, d |-> <<>>]

opentest ==
  Solo(open(<<"echo">>, RDONLY, {3}) \o close(3) \o open(<<"doesnotexist">>, RDONLY, Bad))

writetest ==
  LET both == write(3, Rep("a", 3), {3}) \o write(3, Rep("b", 3), {3})
  IN  Solo(open(<<"small">>, CRW, {3}) \o Repeat(both, 3) \o close(3)
           \o open(<<"small">>, RDONLY, {3})
           \o read(3, 18, Repeat(Rep("a", 3) \o Rep("b", 3), 3)) \o close(3)
           \o unlink(<<"small">>, {0}))

writebig ==
  Solo(open(<<"big">>, CRW, {3})
       \o Over(MAXFILE, LAMBDA x : write(3, Rep(x, BSIZE), {BSIZE})) \o close(3)
       \o open(<<"big">>, RDONLY, {3})
       \o Over(MAXFILE, LAMBDA x : read(3, BSIZE, Rep(x, BSIZE))) \o read(3, BSIZE, <<>>)
       \o close(3) \o unlink(<<"big">>, {0}))

createtest ==
  Solo(Over(5, LAMBDA x : open(<<"a" \o x>>, CRW, {3}) \o close(3))
       \o Over(5, LAMBDA x : unlink(<<"a" \o x>>, {0})))

dirtest ==
  Solo(mkdir(<<"dir0">>, {0}) \o chdir(<<"dir0">>, {0}) \o chdir(<<"..">>, {0})
       \o unlink(<<"dir0">>, {0}))

(* The child's descriptor 1 is the file when user/echo.c writes to it.     *)
exectest ==
  [m |-> unlink(<<"echo-ok">>, AnyRet) \o spawn(c) \o await(c)
         \o open(<<"echo-ok">>, RDONLY, {3}) \o read(3, 2, Rep("O", 1) \o Rep("K", 1))
         \o unlink(<<"echo-ok">>, AnyRet),
   c |-> close(1) \o open(<<"echo-ok">>, CREATE \cup WRONLY, {1}) \o run(<<"echo">>, Good)
         \o write(1, Rep("O", 1) \o Rep("K", 1), {2}) \o leave, d |-> <<>>]

-----------------------------------------------------------------------------
(* Two processes write through one descriptor: the offset is shared.       *)
sharedfd ==
  LET put(v) == Repeat(write(3, Rep(v, 2), {2}), 3)
  IN  [m |-> unlink(<<"sharedfd">>, AnyRet) \o open(<<"sharedfd">>, CRW, {3}) \o spawn(c)
             \o put("p") \o await(c) \o close(3) \o open(<<"sharedfd">>, RDONLY, {3})
             \o tally(3, 32, Rep("c", 6) \o Rep("p", 6)) \o close(3) \o unlink(<<"sharedfd">>, {0}),
       c |-> put("c") \o leave, d |-> <<>>]

fourfiles ==
  LET put(f, v) == open(<<f>>, CRW, {3}) \o Repeat(write(3, Rep(v, 3), {3}), 2) \o leave
      check(f, v) == open(<<f>>, RDONLY, {3}) \o read(3, 32, Rep(v, 6)) \o close(3)
                     \o unlink(<<f>>, {0})
  IN  [m |-> unlink(<<"f0">>, AnyRet) \o spawn(c) \o unlink(<<"f1">>, AnyRet) \o spawn(d)
             \o await(c) \o await(d) \o check("f0", "0") \o check("f1", "1"),
       c |-> put("f0", "0"), d |-> put("f1", "1")]

(* Each child makes N files and removes half of them again.                *)
createdelete ==
  LET make(v, i) == open(<<v \o i>>, CRW, {3}) \o close(3)
      work(v) == make(v, "0") \o make(v, "1") \o make(v, "2") \o unlink(<<v \o "1">>, {0})
                 \o make(v, "3") \o leave
      check(v) == open(<<v \o "0">>, RDONLY, {3}) \o close(3)
                  \o open(<<v \o "1">>, RDONLY, Bad)
                  \o open(<<v \o "2">>, RDONLY, {3}) \o close(3)
                  \o open(<<v \o "3">>, RDONLY, {3}) \o close(3)
      clean(v) == Cat([k \in 1 .. 4 |-> unlink(<<v \o Digits[k]>>, AnyRet)])
  IN  [m |-> spawn(c) \o spawn(d) \o await(c) \o await(d) \o check("p") \o check("q")
             \o clean("p") \o clean("q"),
       c |-> work("p"), d |-> work("q")]

(* A file lives on under its descriptor when its name is gone.             *)
unlinkread ==
  Solo(open(<<"u">>, CRW, {3}) \o write(3, Rep("h", 5), {5}) \o close(3)
       \o open(<<"u">>, RDWR, {3}) \o unlink(<<"u">>, {0})
       \o open(<<"u">>, CRW, {4}) \o write(4, Rep("y", 3), {3}) \o close(4)
       \o read(3, 32, Rep("h", 5)) \o write(3, Rep("h", 10), {10}) \o close(3)
       \o unlink(<<"u">>, AnyRet))

linktest ==
  Solo(unlink(<<"lf1">>, AnyRet) \o unlink(<<"lf2">>, AnyRet)
       \o open(<<"lf1">>, CRW, {3}) \o write(3, Rep("h", 5), {5}) \o close(3)
       \o link(<<"lf1">>, <<"lf2">>, {0}) \o unlink(<<"lf1">>, AnyRet)
       \o open(<<"lf1">>, RDONLY, Bad) \o open(<<"lf2">>, RDONLY, {3})
       \o read(3, 32, Rep("h", 5)) \o close(3) \o link(<<"lf2">>, <<"lf2">>, Bad)
       \o unlink(<<"lf2">>, AnyRet) \o link(<<"lf2">>, <<"lf1">>, Bad)
       \o link(<<".">>, <<"lf1">>, Bad))

(* Parent and child create or link the same name at the same time; then    *)
(* one opens what the other unlinks.                                       *)
concreate ==
  LET make(f) == open(<<f>>, CRW, Good) \o close(3)
      join(f) == link(<<"C0">>, <<f>>, AnyRet)
      look(f) == Repeat(open(<<f>>, RDONLY, AnyRet) \o close(3), 2)
      drop(f) == Repeat(unlink(<<f>>, AnyRet), 2)
  IN  [m |-> unlink(<<"C0">>, AnyRet) \o make("C0") \o spawn(c) \o join("C1") \o make("C2")
             \o await(c) \o open(<<".">>, RDONLY, {3}) \o list(3, <<"C0", "C1", "C2">>)
             \o close(3) \o spawn(d) \o drop("C0") \o look("C1") \o drop("C2") \o await(d)
             \o drop("C1"),
       c |-> make("C0") \o join("C1") \o make("C2") \o leave,
       d |-> look("C0") \o drop("C1") \o look("C2") \o leave]

linkunlink ==
  LET make == open(<<"x">>, CRW, AnyRet) \o close(3)
      join == link(<<"cat">>, <<"x">>, AnyRet)
      drop == unlink(<<"x">>, AnyRet)
  IN  [m |-> unlink(<<"x">>, AnyRet) \o spawn(c) \o make \o drop \o join \o make
             \o make \o drop \o await(c),
       c |-> make \o join \o join \o make \o join \o make \o leave, d |-> <<>>]

subdir1 ==
  unlink(<<"ff">>, AnyRet) \o mkdir(<<"dd">>, {0})
  \o open(<<"dd", "ff">>, CRW, {3}) \o write(3, Rep("f", 2), {2}) \o close(3)
  \o unlink(<<"dd">>, Bad) \o mkdir(<<"/", "dd", "dd">>, {0})
  \o open(<<"dd", "dd", "ff">>, CRW, {3}) \o write(3, Rep("F", 2), {2}) \o close(3)
  \o open(<<"dd", "dd", "..", "ff">>, RDONLY, {3}) \o read(3, 32, Rep("f", 2)) \o close(3)
  \o link(<<"dd", "dd", "ff">>, <<"dd", "dd", "ffff">>, {0})
  \o unlink(<<"dd", "dd", "ff">>, {0}) \o open(<<"dd", "dd", "ff">>, RDONLY, Bad)
  \o chdir(<<"dd">>, {0}) \o chdir(<<"dd", "..", "..", "dd">>, {0})
  \o chdir(<<"dd", "..", "..", "..", "dd">>, {0}) \o chdir(<<".", "..">>, {0})
  \o open(<<"dd", "dd", "ffff">>, RDONLY, {3}) \o read(3, 32, Rep("F", 2)) \o close(3)
  \o open(<<"dd", "dd", "ff">>, RDONLY, Bad)

subdir2 ==
  open(<<"dd", "ff", "ff">>, CRW, Bad) \o open(<<"dd", "xx", "ff">>, CRW, Bad)
  \o open(<<"dd">>, CREATE, Bad) \o open(<<"dd">>, RDWR, Bad) \o open(<<"dd">>, WRONLY, Bad)
  \o link(<<"dd", "ff", "ff">>, <<"dd", "dd", "xx">>, Bad)
  \o link(<<"dd", "xx", "ff">>, <<"dd", "dd", "xx">>, Bad)
  \o link(<<"dd", "ff">>, <<"dd", "dd", "ffff">>, Bad)
  \o mkdir(<<"dd", "ff", "ff">>, Bad) \o mkdir(<<"dd", "xx", "ff">>, Bad)
  \o mkdir(<<"dd", "dd", "ffff">>, Bad) \o unlink(<<"dd", "xx", "ff">>, Bad)
  \o unlink(<<"dd", "ff", "ff">>, Bad) \o chdir(<<"dd", "ff">>, Bad)
  \o chdir(<<"dd", "xx">>, Bad) \o unlink(<<"dd", "dd", "ffff">>, {0})
  \o unlink(<<"dd", "ff">>, {0}) \o unlink(<<"dd">>, Bad)
  \o unlink(<<"dd", "dd">>, {0}) \o unlink(<<"dd">>, {0})

subdir == Solo(subdir1 \o subdir2)

-----------------------------------------------------------------------------
(* Writes larger than the transaction filewrite makes of one piece.        *)
bigwrite ==
  LET put(sz, n) == open(<<"bigwrite">>, CRW, {3})
                    \o Repeat(write(3, Rep("z", sz), {sz}), n) \o close(3)
                    \o unlink(<<"bigwrite">>, {0})
  IN  Solo(unlink(<<"bigwrite">>, AnyRet) \o put(3, 2) \o put(9, 2) \o put(15, 2)
           \o put(MAXFILE * BSIZE, 1))

bigfile ==
  Solo(unlink(<<"bigfile">>, AnyRet) \o open(<<"bigfile">>, CRW, {3})
       \o Over(5, LAMBDA x : write(3, Rep(x, 6), {6})) \o close(3)
       \o open(<<"bigfile">>, RDONLY, {3})
       \o Over(5, LAMBDA x : read(3, 3, Rep(x, 3)) \o read(3, 3, Rep(x, 3)))
       \o read(3, 3, <<>>) \o close(3) \o unlink(<<"bigfile">>, {0}))

(* Names are cut at DIRSIZ characters.                                     *)
fourteen ==
  LET n14 == "12345678901234"
      n15 == "123456789012345"
  IN  Solo(mkdir(<<n14>>, {0}) \o mkdir(<<n14, n15>>, {0})
           \o open(<<n15, n15, n15>>, CREATE, {3}) \o close(3)
           \o open(<<n14, n14, n14>>, RDONLY, {3}) \o close(3)
           \o mkdir(<<n14, n14>>, Bad) \o mkdir(<<n15, n14>>, Bad)
           \o unlink(<<n15, n14>>, AnyRet) \o unlink(<<n14, n14>>, AnyRet)
           \o unlink(<<n14, n14, n14>>, AnyRet) \o unlink(<<n15, n15, n15>>, AnyRet)
           \o unlink(<<n14, n15>>, AnyRet) \o unlink(<<n14>>, AnyRet)
           \o open(<<n14>>, RDONLY, Bad))

rmdot ==
  Solo(mkdir(<<"dots">>, {0}) \o chdir(<<"dots">>, {0}) \o unlink(<<".">>, Bad)
       \o unlink(<<"..">>, Bad) \o chdir(<<"/">>, {0}) \o unlink(<<"dots", ".">>, Bad)
       \o unlink(<<"dots", "..">>, Bad) \o unlink(<<"dots">>, {0}))

dirfile ==
  Solo(open(<<"dirfile">>, CREATE, {3}) \o close(3) \o chdir(<<"dirfile">>, Bad)
       \o open(<<"dirfile", "xx">>, RDONLY, Bad) \o open(<<"dirfile", "xx">>, CREATE, Bad)
       \o mkdir(<<"dirfile", "xx">>, Bad) \o unlink(<<"dirfile", "xx">>, Bad)
       \o link(<<"README">>, <<"dirfile", "xx">>, Bad) \o unlink(<<"dirfile">>, {0})
       \o open(<<".">>, RDWR, Bad) \o open(<<".">>, RDONLY, {3})
       \o write(3, Rep("x", 1), Bad) \o close(3))

(* More nested directories than the inode table has entries, and empty     *)
(* names: namei must put every inode it gets.                              *)
iref ==
  Solo(Repeat(mkdir(<<"irefd">>, {0}) \o chdir(<<"irefd">>, {0}) \o mkdir(<<>>, AnyRet)
              \o link(<<"README">>, <<>>, AnyRet) \o open(<<>>, CREATE, AnyRet) \o close(3)
              \o open(<<"xx">>, CREATE, AnyRet) \o close(3) \o unlink(<<"xx">>, AnyRet),
              NINODE + 1)
       \o Repeat(chdir(<<"..">>, AnyRet) \o unlink(<<"irefd">>, AnyRet), NINODE + 1)
       \o chdir(<<"/">>, {0}))

fsfull ==
  LET fill(f) == open(<<f>>, CRW, AnyRet)
                 \o Repeat(write(3, Rep("z", BSIZE), AnyRet), MAXFILE + 1) \o close(3)
  IN  Solo(fill("f0") \o fill("f1") \o fill("f2")
           \o Over(3, LAMBDA x : unlink(<<"f" \o x>>, AnyRet)))

(* A read into memory that ends before the buffer does.                    *)
argptest ==
  Solo(open(<<"init">>, RDONLY, {3}) \o step(<<"read", 3, 32, 1>>, Bad) \o close(3))

(* A directory that needs its indirect block.                              *)
bigdir ==
  Solo(unlink(<<"bd">>, AnyRet) \o open(<<"bd">>, CREATE, {3}) \o close(3)
       \o Over(15, LAMBDA x : link(<<"bd">>, <<"x" \o x>>, {0})) \o unlink(<<"bd">>, AnyRet)
       \o Over(15, LAMBDA x : unlink(<<"x" \o x>>, {0})))

manywrites ==
  LET once(f) == open(<<f>>, CRW, {3}) \o write(3, Rep("z", 6), {6}) \o close(3)
      work(f, n) == unlink(<<f>>, AnyRet)
                    \o Repeat(Repeat(once(f), n) \o unlink(<<f>>, AnyRet), 2)
                    \o unlink(<<f>>, AnyRet) \o leave
  IN  [m |-> spawn(c) \o spawn(d) \o await(c) \o await(d),
       c |-> work("ba", 1), d |-> work("bb", 2)]

(* A write from an unmapped buffer allocates a block; more such files than *)
(* the disk has blocks leave it as empty as it was.                        *)
badwrite ==
  LET junk(src, want) == open(<<"junk">>, CREATE \cup WRONLY, {3}) \o write(3, src, want)
                         \o close(3) \o unlink(<<"junk">>, AnyRet)
  IN  Solo(unlink(<<"junk">>, AnyRet) \o Repeat(junk(<<Fault>>, Bad), NBLOCK)
           \o junk(Rep("x", 1), {1}))

(* No call panics on a full disk, and a directory that cannot grow refuses *)
(* the new entry.                                                          *)
diskfull ==
  LET big(f) == unlink(<<f>>, AnyRet) \o open(<<f>>, CRW \cup TRUNC, AnyRet)
                \o Repeat(write(3, Rep("z", BSIZE), AnyRet), MAXFILE) \o close(3)
      small(x) == unlink(<<"z" \o x>>, AnyRet)
                  \o open(<<"z" \o x>>, CRW \cup TRUNC, AnyRet) \o close(3)
  IN  Solo(unlink(<<"fulldir">>, AnyRet) \o big("big0") \o big("big1") \o big("big2")
           \o Over(6, small) \o mkdir(<<"fulldir">>, Bad) \o unlink(<<"fulldir">>, AnyRet)
           \o Over(6, LAMBDA x : unlink(<<"z" \o x>>, AnyRet))
           \o Over(3, LAMBDA x : unlink(<<"big" \o x>>, AnyRet)))

outofinodes ==
  LET make(x) == unlink(<<"z" \o x>>, AnyRet)
                 \o open(<<"z" \o x>>, CRW \cup TRUNC, AnyRet) \o close(3)
  IN  Solo(Over(12, make) \o open(<<"zz">>, CREATE, Bad)
           \o Over(12, LAMBDA x : unlink(<<"z" \o x>>, AnyRet)))

-----------------------------------------------------------------------------
(* Small programs.                                                         *)
ln == Solo(link(<<"README">>, <<"r">>, {0}) \o link(<<"nosuch">>, <<"q">>, Bad))
mkdir_c == Solo(mkdir(<<"e">>, {0}) \o mkdir(<<"e">>, Bad))
rm == Solo(unlink(<<"README">>, {0}) \o unlink(<<"README">>, Bad))
echo == Solo(write(1, Rep("hi", 1), {1}) \o write(1, Rep(" ", 1), {1})
             \o write(1, Rep("you", 1), {1}) \o write(1, Rep("\n", 1), {1}))
cat == Solo(open(<<"README">>, RDONLY, {3})
            \o read(3, 3, Rep("R", 3)) \o write(1, Rep("R", 3), {3})
            \o read(3, 3, Rep("R", 2)) \o write(1, Rep("R", 2), {2}) \o read(3, 3, <<>>)
            \o close(3) \o open(<<"nosuch">>, RDONLY, Bad))
ls == LET stat(f) == open(<<".", f>>, RDONLY, {4}) \o fstat(4, {0}) \o close(4)
      IN  Solo(open(<<".">>, RDONLY, {3}) \o fstat(3, {0})
               \o list(3, <<".", "..", "README", "echo">>)
               \o stat(".") \o stat("..") \o stat("README") \o stat("echo") \o close(3)
               \o open(<<"nosuch">>, RDONLY, Bad))
stressfs ==
  LET work(f) == open(<<f>>, CRW, {3}) \o Repeat(write(3, Rep("a", 2), {2}), 2) \o close(3)
                 \o open(<<f>>, RDONLY, {3}) \o Repeat(read(3, 2, Rep("a", 2)), 2) \o close(3)
  IN  [m |-> spawn(c) \o work("stressfs0") \o await(c), c |-> work("stressfs1") \o leave,
       d |-> <<>>]

-----------------------------------------------------------------------------
Suite ==
  [init |-> init, truncate1 |-> truncate1, truncate2 |-> truncate2, truncate3 |-> truncate3,
   iputtest |-> iputtest, exitiputtest |-> exitiputtest, openiputtest |-> openiputtest,
   opentest |-> opentest, writetest |-> writetest, writebig |-> writebig,
   createtest |-> createtest, dirtest |-> dirtest, exectest |-> exectest,
   sharedfd |-> sharedfd, fourfiles |-> fourfiles, createdelete |-> createdelete,
   unlinkread |-> unlinkread, linktest |-> linktest, concreate |-> concreate,
   linkunlink |-> linkunlink, subdir |-> subdir, bigwrite |-> bigwrite, bigfile |-> bigfile,
   fourteen |-> fourteen, rmdot |-> rmdot, dirfile |-> dirfile, iref |-> iref,
   fsfull |-> fsfull, argptest |-> argptest, bigdir |-> bigdir, manywrites |-> manywrites,
   badwrite |-> badwrite, diskfull |-> diskfull, outofinodes |-> outofinodes,
   ln |-> ln, mkdir |-> mkdir_c, rm |-> rm, echo |-> echo, cat |-> cat, ls |-> ls,
   stressfs |-> stressfs]

(* Every test starts from the image of mkfs and the descriptors of init.   *)
Script(p) == IF p = m /\ test \notin {"init", "free"} THEN Tests.init.m \o Tests[test].m
             ELSE Tests[test][p]

uvars == <<fs, lost, test, pc, passed, todo>>

Init == /\ fs = Blank /\ lost = {} /\ passed = TRUE /\ pc = [p \in Proc |-> 0]
        /\ \/ test \in DOMAIN Tests /\ todo = Image
           \/ test = "free" /\ todo = FullImage

Mkfs ==
  /\ pc[m] = 0
  /\ \/ /\ fs.used = {}
        /\ fs' = mkfs_root(fs)
        /\ UNCHANGED <<todo, pc>>
     \/ /\ fs.used # {} /\ todo # <<>>
        /\ fs' = mkfs_file(fs, Head(todo))
        /\ todo' = Tail(todo)
        /\ UNCHANGED pc
     \/ /\ fs.used # {} /\ todo = <<>>
        /\ fs' = userinit(mkfs_end(fs), m)
        /\ pc' = [p \in Proc |-> 1]
        /\ UNCHANGED todo
  /\ UNCHANGED <<lost, test, passed>>

Count(q, v) == Cardinality({k \in DOMAIN q : q[k].n = v /\ q[k].i # 0})
Matches(x, t) ==
  /\ t.r \in x.want
  /\ CASE x.cmp = "same" -> t.out = x.out
       [] x.cmp = "bag" -> SortSeq(t.out, LAMBDA a, b : a.n = "c" /\ b.n = "p") = x.out
       [] x.cmp = "list" -> \A k \in DOMAIN x.out : Count(t.out, x.out[k]) = 1
       [] OTHER -> TRUE

(* What the process may call next: anything, MaxCalls times, or the step   *)
(* of its script.                                                          *)
Todo(p) ==
  IF test = "free"
  THEN {[call |-> x, want |-> AnyRet, out |-> <<>>, cmp |-> "none"] :
          x \in IF pc[m] \in 1 .. MaxCalls THEN Calls(p) ELSE {}}
  ELSE {Script(p)[k] : k \in {pc[p]} \cap 1 .. Len(Script(p))}

Advance(p) == pc' = [pc EXCEPT ![IF test = "free" THEN m ELSE p] = @ + 1]

(* The call x of process p leaves the state t.                             *)
Return(p, x, t) == Call(p, t) /\ passed' = (passed /\ Matches(x, t))

(* syscall: the table of kernel/syscall.c.                                 *)
syscall(p, x) ==
  LET n == x.call[1]
      arg == Tail(x.call)
  IN  \/ n = "open" /\ Return(p, x, sys_open(fs, p, arg[1], arg[2]))
      \/ n = "close" /\ Return(p, x, sys_close(fs, p, arg[1]))
      \/ n = "dup" /\ Return(p, x, sys_dup(fs, p, arg[1]))
      \/ n = "write" /\ Return(p, x, sys_write(fs, p, arg[1], arg[2]))
      \/ n = "read" /\ Return(p, x, sys_read(fs, p, arg[1], arg[2], arg[3]))
      \/ n = "fstat" /\ Return(p, x, sys_fstat(fs, p, arg[1], arg[2]))
      \/ n = "link" /\ Return(p, x, sys_link(fs, p, arg[1], arg[2]))
      \/ n = "unlink" /\ Return(p, x, sys_unlink(fs, p, arg[1]))
      \/ n = "mkdir" /\ Return(p, x, sys_mkdir(fs, p, arg[1]))
      \/ n = "mknod" /\ Return(p, x, sys_mknod(fs, p, arg[1], arg[2]))
      \/ n = "chdir" /\ Return(p, x, sys_chdir(fs, p, arg[1]))
      \/ n = "exec" /\ Return(p, x, exec(fs, p, arg[1]))
      \/ n = "fork" /\ Return(p, x, fork(fs, p, arg[1]))
      \/ n = "exit" /\ Return(p, x, exit(fs, p))
      \/ n = "wait" /\ fs.cwd[arg[1]] = 0 /\ Return(p, x, ret(fs, 0))

Step(p) == /\ \E x \in Todo(p) : syscall(p, x)
           /\ Advance(p) /\ UNCHANGED <<test, todo>>

Restart(p) == /\ test = "free" /\ pc[m] \in 1 .. MaxCalls
              /\ Crash(p)
              /\ Advance(p) /\ UNCHANGED <<test, passed, todo>>

Finished == /\ pc[m] > IF test = "free" THEN MaxCalls ELSE Len(Script(m))
            /\ UNCHANGED uvars

Next == Mkfs \/ (\E p \in Proc : Step(p)) \/ (\E p \in Callers : Restart(p)) \/ Finished

Spec == Init /\ [][Next]_uvars

(* Every call returns what the test that makes it demands, and none makes  *)
(* the kernel panic.                                                       *)
AsExpected == passed /\ NoPanic
=============================================================================
