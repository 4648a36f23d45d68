------------------------------ MODULE MCConsole ------------------------------
EXTENDS Console

a == 97
b == 98
w(p, i) == 200 + 10 * p + i
read(n) == <<"read", n>>
write(p, n) == <<"write", [i \in 1 .. n |-> w(p, i)]>>
nap(n) == <<"sleep", n>>
MCText == {a, b}
S(keys, p1, p2, timers, killed) ==
  [keys |-> keys, calls |-> <<p1, p2>>, timers |-> timers, kill |-> killed]

MCScripts == {
  S(<<a, DEL, CR>>, <<read(3)>>, <<>>, 0, 0),
  S(<<a, CTRL_U, a, b, CTRL_D>>, <<read(3), read(3)>>, <<>>, 0, 0),
  S(<<a, b, NL>>, <<read(1)>>, <<read(4)>>, 0, 0),
  S(<<>>, <<write(1, 2)>>, <<write(2, 2)>>, 0, 0),
  S(<<CTRL_P, a>>, <<>>, <<write(2, 1)>>, 0, 0),
  S(<<a>>, <<read(3)>>, <<>>, 1, 1),
  S(<<>>, <<nap(2)>>, <<nap(1)>>, 3, 2)}
==============================================================================
