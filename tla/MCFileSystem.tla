---------------------------- MODULE MCFileSystem ----------------------------
EXTENDS UserTests

MCProc == {"m", "c", "d"}
MCCallers == {"m", "c"}
Datum(v) == [n |-> v, i |-> 0]
Prog(n) == [name |-> n, data |-> <<Datum("ELF"), Datum("x")>>]
Text(n, k) == [name |-> n, data |-> [j \in 1 .. k |-> Datum("R")]]
MCImage == <<Text("README", 5), Prog("echo"), Prog("cat"), Prog("init")>>
(* Two inodes and four blocks are free.                                    *)
MCFullImage == <<Text("a", 24), Text("1", 28), Prog("2"), Prog("3"), Prog("4"), Text("5", 4),
                 Text("6", 4), Text("7", 0), Text("8", 0), Text("9", 0), Text("10", 0),
                 Text("11", 0)>>
MCPaths == {<<"a">>, <<"b">>, <<"b", "a">>, <<"..">>, <<"/", "b">>}
MCOlds == {<<"a">>}
MCModes == {{}, {"CREATE", "RDWR"}}
MCSources == {<<[n |-> "x", i |-> 0]>>}
MCMajors == {1}
=============================================================================
