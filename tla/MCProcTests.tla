---------------------------- MODULE MCProcTests ----------------------------
EXTENDS ProcTests

Text == [vaddr |-> 0, memsz |-> 8, data |-> <<<<17>>, <<18>>, <<19>>, <<20>>>>,
         flags |-> {"X"}, short |-> FALSE]
Data == [vaddr |-> 8, memsz |-> 8, data |-> <<<<120>>, <<0>>, <<8>>, <<8>>, <<0>>>>,
         flags |-> {"W"}, short |-> FALSE]
MCImages == [init |-> <<Text, Data>>, usertests |-> <<Text, Data>>, echo |-> <<Text, Data>>,
             forktest |-> <<Text>>, cut |-> <<Text, [Data EXCEPT !.short = TRUE]>>]
MCGrow == {-33, -3, 5, 8 * 34}
MCAddrs == {0, 16, 28}
MCExecs == {"echo", "cut", "nosuch"}
=============================================================================
