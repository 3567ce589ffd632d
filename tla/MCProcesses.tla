----------------------------- MODULE MCProcesses -----------------------------
EXTENDS Processes, TLC

\* The regions of the program, of its stack, and of the APICs.
MCLayout == <<[table |-> "t1", pages |-> <<"code">>], [table |-> "t2", pages |-> <<"stack">>],
              [table |-> "t3", pages |-> <<"high">>]>>

\* The counts are zero, or a semaphore was counted, or the table looks full.
MCStale == {[file |-> 0, sem |-> 0, child |-> 0], [file |-> 0, sem |-> 1, child |-> 2],
            [file |-> 2, sem |-> 0, child |-> 0]}

Menu(set, bound) == [set |-> set, bound |-> bound]
MCMenus == {
  Menu({"sem", "open", "close"}, 7),
  Menu({"sem", "close", "fork", "exit"}, 5),
  Menu({"open", "read", "seek", "close", "fork"}, 5),
  Menu({"sem", "up", "down", "fork", "exit", "close"}, 5),
  Menu({"fork", "wait", "exit", "close"}, 6),
  Menu({"access", "fork", "exec", "exit"}, 4)}
=============================================================================
