------------------------------- MODULE MCSync -------------------------------
EXTENDS Sync, TLC

CONSTANTS t1, t2, t3, t4

Do(c) == [call |-> c, value |-> 0]
Give(c, v) == [call |-> c, value |-> v]

\* Who does what: p1 the calls of t1, and so on.
Run4(p1, p2, p3, p4) == t1 :> p1 @@ t2 :> p2 @@ t3 :> p3 @@ t4 :> p4

Rounds == <<Do("sync"), Do("sync"), Do("sync")>>
\* A task that sets the future and drops its Shared when its TCB is deleted, its
\* creator, which hands out a copy, and two more threads that get its value.
Task == <<Give("set", 5), Do("drop")>>
Getter == <<Do("get"), Do("drop")>>
Creator == <<Do("copy"), Do("drop"), Do("get"), Do("drop")>>

MCPrograms == {
  Run4(Rounds, Rounds, Rounds, << >>),
  Run4(<<Do("join")>>, <<Do("join")>>, <<Do("join")>>, << >>),
  Run4(<<Do("await"), Do("await")>>, <<Do("await")>>,
       <<Do("signal"), Do("signal")>>, <<Do("signal")>>),
  Run4(<<Do("await")>>, <<Do("await")>>, <<Do("await")>>,
       <<Do("signal"), Do("signal"), Do("signal")>>),
  Run4(Task, Creator, Getter, Getter),
  Run4(<<Give("put", 1), Give("put", 2)>>, <<Give("put", 3), Give("put", 4)>>,
       <<Do("take"), Do("take")>>, <<Do("take"), Do("take")>>)}

=============================================================================
