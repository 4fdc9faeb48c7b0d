---------------------------- MODULE MCAsyncPool ----------------------------
(* AsyncPool on small instances, for TLC. *)
EXTENDS AsyncPool

CONSTANTS t1, t2, t3, c1, c2

AllTasks == {t1, t2, t3}
TwoTasks == {t1, t2}
TwoConns == {c1, c2}

\* Every await, and every await but that of a begin.
AllAwaits   == Awaits
AllButBegin == Awaits \ {"begin"}

\* Tasks and connections are interchangeable.
Alike(T, C) == {[x \in T \cup C |-> IF x \in T THEN p[x] ELSE q[x]] :
                    p \in {f \in [T -> T] : \A x, y \in T : x # y => f[x] # f[y]},
                    q \in {f \in [C -> C] : \A x, y \in C : x # y => f[x] # f[y]}}

Alike32 == Alike(AllTasks, TwoConns)
=============================================================================
