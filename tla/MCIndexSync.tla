---------------------------- MODULE MCIndexSync -----------------------------
EXTENDS IndexSync

CONSTANTS p1, p2, n1, x1, A, B, C

\* Two files of one index in two folders, with the same base name.
SameName == [p \in Paths |-> n1]
OneIndex == [p \in Paths |-> x1]

\* Every version of a file is new.
NewContents == <<A, B, C>>

\* Files that shrink and grow.
Sizes == [c \in {A, B, C} |-> IF c = B THEN 1 ELSE 2]

Scenario(paths, versions, ops, faults) ==
    [paths |-> paths, versions |-> versions, ops |-> ops, faults |-> faults]

\* One file that comes and goes while the process dies and misses events; a
\* file moved between two folders.
Moved == Scenario({p1, p2}, 1, {"write", "move"}, {})
Killed == Scenario({p1}, 2, {"write", "remove"}, {"crash", "missed", "vanish"})
Settling == {Killed, Moved}

\* Everything that can fail together; then neither crash nor file that vanishes
\* under the worker, and one more version.
Failing ==
    {Killed,
     Scenario({p1}, 2, {"write", "remove", "drop", "reindex"},
              {"crash", "missed", "unstable", "vanish", "scan", "store"}),
     Scenario({p1}, 3, {"write", "remove", "drop"}, {"missed", "unstable", "scan"})}

MovingOnly == {Moved}
=============================================================================
