----------------------------- MODULE MCJobQueue -----------------------------
EXTENDS JobQueue

CONSTANTS j1, j2, k1, k2, c1

\* The reconciler asks with the lower priority.
MCPriorities == {0, -1}
=============================================================================
