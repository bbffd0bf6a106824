---------------------------- MODULE RequestLedger ----------------------------
(***************************************************************************)
(* What the job queue promises to those who ask for a file to be handled:  *)
(* a request stays wanted until it is being served, one request is served  *)
(* at a time, and one that is interrupted is wanted again.  Rows, dates,   *)
(* priorities, attempts and transactions are left to JobQueue.             *)
(***************************************************************************)
CONSTANT Keys   \* the pairs (file_path, action)

VARIABLES
    wanted,     \* the keys with a request that nobody handles yet
    served      \* the key being handled, if any

Init ==
    /\ wanted = {}
    /\ served = {}

\* Callers of enqueue, and operators who put back what failed.
Ask(K) ==
    /\ wanted' = wanted \cup K
    /\ UNCHANGED served

\* A key may stay wanted while it is served: one request was put back, another
\* came after it.
Serve(k) ==
    /\ served = {}
    /\ k \in wanted
    /\ served' = {k}
    /\ wanted' \in {wanted, wanted \ {k}}

\* Done, failed or buried.
Settle ==
    /\ served' = {}
    /\ UNCHANGED wanted

PutBack ==
    /\ wanted' = wanted \cup served
    /\ served' = {}

Next ==
    \/ \E K \in SUBSET Keys : Ask(K)
    \/ \E k \in Keys : Serve(k)
    \/ Settle
    \/ PutBack

Spec == Init /\ [][Next]_<<wanted, served>>
=============================================================================
