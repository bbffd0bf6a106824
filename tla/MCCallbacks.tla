----------------------------- MODULE MCCallbacks -----------------------------
(***************************************************************************)
(* The parts made of timers and callbacks.  Before a file is in the queue, *)
(* and before it is read: which files are looked after (Watching), the     *)
(* debounce of their events (Debounce), the wait for the end of a copy     *)
(* (WaitStable); they meet in IndexSync.  At the other end, the page where *)
(* questions are asked (ChatPage).  Here each runs on its own: a behaviour *)
(* follows one of them while the others rest, and a machine at rest has no *)
(* step that its fairness could ask for.                                   *)
(***************************************************************************)
EXTENDS Debounce, WaitStable, Watching, ChatPage

CONSTANTS t1, t2, t3, p1, p2, d1, d2

\* Two shares.  The first holds a file under an excluded directory and one no
\* parser takes; with the plain file of the second they are one more than a
\* scan lists.
MCOrder == <<"git", "xml", "plain">>
MCRoot == [p \in {"git", "xml", "plain"} |-> IF p = "plain" THEN "r2" ELSE "r1"]

MCReadings == {<<>>, <<d2, d1>>}

VARIABLE followed

WaitRests ==
    /\ size = 0 /\ stage = "stable" /\ attempt = 0 /\ prev = -1
    /\ paused = FALSE /\ touched = FALSE

WatchRests == WatchInit /\ present = {} /\ \A r \in Roots : mount[r] = "on"

MCInit ==
    /\ DebounceInit /\ ChatInit
    /\ \/ followed = "debounce" /\ WaitRests /\ WatchRests
       \/ followed = "wait" /\ WaitInit /\ WatchRests
       \/ followed = "watching" /\ WaitRests /\ WatchInit
       \/ followed = "chat" /\ WaitRests /\ WatchRests

MCNext ==
    /\ UNCHANGED followed
    /\ \/ followed = "debounce" /\ DebounceNext /\ UNCHANGED <<waitVars, watchVars, chatVars>>
       \/ followed = "wait" /\ WaitNext /\ UNCHANGED <<debounceVars, watchVars, chatVars>>
       \/ followed = "watching" /\ WatchNext /\ UNCHANGED <<debounceVars, waitVars, chatVars>>
       \/ followed = "chat" /\ ChatNext /\ UNCHANGED <<debounceVars, waitVars, watchVars>>

MCSpec ==
    /\ MCInit /\ [][MCNext]_<<followed, debounceVars, waitVars, watchVars, chatVars>>
    /\ DebounceFairness
    /\ WF_waitVars(Loop)
    /\ WatchFairness
    /\ ChatFairness
=============================================================================
