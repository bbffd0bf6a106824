----------------------------- MODULE WaitStable -----------------------------
(***************************************************************************)
(* wait_stable (hashing.py): the worker samples the size of a file that    *)
(* another program may still be writing, pausing between two samples, and  *)
(* says whether the copy looks finished.  wait_stable_async is the same    *)
(* algorithm on asyncio.sleep.                                             *)
(***************************************************************************)
EXTENDS Integers

CONSTANTS
    Checks,    \* checks: maximum number of samples
    MaxSize    \* bound on the sizes the writer gives the file

ASSUME WaitAssumption == Checks \in Nat /\ MaxSize \in Nat

VARIABLES
    size,      \* size of the file on disk, NoFile when stat() raises
    stage,        \* "sample", "pause", "final", then the verdict
    attempt,   \* loop counter
    prev,      \* prev_size, -1 when there is none
    paused,    \* history: a pause has ended since prev was read
    touched    \* history: the writer has acted since the call

waitVars == <<size, stage, attempt, prev, paused, touched>>

NoFile == -1

WaitInit ==
    /\ size \in NoFile..MaxSize
    /\ stage = IF Checks > 0 THEN "sample" ELSE "final"
    /\ attempt = 0
    /\ prev = -1
    /\ paused = FALSE
    /\ touched = FALSE

-----------------------------------------------------------------------------
(* The writer: creates, appends, truncates, removes. *)
Write ==
    /\ stage \notin {"stable", "unstable"}
    /\ size' \in (NoFile..MaxSize) \ {size}
    /\ touched' = TRUE
    /\ UNCHANGED <<stage, attempt, prev, paused>>

(* The loop. *)

\* stat() raised: forget the previous size, and always pause.
\* Mutant: the failed attempt is not counted.
SampleFailsFree ==
    /\ stage = "sample" /\ size = NoFile
    /\ prev' = -1 /\ paused' = FALSE
    /\ stage' = "pause"
    /\ UNCHANGED <<size, attempt, touched>>
SampleFails ==
    /\ stage = "sample" /\ size = NoFile
    /\ prev' = -1 /\ paused' = FALSE
    /\ attempt' = attempt + 1
    /\ stage' = "pause"
    /\ UNCHANGED <<size, touched>>

SampleAgrees ==
    /\ stage = "sample" /\ size > 0 /\ size = prev
    /\ stage' = "stable"
    /\ UNCHANGED <<size, attempt, prev, paused, touched>>

\* No pause after the last sample of the loop.
\* Mutant: the size read is not kept.
SampleDiffersForgets ==
    /\ stage = "sample" /\ size # NoFile /\ ~(size > 0 /\ size = prev)
    /\ prev' = prev /\ paused' = FALSE
    /\ attempt' = attempt + 1
    /\ stage' = IF attempt < Checks - 1 THEN "pause" ELSE "final"
    /\ UNCHANGED <<size, touched>>
SampleDiffers ==
    /\ stage = "sample" /\ size # NoFile /\ ~(size > 0 /\ size = prev)
    /\ prev' = size /\ paused' = FALSE
    /\ attempt' = attempt + 1
    /\ stage' = IF attempt < Checks - 1 THEN "pause" ELSE "final"
    /\ UNCHANGED <<size, touched>>

MoreSamples == attempt < Checks

Pause ==
    /\ stage = "pause"
    /\ paused' = TRUE
    /\ stage' = IF MoreSamples THEN "sample" ELSE "final"
    /\ UNCHANGED <<size, attempt, prev, touched>>

\* "Derniere verification apres la derniere pause".
Final ==
    /\ stage = "final"
    /\ stage' = IF size > 0 /\ size = prev THEN "stable" ELSE "unstable"
    /\ UNCHANGED <<size, attempt, prev, paused, touched>>

Loop == SampleFails \/ SampleAgrees \/ SampleDiffers \/ Pause \/ Final

WaitNext == Write \/ Loop

WaitSpec == WaitInit /\ [][WaitNext]_waitVars

\* The worker thread runs and its sleeps end; the writer is free.
WaitFairSpec == WaitSpec /\ WF_waitVars(Loop)

-----------------------------------------------------------------------------
\* Domains; no more than Checks samples are taken by the loop.
WaitTypeOK ==
    /\ size \in NoFile..MaxSize
    /\ stage \in {"sample", "pause", "final", "stable", "unstable"}
    /\ attempt \in 0..Checks
    /\ prev \in -1..MaxSize
    /\ paused \in BOOLEAN /\ touched \in BOOLEAN

\* A non-empty file that nobody touched during the call is never declared
\* unstable, whatever the number of checks but zero.
QuietIsStable ==
    stage = "unstable" /\ ~touched /\ Checks > 0 => size <= 0

\* The call always ends, even on a file that keeps changing or disappearing.
Terminates == <>(stage \in {"stable", "unstable"})

\* The docstring: the size is the same on two consecutive readings taken at an
\* interval.  A file still growing at every pause must not pass for stable.
StableAcrossPause == stage = "stable" => paused
=============================================================================
