---------------------------- MODULE ArrivalProofs ----------------------------
(***************************************************************************)
(* What happens to a file that arrives, before a worker indexes it: the    *)
(* debounce of its events and the wait for the end of its copy.            *)
(*                                                                         *)
(* Debounce, for any number of timers and files: the race in _fire_job may *)
(* leave a timer that nobody can cancel, but it never loses the latest     *)
(* event of a file.  WaitStable, for any number of checks and any sizes: a *)
(* file is refused only for what happened during the call, so a copy that  *)
(* was finished before is never put off.                                   *)
(***************************************************************************)
EXTENDS Debounce, WaitStable, TLAPS

-----------------------------------------------------------------------------
(* The debounce. *)

\* The timer of the latest event of a path exists and works for that path.
LatestIsOfPath ==
    \A p \in Paths : latest[p] # Nil =>
        timer[latest[p]].path = p /\ timer[latest[p]].state # "unused"

DInv == DebounceTypeOK /\ LatestIsOfPath /\ SlotHoldsLatest /\ LatestNeverCancelled

LEMMA DInvInit == DebounceInit => DInv
    BY DebounceAssumption DEF DebounceInit, DInv, DebounceTypeOK, LatestIsOfPath, SlotHoldsLatest,
       LatestNeverCancelled, NoTimer, Timer, TimerState

\* The state of one timer advances, to anything but "unused" or "cancelled".
LEMMA BecomeType ==
    ASSUME DebounceTypeOK, NEW t \in Timers, NEW s \in TimerState, Become(t, s)
    PROVE  /\ timer' \in [Timers -> Timer]
           /\ \A u \in Timers : timer'[u].path = timer[u].path
           /\ \A u \in Timers \ {t} : timer'[u] = timer[u]
           /\ timer'[t].state = s
    BY DEF DebounceTypeOK, Become, Timer

LEMMA CancelledType ==
    ASSUME DebounceTypeOK, NEW t \in Timers
    PROVE  /\ Cancelled(t) \in Timer
           /\ Cancelled(t).path = timer[t].path
           /\ Cancelled(t).state = "unused" => timer[t].state = "unused"
    BY DEF DebounceTypeOK, Cancelled, Timer, TimerState

LEMMA DInvSchedule ==
    ASSUME DInv, NEW t \in Timers, NEW p \in Paths, Schedule(t, p)
    PROVE  DInv'
    <1> USE DEF DInv
    <1> DEFINE made == [state |-> "armed", path |-> p]
               s == slot[p]
    <1>1. made \in Timer
        BY DEF Timer, TimerState
    <1>2. timer[t].state = "unused" /\ t # s
        BY DebounceAssumption DEF Schedule, SlotHoldsLatest
    <1>3. timer' = IF s = Nil THEN [timer EXCEPT ![t] = made]
                   ELSE [timer EXCEPT ![t] = made, ![s] = Cancelled(s)]
        BY DEF Schedule
    <1>4. slot' = [slot EXCEPT ![p] = t] /\ latest' = [latest EXCEPT ![p] = t] /\ phase' = phase
        BY DEF Schedule
    <1>5. s = Nil \/ s \in Timers
        BY DEF DebounceTypeOK
    <1>6. timer' \in [Timers -> Timer]
        BY <1>1, <1>3, <1>5, CancelledType DEF DebounceTypeOK
    <1>7. timer'[t] = made /\ \A u \in Timers \ {t, s} : timer'[u] = timer[u]
        BY <1>2, <1>3, <1>5 DEF DebounceTypeOK
    <1>8. s # Nil => timer'[s].path = p /\ timer[s].path = p
        BY <1>2, <1>3, <1>5, CancelledType DEF DebounceTypeOK
    <1>9. \A q \in Paths \ {p} : /\ slot[q] # Nil => slot[q] \in Timers \ {t, s}
                                 /\ latest[q] # Nil => latest[q] \in Timers \ {t, s}
        BY <1>2, <1>8, DebounceAssumption DEF DebounceTypeOK, LatestIsOfPath, SlotHoldsLatest
    <1>10. DebounceTypeOK'
        BY <1>4, <1>6, <1>7, <1>9 DEF DebounceTypeOK
    <1>11. LatestIsOfPath'
        BY <1>4, <1>7, <1>9 DEF LatestIsOfPath, DebounceTypeOK
    <1>12. SlotHoldsLatest'
        BY <1>4, <1>7, <1>9 DEF SlotHoldsLatest, DebounceTypeOK
    <1>13. LatestNeverCancelled'
        BY <1>4, <1>7, <1>9 DEF LatestNeverCancelled, DebounceTypeOK
    <1> QED
        BY <1>10, <1>11, <1>12, <1>13

\* A timer thread moves on: only its own state changes, and a slot is emptied
\* when it is past registering anything.
LEMMA DInvTimer ==
    ASSUME DInv, NEW t \in Timers, TimerStep(t)
    PROVE  DInv'
    <1> USE DEF DInv
    <1>1. CASE Expire(t)
        <2>1. Become(t, "expired") /\ "expired" \in TimerState /\ UNCHANGED <<slot, phase, latest>>
            BY <1>1 DEF Expire, TimerState
        <2>2. DebounceTypeOK' /\ LatestIsOfPath' /\ SlotHoldsLatest' /\ LatestNeverCancelled'
            BY <2>1, BecomeType DEF DebounceTypeOK, LatestIsOfPath, SlotHoldsLatest, LatestNeverCancelled
        <2>3. QED BY <2>2
    <1>2. CASE FirePops(t)
        <2>1. /\ Become(t, "popped") /\ "popped" \in TimerState /\ UNCHANGED <<phase, latest>>
              /\ slot' = [slot EXCEPT ![timer[t].path] = Nil] /\ timer[t].state = "expired"
            BY <1>2 DEF FirePops, TimerState
        <2>2. \A p \in Paths : slot[p] = t => timer[t].path = p
            BY DebounceAssumption DEF DebounceTypeOK
        <2>3. \A p \in Paths : slot'[p] # Nil => slot'[p] = slot[p] /\ slot[p] # t
            BY <2>1, <2>2 DEF DebounceTypeOK
        <2>4. slot' \in [Paths -> Timers \cup {Nil}]
            BY <2>1 DEF DebounceTypeOK
        <2>5. DebounceTypeOK' /\ LatestIsOfPath' /\ SlotHoldsLatest' /\ LatestNeverCancelled'
            BY <2>1, <2>3, <2>4, BecomeType DEF DebounceTypeOK, LatestIsOfPath, SlotHoldsLatest, LatestNeverCancelled
        <2>6. QED BY <2>5
    <1>3. CASE FireChecks(t) \/ FireEnqueues(t)
        <2>1. PICK s \in {"passed", "dropped", "submitted", "failed"} : Become(t, s)
            BY <1>3 DEF FireChecks, FireEnqueues
        <2>2. /\ timer[t].state \in {"popped", "passed"} /\ s \in TimerState
              /\ UNCHANGED <<slot, phase, latest>>
            BY <1>3, <2>1 DEF FireChecks, FireEnqueues, TimerState
        <2>3. DebounceTypeOK' /\ LatestIsOfPath' /\ SlotHoldsLatest' /\ LatestNeverCancelled'
            BY <2>1, <2>2, BecomeType DEF DebounceTypeOK, LatestIsOfPath, SlotHoldsLatest, LatestNeverCancelled
        <2>4. QED BY <2>3
    <1> QED
        BY <1>1, <1>2, <1>3 DEF TimerStep

LEMMA DInvStop ==
    ASSUME DInv, StopFlags \/ StopCancels \/ StopJoins
    PROVE  DInv'
    <1> USE DEF DInv
    <1>1. CASE StopCancels
        <2>1. /\ timer' \in [Timers -> Timer]
              /\ \A u \in Timers : timer'[u].path = timer[u].path
              /\ \A u \in Timers : timer'[u].state = "unused" => timer[u].state = "unused"
            BY <1>1, CancelledType DEF StopCancels, DebounceTypeOK
        <2>2. slot' = [p \in Paths |-> Nil] /\ phase' = "cleared" /\ latest' = latest
            BY <1>1 DEF StopCancels
        <2>3. DebounceTypeOK'
            BY <2>1, <2>2 DEF DebounceTypeOK
        <2>4. LatestIsOfPath'
            BY <2>1, <2>2 DEF LatestIsOfPath, DebounceTypeOK
        <2>5. SlotHoldsLatest' /\ LatestNeverCancelled'
            BY <2>2 DEF SlotHoldsLatest, LatestNeverCancelled
        <2>6. QED
            BY <2>3, <2>4, <2>5
    <1>2. CASE StopFlags \/ StopJoins
        BY <1>2 DEF StopFlags, StopJoins, DebounceTypeOK, LatestIsOfPath, SlotHoldsLatest, LatestNeverCancelled
    <1> QED
        BY <1>1, <1>2

LEMMA DInvNext == DInv /\ [DebounceNext]_debounceVars => DInv'
    <1> SUFFICES ASSUME DInv, [DebounceNext]_debounceVars PROVE DInv'
        OBVIOUS
    <1>1. CASE Event
        BY <1>1, DInvSchedule DEF Event
    <1>2. CASE \E t \in Timers : TimerStep(t)
        BY <1>2, DInvTimer
    <1>3. CASE StopFlags \/ StopCancels \/ StopJoins
        BY <1>3, DInvStop
    <1>4. CASE UNCHANGED debounceVars
        BY <1>4 DEF debounceVars, DInv, DebounceTypeOK, LatestIsOfPath, SlotHoldsLatest, LatestNeverCancelled
    <1> QED
        BY <1>1, <1>2, <1>3, <1>4 DEF DebounceNext

LEMMA DebounceInductive == DebounceSpec => []DInv
    BY DInvInit, DInvNext, PTL DEF DebounceSpec

-----------------------------------------------------------------------------
\* The registered timer of a path is always that of its latest event, even
\* though a callback may remove a timer that is not its own.
THEOREM SlotFresh == DebounceSpec => []SlotHoldsLatest
    BY DebounceInductive, PTL DEF DInv

\* As long as stop() has not cleared the timers, that of a file's latest
\* event has not been cancelled.
THEOREM LatestSurvives == DebounceSpec => []LatestNeverCancelled
    BY DebounceInductive, PTL DEF DInv

-----------------------------------------------------------------------------
(* The wait for the end of a copy. *)

\* The loop is at its top only while samples are left.
SampleIsLeft == stage = "sample" => attempt < Checks

\* On a non-empty file nobody touched, the loop either stands before its
\* first sample or remembers the size of the file.
QuietIsRemembered ==
    ~touched /\ size > 0 /\ Checks > 0 =>
        \/ stage = "sample" /\ attempt = 0 /\ prev = -1
        \/ stage # "unstable" /\ prev = size

WInv == WaitTypeOK /\ SampleIsLeft /\ QuietIsRemembered

LEMMA WInvInit == WaitInit => WInv
    <1> SUFFICES ASSUME WaitInit PROVE WInv
        OBVIOUS
    <1>1. paused \in BOOLEAN /\ touched \in BOOLEAN
        BY DEF WaitInit
    <1>2. /\ size \in NoFile..MaxSize /\ attempt = 0 /\ prev = -1
          /\ stage = IF Checks > 0 THEN "sample" ELSE "final"
        BY DEF WaitInit
    <1>3. WaitTypeOK
        BY <1>1, <1>2, WaitAssumption DEF WaitTypeOK, NoFile
    <1>4. SampleIsLeft /\ QuietIsRemembered
        BY <1>2, WaitAssumption DEF SampleIsLeft, QuietIsRemembered
    <1> QED
        BY <1>3, <1>4 DEF WInv

\* The writer's mark and the history of pauses stay Boolean.
LEMMA Booleans ==
    ASSUME WaitTypeOK, [WaitNext]_waitVars
    PROVE  paused' \in BOOLEAN /\ touched' \in BOOLEAN
    BY DEF WaitTypeOK, WaitNext, Loop, Write, SampleFails, SampleAgrees, SampleDiffers, Pause, Final, waitVars

LEMMA WInvNext == WInv /\ [WaitNext]_waitVars => WInv'
    <1> SUFFICES ASSUME WInv, [WaitNext]_waitVars PROVE WInv'
        OBVIOUS
    <1> USE WaitAssumption
    <1>0. paused' \in BOOLEAN /\ touched' \in BOOLEAN
        BY Booleans DEF WInv
    <1>1. CASE Write
        <2>1. touched' = TRUE
            BY <1>1 DEF Write
        <2>2. WaitTypeOK' /\ SampleIsLeft'
            BY <1>0, <1>1 DEF Write, WInv, WaitTypeOK, SampleIsLeft, NoFile
        <2>3. QED BY <2>1, <2>2 DEF WInv, QuietIsRemembered
    <1>2. CASE SampleFails
        <2>1. WaitTypeOK' /\ SampleIsLeft'
            BY <1>0, <1>2 DEF SampleFails, WInv, WaitTypeOK, SampleIsLeft, NoFile
        <2>2. ~(size' > 0)
            BY <1>2 DEF SampleFails, NoFile
        <2>3. QED BY <2>1, <2>2 DEF WInv, QuietIsRemembered
    <1>3. CASE SampleAgrees
        <2>1. WaitTypeOK' /\ SampleIsLeft'
            BY <1>0, <1>3 DEF SampleAgrees, WInv, WaitTypeOK, SampleIsLeft, NoFile
        <2>2. stage' = "stable" /\ prev' = size'
            BY <1>3 DEF SampleAgrees
        <2>3. QED BY <2>1, <2>2 DEF WInv, QuietIsRemembered
    <1>4. CASE SampleDiffers
        <2>1. size \in -1..MaxSize /\ size # -1 /\ attempt < Checks /\ attempt \in 0..Checks
            BY <1>4 DEF SampleDiffers, WInv, WaitTypeOK, SampleIsLeft, NoFile
        <2>2. stage' = IF attempt < Checks - 1 THEN "pause" ELSE "final"
            BY <1>4 DEF SampleDiffers
        <2>3. prev' = size /\ size' = size /\ attempt' = attempt + 1
            BY <1>4 DEF SampleDiffers
        <2>4. WaitTypeOK' /\ SampleIsLeft'
            BY <1>0, <2>1, <2>2, <2>3 DEF WaitTypeOK, SampleIsLeft, NoFile
        <2>5. stage' # "unstable" /\ prev' = size'
            BY <2>2, <2>3
        <2>6. QED BY <2>4, <2>5 DEF WInv, QuietIsRemembered
    <1>5. CASE Pause
        <2>1. stage' = IF attempt < Checks THEN "sample" ELSE "final"
            BY <1>5 DEF Pause, MoreSamples
        <2>2. stage = "pause" /\ UNCHANGED <<size, attempt, prev, touched>>
            BY <1>5 DEF Pause
        <2>3. WaitTypeOK' /\ SampleIsLeft'
            BY <1>0, <2>1, <2>2 DEF WInv, WaitTypeOK, SampleIsLeft, NoFile
        <2>4. QuietIsRemembered'
            BY <2>1, <2>2 DEF WInv, QuietIsRemembered
        <2>5. QED BY <2>3, <2>4 DEF WInv
    <1>6. CASE Final
        <2>1. stage' = IF size > 0 /\ size = prev THEN "stable" ELSE "unstable"
            BY <1>6 DEF Final
        <2>2. stage = "final" /\ UNCHANGED <<size, attempt, prev, touched>>
            BY <1>6 DEF Final
        <2>3. WaitTypeOK' /\ SampleIsLeft'
            BY <1>0, <2>1, <2>2 DEF WInv, WaitTypeOK, SampleIsLeft, NoFile
        <2>4. QuietIsRemembered'
            BY <2>1, <2>2 DEF WInv, QuietIsRemembered
        <2>5. QED BY <2>3, <2>4 DEF WInv
    <1>7. CASE UNCHANGED waitVars
        BY <1>7 DEF waitVars, WInv, WaitTypeOK, SampleIsLeft, QuietIsRemembered
    <1> QED
        BY <1>1, <1>2, <1>3, <1>4, <1>5, <1>6, <1>7 DEF WaitNext, Loop

LEMMA WaitInductive == WaitSpec => []WInv
    BY WInvInit, WInvNext, PTL DEF WaitSpec

\* Types, and the loop takes at most `checks` samples.
THEOREM SamplesAreBounded == WaitSpec => []WaitTypeOK
    BY WaitInductive, PTL DEF WInv

\* wait_stable refuses no finished file, whatever `checks`.
THEOREM FinishedIsAccepted == WaitSpec => []QuietIsStable
    <1>1. WInv => QuietIsStable
        BY DEF WInv, WaitTypeOK, QuietIsRemembered, QuietIsStable, NoFile
    <1> QED
        BY <1>1, WaitInductive, PTL
=============================================================================
