------------------------------ MODULE Debounce ------------------------------
(***************************************************************************)
(* The debounce of the file observer (observer.py, FileWatcher).           *)
(*                                                                         *)
(* One observer thread turns file events into threading.Timer objects, at  *)
(* most one registered per path in _debounce_timers; each timer runs       *)
(* _fire_job in a thread of its own.  The dictionary is only touched under *)
(* _debounce_lock, so each critical section is an action; what lies        *)
(* between two of them - a timer that has expired but not yet taken the    *)
(* lock, the test of _running, the call of enqueue - is a state of the     *)
(* timer.  cancel() has no effect on a timer that has expired.             *)
(***************************************************************************)
EXTENDS Naturals, FiniteSets

CONSTANTS
    Timers,    \* Timer objects; bounds the number of events
    Paths,     \* resolved paths of files that the filter lets through
    Nil

ASSUME DebounceAssumption == Nil \notin Timers /\ Nil \notin Paths

VARIABLES
    timer,     \* Timers -> [state, path]; the action and old_path tag along
    slot,      \* _debounce_timers: Paths -> registered timer, or Nil
    phase,     \* the life of the FileWatcher; _running is phase = "running"
    latest     \* history: the timer made by the latest event of each path

debounceVars == <<timer, slot, phase, latest>>

-----------------------------------------------------------------------------
\* armed: counting down; expired: run() is past its wait; popped: it has
\* emptied the slot of its path; passed: it has seen _running true;
\* submitted: enqueue returned; failed: enqueue raised; dropped: not running.
TimerState == {"unused", "armed", "expired", "popped", "passed",
               "submitted", "failed", "dropped", "cancelled"}

Timer == [state: TimerState, path: Paths \cup {Nil}]

NoTimer == [state |-> "unused", path |-> Nil]

DebounceInit ==
    /\ timer = [t \in Timers |-> NoTimer]
    /\ slot = [p \in Paths |-> Nil]
    /\ phase = "running"
    /\ latest = [p \in Paths |-> Nil]

\* Timer.cancel().
Cancelled(t) ==
    IF timer[t].state = "armed" THEN [timer[t] EXCEPT !.state = "cancelled"] ELSE timer[t]

\* _schedule_debounced: the registered timer is cancelled and replaced.  The
\* observer thread may still deliver events while stop() is going on.
\* Mutants: the first event of a burst keeps the slot; the replaced timer is
\* the new one.
ScheduleFirst(t, p) ==
    /\ phase # "stopped"
    /\ timer[t].state = "unused"
    /\ LET made == [state |-> "armed", path |-> p]
           s == slot[p]
       IN timer' = IF s = Nil THEN [timer EXCEPT ![t] = made]
                   ELSE [timer EXCEPT ![t] = [made EXCEPT !.state = "cancelled"]]
    /\ slot' = [slot EXCEPT ![p] = IF @ = Nil THEN t ELSE @]
    /\ latest' = [latest EXCEPT ![p] = t]
    /\ UNCHANGED phase
Schedule(t, p) ==
    /\ phase # "stopped"
    /\ timer[t].state = "unused"
    /\ LET made == [state |-> "armed", path |-> p]
           s == slot[p]
       IN timer' = IF s = Nil THEN [timer EXCEPT ![t] = made]
                   ELSE [timer EXCEPT ![t] = made, ![s] = Cancelled(s)]
    /\ slot' = [slot EXCEPT ![p] = t]
    /\ latest' = [latest EXCEPT ![p] = t]
    /\ UNCHANGED phase

\* Created, modified or deleted; a move is debounced under its destination.
Event == \E t \in Timers, p \in Paths : Schedule(t, p)

-----------------------------------------------------------------------------
(* A timer thread. *)

Become(t, s) == timer' = [timer EXCEPT ![t].state = s]

Expire(t) ==
    /\ timer[t].state = "armed"
    /\ Become(t, "expired")
    /\ UNCHANGED <<slot, phase, latest>>

\* _fire_job, first section: it empties the slot of its path, whichever
\* timer is registered there by now.
FirePops(t) ==
    /\ timer[t].state = "expired"
    /\ Become(t, "popped")
    /\ slot' = [slot EXCEPT ![timer[t].path] = Nil]
    /\ UNCHANGED <<phase, latest>>

\* if not self._running: return
FireChecks(t) ==
    /\ timer[t].state = "popped"
    /\ Become(t, IF phase = "running" THEN "passed" ELSE "dropped")
    /\ UNCHANGED <<slot, phase, latest>>

\* enqueue returns, or raises and the event is only logged.
FireEnqueues(t) ==
    /\ timer[t].state = "passed"
    /\ \/ Become(t, "submitted")
       \/ Become(t, "failed")
    /\ UNCHANGED <<slot, phase, latest>>

-----------------------------------------------------------------------------
(* stop() *)

StopFlags ==
    /\ phase = "running"
    /\ phase' = "flagged"
    /\ UNCHANGED <<timer, slot, latest>>

Registered == {slot[p] : p \in Paths} \ {Nil}

StopCancels ==
    /\ phase = "flagged"
    /\ phase' = "cleared"
    /\ timer' = [t \in Timers |-> IF t \in Registered THEN Cancelled(t) ELSE timer[t]]
    /\ slot' = [p \in Paths |-> Nil]
    /\ UNCHANGED latest

StopJoins ==
    /\ phase = "cleared"
    /\ phase' = "stopped"
    /\ UNCHANGED <<timer, slot, latest>>

-----------------------------------------------------------------------------
TimerStep(t) == Expire(t) \/ FirePops(t) \/ FireChecks(t) \/ FireEnqueues(t)

DebounceNext ==
    \/ Event
    \/ \E t \in Timers : TimerStep(t)
    \/ StopFlags
    \/ StopCancels
    \/ StopJoins

DebounceSpec == DebounceInit /\ [][DebounceNext]_debounceVars

\* Timer threads run; events and stop() come when they come.
DebounceFairness == \A t \in Timers : WF_debounceVars(TimerStep(t))
DebounceFairSpec == DebounceSpec /\ DebounceFairness

-----------------------------------------------------------------------------
(* Properties. *)

\* Domains; the timer registered under a path works for that path.
DebounceTypeOK ==
    /\ timer \in [Timers -> Timer]
    /\ slot \in [Paths -> Timers \cup {Nil}]
    /\ phase \in {"running", "flagged", "cleared", "stopped"}
    /\ latest \in [Paths -> Timers \cup {Nil}]
    /\ \A p \in Paths : slot[p] # Nil => timer[slot[p]].path = p

\* A callback may empty the slot of a newer timer, but whatever timer is
\* registered is the one of the latest event: a slot never holds a stale one.
SlotHoldsLatest ==
    \A p \in Paths : slot[p] # Nil => slot[p] = latest[p] /\ timer[slot[p]].state \in {"armed", "expired"}

\* Whatever the timers of a path do to each other, the one of its latest
\* event is never cancelled before stop() clears the dictionary.
LatestNeverCancelled ==
    phase \in {"running", "flagged"} =>
        \A p \in Paths : latest[p] # Nil => timer[latest[p]].state # "cancelled"

\* The latest event of a path ends in a call of enqueue, unless a newer event
\* takes its place or the watcher stops.
IsLatest(t) == timer[t].path # Nil /\ latest[timer[t].path] = t
LatestIsSubmitted ==
    \A t \in Timers :
        IsLatest(t) ~> \/ ~IsLatest(t)
                       \/ timer[t].state \in {"submitted", "failed"}
                       \/ phase # "running"
=============================================================================
