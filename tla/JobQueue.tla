------------------------------ MODULE JobQueue ------------------------------
(***************************************************************************)
(* The persistent job queue of the watcher (queue.py) with the threads     *)
(* that use it: callers of enqueue (debounce timers, reconciler, HTTP      *)
(* API), operators relaunching jobs through the API, and the single        *)
(* worker thread (worker.py) that takes one job at a time and settles it.  *)
(*                                                                         *)
(* A row of the SQLite table `jobs` is a record; a SQLite transaction is   *)
(* one action.  What the code does in two transactions, or before taking   *)
(* the lock, is two actions: created_at is read before the lock of         *)
(* enqueue, and fail() reads the attempts in one transaction and writes    *)
(* the verdict in another.                                                 *)
(***************************************************************************)
EXTENDS Integers, FiniteSets

CONSTANTS
    Jobs,         \* job_id values; uuid4 never repeats, so each is used once
    Keys,         \* the pairs (file_path, action) that enqueue coalesces on
    Callers,      \* threads that may be inside enqueue at the same time
    Priorities,   \* 1 API, 0 observer, -1 reconciler
    Budgets,      \* max_attempts of the JobQueue instances that enqueue
    None,         \* "no job", "no key"
    MaxClock,     \* bound: number of distinct created_at values
    MaxRelaunch   \* bound: times one job is put back by an operator or a restart

ASSUME QueueAssumption ==
    /\ Priorities \subseteq Int
    /\ Budgets \subseteq Nat
    /\ None \notin Jobs
    /\ None \notin Keys
    /\ MaxClock \in Nat
    /\ MaxRelaunch \in Nat

VARIABLES
    row,       \* the table: Jobs -> row, with status "unused" or "deleted" when absent
    call,      \* Callers -> the arguments of its enqueue call, or Idle
    up,        \* the process runs
    pc,        \* where the worker thread is
    held,      \* the job the worker thread is processing
    clock,     \* datetime.utcnow()
    relaunch   \* history: how often each job was put back to pending

vars == <<row, call, up, pc, held, clock, relaunch>>

-----------------------------------------------------------------------------
Absent == {"unused", "deleted"}
Status == {"pending", "in_progress", "completed", "failed", "dead"}
Backoff == {"none", "running", "elapsed"}   \* next_retry_at: NULL, future, past

Row == [status: Status \cup Absent, key: Keys \cup {None},
        prio: Priorities \cup {0}, born: 0..MaxClock,
        budget: Budgets \cup {0}, attempts: Nat, backoff: Backoff]

Blank(s) == [status |-> s, key |-> None, prio |-> 0, born |-> 0,
             budget |-> 0, attempts |-> 0, backoff |-> "none"]

Idle == [key |-> None, prio |-> 0, budget |-> 0, born |-> 0]
Call == [key: Keys \cup {None}, prio: Priorities \cup {0},
         budget: Budgets \cup {0}, born: 0..MaxClock]

Is(j, s) == row[j].status = s
Working == pc # "none"

\* What an operator's relaunch writes in the row.
ToPending(r) == [r EXCEPT !.status = "pending", !.backoff = "none"]

Init ==
    /\ row = [j \in Jobs |-> Blank("unused")]
    /\ call = [c \in Callers |-> Idle]
    /\ up = TRUE
    /\ pc = "idle"
    /\ held = None
    /\ clock = 0
    /\ relaunch = [j \in Jobs |-> 0]

-----------------------------------------------------------------------------
(* enqueue: the timestamp is read before the lock is taken. *)

EnqueueCall(c) ==
    /\ up
    /\ call[c] = Idle
    /\ \E k \in Keys, p \in Priorities, b \in Budgets :
         call' = [call EXCEPT ![c] = [key |-> k, prio |-> p, budget |-> b,
                                      born |-> clock]]
    /\ UNCHANGED <<row, up, pc, held, clock, relaunch>>

Fresh(q) == [status |-> "pending", key |-> q.key, prio |-> q.prio,
             born |-> q.born, budget |-> q.budget, attempts |-> 0,
             backoff |-> "none"]

\* The pending rows that the transaction of enqueue deletes.
\* Mutant: enqueue inserts without coalescing.
SupersededNone(k) == {}
Superseded(k) == {i \in Jobs : row[i].key = k /\ Is(i, "pending")}

\* One transaction: delete the pending rows of the key, insert the new one.
EnqueueCommit(c) ==
    /\ up
    /\ call[c] # Idle
    /\ \E j \in Jobs :
         /\ Is(j, "unused")
         /\ row' = [i \in Jobs |->
                      IF i = j THEN Fresh(call[c])
                      ELSE IF i \in Superseded(call[c].key) THEN Blank("deleted")
                      ELSE row[i]]
    /\ call' = [call EXCEPT ![c] = Idle]
    /\ UNCHANGED <<up, pc, held, clock, relaunch>>

\* The base is locked for longer than busy_timeout: rollback, exception.
\* Mutant: the deletion was committed on its own, and the insertion fails.
EnqueueAbortsHalfway(c) ==
    /\ call[c] # Idle
    /\ row' = [i \in Jobs |-> IF i \in Superseded(call[c].key) THEN Blank("deleted") ELSE row[i]]
    /\ call' = [call EXCEPT ![c] = Idle]
    /\ UNCHANGED <<up, pc, held, clock, relaunch>>
EnqueueAborts(c) ==
    /\ call[c] # Idle
    /\ call' = [call EXCEPT ![c] = Idle]
    /\ UNCHANGED <<row, up, pc, held, clock, relaunch>>

-----------------------------------------------------------------------------
(* Operator actions of the HTTP API. *)

\* retry_job has no condition on the status of the row.
RetryJob(j) ==
    /\ up
    /\ row[j].status \in Status
    /\ relaunch[j] < MaxRelaunch
    /\ row' = [row EXCEPT ![j] = ToPending(row[j])]
    /\ relaunch' = [relaunch EXCEPT ![j] = @ + 1]
    /\ UNCHANGED <<call, up, pc, held, clock>>

Retriable == {j \in Jobs : row[j].status \in {"failed", "dead"}}

RetryAllFailed ==
    /\ up
    /\ Retriable # {}
    /\ \A j \in Retriable : relaunch[j] < MaxRelaunch
    /\ row' = [j \in Jobs |-> IF j \in Retriable THEN ToPending(row[j]) ELSE row[j]]
    /\ relaunch' = [j \in Jobs |-> IF j \in Retriable THEN relaunch[j] + 1 ELSE relaunch[j]]
    /\ UNCHANGED <<call, up, pc, held, clock>>

-----------------------------------------------------------------------------
(* The worker thread. *)

\* Mutant: the IS NULL alternative is missing.
DueElapsed(j) == Is(j, "pending") /\ row[j].backoff = "elapsed"
Due(j) == Is(j, "pending") /\ row[j].backoff # "running"

\* ORDER BY priority DESC, created_at ASC LIMIT 1; ties are broken either way.
Precedes(i, j) ==
    \/ row[i].prio > row[j].prio
    \/ row[i].prio = row[j].prio /\ row[i].born < row[j].born
IsNextJob(j) == Due(j) /\ \A i \in Jobs : Due(i) => ~Precedes(i, j)

Taken(r) == [r EXCEPT !.status = "in_progress", !.attempts = r.attempts + 1]

\* Mutant: a second job is taken while one is being processed.
DequeueWhileBusy(j) ==
    /\ pc \in {"idle", "busy"}
    /\ IsNextJob(j)
    /\ row' = [row EXCEPT ![j] = Taken(row[j])]
    /\ pc' = "busy"
    /\ held' = j
    /\ UNCHANGED <<call, up, clock, relaunch>>
Dequeue(j) ==
    /\ pc = "idle"
    /\ IsNextJob(j)
    /\ row' = [row EXCEPT ![j] = Taken(row[j])]
    /\ pc' = "busy"
    /\ held' = j
    /\ UNCHANGED <<call, up, clock, relaunch>>

Settled(r, s, b) == [r EXCEPT !.status = s, !.backoff = b]

\* UPDATE ... WHERE job_id = held: nothing happens when the row is gone.
Settle(s, b) ==
    /\ row' = IF row[held].status \in Status
              THEN [row EXCEPT ![held] = Settled(row[held], s, b)]
              ELSE row
    /\ pc' = "idle"
    /\ held' = None
    /\ UNCHANGED <<call, up, clock, relaunch>>

Complete == pc = "busy" /\ Settle("completed", row[held].backoff)

\* The handler raises, or complete() itself does: _handle_job_error.
HandlerRaises ==
    /\ pc = "busy"
    /\ pc' = "erring"
    /\ UNCHANGED <<row, call, up, held, clock, relaunch>>

\* First transaction of fail(): read attempts and max_attempts.
\* Mutant: the last attempt is not counted as the last.
ExhaustedLate(r) == r.attempts > r.budget
Exhausted(r) == r.attempts >= r.budget
FailReads ==
    /\ pc = "erring"
    /\ IF row[held].status \in Absent
       THEN pc' = "idle" /\ held' = None
       ELSE /\ pc' = IF Exhausted(row[held]) THEN "burying" ELSE "failing"
            /\ UNCHANGED held
    /\ UNCHANGED <<row, call, up, clock, relaunch>>

FailWrites == pc = "failing" /\ Settle("failed", "running")

MarkDead == pc = "burying" /\ Settle("dead", row[held].backoff)

\* log_audit_error or fail() raises (base locked): nothing catches it in
\* _run_loop and the thread ends, the process going on without a worker.
ThreadDies ==
    /\ pc \in {"erring", "failing", "burying"}
    /\ pc' = "none"
    /\ held' = None
    /\ UNCHANGED <<row, call, up, clock, relaunch>>

-----------------------------------------------------------------------------
(* The process: killed or stopped at any point, started again by Docker. *)

ProcessEnds ==
    /\ up
    /\ \A j \in Jobs : Is(j, "in_progress") => relaunch[j] < MaxRelaunch
    /\ up' = FALSE
    /\ pc' = "none"
    /\ held' = None
    /\ call' = [c \in Callers |-> Idle]
    /\ UNCHANGED <<row, clock, relaunch>>

\* recover_in_progress; it leaves next_retry_at as it is.
Recovered(r) == [r EXCEPT !.status = "pending"]

\* WatcherService.start -> IndexWorker.start: recovery, then the thread.
ProcessStarts ==
    /\ ~up
    /\ up' = TRUE
    /\ pc' = "idle"
    /\ row' = [j \in Jobs |-> IF Is(j, "in_progress") THEN Recovered(row[j]) ELSE row[j]]
    /\ relaunch' = [j \in Jobs |-> IF Is(j, "in_progress") THEN relaunch[j] + 1 ELSE relaunch[j]]
    /\ UNCHANGED <<call, held, clock>>

(* Time. *)

ClockTicks ==
    /\ clock < MaxClock
    /\ clock' = clock + 1
    /\ UNCHANGED <<row, call, up, pc, held, relaunch>>

BackoffElapses(j) ==
    /\ row[j].backoff = "running"
    /\ row' = [row EXCEPT ![j] = Settled(row[j], row[j].status, "elapsed")]
    /\ UNCHANGED <<call, up, pc, held, clock, relaunch>>

-----------------------------------------------------------------------------
WorkerStep ==
    \/ \E j \in Jobs : Dequeue(j)
    \/ Complete
    \/ HandlerRaises
    \/ FailReads
    \/ FailWrites
    \/ MarkDead

Next ==
    \/ \E c \in Callers : EnqueueCall(c) \/ EnqueueCommit(c) \/ EnqueueAborts(c)
    \/ \E j \in Jobs : RetryJob(j)
    \/ RetryAllFailed
    \/ WorkerStep
    \/ ThreadDies
    \/ ProcessEnds
    \/ ProcessStarts
    \/ ClockTicks
    \/ \E j \in Jobs : BackoffElapses(j)

Spec == Init /\ [][Next]_vars

\* The worker loop keeps running, Docker restarts the process
\* (restart: unless-stopped), and a delay that is written in a row elapses.
\* Callers, operators, failures and the clock are under no obligation.
Fairness ==
    /\ WF_vars(WorkerStep)
    /\ WF_vars(ProcessStarts)
    /\ \A j \in Jobs : WF_vars(BackoffElapses(j))
FairSpec == Spec /\ Fairness

-----------------------------------------------------------------------------
(* Properties. *)

\* Every variable stays in its domain.
TypeOK ==
    /\ row \in [Jobs -> Row]
    /\ call \in [Callers -> Call]
    /\ up \in BOOLEAN
    /\ pc \in {"none", "idle", "busy", "erring", "failing", "burying"}
    /\ held \in Jobs \cup {None}
    /\ clock \in 0..MaxClock
    /\ relaunch \in [Jobs -> Nat]

\* While the worker thread lives, the only row in_progress is the one it
\* holds; without a thread at most one row waits for recover_in_progress.
\* recover_in_progress may therefore take every in_progress row for stuck.
InProgressIsHeld ==
    /\ Working => \A j \in Jobs : Is(j, "in_progress") => j = held
    /\ \A i, j \in Jobs : Is(i, "in_progress") /\ Is(j, "in_progress") => i = j

\* enqueue coalesces: of the pending rows of one (path, action), at most one
\* was never tried, whatever operators and recoveries put back next to it.
OneFreshPendingPerKey ==
    \A i, j \in Jobs :
        /\ Is(i, "pending") /\ Is(j, "pending")
        /\ row[i].key = row[j].key
        /\ row[i].attempts = 0 /\ row[j].attempts = 0
        => i = j

\* No path of the code retries on its own: a job is tried once, plus once for
\* each time an operator or a restart put it back (a pending row has its next
\* try still to come).  It is what the code does, not what its documentation
\* promises: see FailedIsTriedAgain.
TriesAreAsked ==
    \A j \in Jobs :
        row[j].attempts + (IF Is(j, "pending") THEN 1 ELSE 0) <= 1 + relaunch[j]

\* next_retry_at never delays a pending row: the clause of dequeue that
\* honours it has nothing to act on.
BackoffNeverDefers ==
    \A j \in Jobs : Is(j, "pending") => row[j].backoff = "none"

\* A verdict agrees with the count it was computed from, although the count
\* is read in one transaction and the verdict written in the next, with
\* operators' relaunches and restarts between them: dead means max_attempts
\* were used, failed means some were left.
VerdictMatchesAttempts ==
    \A j \in Jobs :
        /\ Is(j, "dead") => row[j].attempts >= row[j].budget
        /\ Is(j, "failed") => row[j].attempts < row[j].budget

\* What queue.py announces (backoff, then 'dead' once max_attempts are used):
\* as long as a worker runs, a failed job with attempts left does not stay
\* failed.  Untrue: dequeue looks at pending rows only, and nothing but an
\* operator puts a failed row back to pending.
FailedIsTriedAgain ==
    <>[]Working => \A j \in Jobs :
        (Is(j, "failed") /\ row[j].attempts < row[j].budget) ~> ~Is(j, "failed")

\* A pending row that the worker is not holding leaves that status only by
\* being taken by the worker, or deleted for a newer pending row of its key:
\* no request for a file is dropped between enqueue and dequeue.
NoRequestDropped ==
    [][\A j \in Jobs :
         Is(j, "pending") /\ j # held =>
            \/ row'[j].status \in {"pending", "in_progress"}
            \/ /\ row'[j].status = "deleted"
               /\ \E i \in Jobs : /\ Is(i, "unused")
                                  /\ row'[i].status = "pending"
                                  /\ row'[i].key = row[j].key]_vars

\* Once the process stays up, a pending row is eventually taken or replaced,
\* unless the worker thread died while the process lives on: nothing starts
\* it again then.
PendingIsServed ==
    <>[]up => \A j \in Jobs : Is(j, "pending") ~> (~Is(j, "pending") \/ ~Working)

\* The queue keeps the promise of RequestLedger: whatever callers, operators,
\* crashes and restarts do to the rows, a key with a request nobody handles keeps
\* one until the worker takes it, and one key is handled at a time.  A row that is
\* put back under the worker's hands belongs to the worker until it settles.
Waiting == {row[j].key : j \in {i \in Jobs : Is(i, "pending") /\ i # held}}
Handled == {row[j].key : j \in {i \in Jobs : Is(i, "in_progress")}}
Ledger == INSTANCE RequestLedger WITH wanted <- Waiting, served <- Handled
KeepsLedger == Ledger!Spec
=============================================================================
