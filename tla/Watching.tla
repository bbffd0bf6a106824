------------------------------ MODULE Watching ------------------------------
(***************************************************************************)
(* Which files the watcher looks after: the two filters (the observer's    *)
(* _should_ignore and the reconciler's _is_eligible), the watched roots    *)
(* that come and go, and the limit of a scan.                              *)
(*                                                                         *)
(* The roots are network shares (observer.py:5).  A share that is away     *)
(* leaves either nothing at its path or an empty mount point, and the code *)
(* treats the two differently.  watchdog's PollingObserver is external: an *)
(* emitter compares snapshots of its root and ends when the root is not    *)
(* there.  A scan and a job are one step each: what happens in the middle  *)
(* of them, moves between two files of the index and the contents of the   *)
(* files are in IndexSync.                                                 *)
(***************************************************************************)
EXTENDS Integers, Sequences, FiniteSets, SequencesExt

CONSTANTS
    Roots,      \* watched_paths
    Order,      \* the files there may be, in the order a scan meets them
    Root,       \* the root each file is in
    Admitted,   \* files whose extension, prefix and size both filters accept
    Excluded,   \* files in an excluded directory or of an excluded extension
    Readable,   \* files one of the parsers of ParserFactory accepts
    MaxScan,    \* MAX_SCAN_FILES
    MaxOps      \* bound: what users and operators do

Files == ToSet(Order)

ASSUME WatchingAssumption ==
    /\ IsInjective(Order)
    /\ Root \in [Files -> Roots]
    /\ MaxScan \in Nat /\ MaxOps \in Nat

VARIABLES
    present,    \* the files of the shares
    mount,      \* Roots -> what is at the path of the root
    running,         \* the service runs
    observed,   \* roots with an emitter that is alive
    seen,       \* files, as they are, in the snapshots of the emitters
    due,       \* Files -> action of the event being debounced, "" if none
    queue,      \* pending rows of the job table, oldest first
    indexed,    \* paths of the live rows of `documents`
    dirty,      \* files whose quick hash is not the recorded one
    ops

watchVars == <<present, mount, running, observed, seen, due, queue, indexed, dirty, ops>>
service == <<running, observed, due, queue, indexed>>

-----------------------------------------------------------------------------
Reachable(p) == p \in present /\ mount[Root[p]] = "on"
Here == {p \in Files : Reachable(p)}

WatchTypeOK ==
    /\ present \subseteq Files /\ seen \subseteq Files
    /\ indexed \subseteq Files /\ dirty \subseteq Files
    /\ mount \in [Roots -> {"on", "empty", "absent"}]
    /\ running \in BOOLEAN /\ observed \subseteq Roots
    /\ due \in [Files -> {"", "upsert", "delete"}]
    /\ \A i \in DOMAIN queue :
          queue[i] \in [path: Files, action: {"upsert", "delete"}, prio: {-1, 0}]
    /\ ops \in 0..MaxOps

NoneDue == [p \in Files |-> ""]

\* FileWatcher.start: only the roots found at that moment get an emitter, and
\* its first snapshot reports nothing.
Observable == {r \in Roots : mount[r] # "absent"}

WatchInit ==
    /\ present \in SUBSET Files
    /\ mount \in [Roots -> {"on", "empty", "absent"}]
    /\ running = TRUE
    /\ observed = Observable
    /\ seen = Here
    /\ due = NoneDue /\ queue = <<>> /\ indexed = {} /\ dirty = Files
    /\ ops = 0

-----------------------------------------------------------------------------
(* Users, shares and operators. *)

Op == ops < MaxOps /\ ops' = ops + 1

\* A file is created or written again, or renamed from a temporary name: the
\* next snapshot differs at its path.
WriteFile(p) ==
    /\ Op
    /\ mount[Root[p]] = "on"
    /\ present' = present \cup {p}
    /\ dirty' = dirty \cup {p}
    /\ seen' = seen \ {p}
    /\ UNCHANGED <<mount, service>>

TakeAway(p) ==
    /\ Op
    /\ Reachable(p)
    /\ present' = present \ {p}
    /\ UNCHANGED <<mount, seen, dirty, service>>

\* Renamed to a name the observer ignores: on_moved filters the destination,
\* so the source gets no event either.
HideName(p) ==
    /\ Op
    /\ Reachable(p)
    /\ present' = present \ {p}
    /\ seen' = seen \ {p}
    /\ UNCHANGED <<mount, dirty, service>>

Mount(r, s) ==
    /\ Op
    /\ mount[r] # s
    /\ mount' = [mount EXCEPT ![r] = s]
    /\ UNCHANGED <<present, seen, dirty, service>>

\* The job table stays; the timers and the snapshots do not.
Stop ==
    /\ Op
    /\ running /\ running' = FALSE
    /\ observed' = {} /\ due' = NoneDue
    /\ UNCHANGED <<present, mount, seen, queue, indexed, dirty>>

Start ==
    /\ ~running /\ running' = TRUE
    /\ observed' = Observable
    /\ seen' = Here
    /\ UNCHANGED <<present, mount, due, queue, indexed, dirty, ops>>

-----------------------------------------------------------------------------
(* The observer. *)

\* _should_ignore and _is_eligible.  Only the first knows of exclusions.
Watched(p) == p \in Admitted \ Excluded
Eligible(p) == p \in Admitted

\* _on_file_event: the last event of a path replaces the one being debounced.
Report(p, action) ==
    due' = IF Watched(p) THEN [due EXCEPT ![p] = action] ELSE due

Notice(p) ==
    /\ Root[p] \in observed /\ mount[Root[p]] # "absent"
    /\ \/ /\ Reachable(p) /\ p \notin seen
          /\ seen' = seen \cup {p}
          /\ Report(p, "upsert")
       \/ /\ ~Reachable(p) /\ p \in seen
          /\ seen' = seen \ {p}
          /\ Report(p, "delete")
    /\ UNCHANGED <<present, mount, running, observed, queue, indexed, dirty, ops>>

\* The snapshot of an absent root fails: the emitter reports the directory,
\* an event no handler looks at, and ends.  Nothing starts another.
EmitterEnds(r) ==
    /\ r \in observed /\ mount[r] = "absent"
    /\ observed' = observed \ {r}
    /\ UNCHANGED <<present, mount, running, seen, due, queue, indexed, dirty, ops>>

\* The thread of an emitter.
Emitter(r) == EmitterEnds(r) \/ \E p \in Files : Root[p] = r /\ Notice(p)

\* enqueue, for jobs of distinct paths and actions: a pending row of the same
\* path and action is cancelled.
With(q, jobs) ==
    SelectSeq(q, LAMBDA k : \A i \in DOMAIN jobs :
                                jobs[i].path # k.path \/ jobs[i].action # k.action) \o jobs
Job(p, action, prio) == [path |-> p, action |-> action, prio |-> prio]

\* _fire_job.
Fire(p) ==
    /\ running /\ due[p] # ""
    /\ due' = [due EXCEPT ![p] = ""]
    /\ queue' = With(queue, <<Job(p, due[p], 0)>>)
    /\ UNCHANGED <<present, mount, running, observed, seen, indexed, dirty, ops>>

-----------------------------------------------------------------------------
(* The reconciler. *)

\* _collect_disk_files: a root that is not there is skipped, and the files
\* beyond the limit are not listed.
\* Mutant: only the roots that are observed are scanned.
MetObserved == SelectSeq(Order, LAMBDA p : Reachable(p) /\ Eligible(p) /\ Root[p] \in observed)
Met == SelectSeq(Order, LAMBDA p : Reachable(p) /\ Eligible(p))
Listed == ToSet(SubSeq(Met, 1, IF Len(Met) < MaxScan THEN Len(Met) ELSE MaxScan))

\* run_full_scan: new and changed files, then what is indexed and not listed.
Changed == {p \in Listed : p \notin indexed \/ p \in dirty}
Missing == indexed \ Listed

JobsOf(S, action) ==
    LET of == SelectSeq(Order, LAMBDA p : p \in S)
    IN [i \in DOMAIN of |-> Job(of[i], action, -1)]

Scan ==
    /\ running
    /\ queue' = With(queue, JobsOf(Changed, "upsert") \o JobsOf(Missing, "delete"))
    /\ UNCHANGED <<present, mount, running, observed, seen, due, indexed, dirty, ops>>

-----------------------------------------------------------------------------
(* The worker. *)

\* dequeue: ORDER BY priority DESC, created_at ASC.
Next1 ==
    CHOOSE i \in DOMAIN queue :
        /\ \A k \in DOMAIN queue : queue[k].prio <= queue[i].prio
        /\ \A k \in 1..(i - 1) : queue[k].prio < queue[i].prio

\* _handle_upsert: a file that is gone ends the job; a file that no parser
\* takes makes it fail before any row is saved, for good after its attempts.
\* Mutant: the quick hash is not saved.
UpsertUnhashed(p) ==
    LET done == {p} \cap Here \cap Readable
    IN indexed' = indexed \cup done /\ UNCHANGED dirty
Upsert(p) ==
    LET done == {p} \cap Here \cap Readable
    IN indexed' = indexed \cup done /\ dirty' = dirty \ done

\* _handle_delete does not look whether the file is there.
Delete(p) == indexed' = indexed \ {p} /\ UNCHANGED dirty

Work ==
    /\ running /\ queue # <<>>
    /\ LET j == queue[Next1]
       IN IF j.action = "upsert" THEN Upsert(j.path) ELSE Delete(j.path)
    /\ queue' = RemoveAt(queue, Next1)
    /\ UNCHANGED <<present, mount, running, observed, seen, due, ops>>

-----------------------------------------------------------------------------
User ==
    \/ \E p \in Files : WriteFile(p) \/ TakeAway(p) \/ HideName(p)
    \/ \E r \in Roots, s \in {"on", "empty", "absent"} : Mount(r, s)
    \/ Stop

WatchNext ==
    \/ User
    \/ Start
    \/ \E r \in Roots : Emitter(r)
    \/ \E p \in Files : Fire(p)
    \/ Scan
    \/ Work

WatchSpec == WatchInit /\ [][WatchNext]_watchVars

\* The threads of the service run - an emitter per root, the timers of the
\* debounce, the reconciler, the worker; Docker restarts the container.
WatchFairness ==
    /\ WF_watchVars(Start) /\ WF_watchVars(Scan) /\ WF_watchVars(Work)
    /\ \A p \in Files : WF_watchVars(Fire(p))
    /\ \A r \in Roots : WF_watchVars(Emitter(r))
WatchFairSpec == WatchSpec /\ WatchFairness

-----------------------------------------------------------------------------
(* Properties. *)

\* What is to be indexed: the filters of the observer let it through, a
\* parser takes it and its share is there.  The excluded files are not part of
\* it, but a scan counts them towards its limit.
Indexable == {p \in Files : Reachable(p) /\ Watched(p) /\ p \in Readable}
Crowded == Cardinality({p \in Files : Reachable(p) /\ Eligible(p)}) > MaxScan

\* Once the shares are left alone, and as long as the worker empties the queue
\* now and then, what is to be indexed is indexed, unless a scan cannot list
\* all of it: a root that comes back is indexed again although nobody observes
\* it any more (reconciler.py:229).  What is still indexed of a share that is
\* there is on it: a file that went without an event is dropped.  Of a share
\* that is away nothing is said.
Gone == {p \in indexed : mount[Root[p]] = "on"} \ present
IndexFollowsShares ==
    []<>(queue = <<>>) =>
        <>[](Gone = {} /\ (~Crowded => Indexable \subseteq indexed))

\* Scans then find nothing to do and the queue stays empty, except for files
\* that no parser takes: each scan asks for them again (reconciler.py:181).
ScansSettle ==
    \/ <>[](queue = <<>>)
    \/ []<>(\E p \in Files : Reachable(p) /\ p \in Admitted \ Readable)

\* What constants.py:50 names and the observer filters: no file of an excluded
\* directory gets into the index.  Untrue: the scan does not look at exclusions
\* (reconciler.py:259).
ExcludedStayOut == indexed \cap Excluded = {}
=============================================================================
