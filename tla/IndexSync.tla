----------------------------- MODULE IndexSync ------------------------------
(***************************************************************************)
(* From a file on disk to its chunks in the two search engines: observer,  *)
(* debounce, job queue, worker, state store, chunk cleaner, ingestion and  *)
(* reconciler of the watcher together.                                     *)
(*                                                                         *)
(* JobQueue and Debounce model the queue and the debounce on their own;    *)
(* here the queue is the sequence of its pending rows, oldest first, and   *)
(* the debounce is the last event of each path.  The worker is one thread; *)
(* each of its calls to the disk, to SQLite, to Qdrant or to OpenSearch is *)
(* an action, so files change and other threads run between two of them.   *)
(***************************************************************************)
EXTENDS Integers, Sequences, FiniteSets

CONSTANTS
    Paths,      \* eligible files, by resolved path
    Names,      \* base names
    Indexes,    \* index (= collection) names
    MaxDocs,    \* bound: live rows of `documents` at one time
    None,
    Name,       \* Path.name of each path
    Index,      \* derive_index_name of each path
    Content,    \* what the SHA-256 tells apart, for each version of a file
    Chunks,     \* number of chunks of each content
    Scenarios,  \* what happens in an instance: the files there are, how many
                \* versions are written, what users and operators do, and what
                \* may go wrong
    MaxAsks     \* bound: moves of files and calls of the HTTP API

\* Of the contents, one has the most chunks.
ASSUME SyncAssumption ==
    /\ Name \in [Paths -> Names]
    /\ Index \in [Paths -> Indexes]
    /\ DOMAIN Content \subseteq Nat \ {0}
    /\ \A v \in DOMAIN Content : Chunks[Content[v]] \in Nat
    /\ \E v \in DOMAIN Content :
          \A w \in DOMAIN Content : Chunks[Content[w]] <= Chunks[Content[v]]
    /\ Scenarios \subseteq
          [paths: SUBSET Paths, versions: Nat,
           ops: SUBSET {"write", "remove", "move", "reindex", "drop"},
           faults: SUBSET {"crash", "missed", "unstable", "store", "vanish", "scan"}]
    /\ MaxDocs \in Nat /\ MaxAsks \in Nat

Versions == DOMAIN Content      \* bound: a version is written once
Contents == {Content[v] : v \in Versions}
MaxChunks == CHOOSE n \in {Chunks[c] : c \in Contents} : \A c \in Contents : Chunks[c] <= n
Stores == {"qdrant", "opensearch"}

VARIABLES
    scenario,   \* the one that is played; no handler reads it
    disk,       \* Paths -> version of the file, 0 when there is none
    next,       \* the next version to be written
    asks,       \* moves and calls of the HTTP API made so far
    up,         \* the process runs
    slot,       \* Paths -> last event being debounced, or None
    queue,      \* the pending rows of the job table
    doc,        \* the live rows of `documents`
    rows,       \* the chunks in each store, by (index, document_id, number)
    pc, job,    \* the worker thread: its next call and its local variables
    scan        \* the reconciler thread

vars == <<scenario, disk, next, asks, up, slot, queue, doc, rows, pc, job, scan>>

-----------------------------------------------------------------------------
Actions == {"upsert", "delete", "move"}
Request == [path: Paths, action: Actions, old: Paths \cup {None}, prio: {-1, 0, 1}]
Event == [action: Actions, old: Paths \cup {None}]

\* quick_hash covers path, size and date; an empty hash is NoHash / None.
QuickHash(p, v) == [path |-> p, version |-> v]
NoHash == QuickHash(None, 0)
Hash == [path: Paths \cup {None}, version: Versions \cup {0}]
Doc == [path: Paths, name: Names, index: Indexes, qh: Hash, ch: Contents \cup {None}]

ASSUME NoneAssumption ==
    /\ None \notin Paths \cup Names \cup Indexes \cup Contents
    /\ None \notin Request \cup Event \cup Doc

NoJob == [req |-> None, doc |-> 0, index |-> None, name |-> None,
          qh |-> NoHash, ch |-> None, read |-> None]
NoScan == [at |-> "idle", found |-> [p \in Paths |-> 0], indexed |-> {}, todo |-> {}]

Docs == 1..MaxDocs
NoChunks == [i \in 1..MaxChunks |-> None]

Init ==
    /\ scenario \in Scenarios
    /\ disk = [p \in Paths |-> 0]
    /\ next = 1
    /\ asks = 0
    /\ up = TRUE
    /\ slot = [p \in Paths |-> None]
    /\ queue = <<>>
    /\ doc = [d \in Docs |-> None]
    /\ rows = [s \in Stores |-> [k \in Indexes \X Names |-> NoChunks]]
    /\ pc = "idle" /\ job = NoJob
    /\ scan = NoScan

Live == {d \in Docs : doc[d] # None}
At(p) == {d \in Live : doc[d].path = p}

\* get_document_by_path: nothing makes the path unique, and SQLite returns the
\* oldest row.
Known(p) == At(p) # {}
DocumentAt(p) == CHOOSE d \in At(p) : \A e \in At(p) : d <= e

\* A new row comes after all others; tombstones are left out, no handler
\* reads them.
Unborn == {d \in Docs : \A e \in Live : e < d}
NewDocument == CHOOSE d \in Unborn : \A e \in Unborn : d <= e

IndexedPaths == {doc[d].path : d \in Live}

-----------------------------------------------------------------------------
(* The queue. *)

\* The rows at the places K, in their order: SelectSeq by place, which the
\* provers can unfold.
Rows(q, K) ==
    LET among[n \in 0..Len(q)] ==
            IF n = 0 THEN <<>>
            ELSE IF n \in K THEN Append(among[n - 1], q[n]) ELSE among[n - 1]
    IN  among[Len(q)]

\* Of one (path, action) only the newest request stays.
\* Mutant: the newest request of a path replaces all others.
WithOnePerPath(q, r) == Append(Rows(q, {i \in DOMAIN q : q[i].path # r.path}), r)
With(q, r) ==
    Append(Rows(q, {i \in DOMAIN q : q[i].path # r.path \/ q[i].action # r.action}), r)

Ask(p, a, old, prio) == [path |-> p, action |-> a, old |-> old, prio |-> prio]

\* Highest priority first, then the oldest.
IsFirst(i) ==
    /\ \A k \in DOMAIN queue : queue[k].prio <= queue[i].prio
    /\ \A k \in 1..(i - 1) : queue[k].prio < queue[i].prio

Without(q, i) == Rows(q, DOMAIN q \ {i})

-----------------------------------------------------------------------------
(* Users change files; the observer, when it runs, sees the change. *)

Seen(p, a, old) ==
    \/ up /\ slot' = [slot EXCEPT ![p] = [action |-> a, old |-> old]]
    \/ (~up \/ "missed" \in scenario.faults) /\ UNCHANGED slot

\* Without "vanish", a file stays in place while the worker handles it.
Untouched(p) == "vanish" \notin scenario.faults /\ pc # "idle" => job.req.path # p

Write(p) ==
    /\ "write" \in scenario.ops
    /\ next \in Versions /\ next <= scenario.versions
    /\ disk' = [disk EXCEPT ![p] = next]
    /\ next' = next + 1
    /\ Seen(p, "upsert", None)
    /\ UNCHANGED <<scenario, asks, up, queue, doc, rows, pc, job, scan>>

Remove(p) ==
    /\ "remove" \in scenario.ops
    /\ disk[p] # 0
    /\ Untouched(p)
    /\ disk' = [disk EXCEPT ![p] = 0]
    /\ Seen(p, "delete", None)
    /\ UNCHANGED <<scenario, next, asks, up, queue, doc, rows, pc, job, scan>>

\* The event of a move is debounced under the destination.
Move(p, q) ==
    /\ "move" \in scenario.ops
    /\ disk[p] # 0 /\ p # q
    /\ Untouched(p)
    /\ asks < MaxAsks /\ asks' = asks + 1
    /\ disk' = [disk EXCEPT ![p] = 0, ![q] = disk[p]]
    /\ Seen(q, "move", p)
    /\ UNCHANGED <<scenario, next, up, queue, doc, rows, pc, job, scan>>

Fire(p) ==
    /\ slot[p] # None
    /\ slot' = [slot EXCEPT ![p] = None]
    /\ queue' = With(queue, Ask(p, slot[p].action, slot[p].old, 0))
    /\ UNCHANGED <<scenario, disk, next, asks, up, doc, rows, pc, job, scan>>

\* POST /reindex and DELETE /document.
Call(p, op, a) ==
    /\ up
    /\ op \in scenario.ops
    /\ asks < MaxAsks
    /\ asks' = asks + 1
    /\ queue' = With(queue, Ask(p, a, None, 1))
    /\ UNCHANGED <<scenario, disk, next, up, slot, doc, rows, pc, job, scan>>
Reindex(p) == Call(p, "reindex", "upsert")
Drop(p) == Call(p, "drop", "delete")

-----------------------------------------------------------------------------
(* The worker. *)

Goto(l) == pc' = l /\ UNCHANGED job
Finish == pc' = "idle" /\ job' = NoJob
OnlyWorker == UNCHANGED <<scenario, disk, next, asks, up, slot, scan>>

Take ==
    /\ up /\ pc = "idle"
    /\ \E i \in DOMAIN queue :
         /\ IsFirst(i)
         /\ job' = [NoJob EXCEPT !.req = queue[i]]
         /\ pc' = queue[i].action
         /\ queue' = Without(queue, i)
    /\ OnlyWorker /\ UNCHANGED <<doc, rows>>

\* _handle_upsert until the hashes: the file is gone, or is not stable, or
\* quick_hash reads its date.
UpsertStarts ==
    /\ pc = "upsert"
    /\ LET p == job.req.path IN
         \/ disk[p] = 0 /\ Finish
         \/ disk[p] # 0 /\ "unstable" \in scenario.faults /\ Finish
         \/ /\ disk[p] # 0
            /\ job' = [job EXCEPT !.qh = QuickHash(p, disk[p])]
            /\ pc' = "hash"
    /\ OnlyWorker /\ UNCHANGED <<queue, doc, rows>>

\* content_hash, then the decision: an indexed document with this content is
\* skipped; a known document is cleaned first; a new one is not.
\* Mutant: the skip leaves the row as it was.
SkipKeepsHash(p) == Finish /\ UNCHANGED doc
Skip(p) ==
    /\ doc' = [doc EXCEPT ![DocumentAt(p)].qh = job.qh]
    /\ Finish

\* Mutant: new chunks are written over the old ones.
ReplaceInPlace(p, c) ==
    /\ LET d == DocumentAt(p) IN
         job' = [job EXCEPT !.ch = c, !.doc = d, !.index = doc[d].index, !.name = doc[d].name]
    /\ pc' = "parse"
    /\ UNCHANGED doc
Replace(p, c) ==
    /\ LET d == DocumentAt(p) IN
         job' = [job EXCEPT !.ch = c, !.doc = d, !.index = doc[d].index, !.name = doc[d].name]
    /\ pc' = "clean_qdrant"
    /\ UNCHANGED doc

Discover(p, c) ==
    /\ job' = [job EXCEPT !.ch = c, !.index = Index[p], !.name = Name[p]]
    /\ pc' = "parse"
    /\ UNCHANGED doc

Decide(p, c) ==
    \/ ~Known(p) /\ Discover(p, c)
    \/ Known(p) /\ doc[DocumentAt(p)].ch = c /\ Skip(p)
    \/ Known(p) /\ doc[DocumentAt(p)].ch # c /\ Replace(p, c)

UpsertHashes ==
    /\ pc = "hash"
    /\ LET p == job.req.path IN
         IF disk[p] = 0 THEN Finish /\ UNCHANGED doc ELSE Decide(p, Content[disk[p]])
    /\ OnlyWorker /\ UNCHANGED <<queue, rows>>

\* A call to a store: it answers, or the job fails.
Store(l, s, k, new, then) ==
    /\ pc = l
    /\ \/ rows' = [rows EXCEPT ![s][k] = new] /\ Goto(then)
       \/ "store" \in scenario.faults /\ Finish /\ UNCHANGED rows
    /\ OnlyWorker /\ UNCHANGED <<queue, doc>>

Key == <<job.index, job.name>>

\* delete_document_chunks, from the two handlers that call it.
CleanQdrant == Store("clean_qdrant", "qdrant", Key, NoChunks, "clean_opensearch")
CleanOpenSearch == Store("clean_opensearch", "opensearch", Key, NoChunks,
                         IF job.req.action = "delete" THEN "tombstone" ELSE "parse")

\* ingest_file reads the file again.
Parse ==
    /\ pc = "parse"
    /\ LET v == disk[job.req.path] IN
         IF v = 0 THEN Finish
         ELSE /\ job' = [job EXCEPT !.read = Content[v]]
              /\ pc' = IF Chunks[Content[v]] = 0 THEN "record" ELSE "ingest_qdrant"
    /\ OnlyWorker /\ UNCHANGED <<queue, doc, rows>>

\* The identifier of a chunk is the base name and its number: the new chunks
\* replace those of the same number and leave the others.
Overlay(old, c) == [i \in DOMAIN old |-> IF i <= Chunks[c] THEN c ELSE old[i]]
IngestKey == <<job.index, Name[job.req.path]>>
Ingest(l, s, then) == Store(l, s, IngestKey, Overlay(rows[s][IngestKey], job.read), then)
IngestQdrant == Ingest("ingest_qdrant", "qdrant", "ingest_opensearch")
IngestOpenSearch == Ingest("ingest_opensearch", "opensearch", "record")

\* stat() of the file, then upsert_document, with the hashes read at the start.
\* Mutants: quick_hash is taken again here; every indexing makes a new row.
IndexedRestat ==
    [path |-> job.req.path, name |-> job.name, index |-> job.index,
     qh |-> QuickHash(job.req.path, disk[job.req.path]), ch |-> job.ch]
Indexed == [path |-> job.req.path, name |-> job.name, index |-> job.index,
            qh |-> job.qh, ch |-> job.ch]

RowOf == IF job.doc # 0 THEN job.doc ELSE NewDocument

\* Bound: a row is left for a new document.
Record ==
    /\ pc = "record"
    /\ job.doc = 0 => Unborn # {}
    /\ doc' = IF disk[job.req.path] = 0 THEN doc ELSE [doc EXCEPT ![RowOf] = Indexed]
    /\ Finish
    /\ OnlyWorker /\ UNCHANGED <<queue, rows>>

\* _handle_delete: of an unknown path the chunks are sought by base name.
DeleteStarts ==
    /\ pc = "delete"
    /\ LET p == job.req.path
           d == DocumentAt(p)
       IN job' = IF Known(p)
                 THEN [job EXCEPT !.doc = d, !.index = doc[d].index, !.name = doc[d].name]
                 ELSE [job EXCEPT !.index = Index[p], !.name = Name[p]]
    /\ pc' = "clean_qdrant"
    /\ OnlyWorker /\ UNCHANGED <<queue, doc, rows>>

Tombstone ==
    /\ pc = "tombstone"
    /\ doc' = [d \in Docs |-> IF d = job.doc THEN None ELSE doc[d]]
    /\ Finish
    /\ OnlyWorker /\ UNCHANGED <<queue, rows>>

\* _handle_move: name and path of the document follow the file, its index and
\* the document_id of its chunks do not; only the file_path shown with the
\* chunks is rewritten, and the failure of that is swallowed.
MoveDocument(d, p) == [doc EXCEPT ![d].path = p, ![d].name = Name[p]]
Moves ==
    /\ pc = "move"
    /\ LET p == job.req.path
           src == IF job.req.old # None THEN job.req.old ELSE p
           d == DocumentAt(src)
       IN \/ ~Known(src) /\ Goto("upsert") /\ UNCHANGED doc
          \/ /\ Known(src)
             /\ doc' = MoveDocument(d, p)
             /\ Finish
    /\ OnlyWorker /\ UNCHANGED <<queue, rows>>

Worker ==
    \/ Take
    \/ UpsertStarts \/ UpsertHashes \/ CleanQdrant \/ CleanOpenSearch
    \/ Parse \/ IngestQdrant \/ IngestOpenSearch \/ Record
    \/ DeleteStarts \/ Tombstone \/ Moves

-----------------------------------------------------------------------------
(* The reconciler: disk, then store, then one enqueue at a time. *)

OnlyScan == UNCHANGED <<scenario, disk, next, asks, up, slot, doc, rows, pc, job>>

\* Files can be missed: root not mounted, stat() raising, MAX_SCAN_FILES.
ScanDisk ==
    /\ up /\ scan.at = "idle"
    /\ \E missed \in SUBSET Paths :
         /\ "scan" \in scenario.faults \/ missed = {}
         /\ scan' = [scan EXCEPT !.at = "index",
                       !.found = [p \in Paths |-> IF p \in missed THEN 0 ELSE disk[p]]]
    /\ UNCHANGED queue /\ OnlyScan

ScanIndex ==
    /\ scan.at = "index"
    /\ scan' = [scan EXCEPT !.at = "found", !.indexed = IndexedPaths,
                  !.todo = {p \in Paths : scan.found[p] # 0}]
    /\ UNCHANGED queue /\ OnlyScan

\* Not indexed when the index was read, or indexed with another quick_hash.
\* Mutant: a modified file is not noticed.
StaleNew(p) == p \notin scan.indexed
Stale(p) ==
    \/ p \notin scan.indexed
    \/ Known(p) /\ doc[DocumentAt(p)].qh # QuickHash(p, scan.found[p])

ScanFound(p) ==
    /\ scan.at = "found" /\ p \in scan.todo
    /\ scan' = [scan EXCEPT !.todo = @ \ {p}]
    /\ queue' = IF Stale(p) THEN With(queue, Ask(p, "upsert", None, -1)) ELSE queue
    /\ OnlyScan

ScanTurns ==
    /\ scan.at = "found" /\ scan.todo = {}
    /\ scan' = [scan EXCEPT !.at = "absent", !.todo = {p \in scan.indexed : scan.found[p] = 0}]
    /\ UNCHANGED queue /\ OnlyScan

ScanAbsent(p) ==
    /\ scan.at = "absent" /\ p \in scan.todo
    /\ scan' = [scan EXCEPT !.todo = @ \ {p}]
    /\ queue' = With(queue, Ask(p, "delete", None, -1))
    /\ OnlyScan

ScanEnds ==
    /\ scan.at = "absent" /\ scan.todo = {}
    /\ scan' = NoScan
    /\ UNCHANGED queue /\ OnlyScan

Reconciler ==
    \/ ScanDisk \/ ScanIndex \/ ScanTurns \/ ScanEnds
    \/ \E p \in Paths : ScanFound(p) \/ ScanAbsent(p)

-----------------------------------------------------------------------------
(* The process. *)

\* The row in progress keeps its created_at: recover_in_progress puts it back
\* before the other rows of its priority.
Crash ==
    /\ "crash" \in scenario.faults
    /\ up
    /\ up' = FALSE
    /\ slot' = [p \in Paths |-> None]
    /\ queue' = IF job.req = None THEN queue ELSE <<job.req>> \o queue
    /\ pc' = "idle" /\ job' = NoJob
    /\ scan' = NoScan
    /\ UNCHANGED <<scenario, disk, next, asks, doc, rows>>

Restart ==
    /\ ~up
    /\ up' = TRUE
    /\ UNCHANGED <<scenario, disk, next, asks, slot, queue, doc, rows, pc, job, scan>>

Users ==
    \E p \in scenario.paths : \/ Write(p) \/ Remove(p) \/ Reindex(p) \/ Drop(p)
                              \/ \E q \in scenario.paths : Move(p, q)

Next ==
    \/ Users
    \/ \E p \in Paths : Fire(p)
    \/ Worker
    \/ Reconciler
    \/ Crash
    \/ Restart

Spec == Init /\ [][Next]_vars

\* The worker polls its queue, timers fire, the reconciler scans again every
\* five minutes, and Docker restarts the process.  Users, and faults, owe
\* nothing.
FairSpec ==
    /\ Spec
    /\ WF_vars(Worker)
    /\ WF_vars(Reconciler)
    /\ WF_vars(Restart)
    /\ \A p \in Paths : WF_vars(Fire(p))

-----------------------------------------------------------------------------
(* Properties. *)

Stages == {"idle", "upsert", "delete", "move", "hash", "clean_qdrant", "clean_opensearch",
           "parse", "ingest_qdrant", "ingest_opensearch", "record", "tombstone"}
Job == [req: Request \cup {None}, doc: 0..MaxDocs,
        index: Indexes \cup {None}, name: Names \cup {None},
        qh: Hash, ch: Contents \cup {None}, read: Contents \cup {None}]
Scan == [at: {"idle", "index", "found", "absent"}, found: [Paths -> Versions \cup {0}],
         indexed: SUBSET Paths, todo: SUBSET Paths]

\* Domains.
TypeOK ==
    /\ scenario \in Scenarios
    /\ disk \in [Paths -> Versions \cup {0}]
    /\ next \in Nat /\ asks \in Nat
    /\ up \in BOOLEAN
    /\ slot \in [Paths -> Event \cup {None}]
    /\ queue \in Seq(Request)
    /\ doc \in [Docs -> Doc \cup {None}]
    /\ rows \in [Stores -> [Indexes \X Names -> [1..MaxChunks -> Contents \cup {None}]]]
    /\ pc \in Stages /\ job \in Job
    /\ scan \in Scan

OnDisk == {p \in Paths : disk[p] # 0}

\* All chunks of the file as it is now are in the store, under some document_id.
Searchable(p, s) ==
    LET c == Content[disk[p]] IN
    \E k \in DOMAIN rows[s] : \A i \in 1..Chunks[c] : rows[s][k][i] = c

\* Somebody has a request for the path in hand.
Asked(p) ==
    \/ pc # "idle" /\ job.req.path = p
    \/ \E i \in DOMAIN queue : queue[i].path = p

\* The row of the state store describes the file as it is now: the reconciler
\* has nothing to say about it.
Fresh(p) == Known(p) /\ doc[DocumentAt(p)].qh = QuickHash(p, disk[p])

Moving == "move" \in scenario.ops

\* No two files of an index have the same base name: they would share the
\* identifiers of their chunks.
NoHomonyms ==
    \A p, q \in scenario.paths : Index[p] = Index[q] /\ Name[p] = Name[q] => p = q

\* A content that was replaced does not come back.  If it did, while the row still
\* has its hash, UpsertHashes would skip the file, whatever its chunks are.
NeverRestored ==
    \A u, v, w \in Versions :
        u <= v /\ v <= w /\ Content[u] = Content[w] => Content[v] = Content[u]

\* A file that the reconciler takes for indexed is in both engines, or a job
\* about it is pending or under way - across crashes, missed events, files
\* that vanish or change under the worker, and scans that are stale or that miss
\* files.  (An engine that fails during a delete leaves the file fresh and half
\* removed; a file that moves may lose its chunks: ReconciledIsComplete.)
FreshIsSearchable ==
    "store" \notin scenario.faults /\ ~Moving /\ NoHomonyms /\ NeverRestored =>
        \A p \in OnDisk : Fresh(p) => Asked(p) \/ \A s \in Stores : Searchable(p, s)

\* Nothing is pending or under way, and a scan would enqueue nothing.
Reconciled ==
    /\ up /\ queue = <<>> /\ pc = "idle" /\ scan = NoScan
    /\ \A p \in Paths : slot[p] = None
    /\ \A p \in OnDisk : Fresh(p)
    /\ IndexedPaths \subseteq OnDisk

\* reconciler.py: "garantit la coherence entre ce qui est sur le disque et ce
\* qui est indexe".  Once reconciled, every file is in both engines...
ReconciledIsComplete ==
    Reconciled => \A p \in OnDisk, s \in Stores : Searchable(p, s)

\* ... and no chunk is left of a file that was removed, or of contents that
\* were replaced - unless the process died, an engine failed, or the file vanished,
\* between the writing of the chunks and that of the row.
ReconciledIsClean ==
    Reconciled /\ {"crash", "vanish", "store"} \cap scenario.faults = {}
    /\ ~Moving /\ NeverRestored =>
        \A s \in Stores : \A k \in DOMAIN rows[s] : \A i \in 1..MaxChunks :
            rows[s][k][i] \in {Content[disk[p]] : p \in OnDisk} \cup {None}

\* No UNIQUE constraint says so, and get_document_by_path counts on it: unless files
\* move, a path has one live row, whatever fails between looking it up and writing it.
OneDocumentPerPath ==
    ~Moving => \A d, e \in Live : doc[d].path = doc[e].path => d = e

\* The index holds what it should and nothing twice.
SyncedIsSound == ReconciledIsClean /\ OneDocumentPerPath

\* The pipeline uses the queue, and abstracts it, as RequestLedger promises: what is
\* asked of a file is not forgotten before the worker has it in hand, across
\* coalescing, crashes and restarts.
KeyOf(r) == <<r.path, r.action>>
Ledger == INSTANCE RequestLedger WITH
    Keys <- Paths \X Actions,
    wanted <- {KeyOf(queue[i]) : i \in DOMAIN queue},
    served <- IF job.req = None THEN {} ELSE {KeyOf(job.req)}
KeepsLedger == Ledger!Spec

\* Once the process stays up, every file ends up in both engines for good -
\* files that are moved apart (ReconciledIsComplete), and as long as the scan sees
\* every file and every file is stable in the end.
Complete == {"unstable", "scan"} \cap scenario.faults = {}
Heals ==
    Complete /\ ~Moving /\ <>[]up => \A p \in Paths, s \in Stores : <>[](disk[p] # 0 => Searchable(p, s))

\* Scans and the worker do not chase each other: once files stop moving, a
\* state is reached again and again where a scan finds nothing to enqueue.
Settles == Complete /\ <>[]up => []<>Reconciled
=============================================================================
