# Luciole: specification and verification

Luciole is a retrieval-augmented question-answering service. A *watcher*
process keeps two search engines (Qdrant and OpenSearch) in step with folders
of documents; a *RAG* service answers questions from what the engines hold,
with a language model; three FastAPI servers give users and administrators
their pages. This directory holds TLA+ modules that model the parts where
order, failure and sharing matter, the TLC configurations that check them, and
TLAPS proofs.

Paths below are relative to the repository's `src/` package unless they start
with `docker-compose`. Run from this directory:

    tlc -workers 2 -config JobQueue.cfg MCJobQueue.tla      # a run
    tlapm JobQueueProofs.tla                                # a proof

`PROJECT.json` lists the runs, the mutants that show each property can fail,
the source lines of each definition, the hazards and the theorems.

## 1. Inventory

### 1.1 Components

| Component (code) | State | Operations | Modules |
|---|---|---|---|
| Job queue (`watcher/queue.py`) | SQLite table `jobs` | enqueue (coalescing), dequeue, complete, fail, mark_dead, retry_job, retry_all_failed, recover_in_progress | `JobQueue`, `RequestLedger`; safety and refinement proved |
| Index worker (`watcher/worker.py`) | one thread, one job in hand | upsert, delete and move handlers, error handler | `JobQueue`, `IndexSync` (both proved) |
| File observer (`watcher/observer.py`) | timers, filters, one emitter per root | event, timer callback, start, stop | `Debounce` (proved), `Watching`; the event journal is left out |
| Stability and hashes (`watcher/hashing.py`) | none | wait_stable, quick_hash, content_hash | `WaitStable` (proved), `IndexSync` |
| State store (`watcher/state.py`, `db.py`) | SQLite table `documents` | upsert, lookup by path, mark_deleted, move_document, purge of tombstones | partly: live rows, in `IndexSync` |
| Reconciler (`watcher/reconciler.py`) | a thread scanning every five minutes | list disk, list index, enqueue differences | `IndexSync` (proved), `Watching` |
| Chunk cleaner (`watcher/cleanup.py`) | none | delete chunks of a document; rewrite the displayed path | partly: deletions, in `IndexSync` and `Engines` |
| Index routing (`watcher/index_routing.py`) | none | index name of a path | `IndexNames`, `Engines` (proved) |
| Watcher service and API (`watcher/service.py`, `api.py`, `main.py`) | the threads above | start, stop, rescan, retry, reindex, delete, purge | partly: what changes jobs or documents |
| Watcher configuration (`watcher/config.py`, `models.py`, `constants.py`) | none | environment parsing | partly: its values are CONSTANTS of `Watching` |
| Ingestion pipeline (`ingestion/pipeline.py`) | the two engines | parse, chunk, embed, upsert by chunk id, bulk index, refresh of settings | partly: `IndexSync`, `Engines`, `Configuration` |
| Chunker (`ingestion/chunker.py`) | none | cut a text by one of five strategies, with pages | `Chunking` (pages and contents of fragments proved) |
| Parsers, OCR, Excel (`ingestion/…`) | none | extract text from a dozen formats | partly: `Extraction` (PDF, OCR; proved), `Readers` (the others: proved to give a text) |
| Embedder, device | a model in memory | encode | not modelled: numerical |
| Retrieval (`rag/hybrid.py`, `bm25_search.py`, `dense_search.py`, `reranker.py`, `retriever.py`) | none | search, fuse, rerank, ceiling | partly: `Retrieval` (proved, in `Engines`); scores are inputs |
| LLM client (`rag/llm.py`) | the override of sampling options, the measure of the last call | generate, surcharge, last_usage | `Answering` (proved) |
| Answer pipeline (`rag/query2.py`) | locals of a request | analyse, formulate, answer with guards, synthesise, verdict | partly: `Answering`, `Guards`, `Questions`, `Texts` (all proved) |
| Query service (`rag/service.py`, `api.py`, `catalogue.py`) | the retriever and generator in use | query, reload-config | partly: `Answering`, `Configuration` |
| Settings and prompts (`config/`) | `settings.yaml` | load, merge, reload | partly: `Configuration`, `IndexNames` |
| Web pages (`ui/`) | a conversation and its requests, dialogs, editors | chat, opinions, configuration, indexes, evaluations | partly: `ChatPage`, `Feedback`, `Configuration`, `Engines` (safety proved) |
| Evaluation, installers, tests | none | offline tools | partly: how the pages run evaluations (`Feedback`) |

### 1.2 How they interact

    file events -> observer -> debounce timers -\
    five-minute scan -> reconciler --------------> enqueue -> table jobs -> worker
    operators -> HTTP API ----------------------/                            |
                                                  hashes, state store <------+
                              parsers -> chunker -> ingestion, cleaner -> Qdrant, OpenSearch
    admin page -> delete, export, import ------------------------------/       |
    chat page -> POST /api/rag/query -> a thread per request -> retrieval -----+
                                            |-> shared LLM client
    configuration page, settings form -> settings.yaml -> reload (RAG), refresh (watcher)
    feedback page -> table feedbacks -> evaluations -> proposals of settings

* The observer thread, each timer, the reconciler, the HTTP handlers and the
  worker are threads of one process. They share the two SQLite tables
  (transactions `BEGIN IMMEDIATE`), the timer dictionary (a lock) and nothing
  else.
* There is one worker. Its handlers make a dozen calls to disk, SQLite and the
  engines, in a fixed order, with no transaction over several of them. The
  administration page changes the same engines from another process.
* The reconciler compares a listing of the disk with a *later* listing of the
  state store, and enqueues one job per difference. It never looks at the
  engines.
* RAG requests are plain `def` endpoints: FastAPI runs each in a thread of its
  pool, and all of them share one `LLMGenerator`.
* `settings.yaml` is written by two processes and read by two others, without a
  lock and without an atomic replacement.
* A page is JavaScript in a tab: one callback at a time, requests that return in
  any order and after anything else.

### 1.3 What is hard, and what should be true

| Behaviour | What should be true |
|---|---|
| callers, operators, worker and restarts on the same rows | at most one job in progress; at most one fresh pending row per file and action; no request dropped; verdicts agree with the attempts; pending rows get served; a failed job is tried again (it is not, see 5) |
| timers expiring while events arrive | the timer of the latest event survives and reaches the queue |
| a file still being written | a finished file is never refused; a growing one is never accepted (it may be, see 5) |
| files that change or vanish, missed events, crashes, failing engines, between any two calls of the worker | what counts as indexed is searchable; removed contents disappear; a path has one row |
| scans and the worker both writing | they settle, and every file ends up searchable |
| shares that go away and come back, filters that disagree, limits of a scan | the index ends up holding what is to be indexed on the shares, and nothing of an excluded directory (it does, see 5) |
| a worker and a console on the same engines, two naming schemes | what the state store says is found by both halves of the search; what was erased is gone |
| two engines, two rankings, a reranker, a ceiling | no fragment loses its place for nothing |
| several calls to the model for one question | no defect of the delivered text is unreported; the verdict agrees with the guards |
| an override in an object shared by threads | it ends with the call it was made for (with two requests it may not, see 5) |
| guards that parse what the model wrote | no false accusation; a complete annex; no reason of the user dropped |
| fallback readers, OCR pages, cuts with overlap, tables across fragments | no text lost; positions, pages and headers right; fragments no longer than asked (they may be, see 5) |
| a chat tab with late answers and a deep pass nobody waits for | one question at a time; each answer below its question; the right context (the deep pass may have less, see 5) |
| settings with two writers and two readers | a reload that is announced is in force (for the retrieval it is not, see 5); no edit is undone unseen |
| opinions sent late, evaluations of rows that change | an opinion is about its answer, a score about its question |

`PROJECT.json` lists these hazards line by line, with the properties that watch
them, and says which are not covered and why.

## 2. The modules

Every definition that stands for code has its source lines in the `map` of
`PROJECT.json`. A definition preceded by "Mutant" is a plausible bug of the
next one; no specification uses it.

Composition: `JobQueue` implements `RequestLedger`, and `IndexSync` is shown to
use the queue as `RequestLedger` promises; `Engines` extends `IndexNames` and
`Retrieval`; `Chunking` extends `Readers`, which extends `Extraction`; `Texts`
extends `Guards` and `Questions`; `Lists` holds the two filters that these and
`Feedback` use. Each `MC…` module holds the model values of an instance.
Parts that share no state are run side by side in one state graph, where a
behaviour follows one of them and the others rest: `MCCallbacks` runs
`Debounce`, `WaitStable`, `Watching` and `ChatPage`; `MCAnswersEngines` the
requests of `MCAnswering` and the engines of `MCEngines`; `MCTextsConsole` the
texts of `MCTexts` (`Chunking` or `Texts`) and the pages of `MCConsole`
(`Configuration` or `Feedback`). `MCWatching`, and those four alone, serve the runs that
look for one counterexample.

### 2.1 `JobQueue` and `RequestLedger` - the table of jobs and its users

A row of `jobs` is a record `row[j]`; a transaction is an action. `enqueue`
reads its timestamp *before* the lock (`EnqueueCall`), then deletes the pending
rows of the same path and action and inserts its own (`EnqueueCommit`), or gives
up on a locked base (`EnqueueAborts`). `fail()` reads the attempts in one
transaction (`FailReads`) and writes in another (`FailWrites`, `MarkDead`), with
operators free to act in between. `pc` and `held` are the worker thread, which an
error inside the error handler ends (`ThreadDies`). `ProcessEnds` and
`ProcessStarts` are a kill and the recovery at start. `backoff` abstracts
`next_retry_at` to absent, future or past. `created_at` is a small clock, so that
two rows may carry the same one. `relaunch` is a history variable.

`RequestLedger` says what the queue promises to those who use it: a key (path
and action) stays *wanted* until it is *served*, one at a time, and an
interrupted one is wanted again. The refinement mapping reads `wanted` off the
pending rows and `served` off the row in hand. The same abstract specification is
a property of `IndexSync`, whose queue is a sequence: what `JobQueue` implements
is what the composition uses.

### 2.2 `Debounce` - the timers of the observer

One `threading.Timer` per event, at most one *registered* per path. A timer is
`armed`, then `expired` (its wait is over and `cancel()` has no effect), then
`popped` (it has emptied the slot of its path, whichever timer stands there),
then tests `_running` and calls `enqueue`. `stop()` is three steps: the flag, the
cancellation under the lock, the join of the observer. `latest` is a history
variable.

### 2.3 `WaitStable` - has the copy of a file finished?

The loop of `wait_stable` sample by sample against a writer that may create,
append, truncate and remove between any two steps, with the missing pause after
the last sample.

### 2.4 `IndexSync` - from a file on disk to its chunks

The composition: users, observer, queue, worker, state store, cleaner, ingestion
and reconciler. The queue is the sequence of pending rows (coalescing, priority,
order), the debounce is the last event of a path. The worker is a program
counter `pc` with the locals of the job (`job`); each call to disk, SQLite,
Qdrant or OpenSearch is an action:

    Take -> UpsertStarts -> UpsertHashes -> CleanQdrant -> CleanOpenSearch
         -> Parse -> IngestQdrant -> IngestOpenSearch -> Record
    Take -> DeleteStarts -> CleanQdrant -> CleanOpenSearch -> Tombstone
    Take -> Moves  (or, for an unknown source, the upsert)

`doc` holds the live rows of `documents`; `rows` the chunks of each engine under
(index, base name, number), which is what their identifiers are made of: new
chunks replace those of the same number and leave the others. `quick_hash` is the
pair (path, version of the file), `content_hash` the content of that version. The
reconciler is `ScanDisk`, `ScanIndex`, one enqueue per file, `ScanEnds`.

`scenario`, chosen at the start and read by no handler, says what happens in an
instance: which files there are, how many versions, what users do, and which
faults are on - `crash` (at every step, then `Restart`), `missed` events,
`unstable` files refused by the worker, files that `vanish` while handled,
`store` errors of either engine, partial `scan` of the disk.

Abstractions: the listing of the disk is one step, whose result may miss files;
one scan runs at a time (`POST /rescan` starts the same one); a failed job is
gone, as `JobQueue` shows that nothing retries it; the `file_path` displayed with
chunks is text and is left out; tombstones are left out, no handler reads them.

### 2.5 `Watching` - which files are looked after

The roots are network shares: `mount` says whether one is there, away with its
mount point empty, or away altogether. The observer gives an emitter to the roots
it finds when it starts; an emitter compares snapshots (`seen`) and ends when its
root is gone, and nothing starts another. Two filters decide about a file, the
observer's and the reconciler's, and only the first knows of exclusions. A scan
stops at `MaxScan` files and takes all it did not list for missing. What is to be
indexed (`Indexable`) is what the filters of the *observer* let through, as the
list of excluded directories says; that scans index more is `ExcludedStayOut`,
which fails. Scans and
jobs are one step each: what happens inside them is in `IndexSync`.

### 2.6 `IndexNames`, `Retrieval` and `Engines` - what the search reads

`IndexNames` treats names as sequences of characters of a few classes, through
the two functions called `sanitize_index_name`, the lower case of OpenSearch and
the names the search reads. `Retrieval` is the fusion by reciprocal ranks, the
choice of candidates, the reranker (any order) and the ceiling of summary
documents. `Engines` puts them together: collections and indexes that the
pipeline creates with their mapping and the console creates without, the jobs of
the worker call by call, the console's deletion, export and import engine by
engine, and a question. `epoch` counts the console's interventions: a row
remembers under which one it was written. A collection without the mapping of
the pipeline cuts `document_id` into tokens, so that the cleaner finds one-token
names only.

Three pieces of code name the index of a file, each with treatments of its own:
the cleaner, the pipeline and the search. `Agreed(d)` says that the first two
mean the same index for the file `d`, `AtHome(d)` that the search reads that one
too. They differ on names that begin with a digit or a dash, that have capitals,
or that grow beyond `MaxName` with their prefix.

### 2.7 `Answering` - requests and the shared language model client

A request is a thread with a program counter (`at`) and the call it is making
(`call`): analysis, formulation, then for each question a first answer, an answer
with the wider profile after an evasion, a repeated answer after a cut or a loop,
then the synthesis, its repetition and the retention guard. A call is two actions,
`Post` (the measure is dropped, the options are read) and `Answered` or
`CallFails`; reading the measure afterwards is an action of its own, on the
generator in use *then*. `Enter` and `Leave` are the context manager `surcharge`;
`SearchFails` is an exception of the retrieval, which unwinds it. `Reload`
replaces the generator. A text is the set of its defects: evasion, cut, loop,
statement outside the batch; the judgements of the guards are inputs.

Abstractions: settings are those of `configs/settings.yaml` (every guard on, one
option set for the repeated call); the lazy construction of the service is done;
the entry of the override reads and writes the attribute in one action.
`serial` is a history variable: nothing has overlapped a request so far.

### 2.8 `Guards`, `Questions` and `Texts` - what the code reads in a text

`Guards` is the reading of pages (a label copied from a passage, the document it
belongs to among names that end or begin like others, wide and inverted ranges,
volumes), of numbers and proper names, and the retention of a synthesis with its
annex. A name is a list of characters, of which the regular expression `_NOM_PDF`
takes those after the last one that it does not know (an apostrophe, a degree
sign, a comma): `Own` is what it takes of a name. The annex stops at
`RETENTION_LIGNES_MAX` lines, and a line that begins with "12.5" goes there
without its "12.", as in the code. `Questions` is the analysis: generic reasons dropped, coordinated ones
regrouped, aspects that repeat the object dropped, items by theme, templates, and
the cap. `Texts` applies one of them to one text per behaviour.

### 2.9 `Extraction`, `Readers` and `Chunking` - from a file to fragments

A character carries the page or the part it comes from, so that what the code
computes (positions, ranges of pages) is compared with where the characters
really are. `Extraction` is the PDF parser: batches that pymupdf4llm reads, reads
badly or fails on, the fallback per page, the OCR that completes, and the sections
laid end to end (`EndToEnd`) with the table of their pages. `Readers` has
the parsers of the other formats and their fallbacks. `Chunking` follows the
chunker: units, oversized units cut again, the search of each unit in the text,
the fragments with overlap, then headers of tables (put back on top of a fragment,
whatever its length) and of mails. Strategies:
sentence, paragraph, fixed, slide, email.

### 2.10 `ChatPage` - the chat in a browser tab

An action is a callback up to its next `await`. `main` and `deep` are the
requests under way; `log` (all that was pushed since the conversation began) is a
history variable next to `history` (what is kept of it). A request carries its
`payload`, and the log it was asked after.

### 2.11 `Configuration` and `Feedback` - the pages of the administrator

`Configuration`: a write truncates the file, then fills it, and another process
may read or write in between; the configuration page has its editor and its two
buttons, the activation of a model reads, changes and writes, the form of the
admin server does the same from what its client read earlier. The RAG service is
its settings, its generator, what its search copied of the section of retrieval
when it was made (`hybrid`), and the construction under way; the pipeline of the
watcher its section of chunking and the date it noted. `Feedback`: conversation,
opinions and their dialog, calls that return late, the table, and the two
evaluations that await between questions while scores are erased and rows added
(a pair without a question is passed over and leaves no result), then the proposals of settings computed from the scores.

## 3. The runs

All `pass` runs finish without error; every run ignores deadlock, because bounded
inputs run out and finished requests stay finished, as the program may.

| Run | Instance | Checks |
|---|---|---|
| `queue` | 2 jobs, 2 keys, priorities 0 and -1, budget 2, 1 caller, one relaunch per job | `InProgressIsHeld`, `OneFreshPendingPerKey`, `VerdictMatchesAttempts`, `PendingIsServed`, `KeepsLedger` |
| `queue_retry` | 1 job, budget 2 | violates `FailedIsTriedAgain` |
| `callbacks` | 3 timers, 2 paths; 3 samples, sizes to 4; 2 shares, 3 files (excluded, unreadable, plain), a scan of 2 files, 2 operations; 3 questions, 2 conversations, a history of 4, two readings | `SlotHoldsLatest`, `LatestIsSubmitted`; `QuietIsStable`, `Terminates`; `IndexFollowsShares`, `ScansSettle`; `OneQuestionAtATime`, `ContextIsWhatPrecedes`, `AnswersAreInPlace`, `QuestionsAreSettled` |
| `watch_excluded` | 2 shares, an excluded file, no operation | violates `ExcludedStayOut` |
| `chat_context` | 3 questions, a history of 4 | violates `SameContext` |
| `sync` | 1 path, 2 versions, crash, missed, vanish; and a file moved between 2 folders | `Heals`, `Settles`, `KeepsLedger` |
| `sync_faults` | the first of these; all faults with reindex and drop; 3 versions of which one shrinks | `FreshIsSearchable`, `SyncedIsSound` |
| `sync_move` | 2 paths of one name, 1 move, no fault | violates `ReconciledIsComplete` |
| `answers_engines` | a request of up to 2 questions, then a direct one, one thread, one reload; 5 scenarios of the engines: 2 files, up to 2 versions and 2 interventions; rankings of 4 fragments | `SufficientIsClean`, `NothingHidden`, `OverrideIsScoped`, `RequestsEnd`; `IndexedIsFound`, `ErasedIsGone`, `RetrievalIsFair` |
| `texts_console` | all small texts and documents described below; 2 edits, 4 changes of the file; 2 questions, 2 opinions, 1 evaluation, 2 settings | `FragmentsHoldTheText`, `PositionsAreTrue`, `HeadersAreShown`, `PagesAreTrue`, `DocumentsAreRead`, `FlagsAreRight`, `AnnexedIsComplete`, `MotivesAreAsked`; `ReloadedIsInForce`, `EditsAreKept`, `RereadIsCurrent`, `PageIsTrue`, `ReportsAreSound` |
| `fragment_size` | texts with tables, cut with an overlap | violates `FragmentsKeepToTheSize` |
| `reload_retrieval` | 2 edits | violates `RetrievalIsInForce` |

A violated property is a promise of a comment or of an answer of the code,
stated as it is written there; section 5 quotes each. Three more configurations
reproduce other disagreements of that section and end in a counterexample:
`WaitStablePause.cfg` (with `WaitStable.tla`), `AnsweringOverride.cfg`
(`MCAnswering.tla`), `EnginesName.cfg` (`MCEngines.tla`).

The type invariants are not in these runs, but theorems: those of
`JobQueue`, `IndexSync`, `Engines`, `Answering` (`TypeOK`), `WaitStable`
(`WaitTypeOK`), `ChatPage` (`ChatTypeOK`) and `Configuration` (`ConfigTypeOK`)
are proved, those of the other modules document the domains of the variables.

What the properties say, beyond the comments that precede them:

* `FreshIsSearchable` is the invariant the whole repair rests on: the reconciler
  asks for nothing when the row has the file's `quick_hash`, so a wrong row is a
  hole nobody ever fills. It holds because the row is written last, with the
  hash taken first; the mutant that takes the hash at the end breaks it.
* `FreshIsSearchable`, `ReconciledIsClean` and `OneDocumentPerPath` each name what
  they do not survive: an engine that fails during a cleaning, a move, two files
  of one base name in one index, contents that come back while the row still has
  their hash (see 5 for each). The theorems have the same conditions and no other.
* `Heals` and `Settles` are the two halves of reconciliation: everything gets
  searchable, and the repeated scans stop finding work. The second rests on the
  skip path refreshing `quick_hash` (`worker.py:292-299`).
* `SyncedIsSound` is `ReconciledIsClean` and `OneDocumentPerPath`. The first rests
  on cleaning before ingestion, because chunk numbers only overwrite; a file that
  shrinks is in the instance for that.
* `VerdictMatchesAttempts` says that `dead` and `failed` agree with the attempts.
  That a failed job is tried again is what `queue.py` announces and what
  `queue_retry` refutes; the theorem `NoAutomaticRetry` says that it never
  happens, for any number of jobs.
* `IndexFollowsShares` is about all the ways a file can escape the observer; the
  scan makes up for each of them. It asks for the files that the filters of the
  observer let through and says nothing of a share that is away: that the scan
  purges its index is not taken for right. Of the excluded directories the scans
  index what they should not (`watch_excluded`).
* `IndexedIsFound` is stated up to the console: after it touched the engines, a
  row written before proves nothing any more, and no scan notices (see 5). It and
  `CleanedIsGone` speak of the files whose index is named alike by all that use it
  (`AtHome`, `Agreed`): for another one, what was indexed may be out of the reach
  of the search (`EnginesName.cfg`) or of the cleaner.
* `SufficientIsClean` is what a reader of a verdict relies on: the service maps
  COUVERT to SUFFISANT, and verdict and guards are computed apart. A synthesis
  that is evasive is not looked for by the code, which is why that defect is
  excepted.
* `NothingHidden` follows which of up to three answers to a question is kept,
  and which measure goes with it.
* `FragmentsHoldTheText` bounds a fragment by what the code really adds up: the
  size, the tail of the one before, and the header of a table with its newline.
  That the size alone is the bound is what two comments say and what
  `fragment_size` refutes.
* `PositionsAreTrue` has the premise that each unit was found where it is: when a
  text repeats itself it may not be (see 5).
* `FlagsAreRight` is about labels whose document the guard can know: one whose
  name `_NOM_PDF` takes whole, or whose remainder ends no other name of the lot
  (`Known`). Of a range whose two ends are in the lot it claims nothing, and of an
  inverted or too wide range its first page only, as the code does (`Claimed`).
* `AnnexedIsComplete` names the two ways a missing value stays out of the annex:
  the lines beyond `RETENTION_LIGNES_MAX`, and those that begin with a decimal,
  which lose its whole part on their way (see 5). Both occur in the run.
* `MotivesAreAsked` lets one question be asked twice, when the two words are those of a
  coordinated pair: of "a", "b" and "a et b" the code joins the first two after
  it has compared the three (see 5). The run has such replies.
* `ContextIsWhatPrecedes` says of the deep pass that nothing it is sent is wrong;
  that nothing is missing is what the comment says and what `chat_context` refutes.
* `ReloadedIsInForce` is about the settings a question reads and about the
  generator. What the search copied when it was made is not reloaded, against
  the answer of the endpoint (`reload_retrieval`).
* `RereadIsCurrent` begins with the second refresh: the first notes the date of
  the file and reads nothing (see 5).
* `ReportsAreSound` takes the overlap that is proposed for right when the
  fragments in force have more than 50 characters; below, the code proposes 50
  whatever the size (see 5).
* `EditsAreKept` and `ReloadedIsInForce` name the two situations in which they do
  fail - a page older than the file, two processes at once - through the history
  variables `conflict` and `overlap`.
* `AnswersAreInPlace`, `PageIsTrue`, `ErasedIsGone`, `RetrievalIsFair` and
  `ReportsAreSound` each join two sides of one question: the thread that is sent
  and the page that is seen, the cleaner's erasure and the console's, the fusion
  and the lot, the scores and the proposals made from them.

### Bounds

* Queue: interactions are between rows of one key or between the row in hand and
  one more; two jobs show all pairs. Every safety property of the run, and the
  refinement, is also proved for any number of jobs, keys, callers and clock
  values. One relaunch per job lets a job exhaust its two attempts.
* Debounce: three timers are an expired one, the registered one and a new event;
  the safety property is proved for any number.
* Stability: three samples are the first, one in the middle and the last, which
  is the odd one (no pause follows).
* Index: one path shows every race of one file with itself. Two paths of one
  base name show moves. Faults are split over scenarios, because their product
  does not fit. `MaxDocs`, `MaxAsks` and the length of `Content` bound live rows,
  calls and versions; where a bound on rows would stop the system it is larger
  than the number the moves can create (`Record` has its guard: a number is left
  for a new row). The theorems hold for every value of these bounds.
* Watching: the three files are the three classes that matter (excluded but
  eligible, eligible but unreadable, plain) and one more than a scan lists; two
  operations are a share that leaves and returns, or a change while it is away.
* Engines: two changes are an appearance that grows or shrinks and a
  disappearance; one or two interventions fall between any two calls of the
  worker. Names of up to three kept characters show the prefix, the capitals, the
  dropped ones and the empty result. `RetrievalIsFair` is checked on every pair
  of rankings of the fragments that the two documents have.
* Answering: two questions are needed for a synthesis; two requests and one
  reload for anything shared to be handed on; the five texts have one defect each
  and one has two. In `answers_engines` one thread makes requests serial, which
  the properties with `serial` require; in `AnsweringOverride.cfg` there are two.
* Texts: texts of four to six pieces with sizes of five to eight characters, so
  that units overflow, overlap and are cut again; PDFs of two pages in batches of
  one; documents of up to four parts with and without each library; six file
  names of which each is the end or the beginning of another, two with an
  apostrophe; ranges that are whole, single, inverted and wider than the code
  reads; blocks of two and four lines with numbers that contain each other and a
  decimal at the head of a line, an annex of one line at most; replies of three reasons,
  one of which may be two others joined, and two aspects under a cap of three questions.
* Chat: a history of four drops messages at the third question, and the deep
  pass of one question may meet another question and a new conversation.
* Console: two edits and four changes of the file let two writes interleave with
  a reload or a refresh; two opinions let a late call meet another dialog; the data
  set has a pair without a question between two others; the settings are the
  default ones and some beyond every ceiling, with fragments of 60.

### Fairness

* Worker: `_run_loop` polls the queue for as long as the process runs and its
  handlers' calls end by timeout, so `WF` of the disjunction of its steps. The
  disjunction, not each step: an error may always be the outcome.
* Timers, reconciler, emitters: threads of the runtime; the reconciler scans again
  every five minutes.
* `ProcessStarts`, `Restart`, `Start`: `restart: unless-stopped` in
  `docker-compose.yml`. Crashes may go on for ever, so properties of progress
  start with `<>[]up`; in `Watching` the worker is only assumed to empty the queue
  now and then (`[]<>(queue = <<>>)` in the property), as scans refill it.
* Clock and backoff: time passes.
* RAG: an HTTP call to the model has a timeout. The chat page aborts a request
  after thirty minutes (`queryAgent`), and its timer fires.
* In `callbacks` and `answers_engines` fairness is that of the part which a
  behaviour follows: a part at rest has no step that its fairness could ask for.
* No fairness for users, operators, file writers, shares, faults and reloads.

## 4. The proofs

The eight proof modules assume only the named assumptions of the modules they
extend: `QueueAssumption`, `DebounceAssumption`, `WaitAssumption`,
`AnsweringAssumption`, `ChatAssumption`, `BoundsAssumption` (`Configuration`),
`FeedbackAssumption`, `SyncAssumption` and `NoneAssumption` (`IndexSync`),
`NameAssumption`, `RetrievalAssumption`, `EnginesAssumption`, `GuardsAssumption`,
`QuestionsAssumption`, `TextsAssumption`, `ExtractionAssumption`,
`ReadersAssumption` and `ChunkingAssumption`. They say that bounds are natural
numbers, that null values are not members, that a request has room for one
question, that a file has a version for each of its changes, that a pair of a data
set has two fields and settings are whole numbers, that an overlap is smaller than
the size it belongs to. Those about texts say what the inputs of an instance are:
the labels that an answer copies name documents of its lot, whatever their pages,
and the words around them hold no page (`Citing`), a name does not end with a character that
`_NOM_PDF` does not know, the window reaches from a page to the name before it,
blocks, replies, pages and the parts of other documents are lists, and what has
slides or sheets has a number of them. Of reasons, of the lines of blocks and of
ranges of pages nothing is assumed. TLC evaluates each of them in a run. No set needs to be finite.

| Theorem | States, for every value of the constants |
|---|---|
| `TypeCorrect` | `Spec => []TypeOK` of `JobQueue` |
| `SingleServer` | `InProgressIsHeld` |
| `Coalescing` | `OneFreshPendingPerKey` |
| `NoAutomaticRetry` | `TriesAreAsked`: what `queue_retry` shows of one job, that nothing tries it again, holds in every execution |
| `VerdictSound` | `VerdictMatchesAttempts` |
| `BackoffIsIdle` | `BackoffNeverDefers` |
| `RequestsAreKept` | the action property `NoRequestDropped` |
| `QueueKeepsLedger` | `JobQueue` implements `RequestLedger` (`KeepsLedger`) |
| `SlotFresh` | `SlotHoldsLatest` of `Debounce` |
| `LatestSurvives` | `LatestNeverCancelled` |
| `SamplesAreBounded`, `FinishedIsAccepted` | `WaitTypeOK` and `QuietIsStable` of `WaitStable` |
| `SharedTypes` | `TypeOK` of `Answering` |
| `OverrideEnds` | `OverrideIsScoped` |
| `DefectsAreTold` | `NothingHidden` |
| `CoveredIsSound` | `SufficientIsClean` |
| `ChatTypes` | `ChatTypeOK` of `ChatPage` |
| `OneQuestion` | `OneQuestionAtATime` |
| `ContextPrecedes` | `ContextIsWhatPrecedes`; that the deep pass is sent all of it is false (`chat_context`) |
| `AnswersFollow` | `AnswersAreInPlace` |
| `TypesKept` | `ConfigTypeOK` of `Configuration`, and what the page and the servers are doing |
| `EditsKept` | `EditsAreKept` of `Configuration` |
| `ReloadInForce` | `ReloadedIsInForce`: the settings each question reads, and the generator; for what the search copied it is false (`reload_retrieval`) |
| `RereadCurrent` | `RereadIsCurrent`: from the second refresh on |
| `IndexSyncTypeCorrect` | `Spec => []TypeOK` of `IndexSync` |
| `IndexSyncFreshIsSearchable` | `FreshIsSearchable` |
| `IndexSyncSyncedIsSound` | `SyncedIsSound`: `ReconciledIsClean` (`IndexSyncReconciledIsClean`) and `OneDocumentPerPath` (`IndexSyncOneDocumentPerPath`) |
| `IndexSyncReconciledIsComplete` | `ReconciledIsComplete` without moves, homonyms, contents that come back and failures of an engine; with a move it is false (`sync_move`) |
| `IndexSyncKeepsLedger` | `IndexSync` implements `RequestLedger` (`KeepsLedger`) |
| `EnginesInvariant` | the inductive invariant of `Engines`, with its types |
| `EnginesIndexedIsFound` | `IndexedIsFound` |
| `EnginesErasedIsGone` | `ErasedIsGone` |
| `EnginesRetrievalIsFair` | `RetrievalIsFair` |
| `EnginesPlainInstance` | an instance with a plain name is searched where it is indexed; for a name with a digit first it is false (`EnginesName.cfg`) |
| `FeedbackPageIsTrue` | `PageIsTrue` of `Feedback` |
| `FeedbackReportsAreSound` | `ReportsAreSound`, pairs without a question included; the overlap for fragments of more than 50 characters |
| `FlagsRight` | `FlagsAreRight` of `Texts`, for any ranges of pages |
| `AnnexComplete` | `AnnexedIsComplete`, for any number of lines and decimals at their head |
| `MotivesAsked` | `MotivesAreAsked`, for any reasons, one the others joined included |
| `PagesKnown` | `PagesAreTrue` of `Chunking` |
| `FragmentsHold` | `FragmentsHoldTheText` of `Chunking`: nothing that is not blank is lost, and fragments are bounded by the size, the overlap and the header put back; by the size alone it is false (`fragment_size`) |

`IInv` of `JobQueueProofs` conjoins the invariants with four strengthenings.
`HeldShape` ties `held` to `pc`. `TakenIsCounted` says that a row past `pending`
was tried: without it a recovered or relaunched row could meet a fresh one and
break coalescing. `InProgressNotDelayed` says that a row in progress has no
`next_retry_at`: recovery puts it back to `pending` without clearing the field.
`VerdictStillHolds` says that what the first transaction of `fail()` read is
still true at the second: attempts are raised by `dequeue` only, and the one
thread that dequeues is the one that is failing. One lemma covers each kind of
step (enqueue, relaunch, dequeue, settle, start, elapse, thread only), and
`IInvNext` sends every action of `Next` to one of them. `NoRequestDropped` and
the refinement follow from `IInv` step by step: enqueue and the relaunches are
`Ask`, dequeue is `Serve`, what settles a row is `Settle`, recovery is `PutBack`,
and the rest stutters. `SingleServer` is what makes `Serve` possible: nothing may
be served already.

`DInv` of `ArrivalProofs` conjoins the three invariants with `LatestIsOfPath`:
the latest timer of a path exists and works for that path, so that what happens
to the timer of one path cannot cancel the latest of another. The point of the
proof is that a callback may pop a *newer* timer off the dictionary: such a timer
stays armed and cannot be cancelled any more, which is a duplicate job at worst
and never a lost event.

`WInv`, in the same module: a non-empty file that nobody touched is either not
sampled yet or remembered by its size, and the top of the loop is reached only
with samples left.

`AnsweringProofs` uses two invariants. `AInv` is about the shared generator. Its
part `Exclusive` says that serial requests have one active thread; therefore an
override saves "none" (`NothingToRestore`) and the table of overrides is exactly
the set of threads inside one (`Scoped`), which survives the exception of a
retrieval because the `finally` runs on every exit. `HInv` is about texts.
`Fine` says of a thread that its blocks and its synthesis are reported, and that
an answer kept in reserve has its own measure and flag next to it; `Measured`
says that between a call and the reading of its measure the generator in use is
the one that was called. Both need `serial`: without it another thread, or a
reload, comes between. One lemma per group of actions shows that each keeps the
two invariants.

The part of `ConsoleProofs` about `Configuration` has one invariant per property;
each is inductive together with the types alone, so that the three arguments do not depend on each other.
`EditInv` says what a write under way knows when no conflict was noted: it is the
only one, it started from the file as it was, and what it says of the sections
its user left alone is what was wanted (`Grounded`), so that filling the file
cannot undo an edit. `ReloadInv` follows a reload: alone if no overlap was noted,
it has read the file that the page saved (`PageReads`), and what the page is told
of the settings and the generator (`InForce`) also covers the construction and the reload of an activation that may
still change the generator. A change of the file makes the page older than it
(`PageDates`), and both conclusions void. `RereadInv` says the same of the dates
of the pipeline, once it has read the file again: what was read is of the date
noted before the reading, or later.

`ChatInv` of `ChatPageProofs` rests on two facts that hold together. `Waits`: a
standard pass is under way exactly when the page is closed, because a new
conversation leaves both as they are. `QuestionIsLast`: the question under way
was said last, or the conversation is a new one where nothing was said. So an
answer lands after its question or first; the history is a window on the end of
what was said (`Window`), and the lemmas on ends of sequences give what each pass
is sent: dropping the last element of a window on the last `k` leaves a window on
`k - 1`, once for the standard pass and twice for the deep one.

The properties of `IndexSync` rest on five invariants, each inductive with those
before it.

* `TypeInv` has the domains, and `Shape`: which stage of which request goes with
  which document.
* `FoundInv` says that a path has one live row, and that the row which the worker
  looked up at the start of a request is still that of the path when it writes:
  nobody else writes rows. `OneDocumentPerPath` is its first half.
* `HistoryInv` is about time. Versions are not reused, so the hash in a row is that
  of a version the path has had, and the worker cleans and replaces a document
  only when the contents of its row are *lost*, that is, when no version to come
  has them. This is where contents that come back would break it.
* `WholeInv` says that the chunks of a row are all in both engines, unless its
  contents are lost or a delete of its path is pending or under way. A row that
  has the hash of the file is therefore searchable or asked for, which is
  `FreshIsSearchable`; with nothing left to do it is searchable
  (`IndexSyncReconciledIsComplete`).
* `CleanInv` gives every chunk an owner: a row, the request in hand between its
  ingestion and its row, or a path that a request waits for. Without a crash or a
  file that vanishes, requests end by writing the row; once nothing is asked and
  every row is fresh, the owners are the files on the disk.

The refinement of `RequestLedger` by `IndexSync` needs the types only: coalescing
keeps the key of what it drops, because the new request has the same.

`IInv` of `EnginesProofs` adds to the types what the worker and the console can do
to each other. `Progress` says what the engines hold of a file at each stage of
its job, where no row speaks of it yet, and `RowIsTrue` what they hold once the
row is written; both only of files that the console has not touched since
(`epoch`) and whose names agree. `Unknown` says that a file which was never indexed
has no fragment in any index *and in any backup*, so that an import cannot bring
one back before its first job. `Deleting` follows a delete of the console half by
half. `InLowerCase` is what OpenSearch does to names: without it an entry could
be listed that no delete reaches. The retrieval is a function of its rankings:
the proof about it is on data, that positions in the fusion are a strict order,
that the least `k` of them leave out no better one, and that the ceiling passes
over a fragment only for one of its reasons.

`Feedback` has three invariants that do not lean on each other. `PageInv` carries
an answer with its own question from the page to the table: what the dialog shows
is what its field was filled for, because closing empties the field. And the
history is the display without its errors: a lemma on selections says that one
element more is selected last or not at all. `EvaluationsInv` says that an
evaluation under way follows a sequence of known pairs in step (`Follows`), that
the answer under scoring was given to the question it has reached, that the
results stand in the order of the pairs that hold a question (`Answers`), and that
what was known stays known, because the table only grows. `ReportInv` ties a report to
the settings it was made with; the rest is arithmetic.

`TextsProofs` is about functions of a text; the state machine only says which text
is read. *Annex*: a text that grows keeps the values it held, so what is missing
after the annex was added was missing before, and the line that carries it is
among those of the retention: it is in the annex, or one of those left out
(`ShownOrLeftOut`), unless its head is a decimal, of which `Propre` leaves the end
only (`BeheadedSays`); what the annex brings from outside the extracts is such an
end. *Reasons*: the filters leave a list that asks about each reason and no other
(`AskedList`); of two coordinated ones the grouping puts the joined words in the place of
both, so that a list which repeats nothing repeats at most the words of a pair
afterwards (`RegroupedAsks`, along the recursion of the grouping); an aspect only
has a place when every reason has one. *Pages of a label*: the last file named
before a page is the one of its label, because the label was copied, and what
`_NOM_PDF` takes of it is the end of its name; among the names that end so the
guard takes the shortest, which is that of the file when the mention is whole or no
other name ends so. Hence the pages claimed are flagged when the lot lacks them,
and only then. *Pages of a PDF*: sections laid end to end make an
ordered table, each of them is a row of it (`HoldsRow`), and a printed character lies
in the span of its own page; OCR sections come after all the others, so they
neither overlap nor move a span. What is kept of a page is its raw text unless the
guard on the yield is content with what pymupdf4llm made of it, and that is what
`PagesAreRead` asks.

*Fragments* have an inductive invariant of their own, `HoldsInv`. While units are
put into fragments, every character that is not blank is in a unit to come, in the
fragment being filled, in a fragment, or above the body of a mail (`Accounted`);
and what is being filled, the joint at its end apart (`Core`), is at most as long
as the size and the overlap together - the joint is blank, and a closed fragment
is stripped. The header of a table comes on top of that, with its newline. That a step only moves characters between these places rests on what
the cuts do for a text of any length: `CutsUp` says of a list of units that each
lies within its bounds, begins and ends on a character that is not blank, is at most so
long, and that together they leave no such character out. It holds of the sentences
or paragraphs of a text (`RawCuts`), of the pieces of an oversized unit
(`SplitCuts`, by descent on the offset: every piece starts later than the one
before and not after its cut) and of both put together (`SizedCuts`). A piece
is no longer than the window it is cut from, and the next one starts at the cut at
the latest, so that only the blanks trimmed off are left out. Slides and mails
are not bounded, and have lemmas of their own: a part between two marks holds what
lies between them (`SlidesHold`), and above the body of a mail that starts with
its header there are only lines of the header (`MailCovers`), which every fragment
repeats. That the text is a list of characters at all is `DocumentText`: one lemma
for each format and its fallbacks.

Where these modules select from a sequence (coalescing, characters of a name,
corrections, errors, reasons, lines, parts of a document), they do it with a recursive
function on its length, and the proofs follow it by induction with *sets*: the library gives that a non-empty set
of naturals has a least element, from which `NatSetInduction` gives that a set which
has 0 and every successor of its members has all, and `RecursionExists` that
functions can be defined step by step. Induction theorems that take a predicate
as a parameter are not needed.

Model-checked only: liveness (`PendingIsServed`, `LatestIsSubmitted`,
`Terminates`, `Heals`, `Settles`, `RequestsEnd`, `QuestionsAreSettled`,
`IndexFollowsShares`, `ScansSettle`), which is out of the provers' reach with
fairness and `ENABLED`; and three invariants of `Chunking`: `PositionsAreTrue` and
`HeadersAreShown`, where what is known of a fragment must be extended by the
characters it holds in order and by the arithmetic of `Resume`, and
`DocumentsAreRead`, which is about the contents of a dozen formats one by one.

## 5. Where the code and its text disagree

With a run that shows it:

1. **A moved file can be lost for good** (`sync_move`). A scan that read the
   index before the move job enqueues a delete of the old path, which purges the
   chunks of the moved file by base name (`watcher/worker.py:370-386`); its row
   keeps the right hashes and no scan repairs it.
2. **A failed job is not retried** (`queue_retry`). `fail()` leaves status `failed`
   (`watcher/queue.py:319-327`), `dequeue()` takes `pending` only (`:204-213`); the
   header promises exponential backoff until `max_attempts` (`:17-20`), and
   `tests/watcher/test_queue.py:67-78` takes such a row for one that waits for its
   retry. The delay is never used (theorem `BackoffIsIdle`).
3. **Excluded directories are indexed** (`watch_excluded`). They are known to the
   observer only (`observer.py:256-264`), the reconciler enqueues what is in them
   (`reconciler.py:259-284`); `constants.py:50-59` lists them as excluded.
4. **The deep pass has another context** (`chat_context`) than "l'historique
   tel qu'il était avant la question" (`ui/chat_ui.py:1798-1801`): the last two
   messages are cut from a history already cut to its cap (`:1204-1205`, `:1808`), so
   the oldest message is missing.
5. **A fragment is longer than the size asked for** (`fragment_size`). It begins with the
   tail of the one before and takes a sentence that fits alone
   (`ingestion/chunker.py:485-523`), and a table header may be put back on top
   (`:614`); the comments say that the bound is kept (`:373-375`, `:470-472`).
6. **A reload leaves the retrieval as it was** (`reload_retrieval`). `HybridSearch`
   copies weights and bounds when it is made (`rag/hybrid.py:38-44`,
   `rag/api.py:63-65`) and `reload_config` does not make it again (`:103-116`); it
   answers `a_chaud: ["retrieval", …]`.

With a configuration that shows it:

7. **A growing file can pass for stable** (`WaitStablePause.cfg`). No pause
   separates the last sample from the final one (`watcher/hashing.py:110-116`).
8. **The override of sampling options can outlive its call**
   (`AnsweringOverride.cfg`). Two overlapping requests, both in a repeated call,
   save and restore one shared attribute (`rag/llm.py:63-75`): the second to
   leave restores the override of the first, and it stays.
9. **An instance whose name begins with a digit is not searched**
   (`EnginesName.cfg`). Its documents are written under the sanitised name
   `idx_…`, the search reads `INSTANCE_NAME` as typed (`config/settings.py:125`).

Seen while modelling, without a configuration of their own.

Queue and worker:

* A rename gives the row the new name while the chunks keep the old
  `document_id` (`watcher/state.py:282`, `cleanup.py:153`): a later delete of the
  document leaves them as orphans.
* Contents restored after a failed replacement are skipped as known
  (`worker.py:292`) although the cleaning already happened: with `store` faults
  `FreshIsSearchable` would not hold, so it excepts them. A delete that fails
  halfway (`worker.py:389`) has the same effect.
* Two files of one base name in one index overwrite each other's chunks
  (`worker.py:304`, `pipeline.py:68-70`).
* A crash between ingestion and the row of a new file leaves chunks without a
  row, orphaned if the file is removed before the restart (`worker.py:256`).
* `POST /reindex` enqueues an ordinary upsert, skipped when the contents are
  unchanged (`watcher/api.py:217-224`).
* The scan lists the disk before the index (`reconciler.py:171-175`), so a file
  created and indexed in between gets a delete; the next scan restores it.
* An expired timer may unregister a newer one (`observer.py:323-324`), so a path
  may have two live timers.

Watching:

* `.xml` and files without an extension are admitted and no parser takes them;
  each scan enqueues them again, and a rescan resets their `created_at`.
* A root that is absent during a scan has its whole index purged
  (`reconciler.py:229-231`; the delete handler never looks for the file,
  `worker.py:354-400`).
* At the limit of a scan only the inner loop ends (`reconciler.py:239-243`), and
  the files that were not listed are deleted from the index.
* A root absent at the start is never observed, although the message says "Le
  watcher attendra qu'il apparaisse" (`watcher/config.py:172-173`); scans index it.

Names, engines, console:

* The sanitising functions of the watcher and of the pipeline are not "identique"
  (`watcher/index_routing.py:11-13`): only one lowers the case, they differ on
  names that nothing is left of, and a name is cut at 64 characters *before* the
  prefix `idx_` is added.
* An index deleted from the page stays indexed in the state store
  (`ui/admin_ui.py:290-351`): scans repair nothing until a file changes. An
  imported index lacks the mapping of the pipeline.
* `clear_all` deletes `documents_dense` and `documents_bm25` only
  (`ui/admin_ui.py:446-456`), whatever the indexes are called; the list of indexes
  merges names that differ by case; the export of an index stops at what one
  search returns, and the import of an old backup overwrites newer chunks;
  `docker-compose.yml:183` mounts the directory of backups read-only.
* `/api/ollama/models` never sends the field `active` that the page reads; the
  progress of a download is read from fields that are not sent.
* `query_history` is read and emptied (`ui/admin_ui.py:957-1079`) and nothing
  writes it.

Settings:

* A reload pressed with unsaved changes saves first; when that fails, the reload
  goes on and its success is announced. A read between the truncation and the end of a write gives the
  defaults, silently.
* The first refresh of the pipeline notes the date of the file and reads nothing
  (`ingestion/pipeline.py:276-293`): a change made since its construction waits
  for the next one.

Answers:

* `generate()` answers a failed call with the error message (`rag/llm.py:92`),
  which no guard recognises: it counts as a covered answer and may replace an
  evasive or cut one.
* An evasion stays flagged although the repeated answer was accepted
  (`rag/query2.py:1284-1300`).
* After a reload, or with overlapping requests, the measure read after a call may
  be another call's (`query2.py:1266`): `NothingHidden` is stated for serial
  requests.
* The lines of the annex are not joined "telles quelles" (`query2.py:36-37`,
  `571-572`, `754-755`): at most 25 of them are (`:582`, `:788`), and one that
  begins with "12.5" enters it as "5" (`:345`). "45,7"
  passes for known when the extracts hold 45 (`:251`); the retention counts "12"
  inside "2012" or in the number of a line.
* Reasons are compared before the coordinated ones are joined
  (`query2.py:844-849`, `1076-1102`): of "a", "b" and "a et b" the last is asked
  about twice.
* `_NOM_PDF` (`query2.py:85`) stops at an apostrophe, a degree sign or a comma: of two
  documents whose names end alike after one, the guard takes the pages of the
  shorter name for those of both.
* `service.query` ignores its `filters`, and `search_multi` is never reached.

Pages:

* `markFeedbackDone` builds the name of an element that the page does not have
  (`ui/feedback_ui.py:1528`): the buttons stay. A call that returns closes
  whichever dialog is open (`:1507-1508`), and raises if none is.
* A failed question stays in the history of the conversation without an answer,
  and the answer to a question asked before a new chat opens the new history.
* `evaluate_feedbacks` evaluates all corrections again although its docstring says
  "qui n'ont pas encore été évalués" (`ui/admin_ui.py:1222-1223`). Proposals lower
  settings that exceed their ceilings, and the proposed overlap reaches the size
  when `chunk_size` is 50 or less (`:1449-1450`).

Documents:

* `_localiser_unites` looks for the unit from one character after the start of the one
  before: a text that repeats itself inside a unit is found too early
  (`ingestion/chunker.py:416-424` says it cannot be). A fragment
  that starts with the newline below the header of a table gets no header
  (`:617`). Lines of a mail between or before those of its header are dropped
  (`:744-750`). Pages read by OCR follow the others, so that the range of a
  fragment that spans both is inverted. The fixed strategy can give an empty
  fragment, and does not end when the overlap reaches the size.
* The strategy `row_group` of the settings for workbooks is not one that `chunk()`
  knows (`:148-158`): they are cut at fixed sizes. `chunk_dataframe` has no caller.
* `requirements.txt` lists neither odfpy nor tika nor unstructured nor tabulate:
  OpenDocument files always fail, and are enqueued again by each scan.
* Fallbacks run on exceptions only: a native reader that returns nothing is
  believed. A document without any text is recorded as indexed with no chunk,
  after its former chunks were deleted.
* Sheets that fail, or whose cleaned column names collide, are skipped silently;
  rows beyond the maximum are counted only. Tables, groups and notes of slides are
  not read; tables of a Word document, and headings of an OpenDocument text, come
  after the paragraphs. HTML and RTF drop the bytes that are not UTF-8. Pairs
  between two rules leave the body of a Markdown file.

## 6. Not modelled, and why

* Embeddings, scores of the engines and of the reranker, and the OCR engine are
  computations of libraries without state of their own; their results are inputs.
* Detection of evasions and loops (`rag/query2.py`) is a set of regular
  expressions and counts over wording; `Answering` takes their verdict as input.
* Tombstones and their purge, the journal of events, statistics, status and
  listing endpoints: nothing that acts on files reads them.
* `update_file_path` changes the text displayed with chunks only.
* Errors of single items in an OpenSearch bulk are only logged by the code
  (`pipeline.py:372-385`): the hole is certain when one happens.
* Starvation of low priorities under an endless stream of events needs an
  unbounded supply of jobs.
* The SQL copy of workbooks has no reader: its query function has no caller.
* Login, logs, model downloads, page layout, installers, the reference campaign.
* The catalogue (`rag/catalogue.py`) has no caller in the service.

## 7. What could come next

1. Proofs of the other invariants of `Chunking`: the position of a tail is that of
   its characters, every fragment of a table shows its header, each reader keeps
   what its format promises.
2. An abstract specification of the index (what is searchable of each file)
   implemented by `IndexSync` without faults.
