------------------------------ MODULE Engines -------------------------------
(***************************************************************************)
(* The two engines of an instance, those who write them - the worker of    *)
(* the watcher through the pipeline and the cleaner, the console of the    *)
(* administrator - and the search that reads them.                         *)
(*                                                                         *)
(* The worker and the console are two processes: their calls to the        *)
(* engines interleave.  A fragment is <<d, part>>: its identifier is made  *)
(* of the name of its file and of its rank, so that a new version          *)
(* overwrites the fragments of the same rank.                              *)
(***************************************************************************)
EXTENDS IndexNames, Retrieval

CONSTANTS
    Docs,
    PartCount,          \* PartCount[d][v]: fragments of version v of a file
    OneToken,       \* files whose name is one token for OpenSearch
    ResultWindow,         \* documents that one search returns at most (10000)
    MaxBackups,     \* bound on the backup files
    Scenarios,      \* [instance, folder, ops, calls, changes]; calls and changes are bounds
    NoJob, NoCall

Stages == {"clean_qdrant", "clean_opensearch", "open", "write_qdrant", "write_opensearch", "row"}
Job == [doc: Docs, version: Nat, epoch: Nat, stage: Stages]

\* A file has a first version, and those that the scenario gives it.
ASSUME EnginesAssumption ==
    /\ \A d \in Docs : PartCount[d] \in Seq(Nat) /\ Len(PartCount[d]) >= 1
    /\ \A s \in Scenarios : s.changes \in Nat /\ \A d \in Docs : s.changes <= Len(PartCount[d])
    /\ NoJob \notin Job

VARIABLES
    scenario,
    qdrant,         \* collections: functions from fragments to versions
    opensearch,     \* indexes: the same, and whether the pipeline made it
    version,        \* version of each file on the disk; 0 when there is none
    row,            \* what the state store says is indexed: version, and epoch
    epoch,          \* changes made by the console so far
    job,            \* what the worker does
    call,           \* what the console does
    backups,        \* files of the backup directory
    asked           \* the retrieval of a question

files == <<version, row>>
engines == <<qdrant, opensearch>>
vars == <<scenario, engines, files, epoch, job, call, backups, asked>>

Instance == scenario.instance
Index(d) == Derived(Instance, scenario.folder[d])
CollectionOf(d) == WriteQdrant(Instance, scenario.folder[d])
IndexOf(d) == WriteOpenSearch(Instance, scenario.folder[d])

NoFragments == <<>>
NoQuestion == [bm25 |-> <<>>, dense |-> <<>>, fused |-> <<>>, classes |-> <<>>, kept |-> <<>>]

\* The worker makes the pipeline when it starts, and the pipeline its index.
Init ==
    /\ scenario \in Scenarios
    /\ qdrant = [n \in {ReadQdrant(Instance)} |-> NoFragments]
    /\ opensearch = [n \in {ReadOpenSearch(Instance)} |-> [made |-> TRUE, docs |-> NoFragments]]
    /\ version = [d \in Docs |-> 1]
    /\ row = [d \in Docs |-> [version |-> 0, epoch |-> 0]]
    /\ epoch = 0
    /\ job = NoJob /\ call = NoCall
    /\ backups = {}
    /\ asked = NoQuestion

Can(op) == op \in scenario.ops

-----------------------------------------------------------------------------
(* Engines. *)

With(f, x, y) == [z \in DOMAIN f \cup {x} |-> IF z = x THEN y ELSE f[z]]
Without(f, S) == [z \in DOMAIN f \ S |-> f[z]]
Over(f, g) == [z \in DOMAIN f \cup DOMAIN g |-> IF z \in DOMAIN g THEN g[z] ELSE f[z]]

Of(d, points) == {x \in DOMAIN points : x[1] = d}
Fragments(d, v) == [x \in {<<d, p>> : p \in 1..PartCount[d][v]} |-> v]

\* A write to a missing index makes it, by default settings (external).
Index0 == [made |-> FALSE, docs |-> NoFragments]
Found(name) == IF name \in DOMAIN opensearch THEN opensearch[name] ELSE Index0
Indexed(name, docs) ==
    With(opensearch, name, [Found(name) EXCEPT !.docs = Over(@, docs)])

-----------------------------------------------------------------------------
(* The worker. *)

Stage(s) == job' = [job EXCEPT !.stage = s]
Fails == job' = NoJob

\* Mutant: writing the fragments again is enough.
StartOver(d) ==
    /\ job = NoJob
    /\ row[d].version # version[d]
    /\ job' = [doc |-> d, version |-> version[d], epoch |-> epoch,
               stage |-> IF version[d] = 0 THEN "clean_qdrant" ELSE "open"]
    /\ call' = IF call = NoCall THEN call ELSE [call EXCEPT !.alone = FALSE]
    /\ UNCHANGED <<scenario, engines, files, epoch, backups, asked>>
Start(d) ==
    /\ job = NoJob
    /\ \/ row[d].version # version[d]
       \/ /\ Can("reindex") /\ version[d] > 0
          /\ row[d].epoch # epoch
    /\ job' = [doc |-> d, version |-> version[d], epoch |-> epoch,
               stage |-> IF row[d].version # 0 THEN "clean_qdrant" ELSE "open"]
    /\ call' = IF call = NoCall THEN call ELSE [call EXCEPT !.alone = FALSE]
    /\ UNCHANGED <<scenario, engines, files, epoch, backups, asked>>

\* ChunkCleaner: an engine without the index raises, and the job fails.
CleanQdrant ==
    /\ job # NoJob /\ job.stage = "clean_qdrant"
    /\ IF Index(job.doc) \in DOMAIN qdrant
       THEN /\ qdrant' = [qdrant EXCEPT ![Index(job.doc)] = Without(@, Of(job.doc, @))]
            /\ Stage("clean_opensearch")
       ELSE Fails /\ UNCHANGED qdrant
    /\ UNCHANGED <<scenario, opensearch, files, epoch, call, backups, asked>>

\* A term query on document_id: without the mapping of the pipeline the field is
\* cut into tokens, and only a name of one token is found.
Matches(index, d) == index.made \/ d \in OneToken
CleanOpenSearch ==
    /\ job # NoJob /\ job.stage = "clean_opensearch"
    /\ IF Index(job.doc) \in DOMAIN opensearch
       THEN /\ opensearch' =
                 [opensearch EXCEPT ![Index(job.doc)].docs =
                     IF Matches(opensearch[Index(job.doc)], job.doc)
                     THEN Without(@, Of(job.doc, @)) ELSE @]
            /\ Stage(IF job.version = 0 THEN "row" ELSE "open")
       ELSE Fails /\ UNCHANGED opensearch
    /\ UNCHANGED <<scenario, qdrant, files, epoch, call, backups, asked>>

\* _override_index, before the file is parsed and encoded: what is missing is made.
InitQdrant(name) == IF name \in DOMAIN qdrant THEN qdrant ELSE With(qdrant, name, NoFragments)
InitOpenSearch(name) ==
    IF name \in DOMAIN opensearch THEN opensearch
    ELSE With(opensearch, name, [made |-> TRUE, docs |-> NoFragments])
Open ==
    /\ job # NoJob /\ job.stage = "open"
    /\ qdrant' = InitQdrant(CollectionOf(job.doc))
    /\ opensearch' = InitOpenSearch(IndexOf(job.doc))
    /\ Stage(IF PartCount[job.doc][job.version] = 0 THEN "row" ELSE "write_qdrant")
    /\ UNCHANGED <<scenario, files, epoch, call, backups, asked>>

UpsertQdrant ==
    /\ job # NoJob /\ job.stage = "write_qdrant"
    /\ IF CollectionOf(job.doc) \in DOMAIN qdrant
       THEN /\ qdrant' = [qdrant EXCEPT ![CollectionOf(job.doc)] =
                             Over(@, Fragments(job.doc, job.version))]
            /\ Stage("write_opensearch")
       ELSE Fails /\ UNCHANGED qdrant
    /\ UNCHANGED <<scenario, opensearch, files, epoch, call, backups, asked>>

BulkOpenSearch ==
    /\ job # NoJob /\ job.stage = "write_opensearch"
    /\ opensearch' = Indexed(IndexOf(job.doc), Fragments(job.doc, job.version))
    /\ Stage("row")
    /\ UNCHANGED <<scenario, qdrant, files, epoch, call, backups, asked>>

\* upsert_document, or mark_deleted.
WriteRow ==
    /\ job # NoJob /\ job.stage = "row"
    /\ row' = [row EXCEPT ![job.doc] = [version |-> job.version, epoch |-> job.epoch]]
    /\ job' = NoJob
    /\ UNCHANGED <<scenario, engines, version, epoch, call, backups, asked>>

Change(d, v) ==
    /\ Can("change")
    /\ \/ v = version[d] + 1 /\ version[d] > 0 /\ v <= scenario.changes
       \/ v = 0 /\ version[d] = scenario.changes
    /\ version' = [version EXCEPT ![d] = v]
    /\ UNCHANGED <<scenario, engines, row, epoch, job, call, backups, asked>>

-----------------------------------------------------------------------------
(* The console. *)

\* list_indexes: collections and indexes of one name in lower case are one entry,
\* under the name that Qdrant gives it.
Listed ==
    DOMAIN qdrant \cup {n \in DOMAIN opensearch : \A q \in DOMAIN qdrant : LowerName(q) # n}

Busy == call # NoCall /\ call.stage # "done"
Begin(kind, name) ==
    call' = [kind |-> kind, name |-> name, stage |-> "qdrant", ok |-> TRUE, alone |-> job = NoJob]
Done(ok) == call' = [call EXCEPT !.stage = "done", !.ok = @ /\ ok]
Then(ok) == call' = [call EXCEPT !.stage = "opensearch", !.ok = @ /\ ok]

AskConsole(kind, name) ==
    /\ ~Busy /\ epoch < scenario.calls
    /\ name \in Listed
    /\ Can(kind)
    /\ kind = "export" => Cardinality(backups) < MaxBackups
    /\ Begin(kind, name)
    /\ UNCHANGED <<scenario, engines, files, epoch, job, backups, asked>>

\* delete_index: an engine that cannot be reached is told in the answer, and the
\* other one is treated all the same.
DeleteFromQdrant ==
    /\ call # NoCall /\ call.kind = "delete" /\ call.stage = "qdrant"
    /\ \/ qdrant' = Without(qdrant, {call.name}) /\ Then(TRUE)
       \/ UNCHANGED qdrant /\ Then(FALSE)
    /\ epoch' = epoch + 1
    /\ UNCHANGED <<scenario, opensearch, files, job, backups, asked>>

\* Mutant: only the name as it is.
DeleteExactName ==
    /\ call # NoCall /\ call.kind = "delete" /\ call.stage = "opensearch"
    /\ \/ opensearch' = Without(opensearch, {call.name}) /\ Done(TRUE)
       \/ UNCHANGED opensearch /\ Done(FALSE)
    /\ epoch' = epoch + 1
    /\ UNCHANGED <<scenario, qdrant, files, job, backups, asked>>
DeleteFromOpenSearch ==
    /\ call # NoCall /\ call.kind = "delete" /\ call.stage = "opensearch"
    /\ \/ opensearch' = Without(opensearch, {call.name, LowerName(call.name)}) /\ Done(TRUE)
       \/ UNCHANGED opensearch /\ Done(FALSE)
    /\ epoch' = epoch + 1
    /\ UNCHANGED <<scenario, qdrant, files, job, backups, asked>>

\* export_index: all the points of the collection, and what one search returns of
\* the index, in no order.
Backup(engine, name, points) == [engine |-> engine, name |-> name, points |-> points]
ExportQdrant ==
    /\ call # NoCall /\ call.kind = "export" /\ call.stage = "qdrant"
    /\ backups' = IF call.name \in DOMAIN qdrant
                  THEN backups \cup {Backup("qdrant", call.name, qdrant[call.name])} ELSE backups
    /\ Then(call.name \in DOMAIN qdrant)
    /\ UNCHANGED <<scenario, engines, files, epoch, job, asked>>

Hits(docs) ==
    {S \in SUBSET DOMAIN docs :
        Cardinality(S) = IF Cardinality(DOMAIN docs) < ResultWindow THEN Cardinality(DOMAIN docs) ELSE ResultWindow}
ExportOpenSearch ==
    /\ call # NoCall /\ call.kind = "export" /\ call.stage = "opensearch"
    /\ LET name == LowerName(call.name) IN
         /\ \/ /\ name \in DOMAIN opensearch
               /\ \E S \in Hits(opensearch[name].docs) :
                    backups' = backups \cup
                        {Backup("opensearch", name, [x \in S |-> opensearch[name].docs[x]])}
            \/ name \notin DOMAIN opensearch /\ UNCHANGED backups
         /\ Done(name \in DOMAIN opensearch)
    /\ UNCHANGED <<scenario, engines, files, epoch, job, asked>>

\* import_index, one file per call: the index is made when it is missing, without
\* the mapping of the pipeline, and what is there stays.
Import(b) ==
    /\ ~Busy /\ epoch < scenario.calls
    /\ Can("import")
    /\ epoch' = epoch + 1
    /\ call' = NoCall
    /\ IF b.engine = "qdrant"
       THEN /\ qdrant' = With(qdrant, b.name,
                              Over(IF b.name \in DOMAIN qdrant THEN qdrant[b.name] ELSE NoFragments, b.points))
            /\ UNCHANGED opensearch
       ELSE /\ opensearch' = Indexed(b.name, b.points)
            /\ UNCHANGED qdrant
    /\ UNCHANGED <<scenario, files, job, backups, asked>>

-----------------------------------------------------------------------------
(* The search. *)

InQdrant == IF ReadQdrant(Instance) \in DOMAIN qdrant THEN DOMAIN qdrant[ReadQdrant(Instance)] ELSE {}
InOpenSearch == DOMAIN Found(ReadOpenSearch(Instance)).docs

\* HybridSearch.search: both rankings, and their fusion.
HybridSearch(bm25, dense) ==
    [NoQuestion EXCEPT !.bm25 = bm25, !.dense = dense, !.fused = Fused(bm25, dense)]
Query ==
    /\ Can("search") /\ asked = NoQuestion
    /\ job = NoJob /\ \A d \in Docs : row[d].version = version[d]
    /\ \E bm25 \in Bm25Rankings(InOpenSearch), dense \in DenseRankings(InQdrant) :
         /\ bm25 \o dense # <<>>
         /\ asked' = HybridSearch(bm25, dense)
    /\ UNCHANGED <<scenario, engines, files, epoch, job, call, backups>>

\* The reranker puts the candidates in any order.
Rerank ==
    /\ asked.fused # <<>> /\ asked.classes = <<>>
    /\ \E classes \in Ranked(Range(Candidates(asked.fused)), FusionTopK) :
         /\ Len(classes) = Len(Candidates(asked.fused))
         /\ asked' = [asked EXCEPT !.classes = classes, !.kept = WithinCeiling(classes)]
    /\ UNCHANGED <<scenario, engines, files, epoch, job, call, backups>>

-----------------------------------------------------------------------------

Worker ==
    \/ \E d \in Docs : Start(d)
    \/ CleanQdrant \/ CleanOpenSearch \/ Open \/ UpsertQdrant \/ BulkOpenSearch \/ WriteRow

Console ==
    \/ \E kind \in {"delete", "export"}, name \in Listed : AskConsole(kind, name)
    \/ DeleteFromQdrant \/ DeleteFromOpenSearch
    \/ ExportQdrant \/ ExportOpenSearch
    \/ \E b \in backups : Import(b)

Next ==
    \/ Worker
    \/ \E d \in Docs, v \in 0..scenario.changes : Change(d, v)
    \/ Console
    \/ Query \/ Rerank

Spec == Init /\ [][Next]_vars

-----------------------------------------------------------------------------
(* Properties. *)

Touched(d) == job # NoJob /\ job.doc = d
Versions(points, d) == [x \in Of(d, points) |-> points[x]]

\* The cleaner, the pipeline and both halves of the search name the index of a file
\* alike: so it is for a name that the treatments leave as it is.
Agreed(d) == Index(d) = CollectionOf(d) /\ Index(d) = IndexOf(d)
AtHome(d) == Agreed(d) /\ Index(d) = ReadQdrant(Instance) /\ Index(d) = ReadOpenSearch(Instance)

\* What the state store says is indexed is found by both halves of the search, in
\* the version that it says and nothing of another one - as long as the console
\* has not touched the engines since the job of the file began.
IndexedIsFound ==
    \A d \in Docs :
        row[d].version # 0 /\ row[d].epoch = epoch /\ ~Touched(d) /\ AtHome(d) =>
            LET expected == Fragments(d, row[d].version) IN
            /\ ReadQdrant(Instance) \in DOMAIN qdrant
            /\ ReadOpenSearch(Instance) \in DOMAIN opensearch
            /\ Versions(qdrant[ReadQdrant(Instance)], d) = expected
            /\ opensearch[ReadOpenSearch(Instance)].made =>
                  Versions(opensearch[ReadOpenSearch(Instance)].docs, d) = expected

\* "1 instance = 1 metier = 1 index force par INSTANCE_NAME": in an instance that
\* watches its own folder, what is indexed is where the search looks for it.
InstanceIsItsIndex ==
    ~Instance.multi /\ epoch = 0 =>
        \A d \in Docs :
            row[d].version # 0 /\ ~Touched(d) =>
                DOMAIN Fragments(d, row[d].version) \subseteq InQdrant \cap InOpenSearch

\* A file that the state store does not know has no fragment left - unless the
\* console touched the engines, or took the mapping of the index away.
CleanedIsGone ==
    \A d \in Docs :
        row[d].version = 0 /\ row[d].epoch = epoch /\ ~Touched(d) =>
            /\ \A n \in DOMAIN qdrant :
                  Of(d, qdrant[n]) # {} => ~(Agreed(d) /\ n = CollectionOf(d))
            /\ \A n \in DOMAIN opensearch :
                  opensearch[n].made /\ Of(d, opensearch[n].docs) # {} => ~(Agreed(d) /\ n = IndexOf(d))

\* What the page lists, the page can delete: when both engines answered and no job
\* came in between, the entry is gone, and what is still listed under its name is
\* another collection, that differs by its capitals.
DeletedIsGone ==
    call # NoCall /\ call.kind = "delete" /\ call.stage = "done" /\ call.ok /\ call.alone
        => \A n \in Listed : LowerName(n) = LowerName(call.name) => n # call.name /\ n \in DOMAIN qdrant

\* What was erased is gone, whoever erased it: the cleaner or the console.
ErasedIsGone == CleanedIsGone /\ DeletedIsGone

\* The fusion never places a fragment below one that neither engine prefers, and
\* one engine that fails leaves the order of the other.
FusionIsFair ==
    asked.fused # <<>> =>
        /\ FusionRespects(asked.bm25, asked.dense, asked.fused)
        /\ OneIsEnough(asked.bm25, asked.dense, asked.fused)

\* The lot keeps the order of the reranker, and leaves a place empty only for a
\* reason.
LotIsUsed == asked.classes # <<>> => RoomIsUsed(asked.classes, asked.kept)

\* From the answers of the engines to the lot that the model reads, no fragment
\* loses its place for nothing.
RetrievalIsFair == FusionIsFair /\ LotIsUsed
=============================================================================
