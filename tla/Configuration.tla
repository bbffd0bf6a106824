---------------------------- MODULE Configuration ----------------------------
(***************************************************************************)
(* The life of settings.yaml.  It is written by two processes - the        *)
(* configuration page and the activation of a model by the feedback        *)
(* server, the settings form by the admin server - and read by two others: *)
(* the core of the answers, on request, and the pipeline of the watcher,   *)
(* before each file.                                                       *)
(*                                                                         *)
(* The contents are sections with a value each, 0 for the default.  A      *)
(* write truncates the file, then fills it: the other processes can read   *)
(* an empty file, which is valid and means the defaults.  Handlers of one  *)
(* process do not interleave, those of two do.                             *)
(***************************************************************************)
EXTENDS Integers

CONSTANTS
    MaxEdits,       \* bound on the values that users give
    MaxTime,        \* bound on the modifications of the file
    Broken,         \* a text that is YAML and that charger refuses
    Invalid,        \* a text that is not YAML
    None

VARIABLES
    reader,         \* which of the two readers of the file is followed
    yaml,           \* settings.yaml: what it holds, the date of its last change, whether it is cut
    writer,         \* for each server, the write it has begun
    page,           \* the editor of the configuration page
    form,           \* what the client of the admin server has read
    rag,            \* the settings in force, the service and its parts
    reloads,        \* the calls of /api/reload-config
    watcher,        \* the pipeline
    edits,          \* values given so far
    wanted,         \* history: the last value that somebody gave to each section
    conflict,       \* history: a write has not seen another one
    overlap         \* history: a reload met another one, or the construction

configVars == <<reader, yaml, writer, page, form, rag, reloads, watcher, edits, wanted, conflict, overlap>>
observed == <<wanted, conflict, overlap>>

Sections == {"llm", "chunking", "retrieval"}
Servers == {"feedback", "admin"}
Callers == {"page", "activation"}

Empty == [s \in Sections |-> 0]
Contents == [Sections -> 0..MaxEdits] \cup {Broken}
Writes == [content: Contents, base: Contents, gave: SUBSET Sections,
           by: {"page", "activation", "form"}, cut: BOOLEAN]

ASSUME BoundsAssumption ==
    /\ MaxEdits \in Nat /\ MaxTime \in Nat
    /\ None \notin Nat \cup Contents \cup Writes

\* The two readers never meet, and neither changes the file: each is followed on its own.
ConfigInit ==
    /\ reader \in {"answers", "watcher"}
    /\ yaml = [content |-> Empty, time |-> 0, cut |-> FALSE]
    /\ writer = [s \in Servers |-> None]
    /\ page = [text |-> Empty, original |-> Empty, sent |-> None, doing |-> "idle", then |-> "idle",
               told |-> FALSE, time |-> 0]
    /\ form = None
    /\ rag = [settings |-> None, building |-> None, generator |-> None, hybrid |-> None]
    /\ reloads = [c \in Callers |-> [stage |-> "none", llm |-> 0]]
    /\ watcher = [stage |-> "off", chunking |-> 0, time |-> None, seen |-> 0, again |-> FALSE]
    /\ edits = 0
    /\ wanted = Empty /\ conflict = FALSE /\ overlap = FALSE

-----------------------------------------------------------------------------
(* Writes. *)

Writing(s) == writer[s] # None
TimeLeft == yaml.time + 2 <= MaxTime

\* open(path, "w")
Truncated == yaml' = [content |-> Empty, time |-> yaml.time + 1, cut |-> TRUE]
Blind(s, base) == base # yaml.content \/ \E other \in Servers \ {s} : Writing(other)

\* The user of the page types.
Type(s) ==
    /\ edits < MaxEdits /\ page.text \notin {Broken, Invalid}
    /\ edits' = edits + 1
    /\ page' = [page EXCEPT !.text[s] = edits + 1]
    /\ UNCHANGED <<reader, yaml, writer, form, rag, reloads, watcher, observed>>
Spoil(text) ==
    /\ edits < MaxEdits
    /\ edits' = edits + 1
    /\ page' = [page EXCEPT !.text = text]
    /\ UNCHANGED <<reader, yaml, writer, form, rag, reloads, watcher, observed>>

\* loadFile
LoadFile ==
    /\ page.doing = "idle"
    /\ page' = [page EXCEPT !.text = yaml.content, !.original = yaml.content]
    /\ UNCHANGED <<reader, yaml, writer, form, rag, reloads, watcher, edits, observed>>

\* The two buttons: saveFile, and reloadConfig, which saves what was modified.
PressSave ==
    /\ page.doing = "idle"
    /\ page' = [page EXCEPT !.doing = "save", !.then = "idle", !.sent = page.text, !.told = FALSE]
    /\ UNCHANGED <<reader, yaml, writer, form, rag, reloads, watcher, edits, observed>>
PressReload ==
    /\ page.doing = "idle" /\ reader = "answers"
    /\ page' = IF page.text # page.original
               THEN [page EXCEPT !.doing = "save", !.then = "post", !.sent = page.text, !.told = FALSE]
               ELSE [page EXCEPT !.doing = "post", !.told = FALSE, !.time = yaml.time]
    /\ UNCHANGED <<reader, yaml, writer, form, rag, reloads, watcher, edits, observed>>

\* save_config_file: a text that is not YAML is refused, and the page goes on.
SaveRefused ==
    /\ page.doing = "save" /\ page.sent = Invalid
    /\ page' = [page EXCEPT !.sent = None, !.doing = page.then, !.then = "idle", !.time = yaml.time]
    /\ UNCHANGED <<reader, yaml, writer, form, rag, reloads, watcher, edits, observed>>
Changed ==
    IF Broken \in {page.sent, page.original} THEN Sections
    ELSE {s \in Sections : page.sent[s] # page.original[s]}
SaveBegins ==
    /\ page.doing = "save" /\ page.sent # Invalid
    /\ ~Writing("feedback") /\ TimeLeft
    /\ Truncated
    /\ writer' = [writer EXCEPT !["feedback"] =
                     [content |-> page.sent, base |-> page.original, gave |-> Changed,
                      by |-> "page", cut |-> TRUE]]
    /\ page' = [page EXCEPT !.doing = "saving"]
    /\ conflict' = (conflict \/ Blind("feedback", page.original))
    /\ UNCHANGED <<reader, form, rag, reloads, watcher, edits, wanted, overlap>>

\* ollama_activer: reads, changes one key, writes the whole.
\* Mutant: writes what it has to say.
ActivateAlone ==
    /\ edits < MaxEdits /\ ~Writing("feedback") /\ reloads["activation"].stage = "none"
    /\ yaml.content # Broken /\ TimeLeft
    /\ edits' = edits + 1
    /\ writer' = [writer EXCEPT !["feedback"] =
                     [content |-> [Empty EXCEPT !["llm"] = edits + 1], base |-> yaml.content,
                      gave |-> {"llm"}, by |-> "activation", cut |-> FALSE]]
    /\ conflict' = (conflict \/ yaml.cut)
    /\ UNCHANGED <<reader, yaml, page, form, rag, reloads, watcher, wanted, overlap>>
Activate ==
    /\ edits < MaxEdits /\ ~Writing("feedback") /\ reloads["activation"].stage = "none"
    /\ yaml.content # Broken /\ TimeLeft
    /\ edits' = edits + 1
    /\ writer' = [writer EXCEPT !["feedback"] =
                     [content |-> [yaml.content EXCEPT !["llm"] = edits + 1], base |-> yaml.content,
                      gave |-> {"llm"}, by |-> "activation", cut |-> FALSE]]
    /\ conflict' = (conflict \/ yaml.cut)
    /\ UNCHANGED <<reader, yaml, page, form, rag, reloads, watcher, wanted, overlap>>
ActivationTruncates ==
    /\ Writing("feedback") /\ ~writer["feedback"].cut
    /\ Truncated
    /\ writer' = [writer EXCEPT !["feedback"].cut = TRUE]
    /\ conflict' = (conflict \/ Blind("feedback", writer["feedback"].base))
    /\ UNCHANGED <<reader, page, form, rag, reloads, watcher, edits, wanted, overlap>>

\* get_settings and post_settings of the admin server.
ReadForm ==
    /\ yaml.content # Broken
    /\ form' = yaml.content
    /\ UNCHANGED <<reader, yaml, writer, page, rag, reloads, watcher, edits, observed>>
PostForm(s) ==
    /\ form # None /\ ~Writing("admin") /\ edits < MaxEdits /\ TimeLeft
    /\ edits' = edits + 1
    /\ Truncated
    /\ writer' = [writer EXCEPT !["admin"] =
                     [content |-> [form EXCEPT ![s] = edits + 1], base |-> form, gave |-> {s},
                      by |-> "form", cut |-> TRUE]]
    /\ form' = None
    /\ conflict' = (conflict \/ Blind("admin", form))
    /\ UNCHANGED <<reader, page, rag, reloads, watcher, wanted, overlap>>

\* The end of a write: over what another process has written since, the two texts
\* may mix.
Given(w) ==
    IF Broken \in {w.content, wanted} THEN w.content
    ELSE [s \in Sections |-> IF s \in w.gave THEN w.content[s] ELSE wanted[s]]
Fill(s) ==
    /\ Writing(s) /\ writer[s].cut
    /\ \E content \in {writer[s].content} \cup (IF yaml.cut THEN {} ELSE {Broken}) :
          yaml' = [content |-> content, time |-> yaml.time + 1, cut |-> FALSE]
    /\ writer' = [writer EXCEPT ![s] = None]
    /\ page' = IF writer[s].by = "page"
               THEN [page EXCEPT !.original = page.sent, !.sent = None, !.doing = page.then,
                                 !.then = "idle", !.time = yaml.time + 1]
               ELSE page
    /\ reloads' = IF writer[s].by = "activation"
                  THEN [reloads EXCEPT !["activation"].stage = IF reader = "answers" THEN "read" ELSE "none"]
                  ELSE reloads
    /\ wanted' = Given(writer[s])
    /\ UNCHANGED <<reader, form, rag, watcher, edits, conflict, overlap>>

-----------------------------------------------------------------------------
(* The core of the answers. *)

Answered(c, ok) ==
    /\ reloads' = [reloads EXCEPT ![c] = [stage |-> "none", llm |-> 0]]
    /\ page' = IF c = "page" /\ page.doing = "posted" THEN [page EXCEPT !.doing = "idle", !.told = ok]
               ELSE page

Post ==
    /\ page.doing = "post" /\ reloads["page"].stage = "none"
    /\ reloads' = [reloads EXCEPT !["page"].stage = "read"]
    /\ page' = [page EXCEPT !.doing = "posted"]
    /\ UNCHANGED <<reader, yaml, writer, form, rag, watcher, edits, observed>>

\* After 15 seconds the page is told that it failed; the reload goes on.
GiveUp ==
    /\ page.doing = "posted"
    /\ page' = [page EXCEPT !.doing = "idle"]
    /\ UNCHANGED <<reader, yaml, writer, form, rag, reloads, watcher, edits, observed>>

Met(c) == rag.building # None \/ \E d \in Callers \ {c} : reloads[d].stage \in {"service", "assign"}

\* reload_config: the settings, then the generator, if there is a service.
\* Mutant: get_settings, which keeps what it has read.
ReloadKeeps(c) ==
    /\ reloads[c].stage = "read" /\ (rag.settings = None => yaml.content # Broken)
    /\ rag' = [rag EXCEPT !.settings = IF rag.settings = None THEN yaml.content ELSE rag.settings]
    /\ reloads' = [reloads EXCEPT ![c].stage = "service"]
    /\ overlap' = (overlap \/ Met(c))
    /\ UNCHANGED <<reader, yaml, writer, page, form, watcher, edits, wanted, conflict>>
ReloadReads(c) ==
    /\ reloads[c].stage = "read"
    /\ IF yaml.content = Broken
       THEN Answered(c, FALSE) /\ UNCHANGED <<reader, rag, overlap>>
       ELSE /\ rag' = [rag EXCEPT !.settings = yaml.content]
            /\ reloads' = [reloads EXCEPT ![c].stage = "service"]
            /\ overlap' = (overlap \/ Met(c))
            /\ UNCHANGED page
    /\ UNCHANGED <<reader, yaml, writer, form, watcher, edits, wanted, conflict>>
ReloadBuilds(c) ==
    /\ reloads[c].stage = "service"
    /\ IF rag.generator = None THEN Answered(c, TRUE)
       ELSE /\ reloads' = [reloads EXCEPT ![c] = [stage |-> "assign", llm |-> rag.settings["llm"]]]
            /\ UNCHANGED page
    /\ UNCHANGED <<reader, yaml, writer, form, rag, watcher, edits, observed>>
ReloadAssigns(c) ==
    /\ reloads[c].stage = "assign"
    /\ rag' = [rag EXCEPT !.generator = reloads[c].llm]
    /\ Answered(c, TRUE)
    /\ UNCHANGED <<reader, yaml, writer, form, watcher, edits, observed>>

\* The first question: build_components, which takes the time to load models.  The
\* search is given the weights and bounds of "retrieval", and keeps them.
BuildBegins ==
    /\ reader = "answers" /\ rag.generator = None /\ rag.building = None
    /\ rag.settings # None \/ yaml.content # Broken
    /\ LET settings == IF rag.settings = None THEN yaml.content ELSE rag.settings IN
          rag' = [rag EXCEPT !.settings = settings, !.building = settings]
    /\ overlap' = (overlap \/ \E c \in Callers : reloads[c].stage \in {"service", "assign"})
    /\ UNCHANGED <<reader, yaml, writer, page, form, reloads, watcher, edits, wanted, conflict>>
BuildEnds ==
    /\ rag.building # None
    /\ rag' = [rag EXCEPT !.building = None, !.generator = rag.building["llm"],
                          !.hybrid = rag.building["retrieval"]]
    /\ UNCHANGED <<reader, yaml, writer, page, form, reloads, watcher, edits, observed>>

-----------------------------------------------------------------------------
(* The pipeline of the watcher. *)

\* IngestionPipeline(): the date of the file is not noted.
Construct ==
    /\ reader = "watcher" /\ watcher.stage = "off" /\ yaml.content # Broken
    /\ watcher' = [stage |-> "ready", chunking |-> yaml.content["chunking"], time |-> None,
                   seen |-> 0, again |-> FALSE]
    /\ UNCHANGED <<reader, yaml, writer, page, form, rag, reloads, edits, observed>>
\* refresh_settings, at the head of ingest_file.
Refresh ==
    /\ watcher.stage = "ready"
    /\ watcher' = IF watcher.time = None THEN [watcher EXCEPT !.time = yaml.time]
                  ELSE IF watcher.time = yaml.time THEN watcher
                  ELSE [watcher EXCEPT !.stage = "read", !.seen = yaml.time]
    /\ UNCHANGED <<reader, yaml, writer, page, form, rag, reloads, edits, observed>>
RefreshReads ==
    /\ watcher.stage = "read"
    /\ watcher' = IF yaml.content = Broken THEN [watcher EXCEPT !.stage = "ready"]
                  ELSE [watcher EXCEPT !.stage = "stamp", !.chunking = yaml.content["chunking"]]
    /\ UNCHANGED <<reader, yaml, writer, page, form, rag, reloads, edits, observed>>
\* Mutant: the date is read again.
StampNow == yaml.time
Stamp == watcher.seen
RefreshStamps ==
    /\ watcher.stage = "stamp"
    /\ watcher' = [watcher EXCEPT !.stage = "ready", !.seen = 0, !.time = Stamp, !.again = TRUE]
    /\ UNCHANGED <<reader, yaml, writer, page, form, rag, reloads, edits, observed>>

-----------------------------------------------------------------------------

ConfigNext ==
    \/ \E s \in Sections : Type(s) \/ PostForm(s)
    \/ \E text \in {Broken, Invalid} : Spoil(text)
    \/ LoadFile \/ PressSave \/ PressReload \/ SaveRefused \/ SaveBegins \/ Post \/ GiveUp
    \/ Activate \/ ActivationTruncates \/ ReadForm
    \/ \E s \in Servers : Fill(s)
    \/ \E c \in Callers : ReloadReads(c) \/ ReloadBuilds(c) \/ ReloadAssigns(c)
    \/ BuildBegins \/ BuildEnds
    \/ Construct \/ Refresh \/ RefreshReads \/ RefreshStamps

ConfigSpec == ConfigInit /\ [][ConfigNext]_configVars

-----------------------------------------------------------------------------
(* Properties. *)

\* Domains.
Settled == [Sections -> 0..MaxEdits]
FileType == yaml \in [content: Contents, time: Nat, cut: BOOLEAN]
WriterType == writer \in [Servers -> Writes \cup {None}]
PageType ==
    page \in [text: Contents \cup {Invalid}, original: Contents, sent: Contents \cup {Invalid, None},
              doing: {"idle", "save", "saving", "post", "posted"}, then: {"idle", "post"},
              told: BOOLEAN, time: Nat]
FormType == form \in Settled \cup {None}
RagType ==
    rag \in [settings: Settled \cup {None}, building: Settled \cup {None},
             generator: Nat \cup {None}, hybrid: Nat \cup {None}]
ReloadsType == reloads \in [Callers -> [stage: {"none", "read", "service", "assign"}, llm: Nat]]
WatcherType ==
    watcher \in [stage: {"off", "ready", "read", "stamp"}, chunking: Nat, time: Nat \cup {None},
                 seen: Nat, again: BOOLEAN]
RestType == edits \in 0..MaxEdits /\ wanted \in Contents /\ conflict \in BOOLEAN /\ overlap \in BOOLEAN

ConfigTypeOK ==
    FileType /\ WriterType /\ PageType /\ FormType /\ RagType /\ ReloadsType /\ WatcherType /\ RestType

\* When the page says that the configuration is reloaded, and nobody has written the
\* file since it saved, the settings read at each question and the generator are those
\* of the file - but if two reloads overlapped, or one fell into the construction of
\* the service.  Nothing is said of what the parts of the service have copied.
Reloaded == page.told /\ page.time = yaml.time /\ ~overlap
ReloadedIsInForce ==
    Reloaded =>
        /\ rag.settings = yaml.content
        /\ rag.generator # None => rag.generator = yaml.content["llm"]

\* "a_chaud": ["retrieval", ...] is the answer of /api/reload-config, and the page adds
\* that the next questions use the new settings: the search fuses with the weights of
\* the file then.
RetrievalIsInForce ==
    Reloaded /\ rag.hybrid # None => rag.hybrid = yaml.content["retrieval"]

\* An edit is lost in two ways only: a page or a form older than the file is saved,
\* or two processes write at the same time.
EditsAreKept ==
    ~conflict /\ (\A s \in Servers : ~Writing(s)) => yaml.content = wanted

\* From the first file whose settings the pipeline has read again, the date it keeps is
\* that of what it has read: no change escapes it, not even one during the reading.
\* Before that one may: the first refresh notes the date of the file and reads nothing,
\* so that a change made since the construction is seen with the next one only.
RereadIsCurrent ==
    watcher.again /\ watcher.stage = "ready" /\ watcher.time = yaml.time /\ yaml.content # Broken
        => watcher.chunking = yaml.content["chunking"]
=============================================================================
