---------------------------- MODULE ConsoleProofs ----------------------------
(***************************************************************************)
(* Proofs about what the pages of the administrator work on: the life of   *)
(* settings.yaml (Configuration), and the opinions of the users with the   *)
(* evaluations made of them (Feedback).                                    *)
(*                                                                         *)
(* Each property of the settings is a part of an invariant that speaks of  *)
(* the operations under way, inductive together with the types alone.      *)
(*                                                                         *)
(* The opinions are three invariants that do not lean on each other: of    *)
(* the page and the table, of the evaluation under way, of the report.     *)
(* What they select from growing sequences is followed by induction on     *)
(* the length, over a set of numbers.                                      *)
(***************************************************************************)
EXTENDS Configuration, Feedback, SequenceTheorems, WellFoundedInduction, TLAPS

(* 1. The settings. *)

\* The editor is saving while its write is under way, and what it saves is a
\* text that was accepted; the admin server writes for its form only.
PageWrites ==
    /\ page.doing = "save" => page.sent \in Contents \cup {Invalid}
    /\ page.doing = "saving" => page.sent \in Contents
    /\ writer["feedback"] # None /\ writer["feedback"].by = "page" => page.doing = "saving"
    /\ writer["admin"] # None => writer["admin"].by = "form" /\ writer["admin"].cut

\* A reload that goes on has settings to build from.
HasSettings ==
    \A c \in Callers : reloads[c].stage = "service" => rag.settings \in Settled

CType == ConfigTypeOK /\ PageWrites /\ HasSettings

\* Without a conflict one server writes at a time, from the file as it is, and
\* what it writes is what was wanted but for what its user gave.
OneWrites ==
    ~conflict => \A s, t \in Servers : Writing(s) /\ Writing(t) => s = t
Grounded(s) ==
    /\ writer[s].cut = yaml.cut
    /\ Given(writer[s]) = writer[s].content
    /\ ~yaml.cut => yaml.content = wanted /\ writer[s].base = yaml.content
WritesAreGrounded ==
    ~conflict => \A s \in Servers : Writing(s) => Grounded(s)
QuietIsKept ==
    ~conflict /\ (\A s \in Servers : ~Writing(s)) => yaml.content = wanted /\ ~yaml.cut

EditInv == OneWrites /\ WritesAreGrounded /\ QuietIsKept

\* Without an overlap one reload at a time has read the settings, and no
\* construction goes on meanwhile.
UnderWay(c) == reloads[c].stage \in {"service", "assign"}
ReloadsAlone ==
    ~overlap =>
        /\ UnderWay("page") => ~UnderWay("activation")
        /\ \A c \in Callers : UnderWay(c) => rag.building = None

\* The page has been told nothing while it works, and its reload is over when
\* it is told.
ToldIsIdle == page.told => page.doing = "idle" /\ reloads["page"].stage = "none"
PageDates == page.time <= yaml.time

\* The file has not changed since the page pressed.
Unchanged == page.time = yaml.time /\ ~overlap
PageReads ==
    page.doing = "posted" /\ UnderWay("page") /\ Unchanged =>
        /\ rag.settings = yaml.content
        /\ reloads["page"].stage = "assign" => reloads["page"].llm = yaml.content["llm"]
InForce ==
    page.told /\ Unchanged =>
        /\ rag.settings = yaml.content
        /\ rag.generator # None => rag.generator = yaml.content["llm"]
        /\ rag.building # None => rag.building = yaml.content
        /\ reloads["activation"].stage = "assign" => reloads["activation"].llm = yaml.content["llm"]

ReloadInv == ReloadsAlone /\ ToldIsIdle /\ PageDates /\ PageReads /\ InForce

\* What the pipeline has read is that of the date it goes by, or of a later one.
RereadInv ==
    /\ watcher.again => watcher.time \in Nat /\ watcher.time <= yaml.time
    /\ watcher.again /\ watcher.stage = "read" => watcher.time < yaml.time
    /\ watcher.stage \in {"read", "stamp"} => watcher.seen <= yaml.time
    /\ watcher.stage = "stamp" /\ watcher.seen = yaml.time /\ yaml.content # Broken
          => watcher.chunking = yaml.content["chunking"]
    /\ RereadIsCurrent

-----------------------------------------------------------------------------
(* Types. *)

LEMMA Values ==
    /\ MaxEdits \in Nat
    /\ None \notin Contents /\ None \notin Settled /\ None \notin Writes /\ None \notin Nat
    /\ Empty \in Settled /\ Empty \in Contents
    /\ \A c \in Settled : c \in Contents /\ c["llm"] \in Nat /\ c["chunking"] \in Nat
    /\ \A c \in Contents : c # Broken => c \in Settled
    /\ Broken \in Contents
<1>1. Contents = Settled \cup {Broken}
    BY DEF Contents, Settled
<1>2. Empty \in Settled
    BY BoundsAssumption DEF Empty, Settled
<1>3. \A c \in Settled : c["llm"] \in Nat /\ c["chunking"] \in Nat
    BY BoundsAssumption DEF Settled, Sections
<1> QED
    BY <1>1, <1>2, <1>3, BoundsAssumption

LEMMA EditedContents ==
    ASSUME NEW c \in Settled, NEW s \in Sections, NEW v \in 0..MaxEdits
    PROVE  [c EXCEPT ![s] = v] \in Settled
    BY DEF Settled

LEMMA TypesType ==
    ASSUME CType, NEW s \in Sections, Type(s)
    PROVE  CType'
<1> USE DEF CType, ConfigTypeOK, Type
<1>1. FileType' /\ WriterType' /\ FormType' /\ RagType' /\ ReloadsType' /\ WatcherType'
    BY DEF FileType, WriterType, FormType, RagType, ReloadsType, WatcherType, observed
<1>2. PageType'
    <2>1. page.text \in Settled
        BY Values DEF PageType
    <2>2. [page.text EXCEPT ![s] = edits + 1] \in Settled
        <3>1. edits + 1 \in 0..MaxEdits
            BY Values DEF RestType
        <3>2. QED
            BY <2>1, <3>1, EditedContents
    <2>3. page' = [page EXCEPT !.text = [page.text EXCEPT ![s] = edits + 1]]
        OBVIOUS
    <2>4. QED
        BY <2>2, <2>3, Values DEF PageType
<1>3. RestType'
    BY Values, EditedContents DEF RestType, observed
<1>4. PageWrites'
    BY Values DEF PageWrites, FileType, WriterType, PageType, Answered, Changed, Writing, Servers
<1>5. HasSettings'
    BY Values DEF HasSettings, ReloadsType, RagType, Answered, Callers
<1>6. QED
    BY <1>1, <1>2, <1>3, <1>4, <1>5

LEMMA TypesSpoil ==
    ASSUME CType, NEW x \in {Broken, Invalid}, Spoil(x)
    PROVE  CType'
<1> USE DEF CType, ConfigTypeOK, Spoil
<1>1. FileType' /\ WriterType' /\ FormType' /\ RagType' /\ ReloadsType' /\ WatcherType'
    BY DEF FileType, WriterType, FormType, RagType, ReloadsType, WatcherType, observed
<1>2. PageType'
    BY Values, EditedContents DEF PageType, FileType, Answered
<1>3. RestType'
    BY Values, EditedContents DEF RestType, observed
<1>4. PageWrites'
    BY Values DEF PageWrites, FileType, WriterType, PageType, Answered, Changed, Writing, Servers
<1>5. HasSettings'
    BY Values DEF HasSettings, ReloadsType, RagType, Answered, Callers
<1>6. QED
    BY <1>1, <1>2, <1>3, <1>4, <1>5

LEMMA TypesLoadFile ==
    ASSUME CType, LoadFile
    PROVE  CType'
<1> USE DEF CType, ConfigTypeOK, LoadFile
<1>1. FileType' /\ WriterType' /\ FormType' /\ RagType' /\ ReloadsType' /\ WatcherType' /\ RestType'
    BY DEF FileType, WriterType, FormType, RagType, ReloadsType, WatcherType, RestType, observed
<1>2. PageType'
    BY Values, EditedContents DEF PageType, FileType, Answered
<1>3. PageWrites'
    BY Values DEF PageWrites, FileType, WriterType, PageType, Answered, Changed, Writing, Servers
<1>4. HasSettings'
    BY Values DEF HasSettings, ReloadsType, RagType, Answered, Callers
<1>5. QED
    BY <1>1, <1>2, <1>3, <1>4

LEMMA TypesPressSave ==
    ASSUME CType, PressSave
    PROVE  CType'
<1> USE DEF CType, ConfigTypeOK, PressSave
<1>1. FileType' /\ WriterType' /\ FormType' /\ RagType' /\ ReloadsType' /\ WatcherType' /\ RestType'
    BY DEF FileType, WriterType, FormType, RagType, ReloadsType, WatcherType, RestType, observed
<1>2. PageType'
    BY Values, EditedContents DEF PageType, FileType, Answered
<1>3. PageWrites'
    BY Values DEF PageWrites, FileType, WriterType, PageType, Answered, Changed, Writing, Servers
<1>4. HasSettings'
    BY Values DEF HasSettings, ReloadsType, RagType, Answered, Callers
<1>5. QED
    BY <1>1, <1>2, <1>3, <1>4

LEMMA TypesPressReload ==
    ASSUME CType, PressReload
    PROVE  CType'
<1> USE DEF CType, ConfigTypeOK, PressReload
<1>1. FileType' /\ WriterType' /\ FormType' /\ RagType' /\ ReloadsType' /\ WatcherType' /\ RestType'
    BY DEF FileType, WriterType, FormType, RagType, ReloadsType, WatcherType, RestType, observed
<1>2. PageType'
    BY Values, EditedContents DEF PageType, FileType, Answered
<1>3. PageWrites'
    BY Values DEF PageWrites, FileType, WriterType, PageType, Answered, Changed, Writing, Servers
<1>4. HasSettings'
    BY Values DEF HasSettings, ReloadsType, RagType, Answered, Callers
<1>5. QED
    BY <1>1, <1>2, <1>3, <1>4

LEMMA TypesSaveRefused ==
    ASSUME CType, SaveRefused
    PROVE  CType'
<1> USE DEF CType, ConfigTypeOK, SaveRefused
<1>1. FileType' /\ WriterType' /\ FormType' /\ RagType' /\ ReloadsType' /\ WatcherType' /\ RestType'
    BY DEF FileType, WriterType, FormType, RagType, ReloadsType, WatcherType, RestType, observed
<1>2. PageType'
    BY Values, EditedContents DEF PageType, FileType, Answered
<1>3. PageWrites'
    BY Values DEF PageWrites, FileType, WriterType, PageType, Answered, Changed, Writing, Servers
<1>4. HasSettings'
    BY Values DEF HasSettings, ReloadsType, RagType, Answered, Callers
<1>5. QED
    BY <1>1, <1>2, <1>3, <1>4

LEMMA TypesSaveBegins ==
    ASSUME CType, SaveBegins
    PROVE  CType'
<1> USE DEF CType, ConfigTypeOK, SaveBegins
<1>1. FormType' /\ RagType' /\ ReloadsType' /\ WatcherType'
    BY DEF FormType, RagType, ReloadsType, WatcherType, observed
<1>2. FileType'
    BY Values, EditedContents DEF FileType, Truncated
<1>3. WriterType'
    <2>1. Changed \in SUBSET Sections
        BY DEF Changed
    <2>2. page.sent \in Contents /\ page.original \in Contents
        BY DEF PageType, PageWrites
    <2>3. [content |-> page.sent, base |-> page.original, gave |-> Changed, by |-> "page", cut
        |-> TRUE]
              \in Writes
        BY <2>1, <2>2 DEF Writes
    <2>4. QED
        BY <2>3 DEF WriterType
<1>4. PageType'
    BY Values, EditedContents DEF PageType, FileType, Answered
<1>5. RestType'
    BY Values, EditedContents DEF RestType, observed
<1>6. PageWrites'
    BY Values DEF PageWrites, FileType, WriterType, PageType, Answered, Changed, Writing, Servers
<1>7. HasSettings'
    BY Values DEF HasSettings, ReloadsType, RagType, Answered, Callers
<1>8. QED
    BY <1>1, <1>2, <1>3, <1>4, <1>5, <1>6, <1>7

LEMMA TypesPost ==
    ASSUME CType, Post
    PROVE  CType'
<1> USE DEF CType, ConfigTypeOK, Post
<1>1. FileType' /\ WriterType' /\ FormType' /\ RagType' /\ WatcherType' /\ RestType'
    BY DEF FileType, WriterType, FormType, RagType, WatcherType, RestType, observed
<1>2. PageType'
    BY Values, EditedContents DEF PageType, FileType, Answered
<1>3. ReloadsType'
    <2>1. reloads' = [reloads EXCEPT !["page"] = [reloads["page"] EXCEPT !.stage = "read"]]
        OBVIOUS
    <2>2. QED
        BY <2>1 DEF ReloadsType, Callers
<1>4. PageWrites'
    BY Values DEF PageWrites, FileType, WriterType, PageType, Answered, Changed, Writing, Servers
<1>5. HasSettings'
    BY Values DEF HasSettings, ReloadsType, RagType, Answered, Callers
<1>6. QED
    BY <1>1, <1>2, <1>3, <1>4, <1>5

LEMMA TypesGiveUp ==
    ASSUME CType, GiveUp
    PROVE  CType'
<1> USE DEF CType, ConfigTypeOK, GiveUp
<1>1. FileType' /\ WriterType' /\ FormType' /\ RagType' /\ ReloadsType' /\ WatcherType' /\ RestType'
    BY DEF FileType, WriterType, FormType, RagType, ReloadsType, WatcherType, RestType, observed
<1>2. PageType'
    BY Values, EditedContents DEF PageType, FileType, Answered
<1>3. PageWrites'
    BY Values DEF PageWrites, FileType, WriterType, PageType, Answered, Changed, Writing, Servers
<1>4. HasSettings'
    BY Values DEF HasSettings, ReloadsType, RagType, Answered, Callers
<1>5. QED
    BY <1>1, <1>2, <1>3, <1>4

LEMMA TypesActivate ==
    ASSUME CType, Activate
    PROVE  CType'
<1> USE DEF CType, ConfigTypeOK, Activate
<1>1. FileType' /\ PageType' /\ FormType' /\ RagType' /\ ReloadsType' /\ WatcherType'
    BY DEF FileType, PageType, FormType, RagType, ReloadsType, WatcherType, observed
<1>2. WriterType'
    <2>1. yaml.content \in Settled
        BY Values DEF FileType
    <2>2. [yaml.content EXCEPT !["llm"] = edits + 1] \in Contents
        BY <2>1, Values, EditedContents DEF RestType, Sections
    <2>3. [content |-> [yaml.content EXCEPT !["llm"] = edits + 1], base |-> yaml.content,
           gave |-> {"llm"}, by |-> "activation", cut |-> FALSE] \in Writes
        BY <2>1, <2>2, Values DEF Writes, Sections
    <2>4. QED
        BY <2>3 DEF WriterType
<1>3. RestType'
    BY Values, EditedContents DEF RestType, observed
<1>4. PageWrites'
    BY Values DEF PageWrites, FileType, WriterType, PageType, Answered, Changed, Writing, Servers
<1>5. HasSettings'
    BY Values DEF HasSettings, ReloadsType, RagType, Answered, Callers
<1>6. QED
    BY <1>1, <1>2, <1>3, <1>4, <1>5

LEMMA TypesActivationTruncates ==
    ASSUME CType, ActivationTruncates
    PROVE  CType'
<1> USE DEF CType, ConfigTypeOK, ActivationTruncates
<1>1. PageType' /\ FormType' /\ RagType' /\ ReloadsType' /\ WatcherType'
    BY DEF PageType, FormType, RagType, ReloadsType, WatcherType, observed
<1>2. FileType'
    BY Values, EditedContents DEF FileType, Truncated
<1>3. WriterType'
    <2>1. writer["feedback"] \in Writes
        BY DEF WriterType, Writing, Servers
    <2>2. [writer["feedback"] EXCEPT !.cut = TRUE] \in Writes
        BY <2>1 DEF Writes
    <2>3. writer' = [writer EXCEPT !["feedback"] = [writer["feedback"] EXCEPT !.cut = TRUE]]
        OBVIOUS
    <2>4. QED
        BY <2>2, <2>3 DEF WriterType
<1>4. RestType'
    BY Values, EditedContents DEF RestType, observed
<1>5. PageWrites'
    BY Values DEF PageWrites, FileType, WriterType, PageType, Answered, Changed, Writing, Servers
<1>6. HasSettings'
    BY Values DEF HasSettings, ReloadsType, RagType, Answered, Callers
<1>7. QED
    BY <1>1, <1>2, <1>3, <1>4, <1>5, <1>6

LEMMA TypesReadForm ==
    ASSUME CType, ReadForm
    PROVE  CType'
<1> USE DEF CType, ConfigTypeOK, ReadForm
<1>1. FileType' /\ WriterType' /\ PageType' /\ RagType' /\ ReloadsType' /\ WatcherType' /\ RestType'
    BY DEF FileType, WriterType, PageType, RagType, ReloadsType, WatcherType, RestType, observed
<1>2. FormType'
    BY Values, EditedContents DEF FormType, FileType
<1>3. PageWrites'
    BY Values DEF PageWrites, FileType, WriterType, PageType, Answered, Changed, Writing, Servers
<1>4. HasSettings'
    BY Values DEF HasSettings, ReloadsType, RagType, Answered, Callers
<1>5. QED
    BY <1>1, <1>2, <1>3, <1>4

LEMMA TypesPostForm ==
    ASSUME CType, NEW s \in Sections, PostForm(s)
    PROVE  CType'
<1> USE DEF CType, ConfigTypeOK, PostForm
<1>1. PageType' /\ RagType' /\ ReloadsType' /\ WatcherType'
    BY DEF PageType, RagType, ReloadsType, WatcherType, observed
<1>2. FileType'
    BY Values, EditedContents DEF FileType, Truncated
<1>3. WriterType'
    <2>1. [form EXCEPT ![s] = edits + 1] \in Contents
        BY Values, EditedContents DEF FormType, RestType
    <2>2. [content |-> [form EXCEPT ![s] = edits + 1], base |-> form, gave |-> {s},
           by |-> "form", cut |-> TRUE] \in Writes
        BY <2>1, Values DEF Writes, FormType
    <2>3. QED
        BY <2>2 DEF WriterType
<1>4. FormType'
    BY Values, EditedContents DEF FormType, FileType
<1>5. RestType'
    BY Values, EditedContents DEF RestType, observed
<1>6. PageWrites'
    BY Values DEF PageWrites, FileType, WriterType, PageType, Answered, Changed, Writing, Servers
<1>7. HasSettings'
    BY Values DEF HasSettings, ReloadsType, RagType, Answered, Callers
<1>8. QED
    BY <1>1, <1>2, <1>3, <1>4, <1>5, <1>6, <1>7

LEMMA TypesFill ==
    ASSUME CType, NEW s \in Servers, Fill(s)
    PROVE  CType'
<1> USE DEF CType, ConfigTypeOK, Fill
<1>1. FormType' /\ RagType' /\ WatcherType'
    BY DEF FormType, RagType, WatcherType, observed
<1>2. FileType'
    <2>1. writer[s] \in Writes
        BY DEF WriterType, Writing
    <2>2. writer[s].content \in Contents
        BY <2>1 DEF Writes
    <2>3. QED
        BY <2>2, Values DEF FileType
<1>3. WriterType'
    BY Values, EditedContents DEF WriterType
<1>4. PageType'
    <2>1. CASE writer[s].by = "page"
        <3>1. page.doing = "saving" /\ page.sent \in Contents
            BY <2>1 DEF PageWrites, Writing, Servers
        <3>2. page' = [page EXCEPT !.original = page.sent, !.sent = None, !.doing = page.then,
                                  !.then = "idle", !.time = yaml.time + 1]
            BY <2>1
        <3>3. page.then \in {"idle", "post"} /\ yaml.time + 1 \in Nat
            BY DEF PageType, FileType
        <3>4. QED
            BY <3>1, <3>2, <3>3 DEF PageType
    <2>2. CASE writer[s].by # "page"
        BY <2>2 DEF PageType
    <2>3. QED
        BY <2>1, <2>2
<1>5. ReloadsType'
    <2>1. \A x \in {"read", "none"} :
             reloads' = [reloads EXCEPT !["activation"].stage = x] => ReloadsType'
        BY DEF ReloadsType, Callers
    <2>2. QED
        BY <2>1 DEF ReloadsType
<1>6. RestType'
    <2>1. writer[s] \in Writes
        BY DEF WriterType, Writing
    <2>2. writer[s].content \in Contents
        BY <2>1 DEF Writes
    <2>3. Broken \notin {writer[s].content, wanted} =>
             [t \in Sections |-> IF t \in writer[s].gave THEN writer[s].content[t] ELSE
                 wanted[t]] \in Settled
        BY <2>2, Values DEF RestType, Settled
    <2>4. QED
        BY <2>2, <2>3, Values DEF RestType, Given
<1>7. PageWrites'
    BY Values DEF PageWrites, FileType, WriterType, PageType, Answered, Changed, Writing, Servers
<1>8. HasSettings'
    BY Values DEF HasSettings, ReloadsType, RagType, Answered, Callers
<1>9. QED
    BY <1>1, <1>2, <1>3, <1>4, <1>5, <1>6, <1>7, <1>8

LEMMA TypesReloadReads ==
    ASSUME CType, NEW c \in Callers, ReloadReads(c)
    PROVE  CType'
<1> USE DEF CType, ConfigTypeOK, ReloadReads
<1>1. FileType' /\ WriterType' /\ FormType' /\ WatcherType'
    BY DEF FileType, WriterType, FormType, WatcherType, observed
<1>2. PageType'
    BY DEF PageType, Answered
<1>3. RagType'
    BY Values, EditedContents DEF RagType, FileType, ReloadsType, Answered
<1>4. ReloadsType'
    BY Values, EditedContents DEF ReloadsType, RagType, HasSettings, Answered
<1>5. RestType'
    BY Values, EditedContents DEF RestType, observed
<1>6. PageWrites'
    BY Values, ZenonT(40) DEF PageWrites, FileType, WriterType, PageType, Answered, Changed, Writing, Servers
<1>7. HasSettings'
    <2>1. CASE yaml.content = Broken
        BY <2>1 DEF HasSettings, ReloadsType, Answered
    <2>2. CASE yaml.content # Broken
        <3>1. rag'.settings \in Settled
            BY <2>2, Values DEF RagType, FileType
        <3>2. QED
            BY <3>1 DEF HasSettings
    <2>3. QED
        BY <2>1, <2>2
<1>8. QED
    BY <1>1, <1>2, <1>3, <1>4, <1>5, <1>6, <1>7

LEMMA TypesReloadBuilds ==
    ASSUME CType, NEW c \in Callers, ReloadBuilds(c)
    PROVE  CType'
<1> USE DEF CType, ConfigTypeOK, ReloadBuilds
<1>1. FileType' /\ WriterType' /\ FormType' /\ RagType' /\ WatcherType' /\ RestType'
    BY DEF FileType, WriterType, FormType, RagType, WatcherType, RestType, observed
<1>2. PageType'
    BY DEF PageType, Answered
<1>3. ReloadsType'
    BY Values, EditedContents DEF ReloadsType, RagType, HasSettings, Answered
<1>4. PageWrites'
    BY Values, ZenonT(40) DEF PageWrites, FileType, WriterType, PageType, Answered, Changed, Writing, Servers
<1>5. HasSettings'
    BY Values DEF HasSettings, ReloadsType, RagType, Answered, Callers
<1>6. QED
    BY <1>1, <1>2, <1>3, <1>4, <1>5

LEMMA TypesReloadAssigns ==
    ASSUME CType, NEW c \in Callers, ReloadAssigns(c)
    PROVE  CType'
<1> USE DEF CType, ConfigTypeOK, ReloadAssigns
<1>1. FileType' /\ WriterType' /\ FormType' /\ WatcherType' /\ RestType'
    BY DEF FileType, WriterType, FormType, WatcherType, RestType, observed
<1>2. PageType'
    BY Values, EditedContents DEF PageType, FileType, Answered
<1>3. RagType'
    BY Values, EditedContents DEF RagType, FileType, ReloadsType, Answered
<1>4. ReloadsType'
    BY Values, EditedContents DEF ReloadsType, RagType, HasSettings, Answered
<1>5. PageWrites'
    BY Values DEF PageWrites, FileType, WriterType, PageType, Answered, Changed, Writing, Servers
<1>6. HasSettings'
    BY Values DEF HasSettings, ReloadsType, RagType, Answered, Callers
<1>7. QED
    BY <1>1, <1>2, <1>3, <1>4, <1>5, <1>6

LEMMA TypesBuildBegins ==
    ASSUME CType, BuildBegins
    PROVE  CType'
<1> USE DEF CType, ConfigTypeOK, BuildBegins
<1>1. FileType' /\ WriterType' /\ PageType' /\ FormType' /\ ReloadsType' /\ WatcherType'
    BY DEF FileType, WriterType, PageType, FormType, ReloadsType, WatcherType, observed
<1>2. RagType'
    BY Values, EditedContents DEF RagType, FileType, ReloadsType, Answered
<1>3. RestType'
    BY Values, EditedContents DEF RestType, observed
<1>4. PageWrites'
    BY Values DEF PageWrites, FileType, WriterType, PageType, Answered, Changed, Writing, Servers
<1>5. HasSettings'
    BY Values DEF HasSettings, ReloadsType, RagType, Answered, Callers
<1>6. QED
    BY <1>1, <1>2, <1>3, <1>4, <1>5

LEMMA TypesBuildEnds ==
    ASSUME CType, BuildEnds
    PROVE  CType'
<1> USE DEF CType, ConfigTypeOK, BuildEnds
<1>1. FileType' /\ WriterType' /\ PageType' /\ FormType' /\ ReloadsType' /\ WatcherType' /\
      RestType'
    BY DEF FileType, WriterType, PageType, FormType, ReloadsType, WatcherType, RestType, observed
<1>2. RagType'
    <2>1. rag.building \in Settled
        BY Values DEF RagType
    <2>2. rag.building["llm"] \in Nat /\ rag.building["retrieval"] \in Nat
        BY <2>1, Values DEF Settled, Sections
    <2>3. QED
        BY <2>2, Values DEF RagType
<1>3. PageWrites'
    BY Values DEF PageWrites, FileType, WriterType, PageType, Answered, Changed, Writing, Servers
<1>4. HasSettings'
    BY Values DEF HasSettings, ReloadsType, RagType, Answered, Callers
<1>5. QED
    BY <1>1, <1>2, <1>3, <1>4

LEMMA TypesConstruct ==
    ASSUME CType, Construct
    PROVE  CType'
<1> USE DEF CType, ConfigTypeOK, Construct
<1>1. FileType' /\ WriterType' /\ PageType' /\ FormType' /\ RagType' /\ ReloadsType' /\ RestType'
    BY DEF FileType, WriterType, PageType, FormType, RagType, ReloadsType, RestType, observed
<1>2. WatcherType'
    BY Values, EditedContents DEF WatcherType, FileType, Stamp
<1>3. PageWrites'
    BY Values DEF PageWrites, FileType, WriterType, PageType, Answered, Changed, Writing, Servers
<1>4. HasSettings'
    BY Values DEF HasSettings, ReloadsType, RagType, Answered, Callers
<1>5. QED
    BY <1>1, <1>2, <1>3, <1>4

LEMMA TypesRefresh ==
    ASSUME CType, Refresh
    PROVE  CType'
<1> USE DEF CType, ConfigTypeOK, Refresh
<1>1. FileType' /\ WriterType' /\ PageType' /\ FormType' /\ RagType' /\ ReloadsType' /\ RestType'
    BY DEF FileType, WriterType, PageType, FormType, RagType, ReloadsType, RestType, observed
<1>2. WatcherType'
    BY Values, EditedContents DEF WatcherType, FileType, Stamp
<1>3. PageWrites'
    BY Values DEF PageWrites, FileType, WriterType, PageType, Answered, Changed, Writing, Servers
<1>4. HasSettings'
    BY Values DEF HasSettings, ReloadsType, RagType, Answered, Callers
<1>5. QED
    BY <1>1, <1>2, <1>3, <1>4

LEMMA TypesRefreshReads ==
    ASSUME CType, RefreshReads
    PROVE  CType'
<1> USE DEF CType, ConfigTypeOK, RefreshReads
<1>1. FileType' /\ WriterType' /\ PageType' /\ FormType' /\ RagType' /\ ReloadsType' /\ RestType'
    BY DEF FileType, WriterType, PageType, FormType, RagType, ReloadsType, RestType, observed
<1>2. WatcherType'
    BY Values, EditedContents DEF WatcherType, FileType, Stamp
<1>3. PageWrites'
    BY Values DEF PageWrites, FileType, WriterType, PageType, Answered, Changed, Writing, Servers
<1>4. HasSettings'
    BY Values DEF HasSettings, ReloadsType, RagType, Answered, Callers
<1>5. QED
    BY <1>1, <1>2, <1>3, <1>4

LEMMA TypesRefreshStamps ==
    ASSUME CType, RefreshStamps
    PROVE  CType'
<1> USE DEF CType, ConfigTypeOK, RefreshStamps
<1>1. FileType' /\ WriterType' /\ PageType' /\ FormType' /\ RagType' /\ ReloadsType' /\ RestType'
    BY DEF FileType, WriterType, PageType, FormType, RagType, ReloadsType, RestType, observed
<1>2. WatcherType'
    BY Values, EditedContents DEF WatcherType, FileType, Stamp
<1>3. PageWrites'
    BY Values DEF PageWrites, FileType, WriterType, PageType, Answered, Changed, Writing, Servers
<1>4. HasSettings'
    BY Values DEF HasSettings, ReloadsType, RagType, Answered, Callers
<1>5. QED
    BY <1>1, <1>2, <1>3, <1>4
LEMMA TypesInit == ConfigInit => CType
<1> SUFFICES ASSUME ConfigInit PROVE CType
    OBVIOUS
<1> USE DEF ConfigInit
<1>1. FileType /\ PageType /\ FormType /\ RagType
    BY Values DEF FileType, PageType, FormType, RagType
<1>2. WriterType /\ ReloadsType
    BY DEF WriterType, ReloadsType
<1>3. WatcherType
    BY DEF WatcherType
<1>4. RestType
    <2>1. wanted \in Contents
        BY Values
    <2>2. edits \in 0..MaxEdits
        BY BoundsAssumption
    <2>3. QED
        BY <2>1, <2>2 DEF RestType
<1>5. PageWrites /\ HasSettings
    BY DEF PageWrites, HasSettings, Servers, Callers
<1>6. QED
    BY <1>1, <1>2, <1>3, <1>4, <1>5 DEF CType, ConfigTypeOK

LEMMA TypesNext ==
    ASSUME CType, [ConfigNext]_configVars PROVE CType'
<1>1. CASE \E s \in Sections : Type(s)
    BY <1>1, TypesType
<1>2. CASE \E x \in {Broken, Invalid} : Spoil(x)
    BY <1>2, TypesSpoil
<1>3. CASE LoadFile
    BY <1>3, TypesLoadFile
<1>4. CASE PressSave
    BY <1>4, TypesPressSave
<1>5. CASE PressReload
    BY <1>5, TypesPressReload
<1>6. CASE SaveRefused
    BY <1>6, TypesSaveRefused
<1>7. CASE SaveBegins
    BY <1>7, TypesSaveBegins
<1>8. CASE Post
    BY <1>8, TypesPost
<1>9. CASE GiveUp
    BY <1>9, TypesGiveUp
<1>10. CASE Activate
    BY <1>10, TypesActivate
<1>11. CASE ActivationTruncates
    BY <1>11, TypesActivationTruncates
<1>12. CASE ReadForm
    BY <1>12, TypesReadForm
<1>13. CASE \E s \in Sections : PostForm(s)
    BY <1>13, TypesPostForm
<1>14. CASE \E s \in Servers : Fill(s)
    BY <1>14, TypesFill
<1>15. CASE \E c \in Callers : ReloadReads(c)
    BY <1>15, TypesReloadReads
<1>16. CASE \E c \in Callers : ReloadBuilds(c)
    BY <1>16, TypesReloadBuilds
<1>17. CASE \E c \in Callers : ReloadAssigns(c)
    BY <1>17, TypesReloadAssigns
<1>18. CASE BuildBegins
    BY <1>18, TypesBuildBegins
<1>19. CASE BuildEnds
    BY <1>19, TypesBuildEnds
<1>20. CASE Construct
    BY <1>20, TypesConstruct
<1>21. CASE Refresh
    BY <1>21, TypesRefresh
<1>22. CASE RefreshReads
    BY <1>22, TypesRefreshReads
<1>23. CASE RefreshStamps
    BY <1>23, TypesRefreshStamps
<1>24. CASE UNCHANGED configVars
    BY <1>24 DEF configVars, CType, ConfigTypeOK, PageWrites, HasSettings, Writing, FileType, WriterType,
        PageType, FormType, RagType, ReloadsType, WatcherType, RestType
<1>25. QED
    BY <1>1, <1>2, <1>3, <1>4, <1>5, <1>6, <1>7, <1>8, <1>9, <1>10, <1>11, <1>12, <1>13, <1>14,
        <1>15, <1>16, <1>17, <1>18, <1>19, <1>20, <1>21, <1>22, <1>23, <1>24 DEF ConfigNext

\* Every variable keeps its domain; the editor saves while its write is under way,
\* and a reload that goes on has settings.
THEOREM TypesKept == ConfigSpec => []CType
<1>1. ConfigInit => CType
    BY TypesInit
<1>2. CType /\ [ConfigNext]_configVars => CType'
    BY TypesNext
<1>3. QED
    BY <1>1, <1>2, PTL DEF ConfigSpec
-----------------------------------------------------------------------------
(* No edit is lost. *)

\* What a write says of the sections that its user left alone is what was wanted.
LEMMA GivenIsContent ==
    ASSUME NEW w \in Writes, wanted \in Contents, w.base = wanted,
           Broken \in {w.content, w.base} \/ \A s \in Sections \ w.gave : w.content[s] = w.base[s]
    PROVE  Given(w) = w.content
<1>1. CASE Broken \in {w.content, wanted}
    BY <1>1 DEF Given
<1>2. CASE Broken \notin {w.content, wanted}
    <2>1. w.content \in Settled
        BY <1>2, Values DEF Writes
    <2>2. \A s \in Sections : (IF s \in w.gave THEN w.content[s] ELSE wanted[s]) = w.content[s]
        BY <1>2
    <2>3. [s \in Sections |-> IF s \in w.gave THEN w.content[s] ELSE wanted[s]] = w.content
        BY <2>1, <2>2 DEF Settled
    <2>4. QED
        BY <1>2, <2>3 DEF Given
<1>3. QED
    BY <1>1, <1>2

\* A write that begins when there is none, from what the file holds.
LEMMA EditsBegin ==
    ASSUME CType, EditInv, NEW s \in Servers, NEW w \in Writes,
           \A t \in Servers : ~Writing(t), ~conflict,
           w.base = yaml.content, w.cut = yaml'.cut, ~yaml'.cut => yaml'.content = yaml.content,
           Broken \in {w.content, w.base} \/ \A x \in Sections \ w.gave : w.content[x] = w.base[x],
           writer' = [writer EXCEPT ![s] = w], wanted' = wanted
    PROVE  EditInv'
<1>1. yaml.content = wanted /\ wanted \in Contents
    BY DEF EditInv, QuietIsKept, CType, ConfigTypeOK, RestType
<1>2. Given(w) = w.content
    BY <1>1, GivenIsContent
<1>3. writer'[s] = w /\ \A t \in Servers \ {s} : writer'[t] = None
    BY DEF CType, ConfigTypeOK, WriterType, Writing
<1>4. Given(w)' = w.content
    BY <1>2 DEF Given
<1>5. w # None
    BY Values
<1>6. OneWrites'
    BY <1>3 DEF OneWrites, Writing
<1>7. Grounded(s)'
    <2>1. (Given(writer[s]))' = w.content
        BY <1>2, <1>3 DEF Given
    <2>2. QED
        BY <1>1, <1>3, <2>1 DEF Grounded
<1>8. WritesAreGrounded'
    BY <1>3, <1>7 DEF WritesAreGrounded, Writing
<1>9. QuietIsKept'
    BY <1>3, <1>5 DEF QuietIsKept, Writing
<1>10. QED
    BY <1>6, <1>8, <1>9 DEF EditInv

LEMMA EditsConflict ==
    ASSUME conflict' PROVE EditInv'
    BY DEF EditInv, OneWrites, WritesAreGrounded, QuietIsKept

LEMMA EditsFrame ==
    ASSUME EditInv, UNCHANGED <<yaml, writer, wanted, conflict>> PROVE EditInv'
    BY DEF EditInv, OneWrites, WritesAreGrounded, QuietIsKept, Grounded, Given, Writing

LEMMA EditsSaveBegins ==
    ASSUME CType, EditInv, SaveBegins PROVE EditInv'
<1> DEFINE w == [content |-> page.sent, base |-> page.original, gave |-> Changed,
                 by |-> "page", cut |-> TRUE]
<1>1. CASE conflict'
    BY <1>1, EditsConflict
<1>2. CASE ~conflict'
    <2>1. ~conflict /\ page.original = yaml.content /\ \A t \in Servers : ~Writing(t)
        BY <1>2 DEF SaveBegins, Blind, Servers
    <2>2. page.sent \in Contents /\ page.original \in Contents
        BY DEF SaveBegins, CType, ConfigTypeOK, PageType, PageWrites
    <2>3. w \in Writes
        BY <2>2 DEF Writes, Changed
    <2>4. Broken \in {w.content, w.base} \/ \A x \in Sections \ w.gave : w.content[x] = w.base[x]
        BY DEF Changed
    <2>5. writer' = [writer EXCEPT !["feedback"] = w] /\ wanted' = wanted /\ yaml'.cut
        BY DEF SaveBegins, Truncated
    <2>6. QED
        BY <2>1, <2>3, <2>4, <2>5, EditsBegin DEF Servers
<1>3. QED
    BY <1>1, <1>2

LEMMA EditsPostForm ==
    ASSUME CType, EditInv, NEW s \in Sections, PostForm(s) PROVE EditInv'
<1> DEFINE w == [content |-> [form EXCEPT ![s] = edits + 1], base |-> form, gave |-> {s},
                 by |-> "form", cut |-> TRUE]
<1>1. CASE conflict'
    BY <1>1, EditsConflict
<1>2. CASE ~conflict'
    <2>1. ~conflict /\ form = yaml.content /\ \A t \in Servers : ~Writing(t)
        BY <1>2 DEF PostForm, Blind, Servers
    <2>2. form \in Settled /\ edits + 1 \in 0..MaxEdits
        BY Values DEF PostForm, CType, ConfigTypeOK, FormType, RestType
    <2>3. [form EXCEPT ![s] = edits + 1] \in Settled
        BY <2>2, EditedContents
    <2>4. w \in Writes
        BY <2>2, <2>3, Values DEF Writes
    <2>5. \A x \in Sections \ w.gave : w.content[x] = w.base[x]
        BY <2>2 DEF Settled
    <2>6. writer' = [writer EXCEPT !["admin"] = w] /\ wanted' = wanted /\ yaml'.cut
        BY DEF PostForm, Truncated
    <2>7. QED
        BY <2>1, <2>4, <2>5, <2>6, EditsBegin DEF Servers
<1>3. QED
    BY <1>1, <1>2

LEMMA EditsActivate ==
    ASSUME CType, EditInv, Activate PROVE EditInv'
<1> DEFINE w == [content |-> [yaml.content EXCEPT !["llm"] = edits + 1], base |-> yaml.content,
                 gave |-> {"llm"}, by |-> "activation", cut |-> FALSE]
<1>1. CASE conflict'
    BY <1>1, EditsConflict
<1>2. CASE ~conflict'
    <2>1. ~conflict /\ ~yaml.cut /\ yaml.cut = FALSE
        BY <1>2 DEF Activate, CType, ConfigTypeOK, FileType
    <2>2. \A t \in Servers : ~Writing(t)
        <3>1. ~Writing("feedback")
            BY DEF Activate
        <3>2. ~Writing("admin")
            BY <2>1 DEF EditInv, WritesAreGrounded, Grounded, CType, PageWrites, Writing, Servers
        <3>3. QED
            BY <3>1, <3>2 DEF Servers
    <2>3. yaml.content \in Settled /\ edits + 1 \in 0..MaxEdits
        BY Values DEF Activate, CType, ConfigTypeOK, FileType, RestType
    <2>4. [yaml.content EXCEPT !["llm"] = edits + 1] \in Settled
        BY <2>3, EditedContents DEF Sections
    <2>5. w \in Writes
        BY <2>3, <2>4, Values DEF Writes, Sections
    <2>6. \A x \in Sections \ w.gave : w.content[x] = w.base[x]
        BY <2>3 DEF Settled
    <2>7. writer' = [writer EXCEPT !["feedback"] = w] /\ wanted' = wanted /\ yaml' = yaml
        BY DEF Activate
    <2>8. QED
        BY <2>1, <2>2, <2>5, <2>6, <2>7, EditsBegin DEF Servers
<1>3. QED
    BY <1>1, <1>2

LEMMA EditsActivationTruncates ==
    ASSUME CType, EditInv, ActivationTruncates PROVE EditInv'
<1>1. CASE conflict'
    BY <1>1, EditsConflict
<1>2. CASE ~conflict'
    <2>1. ~conflict /\ ~Writing("admin")
        BY <1>2 DEF ActivationTruncates, Blind, Servers
    <2>2. writer["feedback"] \in Writes /\ Grounded("feedback")
        BY <2>1 DEF ActivationTruncates, CType, ConfigTypeOK, WriterType, EditInv, WritesAreGrounded,
            Writing, Servers
    <2>3. /\ writer'["feedback"] = [writer["feedback"] EXCEPT !.cut = TRUE]
          /\ writer'["admin"] = None
        BY <2>1 DEF ActivationTruncates, CType, ConfigTypeOK, WriterType, Writing, Servers
    <2>4. /\ writer'["feedback"] \in Writes /\ writer'["feedback"].cut
          /\ writer'["feedback"].content = writer["feedback"].content
          /\ writer'["feedback"].gave = writer["feedback"].gave
        BY <2>2, <2>3 DEF Writes
    <2>5. wanted' = wanted /\ yaml'.cut
        BY DEF ActivationTruncates, Truncated
    <2>6. Grounded("feedback")'
        <3>1. (Given(writer["feedback"]))' = Given(writer["feedback"])
            BY <2>4, <2>5 DEF Given
        <3>2. QED
            BY <2>2, <2>4, <2>5, <3>1 DEF Grounded
    <2>7. QED
        BY <2>3, <2>4, <2>6, Values DEF EditInv, OneWrites, WritesAreGrounded, QuietIsKept,
            Writing, Servers
<1>3. QED
    BY <1>1, <1>2

LEMMA EditsFill ==
    ASSUME CType, EditInv, NEW s \in Servers, Fill(s) PROVE EditInv'
<1>1. CASE conflict
    BY <1>1, EditsConflict DEF Fill
<1>2. CASE ~conflict
    <2>1. Grounded(s) /\ \A t \in Servers \ {s} : writer[t] = None
        BY <1>2 DEF Fill, EditInv, OneWrites, WritesAreGrounded, Writing
    <2>2. yaml' = [content |-> writer[s].content, time |-> yaml.time + 1, cut |-> FALSE]
        BY <2>1 DEF Fill, Grounded
    <2>3. wanted' = writer[s].content
        BY <2>1 DEF Fill, Grounded
    <2>4. \A t \in Servers : writer'[t] = None
        BY <2>1 DEF Fill, CType, ConfigTypeOK, WriterType
    <2>5. QED
        BY <2>2, <2>3, <2>4 DEF EditInv, OneWrites, WritesAreGrounded, QuietIsKept, Writing
<1>3. QED
    BY <1>1, <1>2

LEMMA EditsInit == ConfigInit => EditInv
    BY DEF ConfigInit, EditInv, OneWrites, WritesAreGrounded, QuietIsKept, Writing, Servers

LEMMA EditsNext ==
    ASSUME CType, EditInv, [ConfigNext]_configVars PROVE EditInv'
<1>1. CASE SaveBegins
    BY <1>1, EditsSaveBegins
<1>2. CASE Activate
    BY <1>2, EditsActivate
<1>3. CASE ActivationTruncates
    BY <1>3, EditsActivationTruncates
<1>4. CASE \E s \in Sections : PostForm(s)
    BY <1>4, EditsPostForm
<1>5. CASE \E s \in Servers : Fill(s)
    BY <1>5, EditsFill
<1>6. CASE \/ \E s \in Sections : Type(s)
           \/ \E text \in {Broken, Invalid} : Spoil(text)
           \/ LoadFile \/ PressSave \/ PressReload \/ SaveRefused \/ Post \/ GiveUp \/ ReadForm
    <2>1. UNCHANGED <<yaml, writer, wanted, conflict>>
        BY <1>6 DEF Type, Spoil, LoadFile, PressSave, PressReload, SaveRefused, Post, GiveUp,
            ReadForm, observed
    <2>2. QED
        BY <2>1, EditsFrame
<1>7. CASE \/ \E c \in Callers : ReloadReads(c) \/ ReloadBuilds(c) \/ ReloadAssigns(c)
           \/ BuildBegins \/ BuildEnds
    <2>1. UNCHANGED <<yaml, writer, wanted, conflict>>
        BY <1>7 DEF ReloadReads, ReloadBuilds, ReloadAssigns, BuildBegins, BuildEnds, observed
    <2>2. QED
        BY <2>1, EditsFrame
<1>8. CASE Construct \/ Refresh \/ RefreshReads \/ RefreshStamps \/ UNCHANGED configVars
    <2>1. UNCHANGED <<yaml, writer, wanted, conflict>>
        BY <1>8 DEF Construct, Refresh, RefreshReads, RefreshStamps, observed, configVars
    <2>2. QED
        BY <2>1, EditsFrame
<1>9. QED
    BY <1>1, <1>2, <1>3, <1>4, <1>5, <1>6, <1>7, <1>8 DEF ConfigNext

\* An edit is lost only when a page or a form older than the file is saved, or when
\* two processes write at the same time (web_config_ui.py, admin_ui.py,
\* feedback_ui.py).
THEOREM EditsKept == ConfigSpec => []EditsAreKept
<1>1. CType /\ EditInv => EditsAreKept
    BY DEF EditInv, QuietIsKept, EditsAreKept
<1>2. ConfigInit => EditInv
    BY EditsInit
<1>3. CType /\ EditInv /\ [ConfigNext]_configVars => EditInv'
    BY EditsNext
<1>4. QED
    BY <1>1, <1>2, <1>3, TypesKept, PTL DEF ConfigSpec

-----------------------------------------------------------------------------
(* The pipeline goes by what it has read. *)

\* A change of the file is of a later date than all that the pipeline has read.
LEMMA RereadFileMoves ==
    ASSUME CType, RereadInv, watcher' = watcher, yaml' = yaml \/ yaml'.time = yaml.time + 1
    PROVE  RereadInv'
<1>1. CASE yaml' = yaml
    BY <1>1 DEF RereadInv, RereadIsCurrent
<1>2. CASE yaml'.time = yaml.time + 1
    <2>1. yaml.time \in Nat /\ watcher.seen \in Nat /\ watcher.stage \in {"off", "ready",
        "read", "stamp"}
        BY DEF CType, ConfigTypeOK, FileType, WatcherType
    <2>2. watcher.again => watcher.time \in Nat /\ watcher.time < yaml'.time
        BY <1>2, <2>1 DEF RereadInv
    <2>3. watcher.stage \in {"read", "stamp"} => watcher.seen < yaml'.time
        BY <1>2, <2>1 DEF RereadInv
    <2>4. QED
        BY <2>1, <2>2, <2>3 DEF RereadInv, RereadIsCurrent
<1>3. QED
    BY <1>1, <1>2

LEMMA RereadRefresh ==
    ASSUME CType, RereadInv, Refresh PROVE RereadInv'
<1>1. yaml' = yaml /\ yaml.time \in Nat /\ watcher \in [stage: {"off", "ready", "read", "stamp"},
          chunking: Nat, time: Nat \cup {None}, seen: Nat, again: BOOLEAN] /\ watcher.stage =
              "ready"
    BY DEF Refresh, CType, ConfigTypeOK, FileType, WatcherType
<1>2. CASE watcher.time = None
    <2>1. ~watcher.again
        BY <1>2, Values DEF RereadInv
    <2>2. watcher' = [watcher EXCEPT !.time = yaml.time]
        BY <1>2 DEF Refresh
    <2>3. QED
        BY <1>1, <2>1, <2>2 DEF RereadInv, RereadIsCurrent
<1>3. CASE watcher.time = yaml.time /\ watcher.time # None
    BY <1>1, <1>3 DEF Refresh, RereadInv, RereadIsCurrent
<1>4. CASE watcher.time # yaml.time /\ watcher.time # None
    <2>1. watcher' = [watcher EXCEPT !.stage = "read", !.seen = yaml.time]
        BY <1>4 DEF Refresh
    <2>2. QED
        BY <1>1, <1>4, <2>1 DEF RereadInv, RereadIsCurrent
<1>5. QED
    BY <1>2, <1>3, <1>4

LEMMA RereadReads ==
    ASSUME CType, RereadInv, RefreshReads PROVE RereadInv'
<1>1. yaml' = yaml /\ yaml.time \in Nat /\ watcher \in [stage: {"off", "ready", "read", "stamp"},
          chunking: Nat, time: Nat \cup {None}, seen: Nat, again: BOOLEAN] /\ watcher.stage = "read"
    BY DEF RefreshReads, CType, ConfigTypeOK, FileType, WatcherType
<1>2. CASE yaml.content = Broken
    <2>1. watcher' = [watcher EXCEPT !.stage = "ready"]
        BY <1>2 DEF RefreshReads
    <2>2. QED
        BY <1>1, <1>2, <2>1 DEF RereadInv, RereadIsCurrent
<1>3. CASE yaml.content # Broken
    <2>1. watcher' = [watcher EXCEPT !.stage = "stamp", !.chunking = yaml.content["chunking"]]
        BY <1>3 DEF RefreshReads
    <2>2. QED
        BY <1>1, <2>1 DEF RereadInv, RereadIsCurrent
<1>4. QED
    BY <1>2, <1>3

LEMMA RereadStamps ==
    ASSUME CType, RereadInv, RefreshStamps PROVE RereadInv'
<1>1. yaml' = yaml /\ yaml.time \in Nat /\ watcher \in [stage: {"off", "ready", "read", "stamp"},
          chunking: Nat, time: Nat \cup {None}, seen: Nat, again: BOOLEAN] /\ watcher.stage =
              "stamp"
    BY DEF RefreshStamps, CType, ConfigTypeOK, FileType, WatcherType
<1>2. watcher' = [watcher EXCEPT !.stage = "ready", !.seen = 0, !.time = watcher.seen, !.again =
      TRUE]
    BY DEF RefreshStamps, Stamp
<1>3. QED
    BY <1>1, <1>2 DEF RereadInv, RereadIsCurrent

LEMMA RereadNext ==
    ASSUME CType, RereadInv, [ConfigNext]_configVars PROVE RereadInv'
<1>1. CASE Construct
    <2>1. yaml' = yaml /\ ~watcher'.again /\ watcher'.stage = "ready"
        BY <1>1 DEF Construct
    <2>2. QED
        BY <2>1 DEF RereadInv, RereadIsCurrent
<1>2. CASE Refresh
    BY <1>2, RereadRefresh
<1>3. CASE RefreshReads
    BY <1>3, RereadReads
<1>4. CASE RefreshStamps
    BY <1>4, RereadStamps
<1>5. CASE SaveBegins \/ ActivationTruncates \/ (\E s \in Sections : PostForm(s)) \/ (\E s \in
      Servers : Fill(s))
    <2>1. watcher' = watcher /\ yaml'.time = yaml.time + 1
        BY <1>5 DEF SaveBegins, ActivationTruncates, PostForm, Fill, Truncated
    <2>2. QED
        BY <2>1, RereadFileMoves
<1>6. CASE \/ \E s \in Sections : Type(s)
           \/ \E text \in {Broken, Invalid} : Spoil(text)
           \/ LoadFile \/ PressSave \/ PressReload \/ SaveRefused \/ Post \/ GiveUp \/ Activate
               \/ ReadForm
    <2>1. watcher' = watcher /\ yaml' = yaml
        BY <1>6 DEF Type, Spoil, LoadFile, PressSave, PressReload, SaveRefused, Post, GiveUp,
            Activate, ReadForm
    <2>2. QED
        BY <2>1, RereadFileMoves
<1>7. CASE \/ \E c \in Callers : ReloadReads(c) \/ ReloadBuilds(c) \/ ReloadAssigns(c)
           \/ BuildBegins \/ BuildEnds \/ UNCHANGED configVars
    <2>1. watcher' = watcher /\ yaml' = yaml
        BY <1>7 DEF ReloadReads, ReloadBuilds, ReloadAssigns, BuildBegins, BuildEnds, configVars
    <2>2. QED
        BY <2>1, RereadFileMoves
<1>8. QED
    BY <1>1, <1>2, <1>3, <1>4, <1>5, <1>6, <1>7 DEF ConfigNext

\* The date that the pipeline keeps is taken before the reading: from its second
\* refresh on, no change of the file escapes it.  The first one notes the date and
\* reads nothing, and a change made since the construction stays unseen until the
\* next one (pipeline.py, refresh_settings).
THEOREM RereadCurrent == ConfigSpec => []RereadIsCurrent
<1>1. ConfigInit => RereadInv
    BY DEF ConfigInit, RereadInv, RereadIsCurrent
<1>2. CType /\ RereadInv /\ [ConfigNext]_configVars => RereadInv'
    BY RereadNext
<1>3. RereadInv => RereadIsCurrent
    BY DEF RereadInv
<1>4. QED
    BY <1>1, <1>2, <1>3, TypesKept, PTL DEF ConfigSpec

-----------------------------------------------------------------------------
(* What the page is told of a reload is true. *)

\* The steps that change nothing of a reload, nor the file.
LEMMA ReloadFrame ==
    ASSUME ReloadInv, UNCHANGED <<yaml, rag, reloads, overlap>>,
           page'.told = page.told, page'.doing = page.doing, page'.time = page.time
    PROVE  ReloadInv'
    BY DEF ReloadInv, ReloadsAlone, UnderWay, ToldIsIdle, PageDates, PageReads, InForce, Unchanged

\* The page works: it is told nothing and reads nothing.
LEMMA ReloadPageWorks ==
    ASSUME ReloadInv, UNCHANGED <<yaml, rag, reloads, overlap>>,
           ~page'.told, page'.doing # "posted", page'.time = page.time \/ page'.time = yaml.time,
           yaml.time \in Nat
    PROVE  ReloadInv'
    BY DEF ReloadInv, ReloadsAlone, UnderWay, ToldIsIdle, PageDates, PageReads, InForce, Unchanged

\* A change of the file makes the page older than it, but for the page that ends its
\* own write.
LEMMA ReloadFileMoves ==
    ASSUME CType, ReloadInv, rag' = rag, overlap' = overlap, yaml'.time = yaml.time + 1,
           \A c \in Callers : reloads'[c] = reloads[c] \/ reloads'[c].stage \in {"none", "read"},
           reloads'["page"] = reloads["page"],
           \/ page'.told = page.told /\ page'.doing = page.doing /\ page'.time = page.time
           \/ ~page'.told /\ page'.doing # "posted" /\ page'.time \in {page.time, yaml'.time}
    PROVE  ReloadInv'
<1>1. yaml.time \in Nat /\ page.time \in Nat /\ page.time < yaml'.time
    BY DEF CType, ConfigTypeOK, FileType, PageType, ReloadInv, PageDates
<1>2. ReloadsAlone'
    BY DEF ReloadInv, ReloadsAlone, UnderWay, Callers
<1>3. ToldIsIdle'
    BY DEF ReloadInv, ToldIsIdle
<1>4. PageDates'
    BY <1>1 DEF PageDates
<1>5. PageReads' /\ InForce'
    BY <1>1 DEF PageReads, InForce, Unchanged
<1>6. QED
    BY <1>2, <1>3, <1>4, <1>5 DEF ReloadInv

\* What the answer to a call leaves of the page and of the calls.
LEMMA AnsweredSplits ==
    ASSUME CType, NEW c \in Callers, NEW ok \in BOOLEAN, Answered(c, ok)
    PROVE  /\ reloads'[c].stage = "none"
           /\ \A d \in Callers \ {c} : reloads'[d] = reloads[d]
           /\ page'.time = page.time
           /\ \/ page' = page /\ ~(c = "page" /\ page.doing = "posted")
              \/ c = "page" /\ page.doing = "posted" /\ page'.doing = "idle" /\ page'.told = ok
    BY DEF Answered, CType, ConfigTypeOK, ReloadsType, PageType

LEMMA ReloadPost ==
    ASSUME CType, ReloadInv, Post PROVE ReloadInv'
<1>1. /\ reloads'["page"].stage = "read" /\ reloads'["activation"] = reloads["activation"]
      /\ page'.told = page.told /\ page'.time = page.time /\ page'.doing = "posted"
    BY DEF Post, CType, ConfigTypeOK, ReloadsType, PageType, Callers
<1>2. ~page.told /\ UNCHANGED <<yaml, rag, overlap>>
    BY DEF Post, ReloadInv, ToldIsIdle, observed
<1>3. QED
    BY <1>1, <1>2 DEF ReloadInv, ReloadsAlone, UnderWay, ToldIsIdle, PageDates, PageReads, InForce,
        Unchanged, Callers

LEMMA ReloadReloadReads ==
    ASSUME CType, ReloadInv, NEW c \in Callers, ReloadReads(c) PROVE ReloadInv'
<1>1. reloads[c].stage = "read" /\ yaml' = yaml
    BY DEF ReloadReads
<1>2. CASE yaml.content = Broken
    <2>1. Answered(c, FALSE) /\ rag' = rag /\ overlap' = overlap
        BY <1>2 DEF ReloadReads
    <2>2. /\ reloads'[c].stage = "none"
          /\ \A d \in Callers \ {c} : reloads'[d] = reloads[d]
          /\ page'.time = page.time
          /\ \/ page' = page /\ ~(c = "page" /\ page.doing = "posted")
             \/ c = "page" /\ page.doing = "posted" /\ page'.doing = "idle" /\ ~page'.told
        BY <2>1, AnsweredSplits
    <2>3. QED
        BY <1>1, <2>1, <2>2 DEF ReloadInv, ReloadsAlone, UnderWay, ToldIsIdle, PageDates, PageReads,
            InForce, Unchanged, Callers
<1>3. CASE yaml.content # Broken
    <2>1. /\ rag'.settings = yaml.content /\ rag'.building = rag.building
          /\ rag'.generator = rag.generator
          /\ reloads'[c].stage = "service" /\ \A d \in Callers \ {c} : reloads'[d] = reloads[d]
          /\ page' = page
        BY <1>3 DEF ReloadReads, CType, ConfigTypeOK, RagType, ReloadsType
    <2>2. ~overlap' => /\ ~overlap /\ rag.building = None
                       /\ \A d \in Callers \ {c} : ~UnderWay(d)
        BY <1>3 DEF ReloadReads, Met, UnderWay
    <2>3. ReloadsAlone'
        BY <2>1, <2>2 DEF ReloadsAlone, UnderWay, Callers
    <2>4. ToldIsIdle' /\ PageDates'
        BY <1>1, <2>1 DEF ReloadInv, ToldIsIdle, PageDates, Callers
    <2>5. PageReads'
        BY <1>1, <2>1, <2>2 DEF PageReads, UnderWay, Unchanged, Callers
    <2>6. InForce'
        BY <1>1, <2>1, <2>2 DEF ReloadInv, ToldIsIdle, InForce, UnderWay, Unchanged, Callers
    <2>7. QED
        BY <2>3, <2>4, <2>5, <2>6 DEF ReloadInv
<1>4. QED
    BY <1>2, <1>3

LEMMA ReloadReloadBuilds ==
    ASSUME CType, ReloadInv, NEW c \in Callers, ReloadBuilds(c) PROVE ReloadInv'
<1>1. reloads[c].stage = "service" /\ yaml' = yaml /\ rag' = rag /\ overlap' = overlap
    BY DEF ReloadBuilds, observed
<1>2. CASE rag.generator = None
    <2>1. /\ reloads'[c].stage = "none"
          /\ \A d \in Callers \ {c} : reloads'[d] = reloads[d]
          /\ page'.time = page.time
          /\ \/ page' = page /\ ~(c = "page" /\ page.doing = "posted")
             \/ c = "page" /\ page.doing = "posted" /\ page'.doing = "idle" /\ page'.told
        BY <1>2, AnsweredSplits DEF ReloadBuilds
    <2>2. QED
        BY <1>1, <1>2, <2>1 DEF ReloadInv, ReloadsAlone, UnderWay, ToldIsIdle, PageDates, PageReads,
            InForce, Unchanged, Callers
<1>3. CASE rag.generator # None
    <2>1. /\ reloads'[c] = [stage |-> "assign", llm |-> rag.settings["llm"]]
          /\ \A d \in Callers \ {c} : reloads'[d] = reloads[d]
          /\ page' = page
        BY <1>3 DEF ReloadBuilds, CType, ConfigTypeOK, ReloadsType
    <2>2. QED
        BY <1>1, <2>1 DEF ReloadInv, ReloadsAlone, UnderWay, ToldIsIdle, PageDates, PageReads,
            InForce,
            Unchanged, Callers
<1>4. QED
    BY <1>2, <1>3

LEMMA ReloadReloadAssigns ==
    ASSUME CType, ReloadInv, NEW c \in Callers, ReloadAssigns(c) PROVE ReloadInv'
<1>1. reloads[c].stage = "assign" /\ yaml' = yaml /\ overlap' = overlap
    BY DEF ReloadAssigns, observed
<1>2. /\ reloads'[c].stage = "none"
      /\ \A d \in Callers \ {c} : reloads'[d] = reloads[d]
      /\ page'.time = page.time
      /\ \/ page' = page /\ ~(c = "page" /\ page.doing = "posted")
         \/ c = "page" /\ page.doing = "posted" /\ page'.doing = "idle" /\ page'.told
    BY AnsweredSplits DEF ReloadAssigns
<1>3. /\ rag'.settings = rag.settings /\ rag'.building = rag.building
      /\ rag'.generator = reloads[c].llm
    BY DEF ReloadAssigns, CType, ConfigTypeOK, RagType
<1>4. QED
    BY <1>1, <1>2, <1>3 DEF ReloadInv, ReloadsAlone, UnderWay, ToldIsIdle, PageDates, PageReads,
        InForce,
        Unchanged, Callers

LEMMA ReloadBuildBegins ==
    ASSUME CType, ReloadInv, BuildBegins PROVE ReloadInv'
<1>1. UNCHANGED <<yaml, page, reloads>>
    BY DEF BuildBegins
<1>2. ~overlap' => ~overlap /\ \A c \in Callers : ~UnderWay(c)
    BY DEF BuildBegins, UnderWay
<1>3. /\ rag'.building = rag'.settings /\ rag'.generator = rag.generator
      /\ rag.settings # None => rag'.settings = rag.settings
      /\ rag.settings = None => rag'.settings = yaml.content
    BY DEF BuildBegins, CType, ConfigTypeOK, RagType
<1>4. QED
    BY <1>1, <1>2, <1>3 DEF ReloadInv, ReloadsAlone, UnderWay, ToldIsIdle, PageDates, PageReads,
        InForce,
        Unchanged, Callers

LEMMA ReloadBuildEnds ==
    ASSUME CType, ReloadInv, BuildEnds PROVE ReloadInv'
<1>1. UNCHANGED <<yaml, page, reloads, overlap>> /\ rag.building # None
    BY DEF BuildEnds, observed
<1>2. rag'.building = None /\ rag'.settings = rag.settings /\ rag'.generator = rag.building["llm"]
    BY DEF BuildEnds, CType, ConfigTypeOK, RagType
<1>3. QED
    BY <1>1, <1>2 DEF ReloadInv, ReloadsAlone, UnderWay, ToldIsIdle, PageDates, PageReads, InForce,
        Unchanged, Callers

LEMMA ReloadFill ==
    ASSUME CType, ReloadInv, NEW s \in Servers, Fill(s) PROVE ReloadInv'
<1>1. rag' = rag /\ overlap' = overlap /\ yaml'.time = yaml.time + 1 /\ reloads'["page"] =
      reloads["page"]
    BY DEF Fill, CType, ConfigTypeOK, ReloadsType, Callers
<1>2. \A c \in Callers : reloads'[c] = reloads[c] \/ reloads'[c].stage \in {"none", "read"}
    <2>1. CASE writer[s].by # "activation"
        BY <2>1 DEF Fill
    <2>2. CASE writer[s].by = "activation"
        BY <2>2 DEF Fill, CType, ConfigTypeOK, ReloadsType, Callers
    <2>3. QED
        BY <2>1, <2>2
<1>3. \/ page' = page
      \/ ~page'.told /\ page'.doing # "posted" /\ page'.time = yaml'.time
    <2>1. CASE writer[s].by # "page"
        BY <2>1 DEF Fill
    <2>2. CASE writer[s].by = "page"
        <3>1. page.doing = "saving" /\ ~page.told
            BY <2>2 DEF Fill, Writing, Servers, CType, PageWrites, ReloadInv, ToldIsIdle
        <3>2. page' = [page EXCEPT !.original = page.sent, !.sent = None, !.doing = page.then,
                                  !.then = "idle", !.time = yaml.time + 1]
            BY <2>2 DEF Fill
        <3>3. QED
            BY <1>1, <3>1, <3>2 DEF CType, ConfigTypeOK, PageType
    <2>3. QED
        BY <2>1, <2>2
<1>4. QED
    BY <1>1, <1>2, <1>3, ReloadFileMoves

LEMMA ReloadNext ==
    ASSUME CType, ReloadInv, [ConfigNext]_configVars PROVE ReloadInv'
<1>1. CASE \/ \E s \in Sections : Type(s)
           \/ \E text \in {Broken, Invalid} : Spoil(text)
           \/ LoadFile
    <2>1. /\ UNCHANGED <<yaml, rag, reloads, overlap>>
          /\ page'.told = page.told /\ page'.doing = page.doing /\ page'.time = page.time
        BY <1>1 DEF Type, Spoil, LoadFile, observed, CType, ConfigTypeOK, PageType
    <2>2. QED
        BY <2>1, ReloadFrame
<1>2. CASE PressSave \/ PressReload \/ SaveRefused
    <2>1. UNCHANGED <<yaml, rag, reloads, overlap>> /\ yaml.time \in Nat
        BY <1>2 DEF PressSave, PressReload, SaveRefused, observed, CType, ConfigTypeOK, FileType
    <2>2. /\ ~page'.told /\ page'.doing # "posted"
          /\ page'.time = page.time \/ page'.time = yaml.time
        <3>1. CASE PressSave
            BY <3>1 DEF PressSave, CType, ConfigTypeOK, PageType
        <3>2. CASE PressReload
            BY <3>2 DEF PressReload, CType, ConfigTypeOK, PageType
        <3>3. CASE SaveRefused
            BY <3>3 DEF SaveRefused, CType, ConfigTypeOK, PageType, ReloadInv, ToldIsIdle
        <3>4. QED
            BY <1>2, <3>1, <3>2, <3>3
    <2>3. QED
        BY <2>1, <2>2, ReloadPageWorks
<1>3. CASE SaveBegins
    <2>1. /\ UNCHANGED <<rag, reloads, overlap>> /\ yaml'.time = yaml.time + 1
          /\ ~page'.told /\ page'.doing # "posted" /\ page'.time = page.time
        BY <1>3 DEF SaveBegins, Truncated, CType, ConfigTypeOK, PageType, ReloadInv, ToldIsIdle
    <2>2. QED
        BY <2>1, ReloadFileMoves
<1>4. CASE ActivationTruncates \/ \E s \in Sections : PostForm(s)
    <2>1. UNCHANGED <<rag, reloads, overlap, page>> /\ yaml'.time = yaml.time + 1
        BY <1>4 DEF ActivationTruncates, PostForm, Truncated
    <2>2. QED
        BY <2>1, ReloadFileMoves
<1>5. CASE \E s \in Servers : Fill(s)
    BY <1>5, ReloadFill
<1>6. CASE Post
    BY <1>6, ReloadPost
<1>7. CASE GiveUp
    <2>1. /\ UNCHANGED <<yaml, rag, reloads, overlap>> /\ yaml.time \in Nat
          /\ ~page'.told /\ page'.doing # "posted" /\ page'.time = page.time
        BY <1>7 DEF GiveUp, observed, CType, ConfigTypeOK, PageType, FileType, ReloadInv, ToldIsIdle
    <2>2. QED
        BY <2>1, ReloadPageWorks
<1>8. CASE \E c \in Callers : ReloadReads(c) \/ ReloadBuilds(c) \/ ReloadAssigns(c)
    BY <1>8, ReloadReloadReads, ReloadReloadBuilds, ReloadReloadAssigns
<1>9. CASE BuildBegins \/ BuildEnds
    BY <1>9, ReloadBuildBegins, ReloadBuildEnds
<1>10. CASE \/ Activate \/ ReadForm \/ Construct \/ Refresh \/ RefreshReads \/ RefreshStamps
            \/ UNCHANGED configVars
    <2>1. UNCHANGED <<yaml, rag, reloads, overlap, page>>
        BY <1>10 DEF Activate, ReadForm, Construct, Refresh, RefreshReads, RefreshStamps,
            observed, configVars
    <2>2. QED
        BY <2>1, ReloadFrame
<1>11. QED
    BY <1>1, <1>2, <1>3, <1>4, <1>5, <1>6, <1>7, <1>8, <1>9, <1>10 DEF ConfigNext

\* When the page says that the configuration is reloaded, and nobody has written the
\* file since it saved, the settings that each question reads and the generator are
\* those of the file - but if two reloads overlapped, or one fell into the construction
\* of the service (rag/api.py, reload_config).  Of the weights that the search has
\* copied it says nothing.
THEOREM ReloadInForce == ConfigSpec => []ReloadedIsInForce
<1>1. ConfigInit => ReloadInv
    BY DEF ConfigInit, ReloadInv, ReloadsAlone, UnderWay, ToldIsIdle, PageDates, PageReads, InForce,
        Callers
<1>2. CType /\ ReloadInv /\ [ConfigNext]_configVars => ReloadInv'
    BY ReloadNext
<1>3. ReloadInv => ReloadedIsInForce
    BY DEF ReloadInv, InForce, Unchanged, Reloaded, ReloadedIsInForce
<1>4. QED
    BY <1>1, <1>2, <1>3, TypesKept, PTL DEF ConfigSpec

-----------------------------------------------------------------------------
(* 2. Induction and recursion on natural numbers. *)

\* Induction over the natural numbers, stated with a set so that the provers can
\* use it: a least number outside S would have its predecessor in S.
LEMMA NatSetInduction ==
    ASSUME NEW S, 0 \in S, \A n \in Nat : n \in S => n + 1 \in S
    PROVE  Nat \subseteq S
<1> DEFINE T == Nat \ S
<1> SUFFICES ASSUME T # {} PROVE FALSE
    OBVIOUS
<1>1. IsWellFoundedOn(OpToRel(<, Nat), Nat)
    BY NatLessThanWellFounded
<1>2. \E x \in T : \A y \in T : ~(<<y, x>> \in OpToRel(<, Nat))
    BY <1>1, WFMin, Zenon
<1>3. \A x, y \in Nat : y < x => <<y, x>> \in OpToRel(<, Nat)
    BY DEF OpToRel
<1>4. PICK x \in T : \A y \in T : ~(y < x)
    BY <1>2, <1>3
<1>5. x # 0 /\ x - 1 \in Nat
    BY <1>4
<1>6. x - 1 \in S
    BY <1>4, <1>5
<1>7. QED
    BY <1>4, <1>5, <1>6

\* f begins with c and follows the step functions up to L.
Recursive(f, c, L, step) == f[0] = c /\ \A n \in 1..L : f[n] = step[n][f[n - 1]]

\* A function can be defined by recursion on an interval, one step function for each
\* number of the interval.
LEMMA RecursionExists ==
    ASSUME NEW T, NEW c \in T, NEW L \in Nat, NEW step \in [1..L -> [T -> T]]
    PROVE  \E f \in [0..L -> T] : Recursive(f, c, L, step)
<1> DEFINE Fits(g, n) == g[0] = c /\ \A i \in 1..n : g[i] = step[i][g[i - 1]]
           Good == {n \in Nat : n <= L => \E g \in [0..n -> T] : Fits(g, n)}
<1>1. 0 \in Good
    <2> DEFINE g == [i \in 0..0 |-> c]
    <2>1. g \in [0..0 -> T] /\ Fits(g, 0)
        OBVIOUS
    <2>2. QED
        BY <2>1
<1>2. ASSUME NEW n \in Nat, n \in Good PROVE n + 1 \in Good
    <2> SUFFICES ASSUME n + 1 <= L PROVE \E g \in [0..(n + 1) -> T] : Fits(g, n + 1)
        OBVIOUS
    <2>1. PICK g \in [0..n -> T] : Fits(g, n)
        <3>1. n <= L
            OBVIOUS
        <3>2. QED
            BY <1>2, <3>1
    <2> DEFINE h == [i \in 0..(n + 1) |-> IF i = n + 1 THEN step[n + 1][g[n]] ELSE g[i]]
    <2>2. h \in [0..(n + 1) -> T]
        OBVIOUS
    <2>3. Fits(h, n + 1)
        BY <2>1
    <2>4. QED
        BY <2>2, <2>3
<1>3. L \in Good
    <2> HIDE DEF Good
    <2>1. QED
        BY <1>1, <1>2, NatSetInduction
<1>4. QED
    BY <1>3 DEF Recursive


-----------------------------------------------------------------------------
(* Selections. *)

\* f gives the selection of each beginning of s.
Selects(f, s, kept, L, e) ==
    /\ Selected(s, kept) = f[L] /\ f[0] = e
    /\ \A n \in 1..L : f[n] = IF kept[n] THEN Append(f[n - 1], s[n]) ELSE f[n - 1]

\* The selection goes through the elements one after the other.
LEMMA SelectedUnfolds ==
    ASSUME NEW S, NEW s \in Seq(S), NEW kept, NEW L \in Nat, L = Len(s), NEW e, e = <<>>
    PROVE  \E f \in [0..L -> Seq(S)] : Selects(f, s, kept, L, e)
<1>1. e \in Seq(S)
    BY EmptySeq
<1>2. \A n \in 1..L : s[n] \in S
    BY ElementOfSeq
<1>3. PICK step : step = [n \in 1..L |->
                            [t \in Seq(S) |-> IF kept[n] THEN Append(t, s[n]) ELSE t]]
    OBVIOUS
<1>4. \A t \in Seq(S), n \in 1..L : (IF kept[n] THEN Append(t, s[n]) ELSE t) \in Seq(S)
    BY <1>2, AppendProperties
<1>5. step \in [1..L -> [Seq(S) -> Seq(S)]]
    BY <1>3, <1>4
<1>6. \E f \in [0..L -> Seq(S)] : Recursive(f, e, L, step)
    BY <1>1, <1>5, RecursionExists, Zenon
<1>7. PICK f \in [0..L -> Seq(S)] : f[0] = e /\ \A n \in 1..L : f[n] = step[n][f[n - 1]]
    BY <1>6 DEF Recursive
<1>8. ASSUME NEW n \in 1..L PROVE f[n] = IF kept[n] THEN Append(f[n - 1], s[n]) ELSE f[n - 1]
    <2>1. f[n - 1] \in Seq(S)
        OBVIOUS
    <2>2. QED
        BY <1>3, <1>7, <2>1
<1> DEFINE F(g) == [n \in 0..L |->
                       IF n = 0 THEN e
                       ELSE IF kept[n] THEN Append(g[n - 1], s[n]) ELSE g[n - 1]]
           upto == CHOOSE g : g = F(g)
<1>9. f = F(f)
    <2>1. ASSUME NEW n \in 0..L PROVE f[n] = F(f)[n]
        <3>1. CASE n = 0
            BY <1>7, <3>1
        <3>2. CASE n # 0
            <4>1. n \in 1..L
                BY <3>2
            <4>2. QED
                BY <1>8, <3>2, <4>1
        <3>3. QED
            BY <3>1, <3>2
    <2>2. QED
        BY <2>1
<1>10. upto = F(upto)
    BY <1>9
<1>11. Selected(s, kept) = upto[L]
    BY DEF Selected
<1> HIDE DEF upto
<1>12. \A n \in 0..L : upto[n] = IF n = 0 THEN e
                                  ELSE IF kept[n] THEN Append(upto[n - 1], s[n]) ELSE upto[n - 1]
    BY <1>10
<1>13. PICK Agree : Agree = {n \in Nat : n <= L => upto[n] = f[n]}
    OBVIOUS
<1>14. 0 \in Agree
    BY <1>7, <1>12, <1>13
<1>15. ASSUME NEW n \in Nat, n \in Agree PROVE n + 1 \in Agree
    <2> SUFFICES ASSUME n + 1 <= L PROVE upto[n + 1] = f[n + 1]
        BY <1>13
    <2>1. upto[n] = f[n] /\ n + 1 \in 1..L /\ n + 1 \in 0..L /\ (n + 1) - 1 = n /\ n + 1 # 0
        BY <1>13, <1>15
    <2>2. upto[n + 1] = IF kept[n + 1] THEN Append(upto[n], s[n + 1]) ELSE upto[n]
        BY <1>12, <2>1
    <2>3. f[n + 1] = IF kept[n + 1] THEN Append(f[n], s[n + 1]) ELSE f[n]
        BY <1>8, <2>1
    <2>4. QED
        BY <2>1, <2>2, <2>3
<1>16. L \in Agree
    BY <1>14, <1>15, NatSetInduction
<1>17. upto[L] = f[L]
    BY <1>13, <1>16
<1>18. Selects(f, s, kept, L, e)
    BY <1>7, <1>8, <1>11, <1>17 DEF Selects
<1>19. QED
    BY <1>18

\* Nil is selected of nothing.
LEMMA SelectedOfNone == \A kept : Selected(<<>>, kept) = <<>>
<1> SUFFICES ASSUME NEW kept PROVE Selected(<<>>, kept) = <<>>
    OBVIOUS
<1>1. PICK e \in Seq({}) : e = <<>>
    BY EmptySeq
<1>2. PICK L \in Nat : L = 0 /\ L = Len(e)
    BY <1>1
<1>3. \E f \in [0..L -> Seq({})] : Selects(f, e, kept, L, e)
    BY <1>1, <1>2, SelectedUnfolds, Zenon
<1>4. QED
    BY <1>1, <1>2, <1>3 DEF Selects

\* One element more is selected last, or not at all.
LEMMA SelectedOfMore ==
    ASSUME NEW S, NEW s \in Seq(S), NEW x \in S, NEW kept, NEW more,
           \A k \in 1..Len(s) : more[k] = kept[k]
    PROVE  /\ Selected(s, kept) \in Seq(S)
           /\ Selected(Append(s, x), more) =
                 IF more[Len(s) + 1] THEN Append(Selected(s, kept), x) ELSE Selected(s, kept)
<1>1. PICK L \in Nat : L = Len(s)
    BY LenProperties
<1>2. PICK t \in Seq(S) : t = Append(s, x)
    BY AppendProperties
<1>3. Len(t) = L + 1 /\ t[L + 1] = x /\ \A k \in 1..L : t[k] = s[k]
    BY <1>1, <1>2, AppendProperties
<1>4. PICK e : e = <<>>
    OBVIOUS
<1>5. PICK f \in [0..L -> Seq(S)] : Selects(f, s, kept, L, e)
    BY <1>1, <1>4, SelectedUnfolds
<1>6. PICK g \in [0..(L + 1) -> Seq(S)] : Selects(g, t, more, L + 1, e)
    <2>1. L + 1 \in Nat /\ L + 1 = Len(t)
        BY <1>3
    <2>2. QED
        BY <2>1, <1>4, SelectedUnfolds
<1>7. PICK Agree : Agree = {n \in Nat : n <= L => g[n] = f[n]}
    OBVIOUS
<1>8. 0 \in Agree
    BY <1>5, <1>6, <1>7 DEF Selects
<1>9. ASSUME NEW n \in Nat, n \in Agree PROVE n + 1 \in Agree
    <2> SUFFICES ASSUME n + 1 <= L PROVE g[n + 1] = f[n + 1]
        BY <1>7
    <2>1. g[n] = f[n] /\ n + 1 \in 1..L /\ n + 1 \in 1..(L + 1) /\ (n + 1) - 1 = n
        BY <1>7, <1>9
    <2>2. g[n + 1] = IF more[n + 1] THEN Append(g[n], t[n + 1]) ELSE g[n]
        BY <1>6, <2>1 DEF Selects
    <2>3. f[n + 1] = IF kept[n + 1] THEN Append(f[n], s[n + 1]) ELSE f[n]
        BY <1>5, <2>1 DEF Selects
    <2>4. more[n + 1] = kept[n + 1] /\ t[n + 1] = s[n + 1]
        BY <1>1, <1>3, <2>1
    <2>5. QED
        BY <2>1, <2>2, <2>3, <2>4
<1>10. L \in Agree
    BY <1>8, <1>9, NatSetInduction
<1>11. g[L] = f[L] /\ L + 1 \in 1..(L + 1) /\ (L + 1) - 1 = L
    BY <1>7, <1>10
<1>12. g[L + 1] = IF more[L + 1] THEN Append(f[L], x) ELSE f[L]
    BY <1>3, <1>6, <1>11 DEF Selects
<1>13. Selected(s, kept) = f[L] /\ Selected(t, more) = g[L + 1] /\ f[L] \in Seq(S)
    BY <1>5, <1>6 DEF Selects
<1>14. QED
    BY <1>1, <1>2, <1>12, <1>13

\* It is a sequence, of whatever.
IsSeq(s) == \E S : s \in Seq(S)

\* What is added to a sequence comes last.
LEMMA Appended ==
    ASSUME NEW s, NEW x, IsSeq(s)
    PROVE  /\ IsSeq(Append(s, x)) /\ Len(s) \in Nat /\ DOMAIN s = 1..Len(s)
           /\ DOMAIN Append(s, x) = 1..(Len(s) + 1) /\ Len(Append(s, x)) = Len(s) + 1
           /\ Append(s, x)[Len(s) + 1] = x
           /\ \A k \in 1..Len(s) : Append(s, x)[k] = s[k]
<1>1. PICK S : s \in Seq(S)
    BY DEF IsSeq
<1>2. s \in Seq(S \cup {x}) /\ x \in S \cup {x}
    BY <1>1, SeqMonotonic
<1>3. PICK T : T = S \cup {x}
    OBVIOUS
<1>4. s \in Seq(T) /\ x \in T
    BY <1>2, <1>3
<1>5. Append(s, x) \in Seq(T)
    BY <1>4, AppendProperties
<1>6. QED
    BY <1>4, <1>5, AppendProperties, LenProperties DEF IsSeq

\* One element more is selected last, or not at all.
LEMMA SelectedOfSeq ==
    ASSUME NEW s, IsSeq(s), NEW x, NEW kept, NEW more, \A k \in 1..Len(s) : more[k] = kept[k]
    PROVE  /\ IsSeq(Selected(s, kept))
           /\ Selected(Append(s, x), more) =
                 IF more[Len(s) + 1] THEN Append(Selected(s, kept), x) ELSE Selected(s, kept)
<1>1. PICK S : s \in Seq(S)
    BY DEF IsSeq
<1>2. PICK T : T = S \cup {x}
    OBVIOUS
<1>3. s \in Seq(T) /\ x \in T
    BY <1>1, <1>2, SeqMonotonic
<1>4. QED
    BY <1>3, SelectedOfMore DEF IsSeq

-----------------------------------------------------------------------------
(* The page and the table. *)

\* An answer goes with its own question.
Own(data) == data.response.to = data.query
\* A judgement is of such an answer, and its correction was typed for it.
Judges(x) == Own(x.data) /\ (x.kind = "down" => x.expected = x.data)

\* What the dialog shows is what the field was filled for, and every judgement under
\* way was about one answer when it was sent.
PageInv ==
    /\ IsSeq(shown) /\ IsSeq(store) /\ IsSeq(rows)
    /\ ConversationIsShown
    /\ \A k \in DOMAIN store : Own(store[k])
    /\ modal # Nil => Own(modal)
    /\ typed # Nil => modal # Nil /\ typed = modal
    /\ \A call \in calls : Judges(call)
    /\ \A k \in DOMAIN rows : Judges(rows[k])

\* A message on display is kept in the conversation unless it is an error.
LEMMA ShownMore ==
    ASSUME IsSeq(shown), ConversationIsShown, NEW msg, shown' = Append(shown, msg)
    PROVE  /\ IsSeq(shown')
           /\ Selected(shown', [k \in DOMAIN shown' |-> shown'[k].role # "error"]) =
                 IF msg.role # "error" THEN Append(history, msg) ELSE history
<1>1. PICK s, L : s = shown /\ L = Len(s)
    OBVIOUS
<1>2. /\ IsSeq(Append(s, msg)) /\ L \in Nat /\ DOMAIN s = 1..L
      /\ DOMAIN Append(s, msg) = 1..(L + 1) /\ Append(s, msg)[L + 1] = msg
      /\ \A k \in 1..L : Append(s, msg)[k] = s[k]
    BY <1>1, Appended
<1>3. PICK kept, more :
        /\ kept = [k \in DOMAIN s |-> s[k].role # "error"]
        /\ more = [k \in DOMAIN Append(s, msg) |-> Append(s, msg)[k].role # "error"]
    OBVIOUS
<1>4. (\A k \in 1..L : more[k] = kept[k]) /\ more[L + 1] = (msg.role # "error")
    BY <1>2, <1>3
<1>5. Selected(Append(s, msg), more) =
         IF more[L + 1] THEN Append(Selected(s, kept), msg) ELSE Selected(s, kept)
    BY <1>1, <1>4, SelectedOfSeq
<1>6. history = Selected(s, kept)
    BY <1>1, <1>3 DEF ConversationIsShown
<1>7. QED
    BY <1>1, <1>2, <1>3, <1>4, <1>5, <1>6

LEMMA PageInit == FeedbackInit => PageInv
<1> SUFFICES ASSUME FeedbackInit PROVE PageInv
    OBVIOUS
<1>1. IsSeq(<<>>)
    BY EmptySeq DEF IsSeq
<1>2. PICK e : e = <<>> /\ DOMAIN e = {}
    OBVIOUS
<1>3. ConversationIsShown
    BY SelectedOfNone DEF FeedbackInit, ConversationIsShown
<1>4. QED
    BY <1>1, <1>2, <1>3 DEF FeedbackInit, PageInv

\* A step of an evaluation, or of what is made of it.
Judgement ==
    \/ EvaluateFeedbacks \/ BatchEvaluate \/ PassOver \/ AskForCorrection \/ AskForPair
    \/ \E outcome \in Outcomes : ScoreCorrection(outcome) \/ ScorePair(outcome)
    \/ ScoreFails \/ EndBatch \/ ClearScores
    \/ \E c \in Configs : EndFeedbacks(c)

\* The evaluations leave the page and the table alone.
LEMMA JudgementKeepsThePage == Judgement => UNCHANGED <<conversation, judging>>
<1> SUFFICES ASSUME Judgement PROVE UNCHANGED <<conversation, judging>>
    OBVIOUS
<1>1. CASE EvaluateFeedbacks
    BY <1>1 DEF EvaluateFeedbacks, Begins
<1>2. CASE BatchEvaluate
    BY <1>2 DEF BatchEvaluate, Begins
<1>3. CASE AskForCorrection
    BY <1>3 DEF AskForCorrection, AskCore
<1>4. CASE AskForPair
    BY <1>4 DEF AskForPair, AskCore
<1>5. ASSUME NEW outcome \in Outcomes, ScoreCorrection(outcome) PROVE UNCHANGED <<conversation, judging>>
    BY <1>5 DEF ScoreCorrection, Scored
<1>6. ASSUME NEW outcome \in Outcomes, ScorePair(outcome) PROVE UNCHANGED <<conversation, judging>>
    BY <1>6 DEF ScorePair, Scored
<1>7. CASE ScoreFails
    BY <1>7 DEF ScoreFails
<1>8. CASE EndBatch
    BY <1>8 DEF EndBatch
<1>9. CASE ClearScores
    BY <1>9 DEF ClearScores
<1>10. ASSUME NEW c \in Configs, EndFeedbacks(c) PROVE UNCHANGED <<conversation, judging>>
    BY <1>10 DEF EndFeedbacks
<1>11. CASE PassOver
    BY <1>11 DEF PassOver
<1>12. QED
    BY <1>1, <1>2, <1>3, <1>4, <1>5, <1>6, <1>7, <1>8, <1>9, <1>10, <1>11 DEF Judgement

\* What is on display and what is said change together.
LEMMA PageStep == PageInv /\ [FeedbackNext]_feedbackVars => PageInv'
<1> SUFFICES ASSUME PageInv, [FeedbackNext]_feedbackVars PROVE PageInv'
    OBVIOUS
<1> USE DEF PageInv
<1>1. ASSUME UNCHANGED conversation
      PROVE  /\ IsSeq(shown') /\ IsSeq(store') /\ ConversationIsShown'
             /\ \A k \in DOMAIN store' : Own(store'[k])
    BY <1>1 DEF conversation, ConversationIsShown
<1>2. ASSUME UNCHANGED judging
      PROVE  /\ IsSeq(rows')
             /\ modal' # Nil => Own(modal')
             /\ typed' # Nil => modal' # Nil /\ typed' = modal'
             /\ \A call \in calls' : Judges(call)
             /\ \A k \in DOMAIN rows' : Judges(rows'[k])
    BY <1>2 DEF judging
<1>3. ASSUME NEW q \in Questions, SendMessage(q) PROVE PageInv'
    <2>0. PICK msg : msg = Message("user", q)
        OBVIOUS
    <2>1. msg.role = "user"
        BY <2>0 DEF Message
    <2>2. /\ shown' = Append(shown, msg) /\ history' = Append(history, msg)
          /\ UNCHANGED <<store, judging>>
        BY <1>3, <2>0 DEF SendMessage
    <2>3. IsSeq(shown') /\ ConversationIsShown'
        BY <2>1, <2>2, ShownMore DEF ConversationIsShown
    <2>4. QED
        BY <1>2, <2>2, <2>3
<1>4. CASE AnswerArrives
    <2>0. PICK msg, data : /\ msg = Message("assistant", Answer(pending, asks))
                           /\ data = [query |-> pending, response |-> Answer(pending, asks)]
        OBVIOUS
    <2>1. msg.role = "assistant" /\ Own(data)
        BY <2>0 DEF Message, Answer, Own
    <2>2. /\ shown' = Append(shown, msg) /\ history' = Append(history, msg)
          /\ store' = Append(store, data) /\ UNCHANGED judging
        BY <1>4, <2>0 DEF AnswerArrives
    <2>3. IsSeq(shown') /\ ConversationIsShown'
        BY <2>1, <2>2, ShownMore DEF ConversationIsShown
    <2>4. IsSeq(store') /\ \A k \in DOMAIN store' : Own(store'[k])
        BY <2>1, <2>2, Appended
    <2>5. QED
        BY <1>2, <2>2, <2>3, <2>4
<1>5. CASE Failed
    <2>0. PICK msg : msg = Message("error", pending)
        OBVIOUS
    <2>1. msg.role = "error"
        BY <2>0 DEF Message
    <2>2. shown' = Append(shown, msg) /\ UNCHANGED <<history, store, judging>>
        BY <1>5, <2>0 DEF Failed
    <2>3. IsSeq(shown') /\ ConversationIsShown'
        BY <2>1, <2>2, ShownMore DEF ConversationIsShown
    <2>4. QED
        BY <1>2, <2>2, <2>3
<1>6. CASE StartNewChat
    <2>1. history' = <<>> /\ shown' = <<>> /\ UNCHANGED <<store, judging>>
        BY <1>6 DEF StartNewChat
    <2>2. IsSeq(shown') /\ ConversationIsShown'
        BY <2>1, EmptySeq, SelectedOfNone DEF IsSeq, ConversationIsShown
    <2>3. QED
        BY <1>2, <2>1, <2>2
<1>7. ASSUME NEW k \in DOMAIN store, ThumbUp(k) PROVE PageInv'
    <2>0. PICK call : call = Call(store[k], "up", Nil)
        OBVIOUS
    <2>1. Judges(call)
        BY <2>0 DEF Call, Judges
    <2>2. calls' = calls \cup {call} /\ UNCHANGED <<modal, typed, rows, conversation>>
        BY <1>7, <2>0 DEF ThumbUp, Emit
    <2>3. QED
        BY <1>1, <2>1, <2>2
<1>8. ASSUME NEW k \in DOMAIN store, ThumbDown(k) PROVE PageInv'
    <2>1. modal = Nil /\ modal' = store[k] /\ UNCHANGED <<typed, calls, rows, conversation>>
        BY <1>8 DEF ThumbDown
    <2>2. QED
        BY <1>1, <2>1
<1>9. CASE TypeCorrection
    BY <1>1, <1>9 DEF TypeCorrection
<1>10. CASE SubmitDown
    <2>1. PICK call : call = Call(modal, "down", typed)
        OBVIOUS
    <2>2. /\ modal # Nil /\ typed # Nil
          /\ calls' = calls \cup {call} /\ UNCHANGED <<modal, typed, rows, conversation>>
        BY <1>10, <2>1 DEF SubmitDown, Emit
    <2>3. Judges(call)
        BY <2>1, <2>2 DEF Call, Judges
    <2>4. QED
        BY <1>1, <2>2, <2>3
<1>11. CASE CloseModal
    BY <1>1, <1>11 DEF CloseModal, DialogClosed
<1>12. ASSUME NEW call \in calls, Insert(call) PROVE PageInv'
    <2>0. PICK r : r = [data |-> call.data, kind |-> call.kind, expected |-> call.expected]
        OBVIOUS
    <2>1. Judges(r)
        BY <2>0 DEF Judges
    <2>2. /\ rows' = Append(rows, r) \/ rows' = rows
          /\ calls' = calls \ {call}
          /\ \/ modal' = Nil /\ typed' = Nil
             \/ UNCHANGED <<modal, typed>>
          /\ UNCHANGED conversation
        BY <1>12, <2>0 DEF Insert, DialogClosed
    <2>3. IsSeq(rows') /\ \A k \in DOMAIN rows' : Judges(rows'[k])
        <3>1. CASE rows' = rows
            BY <3>1
        <3>2. CASE rows' = Append(rows, r)
            <4>1. PICK L : L = Len(rows)
                OBVIOUS
            <4>2. /\ IsSeq(rows') /\ L \in Nat /\ DOMAIN rows = 1..L /\ DOMAIN rows' = 1..(L + 1)
                  /\ rows'[L + 1] = r /\ \A k \in 1..L : rows'[k] = rows[k]
                BY <3>2, <4>1, Appended
            <4>3. QED
                BY <2>1, <4>2
        <3>3. QED
            BY <2>2, <3>1, <3>2
    <2>4. QED
        BY <1>1, <2>2, <2>3
<1>13. ASSUME UNCHANGED <<conversation, judging>> PROVE PageInv'
    BY <1>1, <1>2, <1>13
<1>14. Judgement => UNCHANGED <<conversation, judging>>
    BY JudgementKeepsThePage
<1>15. UNCHANGED feedbackVars => UNCHANGED <<conversation, judging>>
    BY DEF feedbackVars, conversation, judging
<1>16. QED
    BY <1>3, <1>4, <1>5, <1>6, <1>7, <1>8, <1>9, <1>10, <1>11, <1>12, <1>13, <1>14, <1>15
       DEF FeedbackNext, Judgement

\* The model, the user and the table are told the same story: PageIsTrue.
THEOREM FeedbackPageIsTrue == FeedbackSpec => []PageIsTrue
<1>1. PageInv => PageIsTrue
    BY DEF PageInv, PageIsTrue, FeedbackIsAboutItsAnswer, Judges, Own
<1>2. QED
    BY <1>1, PageInit, PageStep, PTL DEF FeedbackSpec

-----------------------------------------------------------------------------
(* The evaluations. *)

\* What an evaluation may be asked: a pair of the data set, or a correction of the table.
Known == Range(Dataset) \cup Range(Pairs(Corrected))

\* The corrections are a sequence.
LEMMA CorrectedIsSeq == ASSUME IsSeq(rows) PROVE IsSeq(Corrected)
<1>1. PICK kept : kept = [k \in DOMAIN rows |-> rows[k].kind = "down" /\ rows[k].expected # Nil]
    OBVIOUS
<1>2. IsSeq(Selected(rows, kept))
    BY SelectedOfSeq
<1>3. QED
    BY <1>1, <1>2 DEF Corrected

\* A row more is at most a correction more.
LEMMA CorrectedMore ==
    ASSUME IsSeq(rows), NEW r, rows' = Append(rows, r)
    PROVE  Corrected' = Corrected \/ Corrected' = Append(Corrected, r)
<1>1. PICK s, L : s = rows /\ L = Len(s)
    OBVIOUS
<1>2. /\ L \in Nat /\ DOMAIN s = 1..L /\ DOMAIN Append(s, r) = 1..(L + 1)
      /\ Append(s, r)[L + 1] = r /\ \A k \in 1..L : Append(s, r)[k] = s[k]
    BY <1>1, Appended
<1>3. PICK kept, more :
        /\ kept = [k \in DOMAIN s |-> s[k].kind = "down" /\ s[k].expected # Nil]
        /\ more = [k \in DOMAIN Append(s, r) |->
                      Append(s, r)[k].kind = "down" /\ Append(s, r)[k].expected # Nil]
    OBVIOUS
<1>4. \A k \in 1..L : more[k] = kept[k]
    BY <1>2, <1>3
<1>5. Selected(Append(s, r), more) =
         IF more[L + 1] THEN Append(Selected(s, kept), r) ELSE Selected(s, kept)
    BY <1>1, <1>4, SelectedOfSeq
<1>6. Corrected = Selected(s, kept) /\ Corrected' = Selected(Append(s, r), more)
    BY <1>1, <1>3 DEF Corrected
<1>7. QED
    BY <1>5, <1>6

\* The pairs made of a sequence of corrections are a sequence of pairs.
LEMMA PairsOfSeq ==
    ASSUME NEW c, IsSeq(c)
    PROVE  /\ IsSeq(Pairs(c)) /\ DOMAIN Pairs(c) = DOMAIN c
           /\ \A k \in DOMAIN c : Pairs(c)[k] = [question |-> c[k].data.query, truth |-> c[k].expected]
<1>1. PICK n \in Nat : DOMAIN c = 1..n
    <2>1. PICK S : c \in Seq(S)
        BY DEF IsSeq
    <2>2. QED
        BY <2>1, LenProperties
<1>2. /\ DOMAIN Pairs(c) = 1..n
      /\ \A k \in 1..n : Pairs(c)[k] = [question |-> c[k].data.query, truth |-> c[k].expected]
    BY <1>1 DEF Pairs
<1>3. PICK S : S = Range(Pairs(c))
    OBVIOUS
<1>4. Pairs(c) \in [1..n -> S]
    <2>1. Pairs(c) = [k \in 1..n |-> Pairs(c)[k]]
        BY <1>1 DEF Pairs
    <2>2. \A k \in 1..n : Pairs(c)[k] \in S
        BY <1>2, <1>3 DEF Range
    <2>3. QED
        BY <2>1, <2>2
<1>5. Pairs(c) \in Seq(S)
    BY <1>4, SeqDef
<1>6. QED
    BY <1>1, <1>2, <1>5 DEF IsSeq

\* What is known stays known: the table only grows.
LEMMA KnownGrows ==
    ASSUME IsSeq(rows), rows' = rows \/ \E r : rows' = Append(rows, r)
    PROVE  Known \subseteq Known'
<1>1. CASE rows' = rows
    BY <1>1 DEF Known, Pairs, Corrected
<1>2. ASSUME NEW r, rows' = Append(rows, r) PROVE Known \subseteq Known'
    <2>1. Corrected' = Corrected \/ Corrected' = Append(Corrected, r)
        BY <1>2, CorrectedMore
    <2>2. PICK c, d : c = Corrected /\ d = Corrected'
        OBVIOUS
    <2>3. IsSeq(c)
        BY <2>2, CorrectedIsSeq
    <2>4. IsSeq(d) /\ \A k \in DOMAIN c : k \in DOMAIN d /\ d[k] = c[k]
        <3>1. CASE d = c
            BY <2>3, <3>1
        <3>2. CASE d = Append(c, r)
            <4>1. PICK L : L = Len(c)
                OBVIOUS
            <4>2. /\ IsSeq(d) /\ L \in Nat /\ DOMAIN c = 1..L /\ DOMAIN d = 1..(L + 1)
                  /\ \A k \in 1..L : d[k] = c[k]
                BY <2>3, <3>2, <4>1, Appended
            <4>3. QED
                BY <4>2
        <3>3. QED
            BY <2>1, <2>2, <3>1, <3>2
    <2>5. Range(Pairs(c)) \subseteq Range(Pairs(d))
        <3>1. PICK p, o : p = Pairs(c) /\ o = Pairs(d)
            OBVIOUS
        <3>2. DOMAIN p = DOMAIN c /\ DOMAIN o = DOMAIN d
            BY <2>3, <2>4, <3>1, PairsOfSeq
        <3>3. \A k \in DOMAIN c : p[k] = o[k]
            BY <2>3, <2>4, <3>1, PairsOfSeq
        <3>4. Range(p) \subseteq Range(o)
            BY <2>4, <3>2, <3>3 DEF Range
        <3>5. QED
            BY <3>1, <3>4
    <2>6. Known = Range(Dataset) \cup Range(Pairs(c)) /\ Known' = Range(Dataset) \cup Range(Pairs(d))
        BY <2>2 DEF Known
    <2>7. QED
        BY <2>5, <2>6
<1>3. QED
    BY <1>1, <1>2

\* It has the two fields of a pair.
IsPair(p) == p = [question |-> p.question, truth |-> p.truth]

\* An evaluation r goes through what is known, in its order, with a result for each
\* row that counts; the answer under scoring was given to the question that it has
\* reached.
Answers(r) ==
    /\ IsSeq(Asked(r)) /\ Len(r.results) = Len(Asked(r))
    /\ \A k \in DOMAIN Asked(r) : r.results[k].question = Asked(r)[k].question
Follows(r, known) ==
    /\ DOMAIN r = {"source", "todo", "at", "results", "answer", "stage"}
    /\ IsSeq(r.todo) /\ IsSeq(r.results) /\ r.at \in 0..Len(r.todo)
    /\ \A k \in DOMAIN r.todo : r.todo[k] \in known /\ IsPair(r.todo[k])
    /\ Answers(r)
    /\ r.stage = "score" =>
          r.answer.to = r.todo[r.at + 1].question /\ Counts(r.source, r.todo[r.at + 1])

\* A score is of the answer to its question, and against what is known of it.
IsTrue(x, known) ==
    x.answer.to = x.question /\ [question |-> x.question, truth |-> x.truth] \in known

EvaluationsInv ==
    /\ IsSeq(rows) /\ IsSeq(scores)
    /\ \A k \in DOMAIN scores : IsTrue(scores[k], Known)
    /\ run # Nil => Follows(run, Known)

\* A beginning one row longer ends with that row.
LEMMA OneRowMore ==
    ASSUME NEW t, IsSeq(t), NEW n \in Nat, n < Len(t)
    PROVE  /\ IsSeq(SubSeq(t, 1, n)) /\ Len(SubSeq(t, 1, n)) = n
           /\ SubSeq(t, 1, n + 1) = Append(SubSeq(t, 1, n), t[n + 1])
<1>1. PICK S : t \in Seq(S)
    BY DEF IsSeq
<1>2. Len(t) \in Nat /\ \A k \in 1..Len(t) : t[k] \in S
    BY <1>1, ElementOfSeq, LenProperties
<1>3. PICK a, b, c : a = SubSeq(t, 1, n) /\ b = SubSeq(t, 1, n + 1) /\ c = Append(a, t[n + 1])
    OBVIOUS
<1>4. a \in Seq(S) /\ Len(a) = n /\ \A k \in 1..n : a[k] = t[k]
    <2>1. \A k \in 1..n : t[k] \in S
        BY <1>2
    <2>2. /\ SubSeq(t, 1, n) \in Seq(S)
          /\ Len(SubSeq(t, 1, n)) = IF 1 <= n THEN n - 1 + 1 ELSE 0
          /\ \A k \in 1..(n - 1 + 1) : SubSeq(t, 1, n)[k] = t[1 + k - 1]
        BY <2>1, SubSeqProperties
    <2>3. QED
        BY <1>3, <2>2
<1>5. b \in Seq(S) /\ Len(b) = n + 1 /\ \A k \in 1..(n + 1) : b[k] = t[k]
    <2>1. \A k \in 1..(n + 1) : t[k] \in S
        BY <1>2
    <2>2. /\ SubSeq(t, 1, n + 1) \in Seq(S)
          /\ Len(SubSeq(t, 1, n + 1)) = IF 1 <= n + 1 THEN (n + 1) - 1 + 1 ELSE 0
          /\ \A k \in 1..((n + 1) - 1 + 1) : SubSeq(t, 1, n + 1)[k] = t[1 + k - 1]
        BY <2>1, SubSeqProperties
    <2>3. QED
        BY <1>3, <2>2
<1>6. /\ c \in Seq(S) /\ Len(c) = n + 1 /\ c[n + 1] = t[n + 1]
      /\ \A k \in 1..n : c[k] = a[k]
    <2>1. t[n + 1] \in S
        BY <1>2
    <2>2. QED
        BY <1>3, <1>4, <2>1, AppendProperties
<1>7. \A k \in 1..Len(b) : b[k] = c[k]
    BY <1>4, <1>5, <1>6
<1>8. b = c
    BY <1>5, <1>6, <1>7, SeqEqual
<1>9. QED
    BY <1>3, <1>4, <1>8 DEF IsSeq

\* What has been asked, one row later.
LEMMA AskedOfMore ==
    ASSUME NEW r, IsSeq(r.todo), r.at \in Nat, r.at < Len(r.todo),
           NEW s, s.todo = r.todo, s.source = r.source, s.at = r.at + 1
    PROVE  /\ IsSeq(Asked(r))
           /\ Asked(s) = IF Counts(r.source, r.todo[r.at + 1])
                         THEN Append(Asked(r), r.todo[r.at + 1]) ELSE Asked(r)
<1>1. PICK n \in Nat : n = r.at
    OBVIOUS
<1>2. PICK a, b, p : a = SubSeq(r.todo, 1, n) /\ b = SubSeq(r.todo, 1, n + 1) /\ p = r.todo[n + 1]
    OBVIOUS
<1>3. IsSeq(a) /\ Len(a) = n /\ b = Append(a, p)
    BY <1>1, <1>2, OneRowMore
<1>4. /\ DOMAIN a = 1..n /\ DOMAIN b = 1..(n + 1) /\ b[n + 1] = p /\ \A k \in 1..n : b[k] = a[k]
    BY <1>3, Appended
<1>5. PICK kept, more : /\ kept = [k \in DOMAIN a |-> Counts(r.source, a[k])]
                        /\ more = [k \in DOMAIN b |-> Counts(r.source, b[k])]
    OBVIOUS
<1>6. (\A k \in 1..n : more[k] = kept[k]) /\ more[n + 1] = Counts(r.source, p)
    <2>1. \A k \in 1..n : kept[k] = Counts(r.source, a[k]) /\ more[k] = Counts(r.source, b[k])
        BY <1>4, <1>5
    <2>2. more[n + 1] = Counts(r.source, b[n + 1])
        BY <1>4, <1>5
    <2>3. QED
        BY <1>4, <2>1, <2>2
<1>7. /\ IsSeq(Selected(a, kept))
      /\ Selected(b, more) = IF more[n + 1] THEN Append(Selected(a, kept), p) ELSE Selected(a, kept)
    BY <1>3, <1>6, SelectedOfSeq
<1>8. Asked(r) = Selected(a, kept) /\ Asked(s) = Selected(b, more)
    BY <1>1, <1>2, <1>5 DEF Asked
<1>9. QED
    BY <1>1, <1>2, <1>6, <1>7, <1>8

\* An evaluation that begins follows what it is asked.
LEMMA FollowsFromTheStart ==
    ASSUME NEW known, NEW todo, NEW source, IsSeq(todo),
           \A k \in DOMAIN todo : todo[k] \in known /\ IsPair(todo[k])
    PROVE  Follows([source |-> source, todo |-> todo, at |-> 0, results |-> <<>>, answer |-> Nil,
                    stage |-> "ask"], known)
<1>1. PICK e : e = <<>>
    OBVIOUS
<1>2. IsSeq(e) /\ Len(e) = 0 /\ DOMAIN e = {}
    BY <1>1, EmptySeq DEF IsSeq
<1>3. PICK r : r = [source |-> source, todo |-> todo, at |-> 0, results |-> e, answer |-> Nil,
                    stage |-> "ask"]
    OBVIOUS
<1>4. /\ DOMAIN r = {"source", "todo", "at", "results", "answer", "stage"}
      /\ r.todo = todo /\ r.results = e /\ r.stage = "ask" /\ r.at = 0
    BY <1>3
<1>5. Len(todo) \in Nat
    BY LenProperties DEF IsSeq
<1>6. Asked(r) = e
    <2>1. SubSeq(r.todo, 1, r.at) = <<>>
        BY <1>4, SubSeqEmpty
    <2>2. QED
        BY <1>1, <2>1, SelectedOfNone DEF Asked
<1>7. Answers(r)
    BY <1>2, <1>4, <1>6 DEF Answers
<1>8. Follows(r, known)
    BY <1>2, <1>4, <1>5, <1>7 DEF Follows
<1>9. QED
    BY <1>1, <1>3, <1>8

\* It follows it with a result more about the question that it has reached.
LEMMA FollowsWithAResult ==
    ASSUME NEW known, NEW r, Follows(r, known), r.at < Len(r.todo),
           Counts(r.source, r.todo[r.at + 1]),
           NEW x, x.question = r.todo[r.at + 1].question,
           NEW s, DOMAIN s = DOMAIN r, s.todo = r.todo, s.source = r.source, s.at = r.at + 1,
           s.results = Append(r.results, x), s.stage = "ask"
    PROVE  Follows(s, known)
<1>1. PICK L, old, new : L = Len(r.results) /\ old = r.results /\ new = s.results
    OBVIOUS
<1>2. /\ IsSeq(new) /\ L \in Nat /\ DOMAIN old = 1..L /\ DOMAIN new = 1..(L + 1)
      /\ Len(new) = L + 1 /\ new[L + 1] = x /\ \A k \in 1..L : new[k] = old[k]
    BY <1>1, Appended DEF Follows
<1>3. Len(r.todo) \in Nat /\ r.at \in Nat
    BY LenProperties DEF IsSeq, Follows
<1>4. PICK a, b, p : a = Asked(r) /\ b = Asked(s) /\ p = r.todo[r.at + 1]
    OBVIOUS
<1>5. IsSeq(a) /\ b = Append(a, p)
    <2>1. IsSeq(r.todo)
        BY DEF Follows
    <2>2. QED
        BY <1>3, <1>4, <2>1, AskedOfMore
<1>6. /\ IsSeq(b) /\ Len(a) \in Nat /\ DOMAIN a = 1..Len(a) /\ DOMAIN b = 1..(Len(a) + 1)
      /\ Len(b) = Len(a) + 1 /\ b[Len(a) + 1] = p /\ \A k \in 1..Len(a) : b[k] = a[k]
    BY <1>5, Appended
<1>7. Len(a) = L /\ \A k \in DOMAIN a : old[k].question = a[k].question
    BY <1>1, <1>4 DEF Follows, Answers
<1>8. \A k \in DOMAIN b : new[k].question = b[k].question
    BY <1>2, <1>4, <1>6, <1>7
<1>9. Answers(s)
    BY <1>1, <1>2, <1>4, <1>6, <1>7, <1>8 DEF Answers
<1>10. s.at \in 0..Len(s.todo)
    BY <1>3
<1>11. QED
    BY <1>1, <1>2, <1>9, <1>10 DEF Follows

\* It follows it past a row that does not count.
LEMMA FollowsPastARow ==
    ASSUME NEW known, NEW r, Follows(r, known), r.at < Len(r.todo),
           ~Counts(r.source, r.todo[r.at + 1]),
           NEW s, DOMAIN s = DOMAIN r, s.todo = r.todo, s.source = r.source, s.at = r.at + 1,
           s.results = r.results, s.stage = "ask"
    PROVE  Follows(s, known)
<1>1. Len(r.todo) \in Nat /\ r.at \in Nat /\ IsSeq(r.todo)
    BY LenProperties DEF IsSeq, Follows
<1>2. Asked(s) = Asked(r)
    BY <1>1, AskedOfMore
<1>3. Answers(s)
    BY <1>2 DEF Follows, Answers
<1>4. s.at \in 0..Len(s.todo)
    BY <1>1
<1>5. QED
    BY <1>3, <1>4 DEF Follows

\* An evaluation that follows what was known follows what is known.
LEMMA FollowsMore ==
    ASSUME NEW known, NEW more, known \subseteq more
    PROVE  /\ \A r : Follows(r, known) => Follows(r, more)
           /\ \A x : IsTrue(x, known) => IsTrue(x, more)
    BY DEF Follows, IsTrue

\* The rows change by a feedback that is inserted, last.
LEMMA RowsGrow ==
    [FeedbackNext]_feedbackVars => rows' = rows \/ \E r : rows' = Append(rows, r)
<1> SUFFICES ASSUME [FeedbackNext]_feedbackVars PROVE rows' = rows \/ \E r : rows' = Append(rows, r)
    OBVIOUS
<1>1. ASSUME NEW q \in Questions, SendMessage(q) PROVE rows' = rows
    BY <1>1 DEF SendMessage, judging
<1>2. CASE AnswerArrives
    BY <1>2 DEF AnswerArrives, judging
<1>3. CASE Failed
    BY <1>3 DEF Failed, judging
<1>4. CASE StartNewChat
    BY <1>4 DEF StartNewChat, judging
<1>5. ASSUME NEW k \in DOMAIN store, ThumbUp(k) \/ ThumbDown(k) PROVE rows' = rows
    BY <1>5 DEF ThumbUp, ThumbDown
<1>6. CASE TypeCorrection
    BY <1>6 DEF TypeCorrection
<1>7. CASE SubmitDown
    BY <1>7 DEF SubmitDown
<1>8. CASE CloseModal
    BY <1>8 DEF CloseModal
<1>9. ASSUME NEW call \in calls, Insert(call) PROVE rows' = rows \/ \E r : rows' = Append(rows, r)
    BY <1>9 DEF Insert
<1>10. CASE Judgement
    BY <1>10, JudgementKeepsThePage DEF judging
<1>11. CASE UNCHANGED feedbackVars
    BY <1>11 DEF feedbackVars
<1>12. QED
    BY <1>1, <1>2, <1>3, <1>4, <1>5, <1>6, <1>7, <1>8, <1>9, <1>10, <1>11 DEF FeedbackNext, Judgement

LEMMA EvaluationsInit == FeedbackInit => EvaluationsInv
<1> SUFFICES ASSUME FeedbackInit PROVE EvaluationsInv
    OBVIOUS
<1>1. PICK e : e = <<>>
    OBVIOUS
<1>2. IsSeq(e) /\ DOMAIN e = {}
    BY <1>1, EmptySeq DEF IsSeq
<1>3. rows = e /\ scores = e /\ run = Nil
    BY <1>1 DEF FeedbackInit
<1>4. QED
    BY <1>2, <1>3 DEF EvaluationsInv

\* The question that a running evaluation has reached is a known pair.
LEMMA CurrentIsKnown ==
    ASSUME NEW stage, Running(stage), EvaluationsInv
    PROVE  Current \in Known /\ IsPair(Current)
<1>1. Follows(run, Known) /\ run.at < Len(run.todo)
    BY DEF Running, EvaluationsInv
<1>2. PICK t, L : t = run.todo /\ L = run.at
    OBVIOUS
<1>3. IsSeq(t) /\ L \in Nat
    BY <1>1, <1>2 DEF Follows
<1>4. Len(t) \in Nat /\ DOMAIN t = 1..Len(t)
    BY <1>3, LenProperties DEF IsSeq
<1>5. L + 1 \in DOMAIN t
    BY <1>1, <1>2, <1>3, <1>4
<1>6. QED
    BY <1>1, <1>2, <1>5 DEF Follows, Current

\* An evaluation begins with pairs that are known.
LEMMA BeginsStep ==
    ASSUME EvaluationsInv, NEW pairs, NEW source, Begins(pairs, source), IsSeq(pairs),
           \A k \in DOMAIN pairs : pairs[k] \in Known /\ IsPair(pairs[k])
    PROVE  run' # Nil => Follows(run', Known)
    BY FollowsFromTheStart DEF Begins

\* A row that does not count is passed over.
LEMMA PassOverStep ==
    ASSUME EvaluationsInv, PassOver
    PROVE  run' # Nil => Follows(run', Known)
<1>1. /\ Follows(run, Known) /\ run.stage = "ask" /\ run.at < Len(run.todo)
      /\ ~Counts(run.source, run.todo[run.at + 1])
    BY DEF PassOver, Running, EvaluationsInv, Current
<1>2. PICK r, s : r = run /\ s = run'
    OBVIOUS
<1>3. s = [r EXCEPT !.at = r.at + 1]
    BY <1>2 DEF PassOver
<1>4. DOMAIN r = {"source", "todo", "at", "results", "answer", "stage"}
    BY <1>1, <1>2 DEF Follows
<1>5. /\ DOMAIN s = DOMAIN r /\ s.todo = r.todo /\ s.source = r.source /\ s.at = r.at + 1
      /\ s.results = r.results /\ s.stage = r.stage
    BY <1>3, <1>4
<1>6. QED
    BY <1>1, <1>2, <1>5, FollowsPastARow

\* A question without an answer gives an empty result; the others get an answer to it.
LEMMA AskCoreStep ==
    ASSUME EvaluationsInv, NEW source, AskCore(source)
    PROVE  run' # Nil => Follows(run', Known)
<1>1. /\ Follows(run, Known) /\ run.stage = "ask" /\ run.at < Len(run.todo)
      /\ Counts(run.source, run.todo[run.at + 1])
    BY DEF AskCore, Running, EvaluationsInv, Current
<1>2. PICK r, s : r = run /\ s = run'
    OBVIOUS
<1>3. PICK q : q = r.todo[r.at + 1].question
    OBVIOUS
<1>4. PICK x : x = [question |-> q, status |-> "skip", scores |-> Nil]
    OBVIOUS
<1>5. x.question = q
    BY <1>4
<1>6. PICK a \in {Answer(q, 0), Nil} :
         s = IF a = Nil THEN [r EXCEPT !.at = r.at + 1, !.results = Append(r.results, x)]
             ELSE [r EXCEPT !.answer = a, !.stage = "score"]
    BY <1>2, <1>3, <1>4 DEF AskCore, Unanswered, Current, Results
<1>7. DOMAIN r = {"source", "todo", "at", "results", "answer", "stage"}
    BY <1>1, <1>2 DEF Follows
<1>8. CASE a = Nil
    <2>1. s = [r EXCEPT !.at = r.at + 1, !.results = Append(r.results, x)]
        BY <1>6, <1>8
    <2>2. /\ DOMAIN s = DOMAIN r /\ s.todo = r.todo /\ s.results = Append(r.results, x)
          /\ s.stage = r.stage /\ s.source = r.source /\ s.at = r.at + 1
        BY <1>7, <2>1
    <2>3. QED
        BY <1>1, <1>2, <1>3, <1>5, <2>2, FollowsWithAResult
<1>9. CASE a # Nil
    <2>1. a.to = q
        BY <1>6, <1>9 DEF Answer
    <2>2. s = [r EXCEPT !.answer = a, !.stage = "score"]
        BY <1>6, <1>9
    <2>3. /\ DOMAIN s = DOMAIN r /\ s.todo = r.todo /\ s.results = r.results /\ s.answer = a
          /\ s.source = r.source /\ s.at = r.at
        BY <1>7, <2>2
    <2>4. Answers(s)
        <3>1. Asked(s) = Asked(r)
            BY <2>3 DEF Asked
        <3>2. QED
            BY <1>1, <1>2, <2>3, <3>1 DEF Follows, Answers
    <2>5. QED
        BY <1>1, <1>2, <1>3, <2>1, <2>3, <2>4 DEF Follows
<1>10. QED
    BY <1>8, <1>9

\* The evaluation has a result more, and asks the next question.
Concludes(status, value) ==
    run' = [run EXCEPT !.stage = "ask", !.at = @ + 1, !.results = Results(status, value)]

\* A question that was scored gets a result of its own, whatever the outcome.
LEMMA ResultStep ==
    ASSUME EvaluationsInv, Running("score"),
           NEW status, NEW value, Concludes(status, value)
    PROVE  run' # Nil => Follows(run', Known)
<1>1. /\ Follows(run, Known) /\ run.at < Len(run.todo)
      /\ Counts(run.source, run.todo[run.at + 1])
    BY DEF Running, EvaluationsInv, Follows
<1>2. PICK r, s, q : r = run /\ s = run' /\ q = run.todo[run.at + 1].question
    OBVIOUS
<1>3. PICK x : x = [question |-> q, status |-> status, scores |-> value]
    OBVIOUS
<1>4. x.question = q
    BY <1>3
<1>5. s = [r EXCEPT !.stage = "ask", !.at = r.at + 1, !.results = Append(r.results, x)]
    BY <1>2, <1>3 DEF Concludes, Results, Current
<1>6. DOMAIN r = {"source", "todo", "at", "results", "answer", "stage"}
    BY <1>1, <1>2 DEF Follows
<1>7. /\ DOMAIN s = DOMAIN r /\ s.todo = r.todo /\ s.results = Append(r.results, x)
      /\ s.stage = "ask" /\ s.source = r.source /\ s.at = r.at + 1
    BY <1>5, <1>6
<1>8. QED
    BY <1>1, <1>2, <1>4, <1>7, FollowsWithAResult

\* A score that is stored is true.
LEMMA ScoreStep ==
    ASSUME EvaluationsInv, NEW source, NEW outcome, Scored(source, outcome)
    PROVE  IsSeq(scores') /\ \A k \in DOMAIN scores' : IsTrue(scores'[k], Known)
<1>1. Follows(run, Known) /\ run.stage = "score" /\ Running("score")
    BY DEF Scored, Running, EvaluationsInv
<1>2. PICK x : x = [question |-> Current.question, truth |-> Current.truth, answer |-> run.answer]
    OBVIOUS
<1>3. x.question = Current.question /\ x.truth = Current.truth /\ x.answer = run.answer
    BY <1>2
<1>4. run.answer.to = Current.question
    BY <1>1 DEF Follows, Current
<1>5. [question |-> Current.question, truth |-> Current.truth] \in Known
    BY <1>1, CurrentIsKnown DEF IsPair
<1>6. IsTrue(x, Known)
    BY <1>3, <1>4, <1>5 DEF IsTrue
<1>7. PICK old, new, L : old = scores /\ new = scores' /\ L = Len(scores)
    OBVIOUS
<1>8. IsSeq(old) /\ new = Append(old, x)
    BY <1>2, <1>7 DEF Scored, EvaluationsInv
<1>9. /\ IsSeq(new) /\ L \in Nat /\ DOMAIN old = 1..L /\ DOMAIN new = 1..(L + 1)
      /\ new[L + 1] = x /\ \A k \in 1..L : new[k] = old[k]
    BY <1>7, <1>8, Appended
<1>10. \A k \in DOMAIN old : IsTrue(old[k], Known)
    BY <1>7 DEF EvaluationsInv
<1>11. QED
    BY <1>6, <1>7, <1>9, <1>10

\* The judgements that can be asked for are pairs.
LEMMA CorrectionsArePairs ==
    ASSUME EvaluationsInv
    PROVE  /\ IsSeq(Pairs(Corrected))
           /\ \A k \in DOMAIN Pairs(Corrected) :
                 Pairs(Corrected)[k] \in Known /\ IsPair(Pairs(Corrected)[k])
<1>1. PICK c, p : c = Corrected /\ p = Pairs(c)
    OBVIOUS
<1>2. IsSeq(c)
    BY <1>1, CorrectedIsSeq DEF EvaluationsInv
<1>3. /\ IsSeq(p) /\ DOMAIN p = DOMAIN c
      /\ \A k \in DOMAIN c : p[k] = [question |-> c[k].data.query, truth |-> c[k].expected]
    BY <1>1, <1>2, PairsOfSeq
<1>4. \A k \in DOMAIN p : IsPair(p[k])
    BY <1>3 DEF IsPair
<1>5. \A k \in DOMAIN p : p[k] \in Range(p)
    BY DEF Range
<1>6. Range(p) \subseteq Known
    BY <1>1 DEF Known
<1>7. QED
    BY <1>1, <1>3, <1>4, <1>5, <1>6

\* A data set is made of pairs.
LEMMA DatasetIsPairs ==
    IsSeq(Dataset) /\ \A k \in DOMAIN Dataset : Dataset[k] \in Known /\ IsPair(Dataset[k])
    BY FeedbackAssumption DEF IsSeq, IsPair, Known, Range

\* The scores and the evaluation under way are true to what was known before the step.
Moved ==
    /\ IsSeq(scores') /\ \A k \in DOMAIN scores' : IsTrue(scores'[k], Known)
    /\ run' # Nil => Follows(run', Known)

LEMMA EvaluationsMove == EvaluationsInv /\ [FeedbackNext]_feedbackVars => Moved
<1> SUFFICES ASSUME EvaluationsInv, [FeedbackNext]_feedbackVars PROVE Moved
    OBVIOUS
<1>1. UNCHANGED <<scores, run>> => Moved
    BY DEF EvaluationsInv, Moved
<1>2. scores' = scores /\ (run' # Nil => Follows(run', Known)) => Moved
    BY DEF EvaluationsInv, Moved
<1>3. ASSUME NEW q \in Questions, SendMessage(q) PROVE Moved
    BY <1>1, <1>3 DEF SendMessage, judged
<1>4. CASE AnswerArrives
    BY <1>1, <1>4 DEF AnswerArrives, judged
<1>5. CASE Failed
    BY <1>1, <1>5 DEF Failed, judged
<1>6. CASE StartNewChat
    BY <1>1, <1>6 DEF StartNewChat, judged
<1>7. ASSUME NEW k \in DOMAIN store, ThumbUp(k) \/ ThumbDown(k) PROVE Moved
    BY <1>1, <1>7 DEF ThumbUp, ThumbDown, judged
<1>8. CASE TypeCorrection
    BY <1>1, <1>8 DEF TypeCorrection, judged
<1>9. CASE SubmitDown
    BY <1>1, <1>9 DEF SubmitDown, judged
<1>10. CASE CloseModal
    BY <1>1, <1>10 DEF CloseModal, judged
<1>11. ASSUME NEW call \in calls, Insert(call) PROVE Moved
    BY <1>1, <1>11 DEF Insert, judged
<1>12. CASE EvaluateFeedbacks
    <2>1. Begins(Pairs(Corrected), "feedbacks") /\ scores' = scores
        BY <1>12 DEF EvaluateFeedbacks, Begins
    <2>2. QED
        BY <1>2, <2>1, BeginsStep, CorrectionsArePairs
<1>13. CASE BatchEvaluate
    <2>1. Begins(Dataset, "dataset") /\ scores' = scores
        BY <1>13 DEF BatchEvaluate, Begins
    <2>2. QED
        BY <1>2, <2>1, BeginsStep, DatasetIsPairs
<1>14. CASE AskForCorrection
    <2>1. AskCore("feedbacks") /\ scores' = scores
        BY <1>14 DEF AskForCorrection, AskCore
    <2>2. QED
        BY <1>2, <2>1, AskCoreStep
<1>15. CASE AskForPair
    <2>1. AskCore("dataset") /\ scores' = scores
        BY <1>15 DEF AskForPair, AskCore
    <2>2. QED
        BY <1>2, <2>1, AskCoreStep
<1>16. ASSUME NEW source, NEW outcome \in Outcomes, Scored(source, outcome) PROVE Moved
    <2>1. Running("score") /\ Concludes("ok", outcome)
        BY <1>16 DEF Scored, Concludes
    <2>2. run' # Nil => Follows(run', Known)
        BY <2>1, ResultStep
    <2>3. QED
        BY <1>16, <2>2, ScoreStep DEF Moved
<1>17. CASE ScoreFails
    <2>1. /\ Running("score") /\ scores' = scores
          /\ Concludes("error", Nil)
        BY <1>17 DEF ScoreFails, Concludes
    <2>2. run' # Nil => Follows(run', Known)
        BY <2>1, ResultStep
    <2>3. QED
        BY <1>2, <2>1, <2>2
<1>18. CASE EndBatch
    BY <1>2, <1>18 DEF EndBatch
<1>19. CASE ClearScores
    <2>1. PICK e : e = <<>>
        OBVIOUS
    <2>2. IsSeq(e) /\ DOMAIN e = {}
        BY <2>1, EmptySeq DEF IsSeq
    <2>3. scores' = e /\ run' = run
        BY <1>19, <2>1 DEF ClearScores
    <2>4. QED
        BY <2>2, <2>3 DEF Moved, EvaluationsInv
<1>20. ASSUME NEW c \in Configs, EndFeedbacks(c) PROVE Moved
    BY <1>2, <1>20 DEF EndFeedbacks
<1>21. CASE UNCHANGED feedbackVars
    BY <1>1, <1>21 DEF feedbackVars
<1>22. CASE PassOver
    <2>1. scores' = scores
        BY <1>22 DEF PassOver
    <2>2. QED
        BY <1>2, <1>22, <2>1, PassOverStep
<1>23. QED
    BY <1>3, <1>4, <1>5, <1>6, <1>7, <1>8, <1>9, <1>10, <1>11, <1>12, <1>13, <1>14, <1>15,
       <1>16, <1>17, <1>18, <1>19, <1>20, <1>21, <1>22 DEF FeedbackNext, ScoreCorrection, ScorePair

\* Every step keeps the evaluations true.
LEMMA EvaluationsStep == EvaluationsInv /\ [FeedbackNext]_feedbackVars => EvaluationsInv'
<1> SUFFICES ASSUME EvaluationsInv, [FeedbackNext]_feedbackVars PROVE EvaluationsInv'
    OBVIOUS
<1>1. IsSeq(rows) /\ (rows' = rows \/ \E r : rows' = Append(rows, r))
    BY RowsGrow DEF EvaluationsInv
<1>2. IsSeq(rows')
    <2>1. CASE rows' = rows
        BY <1>1, <2>1
    <2>2. ASSUME NEW r, rows' = Append(rows, r) PROVE IsSeq(rows')
        <3>1. IsSeq(Append(rows, r))
            BY <1>1, Appended
        <3>2. QED
            BY <2>2, <3>1
    <2>3. QED
        BY <1>1, <2>1, <2>2
<1>3. PICK known, more : known = Known /\ more = Known'
    OBVIOUS
<1>4. known \subseteq more
    BY <1>1, <1>3, KnownGrows
<1>5. /\ IsSeq(scores') /\ \A k \in DOMAIN scores' : IsTrue(scores'[k], known)
      /\ run' # Nil => Follows(run', known)
    BY <1>3, EvaluationsMove DEF Moved
<1>6. /\ \A k \in DOMAIN scores' : IsTrue(scores'[k], more)
      /\ run' # Nil => Follows(run', more)
    BY <1>4, <1>5, FollowsMore
<1>7. QED
    BY <1>2, <1>3, <1>5, <1>6 DEF EvaluationsInv

LEMMA EvaluationsInvImplies == EvaluationsInv => EvaluationsAreTrue
<1> SUFFICES ASSUME EvaluationsInv PROVE EvaluationsAreTrue
    OBVIOUS
<1>1. \A k \in DOMAIN scores : IsTrue(scores[k], Known)
    BY DEF EvaluationsInv
<1>2. run # Nil => Answers(run)
    BY DEF EvaluationsInv, Follows
<1>3. QED
    BY <1>1, <1>2 DEF EvaluationsAreTrue, IsTrue, Known, Answers

-----------------------------------------------------------------------------
(* The report. *)

\* A report proposes what its metrics call for, of the settings that it was made with.
Proposes(r) ==
    /\ r.config \in Configs
    /\ \A m \in r.diagnosed \cap Metrics : r.suggested[m] = Suggested(r.config, m)
ReportInv == report # Nil => Proposes(report)

LEMMA AnalysisProposes ==
    ASSUME NEW results, NEW c \in Configs PROVE Proposes(Analysis(results, c))
<1>1. PICK r : r = Analysis(results, c)
    OBVIOUS
<1>2. PICK low, w : r = [config |-> c, diagnosed |-> low,
                         suggested |-> [m \in low |-> Suggested(c, m)], well |-> w]
    BY <1>1 DEF Analysis
<1>3. r.config = c /\ r.diagnosed = low /\ r.suggested = [m \in low |-> Suggested(c, m)]
    BY <1>2
<1>4. QED
    BY <1>1, <1>3 DEF Proposes

\* A report is made by the end of an evaluation and by nothing else.
LEMMA ReportStep == ReportInv /\ [FeedbackNext]_feedbackVars => ReportInv'
<1> SUFFICES ASSUME ReportInv, [FeedbackNext]_feedbackVars PROVE ReportInv'
    OBVIOUS
<1>1. report' = report => ReportInv'
    BY DEF ReportInv
<1>2. ASSUME NEW q \in Questions, SendMessage(q) PROVE ReportInv'
    BY <1>1, <1>2 DEF SendMessage, judged
<1>3. CASE AnswerArrives
    BY <1>1, <1>3 DEF AnswerArrives, judged
<1>4. CASE Failed
    BY <1>1, <1>4 DEF Failed, judged
<1>5. CASE StartNewChat
    BY <1>1, <1>5 DEF StartNewChat, judged
<1>6. ASSUME NEW k \in DOMAIN store, ThumbUp(k) \/ ThumbDown(k) PROVE ReportInv'
    BY <1>1, <1>6 DEF ThumbUp, ThumbDown, judged
<1>7. CASE TypeCorrection
    BY <1>1, <1>7 DEF TypeCorrection, judged
<1>8. CASE SubmitDown
    BY <1>1, <1>8 DEF SubmitDown, judged
<1>9. CASE CloseModal
    BY <1>1, <1>9 DEF CloseModal, judged
<1>10. ASSUME NEW call \in calls, Insert(call) PROVE ReportInv'
    BY <1>1, <1>10 DEF Insert, judged
<1>11. CASE EvaluateFeedbacks
    BY <1>1, <1>11 DEF EvaluateFeedbacks, Begins
<1>12. CASE BatchEvaluate
    BY <1>1, <1>12 DEF BatchEvaluate, Begins
<1>13. CASE AskForCorrection
    BY <1>1, <1>13 DEF AskForCorrection, AskCore
<1>14. CASE AskForPair
    BY <1>1, <1>14 DEF AskForPair, AskCore
<1>15. ASSUME NEW source, NEW outcome \in Outcomes, Scored(source, outcome) PROVE ReportInv'
    BY <1>1, <1>15 DEF Scored
<1>16. CASE ScoreFails \/ PassOver
    BY <1>1, <1>16 DEF ScoreFails, PassOver
<1>17. CASE EndBatch
    BY <1>1, <1>17 DEF EndBatch
<1>18. CASE ClearScores
    BY <1>1, <1>18 DEF ClearScores
<1>19. ASSUME NEW c \in Configs, EndFeedbacks(c) PROVE ReportInv'
    <2>1. report' = Analysis(run.results, c)
        BY <1>19 DEF EndFeedbacks
    <2>2. Proposes(report')
        BY <2>1, AnalysisProposes
    <2>3. QED
        BY <2>2 DEF ReportInv
<1>20. CASE UNCHANGED feedbackVars
    BY <1>1, <1>20 DEF feedbackVars
<1>21. QED
    BY <1>2, <1>3, <1>4, <1>5, <1>6, <1>7, <1>8, <1>9, <1>10, <1>11, <1>12, <1>13, <1>14, <1>15,
       <1>16, <1>17, <1>18, <1>19, <1>20 DEF FeedbackNext, ScoreCorrection, ScorePair

\* A fragment of more than 50 characters is larger than the overlap proposed for it.
LEMMA OverlapLeavesRoom ==
    ASSUME NEW size \in Int
    PROVE  Size(size) <= size /\ (size > 50 => Overlap(Size(size)) < Size(size))
<1>1. PICK s \in Int : s = Size(size)
    BY DEF Size, Greater
<1>2. s <= size /\ (size > 50 => s > 50)
    BY <1>1 DEF Size, Greater
<1>3. s > 50 => (s * 15) \div 100 < s
    OBVIOUS
<1>4. QED
    BY <1>1, <1>2, <1>3 DEF Overlap, Greater

\* What is proposed can be applied, whatever the settings in force.
LEMMA ReportInvImplies == ReportInv => SuggestionsAreSound
<1> SUFFICES ASSUME ReportInv, report # Nil PROVE SuggestionsAreSound
    BY DEF SuggestionsAreSound
<1>1. PICK r, c : r = report /\ c = report.config
    OBVIOUS
<1>2. Proposes(r) /\ c = r.config
    BY <1>1 DEF ReportInv
<1>3. c \in Configs
    BY <1>2 DEF Proposes
<1>4. /\ c.rerank_top_n \in Int /\ c.bm25_top_k \in Int /\ c.fusion_top_k \in Int
      /\ c.bm25_weight \in Int /\ c.chunk_size \in Int
    BY <1>3, FeedbackAssumption
<1>5. ASSUME "context_recall" \in r.diagnosed
      PROVE  LET s == r.suggested["context_recall"] IN
                /\ c.chunk_size > 50 => s.chunk_overlap < s.chunk_size
                /\ s.chunk_size <= c.chunk_size
                /\ s.bm25_weight + s.dense_weight = 100
                /\ c.bm25_weight <= 60 => s.bm25_weight >= c.bm25_weight
                /\ c.bm25_top_k <= 80 => s.bm25_top_k >= c.bm25_top_k
                /\ c.fusion_top_k <= 50 => s.fusion_top_k >= c.fusion_top_k
    <2>1. PICK s : s = Suggested(c, "context_recall")
        OBVIOUS
    <2>2. r.suggested["context_recall"] = s
        BY <1>2, <1>5, <2>1 DEF Proposes, Metrics
    <2>3. s = [bm25_top_k |-> Lesser(c.bm25_top_k + 20, 80), dense_top_k |-> Lesser(c.dense_top_k + 20, 80),
               fusion_top_k |-> Lesser(c.fusion_top_k + 10, 50),
               chunk_size |-> Size(c.chunk_size), chunk_overlap |-> Overlap(Size(c.chunk_size)),
               bm25_weight |-> Weight(c.bm25_weight), dense_weight |-> 100 - Weight(c.bm25_weight)]
        BY <2>1 DEF Suggested
    <2>4. /\ s.bm25_top_k = Lesser(c.bm25_top_k + 20, 80)
          /\ s.fusion_top_k = Lesser(c.fusion_top_k + 10, 50)
          /\ s.chunk_size = Size(c.chunk_size) /\ s.chunk_overlap = Overlap(Size(c.chunk_size))
          /\ s.bm25_weight = Weight(c.bm25_weight) /\ s.dense_weight = 100 - Weight(c.bm25_weight)
        BY <2>3
    <2>5. /\ s.chunk_size <= c.chunk_size
          /\ c.chunk_size > 50 => s.chunk_overlap < s.chunk_size
        BY <1>4, <2>4, OverlapLeavesRoom
    <2>6. /\ s.bm25_weight + s.dense_weight = 100
          /\ c.bm25_weight <= 60 => s.bm25_weight >= c.bm25_weight
        BY <1>4, <2>4 DEF Weight, Lesser
    <2>7. /\ c.bm25_top_k <= 80 => s.bm25_top_k >= c.bm25_top_k
          /\ c.fusion_top_k <= 50 => s.fusion_top_k >= c.fusion_top_k
        BY <1>4, <2>4 DEF Lesser
    <2>8. QED
        BY <2>2, <2>5, <2>6, <2>7
<1>6. ASSUME "faithfulness" \in r.diagnosed, c.rerank_top_n <= 25
      PROVE  r.suggested["faithfulness"].rerank_top_n >= c.rerank_top_n
    <2>1. PICK s : s = Suggested(c, "faithfulness")
        OBVIOUS
    <2>2. r.suggested["faithfulness"] = s
        BY <1>2, <1>6, <2>1 DEF Proposes, Metrics
    <2>3. s.rerank_top_n = Lesser(c.rerank_top_n + 5, 25)
        BY <2>1 DEF Suggested
    <2>4. QED
        BY <1>4, <1>6, <2>2, <2>3 DEF Lesser
<1>7. QED
    BY <1>1, <1>5, <1>6 DEF SuggestionsAreSound

\* A score measures the answer to its own question; of the rows gone through, those
\* that hold a question have their results, in their order; and a report can be
\* applied, but for the overlap when fragments have 50 characters or fewer
\* (admin_ui.py, batch_evaluate_ragas, evaluate_feedbacks_ragas, _build_ragas_analysis).
THEOREM FeedbackReportsAreSound == FeedbackSpec => []ReportsAreSound
<1>1. FeedbackInit => EvaluationsInv /\ ReportInv
    BY EvaluationsInit DEF FeedbackInit, ReportInv
<1>2. EvaluationsInv /\ ReportInv => ReportsAreSound
    BY EvaluationsInvImplies, ReportInvImplies DEF ReportsAreSound
<1>3. QED
    BY <1>1, <1>2, EvaluationsStep, ReportStep, PTL DEF FeedbackSpec
=============================================================================
