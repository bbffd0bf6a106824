------------------------------ MODULE MCTexts -------------------------------
(***************************************************************************)
(* The small texts of the runs: those of a document, through the parser    *)
(* and the chunker, and those of the model, through the guards.  A         *)
(* behaviour follows one of them.                                          *)
(***************************************************************************)
EXTENDS Chunking, Texts

CONSTANT MaxWords

\* Words, one longer than a fragment, and what follows them; a text may repeat
\* itself.
Words == {<<"a">>, <<"a", "b", ".">>, <<"b", "b", "b", "b", "b", "b", "b", "b", "b">>}
Gaps == {<<"_">>, <<"/">>, <<"_", "/", "/">>}
Texts == {FlattenSeq([k \in DOMAIN s |-> s[k][1] \o s[k][2]]) : s \in SeqOf(Words \X Gaps, MaxWords)}

TextFile(strategy, chars, size, overlap) ==
    [kind |-> "txt", strategy |-> strategy, size |-> size, overlap |-> overlap,
     parts |-> <<[kind |-> "line", chars |-> chars]>>, written |-> "utf-8"]
TextFiles ==
    {TextFile(strategy, chars, 7, overlap) :
        strategy \in {"sentence", "paragraph", "fixed"}, chars \in Texts, overlap \in {0, 2}}

\* Pages that pymupdf4llm reads, reads badly or not at all, and that the OCR
\* may complete.
Pages ==
    [raw : {<<>>, <<"a">>, <<"a", "b", ".", "/", "a">>, <<"/", "b", "_">>},
     md : {<<>>, <<"a", "b", ".", "_", "b", "_">>}, ocr : {<<>>, <<"b", ".">>}]
PdfFiles ==
    [kind : {"pdf"}, strategy : {"sentence", "fixed"}, size : {5}, overlap : {2},
     pages : SeqOf(Pages, 2), drawings : {2, 3}, failing : SUBSET {0, 1}, scanner : BOOLEAN]

\* Slides, mails and tables, with blank slides, quoted headers and rules.
Cells == {<<"|", "a", "_", "/">>, <<"|", "-", "/">>, <<"b", ".", "_">>, <<"/">>, <<"|", "b", ".", "/">>}
Marked == {<<"#">>, <<"@", "a", "/">>, <<"b", ".", "_">>, <<"/">>, <<"a">>}
Laid(parts, n) == {FlattenSeq(s) : s \in SeqOf(parts, n)}
OtherFiles ==
    {TextFile("sentence", chars, room[1], room[2]) :
            chars \in Laid(Cells, 5), room \in {<<6, 0>>, <<6, 3>>, <<8, 5>>}}
        \cup {TextFile(strategy, chars, 5, 0) : strategy \in {"slide", "email"}, chars \in Laid(Marked, 4)}

\* Documents by their parts: every format, with its strategy in the settings.
\* Lines are longer and shorter than what olefile keeps.
Piece(kinds, texts) == [kind : kinds, chars : texts]
OnSlide(kinds, texts, slides) == [kind : kinds, chars : texts, slide : slides]
Scraps == {<<"a", "b", ".">>, <<"_">>}
WordFiles ==
    [kind : {"docx", "doc"}, strategy : {"paragraph"}, size : {5}, overlap : {0},
     libs : SUBSET {"ole", "tika"}, native : BOOLEAN, ole : BOOLEAN, tika : BOOLEAN,
     parts : SeqOf(Piece({"para", "row", "line"}, Scraps) \cup Piece({"line"}, {<<"b">>}), 2)]
SlideFiles ==
    [kind : {"pptx"}, strategy : {"slide"}, size : {5}, overlap : {0}, slides : {3},
     libs : {{}, {"ole"}}, native : BOOLEAN, ole : {TRUE}, tika : {TRUE},
     parts : SeqOf(OnSlide({"shape"}, Scraps \cup {<<"#", "a">>}, 1..3)
                     \cup OnSlide({"table", "line"}, {<<"b", "b">>}, {1}), 3)]
Books ==
    [kind : {"xlsx"}, strategy : {"fixed"}, size : {7}, overlap : {0, 2}, slides : {2},
     native : BOOLEAN, advanced : BOOLEAN,
     names : {<< <<x>>, << <<"A">>, y, <<"A", "1">> >> >> : x \in {<<"A">>}, y \in {<<"A", "_">>, <<"B">>}},
     parts : SeqOf(OnSlide({"row"}, Scraps, {1, 2}), 4)]
MailFiles ==
    [kind : {"msg", "eml"}, strategy : {"email"}, size : {5}, overlap : {0}, native : {TRUE},
     libs : {{}, {"unstructured"}},
     parts : SeqOf(Piece({"plain"}, {<<"a", ".", "_", "b">>, <<"@", "/", "a">>, <<"/", "b", "/">>}), 2)
                \cup {<<p, q>> : p, q \in Piece({"plain", "html"}, {<<"a">>})}]
CharFiles ==
    [kind : {"txt", "html", "rtf"}, strategy : {"sentence"}, size : {6}, overlap : {0},
     written : {"utf-8", "latin-1"},
     parts : SeqOf(Piece({"text", "script", "line"}, {<<"a">>, <<"e'", "b">>}), 2)]
        \cup [kind : {"md"}, strategy : {"sentence"}, size : {6}, overlap : {0},
              written : {"utf-8", "latin-1"},
              parts : SeqOf(Piece({"rule"}, {<<"-", "/">>}) \cup Piece({"blank"}, {<<"/">>})
                              \cup Piece({"pair", "line"}, {<<"e'", "/">>}), 4)]
OdfFile(kind, laid) ==
    [kind : {kind}, strategy : {"sentence"}, size : {6}, overlap : {0}, slides : {2},
     libs : {{}, {"odf"}}, native : BOOLEAN, parts : laid]
OdfFiles ==
    OdfFile("odt", SeqOf(OnSlide({"para", "heading"}, Scraps, {1}), 2))
        \cup OdfFile("ods", SeqOf(OnSlide({"row"}, Scraps, 1..2), 2))
        \cup OdfFile("odp", SeqOf(OnSlide({"para", "frame"}, Scraps, {1}), 2))
PartFiles == WordFiles \cup SlideFiles \cup Books \cup MailFiles \cup CharFiles \cup OdfFiles

MCFiles == OtherFiles \cup TextFiles \cup PdfFiles \cup PartFiles

-----------------------------------------------------------------------------
\* Documents, the name of each the end or the beginning of another's, some of them
\* with an apostrophe.
Names == { <<"p", "%">>, <<"a", " ", "p", "%">>, <<"p", "T", "1", "%">>, <<"p", "T", "1", "2", "%">>,
           <<"d", "'", "p", "%">>, <<"d", "'", "q", "%">> }
Passage(name, from, to) == [name |-> name, from |-> from, to |-> to]
Lots ==
    {{Passage(n, 1, 2), Passage(m, 2, 3)} : n, m \in Names}
        \cup {{Passage(n, 3, 3), Passage(m, 2, 1)} : n, m \in Names}
Around == {<<>>, <<[kind |-> "tome", number |-> <<"1">>]>>, <<[kind |-> "word", text |-> <<"l", "'", "a">>]>>}
Labels(lot) ==
    {Passage(p.name, r[1], r[2]) : p \in lot, r \in {<<1, 3>>, <<3, 3>>, <<3, 1>>, <<1, 22>>}}
MCAnswers ==
    UNION {[of : {"answer"}, passages : {lot}, first : Labels(lot), second : Labels(lot),
            before : Around, between : Around] : lot \in Lots}

Number(whole, frac, point) ==
    [kind |-> "number", whole |-> whole, frac |-> frac, spaced |-> FALSE, point |-> point]
Twelve == Number(<<"1", "2">>, <<>>, FALSE)
Data == {Twelve, Number(<<"1", "2">>, <<"5">>, TRUE), Number(<<"3", "1", "2">>, <<>>, FALSE),
         Number(<<"4">>, <<>>, FALSE), [kind |-> "name", word |-> "Oise"]}
Figures == {d \in Data : d.kind = "number"}
DataLines(marks, n) == [mark : marks, tokens : SeqOf(Data, n)]
Listed == DataLines({<<"-">>}, 1)
Blocks ==
    {<<a, b>> : a \in DataLines({<<>>, <<"-">>}, 2), b \in Listed}
        \cup {<<[a EXCEPT !.mark = <<"#">>], a, b, b>> : a, b \in Listed}
MCSummaries ==
    [of : {"summary"}, blocks : Blocks,
     synthesis : {<<>>} \cup {<<l>> : l \in DataLines({<<"-">>, <<"1", "2", ".">>}, 1)},
     lot : [numbers : {Figures, {Twelve}}, capital : {{"Oise"}}, lower : {{}}]]

MCGeneric == {<<"g">>}
MCTable == <<[themes |-> {"a"}, items |-> <<"i", "j">>], [themes |-> {"o", "b"}, items |-> <<"j", "k">>]>>
MCTemplates == [type \in {"element", "parc"} |-> IF type = "parc" THEN 2 ELSE 1]
Replies(objects, aspects) ==
    [object : objects, type : {"", "parc"}, motifs : SeqOf({<<"a">>, <<"b">>, <<"c">>, <<"g">>, <<"a", "b">>}, 3),
     aspects : aspects, items : {[name \in {<<"a">>} |-> <<"i">>]}]
MCAnalyses ==
    [of : {"analysis"}, reply : Replies({<<>>, <<"o">>}, SeqOf({<<"o">>, <<"d">>, <<"e">>}, 2)),
     coordinated : {{}, {<< <<"a">>, <<"b">> >>, << <<"b">>, <<"c">> >>}}]

-----------------------------------------------------------------------------
Some == CHOOSE f \in Files : TRUE
DocumentsInit ==
    \/ Init /\ reading = NoText /\ made = NoText
    \/ Begin(Some) /\ TextsInit
DocumentsNext ==
    \/ reading = NoText /\ Next /\ UNCHANGED <<reading, made>>
    \/ reading # NoText /\ TextsNext /\ UNCHANGED vars
DocumentsSpec == DocumentsInit /\ [][DocumentsNext]_<<vars, reading, made>>
=============================================================================
