------------------------------- MODULE Texts --------------------------------
(***************************************************************************)
(* The texts of the model go through the code of query2.py: an answer      *)
(* through the guard of the pages, the blocks and their synthesis through  *)
(* that of the concrete data, an analysis through the composition of the   *)
(* questions.  One step reads one text.                                    *)
(***************************************************************************)
EXTENDS Guards, Questions

CONSTANTS
    Answers,        \* two labels and the words around them, with the passages of the lot
    Summaries,      \* blocks, a synthesis, and what the extracts hold
    Analyses,       \* replies of the model, with the pairs that the request coordinates
    NoText

\* A text that cites: a label is copied with a name of the lot and two pages, its file
\* name is in the window, and a name does not end with a character that _NOM_PDF does
\* not know.
Citing(a) ==
    /\ \A words \in {a.before, a.between} :
          IsList(words) /\ \A k \in DOMAIN words : ~Kind(words[k], "page")
    /\ \A c \in {a.first, a.second} :
          /\ c.from \in Nat /\ c.to \in Nat
          /\ \E p \in a.passages : p.name = c.name
    /\ \A p \in a.passages : IsList(p.name) /\ Own(p.name) # <<>>

ASSUME TextsAssumption ==
    /\ Window >= 2
    /\ \A a \in Answers : a.of = "answer" /\ Citing(a)
    /\ \A s \in Summaries : s.of = "summary" /\ IsList(s.blocks) /\ IsList(s.synthesis)
                            /\ \A k \in DOMAIN s.blocks : IsList(s.blocks[k].tokens)
    /\ \A a \in Analyses : /\ a.of = "analysis"
                           /\ IsList(a.reply.aspects)
                           /\ IsList(a.reply.motifs)

VARIABLES reading, made

TextsInit ==
    /\ reading \in Answers \cup Summaries \cup Analyses
    /\ made = NoText

Copied(r) == r.before \o Etiquette(r.first) \o r.between \o Etiquette(r.second)
ReadAnswer ==
    /\ made = NoText /\ reading.of = "answer"
    /\ made' = PagesHorsLot(Copied(reading), PagesDuLot(reading.passages))
    /\ UNCHANGED reading
ReadSummary ==
    /\ made = NoText /\ reading.of = "summary"
    /\ made' = Annexed(reading.synthesis, reading.blocks, reading.lot)
    /\ UNCHANGED reading
ReadAnalysis ==
    /\ made = NoText /\ reading.of = "analysis"
    /\ Readable(Analysed(reading.reply, reading.coordinated))
    /\ made' = Composer(Analysed(reading.reply, reading.coordinated))
    /\ UNCHANGED reading

TextsNext == ReadAnswer \/ ReadSummary \/ ReadAnalysis

TextsSpec == TextsInit /\ [][TextsNext]_<<reading, made>>

Read(kind) == made # NoText /\ reading.of = kind

-----------------------------------------------------------------------------
(* Properties. *)

\* A name is known if _NOM_PDF takes it whole, or if no other name of the lot ends with
\* what it takes of it: of "d'eau.pdf" and "l'eau.pdf", the shortest stands for both.
Known(name, pages) ==
    Own(name) = name \/ {n \in DOMAIN pages : IsSuffix(Own(name), n)} = {name}

\* What a label claims: of an inverted range, or one too wide, its first page only;
\* nothing of a range whose two ends are in the lot, taken for two labels in one.
Claimed(c, pages) ==
    LET told == IF c.to < c.from \/ c.to - c.from > WidePages THEN {c.from} ELSE c.from..c.to
    IN  IF told # {c.from} /\ {c.from, c.to} \subseteq pages[c.name] THEN {} ELSE told

\* The guard that accuses an answer of citing a page out of its lot: of the labels that
\* the answer copies it flags the pages claimed that this document does not have there,
\* and no other, however the other documents are named and whatever stands around - when
\* the names of the labels are known.
FlagsAreRight ==
    Read("answer") =>
        LET pages == PagesDuLot(reading.passages)
            labels == {reading.first, reading.second}
        IN  (\A c \in labels : Known(c.name, pages)) =>
                made = UNION {{<<c.name, page>> : page \in Claimed(c, pages) \ pages[c.name]} :
                                  c \in labels}

\* What the annex does not show of the lines that are missing, and the number with
\* which a line goes there, when the code takes the point of "12.5" for that of "12. ".
LeftOut(lines) == SubSeq(lines, MaxLines + 1, Len(lines))
Remains(blocks) ==
    {Head(Propre(blocks[k]).tokens) : k \in {j \in DOMAIN blocks : Beheaded(blocks[j])}}

\* "Donnees du dossier non reprises": once the annex is there, a line of the blocks that
\* still carries a missing value is one of those beyond RETENTION_LIGNES_MAX, or begins
\* with a decimal; and the annex brings no number from outside the extracts that was not
\* already written, what remains of such a decimal apart.
AnnexedIsComplete ==
    Read("summary") =>
        LET blocks == reading.blocks
            lot == reading.lot
            before == Retention(reading.synthesis, blocks, lot)
            Carries(k) ==
                /\ blocks[k].mark # <<"#">>
                /\ ValeursDe(<<blocks[k]>>, lot) \cap Missing(made, blocks, lot) # {}
        IN  Lacking(before)
            => /\ \A k \in DOMAIN blocks :
                     Carries(k) => Beheaded(blocks[k])
                                   \/ Propre(blocks[k]) \in ToSet(LeftOut(before.lines))
               /\ NombresHorsExtraits(made, lot) \subseteq
                     NombresHorsExtraits(reading.synthesis \o blocks, lot) \cup Remains(blocks)

\* A question on a reason, alone or joined to the other of a coordinated pair.
Joins(name, pairs) == \E p \in pairs : name = p[1] \o p[2]
AsksFor(name, reason, pairs) ==
    name = reason \/ \E p \in pairs : reason \in {p[1], p[2]} /\ name = p[1] \o p[2]

\* Of the reasons that a user gives, none gives way to an aspect that the model has
\* thought of, and there are max_questions at most.  A reason is asked about, alone or
\* joined to another that the request coordinates with it, and two questions are the
\* same only if they are of such a pair: the code compares the reasons before it joins
\* them, and of "a", "b" and "a et b" the first two make the third again.
MotivesAreAsked ==
    Read("analysis") =>
        LET reasons == ToSet(reading.reply.motifs) \ Generic
            pairs == reading.coordinated \cap (reasons \X reasons)
            motifs == {k \in DOMAIN made : made[k].kind = "motif"}
        IN  /\ Len(made) <= MaxQuestions
            /\ \A j, k \in motifs :
                  j # k /\ made[j].name = made[k].name => Joins(made[j].name, pairs)
            /\ \A k \in motifs : \E r \in reasons : AsksFor(made[k].name, r, pairs)
            /\ (\E r \in reasons : \A k \in motifs : ~AsksFor(made[k].name, r, pairs)) =>
                  Len(made) = MaxQuestions /\ \A k \in DOMAIN made : made[k].kind # "aspect"
=============================================================================
