------------------------------- MODULE Guards -------------------------------
(***************************************************************************)
(* What query2.py reads in a text of the model: the pages it cites, its    *)
(* numbers and proper names, and what a synthesis has kept of the blocks   *)
(* it summarises.                                                          *)
(*                                                                         *)
(* A text that cites is a sequence of file names, volumes ("Tome 2"),      *)
(* pages, words and breaks (punctuation that no file name crosses).  A     *)
(* text with data is a sequence of lines, each with its mark ("", "-",     *)
(* "#", or the digits of "12.") and its tokens.  Names of files are        *)
(* sequences of characters, where "%" stands for ".pdf".                   *)
(***************************************************************************)
EXTENDS Integers, FiniteSets, SequencesExt, Lists

CONSTANTS
    Window,         \* fenetre, in tokens
    WidePages,      \* pages a range may span
    MinDigits,      \* min_chiffres
    RetentionMin,   \* retention_min, in hundredths
    MaxLines        \* RETENTION_LIGNES_MAX

ASSUME GuardsAssumption ==
    /\ {Window, WidePages, MinDigits, MaxLines} \subseteq Nat
    /\ RetentionMin \in 0..100

Kind(token, kind) == token.kind = kind

-----------------------------------------------------------------------------
(* Pages. *)

\* _pages_du_lot: an inverted range is put right.
Covered(from, to) == IF from <= to THEN from..to ELSE to..from
PagesDuLot(passages) ==
    [name \in {p.name : p \in passages} |->
        UNION {Covered(p.from, p.to) : p \in {q \in passages : q.name = name}}]

\* The label of a passage, which an answer copies: [Source: plan.pdf, pages 3 a 5]
Etiquette(p) ==
    <<[kind |-> "break"], [kind |-> "file", text |-> p.name],
      [kind |-> "break"], [kind |-> "page", from |-> p.from, to |-> p.to], [kind |-> "break"]>>

\* The words and file names that _NOM_PDF takes for one name, up to token k: it
\* starts again after a character that it does not know.
Foreign == {"'", ","}
Own(chars) == SubSeq(chars, Max({i \in DOMAIN chars : chars[i] \in Foreign} \cup {0}) + 1, Len(chars))
Runs(token) == token.kind \in {"word", "file"} /\ Own(token.text) # <<>>
Unbroken(token) == Own(token.text) = token.text
RunStart(text, k) ==
    CHOOSE i \in 1..k :
        /\ \A j \in i..k : Runs(text[j]) /\ (j > i => Unbroken(text[j]))
        /\ i = 1 \/ ~Runs(text[i - 1]) \/ ~Unbroken(text[i])
Mention(text, k) ==
    [j \in 1..(k - RunStart(text, k) + 1) |-> [text |-> Own(text[RunStart(text, k) + j - 1].text)]]

Spelled(tokens) ==
    LET upto[n \in 1..Len(tokens)] ==
            IF n = 1 THEN tokens[1].text ELSE upto[n - 1] \o <<" ">> \o tokens[n].text
    IN  upto[Len(tokens)]

\* Mutant: the longest name that ends so.
Longest(names) == CHOOSE n \in names : \A m \in names : Len(m) <= Len(n)
Shortest(names) == CHOOSE n \in names : \A m \in names : Len(m) >= Len(n)

\* The longest end of a mention that ends a name of the lot.
Named(mention, pages) ==
    LET Ending(i) == {n \in DOMAIN pages : IsSuffix(Spelled(SubSeq(mention, i, Len(mention))), n)}
        Found == {i \in DOMAIN mention : Ending(i) # {}}
    IN  IF Found = {} THEN Last(mention).text
        ELSE Shortest(Ending(CHOOSE i \in Found : \A j \in Found : i <= j))

\* "Tome 1" is sought as a part of the names: it is one of "Tome 12".
Volumes(n, pages) ==
    {name \in DOMAIN pages :
        \E i \in DOMAIN name : name[i] = "T" /\ IsPrefix(n, SubSeq(name, i + 1, Len(name)))}

\* The document of a page: the last reference before it, in the window.
Preceding(text, k) == SubSeq(text, IF k > Window THEN k - Window ELSE 1, k - 1)
DocumentOf(before, pages) ==
    LET files == {i \in DOMAIN before : Kind(before[i], "file")}
        volumes == {i \in DOMAIN before :
                        Kind(before[i], "tome") /\ Cardinality(Volumes(before[i].number, pages)) = 1}
        Latest(s) == Max(s \cup {0})
    IN  IF Latest(volumes) > Latest(files)
        THEN CHOOSE n \in Volumes(before[Latest(volumes)].number, pages) : TRUE
        ELSE IF files = {} THEN <<>>
        ELSE Named(Mention(before, Latest(files)), pages)

Reference(document, pages) ==
    IF document \in DOMAIN pages THEN pages[document]
    ELSE UNION {pages[n] : n \in DOMAIN pages}

\* _pages_hors_lot: the document, if any, and the page.
OutsideAt(text, k, pages) ==
    LET document == DocumentOf(Preceding(text, k), pages)
        reference == Reference(document, pages)
        from == text[k].from
        to == IF text[k].to < from \/ text[k].to - from > WidePages THEN from ELSE text[k].to
    IN  IF from # to /\ {from, to} \subseteq reference THEN {}
        ELSE {<<document, page>> : page \in (from..to) \ reference}
PagesHorsLot(text, pages) ==
    IF DOMAIN pages = {} THEN {}
    ELSE UNION {OutsideAt(text, k, pages) : k \in {i \in DOMAIN text : Kind(text[i], "page")}}

-----------------------------------------------------------------------------
(* Numbers and proper names. *)

\* _NOMBRE: the digits, those after the comma (or the point), and whether thousands
\* are apart.
Trimmed(frac) ==
    SubSeq(frac, 1, Max({0} \cup {i \in DOMAIN frac : frac[i] # "0"}))
Key(n) == [whole |-> n.whole, frac |-> Trimmed(n.frac)]
Plain(digits) == [whole |-> digits, frac |-> <<>>]
Dotless(n) == Plain(n.whole \o Trimmed(n.frac))
Told(n) == Trimmed(n.frac) # <<>> \/ Len(n.whole) >= MinDigits

\* Citations, and the numbers of the lines, are put aside.
Tokens(text) == UNION {ToSet(text[k].tokens) : k \in DOMAIN text}
Numbers(text) == {t \in Tokens(text) : Kind(t, "number")}

\* The extracts: every number they hold, what they write with a capital and without.
NombresDe(lot) == {Key(n) : n \in lot.numbers}
NombresHorsExtraits(text, lot) ==
    {n \in Numbers(text) :
        Told(n) /\ {Key(n), Plain(n.whole), Dotless(n)} \cap NombresDe(lot) = {}}

\* _noms_propres: a capital proves nothing at the head of a line or of a sentence.
Heads(tokens, i) == \A j \in 1..(i - 1) : Kind(tokens[j], "cite")
EndsSentence(tokens, i) == \E j \in 1..(i - 1) :
    tokens[j].kind = "stop" /\ \A m \in (j + 1)..(i - 1) : Kind(tokens[m], "cite")
NomsPropres(text, lot) ==
    {[word |-> w] : w \in {x \in lot.capital \ lot.lower :
        \E k \in DOMAIN text : \E i \in DOMAIN text[k].tokens :
            /\ text[k].tokens[i] = [kind |-> "name", word |-> x]
            /\ ~Heads(text[k].tokens, i) /\ ~EndsSentence(text[k].tokens, i)}}

ValeursDe(text, lot) ==
    {Key(n) : n \in {m \in Numbers(text) : Told(m) /\ Key(m) \in NombresDe(lot)}}
        \cup NomsPropres(text, lot)

-----------------------------------------------------------------------------
(* What a synthesis keeps. *)

\* A number as it is written: thousands apart, a comma or a point.
Digits(n) ==
    IF n.spaced /\ Len(n.whole) > 3
    THEN SubSeq(n.whole, 1, Len(n.whole) - 3) \o <<" ">> \o SubSeq(n.whole, Len(n.whole) - 2, Len(n.whole))
    ELSE n.whole
Pointed(whole, sep, frac) == whole \o (IF frac = <<>> THEN <<>> ELSE <<sep>> \o frac)
Written(n) == Pointed(Digits(n), IF n.point THEN "." ELSE ",", n.frac)

\* A value may stand in the text as a part of another, or as the number of a line.
StandsIn(v, text) ==
    /\ "whole" \in DOMAIN v
    /\ \E sep \in {",", "."} : LET shown == Pointed(v.whole, sep, v.frac) IN
          \/ \E n \in Numbers(text) : PartOf(shown, Written(n))
          \/ \E k \in DOMAIN text : PartOf(shown, text[k].mark)

\* The line without its mark, which is an item of a list below the synthesis.
\* "12.5" at the head of a line without a mark begins as "12. " does: it leaves 5.
Opens(line) == line.tokens # <<>> /\ Kind(Head(line.tokens), "number")
Beheaded(line) ==
    line.mark = <<>> /\ Opens(line) /\ Head(line.tokens).point /\ Head(line.tokens).frac # <<>>
Item(tokens) == [mark |-> <<"-">>, tokens |-> tokens]
\* Mutant: the number that begins a line goes with its mark.
ProperOnly(line) == Item(IF Opens(line) THEN Tail(line.tokens) ELSE line.tokens)
Propre(line) ==
    IF ~Beheaded(line) THEN Item(line.tokens)
    ELSE Item(<<[Head(line.tokens) EXCEPT !.whole = Head(line.tokens).frac, !.frac = <<>>]>>
                  \o Tail(line.tokens))

Missing(synthesis, blocks, lot) ==
    {v \in ValeursDe(blocks, lot) \ ValeursDe(synthesis, lot) : ~StandsIn(v, synthesis)}
\* The lines of the blocks that carry a value, titles apart.
Carriers(values, blocks, lot) ==
    Selected(blocks, [k \in DOMAIN blocks |->
        blocks[k].mark # <<"#">> /\ ValeursDe(<<blocks[k]>>, lot) \cap values # {}])
Retention(synthesis, blocks, lot) ==
    LET expected == ValeursDe(blocks, lot)
        missing == Missing(synthesis, blocks, lot)
        carriers == Carriers(missing, blocks, lot)
    IN  [missing |-> missing, lines |-> Distinct([k \in DOMAIN carriers |-> Propre(carriers[k])]),
         low |-> 100 * Cardinality(expected \ missing) < RetentionMin * Cardinality(expected)]

Lacking(r) == r.low /\ r.lines # <<>>
KeptLines(r) == SubSeq(r.lines, 1, Min({MaxLines, Len(r.lines)}))

\* The synthesis, a title and the lines that are missing.
Annexed(synthesis, blocks, lot) ==
    LET r == Retention(synthesis, blocks, lot)
    IN  IF Lacking(r) THEN synthesis \o <<[mark |-> <<"#">>, tokens |-> <<>>]>> \o KeptLines(r) ELSE synthesis
=============================================================================
