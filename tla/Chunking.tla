------------------------------ MODULE Chunking ------------------------------
(***************************************************************************)
(* From the text of a document to its fragments (Chunker): units cut by    *)
(* strategy, oversized units cut again, every unit sought in the text,     *)
(* then one unit after the other put into the current fragment.            *)
(*                                                                         *)
(* A unit is an interval <<f, t>> of offsets of the text (t included).     *)
(* The string under construction is the sequence of the offsets of its     *)
(* characters, 0 for a character added by the chunker: what a fragment     *)
(* really holds is known, next to the position the chunker computes.       *)
(***************************************************************************)
EXTENDS Readers

CONSTANTS
    Files           \* the documents of an instance, with the strategy, the size
                    \* and the overlap that _resolve_strategy finds for their type

ASSUME ChunkingAssumption ==
    \A f \in Files :
        /\ f.size \in Nat \ {0} /\ f.overlap \in 0..(f.size - 1)
        /\ f.kind = "pdf" =>
              /\ IsList(f.pages)
              /\ \A p \in DOMAIN f.pages :
                    \A chars \in {f.pages[p].raw, f.pages[p].md, f.pages[p].ocr} : IsList(chars)
        /\ f.kind # "pdf" =>
              /\ IsList(f.parts) /\ \A k \in DOMAIN f.parts : IsList(f.parts[k].chars)
              /\ f.kind \in {"pptx", "xlsx", "ods"} => f.slides \in Nat

VARIABLES
    file,           \* the document
    stage,          \* "file", "text", "units", "done", or "failed"
    text, spans,    \* what the parser makes of it
    units,          \* units and positions found, in order
    i,              \* units already put into fragments
    current,        \* current_chunk
    start, fin,     \* chunk_start_reel, fin_reelle (exclusive); 0 for None
    held,           \* unites_du_fragment
    chunks

vars == <<file, stage, text, spans, units, i, current, start, fin, held, chunks>>

Begin(f) ==
    /\ file = f
    /\ stage = "file"
    /\ text = <<>> /\ spans = <<>>
    /\ units = <<>> /\ i = 0
    /\ current = <<>> /\ start = 0 /\ fin = 0 /\ held = <<>>
    /\ chunks = <<>>
Init == \E f \in Files : Begin(f)

Lower(a, b) == IF a < b THEN a ELSE b
Higher(a, b) == IF a < b THEN b ELSE a

\* The empty line at a joint and the characters added are blank.
BlankAt(x) == x = 0 \/ text[x].c \in Blanks
NonBlanks == {x \in DOMAIN text : ~BlankAt(x)}
Inked(s) == {k \in DOMAIN s : ~BlankAt(s[k])}
Strip(s) == IF Inked(s) = {} THEN <<>> ELSE SubSeq(s, Min(Inked(s)), Max(Inked(s)))
Interval(u) == [k \in 1..(u[2] - u[1] + 1) |-> u[1] + k - 1]
Length(u) == u[2] - u[1] + 1
Ascending(S) == IF S = {} THEN <<>> ELSE Among([k \in 1..Max(S) |-> k], S)

-----------------------------------------------------------------------------
(* Units. *)

\* Between offsets lo and hi, a sentence starts after a full stop and blanks, a
\* paragraph after two newlines in a row; blanks around are stripped, and empty
\* units dropped.
Before(lo, x) == {y \in NonBlanks : lo <= y /\ y < x}
Gap(lo, x) == (Max(Before(lo, x)) + 1)..(x - 1)
Starts(lo, x) ==
    \/ Before(lo, x) = {}
    \/ /\ file.strategy = "paragraph"
       /\ \E y \in Gap(lo, x) : y + 1 \in Gap(lo, x) /\ text[y].c = "/" /\ text[y + 1].c = "/"
    \/ /\ file.strategy # "paragraph"
       /\ Gap(lo, x) # {} /\ text[Max(Before(lo, x))].c = "."

Raw(lo, hi) ==
    LET starts == {x \in NonBlanks : x \in lo..hi /\ Starts(lo, x)}
        from == Ascending(starts)
        last(x) == LET later == {y \in starts : y > x} IN
                   IF later = {} THEN Max({y \in NonBlanks : y \in x..hi})
                   ELSE Max(Before(lo, Min(later)))
    IN [k \in DOMAIN from |-> <<from[k], last(from[k])>>]
All == Raw(1, Len(text))

\* The last newline, else the last space, of the end of the window.
LastOf(c, from, to) == Max({0} \cup {x \in from..(to - 1) : text[x].c = c})
CutAt(d, end, limit, overlap, t) ==
    LET from == d + Higher(1, limit - overlap) \div 2
        newline == LastOf("/", from, end)
        space == LastOf(Space, from, end)
    IN IF end = t + 1 THEN end
       ELSE IF newline > d THEN newline
       ELSE IF space > d THEN space ELSE end

\* The next piece starts `overlap` before the cut, moved to the next word.
\* Mutant: the character at the cut is taken for a blank.
NextPieceSkips(d, end, overlap, t) == Higher(end + 1 - overlap, d + 1)
NextPiece(d, end, overlap, t) ==
    LET from == Higher(end - overlap, d + 1)
        spaces == {x \in from..(end - 1) : text[x].c = Space}
    IN IF overlap > 0 /\ from <= t /\ ~BlankAt(from - 1) /\ spaces # {} /\ Min(spaces) + 1 < end
       THEN Min(spaces) + 1 ELSE from

Trim(f, t) ==
    LET ink == {x \in f..t : ~BlankAt(x)} IN
    IF ink = {} THEN <<>> ELSE << <<Min(ink), Max(ink)>> >>

\* _split_oversized of the unit <<f, t>>: its pieces from offset d on.
SplitOversized(f, t, limit, overlap) ==
    LET pieces[d \in f..(t + 1)] ==
          LET end == CutAt(d, Lower(d + limit, t + 1), limit, overlap, t)
          IN IF end > t THEN Trim(d, t)
             ELSE Trim(d, end - 1) \o pieces[NextPiece(d, end, overlap, t)]
    IN pieces[f]

\* Room is left for the overlap before the pieces of an oversized sentence.
Limit == IF file.strategy = "sentence" THEN Higher(1, file.size - file.overlap) ELSE file.size
Oversized(u) == Length(u) > file.size
Sized(us) ==
    FlattenSeq([k \in DOMAIN us |->
        IF Oversized(us[k]) THEN SplitOversized(us[k][1], us[k][2], Limit, file.overlap)
        ELSE <<us[k]>>])

\* _localiser_unites: content.find from the position after the previous find.
ReadsAt(u, x) ==
    /\ x + Length(u) - 1 <= Len(text)
    /\ \A k \in 0..(Length(u) - 1) : text[x + k].c = text[u[1] + k].c
Find(u, from) == Min({Len(text) + 1} \cup {x \in from..Len(text) : ReadsAt(u, x)})

Located(us) ==
    LET cursor[k \in 1..(Len(us) + 1)] ==
            IF k = 1 THEN 1
            ELSE LET x == Find(us[k - 1], cursor[k - 1]) IN
                 IF x > Len(text) THEN cursor[k - 1] ELSE x + 1
        at(k) == LET x == Find(us[k], cursor[k]) IN IF x > Len(text) THEN 0 ELSE x
    IN  [k \in DOMAIN us |-> [at |-> at(k), real |-> us[k]]]

-----------------------------------------------------------------------------
(* Fragments. *)

\* _pages_couvertes: the pages of the first and of the last character.
NoPages == <<0, 0>>
SpanAt(x) == Max({0} \cup {k \in DOMAIN spans : spans[k][1] <= x})
PagesCovered(from, to) ==
    IF spans = <<>> \/ from = 0 \/ to <= from \/ SpanAt(from) = 0 THEN NoPages
    ELSE <<spans[SpanAt(from)][3], spans[SpanAt(to - 1)][3]>>

\* _make_chunk
Chunk(s, from, to) ==
    [text |-> s, start |-> from, end |-> to, pages |-> PagesCovered(from, to), head |-> <<>>]

\* Every fragment of a mail starts with the lines of its header.
Lines ==
    LET breaks == {x \in DOMAIN text : text[x].c = "/"} \cup {Len(text) + 1}
        starts == {1} \cup {x + 1 : x \in breaks \ {Len(text) + 1}}
        from == Ascending(starts)
    IN [k \in DOMAIN from |-> <<from[k], Min({y \in breaks : y >= from[k]}) - 1>>]
Content(l) == Strip(Interval(l))
IsMeta(l) == Content(l) # <<>> /\ text[Head(Content(l))].c = "@"

\* The header goes up to the first empty line below its first line, or else to
\* the last line that looks like a header.
Metas == {k \in DOMAIN Lines : IsMeta(Lines[k])}
Ends == {k \in DOMAIN Lines : Content(Lines[k]) = <<>> /\ \E j \in Metas : j < k}
HeaderLines == {k \in Metas : Ends = {} \/ k < Min(Ends)}
EmailHead ==
    LET kept == Ascending(HeaderLines)
        upto[n \in 0..Len(kept)] ==
            IF n = 0 THEN <<>>
            ELSE IF upto[n - 1] = <<>> THEN Content(Lines[kept[n]])
            ELSE upto[n - 1] \o <<0>> \o Content(Lines[kept[n]])
    IN  upto[Len(kept)]
BodyFrom ==
    IF Ends # {} THEN Lines[Min(Ends)][2] + 2
    ELSE IF Metas # {} THEN Lines[Max(Metas)][2] + 2 ELSE 1

ClosedMail(body) ==
    LET full == IF EmailHead = <<>> THEN Strip(body) ELSE EmailHead \o <<0, 0>> \o Strip(body)
    IN Chunk(full, 1, Len(full) + 1)

Closed == IF file.strategy = "email" THEN ClosedMail(current) ELSE Chunk(Strip(current), start, fin)

\* _queue_recouvrement: at most `overlap` characters, from the start of a word.
OverlapTail(s) ==
    LET tail == SubSeq(s, Len(s) - file.overlap + 1, Len(s))
        blanks == {k \in DOMAIN tail : BlankAt(tail[k])}
    IN IF file.overlap = 0 \/ Len(s) <= file.overlap THEN <<>>
       ELSE IF BlankAt(s[Len(s) - file.overlap]) THEN tail
       ELSE IF blanks = {} THEN <<>>
       ELSE SubSeq(tail, Min(blanks) + 1, Len(tail))

\* _reprendre_apres_recouvrement: where the tail of length n starts, and the
\* units it is made of.
Contribution(k) == FoldLeft(LAMBDA n, u : n + u.adds, 0, SubSeq(held, k, Len(held)))
Resume(n) ==
    LET enough == {k \in DOMAIN held : Contribution(k) >= n}
        k == Max(enough)
        d == Contribution(k) - n
        after == SubSeq(held, k + 1, Len(held))
        part == [at |-> held[k].at + d, adds |-> held[k].adds - d, len |-> held[k].len - d]
    IN IF n = 0 \/ enough = {} THEN [start |-> 0, held |-> <<>>]
       ELSE IF d <= held[k].len THEN [start |-> part.at, held |-> <<part>> \o after]
       ELSE IF after = <<>> THEN [start |-> 0, held |-> <<>>]
       ELSE [start |-> after[1].at, held |-> after]

\* The fragment that unit u goes into, after the one it does not fit in was
\* closed.
\* Mutant: the position of the tail is that of the next unit.
KeptForgetful(u) ==
    IF current # <<>> /\ Len(current) + Length(u.real) > file.size
    THEN [current |-> OverlapTail(current), start |-> 0, fin |-> fin, held |-> <<>>,
          closed |-> <<Closed>>]
    ELSE [current |-> current, start |-> start, fin |-> fin, held |-> held, closed |-> <<>>]
Kept(u) ==
    LET tail == OverlapTail(current)
        resumed == Resume(Len(tail))
    IN IF current = <<>> \/ Len(current) + Length(u.real) <= file.size
       THEN [current |-> current, start |-> start, fin |-> fin, held |-> held, closed |-> <<>>]
       ELSE [current |-> tail, start |-> resumed.start, fin |-> fin, held |-> resumed.held,
             closed |-> <<Closed>>]

\* A paragraph, or a sentence of a mail, starts a fragment of its own.
KeptWhole(u) ==
    IF current = <<>> \/ Len(current) + Length(u.real) <= file.size
    THEN [current |-> current, start |-> start, fin |-> fin, held |-> held, closed |-> <<>>]
    ELSE [current |-> <<>>, start |-> 0, fin |-> 0, held |-> <<>>, closed |-> <<Closed>>]

-----------------------------------------------------------------------------
(* Steps. *)

\* A file that no reader takes ends there: the job fails.
Parse ==
    /\ stage = "file"
    /\ IF file.kind = "pdf"
       THEN /\ text' = ParsePdf(file).text
            /\ spans' = ParsePdf(file).spans
            /\ stage' = "text"
       ELSE /\ text' = ReadParts(file).text
            /\ stage' = IF ReadParts(file).ok THEN "text" ELSE "failed"
            /\ UNCHANGED spans
    /\ UNCHANGED <<file, units, i, current, start, fin, held, chunks>>

\* A text of blanks has no fragment.
CutInto(strategy) ==
    /\ stage = "text"
    /\ file.strategy = strategy
    /\ units' = IF NonBlanks = {} THEN <<>> ELSE Located(Sized(All))
    /\ stage' = "units"
    /\ UNCHANGED <<file, text, spans, i, current, start, fin, held, chunks>>
CutSentences == CutInto("sentence")
CutParagraphs == CutInto("paragraph")

Add(u, kept, joint) ==
    /\ i' = i + 1
    /\ current' = kept.current \o Interval(u.real) \o joint
    /\ start' = IF kept.start = 0 THEN u.at ELSE kept.start
    /\ fin' = IF u.at = 0 THEN kept.fin ELSE u.at + Length(u.real)
    /\ chunks' = chunks \o kept.closed
    /\ UNCHANGED <<file, stage, text, spans, units>>

AddSentence ==
    /\ stage = "units" /\ i < Len(units) /\ file.strategy = "sentence"
    /\ LET u == units[i + 1] IN
         /\ Add(u, Kept(u), <<0>>)
         /\ held' = IF u.at = 0 THEN <<>>
                    ELSE Append(Kept(u).held, [at |-> u.at, adds |-> Length(u.real) + 1,
                                               len |-> Length(u.real)])
AddParagraph ==
    /\ stage = "units" /\ i < Len(units) /\ file.strategy = "paragraph"
    /\ LET u == units[i + 1] IN Add(u, KeptWhole(u), <<0, 0>>)
    /\ UNCHANGED held
AddLine ==
    /\ stage = "units" /\ i < Len(units) /\ file.strategy = "email"
    /\ LET u == units[i + 1] IN Add(u, KeptWhole(u), <<0>>)
    /\ UNCHANGED held

\* _detecter_tableaux: lines that start with a bar.  The header is the first line
\* and the rule below it when there is one; "-" is a column of the rule.
IsRow(l) == Content(l) # <<>> /\ text[Head(Content(l))].c = "|"
IsRule(l) == IsRow(l) /\ Len(Content(l)) > 1 /\ \A x \in Range(Tail(Content(l))) : text[x].c = "-"
Tables ==
    LET first == {k \in DOMAIN Lines : IsRow(Lines[k]) /\ (k = 1 \/ ~IsRow(Lines[k - 1]))}
        after(k) == {j \in DOMAIN Lines : j > k /\ ~IsRow(Lines[j])}
        last(k) == IF after(k) = {} THEN Len(Lines) ELSE Min(after(k)) - 1
        head(k) == IF last(k) > k /\ IsRule(Lines[k + 1]) THEN Lines[k + 1][2] ELSE Lines[k][2]
    IN {[from |-> Lines[k][1], to |-> Lines[last(k)][2], head |-> head(k)] : k \in first}

\* _reinjecter_entetes_tableaux: the header, a newline, and the fragment as it was cut.
Heading(t) == Interval(<<t.from, t.head>>)
FullText(c) == IF c.head = <<>> THEN c.text ELSE c.head \o <<0>> \o c.text
\* Mutant: only from the second row below the header on.
WithHeadersLate(c) ==
    LET inside == {t \in Tables : c.start \in t.from..t.to /\ c.start > t.head + 2} IN
    IF inside = {} THEN c
    ELSE LET t == CHOOSE u \in inside : TRUE IN [c EXCEPT !.head = Heading(t)]
WithHeaders(c) ==
    LET inside == {t \in Tables : c.start \in t.from..(t.to + 1) /\ c.start > t.head + 1} IN
    IF inside = {} THEN c
    ELSE LET t == CHOOSE u \in inside : TRUE IN [c EXCEPT !.head = Heading(t)]

LastFragment ==
    /\ stage = "units" /\ i = Len(units)
    /\ stage' = "done"
    /\ LET all == IF current = <<>> THEN chunks ELSE Append(chunks, Closed) IN
         chunks' = IF file.strategy = "sentence" THEN [k \in DOMAIN all |-> WithHeaders(all[k])]
                   ELSE all
    /\ UNCHANGED <<file, text, spans, units, i, current, start, fin, held>>

\* _chunk_fixed
Fixed(from) ==
    LET windows[d \in 1..Len(text)] ==
          LET end == Lower(d + file.size, Len(text) + 1)
              one == <<Chunk(Strip(Interval(<<d, end - 1>>)), d, end)>>
          IN IF end > Len(text) THEN one ELSE one \o windows[end - file.overlap]
    IN windows[from]
CutFixed ==
    /\ stage = "text" /\ file.strategy = "fixed"
    /\ chunks' = IF NonBlanks = {} THEN <<>> ELSE Fixed(1)
    /\ stage' = "done"
    /\ UNCHANGED <<file, text, spans, units, i, current, start, fin, held>>

\* _chunk_by_slide: the marker of a slide takes one character here.
Marks == Ascending({x \in DOMAIN text : text[x].c = "#"})
Part(k) ==
    Strip(Interval(<<IF k = 0 THEN 1 ELSE Marks[k] + 1,
                     IF k = Len(Marks) THEN Len(text) ELSE Marks[k + 1] - 1>>))
Counted(k) ==
    FoldFunctionOnSet(LAMBDA x, n : x + n, 0,
                      [j \in 0..Len(Marks) |-> Len(Part(j)) + IF j < Len(Marks) THEN 1 ELSE 0],
                      0..(k - 1))
Slide(k) ==
    LET s == IF k = 0 THEN Part(k) ELSE <<Marks[k], 0>> \o Part(k)
    IN Chunk(s, Counted(k) + 1, Counted(k) + 1 + Len(s))
CutSlides ==
    /\ stage = "text" /\ file.strategy = "slide"
    /\ LET slides == Among([k \in 1..(Len(Marks) + 1) |-> k - 1],
                           {k \in 0..Len(Marks) : Part(k) # <<>>})
           whole == Chunk(Strip(Interval(<<1, Len(text)>>)), 1, Len(text) + 1)
       IN chunks' = IF NonBlanks = {} THEN <<>>
                    ELSE IF slides = <<>> THEN <<whole>>
                    ELSE [k \in DOMAIN slides |-> Slide(slides[k])]
    /\ stage' = "done"
    /\ UNCHANGED <<file, text, spans, units, i, current, start, fin, held>>

\* _chunk_email: a mail without body is one fragment; sentences are neither cut
\* again nor sought.
CutMail ==
    /\ stage = "text" /\ file.strategy = "email"
    /\ LET body == IF NonBlanks = {} THEN <<>> ELSE Raw(BodyFrom, Len(text))
           alone == IF EmailHead # <<>> THEN EmailHead ELSE Strip(Interval(<<1, Len(text)>>))
       IN IF body = <<>> /\ NonBlanks # {}
          THEN /\ chunks' = <<Chunk(alone, 1, Len(text) + 1)>>
               /\ stage' = "done"
               /\ UNCHANGED units
          ELSE /\ units' = [k \in DOMAIN body |-> [at |-> 0, real |-> body[k]]]
               /\ stage' = "units"
               /\ UNCHANGED chunks
    /\ UNCHANGED <<file, text, spans, i, current, start, fin, held>>

Next ==
    \/ Parse
    \/ CutSentences \/ CutParagraphs \/ CutFixed \/ CutSlides \/ CutMail
    \/ AddSentence \/ AddParagraph \/ AddLine \/ LastFragment

Spec == Init /\ [][Next]_vars

-----------------------------------------------------------------------------
(* Properties. *)

\* Domains.
TypeOK ==
    /\ stage \in {"file", "text", "units", "done", "failed"}
    /\ i \in 0..Len(units)
    /\ \A k \in DOMAIN current : current[k] \in 0..Len(text)
    /\ start \in 0..Len(text) /\ fin \in 0..(Len(text) + 1)
    /\ \A k \in DOMAIN held : held[k].len >= 0 /\ held[k].adds >= 0

Fragments == {chunks[k] : k \in DOMAIN chunks}
Cuts == file.strategy \in {"sentence", "paragraph", "fixed"}

\* The search found every unit where it is.
Exact == \A k \in DOMAIN units : units[k].at = units[k].real[1]

\* Every character of the text that is not blank is in a fragment - markers of
\* empty slides apart, and mails where something else than an empty line comes
\* before or between the lines of the header, or directly below them: that is lost.
StartsWithHeader ==
    file.strategy = "email" =>
        LET n == Cardinality(HeaderLines) IN
        HeaderLines = 1..n /\ (Ends = {} \/ Min(Ends) = n + 1)
NothingLost ==
    stage = "done" /\ StartsWithHeader =>
        \A x \in NonBlanks : text[x].c # "#" => \E c \in Fragments : x \in Range(c.text)

\* What is kept of a fragment is never longer than the size and the overlap together,
\* whatever the text holds, and the header of the table that it starts in - slides and
\* mails apart, which nothing cuts again.
FragmentsAreBounded ==
    Cuts => \A c \in Fragments :
        \/ c.head = <<>> /\ Len(FullText(c)) <= file.size + file.overlap
        \/ \E t \in Tables : /\ c.head = Heading(t)
                             /\ Len(FullText(c)) <= file.size + file.overlap + Len(Heading(t)) + 1

\* "ce qui preserve la borne de taille des fragments", "pour que la somme des deux ne
\* depasse jamais la taille demandee": with the tail of the one before, a fragment is
\* not longer than the size.
FragmentsKeepToTheSize ==
    file.strategy = "sentence" => \A c \in Fragments : Len(c.text) <= file.size

\* Every text is cut so that nothing is lost and no fragment is too long.
FragmentsHoldTheText == NothingLost /\ FragmentsAreBounded

\* When the search finds the units where they are, the position of a fragment is
\* that of its characters, tails included, and its pages are those that its first
\* and last characters are printed on.  (The window of the fixed strategy, or a
\* tail, may begin or end with blanks, which the fragment does not keep.)
Covers(c) ==
    LET s == Strip(Interval(<<c.start, c.end - 1>>)) IN
    c.text # <<>> => c.start > 0 /\ Head(s) = Head(c.text) /\ Last(s) = Last(c.text)
ShowsItsPages(c) ==
    c.pages # NoPages =>
        /\ c.start = Head(c.text) => text[c.start].page \in {0, c.pages[1]}
        /\ c.end = Last(c.text) + 1 => text[c.end - 1].page \in {0, c.pages[2]}
PositionsAreTrue == Exact /\ Cuts => \A c \in Fragments : Covers(c) /\ ShowsItsPages(c)

\* A fragment that starts below the header of a table, in the table, shows the
\* header, and none shows it twice.  A fragment of a mail starts with its header.
\* (One fragment is left out: a tail that starts with the very newline below the
\* header gets none, the position being compared with > and not with >=.)
MailsShowTheirHeader == file.strategy = "email" => \A c \in Fragments : IsPrefix(EmailHead, c.text)
HeadersAreShown ==
    /\ stage = "done" /\ file.strategy = "sentence" /\ Exact =>
          \A c \in Fragments, t \in Tables :
              /\ Head(c.text) \in (t.head + 1)..t.to /\ c.start # t.head + 1
                    => c.head = Heading(t)
              /\ Range(c.head) \cap Range(c.text) = {}
    /\ MailsShowTheirHeader

\* The table of pages is ordered, without overlap, within the text, and gives
\* every printed character the page it is printed on, OCR sections included.
PageTableIsTrue ==
    stage = "text" /\ file.kind = "pdf" =>
        /\ \A k \in DOMAIN spans : /\ spans[k][1] < spans[k][2] /\ spans[k][2] <= Len(text) + 1
                                   /\ k > 1 => spans[k - 1][2] <= spans[k][1]
        /\ \A x \in DOMAIN text : text[x].page # 0 =>
              \E k \in DOMAIN spans : /\ x \in spans[k][1]..(spans[k][2] - 1)
                                      /\ spans[k][3] = text[x].page

\* Of every part that a format promises the text holds the characters, once and
\* as they were written, whichever reader serves it: short lines of olefile, the
\* front matter of a mapping, rows beyond the limit - they are counted - sheets
\* whose names of columns collide, and accents of Latin-1 in HTML and RTF apart.
Tagged(k) == Chars(SelectSeq(text, LAMBDA x : x.page = k))
IsKind(k, kinds) == file.parts[k].kind \in kinds
RowsTold(n) == IF file.advanced THEN Filled(file, RowsOf(file, n)) ELSE RowsOf(file, n)
FirstRows(n) == ToSet(SubSeq(RowsTold(n), 1, Lower(MaxRows, Len(RowsTold(n)))))
LongLine(k, short) ==
    /\ IsKind(k, {"line"})
    /\ Len(StripChars(file.parts[k].chars)) > (IF "ole" \in file.libs /\ file.ole THEN short ELSE 0)
Promised(k) ==
    CASE file.kind = "doc" -> LongLine(k, ShortDoc)
      [] file.kind = "docx" -> IF file.native THEN IsKind(k, {"para", "row"}) ELSE LongLine(k, ShortDoc)
      [] file.kind = "ppt" -> LongLine(k, ShortPpt)
      [] file.kind = "pptx" -> IF file.native THEN IsKind(k, {"shape"}) ELSE LongLine(k, ShortPpt)
      [] file.kind = "xlsx" -> \E n \in 1..file.slides :
                                  k \in FirstRows(n) /\ (file.advanced => Described(file.names[n]))
      [] file.kind \in {"html", "rtf"} -> IsKind(k, {"text"}) /\ file.written = "utf-8"
      [] file.kind = "odp" -> IsKind(k, IF Inside(file, "frame") = <<>> THEN {"para"} ELSE {"frame"})
      [] file.kind = "eml" -> IsKind(k, {"plain"})
                                /\ ("unstructured" \in file.libs => Of(file, "html") = <<>>)
      [] file.kind = "md" -> k \notin Matter(file)
      [] OTHER -> IsKind(k, {"para", "heading", "row", "frame", "plain", "line"})
PartsAreRead ==
    stage = "text" /\ file.kind # "pdf" =>
        \A k \in DOMAIN file.parts :
            Promised(k) => Visible(Tagged(k)) = Visible(file.parts[k].chars)

\* A fragment that shows the mark of a slide holds the text of that slide and of
\* no other, and each slide with a text has one - where no shape writes a mark.
SlideOf(x) == file.parts[text[x].page].slide
SlidesAreWhole ==
    stage = "done" /\ file.kind = "pptx" /\ file.native /\ file.strategy = "slide"
      /\ (\A x \in DOMAIN text : text[x].c = "#" => text[x].page = 0) =>
        \A n \in 1..file.slides :
            LET mine == {x \in NonBlanks : text[x].page # 0 /\ SlideOf(x) = n}
                showing == {c \in Fragments : Marks[n] \in Range(c.text)}
            IN  mine # {} => /\ Cardinality(showing) = 1
                             /\ \A c \in showing :
                                   mine = {x \in Range(c.text) : x # 0 /\ text[x].page # 0 /\ ~BlankAt(x)}

\* What a reader takes from a document is there, and where it belongs.
DocumentsAreRead == PartsAreRead /\ SlidesAreWhole

\* A page with enough text to judge by is read: what is kept of it is not less
\* than the share that the guard asks for, whatever pymupdf4llm returns, fails on
\* or leaves out.
OnPage(p) == {x \in DOMAIN text : text[x].page = p}
PagesAreRead ==
    stage = "text" /\ file.kind = "pdf" =>
        \A p \in DOMAIN file.pages :
            LET raw == file.pages[p].raw IN
            Ratio > 0 /\ ~Blank(raw) /\ Len(raw) >= MinRef => Cardinality(OnPage(p)) * Ratio >= Len(raw)

\* The pages of a PDF are read, and known for what they are.
PagesAreTrue == PageTableIsTrue /\ PagesAreRead
=============================================================================
