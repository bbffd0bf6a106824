------------------------------ MODULE Readers -------------------------------
(***************************************************************************)
(* From the parts of a document to its text: DocumentParser and the        *)
(* parsers of every format but PDF.                                        *)
(*                                                                         *)
(* A document is a sequence of parts - a paragraph, a row, a shape, a line *)
(* of a text file - as its format holds them.  What the libraries do with  *)
(* a file is external and part of the file: whether the native one opens   *)
(* it, and the lines olefile and Tika find in it.  As in Extraction a      *)
(* character carries where it comes from, here the number of its part, and *)
(* 0 when the parser adds it; "@" stands for a line of a mail's header and *)
(* "#" for the mark of a slide.                                            *)
(***************************************************************************)
EXTENDS Extraction

CONSTANTS
    ShortDoc,       \* lines of olefile that are noise: 2 for .doc, 3 for .ppt
    ShortPpt,
    MaxRows         \* max_rows_per_chunk

ASSUME ReadersAssumption == {ShortDoc, ShortPpt, MaxRows} \subseteq Nat

Fails == [ok |-> FALSE, text |-> <<>>]
Gives(text) == [ok |-> TRUE, text |-> text]

\* try ... except: the first attempt that does not raise, empty or not.
FirstOf(attempts) ==
    LET good == {k \in DOMAIN attempts : attempts[k].ok}
    IN IF good = {} THEN Fails ELSE attempts[Min(good)]

Glued(texts, separator) ==
    FlattenSeq([k \in DOMAIN texts |->
                  (IF k = 1 THEN <<>> ELSE Added(separator)) \o texts[k]])

PartNumbers(file) == [k \in DOMAIN file.parts |-> k]
Of(file, kind) == Among(PartNumbers(file), {k \in DOMAIN file.parts : file.parts[k].kind = kind})
WithText(file) == {k \in DOMAIN file.parts : ~Blank(file.parts[k].chars)}
Inside(file, kind) == Among(Of(file, kind), WithText(file))
OfSlide(file, numbers, n) == Among(numbers, {k \in DOMAIN file.parts : file.parts[k].slide = n})
Ordinals(file) == [n \in 1..file.slides |-> n]     \* slides, sheets, tables
Shown(file, k) == Printed(file.parts[k].chars, k)
ShownAll(file, numbers) == [j \in DOMAIN numbers |-> Shown(file, numbers[j])]

-----------------------------------------------------------------------------
(* Word, PowerPoint, OpenDocument. *)

\* The lines that olefile finds are stripped, and the short ones are noise;
\* none left is an error.  Tika keeps all the lines, be there any or not.
LinesAbove(file, short) ==
    Among(Inside(file, "line"),
          {k \in DOMAIN file.parts : Len(StripChars(file.parts[k].chars)) > short})
LinesOf(file, numbers) ==
    Gives(Glued([j \in DOMAIN numbers |->
                    Printed(StripChars(file.parts[numbers[j]].chars), numbers[j])], <<"/">>))
OleOpens(file) == "ole" \in file.libs /\ file.ole
TikaOpens(file) == "tika" \in file.libs /\ file.tika

OleDoc(file) ==
    IF OleOpens(file) /\ LinesAbove(file, ShortDoc) # <<>>
    THEN LinesOf(file, LinesAbove(file, ShortDoc)) ELSE Fails
OlePpt(file) ==
    IF OleOpens(file) /\ LinesAbove(file, ShortPpt) # <<>>
    THEN LinesOf(file, LinesAbove(file, ShortPpt)) ELSE Fails
TikaDoc(file) == IF TikaOpens(file) THEN LinesOf(file, Inside(file, "line")) ELSE Fails
TikaPpt(file) == IF TikaOpens(file) THEN LinesOf(file, Inside(file, "line")) ELSE Fails

\* Paragraphs, then every row of every table on a line of its own.
Docx(file) ==
    LET rows == ShownAll(file, Of(file, "row"))
    IN IF ~file.native THEN Fails
       ELSE Gives(Glued(ShownAll(file, Inside(file, "para")), <<"/", "/">>)
                    \o FlattenSeq([j \in DOMAIN rows |-> Added(<<"/">>) \o rows[j]]))

\* A mark per slide, blank ones included, then its shapes that have a text;
\* tables, groups and notes are no such shapes.
Shapes(file, n) == OfSlide(file, Inside(file, "shape"), n)
SlideText(file, n) ==
    Added(<<"#", "/">>)
        \o FlattenSeq([j \in DOMAIN Shapes(file, n) |-> Shown(file, Shapes(file, n)[j]) \o Added(<<"/">>)])
Pptx(file) ==
    IF ~file.native THEN Fails
    ELSE Gives(Glued([n \in DOMAIN Ordinals(file) |-> SlideText(file, n)], <<"/", "/">>))

\* Paragraphs first, headings after all of them.
Odt(file) ==
    LET headings == Inside(file, "heading")
    IN Gives(Glued(ShownAll(file, Inside(file, "para"))
                     \o [j \in DOMAIN headings |-> Added(<<"h">>) \o Shown(file, headings[j])],
                   <<"/", "/">>))
\* The name of each table, then its rows that are not empty: a space is enough.
OdsTable(file, n) ==
    <<Added(<<"t">>)>>
        \o ShownAll(file, Among(OfSlide(file, Of(file, "row"), n),
                               {k \in DOMAIN file.parts : file.parts[k].chars # <<>>}))
Ods(file) == Gives(Glued(FlattenSeq([n \in 1..file.slides |-> OdsTable(file, n)]), <<"/">>))
\* A mark per frame that has a text; without one, the paragraphs.
Odp(file) ==
    LET frames == Inside(file, "frame")
    IN IF frames # <<>>
       THEN Gives(Glued([j \in DOMAIN frames |-> Added(<<"#", "/">>) \o Shown(file, frames[j])],
                        <<"/", "/">>))
       ELSE Gives(Glued(ShownAll(file, Inside(file, "para")), <<"/", "/">>))

-----------------------------------------------------------------------------
(* Workbooks. *)

\* _clean_dataframe: names are stripped, and a name met before gets a number;
\* the new name is not looked for among the others.
Dedupe(names) ==
    [k \in DOMAIN names |->
        LET name == StripChars(names[k])
            before == Cardinality({j \in 1..(k - 1) : StripChars(names[j]) = name})
        IN IF before = 0 THEN name ELSE Append(name, ToString(before))]

\* Two columns of one name make the description of a sheet fail, and a sheet
\* that fails is passed over.
Described(names) == IsInjective(Dedupe(names))

\* Heading, header and rule; the first rows; how many there are more, each
\* one a "+" here.
SheetText(file, rows) ==
    Added(<<"t", "/", "/", "|", "h", "/", "|", "-", "/">>)
        \o FlattenSeq([j \in 1..Min({Len(rows), MaxRows}) |->
                         Added(<<"|">>) \o Shown(file, rows[j]) \o Added(<<"/">>)])
        \o IF Len(rows) <= MaxRows THEN <<>>
           ELSE Added(<<"/">> \o [j \in 1..(Len(rows) - MaxRows) |-> "+"])

RowsOf(file, n) == OfSlide(file, Of(file, "row"), n)
Filled(file, rows) == Among(rows, WithText(file))

\* ExcelParser.parse; when it could not be built the basic conversion, which
\* cleans nothing.
SheetsTold(file) ==
    Among(Ordinals(file), {n \in 1..file.slides : /\ Described(file.names[n])
                                                  /\ Filled(file, RowsOf(file, n)) # <<>>})
Advanced(file) ==
    Gives(Glued([j \in DOMAIN SheetsTold(file) |->
                   SheetText(file, Filled(file, RowsOf(file, SheetsTold(file)[j])))],
                <<"/", "/", "-", "-", "/", "/">>))
Basic(file) ==
    LET told == Among(Ordinals(file), {n \in 1..file.slides : RowsOf(file, n) # <<>>})
    IN Gives(Glued([j \in DOMAIN told |->
                      SheetText(file, RowsOf(file, told[j]))],
                   <<"/", "/", "-", "-", "/", "/">>))
Xlsx(file) ==
    IF ~file.native THEN Fails ELSE IF file.advanced THEN Advanced(file) ELSE Basic(file)

-----------------------------------------------------------------------------
(* Mails. *)

Header(n) == FlattenSeq([k \in 1..n |-> <<"@", "/">>])
Msg(file) ==
    IF ~file.native THEN Fails
    ELSE Gives(Added(Header(4) \o <<"/">>) \o Glued(ShownAll(file, Of(file, "plain")), <<>>))

\* unstructured takes the HTML body when there is one; the reading without it
\* the plain parts, or the only part.
Preferred(file) == IF Of(file, "html") # <<>> THEN Of(file, "html") ELSE Of(file, "plain")
Eml(file) ==
    IF "unstructured" \in file.libs
    THEN Gives(Glued(ShownAll(file, Preferred(file)), <<"/">>))
    ELSE Gives(Added(Header(3) \o <<"/">>)
                 \o IF Len(file.parts) > 1
                    THEN Glued(ShownAll(file, Of(file, "plain")), <<>>)
                    ELSE Glued(ShownAll(file, PartNumbers(file)), <<>>))

-----------------------------------------------------------------------------
(* Files of characters. *)

\* "e'" is an accented letter.  Written in Latin-1 it is no UTF-8 (a text that
\* would be by chance is left out); written in UTF-8 it is two letters of
\* Latin-1, which accepts everything.
Accented(chars) == \E j \in DOMAIN chars : chars[j] = "e'"
Decode(chars, written, encoding) ==
    CASE encoding = written \/ ~Accented(chars) -> Gives(chars)
      [] encoding = "utf-8" /\ written = "latin-1" -> Fails
      [] OTHER -> Gives(FlattenSeq([j \in DOMAIN chars |->
                                      IF chars[j] = "e'" THEN <<"A~", "(c)">> ELSE <<chars[j]>>]))
Ignoring(chars) == Selected(chars, [j \in DOMAIN chars |-> chars[j] # "e'"])

\* The encodings that are tried, in that order; cp1252 and iso-8859-1 come
\* after one that never fails.
\* Mutant: Latin-1 comes first.
EncodingsBack == <<"latin-1", "utf-8">>
Encodings == <<"utf-8", "latin-1">>
AllChars(file) == FlattenSeq([k \in DOMAIN file.parts |-> file.parts[k].chars])
DecodedWhole(file) ==
    FirstOf([j \in DOMAIN Encodings |-> Decode(AllChars(file), file.written, Encodings[j])]).text

\* What becomes of one part when the whole file is decoded that way.
Decoded(file, k) ==
    Printed(IF DecodedWhole(file) = AllChars(file) THEN file.parts[k].chars
            ELSE Decode(file.parts[k].chars, "utf-8", "latin-1").text, k)
Tolerant(file, k) ==
    Printed(IF file.written = "utf-8" THEN file.parts[k].chars
            ELSE Ignoring(file.parts[k].chars), k)

Whole(file, numbers) == FlattenSeq([j \in DOMAIN numbers |-> Decoded(file, numbers[j])])
Txt(file) == Gives(Whole(file, PartNumbers(file)))

\* Between a first line that is a rule and the next rule but the one right
\* below, a mapping of YAML goes to the metadata; anything else stays.
Closing(file) ==
    {k \in DOMAIN file.parts : k >= 3 /\ file.parts[1].kind = "rule" /\ file.parts[k].kind = "rule"}
Matter(file) ==
    IF Closing(file) = {} THEN {}
    ELSE LET inner == 2..(Min(Closing(file)) - 1)
         IN IF \A k \in inner : file.parts[k].kind \in {"pair", "blank", "rule"} THEN 1..Min(Closing(file)) ELSE {}
Md(file) == Gives(Whole(file, Among(PartNumbers(file), DOMAIN file.parts \ Matter(file))))

Html(file) ==
    LET texts == Among(Inside(file, "text"), {k \in DOMAIN file.parts : Tolerant(file, k) # <<>>})
    IN Gives(Glued([j \in DOMAIN texts |-> Tolerant(file, texts[j])], <<"/">>))
Rtf(file) ==
    Gives(FlattenSeq([k \in DOMAIN file.parts |-> Tolerant(file, k)]))

-----------------------------------------------------------------------------
(* The parser of a format, and its fallbacks. *)

\* The older formats are for olefile, else for Tika; the newer ones for their own
\* library first, and for these two when it raises.
Doc(file) == FirstOf(<<OleDoc(file), TikaDoc(file)>>)
DocxOrDoc(file) == FirstOf(<<Docx(file), Doc(file)>>)
Ppt(file) == FirstOf(<<OlePpt(file), TikaPpt(file)>>)
PptxOrPpt(file) == FirstOf(<<Pptx(file), Ppt(file)>>)

Odf(file) ==
    CASE "odf" \notin file.libs \/ ~file.native -> Fails
      [] file.kind = "odt" -> Odt(file)
      [] file.kind = "ods" -> Ods(file)
      [] OTHER -> Odp(file)

\* DocumentParser.parse.  An extension that the watcher admits and no parser
\* has registered is an error, as is a format whose library is not there.
ReadParts(file) ==
    CASE file.kind = "doc" -> Doc(file)
      [] file.kind = "docx" -> DocxOrDoc(file)
      [] file.kind = "ppt" -> Ppt(file)
      [] file.kind = "pptx" -> PptxOrPpt(file)
      [] file.kind = "xlsx" -> Xlsx(file)
      [] file.kind = "msg" -> Msg(file)
      [] file.kind = "eml" -> Eml(file)
      [] file.kind = "txt" -> Txt(file)
      [] file.kind = "md" -> Md(file)
      [] file.kind = "html" -> Html(file)
      [] file.kind = "rtf" -> Rtf(file)
      [] file.kind \in {"odt", "ods", "odp"} -> Odf(file)
      [] OTHER -> Fails
=============================================================================
