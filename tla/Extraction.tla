----------------------------- MODULE Extraction -----------------------------
(***************************************************************************)
(* From the pages of a PDF to one text and its table of pages              *)
(* (PDFParser).  A text is a sequence of characters; a character is a      *)
(* record of what it is and of the page it is printed on - 0 for those     *)
(* that the parser adds.  The page is for the properties: no definition    *)
(* of the parser reads it.                                                 *)
(*                                                                         *)
(* Offsets count from 1 and ends are exclusive: a span <<f, t, p>> of the  *)
(* table covers the offsets f to t - 1.                                    *)
(***************************************************************************)
EXTENDS Integers, FiniteSetsExt, Lists

CONSTANTS
    Batch,          \* batch_size of _extract_markdown_pagewise
    MinRef,         \* raw length from which the yield of a page is judged (200)
    Ratio,          \* 1 / min_yield_ratio; 0 when the guard is off
    MinChars,       \* min_chars_per_page; words are not counted apart
    MaxDrawings     \* max_drawings_per_page

ASSUME ExtractionAssumption ==
    /\ Batch \in Nat \ {0}
    /\ MinRef \in Nat /\ Ratio \in Nat /\ MinChars \in Nat /\ MaxDrawings \in Nat

Space == "_"
Blanks == {Space, "/"}      \* a space and a newline

\* A page: what pymupdf4llm, get_text and the OCR make of it.  A file: its
\* pages and drawings, the batches on which pymupdf4llm fails, and whether OCR
\* is there.
Printed(chars, p) == [i \in DOMAIN chars |-> [c |-> chars[i], page |-> p]]
Added(chars) == Printed(chars, 0)

Blank(chars) == \A i \in DOMAIN chars : chars[i] \in Blanks
Visible(chars) == SelectSeq(chars, LAMBDA c : c \notin Blanks)
Ink(chars) == {i \in DOMAIN chars : chars[i] \notin Blanks}
StripChars(chars) == IF Ink(chars) = {} THEN <<>> ELSE SubSeq(chars, Min(Ink(chars)), Max(Ink(chars)))

\* A section put after those before it, with a gap if there are any: the text, the
\* offset where the next one would begin, and the table of pages.
Put(laid, section, gap) ==
    LET end == laid.offset + Len(section.text)
    IN  [text |-> IF laid.spans = <<>> THEN section.text
                  ELSE laid.text \o gap \o section.text,
         offset |-> end + Len(gap),
         spans |-> Append(laid.spans, <<laid.offset, end, section.page>>)]

EndToEnd(sections, from, gap) ==
    LET upto[n \in 0..Len(sections)] ==
            IF n = 0 THEN [text |-> <<>>, offset |-> from, spans |-> <<>>]
            ELSE Put(upto[n - 1], sections[n], gap)
    IN  upto[Len(sections)]

Numbered(file) == [p \in DOMAIN file.pages |-> p]

-----------------------------------------------------------------------------
\* _extract_text_simple: blank pages are skipped, the others are joined by an
\* empty line.
Simple(file) ==
    LET kept == Selected(Numbered(file), [p \in DOMAIN file.pages |-> ~Blank(file.pages[p].raw)])
    IN [i \in DOMAIN kept |->
          [page |-> kept[i],
           text |-> (IF i = 1 THEN <<>> ELSE Added(<<"/", "/">>))
                      \o Printed(file.pages[kept[i]].raw, kept[i])]]

\* _appliquer_garde_fou_rendement
Guarded(page) ==
    IF Ratio > 0 /\ Len(page.raw) >= MinRef /\ Len(page.md) * Ratio < Len(page.raw)
    THEN page.raw ELSE page.md

\* _extraire_lot: the whole batch falls back to the raw text.
BatchOf(p) == (p - 1) \div Batch
PageText(file, p) ==
    LET page == file.pages[p] IN
    IF BatchOf(p) \in file.failing
    THEN IF Blank(page.raw) THEN <<>> ELSE page.raw
    ELSE Guarded(page)

\* _extract_markdown_pagewise: nothing is put between pages.
Pagewise(file) ==
    LET kept == Selected(Numbered(file), [p \in DOMAIN file.pages |-> PageText(file, p) # <<>>])
    IN [i \in DOMAIN kept |-> [page |-> kept[i], text |-> Printed(PageText(file, kept[i]), kept[i])]]

\* A drawing in vectors, a plan or a map, goes to the simple extraction.
IsComplexVector(file) ==
    file.drawings > MaxDrawings * (IF file.pages = <<>> THEN 1 ELSE Len(file.pages))
Extracted(file) == EndToEnd(IF IsComplexVector(file) THEN Simple(file) ELSE Pagewise(file), 1, <<>>)

-----------------------------------------------------------------------------
\* _detect_scanned_pages, or every page when the whole text is too short.
NeedsOcr(chars) == Len(StripChars(chars)) < MinChars
Chars(text) == [i \in DOMAIN text |-> text[i].c]
ToScan(file) ==
    IF Len(StripChars(Chars(Extracted(file).text))) < (MinChars * Len(file.pages)) \div 2
    THEN DOMAIN file.pages
    ELSE {p \in DOMAIN file.pages : NeedsOcr(file.pages[p].raw)}

\* _apply_ocr: a page that fails has no text.  The heading of a section takes
\* one character here.
OcrSections(file) ==
    LET kept == Selected(Numbered(file),
                         [p \in DOMAIN file.pages |->
                             p \in ToScan(file) /\ ~Blank(file.pages[p].ocr)])
    IN [i \in DOMAIN kept |->
          [page |-> kept[i],
           text |-> Added(<<"/", "#", "/">>) \o Printed(file.pages[kept[i]].ocr, kept[i])]]

\* _merge_text_with_ocr: sections separated by a newline after the text and an
\* empty line; the spans are counted again on the merged text.
\* Mutant: the empty line is not counted.
Cursor0(text) == Len(text) + 1
Cursor(text) == Len(text) + 1 + 2

Merged(file) ==
    LET body == Extracted(file)
        ocr == EndToEnd(OcrSections(file), Cursor(body.text), Added(<<"/">>))
    IN  IF OcrSections(file) = <<>> THEN body
        ELSE [text |-> body.text \o Added(<<"/", "/">>) \o ocr.text,
              spans |-> body.spans \o ocr.spans]

\* PDFParser.parse
ParsePdf(file) == IF file.scanner THEN Merged(file) ELSE Extracted(file)
=============================================================================
