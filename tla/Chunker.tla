------------------------------- MODULE Chunker -------------------------------
(***************************************************************************)
(* How a document becomes chunks (ingestion/parsers, chunkers/base.py).    *)
(* A document is a sequence of lines; the PDF parser puts a page marker    *)
(* before each page that has text.  A legal document is cut at every       *)
(* article (Dieu), and an article that is too long by the splitter, whose  *)
(* pieces overlap.  Each chunk gets the pages of the markers in it, or the *)
(* last page seen.                                                         *)
(*                                                                         *)
(* Every line counts one token.  The splitter is a library: any pieces     *)
(* that cover the text in order, small enough and overlapping little       *)
(* enough, are a choice of its own.                                        *)
(***************************************************************************)
EXTENDS Integers, Sequences, FiniteSets, SequencesExt, Orders

CONSTANTS
  Contents,   \* documents before parsing: sequences of "dieu", "chuong", "text"
  MaxTokens,
  Overlap     \* overlap_tokens

ASSUME ChunkerAssumption ==
  /\ Contents \subseteq Seq({"dieu", "chuong", "text"})
  /\ MaxTokens \in Nat \ {0} /\ Overlap \in 0 .. MaxTokens - 1

VARIABLES
  parsed,    \* has the document been parsed?
  md,        \* the parsed document: [kind, page], page being a marker's number
  section,   \* sections done
  window,    \* the last piece of the section under way: <<first, last>>, or <<>>
  lastPage,  \* last_page; 0 for None
  chunks     \* emitted so far: [heading, lines, from, to]

chunkVars == <<parsed, md, section, window, lastPage, chunks>>

Lines == DOMAIN md
KindAt(i) == md[i].kind

ChunkerTypeOK ==
  /\ parsed \in BOOLEAN
  /\ \A i \in Lines : KindAt(i) \in {"page", "dieu", "chuong", "text"} /\ md[i].page \in Nat
  /\ section \in 0 .. Len(md)
  /\ window \in Seq(Nat) /\ Len(window) \in {0, 2}
  /\ lastPage \in Nat
  /\ \A c \in ToSet(chunks) : ToSet(c.heading) \cup ToSet(c.lines) \subseteq Lines

\* parse_pdf: pages begin at the first line and at breaks, and the n-th marker
\* has number n (a blank page has no marker, and leaves a gap that nothing
\* depends on).  The other parsers put no markers.
Parsed(content, breaks, isPdf) ==
  LET Line(i) == [kind |-> content[i], page |-> 0]
      Marker(i) == [kind |-> "page", page |-> Cardinality({b \in breaks : b <= i})]
      all == [p \in 1 .. 2 * Len(content) |->
                IF p % 2 = 0 THEN Line(p \div 2) ELSE Marker((p + 1) \div 2)]
  IN  AtPlaces(all, {p \in DOMAIN all : p % 2 = 0 \/ (isPdf /\ (p + 1) \div 2 \in breaks)})

ChunkerInit ==
  parsed = FALSE /\ md = <<>> /\ section = 0 /\ window = <<>> /\ lastPage = 0 /\ chunks = <<>>

Parse ==
  /\ ~parsed /\ parsed' = TRUE
  /\ \E content \in Contents, isPdf \in BOOLEAN :
       \E breaks \in SUBSET (DOMAIN content) :
         /\ 1 \in breaks \/ content = <<>>
         /\ isPdf \/ breaks \subseteq {1}
         /\ md' = Parsed(content, breaks, isPdf)
  /\ UNCHANGED <<section, window, lastPage, chunks>>

-----------------------------------------------------------------------------
Least(S) == CHOOSE x \in S : \A y \in S : x <= y
Greatest(S) == CHOOSE x \in S : \A y \in S : x >= y

Headings(kind) == {i \in Lines : KindAt(i) = kind}
IsLegal == Cardinality(Headings("dieu")) >= 3 /\ Headings("chuong") # {}
Sections == IF IsLegal THEN Cardinality(Headings("dieu")) ELSE 1

\* The line of the k-th article, and the chapter line above it, if any.
Dieu(k) == Ascending(Headings("dieu"))[k]
ChuongAt(k) ==
  LET above == {i \in Headings("chuong") : i < Dieu(k)}
  IN  IF above = {} THEN <<>> ELSE <<Greatest(above)>>

HeadingOf(k) == IF IsLegal THEN Append(ChuongAt(k), Dieu(k)) ELSE <<>>

Span(a, b) == [i \in 1 .. b - a + 1 |-> a + i - 1]

\* _split_by_dieu: the lines up to the next article, after the preamble for the
\* first one; the article's own line if there are none.
BodyOf(k) ==
  IF ~IsLegal THEN Span(1, Len(md))
  ELSE LET rest == Span(Dieu(k) + 1, IF k = Sections THEN Len(md) ELSE Dieu(k + 1) - 1)
           body == IF k = 1 THEN Span(1, Dieu(1) - 1) \o rest ELSE rest
       IN  IF body = <<>> THEN <<Dieu(k)>> ELSE body

Section == section + 1
Markers(lines) == {md[i].page : i \in {j \in ToSet(lines) : KindAt(j) = "page"}}

\* Mutant of AddChunk: what is only one line long is left out.
AddUnlessShort(heading, lines, from, to) ==
  chunks' = IF Len(heading \o SelectSeq(lines, LAMBDA i : KindAt(i) # "page")) < 2 THEN chunks
            ELSE Append(chunks, [heading |-> heading, lines |-> lines, from |-> from, to |-> to])

AddChunk(heading, lines, from, to) ==
  chunks' = IF heading = <<>> /\ \A i \in ToSet(lines) : KindAt(i) = "page" THEN chunks
            ELSE Append(chunks, [heading |-> heading, lines |-> lines, from |-> from, to |-> to])

\* Mutant of Emit: a piece that is only a marker returns before the page is kept.
EmitLate(heading, lines) ==
  LET pages == Markers(lines)
      empty == heading = <<>> /\ \A i \in ToSet(lines) : KindAt(i) = "page"
  IN  /\ lastPage' = IF pages = {} \/ empty THEN lastPage ELSE Greatest(pages)
      /\ AddChunk(heading, lines, IF pages = {} THEN lastPage ELSE Least(pages), lastPage')

Emit(heading, lines) ==
  LET pages == Markers(lines) IN
  /\ lastPage' = IF pages = {} THEN lastPage ELSE Greatest(pages)
  /\ AddChunk(heading, lines, IF pages = {} THEN lastPage ELSE Least(pages), lastPage')

Fits == IsLegal /\ Len(HeadingOf(Section)) + Len(BodyOf(Section)) <= MaxTokens

EmitSection ==
  /\ parsed /\ section < Sections /\ Fits
  /\ Emit(HeadingOf(Section), BodyOf(Section))
  /\ section' = section + 1
  /\ UNCHANGED <<parsed, md, window>>

\* The splitter's next piece starts after the last one did, at most Overlap
\* lines before its end, and ends after it.
EmitPiece ==
  /\ parsed /\ section < Sections /\ ~Fits
  /\ LET body == BodyOf(Section)
         before == IF window = <<>> THEN <<0, 0>> ELSE window
     IN  \E a \in before[1] + 1 .. before[2] + 1 : \E b \in before[2] + 1 .. Len(body) :
           /\ before[2] - a < Overlap /\ b - a < MaxTokens
           /\ Emit(HeadingOf(Section), SubSeq(body, a, b))
           /\ IF b = Len(body) THEN section' = section + 1 /\ window' = <<>>
                               ELSE section' = section /\ window' = <<a, b>>
  /\ UNCHANGED <<parsed, md>>

ChunkerNext == Parse \/ EmitSection \/ EmitPiece

ChunkerSpec == ChunkerInit /\ [][ChunkerNext]_chunkVars

-----------------------------------------------------------------------------
\* Every heading and every line of text is in a chunk once the document is
\* done, the text before the first article and chapters between two articles
\* too, however the splitter cuts (base.py:62-99, 162-178).
NoTextIsLost ==
  section = Sections \/ md = <<>> =>
    \A i \in Lines : KindAt(i) # "page" =>
      \E c \in ToSet(chunks) : i \in ToSet(c.heading) \cup ToSet(c.lines)

PageOf(i) ==
  LET above == {md[j].page : j \in {k \in Lines : k <= i /\ KindAt(k) = "page"}}
  IN  IF above = {} THEN 0 ELSE Greatest(above)

\* A chunk ends on the page that is open at the end of its text, also when the
\* marker of that page was cut off into a piece or a section of its own
\* (base.py:133-146).
PagesAreFollowed ==
  \A c \in ToSet(chunks) : c.to = PageOf(Last(c.lines)) /\ c.from <= c.to

\* chunkers/base.py:136-138 and parsers/pdf.py:4: pages are taken from the chunk's own
\* text, so that a citation is not wrong.  So a chunk starts on the page of its
\* first line of text.
CitedWhereItStarts ==
  \A c \in ToSet(chunks) :
    LET text == SelectSeq(c.lines, LAMBDA i : KindAt(i) # "page")
    IN  text # <<>> => c.from <= PageOf(Head(text))
=============================================================================
