--------------------------- MODULE DocumentCoverage ---------------------------
(***************************************************************************)
(* What the parsers read of a document (documents/pdf.py, docx.py), what   *)
(* they report as not read, the status that follows from it                *)
(* (services/ingestion.py), and the judgement the search makes of the      *)
(* stored report (documents/search.py, _coverage_complete).                *)
(*                                                                         *)
(* A page is known by whether pypdf can read it, by the number of its      *)
(* visible characters (its text is taken to have no blanks) and whether it *)
(* has an image.  A block of a Word document is a heading or not, has text *)
(* or not (one character stands for all of it), and is lossy when it is a  *)
(* table or holds a picture or an object.  "more" is an attachment, or a   *)
(* header, footer, note or comment.                                        *)
(***************************************************************************)
EXTENDS Naturals, Sequences, FiniteSets

CONSTANTS
    MinVisible,     \* MIN_VISIBLE_CHARACTERS
    HeaderImage,    \* HEADER_WITH_IMAGE_THRESHOLD
    ChunkSize,      \* DEFAULT_CHUNK_SIZE
    Overlap         \* DEFAULT_CHUNK_OVERLAP

ASSUME CoverageAssumption ==
    /\ MinVisible \in Nat /\ HeaderImage \in Nat
    /\ ChunkSize \in Nat /\ Overlap \in Nat
    /\ Overlap < ChunkSize

Pages == [readable : BOOLEAN, visible : Nat, image : BOOLEAN]
Blocks == [heading : BOOLEAN, text : BOOLEAN, lossy : BOOLEAN]
Documents ==
    [kind : {"pdf"}, parts : Seq(Pages), more : BOOLEAN] \cup
    [kind : {"docx"}, parts : Seq(Blocks), more : BOOLEAN]

NoPlace == 0        \* a page, a section or a path that is None
Issue(code, page, section) == [code |-> code, page |-> page, section |-> section]

-----------------------------------------------------------------------------
(* Mutated forms of the definitions below, each a plausible slip.          *)

TextlessObjects(d, section) ==
    {Issue("object", NoPlace, section[i]) :
        i \in {j \in DOMAIN d.parts : d.parts[j].lossy /\ ~ d.parts[j].text}}
OnlyPagesCount(c, chunks) ==
    IF chunks # {} THEN IF c.failed # {} \/ c.ocr # {} THEN "partial_failure" ELSE "parsed"
    ELSE IF c.ocr # {} THEN "needs_ocr" ELSE "failed"

-----------------------------------------------------------------------------
(* chunk_text: a text of n characters is cut into overlapping pieces.      *)

Step == ChunkSize - Overlap
PieceNumbers(n) ==
    {k \in 0 .. n : n > 0 /\ (k = 0 \/ (k - 1) * Step + ChunkSize < n)}

PieceOf(n, k) == {c \in 1 .. n : k * Step < c /\ c <= k * Step + ChunkSize}

-----------------------------------------------------------------------------
(* A PDF is read page by page.                                             *)

PageKind(p) ==
    IF ~ p.readable THEN "failed"
    ELSE IF p.visible = 0 /\ ~ p.image THEN "blank"
    ELSE IF p.visible < MinVisible \/ (p.image /\ p.visible < HeaderImage) THEN "ocr"
    ELSE "parsed"

PagesOf(d, kind) == {i \in DOMAIN d.parts : PageKind(d.parts[i]) = kind}
Images(d) == {i \in DOMAIN d.parts : d.parts[i].readable /\ d.parts[i].image}

PdfIssues(d) ==
    LET Each(code, S) == {Issue(code, i, NoPlace) : i \in S}
    IN  {Issue("pdf_table_detection_unavailable", NoPlace, NoPlace)}
        \cup (IF d.more THEN {Issue("embedded_attachment_not_extracted", NoPlace, NoPlace)}
              ELSE {})
        \cup Each("page_extraction_failed", PagesOf(d, "failed"))
        \cup Each("image_not_extracted", Images(d))
        \cup Each("blank_page", PagesOf(d, "blank"))
        \cup Each("low_text_requires_ocr", PagesOf(d, "ocr"))

PdfCoverage(d) ==
    [pages |-> Len(d.parts), sections |-> NoPlace,
     parsed |-> PagesOf(d, "parsed"), blank |-> PagesOf(d, "blank"),
     failed |-> PagesOf(d, "failed"), ocr |-> PagesOf(d, "ocr"),
     inSections |-> {}, issues |-> PdfIssues(d)]

PdfChunks(d) ==
    UNION {{[place |-> i, piece |-> k] : k \in PieceNumbers(d.parts[i].visible)} :
            i \in PagesOf(d, "parsed")}

-----------------------------------------------------------------------------
(* A Word document is read block by block.  A heading opens a section; so  *)
(* does the first block with content, when no heading came before it.      *)

Headed(b) == b.heading /\ b.text
Content(b) == b.text \/ b.lossy
Opens(d, i) ==
    \/ Headed(d.parts[i])
    \/ Content(d.parts[i]) /\ \A j \in 1 .. i - 1 : ~ Content(d.parts[j])

Sections(d) == Cardinality({i \in DOMAIN d.parts : Opens(d, i)})
SectionOf(d, i) == Cardinality({j \in 1 .. i : Opens(d, j)})
TextIn(d, s) ==
    Cardinality({i \in DOMAIN d.parts : d.parts[i].text /\ SectionOf(d, i) = s})

\* The heading path of a section, None for what comes before any heading.
PathOf(d, s) ==
    IF \E i \in DOMAIN d.parts :
        Headed(d.parts[i]) /\ SectionOf(d, i) = s
    THEN s ELSE NoPlace

ObjectIssues(d, section) ==
    {Issue("object", NoPlace, section[i]) : i \in {j \in DOMAIN d.parts : d.parts[j].lossy}}

DocxIssues(d) ==
    ObjectIssues(d, [i \in DOMAIN d.parts |-> SectionOf(d, i)])
    \cup (IF d.more THEN {Issue("non_body_story_not_extracted", NoPlace, NoPlace)} ELSE {})

DocxCoverage(d) ==
    [pages |-> NoPlace, sections |-> Sections(d),
     parsed |-> {}, blank |-> {}, failed |-> {}, ocr |-> {},
     inSections |-> {s \in 1 .. Sections(d) : TextIn(d, s) > 0},
     issues |-> DocxIssues(d)]

DocxChunks(d) ==
    UNION {{[place |-> s, piece |-> k] : k \in PieceNumbers(TextIn(d, s))} :
            s \in 1 .. Sections(d)}

-----------------------------------------------------------------------------
Coverage(d) == IF d.kind = "pdf" THEN PdfCoverage(d) ELSE DocxCoverage(d)
ChunksOf(d) == IF d.kind = "pdf" THEN PdfChunks(d) ELSE DocxChunks(d)

\* _parse_outcome
Outcome(c, chunks) ==
    LET incomplete ==
            \/ c.failed # {} \/ c.ocr # {}
            \/ \E x \in c.issues : x.code # "blank_page"
    IN  IF chunks # {} THEN IF incomplete THEN "partial_failure" ELSE "parsed"
        ELSE IF c.ocr # {} THEN "needs_ocr" ELSE "failed"

StatusOf(d) == Outcome(Coverage(d), ChunksOf(d))

\* _valid_complete_pdf_coverage: a partition of the pages, none of them left
\* out, and no issue but blank pages.
CompletePdf(c) ==
    LET kinds == <<c.parsed, c.blank, c.failed, c.ocr>>
    IN  /\ \A i, j \in 1 .. 4 : i < j => kinds[i] \cap kinds[j] = {}
        /\ UNION {kinds[i] : i \in 1 .. 4} = 1 .. c.pages
        /\ c.failed = {} /\ c.ocr = {}
        /\ \A x \in c.issues :
            x.code = "blank_page" /\ x.section = NoPlace /\ x.page \in c.blank

\* _valid_complete_docx_coverage: it refuses an issue with a page and one
\* without, hence any issue.
CompleteDocx(c) ==
    /\ c.parsed \cup c.blank \cup c.failed \cup c.ocr = {}
    /\ c.inSections = 1 .. c.sections
    /\ c.issues = {}

\* _coverage_complete, for a report that a parser has made.
Complete(status, c) ==
    /\ status = "parsed"
    /\ \/ c.pages > 0 /\ CompletePdf(c)
       \/ c.sections > 0 /\ CompleteDocx(c)

-----------------------------------------------------------------------------
\* The reference: the text of a page or section is in its chunks, and nothing of
\* the document is outside them.
InChunks(d, place, n) ==
    \A c \in 1 .. n : \E x \in ChunksOf(d) :
        x.place = place /\ c \in PieceOf(n, x.piece)

ParsedIsInChunks(d) ==
    IF d.kind = "pdf"
    THEN \A i \in Coverage(d).parsed : InChunks(d, i, d.parts[i].visible)
    ELSE \A s \in Coverage(d).inSections : InChunks(d, s, TextIn(d, s))

Whole(d) ==
    /\ ~ d.more
    /\ IF d.kind = "pdf"
       THEN \A i \in DOMAIN d.parts :
                /\ d.parts[i].readable /\ ~ d.parts[i].image
                /\ InChunks(d, i, d.parts[i].visible)
       ELSE \A i \in DOMAIN d.parts :
                /\ ~ d.parts[i].lossy
                /\ d.parts[i].text =>
                    InChunks(d, SectionOf(d, i), TextIn(d, SectionOf(d, i)))

=============================================================================
