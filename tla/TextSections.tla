----------------------------- MODULE TextSections -----------------------------
(***************************************************************************)
(* The text editor of shared documents: the sections that bundles own in a *)
(* file whose other lines belong to its user.  A text is a sequence of     *)
(* tokens: the bytes "cr" and "lf", the boundary lines of sections and the *)
(* words between them.  A line ends with "lf", "cr" or both.               *)
(***************************************************************************)
EXTENDS Selections

CONSTANT Flyrail    \* the sections whose boundaries carry the flyrail: prefix

NewlineBytes == {"cr", "lf"}

\* A "cr" that a "lf" follows belongs to the line break of the "lf".
HalfBreak(text, i) == text[i] = "cr" /\ i < Len(text) /\ text[i + 1] = "lf"
LineBreak(text, i) == text[i] \in NewlineBytes /\ ~HalfBreak(text, i)

\* The kind of the first line break, "lf" when there is none.
Newline(text) ==
    LET i == SelectInSeq(text, LAMBDA t : t \in NewlineBytes)
    IN  IF i = 0 THEN <<"lf">>
        ELSE IF HalfBreak(text, i) THEN <<"cr", "lf">> ELSE <<text[i]>>

Normalized(text, newline) ==
    FlattenSeq([i \in 1..Len(text) |->
        IF LineBreak(text, i) THEN newline
        ELSE IF HalfBreak(text, i) THEN <<>> ELSE <<text[i]>>])

\* generated_section: the boundary lines around the body, in the line breaks
\* of the place it goes to.
Generated(s, body, newline) ==
    LET lines == Normalized(body, newline)
        ended == IF lines = <<>> \/ IsSuffix(newline, lines) THEN <<>> ELSE newline
    IN  <<s.start>> \o newline \o lines \o ended \o <<s.end>> \o newline
-----------------------------------------------------------------------------
(***************************************************************************)
(* section_spans.  A span is <<from, to>>: the tokens after offset from up *)
(* to offset to.                                                           *)
(***************************************************************************)
Breaks(text) == {i \in 1..Len(text) : LineBreak(text, i)}

LineStarts(text) == {1} \cup {i + 1 : i \in Breaks(text) \ {Len(text)}}

\* The offset at which the line that starts at i ends.
LineEnd(text, i) ==
    LET later == SelectInSubSeq(text, i, Len(text), LAMBDA t : t \in NewlineBytes)
    IN  IF later = 0 THEN Len(text) ELSE IF HalfBreak(text, later) THEN later + 1 ELSE later

\* strip_line_newline.
Bare(text, i) == SelectSeq(SubSeq(text, i, LineEnd(text, i)), LAMBDA t : t \notin NewlineBytes)

Markers(ss) == UNION {{s.start, s.end} : s \in ss}

\* scan_markers: the flyrail sections the text names, added to the boundaries
\* asked for.
Known(text, ss) == ss \cup {s \in Flyrail : Markers({s}) \cap Range(text) # {}}

\* The line starts that hold a boundary line.
MarkerLines(text, ss) ==
    {i \in LineStarts(text) \cap DOMAIN text : text[i] \in Markers(ss) /\ Len(Bare(text, i)) = 1}

BoundariesShared(ss) == \E s, t \in ss : s # t /\ SectionsMeet(s, t)

\* No boundary occurs twice; an opening is followed by the closing of the same
\* section, a closing follows the opening of its section.
Malformed(text, ss) ==
    LET at == MarkerLines(text, ss)
        next(i, j) == i < j /\ ~\E k \in at : i < k /\ k < j
    IN  \/ \E i, j \in at : i # j /\ text[i] = text[j]
        \/ \E i \in at : ~\E j \in at, s \in ss :
               \/ text[i] = s.start /\ text[j] = s.end /\ next(i, j)
               \/ text[i] = s.end /\ text[j] = s.start /\ next(j, i)

\* A boundary that shares its line with other text.
Embedded(text, ss) ==
    \E i \in LineStarts(text) :
        LET line == Bare(text, i)
        IN  Len(line) > 1 /\ Range(line) \cap Markers(ss) # {}

SpansFail(text, ss) ==
    LET known == Known(text, ss)
    IN  BoundariesShared(known) \/ Malformed(text, known) \/ Embedded(text, known)

\* The span of a section in a well-formed text, None where it is absent.
Span(text, s) ==
    LET open  == SelectInSeq(text, LAMBDA t : t = s.start)
        close == SelectInSeq(text, LAMBDA t : t = s.end)
    IN  IF open = 0 THEN None ELSE <<open - 1, LineEnd(text, close)>>

Spans(text, ss) == {Span(text, s) : s \in {t \in Known(text, ss) : Span(text, t) # None}}

Slice(text, span) == SubSeq(text, span[1] + 1, span[2])

\* section_snapshot.
Current(text, s) == IF Span(text, s) = None THEN None ELSE Slice(text, Span(text, s))
-----------------------------------------------------------------------------
\* The section as it is, as the request wants it (None to retire it) and as it
\* is owned.
Observation(text, owned, r) ==
    LET current == Current(text, r.claim)
        wanted  == IF r.content = Retired THEN None
                   ELSE Generated(r.claim, r.content, Newline(IF current = None THEN text ELSE current))
        old     == OldSelection(owned, r.claim)
        seen    == [current |-> current, old |-> old, matches |-> wanted = current,
                    intact |-> old # None /\ current = old.installed]
    IN  [claim |-> r.claim, current |-> current, wanted |-> wanted, old |-> old,
         status |-> Status(seen, wanted = None, r.acquisition)]

-----------------------------------------------------------------------------
(***************************************************************************)
(* edit_sections, over the observations of the requests it carries out.    *)
(***************************************************************************)
\* Mutants of CutFrom: separators stay; or go without a look at what is there.
CutSection(text, ss, old, span) == span[1]

CutAlways(text, ss, old, span) ==
    IF old.baseline = None /\ span[1] >= Len(old.separator)
    THEN span[1] - Len(old.separator) ELSE span[1]

\* The offset a retirement cuts from: before the separator the section was
\* appended with, when nothing replaces the section, the separator is still
\* there and it is not part of another section.
CutFrom(text, ss, old, span) ==
    LET from == span[1] - Len(old.separator)
    IN  IF /\ old.baseline = None
           /\ from >= 0
           /\ SubSeq(text, from + 1, span[1]) = old.separator
           /\ \A other \in Spans(text, ss) : ~(from < other[2] /\ other[1] < span[1])
        THEN from ELSE span[1]

\* What an observation replaces in the text that is there.
Replacement(text, ss, o) ==
    LET span == Span(text, o.claim)
    IN  IF o.status = "removed"
        THEN [from |-> CutFrom(text, ss, o.old, span), to |-> span[2],
              by |-> IF o.old.baseline = None THEN <<>> ELSE o.old.baseline]
        ELSE [from |-> span[1], to |-> span[2], by |-> o.wanted]

Replacements(text, ss, done) ==
    {Replacement(text, ss, o) : o \in
        {q \in Range(done) : q.status \in {"removed", "updated", "taken-over"}}}

EditsOverlap(edits) == \E e, f \in edits : e # f /\ e.from <= f.from /\ e.to > f.from

\* The last replacement first: the offsets of the others stay valid.
Replaced(text, edits) ==
    FoldRight(LAMBDA e, body : SubSeq(body, 1, e.from) \o e.by \o SubSeq(body, e.to + 1, Len(body)),
              SetToSortSeq(edits, LAMBDA e, f : e.from < f.from), text)

\* Mutant of OwnedInPlace: what was found is remembered, not what was written.
OwnedAsFound(owned, done) ==
    LET gone  == {o.claim : o \in {q \in Range(done) : q.status = "removed"}}
        there == {q \in Range(done) : q.status \notin {"removed", "created"}}
        of(c) == CHOOSE q \in there : q.claim = c
    IN  [c \in (DOMAIN owned \ gone) \cup {o.claim : o \in there} |->
            IF \A o \in there : o.claim # c THEN owned[c]
            ELSE Selection(of(c), of(c).current, <<>>)]

\* The ownership after the requests whose section is in the text.
OwnedInPlace(owned, done) ==
    LET gone  == {o.claim : o \in {q \in Range(done) : q.status = "removed"}}
        there == {q \in Range(done) : q.status \notin {"removed", "created"}}
        of(c) == CHOOSE q \in there : q.claim = c
    IN  [c \in (DOMAIN owned \ gone) \cup {o.claim : o \in there} |->
            IF \A o \in there : o.claim # c THEN owned[c]
            ELSE Selection(of(c), IF of(c).status \in {"updated", "taken-over"}
                                  THEN of(c).wanted ELSE of(c).current, <<>>)]

\* The blank line before an appended section.
Separator(body, newline) ==
    IF body = <<>> \/ IsSuffix(newline \o newline, body) THEN <<>>
    ELSE IF IsSuffix(newline, body) THEN newline ELSE newline \o newline

\* Appends a section that is not in the text yet, and owns it.
Append1(edit, o, newline) ==
    LET separator == Separator(edit.body, newline)
    IN  [body  |-> edit.body \o separator \o o.wanted,
         owned |-> (o.claim :> Selection(o, o.wanted, separator)) @@ edit.owned]

\* The text and the ownership after the requests were carried out.
Rewritten(text, ss, owned, done) ==
    FoldLeft(LAMBDA edit, o : Append1(edit, o, Newline(text)),
             [body  |-> Replaced(text, Replacements(text, ss, done)),
              owned |-> OwnedInPlace(owned, done)],
             SelectSeq(done, LAMBDA o : o.status = "created"))

Boundaries(owned, requests) == DOMAIN owned \cup {r.claim : r \in Range(requests)}

\* edit_document, for text: fails, is blocked by what it observed (the document,
\* the ownership and the provenance stay), or proposes all three.
EditText(data, owned, provenance, requests) ==
    LET text == Decoded(data)
        ss   == Boundaries(owned, requests)
        seen == [i \in 1..Len(requests) |-> Observation(text, owned, requests[i])]
        done == SelectSeq(seen, LAMBDA o : o.status \notin Blocking)
        next == Rewritten(text, ss, owned, done)
        creation == IF data = None /\ DOMAIN next.owned # {}
                    THEN [provenance EXCEPT !.empty = <<>>] ELSE provenance
    IN  IF InputsFail(owned, requests) \/ Undecodable(data) THEN [verdict |-> "fails"]
        ELSE IF SpansFail(text, ss) THEN [verdict |-> "fails"]
        ELSE IF \/ EditsOverlap(Replacements(text, ss, done))
                \/ SpansFail(next.body, ss) THEN [verdict |-> "fails"]
        ELSE IF Len(done) < Len(seen) THEN [verdict |-> "blocked", seen |-> seen]
        ELSE EditResult(Encoded(data, next.body), next.owned, creation)
=============================================================================
