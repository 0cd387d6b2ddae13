------------------------------ MODULE EditText ------------------------------
(***************************************************************************)
(* The text replacement of edit_file (agent_runtime/tools/filesystem.py):  *)
(* where the old text is found, by looser and looser matching, and what    *)
(* the file holds afterwards.  A text is a sequence of tokens: "nl" ends a *)
(* line ("rn" as CRLF), " " is white space, "q" a straight quote and "c" a *)
(* curly one, any other token a letter.  Opening and closing curly quotes  *)
(* are not told apart.                                                     *)
(***************************************************************************)
EXTENDS Naturals, Sequences, SequencesExt, FiniteSetsExt

With(text, old, new) == [i \in DOMAIN text |-> IF text[i] = old THEN new ELSE text[i]]

WithLf(text) == With(text, "rn", "nl")
WithCrlf(text) == With(text, "nl", "rn")
NormalizeQuotes(text) == With(text, "c", "q")

IsBlank(t) == t \in {" ", "nl", "rn"}

\* str.strip.
Strip(text) ==
    LET ink == {i \in DOMAIN text : ~ IsBlank(text[i])}
    IN  IF ink = {} THEN << >> ELSE SubSeq(text, Min(ink), Max(ink))

\* A span is the half open interval of a match, from its first position to
\* the one behind its last.
Span(first, behind) == [start |-> first, end |-> behind]

TextOf(text, span) == SubSeq(text, span.start, span.end - 1)

-----------------------------------------------------------------------------
(* Lines, with the position of each and the one behind its line end.       *)

LineStarts(text) == {i \in DOMAIN text : i = 1 \/ text[i - 1] = "nl"}

SpansFrom(first, behind) ==
    [k \in DOMAIN first |->
        Span(first[k], IF k < Len(first) THEN first[k + 1] ELSE behind)]

SplitLines(text) == SpansFrom(SetToSortSeq(LineStarts(text), <), Len(text) + 1)

WithoutEnds(text, line) ==
    [k \in DOMAIN line |-> SelectSeq(TextOf(text, line[k]), LAMBDA t : t # "nl")]

\* str.split("\n"), of which the last line may be empty.
Lines(text) ==
    WithoutEnds(text, SplitLines(text))
        \o (IF text = << >> \/ Last(text) = "nl" THEN << << >> >> ELSE << >>)

Joined(lines) ==
    FoldLeft(LAMBDA acc, k : IF k = 1 THEN lines[1] ELSE acc \o << "nl" >> \o lines[k],
             << >>, [k \in DOMAIN lines |-> k])

-----------------------------------------------------------------------------
(* The matchers.                                                           *)

\* str.find from left to right, each search behind the match before.
ExactMatches(text, old) ==
    LET at(i) == i + Len(old) - 1 <= Len(text) /\ SubSeq(text, i, i + Len(old) - 1) = old
        from[i \in 1..(Len(text) + 1)] ==
            IF i > Len(text) THEN << >>
            ELSE IF at(i) THEN << Span(i, i + Len(old)) >> \o from[i + Len(old)]
            ELSE from[i + 1]
    IN  from[1]

\* Are the lines from the k-th on the wanted ones, but for the white space
\* around them and, if so asked, for the kind of quotes?
Norm(line, quotes) == IF quotes THEN NormalizeQuotes(Strip(line)) ELSE Strip(line)

Fits(text, line, old, wanted, quotes, k) ==
    \A j \in DOMAIN wanted :
        Norm(TextOf(text, line[k + j - 1]), quotes) = Norm(TextOf(old, wanted[j]), quotes)

\* A mistake: the window keeps the line end behind its last line.
WindowOfLines(text, first, last) == Span(first.start, last.end)

Window(text, first, last) ==
    Span(first.start, IF text[last.end - 1] = "nl" THEN last.end - 1 ELSE last.end)

\* A window starts at every line, also within the match before.
Windows(text, line, old, wanted, quotes) ==
    {Window(text, line[k], line[k + Len(wanted) - 1]) :
        k \in {i \in 1..(Len(line) + 1 - Len(wanted)) : Fits(text, line, old, wanted, quotes, i)}}

TrimMatches(text, old, quotes) ==
    IF old = << >> THEN << >>
    ELSE SetToSortSeq(Windows(text, SplitLines(text), old, SplitLines(old), quotes),
                      LAMBDA s, t : s.start < t.start)

QuoteMatches(text, old) == ExactMatches(NormalizeQuotes(text), NormalizeQuotes(old))

\* _find_matches: the first matcher that finds anything.
OrElse(found, otherwise) == IF found # << >> THEN found ELSE otherwise

FindMatches(text, old) ==
    OrElse(ExactMatches(text, old), OrElse(TrimMatches(text, old, FALSE),
           OrElse(TrimMatches(text, old, TRUE), QuoteMatches(text, old))))

-----------------------------------------------------------------------------
(* What a match is replaced by.                                            *)

\* _strip_trailing_ws, line by line (not in Markdown).
StripRight(line) ==
    LET ink == {i \in DOMAIN line : line[i] # " "}
    IN  IF ink = {} THEN << >> ELSE SubSeq(line, 1, Max(ink))

EachStripped(lines) == [k \in DOMAIN lines |-> StripRight(lines[k])]

StripTrailing(text) == Joined(EachStripped(Lines(text)))

\* _preserve_quote_style: curly quotes where the matched text had them.
PreserveQuotes(old, actual, new) ==
    IF /\ NormalizeQuotes(Strip(old)) = NormalizeQuotes(Strip(actual))
       /\ old # actual
       /\ \E i \in DOMAIN actual : actual[i] = "c"
    THEN With(new, "q", "c")
    ELSE new

Indent(line) ==
    LET ink == {i \in DOMAIN line : line[i] # " "}
    IN  IF ink = {} THEN line ELSE SubSeq(line, 1, Min(ink) - 1)

IndentBy(more, lines) ==
    [k \in DOMAIN lines |-> IF lines[k] = << >> THEN << >> ELSE more \o lines[k]]

\* The white space the match has before its first line that is not blank, and
\* the old text has not; none if it has no more than the old text.
Reindented(olds, actuals, new) ==
    LET both == {k \in DOMAIN olds : Strip(olds[k]) # << >> /\ Strip(actuals[k]) # << >>}
        now == Indent(actuals[Min(both)])
        more == SubSeq(now, Len(Indent(olds[Min(both)])) + 1, Len(now))
    IN  IF \/ Len(olds) # Len(actuals)
           \/ both = {}
           \/ \E k \in both : Norm(olds[k], TRUE) # Norm(actuals[k], TRUE)
        THEN new
        ELSE Joined(IndentBy(more, Lines(new)))

\* _reindent_like_match.
Reindent(old, actual, new) == Reindented(Lines(old), Lines(actual), new)

Replacement(old, actual, new) == Reindent(old, actual, PreserveQuotes(old, actual, new))

\* A deletion takes the line end behind it along.
Cut(text, span, replacement) ==
    IF /\ replacement = << >>
       /\ span.start = span.end \/ text[span.end - 1] # "nl"
       /\ span.end <= Len(text) /\ text[span.end] = "nl"
    THEN Span(span.start, span.end + 1) ELSE span

Put(acc, cut, replacement) ==
    SubSeq(acc, 1, cut.start - 1) \o replacement \o SubSeq(acc, cut.end, Len(acc))

PutAt(acc, text, span, replacement) == Put(acc, Cut(text, span, replacement), replacement)

\* The replacements from the last to the first, so that the positions before
\* them stay what they were.
Applied(text, old, new, spans) ==
    FoldLeft(LAMBDA acc, span :
                PutAt(acc, text, span, Replacement(old, TextOf(text, span), new)),
             text, Reverse(spans))

-----------------------------------------------------------------------------
(* The edit, of a text that has the old one: all its matches or the only    *)
(* one; a file with any CRLF gets CRLF at every line end.                  *)

UsesCrlf(raw) == \E i \in DOMAIN raw : raw[i] = "rn"

Edited(raw, old, new, markdown) ==
    LET text == WithLf(raw)
        result == Applied(text, WithLf(old), IF markdown THEN WithLf(new)
                                             ELSE StripTrailing(WithLf(new)),
                          FindMatches(text, WithLf(old)))
    IN  IF UsesCrlf(raw) THEN WithCrlf(result) ELSE result

-----------------------------------------------------------------------------
(* For comparison, without the search for matches: texts as a reader takes *)
(* them, but for the white space around their lines and the kind of quotes.*)

Loosely(lines) == [k \in DOMAIN lines |-> Norm(lines[k], TRUE)]

ReadsAs(piece, old) ==
    \/ NormalizeQuotes(piece) = NormalizeQuotes(old)
    \/ Loosely(Lines(piece)) = Loosely(WithoutEnds(old, SplitLines(old)))

\* A piece that leaves is the old text.  If nothing takes its place and it does
\* not end its line, the line end behind it goes too.
LeavesAs(piece, old) ==
    \/ ReadsAs(piece, old)
    \/ /\ piece # << >> /\ Last(piece) = "nl"
       /\ Front(piece) = << >> \/ Last(Front(piece)) # "nl"
       /\ ReadsAs(Front(piece), old)

Takes(piece, put, old, new) ==
    /\ IF put = << >> THEN LeavesAs(piece, old) ELSE ReadsAs(piece, old)
    /\ Loosely(Lines(put)) = Loosely(Lines(new))

\* Is after the text before with new in the place of old, n times, and every
\* other token where it was?
IsSplice(before, after, old, new, n) ==
    LET rest[i \in 1..(Len(before) + 1), j \in 1..(Len(after) + 1), k \in 0..n] ==
            \/ k = 0 /\ SubSeq(before, i, Len(before)) = SubSeq(after, j, Len(after))
            \/ /\ i <= Len(before) /\ j <= Len(after) /\ before[i] = after[j]
               /\ rest[i + 1, j + 1, k]
            \/ /\ k > 0
               /\ \E behind \in i..(Len(before) + 1), end \in j..(Len(after) + 1) :
                     /\ Takes(WithLf(SubSeq(before, i, behind - 1)),
                              WithLf(SubSeq(after, j, end - 1)), old, new)
                     /\ rest[behind, end, k - 1]
    IN  rest[1, 1, n]

\* What an edit that finds its matches in spans puts in and takes out.
Puts(text, old, new, spans) ==
    [k \in DOMAIN spans |-> Replacement(old, TextOf(text, spans[k]), new)]

Cuts(text, puts, spans) == [k \in DOMAIN spans |-> Cut(text, spans[k], puts[k])]

\* No match reaches into the next one.
Apart(cuts, spans) == \A k \in DOMAIN spans : k > 1 => cuts[k - 1].end <= spans[k].start

=============================================================================
