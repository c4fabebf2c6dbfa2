----------------------------- MODULE StyledText -----------------------------
(***************************************************************************)
(* Text with escape codes in it (utils.ts of packages/tui): wrapping and   *)
(* truncating it, slicing it by columns, and how the screen splices an     *)
(* overlay's line into a line and highlights a selection.                  *)
(*                                                                         *)
(* A text is a sequence of tokens: graphemes and codes.  "W" stands for a  *)
(* grapheme two columns wide, "nl" for a line feed.  A style is the set of *)
(* the attributes, colours and the hyperlink in force.                     *)
(***************************************************************************)
EXTENDS Integers, Sequences, FiniteSets, SequencesExt

CONSTANTS
    StTexts,       \* texts a component starts from
    StTokens,      \* what it may add
    StMaxTokens,   \* bound: tokens of a text
    StWidths,      \* widths a text is fitted to
    StOverlays,    \* lines spliced over it, each [text, width]
    StEllipses,    \* what marks a truncated text
    StScreen       \* columns of the terminal

VARIABLE stText    \* the text a component renders
stVars == <<stText>>

-----------------------------------------------------------------------------
StForegrounds == {"red", "green"}
StBackgrounds == {"on blue"}
StLinks == {"link", "other link"}
(* What a code turns off and on, as the terminal obeys it. *)
StAttributes == {"bold", "dim", "underline", "inverse"} \cup StForegrounds \cup StBackgrounds
StOff == [b \in {"normal", "no underline", "no inverse", "no color", "close", "reset"} |->
            CASE b = "normal" -> {"bold", "dim"}
              [] b = "no underline" -> {"underline"}
              [] b = "no inverse" -> {"inverse"}
              [] b = "no color" -> StForegrounds
              [] b = "close" -> StLinks
              [] OTHER -> StAttributes]
StCodes == StAttributes \cup StLinks \cup DOMAIN StOff
StGroup(code) ==
    CASE code \in StForegrounds -> StForegrounds
      [] code \in StLinks -> StLinks
      [] OTHER -> {code}
StTerminal(style, code) ==
    IF code \in DOMAIN StOff THEN style \ StOff[code] ELSE (style \ StGroup(code)) \cup {code}

StWidth(grapheme) == CASE grapheme = "W" -> 2 [] grapheme = "tab" -> 3 [] OTHER -> 1
(* visibleWidth() *)
StVisible(text) == FoldLeft(LAMBDA n, t : IF t \in StCodes THEN n ELSE n + StWidth(t), 0, text)
StBlanks(n) == [i \in 1 .. n |-> " "]

(* What the terminal shows of a text: every grapheme with its column and its style. *)
StPaint(text) ==
    FoldLeft(LAMBDA p, t :
        IF t \in StCodes THEN [p EXCEPT !.style = StTerminal(p.style, t)]
        ELSE [p EXCEPT !.cells = Append(@, [glyph |-> t, col |-> p.col, style |-> p.style]),
                       !.col = p.col + StWidth(t)],
        [cells |-> <<>>, style |-> {}, col |-> 0], text)
StCells(text) == StPaint(text).cells
StInk(cells) ==
    LET shown == SelectSeq(cells, LAMBDA c : c.glyph \notin {" ", "nl"})
    IN  [i \in 1 .. Len(shown) |-> [glyph |-> shown[i].glyph, style |-> shown[i].style]]

-----------------------------------------------------------------------------
(* AnsiCodeTracker *)
StProcess_KeepsDim(style, code) ==
    IF code = "normal" THEN style \ {"bold"} ELSE StTerminal(style, code)
StProcess(style, code) ==
    CASE code \in StLinks -> (style \ StLinks) \cup {code}
      [] code = "close" -> style \ StLinks
      [] code = "reset" -> style \cap StLinks
      [] code = "normal" -> style \ {"bold", "dim"}
      [] code = "no underline" -> style \ {"underline"}
      [] code = "no inverse" -> style \ {"inverse"}
      [] code = "no color" -> style \ StForegrounds
      [] code \in StForegrounds -> (style \ StForegrounds) \cup {code}
      [] code \in StBackgrounds -> (style \ StBackgrounds) \cup {code}
      [] OTHER -> style \cup {code}
StActive(style) == SetToSeq(style)
StLineEnd(style) ==
    (IF "underline" \in style THEN <<"no underline">> ELSE <<>>)
        \o (IF style \cap StLinks # {} THEN <<"close">> ELSE <<>>)
StTracked(style, text) == FoldLeft(LAMBDA s, t : IF t \in StCodes THEN StProcess(s, t) ELSE s, style, text)

(* A list with what is left, unless nothing is. *)
StWithRest(list, rest) == IF rest = <<>> THEN list ELSE Append(list, rest)

(* splitIntoTokensWithAnsi(): runs of spaces and of the rest; a code goes with the grapheme after it. *)
StWordTaken(s, t, turns) ==
    [words |-> IF turns THEN Append(s.words, s.word) ELSE s.words,
     word |-> Append((IF turns THEN <<>> ELSE s.word) \o s.pending, t),
     pending |-> <<>>, white |-> t = " "]
StLastWord(s) == StWithRest(s.words, s.word \o s.pending)
StWords(text) ==
    StLastWord(FoldLeft(LAMBDA s, t :
        IF t \in StCodes THEN [s EXCEPT !.pending = Append(@, t)]
        ELSE StWordTaken(s, t, (t = " ") # s.white /\ s.word # <<>>),
        [words |-> <<>>, word |-> <<>>, pending |-> <<>>, white |-> FALSE], text))

StTrimEnd(line) ==
    LET n == CHOOSE k \in 0 .. Len(line) :
                /\ k > 0 => line[k] # " "
                /\ \A i \in k + 1 .. Len(line) : line[i] = " "
    IN  SubSeq(line, 1, n)

(* breakLongWord() *)
StLastLine(s) == [lines |-> StWithRest(s.lines, s.line), style |-> s.style]
StBroken(word, width, style) ==
    StLastLine(FoldLeft(LAMBDA s, t :
        IF t \in StCodes THEN [s EXCEPT !.line = Append(@, t), !.style = StProcess(@, t)]
        ELSE IF s.width + StWidth(t) > width
        THEN [s EXCEPT !.lines = Append(@, s.line \o StLineEnd(s.style)),
                       !.line = Append(StActive(s.style), t), !.width = StWidth(t)]
        ELSE [s EXCEPT !.line = Append(@, t), !.width = @ + StWidth(t)],
        [lines |-> <<>>, line |-> StActive(style), width |-> 0, style |-> style], word))

(* wrapSingleLine() *)
StLongWord(closed, broken) ==
    [lines |-> closed \o Front(broken.lines), line |-> Last(broken.lines),
     width |-> StVisible(Last(broken.lines)), style |-> broken.style]
StTakeWord(s, word, length, white, width) ==
    IF length > width /\ ~white
    THEN StLongWord(IF s.line = <<>> THEN s.lines ELSE Append(s.lines, s.line \o StLineEnd(s.style)),
                    StBroken(word, width, s.style))
    ELSE IF s.width + length > width /\ s.width > 0
    THEN [lines |-> Append(s.lines, StTrimEnd(s.line) \o StLineEnd(s.style)),
          line |-> StActive(s.style) \o (IF white THEN <<>> ELSE word),
          width |-> IF white THEN 0 ELSE length, style |-> StTracked(s.style, word)]
    ELSE [lines |-> s.lines, line |-> s.line \o word, width |-> s.width + length, style |-> StTracked(s.style, word)]
StTrimmed(lines) == IF lines = <<>> THEN <<<<>>>> ELSE [i \in DOMAIN lines |-> StTrimEnd(lines[i])]
StWrapLine(text, width) ==
    IF StVisible(text) <= width THEN <<text>>
    ELSE StTrimmed(StLastLine(FoldLeft(LAMBDA s, word :
            StTakeWord(s, word, StVisible(word), Range(word) = {" "}, width),
            [lines |-> <<>>, line |-> <<>>, width |-> 0, style |-> {}], StWords(text))).lines)

(* The lines between line feeds. *)
StLines(text) ==
    FoldLeft(LAMBDA lines, t :
        IF t = "nl" THEN Append(lines, <<>>) ELSE [lines EXCEPT ![Len(lines)] = Append(@, t)],
        <<<<>>>>, text)
(* wrapTextWithAnsi(): a style runs on over a line feed. *)
StWrap(text, width) ==
    FoldLeft(LAMBDA s, line :
        [lines |-> s.lines \o StWrapLine((IF s.lines = <<>> THEN <<>> ELSE StActive(s.style)) \o line, width),
         style |-> StTracked(s.style, line)],
        [lines |-> <<>>, style |-> {}], StLines(text)).lines

-----------------------------------------------------------------------------
StHasCodes(text) == \E i \in DOMAIN text : text[i] \in StCodes

(* finalizeTruncatedResult() *)
StPadded(text, missing, pad) == IF pad /\ missing > 0 THEN text \o StBlanks(missing) ELSE text
StResetIf(styled) == IF styled THEN <<"reset">> ELSE <<>>
StFinished(kept, ellipsis, ellipsisWidth, width, pad) ==
    StPadded(kept.text \o StResetIf(StHasCodes(kept.text))
                \o (IF ellipsis = <<>> THEN <<>>
                    ELSE ellipsis \o StResetIf(StHasCodes(kept.text) \/ StHasCodes(ellipsis))),
             width - kept.width - ellipsisWidth, pad)

(* truncateFragmentToWidth() *)
StFragment(text, width) ==
    FoldLeft(LAMBDA s, t :
        IF s.done THEN s
        ELSE IF t \in StCodes THEN [s EXCEPT !.pending = Append(@, t)]
        ELSE IF s.width + StWidth(t) > width THEN [s EXCEPT !.done = TRUE]
        ELSE [s EXCEPT !.text = Append(@ \o s.pending, t), !.pending = <<>>, !.width = @ + StWidth(t)],
        [text |-> <<>>, pending |-> <<>>, width |-> 0, done |-> FALSE], text)

(* truncateToWidth(): the graphemes are read until more than the width was seen. *)
StKept(text, width, target) ==
    FoldLeft(LAMBDA s, t :
        IF s.seen > width THEN s
        ELSE IF t \in StCodes THEN [s EXCEPT !.pending = Append(@, t)]
        ELSE IF s.prefix /\ s.width + StWidth(t) <= target
        THEN [s EXCEPT !.text = Append(@ \o s.pending, t), !.pending = <<>>,
                       !.width = @ + StWidth(t), !.seen = @ + StWidth(t)]
        ELSE [s EXCEPT !.prefix = FALSE, !.pending = <<>>, !.seen = @ + StWidth(t)],
        [text |-> <<>>, pending |-> <<>>, width |-> 0, seen |-> 0, prefix |-> TRUE], text)
StEllipsisAlone(clipped, width, pad) ==
    IF clipped.width = 0 THEN StPadded(<<>>, width, pad)
    ELSE StFinished([text |-> <<>>, width |-> 0], clipped.text, clipped.width, width, pad)
StTruncate(text, width, ellipsis, pad) ==
    IF StVisible(text) <= width THEN StPadded(text, width - StVisible(text), pad)
    ELSE IF StVisible(ellipsis) >= width THEN StEllipsisAlone(StFragment(ellipsis, width), width, pad)
    ELSE StFinished(StKept(text, width, width - StVisible(ellipsis)), ellipsis, StVisible(ellipsis), width, pad)

-----------------------------------------------------------------------------
(* sliceWithWidth(): codes before the slice wait for its first grapheme. *)
StSliced(text, start, length, strict) ==
    FoldLeft(LAMBDA s, t :
        IF s.col >= start + length \/ length <= 0 THEN s
        ELSE IF t \in StCodes
        THEN IF s.col >= start THEN [s EXCEPT !.text = Append(@, t)] ELSE [s EXCEPT !.pending = Append(@, t)]
        ELSE IF s.col >= start /\ (strict => s.col + StWidth(t) <= start + length)
        THEN [s EXCEPT !.text = Append(@ \o s.pending, t), !.pending = <<>>,
                       !.width = @ + StWidth(t), !.col = @ + StWidth(t)]
        ELSE [s EXCEPT !.col = @ + StWidth(t)],
        [text |-> <<>>, pending |-> <<>>, width |-> 0, col |-> 0], text)

(* extractSegments() *)
StSegmentCode(s, t, before, after) ==
    [s EXCEPT !.style = StProcess(@, t),
              !.pending = IF s.col < before THEN Append(@, t) ELSE @,
              !.after = IF s.col >= before /\ s.col \in after /\ s.started THEN Append(@, t) ELSE @]
StSegmentGrapheme(s, t, before, after, next) ==
    IF s.col < before
    THEN [s EXCEPT !.before = Append(@ \o s.pending, t), !.pending = <<>>, !.beforeWidth = next, !.col = next]
    ELSE IF s.col \in after /\ next - 1 \in after
    THEN [s EXCEPT !.after = Append(@ \o (IF s.started THEN <<>> ELSE StActive(s.style)), t),
                   !.started = TRUE, !.afterWidth = @ + StWidth(t), !.col = next]
    ELSE [s EXCEPT !.col = next]
StSegments(text, before, after, end) ==
    FoldLeft(LAMBDA s, t :
        IF s.col >= end /\ s.col > 0 THEN s
        ELSE IF t \in StCodes THEN StSegmentCode(s, t, before, after)
        ELSE StSegmentGrapheme(s, t, before, after, s.col + StWidth(t)),
        [before |-> <<>>, beforeWidth |-> 0, after |-> <<>>, afterWidth |-> 0,
         pending |-> <<>>, style |-> {}, started |-> FALSE, col |-> 0], text)

StNatural(n) == IF n > 0 THEN n ELSE 0
StLarger(a, b) == IF a > b THEN a ELSE b
StSmaller(a, b) == IF a < b THEN a ELSE b

(* compositeLineAt() *)
StReset == <<"reset", "close">>
StSpliced(parts, over, col, width) ==
    parts.before \o StBlanks(StNatural(col - parts.beforeWidth)) \o StReset
        \o over.text \o StBlanks(StNatural(width - over.width)) \o StReset \o parts.after
        \o StBlanks(StNatural(StScreen - StLarger(col, parts.beforeWidth) - StLarger(width, over.width) - parts.afterWidth))
StFitted(text) == IF StVisible(text) <= StScreen THEN text ELSE StSliced(text, 0, StScreen, TRUE).text
StComposite(base, line, col, width) ==
    StFitted(StSpliced(
        StSegments(base, col, col + width .. StScreen - 1, IF col + width < StScreen THEN StScreen ELSE col),
        StSliced(line, 0, width, TRUE), col, width))

(* highlightLine(): the selected columns in reverse video, without their own style. *)
StHighlit(text, from, to, width) ==
    IF to <= from THEN text
    ELSE StSliced(text, 0, from, FALSE).text \o <<"reset", "inverse">>
            \o SelectSeq(StSliced(text, from, to - from, FALSE).text, LAMBDA t : t \notin StCodes)
            \o <<"no inverse">> \o StSliced(text, to, width - to, FALSE).text
StHighlight(text, from, to) ==
    StHighlit(text, StSmaller(from, StVisible(text)), StSmaller(to, StVisible(text)), StVisible(text))

(* visibleContentSpan() *)
StSpanWith(s, next, blank, limit) ==
    IF blank THEN [s EXCEPT !.col = next]
    ELSE [from |-> IF s.from = -1 THEN s.col ELSE s.from, to |-> StSmaller(next, limit), col |-> next]
StSpan(text, limit) ==
    FoldLeft(LAMBDA s, t :
        IF t \in StCodes \/ s.col >= limit THEN s
        ELSE StSpanWith(s, s.col + StWidth(t), t \in {" ", "tab"}, limit),
        [from |-> -1, to |-> -1, col |-> 0], text)

-----------------------------------------------------------------------------
StInit == stText \in StTexts
StAdd == \E token \in StTokens : Len(stText) < StMaxTokens /\ stText' = Append(stText, token)
StNext == StAdd

-----------------------------------------------------------------------------
StShown(text) == SelectSeq(StCells(text), LAMBDA c : c.glyph \notin {" ", "nl"})
StInkSet(text) == Range(StShown(text))

(* Wrapped text fits, and its lines, each drawn from a clean style, show every
   grapheme in its order with the style it has in the text.  A word that fits on
   a line is not split.  No underline or link runs on past the end of a line that
   the wrapping ended.  A line that ends at a line feed keeps those in force
   there: wrapSingleLine() leaves its last line to its caller to close, and
   wrapTextWithAnsi() closes nothing. *)
StFollows(shown, i) == shown[i + 1].col = shown[i].col + StWidth(shown[i].glyph)
StSplitsWord(shown, at, width) ==
    \E from \in 1 .. at : \E to \in at + 1 .. Len(shown) :
        /\ \A i \in from .. to - 1 : StFollows(shown, i)
        /\ from > 1 => ~StFollows(shown, from - 1)
        /\ to < Len(shown) => ~StFollows(shown, to)
        /\ shown[to].col + StWidth(shown[to].glyph) - shown[from].col <= width
(* The lines that end at a line feed, each with the text before that line feed. *)
StFeeds(width) ==
    LET before == {SubSeq(stText, 1, i - 1) : i \in {i \in DOMAIN stText : stText[i] = "nl"}}
    IN  {[line |-> Len(StWrap(text, width)), text |-> text] : text \in before}
StRunsOn(text) == StPaint(text).style \cap ({"underline"} \cup StLinks)
StEndsAsGiven(lines, feeds) ==
    /\ \A feed \in feeds : StRunsOn(lines[feed.line]) = StRunsOn(feed.text)
    /\ \A i \in 1 .. Len(lines) - 1 : i \notin {feed.line : feed \in feeds} => StRunsOn(lines[i]) = {}
StWrapsTo(lines, inks, width, shown) ==
    /\ \A i \in DOMAIN lines : StVisible(lines[i]) <= width
    /\ FlattenSeq(inks) = StInk(shown)
    /\ \A i \in DOMAIN lines : ~StSplitsWord(shown, Len(FlattenSeq(SubSeq(inks, 1, i))), width)
    /\ StEndsAsGiven(lines, StFeeds(width))
StInks(lines) == [i \in DOMAIN lines |-> StInk(StCells(lines[i]))]
StWraps ==
    \A width \in StWidths : \E lines \in {StWrap(stText, width)} :
        StWrapsTo(lines, StInks(lines), width, StShown(stText))

(* A text too wide is cut to its longest prefix that leaves room for the
   ellipsis, styles included.  Neither the ellipsis nor the padding has a colour
   or an attribute; both stay in the hyperlink of the last grapheme kept, which
   the reset before them does not close. *)
StKeeps(cells, width) == Cardinality({i \in DOMAIN cells : cells[i].col + StWidth(cells[i].glyph) <= width})
StCutsTo(shown, cells, kept, ellipsis) ==
    /\ SubSeq(shown, 1, kept) = SubSeq(cells, 1, kept)
    /\ \A i \in kept + 1 .. Len(shown) :
          /\ shown[i].glyph = IF i - kept <= Len(ellipsis) THEN ellipsis[i - kept] ELSE " "
          /\ shown[i].style = IF kept = 0 THEN {} ELSE cells[kept].style \cap StLinks
StTruncates ==
    \A line \in Range(StLines(stText)), width \in StWidths, ellipsis \in StEllipses, pad \in BOOLEAN :
    \E result \in {StTruncate(line, width, ellipsis, pad)} :
        /\ StVisible(result) <= width
        /\ pad => StVisible(result) = width
        /\ IF StVisible(line) <= width THEN IsPrefix(StCells(line), StCells(result))
           ELSE StVisible(ellipsis) < width =>
                    StCutsTo(StCells(result), StCells(line), StKeeps(StCells(line), width - StVisible(ellipsis)), ellipsis)

(* An overlay is drawn in its columns with its own style and the line around
   it stays where and as it was, when no wide grapheme lies across an edge. *)
StStraddles(cells, col) == \E cell \in Range(cells) : cell.col < col /\ cell.col + StWidth(cell.glyph) > col
StAround(ink, col, width) == {c \in ink : c.col < col \/ c.col >= col + width}
StInside(ink, col, width) == {[c EXCEPT !.col = @ + col] : c \in {c \in ink : c.col + StWidth(c.glyph) <= width}}
StSplices ==
    \A base \in Range(StWrap(stText, StScreen)), over \in StOverlays :
    \A col \in 0 .. StScreen - over.width :
    \E result \in {StComposite(base, over.text, col, over.width)} :
        /\ StVisible(result) <= StScreen
        /\ ~(StStraddles(StCells(base), col) \/ StStraddles(StCells(base), col + over.width)) =>
               /\ StVisible(result) = StScreen
               /\ StInkSet(result) = StAround(StInkSet(base), col, over.width) \cup StInside(StInkSet(over.text), col, over.width)

(* Highlighting a selection moves no grapheme, and restyles the selected ones
   only - unless a code stands right at its end: then the style after it is
   applied before the styles that came earlier. *)
StCodeAt(text, col) ==
    \E i \in DOMAIN text :
        /\ text[i] \in StCodes /\ StVisible(SubSeq(text, 1, i)) >= col
        /\ \A cell \in Range(StCells(SubSeq(text, 1, i))) : cell.col < col
StHighlightsTo(before, after, from, to, certain) ==
    /\ Len(after) = Len(before)
    /\ \A i \in DOMAIN before :
          /\ after[i].glyph = before[i].glyph
          /\ before[i].col >= from /\ before[i].col < to => after[i].style \ StLinks = {"inverse"}
          /\ before[i].col < from \/ (before[i].col >= to /\ certain) => after[i].style = before[i].style
StHighlights ==
    \A line \in Range(StWrap(stText, StScreen)), from \in 0 .. StScreen : \A to \in from .. StScreen :
        StHighlightsTo(StCells(line), StCells(StHighlight(line, from, to)), from, to, ~StCodeAt(line, to))

(* What may be selected of a line is exactly from its first to its last grapheme that is not blank. *)
StSpans ==
    \A line \in Range(StLines(stText)), limit \in StWidths :
        LET span == StSpan(line, limit)
            seen == {c \in StInkSet(line) : c.col < limit}
        IN  IF seen = {} THEN span.from = -1
            ELSE /\ span.from \in {c.col : c \in seen} /\ \A c \in seen : span.from <= c.col
                 /\ \A c \in seen : span.to >= c.col + StWidth(c.glyph) \/ span.to = limit
                 /\ \E c \in seen : span.to <= c.col + StWidth(c.glyph)

(* Styled text fits where it is put and keeps its look: wrapped, truncated,
   under an overlay or selected. *)
TextSafe == StWraps /\ StTruncates /\ StSplices /\ StHighlights /\ StSpans
=============================================================================
