---------------------------- MODULE EditorLayout ----------------------------
(***************************************************************************)
(* Layout and vertical movement in the prompt editor of packages/tui       *)
(* (components/editor.ts): word wrap, visual lines, the sticky column,     *)
(* snapping to paste markers, scrolling.  The text does not change here;   *)
(* EditorBuffer models what changes it.  A line is a sequence of cells:    *)
(* "a" and " " are one column wide, "W" is two; "[", "m" and "]" are the   *)
(* cells of a live paste marker.                                           *)
(***************************************************************************)
EXTENDS Integers, Sequences, SequencesExt

CONSTANTS
    LayTexts,    \* texts laid out: sequences of lines
    LayWidths,   \* layout widths the terminal takes; at least 2, see the README
    LayRows      \* rows shown, also the rows of a page

ASSUME LayAssumption == LayWidths \subseteq Nat \ {0, 1} /\ LayRows \in Nat \ {0}

VARIABLES
    layLines,    \* state.lines
    layCursor,   \* [line, col, pref, snap]: cursor, preferredVisualCol, snappedFromCursorCol; -1 is null
    layWidth,    \* lastWidth
    layScroll,   \* scrollOffset
    layRendered  \* history: nothing has moved since render()

layVars == <<layLines, layCursor, layWidth, layScroll, layRendered>>

LayIndices(l) == 0 .. Len(l)
LayColumns(l, from, to) == FoldLeft(LAMBDA n, cell : n + IF cell = "W" THEN 2 ELSE 1, 0, SubSeq(l, from + 1, to))

(* Segments of a line as [from, to): a marker is one. *)
LaySegments(l) ==
    LET starts == SelectSeq([i \in 1 .. Len(l) |-> i - 1], LAMBDA i : l[i + 1] \notin {"m", "]"})
    IN  [k \in 1 .. Len(starts) |-> [from |-> starts[k], to |-> IF k = Len(starts) THEN Len(l) ELSE starts[k + 1]]]

-----------------------------------------------------------------------------
(* wordWrapLine().  Chunks are [from, to); opp is the last place where a line
   may break, -1 without one.                                              *)
LayBlank(l, seg) == l[seg.from + 1] = " "
LayBreak(a, at, width) == [a EXCEPT !.chunks = Append(@, [from |-> a.start, to |-> at]), !.start = at, !.width = width]

LayRoom(a, seg, g, w) ==
    IF a.width + g <= w THEN a
    ELSE [(IF a.opp >= 0 /\ a.width - a.oppWidth + g <= w THEN LayBreak(a, a.opp, a.width - a.oppWidth)
           ELSE IF a.start < seg.from THEN LayBreak(a, seg.from, 0) ELSE a) EXCEPT !.opp = -1]

(* A segment wider than the line is a marker: its cells are wrapped. *)
LayWrapMarker(a, seg, w) ==
    LET full == (seg.to - seg.from - 1) \div w
    IN  [a EXCEPT !.chunks = @ \o [j \in 1 .. full |-> [from |-> seg.from + (j - 1) * w, to |-> seg.from + j * w]],
                  !.start = seg.from + full * w, !.width = seg.to - seg.from - full * w, !.opp = -1]

LayAdvance(l, segs, a, k, g) ==
    LET b == [a EXCEPT !.width = @ + g]
    IN  IF LayBlank(l, segs[k]) /\ k < Len(segs) /\ ~LayBlank(l, segs[k + 1])
        THEN [b EXCEPT !.opp = segs[k + 1].from, !.oppWidth = b.width] ELSE b

LayWrap(l, w) ==
    LET segs == LaySegments(l)
        Step(a, k) == LET g == LayColumns(l, segs[k].from, segs[k].to)
                          b == LayRoom(a, segs[k], g, w)
                  IN  IF g > w THEN LayWrapMarker(b, segs[k], w) ELSE LayAdvance(l, segs, b, k, g)
        done == FoldLeft(Step, [chunks |-> <<>>, start |-> 0, width |-> 0, opp |-> -1, oppWidth |-> 0], [k \in 1 .. Len(segs) |-> k])
    IN  IF LayColumns(l, 0, Len(l)) <= w THEN <<[from |-> 0, to |-> Len(l)]>>
        ELSE Append(done.chunks, [from |-> done.start, to |-> Len(l)])

(* buildVisualLineMap() *)
LayMap(lines, w) ==
    FlattenSeq([i \in 1 .. Len(lines) |->
        LET chunks == LayWrap(lines[i], w) IN [j \in 1 .. Len(chunks) |-> [line |-> i, from |-> chunks[j].from, to |-> chunks[j].to]]])

LayLastOfLine(map, i) == i = Len(map) \/ map[i + 1].line # map[i].line

(* findVisualLineAt() *)
LayHolds(map, i, line, col) ==
    map[i].line = line /\ col >= map[i].from /\ (col < map[i].to \/ (LayLastOfLine(map, i) /\ col = map[i].to))
LayRowAt(map, line, col) ==
    IF \E i \in 1 .. Len(map) : LayHolds(map, i, line, col)
    THEN CHOOSE i \in 1 .. Len(map) : LayHolds(map, i, line, col) /\ \A j \in 1 .. i - 1 : ~LayHolds(map, j, line, col)
    ELSE Len(map)

(* layoutText() puts the cursor into rows by a rule of its own. *)
LayShowsCursor(map, i, s) ==
    map[i].line = s.line /\ s.col >= map[i].from /\ (LayLastOfLine(map, i) \/ s.col < map[i].to)

-----------------------------------------------------------------------------
(* computeVerticalMoveColumn(): the column, and what preferredVisualCol becomes. *)
LaySticky(pref, current, sourceMax, targetMax) ==
    IF pref = -1 \/ current < sourceMax
    THEN IF targetMax < current THEN [col |-> targetMax, pref |-> current] ELSE [col |-> current, pref |-> -1]
    ELSE IF targetMax < current \/ targetMax < pref THEN [col |-> targetMax, pref |-> pref]
    ELSE [col |-> pref, pref |-> -1]

LayMaxCol(map, i) == LET n == map[i].to - map[i].from IN IF LayLastOfLine(map, i) \/ n = 0 THEN n ELSE n - 1

LayClamp(n, low, high) == IF n < low THEN low ELSE IF n > high THEN high ELSE n

(* The marker that col lies in or begins, as a set. *)
LayMarkerAt(l, col) ==
    {seg \in Range(LaySegments(l)) : seg.to - seg.from > 1 /\ seg.from <= col /\ col < seg.to}

(* The cursor is shown at the start of a marker it would land in. *)
LaySnap(s, seg) == [s EXCEPT !.snap = s.col, !.col = seg.from]

LayPassed(map, to, seg) ==
    IF seg.from >= map[to].from THEN {}
    ELSE {k \in to + 1 .. Len(map) : map[k].line # map[to].line \/ map[k].from >= seg.to}

(* moveToVisualLine(), which calls itself to pass the rest of a marker on the
   way down; by then the cursor has moved.                                 *)
RECURSIVE LayMove(_, _, _, _)
LayMove(map, s, from, to) ==
    LET current == IF s.snap = -1 THEN s.col - map[from].from
                   ELSE s.snap - map[LayRowAt(map, map[from].line, s.snap)].from
        sticky == LaySticky(s.pref, current, LayMaxCol(map, from), LayMaxCol(map, to))
        l == layLines[map[to].line]
        col == IF map[to].from + sticky.col > Len(l) THEN Len(l) ELSE map[to].from + sticky.col
        moved == [s EXCEPT !.line = map[to].line, !.col = col, !.pref = sticky.pref]
    IN  IF LayMarkerAt(l, col) = {} THEN [moved EXCEPT !.snap = -1]
        ELSE LET seg == CHOOSE seg \in LayMarkerAt(l, col) : TRUE
                 beyond == LayPassed(map, to, seg)
             IN  IF to > from /\ beyond # {}
                 THEN LayMove(map, moved, from, CHOOSE k \in beyond : \A j \in beyond : k <= j)
                 ELSE LaySnap(moved, seg)

(* setCursorCol() *)
LayAt(line, col) == [line |-> line, col |-> col, pref |-> -1, snap |-> -1]

LayMapNow == LayMap(layLines, layWidth)
LayRow(map, s) == LayRowAt(map, s.line, s.col)
LayLineOf(s) == layLines[s.line]

LayUp(map, s) ==
    LET row == LayRow(map, s) IN IF row = 1 THEN LayAt(s.line, 0) ELSE LayMove(map, s, row, row - 1)
LayDown(map, s) ==
    LET row == LayRow(map, s)
    IN  IF row = Len(map) THEN LayAt(s.line, Len(LayLineOf(s))) ELSE LayMove(map, s, row, row + 1)
LayPage(map, s, rows) ==
    LET row == LayRow(map, s) IN LayMove(map, s, row, LayClamp(row + rows, 1, Len(map)))

LaySegment(s, P(_)) == CHOOSE seg \in Range(LaySegments(LayLineOf(s))) : P(seg)
LayRight(map, s) ==
    IF s.col < Len(LayLineOf(s)) THEN LayAt(s.line, LaySegment(s, LAMBDA seg : seg.from = s.col).to)
    ELSE IF s.line < Len(layLines) THEN LayAt(s.line + 1, 0)
    ELSE [s EXCEPT !.pref = s.col - map[LayRow(map, s)].from]
LayLeft(s) ==
    IF s.col > 0 THEN LayAt(s.line, LaySegment(s, LAMBDA seg : seg.to = s.col).from)
    ELSE IF s.line > 1 THEN LayAt(s.line - 1, Len(layLines[s.line - 1])) ELSE s

LayKeys(map, s) ==
    {LayUp(map, s), LayDown(map, s), LayPage(map, s, -LayRows), LayPage(map, s, LayRows),
     LayLeft(s), LayRight(map, s), LayAt(s.line, 0), LayAt(s.line, Len(LayLineOf(s)))}

-----------------------------------------------------------------------------
LayInit ==
    /\ layLines \in LayTexts /\ layWidth \in LayWidths
    /\ layCursor = LayAt(Len(layLines), Len(layLines[Len(layLines)]))
    /\ layScroll = 0 /\ layRendered = FALSE

LayKey ==
    /\ \E map \in {LayMapNow} : layCursor' \in LayKeys(map, layCursor)
    /\ layRendered' = FALSE
    /\ UNCHANGED <<layLines, layWidth, layScroll>>

(* render(): lay out for this width, then scroll no further than the cursor needs. *)
LayScrolled_Late(offset, row) == IF row < offset THEN row ELSE IF row > offset + LayRows THEN row - LayRows + 1 ELSE offset
LayScrolled(offset, row) == IF row < offset THEN row ELSE IF row >= offset + LayRows THEN row - LayRows + 1 ELSE offset

LayCursorRows(map) == {i \in 1 .. Len(map) : LayShowsCursor(map, i, layCursor)}
LayFirst(rows) == IF rows = {} THEN 1 ELSE CHOOSE i \in rows : \A j \in rows : i <= j

LayRender ==
    \E w \in LayWidths : \E map \in {LayMap(layLines, w)} : \E row \in {LayFirst(LayCursorRows(map))} :
        /\ layWidth' = w
        /\ layScroll' = LayClamp(LayScrolled(layScroll, row - 1), 0, LayClamp(Len(map) - LayRows, 0, Len(map)))
        /\ layRendered' = TRUE /\ UNCHANGED <<layLines, layCursor>>

LayNext == LayKey \/ LayRender

-----------------------------------------------------------------------------
LayTypeOK ==
    /\ layLines \in LayTexts /\ layWidth \in LayWidths /\ layScroll \in Nat /\ layRendered \in BOOLEAN
    /\ layCursor.line \in 1 .. Len(layLines) /\ layCursor.col \in LayIndices(layLines[layCursor.line])
    /\ layCursor.pref \in Int /\ layCursor.snap \in Int

(* Word wrap loses and repeats nothing and stays within the width: the chunks of
   a line follow one another from its start to its end, none wider than it.  *)
WrapCovers ==
    \A i \in 1 .. Len(layLines) : LET chunks == LayWrap(layLines[i], layWidth) IN
        /\ chunks[1].from = 0 /\ chunks[Len(chunks)].to = Len(layLines[i])
        /\ \A j \in 2 .. Len(chunks) : chunks[j].from = chunks[j - 1].to
        /\ \A j \in 1 .. Len(chunks) : LayColumns(layLines[i], chunks[j].from, chunks[j].to) <= layWidth

(* layoutText() and findVisualLineAt() place the cursor by different rules: the
   row drawn with the cursor is one only, and the one the keys start from.   *)
CursorDrawnOnce == \A map \in {LayMapNow} : LayCursorRows(map) = {LayRow(map, layCursor)}

(* The cursor's row is on the screen after every render, whatever resizes and
   moves there were since the last one.                                     *)
CursorVisible == layRendered => LayRow(LayMapNow, layCursor) - 1 \in layScroll .. layScroll + LayRows - 1

(* "the cursor never lands in the middle of a multi-grapheme unit" *)
NeverInsideMarker == \A seg \in LayMarkerAt(layLines[layCursor.line], layCursor.col) : layCursor.col = seg.from

(* Up after down leads back: a column is kept through shorter rows and over
   wrapped lines, in text without markers.                                  *)
LayMarked == \E i \in 1 .. Len(layLines) : "[" \in Range(layLines[i])
DownUpReturns ==
    ~LayMarked /\ layCursor.pref = -1 =>
        \A map \in {LayMapNow} : LayRow(map, layCursor) < Len(map) =>
            \A down \in {LayDown(map, layCursor)} : \A back \in {LayUp(map, down)} :
                back.line = layCursor.line /\ back.col = layCursor.col

(* Down gets on: from any row but the last it moves the cursor forward in the
   text, past the rest of a marker it has shown once; unless the last row is the
   rest of a marker, which down never enters.                               *)
LayBefore(s, t) == s.line < t.line \/ (s.line = t.line /\ s.col < t.col)
LayEndsInMarker(map) == \E seg \in LayMarkerAt(Last(layLines), map[Len(map)].from) : seg.from < map[Len(map)].from
DownMovesOn ==
    \A map \in {LayMapNow} :
        LayRow(map, layCursor) < Len(map) /\ ~LayEndsInMarker(map) => LayBefore(layCursor, LayDown(map, layCursor))

(* Whatever the text and the width, the rows show all of the text and the cursor
   once, and moving over them stays out of markers and makes progress.     *)
LayoutSafe ==
    /\ LayTypeOK
    /\ WrapCovers /\ CursorDrawnOnce /\ CursorVisible
    /\ NeverInsideMarker /\ DownUpReturns /\ DownMovesOn
=============================================================================
