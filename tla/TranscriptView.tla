--------------------------- MODULE TranscriptView ---------------------------
(***************************************************************************)
(* The fullscreen mode of packages/tui: FullscreenViewport (fullscreen.ts),*)
(* a window over the transcript above a dock, and the mouse and keys that  *)
(* scroll it and select text in it (tui.ts, handleFullscreenInput() and    *)
(* the autoscroll timer).                                                  *)
(*                                                                         *)
(* A transcript line is a number, fresh for every line that is appended;   *)
(* positions in it and rows of the screen count from 0.  Table and frame   *)
(* selections, images and overlays are left out.                           *)
(***************************************************************************)
EXTENDS Integers, Sequences, SequencesExt, FiniteSets

CONSTANTS
    TvHeights,   \* rows the terminal may have
    TvDocks,     \* lines the dock may render
    TvMaxLines,  \* bound: lines ever appended
    TvMaxSteps   \* bound: what the user, the terminal and the agent do between them

ASSUME TvAssumption == TvHeights \subseteq Nat /\ TvDocks \subseteq Nat /\ TvMaxLines \in Nat /\ TvMaxSteps \in Nat

VARIABLES
    tvText,      \* the transcript as the components render it now
    tvHeight, tvDock,
    tvView,      \* scrollTop, following, lastMaxScroll, lastWindowHeight, lastTranscript
    tvSel,       \* selectionAnchor and selectionHead; line: history, what was under the mouse
    tvAuto,      \* selectionAutoScrollDirection, 0 without a timer
    tvAutoRow,   \* selectionAutoScrollRow
    tvPrev,      \* prevFrame with prevHeight
    tvScreen,    \* the alternate screen's rows
    tvPending,   \* a render is requested
    tvScrolled,  \* history: the view has been scrolled since the last frame
    tvShifted,   \* history: lines removed since the frame that the selection began on
    tvResized,   \* history: resized and back to the painted height without a render between
    tvNext, tvSteps

tvVars == <<tvText, tvHeight, tvDock, tvView, tvSel, tvAuto, tvAutoRow, tvPrev, tvScreen, tvPending, tvScrolled, tvShifted, tvResized, tvNext, tvSteps>>
tvOutside == <<tvText, tvHeight, tvDock, tvNext>>
tvPaint == <<tvPrev, tvScreen, tvResized>>
tvCauses == <<tvScrolled, tvShifted>>

TvMax(a, b) == IF a > b THEN a ELSE b
TvMin(a, b) == IF a < b THEN a ELSE b
TvClamp(n, top) == TvMax(0, TvMin(n, top))

TvNone == [on |-> FALSE]
TvBlank == [text |-> 0, marked |-> FALSE]
TvDockRow == [text |-> -1, marked |-> FALSE]
TvJunk == [text |-> -2, marked |-> FALSE]
TvMinTranscript == 3

-----------------------------------------------------------------------------
(* A selection is from the anchor to the head, whichever is first; a click
   alone selects nothing.  Columns are left out: a drag changes the column. *)
TvIsSelection(s) == s.on /\ (s.anchor # s.head \/ s.moved)
TvSpan(s) == IF TvIsSelection(s) THEN TvMin(s.anchor, s.head) .. TvMax(s.anchor, s.head) ELSE {}
TvSelected == {tvView.lines[i + 1] : i \in {j \in TvSpan(tvSel) : j < Len(tvView.lines)}}

(* composeFrame(): the dock's last lines below the window. *)
TvDockHeight == TvMin(tvDock, TvMax(0, tvHeight - TvMinTranscript))
TvTopAt_Always(maxTop) == maxTop
TvTopAt(maxTop) == IF tvView.following THEN maxTop ELSE TvClamp(tvView.top, maxTop)

TvComposed ==
    LET window == tvHeight - TvDockHeight
        maxTop == TvMax(0, Len(tvText) - window)
    IN  [top |-> TvTopAt(maxTop), following |-> tvView.following, maxTop |-> maxTop, window |-> window, lines |-> tvText]

TvMarkedAt(view, row) == view.top + row - 1 \in TvSpan(tvSel)
TvFrame(view) ==
    [row \in 1 .. tvHeight |->
        IF row > view.window THEN TvDockRow
        ELSE IF view.top + row > Len(view.lines) THEN TvBlank
        ELSE [text |-> view.lines[view.top + row], marked |-> TvMarkedAt(view, row)]]

(* paint(): only rows that differ from the previous frame, unless the size changed. *)
TvPainted(frame) ==
    LET known == Len(tvPrev) = tvHeight
    IN  [row \in 1 .. tvHeight |-> IF known /\ tvPrev[row] = frame[row] THEN tvScreen[row] ELSE frame[row]]

(* renderFullscreen() *)
TvRender ==
    /\ tvPending
    /\ tvView' = TvComposed
    /\ tvPrev' = TvFrame(tvView')
    /\ tvScreen' = TvPainted(tvPrev')
    /\ tvPending' = FALSE /\ tvScrolled' = FALSE
    /\ tvShifted' = (tvShifted /\ tvSel.on)
    /\ tvResized' = (tvResized /\ Len(tvPrev) = tvHeight)
    /\ UNCHANGED <<tvOutside, tvSel, tvAuto, tvAutoRow, tvSteps>>

-----------------------------------------------------------------------------
TvStep == tvSteps < TvMaxSteps /\ tvSteps' = tvSteps + 1

(* Output arrives, or the last or another line of the transcript goes away. *)
TvAppend ==
    /\ TvStep /\ tvNext <= TvMaxLines
    /\ tvText' = Append(tvText, tvNext) /\ tvNext' = tvNext + 1
    /\ tvPending' = TRUE
    /\ UNCHANGED <<tvHeight, tvDock, tvView, tvSel, tvAuto, tvAutoRow, tvPaint, tvCauses>>

TvRemove ==
    /\ TvStep
    /\ \E i \in DOMAIN tvText : tvText' = RemoveAt(tvText, i)
    /\ tvPending' = TRUE /\ tvShifted' = TRUE
    /\ UNCHANGED <<tvHeight, tvDock, tvNext, tvView, tvSel, tvAuto, tvAutoRow, tvPaint, tvScrolled>>

(* The dock changes its height, or the window does and the screen is lost;
   requestRender(true) repaints all of it.                                *)
TvLayout(height, dock) ==
    /\ TvStep /\ <<height, dock>> # <<tvHeight, tvDock>>
    /\ tvHeight' = height /\ tvDock' = dock
    /\ tvScreen' = IF height = tvHeight THEN tvScreen ELSE [row \in 1 .. height |-> TvJunk]
    /\ tvResized' = (height = Len(tvPrev) /\ (height # tvHeight \/ tvResized))
    /\ tvPending' = TRUE
    /\ UNCHANGED <<tvText, tvNext, tvView, tvSel, tvAuto, tvAutoRow, tvPrev, tvCauses>>

TvReset ==
    /\ TvStep
    /\ tvPrev' = <<>> /\ tvScreen' = [row \in 1 .. tvHeight |-> TvJunk] /\ tvResized' = FALSE
    /\ tvPending' = TRUE
    /\ UNCHANGED <<tvOutside, tvView, tvSel, tvAuto, tvAutoRow, tvCauses>>

-----------------------------------------------------------------------------
(* scrollBy(): following pauses above the end and resumes there. *)
TvFollows(top) == top >= tvView.maxTop
TvScrolled(delta) ==
    LET top == TvClamp((IF tvView.following THEN tvView.maxTop ELSE tvView.top) + delta, tvView.maxTop)
    IN  [tvView EXCEPT !.top = top, !.following = TvFollows(top)]

(* The wheel and the keys; both stop the autoscroll.  One line stands for the wheel's three. *)
TvScrollTo(view) ==
    /\ TvStep
    /\ tvView' = view
    /\ tvScrolled' = (tvScrolled \/ view.top # tvView.top)
    /\ tvAuto' = 0 /\ tvPending' = TRUE
    /\ UNCHANGED <<tvOutside, tvSel, tvAutoRow, tvPaint, tvShifted>>

TvPage == TvMax(1, tvView.window - 1)
TvScroll ==
    \/ \E delta \in {-TvPage, -1, 1, TvPage} : TvScrollTo(TvScrolled(delta))
    \/ TvScrollTo([tvView EXCEPT !.top = 0, !.following = (tvView.maxTop = 0)])
    \/ TvScrollTo([tvView EXCEPT !.top = tvView.maxTop, !.following = TRUE])

(* Any other key stops the autoscroll, too. *)
TvOtherKey ==
    /\ tvAuto # 0 /\ tvAuto' = 0
    /\ UNCHANGED <<tvOutside, tvView, tvSel, tvAutoRow, tvPaint, tvPending, tvCauses, tvSteps>>

(* transcriptLineForScreenRow(), with and without clamping to the window. *)
TvLineAt(view, row) == view.top + TvClamp(row, view.window - 1)

(* The line under the mouse: what the screen has there or, in the moment between a
   scroll and its frame, what the scroll has brought there.                *)
TvUnder(row) ==
    IF ~tvScrolled THEN tvScreen[row + 1].text
    ELSE IF tvView.top + row < Len(tvView.lines) THEN tvView.lines[tvView.top + row + 1] ELSE 0

TvPress(row) ==
    /\ TvStep /\ row < tvHeight /\ tvView.window > 0
    /\ tvSel' = IF row < tvView.window
                THEN [on |-> TRUE, anchor |-> TvLineAt(tvView, row), head |-> TvLineAt(tvView, row), moved |-> FALSE,
                      line |-> TvUnder(row)]
                ELSE TvNone
    /\ tvShifted' = (tvPending /\ tvShifted)
    /\ tvAuto' = 0 /\ tvPending' = TRUE
    /\ UNCHANGED <<tvOutside, tvView, tvAutoRow, tvPaint, tvScrolled>>

TvExtended(sel, view, row) == [sel EXCEPT !.head = TvLineAt(view, row), !.moved = TRUE]

(* selectionAutoScrollDirection() *)
TvDirection(sel, view, row) ==
    IF ~sel.on THEN 0
    ELSE IF sel.head < sel.anchor /\ row <= 0 /\ view.top > 0 THEN -1
    ELSE IF sel.head > sel.anchor /\ row >= view.window - 1 /\ view.top < view.maxTop THEN 1
    ELSE 0

TvDrag(row) ==
    /\ TvStep /\ row < tvHeight
    /\ tvSel' = IF tvSel.on THEN TvExtended(tvSel, tvView, row) ELSE tvSel
    /\ tvAuto' = TvDirection(tvSel', tvView, row)
    /\ tvAutoRow' = row /\ tvPending' = TRUE
    /\ UNCHANGED <<tvOutside, tvView, tvPaint, tvCauses>>

(* The button is released: the selection is copied and gone. *)
TvAutoAfter == 0
TvRelease ==
    /\ TvStep
    /\ tvSel' = TvNone /\ tvAuto' = TvAutoAfter
    /\ tvPending' = (tvPending \/ TvIsSelection(tvSel))
    /\ UNCHANGED <<tvOutside, tvView, tvAutoRow, tvPaint, tvCauses>>

(* The autoscroll timer: one line on, with the head at the window's edge. *)
TvEdge(view) == IF tvAuto = -1 THEN 0 ELSE view.window - 1
TvTick ==
    /\ tvAuto # 0
    /\ LET next == TvScrolled(tvAuto)
           goesOn == TvDirection(tvSel, tvView, tvAutoRow) = tvAuto /\ next.top # tvView.top
       IN  IF goesOn
           THEN /\ tvView' = next
                /\ tvSel' = TvExtended(tvSel, next, TvEdge(next))
                /\ tvPending' = TRUE /\ tvScrolled' = TRUE
                /\ UNCHANGED tvAuto
           ELSE tvAuto' = 0 /\ UNCHANGED <<tvView, tvSel, tvPending, tvScrolled>>
    /\ UNCHANGED <<tvOutside, tvAutoRow, tvPaint, tvShifted, tvSteps>>

TvInit ==
    /\ \E n \in 0 .. TvMaxLines : tvText = [i \in 1 .. n |-> i] /\ tvNext = n + 1
    /\ tvHeight \in TvHeights /\ tvDock \in TvDocks
    /\ tvView = [top |-> 0, following |-> TRUE, maxTop |-> 0, window |-> 0, lines |-> <<>>]
    /\ tvSel = TvNone /\ tvAuto = 0 /\ tvAutoRow = 0
    /\ tvPrev = <<>> /\ tvScreen = [row \in 1 .. tvHeight |-> TvJunk]
    /\ tvPending = TRUE /\ tvScrolled = FALSE /\ tvShifted = FALSE /\ tvResized = FALSE /\ tvSteps = 0

TvNext ==
    \/ TvRender \/ TvAppend \/ TvRemove \/ TvReset \/ TvScroll \/ TvOtherKey \/ TvRelease \/ TvTick
    \/ \E height \in TvHeights, dock \in TvDocks : TvLayout(height, dock)
    \/ \E row \in 0 .. 9 : TvPress(row) \/ TvDrag(row)

TvSpec == TvInit /\ [][TvNext]_tvVars

-----------------------------------------------------------------------------
(* Types; the window lies in the transcript of the last frame. *)
TvTypeOK ==
    /\ tvView.top \in 0 .. tvView.maxTop /\ tvView.maxTop <= TvMax(0, Len(tvView.lines) - tvView.window)
    /\ tvAuto \in {-1, 0, 1}

(* The rows that paint() skipped show what the frame has there: after every
   render the screen is the frame, through scrolls, resizes and resets.
   Two resizes that end at the painted size without a render between do
   leave rows that paint() believes are there: tvResized excepts them.     *)
ScreenIsFrame == ~tvPending /\ ~tvResized => tvScreen = TvFrame(tvView)

(* What would be copied is what is highlighted: the marked rows are the
   selected lines that are in the window.                                  *)
MarkedIsSelected ==
    ~tvPending /\ ~tvResized => {tvScreen[row].text : row \in {r \in 1 .. tvHeight : tvScreen[r].marked}}
                      = {tvScreen[row].text : row \in 1 .. tvView.window} \cap TvSelected

(* "streaming appends and scrolling never shift what is selected": the
   selection goes on from the line that was under the mouse when it began,
   through wheel, keys, autoscroll and output.  Only lines that go away from the
   transcript move it (tvShifted): the anchor is a position.               *)
SelectionAnchored ==
    tvSel.on /\ ~tvShifted /\ tvSel.line > 0 => tvView.lines[tvSel.anchor + 1] = tvSel.line

(* The autoscroll timer runs only while there is a selection to extend. *)
AutoScrollSelects == tvAuto # 0 => TvIsSelection(tvSel)

(* "it stays frozen while content appends": a reader's window keeps its first
   line, and one that follows ends with the last line.                     *)
WindowFrozen ==
    [][TvRender /\ IsPrefix(tvView.lines, tvText) /\ tvView.window = tvView'.window =>
           IF tvView.following THEN tvView'.top = tvView'.maxTop ELSE tvView'.top = tvView.top]_tvVars

(* What is painted, what is marked and what would be copied agree, whatever
   scrolls, resizes, appends and timers come between two renders.          *)
TranscriptSafe ==
    /\ TvTypeOK
    /\ ScreenIsFrame /\ MarkedIsSelected
    /\ SelectionAnchored /\ AutoScrollSelects

(* What is painted and selected is what the transcript says, and it stays in
   place under a reader.                                                   *)
TranscriptReads == []TranscriptSafe /\ WindowFrozen
=============================================================================
