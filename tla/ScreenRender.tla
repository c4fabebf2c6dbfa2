---------------------------- MODULE ScreenRender ----------------------------
(***************************************************************************)
(* The inline renderer of packages/tui (tui.ts, doRender()): what it       *)
(* writes to bring the terminal from the lines rendered before to the new  *)
(* ones, and what it remembers of the screen.  The terminal itself is      *)
(* modelled too: rows, a cursor that stops at the edges, scrollback.       *)
(*                                                                         *)
(* A line is a class of text; "e" is an empty one.  Columns, Kitty images, *)
(* PI_CLEAR_ON_SHRINK (off) and Termux are left out.  Rows count from 0.   *)
(***************************************************************************)
EXTENDS Integers, Sequences

CONSTANTS
    ScTexts,      \* what a line may say
    ScContents,   \* what the components may render
    ScHeights,    \* rows the terminal may have
    ScKept,       \* rows of scrollback that are looked at: bound
    ScMaxResizes  \* bound

(* The components always render something: the session shows its editor. *)
ASSUME ScAssumption ==
    /\ ScContents \subseteq Seq(ScTexts) \ {<<>>} /\ "none" \notin ScTexts
    /\ ScHeights \subseteq Nat \ {0} /\ ScKept \in Nat \ {0} /\ ScMaxResizes \in Nat

VARIABLES
    scTerm,     \* the terminal: [rows, at, above]: rows, cursor row, scrollback
    scPrev,     \* previousLines
    scHw,       \* hardwareCursorRow
    scTop,      \* previousViewportTop
    scStale,    \* the width or height differs from the previous one, or a forced render waits
    scFullscreen, \* on the alternate screen; the variables above are inlineState then
    scRunning,  \* not stopped
    scSeen,     \* previousHeight
    scLost,     \* history: the cursor was sent above the viewport, or rows moved that nobody noticed
    scJumped,   \* history: lines changed that had scrolled away, or they are shown again
    scResizes

scVars == <<scTerm, scPrev, scHw, scTop, scStale, scFullscreen, scRunning, scSeen, scLost, scJumped, scResizes>>

ScMax(a, b) == IF a > b THEN a ELSE b
ScMin(a, b) == IF a < b THEN a ELSE b
ScBlank == "e"
ScJunk == "junk"   \* what is left of a row that was resized or written over

-----------------------------------------------------------------------------
(* The terminal. *)
ScHeight == Len(scTerm.rows)
ScUp(t, n) == [t EXCEPT !.at = ScMax(0, @ - n)]
ScDown(t, n) == [t EXCEPT !.at = ScMin(Len(t.rows) - 1, @ + n)]
ScMove(t, n) == IF n > 0 THEN ScDown(t, n) ELSE ScUp(t, -n)
ScTail(rows) == IF Len(rows) > ScKept THEN Tail(rows) ELSE rows
ScReturn(t) ==
    IF t.at < Len(t.rows) - 1 THEN [t EXCEPT !.at = @ + 1]
    ELSE [t EXCEPT !.rows = Append(Tail(@), ScBlank), !.above = ScTail(Append(@, Head(t.rows)))]
ScClearLine(t) == [t EXCEPT !.rows[t.at + 1] = ScBlank]
ScWrite(t, line) ==
    [t EXCEPT !.rows[t.at + 1] = IF @ = ScBlank THEN line ELSE IF line = ScBlank THEN @ ELSE ScJunk]
ScClearScreen(t) == [t EXCEPT !.rows = [i \in 1 .. Len(t.rows) |-> ScBlank], !.at = 0]

(* n line breaks; n rows below cleared, with a line break each or without. *)
ScReturns(t, n) == LET after[i \in 0 .. n] == IF i = 0 THEN t ELSE ScReturn(after[i - 1]) IN after[n]
ScReturnsCleared(t, n) == LET after[i \in 0 .. n] == IF i = 0 THEN t ELSE ScClearLine(ScReturn(after[i - 1])) IN after[n]
ScDownsCleared(t, n) == LET after[i \in 0 .. n] == IF i = 0 THEN t ELSE ScClearLine(ScDown(after[i - 1], 1)) IN after[n]

(* Lines from to to (counted from 0), each on a row of its own. *)
ScLine(t, line, first, clears) ==
    LET u == IF first THEN t ELSE ScReturn(t) IN ScWrite(IF clears THEN ScClearLine(u) ELSE u, line)
ScLines(t, lines, from, to, clears) ==
    LET after[i \in 0 .. to - from + 1] ==
            IF i = 0 THEN t ELSE ScLine(after[i - 1], lines[from + i], i = 1, clears)
    IN  after[to - from + 1]

-----------------------------------------------------------------------------
(* What a render leaves: the terminal, hardwareCursorRow, previousViewportTop. *)
ScOut(t, hw, top) == [term |-> t, hw |-> hw, top |-> top]

(* fullRender() with preserveViewport: rewrites the visible rows in place. *)
ScRepaint(lines) ==
    LET h == ScHeight
        start == ScMax(0, Len(lines) - h)
        shown == Len(lines) - start
        before == ScMin(h, Len(scPrev))
        up == ScMax(0, ScMin(before - 1, scHw - scTop))
        left == ScMax(0, before - ScMax(shown, 1))
        home == ScUp(scTerm, up)
        painted == ScLines(IF shown = 0 THEN ScClearLine(home) ELSE home, lines, start, Len(lines) - 1, TRUE)
        cleared == ScUp(ScReturnsCleared(painted, left), left)
    IN  ScOut(cleared, ScMax(0, Len(lines) - 1), start)

(* fullRender(): on a clean screen, or after clearing it. *)
ScRedrawFrom(lines, clear) == IF clear /\ scPrev # <<>> THEN ScMax(0, Len(lines) - ScHeight) ELSE 0
ScRedraw(lines, clear) ==
    ScOut(ScLines(IF clear THEN ScClearScreen(scTerm) ELSE scTerm, lines, ScRedrawFrom(lines, clear), Len(lines) - 1, FALSE),
          ScMax(0, Len(lines) - 1), ScMax(0, Len(lines) - ScHeight))

ScFull(lines, preserve) == IF preserve /\ scPrev # <<>> THEN ScRepaint(lines) ELSE ScRedraw(lines, TRUE)

-----------------------------------------------------------------------------
(* The difference between the lines before and now. *)
ScOldLine(i) == IF i <= Len(scPrev) THEN scPrev[i] ELSE "none"
ScNewLine(lines, i) == IF i <= Len(lines) THEN lines[i] ELSE "none"
ScChanged(lines) == {i \in 1 .. ScMax(Len(lines), Len(scPrev)) : ScOldLine(i) # ScNewLine(lines, i)}
ScFirst(lines) == (CHOOSE i \in ScChanged(lines) : \A j \in ScChanged(lines) : i <= j) - 1
ScLast(lines) == (CHOOSE i \in ScChanged(lines) : \A j \in ScChanged(lines) : i >= j) - 1

(* Only lines at the end are gone: they are cleared without scrolling. *)
ScDeleted(lines, preserve) ==
    LET target == ScMax(0, Len(lines) - 1)
        extra == Len(scPrev) - Len(lines)
        cleared == ScDownsCleared(ScMove(scTerm, target - scHw), extra)
    IN  IF target < scTop \/ extra > ScHeight THEN ScFull(lines, preserve)
        ELSE ScOut(ScUp(cleared, extra), target, scTop)

ScBelow(target) ==
    LET bottom == scTop + ScHeight - 1
        down == ScDown(scTerm, ScHeight - 1 - ScMax(0, ScMin(ScHeight - 1, scHw - scTop)))
    IN  IF target > bottom
        THEN [term |-> ScReturns(down, target - bottom), top |-> scTop + target - bottom]
        ELSE [term |-> ScMove(scTerm, target - scHw), top |-> scTop]

(* Rows of lines that are gone below the new ones. *)
ScTrimmed(t, lines, end) ==
    LET last == ScMax(end, Len(lines) - 1)
        extra == Len(scPrev) - Len(lines)
    IN  IF extra > 0
        THEN [term |-> ScUp(ScReturnsCleared(ScDown(t, last - end), extra), extra), at |-> last]
        ELSE [term |-> t, at |-> end]

ScPatched(lines) ==
    LET first == ScFirst(lines)
        end == ScMin(ScLast(lines), Len(lines) - 1)
        appends == Len(lines) > Len(scPrev) /\ first = Len(scPrev) /\ first > 0
        moved == ScBelow(IF appends THEN first - 1 ELSE first)
        written == ScLines(IF appends THEN ScReturn(moved.term) ELSE moved.term, lines, first, end, TRUE)
        done == ScTrimmed(written, lines, end)
    IN  ScOut(done.term, done.at, ScMax(moved.top, done.at - ScHeight + 1))

(* "Differential rendering can only touch what was actually visible." *)
ScAbove_Never(lines) == FALSE
ScAbove(lines) == ScFirst(lines) < scTop

ScRendered(lines, preserve) ==
    IF scPrev = <<>> /\ ~scStale THEN ScRedraw(lines, FALSE)
    ELSE IF scStale THEN ScRedraw(lines, TRUE)
    ELSE IF ScChanged(lines) = {} THEN ScOut(scTerm, scHw, scTop)
    ELSE IF ScFirst(lines) >= Len(lines) THEN ScDeleted(lines, preserve)
    ELSE IF ScAbove(lines)
    THEN ScFull(lines, preserve \/ (Len(lines) > ScHeight /\ Len(lines) >= Len(scPrev)))
    ELSE ScPatched(lines)

-----------------------------------------------------------------------------
(* positionHardwareCursor(): to the marker's row, -1 without one. *)
ScPlaced(out, row) ==
    IF row = -1 THEN out ELSE [out EXCEPT !.term = ScMove(@, row - out.hw), !.hw = row]

(* extractCursorPosition() looks for the marker in the last rows only. *)
ScMarkers(lines) == {-1} \cup (ScMax(0, Len(lines) - ScHeight) .. Len(lines) - 1)

ScSkips(lines) == scStale \/ \E i \in 1 .. scTop : ScOldLine(i) # ScNewLine(lines, i)

(* doRender() of new lines.  The scrollback is followed until scJumped, the
   rows until scLost.                                                     *)
ScFollowed(t, clamped, jumped) ==
    [rows |-> IF clamped THEN [i \in 1 .. Len(t.rows) |-> ScJunk] ELSE t.rows,
     at |-> IF clamped THEN 0 ELSE t.at,
     above |-> IF jumped THEN <<>> ELSE t.above]

ScDoRender(lines, row, preserve) ==
    LET out == ScRendered(lines, preserve)
        placed == ScPlaced(out, row)
    IN  /\ scJumped' = (scJumped \/ out.top < scTop \/ ScSkips(lines))
        /\ scLost' = ((scLost /\ ~scStale) \/ (row # -1 /\ row < out.top))
        /\ scTerm' = ScFollowed(placed.term, scLost', scJumped')
        /\ scHw' = placed.hw /\ scTop' = out.top
        /\ scPrev' = lines /\ scStale' = FALSE /\ scSeen' = ScHeight

ScRender(lines, row, preserve) ==
    /\ scRunning /\ ~scFullscreen
    /\ ScDoRender(lines, row, preserve)
    /\ UNCHANGED <<scFullscreen, scRunning, scResizes>>

(* requestRender(true): the screen is taken to be unknown. *)
ScForce ==
    /\ scRunning /\ ~scFullscreen /\ scResizes < ScMaxResizes /\ scResizes' = scResizes + 1
    /\ scStale' = TRUE /\ scHw' = 0 /\ scSeen' = -1
    /\ UNCHANGED <<scTerm, scPrev, scTop, scFullscreen, scRunning, scLost, scJumped>>

(* The window is resized: the terminal puts the rows wherever it likes.  A
   render compares sizes: what was undone by then it does not notice.      *)
ScResize(h, noticed) ==
    /\ noticed \/ h = scSeen
    /\ scRunning /\ scResizes < ScMaxResizes /\ scResizes' = scResizes + 1
    /\ scPrev # <<>>
    /\ \E at \in 0 .. h - 1 : scTerm' = [rows |-> [i \in 1 .. h |-> ScJunk], at |-> at, above |-> <<>>]
    /\ scStale' = noticed /\ scJumped' = TRUE
    /\ scLost' = (scLost \/ ~noticed)
    /\ UNCHANGED <<scPrev, scHw, scTop, scFullscreen, scRunning, scSeen>>

(* The alternate screen leaves this one alone.  On the way back the lines
   produced meanwhile are rendered against what was remembered.           *)
ScEnterFullscreen ==
    /\ scRunning /\ ~scFullscreen
    /\ scFullscreen' = TRUE
    /\ UNCHANGED <<scTerm, scPrev, scHw, scTop, scStale, scRunning, scSeen, scLost, scJumped, scResizes>>

ScExitFullscreen(lines, row, preserve) ==
    /\ scRunning /\ scFullscreen
    /\ scFullscreen' = FALSE
    /\ ScDoRender(lines, row, preserve)
    /\ UNCHANGED <<scRunning, scResizes>>

(* stop(): the shell goes on below the last line. *)
ScEnd == ScReturn(ScMove(scTerm, Len(scPrev) - scHw))
ScStop ==
    /\ scRunning /\ ~scFullscreen /\ scPrev # <<>>
    /\ scTerm' = ScEnd /\ scRunning' = FALSE
    /\ UNCHANGED <<scPrev, scHw, scTop, scStale, scFullscreen, scSeen, scLost, scJumped, scResizes>>

ScInit ==
    /\ \E h \in ScHeights : \E at \in 0 .. h - 1 :
           scTerm = [rows |-> [i \in 1 .. h |-> IF i <= at THEN ScJunk ELSE ScBlank], at |-> at, above |-> <<>>]
    /\ scPrev = <<>> /\ scHw = 0 /\ scTop = 0 /\ scStale = FALSE /\ scFullscreen = FALSE
    /\ scRunning = TRUE /\ scSeen = 0 /\ scLost = FALSE /\ scJumped = FALSE /\ scResizes = 0

ScNext ==
    \/ \E lines \in ScContents, preserve \in BOOLEAN : \E row \in ScMarkers(lines) :
           ScRender(lines, row, preserve) \/ ScExitFullscreen(lines, row, preserve)
    \/ \E h \in ScHeights, noticed \in BOOLEAN : ScResize(h, noticed)
    \/ ScForce \/ ScEnterFullscreen \/ ScStop

ScSpec == ScInit /\ [][ScNext]_scVars

-----------------------------------------------------------------------------
(* Types; the cursor is a row of the terminal. *)
ScTypeOK ==
    /\ Len(scTerm.rows) \in ScHeights /\ scTerm.at \in 0 .. Len(scTerm.rows) - 1
    /\ scPrev \in ScContents \cup {<<>>}
    /\ scHw \in Nat /\ scTop \in Nat

ScSettled == scRunning /\ ~scFullscreen /\ scPrev # <<>> /\ ~scStale /\ ~scLost

(* The row of the first visible line: the program may have been started below others. *)
ScOffset == scTerm.at - (scHw - scTop)

(* "hardwareCursorRow tracks actual terminal cursor position": the screen
   shows exactly the lines from previousViewportTop on and nothing below
   them, however little each render rewrote.                              *)
ScreenShowsLines ==
    ScSettled =>
        /\ ScOffset >= 0
        /\ scTop > 0 => ScOffset = 0
        /\ \A i \in 0 .. ScHeight - 1 - ScOffset :
               scTerm.rows[ScOffset + i + 1] = IF scTop + i < Len(scPrev) THEN scPrev[scTop + i + 1] ELSE ScBlank

(* While nothing above the window changed and it never moved back, the lines that left the window
   are the end of the scrollback, in order and as far as it goes: none is lost, none is repeated. *)
ScrollbackKeeps ==
    ScSettled /\ ~scJumped =>
        \A i \in 1 .. ScMin(ScKept, scTop) :
            i <= Len(scTerm.above) /\ scTerm.above[Len(scTerm.above) + 1 - i] = scPrev[scTop + 1 - i]

(* After stop() the shell's row is a blank one below all of the lines. *)
StopBelow ==
    ~scRunning /\ ~scStale /\ ~scLost =>
        /\ \A i \in scTerm.at + 1 .. ScHeight : scTerm.rows[i] = ScBlank
        /\ scTerm.at > 0 /\ Len(scPrev) > scTop + 1 =>
               \E i \in 1 .. scTerm.at : scTerm.rows[i] = scPrev[Len(scPrev)]

(* However little each render rewrites, the screen, the scrollback and the row the
   shell goes on from are what repainting everything would have left.      *)
ScreenSafe == ScTypeOK /\ ScreenShowsLines /\ ScrollbackKeeps /\ StopBelow
=============================================================================
