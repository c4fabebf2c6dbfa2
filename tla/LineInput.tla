------------------------------ MODULE LineInput ------------------------------
(***************************************************************************)
(* The single-line input of packages/tui (components/input.ts), used by    *)
(* the search of the settings list: its value, cursor, kill ring, undo     *)
(* stack and pastes, and the window of columns it shows of a long value.   *)
(*                                                                         *)
(* A cell is a grapheme: "a" and "W" are word characters one and two       *)
(* columns wide.  The cursor counts the cells before it.                   *)
(***************************************************************************)
EXTENDS Integers, Sequences, SequencesExt

CONSTANTS
    LiRings,       \* kill rings the session may have collected before
    LiPastes,      \* texts pasted, "nl" and "tab" among their cells
    LiWidths,      \* widths the line is rendered at
    LiMaxSteps, LiMaxCells   \* bounds: keys handled, cells of the value

LiCell == {"a", "W", ".", " "}
ASSUME LiAssumption ==
    /\ LiRings \subseteq Seq(Seq(LiCell))
    /\ LiPastes \subseteq Seq(LiCell \cup {"nl", "tab"})
    /\ LiWidths \subseteq Nat \ {0}

VARIABLES
    liValue, liCursor, liRing, liLast, liUndo,   \* value, cursor, kill ring (newest last), lastAction, undo stack
    liRun,         \* history: the value when the current run of kills began
    liAround,      \* history: the value before and after what was yanked
    liSteps

liGhost == <<liRun, liAround>>
liVars == <<liValue, liCursor, liRing, liLast, liUndo, liGhost, liSteps>>

LiBefore == SubSeq(liValue, 1, liCursor)
LiAfter == SubSeq(liValue, liCursor + 1, Len(liValue))
LiSnapshot == [value |-> liValue, cursor |-> liCursor]
LiPush == Append(liUndo, LiSnapshot)

-----------------------------------------------------------------------------
LiClass(cell) == CASE cell = " " -> "space" [] cell = "." -> "punctuation" [] OTHER -> "word"

(* moveWordForwards(): white space, then a run of one class. *)
LiWordLength(cells) ==
    LET start == Min({n \in 0 .. Len(cells) : n < Len(cells) => LiClass(cells[n + 1]) # "space"})
    IN  Min({n \in start .. Len(cells) : n < Len(cells) => LiClass(cells[n + 1]) # LiClass(cells[start + 1])})
LiWordRight == liCursor + LiWordLength(LiAfter)
(* moveWordBackwards() *)
LiWordLeft == liCursor - LiWordLength(Reverse(LiBefore))

-----------------------------------------------------------------------------
LiStep == liSteps < LiMaxSteps /\ liSteps' = liSteps + 1
LiGhostStays == UNCHANGED liGhost

(* A change that is neither a kill nor a yank. *)
LiEdit(value, cursor, last, undo) ==
    /\ LiStep /\ Len(value) <= LiMaxCells
    /\ liValue' = value /\ liCursor' = cursor /\ liLast' = last /\ liUndo' = undo
    /\ UNCHANGED liRing /\ LiGhostStays
LiMoveTo(cursor) == LiEdit(liValue, cursor, "none", liUndo)

(* insertCharacter(): word characters typed in a row share a snapshot. *)
LiType(cell) ==
    LiEdit(LiBefore \o <<cell>> \o LiAfter, liCursor + 1, "type-word",
           IF cell = " " \/ liLast # "type-word" THEN LiPush ELSE liUndo)

(* handlePaste() *)
LiClean(text) == FlattenSeq([i \in DOMAIN text |-> IF text[i] = "nl" THEN <<>> ELSE IF text[i] = "tab" THEN <<" ", " ">> ELSE <<text[i]>>])
LiPaste(text) == LiEdit(LiBefore \o LiClean(text) \o LiAfter, liCursor + Len(LiClean(text)), "none", LiPush)

LiBackspace ==
    IF liCursor > 0 THEN LiEdit(Front(LiBefore) \o LiAfter, liCursor - 1, "none", LiPush)
    ELSE LiMoveTo(liCursor)
LiForwardDelete ==
    IF liCursor < Len(liValue) THEN LiEdit(LiBefore \o Tail(LiAfter), liCursor, "none", LiPush)
    ELSE LiMoveTo(liCursor)

(* KillRing.push(): a run of kills is one entry. *)
LiRingWith_Appended(text, prepend) ==
    IF liLast = "kill" /\ liRing # <<>> THEN Append(Front(liRing), Last(liRing) \o text) ELSE Append(liRing, text)
LiRingWith(text, prepend) ==
    IF liLast = "kill" /\ liRing # <<>>
    THEN Append(Front(liRing), IF prepend THEN text \o Last(liRing) ELSE Last(liRing) \o text)
    ELSE Append(liRing, text)
LiKill(from, to, prepend) ==
    /\ LiStep
    /\ liRing' = LiRingWith(SubSeq(liValue, from + 1, to), prepend)
    /\ liValue' = SubSeq(liValue, 1, from) \o SubSeq(liValue, to + 1, Len(liValue))
    /\ liCursor' = from /\ liLast' = "kill" /\ liUndo' = LiPush
    /\ liRun' = IF liLast = "kill" THEN liRun ELSE liValue
    /\ UNCHANGED liAround
LiDeleteToLineStart == liCursor > 0 /\ LiKill(0, liCursor, TRUE)
LiDeleteToLineEnd == liCursor < Len(liValue) /\ LiKill(liCursor, Len(liValue), FALSE)
LiDeleteWordBackwards == liCursor > 0 /\ LiKill(LiWordLeft, liCursor, TRUE)
LiDeleteWordForward == liCursor < Len(liValue) /\ LiKill(liCursor, LiWordRight, FALSE)

LiYank ==
    /\ liRing # <<>> /\ LiStep
    /\ Len(liValue) + Len(Last(liRing)) <= LiMaxCells
    /\ liValue' = LiBefore \o Last(liRing) \o LiAfter
    /\ liCursor' = liCursor + Len(Last(liRing))
    /\ liLast' = "yank" /\ liUndo' = LiPush
    /\ liAround' = <<LiBefore, LiAfter>>
    /\ UNCHANGED <<liRing, liRun>>

(* yankPop(): counts the length of the newest entry back from the cursor. *)
LiRotated == <<Last(liRing)>> \o Front(liRing)
LiYankPop ==
    /\ liLast = "yank" /\ Len(liRing) > 1 /\ LiStep
    /\ LET kept == SubSeq(liValue, 1, liCursor - Len(Last(liRing)))
           text == Last(LiRotated)
       IN  /\ Len(kept \o text \o LiAfter) <= LiMaxCells
           /\ liValue' = kept \o text \o LiAfter
           /\ liCursor' = Len(kept \o text)
    /\ liRing' = LiRotated /\ liUndo' = LiPush
    /\ UNCHANGED <<liLast, liGhost>>

LiUndoKey ==
    /\ liUndo # <<>>
    /\ LiEdit(Last(liUndo).value, Last(liUndo).cursor, "none", Front(liUndo))

(* What else a key may do: the cursor, and nothing where there is nowhere to go. *)
LiCursorLeft == LiMoveTo(IF liCursor > 0 THEN liCursor - 1 ELSE 0)
LiCursorRight == LiMoveTo(IF liCursor < Len(liValue) THEN liCursor + 1 ELSE liCursor)
LiLineStart == LiMoveTo(0)
LiLineEnd == LiMoveTo(Len(liValue))
LiCursorWordLeft == liCursor > 0 /\ LiMoveTo(LiWordLeft)
LiCursorWordRight == liCursor < Len(liValue) /\ LiMoveTo(LiWordRight)

LiInit ==
    /\ liValue = <<>> /\ liCursor = 0 /\ liRing \in LiRings /\ liLast = "none" /\ liUndo = <<>>
    /\ liRun = <<>> /\ liAround = <<<<>>, <<>>>> /\ liSteps = 0

(* handleInput(); cancelling and submitting change nothing here. *)
LiNext ==
    \/ \E cell \in LiCell : LiType(cell)
    \/ \E text \in LiPastes : LiPaste(text)
    \/ LiUndoKey \/ LiBackspace \/ LiForwardDelete
    \/ LiDeleteWordBackwards \/ LiDeleteWordForward \/ LiDeleteToLineStart \/ LiDeleteToLineEnd
    \/ LiYank \/ LiYankPop
    \/ LiCursorLeft \/ LiCursorRight \/ LiLineStart \/ LiLineEnd \/ LiCursorWordLeft \/ LiCursorWordRight

LiSpec == LiInit /\ [][LiNext]_liVars

-----------------------------------------------------------------------------
(* render(): the columns of the value that are shown, and the cursor in them. *)
LiWidth(cells) == Len(cells) + Cardinality({i \in DOMAIN cells : cells[i] = "W"})
LiColumn(i) == LiWidth(SubSeq(liValue, 1, i))   \* the columns of the first i cells

(* sliceByColumn(.., strict): the cells that lie wholly between two columns. *)
LiFrom(column) == Min({i \in 0 .. Len(liValue) : LiColumn(i) >= column})
LiUpTo(column) == Max({i \in 0 .. Len(liValue) : LiColumn(i) <= column})
LiSlice(from, to) == SubSeq(liValue, LiFrom(from) + 1, LiUpTo(to))

LiScrollWidth(room) == IF liCursor = Len(liValue) THEN room - 1 ELSE room
LiStartColumn(width) ==
    LET column == LiColumn(liCursor)
        total == LiWidth(liValue)
        half == width \div 2
    IN  IF column < half THEN 0
        ELSE IF column > total - half THEN (IF total > width THEN total - width ELSE 0)
        ELSE column - half
LiView(room) ==
    LET width == LiScrollWidth(room)
        start == LiStartColumn(width)
    IN  IF LiWidth(liValue) < room THEN [text |-> liValue, cursor |-> liCursor]
        ELSE IF width <= 0 THEN [text |-> <<>>, cursor |-> 0]
        ELSE [text |-> LiSlice(start, start + width),
              cursor |-> Len(LiSlice(start, LiColumn(liCursor)))]

(* The value with the cursor on a cell, or on a blank after the end. *)
LiAtCursor(view) == IF view.cursor < Len(view.text) THEN view.text[view.cursor + 1] ELSE " "
LiShown(view) == IF view.cursor < Len(view.text) THEN view.text ELSE Append(view.text, " ")

-----------------------------------------------------------------------------
(* A run of kills, forwards and backwards, is one entry of the ring, in the
   order of the text: put back at the cursor it restores the line.         *)
LiKillsRestore == liLast = "kill" => LiBefore \o Last(liRing) \o LiAfter = liRun

(* A yank, however often it is popped, leaves the text around it alone. *)
LiYankStaysPut ==
    liLast = "yank" => liValue = liAround[1] \o Last(liRing) \o liAround[2] /\ liCursor = Len(liAround[1]) + Len(Last(liRing))

(* Undo goes all the way back, and to no place outside its value. *)
LiUndoable ==
    /\ \A i \in DOMAIN liUndo : liUndo[i].cursor \in 0 .. Len(liUndo[i].value)
    /\ IF liUndo = <<>> THEN liValue = <<>> ELSE liUndo[1].value = <<>>

(* However wide the cells, the line never overflows its row, and the cursor
   stands on its own cell wherever there is room for one.                  *)
LiShowsCursor ==
    \A room \in LiWidths :
        LET view == LiView(room)
        IN  /\ LiWidth(LiShown(view)) <= room
            /\ room >= 4 => LiAtCursor(view) = IF liCursor < Len(liValue) THEN liValue[liCursor + 1] ELSE " "

(* Whatever keys are pressed, in whatever order, the input loses no text that
   it says it keeps and shows where the next character goes.               *)
LineInputSafe ==
    /\ liCursor \in 0 .. Len(liValue)
    /\ LiKillsRestore /\ LiYankStaysPut /\ LiUndoable /\ LiShowsCursor
=============================================================================
