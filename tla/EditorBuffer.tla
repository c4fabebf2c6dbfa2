---------------------------- MODULE EditorBuffer ----------------------------
(***************************************************************************)
(* The prompt editor of packages/tui (components/editor.ts): its text,     *)
(* undo stack, kill ring, large pastes, history browsing and character     *)
(* jumps.  Layout and completion requests are EditorLayout and             *)
(* EditorCompletion.                                                       *)
(*                                                                         *)
(* A line is a sequence of cells.  A plain cell is a character class; a    *)
(* marker is two cells, its head and its tail.  One segment covers a paste *)
(* marker `[paste #id ...]` while `id` is a live paste, and an image       *)
(* marker `[image #n]`, whose id is 0 here, always.  A cell of a paste     *)
(* marker remembers in `of` which paste it was made for; the code cannot   *)
(* see that.                                                               *)
(***************************************************************************)
EXTENDS Integers, Sequences, SequencesExt

CONSTANTS
    EdTexts,      \* texts inserted, pasted or set by the program
    EdRings,      \* kill rings the session may have collected before
    EdHistories,  \* prompt histories, newest first
    EdMaxSteps, EdMaxCells, EdMaxPastes   \* bounds: keys, cells on screen, large pastes

EdCell(ch) == [ch |-> ch, id |-> 0, of |-> 0]
EdNL == EdCell("nl")
EdMarker(id, of) == <<[ch |-> "[", id |-> id, of |-> of], [ch |-> "]", id |-> id, of |-> of]>>
EdChars == {EdCell(ch) : ch \in {"a", " ", ".", "\\"}}
EdPlain == EdChars \cup {EdNL}
EdImage == EdMarker(0, 0)
EdWritten == EdPlain \cup {EdImage[1], EdImage[2]}
EdCells == EdWritten \cup UNION {{EdMarker(id, of)[1], EdMarker(id, of)[2]} : id, of \in 1 .. EdMaxPastes}

VARIABLES
    edState,     \* [lines, line, col]: EditorState; col counts the cells before the cursor
    edPastes,    \* [paste id -> paste], a partial function
    edCounter,   \* pasteCounter
    edHistory, edBrowsing,   \* history; historyIndex, -1 when not browsing
    edRing, edLast,          \* kill ring, newest last; lastAction
    edUndo, edJump,          \* undo stack; jumpMode
    edMade,      \* large pastes made so far; also names them
    edRun,       \* history: the text when the current run of kills began
    edAround,    \* history: the text before and after what was yanked
    edTorn,      \* history: a jump has landed inside a marker
    edCompleted, \* history: a completion changed the entry being browsed
    edSteps

edGhost == <<edMade, edRun, edAround, edTorn, edCompleted>>
edVars == <<edState, edPastes, edCounter, edHistory, edBrowsing, edRing, edLast, edUndo, edJump, edGhost, edSteps>>

(* Lines joined by newlines, and split again. *)
EdJoin(lines) == FlattenSeq([i \in DOMAIN lines |-> IF i = 1 THEN lines[i] ELSE <<EdNL>> \o lines[i]])
EdGrown(lines, cell) == IF cell = EdNL THEN Append(lines, <<>>) ELSE Append(Front(lines), Append(Last(lines), cell))
EdSplit(text) ==
    LET split[n \in 0 .. Len(text)] == IF n = 0 THEN <<<<>>>> ELSE EdGrown(split[n - 1], text[n])
    IN  split[Len(text)]

(* The head of a marker and its tail stand side by side. *)
EdPaired(l) ==
    \A c \in 1 .. Len(l) :
        /\ l[c].ch = "[" => c < Len(l) /\ l[c + 1] = [l[c] EXCEPT !.ch = "]"]
        /\ l[c].ch = "]" => c > 1 /\ l[c - 1] = [l[c] EXCEPT !.ch = "["]
EdIntact(text) == \A i \in 1 .. Len(EdSplit(text)) : EdPaired(EdSplit(text)[i])

(* What comes in from outside may hold image markers, which the program writes
   into it.  Left out: texts set, pasted or typed that read like a paste
   marker, which the code takes for one while a paste of that number is alive. *)
ASSUME EdAssumption ==
    /\ \A text \in EdTexts : text # <<>> /\ text \in Seq(EdWritten) /\ EdIntact(text)
    /\ \A prompts \in EdHistories : prompts \in Seq({text \in Seq(EdWritten) : EdIntact(text)})
    /\ \A ring \in EdRings : ring \in Seq({text \in Seq(EdCells) : EdIntact(text)})
    /\ EdMaxPastes \in Nat

EdLine == edState.lines[edState.line]
EdBefore == SubSeq(EdLine, 1, edState.col)
EdAfter == SubSeq(EdLine, edState.col + 1, Len(EdLine))
EdTextBefore(s) == EdJoin(Append(SubSeq(s.lines, 1, s.line - 1), SubSeq(s.lines[s.line], 1, s.col)))
EdTextAfter(s) == EdJoin(<<SubSeq(s.lines[s.line], s.col + 1, Len(s.lines[s.line]))>> \o SubSeq(s.lines, s.line + 1, Len(s.lines)))
EdEmpty == [lines |-> <<<<>>>>, line |-> 1, col |-> 0]

-----------------------------------------------------------------------------
(* segmentWithMarkers(): a head and its tail side by side are one segment, those
   of a paste marker while the id is a live paste.                         *)
EdAtomicAt(l, i) ==
    /\ i > 0 /\ i < Len(l) /\ l[i].ch = "[" /\ l[i + 1].ch = "]"
    /\ l[i].id = l[i + 1].id /\ l[i].id \in DOMAIN edPastes \cup {0}
EdAtomic(l, i) == EdAtomicAt(l, i) \/ EdAtomicAt(l, i - 1)
EdLastWidth(l) == IF EdAtomicAt(l, Len(l) - 1) THEN 2 ELSE 1
EdFirstWidth(l) == IF EdAtomicAt(l, 1) THEN 2 ELSE 1

EdClass(cell) == CASE cell.ch = " " -> "space" [] cell.ch \in {".", "\\"} -> "punctuation" [] OTHER -> "word"
EdSpace(l, i) == EdClass(l[i]) = "space"

(* The run of one class that ends (begins) at cell i, markers apart. *)
EdSameRun(l, i, j) == \A k \in i .. j : EdClass(l[k]) = EdClass(l[i]) /\ ~EdAtomic(l, k)

(* moveWordBackwards() within a line: how many cells of l, the text before the
   cursor, stay in front of it.                                            *)
EdWordStart(l) ==
    LET p == Max({p \in 0 .. Len(l) : p = 0 \/ ~EdSpace(l, p)})
    IN  IF p = 0 THEN 0
        ELSE IF EdAtomicAt(l, p - 1) THEN p - 2
        ELSE Min({q \in 0 .. p - 1 : EdSameRun(l, q + 1, p)})

(* moveWordForwards() within a line: how many cells of l, the text after the
   cursor, it passes.                                                      *)
EdWordEnd(l) ==
    LET p == Min({p \in 1 .. Len(l) + 1 : p = Len(l) + 1 \/ ~EdSpace(l, p)})
    IN  IF p > Len(l) THEN Len(l)
        ELSE IF EdAtomicAt(l, p) THEN p + 1
        ELSE Max({q \in p .. Len(l) : EdSameRun(l, p, q)})

-----------------------------------------------------------------------------
(* What an operation makes of the state of the text. *)
EdReplaceLines(first, last, lines) == SubSeq(edState.lines, 1, first - 1) \o lines \o SubSeq(edState.lines, last + 1, Len(edState.lines))

(* insertTextAtCursorInternal(), and insertYankedText() line by line. *)
EdInsertInto(s, text) ==
    LET new == EdSplit(text)
        before == SubSeq(s.lines[s.line], 1, s.col)
        after == SubSeq(s.lines[s.line], s.col + 1, Len(s.lines[s.line]))
        merged == IF Len(new) = 1 THEN <<before \o text \o after>>
                  ELSE <<before \o Head(new)>> \o SubSeq(new, 2, Len(new) - 1) \o <<Last(new) \o after>>
    IN  [lines |-> SubSeq(s.lines, 1, s.line - 1) \o merged \o SubSeq(s.lines, s.line + 1, Len(s.lines)),
         line  |-> s.line + Len(new) - 1,
         col   |-> IF Len(new) = 1 THEN s.col + Len(text) ELSE Len(Last(new))]

(* deleteYankedText(): counts back from the cursor, whatever stands there. *)
EdWithoutYank(text) ==
    LET old == EdSplit(text)
        start == edState.line - (Len(old) - 1)
        col == IF Len(old) = 1 THEN edState.col - Len(text) ELSE Len(edState.lines[start]) - Len(old[1])
    IN  [lines |-> EdReplaceLines(start, edState.line, <<SubSeq(edState.lines[start], 1, col) \o EdAfter>>),
         line |-> start, col |-> col]

EdMergedBack == [lines |-> EdReplaceLines(edState.line - 1, edState.line, <<edState.lines[edState.line - 1] \o EdLine>>),
                 line |-> edState.line - 1, col |-> Len(edState.lines[edState.line - 1])]
EdMergedOn == [edState EXCEPT !.lines = EdReplaceLines(edState.line, edState.line + 1, <<EdLine \o edState.lines[edState.line + 1]>>)]
EdCut(from, to) == [edState EXCEPT !.lines[edState.line] = SubSeq(EdLine, 1, from) \o SubSeq(EdLine, to + 1, Len(EdLine)), !.col = from]

EdBackspaced ==
    IF edState.col > 0 THEN EdCut(edState.col - EdLastWidth(EdBefore), edState.col)
    ELSE IF edState.line > 1 THEN EdMergedBack ELSE edState
EdForwardDeleted ==
    IF edState.col < Len(EdLine) THEN EdCut(edState.col, edState.col + EdFirstWidth(EdAfter))
    ELSE IF edState.line < Len(edState.lines) THEN EdMergedOn ELSE edState
EdSplitLine(s) == EdInsertInto(s, <<EdNL>>)

EdSnapshot == [state |-> edState, pastes |-> edPastes, counter |-> edCounter]
EdPush == Append(edUndo, EdSnapshot)

-----------------------------------------------------------------------------
(* Every key costs a step; outside a jump it leaves jumpMode off. *)
EdStep == edSteps < EdMaxSteps /\ edSteps' = edSteps + 1
EdKey == EdStep /\ edJump' = "none"
EdFits(s) == Len(EdJoin(s.lines)) <= EdMaxCells
EdPastesStay == UNCHANGED <<edPastes, edCounter, edMade>>
EdGhostStays == UNCHANGED <<edRun, edAround, edTorn, edCompleted>>

EdStopBrowsing == edBrowsing' = -1

(* An edit that leaves history browsing and is not a kill or a yank. *)
EdEdit(s, last) ==
    /\ EdFits(s) /\ edState' = s /\ edLast' = last /\ EdStopBrowsing
    /\ UNCHANGED <<edHistory, edRing>> /\ EdGhostStays

EdUndoFor_Never(s) == edUndo
EdUndoFor(s) == IF s = edState THEN edUndo ELSE EdPush

EdType(cell) ==
    /\ edJump = "none" /\ EdKey
    /\ EdEdit(EdInsertInto(edState, <<cell>>), "type-word")
    /\ edUndo' = IF cell.ch = " " \/ edLast # "type-word" THEN EdPush ELSE edUndo
    /\ EdPastesStay

EdNewLine == EdKey /\ EdEdit(EdSplitLine(edState), "none") /\ edUndo' = EdPush /\ EdPastesStay

EdBackspace == EdKey /\ EdEdit(EdBackspaced, "none") /\ edUndo' = EdUndoFor(EdBackspaced) /\ EdPastesStay
EdForwardDelete == EdKey /\ EdEdit(EdForwardDeleted, "none") /\ edUndo' = EdUndoFor(EdForwardDeleted) /\ EdPastesStay

(* handlePaste(): a path pasted behind a word gets a space in front; a large
   paste is kept aside and a marker inserted.                              *)
EdPasted(text) ==
    IF Head(text).ch = "." /\ edState.col > 0 /\ EdLine[edState.col].ch = "a" THEN <<EdCell(" ")>> \o text ELSE text
EdPaste(text) == EdKey /\ EdEdit(EdInsertInto(edState, EdPasted(text)), "none") /\ edUndo' = EdPush /\ EdPastesStay

EdPasteLarge ==
    /\ edMade < EdMaxPastes /\ edMade' = edMade + 1
    /\ EdKey /\ edUndo' = EdPush
    /\ edCounter' = edCounter + 1
    /\ edPastes' = [id \in DOMAIN edPastes \cup {edCounter + 1} |-> IF id = edCounter + 1 THEN edMade + 1 ELSE edPastes[id]]
    /\ EdEdit(EdInsertInto(edState, EdMarker(edCounter + 1, edMade + 1)), "none")

(* setText() and insertTextAtCursor(), called by the program. *)
EdLoaded(text) == LET lines == EdSplit(text) IN [lines |-> lines, line |-> Len(lines), col |-> Len(Last(lines))]
EdSetText(text) ==
    /\ EdStep /\ EdEdit(EdLoaded(text), "none") /\ UNCHANGED edJump /\ EdPastesStay
    /\ edUndo' = IF EdJoin(edState.lines) # text THEN EdPush ELSE edUndo
EdInsertText(text) ==
    /\ EdStep /\ EdEdit(EdInsertInto(edState, text), "none") /\ edUndo' = EdPush /\ UNCHANGED edJump /\ EdPastesStay

(* applyCompletion() of an accepted suggestion: historyIndex is left alone. *)
EdComplete ==
    /\ EdKey /\ edState' = EdInsertInto(edState, <<EdCell("a")>>) /\ EdFits(edState')
    /\ edUndo' = EdPush /\ edLast' = "none"
    /\ edCompleted' = (edBrowsing # -1)
    /\ UNCHANGED <<edHistory, edBrowsing, edRing, edRun, edAround, edTorn>> /\ EdPastesStay

-----------------------------------------------------------------------------
(* The kill ring. *)
EdKilled(text, prepend) ==
    IF edLast = "kill" /\ edRing # <<>>
    THEN [edRing EXCEPT ![Len(edRing)] = IF prepend THEN text \o @ ELSE @ \o text]
    ELSE Append(edRing, text)

EdKill(s, text, prepend) ==
    /\ EdKey /\ EdStopBrowsing
    /\ IF text = <<>> THEN UNCHANGED <<edState, edRing, edLast, edUndo, edRun>>
       ELSE /\ edState' = s /\ edRing' = EdKilled(text, prepend) /\ edLast' = "kill" /\ edUndo' = EdPush
            /\ edRun' = IF edLast = "kill" THEN edRun ELSE EdJoin(edState.lines)
    /\ UNCHANGED <<edHistory, edAround, edTorn, edCompleted>> /\ EdPastesStay

EdKillBack(from) ==
    IF edState.col > 0 THEN EdKill(EdCut(from, edState.col), SubSeq(EdLine, from + 1, edState.col), TRUE)
    ELSE IF edState.line > 1 THEN EdKill(EdMergedBack, <<EdNL>>, TRUE) ELSE EdKill(edState, <<>>, TRUE)
EdKillOn(to) ==
    IF edState.col < Len(EdLine) THEN EdKill(EdCut(edState.col, to), SubSeq(EdLine, edState.col + 1, to), FALSE)
    ELSE IF edState.line < Len(edState.lines) THEN EdKill(EdMergedOn, <<EdNL>>, FALSE) ELSE EdKill(edState, <<>>, FALSE)

EdDeleteToStart == EdKillBack(0)
EdDeleteToEnd == EdKillOn(Len(EdLine))
EdDeleteWordBack == EdKillBack(EdWordStart(EdBefore))
EdDeleteWordOn == EdKillOn(edState.col + EdWordEnd(EdAfter))

EdYank ==
    /\ edRing # <<>> /\ EdKey /\ edUndo' = EdPush /\ EdStopBrowsing /\ edLast' = "yank"
    /\ edState' = EdInsertInto(edState, Last(edRing)) /\ EdFits(edState')
    /\ edAround' = <<EdTextBefore(edState), EdTextAfter(edState)>>
    /\ UNCHANGED <<edHistory, edRing, edRun, edTorn, edCompleted>> /\ EdPastesStay

(* Replaces what was yanked by the entry before it. *)
EdYankPop ==
    /\ edLast = "yank" /\ Len(edRing) > 1 /\ EdKey /\ edUndo' = EdPush /\ EdStopBrowsing
    /\ edRing' = <<Last(edRing)>> \o Front(edRing)
    /\ edState' = EdInsertInto(EdWithoutYank(Last(edRing)), Last(edRing')) /\ EdFits(edState')
    /\ UNCHANGED <<edHistory, edLast, edRun, edAround, edTorn, edCompleted>> /\ EdPastesStay

-----------------------------------------------------------------------------
(* undo(), submitValue() and the Enter keys. *)
EdRestoredCounter(counter) == counter

EdUndoKey ==
    /\ EdKey /\ EdStopBrowsing
    /\ IF edUndo = <<>> THEN UNCHANGED <<edState, edPastes, edCounter, edUndo, edLast>>
       ELSE /\ edState' = Last(edUndo).state /\ edPastes' = Last(edUndo).pastes
            /\ edCounter' = EdRestoredCounter(Last(edUndo).counter)
            /\ edUndo' = Front(edUndo) /\ edLast' = "none"
    /\ UNCHANGED <<edHistory, edRing, edMade>> /\ EdGhostStays

EdSubmit ==
    /\ edState' = EdEmpty /\ edPastes' = <<>> /\ edCounter' = 0 /\ edBrowsing' = -1
    /\ edUndo' = <<>> /\ edLast' = "none"
    /\ UNCHANGED <<edHistory, edRing, edMade>> /\ EdGhostStays

EdAfterBackslash == edState.col > 0 /\ EdLine[edState.col].ch = "\\"

(* Enter: a backslash before the cursor turns into a line break, or, where
   Shift+Enter submits, the line break into a submission.                  *)
EdEnter ==
    /\ EdKey
    /\ \/ ~EdAfterBackslash /\ EdSubmit
       \/ EdAfterBackslash /\ EdEdit(EdSplitLine(EdBackspaced), "none") /\ EdPastesStay
          /\ edUndo' = Append(EdPush, [EdSnapshot EXCEPT !.state = EdBackspaced])
       \/ EdAfterBackslash /\ EdSubmit

(* addToHistory(), by the program once a prompt was accepted; clearHistory(). *)
EdAddToHistory(text) ==
    /\ EdStep /\ edBrowsing = -1
    /\ edHistory' = IF edHistory # <<>> /\ Head(edHistory) = text THEN edHistory ELSE <<text>> \o edHistory
    /\ UNCHANGED <<edState, edPastes, edCounter, edBrowsing, edRing, edLast, edUndo, edJump, edGhost>>
EdClearHistory ==
    /\ EdStep /\ edHistory' = <<>> /\ edBrowsing' = -1
    /\ UNCHANGED <<edState, edPastes, edCounter, edRing, edLast, edUndo, edJump, edGhost>>

-----------------------------------------------------------------------------
(* Keys that move the cursor reset lastAction and leave the text alone. *)
EdMoveTo(line, col) ==
    /\ EdKey /\ edState' = [edState EXCEPT !.line = line, !.col = col] /\ edLast' = "none"
    /\ UNCHANGED <<edHistory, edBrowsing, edRing, edUndo>> /\ EdPastesStay /\ EdGhostStays

EdLineEnd(i) == Len(edState.lines[i])
EdBack(col) == IF edState.col > 0 THEN EdMoveTo(edState.line, col)
               ELSE IF edState.line > 1 THEN EdMoveTo(edState.line - 1, EdLineEnd(edState.line - 1))
               ELSE EdMoveTo(edState.line, edState.col)
EdOn(col) == IF edState.col < Len(EdLine) THEN EdMoveTo(edState.line, col)
             ELSE IF edState.line < Len(edState.lines) THEN EdMoveTo(edState.line + 1, 0)
             ELSE EdMoveTo(edState.line, edState.col)

EdLeft == EdBack(edState.col - EdLastWidth(EdBefore))
EdRight == EdOn(edState.col + EdFirstWidth(EdAfter))
EdWordLeft == EdBack(EdWordStart(EdBefore))
EdWordRight == EdOn(edState.col + EdWordEnd(EdAfter))
EdLineStart == EdMoveTo(edState.line, 0)
EdToLineEnd == EdMoveTo(edState.line, Len(EdLine))

(* navigateHistory(): only the first step into the history can be undone. *)
EdBrowsed(index) == IF index = -1 THEN EdEmpty ELSE EdLoaded(edHistory[index + 1])
EdNavigate(index) ==
    /\ EdKey /\ edLast' = "none"
    /\ IF index < -1 \/ index >= Len(edHistory) THEN UNCHANGED <<edState, edUndo, edBrowsing, edCompleted>>
       ELSE /\ edState' = EdBrowsed(index) /\ edBrowsing' = index /\ edCompleted' = FALSE
            /\ edUndo' = IF edBrowsing = -1 THEN EdPush ELSE edUndo
    /\ UNCHANGED <<edHistory, edRing, edRun, edAround, edTorn>> /\ EdPastesStay

(* Up and down: history at the edges, else a row away, at the column that
   EditorLayout works out: any boundary of a segment of that line.         *)
EdBoundary(l, col) == ~EdAtomicAt(l, col)
EdVertical(i) == \E col \in 0 .. EdLineEnd(i) : EdBoundary(edState.lines[i], col) /\ EdMoveTo(i, col)

EdUp == IF edState.line > 1 THEN EdVertical(edState.line - 1)
        ELSE IF edState.lines = <<<<>>>> \/ edBrowsing > -1 THEN EdNavigate(edBrowsing + 1) ELSE EdLineStart
EdDown == IF edState.line < Len(edState.lines) THEN EdVertical(edState.line + 1)
          ELSE IF edBrowsing > -1 THEN EdNavigate(edBrowsing - 1) ELSE EdToLineEnd

(* A jump key, and the printable key after it: indexOf() looks at characters,
   a marker's too.                                                         *)
EdJumpKey(direction) ==
    /\ EdStep /\ edJump' = IF edJump = "none" THEN direction ELSE "none"
    /\ UNCHANGED <<edState, edHistory, edBrowsing, edRing, edLast, edUndo>> /\ EdPastesStay /\ EdGhostStays

EdFound(ch) ==
    {p \in UNION {{i} \X (0 .. EdLineEnd(i) - 1) : i \in 1 .. Len(edState.lines)} :
        edState.lines[p[1]][p[2] + 1].ch = ch}
EdEarlier(p, q) == p[1] < q[1] \/ (p[1] = q[1] /\ p[2] < q[2])
EdHere == <<edState.line, edState.col>>
EdAhead(p, ch) == EdEarlier(EdHere, p) /\ ~\E q \in EdFound(ch) : EdEarlier(EdHere, q) /\ EdEarlier(q, p)
EdBehind(p, ch) == EdEarlier(p, EdHere) /\ ~\E q \in EdFound(ch) : EdEarlier(p, q) /\ EdEarlier(q, EdHere)
EdHits(ch) ==
    CASE edJump = "forward" -> {p \in EdFound(ch) : EdAhead(p, ch)}
      [] edState.col = 0 /\ EdHere \in EdFound(ch) -> {EdHere}   \* lastIndexOf(char, -1) searches from 0
      [] OTHER -> {p \in EdFound(ch) : EdBehind(p, ch)}

EdJumpTo(ch) ==
    /\ edJump # "none" /\ EdKey /\ edLast' = "none"
    /\ IF EdHits(ch) = {} THEN UNCHANGED <<edState, edTorn>>
       ELSE \E p \in EdHits(ch) :
              /\ edState' = [edState EXCEPT !.line = p[1], !.col = p[2]]
              /\ edTorn' = (edTorn \/ EdAtomicAt(edState.lines[p[1]], p[2]))
    /\ UNCHANGED <<edHistory, edBrowsing, edRing, edUndo, edRun, edAround, edCompleted>> /\ EdPastesStay

-----------------------------------------------------------------------------
(* A prompt was just submitted: the text is empty and nothing can be undone,
   the kill ring and the history are those of the session so far.          *)
EdInit ==
    /\ edState = EdEmpty /\ edPastes = <<>> /\ edCounter = 0
    /\ edHistory \in EdHistories /\ edBrowsing = -1
    /\ edRing \in EdRings /\ edLast = "none" /\ edUndo = <<>> /\ edJump = "none"
    /\ edMade = 0 /\ edRun = <<>> /\ edAround = <<<<>>, <<>>>> /\ edTorn = FALSE /\ edCompleted = FALSE
    /\ edSteps = 0

(* handleInput(): a key in bracketed-paste, jump and normal mode. *)
EdHandleInput ==
    \/ \E cell \in EdChars : EdType(cell)
    \/ \E ch \in {"a", "]"} : EdJumpTo(ch)
    \/ \E direction \in {"forward", "backward"} : EdJumpKey(direction)
    \/ \E text \in EdTexts : EdPaste(text)
    \/ EdPasteLarge \/ EdUndoKey \/ EdComplete \/ EdNewLine \/ EdEnter
    \/ EdBackspace \/ EdForwardDelete \/ EdDeleteToStart \/ EdDeleteToEnd \/ EdDeleteWordBack \/ EdDeleteWordOn
    \/ EdYank \/ EdYankPop
    \/ EdLeft \/ EdRight \/ EdWordLeft \/ EdWordRight \/ EdLineStart \/ EdToLineEnd \/ EdUp \/ EdDown

EdNext ==
    \/ EdHandleInput
    \/ \E text \in EdTexts : EdSetText(text) \/ EdInsertText(text) \/ EdAddToHistory(text)
    \/ EdSetText(<<>>) \/ EdClearHistory

EdSpec == EdInit /\ [][EdNext]_edVars

-----------------------------------------------------------------------------
EdCursorOk(s) == s.line \in 1 .. Len(s.lines) /\ s.col \in 0 .. Len(s.lines[s.line])

(* The cursor stands within a line that exists, after whatever the operations
   made of the lines, and so does that of every snapshot.                  *)
EdTypeOK ==
    /\ EdCursorOk(edState) /\ \A i \in 1 .. Len(edUndo) : EdCursorOk(edUndo[i].state)
    /\ edState.lines \in Seq(Seq(EdCells \ {EdNL})) /\ edRing \in Seq(Seq(EdCells))
    /\ DOMAIN edPastes \subseteq 1 .. EdMaxPastes /\ edCounter \in 0 .. EdMaxPastes
    /\ edBrowsing \in -1 .. Len(edHistory) - 1
    /\ edLast \in {"none", "kill", "yank", "type-word"} /\ edJump \in {"none", "forward", "backward"}

(* kill-ring.ts: "Consecutive kills can accumulate into a single entry": after
   any run of kills, forward or backward and over line ends, yanking once gives
   back the text as it was before the run.                                 *)
KillRunRecoverable ==
    edLast = "kill" => EdTextBefore(edState) \o Last(edRing) \o EdTextAfter(edState) = edRun

(* After a yank and any number of yank-pops the text is what it was before the
   yank with the newest entry of the ring in place of the cursor: yankPop()
   takes out exactly what was put in, over several lines too.              *)
YankReplaced ==
    edLast = "yank" => EdJoin(edState.lines) = edAround[1] \o Last(edRing) \o edAround[2]

(* The cells of paste markers in a text. *)
EdMarkerCells(text) == {cell \in Range(text) : cell.ch \in {"[", "]"} /\ cell.id # 0}
EdNoMarkerKilled == \A i \in 1 .. Len(edRing) : EdMarkerCells(edRing[i]) = {}

(* "paste markers expanded to their actual content": a live marker in the text
   stands for the paste it was made for, over edits, undos and submissions, as
   long as no marker has been killed (a killed marker outlives its paste).  *)
MarkerMeansPaste ==
    EdNoMarkerKilled => \A cell \in EdMarkerCells(EdJoin(edState.lines)) :
                            cell.id \in DOMAIN edPastes /\ edPastes[cell.id] = cell.of

(* "treat the markers as single units": no key but a character jump puts the
   cursor inside a marker or takes a marker apart.  A paste marker that was
   killed is excepted again, an image marker comes back whole.              *)
MarkersWhole ==
    ~edTorn /\ EdNoMarkerKilled =>
        ~EdAtomicAt(EdLine, edState.col) /\ \A i \in 1 .. Len(edState.lines) : EdPaired(edState.lines[i])

(* What is browsed is a whole entry of the history: every edit leaves history
   browsing, so going on to the next entry loses no edit (but a completion). *)
BrowsedIsEntry == edBrowsing > -1 /\ ~edCompleted => EdJoin(edState.lines) = edHistory[edBrowsing + 1]

(* Nothing the user does changes the text beyond recall: unless it submits,
   undoes, goes on typing a word or walks on through the history, the state
   before is on top of the undo stack.                                     *)
EdTyping == edLast = "type-word" /\ edLast' = "type-word"
EdRecallable ==
    [][edState'.lines # edState.lines =>
         \/ edUndo' # <<>> /\ Last(edUndo') = EdSnapshot
         \/ edUndo' # <<>> /\ Len(edUndo') = Len(edUndo) + 2 /\ Front(edUndo') = EdPush
         \/ edUndo # <<>> /\ edUndo' = Front(edUndo)
         \/ edState' = EdEmpty /\ edUndo' = <<>>
         \/ EdTyping
         \/ edBrowsing > -1 /\ edState' = EdBrowsed(edBrowsing')]_edVars

(* No sequence of keys loses killed, yanked or pasted text, breaks a paste marker
   or leaves the cursor outside of the text.                               *)
EditorSafe ==
    /\ EdTypeOK
    /\ KillRunRecoverable /\ YankReplaced
    /\ MarkerMeansPaste /\ MarkersWhole
    /\ BrowsedIsEntry

(* The editor keeps its text in one piece, and what an edit replaces within recall. *)
EditorKeeps == []EditorSafe /\ EdRecallable
=============================================================================
