---------------------------- MODULE OverlayLayout ----------------------------
(***************************************************************************)
(* Where overlays are drawn (resolveOverlayLayout and compositeOverlays of *)
(* packages/tui/src/tui.ts): their width, row and column from their        *)
(* options and the terminal's size, the popup that stands above a marker   *)
(* of the content, and the cells a selection of the frame may start in.    *)
(* Which overlays are shown and focused is OverlayFocus; how a line of one *)
(* is spliced into the content is StyledText.                              *)
(*                                                                         *)
(* The body of an overlay says of each of its lines whether it is blank;   *)
(* of a line of the dock it is known from which column to which its text   *)
(* reaches.  A drag that starts in the transcript selects lines of the     *)
(* transcript whatever overlay covers them: it never asks for the cells of *)
(* this module, see TranscriptView.                                        *)
(***************************************************************************)
EXTENDS Integers, Sequences, FiniteSets, SequencesExt

CONSTANTS
    OlOptions,     \* option records, see OlDefault
    OlBodies,      \* bodies the components render, TRUE for a line that is not blank
    OlSizes,       \* sizes of the terminal, <<columns, rows>>
    OlContents,    \* line counts of the content inline
    OlDocks,       \* docks in fullscreen, bottom line last: <<from, to>> of the text of each line; <<>> for inline
    OlMaxShown     \* bound: overlays shown at once

OlValue == [unit : {"none", "cells", "percent"}, n : Int]
OlOption ==
    [width : OlValue, minWidth : Int, maxHeight : OlValue, row : OlValue, col : OlValue,
     anchor : {"top", "center", "bottom"} \X {"left", "center", "right"},
     margin : [top : Nat, right : Nat, bottom : Nat, left : Nat],
     offsetX : Int, offsetY : Int, above : BOOLEAN, scrollback : BOOLEAN, passive : BOOLEAN]

ASSUME OlAssumption ==
    /\ OlOptions \subseteq OlOption /\ OlBodies \subseteq Seq(BOOLEAN)
    /\ OlSizes \subseteq (Nat \ {0}) \X (Nat \ {0}) /\ OlContents \subseteq Nat
    /\ OlDocks \subseteq Seq(Nat \X Nat)

VARIABLES
    olTerm,        \* the terminal's size
    olLines,       \* lines of the content
    olDock,        \* the dock, <<>> when not in fullscreen
    olMarker,      \* where its marker is, <<line, column>>, line -1 for nowhere
    olStack,       \* visible overlays by focusOrder: [option, body]
    olFrame        \* what is rendered of all that: its height, and for every overlay what is drawn where
olWhat == <<olTerm, olLines, olDock, olMarker, olStack>>
olVars == <<olWhat, olFrame>>

-----------------------------------------------------------------------------
OlUnset == [unit |-> "none", n |-> 0]
OlCells(n) == [unit |-> "cells", n |-> n]
OlPercent(n) == [unit |-> "percent", n |-> n]
OlDefault ==
    [width |-> OlUnset, minWidth |-> 0, maxHeight |-> OlUnset, row |-> OlUnset, col |-> OlUnset,
     anchor |-> <<"center", "center">>, margin |-> [top |-> 0, right |-> 0, bottom |-> 0, left |-> 0],
     offsetX |-> 0, offsetY |-> 0, above |-> FALSE, scrollback |-> FALSE, passive |-> FALSE]

OlMax(a, b) == IF a > b THEN a ELSE b
OlMin(a, b) == IF a < b THEN a ELSE b
OlWidth == olTerm[1]
OlHeight == olTerm[2]

(* parseSizeValue() *)
OlSize(value, reference) == IF value.unit = "percent" THEN (reference * value.n) \div 100 ELSE value.n

(* resolveAnchorRow() and resolveAnchorCol(), which are alike. *)
OlAnchor(side, size, room, margin) ==
    CASE side \in {"top", "left"} -> margin
      [] side \in {"bottom", "right"} -> margin + room - size
      [] OTHER -> margin + (room - size) \div 2

(* A position given as a percentage, in cells, or by the anchor. *)
OlPosition(value, side, size, room, margin) ==
    CASE value.unit = "percent" -> margin + (OlMax(0, room - size) * value.n) \div 100
      [] value.unit = "cells" -> value.n
      [] OTHER -> OlAnchor(side, size, room, margin)

(* resolveOverlayLayout() *)
OlRoom(o) ==
    [width |-> OlMax(1, OlWidth - o.margin.left - o.margin.right),
     height |-> OlMax(1, OlHeight - o.margin.top - o.margin.bottom)]
OlResolvedWidth(o) ==
    LET wanted == IF o.width.unit = "none" THEN OlMin(80, OlRoom(o).width) ELSE OlSize(o.width, OlWidth)
    IN  OlMax(1, OlMin(OlMax(wanted, o.minWidth), OlRoom(o).width))
OlMaxHeight(o) == OlMax(1, OlMin(OlSize(o.maxHeight, OlHeight), OlRoom(o).height))
OlResolved_ClampedFirst(o, height) ==
    LET room == OlRoom(o)
        width == OlResolvedWidth(o)
        row == OlPosition(o.row, o.anchor[1], height, room.height, o.margin.top)
        col == OlPosition(o.col, o.anchor[2], width, room.width, o.margin.left)
    IN  [width |-> width,
         row |-> OlMax(o.margin.top, OlMin(row, OlHeight - o.margin.bottom - height)) + o.offsetY,
         col |-> OlMax(o.margin.left, OlMin(col, OlWidth - o.margin.right - width)) + o.offsetX]
OlResolved(o, height) ==
    LET room == OlRoom(o)
        width == OlResolvedWidth(o)
        row == OlPosition(o.row, o.anchor[1], height, room.height, o.margin.top) + o.offsetY
        col == OlPosition(o.col, o.anchor[2], width, room.width, o.margin.left) + o.offsetX
    IN  [width |-> width,
         row |-> OlMax(o.margin.top, OlMin(row, OlHeight - o.margin.bottom - height)),
         col |-> OlMax(o.margin.left, OlMin(col, OlWidth - o.margin.right - width))]

-----------------------------------------------------------------------------
(* compositeOverlays(): the first overlay that looks for the marker removes it. *)
OlSeeksMarker(i) == olStack[i].option.above
OlFindsMarker(i) ==
    OlSeeksMarker(i) /\ olMarker[1] >= 0 /\ \A j \in 1 .. i - 1 : ~OlSeeksMarker(j)

OlBody(i) ==
    LET o == olStack[i].option  body == olStack[i].body
    IN  IF o.maxHeight.unit # "none" THEN SubSeq(body, 1, OlMin(Len(body), OlMaxHeight(o))) ELSE body
OlLayout(i) == OlResolved(olStack[i].option, Len(OlBody(i)))

OlWorkingHeight ==
    Max({olLines, OlHeight} \cup {OlLayout(i).row + Len(OlBody(i)) : i \in {i \in DOMAIN olStack : ~OlSeeksMarker(i)}})

(* The popup above the marker loses blank lines first, then its top lines. *)
OlDropBlanks(body, height) ==
    LET n == CHOOSE n \in 0 .. OlMax(0, Len(body) - height) :
                 /\ \A j \in 1 .. n : ~body[j]
                 /\ n < Len(body) - height => body[n + 1]
    IN  SubSeq(body, n + 1, Len(body))
OlLastLines(body, height) == SubSeq(body, OlMax(0, Len(body) - height) + 1, Len(body))
OlFitted(body, height) == OlLastLines(Reverse(OlDropBlanks(Reverse(OlDropBlanks(body, height)), height)), height)

(* What is drawn of an overlay: its body from line `first` on. *)
OlPlacedAt(first, body, col, width) == [first |-> first, body |-> body, col |-> col, width |-> width]
OlNothing == OlPlacedAt(0, <<>>, 0, 0)
OlPopup(i, at, viewport, row) ==
    IF row >= OlHeight THEN OlNothing
    ELSE OlPlacedAt(viewport + row - OlMin(row, Len(OlBody(i))), OlFitted(OlBody(i), row),
                    OlMax(0, OlMin(olMarker[2], OlWidth - at.width)), at.width)
OlBox(i, at, body, working) ==
    OlPlacedAt(at.row + (IF olStack[i].option.scrollback
                         THEN OlMax(0, working - (at.row + Len(body))) ELSE working - OlHeight),
               body, at.col, at.width)
OlPlaced(i, working) ==
    IF ~OlSeeksMarker(i) THEN OlBox(i, OlLayout(i), OlBody(i), working)
    ELSE IF OlFindsMarker(i)
    THEN OlPopup(i, OlLayout(i), working - OlHeight,
                 OlMax(1, olMarker[1] - (working - OlHeight) + olStack[i].option.offsetY))
    ELSE OlNothing

(* The cells it covers, and those of its lines that are not blank. *)
OlArea(placed, height) ==
    (placed.first .. OlMin(placed.first + Len(placed.body), height) - 1) \X (placed.col .. placed.col + placed.width - 1)
OlInk(placed, height) == {cell \in OlArea(placed, height) : placed.body[cell[1] - placed.first + 1]}

(* createDockSelectionRegions(): the text of the lines of the dock that the
   transcript leaves room for, beside its least number of rows.  Inline there is none. *)
OlMinTranscript == 3
OlDockHeight == OlMin(Len(olDock), OlMax(0, OlHeight - OlMinTranscript))
OlDockText ==
    {cell \in (OlHeight - OlDockHeight .. OlHeight - 1) \X (0 .. OlWidth - 1) :
        \E text \in {olDock[cell[1] - OlHeight + Len(olDock) + 1]} : cell[2] >= text[1] /\ cell[2] < text[2]}

(* subtractSelectionCoverage() for every line drawn, then the focused overlay's own text. *)
OlFocused(i) == \A j \in i .. Len(olStack) : (j = i) # olStack[j].option.passive
OlSelectable(placed, height) ==
    LET cells[i \in 0 .. Len(placed)] ==
            IF i = 0 THEN OlDockText
            ELSE (cells[i - 1] \ OlArea(placed[i], height)) \cup (IF OlFocused(i) THEN OlInk(placed[i], height) ELSE {})
    IN  cells[Len(placed)]

-----------------------------------------------------------------------------
(* requestRender(): the render is still to come. *)
OlRequested == [height |-> 0, placed |-> <<>>, selectable |-> {}]

OlInit ==
    /\ olTerm \in OlSizes /\ olLines \in OlContents /\ olDock = <<>>
    /\ olMarker = <<-1, 0>> /\ olStack = <<>>
    /\ olFrame = OlRequested

(* A new overlay is on top; the topmost that is not passive has the focus. *)
OlShow ==
    \E option \in OlOptions, body \in OlBodies :
        /\ Len(olStack) < OlMaxShown
        /\ olStack' = Append(olStack, [option |-> option, body |-> body])
        /\ UNCHANGED <<olTerm, olLines, olDock, olMarker>>
OlHide ==
    /\ \E i \in DOMAIN olStack : olStack' = RemoveAt(olStack, i)
    /\ UNCHANGED <<olTerm, olLines, olDock, olMarker>>
(* In fullscreen a frame has as many lines as the terminal has rows.  The editor
   puts its marker in one of the lines.                                      *)
OlComposes(rows, dock) ==
    /\ olDock' = dock
    /\ olLines' \in IF dock = <<>> THEN OlContents ELSE {rows}
    /\ olMarker' \in {<<-1, 0>>} \cup {<<line, 1>> : line \in 0 .. olLines' - 1}
    /\ UNCHANGED olStack
OlResize ==
    \E size \in OlSizes :
        /\ olTerm' = size
        /\ IF olDock = <<>> THEN UNCHANGED <<olLines, olDock, olMarker, olStack>> ELSE OlComposes(size[2], olDock)
OlContent ==
    \E dock \in OlDocks :
        (dock = <<>>) = (olDock = <<>>) /\ OlComposes(OlHeight, dock) /\ UNCHANGED olTerm
(* enterFullscreen() and exitFullscreen() *)
OlSwitch ==
    \E dock \in OlDocks :
        (dock = <<>>) # (olDock = <<>>) /\ OlComposes(OlHeight, dock) /\ UNCHANGED olTerm
(* compositeOverlays(), for what is there when the render runs. *)
OlRender ==
    /\ olFrame = OlRequested /\ UNCHANGED olWhat
    /\ \E height \in {OlWorkingHeight} : \E placed \in {[i \in DOMAIN olStack |-> OlPlaced(i, height)]} :
           olFrame' = [height |-> height, placed |-> placed, selectable |-> OlSelectable(placed, height)]
OlNext ==
    \/ (OlShow \/ OlHide \/ OlResize \/ OlContent \/ OlSwitch) /\ olFrame' = OlRequested
    \/ OlRender

OlSpec == OlInit /\ [][OlNext]_olVars

-----------------------------------------------------------------------------
OlViewport == olFrame.height - OlHeight
OlHasRoom(o, height) ==
    /\ o.margin.left + o.margin.right < OlWidth
    /\ height <= OlHeight - o.margin.top - o.margin.bottom

(* An overlay with room between its margins lies between them, whole and on the screen. *)
OlInside(o, placed) ==
    /\ placed.col >= o.margin.left /\ placed.col + placed.width <= OlWidth - o.margin.right
    /\ placed.first >= OlViewport + o.margin.top
    /\ placed.first + Len(placed.body) <= olFrame.height - o.margin.bottom
OlInsideMargins ==
    \A i \in DOMAIN olStack :
        ~OlSeeksMarker(i) /\ ~olStack[i].option.scrollback /\ OlHasRoom(olStack[i].option, Len(olFrame.placed[i].body))
            => OlInside(olStack[i].option, olFrame.placed[i])

(* Showing overlays that have room scrolls nothing of the content away. *)
OlContentStays ==
    (\A i \in DOMAIN olStack : ~OlSeeksMarker(i) => OlHasRoom(olStack[i].option, Len(olFrame.placed[i].body)))
        => OlViewport = OlMax(0, olLines - OlHeight)

(* A popup never covers the line of its marker: it ends at the marker's row
   plus its offset, within the screen, and loses lines only for want of rows -
   unless the marker is so high that no row is left above it.               *)
OlStandsClear(placed, length, row) ==
    /\ placed.first >= OlViewport
    /\ placed.col >= 0 /\ placed.col + placed.width <= OlWidth
    /\ row > OlViewport =>
           placed.first + Len(placed.body) = row /\ Len(placed.body) = OlMin(length, row - OlViewport)
OlPopupStandsClear ==
    \A i \in DOMAIN olStack :
        OlFindsMarker(i) /\ olFrame.placed[i] # OlNothing =>
            OlStandsClear(olFrame.placed[i], Len(OlBody(i)), olMarker[1] + olStack[i].option.offsetY)

(* A selection of the frame starts only in text that is seen: in fullscreen the
   text of the dock where no overlay covers it, and in both modes the text of
   the focused overlay where no other overlay lies over it.                  *)
OlOver(i) == UNION {OlArea(olFrame.placed[j], olFrame.height) : j \in i + 1 .. Len(olStack)}
OlSelectsWhatShows ==
    olFrame.selectable =
        (OlDockText \ OlOver(0))
          \cup UNION {OlInk(olFrame.placed[i], olFrame.height) \ OlOver(i) : i \in {i \in DOMAIN olStack : OlFocused(i)}}

(* However the terminal is resized and the content grows under them, overlays
   are drawn where their options say, clear of what they must not cover.   *)
OverlayFits == olFrame # OlRequested => OlInsideMargins /\ OlContentStays /\ OlPopupStandsClear /\ OlSelectsWhatShows
=============================================================================
