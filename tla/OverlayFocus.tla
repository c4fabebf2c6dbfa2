---------------------------- MODULE OverlayFocus ----------------------------
(***************************************************************************)
(* Overlays and keyboard focus of packages/tui (tui.ts): the stack that    *)
(* showOverlay() and its handles change, and where handleInput() sends a   *)
(* key.  An overlay remembers what had the focus when it was shown, and its  *)
(* handle still moves the focus when the overlay has been removed.         *)
(*                                                                         *)
(* Components are names; one component is in at most one entry.  Rendering *)
(* is module ScreenRender; mouse tracking of the fullscreen mode is left   *)
(* out.                                                                    *)
(***************************************************************************)
EXTENDS Integers, Sequences, SequencesExt

CONSTANTS
    OvEditor,    \* the component under all overlays
    OvDialogs,   \* components shown as overlays
    OvPassive,   \* those shown with nonCapturing
    OvWide       \* those with a visible() that needs a wide terminal

ASSUME OvAssumption ==
    OvEditor \notin OvDialogs /\ OvPassive \subseteq OvDialogs /\ OvWide \subseteq OvDialogs

VARIABLES
    ovStack,    \* overlayStack, bottom first: [component, preFocus, hidden]
    ovFocus,    \* focusedComponent
    ovIsWide,   \* the terminal is wide
    ovKept,     \* removed entries whose handle is still held: bound, one at a time
    ovStray     \* history: a fallback or a held handle gave the focus to what is not on the screen

ovVars == <<ovStack, ovFocus, ovIsWide, ovKept, ovStray>>

-----------------------------------------------------------------------------
OvVisible(e) == ~e.hidden /\ (e.component \in OvWide => ovIsWide)
OvCaptures(e) == e.component \notin OvPassive

(* getTopmostVisibleOverlay(): its component, or other. *)
OvModals(stack) == {i \in DOMAIN stack : OvCaptures(stack[i]) /\ OvVisible(stack[i])}
OvTopOr(stack, other) == IF OvModals(stack) = {} THEN other ELSE stack[Max(OvModals(stack))].component

OvIsModal == OvTopOr(ovStack, OvEditor) # OvEditor
OvShown == {ovStack[i].component : i \in DOMAIN ovStack}
OvPlace(c) == CHOOSE i \in DOMAIN ovStack : ovStack[i].component = c
OvEntry(c) == ovStack[OvPlace(c)]
OvWithout(c) == RemoveAt(ovStack, OvPlace(c))

OvOnScreen(c) == c = OvEditor \/ (c \in OvShown /\ OvVisible(OvEntry(c)))

(* The new focus; a fallback, or the handle of an overlay that was removed, may
   give it to an overlay that has gone, which is noted until everything is
   closed again.                                                           *)
OvFocuses(c, fallback) ==
    /\ ovFocus' = c
    /\ ovStray' = /\ ovStack' # <<>> \/ c # OvEditor
                  /\ ovStray \/ (fallback /\ ~OvOnScreen(ovFocus)')

-----------------------------------------------------------------------------
(* showOverlay(): its focus is taken if it can be seen. *)
OvFocusShown(c, stack) == IF OvCaptures(Last(stack)) /\ OvVisible(Last(stack)) THEN c ELSE ovFocus
OvShow(c) ==
    /\ c \notin OvShown
    /\ ovStack' = Append(ovStack, [component |-> c, preFocus |-> ovFocus, hidden |-> FALSE])
    /\ UNCHANGED ovIsWide
    /\ OvFocuses(OvFocusShown(c, ovStack'), FALSE)

(* What gets the focus when an entry loses it: the topmost one, or what had it before. *)
OvFallback(stack, e) == OvTopOr(stack, e.preFocus)

(* Removes an entry, then focuses: `after` is what the caller calls setFocus() with. *)
OvRemove(e, after) ==
    /\ ovStack' = OvWithout(e.component)
    /\ UNCHANGED ovIsWide
    /\ OvFocuses(after, ovFocus = e.component /\ after = e.preFocus)

OvAfterRemoval(e) ==
    IF ovFocus = e.component THEN OvFallback(OvWithout(e.component), e) ELSE ovFocus

(* Whoever showed an entry that goes may hold on to its handle. *)
OvKeeps(e) == ovKept' \in {ovKept, {e}}

(* handle.hide() *)
OvHide(c) == c \in OvShown /\ OvRemove(OvEntry(c), OvAfterRemoval(OvEntry(c))) /\ OvKeeps(OvEntry(c))

(* hideOverlay(): the last one shown, whatever can be seen. *)
OvPop == ovStack # <<>> /\ OvRemove(Last(ovStack), OvAfterRemoval(Last(ovStack))) /\ OvKeeps(Last(ovStack))

(* handle.setHidden(), of an overlay that is shown and of one that was removed. *)
OvFocusHidden(stack, e) ==
    IF e.hidden /\ ovFocus = e.component THEN OvFallback(stack, e)
    ELSE IF OvCaptures(e) /\ OvVisible(e) THEN e.component ELSE ovFocus
OvSetHidden(c, hidden) ==
    /\ c \in OvShown /\ OvEntry(c).hidden # hidden
    /\ ovStack' = [ovStack EXCEPT ![OvPlace(c)] = [@ EXCEPT !.hidden = hidden]]
    /\ UNCHANGED ovIsWide
    /\ LET e == [OvEntry(c) EXCEPT !.hidden = hidden]
       IN  OvFocuses(OvFocusHidden(ovStack', e), hidden)
OvSetHiddenLate(e) ==
    LET turned == [e EXCEPT !.hidden = ~@]
    IN  /\ ovKept' = (ovKept \ {e}) \cup {turned}
        /\ UNCHANGED <<ovStack, ovIsWide>>
        /\ OvFocuses(OvFocusHidden(ovStack, turned), TRUE)

OvSetFocus(c) == UNCHANGED <<ovStack, ovIsWide>> /\ OvFocuses(c, FALSE)

(* handle.focus() and handle.unfocus(); the latter also of an overlay that was removed. *)
OvFocusOn(c) == c \in OvShown /\ OvVisible(OvEntry(c)) /\ OvSetFocus(c)
OvUnfocus(c) ==
    /\ c \in OvShown /\ ovFocus = c
    /\ UNCHANGED <<ovStack, ovIsWide>>
    /\ OvFocuses(IF OvTopOr(ovStack, c) # c THEN OvTopOr(ovStack, c) ELSE OvEntry(c).preFocus, TRUE)
OvUnfocusLate(e) ==
    /\ ovFocus = e.component
    /\ UNCHANGED <<ovStack, ovIsWide>>
    /\ OvFocuses(OvFallback(ovStack, e), TRUE)

OvResize ==
    /\ ovIsWide' = ~ovIsWide
    /\ UNCHANGED <<ovStack, ovFocus, ovStray>>

(* handleInput(): the component that gets the key. *)
OvVerified ==
    IF ovFocus \in OvShown /\ ~OvVisible(OvEntry(ovFocus)) THEN OvEntry(ovFocus).preFocus ELSE ovFocus
OvRecipient == IF OvIsModal THEN OvTopOr(ovStack, OvEditor) ELSE OvVerified
OvKey == UNCHANGED <<ovStack, ovIsWide>> /\ OvFocuses(OvRecipient, OvRecipient # ovFocus)

OvInit == ovStack = <<>> /\ ovFocus = OvEditor /\ ovIsWide = TRUE /\ ovKept = {} /\ ovStray = FALSE

OvNext ==
    \/ OvPop \/ \E c \in OvDialogs : OvHide(c)
    \/ \E e \in ovKept : OvSetHiddenLate(e)
    \/ /\ UNCHANGED ovKept
       /\ \/ \E c \in OvDialogs : OvShow(c) \/ OvFocusOn(c) \/ OvUnfocus(c)
          \/ \E c \in OvDialogs, hidden \in BOOLEAN : OvSetHidden(c, hidden)
          \/ \E e \in ovKept : OvUnfocusLate(e)
          \/ OvResize \/ OvKey

OvSpec == OvInit /\ [][OvNext]_ovVars

-----------------------------------------------------------------------------
OvRow == [component : OvDialogs, preFocus : OvDialogs \cup {OvEditor}, hidden : BOOLEAN]

OvTypeOK ==
    /\ ovStack \in Seq(OvRow)
    /\ \A i, j \in DOMAIN ovStack : ovStack[i].component = ovStack[j].component => i = j
    /\ ovFocus \in OvDialogs \cup {OvEditor}
    /\ ovIsWide \in BOOLEAN /\ ovStray \in BOOLEAN

OvKeptOK == ovKept \subseteq OvRow

(* "A capturing modal owns the terminal input stream": a key goes to the
   topmost modal that can be seen.  Without one it goes to something that can
   be seen, whatever order the overlays were shown, hidden and removed in,
   unless the focus fell back to one that had gone or the handle of a removed
   one gave it the focus.                                                  *)
KeysGoToTheVisible ==
    /\ OvIsModal => OvRecipient = OvTopOr(ovStack, OvEditor)
    /\ OvOnScreen(OvRecipient) \/ ovStray \/ OvRecipient # ovFocus

(* The focus is never left on an overlay that was removed, except by a fallback
   or by the handle of a removed one.                                      *)
FocusIsShown == ovStray \/ ovFocus \in OvShown \cup {OvEditor}

(* In whatever order overlays are shown, hidden, focused and removed, keys go to
   something on the screen.                                                *)
OverlaySafe == OvTypeOK /\ OvKeptOK /\ KeysGoToTheVisible /\ FocusIsShown
=============================================================================
