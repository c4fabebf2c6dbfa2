------------------------------ MODULE Terminal ------------------------------
(***************************************************************************)
(* ProcessTerminal of packages/tui: what it switches on in the terminal it *)
(* runs in and what it must switch off again, over starts and stops, the   *)
(* late answer to the keyboard query, and the hand-over of a preserved     *)
(* alternate screen from one ProcessTerminal to the next.  The TUI of a    *)
(* process starts a terminal after the one before has stopped.             *)
(***************************************************************************)
EXTENDS Integers, FiniteSets

CONSTANTS
    TtyTerminals,   \* ProcessTerminals of the process
    TtyMaxStarts    \* bound

TtyNone == "none"

ASSUME TtyAssumption == TtyMaxStarts \in Nat /\ TtyNone \notin TtyTerminals

VARIABLES
    tty,          \* the terminal itself: [raw, paste, kitty, otherKeys, alt, mouse, progress]
    ttyFields,    \* [terminal -> its fields]
    ttyAltHand,   \* pendingAltScreenHandoff: a terminal, or none
    ttyInputHand, \* pendingInputHandoff: [token, wasRaw], or none
    ttyAnswers,   \* keyboard queries the terminal has not been heard to answer
    ttyStarts

ttyVars == <<tty, ttyFields, ttyAltHand, ttyInputHand, ttyAnswers, ttyStarts>>

TtyNoHand == [token |-> TtyNone, wasRaw |-> FALSE]
TtyCooked == [raw |-> FALSE, paste |-> FALSE, kitty |-> 0, otherKeys |-> FALSE, alt |-> FALSE, mouse |-> FALSE, progress |-> FALSE]
TtyNew == [made |-> FALSE, started |-> FALSE, wasRaw |-> FALSE, kitty |-> FALSE, otherKeys |-> FALSE, alt |-> FALSE,
           mouse |-> FALSE, progress |-> FALSE, fallback |-> FALSE]

TtyInit ==
    /\ tty = TtyCooked /\ ttyFields = [t \in TtyTerminals |-> TtyNew]
    /\ ttyAltHand = TtyNone /\ ttyInputHand = TtyNoHand /\ ttyAnswers = 0 /\ ttyStarts = 0

TtyNoneStarted == \A t \in TtyTerminals : ~ttyFields[t].started

(* The constructor adopts an alternate screen that was handed over. *)
TtyCreate(t) ==
    /\ ~ttyFields[t].made
    /\ ttyFields' = [ttyFields EXCEPT ![t] = [@ EXCEPT !.made = TRUE, !.alt = ttyAltHand # TtyNone]]
    /\ ttyAltHand' = TtyNone
    /\ UNCHANGED <<tty, ttyInputHand, ttyAnswers, ttyStarts>>

(* start(): raw mode as it was is what the hand-over says, if there is one. *)
TtyWasRaw == IF ttyInputHand = TtyNoHand THEN tty.raw ELSE ttyInputHand.wasRaw

TtyStart(t) ==
    /\ ttyFields[t].made /\ TtyNoneStarted
    /\ ttyStarts < TtyMaxStarts /\ ttyStarts' = ttyStarts + 1
    /\ ttyFields' = [ttyFields EXCEPT ![t] = [@ EXCEPT !.started = TRUE, !.wasRaw = TtyWasRaw, !.fallback = TRUE]]
    /\ ttyInputHand' = TtyNoHand
    /\ tty' = [tty EXCEPT !.raw = TRUE, !.paste = TRUE]
    /\ ttyAnswers' = ttyAnswers + 1
    /\ UNCHANGED ttyAltHand

(* The terminal answers the query; an answer while the protocol is on already is
   passed on as a key.  While a hand-over waits, input is thrown away.     *)
TtyPushed(t) == IF ttyFields[t].kitty THEN 0 ELSE 1
TtyAnswered(t) == [ttyFields[t] EXCEPT !.kitty = TRUE, !.fallback = @ /\ ttyFields[t].kitty]
TtyAnswer(t) ==
    /\ ttyFields[t].started /\ ttyAnswers > 0 /\ ttyAnswers' = ttyAnswers - 1
    /\ tty' = [tty EXCEPT !.kitty = @ + TtyPushed(t)]
    /\ ttyFields' = [ttyFields EXCEPT ![t] = TtyAnswered(t)]
    /\ UNCHANGED <<ttyAltHand, ttyInputHand, ttyStarts>>

TtyDiscard ==
    /\ ttyInputHand # TtyNoHand /\ ttyAnswers > 0 /\ ttyAnswers' = ttyAnswers - 1
    /\ UNCHANGED <<tty, ttyFields, ttyAltHand, ttyInputHand, ttyStarts>>

(* No answer within 150 ms. *)
TtyAsksOtherKeys(t) == ~ttyFields[t].kitty /\ ~ttyFields[t].otherKeys
TtyFellBack(t) == [ttyFields[t] EXCEPT !.fallback = FALSE, !.otherKeys = @ \/ TtyAsksOtherKeys(t)]
TtyFallback(t) ==
    /\ ttyFields[t].fallback
    /\ tty' = [tty EXCEPT !.otherKeys = @ \/ TtyAsksOtherKeys(t)]
    /\ ttyFields' = [ttyFields EXCEPT ![t] = TtyFellBack(t)]
    /\ UNCHANGED <<ttyAltHand, ttyInputHand, ttyAnswers, ttyStarts>>

-----------------------------------------------------------------------------
(* setMouseTracking(), setProgress(), enterAltScreen() *)
TtySwitch(t, mode, on) ==
    /\ ttyFields[t].started
    /\ tty' = [tty EXCEPT ![mode] = on] /\ ttyFields' = [ttyFields EXCEPT ![t] = [@ EXCEPT ![mode] = on]]
    /\ UNCHANGED <<ttyAltHand, ttyInputHand, ttyAnswers, ttyStarts>>

TtyOwnsAltHand(t) == ttyAltHand = t

TtyEnterAlt(t) ==
    /\ ttyFields[t].started /\ ~ttyFields[t].alt
    /\ ttyFields' = [ttyFields EXCEPT ![t].alt = TRUE]
    /\ tty' = [tty EXCEPT !.alt = TRUE]
    /\ ttyAltHand' = IF TtyOwnsAltHand(t) THEN TtyNone ELSE ttyAltHand
    /\ UNCHANGED <<ttyInputHand, ttyAnswers, ttyStarts>>

(* releaseAltScreen(): gives up a hand-over that nobody took, too. *)
TtyReleases(t) == ttyFields[t].alt \/ TtyOwnsAltHand(t)
TtyCancels(t) == TtyOwnsAltHand(t) /\ ttyInputHand.token = t

TtyReleased(t) ==
    [tty EXCEPT !.alt = IF TtyReleases(t) THEN FALSE ELSE @, !.raw = IF TtyCancels(t) THEN ttyInputHand.wasRaw ELSE @]

TtyLeaveAlt(t) ==
    /\ ttyFields[t].made
    /\ tty' = TtyReleased(t) /\ ttyFields' = [ttyFields EXCEPT ![t].alt = FALSE]
    /\ ttyAltHand' = IF TtyOwnsAltHand(t) THEN TtyNone ELSE ttyAltHand
    /\ ttyInputHand' = IF TtyCancels(t) THEN TtyNoHand ELSE ttyInputHand
    /\ UNCHANGED <<ttyAnswers, ttyStarts>>

(* stop(): everything this terminal has switched on is switched off.  It may come
   again, but not from a terminal whose successor is on its way.            *)
TtyOff_KeepsOtherKeys(t, base) ==
    LET f == ttyFields[t]
    IN  [base EXCEPT !.paste = FALSE, !.mouse = @ /\ ~f.mouse, !.progress = @ /\ ~f.progress,
                     !.kitty = IF f.kitty THEN @ - 1 ELSE @, !.otherKeys = @ /\ (f.kitty => ~f.otherKeys)]
TtyOff(t, base) ==
    LET f == ttyFields[t]
    IN  [base EXCEPT !.paste = FALSE, !.mouse = @ /\ ~f.mouse, !.progress = @ /\ ~f.progress,
                     !.kitty = IF f.kitty THEN @ - 1 ELSE @, !.otherKeys = @ /\ ~f.otherKeys]

TtyIdle(t) == [ttyFields[t] EXCEPT !.started = FALSE, !.kitty = FALSE, !.otherKeys = FALSE, !.alt = FALSE, !.mouse = FALSE,
                                   !.progress = FALSE, !.fallback = FALSE]

TtyStop(t) ==
    /\ ttyFields[t].started \/ (ttyFields[t].made /\ TtyNoneStarted /\ (ttyInputHand = TtyNoHand \/ TtyOwnsAltHand(t)))
    /\ tty' = [TtyOff(t, TtyReleased(t)) EXCEPT !.raw = ttyFields[t].wasRaw]
    /\ ttyFields' = [ttyFields EXCEPT ![t] = TtyIdle(t)]
    /\ ttyAltHand' = IF TtyOwnsAltHand(t) THEN TtyNone ELSE ttyAltHand
    /\ ttyInputHand' = IF TtyCancels(t) THEN TtyNoHand ELSE ttyInputHand
    /\ UNCHANGED <<ttyAnswers, ttyStarts>>

(* stop() with preserveAltScreen, which the TUI asks for only on the alternate
   screen: the screen and raw mode stay for the next terminal.             *)
TtyHandOver(t) ==
    /\ ttyFields[t].started /\ ttyFields[t].alt
    /\ tty' = TtyOff(t, tty)
    /\ ttyFields' = [ttyFields EXCEPT ![t] = TtyIdle(t)]
    /\ ttyAltHand' = t
    /\ ttyInputHand' = [token |-> t, wasRaw |-> IF ttyInputHand = TtyNoHand THEN ttyFields[t].wasRaw ELSE ttyInputHand.wasRaw]
    /\ UNCHANGED <<ttyAnswers, ttyStarts>>

TtyNext ==
    \/ TtyDiscard
    \/ \E t \in TtyTerminals :
          \/ TtyCreate(t) \/ TtyStart(t) \/ TtyAnswer(t) \/ TtyFallback(t) \/ TtyStop(t) \/ TtyHandOver(t)
          \/ TtyEnterAlt(t) \/ TtyLeaveAlt(t)
          \/ \E mode \in {"mouse", "progress"}, on \in BOOLEAN : TtySwitch(t, mode, on)

TtySpec == TtyInit /\ [][TtyNext]_ttyVars

-----------------------------------------------------------------------------
TtyModes == [raw : BOOLEAN, paste : BOOLEAN, kitty : 0 .. 1, otherKeys : BOOLEAN, alt : BOOLEAN, mouse : BOOLEAN, progress : BOOLEAN]
TtyRow == [made : BOOLEAN, started : BOOLEAN, wasRaw : BOOLEAN, kitty : BOOLEAN, otherKeys : BOOLEAN, alt : BOOLEAN,
           mouse : BOOLEAN, progress : BOOLEAN, fallback : BOOLEAN]

TtyTypeOK ==
    /\ tty \in TtyModes /\ ttyFields \in [TtyTerminals -> TtyRow]
    /\ ttyAltHand \in TtyTerminals \cup {TtyNone}
    /\ ttyInputHand \in [token : TtyTerminals \cup {TtyNone}, wasRaw : BOOLEAN]
    /\ ttyAnswers \in 0 .. TtyMaxStarts /\ ttyStarts \in 0 .. TtyMaxStarts

(* "Stop the terminal and restore state": with no terminal started, none holding
   the alternate screen and no hand-over waiting, the shell gets its terminal
   back as it was, whatever was switched on, answered late or handed over.  *)
TtyReleasedByAll ==
    /\ TtyNoneStarted /\ ttyAltHand = TtyNone /\ ttyInputHand = TtyNoHand
    /\ \A t \in TtyTerminals : ~ttyFields[t].alt
TtyRestored == TtyReleasedByAll => tty = TtyCooked

(* A started terminal reads keys in raw mode, and "restoring cooked mode during
   the gap" of a hand-over does not happen.                                *)
RawWhileReading == ~TtyNoneStarted \/ ttyInputHand # TtyNoHand => tty.raw

(* However starts, stops, hand-overs and late answers interleave, the terminal is
   raw while somebody reads it and as it was when the last one has let go. *)
TerminalSafe == TtyTypeOK /\ TtyRestored /\ RawWhileReading
=============================================================================
