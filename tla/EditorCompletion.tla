-------------------------- MODULE EditorCompletion --------------------------
(***************************************************************************)
(* Completion in the prompt editor of packages/tui: when a key requests    *)
(* suggestions (components/editor.ts), how requests are debounced, queued, *)
(* aborted and answered, what accepting a suggestion makes of the line     *)
(* (autocomplete.ts), and the popup's overlay.  The text is one line over  *)
(* "/", "@", "a" and " "; EditorBuffer models editing itself.              *)
(*                                                                         *)
(* The provider answers any time later with any number of suggestions; a   *)
(* request that has been cancelled runs on until then.                     *)
(***************************************************************************)
EXTENDS Integers, Sequences, SequencesExt

CONSTANTS
    CpChars,      \* characters typed, of "/", "@", "a", " "
    CpTexts,      \* texts set by the program
    CpMaxLength, CpMaxSteps   \* bounds: characters of the line, keys

ASSUME CpAssumption == {"/", "@", "a", " "} \subseteq CpChars /\ CpTexts \subseteq Seq(CpChars) /\ CpMaxLength \in Nat

VARIABLES
    cpText, cpCol,    \* the line and the cursor
    cpUi,             \* the popup, or CpNone: autocompleteState, -Prefix, -Kind
    cpOverlay,        \* autocompleteOverlay is there
    cpTimer,          \* options of the request whose debounce timer runs, or CpNone
    cpWaiting,        \* options of the live request that awaits the one before it, or CpNone
    cpRun,            \* the request the provider is working on, or CpNone
    cpMoved,          \* history: the cursor moved on its own since the last edit
    cpSteps

cpVars == <<cpText, cpCol, cpUi, cpOverlay, cpTimer, cpWaiting, cpRun, cpMoved, cpSteps>>

CpNone == [none |-> TRUE]
CpNoPrefix == <<"none">>

CpBefore(text, col) == SubSeq(text, 1, col)
CpFrom(text, i) == SubSeq(text, i, Len(text))

-----------------------------------------------------------------------------
(* autocomplete.ts and slash-command-context.ts: what stands before the cursor. *)
CpSpaces(t) == {i \in 1 .. Len(t) : t[i] = " "}
CpToken(t) == CpFrom(t, 1 + (IF CpSpaces(t) = {} THEN 0 ELSE CHOOSE i \in CpSpaces(t) : \A j \in CpSpaces(t) : j <= i))
CpTrimmed(t) == LET words == {i \in 1 .. Len(t) : t[i] # " "}
                IN  IF words = {} THEN <<>> ELSE CpFrom(t, CHOOSE i \in words : \A j \in words : i <= j)
CpStarts(t, ch) == t # <<>> /\ t[1] = ch
CpCommand(t) == CpStarts(t, "/") /\ "/" \notin Range(Tail(t))

(* getSlashCommandContext() *)
CpContext(t) ==
    LET line == CpTrimmed(t)
        gaps == CpSpaces(line)
        gap == CHOOSE i \in gaps : \A j \in gaps : i <= j
        name == IF gaps = {} THEN line ELSE SubSeq(line, 1, gap - 1)
        none == [kind |-> "no"]
    IN  IF CpStarts(line, "/")
        THEN IF ~CpCommand(name) \/ (gaps # {} /\ name = <<"/">>) THEN none
             ELSE IF gaps = {} THEN [kind |-> "name", prefix |-> name, start |-> TRUE]
             ELSE [kind |-> "argument", prefix |-> CpFrom(line, gap + 1), start |-> TRUE]
        ELSE IF CpCommand(CpToken(t)) THEN [kind |-> "name", prefix |-> CpToken(t), start |-> FALSE] ELSE none

CpAttaching(t) == CpStarts(CpToken(t), "@")
CpCompletable(t) == CpContext(t).kind # "no" \/ CpAttaching(t)

(* getSuggestions(): the prefix suggestions are for, with a null answer as CpNoPrefix. *)
CpPath(t, force) == IF force \/ "/" \in Range(CpToken(t)) \/ (CpToken(t) = <<>> /\ t # <<>>) THEN CpToken(t) ELSE CpNoPrefix
CpPrefix(t, force) ==
    CASE CpAttaching(t) -> CpToken(t)
      [] ~CpAttaching(t) /\ ~force /\ CpContext(t).kind # "no" -> CpContext(t).prefix
      [] OTHER -> CpPath(t, force)
CpKind(t, force) ==
    IF CpAttaching(t) \/ force THEN "file"
    ELSE CASE CpContext(t).kind = "name" -> "slash-command" [] CpContext(t).kind = "argument" -> "undefined" [] OTHER -> "file"

(* applyCompletion(): slice(0, n) counts from the end when n is negative. *)
CpSlice(t, n) == IF n >= 0 THEN SubSeq(t, 1, n) ELSE SubSeq(t, 1, Len(t) + n)
CpApplied_BeforeSpace(prefix) ==
    LET before == CpSlice(cpText, cpCol - Len(prefix))
    IN  [text |-> before \o <<"/", "a", " ">> \o CpFrom(cpText, cpCol + 1), col |-> Len(before) + 2]
CpApplied(prefix) ==
    LET t == CpBefore(cpText, cpCol)
        before == CpSlice(cpText, cpCol - Len(prefix))
        after == CpFrom(cpText, cpCol + 1)
        context == CpContext(t)
        item == CASE context.kind = "name" /\ context.prefix = prefix ->
                        IF CpStarts(after, " ") THEN <<"/", "a">> ELSE <<"/", "a", " ">>
                  [] ~(context.kind = "name" /\ context.prefix = prefix) /\ CpStarts(prefix, "@") -> <<"@", "a", " ">>
                  [] OTHER -> <<"a">>
    IN  [text |-> before \o item \o after, col |-> Len(before) + Len(item)]

-----------------------------------------------------------------------------
(* Requests.  cancelAutocompleteRequest() makes the timer, the waiting request
   and the running one stale; the last keeps the provider busy.             *)
CpAborted_Runs == cpRun
CpAborted == IF cpRun = CpNone THEN CpNone ELSE [cpRun EXCEPT !.aborted = TRUE]

CpDebounced(text, col, force, explicit) == ~force /\ ~explicit /\ CpAttaching(CpBefore(text, col))

CpTimed(later, options) == IF later THEN options ELSE CpNone

(* requestAutocomplete(), after an edit to text and col. *)
CpRequest(text, col, force, explicit) ==
    IF force /\ CpContext(CpBefore(text, col)).kind = "name" THEN UNCHANGED <<cpTimer, cpWaiting, cpRun>>
    ELSE /\ cpRun' = CpAborted
         /\ LET options == [force |-> force, explicit |-> explicit]
                later == CpDebounced(text, col, force, explicit)
            IN  /\ cpTimer' = CpTimed(later, options)
                /\ cpWaiting' = IF later THEN CpNone ELSE options

CpLeaveRequests == UNCHANGED <<cpTimer, cpWaiting, cpRun>>
CpCancelRequests == cpTimer' = CpNone /\ cpWaiting' = CpNone /\ cpRun' = CpAborted

(* clearAutocompleteUi() and cancelAutocomplete() *)
CpClearUi == cpUi' = CpNone /\ cpOverlay' = FALSE
CpCancel == CpClearUi /\ CpCancelRequests
CpKeepUi == UNCHANGED <<cpUi, cpOverlay>>

(* refreshAutocompleteAfterEdit() *)
CpUpdate(text, col) == CpKeepUi /\ CpRequest(text, col, cpUi.state = "force", FALSE)

CpBlank(text) == Range(text) \subseteq {" "}
CpRefresh(text, col, retrigger) ==
    LET completable == CpCompletable(CpBefore(text, col))
    IN  IF cpUi # CpNone
        THEN IF CpBlank(text) \/ (cpUi.state = "regular" /\ ~completable) THEN CpCancel ELSE CpUpdate(text, col)
        ELSE CpKeepUi /\ IF retrigger /\ completable THEN CpRequest(text, col, FALSE, FALSE) ELSE CpLeaveRequests

-----------------------------------------------------------------------------
(* A request that can start does so before the next key is read. *)
CpSettled == cpWaiting = CpNone \/ cpRun # CpNone
CpKey == CpSettled /\ cpSteps < CpMaxSteps /\ cpSteps' = cpSteps + 1

CpEdited(text, col) == Len(text) <= CpMaxLength /\ cpText' = text /\ cpCol' = col /\ cpMoved' = FALSE

(* insertCharacter() *)
CpTriggers(t, ch) ==
    \/ ch = "/" /\ CpContext(t).kind = "name"
    \/ ch = "@" /\ (Len(t) = 1 \/ t[Len(t) - 1] = " ")
    \/ ch = "a" /\ CpCompletable(t)

CpType(ch) ==
    LET text == CpBefore(cpText, cpCol) \o <<ch>> \o CpFrom(cpText, cpCol + 1)
        col == cpCol + 1
    IN  /\ CpKey /\ CpEdited(text, col)
        /\ IF cpUi # CpNone THEN CpRefresh(text, col, FALSE)
           ELSE CpKeepUi /\ IF CpTriggers(CpBefore(text, col), ch) THEN CpRequest(text, col, FALSE, FALSE) ELSE CpLeaveRequests

CpBackspace ==
    /\ CpKey
    /\ LET col == IF cpCol = 0 THEN 0 ELSE cpCol - 1
           text == CpBefore(cpText, col) \o CpFrom(cpText, cpCol + 1)
       IN  CpEdited(text, col) /\ CpRefresh(text, col, TRUE)

CpForwardDelete ==
    /\ CpKey
    /\ LET text == CpBefore(cpText, cpCol) \o CpFrom(cpText, cpCol + 2) IN CpEdited(text, cpCol) /\ CpRefresh(text, cpCol, TRUE)

(* Kills; undo and yanks refresh in the same way. *)
CpKillToStart == CpKey /\ CpEdited(CpFrom(cpText, cpCol + 1), 0) /\ CpRefresh(cpText', 0, FALSE)
CpKillToEnd == CpKey /\ CpEdited(CpBefore(cpText, cpCol), cpCol) /\ CpRefresh(cpText', cpCol, FALSE)

(* Cursor keys ask for nothing and cancel nothing. *)
CpMove(col) ==
    /\ CpKey /\ cpCol # col /\ cpCol' = col /\ cpMoved' = TRUE
    /\ CpKeepUi /\ CpLeaveRequests /\ UNCHANGED cpText

(* Tab and Enter on the popup accept the selected suggestion.  Enter on a command
   at the start of the prompt goes on to submit it, if it takes no argument. *)
CpAccept == CpKey /\ cpUi # CpNone /\ CpEdited(CpApplied(cpUi.prefix).text, CpApplied(cpUi.prefix).col) /\ CpCancel

CpIsCommand == cpUi.kind = "slash-command" \/ (cpUi.kind = "undefined" /\ cpUi.state = "regular" /\ CpStarts(cpUi.prefix, "/"))
CpSubmitsCommand == CpIsCommand /\ CpContext(CpBefore(cpText, cpCol)).kind = "name" /\ CpContext(CpBefore(cpText, cpCol)).start

(* submitValue(), setText(), a paste or a new line: the program or the user
   replaces the text, completion ends.                                      *)
CpReplace(text) == CpEdited(text, Len(text)) /\ CpCancel

CpEnter == CpKey /\ (cpUi # CpNone => CpSubmitsCommand) /\ CpReplace(<<>>)
CpSetText(text) == CpKey /\ CpReplace(text)

CpEscape == CpKey /\ cpUi # CpNone /\ CpCancel /\ UNCHANGED <<cpText, cpCol, cpMoved>>

(* handleTabCompletion() *)
CpTab ==
    /\ CpKey /\ cpUi = CpNone /\ CpKeepUi
    /\ CpRequest(cpText, cpCol, CpContext(CpBefore(cpText, cpCol)).kind # "name", TRUE)
    /\ UNCHANGED <<cpText, cpCol, cpMoved>>

-----------------------------------------------------------------------------
(* The debounce timer fires; the request starts once the one before is over. *)
CpTimerFires ==
    /\ CpSettled /\ cpTimer # CpNone
    /\ cpWaiting' = cpTimer /\ cpTimer' = CpNone
    /\ UNCHANGED <<cpText, cpCol, cpUi, cpOverlay, cpRun, cpMoved, cpSteps>>

CpStart ==
    /\ cpWaiting # CpNone /\ cpRun = CpNone
    /\ cpWaiting' = CpNone
    /\ LET t == CpBefore(cpText, cpCol)
       IN  cpRun' = [force |-> cpWaiting.force, explicit |-> cpWaiting.explicit, text |-> cpText, col |-> cpCol, aborted |-> FALSE,
                     prefix |-> CpPrefix(t, cpWaiting.force), kind |-> CpKind(t, cpWaiting.force)]
    /\ UNCHANGED <<cpText, cpCol, cpUi, cpOverlay, cpTimer, cpMoved, cpSteps>>

(* isAutocompleteRequestCurrent() *)
CpCurrent == ~cpRun.aborted /\ cpRun.text = cpText /\ cpRun.col = cpCol

CpShow ==
    /\ cpUi' = [state |-> IF cpRun.force THEN "force" ELSE "regular", prefix |-> cpRun.prefix, kind |-> cpRun.kind,
                text |-> cpRun.text, col |-> cpRun.col]
    /\ cpOverlay' = TRUE

(* runAutocompleteRequest() once the provider has answered with so many items. *)
CpAnswer(items) ==
    /\ cpRun # CpNone
    /\ cpRun.prefix = CpNoPrefix => items = 0
    /\ cpRun' = CpNone /\ UNCHANGED <<cpTimer, cpWaiting, cpSteps>>
    /\ IF ~CpCurrent THEN CpKeepUi /\ UNCHANGED <<cpText, cpCol, cpMoved>>
       ELSE IF items = 0 THEN CpClearUi /\ UNCHANGED <<cpText, cpCol, cpMoved>>
       ELSE IF items = 1 /\ cpRun.force /\ cpRun.explicit
            THEN CpEdited(CpApplied(cpRun.prefix).text, CpApplied(cpRun.prefix).col) /\ CpKeepUi
       ELSE CpShow /\ UNCHANGED <<cpText, cpCol, cpMoved>>

-----------------------------------------------------------------------------
CpInit ==
    /\ cpText = <<>> /\ cpCol = 0 /\ cpMoved = FALSE
    /\ cpUi = CpNone /\ cpOverlay = FALSE /\ cpTimer = CpNone /\ cpWaiting = CpNone /\ cpRun = CpNone
    /\ cpSteps = 0

CpNext ==
    \/ \E ch \in CpChars : CpType(ch)
    \/ CpBackspace \/ CpForwardDelete \/ CpKillToStart \/ CpKillToEnd
    \/ \E col \in {0, cpCol - 1, cpCol + 1, Len(cpText)} \cap (0 .. Len(cpText)) : CpMove(col)
    \/ CpAccept \/ CpEnter \/ CpEscape \/ CpTab
    \/ \E text \in CpTexts : CpSetText(text)
    \/ CpTimerFires \/ CpStart
    \/ \E items \in 0 .. 2 : CpAnswer(items)

CpSpec == CpInit /\ [][CpNext]_cpVars

(* A timer fires, a task starts, a provider answers (an aborted fd is killed). *)
CpFairness == WF_cpVars(CpTimerFires) /\ WF_cpVars(CpStart) /\ WF_cpVars(\E items \in 0 .. 2 : CpAnswer(items))

-----------------------------------------------------------------------------
CpStrings == UNION {[1 .. n -> CpChars] : n \in 0 .. CpMaxLength}
CpOptions == [force : BOOLEAN, explicit : BOOLEAN]

CpTypeOK ==
    /\ cpText \in CpStrings /\ cpCol \in 0 .. Len(cpText)
    /\ cpUi = CpNone \/ (cpUi.state \in {"regular", "force"} /\ cpUi.prefix \in CpStrings)
    /\ cpOverlay \in BOOLEAN /\ cpMoved \in BOOLEAN
    /\ {cpTimer, cpWaiting} \subseteq CpOptions \cup {CpNone}
    /\ CpNone \in {cpTimer, cpWaiting}

(* "autocompleteOverlay" is there exactly while suggestions are: no path through
   cancelling, answering or accepting leaves a popup without one, or one behind. *)
OverlayMatches == cpOverlay = (cpUi # CpNone)

(* Suggestions appear only for the text and the cursor they were asked for, and
   none appear or are applied once a later request has been made.          *)
PopupFresh ==
    [][cpUi' # cpUi /\ cpUi' # CpNone =>
          cpUi'.text = cpText /\ cpUi'.col = cpCol /\ cpTimer = CpNone /\ cpWaiting = CpNone]_cpVars

(* Accepting a suggestion while it still belongs to the text replaces exactly the
   prefix it was made for and leaves everything around it alone.            *)
CpFresh == cpUi # CpNone /\ cpUi.text = cpText /\ cpUi.col = cpCol
AcceptReplacesPrefix ==
    CpFresh => LET done == CpApplied(cpUi.prefix)
                   around == cpCol - Len(cpUi.prefix)
               IN  /\ around >= 0 /\ SubSeq(cpText, around + 1, cpCol) = cpUi.prefix
                   /\ SubSeq(done.text, 1, around) = SubSeq(cpText, 1, around)
                   /\ CpFrom(done.text, done.col + 1) = CpFrom(cpText, cpCol + 1)

(* A popup that an edit has left behind does not stay: its suggestions are
   replaced or it closes, unless the cursor is moved before the answer comes or
   the popup of files is over what has become the name of a command.       *)
CpFilesOverCommand == cpUi.state = "force" /\ CpContext(CpBefore(cpText, cpCol)).kind = "name"
CpOutOfDate == cpUi # CpNone /\ cpUi.text # cpText /\ ~cpMoved /\ ~CpFilesOverCommand
PopupSettles == CpOutOfDate ~> ~CpOutOfDate

(* The popup, its requests and what accepting replaces agree at every moment. *)
CompletionSafe == CpTypeOK /\ OverlayMatches /\ AcceptReplacesPrefix

(* However typing, the timer, aborted requests and late answers interleave, an
   answer for another text is never shown and a request is never left behind. *)
PopupFollows == PopupFresh /\ PopupSettles
=============================================================================
