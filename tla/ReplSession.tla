----------------------------- MODULE ReplSession -----------------------------
(***************************************************************************)
(* The interactive session of packages/tui (repl/session.ts): goals that   *)
(* run in the background while the user goes on typing, slash commands     *)
(* that wait for a dialog, and the tool approvals of a run, all of them    *)
(* overlays of module OverlayFocus.                                        *)
(*                                                                         *)
(* A run's approval dialog has the name of the run.  The agent itself is   *)
(* module PlanExecution; here a run asks, uses its tool and ends.  Text of *)
(* the transcript and of the editor is left out.                           *)
(***************************************************************************)
EXTENDS OverlayFocus, FiniteSets

CONSTANTS
    RsRuns,      \* goals submitted: bound
    RsMaxSaves   \* bound: Enter keys in one API key dialog

RsDialogs == {"settings", "login", "apikey"}

(* The dialogs of runs and commands capture the keys: session.ts shows none with nonCapturing. *)
ASSUME RsAssumption ==
    /\ RsMaxSaves \in Nat
    /\ RsRuns \cup RsDialogs \subseteq OvDialogs \ OvPassive /\ RsRuns \cap RsDialogs = {}

VARIABLES
    rsRun,        \* [RsRuns -> where the goal's handleInput() is]
    rsAsks,       \* runs whose permissions were taken under "ask before edits"
    rsExecuting,  \* isExecuting
    rsMode,       \* permissionMode: "accept" or "ask"
    rsAwait,      \* dialogs a slash command's handler awaits
    rsSaves,      \* saveAndSubmit() in progress: of the open API key dialog
    rsLate,       \* and of those closed in the meantime
    rsPending,    \* runs with a pending row in approval_requests
    rsExited

rsVars == <<rsRun, rsAsks, rsExecuting, rsMode, rsAwait, rsSaves, rsLate, rsPending, rsExited>>
rsAgent == <<rsRun, rsAsks, rsPending>>
rsKeys == <<rsSaves, rsLate>>

RsActive == {r \in RsRuns : rsRun[r] \in {"model", "asking"}}

RsEditorHasKeys == ~rsExited /\ OvRecipient = OvEditor
RsDialogHasKeys(d) == ~rsExited /\ OvIsModal /\ OvTopOr(ovStack, OvEditor) = d

-----------------------------------------------------------------------------
(* A dialog's callback: handle.hide(), then setFocus(editor). *)
RsClose_Topmost(d) == ovStack # <<>> /\ OvRemove(Last(ovStack), OvEditor)
RsClose(d) == d \in OvShown /\ OvRemove(OvEntry(d), OvEditor)

(* hide() of one dialog, another one opened, then setFocus(editor). *)
RsReplace(d, next) ==
    /\ ovStack' = Append(OvWithout(d),
                         [component |-> next, preFocus |-> OvFallback(OvWithout(d), OvEntry(d)), hidden |-> FALSE])
    /\ UNCHANGED ovIsWide
    /\ OvFocuses(OvEditor, FALSE)

-----------------------------------------------------------------------------
(* handleInput() of a goal: the permissions are those of this moment. *)
RsSubmit(r) ==
    /\ RsEditorHasKeys /\ rsRun[r] = "free"
    /\ rsRun' = [rsRun EXCEPT ![r] = "model"]
    /\ rsAsks' = IF rsMode = "ask" THEN rsAsks \cup {r} ELSE rsAsks
    /\ rsExecuting' = TRUE
    /\ OvKey
    /\ UNCHANGED <<rsMode, rsAwait, rsKeys, rsPending, rsExited>>

(* The model calls write_file or shell; a tool that needs no approval changes nothing here. *)
RsAsk(r) ==
    /\ ~rsExited /\ rsRun[r] = "model" /\ r \in rsAsks
    /\ rsRun' = [rsRun EXCEPT ![r] = "asking"]
    /\ OvShow(r)
    /\ UNCHANGED <<rsAsks, rsExecuting, rsMode, rsAwait, rsKeys, rsPending, rsExited>>

(* The decision in the dialog.  The executor then looks for an approved row of
   its own, finds none, and refuses with a new pending request.              *)
RsDecide(r, approved) ==
    /\ RsDialogHasKeys(r)
    /\ rsRun' = [rsRun EXCEPT ![r] = "model"]
    /\ rsPending' = IF approved THEN rsPending \cup {r} ELSE rsPending
    /\ RsClose(r)
    /\ UNCHANGED <<rsAsks, rsExecuting, rsMode, rsAwait, rsKeys, rsExited>>

(* The `finally` of handleInput(). *)
RsFlagAtEnd == FALSE
RsEnd(r) ==
    /\ ~rsExited /\ rsRun[r] = "model"
    /\ rsRun' = [rsRun EXCEPT ![r] = "over"]
    /\ rsExecuting' = RsFlagAtEnd
    /\ OvSetFocus(OvEditor)
    /\ UNCHANGED <<rsAsks, rsMode, rsAwait, rsKeys, rsPending, rsExited>>

-----------------------------------------------------------------------------
(* Ctrl+C and Ctrl+D, when no dialog takes them. *)
RsInterrupt ==
    /\ ~rsExited /\ ~OvIsModal
    /\ rsExecuting' = FALSE
    /\ IF rsExecuting THEN rsExited' = FALSE /\ OvSetFocus(OvEditor)
       ELSE rsExited' = TRUE /\ UNCHANGED ovVars
    /\ UNCHANGED <<rsAgent, rsMode, rsAwait, rsKeys>>

(* Shift+Tab *)
RsToggleMode ==
    /\ ~rsExited /\ ovStack = <<>>
    /\ rsMode' = IF rsMode = "ask" THEN "accept" ELSE "ask"
    /\ UNCHANGED <<rsAgent, rsExecuting, rsAwait, rsKeys, rsExited, ovVars>>

(* /model, /provider and /mcp; /login of a provider with a browser login; /apikey. *)
RsCommand(d) ==
    /\ RsEditorHasKeys
    /\ OvShow(d)
    /\ rsAwait' = rsAwait \cup {d}
    /\ UNCHANGED <<rsAgent, rsExecuting, rsMode, rsKeys, rsExited>>

(* /login of another provider: resolved at once, the API key dialog stays. *)
RsLoginByKey ==
    /\ RsEditorHasKeys
    /\ "apikey" \notin OvShown
    /\ ovStack' = Append(ovStack, [component |-> "apikey", preFocus |-> ovFocus, hidden |-> FALSE])
    /\ UNCHANGED ovIsWide
    /\ OvFocuses(OvEditor, FALSE)
    /\ UNCHANGED rsVars

(* Escape, or a model or connection chosen, in the settings. *)
RsCloseSettings ==
    /\ RsDialogHasKeys("settings")
    /\ RsClose("settings")
    /\ rsAwait' = rsAwait \ {"settings"}
    /\ UNCHANGED <<rsAgent, rsExecuting, rsMode, rsKeys, rsExited>>

(* A provider chosen: onSelectProvider(), then onClose(). *)
RsResolved(d) == rsAwait \ {d}
RsPickProvider(next) ==
    /\ RsDialogHasKeys("settings")
    /\ RsReplace("settings", next)
    /\ rsAwait' = RsResolved("settings")
    /\ UNCHANGED <<rsAgent, rsExecuting, rsMode, rsKeys, rsExited>>

(* The browser calls back at any time, or the user pastes the code, or cancels. *)
RsLoginEnds ==
    /\ ~rsExited
    /\ RsClose("login")
    /\ rsAwait' = rsAwait \ {"login"}
    /\ UNCHANGED <<rsAgent, rsExecuting, rsMode, rsKeys, rsExited>>

-----------------------------------------------------------------------------
(* Enter in the API key dialog starts saveAndSubmit(), which awaits files. *)
RsSaveKey ==
    /\ RsDialogHasKeys("apikey") /\ rsSaves + rsLate < RsMaxSaves
    /\ rsSaves' = rsSaves + 1
    /\ OvKey
    /\ UNCHANGED <<rsAgent, rsExecuting, rsMode, rsAwait, rsLate, rsExited>>

RsCancelKey ==
    /\ RsDialogHasKeys("apikey")
    /\ RsClose("apikey")
    /\ rsAwait' = rsAwait \ {"apikey"}
    /\ rsLate' = rsLate + rsSaves /\ rsSaves' = 0
    /\ UNCHANGED <<rsAgent, rsExecuting, rsMode, rsExited>>

(* onSuccess(): the handler of /apikey goes on to the settings. *)
RsKeySaved ==
    /\ ~rsExited /\ rsSaves > 0
    /\ IF "apikey" \in rsAwait
       THEN /\ ovStack' = Append(OvWithout("apikey"),
                                 [component |-> "settings", preFocus |-> OvEditor, hidden |-> FALSE])
            /\ UNCHANGED ovIsWide
            /\ OvFocuses("settings", FALSE)
            /\ rsAwait' = (rsAwait \ {"apikey"}) \cup {"settings"}
       ELSE RsClose("apikey") /\ UNCHANGED rsAwait
    /\ rsLate' = rsLate + rsSaves - 1 /\ rsSaves' = 0
    /\ UNCHANGED <<rsAgent, rsExecuting, rsMode, rsExited>>

(* onSuccess() of a dialog that was closed while its key was being saved. *)
RsKeySavedLate ==
    /\ ~rsExited /\ rsLate > 0
    /\ rsLate' = rsLate - 1
    /\ OvSetFocus(OvEditor)
    /\ UNCHANGED <<rsAgent, rsExecuting, rsMode, rsAwait, rsSaves, rsExited>>

(* /exit, and the signals. *)
RsExit ==
    /\ ~rsExited /\ rsExited' = TRUE
    /\ UNCHANGED <<rsAgent, rsExecuting, rsMode, rsAwait, rsKeys, ovVars>>

RsInit ==
    /\ OvInit
    /\ rsRun = [r \in RsRuns |-> "free"] /\ rsAsks = {} /\ rsExecuting = FALSE /\ rsMode = "accept"
    /\ rsAwait = {} /\ rsSaves = 0 /\ rsLate = 0 /\ rsPending = {}
    /\ rsExited = FALSE

(* Of a dialog's handle session.ts calls only hide(), which a removed one ignores. *)
RsNext ==
    /\ UNCHANGED ovKept
    /\ \/ \E r \in RsRuns : RsSubmit(r) \/ RsAsk(r) \/ RsEnd(r)
       \/ \E r \in RsRuns, approved \in BOOLEAN : RsDecide(r, approved)
       \/ \E d \in RsDialogs : RsCommand(d)
       \/ \E next \in {"login", "apikey"} : RsPickProvider(next)
       \/ RsInterrupt \/ RsToggleMode \/ RsLoginByKey \/ RsCloseSettings \/ RsLoginEnds
       \/ RsSaveKey \/ RsCancelKey \/ RsKeySaved \/ RsKeySavedLate \/ RsExit

RsSpec == RsInit /\ [][RsNext]_<<ovVars, rsVars>>

-----------------------------------------------------------------------------
(* A run waits for an approval exactly while its dialog is open: neither a
   dialog that closes below it, nor a late login or key, answers it or
   leaves it without one.                                                  *)
ApprovalHasDialog == {r \in RsRuns : rsRun[r] = "asking"} = OvShown \cap RsRuns

(* A slash command that waits for a dialog has it on the screen: no handler
   is left waiting for ever.                                              *)
CommandHasDialog == rsAwait \subseteq OvShown

(* Without dialogs the editor has the focus, in whatever order they were
   closed: no key is typed into a dialog that has gone.                   *)
EditorGetsItBack == ovStack = <<>> => ovFocus = OvEditor

(* "Executing" is only shown, and Ctrl+C only taken for a cancellation, while a goal runs. *)
ExecutingMeansRun == rsExecuting => RsActive # {}

(* Nothing was submitted, asked for or saved: the screen may be another's. *)
RsIdle == rsRun = [r \in RsRuns |-> "free"] /\ rsAwait = {} /\ rsSaves = 0 /\ rsLate = 0

(* However runs, approvals, logins, saves and Ctrl+C interleave, everything that
   waits has its dialog, keys go to what is on the screen, and in the end back to
   the editor.                                                             *)
SessionSafe ==
    /\ OverlaySafe
    /\ ApprovalHasDialog /\ CommandHasDialog
    /\ ExecutingMeansRun
    /\ RsIdle \/ EditorGetsItBack
=============================================================================
