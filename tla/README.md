# Loom: formal models

TLA+ models of Loom's durable runtime and of its interactive surfaces, with TLC
runs on small instances and TLAPS proofs.  The reference is the TypeScript
source: every definition of a module is translated from the lines
`PROJECT.json` names for it under `map`.

## The system

Loom runs LLM agents as durable jobs.  One SQLite file (`packages/state`) holds
all state; daemon, CLI and embedded applications (`packages/sdk`) open the same
file from separate processes.  People reach it through a terminal UI, chat bots
and a control server.

| Part | Source | State | Operations | Talks to |
|---|---|---|---|---|
| Job queue | `state/src/index.ts` 100-115, 231-233 | `jobs`, `daemon_instances`, `approval_requests` | enqueue, claim, renew, wait, wake, update, recover, cancel, retry | daemon, CLI, control plane through SQL |
| Daemon | `daemon/src/index.ts` | timers, pending executions, running/stopping | start, tick, execute, stop, operator calls | queue; runner by promise; bots, control plane by callback |
| Scheduler | `daemon/src/index.ts` 10, 87-122, 158-171; `state` 116-120, 234 | `schedules`, `schedule_occurrences` | create, pause, resume, delete, materialize | queue (enqueues jobs) |
| Adaptive orchestrator, planner | `adaptive/src/index.ts`, `planner/src/index.ts` | plans, tasks, retries, reviews | plan, run, verify, retry, repair, resume | state; executor by promise |
| Tools, agent runtime | `tools/src/index.ts`, `runtime/src/index.ts` | tool ledger, approvals, agent checkpoints | permission, approval, execute, resume | state |
| Coordinator | `coordinator/src/index.ts` | delegations, task leases, results, messages | delegate, lease, complete, consume, cancel, repair | state; worker by promise |
| Remote fabric | `remote/src/*.ts`, `state` 70-99 | workers, connections, assignments, leases, sequences | attach, dispatch, receive, expire, recover, cancel, reconnect | workers over WebSocket |
| Network | `network/src/topology.ts` | nodes, routes, revisions | register, replace, invalidate, resolve | remote fabric |
| Bots | `bots/src/**` | deduplication records, sessions | receive, authorise, route, run | adaptive orchestrator |
| REPL session | `tui/src/repl/*.ts` | runs, approvals, dialogs | submit, decide, commands, login, exit | overlays, adaptive orchestrator |
| Screen | `tui/src/tui.ts`, `fullscreen.ts`, `utils.ts` | lines rendered, hardware cursor, overlays, focus, selection | render, show, hide, scroll, select | terminal |
| Prompt editor | `tui/src/components/editor.ts`, `autocomplete.ts` | lines, undo, kill ring, pastes, history, suggestions | keys, paste, complete | screen |
| Terminal input | `tui/src/stdin-buffer.ts`, `terminal.ts`, `keys.ts` | pending bytes, protocols, alternate screen | chunk, timeout, start, stop, hand over | editor, dialogs |
| Control plane | `control/src/*.ts` | HTTP sessions, event cursors | read views, operator commands | daemon, state |
| Rest | `config`, `context`, `skills`, `mcp`, `providers`, `evals`, `cli`, `sdk`, `web` | none that interleaves | load, translate, render | |

What is hard here: several processes write one database statement by statement;
state read before an `await` is written after it; leases expire while the
holder still works; processes die between two statements; decisions, results
and worker messages arrive late, twice or out of order.  In the terminal UI the
same facts are kept twice - the screen and what the renderer believes of it,
the stack of overlays and the focus, the text and the popup over it - and timers,
late answers and resizes come between.  `PROJECT.json` lists each hazard at its
line with the properties that watch it.

## Modules

The core, each with a run of its own:

| Module | Role |
|---|---|
| `JobQueue` | the queue tables and the daemon processes, statement by statement |
| `JobContract`, `JobQueueContract` | what the queue promises - one executor, final phases, progress - and the refinement mapping to it |
| `JobQueueInvariants`, `JobQueueProofs` | inductive strengthenings, and the proofs |
| `Scheduler`, `SchedulerProofs` | the schedule tables, the materialization loop, operators in its process and in others; proofs |
| `RemoteFabric`, `RemoteFabricProofs` | controller, connections and workers: leases, fencing, replay, recovery, cancellation; proofs about the controller's tables and the worker's runs |
| `PlanExecution`, `PlanExecutionProofs` | one agent working off its plan: orchestrator, task graph, verification and repair, tool executor and ledger; proofs |
| `Delegation`, `DelegationProofs` | a root agent working off its plan through child agents: coordinator, leases, results, approvals; proofs |

The surfaces, composed in `MCSurfaces`:

| Module | Role |
|---|---|
| `BotGateway` | an event from its delivery to its `handled` record, sessions, the Discord client |
| `RouteRegistry` | routes of connections that end late |
| `EditorBuffer`, `EditorLayout`, `EditorCompletion` | text and recall; rows and vertical movement; suggestions |
| `LineInput` | the single-line input: a second implementation of kill, yank, undo |
| `StdinBuffer`, `KeyCodes` | input cut into chunks; what a sequence means as a key |
| `Terminal` | what is switched on in the terminal, and the hand-over of it |
| `ScreenRender` | differential rendering against a terminal with scrollback |
| `OverlayFocus`, `OverlayLayout` | stack of overlays and keyboard focus; where they are drawn |
| `StyledText` | wrapping, truncating, splicing and highlighting text with escape codes |
| `TranscriptView` | the fullscreen window over the transcript, selection, autoscroll |
| `ReplSession` | goals, approvals and dialogs of the session, over `OverlayFocus` |
| `SessionProofs` | proofs about the session, its overlays, the line input and the input |
| `EditorProofs` | proofs about the editor's text, over those of `SessionProofs` |
| `SurfaceProofs` | proofs about the routes, the terminal's hand-over, the bots, the transcript, the completion, the overlays' layout and the renderer |

`MCJobQueue`, `MCScheduler`, `MCRemoteFabric`, `MCPlanExecution` and `MCDelegation`
give the constants of the core their values.

### JobQueue

State.  `status`, `owner`, `lease`, `attempt`, `delay`, `ref` and `root` are the
columns of `jobs` (`lease` and `delay` relative to now), `row` and `age` those
of `daemon_instances`, `approval` the requests.  `proc` is the phase of each
daemon process, `loop` its position inside a run of code between two awaits,
`runs` the pending `execute()` calls and `asked` those whose agent has stopped
to wait for an approval.  `claims`, `interrupted` and `reopens` are history.

Steps.  SQLite calls are synchronous, so one SQL statement or transaction is one
action.  Inside a process nothing else happens between two statements without
an `await` (`loop[d] # Idle` blocks the timers and callbacks of `d`); statements
of other processes do interleave there.  `execute()` is therefore `StartRun`,
`MapRoot`, then (after the await) `RunnerReturns`, which reads the job, and
`WriteWaiting` or `WriteOutcome`.  The runner is a promise that settles with any
outcome.  A process dies at any step (`Crash`).

Time.  `Tick` ages heartbeats and counts leases and delays down by one; a tick is
as long as the shortest distinction the comparisons make.  All comparisons keep
their direction (`lease < 0` is expired, `lease > 0` renewable, 0 is neither).

Circumstances.  `Env` switches on what the code does not control: CLI processes
(`cli`), a second daemon process (`overlap`), missed timers (`late`), an early
retry of a cancelled job (`reopen`), the SDK's runner (`sdk`).  The comment of
each property says under which it holds.  `ExecutionSafe` really needs all
of them off: a late process loses its lease while its execution goes on, an
overlapping daemon's `recoverStaleJobs` requeues live leases, and a CLI retry
requeues a running job.

### Scheduler

State.  `row` is the `schedules` table (`NoRow` when deleted), `occurrence` and
`jobs` the two tables `materializeSchedule` writes in one transaction.  `loop[d]`
holds the snapshot `listSchedules` returned, the row in hand and the statement
that comes next.  `wanted` is history: what the last operator asked for, `raced` for a pause or
delete that came while a loop had the row in hand.  `jobs` keeps the intended time beside the idempotency key, so that the key's being the
right one is a property.

Steps.  `ListSchedules`, then for each row `Materialize` (transaction) and
`Advance` or, when `nextScheduleAt` or a statement throws, `Disable`; a daemon may
die after each of them.  Operators of the daemon's process wait until the loop
is through, those of the CLI do not.

Time.  Whole minutes on an absolute clock, because an occurrence is named by its
time.  `nextScheduleAt` is translated with the length of hour and day as
parameters (two each in the runs) and the host's offset from UTC.

Circumstances.  `cli`, `overlap` and `busy` (a statement finds the database locked:
it is opened without a busy timeout).

The queue's own treatment of a scheduled job is `JobQueue`; the two share only
the insert, so they are not composed.

### RemoteFabric

State.  `status`, `holder` and `held` are the columns of `remote_assignments`,
`leases` is `remote_leases` in the order of the fencing tokens (a token is the number
of its lease), `outbox` the controller's `protocol_messages`.  `record` is the
worker's durable file, `execs` its pending `handle()` calls.  A connection is a pair
of FIFO channels (`toWorker`, `toCtl`) that break together; `cursors` and `latest`
are what `acceptRemoteEvent` knows of the connection's sequence numbers.  `ran`
and `settler` are history.

Steps.  A controller operation is cut at each statement, because it may die there
(`ctl`): `dispatch` is `AssignRemote`, `AcquireRemoteLease`, `SendDispatch`; `cancel` is
`Cancel`, `RevokeLease`, `SendCancel`; a terminal event is `AcceptEvent`, then
`ReleaseLease`.  Workers and connections do not interleave inside such an operation:
they read none of what it writes.  `recoverExpiredAssignments` awaits after each
assignment, so between the visits of its list (`todo`) everything else may happen.
On the worker, `handle()` stops where it awaits the transport or the tool, and where a
connection may be missing.

Time.  `left` counts a lease down; `given` the `expiresAt` of its dispatch
envelope, which a renewal does not extend.  Fencing refuses an event at `left = 0`
and `ExpireLeases` takes a lease from there, as both comparisons of the code do.

Limits of what holds.  An assignment that is `accepted` when its lease lapses keeps
that status without an active lease, and no recovery lists it: `InFlightIsLeased`,
a part of `LeasesAgree`, is about the other two.  A settled assignment whose lease is still active (the
controller died before the release) may still be changed by that lease's worker:
`SettledIsFinal` starts from the end of the lease.

### PlanExecution

State.  `plan`, `agent`, `status`, `retries` and `reviews` are rows of `plans`, `agents`,
`plan_tasks` and the review records; `approval` and `ledger` those of `ToolExecutor`,
for every call id the provider may choose.  `proc` is where the orchestrator's process is
between two statements, `todo` the rest of the list its loop goes through, `executed`
what this run has done.  `effects`, `stale` and `overtaken` are history.

Steps.  Planning writes the plan, its tasks and the revision; a run requeues what a dead run
left, and then goes round: list the runnable tasks, execute each (permission, ledger,
effect, ledger, checkpoint), verify, and on a rejection reopen the dependency and count
a retry.  The process may die between any two of these, also while it writes the plan, and is
started again (`MaxRuns`).  `stale` has the tasks whose outcome rests on dependencies that were
replaced, `overtaken` those which the code lets count nevertheless.

### Delegation

State.  A delegation and its child agent are one (their rows are written and end together);
`dels` lists them in the order of creation, `lease` is the task's lease, `flight` where each
child's promise is, `batch` what `Promise.all` is about to start.  Trees are one level deep,
as `MultiAgentRuntime` builds them.

Steps.  A start consumes the results a predecessor left, recovers delegations in flight, and
works in batches of at most `maxConcurrent`; a child succeeds, fails or asks, its
result is persisted, consumed and acknowledged in statements of their own.  Operators
resolve approvals, also once more with the other answer, and cancel a child or the tree at any time; the process may die at the
stages in `DiesAt`.

### The surfaces

These parts share no state, but for the session and its overlays.  `MCSurfaces` holds them all
and lets one of them move (`focus`); `screenVars` and `textVars` are the rest.  Each
module's comment says how its data is abstracted; in short:

- **Bots**: every `await` of `processEvent` is a step, two handlers run at once, the platform
  redelivers, the process dies once.  Nothing makes events wait for each other, those of one session
  included; `botTwice` and `botLate` remember the overlaps.
- **Routes**: connection ids are numbers in order; the end of each is reported any time later.
- **Editor**: a line is a sequence of cells, a paste marker two cells that remember which
  paste they were made for, an image marker two cells that any text may have.  `EditorBuffer` has all keys that change text, `EditorLayout` those
  that move over wrapped rows, `EditorCompletion` the popup over one line of text.
- **Input**: `StdinBuffer` takes bytes in chunks of any size with its timeout between any
  two; paste markers are shortened, and a call of `process()` for what follows a paste is one of a row of
  calls (`SbCall`).  A paste that begins while a sequence is open loses what there was of it, which
  `sbState.cut` remembers.  `KeyCodes` takes what a sequence says - code, alternate codes,
  modifiers, event - as a record.  `LineInput` is what the keys of `KeyCodes.KeyBindings` do.
- **Terminal**: the terminal's switches beside what each `ProcessTerminal` believes; the answer to
  the keyboard query comes any time later or never.  One terminal is started at a time, and one whose
  successor is on its way does not stop again.
- **Screen**: `ScreenRender` has the terminal's rows and scrollback beside the renderer's memory;
  a line is a class of text, and there is always one: the session shows its editor.  `StyledText` looks into a line: graphemes one or two columns
  wide and escape codes, one token each.  `OverlayLayout` knows of an overlay which of its lines are
  blank; its frame is what was rendered since the last change.  `TranscriptView` counts transcript
  lines and has the mouse.  `OverlayFocus` keeps the handle of a removed overlay (`ovKept`), which can still
  be called.
- **Session**: runs, approvals, slash commands and saves of keys, each with its `await`.

## Runs

A property is often a conjunction of named parts; they are given in brackets.

| Run | Instance | Shows |
|---|---|---|
| `exclusive` | 2 jobs of different priority, 2 daemons, 1 request, `Env = {}` | `ExecutionSafe` (`SingleExecution`, `ClaimHeld`), `AttemptBudget`, `OutcomeStands` (`CancelSticks`, `CompletedIsFinal`), `WaitingRefunds`, types |
| `one_daemon` | 1 job, 2 daemons one after the other, `cli`, `late`, `reopen` | `RecoverableClaim`, `RootIsStable` |
| `live` | 1 job, 2 daemons, fair | `JobsMoveOn` (`DecisionWakes`, `JobSettles`), `KeepsContract` (refinement of `JobContract`) |
| `early_decision` | 1 job, 1 daemon, `cli`, fair | violation of docs/jobs.md:15 (`ApprovalWakes`) |
| `schedules` | failing cron and one-shot, 2 overlapping daemons that restart, all circumstances, fair | `NoSpuriousJobs` (`OneJobPerOccurrence`, `OnceRunsOnce`, types), `PauseHolds`, `StaleSnapshotRefused`, `DueRuns` |
| `schedule_cron` | `* *` cron, `Env = {}` | violation of docs/scheduler.md:3 |
| `remote_takeover` | 1 assignment, 2 workers, 2 leases, 2 connections, crashes of both sides | `LeasesAgree` (`OneActiveLease`, `InFlightIsLeased`), `NewestSettles`, `SettledIsFinal`, `ToolRunIsRecorded` (`ToolRunsOnce`, `CompletedHasEnded`, types) |
| `remote_failed_replay` | the same with 1 lease | violation of docs/remote-execution.md:7 |
| `plan_recovery` | an execution and its verification, an execution on the first that asks for approval, a verification of both; 3 runs of the orchestrator, fair | `RetryBudget`, `WorkIsDoneOnce` (`CompletedRestsOn`, `EffectOnce`, types), `GoesForward` (`DoneStaysDone`, `NothingStaysRunning`, `RunsEnd`) |
| `delegation_recovery` | an execution, two verifications of it side by side, an execution on both; 3 starts, 2 faults, fair; no death between a completion and its acknowledgement | `ChildrenAgree` (`OneActiveDelegation`, `LeasedWork`), `ResultsCount` (`ConsumedOnce`, `CompletedRestsOn`, types), `WorkGoesOn` (`DoneStaysDone`, `UnfinishedGoesOn`) |
| `delegation_result_twice` | the same with a death there too | violation of docs/multi-agent-recovery.md:21 |
| `surfaces` | the fifteen parts in turn | see below |

What `surfaces` shows of each part:

| Property | Parts | In words |
|---|---|---|
| `BotAccounts` | `BotRunsOnce`, `BotSessionKeepsRoot` | an event is run again for a cut-off run or an overlapping delivery only; a session's root agent is replaced only by a handler that read or wrote the session before |
| `RouteSafe` | `RouteFollowsNewest`, `CurrentIsReachable` | a late end takes no newer route away; what passes as current is reachable |
| `EditorKeeps` | `KillRunRecoverable`, `YankReplaced`, `MarkerMeansPaste`, `MarkersWhole`, `BrowsedIsEntry`, `EdRecallable` | no keys lose killed, yanked or pasted text, cut a paste or image marker, or change text beyond undo |
| `LayoutHolds` | `WrapCovers`, `CursorDrawnOnce`, `CursorVisible`, `NeverInsideMarker`, `DownUpReturns`, `DownMovesOn` | rows show all of the text and the cursor once; moving over them stays out of markers and makes progress |
| `CompletionSafe`, `PopupFollows` | `OverlayMatches`, `AcceptReplacesPrefix`; `PopupFresh`, `PopupSettles` | suggestions belong to the text they are shown for and replace what they were made for |
| `InputWhole`, `PendingIsReported` | `ChunkingIrrelevant`, `InputInOrder` | chunking changes nothing, nothing is lost or kept for ever |
| `KeyCodesHold` | `KeyNamesAgree`, `KeyUnambiguous`, `KeyTypesText`, `KeyRunsOne`, `KeyReleaseFiltered` | parser, matcher, decoder and release test read the same key in every encoding, and it runs one command; `KeyNamesDiffer` lists where they do not |
| `LineInputSafe` | `LiKillsRestore`, `LiYankStaysPut`, `LiUndoable`, `LiShowsCursor` | as `EditorKeeps`, and the window shows the cursor's cell |
| `TerminalSafe` | `TtyRestored`, `RawWhileReading` | the shell gets its terminal back as it was; keys are read in raw mode |
| `ScreenSafe` | `ScreenShowsLines`, `ScrollbackKeeps`, `StopBelow` | what little a render writes leaves what a full repaint would |
| `StyledTextHolds` | `StWraps`, `StTruncates`, `StSplices`, `StHighlights`, `StSpans` | styled text fits and keeps its look; lines that end at a line feed keep underline and link open, and an ellipsis the link |
| `OverlayFits` | `OlInsideMargins`, `OlContentStays`, `OlPopupStandsClear`, `OlSelectsWhatShows` | overlays are drawn where their options say, and a selection of the frame starts in what shows of the dock's (fullscreen) and the focused overlay's text |
| `TranscriptReads` | `ScreenIsFrame`, `MarkedIsSelected`, `SelectionAnchored`, `AutoScrollSelects`, `WindowFrozen` | painted, marked and copied agree; a reader's window stays |
| `SessionSafe` | `KeysGoToTheVisible`, `FocusIsShown`; `ApprovalHasDialog`, `CommandHasDialog`, `ExecutingMeansRun`, `EditorGetsItBack` | keys go to what is on the screen; whatever waits has its dialog, and the keys go back to the editor |

Several of these except a case by name, because the code has it: see "Seen on the way".

Bounds.  `MaxAttempts = 2` allows one retry and one exhaustion; a lease of two
ticks can be fresh, about to expire, at the boundary and expired; two daemons
give a crash or stop and a takeover by the next process (a daemon id is
never reused, so the last process may not die or stop, marked `bound` in the
guards); `MaxReopens = 1` reopens a settled job once (`exclusive` leaves
reopening to the other runs; the proofs cover it).  Jobs interact only through
slots and priority, which the two-job run covers; everything else is per job.
Deadlock is not checked for the queue: it rests when every job is settled.
The scheduler's clock and crashes stop at `Horizon`, four or five minutes with hours of two or three: a
cron schedule is due, fails, is resumed and due again, and a one-shot beside it is due after the failure; a crash can fall
between any two statements, and the snapshot of one daemon can be older than a whole round of the other.
The fabric's `MaxTokens = 2` gives an expiry and a takeover, by the same worker or
the other; `MaxLinks = 2` a lost connection and its replacement, or two connected workers;
`MaxCancelled = 1` cancels under the first lease, a cancellation that races a
takeover included.  One recovery runs at a time, one renewal is under way per connection,
and a renewal that would change nothing is not sent (each marked `bound`).  Its
deadlock is not checked: it rests when the connections are used up.

In the plan of `plan_recovery` a result is used by a verification, by an execution and by a
later verification of both, so that either rejection sends back what others have used; one retry and three runs let a failure, a rejection and a
crash compete for the budget, and a repair limit of 2 lets reviews run out as well.  `delegation_recovery`
needs two children at once, both of them verifications of one task, so that the rejection of
one can reset the other in flight, and a task on both; two faults give a failure that meets a
cancellation or a question.

In `surfaces` the steps of each part are bounded by what it takes to bring its cases
together: four keys in the editor and the line input, starting from a filled kill ring, a text
of two lines and a history; four edits around an asynchronous answer; six streams of bytes that
hold a paste, a mouse report, control strings and a doubled Kitty key, cut in every way;
three starts of two terminals; contents of one to five lines on a screen of two or three
rows; two runs with their dialogs, two saves of a key and the handle of the key's dialog kept after
it has gone; four events of two sessions in three deliveries, two at a time; three scrolls, drags or timer ticks
over six transcript lines; every encoding of the keys the code names, with eleven sets of modifiers and locks, in both
modes; texts of up to five tokens at widths 2, 3 and 5, which is where wide characters
straddle; two overlays of five kinds on two sizes of terminal.  Widths below 2 are left out
of the editor and styled text: `wordWrapLine` wraps a wider grapheme by calling itself on
it and does not end, and `wrapSingleLine` cannot fit it.  `LineInput` has widths from 1, and asks for
the cursor's own cell from 4 on.

Fairness.  Weak fairness of every timer and callback of a live process (the event
loop serves them), of the runner's answer (providers time out), of starting a
new process after one ended (a supervisor), and of time.  Nothing is assumed of
operators, producers, crashes or approvals: `DecisionWakes` starts from a
decision that was made on a request the row names; `ApprovalWakes`, of a decision at any time, is refuted.  The scheduler assumes the poll timer, synchronous code,
restarts and time, and nothing of operators.  The fabric has no liveness run: nothing
in the repository calls `recoverExpiredAssignments` or reconnects on its own, so no
fairness is justified.  A plan's run is fair (the event
loop goes on) and the orchestrator is started again after a run ended; so is the coordinator,
whose children all come back.  Nobody decides an approval, cancels or crashes by force.  Of the
surfaces only two are fair: the debounce timer and the provider's answer of the completion, and
the stdin timeout.  Their deadlock is not checked: every part comes to rest at its bound.

## Proofs

The queue's proofs hold for any sets of jobs, daemons and approvals and any lease,
staleness and attempt limits allowed by `ConstantsAssumption`.

- `TypeCorrect`: types, with finiteness of `runs` and the positions of `loop`
  (`TypeInv`), for every `Env`.
- `ClaimsRecoverable` and `RootNeverReplaced` (no `overlap`): both rest on `Solo`,
  which says that one process at a time is alive and only a started one has
  executions.  `ClaimBeforeRoot` says that the row `MapRoot` sets back to
  `claimed` still has owner and lease; `RootInv` that a pending execution works
  for the job's root unless it is just about to map it.
- `CancellationSticks` (neither `cli` nor `overlap`): nothing cancels a job between the
  read and the write of one run of code (`NotCancelled`).
- `ExecutionsAreSafe` and `OutcomesStand` (`Env = {}`) put together `OneExecutionPerJob`,
  `ExecutionsHoldClaims`, `CompletionIsFinal` and the former: `SingleExecution` is not inductive.  `ExclusiveInv` adds `ClaimHeld` (an
  execution's row carries its claim, attempt and a positive lease, which `OnTime`
  keeps positive) and `WritesOwnJob`.
- `RetryBudget` (`Env = {}`): `BudgetInv` adds that a job nobody executes and that
  can be claimed has an attempt left; lost executions are counted by cardinality.

The last section of `JobQueueProofs` is about steps rather than states:

- `WaitingCostsNothing` (`Env = {}`): the only step by which a job comes to wait is the outcome of
  its execution, whose attempt is still the one counted at the claim (`ClaimHeld`).
- `QueueImplementsContract` (`Env = {}`): `JobQueue` implements `JobContract` step by step.  A job's
  phase and executor are read from its row and `runs`, so each action maps to at most one step of
  the contract; the invariants above exclude the others: an execution that ends is
  its job's only one, and the row it settles is still that claim's (`ExclusiveInv`).  Fairness is left to
  the run `live`.

`SchedulerProofs` (any schedules, rules, calendar, daemons, horizon):

- `OccurrencesAreUnique` and `StaleSnapshotsAreRefused` hold in all circumstances:
  jobs carry the identity of their occurrence as key (`KeyedJobs`), and
  what the loop holds was due when it was read (`SnapshotPast`).
- `OneShotsRunOnce` (no explicit `nextRunAt`): the row of a one-shot keeps the time of
  its expression through resume, recreation and write-back (`OnceInv`).
- `PausesHold` holds in all circumstances too: a row that an operator has paused is disabled and no
  loop has it in hand (`OffIsOut`), unless one had it when the pause came; a snapshot taken
  later leaves it out.
- `LastRunsHappened` (neither `cli` nor `overlap`): with one process
  the snapshot stays fresh while the loop runs (`Fresh`): what is left of it is
  enabled, wanted and due at the same time, and the row in hand is recorded.
- `NoJobIsSpurious` is the run's property made of these.

`RemoteFabricProofs` (any assignments, workers, connections, lease time, bounds):

- `LeasesAlwaysAgree` (of `OneLeaseActive` and `InFlightLeased`), `NewestGenerationSettles` and
  `SettledStays` rest on one invariant of the tables, `TableInv`.  `HeldIsNewest` says that `lease_id` names
  the newest lease of the assignment, so that an event fenced by it is of the
  newest generation; `EndsSettled` that the lease a handler is about to release
  is of a settled assignment, without which a release could strand a running one;
  `HolderSettles` that an outcome came under the lease still named.  Received
  events are arbitrary: the theorems ask nothing of workers.

`PlanExecutionProofs` (any task graph, verifiers, tools, call ids, retry and repair limits,
crashes at any statement, also inside planning) rests on one invariant, `PlanInv`:

- `RetriesStayInBudget`: both places that count a retry ask for the budget first.
- `CallsTakeEffectOnce`: `EffectOnce` is not inductive.  `LedgerKnows` says that a call
  with an effect is `executing` or `succeeded` in the ledger, so that no later execution
  gets past `Refused`; `CallUnderway` that the call in hand is `executing` and, before the
  tool works, without an effect.
- `FinishedWorkStays`: a step that sets a status could hit a completed task.  It cannot,
  because the list of the loop names ready tasks only (`ListIsReady`), the task in hand
  is open and off the list (`TaskIsOpen`), and a plan still being written has nothing done
  (`PlanBegins`), also when planning was cut off and is taken up.
- `WorkDoneOnce`: whatever a completed plan counts rests on what was finished before it, with one
  exception, task by task.  `BasedInv` adds to `PlanInv` that whatever has begun rests on completed
  work (`Sound`) and that what is completed on older work is `Excused`: a rejection of another task sent back
  a result it rests on (`overtaken`, until it is begun anew on work that is then final), or it rests
  in turn on such a task.  The graph may be any, forks and joins included, and the plan half written.

`DelegationProofs` (any plan, any number of children, starts and faults):

- `TypeCorrect`: ids count delegations (`CreateChild` appends one), and the search for the task to
  repair, a recursion back through the plan, is shown to have a value (`RepairEquation`).
- `ChildrenAlwaysAgree`: `ChildrenAgree` is not inductive, because a child that was cancelled while it
  works may come back with a question and take its delegation up again.  `Owned` says that a
  child in flight works for its own task, whose other delegations have ended; `LeaseHeld` that a child at
  work has the lease unless it was cancelled; `Staged` that children come from the batch and are gone
  when it ends.
- `FinishedWorkStays`: a completed task is reopened by a rejection alone, never by one that repairs a later
  task, and the repaired task's retry is counted: nobody works at a finished task (`WorkIsOpen`).
- `CompletedPlanIsFresh`: what is in flight, finished or waiting for its end rests on finished work
  (`Fresh`), because the task a rejection sends back is one the rejected task rests on and all later ones
  are reset with it.  The exception is `Overtaken`: a task whose child is at work, or whose result is
  unread, when it is reset; what rests on it is excused with it, until it is launched anew.
- `ResultsConsumedOnce`, `ResultsAlwaysCount` (no death between a completion and its
  acknowledgement, `"ack" \notin DiesAt`): the times a result was consumed is the number of its
  acknowledgements (`Counted`).  Without the assumption the run `delegation_result_twice` refutes it.

`SurfaceProofs` is about parts of `MCSurfaces`, each under its own specification:

- `RoutesAreSafe` (`RouteSpec`; any targets, any number of connections): connections are numbered in
  the order they are made (`Numbered`), a route is that of an open connection to its own target
  (`Routed`), and what a caller holds has a revision the registry gave to that route only (`HeldIsRoute`).
- `TerminalIsRestored` (`TtySpec`; any number of terminals and starts): one terminal at most is started
  and one that is not has nothing on (`OneStarted`); what is on is what the started one switched on, also when
  the answer to the keyboard query comes after the fallback (`Accounted`); everybody remembers the
  shell's terminal as cooked (`WasCooked`); and input handed over waits only while no terminal is
  started, and goes with the screen's (`HandsAgree`).
- `BotsAccountForAll` (`BotSpec`; any events, sessions and handlers at once): every run of an event is
  accounted for by a cut-off one, by a delivery beside another, or by the one that is allowed (`Slack`,
  by cardinality).  A handler that nobody wrote past knows the root of its session (`InStep`), so
  that one which replaces it is in `botLate`.
- `TranscriptIsRead` (`TvSpec`; any heights, docks and lengths of the text): a row of the screen has what the
  frame before had there, or junk after a resize (`RowsKept`); unless it was scrolled or cut since, that
  frame shows the lines the view is at (`FrameShown`), and with no render due the view is the text's and the
  frame is the view's (`Rendered`).  Lines are numbered as they come (`Grows`) and the view has the beginning of
  the text (`TextKept`), so that the line a selection began on stays the line at its anchor however the
  window scrolls (`Anchored`), until lines go away.
- `CompletionIsSafe` (`CpSpec`; any alphabet, texts, lengths): a request that waits has aborted the one before it,
  so that an answer that is not aborted is for the text and the cursor of now; its prefix is an end of the
  text before the cursor, and `applyCompletion` cuts exactly there (`CpInv`).
- `OverlaysFit` (`OlSpec`; any options, bodies, sizes and contents): a frame is what `compositeOverlays` makes of what is
  there (`OlDrawn`); the rest is about that function: where `resolveOverlayLayout` clamps to (`ResolvedIs`), how high
  the frame becomes (`WorkingIs`), that a popup which is cut has as many lines as it has rows
  (`FittedIs`), and that taking off what each overlay covers and adding what the focused one shows,
  beginning with the dock's text in fullscreen and with nothing inline, leaves what nothing else lies over
  (`SelectableIs`).
- `ScreenIsShown` (`ScSpec`; any texts, contents that are not empty, heights and depth of scrollback): the
  screen is a window on a tape of rows that only moves down, of which row 0 is where the program was
  started.  A screen that is known - not forced or sent above the window since, nor resized without a
  render that noticed - has the lines
  rendered last on the tape, nothing below them, and the cursor on the row `hardwareCursorRow` says (`ScShows`);
  what has left the window is in the scrollback as long as nothing up there was written anew.  Moving, line
  breaks and writing keep that (`OnMove`, `OnReturn`, `OnPut`), so do the loops made of them (`LinesRun`,
  `CountKeeps`), and then each way `doRender` has of writing a difference (`RepaintIs`, `DeletedIs`,
  `PatchedIs`).  Alone, the property is not inductive: it says nothing of the row the cursor
  is on or of the rows above it, which the next render is relative to.

`SessionProofs` (any components, runs and saves of keys; `OvSpec` is the stack of overlays by itself,
`RsSpec` the session over it, `LiSpec` the line input, `SbSpec` the input):

- `OverlaysAreSafe`: where a key goes depends on what had the focus when an overlay was shown.
  `PreDiffers` says that no overlay remembers itself, unless the focus has gone astray (`ovStray`): to one
  that had gone, by a fallback or by the handle somebody still held.
- `SessionIsSafe`: the session never lets it.  `RsShows` says that its dialogs are seen and capture the
  keys, and that none of a command remembers another of a command; `OneCommand` that one command waits
  for its dialog at a time, since commands are typed into the editor, which has the keys when
  nothing is shown.  `RsAssumption` has the dialogs capture the keys: `session.ts` shows none with
  `nonCapturing`.
- `LineInputIsSafe` (any kill ring, pastes and widths from 1): a kill cuts the line where the cursor is, so
  what was before it, the newest entry and what is after it stay the line the run began with; a yank
  stays between two texts that `yankPop` finds again by counting back; every snapshot below a
  change leads back to the empty line (`LiLeadsBack`).  That the row is never overflown and shows
  the cursor's cell is arithmetic over columns: the window starts at or before the cursor and
  ends behind it (`StartIs`), and a slice is as wide as the columns between its ends (`SliceIs`).
- `InputIsWhole` (any bytes and streams of them, in any chunks): the state is what one call of `process()`
  with the input so far would have left (`SbAsOne`), because that call on a text and then on more is the call on all
  of it (`ProcessOn`): a paste marker is found first where it would be found in the whole (`FirstKept`), and what
  is read of a marker cut in two is still pending (`ReadAlready`).  What was reported, as text, and what is pending
  are the input so far (`SbOrdered`), because a call moves its text from one to the other (`CallOrder`)
  and the plain character left out after a Kitty key stands right behind it in the input (`SbLinked`).
  `SbExtract`, `SbEmitAll` and `SbProcess` are recursive functions over a text or a number of calls; the
  proof shows that each has a value at every length and from then on uses how it grows by one (`FoldIs`,
  `ExtractIs`, `ProcessIs`), by least counterexamples instead of induction.

`EditorProofs` (`EdSpec`; any pieces of text, history, number of pastes, undo and keys) has one theorem,
`EditorIsSafe`, from one invariant, `EdInv`:

- The editor keeps its text in lines.  `At(F, x, y, G)` says that lines and cursor are a text `F` followed by
  `x`, the cursor, `y` and `G`, and each key is a lemma about what it does to these four.  That a text
  cut at its breaks is the same text joined (`EdSplit`, `EdJoin`) needs that the recursive function behind
  `EdSplit` has a value at every length, which is shown first.
- `EdPlace`: the cursor is in the text, whose lines are fit for the pastes alive (`Fit`).  Until a marker has
  been killed, no text in hand has a marker without its paste (`MarkerMeansPaste`); until a jump has also
  landed inside one, a line is cut only beside a marker, so that every marker stays whole (`MarkersWhole`).
  A snapshot is stored with the pastes its markers mean, and undo puts both back (`EdPast`).
- `EdKillKept` (`KillRunRecoverable`): a run of kills takes from both sides of the cursor, and the newest entry is put
  together in the same order: what is before, the entry and what is after stay one text.
- `EdYankKept` (`YankReplaced`): a yank keeps a text without it, which `yankPop` finds again by taking
  off as much as it put in, over as many lines as that has.
- `BrowsedIsEntry`, `EdRecallable`: moving through the history shows whole entries, and the text
  one began with comes back at its end or by undo.
- `EdAssumption`: texts pasted, set by the program or taken from the history contain nothing that reads
  like a paste marker.  The code would take `[paste #1 +20 lines]` in such a text for a marker while paste 1 is
  alive; this is left out.  Kill rings may contain paste markers, and all texts image markers.

Only model-checked: all liveness (`JobsMoveOn`, `DueRuns`, `GoesForward`, `WorkGoesOn`, `PopupFollows`,
`PendingIsReported`) and the fairness of `KeepsContract`; and the surfaces whose steps compute over
sequences (`LayoutHolds`, `KeyCodesHold`, `StyledTextHolds`).  These
are built from filters, folds and recursive functions over sequences; each needs a theory of its own like
the one `EditorProofs` builds for splitting a text and `SessionProofs` for reading input, and the prover's
library has no induction to give it.

## Findings

`PROJECT.json` quotes each statement.  A decision that comes before the runner has looked for the pending
request leaves the job waiting for ever, with no approval in its row.  A cron schedule with `*` minutes is disabled at the end
of an hour.  A worker that recorded a failure answers a replayed dispatch with a `result`,
which the controller records as completed.  A coordinator that dies between the completion of a task
and the acknowledgement of its result never acknowledges it, and lets it complete the task a second time
after a repair.

## Seen on the way

Disagreements met while modelling that have no run of their own; where a property has to
except one, its name is given.

Queue and agents:

- What needs one process does not hold beside others.  `startDaemon` reads and inserts in two
  statements, so two daemons can start together; `loom daemon stop` writes a row the daemon's next heartbeat
  overwrites; a `loom schedule pause` between the loop's snapshot and its update is undone (`raced`); a
  locked database disables the schedule whose statement failed.
- A job that comes to wait under the SDK's runner never has an approval reference, as in `early_decision`.
- A process that dies inside planning leaves half a plan, which the next run completes without its
  missing tasks; docs/adaptive-planning.md:9 says that it materializes them.
- A rejected verification reopens its dependency only (`planner` 87): what else was done on it stays done
  (`overtaken` in `PlanExecution`), so a plan can complete on work before the repair.
- The coordinator does reset what comes after the repaired task, and then completes it all the same with
  the result its child was still working on (`coordinator` 166; docs/delegation.md:43 says otherwise).
- `needs_human` and an exhausted `maxRepairRounds` still repair once more; a rejected verification
  adds to the coordinator's retry count beyond the budget.
- A result of a cancelled delegation overwrites the cancellation.  A failed result that was persisted
  when the process died is handled by nobody, and its task stays `running` for ever (`Abandoned`;
  `coordinator` 149-153, 189), although docs/multi-agent-recovery.md has persisted results consumed first.
- With several assignments on one worker, envelopes in between open a gap in the sequence of
  each (`state` 70).  The depth of a plan depends on the order of its tasks (`adaptive` 27).
- A second event of a bot session resumes the completed plan of the first; two at a time may
  replace a root agent (`botLate`); an event that is delivered again before it is `handled` is run again, and an
  overlapping delivery resets a `handled` record (`botTwice`).
  `DiscordTransport.start` does nothing after a failed login.
- A worker's cancelled result whose sending times out is saved as failed over the cancellation
  (`worker.ts` 19).

Session and input:

- A tool approved in the dialog ("Allow the agent to run this tool once") does not run: `ToolExecutor`
  finds no approved request, creates a pending one and throws (`rsPending`).  Ctrl+C clears a
  flag, the run goes on; the end of one run clears it while a second one runs, and clears what was
  typed meanwhile.  Esc during the saving of a key closes the dialog, and the provider is switched
  later all the same; Enter twice saves twice, with a race on `.env`.
- Stdin: an Escape right before a paste marker spoils it; a paste without end swallows keys for
  ever; the timeout may cut a marker; a repeated Kitty key is dropped.
- Keys: parser and matcher disagree on a modified Escape, "+", the double quote, raw capitals, some
  control characters once the Kitty protocol is on, code points that alias symbols in 16 bits, and in
  modifyOtherKeys without a modifier, with a lock or for the keypad (`KeyNamesDiffer`, `KeyOtherDiffers`);
  a digit with a base layout key matches two identifiers; Shift+Backspace and the keypad's Enter decode as printable characters.
- Editor: a killed paste marker outlives its paste; a jump may land inside a marker; only the first
  step into the history is undoable, and a completion made there is lost.  A suggestion
  accepted after the cursor moved replaces a stale prefix; the file popup stays over a slash
  command (`CpFilesOverCommand`).  The line input at width 1 shows its prompt of two columns, and
  pastes all control characters but line ends and tabs.

Screen:

- After content has shrunk within the window, a cursor marker above it stops the cursor at the
  top row and the next renders write the wrong rows, and a resize undone before the next render, or while
  fullscreen, is not noticed (`scLost`); a repaint after a change above the window
  loses or repeats scrollback (`scJumped`).  `stop()` with a render pending and `start()` again render
  nothing until forced.
- Removing an overlay below another and then that one focuses the one that has gone, and so does the
  handle of a removed one (`setHidden(false)`, `unfocus`; `ovStray`); the session focuses the editor itself.
- A selection keeps the position of its line: it goes to other lines when lines above are removed
  (`tvShifted`).  A click within the 16 ms between a scroll and its render takes the line the scroll
  has brought there, not the painted one (`TvUnder`).  A selection in the transcript starts also where an overlay covers it.  Two resizes
  back to the painted size before a render leave wrong rows (`tvResized`).
- `wrapTextWithAnsi` leaves underline and hyperlink open at a line that ends at a line feed, against its
  contract (`utils.ts` 703-705); the ellipsis of a cut text stays in the text's hyperlink.
- A code that stands right at the end of a selection is emitted before the codes that came earlier,
  so that text after the selection takes a style that had ended (`StCodeAt`).  A wide character across an overlay's
  edge shifts the line by a column (`StStraddles`).  A styled line wrapped before a word longer than
  the line gives an empty line more.
- A popup above a marker in the first row covers it; a second popup for the same marker is not
  drawn; an overlay higher than the screen scrolls the content away.

## Not modelled

Payloads, prompts, summaries, error texts, traces, audit and control events;
HTTP and WebSocket encodings; configuration; provider requests; Markdown, LaTeX and lists.
`PROJECT.json` gives the reason for each component.

In the remote fabric: authentication, envelope validation, capability routing,
heartbeats and presence; a worker that refuses a dispatch because its configuration
differs; what connects the fabric to the daemon (no caller in the repository).

In the surfaces: Kitty images, the selection inside frames and tables, colours beyond one
background and two foregrounds, grapheme segmentation, Windows console modes, the colour query,
the files behind settings and keys, webhooks of the other platforms, and operations nothing
calls (`drainInput`, `preserveAltScreen`, `addToHistory` from outside, `setValue`).

## Plan

1. Proofs: the rows of the editor (`LayoutHolds`), over the lemmas about sequences of `SessionProofs` and
   `EditorProofs`.
2. Remote fabric with two assignments on one worker (`InOrder` under interleaved events), and a
   lease contract its tables refine.
3. `PlanExecution` over `Delegation`'s task table, which both write.
4. Plan validation: depth and cycles against reference definitions.
