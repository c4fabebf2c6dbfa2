---------------------------- MODULE PlanExecution ----------------------------
(***************************************************************************)
(* One agent working off its plan: AdaptiveOrchestrator (packages/adaptive)*)
(* which plans, persists and recovers, VerifiedExecutionRuntime and        *)
(* TaskGraphRuntime (packages/planner) which run the task graph, and the   *)
(* ToolExecutor (packages/tools) with its ledger and approvals.            *)
(*                                                                         *)
(* Tasks are the positions of the proposal.  Everything but `proc` and     *)
(* `todo` is durable; the process may die between any two statements, and  *)
(* the orchestrator is started again.                                      *)
(***************************************************************************)
EXTENDS Integers, FiniteSets, FiniteSetsExt

CONSTANTS
    NTasks,         \* length of the proposal
    Deps,           \* [Tasks -> dependencies]
    Last,           \* [Tasks -> the dependency listed last]
    Verifying,      \* tasks of kind verify
    Asking,         \* tasks whose tool has permission "ask"
    Calls,          \* tool-call ids the provider may use for a task
    MaxRetries,     \* maxRetries of every task
    MaxRepair,      \* maxRepairRounds
    MaxTasks,       \* options.maxTasks
    MaxRuns         \* bound: starts of the orchestrator

Tasks == 1 .. NTasks

ASSUME PlanAssumption ==
    /\ NTasks \in Nat
    /\ Deps \in [Tasks -> SUBSET Tasks] /\ \A t \in Tasks : t \notin Deps[t]
    /\ \A t \in Tasks : Deps[t] # {} => Last[t] \in Deps[t]
    /\ Verifying \subseteq Tasks /\ Asking \subseteq Tasks
    /\ MaxRetries \in Nat /\ MaxRepair \in Nat /\ MaxTasks \in Nat /\ MaxRuns \in Nat

VARIABLES
    plan,       \* plans.status, "none" before createPlan
    agent,      \* agents.status of the root
    revised,    \* the plan revision is recorded
    status,     \* [Tasks -> plan_tasks.status], "absent" before its insert
    retries,    \* [Tasks -> retry_count]
    reviews,    \* [Tasks -> number of review records, counted to MaxRepair]
    approval,   \* [Tasks -> [Calls -> status of the approval request]]
    ledger,     \* [Tasks -> [Calls -> tool_execution_ledger.status]]
    proc,       \* where the orchestrator's process is
    todo,       \* rest of the runnable list the loop is going through
    executed,   \* tasks executed by this run
    runs,       \* starts so far
    effects,    \* history: [Tasks -> [Calls -> effects since the last recorded failure]]
    stale,      \* history: tasks whose outcome rests on replaced dependencies
    overtaken   \* history: tasks whose dependency another's rejection sent back

planVars == <<plan, agent, revised, status, retries, reviews>>
toolVars == <<approval, ledger, effects>>
runVars  == <<proc, todo, executed, runs>>
history  == <<stale, overtaken>>
vars     == <<planVars, toolVars, runVars, history>>

-----------------------------------------------------------------------------
Off      == [pc |-> "off"]
At(pc)   == [pc |-> pc]
On(pc, t) == [pc |-> pc, t |-> t]
PlanStatus == {"running", "paused", "completed", "waiting", "failed"}

StatusNames == {"absent", "pending", "ready", "running", "completed", "failed", "blocked", "needs_approval"}

ProcStates ==
    {Off} \cup [pc : {"planning", "revise", "insert", "begin", "loop", "next"}]
      \cup [pc : {"exec"}, t : Tasks, left : SUBSET Calls]
      \cup [pc : {"tool", "effect"}, t : Tasks, left : SUBSET Calls, call : Calls]
      \cup [pc : {"review"}, t : Tasks]
      \cup [pc : {"rejected", "reopened"}, t : Tasks, policy : {"retryable", "needs_human"}]

PlanTypeOK ==
    /\ plan \in PlanStatus \cup {"none"}
    /\ agent \in PlanStatus \cup {"created"}
    /\ revised \in BOOLEAN
    /\ status \in [Tasks -> StatusNames]
    /\ retries \in [Tasks -> Nat] /\ reviews \in [Tasks -> Nat]

ToolTypeOK ==
    /\ approval \in [Tasks -> [Calls -> {"none", "pending", "approved", "denied"}]]
    /\ ledger \in [Tasks -> [Calls -> {"none", "executing", "succeeded", "failed"}]]
    /\ effects \in [Tasks -> [Calls -> Nat]]

RunTypeOK ==
    /\ proc \in ProcStates
    /\ todo \subseteq Tasks
    /\ executed \in Nat /\ runs \in 0 .. MaxRuns

TypeOK == PlanTypeOK /\ ToolTypeOK /\ RunTypeOK /\ stale \subseteq Tasks /\ overtaken \subseteq Tasks

Each(x) == [t \in Tasks |-> [c \in Calls |-> x]]

Init ==
    /\ plan = "none" /\ agent = "created" /\ revised = FALSE
    /\ status = [t \in Tasks |-> "absent"]
    /\ retries = [t \in Tasks |-> 0] /\ reviews = [t \in Tasks |-> 0]
    /\ approval = Each("none") /\ ledger = Each("none")
    /\ proc = Off /\ todo = {} /\ executed = 0 /\ runs = 0
    /\ effects = Each(0)
    /\ stale = {} /\ overtaken = {}

Inserted == {t \in Tasks : status[t] # "absent"}

-----------------------------------------------------------------------------
(* AdaptiveOrchestrator.run(): the plan is written statement by statement.  *)

Start ==
    /\ proc = Off /\ runs < MaxRuns
    /\ runs' = runs + 1
    /\ proc' = At(IF plan = "none" THEN "planning"
                  ELSE IF Inserted = {} /\ revised THEN "insert" ELSE "begin")
    /\ UNCHANGED <<planVars, toolVars, todo, executed, history>>

CreatePlan ==
    /\ proc.pc = "planning"
    /\ plan' = "running"
    /\ proc' = At("revise")
    /\ UNCHANGED <<agent, revised, status, retries, reviews, toolVars, todo, executed, runs, history>>

RecordPlanRevision ==
    /\ proc.pc = "revise"
    /\ revised' = TRUE
    /\ proc' = At("insert")
    /\ UNCHANGED <<plan, agent, status, retries, reviews, toolVars, todo, executed, runs, history>>

AddPlanTask ==
    /\ proc.pc = "insert"
    /\ IF Inserted = Tasks THEN proc' = At("begin") /\ UNCHANGED status
       ELSE /\ status' = [status EXCEPT ![Cardinality(Inserted) + 1] = "pending"]
            /\ UNCHANGED proc
    /\ UNCHANGED <<plan, agent, revised, retries, reviews, toolVars, todo, executed, runs, history>>

(* What was running when a process died is ready again, unless it is left. *)
Requeued(t) == IF status[t] = "running" THEN "ready" ELSE status[t]

Decided(t, decision) == \E c \in Calls : approval[t][c] = decision

Resumed_Forgets(t) == IF status[t] = "needs_approval" /\ Decided(t, "approved") THEN "ready" ELSE status[t]

(* A task waiting for approval after the decisions taken meanwhile. *)
Resumed(t) ==
    IF Requeued(t) # "needs_approval" THEN Requeued(t)
    ELSE IF Decided(t, "approved") THEN "ready"
    ELSE IF Decided(t, "denied") THEN "failed" ELSE "needs_approval"

(* The end of AdaptiveOrchestrator.run(), VerifiedExecutionRuntime.resume()
   and the beginning of its run().                                         *)
Resume ==
    /\ proc.pc = "begin"
    /\ status' = [t \in Tasks |-> Resumed(t)]
    /\ IF \E t \in Tasks : status[t] = "needs_approval" /\ Resumed(t) = "failed"
         THEN plan' = "failed" /\ agent' = "failed" /\ proc' = Off
         ELSE plan' = "running" /\ agent' = "running" /\ proc' = At("loop")
    /\ executed' = 0
    /\ UNCHANGED <<revised, retries, reviews, toolVars, todo, runs, history>>

-----------------------------------------------------------------------------
Runnable_AnyDone(t) ==
    IF status[t] # "pending" THEN status[t]
    ELSE IF \E d \in Deps[t] : status[d] \in {"failed", "blocked"} THEN "blocked"
    ELSE IF Deps[t] = {} \/ \E d \in Deps[t] : status[d] = "completed" THEN "ready" ELSE "pending"

(* TaskGraphRuntime.runnable(): one pass over a snapshot of the tasks. *)
Runnable(t) ==
    IF status[t] # "pending" THEN status[t]
    ELSE IF \E d \in Deps[t] : status[d] \in {"failed", "blocked"} THEN "blocked"
    ELSE IF \A d \in Deps[t] : status[d] = "completed" THEN "ready" ELSE "pending"

ListRunnable ==
    /\ proc.pc = "loop"
    /\ status' = [t \in Tasks |-> Runnable(t)]
    /\ todo' = {t \in Tasks : Runnable(t) = "ready"}
    /\ IF todo' # {} THEN proc' = At("next") /\ UNCHANGED <<plan, agent>>
       ELSE /\ proc' = Off
            /\ IF \A t \in Inserted : status'[t] = "completed"
                 THEN plan' = "completed" /\ agent' = "completed"
                 ELSE UNCHANGED <<plan, agent>>
    /\ UNCHANGED <<revised, retries, reviews, toolVars, executed, runs, history>>

NextOf(S) == CHOOSE t \in S : \A u \in S : t <= u

BeginTask ==
    /\ proc.pc = "next" /\ todo # {}
    /\ executed < MaxTasks
    /\ LET t == NextOf(todo)
       IN  /\ todo' = todo \ {t}
           /\ status' = [status EXCEPT ![t] = "running"]
           /\ proc' = IF t \in Verifying THEN On("review", t)
                      ELSE [pc |-> "exec", t |-> t, left |-> Calls]
           /\ LET outdated == \E d \in Deps[t] : status[d] # "completed" \/ d \in stale
                  outcome(S) == (S \ {t}) \cup (IF outdated THEN {t} ELSE {})
              IN  /\ stale' = outcome(stale) \cup {u \in Inserted : t \in Deps[u]}
                  /\ overtaken' = IF outdated THEN overtaken ELSE overtaken \ {t}
    /\ UNCHANGED <<plan, agent, revised, retries, reviews, toolVars, executed, runs>>

Pause ==
    /\ proc.pc = "next" /\ todo # {}
    /\ executed >= MaxTasks
    /\ plan' = "paused" /\ agent' = "paused"
    /\ proc' = Off
    /\ UNCHANGED <<revised, status, retries, reviews, toolVars, todo, executed, runs, history>>

ListAgain ==
    /\ proc.pc = "next" /\ todo = {}
    /\ proc' = At("loop")
    /\ UNCHANGED <<planVars, toolVars, todo, executed, runs, history>>

Complete(t) ==
    /\ status' = [status EXCEPT ![t] = "completed"]
    /\ executed' = executed + 1
    /\ proc' = At("next")
    /\ UNCHANGED <<plan, agent, retries>>

Retried(t) == [retries EXCEPT ![t] = @ + 1]

HasBudget_Endless(t, policy) == policy = "retryable" /\ retries[t] <= MaxRetries
HasBudget(t, policy) == policy = "retryable" /\ retries[t] < MaxRetries

FailedStatus(policy) ==
    CASE policy = "needs_approval" -> "needs_approval"
      [] policy = "needs_human"    -> "blocked"
      [] OTHER                     -> "failed"

(* handleFailure(): again within the budget, or the plan stops here. *)
HandleFailure(t, policy) ==
    IF HasBudget(t, policy)
      THEN /\ status' = [status EXCEPT ![t] = "ready"]
           /\ retries' = Retried(t)
           /\ proc' = At("next")
           /\ UNCHANGED <<plan, agent, executed>>
      ELSE /\ status' = [status EXCEPT ![t] = FailedStatus(policy)]
           /\ plan' = IF policy = "needs_approval" THEN "waiting" ELSE "failed"
           /\ agent' = plan'
           /\ proc' = Off
           /\ UNCHANGED <<retries, executed>>

-----------------------------------------------------------------------------
(* executeTask(): rounds of provider and tools.                            *)

(* The provider answers without a tool call: the task is done. *)
FinishTask ==
    /\ proc.pc = "exec"
    /\ Complete(proc.t)
    /\ UNCHANGED <<revised, reviews, toolVars, todo, runs, history>>

(* The provider throws, or the limit of rounds or calls is reached. *)
FailTask ==
    /\ proc.pc = "exec"
    /\ \E policy \in {"retryable", "needs_human"} : HandleFailure(proc.t, policy)
    /\ UNCHANGED <<revised, reviews, toolVars, todo, runs, history>>

Granted(t, c) == t \notin Asking \/ approval[t][c] = "approved"

(* ToolExecutor.execute(): permission first, then the ledger. *)
AskApproval ==
    /\ proc.pc = "exec"
    /\ \E c \in proc.left :
         /\ ~Granted(proc.t, c)
         /\ IF approval[proc.t][c] = "denied"
              THEN HandleFailure(proc.t, "non_retryable") /\ UNCHANGED approval
              ELSE /\ approval' = [approval EXCEPT ![proc.t][c] = "pending"]
                   /\ HandleFailure(proc.t, "needs_approval")
    /\ UNCHANGED <<revised, reviews, ledger, effects, todo, runs, history>>

Refused_Never(t, c) == FALSE
Refused(t, c) == ledger[t][c] = "executing"

ReuseOrRefuse ==
    /\ proc.pc = "exec"
    /\ \E c \in proc.left :
         /\ Granted(proc.t, c)
         /\ \/ /\ ledger[proc.t][c] = "succeeded"
               /\ proc' = [proc EXCEPT !.left = @ \ {c}]    \* bound: an id once per execution
               /\ UNCHANGED <<plan, agent, status, retries, executed>>
            \/ Refused(proc.t, c) /\ HandleFailure(proc.t, "retryable")
    /\ UNCHANGED <<revised, reviews, toolVars, todo, runs, history>>

CallTool ==
    /\ proc.pc = "exec"
    /\ \E c \in proc.left :
         /\ Granted(proc.t, c)
         /\ ledger[proc.t][c] # "succeeded" /\ ~Refused(proc.t, c)
         /\ ledger' = [ledger EXCEPT ![proc.t][c] = "executing"]
         /\ proc' = [pc |-> "tool", t |-> proc.t, left |-> proc.left \ {c}, call |-> c]
    /\ UNCHANGED <<planVars, approval, effects, todo, executed, runs, history>>

(* The tool does its work outside; then its outcome is recorded. *)
TakeEffect ==
    /\ proc.pc = "tool"
    /\ effects' = [effects EXCEPT ![proc.t][proc.call] = @ + 1]
    /\ proc' = [proc EXCEPT !.pc = "effect"]
    /\ UNCHANGED <<planVars, approval, ledger, todo, executed, runs, history>>

RecordSuccess ==
    /\ proc.pc = "effect"
    /\ ledger' = [ledger EXCEPT ![proc.t][proc.call] = "succeeded"]
    /\ proc' = [pc |-> "exec", t |-> proc.t, left |-> proc.left]
    /\ UNCHANGED <<planVars, approval, effects, todo, executed, runs, history>>

RecordFailure ==
    /\ proc.pc \in {"tool", "effect"}
    /\ ledger' = [ledger EXCEPT ![proc.t][proc.call] = "failed"]
    /\ effects' = [effects EXCEPT ![proc.t][proc.call] = 0]
    /\ HandleFailure(proc.t, "retryable")
    /\ UNCHANGED <<revised, reviews, approval, todo, runs, history>>

-----------------------------------------------------------------------------
(* verifyTask() with the orchestrator's reviewer.                          *)

(* bound: only `round >= maxRepairRounds` is ever asked of the count *)
Reviewed(t) == [reviews EXCEPT ![t] = Min({@ + 1, MaxRepair})]

Accept ==
    /\ proc.pc = "review"
    /\ reviews' = Reviewed(proc.t)
    /\ Complete(proc.t)
    /\ UNCHANGED <<revised, toolVars, todo, runs, history>>

(* The reviewer itself throws. *)
ReviewFails ==
    /\ proc.pc = "review"
    /\ HandleFailure(proc.t, "retryable")
    /\ UNCHANGED <<revised, reviews, toolVars, todo, runs, history>>

Reject ==
    /\ proc.pc = "review"
    /\ reviews' = Reviewed(proc.t)
    /\ \E verdict \in {"reject", "needs_human"} :
         proc' = [pc |-> "rejected", t |-> proc.t,
                  policy |-> IF verdict = "reject" /\ reviews'[proc.t] < MaxRepair
                               THEN "retryable" ELSE "needs_human"]
    /\ status' = [status EXCEPT ![proc.t] = "failed"]
    /\ UNCHANGED <<plan, agent, revised, retries, toolVars, todo, executed, runs, history>>

(* dependencies.at(-1) *)
Repairable(t) == Deps[t] # {} /\ retries[Last[t]] < MaxRetries

(* Those who have begun, or may begin, on what the rejection of t replaces, and the
   one sent back if what it rests on itself is not there.                   *)
Overtaken(t) ==
    {u \in Tasks \ {t} : \/ Last[t] \in Deps[u] /\ status[u] \notin {"absent", "pending"}
                         \/ u = Last[t] /\ \E d \in Deps[u] : status[d] # "completed"}

ReopenDependency ==
    /\ proc.pc = "rejected" /\ Repairable(proc.t)
    /\ status' = [status EXCEPT ![Last[proc.t]] = "ready"]
    /\ retries' = Retried(Last[proc.t])
    /\ proc' = [proc EXCEPT !.pc = "reopened"]
    /\ overtaken' = overtaken \cup Overtaken(proc.t)
    /\ UNCHANGED <<plan, agent, revised, reviews, toolVars, todo, executed, runs, stale>>

AwaitRepair ==
    /\ proc.pc = "reopened"
    /\ status' = [status EXCEPT ![proc.t] = "pending"]
    /\ executed' = executed + 1
    /\ proc' = At("next")
    /\ UNCHANGED <<plan, agent, revised, retries, reviews, toolVars, todo, runs, history>>

GiveUpRepair ==
    /\ proc.pc = "rejected" /\ ~Repairable(proc.t)
    /\ HandleFailure(proc.t, proc.policy)
    /\ UNCHANGED <<revised, reviews, toolVars, todo, runs, history>>

-----------------------------------------------------------------------------
(* `loom approve` and `loom deny`, whatever was decided before. *)
ResolveApproval ==
    /\ \E t \in Tasks, c \in Calls, decision \in {"approved", "denied"} :
         /\ approval[t][c] \notin {"none", decision}
         /\ approval' = [approval EXCEPT ![t][c] = decision]
    /\ UNCHANGED <<planVars, ledger, effects, runVars, history>>

Crash ==
    /\ proc # Off
    /\ runs < MaxRuns     \* bound: the last run is not cut off
    /\ proc' = Off /\ todo' = {}
    /\ UNCHANGED <<planVars, toolVars, executed, runs, history>>

Planning == CreatePlan \/ RecordPlanRevision \/ AddPlanTask \/ Resume
Graph    == ListRunnable \/ BeginTask \/ Pause \/ ListAgain
Execute  == FinishTask \/ FailTask \/ AskApproval \/ ReuseOrRefuse \/ CallTool
              \/ TakeEffect \/ RecordSuccess \/ RecordFailure
Verify   == Accept \/ ReviewFails \/ Reject \/ ReopenDependency \/ AwaitRepair \/ GiveUpRepair

Next == Start \/ Planning \/ Graph \/ Execute \/ Verify \/ ResolveApproval \/ Crash

Spec == Init /\ [][Next]_vars

(* The process goes on while it is alive, and is started again after it ended;
   nobody has to decide anything, nothing has to crash.                    *)
FairSpec == Spec /\ WF_vars(Planning \/ Graph \/ Execute \/ Verify) /\ WF_vars(Start)

-----------------------------------------------------------------------------
(* docs/task-graph.md: a task is tried again "while retry budget remains", whether
   a failure, a rejection by its verifier or a crash sends it back.        *)
RetryBudget == \A t \in Tasks : retries[t] <= MaxRetries

(* A completed plan rests on the newest results, with one exception: the code keeps
   what was done, and begins what is ready, although the rejection of another task
   has sent back a result it rests on (`overtaken`, until it is begun anew on what
   is then final), and keeps what in turn rests on that.  Failures, retries,
   approvals, pauses and crashes make no other.                            *)
CompletedRestsOn ==
    plan = "completed" => \A t \in stale : t \in overtaken \/ Deps[t] \cap stale # {}

(* "It refuses to replay `executing` or `unknown` calls automatically because the
   side effect may already have occurred" (docs/state-and-recovery.md): without a
   recorded failure between, a call takes effect once, over crashes and retries. *)
EffectOnce == \A t \in Tasks, c \in Calls : effects[t][c] <= 1

(* Over crashes, retries, approvals and repairs no work is repeated, and none that a
   result was replaced under is passed off as done but for the exception above. *)
WorkIsDoneOnce == TypeOK /\ CompletedRestsOn /\ EffectOnce

(* A completed task is reopened by a rejection only, which is counted as a retry: no
   restart, resumption or decision repeats finished work.                  *)
DoneIsKept ==
    \A t \in Tasks : status[t] = "completed" /\ status'[t] # "completed" => retries'[t] = retries[t] + 1

DoneStaysDone == [][DoneIsKept]_vars

(* No task is left `running` by a run that has returned, nor, in the long run, by
   one that has died: the next run takes it up.                            *)
NothingStaysRunning ==
    \A t \in Tasks : (status[t] = "running" /\ proc = Off /\ runs < MaxRuns) ~> status[t] # "running"

(* Every run of the orchestrator comes to an end, whatever fails and however
   often a verifier rejects.                                               *)
RunsEnd == []<>(proc = Off)

(* The executions go forward: they end, take up what a dead one left, and do
   not take finished work up again.                                        *)
GoesForward == DoneStaysDone /\ NothingStaysRunning /\ RunsEnd
=============================================================================
