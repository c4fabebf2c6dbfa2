----------------------------- MODULE Delegation -----------------------------
(***************************************************************************)
(* A root agent working off its plan through child agents:                 *)
(* MultiAgentRuntime and AgentCoordinator (packages/coordinator) over the  *)
(* tasks, delegations, results and task leases of the state store.         *)
(*                                                                         *)
(* A delegation and its child agent are one: their rows are written        *)
(* together and end together.  Everything but `proc`, `batch` and `flight` *)
(* is durable; the runtime's process may die between two statements.       *)
(***************************************************************************)
EXTENDS Integers, Sequences, FiniteSets

CONSTANTS
    NTasks,        \* tasks of the plan, numbered by position
    Deps,          \* [Tasks -> dependencies]
    Executing,     \* tasks of kind execute
    Verifying,     \* tasks of kind verify
    MaxRetries,    \* [Tasks -> maxRetries]
    MaxConcurrent, \* options.maxConcurrent
    MaxTasks,      \* options.maxTasks
    DiesAt,        \* stages at which the process may die
    MaxRuns, MaxFaults  \* bounds: starts; failures, questions and cancellations

Tasks == 1 .. NTasks

ASSUME DelegationAssumption ==
    /\ NTasks \in Nat
    /\ Deps \in [Tasks -> SUBSET Tasks] /\ \A t \in Tasks : Deps[t] \subseteq 1 .. (t - 1)
    /\ Executing \subseteq Tasks /\ Verifying \subseteq Tasks \ Executing
    /\ MaxRetries \in [Tasks -> Nat]
    /\ MaxConcurrent \in Nat \ {0} /\ MaxTasks \in Nat /\ MaxRuns \in Nat /\ MaxFaults \in Nat

VARIABLES
    plan,      \* plans.status
    status,    \* [Tasks -> plan_tasks.status]
    retries,   \* [Tasks -> retry_count]
    lease,     \* [Tasks -> the delegation whose child holds the lease, or 0]
    dels,      \* delegations in the order of creation
    proc,      \* where the runtime is
    batch,     \* tasks of the batch still to be started
    flight,    \* [Tasks -> where its executeTask() is]
    executed,  \* tasks executed by this run
    runs,      \* starts so far
    faults,    \* failures, questions and cancellations so far
    consumed,  \* history: delegations whose result completed a task, with how often
    stale,     \* history: tasks whose outcome rests on replaced dependencies
    overtaken  \* history: tasks whose result counts although they were reset

durable == <<plan, status, retries, lease, dels>>
running == <<proc, batch, flight, executed, runs>>
history == <<consumed, stale, overtaken>>
vars    == <<durable, running, faults, history>>

-----------------------------------------------------------------------------
Ended   == {"completed", "failed", "cancelled"}
Idle    == [at |-> "none"]
Off     == [at |-> "off"]
At(stage) == [at |-> stage]
Ids     == 1 .. Len(dels)
AllIdle == \A t \in Tasks : flight[t] = Idle

(* A delegation and its result; where executeTask() is once it has a child. *)
Row   == [task : Tasks, status : {"assigned", "running", "waiting"} \cup Ended,
          result : {"none", "completed", "failed"}, acked : BOOLEAN,
          asked : Seq({"pending", "approved", "denied"})]
Stages == {"work", "release", "retryable", "needs_human", "non_retryable"}

TypeOK ==
    /\ plan \in {"running", "waiting", "paused", "cancelled", "completed", "failed"}
    /\ status \in [Tasks -> {"pending", "ready", "running", "waiting", "needs_approval",
                             "blocked", "failed", "completed"}]
    /\ retries \in [Tasks -> Nat]
    /\ lease \in [Tasks -> 0 .. Len(dels)]
    /\ dels \in Seq(Row)
    /\ proc \in {Off} \cup [at : {"recover", "collect", "decide", "launch", "await"}]
               \cup [at : {"ack"}, d : Ids, then : {"recover", "collect"}]
    /\ batch \subseteq Tasks
    /\ flight \in [Tasks -> {Idle} \cup [at : Stages, d : Ids]]
    /\ executed \in Nat /\ runs \in 0 .. MaxRuns /\ faults \in 0 .. MaxFaults
    /\ consumed \in Seq(Nat) /\ Len(consumed) = Len(dels)
    /\ stale \subseteq Tasks /\ overtaken \subseteq Tasks

Init ==
    /\ plan = "running"
    /\ status = [t \in Tasks |-> "pending"] /\ retries = [t \in Tasks |-> 0]
    /\ lease = [t \in Tasks |-> 0] /\ dels = <<>>
    /\ proc = Off /\ batch = {} /\ flight = [t \in Tasks |-> Idle]
    /\ executed = 0 /\ runs = 0 /\ faults = 0
    /\ consumed = <<>> /\ stale = {} /\ overtaken = {}

(* getActiveDelegationForTask() *)
Active_Started(t) == {d \in Ids : dels[d].task = t /\ dels[d].status \in {"running", "waiting"}}
Active(t) == {d \in Ids : dels[d].task = t /\ dels[d].status \notin Ended}

Latest(D) == CHOOSE d \in D : \A e \in D : e <= d

-----------------------------------------------------------------------------
(* resume(): the decisions taken on what the children asked. *)
Decided(t, decision) ==
    /\ status[t] = "needs_approval" /\ Active(t) # {}
    /\ \E i \in DOMAIN dels[Latest(Active(t))].asked : dels[Latest(Active(t))].asked[i] = decision

Answer(t) == IF Decided(t, "approved") THEN "approved" ELSE IF Decided(t, "denied") THEN "denied" ELSE "none"

ApplyDecisions ==
    /\ status' = [t \in Tasks |-> CASE Answer(t) = "approved" -> "ready"
                                    [] Answer(t) = "denied"   -> "failed"
                                    [] OTHER                  -> status[t]]
    /\ dels' = [d \in Ids |->
         IF d \notin Active(dels[d].task) THEN dels[d]
         ELSE CASE Answer(dels[d].task) = "approved" -> [dels[d] EXCEPT !.status = "assigned"]
                [] Answer(dels[d].task) = "denied"   -> [dels[d] EXCEPT !.status = "failed"]
                [] OTHER                             -> dels[d]]

Start ==
    /\ proc = Off /\ runs < MaxRuns
    /\ runs' = runs + 1
    /\ plan' = "running" /\ proc' = At("recover") /\ executed' = 0
    /\ ApplyDecisions \/ UNCHANGED <<status, dels>>      \* resume() or run()
    /\ UNCHANGED <<retries, lease, batch, flight, faults, history>>

(* consumeCompletedResults(), one result at a time. *)
Unread(d) == dels[d].status = "completed" /\ dels[d].result # "none" /\ ~dels[d].acked

Consumable(d) == Unread(d) /\ status[dels[d].task] # "completed"

Consumables == {d \in Ids : Consumable(d)}
First(D) == CHOOSE d \in D : \A e \in D : d <= e

ConsumeResult ==
    /\ proc.at \in {"recover", "collect"} /\ Consumables # {}
    /\ LET d == First(Consumables)
           t == dels[d].task
       IN  /\ status' = [status EXCEPT ![t] = "completed"]
           /\ lease' = [lease EXCEPT ![t] = 0]
           /\ consumed' = [consumed EXCEPT ![d] = @ + 1]
           /\ proc' = [at |-> "ack", d |-> d, then |-> proc.at]
    /\ UNCHANGED <<plan, retries, dels, batch, flight, executed, runs, faults, stale, overtaken>>

AcknowledgeResult ==
    /\ proc.at = "ack"
    /\ dels' = [dels EXCEPT ![proc.d].acked = TRUE]
    /\ proc' = At(proc.then)
    /\ UNCHANGED <<plan, status, retries, lease, batch, flight, executed, runs, faults, history>>

(* The second half of recoverInFlight(): unfinished children go on. *)
Unfinished_Waiting(t) == status[t] = "waiting" /\ Active(t) # {}
Unfinished(t) ==
    /\ status[t] \in {"running", "waiting"} /\ Active(t) # {}
    /\ dels[Latest(Active(t))].result = "none"

RecoverInFlight ==
    /\ proc.at = "recover" /\ Consumables = {}
    /\ status' = [t \in Tasks |-> IF Unfinished(t) THEN "ready" ELSE status[t]]
    /\ lease' = [t \in Tasks |-> IF Unfinished(t) THEN 0 ELSE lease[t]]
    /\ dels' = [d \in Ids |-> IF Unfinished(dels[d].task) /\ d = Latest(Active(dels[d].task))
                                THEN [dels[d] EXCEPT !.status = "assigned"] ELSE dels[d]]
    /\ proc' = At("collect")
    /\ UNCHANGED <<plan, retries, batch, flight, executed, runs, faults, history>>

-----------------------------------------------------------------------------
(* The loop of run().  TaskGraphRuntime.runnable() is one pass over a snapshot. *)
Runnable_AnyDone(t) ==
    IF status[t] # "pending" THEN status[t]
    ELSE IF Deps[t] = {} \/ \E d \in Deps[t] : status[d] = "completed" THEN "ready" ELSE "pending"

Runnable(t) ==
    IF status[t] # "pending" THEN status[t]
    ELSE IF \E d \in Deps[t] : status[d] \in {"failed", "blocked"} THEN "blocked"
    ELSE IF \A d \in Deps[t] : status[d] = "completed" THEN "ready" ELSE "pending"

FirstFew(S, n) == {t \in S : Cardinality({u \in S : u < t}) < n}

Room == IF MaxTasks - executed < MaxConcurrent THEN MaxTasks - executed ELSE MaxConcurrent

Decide ==
    /\ proc.at = "collect" /\ Consumables = {}
    /\ LET done == \A t \in Tasks : status[t] = "completed"
           next == [t \in Tasks |-> Runnable(t)]
           ready == {t \in Tasks : next[t] = "ready"}
           Some(S) == \E t \in Tasks : next[t] \in S
           Return(outcome) == plan' = outcome /\ proc' = Off /\ batch' = {}
       IN  \/ done /\ Return("completed") /\ UNCHANGED status
           \/ ~done /\ executed >= MaxTasks /\ Return("paused") /\ UNCHANGED status
           \/ /\ ~done /\ executed < MaxTasks
              /\ status' = next
              /\ \/ /\ ready # {}
                    /\ proc' = At("launch") /\ batch' = FirstFew(ready, Room) /\ UNCHANGED plan
                 \/ /\ ready = {}
                    /\ Return(IF Some({"needs_approval", "waiting"}) THEN "waiting"
                              ELSE IF Some({"failed", "blocked"}) THEN "failed" ELSE plan)
    /\ executed' = executed + Cardinality(batch')
    /\ UNCHANGED <<retries, lease, dels, flight, runs, faults, history>>

(* executeTask() up to the first await, one task of the batch after another.
   The lease of another child is held until it expires, at any moment.     *)
NewDelegation(t) == [task |-> t, status |-> "running", result |-> "none", acked |-> FALSE, asked |-> <<>>]

Outdated(t) == \E u \in Deps[t] : status[u] # "completed" \/ u \in stale

Renewed(S, t) == IF Outdated(t) THEN S \cup {t} ELSE S \ {t}

Restarted(t) ==
    /\ stale' = Renewed(stale, t) \cup {u \in Tasks : t \in Deps[u]}
    /\ overtaken' = overtaken \cap Renewed(overtaken, t)

Launch ==
    /\ proc.at = "launch"
    /\ LET t == First(batch)
           fresh == Active(t) = {}
           d == IF fresh THEN Len(dels) + 1 ELSE Latest(Active(t))
           Leased(row) ==
             /\ status' = [status EXCEPT ![t] = "running"]
             /\ lease' = [lease EXCEPT ![t] = d]
             /\ dels' = [row EXCEPT ![d].status = "running"]
             /\ flight' = [flight EXCEPT ![t] = [at |-> "work", d |-> d]]
             /\ Restarted(t)
           Waiting(row) ==
             /\ status' = [status EXCEPT ![t] = "waiting"]
             /\ dels' = (IF fresh THEN [row EXCEPT ![d].status = "assigned"] ELSE row)
             /\ UNCHANGED <<lease, flight, stale, overtaken>>
       IN  /\ batch' = batch \ {t}
           /\ proc' = IF batch' = {} THEN At("await") ELSE proc
           /\ consumed' = IF fresh THEN Append(consumed, 0) ELSE consumed
           /\ LET row == IF fresh THEN Append(dels, NewDelegation(t)) ELSE dels
              IN  \/ Leased(row)
                  \/ lease[t] \notin {0, d} /\ Waiting(row)
    /\ UNCHANGED <<plan, retries, executed, runs, faults>>

Collect ==
    /\ proc.at = "await" /\ AllIdle
    /\ proc' = At("collect")
    /\ UNCHANGED <<durable, batch, flight, executed, runs, faults, history>>

-----------------------------------------------------------------------------
(* The rest of executeTask(), the members of the batch interleaved. *)
Stage(t, stage) == flight' = [flight EXCEPT ![t].at = stage]

(* completeDelegationWithResult(): the first result stays. *)
Persist(d, outcome) ==
    dels' = IF dels[d].result # "none" THEN dels
            ELSE [dels EXCEPT ![d].result = outcome, ![d].status = outcome]

ChildSucceeds(t) ==
    /\ proc.at = "await" /\ flight[t].at = "work"
    /\ Persist(flight[t].d, "completed") /\ Stage(t, "release")
    /\ UNCHANGED <<plan, status, retries, lease, proc, batch, executed, runs, faults, history>>

(* It returns a failure or throws one. *)
ChildFails(t) ==
    /\ proc.at = "await" /\ flight[t].at = "work"
    /\ faults < MaxFaults /\ faults' = faults + 1
    /\ Persist(flight[t].d, "failed")
    /\ \E policy \in {"retryable", "needs_human", "non_retryable"} : Stage(t, policy)
    /\ UNCHANGED <<plan, status, retries, lease, proc, batch, executed, runs, history>>

(* createApproval(): a request of its own, or the undecided one of the same call. *)
Asking(asked) ==
    {Append(asked, "pending")} \cup {same \in {asked} : \E i \in DOMAIN same : same[i] = "pending"}

ChildAsks(t) ==
    /\ proc.at = "await" /\ flight[t].at = "work"
    /\ faults < MaxFaults /\ faults' = faults + 1
    /\ \E asked \in Asking(dels[flight[t].d].asked) :
         dels' = [dels EXCEPT ![flight[t].d].status = "waiting", ![flight[t].d].asked = asked]
    /\ status' = [status EXCEPT ![t] = "needs_approval"]
    /\ Stage(t, "release")
    /\ UNCHANGED <<plan, retries, lease, proc, batch, executed, runs, history>>

(* findRepairTask(): the first task of kind execute the dependencies lead to. *)
Repair[t \in Tasks] ==
    IF t \in Executing THEN t
    ELSE LET found == {u \in Deps[t] : Repair[u] # 0} IN IF found = {} THEN 0 ELSE Repair[First(found)]

HasBudget(t) == retries[t] < MaxRetries[t]

Reopened(r) == [u \in Tasks |-> IF u = r THEN "ready" ELSE IF u > r THEN "pending" ELSE status[u]]

(* The tasks reset by the rejection of t whose child is at work, or whose result is
   still to be read: it completes them nonetheless.  And the one to repair if what
   it rests on itself is not there.                                        *)
Overtaken(t, r) ==
    {u \in r .. NTasks : \/ u # t /\ flight[u].at \notin {"none", "release"}
                         \/ \E d \in Ids : dels[d].task = u /\ Unread(d)
                         \/ u = r /\ \E v \in Deps[r] : status[v] # "completed"}

FailedStatus(policy) == IF policy = "needs_human" THEN "blocked" ELSE "failed"

HandleFailure(t) ==
    /\ proc.at = "await" /\ flight[t].at \in {"retryable", "needs_human", "non_retryable"}
    /\ LET again == flight[t].at = "retryable" /\ HasBudget(t)
           r == IF t \in Verifying THEN Repair[t] ELSE 0
       IN  \/ /\ again /\ r # 0
              /\ status' = Reopened(r) /\ retries' = [retries EXCEPT ![r] = @ + 1]
              /\ overtaken' = overtaken \cup Overtaken(t, r)
           \/ /\ again /\ r = 0 /\ UNCHANGED overtaken
              /\ status' = [status EXCEPT ![t] = "ready"] /\ retries' = [retries EXCEPT ![t] = @ + 1]
           \/ /\ ~again /\ UNCHANGED <<retries, overtaken>>
              /\ status' = [status EXCEPT ![t] = FailedStatus(flight[t].at)]
    /\ Stage(t, "release")
    /\ UNCHANGED <<plan, lease, dels, proc, batch, executed, runs, faults, consumed, stale>>

ReleaseTaskLease(t) ==
    /\ proc.at = "await" /\ flight[t].at = "release"
    /\ lease' = [lease EXCEPT ![t] = 0]
    /\ flight' = [flight EXCEPT ![t] = Idle]
    /\ UNCHANGED <<plan, status, retries, dels, proc, batch, executed, runs, faults, history>>

-----------------------------------------------------------------------------
(* Other processes: `loom approve` and `deny`, whatever was decided before, and
   `loom agent cancel` of a child or of the root.                           *)
ResolveApproval ==
    /\ \E d \in Ids, decision \in {"approved", "denied"} : \E i \in DOMAIN dels[d].asked :
         /\ dels[d].asked[i] # decision
         /\ dels' = [dels EXCEPT ![d].asked = [@ EXCEPT ![i] = decision]]
    /\ UNCHANGED <<plan, status, retries, lease, running, faults, history>>

Kept(t, D) == IF \E d \in D : dels[d].task = t THEN 0 ELSE lease[t]

CancelAgents(D) ==
    /\ dels' = [d \in Ids |-> IF d \in D THEN [dels[d] EXCEPT !.status = "cancelled"] ELSE dels[d]]
    /\ lease' = [t \in Tasks |-> Kept(t, D)]

Cancel ==
    /\ faults < MaxFaults /\ faults' = faults + 1
    /\ LET live == {d \in Ids : dels[d].status \notin Ended}
       IN  \/ CancelAgents(live) /\ plan' = "cancelled"
           \/ (\E d \in live : CancelAgents({d})) /\ UNCHANGED plan
    /\ UNCHANGED <<status, retries, running, history>>

Crash ==
    /\ runs < MaxRuns     \* bound: the last run is not cut off
    /\ proc.at \in DiesAt /\ \A t \in Tasks : flight[t].at \in DiesAt \cup {Idle.at}
    /\ proc' = Off /\ batch' = {} /\ flight' = [t \in Tasks |-> Idle]
    /\ UNCHANGED <<durable, executed, runs, faults, history>>

Runtime == ConsumeResult \/ AcknowledgeResult \/ RecoverInFlight \/ Decide \/ Launch \/ Collect
Child(t) == ChildSucceeds(t) \/ ChildFails(t) \/ ChildAsks(t) \/ HandleFailure(t) \/ ReleaseTaskLease(t)

Next == Start \/ Runtime \/ (\E t \in Tasks : Child(t)) \/ ResolveApproval \/ Cancel \/ Crash

Spec == Init /\ [][Next]_vars

(* The event loop goes on while the process lives, every child comes back, and the
   root is resumed after a run ended; nobody decides, cancels or crashes by force. *)
FairSpec == Spec /\ WF_vars(Start) /\ WF_vars(Runtime) /\ \A t \in Tasks : WF_vars(Child(t))

-----------------------------------------------------------------------------
(* docs/multi-agent-recovery.md: "Reuse an unfinished child and delegation rather
   than spawning duplicates", over crashes, approvals and reassignments.   *)
OneActiveDelegation ==
    \A d, e \in Ids : dels[d].task = dels[e].task /\ dels[d].status \notin Ended /\ dels[e].status \notin Ended => d = e

(* maxConcurrent bounds the children at work; every one of them holds the lease of
   its task unless it was cancelled, and nobody who was cancelled holds one.  *)
LeasedWork ==
    /\ Cardinality({t \in Tasks : flight[t] # Idle}) <= MaxConcurrent
    /\ \A t \in Tasks : flight[t].at = "work" =>
         lease[t] = flight[t].d \/ dels[flight[t].d].status = "cancelled"
    /\ \A t \in Tasks : lease[t] # 0 => dels[lease[t]].status # "cancelled"

(* The children at work are the ones the tables say are at work: one for a task,
   with its lease, and no more than may run.                               *)
ChildrenAgree == OneActiveDelegation /\ LeasedWork

(* docs/multi-agent-recovery.md: "Consume a child result that was persisted before
   the parent stopped", and "Acknowledge that result exactly once": no result
   completes its task twice, whatever is repaired afterwards.              *)
ConsumedOnce == \A d \in Ids : consumed[d] <= 1

(* "Reviewer rejection reopens the nearest implementation task and resets downstream
   verification tasks" (docs/delegation.md): a completed plan has every task done,
   on the newest results.  The code makes one exception, task by task: a result that
   was under way or unread when a rejection reset its task completes it all the same
   (`overtaken`, until the task is launched anew on what is then final), and what
   rests on that counts too.  Crashes, retries, approvals and cancellations make no
   other.                                                                   *)
CompletedRestsOn ==
    plan = "completed" => \A t \in Tasks :
        /\ status[t] = "completed"
        /\ t \in stale => t \in overtaken \/ Deps[t] \cap stale # {}

(* Every result is consumed once, and a completed plan rests on the newest results
   but for those a rejection overtook.                                     *)
ResultsCount == TypeOK /\ ConsumedOnce /\ CompletedRestsOn

(* Finished work is reopened by the rejection of a verification only, which counts a
   retry of the task it repairs.                                           *)
RejectedFor(t) ==
    \E v \in Verifying : /\ flight[v].at = "retryable" /\ Repair[v] \in 1 .. t
                         /\ retries'[Repair[v]] = retries[Repair[v]] + 1
DoneStaysDone ==
    [][\A t \in Tasks : status[t] = "completed" /\ status'[t] # "completed" => RejectedFor(t)]_vars

(* The code leaves a task `running` for ever in two cases: its last child was
   cancelled, or has returned a failure that was persisted when the process died,
   before handleFailure() had decided on it (recoverInFlight() finds no active
   delegation, consumeCompletedResults() reads completed ones only).       *)
Abandoned(t) ==
    LET last == Latest({d \in Ids : dels[d].task = t})
    IN  dels[last].status = "cancelled" \/ dels[last].result = "failed"

(* "Consume a child result that was persisted before the parent stopped" and "reuse
   an unfinished child" (docs/multi-agent-recovery.md): what a process that died left
   running goes on, or counts if it was finished, in all other cases.       *)
UnfinishedGoesOn ==
    \A t \in Tasks : (status[t] = "running" /\ proc = Off /\ runs < MaxRuns /\ ~Abandoned(t))
                      ~> (status[t] # "running" \/ Abandoned(t))

(* A restart goes on with what was under way and leaves alone what was finished. *)
WorkGoesOn == DoneStaysDone /\ UnfinishedGoesOn
=============================================================================
