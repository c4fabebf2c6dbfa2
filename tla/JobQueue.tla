------------------------------ MODULE JobQueue ------------------------------
(***************************************************************************)
(* The durable job queue of the Loom daemon: the `jobs`, `daemon_instances`*)
(* and `approval_requests` tables of packages/state/src/index.ts, and the  *)
(* daemon processes of packages/daemon/src/index.ts that claim jobs, run   *)
(* them and write their outcome.                                           *)
(*                                                                         *)
(* Grain of atomicity.  node:sqlite is synchronous, so one SQL statement   *)
(* (or one transaction) is one step.  A daemon is a JavaScript process:    *)
(* between two awaits it runs without interruption by its own timers and   *)
(* callbacks, but another process may write the database between any two  *)
(* of its statements.  loop[d] is the position of daemon d inside such a   *)
(* run: while it is not Idle nothing else of d happens.                    *)
(*                                                                         *)
(* Time is kept as ages and countdowns that Tick advances, which makes     *)
(* every timestamp comparison of the code exact and the state finite:      *)
(* lease[j] is lease_expires_at - now, stopped at -1 once it has passed.   *)
(***************************************************************************)
EXTENDS Integers, FiniteSets

CONSTANTS
    Jobs,            \* job ids (one per idempotency key, see Enqueue)
    Daemons,         \* daemon ids; one per process start, never reused
    Approvals,       \* ids of approval_requests rows
    NoDaemon,        \* claimed_by IS NULL
    NoApproval,      \* waiting_ref IS NULL
    MaxAttempts,     \* jobs.max_attempts
    MaxActive,       \* DaemonOptions.maxConcurrentJobs
    LeaseTime,       \* DaemonOptions.leaseMs, in ticks
    StaleTime,       \* DaemonOptions.staleAfterMs, in ticks
    BackoffUnit,     \* 5000 ms, in ticks
    Priority(_),     \* jobs.priority
    MaxReopens,      \* bound: how often one job is reopened by an operator
    Env              \* which unfavourable circumstances are possible

(***************************************************************************)
(* Circumstances outside the code's control:                               *)
(*  "cli"       commands of another process (`loom job cancel`, `loom job  *)
(*              retry`, `loom approve`, `loom daemon stop`) write the same *)
(*              database file;                                             *)
(*  "overlap"   a second daemon process is launched while one is alive;    *)
(*  "late"      a live process misses its timers for as long as a lease    *)
(*              (a suspended machine, a blocked event loop);               *)
(*  "sdk"       the daemon is LoomApp's (packages/sdk), whose runner       *)
(*              reports a waiting agent without naming the request;        *)
(*  "reopen"    an operator retries a cancelled job whose cancelled        *)
(*              execution has not come back yet.                           *)
(* A process may die at any moment whatever Env is.                        *)
(*                                                                         *)
(* A definition named D_Something is a faulty variant of D: a run with D   *)
(* replaced by it violates the property PROJECT.json names beside it.      *)
(***************************************************************************)
Circumstances == {"cli", "overlap", "late", "sdk", "reopen"}

ASSUME ConstantsAssumption ==
    /\ NoDaemon \notin Daemons
    /\ NoApproval \notin Approvals
    /\ MaxAttempts \in Nat \ {0}
    /\ MaxActive \in Nat \ {0}
    /\ LeaseTime \in Nat /\ LeaseTime > 1
    /\ StaleTime \in Nat /\ StaleTime > 1
    /\ BackoffUnit \in Nat
    /\ MaxReopens \in Nat
    /\ Env \subseteq Circumstances

ASSUME PriorityAssumption == \A j \in Jobs : Priority(j) \in Int

VARIABLES
    status,      \* [Jobs -> jobs.status], "absent" before the insert
    owner,       \* [Jobs -> jobs.claimed_by]
    lease,       \* [Jobs -> jobs.lease_expires_at - now]
    attempt,     \* [Jobs -> jobs.attempt]
    delay,       \* [Jobs -> max(0, jobs.available_at - now)]
    ref,         \* [Jobs -> jobs.waiting_ref]
    root,        \* [Jobs -> jobs.root_agent_id], NoRoot when NULL
    row,         \* [Daemons -> daemon_instances.status], "absent" before the insert
    age,         \* [Daemons -> now - heartbeat_at], stopped at StaleTime
    proc,        \* [Daemons -> phase of the process]
    loop,        \* [Daemons -> position inside an uninterrupted run of code]
    runs,        \* executions of Daemon.execute that are still pending
    asked,       \* those of runs whose agent stopped to wait for an approval
    approval,    \* [Approvals -> approval_requests row]
    claims,      \* history: [Jobs -> number of claims so far], names the executions
    interrupted, \* history: [Jobs -> executions lost when their process ended]
    reopens      \* [Jobs -> operator retries so far], bounded by MaxReopens

jobVars      == <<status, owner, lease, attempt, delay, ref, root>>
daemonVars   == <<row, age, proc, loop>>
runVars      == <<runs, asked>>
historyVars  == <<claims, interrupted, reopens>>
vars == <<jobVars, daemonVars, runVars, approval, historyVars>>

-----------------------------------------------------------------------------
JobStatus == {"queued", "claimed", "running", "waiting", "retry_wait",
              "completed", "failed", "cancelled"}
Active      == {"claimed", "running"}
Cancellable_Any == JobStatus
Cancellable == {"queued", "claimed", "running", "waiting", "retry_wait"}

NoLease == -2
Lapsed  == -1
NoRoot  == 0

(* One execution of a job: the row `claimNextJob` returned (its attempt and
   root are read once, there) and the claim that identifies it.  A run whose
   row had no root creates one, named after its claim.                     *)
Run == [job : Jobs, daemon : Daemons, claim : Nat \ {0}, attempt : Nat,
        root : Nat \ {0}, mapped : BOOLEAN]

Outcome == {"completed", "cancelled", "failed", "retryable", "threw", "waiting"}

Idle == [pc |-> "idle"]
Position ==
    {Idle} \cup [pc : {"start", "root"}, run : Run]
           \cup [pc : {"write"}, run : Run, outcome : Outcome,
                 ref : Approvals \cup {NoApproval}]
           \cup [pc : {"deny"}, job : Jobs]

NoRequest == [job |-> "none", root |-> NoRoot, status |-> "absent"]

Live(d)      == proc[d] \notin {"off", "dead"}
RunsOf(d)    == {r \in runs : r.daemon = d}
RunsFor(j)   == {r \in runs : r.job = j}
Listening(d) == proc[d] = "up" /\ loop[d] = Idle
Expired(j)   == lease[j] # NoLease /\ lease[j] < 0
Claimable_LeaseIgnored(j) == status[j] \in {"queued", "retry_wait"} \cup Active /\ delay[j] = 0
Claimable(j) ==
    /\ \/ status[j] \in {"queued", "retry_wait"}
       \/ status[j] \in Active /\ Expired(j)
    /\ delay[j] = 0

(* listApprovals(root).find(pending): the pending requests of one root *)
PendingFor(j, n) ==
    {a \in Approvals : /\ approval[a].job = j
                       /\ approval[a].root = n
                       /\ approval[a].status = "pending"}

TypeOK ==
    /\ status \in [Jobs -> JobStatus \cup {"absent"}]
    /\ owner \in [Jobs -> Daemons \cup {NoDaemon}]
    /\ lease \in [Jobs -> NoLease .. LeaseTime]
    /\ attempt \in [Jobs -> Nat]
    /\ delay \in [Jobs -> Nat]
    /\ ref \in [Jobs -> Approvals \cup {NoApproval}]
    /\ root \in [Jobs -> Nat]
    /\ row \in [Daemons -> {"absent", "running", "stopped"}]
    /\ age \in [Daemons -> 0 .. StaleTime]
    /\ proc \in [Daemons -> {"off", "checked", "inserted", "starting", "up",
                             "stopping", "exiting", "dead"}]
    /\ loop \in [Daemons -> Position]
    /\ runs \subseteq Run
    /\ asked \subseteq runs
    /\ approval \in [Approvals ->
                       {NoRequest} \cup [job : Jobs, root : Nat \ {0},
                                         status : {"pending", "approved", "denied"}]]
    /\ claims \in [Jobs -> Nat]
    /\ interrupted \in [Jobs -> Nat]
    /\ reopens \in [Jobs -> 0 .. MaxReopens]

Init ==
    /\ status = [j \in Jobs |-> "absent"]
    /\ owner = [j \in Jobs |-> NoDaemon]
    /\ lease = [j \in Jobs |-> NoLease]
    /\ attempt = [j \in Jobs |-> 0]
    /\ delay = [j \in Jobs |-> 0]
    /\ ref = [j \in Jobs |-> NoApproval]
    /\ root = [j \in Jobs |-> NoRoot]
    /\ row = [d \in Daemons |-> "absent"]
    /\ age = [d \in Daemons |-> 0]
    /\ proc = [d \in Daemons |-> "off"]
    /\ loop = [d \in Daemons |-> Idle]
    /\ runs = {}
    /\ asked = {}
    /\ approval = [a \in Approvals |-> NoRequest]
    /\ claims = [j \in Jobs |-> 0]
    /\ interrupted = [j \in Jobs |-> 0]
    /\ reopens = [j \in Jobs |-> 0]

-----------------------------------------------------------------------------
(* Producers.                                                              *)

(* enqueueJob: INSERT OR IGNORE under the unique idempotency key.  A second
   call with the same key returns the existing row and changes nothing, so
   the only step with an effect is the first.                              *)
Enqueue(j) ==
    /\ status[j] = "absent"
    /\ status' = [status EXCEPT ![j] = "queued"]
    /\ UNCHANGED <<owner, lease, attempt, delay, ref, root,
                   daemonVars, runVars, approval, historyVars>>

-----------------------------------------------------------------------------
(* Life of a daemon process.                                               *)

(* startDaemon, first statement: getActiveDaemon finds no other row that is
   `running` with a fresh heartbeat; otherwise start() throws.             *)
CheckActiveDaemon(d) ==
    /\ proc[d] = "off"
    /\ "overlap" \notin Env => \A e \in Daemons : ~Live(e)
    /\ \A e \in Daemons \ {d} : ~(row[e] = "running" /\ age[e] < StaleTime)
    /\ proc' = [proc EXCEPT ![d] = "checked"]
    /\ UNCHANGED <<jobVars, row, age, loop, runVars, approval, historyVars>>

(* startDaemon, second statement: the upsert of the daemon's own row. *)
InsertDaemonRow(d) ==
    /\ proc[d] = "checked"
    /\ row' = [row EXCEPT ![d] = "running"]
    /\ age' = [age EXCEPT ![d] = 0]
    /\ proc' = [proc EXCEPT ![d] = "inserted"]
    /\ UNCHANGED <<jobVars, loop, runVars, approval, historyVars>>

(* Daemon.start calls recoverStaleJobs(now + leaseMs, now): every claimed or
   running job is requeued, except those leased in this very instant.      *)
RecoverStaleJobs(d) ==
    LET stale == {j \in Jobs : /\ status[j] \in Active
                               /\ lease[j] # NoLease
                               /\ lease[j] < LeaseTime}
    IN  /\ proc[d] = "inserted"
        /\ status' = [j \in Jobs |-> IF j \in stale THEN "queued" ELSE status[j]]
        /\ owner' = [j \in Jobs |-> IF j \in stale THEN NoDaemon ELSE owner[j]]
        /\ lease' = [j \in Jobs |-> IF j \in stale THEN NoLease ELSE lease[j]]
        /\ delay' = [j \in Jobs |-> IF j \in stale THEN 0 ELSE delay[j]]
        /\ proc' = [proc EXCEPT ![d] = "starting"]
        /\ UNCHANGED <<attempt, ref, root, row, age, loop,
                       runVars, approval, historyVars>>

(* Bots and control plane have started: heartbeat and poll timers are set. *)
FinishStart(d) ==
    /\ proc[d] = "starting"
    /\ proc' = [proc EXCEPT ![d] = "up"]
    /\ UNCHANGED <<jobVars, row, age, loop, runVars, approval, historyVars>>

(* The process of d ends and takes its pending executions with it. *)
LoseRuns(d) ==
    /\ runs' = runs \ RunsOf(d)
    /\ asked' = asked \ RunsOf(d)
    /\ interrupted' = [j \in Jobs |-> interrupted[j]
                                      + Cardinality(RunsOf(d) \cap RunsFor(j))]
    /\ loop' = [loop EXCEPT ![d] = Idle]
    /\ UNCHANGED <<claims, reopens>>

(* A transport or the control plane failed to start: stopDaemon, rethrow. *)
FailStart(d) ==
    /\ proc[d] = "starting"
    /\ \E e \in Daemons : proc[e] = "off"   \* bound: the last process start succeeds
    /\ row' = [row EXCEPT ![d] = "stopped"]
    /\ age' = [age EXCEPT ![d] = 0]
    /\ proc' = [proc EXCEPT ![d] = "dead"]
    /\ UNCHANGED <<jobVars, loop, runVars, approval, historyVars>>

(* SIGTERM/SIGINT: stop() stops ticking and clears the poll and heartbeat timers. *)
BeginStop(d) ==
    /\ Listening(d)
    /\ \E e \in Daemons : proc[e] = "off"   \* bound: the last daemon keeps serving
    /\ proc' = [proc EXCEPT ![d] = "stopping"]
    /\ UNCHANGED <<jobVars, row, age, loop, runVars, approval, historyVars>>

(* No execution is pending or the grace period is over: stopDaemon. *)
FinishStop(d) ==
    /\ proc[d] = "stopping"
    /\ loop[d] = Idle
    /\ row' = [row EXCEPT ![d] = "stopped"]
    /\ age' = [age EXCEPT ![d] = 0]
    /\ proc' = [proc EXCEPT ![d] = "exiting"]
    /\ UNCHANGED <<jobVars, loop, runVars, approval, historyVars>>

(* The shutdown handler of `loom daemon start` calls process.exit. *)
Exit(d) ==
    /\ proc[d] = "exiting"
    /\ loop[d] = Idle
    /\ proc' = [proc EXCEPT ![d] = "dead"]
    /\ LoseRuns(d)
    /\ UNCHANGED <<jobVars, row, age, approval>>

Crash(d) ==
    /\ Live(d)
    /\ \E e \in Daemons : proc[e] = "off"   \* bound: the last daemon does not die
    /\ proc' = [proc EXCEPT ![d] = "dead"]
    /\ LoseRuns(d)
    /\ UNCHANGED <<jobVars, row, age, approval>>

(* The heartbeat timer: sets the row to `running` whatever it was. *)
Heartbeat(d) ==
    /\ Listening(d)
    /\ row' = [row EXCEPT ![d] = "running"]
    /\ age' = [age EXCEPT ![d] = 0]
    /\ <<row', age'>> # <<row, age>>
    /\ UNCHANGED <<jobVars, proc, loop, runVars, approval, historyVars>>

-----------------------------------------------------------------------------
(* Claiming and running.                                                   *)

HasSlot(d) == Cardinality(RunsOf(d)) < MaxActive

ClaimedRun_FreshRoot(d, j) ==
    [job |-> j, daemon |-> d, claim |-> claims[j] + 1, attempt |-> attempt[j] + 1,
     root |-> claims[j] + 1, mapped |-> FALSE]

(* The row as claimNextJob returns it to execute(). *)
ClaimedRun(d, j) ==
    [job |-> j, daemon |-> d, claim |-> claims[j] + 1, attempt |-> attempt[j] + 1,
     root |-> IF root[j] # NoRoot THEN root[j] ELSE claims[j] + 1,
     mapped |-> root[j] # NoRoot]

Granted_Null == NoLease

(* lease_expires_at, as claimNextJob, updateJob(running) and renewJobLease write it *)
Granted == LeaseTime

(* tick(): claimNextJob in one transaction, while active < maxConcurrentJobs.
   The order within one priority is left open.                             *)
ClaimNextJob(d, j) ==
    /\ Listening(d)
    /\ HasSlot(d)
    /\ Claimable(j)
    /\ \A k \in Jobs : Claimable(k) => Priority(k) <= Priority(j)
    /\ runs' = runs \cup {ClaimedRun(d, j)}
    /\ loop' = [loop EXCEPT ![d] = [pc |-> "start", run |-> ClaimedRun(d, j)]]
    /\ status' = [status EXCEPT ![j] = "claimed"]
    /\ owner' = [owner EXCEPT ![j] = d]
    /\ lease' = [lease EXCEPT ![j] = Granted]
    /\ attempt' = [attempt EXCEPT ![j] = @ + 1]
    /\ claims' = [claims EXCEPT ![j] = @ + 1]
    /\ UNCHANGED <<delay, ref, root, row, age, proc, asked, approval,
                   interrupted, reopens>>

(* execute(): updateJob(running), unconditional, renews claim and lease.
   Without a root DefaultJobRunner.run goes on to map one, else it awaits. *)
StartRun(d) ==
    /\ loop[d].pc = "start"
    /\ LET r == loop[d].run
       IN  /\ status' = [status EXCEPT ![r.job] = "running"]
           /\ owner' = [owner EXCEPT ![r.job] = d]
           /\ lease' = [lease EXCEPT ![r.job] = Granted]
           /\ loop' = [loop EXCEPT ![d] =
                         IF r.mapped THEN Idle ELSE [pc |-> "root", run |-> r]]
    /\ UNCHANGED <<attempt, delay, ref, root, row, age, proc,
                   runVars, approval, historyVars>>

(* DefaultJobRunner.run: createAgentRecord, then updateJob(claimed, root). *)
MapRoot(d) ==
    /\ loop[d].pc = "root"
    /\ LET r == loop[d].run
       IN  /\ status' = [status EXCEPT ![r.job] = "claimed"]
           /\ root' = [root EXCEPT ![r.job] = r.root]
    /\ loop' = [loop EXCEPT ![d] = Idle]
    /\ UNCHANGED <<owner, lease, attempt, delay, ref, row, age, proc,
                   runVars, approval, historyVars>>

(* execute()'s interval: renewJobLease, conditional on owner and lease. *)
RenewJobLease(d, j) ==
    /\ Live(d) /\ loop[d] = Idle
    /\ \E r \in runs : r.daemon = d /\ r.job = j
    /\ owner[j] = d
    /\ status[j] \in Active
    /\ lease[j] > 0
    /\ lease' = [lease EXCEPT ![j] = Granted]
    /\ lease' # lease
    /\ UNCHANGED <<status, owner, attempt, delay, ref, root,
                   daemonVars, runVars, approval, historyVars>>

(* The agent of a run reaches a gated tool: createApproval inserts a pending
   request for its root, or finds the one already there; the agent is set to
   `waiting` and the orchestrator is on its way back.                      *)
RequestApproval(r, a) ==
    /\ r \in runs \ asked
    /\ loop[r.daemon] = Idle
    /\ \/ approval[a] = NoRequest
       \/ a \in PendingFor(r.job, r.root)
    /\ asked' = asked \cup {r}
    /\ approval' = [approval EXCEPT ![a] = [job |-> r.job, root |-> r.root,
                                            status |-> "pending"]]
    /\ UNCHANGED <<jobVars, daemonVars, runs, historyVars>>

Discarded_Never(r) == FALSE

(* execute() drops the outcome of a job that was cancelled meanwhile. *)
Discarded(r) == status[r.job] = "cancelled"

(* waitingRef of a waiting agent: DefaultJobRunner looks for a request of the
   root that is pending now, LoomApp's runner leaves the reference out.     *)
Reported(r) ==
    IF PendingFor(r.job, r.root) = {} \/ "sdk" \in Env
      THEN {NoApproval}
      ELSE PendingFor(r.job, r.root)

(* The runner settles.  execute() then reads the job: a cancelled one is left
   alone, otherwise the outcome will be written.                           *)
RunnerReturns(r, outcome, a) ==
    /\ r \in runs
    /\ loop[r.daemon] = Idle
    /\ IF r \in asked
         THEN /\ outcome = "waiting"
              /\ a \in Reported(r)
         ELSE outcome # "waiting" /\ a = NoApproval
    /\ IF Discarded(r)
         THEN /\ runs' = runs \ {r}
              /\ asked' = asked \ {r}
              /\ UNCHANGED loop
         ELSE /\ loop' = [loop EXCEPT ![r.daemon] =
                            [pc |-> "write", run |-> r, outcome |-> outcome,
                             ref |-> a]]
              /\ UNCHANGED runVars
    /\ UNCHANGED <<jobVars, row, age, proc, approval, historyVars>>

EndRun(d) ==
    /\ runs' = runs \ {loop[d].run}
    /\ asked' = asked \ {loop[d].run}
    /\ loop' = [loop EXCEPT ![d] = Idle]

Refunded_Nothing(n) == n

(* attempt = CASE WHEN attempt > 0 THEN attempt - 1 ELSE 0 END *)
Refunded(n) == IF n > 0 THEN n - 1 ELSE 0

(* execute(): setJobWaiting gives the claim and the attempt back. *)
WriteWaiting(d) ==
    /\ loop[d].pc = "write"
    /\ loop[d].outcome = "waiting"
    /\ LET j == loop[d].run.job
       IN  /\ status' = [status EXCEPT ![j] = "waiting"]
           /\ attempt' = [attempt EXCEPT ![j] = Refunded(@)]
           /\ owner' = [owner EXCEPT ![j] = NoDaemon]
           /\ lease' = [lease EXCEPT ![j] = NoLease]
           /\ ref' = [ref EXCEPT ![j] = loop[d].ref]
    /\ EndRun(d)
    /\ UNCHANGED <<delay, root, row, age, proc, approval, historyVars>>

(* execute(): updateJob with the settled status.  The retry decision uses the
   attempt read at claim time; the row keeps its claim and lease.          *)
Backoff(n) ==   \* Math.min(30000, 5000 * 2 ** (n - 1))
    BackoffUnit * (IF n <= 1 THEN 1 ELSE IF n <= 3 THEN 2 * (n - 1) ELSE 6)

Retries_OneTooMany(r, outcome) == outcome \in {"retryable", "threw"} /\ r.attempt <= MaxAttempts
Retries(r, outcome) == outcome \in {"retryable", "threw"} /\ r.attempt < MaxAttempts
SettledStatus_Raw(r, outcome) == IF Retries(r, outcome) THEN "retry_wait" ELSE outcome
SettledStatus(r, outcome) ==
    IF outcome \in {"completed", "cancelled"} THEN outcome
    ELSE IF Retries(r, outcome) THEN "retry_wait" ELSE "failed"

WriteOutcome(d) ==
    /\ loop[d].pc = "write"
    /\ loop[d].outcome # "waiting"
    /\ LET r == loop[d].run
           o == loop[d].outcome
       IN  /\ status' = [status EXCEPT ![r.job] = SettledStatus(r, o)]
           /\ root' = [root EXCEPT ![r.job] = IF o = "threw" THEN @ ELSE r.root]
           /\ delay' = [delay EXCEPT ![r.job] =
                          IF Retries(r, o) THEN Backoff(r.attempt) ELSE @]
    /\ EndRun(d)
    /\ UNCHANGED <<owner, lease, attempt, ref, row, age, proc, approval, historyVars>>

-----------------------------------------------------------------------------
(* wakeWaitingJobs, run by every tick.                                     *)

Decided_DenialMissed(j, decision) ==
    /\ decision = "approved"
    /\ status[j] = "waiting"
    /\ ref[j] # NoApproval
    /\ approval[ref[j]].status = decision

(* The approval a waiting job points at, when it belongs to the job's root. *)
Decided(j, decision) ==
    /\ status[j] = "waiting"
    /\ ref[j] # NoApproval
    /\ approval[ref[j]].status = decision
    /\ approval[ref[j]].job = j
    /\ root[j] # NoRoot => approval[ref[j]].root = root[j]

WakeWaitingJob(d, j) ==
    /\ Listening(d)
    /\ Decided(j, "approved")
    /\ status' = [status EXCEPT ![j] = "queued"]
    /\ ref' = [ref EXCEPT ![j] = NoApproval]
    /\ delay' = [delay EXCEPT ![j] = 0]
    /\ UNCHANGED <<owner, lease, attempt, root,
                   daemonVars, runVars, approval, historyVars>>

(* The denial is read here and written by the next statement. *)
ReadDenial(d, j) ==
    /\ Listening(d)
    /\ Decided(j, "denied")
    /\ loop' = [loop EXCEPT ![d] = [pc |-> "deny", job |-> j]]
    /\ UNCHANGED <<jobVars, row, age, proc, runVars, approval, historyVars>>

WriteDenial(d) ==
    /\ loop[d].pc = "deny"
    /\ status' = [status EXCEPT ![loop[d].job] = "failed"]
    /\ loop' = [loop EXCEPT ![d] = Idle]
    /\ UNCHANGED <<owner, lease, attempt, delay, ref, root, row, age, proc,
                   runVars, approval, historyVars>>

-----------------------------------------------------------------------------
(* Operators.  The control plane calls Daemon.cancelJob, retryJob and      *)
(* decideApproval inside the daemon; the CLI writes from its own process.  *)

CancelJob(d, j) ==
    /\ Listening(d)
    /\ status[j] \in Cancellable
    /\ status' = [status EXCEPT ![j] = "cancelled"]
    /\ UNCHANGED <<owner, lease, attempt, delay, ref, root,
                   daemonVars, runVars, approval, historyVars>>

Reopen(j) ==
    /\ reopens[j] < MaxReopens
    /\ reopens' = [reopens EXCEPT ![j] = @ + 1]
    /\ status' = [status EXCEPT ![j] = "queued"]
    /\ delay' = [delay EXCEPT ![j] = 0]

RetryJob(d, j) ==
    /\ Listening(d)
    /\ status[j] \in {"failed", "cancelled"}
    /\ "reopen" \notin Env => RunsFor(j) = {}
    /\ Reopen(j)
    /\ attempt' = [attempt EXCEPT ![j] = 0]
    /\ owner' = [owner EXCEPT ![j] = NoDaemon]
    /\ lease' = [lease EXCEPT ![j] = NoLease]
    /\ ref' = [ref EXCEPT ![j] = NoApproval]
    /\ UNCHANGED <<root, daemonVars, runVars, approval, claims, interrupted>>

DecideApproval(d, a, decision) ==
    /\ Listening(d)
    /\ approval[a].status = "pending"
    /\ approval' = [approval EXCEPT ![a].status = decision]
    /\ UNCHANGED <<jobVars, daemonVars, runVars, historyVars>>

(* `loom job cancel`: updateJob(cancelled), from any status. *)
CliCancel(j) ==
    /\ "cli" \in Env
    /\ status[j] \notin {"absent", "cancelled"}
    /\ status' = [status EXCEPT ![j] = "cancelled"]
    /\ UNCHANGED <<owner, lease, attempt, delay, ref, root,
                   daemonVars, runVars, approval, historyVars>>

(* `loom job retry`: updateJob(queued), from any status; attempt is kept. *)
CliRetry(j) ==
    /\ "cli" \in Env
    /\ status[j] # "absent"
    /\ Reopen(j)
    /\ UNCHANGED <<owner, lease, attempt, ref, root,
                   daemonVars, runVars, approval, claims, interrupted>>

(* `loom approve` and `loom deny`: resolveApproval, decided or not. *)
CliDecide(a, decision) ==
    /\ "cli" \in Env
    /\ approval[a].status \notin {"absent", decision}
    /\ approval' = [approval EXCEPT ![a].status = decision]
    /\ UNCHANGED <<jobVars, daemonVars, runVars, historyVars>>

(* `loom daemon stop`: stopDaemon on the row of an active daemon. *)
CliDaemonStop(d) ==
    /\ "cli" \in Env
    /\ row[d] = "running" /\ age[d] < StaleTime
    /\ row' = [row EXCEPT ![d] = "stopped"]
    /\ age' = [age EXCEPT ![d] = 0]
    /\ UNCHANGED <<jobVars, proc, loop, runVars, approval, historyVars>>

-----------------------------------------------------------------------------
(* Time.  Code between two awaits takes no time.  Unless "late" is in Env a
   live process fires its timers before they matter: it renews a lease it
   holds before it runs out, and start-up, heartbeat interval and shutdown
   grace are shorter than staleAfterMs.                                    *)
OnTime ==
    /\ \A d \in Daemons : row[d] = "running" /\ proc[d] \in {"starting", "up", "stopping"}
                            => age[d] + 1 < StaleTime
    /\ \A r \in runs : status[r.job] \in Active /\ owner[r.job] = r.daemon
                            => lease[r.job] > 1

Tick ==
    /\ \A d \in Daemons : loop[d] = Idle /\ proc[d] \notin {"checked", "inserted"}
    /\ "late" \notin Env => OnTime
    /\ lease' = [j \in Jobs |-> IF lease[j] >= 0 THEN lease[j] - 1 ELSE lease[j]]
    /\ delay' = [j \in Jobs |-> IF delay[j] > 0 THEN delay[j] - 1 ELSE 0]
    /\ age' = [d \in Daemons |-> IF row[d] # "absent" /\ age[d] < StaleTime
                                   THEN age[d] + 1 ELSE age[d]]
    /\ <<lease', delay', age'>> # <<lease, delay, age>>
    /\ UNCHANGED <<status, owner, attempt, ref, root, row, proc, loop,
                   runVars, approval, historyVars>>

-----------------------------------------------------------------------------
Lifecycle(d) ==
    \/ CheckActiveDaemon(d) \/ InsertDaemonRow(d) \/ RecoverStaleJobs(d)
    \/ FinishStart(d) \/ FailStart(d) \/ BeginStop(d) \/ FinishStop(d)
    \/ Exit(d) \/ Crash(d) \/ Heartbeat(d)

Execution(d) ==
    \/ \E j \in Jobs : ClaimNextJob(d, j) \/ RenewJobLease(d, j)
    \/ StartRun(d) \/ MapRoot(d) \/ WriteWaiting(d) \/ WriteOutcome(d)

Runner ==
    \E r \in runs :
        \/ \E a \in Approvals : RequestApproval(r, a)
        \/ \E o \in Outcome, a \in Approvals \cup {NoApproval} : RunnerReturns(r, o, a)

Wakeups(d) ==
    \/ \E j \in Jobs : WakeWaitingJob(d, j) \/ ReadDenial(d, j)
    \/ WriteDenial(d)

Operator ==
    \/ \E d \in Daemons, j \in Jobs : CancelJob(d, j) \/ RetryJob(d, j)
    \/ \E d \in Daemons, a \in Approvals, decision \in {"approved", "denied"} :
           DecideApproval(d, a, decision)
    \/ \E j \in Jobs : CliCancel(j) \/ CliRetry(j)
    \/ \E a \in Approvals, decision \in {"approved", "denied"} : CliDecide(a, decision)
    \/ \E d \in Daemons : CliDaemonStop(d)

Next ==
    \/ \E j \in Jobs : Enqueue(j)
    \/ \E d \in Daemons : Lifecycle(d) \/ Execution(d) \/ Wakeups(d)
    \/ Runner
    \/ Operator
    \/ Tick

Spec == Init /\ [][Next]_vars

(***************************************************************************)
(* Fairness.  Timers of a live process fire and callbacks run (the event   *)
(* loop), the provider behind a runner eventually answers or throws, and   *)
(* whoever supervises the daemon launches it again after it ended.         *)
(***************************************************************************)
Fairness ==
    /\ WF_vars(\E d \in Daemons : CheckActiveDaemon(d))
    /\ \A d \in Daemons :
         /\ WF_vars(InsertDaemonRow(d)) /\ WF_vars(RecoverStaleJobs(d))
         /\ WF_vars(FinishStart(d)) /\ WF_vars(FinishStop(d))
         /\ WF_vars(Exit(d)) /\ WF_vars(Heartbeat(d))
         /\ WF_vars(\E j \in Jobs : ClaimNextJob(d, j))
         /\ WF_vars(StartRun(d)) /\ WF_vars(MapRoot(d))
         /\ WF_vars(WriteWaiting(d)) /\ WF_vars(WriteOutcome(d))
         /\ WF_vars(WriteDenial(d))
         /\ \A j \in Jobs : /\ WF_vars(RenewJobLease(d, j))
                            /\ WF_vars(WakeWaitingJob(d, j))
                            /\ WF_vars(ReadDenial(d, j))
    /\ \A j \in Jobs :
         WF_vars(\E r \in RunsFor(j), o \in Outcome, a \in Approvals \cup {NoApproval} :
                    RunnerReturns(r, o, a))
    /\ WF_vars(Tick)

FairSpec == Spec /\ Fairness

-----------------------------------------------------------------------------
(* Properties.  The comment of each names the circumstances it needs.      *)

(* A job is executed by one runner at a time: the lease, its renewal and the
   recovery at start-up never hand out a job whose execution is pending.
   Env = {}: every circumstance breaks it, see the README.                 *)
SingleExecution == \A r1, r2 \in runs : r1.job = r2.job => r1 = r2

(* What a pending execution may rely on: the row still carries its claim, its
   attempt number and an unexpired lease, unless an operator cancelled it, so
   the unconditional updateJob of execute() overwrites nobody.  Env = {}.   *)
ClaimHeld ==
    \A r \in runs : \/ status[r.job] = "cancelled"
                    \/ /\ status[r.job] \in Active
                       /\ owner[r.job] = r.daemon
                       /\ lease[r.job] > 0
                       /\ attempt[r.job] = r.attempt

(* Nobody executes, and nobody writes back, a job that is somebody else's by now.  Env = {}. *)
ExecutionSafe == SingleExecution /\ ClaimHeld

(* A claimed or running row always carries a claim and a lease, so that lease
   expiry or the next daemon's recovery can take it over: no job is stranded
   in a state that claimNextJob and recoverStaleJobs both skip.
   Any Env without "overlap".                                              *)
RecoverableClaim ==
    \A j \in Jobs : status[j] \in Active => owner[j] # NoDaemon /\ lease[j] # NoLease

(* The retry budget: only executions cut off by the end of their process are
   executed beyond max_attempts.  claimNextJob itself never looks at the
   budget, the decision taken by execute() has to keep it.  Env = {}.       *)
AttemptBudget ==
    \A j \in Jobs : attempt[j] <= MaxAttempts + interrupted[j]

(* A completed job keeps its status: no stale execution, recovery, denial or
   wake-up touches it.  Env = {}.                                          *)
CompletedIsFinal ==
    [][\A j \in Jobs : status[j] = "completed" => status'[j] = "completed"]_vars

(* A cancellation by an operator is undone by an operator's retry only, never
   by an execution that comes back, a wake-up or a recovery.
   Env without "cli" and "overlap": one process writes the database.        *)
CancelSticks ==
    [][\A j \in Jobs : status[j] = "cancelled" /\ status'[j] # "cancelled"
                          => reopens'[j] > reopens[j]]_vars

(* What is settled stays settled, whatever execution, poll or recovery is late.  Env = {}. *)
OutcomeStands == CancelSticks /\ CompletedIsFinal

(* Once mapped, the root agent of a job is never replaced by another: retries
   and recovery resume the same root.  Any Env without "overlap".           *)
RootIsStable == [][\A j \in Jobs : root[j] # NoRoot => root'[j] = root[j]]_vars

(* Waiting for an approval does not consume a retry attempt: the row returns
   to the attempt it had before the claim of the execution that waits.
   Env = {}.                                                               *)
WaitingRefunds ==
    [][\A j \in Jobs : status[j] # "waiting" /\ status'[j] = "waiting"
          => \E r \in runs \ runs' : r.job = j /\ attempt'[j] = r.attempt - 1]_vars

(* The request a waiting job names, decided at any time after the runner looked for
   it, before or after the row says `waiting`, makes the job leave `waiting`: the
   poll loses no decision.  A row that names no request (Reported found none
   pending, or "sdk") is left out here: ApprovalWakes is about it.          *)
DecisionWakes ==
    \A j \in Jobs : (/\ status[j] = "waiting"
                     /\ ref[j] # NoApproval
                     /\ approval[ref[j]].status # "pending") ~> status[j] # "waiting"

(* "Approval resolution wakes the same job and root" (docs/jobs.md): a job does not
   stay `waiting` once no request of its root is undecided, whenever the decision
   came.  The code breaks it: when the decision comes before the runner has looked
   for the pending request, waiting_ref stays NULL and no poll looks at the row. *)
ApprovalWakes ==
    \A j \in Jobs : (status[j] = "waiting" /\ PendingFor(j, root[j]) = {}) ~> status[j] # "waiting"

(* Work in the queue is settled or comes to wait on an approval, across lease
   expiry, process death and restart, and shutdown.                        *)
JobSettles ==
    \A j \in Jobs : status[j] \in Active \cup {"queued", "retry_wait"}
                       ~> status[j] \in {"waiting", "completed", "failed", "cancelled"}

(* Nothing is left in the queue, nor waiting for a request it names that is decided. *)
JobsMoveOn == DecisionWakes /\ JobSettles

=============================================================================
